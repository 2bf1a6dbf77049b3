SPECIFICATION Spec
CONSTANTS
  Label <- MCLabel
  Name = {"a", "b", "init"}
  Atom = {"g", "h", "not TRUE", "not g", "not h", "not both", "not other"}
  Clock = {"c"}
  Variable = {}
  Update = {}
  Test = {"g", "h"}
  Not <- MCNot
  TestPurposes <- MCTestPurposes
INVARIANTS
  TypeOK
  ReturnedComplete
  MapComplete
  ChoicePreserved
  ThrownIffUnsupported
CHECK_DEADLOCK FALSE
