SPECIFICATION Spec
CONSTANTS
  Label <- MCLabel
  Name = {"x", "y", "u", "init"}
  Atom = {"g", "not TRUE", "not g", "not other"}
  Clock = {"c"}
  Variable = {}
  Update = {}
  Test = {"g"}
  Not <- MCNot
  Models <- MCModels
INVARIANTS
  TypeOK
  FreeInputsAccepted
  SpecifiedKept
  UnsupportedRefused
CHECK_DEADLOCK FALSE
