SPECIFICATION Spec
CONSTANTS
  Label <- MCLabel
  Name <- MCName
  Atom = {"g", "h"}
  Clock = {"c", "d"}
  Variable = {"v"}
  Update = {"x := 0"}
  Instances <- MCInstances
  MaxDepth = 16
INVARIANTS
  TypeOK
  Sound
  ReturnedComplete
  ReturnedCloneable
PROPERTY
  EndsOnDistinctKeys
CHECK_DEADLOCK FALSE
