SPECIFICATION Spec
CONSTANTS
  Label <- MCLabel
  Name <- MCName
  Atom = {"g", "h", "glued"}
  Clock = {}
  Variable = {}
  Update = {"w := 0"}
  Glued = "glued"
  Pairs <- AnyPairs
  MaxCalls = 2
INVARIANTS
  TypeOK
  Sound
  NothingOverwritten
  ResultCloneable
  RecursionBounded
  CrashOnlyOnUndeclared
  FirstCallClosed
PROPERTIES
  CallEnds
  RefinesProduct
CHECK_DEADLOCK FALSE
