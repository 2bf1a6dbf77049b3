SPECIFICATION Spec
CONSTANTS
  Label <- MCLabel
  Name <- MCName
  Atom = {"g", "h", "glued"}
  Clock = {}
  Variable = {}
  Update = {"w := 0"}
  Glued = "glued"
  Pairs <- OnePair
  MaxCalls = 2
INVARIANT
  ReturnedClosed
CHECK_DEADLOCK FALSE
