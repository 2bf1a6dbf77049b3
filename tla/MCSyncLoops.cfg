SPECIFICATION Spec
CONSTANTS
  Label <- MCLabel
  Name <- MCName
  Atom = {"g", "h"}
  Clock = {"c", "d"}
  Variable = {"v"}
  Update = {"x := 0"}
  Instances <- LoopInstances
  MaxDepth = 14
PROPERTY
  Ends
CHECK_DEADLOCK FALSE
