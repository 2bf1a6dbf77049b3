SPECIFICATION Spec
CONSTANTS
  Label <- MCLabel
  Name <- MCName
  Atom = {"g"}
  Clock = {}
  Variable = {}
  Update = {}
  Compiled <- MCCompiled
  Added <- MCAdded
  NewNames <- MCNewNames
  LabelsAfter <- MCLabelsAfter
  MaxCalls = 2
  MaxWord = 6
INVARIANTS
  TypeOK
  ResultCloneable
  NothingMerged
  SequenceFaithful
  InterruptionFaithful
CHECK_DEADLOCK FALSE
