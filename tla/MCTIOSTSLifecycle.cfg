SPECIFICATION Spec
CONSTANTS
  Label <- MCLabel
  Name <- MCName
  Atom <- MCAtom
  Clock <- MCClock
  Variable = {}
  Update = {}
  MaxTransitions = 3
  MaxClocks = 2
  NewTransition <- MCNewTransition
INVARIANTS
  TypeOK
  CopyListsMatchMap
  CopyResolvesClocks
PROPERTY
  CloneKeepsLatest
CHECK_DEADLOCK FALSE
