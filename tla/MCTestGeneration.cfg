SPECIFICATION FairGeneration
CONSTANTS
    Identifier <- MCIdentifier
    Separated <- MCSeparated
    Value <- MCValue
    Products <- MCProducts
    Label <- MCLabel
    Zone <- MCZone
    InitialZone <- MCInitialZone
    NoZone <- MCNoZone
    NextZone <- MCNextZone
    IsEmpty <- MCIsEmpty
    AcceptWords <- MCAcceptWords
    MaxSilent = 1
INVARIANTS
    GenerationTypeOK
    VisitsBounded
    StepsExact
    BranchesExact
    ThrownOnlyForNames
    TreesComplete
    CasesFaithful
PROPERTY GenerationEnds
CHECK_DEADLOCK FALSE
