SPECIFICATION GenerationSpec
CONSTANTS
    Identifier <- MCIdentifier
    Separated <- MCSeparated
    Value <- MCValue
    Products <- MCProducts
    Label <- MCLabel
    Zone <- MCZone
    InitialZone <- MCInitialZone
    NoZone <- MCNoZone
    NextZone <- MCNextZone
    IsEmpty <- MCIsEmpty
    AcceptWords <- MCAcceptWords
    MaxSilent = 1
INVARIANT ConditionsJoined
CHECK_DEADLOCK FALSE
