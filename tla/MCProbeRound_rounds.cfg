CONSTANTS
    Creds <- SomeCreds
    Scenarios <- AllScenarios
    MaxHistory = 2
    MaxFaults = 1
    MaxMoves = 1
SPECIFICATION FairSpec
INVARIANTS
    RoundTypeOK
    SamplesSound
    SavedRoundComplete
    ExhaustedSeen
    OnlyAnsweredChange
    SyncAgrees
    UrgentFirst
    BoostedFirst
    PlanSettles
    NewestRunTrue
PROPERTIES
    NothingForgotten
    RoundEnds
CHECK_DEADLOCK FALSE
