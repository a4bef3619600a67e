CONSTANTS
    a1 = a1
    a2 = a2
    i = i
    j = j
    f1 = f1
    r1 = r1
    gemini = gemini
    AuthIDs = {a1, a2}
    Fingerprints = {f1}
    Requests = {r1}
    NoRequest = NoRequest
    Threshold = 2
    Window = 1
    InitialCooldown = 1
    MaxCooldown = 2
    HalfOpenLease = 1
    EvidenceMaxAge = 1
    FutureTolerance = 0
    AuthIndexes = {i, j}
    Groups = {gemini}
    Others = {"other"}
    CandidateLists <- Candidates
    HostRosters <- Accounts
    HostPriorities <- OneOrTwo
    NoPriority = NoPriority
    Outcomes = {"explicit"}
    Modes = {"observe", "enforce"}
    FailOpen = FALSE
    NoEntry = NoEntry
    NoIndex = NoIndex
    NoIdentity = NoIdentity
    NoDispatch = NoDispatch
    NoProbe = NoProbe
    MaxTime = 3
    MaxDelay = 1
    MaxAttempts = 1
    MaxReloads = 2
    MaxRounds = 1
SPECIFICATION AdmissionSpec
INVARIANTS
    AdmissionTypeOK
PROPERTIES
    PickedPasses
    ReadinessSticks
    ColdStartKeepsBreakers
CHECK_DEADLOCK FALSE
