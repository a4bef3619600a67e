CONSTANTS
    a1 = a1
    a2 = a2
    i = i
    j = j
    f1 = f1
    f2 = f2
    r1 = r1
    r2 = r2
    r3 = r3
    gemini = gemini
    AuthIDs = {a1, a2}
    Fingerprints = {f1, f2}
    Requests = {r1}
    NoRequest = NoRequest
    Threshold = 2
    Window = 1
    InitialCooldown = 1
    MaxCooldown = 2
    HalfOpenLease = 1
    EvidenceMaxAge = 2
    FutureTolerance = 1
    AuthIndexes = {i, j}
    Groups = {gemini}
    Others = {"other"}
    CandidateLists <- MixedRoute
    HostRosters <- MovingRoster
    Outcomes = {"explicit"}
    Modes = {"observe", "enforce"}
    FailOpen = TRUE
    NoEntry = NoEntry
    NoIndex = NoIndex
    NoIdentity = NoIdentity
    NoDispatch = NoDispatch
    NoProbe = NoProbe
    MaxTime = 2
    MaxDelay = 1
    MaxAttempts = 1
    MaxReloads = 1
SPECIFICATION Spec
INVARIANTS
    RosterIndexed
CHECK_DEADLOCK FALSE
PROPERTIES
    EvidenceStaysWithCredential
