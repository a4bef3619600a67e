CONSTANTS
    a1 = a1
    a2 = a2
    i = i
    j = j
    f1 = f1
    f2 = f2
    r1 = r1
    r2 = r2
    r3 = r3
    gemini = gemini
    AuthIDs = {a1}
    Fingerprints = {f1}
    Requests = {r1, r2, r3}
    NoRequest = NoRequest
    Threshold = 2
    Window = 1
    InitialCooldown = 1
    MaxCooldown = 2
    HalfOpenLease = 1
    EvidenceMaxAge = 2
    FutureTolerance = 1
    AuthIndexes = {i}
    Groups = {gemini}
    Others = {"other"}
    CandidateLists <- OneCandidate
    HostRosters <- FixedRoster
    Outcomes = {"generic"}
    Modes = {"enforce"}
    FailOpen = FALSE
    NoEntry = NoEntry
    NoIndex = NoIndex
    NoIdentity = NoIdentity
    NoDispatch = NoDispatch
    NoProbe = NoProbe
    MaxTime = 3
    MaxDelay = 1
    MaxAttempts = 1
    MaxReloads = 0
SPECIFICATION Spec
INVARIANTS
    EveryBlockEnds
PROPERTIES
    KnowledgeOnlyGrows
CHECK_DEADLOCK FALSE
SYMMETRY RequestSymmetry
