CONSTANTS
    a1 = a1
    a2 = a2
    Creds = {a1, a2}
    NoCred = NoCred
    None = None
    Keep = Keep
    Priorities <- SomePriorities
    Orders <- Rounds
    Documents <- StartDocuments
    MaxForeign = 1
    MaxFaults = 2
SPECIFICATION Spec
INVARIANTS
    TypeOK
    DeniedNeverWrote
    AloneIsExact
    ReportAligned
PROPERTIES
    OthersKept
CHECK_DEADLOCK FALSE
