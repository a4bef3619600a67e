CONSTANTS
    Documents <- AnyDocument
    Updates <- AnyUpdate
    Yamls <- AnyYaml
    NoConfig = NoConfig
    MaxSets = 2
    MaxProbes = 2
    MaxStarts = 2
    MaxHostCalls = 2
    MaxFailures = 1
SPECIFICATION Spec
INVARIANTS
    TypeOK
    OnlyStoredInForce
    KeptWithoutOverlap
    SamplesKept
    InForceIsSound
CHECK_DEADLOCK FALSE
