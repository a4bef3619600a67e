CONSTANTS
    Documents <- NewInstallation
    Updates <- TwoUpdates
    Yamls <- PlainYaml
    NoConfig = NoConfig
    MaxSets = 1
    MaxProbes = 1
    MaxStarts = 1
    MaxHostCalls = 2
    MaxFailures = 0
SPECIFICATION Spec
PROPERTIES
    ChosenSurvives
CHECK_DEADLOCK FALSE
