SPECIFICATION Spec
CONSTANTS
    MaxProcs = 3
    MaxSent = 2
    Scenarios <- MCScenarios
CHECK_DEADLOCK FALSE
INVARIANTS
    LoadsInItsPrint
    FlagsAreOfError
    RestartsWhenReset
PROPERTIES
    AdvancesFromUnpacking
    WaitsEnd
