SPECIFICATION Spec
CONSTANTS
    Jobs <- MCJobs
    MaxNames = 2
    Scenarios <- MCScenarios
INVARIANTS
    FetchListens
    StartsShownJob
    OutcomeIsShown
PROPERTIES
    WaitEnds
    Transfers
