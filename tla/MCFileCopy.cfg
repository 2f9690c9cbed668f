SPECIFICATION Spec
CONSTANTS
    Size = 2
    MaxChains = 2
    Scenarios = {{}, {"crash", "open"}, {"crash", "hasty"}, {"unplug", "open", "hasty"},
                 {"full", "crash", "hasty"}}
INVARIANTS SuccessIsCompleteBarring NoPartialFile InstallIsFreshBarring
PROPERTIES CopyEnds
