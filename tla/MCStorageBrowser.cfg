SPECIFICATION Spec
CONSTANTS
    Holds <- MCHolds
    MaxStack = 2
    MachinePid = 7
    Manifests <- MCManifests
    Scenarios <- MCScenarios
INVARIANTS
    
    ListIsTrue
    
    MenuActsOnItsFile
