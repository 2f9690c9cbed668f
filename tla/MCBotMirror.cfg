SPECIFICATION Spec
CONSTANTS
    InitialTools <- MCTools
    Scenarios <- MCScenarios
CHECK_DEADLOCK FALSE
INVARIANTS
    FreshWhenQuiet
    StatsAreOfTool
    NoticeIsTrueBarring
    CallsReachTheirProcess
    QuestionIsHeld
PROPERTIES
    MaterialIsAnswered
