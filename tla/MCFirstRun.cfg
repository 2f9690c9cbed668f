CONSTANTS
    Magma = TRUE
    Events = {"crash"}
SPECIFICATION Spec
INVARIANTS ResumesAtStep PageIsOfStep
PROPERTIES StepIsSettled CompleteIsFinal
