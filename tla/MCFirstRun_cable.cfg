CONSTANTS
    Magma = TRUE
    Events = {"cable"}
SPECIFICATION Spec
PROPERTY StepIsSettled
