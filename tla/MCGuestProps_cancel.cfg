CONSTANTS
    Sets <- MCSetsExample
    Reads = 3
    ToolMayFail = FALSE
SPECIFICATION Spec
CHECK_DEADLOCK FALSE
PROPERTY CancelEndsWaiter
