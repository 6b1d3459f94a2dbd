CONSTANTS
    Sets <- MCSetsMore
    Reads = 2
    ToolMayFail = TRUE
SPECIFICATION Spec
CHECK_DEADLOCK FALSE
INVARIANT TypeOK
INVARIANT ReceivedInOrder
PROPERTY SelectNeverStuck
