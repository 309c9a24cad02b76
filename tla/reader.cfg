SPECIFICATION Spec
CONSTANTS
    MaxPayload = 8
    HeaderLen = 2
    BufferLen = 6
    LenencMax = 3
    Replies <- SomeReplies
    Compressions = {FALSE, TRUE}
    MaxFrame = 3
INVARIANTS WholeMessageRead
PROPERTY ImplementsFlatStream
CHECK_DEADLOCK FALSE
