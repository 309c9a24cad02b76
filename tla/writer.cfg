SPECIFICATION Spec
CONSTANTS
    MaxPayload = 12
    HeaderLen = 2
    BufferLen = 10
    Prelude = 3
    MaxPart = 3
    SeqIds = 4
    Programs <- Batches
    Compressions = {FALSE, TRUE}
INVARIANTS ServerGetsCommands
PROPERTY SendingEnds
CHECK_DEADLOCK FALSE
