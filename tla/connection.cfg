SPECIFICATION Spec
CONSTANTS
    Bytes <- AllBytes
    CR = "CR"
    LF = "LF"
    Streams <- AllStreams
    MaxLine = 3
    MaxChunk = 2
    MaxInput = 4
    MaxSend = 2
    MaxOutput = 4
    Window = 2
    Sizes = {1, 3}
    MaxSaid = 3
INVARIANTS
    TypeOK
    LinesAsSent
    VerdictByContent
PROPERTIES
    DeliversInOrder
    Delivered
CHECK_DEADLOCK FALSE
