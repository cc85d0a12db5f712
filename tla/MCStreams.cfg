SPECIFICATION StreamsSpec
CONSTANTS
    OpenTag <- Opening
    CloseTag <- Closing
    Requests <- AllRequests
    TextChunks <- Chunks
    ReasoningChunks <- Reasons
    TextLimit = 3
    ThinkLimit = 2
    KeepTail = 2
    MaxRaw = 6
    MaxHeard = 2
    MaxTools = 1
INVARIANTS ChatExact ResponsesExact
CHECK_DEADLOCK FALSE
