SPECIFICATION ReadingSpec
CONSTANTS
    Byte                <- Ends
    Streams             <- AllStreams
    PayloadSizeBasic    = 2
    PayloadSizeExtended = 4
    Extended16          = 2
    Extended64          = 3
    MaxMessageSize      = 5
    MaxChunk            = 3
    Responses           <- AllResponses
    MaxHeaderSize       = 27
    MaxHeaderChunk      = 6
INVARIANTS
    ReadsResponse LimitHolds
    ReadsAll Bounded
    DecodesCharacters SameText
PROPERTY GetsThrough
CHECK_DEADLOCK FALSE
