SPECIFICATION Spec
CONSTANTS
    Streams             <- FragmentedText
    PayloadSizeBasic    = 2
    PayloadSizeExtended = 4
    Extended16          = 2
    Extended64          = 3
    MaxMessageSize      = 5
    MaxChunk            = 2
INVARIANT ReadsAll
CHECK_DEADLOCK FALSE
