CONSTANTS
    WriteShardRequestMessage = 1
    ExecuteStatementRequestMessage = 3
    CreateIteratorRequestMessage = 5
    FieldDimensionsRequestMessage = 7
    MaxFrames = 2
    LenWidth = 2
    MaxMessageSize = 2
    Frames <- MCFramesUnknown
SPECIFICATION Spec
INVARIANT
    FramesAligned
CHECK_DEADLOCK FALSE
