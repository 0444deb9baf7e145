CONSTANTS
    WriteShardRequestMessage = 1
    ExecuteStatementRequestMessage = 3
    CreateIteratorRequestMessage = 5
    FieldDimensionsRequestMessage = 7
    MaxFrames = 3
    LenWidth = 2
    MaxMessageSize = 2
    Frames <- MCFrames
SPECIFICATION Spec
INVARIANT
    FramesAligned
PROPERTY
    HandlerEnds
CHECK_DEADLOCK FALSE
