\* Each part with bounds of its own; they are explained in the README.
SPECIFICATION Spec
CONSTANTS
    FrameInterval = 4
    ChunkCapacity = 2
    NalSizes = {1, 3, 4}
    MaxLate = 2
    SourceQueue = 3
    NalChunks = {1, 2}
    ChunkWindow = 2
    NalCapacity = 2
    FeedKeys = 3
    FeedQueue = 1
    FullWidth = 4
    FullHeight = 3
    Settings = {0, 1}
    CropSides = {"left", "right"}
    Buffers = 4
    WarmUp = 5
    BufferSize = 10
    AvailMinimum = 2
    StartThreshold = 2
    SkipThreshold = 4
    MaxBacklog = 3
    MaxStalls = 2
INVARIANTS
    PacingMeetsDeadline
    NalsAreWhole
    ReadsFilledBuffer
    DevicesGoOn
PROPERTIES
    DeadSessionIsLeft
    ZoomArrives
    CropsSurvive
    DelayIsShed
\* The source and the ring of buffers stop at their bounds.
CHECK_DEADLOCK FALSE
