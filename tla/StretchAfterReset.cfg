CONSTANTS
    FrameSamples = 4
    Chunks = {3, 4, 5}
    MaxChunk = 5
    DefaultLag <- MCDefaultLag
    Lags = {}
    Slack = 2
    MaxBurst = 3
    BufferSamples = 16
    ReceiverFrames = 8
    MaxCursor = 14
    MaxFrontier = 5
SPECIFICATION Spec
PROPERTIES
    CompressionEndsAtTarget
