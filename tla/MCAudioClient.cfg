CONSTANTS
    FrameSamples = 4
    Chunks = {0, 3, 4, 5}
    MaxChunk = 5
    DefaultLag <- MCDefaultLag
    Lags <- MCLags
    Slack = 2
    MaxBurst = 5
    BufferSamples = 16
    ReceiverFrames = 4
    MaxCursor = 16
    MaxFrontier = 4
SPECIFICATION Spec
INVARIANTS
    AbortsOnlyWhenLate
    CaptureHolds
    EncodersInStep
PROPERTIES
    NoFrameSkipped
