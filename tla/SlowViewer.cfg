\* As in MCParts.cfg: a socket with less room than a record.
CONSTANTS
    MuxCapacity = 3
    OutCapacity = 4
    RecordLength = 2
    SocketCapacity = 2
    FragmentLengths = {1, 2}
    SkipFrom = 2
    CameraNames = 1
    ViewerFrames = 5
SPECIFICATION ViewerSpec
INVARIANTS
    SlowViewerIsKept
CHECK_DEADLOCK FALSE
