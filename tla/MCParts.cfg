\* The mixing server has one client: sessions share only the cursors and the boards;
\* its clock goes on for two pop lags. The other bounds are explained in the README.
SPECIFICATION PartsSpec
CONSTANTS
    Clients = {c1}
    FrameSamples = 2
    WriterSamples = 8
    PopLag = 16
    MaxChunk = 2
    BoardCapacity = 22
    DefaultLag <- MCDefaultLag
    LagMessages <- MCLagMessages
    MaxClock = 40
    Connections = {a, b}
    HttpCapacity = 3
    HttpRequests = 2
    SmallMax = 1
    Len16Max = 2
    PayloadLengths = {0, 2}
    Pieces = {1}
    WsFrames = 3
    MuxCapacity = 3
    OutCapacity = 4
    RecordLength = 2
    SocketCapacity = 2
    FragmentLengths = {1, 2}
    SkipFrom = 2
    CameraNames = 1
    ViewerFrames = 5
    Byte = 4
    OpusCapacity = 2
    FramesPerPacket = 2
    NonceLength = 2
    BlockLength = 3
    Seeds = {0, 1, 2}
    MaxWidth = 5
    MaxLayers = 4
    MaxEdits = 3
    RingCapacity = 3
    Elements = {0, 1}
    MaxPosition = 5
INVARIANTS
    BoardHolds
    NoCallAfterDelete
    MessagesAreReadWhole
    FramesAreRead
    StreamIsDecodable
    FormatsAgree
    SceneInOrder
PROPERTIES
    PushesAreSent
    RingsAreEndless
\* Most parts stop at their bounds.
CHECK_DEADLOCK FALSE
