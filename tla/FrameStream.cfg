CONSTANTS
    FrameCapacity = 2
    PacketCapacity = 3
    FramesPerPacket = 2
    ReorderWindow = 2
    MaxFrames = 3
    MaxPackets = 5
    WindowCapacity = 2
    RecentCapacity = 2
    SackCapacity = 2
    MaxTransit = 2
SPECIFICATION Spec
INVARIANTS
    PeerIsHonest
    WrittenOffIsReceived
    BeginIsJustified
PROPERTIES
    InOrderDelivery
CHECK_DEADLOCK FALSE
