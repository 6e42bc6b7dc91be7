\* As many frames as the sender's window holds: an ack may find it full.
CONSTANTS
    FrameCapacity = 3
    PacketCapacity = 4
    FramesPerPacket = 2
    ReorderWindow = 2
    MaxFrames = 3
    MaxPackets = 12
    WindowCapacity = 4
    RecentCapacity = 3
    SackCapacity = 3
    MaxTransit = 3
    MaxLosses = 2
SPECIFICATION LiveSpec
PROPERTIES
    EveryFrameArrives
    SettlesUnlessFull
CHECK_DEADLOCK FALSE
