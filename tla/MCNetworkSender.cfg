\* Windows of 3 frames and 5 packets, both of which overflow: a frame can be
\* judged lost and sent again before its first packet leaves the window.
CONSTANTS
    FrameCapacity = 3
    PacketCapacity = 5
    FramesPerPacket = 2
    ReorderWindow = 2
    MaxFrames = 4
    MaxPackets = 6
SPECIFICATION Spec
INVARIANTS
    InFlightIsCarried
    CarriedOnce
    VerdictsAreExact
    PushedFrameNeedsSend
PROPERTIES
    SettledForGood
CHECK_DEADLOCK FALSE
