\* A window of 2 frames out of 4, a ring of 2 packets, any packet in any order.
CONSTANTS
    WindowCapacity = 2
    RecentCapacity = 2
    SackCapacity = 2
    FrameLimit = 4
    SeqnoLimit = 3
SPECIFICATION Spec
INVARIANTS
    RecentIsSettled
    LoopsAgree
PROPERTIES
    PromisesKept
