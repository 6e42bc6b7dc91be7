\* One message whose target, minimum and maximum differ.
CONSTANTS
    Clients = {c1}
    FrameSamples = 2
    WriterSamples = 8
    PopLag = 16
    MaxChunk = 2
    BoardCapacity = 22
    DefaultLag <- MCDefaultLag
    LagMessages <- MCLagMessages
    MaxClock = 4
SPECIFICATION Spec
INVARIANTS
    LagAsAsked
