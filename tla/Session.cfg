\* Two addresses, a move, an outage, and two packets each way per session.
CONSTANTS
    a1 = a1
    a2 = a2
    Addresses = {a1, a2}
    FirstAddress = a1
    PromptNetwork = TRUE
    MaxSessions = 6
    MaxSent = 2
    MaxMoves = 1
    MaxOutages = 1
SPECIFICATION Spec
INVARIANTS
    SessionsArePaired
    AcksAreOurs
    DestinationIsNewest
PROPERTIES
    LivePairIsKept
    Reconnects
