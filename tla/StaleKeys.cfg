\* A network that may deliver a packet or a key reply after the client has
\* given up the session they belong to.
CONSTANTS
    a1 = a1
    Addresses = {a1}
    FirstAddress = a1
    PromptNetwork = FALSE
    MaxSessions = 2
    MaxSent = 2
    MaxMoves = 0
    MaxOutages = 1
SPECIFICATION Spec
INVARIANTS
    EveryAckIsOurs
