SPECIFICATION Spec
CONSTANTS
    Clients = {c1, c2, c3, c4}
    SystemClients = {}
    LISTENER = LISTENER
    SIGNAL = SIGNAL
    STOP_PIPE = STOP_PIPE
    REQ_CAP = 1
    REPLY_CAP = 1
    MAX_EVENTS = 1
SYMMETRY ClientSymmetry
INVARIANTS
    NeverBothBlocked
    ChannelInv
    OneInFlight
