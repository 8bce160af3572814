SPECIFICATION FairSpec
CONSTANTS
    Clients = {c1, c2}
    SystemClients = {c2}
    LISTENER = LISTENER
    SIGNAL = SIGNAL
    STOP_PIPE = STOP_PIPE
    REQ_CAP = 1
    REPLY_CAP = 1
    MAX_EVENTS = 1
PROPERTIES
    CallsAnswered
    ShutdownCompletes
    IdleDaemonExits
