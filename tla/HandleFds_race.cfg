SPECIFICATION Spec
CONSTANTS
    p1 = p1
    p2 = p2
    Procs = {p1, p2}
    First = p1
    Fds = {1, 2, 3, 4}
    MAX_FILES = 4
    MAX_HANDLES = 2
CHECK_DEADLOCK FALSE
INVARIANTS
    ConnIsItsSocket
