SPECIFICATION Spec
CONSTANTS
    Primaries = {p1, p2, p3}
    Children = {k1}
    MAX_FD = 12
CHECK_DEADLOCK FALSE
INVARIANT
    DisconnectsItsOwn
