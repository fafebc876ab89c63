SPECIFICATION Spec
CONSTANTS
    Conn = {c1, c2, c3}
    Obj = {o1, o2}
    Node = {a, b}
    a = a
    b = b
    None = None
    Rosters <- MCRosters
SYMMETRY Sym
INVARIANTS LiveIsReachable LatestNotReplaced
PROPERTY NoRollback
CHECK_DEADLOCK FALSE
