SPECIFICATION PairFairSpec
CONSTANTS
    MemberConn = {m1, m2}
    Newcomer = {n1}
    NoConn = NoConn
INVARIANT PairingKept
PROPERTY NewcomerReleased
CHECK_DEADLOCK FALSE
