SPECIFICATION PairSpec
CONSTANTS
    MemberConn = {m1, m2}
    Newcomer = {n1}
    NoConn = NoConn
SYMMETRY Sym
INVARIANT ChannelsFollowPrimary
CHECK_DEADLOCK FALSE
