SPECIFICATION PartSpec
CONSTANTS
    m1 = m1
    m2 = m2
    c1 = c1
    old1 = old1
    c2 = c2
    Member = {m1, m2}
    Reader = {c1, old1, c2}
    MemberOf <- MCMemberOf
    Size = {1, 2}
    Rate = {0, 4}
    Second = 4
    CtlRate = 2
    CtlBurst = 2
    NetCtlRate = 4
    NetCtlBurst = 3
    MaxTime = 2
    NoTime = NoTime
    None = None
    NetId = {n1, n2}
    Obj = {o1, o2}
    k1 = k1
    k2 = k2
    k3 = k3
    w1 = w1
    w2 = w2
    Conn = {k1, k2, k3}
    Owner = {w1, w2}
    Ip <- MCIp
    Sizes = {1, 2}
    RawBytes = 100
    Limit = 300
    MaxVersion = 2
    Expires = TRUE
SYMMETRY Sym
INVARIANTS MemberBounded NetworkBounded IdleKept
CHECK_DEADLOCK FALSE
