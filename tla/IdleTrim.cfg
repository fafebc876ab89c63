SPECIFICATION FairSpec
CONSTANTS
    NetId = {n1}
    Obj = {o1, o2}
    c1 = c1
    c2 = c2
    c3 = c3
    w1 = w1
    w2 = w2
    Conn = {c1, c2, c3}
    Owner = {w1, w2}
    Ip <- MCIp
    Sizes = {1}
    RawBytes = 100
    Limit = 100
    MaxVersion = 2
    Expires = FALSE
    None = None
PROPERTY TrimEnds
CHECK_DEADLOCK FALSE
