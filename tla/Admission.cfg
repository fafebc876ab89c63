SPECIFICATION AdmitFairSpec
CONSTANTS
    c1 = c1
    c2 = c2
    c3 = c3
    c4 = c4
    a1 = a1
    a2 = a2
    Conn = {c1, c2, c3, c4}
    Addr = {a1, a2}
    AddrOf <- MCAddrOf
    Shards = 2
    ShardOf <- MCShardOf
    IPPending = 1
    IPConns = 2
INVARIANT AdmissionKept
PROPERTIES NoLateArrival ShutdownEnds
CHECK_DEADLOCK FALSE
