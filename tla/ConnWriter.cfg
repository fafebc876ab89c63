SPECIFICATION FairSpec
CONSTANTS
    Sender = {s1}
    Relay = relay
    Self = self
    MaxFrames = 3
    MaxPings = 1
    QueueBytes = 1
    ReplySlack = 0
    Raw = TRUE
    None = None
INVARIANT WriterKept
PROPERTIES NeverTorn ClosesInTime
CHECK_DEADLOCK FALSE
