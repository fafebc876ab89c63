SPECIFICATION PartFairSpec
CONSTANTS
    Slot = {r1, r2, r3}
    MaxMsgs = 3
    QueueBytes = 1
    SlowAfter = 2
    MaxQueue = 3
    MaxJudging = 2
    MaxTicks = 6
    Never = Never
    Member = {m1, m2}
    Limits <- MCLimits
    HourSlots = 2
    MaxTime = 3
    MaxCharges = 2
    MaxReloads = 1
    None = None
INVARIANTS ReaderKept SlowIsClosed ShapingSound
PROPERTIES JustSentence AnswererKept ReadOrFinal SilentPeerEnds LiftIsTold
CHECK_DEADLOCK FALSE
