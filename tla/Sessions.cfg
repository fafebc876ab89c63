SPECIFICATION PartSpec
CONSTANTS
  na = na
  nb = nb
  Member = {x, y}
  W = 2
  RetainedCap = 1
  Start = 4
  MaxTime = 5
  Offsets = {0, 1, 2}
  MaxSent = 2
  MaxEvents = 3
  Node = {na, nb}
  MaxMsgs <- MCMaxMsgs
  MaxIndex = 3
  MaxSessions = 2
  MaxFaults = 1
  MaxGen = 2
  MaxSend = 3
  LowWater = 1
  MaxQueue = 3
  Resolver = TRUE
INVARIANTS NeverTwice FreshAccepted LossHasCause NoSendStranded CurrentIsShared
           OnItsWay OneResult PumpIsWoken
PROPERTY AtMostOnceInOrder
CHECK_DEADLOCK FALSE
