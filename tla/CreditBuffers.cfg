CONSTANTS
  InitialCredit = 1
  Window = 1
  CreditBatch = 1
  MaxMessage = 5
  MaxFragment = 2
  MaxHeld = 3
  Paces = {2}
  Sizes = {5}
  MaxMsgs = 3
  MaxSess = 3
SPECIFICATION Spec
INVARIANT WithinBuffers
CHECK_DEADLOCK FALSE
