CONSTANTS
  InitialCredit = 1
  Window = 2
  CreditBatch = 2
  MaxMessage = 3
  MaxFragment = 2
  MaxHeld = 2
  Paces = {2}
  Sizes = {0, 3}
  MaxMsgs = 2
  MaxSess = 2
SPECIFICATION FairSpec
INVARIANTS CreditConserved BuffersExact HonestKept
PROPERTY SendsFinish
CHECK_DEADLOCK FALSE
