SPECIFICATION PartSpec
CONSTANTS
  n1 = n1
  n2 = n2
  p = p
  a = a
  MaxChan = 2
  NodeOf <- MCNodeOf
  CodeAttempts = 2
  MaxCodes = 2
  MaxMembers = 1
  MaxFaults = 1
  Nodes <- MCNodes
  First = p
  Seeds <- MCNodes
  MaxVersion = 3
INVARIANTS CodesKept AdmitsOne NewcomerHears NewestIsOwed NoneLeftBehind
CHECK_DEADLOCK FALSE
