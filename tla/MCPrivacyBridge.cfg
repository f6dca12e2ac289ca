CONSTANTS
  d1 = d1
  d2 = d2
  o1 = o1
  long = long
  Decisions <- MCDecisions
  Outputs <- MCOutputs
  Receipts <- MCReceipts
  Requests <- MCRequests
  Worlds <- MCWorlds
  Long <- MCLong
SPECIFICATION Spec
INVARIANTS
  ReleasedBehindClosure
  ReleasedIsAuthorized
PROPERTIES
  EndsAsTold
CHECK_DEADLOCK FALSE
