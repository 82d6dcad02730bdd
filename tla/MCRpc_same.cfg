SPECIFICATION FairSpec
CONSTANTS
  a = a
  b = b
  r1 = r1
  r2 = r2
  Node <- Nodes
  Req <- TwoReq
  Caller <- SameCaller
  Callee <- SameCallee
  Answering <- OneGet
  MaxStreams = 2
INVARIANTS TypeOK SentIsPending PendingHasTimer
PROPERTIES SentSettles
CHECK_DEADLOCK FALSE
