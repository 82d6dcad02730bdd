SPECIFICATION Spec
CONSTANTS
  a = a
  b = b
  r1 = r1
  r2 = r2
  Node <- Nodes
  Req <- TwoReq
  Caller <- CrossCaller
  Callee <- CrossCallee
  Answering <- OneGet
  MaxStreams = 2
INVARIANTS ConnectionsOpen RunOnce
PROPERTIES ConnectionsKept RpcImplementsCalls
CHECK_DEADLOCK FALSE
