SPECIFICATION Spec
CONSTANTS
  n1 = n1
  n2 = n2
  n3 = n3
  o1 = o1
  o2 = o2
  o3 = o3
  NoTTL = NoTTL
  NoTtl <- NoTTL
  Value <- Calls
  Op <- Calls
  Node <- Three
  Lists <- OneLess
  Kinds <- SetGet
  Quorums <- Majority
  Ttls <- Forever
  Skew <- OneAhead
  Epoch = 10
  MaxTime = 10
  MayFail = FALSE
  Tombstone = FALSE
INVARIANTS QuorumReadsLatest ReplicasConverge AcknowledgedIsStored
SYMMETRY ButFirst
CHECK_DEADLOCK FALSE
