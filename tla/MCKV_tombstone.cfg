SPECIFICATION Spec
CONSTANTS
  n1 = n1
  n2 = n2
  n3 = n3
  o1 = o1
  o2 = o2
  o3 = o3
  NoTTL = NoTTL
  NoTtl <- NoTTL
  Value <- Calls
  Op <- Calls
  Node <- Two
  Lists <- TwoLess
  Kinds <- SetGetDelete
  Quorums <- OneOrTwo
  Ttls <- Forever
  Skew <- OneAhead
  Epoch = 10
  MaxTime = 11
  MayFail = FALSE
  Tombstone = TRUE
INVARIANTS DeletedIsHidden
SYMMETRY ByCall
CHECK_DEADLOCK FALSE
