SPECIFICATION Spec
CONSTANTS
  n1 = n1
  n2 = n2
  n3 = n3
  o1 = o1
  o2 = o2
  o3 = o3
  NoTTL = NoTTL
  NoTtl <- NoTTL
  Value <- TwoCalls
  Op <- TwoCalls
  Node <- Three
  Lists <- OnThree
  Kinds <- SetGet
  Quorums <- Majority
  Ttls <- ShortTtl
  Skew <- NoSkew
  Epoch = 10
  MaxTime = 11
  MayFail = FALSE
  Tombstone = FALSE
INVARIANTS TtlSetIsStored
CHECK_DEADLOCK FALSE
