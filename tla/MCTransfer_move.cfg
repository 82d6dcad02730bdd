\* Three keys in two tokens, in batches of one; two writes by clients.
SPECIFICATION FairSpec
CONSTANTS
  k1 = k1
  k2 = k2
  k3 = k3
  v1 = v1
  t1 = t1
  t2 = t2
  NoTTL = NoTTL
  NoTtl <- NoTTL
  Value <- OneValue
  Tombstone = TRUE
  Key <- ThreeKeys
  Token <- TwoTokens
  getToken <- TokenOf
  Asked <- Both
  BatchSize = 1
  Command <- MoveOrCopy
  Epoch = 10
  MaxTime = 11
  MaxCalls = 2
INVARIANTS TypeOK ListedIsLive NothingElseLost HandedOver
PROPERTIES TransferEnds
CHECK_DEADLOCK FALSE
