SPECIFICATION FairSpec
CONSTANTS
  me = me
  p = p
  q = q
  i1 = i1
  i2 = i2
  c1 = c1
  Pod <- ThreePods
  Ip <- Ips
  Me = me
  podIP <- Reused
  Caller <- OneCaller
  MaxWatches = 3
INVARIANTS TypeOK RingFollowsDiscovery DiscoveryFollowsPods OneInit
PROPERTIES CallsGoOn StartupImplementsMembership
CHECK_DEADLOCK FALSE
