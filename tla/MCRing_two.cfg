\* Two nodes, three peers with a virtual node each.
SPECIFICATION Spec
CONSTANTS
  a = a
  b = b
  c = c
  Peer <- ThreePeers
  Node <- NodesAB
  Hashes <- ThreeTwoEntryHashes
  VirtualNodes = 1
  RingSize = 8
  Tokens = 4
VIEW ButLast
INVARIANTS AgreedPlacement RingOrdered
PROPERTIES OthersStay LeftoversAreShared
