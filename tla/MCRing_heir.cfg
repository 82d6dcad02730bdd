\* Who copies what a removed peer owned.
SPECIFICATION Spec
CONSTANTS
  a = a
  b = b
  c = c
  Peer <- ThreePeers
  Node <- JustA
  Hashes <- InjectiveHashes
  VirtualNodes = 0
  RingSize = 8
  Tokens = 4
PROPERTIES NewOwnerCopies
