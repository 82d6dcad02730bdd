\* One node, three peers with a virtual node each, every hash with distinct positions.
SPECIFICATION Spec
CONSTANTS
  a = a
  b = b
  c = c
  Peer <- ThreePeers
  Node <- JustA
  Hashes <- OrderedHashes
  VirtualNodes = 1
  RingSize = 6
  Tokens = 3
SYMMETRY OtherThanA
INVARIANTS RingInv TypeOK PreferenceListOK
PROPERTIES RingImplementsMembership MinimalDisruption
