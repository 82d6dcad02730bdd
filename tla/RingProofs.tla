----------------------------- MODULE RingProofs -----------------------------
(***************************************************************************)
(* Whatever the hash, the handlers of Ring keep each node's ring in order, *)
(* a join or a removal of one peer leaves the others' entries alone, and   *)
(* what a removal leaves of its peer is at positions that others share.    *)
(* Where every entry has a position of its own, each node's ring is the    *)
(* sorted entries of the peers it knows, so that two nodes that know the   *)
(* same peers hold the same ring, preference lists go clockwise from the   *)
(* owner, and a join or a removal disturbs them no more than it must.      *)
(***************************************************************************)
EXTENDS Ring, RingOpsProofs

DistinctPositions == \A h \in Hashes : IsInjective(h)

\* The inductive invariant: Placed says sorted and exactly these entries.
IInv ==
  /\ hash \in Hashes
  /\ phase \in [Node -> {"new", "waiting", "ready"}]
  /\ nodes \in [Node -> Seq(Entry)]
  /\ cooling \in [Node -> Seq(Peer)]
  /\ \A n \in Node :
       /\ Members(nodes[n]) \subseteq Peer
       /\ Placed(nodes[n], EntriesOf(Members(nodes[n]), hash))
       /\ phase[n] # "new" => n \in Members(nodes[n])
       /\ phase[n] = "new" => nodes[n] = << >> /\ cooling[n] = << >>

(* The peers of a ring that holds the entries of S are those of S: each    *)
(* peer has at least the entry i = 0.                                      *)
LEMMA MembersPlaced ==
  ASSUME NEW h \in Hash, IsInjective(h), NEW S \in SUBSET Peer,
         NEW ring, Placed(ring, EntriesOf(S, h))
  PROVE  Members(ring) = S
<1>1. ring \in Seq(Entry) /\ Range(ring) = EntriesOf(S, h)
  BY DEF Placed
<1>2. \A e : e \in EntriesOf(S, h) <=> \E k \in 1 .. Len(ring) : e = ring[k]
  BY <1>1, RangeFacts
<1>3. DOMAIN ring = 1 .. Len(ring)
  BY <1>1
<1>4. ASSUME NEW p \in Members(ring) PROVE p \in S
  <2>1. PICK k \in 1 .. Len(ring) : p = ring[k].ip
    BY <1>3 DEF Members
  <2>2. ring[k] \in EntriesOf(S, h)
    BY <1>2
  <2>3. QED
    BY <2>1, <2>2, EntriesOfFacts
<1>5. ASSUME NEW p \in S PROVE p \in Members(ring)
  <2>1. 0 \in 0 .. VirtualNodes
    BY RingAssumption
  <2>2. [ip |-> p, pos |-> h[<<p, 0>>]] \in EntriesOf(S, h)
    BY <2>1, EntriesOfMember
  <2>3. PICK k \in 1 .. Len(ring) : [ip |-> p, pos |-> h[<<p, 0>>]] = ring[k]
    BY <1>2, <2>2
  <2>4. ring[k].ip = p
    BY <2>3
  <2>5. QED
    BY <1>3, <2>4 DEF Members
<1>6. QED
  BY <1>4, <1>5

(* An order of a set of peers names each of them once.                     *)
LEMMA OrdersFacts ==
  ASSUME NEW S \in SUBSET Peer, NEW ps \in Orders(S)
  PROVE  \E n \in Nat : /\ ps \in [1 .. n -> Peer]
                        /\ \A i, j \in 1 .. n : ps[i] = ps[j] => i = j
                        /\ {ps[k] : k \in 1 .. n} = S
<1> DEFINE n == Cardinality(S)
<1>1. n \in Nat
  BY RingAssumption, FS_Subset, FS_CardinalityType
<1>2. ps \in [1 .. n -> S] /\ IsInjective(ps) /\ Range(ps) = S
  BY DEF Orders
<1> HIDE DEF n
<1>3. ps \in [1 .. n -> Peer] /\ DOMAIN ps = 1 .. n
  BY <1>2
<1>4. \A i, j \in 1 .. n : ps[i] = ps[j] => i = j
  BY <1>2, <1>3 DEF IsInjective
<1>5. {ps[k] : k \in 1 .. n} = S
  BY <1>2, <1>3 DEF Range
<1>6. QED
  BY <1>1, <1>3, <1>4, <1>5

(* The three handlers that change the ring, as facts about one ring.       *)
LEMMA InitRingPlaced ==
  ASSUME NEW h \in Hash, IsInjective(h), NEW S \in SUBSET Peer, NEW ps \in Orders(S)
  PROVE  Placed(allocateAll(ps, h), EntriesOf(S, h))
<1>1. PICK n \in Nat : /\ ps \in [1 .. n -> Peer]
                       /\ \A i, j \in 1 .. n : ps[i] = ps[j] => i = j
                       /\ {ps[k] : k \in 1 .. n} = S
  BY OrdersFacts
<1>2. Placed(allocateAll(ps, h), EntriesOf({ps[k] : k \in 1 .. n}, h))
  BY <1>1, AllocateAllPlaced
<1>3. QED
  BY <1>1, <1>2

-----------------------------------------------------------------------------

(* Taking a peer's first occurrence out of a sequence of peers.            *)
LEMMA RemoveFirstType ==
  ASSUME NEW s \in Seq(Peer), NEW p
  PROVE  RemoveFirst(s, p) \in Seq(Peer)
<1>1. CASE \E i \in 1 .. Len(s) : s[i] = p
  <2> DEFINE I == {i \in 1 .. Len(s) : s[i] = p}
  <2>1. I \subseteq Nat /\ I # {}
    BY <1>1
  <2>2. PICK i \in I : \A j \in I : i <= j
    BY <2>1, NatMin
  <2>3. Min(I) \in I
    BY <2>2 DEF Min
  <2>4. SelectInSeq(s, LAMBDA v : v = p) = Min(I)
    BY <2>1 DEF SelectInSeq
  <2>5. Min(I) \in 1 .. Len(s)
    BY <2>3
  <2>6. RemoveAt(s, Min(I)) \in Seq(Peer)
    BY <2>5, RemoveAtFacts
  <2>7. QED
    BY <1>1, <2>4, <2>6 DEF RemoveFirst
<1>2. CASE ~ \E i \in 1 .. Len(s) : s[i] = p
  BY <1>2 DEF RemoveFirst
<1>3. QED
  BY <1>1, <1>2

(* An order of a set of peers is a sequence of peers.                      *)
LEMMA OrdersSeq == ASSUME NEW S \in SUBSET Peer, NEW ps \in Orders(S) PROVE ps \in Seq(Peer)
<1>1. PICK n \in Nat : ps \in [1 .. n -> Peer]
  BY OrdersFacts
<1>2. QED
  BY <1>1

-----------------------------------------------------------------------------
(* Whatever the hash, also where entries share positions *)

\* The inductive invariant for every hash: Loose says in order and no entry
\* more often than its peer has it.
LooseInv ==
  /\ hash \in Hashes
  /\ phase \in [Node -> {"new", "waiting", "ready"}]
  /\ nodes \in [Node -> Seq(Entry)]
  /\ cooling \in [Node -> Seq(Peer)]
  /\ \A n \in Node :
       /\ Loose(nodes[n], hash)
       /\ phase[n] # "new" => EntriesOf({n}, hash) \subseteq Range(nodes[n])
       /\ phase[n] = "new" => nodes[n] = << >> /\ cooling[n] = << >>

(* An empty ring is in order.                                              *)
LEMMA InitLooseInv == Init => LooseInv
<1> SUFFICES ASSUME Init PROVE LooseInv
  OBVIOUS
<1>1. << >> \in Seq(Entry) /\ Ordered(<< >>) /\ Slots(<< >>, << >>, hash)
  BY DEF Ordered, Slots
<1>2. Loose(<< >>, hash)
  BY <1>1 DEF Loose
<1>3. \A n \in Node : nodes[n] = << >> /\ phase[n] = "new"
  BY DEF Init
<1>4. QED
  BY <1>1, <1>2, <1>3 DEF Init, LooseInv

(* A handler that gives node n such a ring keeps the invariant.            *)
LEMMA LooseRingStep ==
  ASSUME LooseInv, NEW n \in Node,
         NEW ring, Loose(ring, hash), EntriesOf({n}, hash) \subseteq Range(ring),
         hash' = hash, nodes' = [nodes EXCEPT ![n] = ring],
         phase' \in [Node -> {"new", "waiting", "ready"}], phase'[n] # "new",
         cooling' \in [Node -> Seq(Peer)],
         \A m \in Node : m # n => phase'[m] = phase[m] /\ cooling'[m] = cooling[m]
  PROVE  LooseInv'
<1>1. ring \in Seq(Entry)
  BY DEF Loose
<1>2. nodes' \in [Node -> Seq(Entry)]
  BY <1>1 DEF LooseInv
<1>3. ASSUME NEW m \in Node
      PROVE  /\ Loose(nodes'[m], hash')
             /\ phase'[m] # "new" => EntriesOf({m}, hash') \subseteq Range(nodes'[m])
             /\ phase'[m] = "new" => nodes'[m] = << >> /\ cooling'[m] = << >>
  <2>1. CASE m = n
    <3>1. nodes'[m] = ring
      BY <2>1 DEF LooseInv
    <3>2. QED
      BY <3>1, <2>1
  <2>2. CASE m # n
    <3>1. nodes'[m] = nodes[m] /\ phase'[m] = phase[m] /\ cooling'[m] = cooling[m]
      BY <2>2 DEF LooseInv
    <3>2. QED
      BY <3>1 DEF LooseInv
  <2>3. QED
    BY <2>1, <2>2
<1>4. QED
  BY <1>2, <1>3 DEF LooseInv

(* The same for a handler that changes no ring.                            *)
LEMMA LooseNoRingStep ==
  ASSUME LooseInv, UNCHANGED <<hash, nodes>>,
         phase' \in [Node -> {"new", "waiting", "ready"}],
         cooling' \in [Node -> Seq(Peer)],
         \A m \in Node : /\ phase[m] = "new" => phase'[m] = "new" /\ cooling'[m] = cooling[m]
                         /\ phase'[m] = "new" => phase[m] = "new"
  PROVE  LooseInv'
  BY DEF LooseInv

(* Every handler preserves the invariant, whatever the hash.               *)
LEMMA NextLooseInv == LooseInv /\ [Next]_vars => LooseInv'
<1> SUFFICES ASSUME LooseInv, [Next]_vars PROVE LooseInv'
  OBVIOUS
<1>1. hash \in Hash /\ \A n \in Node : n \in Peer
  BY HashAssumption, NodeAssumption DEF LooseInv
<1>2. ASSUME NEW n \in Node, initRing(n) PROVE LooseInv'
  <2>1. PICK S \in SUBSET Peer : \E ps \in Orders(S) :
          n \in S /\ nodes' = [nodes EXCEPT ![n] = allocateAll(ps, hash)]
    BY <1>2 DEF initRing
  <2>2. PICK ps \in Orders(S) : n \in S /\ nodes' = [nodes EXCEPT ![n] = allocateAll(ps, hash)]
    BY <2>1
  <2>3. PICK k \in Nat : /\ ps \in [1 .. k -> Peer]
                         /\ \A i, j \in 1 .. k : ps[i] = ps[j] => i = j
                         /\ {ps[i] : i \in 1 .. k} = S
    BY OrdersFacts
  <2>4. /\ Loose(allocateAll(ps, hash), hash)
        /\ Range(allocateAll(ps, hash)) = EntriesOf({ps[i] : i \in 1 .. k}, hash)
    BY <2>3, <1>1, AllocateAllLoose
  <2>5. EntriesOf({n}, hash) \subseteq EntriesOf(S, hash)
    BY <2>2, EntriesOfMember
  <2>6. EntriesOf({n}, hash) \subseteq Range(allocateAll(ps, hash))
    BY <2>3, <2>4, <2>5
  <2>7. /\ hash' = hash
        /\ phase' \in [Node -> {"new", "waiting", "ready"}] /\ phase'[n] # "new"
        /\ \A m \in Node : m # n => phase'[m] = phase[m]
    BY <1>2 DEF initRing, LooseInv
  <2>8. PICK qs \in Seq(Peer) : cooling' = [cooling EXCEPT ![n] = qs]
    BY <1>2, OrdersSeq DEF initRing
  <2>9. /\ cooling' \in [Node -> Seq(Peer)]
        /\ \A m \in Node : m # n => cooling'[m] = cooling[m]
    BY <2>8 DEF LooseInv
  <2>10. QED
    BY <2>2, <2>4, <2>6, <2>7, <2>9, LooseRingStep
<1>3. ASSUME NEW n \in Node, stealTokens(n) PROVE LooseInv'
  BY <1>3, LooseNoRingStep DEF stealTokens, LooseInv
<1>4. ASSUME NEW n \in Node, coolDown(n) PROVE LooseInv'
  <2>1. UNCHANGED <<hash, nodes, phase>> /\ phase' \in [Node -> {"new", "waiting", "ready"}]
    BY <1>4 DEF coolDown, LooseInv
  <2>2. cooling[n] \in Seq(Peer) /\ cooling[n] # << >> /\ phase[n] # "new"
    BY <1>4 DEF coolDown, LooseInv
  <2>3. Tail(cooling[n]) \in Seq(Peer) /\ cooling' = [cooling EXCEPT ![n] = Tail(cooling[n])]
    BY <1>4, <2>2 DEF coolDown
  <2>4. /\ cooling' \in [Node -> Seq(Peer)]
        /\ \A m \in Node : m # n => cooling'[m] = cooling[m]
    BY <2>3 DEF LooseInv
  <2>5. QED
    BY <2>1, <2>2, <2>4, LooseNoRingStep
<1>5. ASSUME NEW n \in Node, NEW peer \in Peer, onPeerAdded(n, peer) PROVE LooseInv'
  <2>1. /\ peer \notin Members(nodes[n])
        /\ nodes' = [nodes EXCEPT ![n] = allocateOnRing(nodes[n], peer, hash)]
        /\ UNCHANGED <<hash, phase>>
        /\ phase[n] # "new"
    BY <1>5 DEF onPeerAdded
  <2>2. Loose(nodes[n], hash) /\ EntriesOf({n}, hash) \subseteq Range(nodes[n])
    BY <2>1 DEF LooseInv
  <2>3. /\ Loose(allocateOnRing(nodes[n], peer, hash), hash)
        /\ Range(allocateOnRing(nodes[n], peer, hash)) = Range(nodes[n]) \cup EntriesOf({peer}, hash)
    BY <1>1, <2>1, <2>2, AllocateLoose
  <2>4. EntriesOf({n}, hash) \subseteq Range(allocateOnRing(nodes[n], peer, hash))
    BY <2>2, <2>3
  <2>5. phase' \in [Node -> {"new", "waiting", "ready"}] /\ phase'[n] # "new"
    BY <2>1 DEF LooseInv
  <2>6. cooling[n] \in Seq(Peer) /\ cooling' = [cooling EXCEPT ![n] = Append(cooling[n], peer)]
    BY <1>5 DEF onPeerAdded, LooseInv
  <2>7. Append(cooling[n], peer) \in Seq(Peer)
    BY <2>6
  <2>8. /\ cooling' \in [Node -> Seq(Peer)]
        /\ \A m \in Node : m # n => phase'[m] = phase[m] /\ cooling'[m] = cooling[m]
    BY <2>1, <2>6, <2>7 DEF LooseInv
  <2>9. QED
    BY <2>1, <2>3, <2>4, <2>5, <2>8, LooseRingStep
<1>6. ASSUME NEW n \in Node, NEW peer \in Peer, onPeerAddedAgain(n, peer) PROVE LooseInv'
  BY <1>6, LooseNoRingStep DEF onPeerAddedAgain, LooseInv
<1>7. ASSUME NEW n \in Node, NEW peer \in Peer, onPeerRemoved(n, peer) PROVE LooseInv'
  <2> DEFINE left == deallocateFromRing(nodes[n], peer, hash)
  <2>1. /\ peer # n
        /\ nodes' = [nodes EXCEPT ![n] = left]
        /\ UNCHANGED <<hash, phase>>
        /\ phase[n] # "new"
    BY <1>7 DEF onPeerRemoved
  <2>2. Loose(nodes[n], hash) /\ EntriesOf({n}, hash) \subseteq Range(nodes[n])
    BY <2>1 DEF LooseInv
  <2>3. Loose(left, hash) /\ \A e \in Range(nodes[n]) : e.ip # peer => e \in Range(left)
    BY <1>1, <2>2, DeallocateLoose
  <2> HIDE DEF left
  <2>4. EntriesOf({n}, hash) \subseteq Range(left)
    <3>1. ASSUME NEW e \in EntriesOf({n}, hash) PROVE e.ip = n
      <4>1. PICK q \in {n} : \E j \in 0 .. VirtualNodes : e = [ip |-> q, pos |-> hash[<<q, j>>]]
        BY EntriesOfMember
      <4>2. QED
        BY <4>1
    <3>2. QED
      BY <3>1, <2>1, <2>2, <2>3
  <2>5. phase' \in [Node -> {"new", "waiting", "ready"}] /\ phase'[n] # "new"
    BY <2>1 DEF LooseInv
  <2>6. cooling[n] \in Seq(Peer) /\ cooling' = [cooling EXCEPT ![n] = RemoveFirst(cooling[n], peer)]
    BY <1>7 DEF onPeerRemoved, LooseInv
  <2>7. RemoveFirst(cooling[n], peer) \in Seq(Peer)
    BY <2>6, RemoveFirstType
  <2>8. /\ cooling' \in [Node -> Seq(Peer)]
        /\ \A m \in Node : m # n => phase'[m] = phase[m] /\ cooling'[m] = cooling[m]
    BY <2>1, <2>6, <2>7 DEF LooseInv
  <2>9. QED
    BY <2>1, <2>3, <2>4, <2>5, <2>8, LooseRingStep
<1>8. CASE UNCHANGED vars
  BY <1>8, LooseNoRingStep DEF vars, LooseInv
<1>9. QED
  BY <1>2, <1>3, <1>4, <1>5, <1>6, <1>7, <1>8 DEF Next

(* The invariant holds of every behavior.                                  *)
LEMMA LooseInductive == Spec => []LooseInv
  BY InitLooseInv, NextLooseInv, PTL DEF Spec

(* What is on a loose ring is an entry that its peer's hash gives it.      *)
LEMMA LooseEntries ==
  ASSUME NEW h \in Hash, NEW ring, Loose(ring, h)
  PROVE  Range(ring) \subseteq EntriesOf(Peer, h)
<1>1. PICK own : Slots(ring, own, h)
  BY DEF Loose
<1>2. ring \in Seq(Entry)
  BY DEF Loose
<1> DEFINE V == 0 .. VirtualNodes
<1>3. own \in Seq(V) /\ Len(own) = Len(ring)
  BY <1>1 DEF Slots
<1> HIDE DEF V
<1>4. ASSUME NEW e \in Range(ring) PROVE e \in EntriesOf(Peer, h)
  <2>1. PICK k \in 1 .. Len(ring) : e = ring[k]
    BY <1>2, RangeFacts
  <2>2. own[k] \in V
    BY <1>3
  <2>3. ring[k] \in Entry /\ h[<<ring[k].ip, own[k]>>] = ring[k].pos
    BY <1>1, <1>2 DEF Slots
  <2>4. ring[k].ip \in Peer /\ e = [ip |-> ring[k].ip, pos |-> h[<<ring[k].ip, own[k]>>]]
    BY <2>1, <2>3 DEF Entry
  <2>5. QED
    BY <2>2, <2>4, EntriesOfMember DEF V
<1>5. QED
  BY <1>4

(* The invariant says more than RingOrdered.                               *)
LEMMA LooseRingOrdered == LooseInv => RingOrdered
<1> SUFFICES ASSUME LooseInv, NEW n \in Node
             PROVE  /\ \A i, j \in DOMAIN nodes[n] : i < j => nodes[n][i].pos <= nodes[n][j].pos
                    /\ Range(nodes[n]) \subseteq EntriesOf(Peer, hash)
                    /\ phase[n] # "new" => EntriesHeld(nodes[n], n) = EntriesOf({n}, hash)
  BY DEF RingOrdered
<1>1. /\ nodes[n] \in Seq(Entry) /\ Ordered(nodes[n]) /\ Loose(nodes[n], hash)
      /\ phase[n] # "new" => EntriesOf({n}, hash) \subseteq Range(nodes[n])
  BY DEF LooseInv, Loose
<1>2. hash \in Hash
  BY HashAssumption DEF LooseInv
<1>3. DOMAIN nodes[n] = 1 .. Len(nodes[n])
  BY <1>1
<1>4. Range(nodes[n]) \subseteq EntriesOf(Peer, hash)
  BY <1>1, <1>2, LooseEntries
<1>5. \A e : e \in EntriesOf({n}, hash) <=> e \in EntriesOf(Peer, hash) /\ e.ip = n
  <2>1. n \in Peer
    BY NodeAssumption
  <2>2. ASSUME NEW e \in EntriesOf({n}, hash) PROVE e \in EntriesOf(Peer, hash) /\ e.ip = n
    <3>1. PICK j \in 0 .. VirtualNodes : e = [ip |-> n, pos |-> hash[<<n, j>>]]
      BY EntriesOfMember
    <3>2. QED
      BY <2>1, <3>1, EntriesOfMember
  <2>3. ASSUME NEW e \in EntriesOf(Peer, hash), e.ip = n PROVE e \in EntriesOf({n}, hash)
    <3>1. PICK q \in Peer, j \in 0 .. VirtualNodes : e = [ip |-> q, pos |-> hash[<<q, j>>]]
      BY EntriesOfMember
    <3>2. q = n
      BY <2>3, <3>1
    <3>3. QED
      BY <3>1, <3>2, EntriesOfMember
  <2>4. QED
    BY <2>2, <2>3
<1>6. phase[n] # "new" => EntriesHeld(nodes[n], n) = EntriesOf({n}, hash)
  BY <1>1, <1>4, <1>5 DEF EntriesHeld
<1>7. QED
  BY <1>1, <1>3, <1>4, <1>6 DEF Ordered

(* A join of p adds only entries of p.                                     *)
LEMMA JoinHeld ==
  ASSUME LooseInv, NEW n \in Node, NEW p \in Peer, onPeerAdded(n, p), NEW q \in Peer, q # p
  PROVE  EntriesHeld(nodes'[n], q) = EntriesHeld(nodes[n], q)
<1>1. /\ p \notin Members(nodes[n])
      /\ nodes'[n] = allocateOnRing(nodes[n], p, hash)
  BY DEF onPeerAdded, LooseInv
<1>2. hash \in Hash /\ Loose(nodes[n], hash)
  BY HashAssumption DEF LooseInv
<1>3. Range(nodes'[n]) = Range(nodes[n]) \cup EntriesOf({p}, hash)
  BY <1>1, <1>2, AllocateLoose
<1>4. ASSUME NEW e \in EntriesOf({p}, hash) PROVE e.ip # q
  <2>1. PICK j \in 0 .. VirtualNodes : e = [ip |-> p, pos |-> hash[<<p, j>>]]
    BY EntriesOfMember
  <2>2. QED
    BY <2>1
<1>5. QED
  BY <1>3, <1>4 DEF EntriesHeld

(* A removal of p takes only entries of p, and all but those at positions  *)
(* that p shares.                                                          *)
LEMMA RemovalHeld ==
  ASSUME LooseInv, NEW n \in Node, NEW p \in Peer, onPeerRemoved(n, p)
  PROVE  /\ \A q \in Peer : q # p => EntriesHeld(nodes'[n], q) = EntriesHeld(nodes[n], q)
         /\ \A e \in EntriesHeld(nodes'[n], p) :
              \E f \in Range(nodes'[n]) : f.pos = e.pos /\ f.ip # p
<1>1. nodes'[n] = deallocateFromRing(nodes[n], p, hash)
  BY DEF onPeerRemoved, LooseInv
<1>2. hash \in Hash /\ Loose(nodes[n], hash)
  BY HashAssumption DEF LooseInv
<1>3. /\ Range(nodes'[n]) \subseteq Range(nodes[n])
      /\ \A e \in Range(nodes[n]) : e.ip # p => e \in Range(nodes'[n])
      /\ \A e \in Range(nodes'[n]) : e.ip = p => Shared(nodes[n], p, e.pos)
  BY <1>1, <1>2, DeallocateLoose
<1>4. ASSUME NEW q \in Peer, q # p PROVE EntriesHeld(nodes'[n], q) = EntriesHeld(nodes[n], q)
  BY <1>3, <1>4 DEF EntriesHeld
<1>5. ASSUME NEW e \in EntriesHeld(nodes'[n], p)
      PROVE  \E f \in Range(nodes'[n]) : f.pos = e.pos /\ f.ip # p
  BY <1>3 DEF EntriesHeld, Shared
<1>6. QED
  BY <1>4, <1>5

(* The three handlers that change a ring change the entries of the peer    *)
(* they name.                                                              *)
LEMMA NextOthersStay ==
  LooseInv /\ [Next]_vars =>
    \A n \in Node, q \in Peer : phase[n] # "new" /\ last'.peer # {q} =>
      EntriesHeld(nodes'[n], q) = EntriesHeld(nodes[n], q)
<1> SUFFICES ASSUME LooseInv, [Next]_vars,
                    NEW n \in Node, NEW q \in Peer, phase[n] # "new", last'.peer # {q}
             PROVE  EntriesHeld(nodes'[n], q) = EntriesHeld(nodes[n], q)
  OBVIOUS
<1>1. SUFFICES ASSUME nodes'[n] # nodes[n] PROVE EntriesHeld(nodes'[n], q) = EntriesHeld(nodes[n], q)
  OBVIOUS
<1>2. \A m \in Node : m # n => ~ initRing(m)
                               /\ \A p \in Peer : ~ onPeerAdded(m, p) /\ ~ onPeerRemoved(m, p)
  BY <1>1 DEF initRing, onPeerAdded, onPeerRemoved, LooseInv
<1>3. ~ initRing(n)
  BY DEF initRing
<1>4. /\ \A m \in Node : ~ stealTokens(m) /\ ~ coolDown(m)
                         /\ \A p \in Peer : ~ onPeerAddedAgain(m, p)
      /\ ~ UNCHANGED vars
  BY <1>1 DEF stealTokens, coolDown, onPeerAddedAgain, vars
<1>5. \E p \in Peer : onPeerAdded(n, p) \/ onPeerRemoved(n, p)
  BY <1>2, <1>3, <1>4 DEF Next
<1>6. ASSUME NEW p \in Peer, onPeerAdded(n, p)
      PROVE  EntriesHeld(nodes'[n], q) = EntriesHeld(nodes[n], q)
  <2>1. q # p
    BY <1>6 DEF onPeerAdded, Handled
  <2>2. QED
    BY <2>1, <1>6, JoinHeld
<1>7. ASSUME NEW p \in Peer, onPeerRemoved(n, p)
      PROVE  EntriesHeld(nodes'[n], q) = EntriesHeld(nodes[n], q)
  <2>1. q # p
    BY <1>7 DEF onPeerRemoved, Handled
  <2>2. QED
    BY <2>1, <1>7, RemovalHeld
<1>8. QED
  BY <1>5, <1>6, <1>7

(* For any number of peers, virtual nodes, tokens and positions, any hash, *)
(* also one that gives two entries one position, and any sequences of      *)
(* joins and removals: every ring stays in the order that the binary       *)
(* search needs, and a node keeps all of its own entries.                  *)
THEOREM RingsStayOrdered == Spec => []RingOrdered
  BY LooseInductive, LooseRingOrdered, PTL

(* For the same: a join or a removal of one peer adds and takes no entry   *)
(* of another.                                                             *)
THEOREM OthersAreKept == Spec => OthersStay
  BY LooseInductive, NextOthersStay, PTL DEF Spec, OthersStay

(* For the same: a removal leaves an entry of its peer only at a position  *)
(* that another peer's entry shares.                                       *)
THEOREM LeftoversShare == Spec => LeftoversAreShared
<1>1. LooseInv /\ [Next]_vars =>
        [\A n \in Node, p \in Peer :
           /\ last'.handler = "onPeerRemoved" /\ last'.node = {n} /\ last'.peer = {p}
           => \A e \in EntriesHeld(nodes'[n], p) :
                \E f \in Range(nodes'[n]) : f.pos = e.pos /\ f.ip # p]_vars
  <2> SUFFICES ASSUME LooseInv, Next, NEW n \in Node, NEW p \in Peer,
                      last'.handler = "onPeerRemoved", last'.node = {n}, last'.peer = {p}
               PROVE  \A e \in EntriesHeld(nodes'[n], p) :
                        \E f \in Range(nodes'[n]) : f.pos = e.pos /\ f.ip # p
    OBVIOUS
  <2>1. \A m \in Node : /\ ~ initRing(m) /\ ~ stealTokens(m) /\ ~ coolDown(m)
                        /\ \A q \in Peer : ~ onPeerAdded(m, q) /\ ~ onPeerAddedAgain(m, q)
    <3>1. ASSUME NEW name, NEW m, NEW q, NEW want, Handled(name, m, q, want)
          PROVE  name = "onPeerRemoved"
      BY <3>1 DEF Handled
    <3>2. ASSUME NEW m \in Node PROVE ~ initRing(m) /\ ~ stealTokens(m) /\ ~ coolDown(m)
      BY <3>1 DEF initRing, stealTokens, coolDown
    <3>3. ASSUME NEW m \in Node, NEW q \in Peer
          PROVE  ~ onPeerAdded(m, q) /\ ~ onPeerAddedAgain(m, q)
      BY <3>1 DEF onPeerAdded, onPeerAddedAgain
    <3>4. QED
      BY <3>2, <3>3
  <2>2. \E m \in Node, q \in Peer : onPeerRemoved(m, q)
    BY <2>1 DEF Next
  <2>3. onPeerRemoved(n, p)
    <3>1. PICK m \in Node, q \in Peer : onPeerRemoved(m, q)
      BY <2>2
    <3>2. PICK want : Handled("onPeerRemoved", m, q, want)
      BY <3>1 DEF onPeerRemoved
    <3>3. last'.node = {m} /\ last'.peer = {q}
      BY <3>2 DEF Handled
    <3>4. m = n /\ q = p
      BY <3>3
    <3>5. QED
      BY <3>1, <3>4
  <2>4. QED
    BY <2>3, RemovalHeld
<1>2. QED
  BY <1>1, LooseInductive, PTL DEF Spec, LeftoversAreShared

-----------------------------------------------------------------------------
(* Where every entry has a position of its own *)

(* At the start every ring is empty, which satisfies the invariant.        *)
LEMMA InitIInv == Init => IInv
<1> SUFFICES ASSUME Init PROVE IInv
  OBVIOUS
<1>1. << >> \in Seq(Entry) /\ Sorted(<< >>) /\ Range(<< >>) = {} /\ Members(<< >>) = {}
  BY DEF Sorted, Range, Members
<1>2. EntriesOf({}, hash) = {}
  BY EntriesOfMember
<1>3. Placed(<< >>, EntriesOf(Members(<< >>), hash))
  BY <1>1, <1>2 DEF Placed
<1>4. \A n \in Node : nodes[n] = << >> /\ phase[n] = "new"
  BY DEF Init
<1>5. QED
  BY <1>1, <1>3, <1>4 DEF Init, IInv

(* A handler that leaves node n with the ring of some set of peers, n      *)
(* among them, and the other nodes' rings alone keeps the invariant.       *)
LEMMA RingStep ==
  ASSUME IsInjective(hash), IInv, NEW n \in Node, NEW S \in SUBSET Peer, n \in S,
         NEW ring, Placed(ring, EntriesOf(S, hash)),
         hash' = hash, nodes' = [nodes EXCEPT ![n] = ring],
         phase' \in [Node -> {"new", "waiting", "ready"}], phase'[n] # "new",
         cooling' \in [Node -> Seq(Peer)],
         \A m \in Node : m # n => phase'[m] = phase[m] /\ cooling'[m] = cooling[m]
  PROVE  IInv'
<1>1. hash \in Hash /\ IsInjective(hash)
  BY HashAssumption DEF IInv
<1>2. Members(ring) = S
  BY <1>1, MembersPlaced
<1>3. ring \in Seq(Entry)
  BY DEF Placed
<1>4. nodes' \in [Node -> Seq(Entry)]
  BY <1>3 DEF IInv
<1>5. ASSUME NEW m \in Node
      PROVE  /\ Members(nodes'[m]) \subseteq Peer
             /\ Placed(nodes'[m], EntriesOf(Members(nodes'[m]), hash'))
             /\ phase'[m] # "new" => m \in Members(nodes'[m])
             /\ phase'[m] = "new" => nodes'[m] = << >> /\ cooling'[m] = << >>
  <2>1. CASE m = n
    <3>1. nodes'[m] = ring
      BY <2>1 DEF IInv
    <3>2. QED
      BY <3>1, <2>1, <1>2
  <2>2. CASE m # n
    <3>1. nodes'[m] = nodes[m] /\ phase'[m] = phase[m] /\ cooling'[m] = cooling[m]
      BY <2>2 DEF IInv
    <3>2. QED
      BY <3>1 DEF IInv
  <2>3. QED
    BY <2>1, <2>2
<1>6. QED
  BY <1>4, <1>5 DEF IInv

(* The same for a handler that changes no ring.                            *)
LEMMA NoRingStep ==
  ASSUME IInv, UNCHANGED <<hash, nodes>>,
         phase' \in [Node -> {"new", "waiting", "ready"}],
         cooling' \in [Node -> Seq(Peer)],
         \A m \in Node : /\ phase[m] = "new" => phase'[m] = "new" /\ cooling'[m] = cooling[m]
                         /\ phase'[m] = "new" => phase[m] = "new"
  PROVE  IInv'
  BY DEF IInv

(* Every handler preserves the invariant.                                  *)
LEMMA NextIInv == ASSUME IsInjective(hash) PROVE IInv /\ [Next]_vars => IInv'
<1> SUFFICES ASSUME IInv, [Next]_vars PROVE IInv'
  OBVIOUS
<1>1. hash \in Hash /\ IsInjective(hash)
  BY HashAssumption DEF IInv
<1>2. ASSUME NEW n \in Node, initRing(n) PROVE IInv'
  <2>1. PICK S \in SUBSET Peer : \E ps \in Orders(S) :
          n \in S /\ nodes' = [nodes EXCEPT ![n] = allocateAll(ps, hash)]
    BY <1>2 DEF initRing
  <2>2. PICK ps \in Orders(S) : n \in S /\ nodes' = [nodes EXCEPT ![n] = allocateAll(ps, hash)]
    BY <2>1
  <2>3. Placed(allocateAll(ps, hash), EntriesOf(S, hash))
    BY <1>1, InitRingPlaced
  <2>4. /\ hash' = hash
        /\ phase' \in [Node -> {"new", "waiting", "ready"}] /\ phase'[n] # "new"
        /\ \A m \in Node : m # n => phase'[m] = phase[m]
    BY <1>2 DEF initRing, IInv
  <2>5. PICK qs \in Seq(Peer) : cooling' = [cooling EXCEPT ![n] = qs]
    BY <1>2, OrdersSeq DEF initRing
  <2>6. /\ cooling' \in [Node -> Seq(Peer)]
        /\ \A m \in Node : m # n => cooling'[m] = cooling[m]
    BY <2>5 DEF IInv
  <2>7. QED
    BY <2>2, <2>3, <2>4, <2>6, RingStep
<1>3. ASSUME NEW n \in Node, stealTokens(n) PROVE IInv'
  BY <1>3, NoRingStep DEF stealTokens, IInv
<1>4. ASSUME NEW n \in Node, coolDown(n) PROVE IInv'
  <2>1. UNCHANGED <<hash, nodes, phase>> /\ phase' \in [Node -> {"new", "waiting", "ready"}]
    BY <1>4 DEF coolDown, IInv
  <2>2. cooling[n] \in Seq(Peer) /\ cooling[n] # << >> /\ phase[n] # "new"
    BY <1>4 DEF coolDown, IInv
  <2>3. Tail(cooling[n]) \in Seq(Peer) /\ cooling' = [cooling EXCEPT ![n] = Tail(cooling[n])]
    BY <1>4, <2>2 DEF coolDown
  <2>4. /\ cooling' \in [Node -> Seq(Peer)]
        /\ \A m \in Node : m # n => cooling'[m] = cooling[m]
    BY <2>3 DEF IInv
  <2>5. QED
    BY <2>1, <2>2, <2>4, NoRingStep
<1>5. ASSUME NEW n \in Node, NEW peer \in Peer, onPeerAdded(n, peer) PROVE IInv'
  <2> DEFINE S == Members(nodes[n])
  <2>1. /\ peer \notin S
        /\ nodes' = [nodes EXCEPT ![n] = allocateOnRing(nodes[n], peer, hash)]
        /\ UNCHANGED <<hash, phase>>
        /\ phase[n] # "new"
    BY <1>5 DEF onPeerAdded
  <2>2. n \in S /\ S \in SUBSET Peer /\ Placed(nodes[n], EntriesOf(S, hash))
    BY <2>1 DEF IInv
  <2> HIDE DEF S
  <2>3. Placed(allocateOnRing(nodes[n], peer, hash), EntriesOf(S \cup {peer}, hash))
    BY <1>1, <2>1, <2>2, AllocatePlaced
  <2>4. phase' \in [Node -> {"new", "waiting", "ready"}] /\ phase'[n] # "new"
    BY <2>1 DEF IInv
  <2>5. S \cup {peer} \in SUBSET Peer /\ n \in S \cup {peer}
    BY <2>2
  <2>6. cooling[n] \in Seq(Peer) /\ cooling' = [cooling EXCEPT ![n] = Append(cooling[n], peer)]
    BY <1>5 DEF onPeerAdded, IInv
  <2>7. Append(cooling[n], peer) \in Seq(Peer)
    BY <2>6
  <2>8. /\ cooling' \in [Node -> Seq(Peer)]
        /\ \A m \in Node : m # n => phase'[m] = phase[m] /\ cooling'[m] = cooling[m]
    BY <2>1, <2>6, <2>7 DEF IInv
  <2>9. QED
    BY <2>1, <2>3, <2>4, <2>5, <2>8, RingStep
<1>6. ASSUME NEW n \in Node, NEW peer \in Peer, onPeerAddedAgain(n, peer) PROVE IInv'
  BY <1>6, NoRingStep DEF onPeerAddedAgain, IInv
<1>7. ASSUME NEW n \in Node, NEW peer \in Peer, onPeerRemoved(n, peer) PROVE IInv'
  <2> DEFINE S == Members(nodes[n])
  <2>1. /\ peer # n
        /\ nodes' = [nodes EXCEPT ![n] = deallocateFromRing(nodes[n], peer, hash)]
        /\ UNCHANGED <<hash, phase>>
        /\ phase[n] # "new"
    BY <1>7 DEF onPeerRemoved
  <2>2. n \in S /\ S \in SUBSET Peer /\ Placed(nodes[n], EntriesOf(S, hash))
    BY <2>1 DEF IInv
  <2> HIDE DEF S
  <2>3. Placed(deallocateFromRing(nodes[n], peer, hash), EntriesOf(S \ {peer}, hash))
    BY <1>1, <2>2, DeallocatePlaced
  <2>4. phase' \in [Node -> {"new", "waiting", "ready"}] /\ phase'[n] # "new"
    BY <2>1 DEF IInv
  <2>5. S \ {peer} \in SUBSET Peer /\ n \in S \ {peer}
    BY <2>1, <2>2
  <2>6. cooling[n] \in Seq(Peer) /\ cooling' = [cooling EXCEPT ![n] = RemoveFirst(cooling[n], peer)]
    BY <1>7 DEF onPeerRemoved, IInv
  <2>7. RemoveFirst(cooling[n], peer) \in Seq(Peer)
    BY <2>6, RemoveFirstType
  <2>8. /\ cooling' \in [Node -> Seq(Peer)]
        /\ \A m \in Node : m # n => phase'[m] = phase[m] /\ cooling'[m] = cooling[m]
    BY <2>1, <2>6, <2>7 DEF IInv
  <2>9. QED
    BY <2>1, <2>3, <2>4, <2>5, <2>8, RingStep
<1>8. CASE UNCHANGED vars
  BY <1>8, NoRingStep DEF vars, IInv
<1>9. QED
  BY <1>2, <1>3, <1>4, <1>5, <1>6, <1>7, <1>8 DEF Next

(* The invariant holds of every behavior.                                  *)
LEMMA RingInductive == ASSUME DistinctPositions PROVE Spec => []IInv
<1>1. IInv => IsInjective(hash)
  BY DEF IInv, DistinctPositions
<1>2. IInv /\ [Next]_vars => IInv'
  BY <1>1, NextIInv
<1>3. QED
  BY <1>2, InitIInv, PTL DEF Spec

-----------------------------------------------------------------------------

(* The invariant says more than RingInv.                                   *)
LEMMA IInvRingInv == IInv => RingInv
<1> SUFFICES ASSUME IInv, NEW n \in Node
             PROVE  /\ \A i, j \in DOMAIN nodes[n] : i < j => nodes[n][i].pos < nodes[n][j].pos
                    /\ Range(nodes[n]) = EntriesOf(view[n], hash)
                    /\ phase[n] # "new" => n \in view[n]
  BY DEF RingInv
<1>1. view[n] = Members(nodes[n])
  BY DEF view
<1>2. /\ nodes[n] \in Seq(Entry) /\ Sorted(nodes[n])
      /\ Range(nodes[n]) = EntriesOf(Members(nodes[n]), hash)
      /\ phase[n] # "new" => n \in Members(nodes[n])
  BY DEF IInv, Placed
<1>3. DOMAIN nodes[n] = 1 .. Len(nodes[n])
  BY <1>2
<1>4. QED
  BY <1>1, <1>2, <1>3 DEF Sorted

(* Two rings that satisfy the invariant and have the same members are      *)
(* equal, and equal rings give equal preference lists.                     *)
LEMMA IInvAgreedPlacement == (IsInjective(hash) => IInv) => AgreedPlacement
<1> SUFFICES ASSUME IInv, NEW n \in Node, NEW m \in Node, view[n] = view[m]
             PROVE  nodes[n] = nodes[m]
  BY DEF AgreedPlacement
<1>1. Members(nodes[n]) = Members(nodes[m])
  BY DEF view
<1>2. Placed(nodes[n], EntriesOf(Members(nodes[n]), hash))
  BY DEF IInv
<1>3. Placed(nodes[m], EntriesOf(Members(nodes[n]), hash))
  BY <1>1 DEF IInv
<1>4. QED
  BY <1>2, <1>3, PlacedUnique

(* For any number of peers, virtual nodes, tokens and positions, and any   *)
(* sequence of joins and removals: each node's ring stays sorted and holds *)
(* all the entries of each peer it knows, itself among them, and no other. *)
THEOREM RingStaysSorted == ASSUME DistinctPositions PROVE Spec => []RingInv
  BY RingInductive, IInvRingInv, PTL

(* No handler changes the hash, so that each behavior with distinct        *)
(* positions has the invariant, whatever the hashes of the others.         *)
LEMMA NextAnyHash == (IsInjective(hash) => IInv) /\ [Next]_vars => (IsInjective(hash) => IInv)'
<1> SUFFICES ASSUME IsInjective(hash) => IInv, [Next]_vars, IsInjective(hash)' PROVE IInv'
  OBVIOUS
<1>1. hash' = hash
  BY DEF Next, vars, initRing, stealTokens, coolDown, onPeerAdded, onPeerAddedAgain, onPeerRemoved
<1>2. IsInjective(hash)
  BY <1>1
<1>3. QED
  BY <1>2, NextIInv

(* For any number of peers, virtual nodes, tokens and positions, any hash  *)
(* that gives every entry a position of its own and any sequences of joins *)
(* and removals: two nodes that know the same peers compute the same       *)
(* preference list for every key, whatever the order in which each of them *)
(* came to know those peers.                                               *)
THEOREM NodesAgree == Spec => []AgreedPlacement
<1>1. Init => (IsInjective(hash) => IInv)
  BY InitIInv
<1>2. QED
  BY <1>1, NextAnyHash, IInvAgreedPlacement, PTL DEF Spec

-----------------------------------------------------------------------------
(* The tokens of a transfer *)

(* The tokens between two tokens are natural numbers, wrapped or not.      *)
LEMMA TokensBetweenType ==
  ASSUME NEW s \in Nat, NEW t \in Nat PROVE tokensBetween(s, t) \subseteq Nat
<1>1. Tokens \in Nat /\ Tokens > 0
  BY RingAssumption
<1>2. \A x \in Nat, y \in Nat \ {0} : x % y \in Nat
  OBVIOUS
<1>3. CASE s > t
  <2>1. \A i \in s .. Tokens + t - 1 : (IF i > Tokens THEN i - Tokens ELSE i) \in Nat
    BY <1>1
  <2>2. QED
    BY <1>3, <2>1 DEF tokensBetween
<1>4. CASE ~ (s > t)
  <2>1. \A i \in s .. t - 1 : i % (Tokens + 1) \in Nat
    BY <1>1, <1>2
  <2>2. QED
    BY <1>4, <2>1 DEF tokensBetween
<1>5. QED
  BY <1>3, <1>4

(* A walk backward around the ring finds only entries of the ring.         *)
LEMMA WalkBackType ==
  ASSUME NEW ring \in Seq(Entry), NEW idx \in Int, NEW ips
  PROVE  walkBack(ring, idx, ips) \subseteq {ring[k] : k \in 1 .. Len(ring)}
<1> DEFINE at(k) == ((idx - 1 - k) % Len(ring)) + 1
           K == {k \in 0 .. Len(ring) - 1 : ring[at(k)].ip \in ips}
<1>1. CASE K = {}
  BY <1>1 DEF walkBack
<1>2. CASE K # {}
  <2>1. K \subseteq Nat
    OBVIOUS
  <2>2. PICK k \in K : \A j \in K : k <= j
    BY <1>2, <2>1, NatMin
  <2>3. Min(K) \in K
    BY <2>2 DEF Min
  <2>4. Min(K) \in Nat /\ Len(ring) \in Nat \ {0}
    BY <2>3
  <2>5. \A x \in Int, y \in Nat \ {0} : x % y \in 0 .. y - 1
    OBVIOUS
  <2>6. idx - 1 - Min(K) \in Int
    BY <2>4
  <2>7. at(Min(K)) \in 1 .. Len(ring)
    <3>1. (idx - 1 - Min(K)) % Len(ring) \in 0 .. Len(ring) - 1
      BY <2>4, <2>5, <2>6
    <3>2. QED
      BY <2>4, <3>1
  <2>8. walkBack(ring, idx, ips) = {ring[at(Min(K))]}
    BY <1>2 DEF walkBack
  <2>9. QED
    BY <2>7, <2>8
<1>3. QED
  BY <1>1, <1>2

(* Asking the peers of some entries for the tokens up to other entries.    *)
LEMMA AskedType ==
  ASSUME NEW pos \in Position, NEW from \in SUBSET Entry, NEW next \in SUBSET Entry
  PROVE  {<<e.ip, t>> : e \in from,
                        t \in UNION {tokensBetween(getToken(pos), getToken(m.pos)) : m \in next}}
         \subseteq Peer \X Nat
<1>1. \A e \in Entry : e.ip \in Peer /\ e.pos \in Position
  BY DEF Entry
<1>2. \A m \in next : tokensBetween(getToken(pos), getToken(m.pos)) \subseteq Nat
  BY <1>1, TokenType, TokensBetweenType
<1>3. UNION {tokensBetween(getToken(pos), getToken(m.pos)) : m \in next} \subseteq Nat
  BY <1>2
<1>4. QED
  BY <1>1, <1>3

(* A transfer asks peers for tokens.                                       *)
LEMMA TransferType ==
  ASSUME NEW h \in Hash, NEW ring \in Seq(Entry), Ordered(ring), NEW me \in Peer, NEW node \in Peer,
         NEW isAdded \in BOOLEAN, NEW young
  PROVE  tokensToTransfer(ring, h, me, node, isAdded, young) \subseteq Peer \X Nat
<1> DEFINE pos(i)  == h[<<node, i>>]
           idx(i)  == getInsertionPoint(ring, pos(i))
           prev(i) == getPrevActiveNode(ring, idx(i), node, IF isAdded THEN {} ELSE young)
           mine(i) == {e \in prev(i) : e.ip = me /\ Len(ring) # 1}
           next(i) == IF isAdded THEN getNextNode(ring, idx(i))
                      ELSE {ring[IF idx(i) > Len(ring) THEN 1 ELSE idx(i)]}
           from(i) == IF isAdded THEN prev(i) ELSE IF mine(i) = {} THEN {} ELSE next(i)
           toks(i) == UNION {tokensBetween(getToken(pos(i)), getToken(m.pos)) : m \in next(i)}
           asked(i) == {<<e.ip, t>> : e \in from(i), t \in toks(i)}
           entries == {ring[k] : k \in 1 .. Len(ring)}
<1>1. Len(ring) \in Nat
  OBVIOUS
<1>2. entries \subseteq Entry
  BY <1>1
<1>3. ASSUME NEW i \in 0 .. VirtualNodes PROVE asked(i) \subseteq Peer \X Nat
  <2>1. pos(i) \in Position
    BY DEF Hash
  <2>2. idx(i) \in 1 .. Len(ring) + 1
    BY <1>1, <2>1, SearchLands DEF Lands
  <2> HIDE DEF idx, pos
  <2>3. idx(i) \in Int
    BY <2>2
  <2>4. getPrevIdx(ring, idx(i)) \in Int /\ (Len(ring) # 0 => getNextIdx(ring, idx(i)) \in Int)
    BY <1>1, <2>3 DEF getPrevIdx, getNextIdx
  <2>5. prev(i) \subseteq entries
    BY <1>1, <2>4, WalkBackType DEF getPrevActiveNode
  <2>6. ASSUME from(i) # {} PROVE from(i) \subseteq Entry /\ next(i) \subseteq Entry
    <3>1. prev(i) # {}
      BY <2>6
    <3>2. Len(ring) # 0
      BY <3>1, <2>5, <1>1
    <3>3. CASE isAdded
      <4>1. next(i) \subseteq entries
        BY <3>2, <3>3, <1>1, <2>4, WalkBackType DEF getNextNode
      <4>2. from(i) \subseteq entries
        BY <2>5, <3>3
      <4>3. QED
        BY <4>1, <4>2, <1>2
    <3>4. CASE ~ isAdded
      <4>1. (IF idx(i) > Len(ring) THEN 1 ELSE idx(i)) \in 1 .. Len(ring)
        BY <3>2, <1>1, <2>2
      <4>2. next(i) \subseteq entries
        BY <4>1, <3>4
      <4>3. from(i) \subseteq entries
        BY <4>2, <3>4
      <4>4. QED
        BY <4>2, <4>3, <1>2
    <3>5. QED
      BY <3>3, <3>4
  <2> HIDE DEF from, next
  <2>7. CASE from(i) = {}
    BY <2>7
  <2>8. CASE from(i) # {}
    BY <2>1, <2>6, <2>8, AskedType
  <2>9. QED
    BY <2>7, <2>8
<1>4. tokensToTransfer(ring, h, me, node, isAdded, young) = UNION {asked(i) : i \in 0 .. VirtualNodes}
  BY DEF tokensToTransfer
<1> HIDE DEF asked
<1>5. QED
  BY <1>3, <1>4

\* The part of TypeOK about `last`.
LastOK ==
  /\ last.handler \in {"none", "initRing", "stealTokens", "coolDown",
                       "onPeerAdded", "onPeerRemoved"}
  /\ last.node \subseteq Node /\ last.peer \subseteq Peer
  /\ last.want \subseteq Peer \X Nat

(* The record of a handler has its type.                                   *)
LEMMA HandledType ==
  ASSUME NEW name \in {"initRing", "stealTokens", "coolDown", "onPeerAdded", "onPeerRemoved"},
         NEW n \in Node, NEW peer \in Peer, NEW want \in SUBSET (Peer \X Nat),
         Handled(name, n, peer, want)
  PROVE  LastOK'
  BY DEF Handled, LastOK

(* Every handler leaves a record of the right type.                        *)
LEMMA NextLastOK == LooseInv /\ LastOK /\ [Next]_vars => LastOK'
<1> SUFFICES ASSUME LooseInv, LastOK, [Next]_vars PROVE LastOK'
  OBVIOUS
<1>1. hash \in Hash
  BY HashAssumption DEF LooseInv
<1>2. \A n \in Node : n \in Peer
  BY NodeAssumption
<1>3. ASSUME NEW n \in Node PROVE Loose(nodes[n], hash) /\ nodes[n] \in Seq(Entry) /\ Ordered(nodes[n])
  BY DEF LooseInv, Loose
<1>4. ASSUME NEW n \in Node, initRing(n) PROVE LastOK'
  BY <1>2, <1>4, HandledType DEF initRing
<1>5. ASSUME NEW n \in Node, stealTokens(n) PROVE LastOK'
  <2>1. Handled("stealTokens", n, n, tokensToTransfer(nodes[n], hash, n, n, TRUE, {}))
    BY <1>5 DEF stealTokens
  <2>2. tokensToTransfer(nodes[n], hash, n, n, TRUE, {}) \in SUBSET (Peer \X Nat)
    BY <1>1, <1>2, <1>3, TransferType
  <2>3. QED
    BY <1>2, <2>1, <2>2, HandledType
<1>6. ASSUME NEW n \in Node, coolDown(n) PROVE LastOK'
  BY <1>2, <1>6, HandledType DEF coolDown
<1>7. ASSUME NEW n \in Node, NEW peer \in Peer, onPeerAdded(n, peer) PROVE LastOK'
  BY <1>7, HandledType DEF onPeerAdded
<1>8. ASSUME NEW n \in Node, NEW peer \in Peer, onPeerAddedAgain(n, peer) PROVE LastOK'
  BY <1>8, HandledType DEF onPeerAddedAgain
<1>9. ASSUME NEW n \in Node, NEW peer \in Peer, onPeerRemoved(n, peer) PROVE LastOK'
  <2> DEFINE left == deallocateFromRing(nodes[n], peer, hash)
             want == tokensToTransfer(left, hash, n, peer, FALSE,
                                      Range(RemoveFirst(cooling[n], peer)))
  <2>1. Handled("onPeerRemoved", n, peer, want)
    BY <1>9 DEF onPeerRemoved
  <2>2. left \in Seq(Entry) /\ Ordered(left)
    BY <1>1, <1>3, DeallocateLoose DEF Loose
  <2> HIDE DEF left
  <2>3. want \in SUBSET (Peer \X Nat)
    BY <1>1, <1>2, <2>2, TransferType
  <2> HIDE DEF want
  <2>4. QED
    BY <2>1, <2>3, HandledType
<1>10. CASE UNCHANGED vars
  BY <1>10 DEF vars, LastOK
<1>11. QED
  BY <1>4, <1>5, <1>6, <1>7, <1>8, <1>9, <1>10 DEF Next

(* Every variable keeps its type; in particular a transfer asks known      *)
(* peers for tokens, however the ring wraps.                               *)
THEOREM RingTypeCorrect == Spec => []TypeOK
<1>1. Init => LastOK
  BY DEF Init, LastOK
<1>2. LooseInv /\ LastOK /\ [Next]_vars => LastOK'
  BY NextLastOK
<1>3. LooseInv /\ LastOK => TypeOK
  BY HashAssumption DEF LooseInv, LastOK, TypeOK
<1>4. QED
  BY <1>1, <1>2, <1>3, LooseInductive, PTL DEF Spec

-----------------------------------------------------------------------------
(* The ring implements the abstract membership *)

(* A handler that leaves node n with the ring of S changes n's view to S.  *)
LEMMA ViewStep ==
  ASSUME IInv, NEW h \in Hash, IsInjective(h), NEW n \in Node, NEW S \in SUBSET Peer,
         NEW ring, Placed(ring, EntriesOf(S, h)), nodes' = [nodes EXCEPT ![n] = ring]
  PROVE  view' = [view EXCEPT ![n] = S]
<1>1. Members(ring) = S
  BY MembersPlaced
<1>2. nodes'[n] = ring /\ \A m \in Node : m # n => nodes'[m] = nodes[m]
  BY DEF IInv
<1>3. ASSUME NEW m \in Node PROVE Members(nodes'[m]) = IF m = n THEN S ELSE Members(nodes[m])
  BY <1>1, <1>2
<1>4. view' = [m \in Node |-> Members(nodes'[m])]
  BY DEF view
<1>5. view = [m \in Node |-> Members(nodes[m])]
  BY DEF view
<1>6. QED
  BY <1>3, <1>4, <1>5

(* The record of a handler is the event of the abstract step.              *)
LEMMA EventStep ==
  ASSUME NEW name, NEW n, NEW peer, NEW want, Handled(name, n, peer, want)
  PROVE  Views!Handled(name, n, peer)
  BY DEF Handled, event, Views!Handled

(* The initial states of the ring are initial states of Membership.        *)
LEMMA InitViews == Init => Views!Init
<1>1. Members(<< >>) = {}
  BY DEF Members
<1>2. QED
  BY <1>1 DEF Init, Views!Init, view, event

(* Every step of the ring is a step of Membership or leaves the set of     *)
(* known peers and the event as they are.                                  *)
LEMMA NextViews ==
  ASSUME DistinctPositions
  PROVE  IInv /\ [Next]_vars => [Views!Next]_<<view, event>>
<1> SUFFICES ASSUME IInv, [Next]_vars PROVE [Views!Next]_<<view, event>>
  OBVIOUS
<1>1. hash \in Hash /\ IsInjective(hash)
  BY HashAssumption DEF IInv, DistinctPositions
<1>2. ASSUME NEW n \in Node
      PROVE  /\ view[n] = Members(nodes[n]) /\ view[n] \in SUBSET Peer
             /\ Placed(nodes[n], EntriesOf(view[n], hash))
             /\ phase[n] # "new" => n \in view[n]
             /\ phase[n] = "new" => view[n] = {} /\ cooling[n] = << >>
  <2>1. Members(<< >>) = {}
    BY DEF Members
  <2>2. QED
    BY <2>1 DEF IInv, view
<1>3. ASSUME NEW n \in Node, initRing(n) PROVE Views!Start(n)
  <2>1. PICK S \in SUBSET Peer : \E ps \in Orders(S) :
          n \in S /\ nodes' = [nodes EXCEPT ![n] = allocateAll(ps, hash)]
    BY <1>3 DEF initRing
  <2>2. PICK ps \in Orders(S) : n \in S /\ nodes' = [nodes EXCEPT ![n] = allocateAll(ps, hash)]
    BY <2>1
  <2>3. Placed(allocateAll(ps, hash), EntriesOf(S, hash))
    BY <1>1, InitRingPlaced
  <2>4. view' = [view EXCEPT ![n] = S]
    BY <1>1, <2>2, <2>3, ViewStep
  <2>5. phase[n] = "new" /\ Views!Handled("initRing", n, n)
    BY <1>3, EventStep DEF initRing
  <2>6. view[n] = {}
    BY <1>2, <2>5
  <2>7. QED
    BY <2>2, <2>4, <2>5, <2>6 DEF Views!Start
<1>4. ASSUME NEW n \in Node, stealTokens(n) PROVE Views!Other(n)
  <2>1. UNCHANGED nodes /\ phase[n] = "waiting" /\ Views!Handled("stealTokens", n, n)
    BY <1>4, EventStep DEF stealTokens
  <2>2. UNCHANGED view
    BY <2>1 DEF view
  <2>3. QED
    BY <1>2, <2>1, <2>2 DEF Views!Other
<1>5. ASSUME NEW n \in Node, coolDown(n) PROVE Views!Other(n)
  <2>1. UNCHANGED nodes /\ cooling[n] # << >> /\ Views!Handled("coolDown", n, n)
    BY <1>5, EventStep DEF coolDown
  <2>2. UNCHANGED view
    BY <2>1 DEF view
  <2>3. QED
    BY <1>2, <2>1, <2>2 DEF Views!Other
<1>6. ASSUME NEW n \in Node, NEW peer \in Peer, onPeerAdded(n, peer) PROVE Views!Join(n, peer)
  <2>1. /\ peer \notin view[n] /\ phase[n] # "new"
        /\ nodes' = [nodes EXCEPT ![n] = allocateOnRing(nodes[n], peer, hash)]
        /\ Views!Handled("onPeerAdded", n, peer)
    BY <1>2, <1>6, EventStep DEF onPeerAdded
  <2>2. Placed(allocateOnRing(nodes[n], peer, hash), EntriesOf(view[n] \cup {peer}, hash))
    BY <1>1, <1>2, <2>1, AllocatePlaced
  <2>3. view[n] \cup {peer} \in SUBSET Peer
    BY <1>2
  <2>4. view' = [view EXCEPT ![n] = view[n] \cup {peer}]
    BY <1>1, <2>1, <2>2, <2>3, ViewStep
  <2>5. QED
    BY <1>2, <2>1, <2>4 DEF Views!Join
<1>7. ASSUME NEW n \in Node, NEW peer \in Peer, onPeerAddedAgain(n, peer) PROVE Views!Join(n, peer)
  <2>1. /\ peer \in view[n] /\ phase[n] # "new" /\ UNCHANGED nodes
        /\ Views!Handled("onPeerAdded", n, peer)
    BY <1>2, <1>7, EventStep DEF onPeerAddedAgain
  <2>2. view' = view /\ view[n] \cup {peer} = view[n]
    BY <2>1 DEF view
  <2>3. view' = [view EXCEPT ![n] = view[n] \cup {peer}]
    BY <2>2 DEF view
  <2>4. QED
    BY <1>2, <2>1, <2>3 DEF Views!Join
<1>8. ASSUME NEW n \in Node, NEW peer \in Peer, onPeerRemoved(n, peer) PROVE Views!Leave(n, peer)
  <2>1. /\ peer # n /\ phase[n] # "new"
        /\ nodes' = [nodes EXCEPT ![n] = deallocateFromRing(nodes[n], peer, hash)]
        /\ Views!Handled("onPeerRemoved", n, peer)
    BY <1>8, EventStep DEF onPeerRemoved
  <2>2. Placed(deallocateFromRing(nodes[n], peer, hash), EntriesOf(view[n] \ {peer}, hash))
    BY <1>1, <1>2, DeallocatePlaced
  <2>3. view[n] \ {peer} \in SUBSET Peer
    BY <1>2
  <2>4. view' = [view EXCEPT ![n] = view[n] \ {peer}]
    BY <1>1, <2>1, <2>2, <2>3, ViewStep
  <2>5. QED
    BY <1>2, <2>1, <2>4 DEF Views!Leave
<1>9. CASE UNCHANGED vars
  BY <1>9 DEF vars, view, event
<1>10. QED
  BY <1>3, <1>4, <1>5, <1>6, <1>7, <1>8, <1>9 DEF Next, Views!Next

(* Every handler does to the peers a node knows what the abstract          *)
(* membership says, and nothing else: a removal takes away all the entries *)
(* of the peer it names and the last entry of nobody else, a join adds the *)
(* peer it names and drops none.                                           *)
THEOREM RingRefinesMembership == ASSUME DistinctPositions PROVE Spec => RingImplementsMembership
<1>1. IInv /\ [Next]_vars => [Views!Next]_<<view, event>>
  BY NextViews
<1>2. QED
  BY <1>1, InitViews, RingInductive, PTL DEF Spec, RingImplementsMembership, Views!Spec

-----------------------------------------------------------------------------
(* The owner and the preference list *)

(* getInsertionPoint with its token finds the entry at OwnerPos.           *)
LEMMA OwnerFacts ==
  ASSUME NEW S \in SUBSET Peer, S # {}, NEW at, Spread(at), NEW ring, Holds(ring, at, S),
         NEW x \in Position
  PROVE  /\ getOwnerIdx(ring, x) \in 1 .. Len(ring)
         /\ ring[getOwnerIdx(ring, x)].pos = OwnerPos(All(at, S), x)
<1> DEFINE L     == Len(ring)
           P     == All(at, S)
           idx   == getInsertionPoint(ring, x)
           left  == IF idx > L THEN 1 ELSE idx
           prev  == getPrevIdx(ring, left)
           t(y)  == getToken(y)
           ahead == {y \in P : y >= x}
           block == {y \in P : y < x /\ t(y) = t(x)}
           o     == getOwnerIdx(ring, x)
<1>1. /\ ring \in Seq(Entry) /\ L \in Nat
      /\ \A k \in 1 .. L : ring[k].pos \in Position /\ ring[k].pos \in Int
      /\ \A i, j \in 1 .. L : i < j => ring[i].pos < ring[j].pos
  BY RingTypes DEF Holds, Sorted
<1>2. \A y : y \in P <=> \E k \in 1 .. L : ring[k].pos = y
  <2>1. ASSUME NEW y \in P PROVE \E k \in 1 .. L : ring[k].pos = y
    <3>1. PICK p \in S : y \in at[p]
      BY DEF All
    <3>2. QED
      BY <3>1 DEF Holds
  <2>2. ASSUME NEW k \in 1 .. L PROVE ring[k].pos \in P
    BY DEF Holds, All
  <2>3. QED
    BY <2>1, <2>2
<1>3. L > 0
  <2>1. PICK p \in S : TRUE
    OBVIOUS
  <2>2. PICK y \in at[p] : TRUE
    BY DEF Spread
  <2>3. PICK k \in 1 .. L : ring[k].ip = p
    BY DEF Holds
  <2>4. QED
    BY <1>1, <2>3
<1>4. /\ idx \in 1 .. L + 1
      /\ \A k \in 1 .. L : k < idx => ring[k].pos < x
      /\ \A k \in 1 .. L : k >= idx => ring[k].pos >= x
  BY InsertionPoint DEF Holds, Splits
<1>5. x \in Nat /\ x \in Int
  BY RingAssumption DEF Position
<1>6. \A y \in P : y \in Position /\ y \in Nat /\ y \in Int
  BY <1>1, <1>2, RingAssumption DEF Position
<1>7. \A y, z \in P \cup {x} : /\ t(y) \in Nat
                               /\ y <= z => t(y) <= t(z)
                               /\ y > 0 => t(y) > 0
  BY <1>6, TokenOrder
<1>8. prev = IF left = 1 THEN L ELSE left - 1
  BY DEF getPrevIdx
<1>9. o = IF /\ ~ (idx <= L /\ ring[left].pos = x)
             /\ t(x) # 0 /\ t(x) < t(ring[left].pos) /\ t(x) = t(ring[prev].pos)
          THEN prev ELSE left
  BY DEF getOwnerIdx
<1>10. OwnerPos(P, x) = IF ahead = {} THEN Min(P)
                        ELSE IF Min(ahead) # x /\ t(Min(ahead)) # t(x) /\ block # {}
                             THEN Max(block) ELSE Min(ahead)
  BY DEF OwnerPos
<1> HIDE DEF L, P, idx, t, o, prev
<1>11. \A k \in 1 .. L : ring[k].pos \in P /\ ring[1].pos <= ring[k].pos /\ ring[k].pos <= ring[L].pos
  <2> SUFFICES ASSUME NEW k \in 1 .. L
               PROVE  ring[k].pos \in P /\ ring[1].pos <= ring[k].pos /\ ring[k].pos <= ring[L].pos
    OBVIOUS
  <2>1. 1 \in 1 .. L /\ L \in 1 .. L
    BY <1>1, <1>3
  <2>2. k = 1 \/ ring[1].pos < ring[k].pos
    BY <1>1, <2>1
  <2>3. k = L \/ ring[k].pos < ring[L].pos
    BY <1>1, <2>1
  <2>4. QED
    BY <1>1, <1>2, <2>1, <2>2, <2>3
<1>12. 1 \in 1 .. L /\ L \in 1 .. L
  BY <1>1, <1>3
<1>13. CASE idx > L
  <2>1. left = 1 /\ prev = L
    BY <1>8, <1>13
  <2>2. \A k \in 1 .. L : ring[k].pos < x
    BY <1>1, <1>4, <1>13
  <2>3. ahead = {}
    BY <1>2, <1>5, <1>6, <2>2
  <2>4. Min(P) = ring[1].pos
    <3>1. P \in SUBSET Int /\ ring[1].pos \in P /\ \A y \in P : ring[1].pos <= y
      BY <1>2, <1>6, <1>11, <1>12
    <3>2. QED
      BY <3>1, MinIs
  <2>5. ~ (t(x) < t(ring[1].pos))
    BY <1>5, <1>6, <1>7, <1>11, <1>12, <2>2
  <2>6. o = 1
    BY <1>9, <2>1, <2>5
  <2>7. QED
    BY <1>10, <1>12, <2>3, <2>4, <2>6 DEF o, P, L
<1>14. CASE ~ (idx > L)
  <2>1. left = idx /\ idx \in 1 .. L
    BY <1>1, <1>4, <1>14
  <2> DEFINE a == ring[idx].pos
  <2>2. a \in P /\ a >= x
    BY <1>4, <1>11, <2>1
  <2>3. Min(ahead) = a
    <3>1. ahead \in SUBSET Int /\ a \in ahead
      BY <1>6, <2>2
    <3>2. ASSUME NEW y \in ahead PROVE a <= y
      <4>1. PICK k \in 1 .. L : ring[k].pos = y
        BY <1>2
      <4>2. ~ (k < idx)
        BY <1>4, <1>5, <1>6, <4>1
      <4>3. k = idx \/ ring[idx].pos < ring[k].pos
        BY <1>1, <2>1, <4>1, <4>2
      <4>4. QED
        BY <1>6, <2>2, <4>1, <4>3
    <3>3. QED
      BY <3>1, <3>2, MinIs
  <2>4. ahead # {}
    BY <2>2
  <2>5. t(a) # t(x) <=> t(x) < t(a)
    BY <1>5, <1>6, <1>7, <2>2
  <2>6. CASE idx = 1
    <3>1. prev = L
      BY <1>8, <2>1, <2>6
    <3>2. block = {}
      <4>1. \A k \in 1 .. L : ring[k].pos >= x
        BY <1>4, <2>6
      <4>2. QED
        BY <1>2, <1>5, <1>6, <4>1
    <3>3. ~ (t(x) < t(a) /\ t(x) = t(ring[prev].pos))
      <4>1. a <= ring[L].pos /\ ring[L].pos \in P
        BY <1>11, <1>12, <2>1
      <4>2. t(a) <= t(ring[L].pos) /\ t(a) \in Nat /\ t(x) \in Nat /\ t(ring[L].pos) \in Nat
        BY <1>7, <2>2, <4>1
      <4>3. QED
        BY <3>1, <4>2
    <3>4. o = idx
      BY <1>9, <2>1, <3>3
    <3>5. QED
      BY <1>10, <2>1, <2>3, <2>4, <3>2, <3>4 DEF o, P, L
  <2>7. CASE idx # 1
    <3> DEFINE b == ring[idx - 1].pos
    <3>1. prev = idx - 1 /\ idx - 1 \in 1 .. L
      BY <1>1, <1>8, <2>1, <2>7
    <3>2. b \in P /\ b < x
      BY <1>4, <1>11, <2>1, <3>1
    <3>3. \A y \in P : y < x => y <= b
      <4> SUFFICES ASSUME NEW y \in P, y < x PROVE y <= b
        OBVIOUS
      <4>1. PICK k \in 1 .. L : ring[k].pos = y
        BY <1>2
      <4>2. ~ (k >= idx)
        BY <1>4, <1>5, <1>6, <4>1
      <4>3. k = idx - 1 \/ k < idx - 1
        BY <2>1, <4>2
      <4>4. k = idx - 1 \/ ring[k].pos < ring[idx - 1].pos
        BY <1>1, <3>1, <4>3
      <4>5. QED
        BY <1>6, <3>2, <4>1, <4>4
    <3>4. t(x) # 0
      <4>1. x > 0
        BY <1>5, <1>6, <3>2
      <4>2. QED
        BY <1>7, <4>1
    <3>5. block # {} => t(b) = t(x)
      <4> SUFFICES ASSUME NEW y \in block PROVE t(b) = t(x)
        OBVIOUS
      <4>1. y \in P /\ y < x /\ t(y) = t(x) /\ y <= b /\ b <= x
        BY <1>5, <1>6, <3>2, <3>3
      <4>2. t(y) <= t(b) /\ t(b) <= t(x) /\ t(b) \in Nat /\ t(x) \in Nat
        BY <1>7, <3>2, <4>1
      <4>3. QED
        BY <4>1, <4>2
    <3>6. t(b) = t(x) => b \in block /\ Max(block) = b
      <4> SUFFICES ASSUME t(b) = t(x) PROVE b \in block /\ Max(block) = b
        OBVIOUS
      <4>1. b \in block /\ block \in SUBSET Int /\ \A y \in block : b >= y
        BY <1>6, <3>2, <3>3
      <4>2. QED
        BY <4>1, MaxIs
    <3>7. block # {} <=> t(b) = t(x)
      BY <3>5, <3>6
    <3>8. o = IF a # x /\ t(x) < t(a) /\ t(x) = t(b) THEN idx - 1 ELSE idx
      BY <1>1, <1>9, <2>1, <3>1, <3>4
    <3>9. CASE a # x /\ t(x) < t(a) /\ t(x) = t(b)
      <4>1. OwnerPos(P, x) = b
        BY <1>10, <2>3, <2>4, <2>5, <3>6, <3>7, <3>9
      <4>2. QED
        BY <3>1, <3>8, <3>9, <4>1 DEF o, P, L
    <3>10. CASE ~ (a # x /\ t(x) < t(a) /\ t(x) = t(b))
      <4>1. OwnerPos(P, x) = a
        BY <1>10, <2>3, <2>4, <2>5, <3>7, <3>10
      <4>2. QED
        BY <2>1, <3>8, <3>10, <4>1 DEF o, P, L
    <3>11. QED
      BY <3>9, <3>10
  <2>8. QED
    BY <2>6, <2>7
<1>15. QED
  BY <1>13, <1>14

(* The list starts at the owner's entry.                                   *)
LEMMA OwnerFirst ==
  ASSUME NEW S \in SUBSET Peer, S # {}, NEW at, Spread(at), NEW ring, Holds(ring, at, S),
         NEW x \in Position, NEW rf \in Nat \ {0}
  PROVE  ClockwiseList(getPreferenceListForKey(ring, x, rf), at, OwnerPos(All(at, S), x), S, rf)
<1>1. getOwnerIdx(ring, x) \in 1 .. Len(ring) /\ ring[getOwnerIdx(ring, x)].pos = OwnerPos(All(at, S), x)
  BY OwnerFacts
<1>2. ClockwiseList(getPreferenceListForKey(ring, x, rf), at, ring[getOwnerIdx(ring, x)].pos, S, rf)
  BY <1>1, PreferenceListFacts
<1>3. QED
  BY <1>1, <1>2

\* The positions that a hash function gives each peer.
PositionsAt(h) == [p \in Peer |-> {h[<<p, i>>] : i \in 0 .. VirtualNodes}]

(* Where every entry has a position of its own, peers share no position.   *)
LEMMA HashSpreads ==
  ASSUME NEW h \in Hash, IsInjective(h)
  PROVE  Spread(PositionsAt(h))
<1> DEFINE at == PositionsAt(h)
<1>1. \A p \in Peer : \A y : y \in at[p] <=> \E i \in 0 .. VirtualNodes : y = h[<<p, i>>]
  BY DEF PositionsAt
<1>2. \A p \in Peer : \A i \in 0 .. VirtualNodes : h[<<p, i>>] \in Position
  BY DEF Hash
<1>3. DOMAIN at = Peer /\ at = [p \in Peer |-> at[p]]
  BY DEF PositionsAt
<1>4. 0 \in 0 .. VirtualNodes
  BY RingAssumption
<1>5. \A p, q \in Peer : \A i, j \in 0 .. VirtualNodes : h[<<p, i>>] = h[<<q, j>>] => p = q
  BY HashFacts
<1> HIDE DEF at
<1>6. ASSUME NEW p \in Peer PROVE at[p] \in SUBSET Position /\ at[p] # {}
  <2>1. h[<<p, 0>>] \in at[p]
    BY <1>1, <1>4
  <2>2. ASSUME NEW y \in at[p] PROVE y \in Position
    <3>1. PICK i \in 0 .. VirtualNodes : y = h[<<p, i>>]
      BY <1>1
    <3>2. QED
      BY <1>2, <3>1
  <2>3. QED
    BY <2>1, <2>2
<1>7. ASSUME NEW p \in Peer, NEW q \in Peer, at[p] \cap at[q] # {} PROVE p = q
  <2>1. PICK y : y \in at[p] /\ y \in at[q]
    BY <1>7
  <2>2. PICK i \in 0 .. VirtualNodes : y = h[<<p, i>>]
    BY <1>1, <2>1
  <2>3. PICK j \in 0 .. VirtualNodes : y = h[<<q, j>>]
    BY <1>1, <2>1
  <2>4. QED
    BY <1>5, <2>2, <2>3
<1>8. at \in [Peer -> SUBSET Position]
  BY <1>3, <1>6
<1>9. QED
  BY <1>6, <1>7, <1>8 DEF Spread, at

(* A ring with the entries of the peers S holds them.                      *)
LEMMA PlacedHolds ==
  ASSUME NEW h \in Hash, IsInjective(h), NEW S \in SUBSET Peer, NEW ring,
         Placed(ring, EntriesOf(S, h))
  PROVE  Holds(ring, PositionsAt(h), S)
<1>1. ring \in Seq(Entry) /\ Sorted(ring) /\ Range(ring) = EntriesOf(S, h)
  BY DEF Placed
<1>2. \A e : e \in EntriesOf(S, h) <=> \E k \in 1 .. Len(ring) : e = ring[k]
  BY <1>1, RangeFacts
<1>3. \A d : d \in EntriesOf(S, h) <=>
         \E q \in S : \E j \in 0 .. VirtualNodes : d = [ip |-> q, pos |-> h[<<q, j>>]]
  BY EntriesOfFacts
<1> DEFINE at == PositionsAt(h)
<1>4. \A p \in Peer : \A y : y \in at[p] <=> \E i \in 0 .. VirtualNodes : y = h[<<p, i>>]
  BY DEF PositionsAt
<1> HIDE DEF at
<1>5. ASSUME NEW k \in 1 .. Len(ring) PROVE ring[k].ip \in S /\ ring[k].pos \in at[ring[k].ip]
  <2>1. PICK q \in S, j \in 0 .. VirtualNodes : ring[k] = [ip |-> q, pos |-> h[<<q, j>>]]
    <3>1. ring[k] \in EntriesOf(S, h)
      BY <1>2
    <3>2. QED
      BY <1>3, <3>1
  <2>2. ring[k].ip = q /\ ring[k].pos = h[<<q, j>>]
    BY <2>1
  <2>3. QED
    BY <1>4, <2>2
<1>6. ASSUME NEW p \in S, NEW y \in at[p]
      PROVE  \E k \in 1 .. Len(ring) : ring[k].ip = p /\ ring[k].pos = y
  <2>1. PICK j \in 0 .. VirtualNodes : y = h[<<p, j>>]
    BY <1>4
  <2>2. PICK k \in 1 .. Len(ring) : ring[k] = [ip |-> p, pos |-> h[<<p, j>>]]
    BY <1>2, <1>3
  <2>3. ring[k].ip = p /\ ring[k].pos = y
    BY <2>1, <2>2
  <2>4. QED
    BY <2>3
<1>7. QED
  BY <1>1, <1>5, <1>6 DEF Holds, at

(* Membership in PositionsOf.                                              *)
LEMMA PositionsOfMember ==
  ASSUME NEW T
  PROVE  \A y : y \in PositionsOf(T) <=> \E p \in T : \E i \in 0 .. VirtualNodes : y = hash[<<p, i>>]
  BY DEF PositionsOf

(* PositionsOf, peer by peer.                                              *)
LEMMA PositionsOfFacts ==
  ASSUME NEW S \in SUBSET Peer
  PROVE  /\ PositionsOf(S) = All(PositionsAt(hash), S)
         /\ \A p \in Peer : PositionsOf({p}) = PositionsAt(hash)[p]
<1> DEFINE at == PositionsAt(hash)
<1>1. ASSUME NEW p \in Peer PROVE at[p] = {hash[<<p, i>>] : i \in 0 .. VirtualNodes}
  BY DEF PositionsAt
<1> HIDE DEF at
<1>3. ASSUME NEW T \in SUBSET Peer PROVE PositionsOf(T) = UNION {at[p] : p \in T}
  <2>1. ASSUME NEW p \in T, NEW i \in 0 .. VirtualNodes
        PROVE  \E q \in T : hash[<<p, i>>] \in at[q]
    BY <1>1
  <2>2. ASSUME NEW p \in T, NEW y \in at[p]
        PROVE  \E q \in T : \E i \in 0 .. VirtualNodes : y = hash[<<q, i>>]
    BY <1>1
  <2>4. \A y : y \in PositionsOf(T) <=> \E p \in T : \E i \in 0 .. VirtualNodes : y = hash[<<p, i>>]
    BY PositionsOfMember
  <2>5. \A y : y \in UNION {at[p] : p \in T} <=> \E p \in T : y \in at[p]
    OBVIOUS
  <2>6. ASSUME NEW y \in PositionsOf(T) PROVE y \in UNION {at[p] : p \in T}
    <3>1. PICK p \in T, i \in 0 .. VirtualNodes : y = hash[<<p, i>>]
      BY <2>4
    <3>2. QED
      BY <2>1, <2>5, <3>1
  <2>7. ASSUME NEW y \in UNION {at[p] : p \in T} PROVE y \in PositionsOf(T)
    <3>1. PICK p \in T : y \in at[p]
      BY <2>5
    <3>2. QED
      BY <2>2, <2>4, <3>1
  <2>8. QED
    BY <2>6, <2>7
<1>4. PositionsOf(S) = All(at, S)
  BY <1>3 DEF All
<1>5. ASSUME NEW p \in Peer PROVE PositionsOf({p}) = at[p]
  <2>1. PositionsOf({p}) = UNION {at[q] : q \in {p}}
    BY <1>3
  <2>2. QED
    BY <2>1
<1>6. QED
  BY <1>4, <1>5 DEF at

(* At every node with a ring, each member of a preference list is as far   *)
(* down the list as there are members nearer the owner.                    *)
LEMMA IInvPreferenceListOK == ASSUME DistinctPositions PROVE IInv => PreferenceListOK
<1> SUFFICES ASSUME IInv, NEW n \in Node, view[n] # {}, NEW x \in Position,
                    NEW rf \in 1 .. Cardinality(Peer)
             PROVE  LET from    == OwnerPos(PositionsOf(view[n]), x)
                        away    == [p \in view[n] |-> Min({(y - from) % RingSize : y \in PositionsOf({p})})]
                        rank(p) == Cardinality({q \in view[n] : away[q] < away[p]}) + 1
                        list    == getPreferenceListForKey(nodes[n], x, rf)
                    IN  /\ Len(list) = Min({rf, Cardinality(view[n])})
                        /\ \A k \in DOMAIN list : list[k] \in view[n] /\ rank(list[k]) = k
  BY DEF PreferenceListOK
<1> DEFINE S    == view[n]
           at   == PositionsAt(hash)
           f    == OwnerPos(PositionsOf(S), x)
           away == [p \in S |-> Min({(y - f) % RingSize : y \in PositionsOf({p})})]
           list == getPreferenceListForKey(nodes[n], x, rf)
<1>1. hash \in Hash /\ IsInjective(hash)
  BY HashAssumption DEF IInv, DistinctPositions
<1>2. S \in SUBSET Peer /\ Placed(nodes[n], EntriesOf(S, hash))
  BY DEF IInv, view
<1>3. Spread(at) /\ Holds(nodes[n], at, S)
  BY <1>1, <1>2, HashSpreads, PlacedHolds
<1>4. f = OwnerPos(All(at, S), x) /\ \A p \in Peer : PositionsOf({p}) = at[p]
  BY <1>2, PositionsOfFacts
<1> HIDE DEF at, f
<1>5. \A p \in S : away[p] = dist(at, f, p)
  BY <1>2, <1>4 DEF dist, clockwise
<1>6. rf \in Nat \ {0} /\ rf \in Int
  BY RingAssumption, FS_CardinalityType
<1> HIDE DEF S, away
<1>7. S # {}
  BY DEF S
<1>8. /\ list \in Seq(S) /\ Cardinality(S) \in Nat
      /\ Len(list) = IF Cardinality(S) <= rf THEN Cardinality(S) ELSE rf
      /\ \A i \in 1 .. Len(list) : Cardinality(Before(at, f, S, list[i])) = i - 1
  <2>1. ClockwiseList(list, at, OwnerPos(All(at, S), x), S, rf)
    BY <1>2, <1>3, <1>6, <1>7, OwnerFirst
  <2>2. QED
    BY <1>4, <2>1 DEF ClockwiseList
<1> HIDE DEF list
<1>9. Len(list) = Min({rf, Cardinality(S)})
  <2>1. {rf, Cardinality(S)} \in SUBSET Int
    BY <1>6, <1>8
  <2> DEFINE m == IF Cardinality(S) <= rf THEN Cardinality(S) ELSE rf
             T == {rf, Cardinality(S)}
  <2>2. m \in T /\ \A t \in T : m <= t
    BY <1>6, <1>8
  <2> HIDE DEF m
  <2>3. Min(T) = m
    BY <2>1, <2>2, MinIs
  <2>4. QED
    BY <1>8, <2>3 DEF m
<1>10. ASSUME NEW k \in DOMAIN list
       PROVE  list[k] \in S /\ Cardinality({q \in S : away[q] < away[list[k]]}) + 1 = k
  <2>1. k \in 1 .. Len(list) /\ list[k] \in S /\ list[k] \in Peer
    BY <1>2, <1>8
  <2>2. {q \in S : away[q] < away[list[k]]} = Before(at, f, S, list[k])
    BY <1>2, <1>5, <2>1 DEF Before
  <2>3. Cardinality(Before(at, f, S, list[k])) = k - 1 /\ k \in Int
    BY <1>8, <2>1
  <2>4. Cardinality({q \in S : away[q] < away[list[k]]}) = k - 1
    BY <2>2, <2>3
  <2>5. QED
    BY <2>1, <2>3, <2>4
<1>11. QED
  BY <1>9, <1>10 DEF S, away, list, f

(* At every node, for every key and replication factor: the preference     *)
(* list is the owner's peer and the next distinct peers clockwise, as many *)
(* as the replication factor and the known peers allow, over any sequence  *)
(* of joins and removals.                                                  *)
THEOREM ListsAreClockwise == ASSUME DistinctPositions PROVE Spec => []PreferenceListOK
<1>1. IInv => PreferenceListOK
  BY IInvPreferenceListOK
<1>2. QED
  BY <1>1, RingInductive, PTL

-----------------------------------------------------------------------------
(* What a join or a removal disturbs *)

\* The positions all do not have a last token with x behind all of it.
Covered(all, x) == (\E y \in all : y >= x) \/ ~ \E y \in all : getToken(y) = getToken(x)

(* The rule of OwnerPos, in comparisons.                                   *)
LEMMA OwnerPosFacts ==
  ASSUME NEW P \in SUBSET Position, P # {}, NEW x \in Position
  PROVE  LET f == OwnerPos(P, x)
         IN  /\ f \in P
             /\ \/ (\A y \in P : y < x) /\ (\A y \in P : f <= y)
                \/ /\ f >= x /\ \A y \in P : y >= x => f <= y
                   /\ f = x \/ getToken(f) = getToken(x) \/ ~ \E y \in P : y < x /\ getToken(y) = getToken(x)
                \/ /\ f < x /\ getToken(f) = getToken(x)
                   /\ \A y \in P : y < x => y <= f
                   /\ \E y \in P : y >= x
                   /\ \A y \in P : y >= x => y # x /\ getToken(y) # getToken(x)
<1> DEFINE t(y)  == getToken(y)
           ahead == {y \in P : y >= x}
           block == {y \in P : y < x /\ t(y) = t(x)}
           f     == OwnerPos(P, x)
<1>1. f = IF ahead = {} THEN Min(P)
          ELSE IF Min(ahead) # x /\ t(Min(ahead)) # t(x) /\ block # {}
               THEN Max(block) ELSE Min(ahead)
  BY DEF OwnerPos
<1> HIDE DEF t, f
<1>2. x \in Nat /\ \A y \in P : y \in Position /\ y \in Nat
  BY RingAssumption DEF Position
<1>3. \A y, z \in P \cup {x} : t(y) \in Nat /\ (y <= z => t(y) <= t(z))
  BY <1>2, TokenOrder DEF t
<1>4. CASE ahead = {}
  <2>1. f \in P /\ \A y \in P : f <= y
    <3>1. P \in SUBSET Nat
      BY <1>2
    <3>2. QED
      BY <1>1, <1>4, <3>1, MinFacts
  <2>2. \A y \in P : y < x
    BY <1>2, <1>4
  <2>3. QED
    BY <2>1, <2>2 DEF f
<1>5. CASE ahead # {}
  <2> DEFINE a == Min(ahead)
  <2>1. a \in ahead /\ \A y \in ahead : a <= y
    <3>1. ahead \in SUBSET Nat
      BY <1>2
    <3>2. QED
      BY <1>5, <3>1, MinFacts
  <2> HIDE DEF a
  <2>2. CASE a # x /\ t(a) # t(x) /\ block # {}
    <3>1. f = Max(block)
      BY <1>1, <1>5, <2>2 DEF a
    <3>2. block \in SUBSET Position
      BY <1>2
    <3>3. f \in block /\ \A y \in block : y <= f
      BY <2>2, <3>1, <3>2, MaxFacts
    <3>4. ASSUME NEW y \in P, y < x PROVE y <= f
      <4>1. CASE y \in block
        BY <3>3, <4>1
      <4>2. CASE y \notin block
        <5>1. t(y) # t(x) /\ y <= x
          BY <1>2, <3>4, <4>2
        <5>2. ~ (f <= y)
          BY <1>3, <3>3, <5>1
        <5>3. QED
          BY <1>2, <3>3, <5>2
      <4>3. QED
        BY <4>1, <4>2
    <3>5. ASSUME NEW y \in P, y >= x PROVE y # x /\ t(y) # t(x)
      <4>1. a <= y /\ x <= a
        BY <1>2, <2>1, <3>5
      <4>2. t(x) <= t(a) /\ t(a) <= t(y)
        BY <1>3, <2>1, <4>1
      <4>3. QED
        BY <1>2, <1>3, <2>1, <2>2, <4>1, <4>2
    <3>6. f \in P /\ f < x /\ t(f) = t(x)
      BY <3>3
    <3>7. a \in P /\ a >= x
      BY <2>1
    <3>8. QED
      BY <3>4, <3>5, <3>6, <3>7 DEF f, t
  <2>3. CASE ~ (a # x /\ t(a) # t(x) /\ block # {})
    <3>1. f = a
      BY <1>1, <1>5, <2>3 DEF a
    <3>2. f \in P /\ f >= x /\ \A y \in P : y >= x => f <= y
      BY <2>1, <3>1
    <3>3. f = x \/ t(f) = t(x) \/ ~ \E y \in P : y < x /\ t(y) = t(x)
      BY <2>3, <3>1
    <3>4. QED
      BY <3>2, <3>3 DEF f, t
  <2>4. QED
    BY <2>2, <2>3
<1>6. QED
  BY <1>4, <1>5

\* From g on, f is the first of the positions all.
FirstFrom(all, f, g) ==
  \/ g <= f /\ \A y \in all : y < g \/ f <= y
  \/ f < g /\ \A y \in all : f <= y /\ y < g

\* g comes right after f, the last of the positions all before it.
RightAfter(all, f, g) == g \notin all /\ f < g /\ \A y \in all : y <= f \/ g < y

(* When positions are added, the owner of x stays, or gives way to one     *)
(* before it or to a new one right after it.                               *)
LEMMA OwnerMoves ==
  ASSUME NEW P \in SUBSET Position, P # {}, NEW Q \in SUBSET Position, P \subseteq Q,
         NEW x \in Position, Covered(P, x)
  PROVE  FirstFrom(P, OwnerPos(P, x), OwnerPos(Q, x)) \/ RightAfter(P, OwnerPos(P, x), OwnerPos(Q, x))
<1> DEFINE t(y) == getToken(y)
           f == OwnerPos(P, x)
           g == OwnerPos(Q, x)
           Start(T, e) == (\A y \in T : y < x) /\ (\A y \in T : e <= y)
           Ahead(T, e) == /\ e >= x /\ \A y \in T : y >= x => e <= y
                          /\ e = x \/ t(e) = t(x) \/ ~ \E y \in T : y < x /\ t(y) = t(x)
           Block(T, e) == /\ e < x /\ t(e) = t(x)
                          /\ \A y \in T : y < x => y <= e
                          /\ \E y \in T : y >= x
                          /\ \A y \in T : y >= x => y # x /\ t(y) # t(x)
<1> SUFFICES FirstFrom(P, f, g) \/ RightAfter(P, f, g)
  OBVIOUS
<1>1. f \in P /\ (Start(P, f) \/ Ahead(P, f) \/ Block(P, f))
  BY OwnerPosFacts
<1>2. g \in Q /\ (Start(Q, g) \/ Ahead(Q, g) \/ Block(Q, g))
  BY OwnerPosFacts
<1>3. x \in Nat /\ \A y \in Q : y \in Position /\ y \in Nat
  BY RingAssumption DEF Position
<1>4. \A y, z \in Q \cup {x} : t(y) \in Nat /\ (y <= z => t(y) <= t(z))
  BY <1>3, TokenOrder
<1>5. (\E y \in P : y >= x) \/ ~ \E y \in P : t(y) = t(x)
  BY DEF Covered
<1> HIDE DEF t, f, g
<1>6. CASE Start(P, f)
  <2>1. \A y \in P : t(y) # t(x) /\ f <= y /\ y < x
    BY <1>3, <1>5, <1>6
  <2>2. CASE Start(Q, g)
    BY <1>1, <1>3, <2>1, <2>2 DEF FirstFrom
  <2>3. CASE Ahead(Q, g)
    BY <1>1, <1>2, <1>3, <2>1, <2>3 DEF FirstFrom
  <2>4. CASE Block(Q, g)
    <3>1. ASSUME NEW y \in P, g <= y PROVE FALSE
      <4>1. t(g) <= t(y) /\ t(y) <= t(x) /\ t(y) # t(x) /\ t(g) = t(x)
        BY <1>2, <1>3, <1>4, <2>1, <2>4, <3>1
      <4>2. t(y) \in Nat /\ t(x) \in Nat
        BY <1>4
      <4>3. QED
        BY <4>1, <4>2
    <3>2. QED
      BY <1>1, <1>2, <1>3, <2>1, <3>1 DEF FirstFrom
  <2>5. QED
    BY <1>2, <2>2, <2>3, <2>4
<1>7. CASE Ahead(P, f)
  <2>1. CASE Start(Q, g)
    BY <1>1, <1>3, <1>7, <2>1
  <2>2. CASE Ahead(Q, g)
    BY <1>1, <1>2, <1>3, <1>7, <2>2 DEF FirstFrom
  <2>3. CASE Block(Q, g)
    <3>1. f # x /\ t(f) # t(x)
      BY <1>1, <1>7, <2>3
    <3>2. ASSUME NEW y \in P, g <= y, y < x PROVE FALSE
      <4>1. t(g) <= t(y) /\ t(y) <= t(x) /\ t(y) # t(x)
        BY <1>2, <1>3, <1>4, <1>7, <3>1, <3>2
      <4>2. QED
        BY <1>2, <1>4, <2>3, <4>1
    <3>3. QED
      BY <1>1, <1>2, <1>3, <1>7, <2>3, <3>2 DEF FirstFrom
  <2>4. QED
    BY <1>2, <2>1, <2>2, <2>3
<1>8. CASE Block(P, f)
  <2>1. CASE Start(Q, g)
    BY <1>1, <1>3, <1>8, <2>1
  <2>2. CASE Ahead(Q, g)
    <3>1. g = x \/ t(g) = t(x)
      BY <1>1, <1>8, <2>2
    <3>2. g \notin P
      BY <1>8, <2>2, <3>1
    <3>3. QED
      BY <1>1, <1>2, <1>3, <1>8, <2>2, <3>2 DEF RightAfter
  <2>3. CASE Block(Q, g)
    <3>1. f <= g
      BY <1>1, <1>8, <2>3
    <3>2. CASE f = g
      BY <1>1, <1>3, <1>8, <3>2 DEF FirstFrom
    <3>3. CASE f # g
      <4>1. g \notin P
        BY <1>1, <1>2, <1>3, <1>8, <2>3, <3>1, <3>3
      <4>2. QED
        BY <1>1, <1>2, <1>3, <1>8, <2>3, <3>1, <3>3, <4>1 DEF RightAfter
    <3>4. QED
      BY <3>2, <3>3
  <2>4. QED
    BY <1>2, <2>1, <2>2, <2>3
<1>9. QED
  BY <1>1, <1>6, <1>7, <1>8

(* Distances from two starts differ by the distance between the starts.    *)
LEMMA FirstFromShift ==
  ASSUME NEW P \in SUBSET Position, NEW f \in P, NEW g \in Position, FirstFrom(P, f, g), NEW y \in P
  PROVE  clockwise(g, y) = clockwise(g, f) + clockwise(f, y)
<1>1. f \in Position /\ y \in Position /\ f \in Int /\ y \in Int /\ g \in Int /\ RingSize \in Int
  BY RingAssumption DEF Position
<1>2. /\ clockwise(g, y) = IF y >= g THEN y - g ELSE y - g + RingSize
      /\ clockwise(g, f) = IF f >= g THEN f - g ELSE f - g + RingSize
      /\ clockwise(f, y) = IF y >= f THEN y - f ELSE y - f + RingSize
  BY <1>1, Clockwise
<1>3. CASE g <= f /\ (y < g \/ f <= y)
  BY <1>1, <1>2, <1>3
<1>4. CASE f < g /\ f <= y /\ y < g
  BY <1>1, <1>2, <1>4
<1>5. QED
  BY <1>3, <1>4 DEF FirstFrom

(* The same, where one start comes right after the other.                  *)
LEMMA RightAfterShift ==
  ASSUME NEW P \in SUBSET Position, NEW f \in P, NEW g \in Position, RightAfter(P, f, g),
         NEW y \in P, y # f
  PROVE  clockwise(f, y) = clockwise(f, g) + clockwise(g, y)
<1>1. f \in Position /\ y \in Position /\ f \in Int /\ y \in Int /\ g \in Int /\ RingSize \in Int
  BY RingAssumption DEF Position
<1>2. /\ clockwise(f, y) = IF y >= f THEN y - f ELSE y - f + RingSize
      /\ clockwise(f, g) = IF g >= f THEN g - f ELSE g - f + RingSize
      /\ clockwise(g, y) = IF y >= g THEN y - g ELSE y - g + RingSize
  BY <1>1, Clockwise
<1>3. f < g /\ (y <= f \/ g < y)
  BY DEF RightAfter
<1>4. QED
  BY <1>1, <1>2, <1>3

(* The peers nearer than q are as many as before, or more, when peers are  *)
(* added.                                                                  *)
LEMMA MoreBefore ==
  ASSUME NEW S \in SUBSET Peer, S # {}, NEW T \in SUBSET Peer, S \subseteq T, NEW at, Spread(at),
         NEW x \in Position, Covered(All(at, S), x), NEW q \in S
  PROVE  Cardinality(Before(at, OwnerPos(All(at, S), x), S, q))
           <= Cardinality(Before(at, OwnerPos(All(at, T), x), T, q))
<1> DEFINE P == All(at, S)
           Q == All(at, T)
           f == OwnerPos(P, x)
           g == OwnerPos(Q, x)
           A == Before(at, f, S, q)
           B == Before(at, g, T, q)
<1> SUFFICES Cardinality(A) <= Cardinality(B)
  OBVIOUS
<1>1. P \in SUBSET Position /\ Q \in SUBSET Position /\ P \subseteq Q
  BY DEF All, Spread
<1>2. P # {}
  <2>1. PICK y \in at[q] : TRUE
    BY DEF Spread
  <2>2. QED
    BY <2>1 DEF All
<1>3. Q # {}
  BY <1>1, <1>2
<1>4. f \in P
  BY <1>1, <1>2, OwnerPosFacts
<1>5. g \in Q
  BY <1>1, <1>3, OwnerPosFacts
<1>6. FirstFrom(P, f, g) \/ RightAfter(P, f, g)
  BY <1>1, <1>2, OwnerMoves
<1>7. f \in Position /\ g \in Position
  BY <1>1, <1>4, <1>5
<1>8. \A p \in S : at[p] \subseteq P
  BY DEF All
<1> HIDE DEF P, Q, f, g
<1>9. \A p \in Peer : dist(at, f, p) \in Nat /\ dist(at, g, p) \in Nat
  BY <1>7, DistFacts
<1>10. IsFiniteSet(A) /\ IsFiniteSet(B) /\ Cardinality(A) \in Nat /\ Cardinality(B) \in Nat
  BY RingAssumption, FS_Subset, FS_CardinalityType DEF Before
<1>11. CASE FirstFrom(P, f, g)
  <2> DEFINE c == clockwise(g, f)
  <2>1. c \in Nat
    BY <1>7, Clockwise
  <2>2. \A y \in P : clockwise(g, y) = c + clockwise(f, y)
    BY <1>1, <1>4, <1>7, <1>11, FirstFromShift
  <2> HIDE DEF c
  <2>3. ASSUME NEW p \in S PROVE dist(at, g, p) = c + dist(at, f, p)
    <3>1. \A y \in at[p] : clockwise(g, y) = c + clockwise(f, y)
      BY <1>8, <2>2
    <3>2. p \in Peer
      OBVIOUS
    <3>3. QED
      BY <1>7, <2>1, <3>1, <3>2, DistShift
  <2>4. A \subseteq B
    BY <1>9, <2>1, <2>3 DEF Before
  <2>5. QED
    <3> HIDE DEF A, B
    <3>1. QED
      BY <1>10, <2>4, FS_Subset
<1>12. CASE RightAfter(P, f, g)
  <2> DEFINE c == clockwise(f, g)
  <2>1. c \in Nat
    BY <1>7, Clockwise
  <2>2. \A y \in P : y # f => clockwise(f, y) = c + clockwise(g, y)
    BY <1>1, <1>4, <1>7, <1>12, RightAfterShift
  <2> HIDE DEF c
  <2>3. PICK o \in S : f \in at[o]
    BY <1>4 DEF P, All
  <2>4. PICK m \in T : g \in at[m]
    BY <1>5 DEF Q, All
  <2>5. m \notin S
    <3>1. g \notin P
      BY <1>12 DEF RightAfter
    <3>2. QED
      BY <1>8, <2>4, <3>1
  <2>6. ASSUME NEW p \in S, p # o PROVE dist(at, f, p) = c + dist(at, g, p)
    <3>1. p \in Peer /\ o \in Peer
      OBVIOUS
    <3>2. f \notin at[p]
      BY <2>3, <2>6, <3>1 DEF Spread
    <3>3. \A y \in at[p] : clockwise(f, y) = c + clockwise(g, y)
      BY <1>8, <2>2, <3>2
    <3>4. QED
      BY <1>7, <2>1, <3>1, <3>3, DistShift
  <2>7. dist(at, f, o) = 0
    BY <1>7, <2>3, DistZero
  <2>8. CASE q = o
    <3>1. A = {}
      BY <1>9, <2>7, <2>8 DEF Before
    <3>2. Cardinality(A) = 0
      BY <3>1, FS_EmptySet
    <3>3. QED
      BY <1>10, <3>2
  <2>9. CASE q # o
    <3> DEFINE A0 == A \ {o}
    <3>1. m \in B
      <4>1. dist(at, g, m) = 0
        BY <1>7, <2>4, DistZero
      <4>2. dist(at, g, q) # 0
        <5>1. q \in Peer /\ m \in Peer /\ q # m
          BY <2>5
        <5>2. g \notin at[q]
          BY <2>4, <5>1 DEF Spread
        <5>3. QED
          BY <1>7, <5>1, <5>2, DistZero
      <4>3. dist(at, g, q) \in Nat
        BY <1>9
      <4>4. QED
        BY <4>1, <4>2, <4>3 DEF Before
    <3>2. A0 \subseteq B
      <4> SUFFICES ASSUME NEW p \in A0 PROVE p \in B
        OBVIOUS
      <4>1. p \in S /\ p # o /\ dist(at, f, p) < dist(at, f, q)
        BY DEF Before
      <4>2. dist(at, f, p) = c + dist(at, g, p) /\ dist(at, f, q) = c + dist(at, g, q)
        BY <2>6, <2>9, <4>1
      <4>3. dist(at, g, p) < dist(at, g, q)
        BY <1>9, <2>1, <4>1, <4>2
      <4>4. QED
        BY <4>1, <4>3 DEF Before
    <3>3. m \notin A0
      BY <2>5 DEF Before
    <3> HIDE DEF A, B
    <3>4. IsFiniteSet(A0) /\ Cardinality(A0) \in Nat
      BY <1>10, FS_Subset, FS_CardinalityType
    <3>5. Cardinality(A0 \cup {m}) = Cardinality(A0) + 1
      BY <3>3, <3>4, FS_AddElement
    <3>6. Cardinality(A0 \cup {m}) <= Cardinality(B)
      <4>1. A0 \cup {m} \subseteq B
        BY <3>1, <3>2
      <4>2. QED
        BY <1>10, <4>1, FS_Subset
    <3>7. Cardinality(A) <= Cardinality(A0) + 1
      <4>1. A \subseteq A0 \cup {o}
        OBVIOUS
      <4>2. o \notin A0
        OBVIOUS
      <4>3. IsFiniteSet(A0 \cup {o}) /\ Cardinality(A0 \cup {o}) = Cardinality(A0) + 1
        BY <3>4, <4>2, FS_AddElement
      <4>4. QED
        BY <4>1, <4>3, FS_Subset
    <3>8. QED
      BY <1>10, <3>4, <3>5, <3>6, <3>7
  <2>10. QED
    BY <2>8, <2>9
<1>13. QED
  BY <1>6, <1>11, <1>12

(* A position outside the last token's tail is covered.                    *)
LEMMA TailCovered ==
  ASSUME NEW S \in SUBSET Peer, S # {}, NEW at, Spread(at), NEW ring, Holds(ring, at, S),
         NEW x \in Position, x \notin LastTokenTail(ring)
  PROVE  Covered(All(at, S), x)
<1> DEFINE L == Len(ring)
           P == All(at, S)
<1>1. /\ L \in Nat /\ \A k \in 1 .. L : ring[k].pos \in Position /\ ring[k].pos \in Nat
      /\ \A i, j \in 1 .. L : i < j => ring[i].pos < ring[j].pos
  BY RingTypes, RingAssumption DEF Holds, Sorted, Position
<1>2. \A y \in P : \E k \in 1 .. L : ring[k].pos = y
  BY DEF Holds, All
<1>3. \A k \in 1 .. L : ring[k].pos \in P
  BY DEF Holds, All
<1>4. x \in Nat
  BY RingAssumption DEF Position
<1>5. SUFFICES ASSUME ~ \E y \in P : y >= x, NEW z \in P, getToken(z) = getToken(x) PROVE FALSE
  BY DEF Covered
<1>6. PICK k \in 1 .. L : ring[k].pos = z
  BY <1>2
<1>7. L \in 1 .. L
  BY <1>1
<1>8. z <= ring[L].pos
  <2>1. k = L \/ ring[k].pos < ring[L].pos
    BY <1>1, <1>7
  <2>2. QED
    BY <1>1, <1>6, <2>1
<1>9. ring[L].pos < x
  BY <1>1, <1>3, <1>4, <1>5, <1>7
<1>10. getToken(ring[L].pos) = getToken(x)
  <2>1. z \in Position /\ ring[L].pos \in Position
    BY <1>1, <1>6, <1>7
  <2>2. getToken(z) <= getToken(ring[L].pos)
    BY <1>8, <2>1, TokenOrder
  <2>3. ring[L].pos <= x
    BY <1>1, <1>4, <1>7, <1>9
  <2>4. getToken(ring[L].pos) <= getToken(x)
    BY <2>1, <2>3, TokenOrder
  <2>5. getToken(z) \in Nat /\ getToken(x) \in Nat /\ getToken(ring[L].pos) \in Nat
    BY <2>1, TokenOrder
  <2>6. QED
    BY <1>5, <2>2, <2>4, <2>5
<1>11. x > ring[L].pos
  BY <1>1, <1>4, <1>7, <1>9
<1>12. QED
  BY <1>10, <1>11 DEF LastTokenTail

(* A peer that is in the list among more peers is in it among fewer.       *)
LEMMA KeepsPlace ==
  ASSUME NEW h \in Hash, IsInjective(h), NEW S \in SUBSET Peer, S # {},
         NEW T \in SUBSET Peer, S \subseteq T,
         NEW few, Placed(few, EntriesOf(S, h)), NEW many, Placed(many, EntriesOf(T, h)),
         NEW x \in Position, x \notin LastTokenTail(few), NEW rf \in Nat \ {0}, NEW q \in S,
         q \in Range(getPreferenceListForKey(many, x, rf))
  PROVE  q \in Range(getPreferenceListForKey(few, x, rf))
<1> DEFINE at == PositionsAt(h)
           f  == OwnerPos(All(at, S), x)
           g  == OwnerPos(All(at, T), x)
           short == getPreferenceListForKey(few, x, rf)
           long  == getPreferenceListForKey(many, x, rf)
<1>1. Spread(at) /\ Holds(few, at, S) /\ Holds(many, at, T) /\ T # {}
  BY HashSpreads, PlacedHolds
<1> HIDE DEF at
<1>2. Covered(All(at, S), x)
  BY <1>1, TailCovered
<1>3. f \in Position /\ g \in Position
  <2>1. ASSUME NEW U \in SUBSET Peer, U # {} PROVE OwnerPos(All(at, U), x) \in Position
    <3>1. PICK p \in U : TRUE
      BY <2>1
    <3>2. at[p] # {} /\ at[p] \subseteq All(at, U) /\ All(at, U) \in SUBSET Position
      BY <1>1 DEF Spread, All
    <3>3. All(at, U) # {}
      BY <3>2
    <3>4. OwnerPos(All(at, U), x) \in All(at, U)
      BY <3>2, <3>3, OwnerPosFacts
    <3>5. QED
      BY <3>2, <3>4
  <2>2. QED
    BY <1>1, <2>1
<1>4. Cardinality(Before(at, f, S, q)) <= Cardinality(Before(at, g, T, q))
  BY <1>1, <1>2, MoreBefore
<1>5. ClockwiseList(short, at, f, S, rf)
  BY <1>1, OwnerFirst
<1>6. ClockwiseList(long, at, g, T, rf)
  BY <1>1, OwnerFirst
<1> HIDE DEF f, g, short, long
<1>7. q \in T /\ q \in Range(long)
  BY DEF long
<1>8. Cardinality(Before(at, g, T, q)) < rf
  BY <1>1, <1>3, <1>6, <1>7, ListedPeers
<1>9. /\ Cardinality(Before(at, f, S, q)) \in Nat
      /\ Cardinality(Before(at, g, T, q)) \in Nat
  BY RingAssumption, FS_Subset, FS_CardinalityType DEF Before
<1>10. Cardinality(Before(at, f, S, q)) < rf
  BY <1>4, <1>8, <1>9
<1>11. q \in Range(short)
  BY <1>1, <1>3, <1>5, <1>10, ListedPeers
<1>12. QED
  BY <1>11 DEF short

(* A preference list names peers of the ring.                              *)
LEMMA ListNames ==
  ASSUME NEW h \in Hash, IsInjective(h), NEW S \in SUBSET Peer, S # {},
         NEW ring, Placed(ring, EntriesOf(S, h)), NEW x \in Position, NEW rf \in Nat \ {0}
  PROVE  Range(getPreferenceListForKey(ring, x, rf)) \subseteq S
<1> DEFINE at == PositionsAt(h)
           list == getPreferenceListForKey(ring, x, rf)
<1>1. ClockwiseList(list, at, OwnerPos(All(at, S), x), S, rf)
  BY HashSpreads, PlacedHolds, OwnerFirst
<1>2. list \in Seq(S)
  BY <1>1 DEF ClockwiseList
<1> HIDE DEF list
<1>3. \A e \in Range(list) : \E i \in 1 .. Len(list) : e = list[i]
  BY <1>2, RangeFacts
<1>4. Range(list) \subseteq S
  BY <1>2, <1>3
<1>5. QED
  BY <1>4 DEF list

\* What MinimalDisruption says of one ring that becomes another.
Undisturbed(ring, S, new, T) ==
  \A x \in Position : \A rf \in 1 .. Cardinality(Peer) :
    /\ S \subseteq T /\ x \notin LastTokenTail(ring)
         => Range(getPreferenceListForKey(new, x, rf))
              \subseteq Range(getPreferenceListForKey(ring, x, rf)) \cup (T \ S)
    /\ T \subseteq S /\ x \notin LastTokenTail(new)
         => Range(getPreferenceListForKey(ring, x, rf))
              \subseteq Range(getPreferenceListForKey(new, x, rf)) \cup (S \ T)

(* It holds of the rings of any two sets of peers.                         *)
LEMMA RingUndisturbed ==
  ASSUME NEW h \in Hash, IsInjective(h), NEW S \in SUBSET Peer, S # {}, NEW T \in SUBSET Peer,
         NEW ring, Placed(ring, EntriesOf(S, h)), NEW new, Placed(new, EntriesOf(T, h))
  PROVE  Undisturbed(ring, S, new, T)
<1>1. SUFFICES ASSUME NEW x \in Position, NEW rf \in 1 .. Cardinality(Peer)
               PROVE  /\ S \subseteq T /\ x \notin LastTokenTail(ring)
                           => Range(getPreferenceListForKey(new, x, rf))
                                \subseteq Range(getPreferenceListForKey(ring, x, rf)) \cup (T \ S)
                      /\ T \subseteq S /\ x \notin LastTokenTail(new)
                           => Range(getPreferenceListForKey(ring, x, rf))
                                \subseteq Range(getPreferenceListForKey(new, x, rf)) \cup (S \ T)
  BY DEF Undisturbed
<1> DEFINE old  == Range(getPreferenceListForKey(ring, x, rf))
           next == Range(getPreferenceListForKey(new, x, rf))
<1>2. rf \in Nat \ {0}
  BY RingAssumption, FS_CardinalityType
<1>3. old \subseteq S
  BY <1>2, ListNames
<1>4. T # {} => next \subseteq T
  BY <1>2, ListNames
<1>5. ASSUME S \subseteq T, x \notin LastTokenTail(ring), NEW q \in next, q \in S PROVE q \in old
  BY <1>2, <1>5, KeepsPlace
<1>6. ASSUME T \subseteq S, x \notin LastTokenTail(new), NEW q \in old, q \in T PROVE q \in next
  BY <1>2, <1>6, KeepsPlace
<1> HIDE DEF old, next
<1>7. S \subseteq T /\ x \notin LastTokenTail(ring) => next \subseteq old \cup (T \ S)
  BY <1>4, <1>5
<1>8. T \subseteq S /\ x \notin LastTokenTail(new) => old \subseteq next \cup (S \ T)
  BY <1>3, <1>6
<1>9. QED
  BY <1>7, <1>8 DEF old, next

(* No handler disturbs more of a preference list than the peer it names.   *)
LEMMA NextMinimal ==
  ASSUME DistinctPositions
  PROVE  IInv /\ IInv' /\ [Next]_vars =>
           [\A n \in Node : view[n] # {} => Undisturbed(nodes[n], view[n], nodes'[n], view'[n])]_nodes
<1> SUFFICES ASSUME IInv, IInv', [Next]_vars, NEW n \in Node, view[n] # {}
             PROVE  Undisturbed(nodes[n], view[n], nodes'[n], view'[n])
  OBVIOUS
<1>1. hash \in Hash /\ IsInjective(hash)
  BY HashAssumption DEF IInv, DistinctPositions
<1>2. hash' = hash
  BY DEF Next, vars, initRing, stealTokens, coolDown, onPeerAdded, onPeerAddedAgain, onPeerRemoved
<1>3. view[n] \in SUBSET Peer /\ Placed(nodes[n], EntriesOf(view[n], hash))
  BY DEF IInv, view
<1>4. view'[n] \in SUBSET Peer /\ Placed(nodes'[n], EntriesOf(view'[n], hash))
  BY <1>2 DEF IInv, view
<1>5. QED
  BY <1>1, <1>3, <1>4, RingUndisturbed

(* A join takes a place in a preference list only for the peer that came,  *)
(* a removal gives up only the place of the peer that went, for every key  *)
(* outside the tail of the smaller ring's last token and every replication *)
(* factor.                                                                 *)
THEOREM MovesAreMinimal == ASSUME DistinctPositions PROVE Spec => MinimalDisruption
<1>1. IInv /\ IInv' /\ [Next]_vars =>
        [\A n \in Node : view[n] # {} => Undisturbed(nodes[n], view[n], nodes'[n], view'[n])]_nodes
  BY NextMinimal
<1>2. QED
  BY <1>1, RingInductive, PTL DEF Spec, MinimalDisruption, Undisturbed
=============================================================================
