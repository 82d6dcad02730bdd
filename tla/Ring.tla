-------------------------------- MODULE Ring --------------------------------
(***************************************************************************)
(* The ring each node keeps (class PeerRing, packages/core/src/            *)
(* peer-ring.ts): initRing, the two discovery callbacks, the cool down of  *)
(* a new peer and the request for tokens that a join or a removal makes.   *)
(* Every handler below runs to completion before another one starts: each  *)
(* is synchronous up to its first network call.                            *)
(***************************************************************************)
EXTENDS RingOps

CONSTANTS Node,      \* the peers whose process is modelled
          Hashes     \* the hash functions to consider

ASSUME NodeAssumption == Node \subseteq Peer
ASSUME HashAssumption == Hashes \subseteq Hash

VARIABLES hash,      \* the position of every peer's entries
          phase,     \* initRing: not called, waiting for the delay, isReady
          nodes,     \* this.nodes
          cooling,   \* the peers whose addedAt is too recent, oldest first
          last       \* the last handler: its node, its peer, the tokens it asks for

vars == <<hash, phase, nodes, cooling, last>>

\* `want` is the set of pairs <<peer asked, token>> of the transfer it starts.
Handled(name, n, peer, want) ==
  last' = [handler |-> name, node |-> {n}, peer |-> {peer}, want |-> want]

\* The discovery reports the peers in some order.
Orders(S) == {ps \in [1 .. Cardinality(S) -> S] : IsInjective(ps) /\ Range(ps) = S}

Init ==
  /\ hash \in Hashes
  /\ phase = [n \in Node |-> "new"]
  /\ nodes = [n \in Node |-> << >>]
  /\ cooling = [n \in Node |-> << >>]
  /\ last = [handler |-> "none", node |-> {}, peer |-> {}, want |-> {}]

\* initRing up to the delay: allocate the active peers, this node among them.
initRing(n) ==
  /\ phase[n] = "new"
  /\ \E S \in SUBSET Peer : \E ps \in Orders(S) :
       /\ n \in S
       /\ nodes' = [nodes EXCEPT ![n] = allocateAll(ps, hash)]
       /\ cooling' = [cooling EXCEPT ![n] = ps]
  /\ phase' = [phase EXCEPT ![n] = "waiting"]
  /\ Handled("initRing", n, n, {})
  /\ UNCHANGED hash

\* The rest of initRing, after initiateDataStealDelay.
stealTokens(n) ==
  /\ phase[n] = "waiting"
  /\ phase' = [phase EXCEPT ![n] = "ready"]
  /\ Handled("stealTokens", n, n, tokensToTransfer(nodes[n], hash, n, n, TRUE, {}))
  /\ UNCHANGED <<hash, nodes, cooling>>

onPeerAdded(n, peer) ==
  /\ phase[n] # "new"
  /\ peer \notin Members(nodes[n])
  /\ nodes' = [nodes EXCEPT ![n] = allocateOnRing(@, peer, hash)]
  /\ cooling' = [cooling EXCEPT ![n] = Append(@, peer)]
  /\ Handled("onPeerAdded", n, peer, {})
  /\ UNCHANGED <<hash, phase>>

\* The early return of onPeerAdded.
onPeerAddedAgain(n, peer) ==
  /\ phase[n] # "new"
  /\ peer \in Members(nodes[n])
  /\ Handled("onPeerAdded", n, peer, {})
  /\ UNCHANGED <<hash, phase, nodes, cooling>>

\* The discovery reports a removal also for a peer it never added.  A node is
\* not told of its own end, unless another pod has had its address: that case,
\* in module Startup, is left out here.
onPeerRemoved(n, peer) ==
  /\ phase[n] # "new"
  /\ peer # n
  /\ LET left  == deallocateFromRing(nodes[n], peer, hash)
         young == RemoveFirst(cooling[n], peer)
     IN  /\ nodes' = [nodes EXCEPT ![n] = left]
         /\ cooling' = [cooling EXCEPT ![n] = young]
         /\ Handled("onPeerRemoved", n, peer,
                    tokensToTransfer(left, hash, n, peer, FALSE, Range(young)))
  /\ UNCHANGED <<hash, phase>>

\* newPeerCoolDownDelay passes for the peer added the longest ago.
coolDown(n) ==
  /\ cooling[n] # << >>
  /\ cooling' = [cooling EXCEPT ![n] = Tail(@)]
  /\ Handled("coolDown", n, n, {})
  /\ UNCHANGED <<hash, phase, nodes>>

Next ==
  \E n \in Node :
    \/ initRing(n)
    \/ stealTokens(n)
    \/ coolDown(n)
    \/ \E peer \in Peer : \/ onPeerAdded(n, peer)
                          \/ onPeerAddedAgain(n, peer)
                          \/ onPeerRemoved(n, peer)

Spec == Init /\ [][Next]_vars

-----------------------------------------------------------------------------
(* The type invariant: every variable has its type.                        *)
TypeOK ==
  /\ hash \in Hash
  /\ phase \in [Node -> {"new", "waiting", "ready"}]
  /\ nodes \in [Node -> Seq(Entry)]
  /\ cooling \in [Node -> Seq(Peer)]
  /\ last.handler \in {"none", "initRing", "stealTokens", "coolDown",
                       "onPeerAdded", "onPeerRemoved"}
  /\ last.node \subseteq Node /\ last.peer \subseteq Peer
  /\ last.want \subseteq Peer \X Nat

\* The peers each node knows.
view == [n \in Node |-> Members(nodes[n])]

(* Every node's ring is in strictly increasing order of position, holds    *)
(* all the entries of each of its members and nothing else, and holds the  *)
(* node itself: what the binary search, allocateOnRing and                 *)
(* deallocateFromRing need of each other over any sequence of joins and    *)
(* removals.                                                               *)
RingInv ==
  \A n \in Node :
    /\ \A i, j \in DOMAIN nodes[n] : i < j => nodes[n][i].pos < nodes[n][j].pos
    /\ Range(nodes[n]) = EntriesOf(view[n], hash)
    /\ phase[n] # "new" => n \in view[n]

(* Two nodes that know the same peers send a key to the same peers in the  *)
(* same order, however each came to know them, where no two entries share  *)
(* a position.                                                             *)
AgreedPlacement ==
  IsInjective(hash) => \A n, m \in Node : view[n] = view[m] /\ view[n] # {} =>
    \A x \in Position : \A rf \in 1 .. Cardinality(Peer) :
      getPreferenceListForKey(nodes[n], x, rf) = getPreferenceListForKey(nodes[m], x, rf)

\* The entries of peer p on a ring.
EntriesHeld(ring, p) == {e \in Range(ring) : e.ip = p}

(* Whatever the hash, also where entries share a position ("what if 2      *)
(* nodes hashed on same token?"): a ring stays in order, so that the       *)
(* binary search still finds every position, and a node keeps all of its   *)
(* own entries through any joins and removals of the others.               *)
RingOrdered ==
  \A n \in Node :
    /\ \A i, j \in DOMAIN nodes[n] : i < j => nodes[n][i].pos <= nodes[n][j].pos
    /\ Range(nodes[n]) \subseteq EntriesOf(Peer, hash)
    /\ phase[n] # "new" => EntriesHeld(nodes[n], n) = EntriesOf({n}, hash)

(* Whatever the hash, a join or a removal of one peer adds and takes no    *)
(* entry of another, not even where the search for one's position ends at  *)
(* the other's entry.                                                      *)
OthersStay ==
  [][\A n \in Node, q \in Peer : phase[n] # "new" /\ last'.peer # {q} =>
       EntriesHeld(nodes'[n], q) = EntriesHeld(nodes[n], q)]_vars

(* Whatever the hash, a removal leaves an entry of its peer only at a      *)
(* position that another peer's entry shares.                              *)
LeftoversAreShared ==
  [][\A n \in Node, p \in Peer :
       /\ last'.handler = "onPeerRemoved" /\ last'.node = {n} /\ last'.peer = {p}
       => \A e \in EntriesHeld(nodes'[n], p) :
            \E f \in Range(nodes'[n]) : f.pos = e.pos /\ f.ip # p]_vars

\* The positions of the entries of a set of peers.
PositionsOf(S) == {hash[<<p, i>>] : p \in S, i \in 0 .. VirtualNodes}

\* The owner of position x by the rule of getInsertionPoint, over positions.
OwnerPos(all, x) ==
  LET ahead == {y \in all : y >= x}
      block == {y \in all : y < x /\ getToken(y) = getToken(x)}
  IN  IF ahead = {} THEN Min(all)
      ELSE IF Min(ahead) # x /\ getToken(Min(ahead)) # getToken(x) /\ block # {}
           THEN Max(block)
           ELSE Min(ahead)

(* The preference list is the owner followed by the next distinct peers    *)
(* clockwise: each member is as far down the list as there are members     *)
(* closer to the owner's position, and the list is as long as the          *)
(* replication factor and the ring allow.                                  *)
PreferenceListOK ==
  \A n \in Node : view[n] # {} =>
    \A x \in Position :
      LET from    == OwnerPos(PositionsOf(view[n]), x)
          dist    == [p \in view[n] |-> Min({(y - from) % RingSize : y \in PositionsOf({p})})]
          rank(p) == Cardinality({q \in view[n] : dist[q] < dist[p]}) + 1
      IN  \A rf \in 1 .. Cardinality(Peer) :
            LET list == getPreferenceListForKey(nodes[n], x, rf)
            IN  /\ Len(list) = Min({rf, Cardinality(view[n])})
                /\ \A k \in DOMAIN list : list[k] \in view[n] /\ rank(list[k]) = k

\* Positions after the last entry and in its token: README, section 6.
LastTokenTail(ring) ==
  {x \in Position : /\ x > ring[Len(ring)].pos
                    /\ getToken(x) = getToken(ring[Len(ring)].pos)}

(* A join takes a place in a preference list only for the peer that came,  *)
(* and a removal gives up only the place of the peer that went: nobody     *)
(* else becomes a replica on a join or stops being one on a removal.       *)
MinimalDisruption ==
  [][\A n \in Node : view[n] # {} =>
       \A x \in Position : \A rf \in 1 .. Cardinality(Peer) :
         LET old == Range(getPreferenceListForKey(nodes[n], x, rf))
             new == Range(getPreferenceListForKey(nodes'[n], x, rf))
         IN  /\ view[n] \subseteq view'[n] /\ x \notin LastTokenTail(nodes[n])
                  => new \subseteq old \cup (view'[n] \ view[n])
             /\ view'[n] \subseteq view[n] /\ x \notin LastTokenTail(nodes'[n])
                  => old \subseteq new \cup (view[n] \ view'[n])]_nodes

\* What the ring promises about membership (module Membership).
event == [handler |-> last.handler, node |-> last.node, peer |-> last.peer]

Views == INSTANCE Membership
           WITH Peer <- Peer, Node <- Node, view <- view, event <- event

(* Every handler of the ring does to the set of peers it holds what the    *)
(* abstract membership says: a removal takes away all the entries of the   *)
(* peer it names and the last entry of nobody else, a join adds the peer   *)
(* it names and drops none.                                                *)
RingImplementsMembership == Views!Spec

-----------------------------------------------------------------------------
(* What a comment says of the ring and the code does not do: refuted by a  *)
(* run.                                                                    *)

Owner(ring, x) == Head(getPreferenceListForKey(ring, x, 1))

(* "when removed: current node(new owner) copies tokens from next node":   *)
(* a node that takes over keys of the removed peer asks another peer for   *)
(* their tokens.                                                           *)
NewOwnerCopies ==
  [][\A n \in Node, p \in Peer :
       /\ last'.handler = "onPeerRemoved" /\ last'.node = {n} /\ last'.peer = {p}
       /\ Cardinality(view'[n]) > 1
       => \A x \in Position :
            Owner(nodes[n], x) = p /\ Owner(nodes'[n], x) = n
              => \E q \in Peer : <<q, getToken(x)>> \in last'.want]_vars
=============================================================================
