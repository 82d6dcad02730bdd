------------------------------ MODULE RingOps ------------------------------
(***************************************************************************)
(* The pure algorithms of packages/core/src/peer-ring.ts: positions,       *)
(* tokens, the binary search, allocation of a peer on the ring, the        *)
(* preference list of a key and the tokens a node asks another node for.   *)
(*                                                                         *)
(* A ring is a sequence of entries [ip, pos]; index 1 here is index 0 of   *)
(* `nodes`.  A key is its position hashKey(key).  `hash` gives every peer  *)
(* its VirtualNodes + 1 positions hashKey(`${ip}:${i}`): farmhash itself   *)
(* is not modelled.  `getInsertionPoint` has two operators, one without    *)
(* and one with its optional argument `token`.                             *)
(***************************************************************************)
EXTENDS Integers, SequencesExt

CONSTANTS Peer,          \* the physical peers, named by their ip
          VirtualNodes,  \* _opts.virtualNodes
          RingSize,      \* ringSize, 2^32 in the code
          Tokens         \* _opts.tokens

\* Math.round(this.ringSize / this._opts.tokens)
tokenSize == (2 * RingSize + Tokens) \div (2 * Tokens)

ASSUME RingAssumption ==
  /\ IsFiniteSet(Peer)
  /\ VirtualNodes \in Nat
  /\ RingSize \in Nat \ {0}
  /\ Tokens \in 1..RingSize

Position == 0 .. RingSize - 1
Entry    == [ip : Peer, pos : Position]
Hash     == [Peer \X (0..VirtualNodes) -> Position]

\* Math.ceil(pos / this.tokenSize)
getToken(pos) == (pos + tokenSize - 1) \div tokenSize

\* The entries of a set of peers.
EntriesOf(S, hash) ==
  {[ip |-> p, pos |-> hash[<<p, i>>]] : p \in S, i \in 0 .. VirtualNodes}

Members(ring) == {ring[k].ip : k \in DOMAIN ring}

-----------------------------------------------------------------------------
(* Looking up a position. *)

\* Mutant: the loop ends as soon as left = right.
getInsertionPointShort(ring, pos) ==
  LET search[w \in (1 .. Len(ring) + 1) \X (0 .. Len(ring))] ==
        LET mid == (w[1] + w[2]) \div 2
        IN  IF w[1] >= w[2]            THEN w[1]
            ELSE IF ring[mid].pos = pos THEN mid
            ELSE IF ring[mid].pos < pos THEN search[<<mid + 1, w[2]>>]
            ELSE search[<<w[1], mid - 1>>]
  IN  search[<<1, Len(ring)>>]

\* The loop on (left, right); the result lies in 1 .. Len(ring) + 1.
getInsertionPoint(ring, pos) ==
  LET search[w \in (1 .. Len(ring) + 1) \X (0 .. Len(ring))] ==
        LET mid == (w[1] + w[2]) \div 2
        IN  IF w[1] > w[2]             THEN w[1]
            ELSE IF ring[mid].pos = pos THEN mid
            ELSE IF ring[mid].pos < pos THEN search[<<mid + 1, w[2]>>]
            ELSE search[<<w[1], mid - 1>>]
  IN  search[<<1, Len(ring)>>]

getPrevIdx(ring, idx) == IF idx = 1 THEN Len(ring) ELSE idx - 1

getNextIdx(ring, idx) == (idx % Len(ring)) + 1

\* Mutant: the previous node is chosen without looking at the next one's token.
getOwnerIdxPrevFirst(ring, pos) ==
  LET idx  == getInsertionPoint(ring, pos)
      left == IF idx > Len(ring) THEN 1 ELSE idx
      prev == getPrevIdx(ring, left)
  IN  IF getToken(pos) = getToken(ring[prev].pos) THEN prev ELSE left

\* getInsertionPoint(pos, getToken(pos)), as getPreferenceListForKey calls it.
getOwnerIdx(ring, pos) ==
  LET idx   == getInsertionPoint(ring, pos)
      left  == IF idx > Len(ring) THEN 1 ELSE idx
      prev  == getPrevIdx(ring, left)
      token == getToken(pos)
      exact == idx <= Len(ring) /\ ring[left].pos = pos
  IN  IF /\ ~exact
         /\ token # 0
         /\ token < getToken(ring[left].pos)
         /\ token = getToken(ring[prev].pos)
      THEN prev
      ELSE left

\* The peers of the preference list, in the order they are chosen.
getPreferenceListForKey(ring, pos, rf) ==
  LET owner == getOwnerIdx(ring, pos)
      walk[k \in 0 .. Len(ring) - 1] ==
        LET ip     == ring[((owner - 1 + k) % Len(ring)) + 1].ip
            chosen == IF k = 0 THEN << >> ELSE walk[k-1]
        IN  IF Len(chosen) >= rf \/ ip \in ToSet(chosen)
            THEN chosen
            ELSE Append(chosen, ip)
  IN  walk[Len(ring) - 1]

-----------------------------------------------------------------------------
(* A peer's entries on the ring. *)

\* Mutant: every insertion point is computed before the loop.
allocateOnRingStale(ring, peer, hash) ==
  LET alloc[i \in 0 .. VirtualNodes + 1] ==
        IF i = 0 THEN ring
        ELSE LET pos == hash[<<peer, i-1>>]
             IN  InsertAt(alloc[i-1], getInsertionPoint(ring, pos),
                          [ip |-> peer, pos |-> pos])
  IN  alloc[VirtualNodes + 1]

allocateOnRing(ring, peer, hash) ==
  LET alloc[i \in 0 .. VirtualNodes + 1] ==
        IF i = 0 THEN ring
        ELSE LET prior == alloc[i-1]
                 pos   == hash[<<peer, i-1>>]
             IN  InsertAt(prior, getInsertionPoint(prior, pos),
                          [ip |-> peer, pos |-> pos])
  IN  alloc[VirtualNodes + 1]

\* Mutant: i < virtualNodes, the last virtual node stays.
deallocateFromRingButLast(ring, peer, hash) ==
  LET dealloc[i \in 0 .. VirtualNodes] ==
        IF i = 0 THEN ring
        ELSE LET prior == dealloc[i-1]
                 idx   == getInsertionPoint(prior, hash[<<peer, i-1>>])
             IN  IF idx <= Len(prior) /\ prior[idx].ip = peer
                 THEN RemoveAt(prior, idx)
                 ELSE prior
  IN  dealloc[VirtualNodes]

\* Mutant: whatever entry sits at the insertion point is removed.
deallocateFromRingAny(ring, peer, hash) ==
  LET dealloc[i \in 0 .. VirtualNodes + 1] ==
        IF i = 0 THEN ring
        ELSE LET prior == dealloc[i-1]
                 idx   == getInsertionPoint(prior, hash[<<peer, i-1>>])
             IN  IF idx <= Len(prior) THEN RemoveAt(prior, idx) ELSE prior
  IN  dealloc[VirtualNodes + 1]

\* Mutant: the entry at the insertion point is removed for its position.
deallocateFromRingAt(ring, peer, hash) ==
  LET dealloc[i \in 0 .. VirtualNodes + 1] ==
        IF i = 0 THEN ring
        ELSE LET prior == dealloc[i-1]
                 pos   == hash[<<peer, i-1>>]
                 idx   == getInsertionPoint(prior, pos)
             IN  IF idx <= Len(prior) /\ prior[idx].pos = pos
                 THEN RemoveAt(prior, idx)
                 ELSE prior
  IN  dealloc[VirtualNodes + 1]

deallocateFromRing(ring, peer, hash) ==
  LET dealloc[i \in 0 .. VirtualNodes + 1] ==
        IF i = 0 THEN ring
        ELSE LET prior == dealloc[i-1]
                 idx   == getInsertionPoint(prior, hash[<<peer, i-1>>])
             IN  IF idx <= Len(prior) /\ prior[idx].ip = peer
                 THEN RemoveAt(prior, idx)
                 ELSE prior
  IN  dealloc[VirtualNodes + 1]

\* peers.forEach((peer) => this.allocateOnRing(peer)), from an empty ring
allocateAll(peers, hash) ==
  LET all[k \in 0 .. Len(peers)] ==
        IF k = 0 THEN << >> ELSE allocateOnRing(all[k-1], peers[k], hash)
  IN  all[Len(peers)]

-----------------------------------------------------------------------------
(* The tokens a node asks for when a peer joins or leaves. *)

\* The first entry of an acceptable peer, walking backward from index idx:
\* the empty set when there is none.
walkBack(ring, idx, ips) ==
  LET at(k) == ((idx - 1 - k) % Len(ring)) + 1
      K     == {k \in 0 .. Len(ring) - 1 : ring[at(k)].ip \in ips}
  IN  IF K = {} THEN {} ELSE {ring[at(Min(K))]}

\* `young` are the peers whose cool down has not passed.
getPrevActiveNode(ring, idx, ip, young) ==
  walkBack(ring, getPrevIdx(ring, idx), Peer \ ({ip} \cup young))

\* The code starts at the next index and then walks backward too.
getNextNode(ring, idx) ==
  walkBack(ring, getNextIdx(ring, idx), Peer \ {ring[idx].ip})

\* Mutant: no wrap around after the last token.
tokensBetweenNoWrap(token, next) ==
  IF token > next
  THEN {i - Tokens : i \in token .. Tokens + next - 1}
  ELSE {i % (Tokens + 1) : i \in token .. next - 1}

\* The tokens from `token` up to, not including, the next node's token.
tokensBetween(token, next) ==
  IF token > next
  THEN {IF i > Tokens THEN i - Tokens ELSE i : i \in token .. Tokens + next - 1}
  ELSE {i % (Tokens + 1) : i \in token .. next - 1}

\* What initiateDataTransfer asks for: pairs of the peer asked and a token.
\* `node` is the peer added (me) or removed.
tokensToTransfer(ring, hash, me, node, isAdded, young) ==
  UNION {
    LET pos  == hash[<<node, i>>]
        idx  == getInsertionPoint(ring, pos)
        prev == getPrevActiveNode(ring, idx, node, IF isAdded THEN {} ELSE young)
        mine == {e \in prev : e.ip = me /\ Len(ring) # 1}
        next == IF isAdded THEN getNextNode(ring, idx)
                ELSE {ring[IF idx > Len(ring) THEN 1 ELSE idx]}
        from == IF isAdded THEN prev ELSE IF mine = {} THEN {} ELSE next
    IN  {<<e.ip, t>> : e \in from,
                       t \in UNION {tokensBetween(getToken(pos), getToken(m.pos)) : m \in next}}
    : i \in 0 .. VirtualNodes }
=============================================================================
