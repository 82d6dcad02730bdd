--------------------------------- MODULE KV ---------------------------------
(***************************************************************************)
(* Commands on one key over its replicas: KVStore.set, get and delete      *)
(* (packages/kv-store/src/kv.ts), PeerRing.execute (packages/core/src/     *)
(* peer-ring.ts) at the node that is called and at the peers it asks, and  *)
(* promiseRaceWithCount.  Module Ring gives the preference list: each call *)
(* has the one that its node's ring gives when it begins, which peers that *)
(* join and leave make different from that of other calls.  Module Rpc     *)
(* gives what a request is: it is answered, or it fails, and one that      *)
(* failed may still be run by the peer, at any later time, or never.       *)
(***************************************************************************)
EXTENDS Store, Sequences, FiniteSetsExt

CONSTANTS Node,
          Lists,        \* the preference lists of the key; their order is not used
          Op,           \* the calls that clients make; each stores itself
          Kinds,        \* the calls considered, of "set", "get" and "delete"
          Quorums,      \* the values of quorumCount
          Ttls,         \* the values of the option ttl of set
          Skew,         \* how far each node's clock is ahead
          Epoch,        \* the first time
          MaxTime,      \* bound: the last time
          MayFail       \* whether requests may fail

ASSUME KVAssumption ==
  /\ \A list \in Lists : list \subseteq Node /\ list # {} /\ IsFiniteSet(list)
  /\ Op \subseteq Value
  /\ Kinds \subseteq {"set", "get", "delete"}
  /\ Quorums \subseteq Nat \ {0}
  /\ Ttls \subseteq Nat \cup {NoTtl}
  /\ Skew \in [Node -> Nat]
  /\ Epoch \in Nat /\ MaxTime \in Nat

VARIABLES now,     \* the time
          store,   \* the cache of each node
          op,      \* the calls
          torun,   \* <<o, p>>: p has yet to run the command of o
          replies  \* the replies on their way: the call, the peer, what it returned

vars == <<now, store, op, torun, replies>>

\* A call: `replicas` is its preference list, `payload` what it stores,
\* `unsettled` are the peers whose request has neither been answered nor
\* failed, `results` are the replies in the order they came, `value` is what
\* get returns, `since` is the time it began and `before` are the calls that
\* had returned by then.
Idle == [phase |-> "idle", kind |-> "none", at |-> {}, replicas |-> {}, quorum |-> 0,
         payload |-> {}, asked |-> {}, unsettled |-> {}, results |-> << >>, errors |-> 0,
         value |-> {}, since |-> 0, before |-> {}]

Init ==
  /\ now = Epoch
  /\ store = [n \in Node |-> {}]
  /\ op = [o \in Op |-> Idle]
  /\ torun = {}
  /\ replies = {}

clock(n) == now + Skew[n]

\* The command of call c on the cache of node n: the cache it leaves.
effect(c, n) ==
  CASE c.kind = "set"    -> UNION {set(store[n], v, clock(n)) : v \in c.payload}
    [] c.kind = "get"    -> get(store[n], clock(n))
    [] c.kind = "delete" -> delete(store[n], clock(n), FALSE)

\* And what the handler returns: only get returns anything.
returned(c, n) == IF c.kind = "get" THEN get(store[n], clock(n)) ELSE {}

-----------------------------------------------------------------------------
(* The end of a call *)

\* Mutant: the first result wins.
reconciliateFirst(first, results) == first

\* The newer of two payloads; of equally new ones the second.
newer(val, res) ==
  IF res = {} \/ \E v \in val, r \in res : v.updatedAt > r.updatedAt THEN val ELSE res

\* The newest of the payloads, whatever their order.
reconciliate(first, results) ==
  LET val[i \in 0 .. Len(results)] == IF i = 0 THEN first ELSE newer(val[i-1], results[i])
  IN  val[Len(results)]

\* A get of a tombstone returns undefined.
plain(val) == {v \in val : v.item # Deleted}

finished(c, phase, val) ==
  [c EXCEPT !.phase = phase, !.value = plain(val), !.unsettled = {}]

\* Mutant: no error is thrown when nobody answered.
fromPeersAlways(c) == finished(c, "returned", reconciliate({}, c.results))

\* What execute makes of the peers' results at a node that is not a replica.
fromPeers(c) ==
  IF c.results # << >>
  THEN finished(c, "returned", reconciliate(Head(c.results), Tail(c.results)))
  ELSE finished(c, "thrown", {})

\* And at a replica, which has `own` itself.
fromPeersAnd(c, own) ==
  IF own # {} THEN finished(c, "returned", reconciliate(own, c.results)) ELSE fromPeers(c)

-----------------------------------------------------------------------------
(* The callers *)

isAReplica(n, nodes) == n \in nodes

\* The results that promiseRaceWithCount waits for.
count(c) == IF \E n \in c.at : isAReplica(n, c.replicas) THEN c.quorum - 1 ELSE c.quorum

\* What KVStore.set sends with its command; get and delete send nothing.
payloads(kind, o, n) ==
  IF kind = "set" THEN {{[item |-> o, updatedAt |-> clock(n), ttl |-> ttl]} : ttl \in Ttls}
                  ELSE {{}}

\* KVStore.set, get or delete at node n, and execute up to its first await.
execute(o, n) ==
  \E kind \in Kinds, quorum \in Quorums, nodes \in Lists : \E payload \in payloads(kind, o, n) :
    LET alone == isAReplica(n, nodes) /\ quorum = 1
        asked == IF alone THEN {} ELSE nodes \ {n}
        c     == [phase |-> "racing", kind |-> kind, at |-> {n}, replicas |-> nodes, quorum |-> quorum,
                  payload |-> payload, asked |-> asked, unsettled |-> asked, results |-> << >>,
                  errors |-> 0, value |-> {}, since |-> now,
                  before |-> {x \in Op : op[x].phase = "returned"}]
    IN  /\ op[o].phase = "idle"
        /\ IF alone
           THEN /\ op' = [op EXCEPT ![o] = finished(c, "returned", returned(c, n))]
                /\ store' = [store EXCEPT ![n] = effect(c, n)]
           ELSE /\ op' = [op EXCEPT ![o] = c]
                /\ UNCHANGED store
        /\ torun' = torun \cup ({o} \X asked)
        /\ UNCHANGED <<now, replies>>

\* The callback of onMessage: execute with forceExecuteOnCurrentNode.
executeAtPeer(o, p) ==
  /\ <<o, p>> \in torun
  /\ store' = [store EXCEPT ![p] = effect(op[o], p)]
  /\ torun' = torun \ {<<o, p>>}
  /\ replies' = IF p \in op[o].unsettled
                THEN replies \cup {[op |-> o, from |-> p, payload |-> returned(op[o], p)]}
                ELSE replies
  /\ UNCHANGED <<now, op>>

\* Mutant: the ring is asked again for the list after the await.
afterSettleFresh(o, c) ==
  LET over == Len(c.results) >= count(c) \/ c.unsettled = {}
  IN  IF ~ over
      THEN /\ op' = [op EXCEPT ![o] = c]
           /\ UNCHANGED store
      ELSE \E nodes \in Lists :
           IF c.at \cap nodes = {}
           THEN /\ op' = [op EXCEPT ![o] = fromPeers(c)]
                /\ UNCHANGED store
           ELSE \E n \in c.at :
                  /\ op' = [op EXCEPT ![o] = fromPeersAnd(c, returned(c, n))]
                  /\ store' = [store EXCEPT ![n] = effect(c, n)]

\* Mutant: the race is over only once enough peers have answered.
afterSettleResults(o, c) ==
  LET over == Len(c.results) >= count(c)
      here == c.at \cap c.replicas
  IN  IF ~ over
      THEN /\ op' = [op EXCEPT ![o] = c]
           /\ UNCHANGED store
      ELSE IF here = {}
      THEN /\ op' = [op EXCEPT ![o] = fromPeers(c)]
           /\ UNCHANGED store
      ELSE \E n \in here :
             /\ op' = [op EXCEPT ![o] = fromPeersAnd(c, returned(c, n))]
             /\ store' = [store EXCEPT ![n] = effect(c, n)]

\* The race is over once `count` peers answered or all have settled; then
\* a replica runs the command itself and the call ends.
afterSettle(o, c) ==
  LET over == Len(c.results) >= count(c) \/ c.unsettled = {}
      here == c.at \cap c.replicas
  IN  IF ~ over
      THEN /\ op' = [op EXCEPT ![o] = c]
           /\ UNCHANGED store
      ELSE IF here = {}
      THEN /\ op' = [op EXCEPT ![o] = fromPeers(c)]
           /\ UNCHANGED store
      ELSE \E n \in here :
             /\ op' = [op EXCEPT ![o] = fromPeersAnd(c, returned(c, n))]
             /\ store' = [store EXCEPT ![n] = effect(c, n)]

\* Mutant: an answered request is not counted as settled.
answerUnsettled(r) ==
  /\ r \in replies
  /\ replies' = replies \ {r}
  /\ IF r.from \in op[r.op].unsettled
     THEN afterSettle(r.op, [op[r.op] EXCEPT !.results = Append(@, r.payload)])
     ELSE UNCHANGED <<op, store>>
  /\ UNCHANGED <<now, torun>>

\* A reply comes in; the race may be over already.
answer(r) ==
  /\ r \in replies
  /\ replies' = replies \ {r}
  /\ IF r.from \in op[r.op].unsettled
     THEN afterSettle(r.op, [op[r.op] EXCEPT !.results = Append(@, r.payload),
                                             !.unsettled = @ \ {r.from}])
     ELSE UNCHANGED <<op, store>>
  /\ UNCHANGED <<now, torun>>

\* The request to p fails, run or not; if not, it may be lost.
fail(o, p) ==
  /\ MayFail
  /\ p \in op[o].unsettled
  /\ \E lost \in SUBSET (torun \cap {<<o, p>>}) : torun' = torun \ lost
  /\ replies' = {r \in replies : ~ (r.op = o /\ r.from = p)}
  /\ afterSettle(o, [op[o] EXCEPT !.errors = @ + 1, !.unsettled = @ \ {p}])
  /\ UNCHANGED now

tick ==
  /\ now < MaxTime
  /\ now' = now + 1
  /\ UNCHANGED <<store, op, torun, replies>>

Next ==
  \/ \E o \in Op, n \in Node : execute(o, n)
  \/ \E o \in Op, p \in Node : executeAtPeer(o, p) \/ fail(o, p)
  \/ \E r \in replies : answer(r)
  \/ tick

Spec == Init /\ [][Next]_vars

\* A request that was sent is run, or fails; a reply comes in.
Fairness ==
  /\ \A o \in Op, p \in Node : WF_vars(executeAtPeer(o, p))
  /\ WF_vars(\E r \in replies : answer(r))

FairSpec == Spec /\ Fairness

-----------------------------------------------------------------------------
(* The type invariant: every variable has its type.                        *)
TypeOK ==
  /\ now \in Epoch .. Max({Epoch, MaxTime})
  /\ \A n \in Node : store[n] \subseteq CacheItem /\ Cardinality(store[n]) <= 1
  /\ \A o \in Op :
       /\ op[o].phase \in {"idle", "racing", "returned", "thrown"}
       /\ op[o].replicas \in Lists \cup {{}}
       /\ op[o].unsettled \subseteq op[o].asked /\ op[o].asked \subseteq op[o].replicas
       /\ Len(op[o].results) + op[o].errors <= Cardinality(op[o].asked)
       /\ op[o].payload \cup op[o].value \subseteq CacheItem
  /\ torun \subseteq Op \X Node /\ \A call \in torun : call[2] \in op[call[1]].asked
  /\ \A r \in replies : r.op \in Op /\ r.from \in op[r.op].asked

\* The replicas that a call waits for when no request fails.
Waits(o) == Min({op[o].quorum, Cardinality(op[o].replicas)})

\* The quorums of two calls overlap, though their preference lists differ.
Overlap(a, b) == Waits(a) + Waits(b) > Cardinality(op[a].replicas \cup op[b].replicas)

Returned(o, kind) == op[o].phase = "returned" /\ op[o].kind = kind

\* The replicas of o that have its update or a newer one.
Holders(o) ==
  {p \in op[o].replicas : \E c \in store[p], v \in op[o].payload : c.updatedAt >= v.updatedAt}

(* Without deletes and ttls, a set that returned is on as many of the      *)
(* replicas it began with as its quorum asks for, and on one at least when *)
(* requests failed, though the ring changed during its awaits; it stays    *)
(* there, or is replaced by a newer one, whatever older or equally old     *)
(* updates arrive later.                                                   *)
AcknowledgedIsStored ==
  \A o \in Op : Returned(o, "set") =>
    Cardinality(Holders(o)) >= IF op[o].errors = 0 THEN Waits(o) ELSE 1

(* Without deletes and ttls, when the quorums of a set and of a later get  *)
(* overlap and no request of the two fails, the get returns that set's     *)
(* update or a newer one, also when the ring changed between the two or    *)
(* during one, and whatever becomes of the other calls.                    *)
QuorumReadsLatest ==
  \A g, o \in Op :
    /\ Returned(g, "get") /\ o \in op[g].before /\ op[o].kind = "set"
    /\ Overlap(g, o) /\ op[g].errors = 0 /\ op[o].errors = 0
    => \E v \in op[g].value : \E u \in op[o].payload : v.updatedAt >= u.updatedAt

(* A set that asked others ends, once all peers have run it and when none  *)
(* of its requests fails, on all of its replicas, unless a newer one is    *)
(* there: without deletes and ttls, whatever the order in which each       *)
(* replica saw the updates.                                                *)
ReplicasConverge ==
  \A o \in Op :
    /\ op[o].kind = "set" /\ op[o].phase # "racing" /\ torun \cap ({o} \X Node) = {}
    /\ op[o].errors = 0 /\ op[o].asked # {}
    => Holders(o) = op[o].replicas

(* With tombstones and without ttls, a set that reached all replicas is    *)
(* not read after a later delete whose quorum overlaps with the get's,     *)
(* though the delete reached some replicas only, when no request of the    *)
(* three fails and the set's time stamp is before the begin of the delete. *)
DeletedIsHidden ==
  \A g, d, o \in Op :
    /\ Returned(g, "get") /\ d \in op[g].before /\ op[d].kind = "delete"
    /\ o \in op[d].before /\ Waits(o) = Cardinality(op[o].replicas)
    /\ Overlap(g, d) /\ op[d].replicas \subseteq op[o].replicas
    /\ op[g].errors = 0 /\ op[d].errors = 0 /\ op[o].errors = 0
    /\ \A v \in op[o].payload : v.updatedAt < op[d].since
    => \A v \in op[g].value : v.item # o

(* A call that asked anybody ends, by the results it waits for or when all *)
(* its requests have settled, also when the quorum is more than there are  *)
(* to ask.  One that asked nobody does not: at the only replica, with a    *)
(* quorum above one, promiseRaceWithCount has no promise that could ever   *)
(* resolve it.                                                             *)
CallsSettle ==
  \A o \in Op : op[o].phase = "racing" /\ op[o].asked # {} ~> op[o].phase # "racing"

-----------------------------------------------------------------------------
(* What the documentation says and the code does not do: refuted by a run. *)

(* The example of the documentation stores a value with a ttl of 1000 and  *)
(* reads it back: a set that returned is on a replica until its ttl is     *)
(* over.                                                                   *)
TtlSetIsStored ==
  \A o \in Op : Returned(o, "set") =>
    \A v \in op[o].payload : v.ttl # NoTtl /\ now <= v.updatedAt + v.ttl => Holders(o) # {}
=============================================================================
