------------------------------ MODULE KVProofs ------------------------------
(***************************************************************************)
(* Theorems about KV, for any nodes, lists, quorums, clocks and calls,     *)
(* whether or not requests fail.  Without ttls, and with tombstones or     *)
(* without deletes (Lasting), a cache only ever gets newer: so what a      *)
(* command left at a replica is still there, or a newer item is, when a    *)
(* later call asks it.  `Leaves` says this of a call for any time t, and   *)
(* `Fresh` follows it through the race of a get.                           *)
(***************************************************************************)
EXTENDS KV, LoopProofs, SequenceTheorems

-----------------------------------------------------------------------------
(* Caches *)

\* The caches: also what a request and an answer carry.
Cache == {c \in SUBSET CacheItem : \A v, w \in c : v = w}

\* An item of c is as new as t.
Covers(c, t) == \E v \in c : v.updatedAt >= t

\* No ttl.
Forever(c) == \A v \in c : v.ttl = NoTtl

LEMMA ItemFacts ==
  ASSUME NEW v \in CacheItem
  PROVE  v.updatedAt \in Nat /\ (v.ttl \in Nat \/ v.ttl = NoTtl) /\ v.item \in Value \cup {Deleted}
BY DEF CacheItem

LEMMA Tombstones ==
  ASSUME NEW t \in Nat
  PROVE  [item |-> Deleted, updatedAt |-> t, ttl |-> NoTtl] \in CacheItem
BY DEF CacheItem

LEMMA EmptyCache == {} \in Cache
BY DEF Cache

(* The three commands leave a cache.                                       *)
LEMMA SetType ==
  ASSUME NEW c \in Cache, NEW v \in CacheItem, NEW t \in Nat
  PROVE  set(c, v, t) \in Cache
<1>1. buildCacheValue(v, t) \in CacheItem
  BY ItemFacts DEF buildCacheValue, CacheItem
<1> QED
  BY <1>1 DEF set, Cache

LEMMA GetType ==
  ASSUME NEW c \in Cache, NEW t \in Nat
  PROVE  get(c, t) \in Cache
BY DEF get, Cache

LEMMA DeleteType ==
  ASSUME NEW c \in Cache, NEW t \in Nat
  PROVE  delete(c, t, FALSE) \in Cache
<1>1. get(c, t) \in Cache
  BY GetType
<1> QED
  BY <1>1, SetType, Tombstones, EmptyCache DEF delete

(* Without ttls nothing expires.                                           *)
LEMMA GetKeeps ==
  ASSUME NEW c, NEW t, Forever(c)
  PROVE  get(c, t) = c
BY DEF get, isAlreadyExpired, Forever

(* A set leaves a cache that is as new as the update and as it was, with   *)
(* no item but the update and those it had.                                *)
LEMMA SetNewer ==
  ASSUME NEW c \in Cache, NEW v \in CacheItem, NEW t \in Nat, Forever(c), v.ttl = NoTtl
  PROVE  /\ \A k \in Nat : Covers(c, k) \/ v.updatedAt >= k => Covers(set(c, v, t), k)
         /\ \A w \in set(c, v, t) : w \in c \/ w = v
<1>1. buildCacheValue(v, t) = v
  BY DEF buildCacheValue, CacheItem
<1>2. ~ isAlreadyExpired(v, t)
  BY DEF isAlreadyExpired
<1>3. set(c, v, t) = IF \E d \in c : d.updatedAt > v.updatedAt THEN c ELSE {v}
  BY <1>1, <1>2 DEF set
<1>4. \A d \in c : d.updatedAt \in Nat
  BY ItemFacts DEF Cache
<1>5. v.updatedAt \in Nat
  BY ItemFacts
<1>6. ASSUME NEW k \in Nat, Covers(c, k) \/ v.updatedAt >= k PROVE Covers(set(c, v, t), k)
  <2>1. CASE \E d \in c : d.updatedAt > v.updatedAt
    <3>1. PICK d \in c : d.updatedAt > v.updatedAt
      BY <2>1
    <3>2. set(c, v, t) = c
      BY <2>1, <1>3
    <3>3. CASE Covers(c, k)
      BY <3>2, <3>3
    <3>4. CASE v.updatedAt >= k
      BY <3>1, <3>2, <3>4, <1>4, <1>5 DEF Covers
    <3>5. QED
      BY <3>3, <3>4, <1>6
  <2>2. CASE ~ \E d \in c : d.updatedAt > v.updatedAt
    <3>1. v.updatedAt >= k
      BY <2>2, <1>4, <1>5, <1>6 DEF Covers
    <3>2. QED
      BY <3>1, <2>2, <1>3 DEF Covers
  <2>3. QED
    BY <2>1, <2>2
<1> QED
  BY <1>3, <1>6

(* So does a delete, if it leaves tombstones, and if there is an item it   *)
(* leaves one as new as its own time.                                      *)
LEMMA DeleteNewer ==
  ASSUME NEW c \in Cache, NEW t \in Nat, Forever(c), Tombstone
  PROVE  /\ \A k \in Nat : Covers(c, k) \/ (c # {} /\ t >= k) => Covers(delete(c, t, FALSE), k)
         /\ \A w \in delete(c, t, FALSE) : w \in c \/ w = [item |-> Deleted, updatedAt |-> t, ttl |-> NoTtl]
<1> DEFINE d == [item |-> Deleted, updatedAt |-> t, ttl |-> NoTtl]
<1>1. d \in CacheItem /\ d.ttl = NoTtl /\ d.updatedAt = t
  BY Tombstones
<1>2. get(c, t) = c
  BY GetKeeps
<1>3. delete(c, t, FALSE) = IF c # {} THEN set(c, d, t) ELSE {}
  BY <1>2 DEF delete
<1> HIDE DEF d
<1>4. /\ \A k \in Nat : Covers(c, k) \/ t >= k => Covers(set(c, d, t), k)
      /\ \A w \in set(c, d, t) : w \in c \/ w = d
  BY <1>1, SetNewer
<1>5. \A k \in Nat : Covers(c, k) => c # {}
  BY DEF Covers
<1> QED
  BY <1>3, <1>4, <1>5 DEF d

(* What newer chooses.                                                     *)
LEMMA NewerFacts ==
  ASSUME NEW val \in Cache, NEW res \in Cache
  PROVE  /\ newer(val, res) \in {val, res}
         /\ \A t \in Nat : Covers(val, t) \/ Covers(res, t) => Covers(newer(val, res), t)
<1>1. \A v \in val, r \in res : v.updatedAt \in Nat /\ r.updatedAt \in Nat
  BY ItemFacts DEF Cache
<1>2. ASSUME NEW t \in Nat, Covers(val, t) PROVE Covers(newer(val, res), t)
  <2>1. PICK v \in val : v.updatedAt >= t
    BY <1>2 DEF Covers
  <2>2. CASE res = {} \/ \E w \in val, r \in res : w.updatedAt > r.updatedAt
    BY <2>2, <1>2 DEF newer
  <2>3. CASE ~ (res = {} \/ \E w \in val, r \in res : w.updatedAt > r.updatedAt)
    <3>1. PICK r \in res : TRUE
      BY <2>3
    <3>2. r.updatedAt >= t
      BY <2>1, <2>3, <1>1
    <3>3. QED
      BY <3>2, <2>3 DEF newer, Covers
  <2>4. QED
    BY <2>2, <2>3
<1>3. ASSUME NEW t \in Nat, Covers(res, t) PROVE Covers(newer(val, res), t)
  <2>1. PICK r \in res : r.updatedAt >= t
    BY <1>3 DEF Covers
  <2>2. CASE \E w \in val, q \in res : w.updatedAt > q.updatedAt
    <3>1. PICK w \in val, q \in res : w.updatedAt > q.updatedAt
      BY <2>2
    <3>2. q = r
      BY DEF Cache
    <3>3. w.updatedAt >= t
      BY <3>1, <3>2, <2>1, <1>1
    <3>4. QED
      BY <3>3, <2>2 DEF newer, Covers
  <2>3. CASE ~ \E w \in val, q \in res : w.updatedAt > q.updatedAt
    BY <2>1, <2>3, <1>3 DEF newer
  <2>4. QED
    BY <2>2, <2>3
<1> QED
  BY <1>2, <1>3 DEF newer

(* What reconciliate chooses: one of the payloads, as new as any of them.  *)
LEMMA ReconciliateFacts ==
  ASSUME NEW first \in Cache, NEW results \in Seq(Cache)
  PROVE  /\ reconciliate(first, results) \in Cache
         /\ \/ reconciliate(first, results) = first
            \/ \E i \in 1 .. Len(results) : reconciliate(first, results) = results[i]
         /\ \A t \in Nat :
              Covers(first, t) \/ (\E i \in 1 .. Len(results) : Covers(results[i], t))
              => Covers(reconciliate(first, results), t)
<1> DEFINE N == Len(results)
           I == [i \in 0 .. N |->
                  {c \in Cache : /\ c = first \/ \E k \in 1 .. i : c = results[k]
                                 /\ \A t \in Nat :
                                      Covers(first, t) \/ (\E k \in 1 .. i : Covers(results[k], t))
                                      => Covers(c, t)}]
           F == [w \in (1 .. N) \X Cache |-> newer(w[2], results[w[1]])]
           val[i \in 0 .. N] == IF i = 0 THEN first ELSE newer(val[i-1], results[i])
<1>1. N \in Nat /\ \A i \in 1 .. N : results[i] \in Cache
  OBVIOUS
<1>2. reconciliate(first, results) = val[N]
  BY DEF reconciliate
<1> HIDE DEF N
<1>3. first \in I[0]
  BY <1>1
<1>4. ASSUME NEW i \in 1 .. N, NEW r \in I[i-1] PROVE F[<<i, r>>] = newer(r, results[i]) /\ F[<<i, r>>] \in I[i]
  <2>1. i-1 \in 0 .. N /\ i \in 0 .. N /\ i \in Nat /\ \A k \in 1 .. i : k = i \/ k \in 1 .. i-1
    BY <1>1
  <2>2. /\ r \in Cache
        /\ r = first \/ \E k \in 1 .. i-1 : r = results[k]
        /\ \A t \in Nat : Covers(first, t) \/ (\E k \in 1 .. i-1 : Covers(results[k], t)) => Covers(r, t)
    BY <2>1
  <2>3. F[<<i, r>>] = newer(r, results[i])
    BY <2>2
  <2> DEFINE new == newer(r, results[i])
  <2>4. new \in {r, results[i]} /\ \A t \in Nat : Covers(r, t) \/ Covers(results[i], t) => Covers(new, t)
    BY <1>1, <2>2, NewerFacts
  <2> HIDE DEF new
  <2>5. new \in Cache
    BY <1>1, <2>2, <2>4
  <2>6. new = first \/ \E k \in 1 .. i : new = results[k]
    <3>1. \A k \in 1 .. i-1 : k \in 1 .. i
      BY <1>1
    <3>2. i \in 1 .. i
      BY <2>1
    <3>3. QED
      BY <3>1, <3>2, <2>2, <2>4
  <2>7. ASSUME NEW t \in Nat, Covers(first, t) \/ (\E k \in 1 .. i : Covers(results[k], t))
        PROVE  Covers(new, t)
    BY <2>1, <2>2, <2>4, <2>7
  <2>8. new \in I[i]
    BY <2>1, <2>5, <2>6, <2>7
  <2>9. QED
    BY <2>3, <2>8 DEF new
<1>5. \A i \in 0 .. N : I[i] \subseteq Cache
  OBVIOUS
<1> HIDE DEF I, F
<1>6. PICK f : /\ f[0] = first
               /\ \A i \in 1 .. N : f[i] = F[<<i, f[i-1]>>]
               /\ \A i \in 0 .. N : f[i] \in I[i]
               /\ f = [i \in 0 .. N |-> f[i]]
  <2>1. StepsKeep(N, Cache, I, F)
    BY <1>4, <1>5 DEF StepsKeep
  <2>2. PICK f : StatesKept(N, I, first, F, f)
    BY <1>1, <1>3, <2>1, LoopFunction
  <2>3. QED
    BY <2>2 DEF StatesKept
<1>7. f = [i \in 0 .. N |-> IF i = 0 THEN first ELSE newer(f[i-1], results[i])]
  <2>1. ASSUME NEW i \in 0 .. N PROVE f[i] = IF i = 0 THEN first ELSE newer(f[i-1], results[i])
    <3>1. CASE i = 0
      BY <3>1, <1>6
    <3>2. CASE i # 0
      <4>1. i \in 1 .. N /\ i-1 \in 0 .. N
        BY <3>2, <1>1
      <4>2. QED
        BY <4>1, <3>2, <1>4, <1>6
    <3>3. QED
      BY <3>1, <3>2
  <2>2. QED
    BY <2>1, <1>6
<1>8. val = [i \in 0 .. N |-> IF i = 0 THEN first ELSE newer(val[i-1], results[i])]
  BY <1>7
<1> HIDE DEF val
<1>9. val[0] = first /\ \A i \in 1 .. N : val[i] = newer(val[i-1], results[i])
  <2>1. 0 \in 0 .. N /\ \A i \in 1 .. N : i \in 0 .. N /\ i # 0
    BY <1>1
  <2>2. QED
    BY <2>1, <1>8
<1>10. \A i \in 0 .. N : val[i] \in I[i]
  <2>1. val[0] \in I[0]
    BY <1>3, <1>9
  <2>2. \A i \in 1 .. N : val[i-1] \in I[i-1] => val[i] \in I[i]
    BY <1>4, <1>9
  <2>3. QED
    BY <1>1, <2>1, <2>2, LoopInvariant
<1>11. val[N] \in I[N]
  BY <1>1, <1>10, N \in 0 .. N
<1> QED
  BY <1>1, <1>2, <1>11 DEF I, N

-----------------------------------------------------------------------------
(* The invariants *)

Call ==
  [phase : {"idle", "racing", "returned", "thrown"}, kind : {"none", "set", "get", "delete"},
   at : SUBSET Node, replicas : SUBSET Node, quorum : Nat, payload : Cache,
   asked : SUBSET Node, unsettled : SUBSET Node, results : Seq(Cache), errors : Nat,
   value : Cache, since : Nat, before : SUBSET Op]

Reply == [op : Op, from : Node, payload : Cache]

Types ==
  /\ now \in Epoch .. Max({Epoch, MaxTime})
  /\ store \in [Node -> Cache]
  /\ op \in [Op -> Call]
  /\ torun \subseteq Op \X Node
  /\ replies \subseteq Reply

\* The node called is a replica and enough by itself.
Alone(c) == c.at \subseteq c.replicas /\ c.quorum = 1

Ended(c) == c.phase \in {"returned", "thrown"}

\* What execute made of a call.
Started(c) ==
  /\ c.kind \in Kinds
  /\ c.replicas \in Lists
  /\ \E n \in Node : c.at = {n}
  /\ c.quorum \in Quorums
  /\ c.asked = IF Alone(c) THEN {} ELSE c.replicas \ c.at
  /\ c.kind = "set" <=> c.payload # {}

\* How far its race is.
Progress(c) ==
  /\ c.unsettled \subseteq c.asked
  /\ Len(c.results) + c.errors <= Cardinality(c.asked)
  /\ IF c.phase = "racing"
     THEN ~ Alone(c) /\ Len(c.results) + c.errors = Cardinality(c.asked \ c.unsettled)
     ELSE c.unsettled = {}

CallInv ==
  \A o \in Op : IF op[o].phase = "idle" THEN op[o] = Idle
                ELSE /\ Started(op[o]) /\ Progress(op[o])
                     /\ op[o].since <= now
                     /\ \A x \in op[o].before : op[x].phase = "returned"

\* Only peers that were asked have something to run or answer.
Asked == /\ \A o \in Op, p \in Node : <<o, p>> \in torun => p \in op[o].asked
         /\ \A r \in replies : r.from \in op[r.op].asked

KVInv == Types /\ CallInv /\ Asked

\* The hypothesis of all that follows about times.
Lasting == Ttls \subseteq {NoTtl} /\ (Tombstone \/ "delete" \notin Kinds)

\* An item anywhere is the payload of the call that stored it, or a tombstone.
Item(v) ==
  /\ v.ttl = NoTtl
  /\ \/ v.item \in Op /\ v \in op[v.item].payload
     \/ v.item = Deleted /\ "delete" \in Kinds

Items(c) == \A v \in c : Item(v)

ItemInv ==
  /\ \A n \in Node : Items(store[n])
  /\ \A r \in replies : Items(r.payload)
  /\ \A o \in Op : \A v \in op[o].payload : v.item = o /\ v.ttl = NoTtl
  /\ \A o \in Op : \A i \in 1 .. Len(op[o].results) : Items(op[o].results[i])
  /\ \A o \in Op : Items(op[o].value)

\* The replicas that c waits for.
Enough(c) == Min({c.quorum, Cardinality(c.replicas)})

\* Whoever runs c will have an item as new as t: the update of a set, or what
\* a delete leaves when a set before it is on all of its replicas.
Leaves(c, t, calls) ==
  \/ c.kind = "set" /\ Covers(c.payload, t)
  \/ /\ c.kind = "delete" /\ c.since >= t
     /\ \E o \in c.before : /\ calls[o].kind = "set" /\ calls[o].errors = 0
                            /\ c.replicas \subseteq calls[o].replicas
                            /\ Enough(calls[o]) = Cardinality(calls[o].replicas)

\* Those of the peers that have an item as new as t.
Having(peers, t, caches) == {p \in peers : Covers(caches[p], t)}

\* What the call c of o has left so far, of all that it will: it is on as many
\* peers as have answered, and on enough when it has returned.
Left(o, c, t, caches, answers, runs) ==
  /\ c.phase = "racing" => Cardinality(Having(c.asked \ c.unsettled, t, caches)) >= Len(c.results)
  /\ \A r \in answers : r.op = o => Covers(caches[r.from], t)
  /\ c.phase = "returned" =>
       Cardinality(Having(c.replicas, t, caches)) >= IF c.errors = 0 THEN Enough(c) ELSE 1
  /\ c.errors = 0 => \A p \in c.asked : <<o, p>> \in runs \/ Covers(caches[p], t)
  /\ Ended(c) => \A p \in c.at \cap c.replicas : Covers(caches[p], t)

LeftInv ==
  \A o \in Op : \A t \in Nat :
    Leaves(op[o], t, op) => Left(o, op[o], t, store, replies, torun)

\* Peer p has something as new as t, and so has what it answered to the get g.
Fresh(g, c, p, t, caches, answers) ==
  /\ Covers(caches[p], t)
  /\ \A r \in answers : r.op = g /\ r.from = p => Covers(r.payload, t)
  /\ p \in c.asked \ c.unsettled => \E i \in 1 .. Len(c.results) : Covers(c.results[i], t)

\* While the get c of g races, enough replicas of an earlier call x have what
\* it left, and answer so.
Finding(g, c, x, t, caches, answers) ==
  Cardinality({p \in x.replicas : Fresh(g, c, p, t, caches, answers)}) >= Enough(x)

\* And if their quorums overlap the get has found it when it returns.
Found(c, x, t) ==
  Enough(c) + Enough(x) > Cardinality(c.replicas \cup x.replicas)
  => \E val \in Cache : Covers(val, t) /\ Items(val) /\ c.value = plain(val)

ReadInv ==
  \A g \in Op : op[g].kind = "get" /\ op[g].errors = 0 =>
    \A x \in op[g].before : op[x].errors = 0 =>
      \A t \in Nat : Leaves(op[x], t, op) =>
        /\ op[g].phase = "racing" => Finding(g, op[g], op[x], t, store, replies)
        /\ op[g].phase = "returned" => Found(op[g], op[x], t)

-----------------------------------------------------------------------------
(* The steps *)

LEMMA NowFacts ==
  ASSUME Types
  PROVE  /\ now \in Nat /\ Epoch <= now
         /\ \A n \in Node : clock(n) \in Nat /\ clock(n) >= now
<1>1. Epoch \in Nat /\ now \in Epoch .. Max({Epoch, MaxTime})
  BY KVAssumption DEF Types
<1>2. now \in Nat /\ Epoch <= now
  BY <1>1
<1> QED
  BY <1>2, KVAssumption DEF clock

LEMMA MaxPair ==
  ASSUME NEW a \in Nat, NEW b \in Nat
  PROVE  Max({a, b}) \in {a, b} /\ Max({a, b}) >= a /\ Max({a, b}) >= b
<1>1. \E x \in {a, b} : \A y \in {a, b} : x >= y
  BY a >= b \/ b >= a
<1> QED
  BY <1>1 DEF Max

LEMMA MinPair ==
  ASSUME NEW a \in Nat, NEW b \in Nat
  PROVE  Min({a, b}) \in {a, b} /\ Min({a, b}) <= a /\ Min({a, b}) <= b
<1>1. \E x \in {a, b} : \A y \in {a, b} : x =< y
  BY a <= b \/ b <= a
<1> QED
  BY <1>1 DEF Min

(* The fields of a call, one by one: the provers rarely find them alone.   *)
LEMMA CallFacts ==
  ASSUME NEW c \in Call
  PROVE  /\ c.phase \in {"idle", "racing", "returned", "thrown"}
         /\ c.kind \in {"none", "set", "get", "delete"}
         /\ c.at \subseteq Node /\ c.replicas \subseteq Node /\ c.quorum \in Nat
         /\ c.payload \in Cache /\ c.value \in Cache /\ c.results \in Seq(Cache)
         /\ c.asked \subseteq Node /\ c.unsettled \subseteq Node
         /\ c.errors \in Nat /\ c.since \in Nat /\ c.before \subseteq Op
         /\ Len(c.results) \in Nat /\ \A i \in 1 .. Len(c.results) : c.results[i] \in Cache
<1>1. c.results \in Seq(Cache)
  BY DEF Call
<1> QED
  BY <1>1 DEF Call

LEMMA FinishedType ==
  ASSUME NEW c \in Call, NEW phase \in {"returned", "thrown"}, NEW val \in Cache
  PROVE  finished(c, phase, val) \in Call
<1>1. plain(val) \in Cache
  BY DEF plain, Cache
<1> QED
  BY <1>1 DEF finished, Call

LEMMA FinishedFields ==
  ASSUME NEW c \in Call, NEW phase, NEW val
  PROVE  LET e == finished(c, phase, val)
         IN  /\ e.phase = phase /\ e.value = plain(val) /\ e.unsettled = {}
             /\ e.kind = c.kind /\ e.at = c.at /\ e.replicas = c.replicas /\ e.quorum = c.quorum
             /\ e.payload = c.payload /\ e.asked = c.asked /\ e.results = c.results
             /\ e.errors = c.errors /\ e.since = c.since /\ e.before = c.before
BY DEF finished, Call

LEMMA CommandType ==
  ASSUME Types, NEW c \in Call, c.kind \in Kinds, NEW n \in Node
  PROVE  effect(c, n) \in Cache /\ returned(c, n) \in Cache
<1>1. store[n] \in Cache /\ clock(n) \in Nat /\ c.payload \in Cache
  BY NowFacts, CallFacts DEF Types
<1>2. get(store[n], clock(n)) \in Cache /\ delete(store[n], clock(n), FALSE) \in Cache
  BY <1>1, GetType, DeleteType
<1>3. \A v \in c.payload : v \in CacheItem /\ c.payload = {v}
  BY <1>1 DEF Cache
<1>4. CASE c.kind = "set"
  <2>1. effect(c, n) = UNION {set(store[n], v, clock(n)) : v \in c.payload}
    BY <1>4 DEF effect
  <2>2. CASE c.payload = {}
    BY <2>1, <2>2, <1>4, EmptyCache DEF returned
  <2>3. CASE c.payload # {}
    <3>1. PICK v \in c.payload : v \in CacheItem /\ c.payload = {v}
      BY <2>3, <1>3
    <3>2. effect(c, n) = set(store[n], v, clock(n))
      BY <2>1, <3>1
    <3>3. QED
      BY <3>1, <3>2, <1>1, <1>4, SetType, EmptyCache DEF returned
  <2>4. QED
    BY <2>2, <2>3
<1>5. CASE c.kind = "get"
  BY <1>2, <1>5 DEF effect, returned
<1>6. CASE c.kind = "delete"
  BY <1>2, <1>6, EmptyCache DEF effect, returned
<1> QED
  BY <1>4, <1>5, <1>6, KVAssumption

\* What a call that ends makes of its own answer and the peers'.
Ending(c, own, phase, val) ==
  /\ phase = "returned" => c.results # << >> \/ own # {}
  /\ val = {} \/ val = own \/ \E i \in 1 .. Len(c.results) : val = c.results[i]
  /\ \A t \in Nat : Covers(own, t) \/ (\E i \in 1 .. Len(c.results) : Covers(c.results[i], t))
                    => phase = "returned" /\ Covers(val, t)

LEMMA PeersEnding ==
  ASSUME NEW c \in Call
  PROVE  \E phase \in {"returned", "thrown"}, val \in Cache :
           fromPeers(c) = finished(c, phase, val) /\ Ending(c, {}, phase, val)
<1> DEFINE s == c.results
<1>1. s \in Seq(Cache) /\ Len(s) \in Nat /\ \A i \in 1 .. Len(s) : s[i] \in Cache
  BY CallFacts
<1>2. \A t \in Nat : ~ Covers({}, t)
  BY DEF Covers
<1>3. CASE s = << >>
  <2>1. Len(s) = 0
    BY <1>3
  <2>2. Ending(c, {}, "thrown", {})
    BY <2>1, <1>2 DEF Ending
  <2>3. QED
    BY <2>2, <1>3, EmptyCache DEF fromPeers
<1>4. CASE s # << >>
  <2> DEFINE val == reconciliate(Head(s), Tail(s))
  <2>1. Head(s) = s[1] /\ Head(s) \in Cache /\ Tail(s) \in Seq(Cache) /\ Len(Tail(s)) = Len(s)-1
    BY <1>1, <1>4
  <2>2. \A i \in 1 .. Len(s)-1 : Tail(s)[i] = s[i+1] /\ i+1 \in 1 .. Len(s)
    BY <1>1, <1>4
  <2>3. 1 \in 1 .. Len(s) /\ \A i \in 1 .. Len(s) : i = 1 \/ (i-1 \in 1 .. Len(s)-1 /\ (i-1)+1 = i)
    BY <1>1, <1>4
  <2>4. /\ val \in Cache
        /\ val = Head(s) \/ \E i \in 1 .. Len(s)-1 : val = Tail(s)[i]
        /\ \A t \in Nat : Covers(Head(s), t) \/ (\E i \in 1 .. Len(s)-1 : Covers(Tail(s)[i], t))
                          => Covers(val, t)
    BY <2>1, ReconciliateFacts
  <2> HIDE DEF val
  <2>5. \E i \in 1 .. Len(s) : val = s[i]
    BY <2>1, <2>2, <2>3, <2>4
  <2>6. ASSUME NEW t \in Nat, NEW i \in 1 .. Len(s), Covers(s[i], t) PROVE Covers(val, t)
    BY <2>1, <2>2, <2>3, <2>4, <2>6
  <2>7. Ending(c, {}, "returned", val)
    BY <2>5, <2>6, <1>2, <1>4 DEF Ending
  <2>8. fromPeers(c) = finished(c, "returned", val)
    BY <1>4 DEF fromPeers, val
  <2>9. QED
    BY <2>4, <2>7, <2>8
<1> QED
  BY <1>3, <1>4

LEMMA ReplicaEnding ==
  ASSUME NEW c \in Call, NEW own \in Cache
  PROVE  \E phase \in {"returned", "thrown"}, val \in Cache :
           fromPeersAnd(c, own) = finished(c, phase, val) /\ Ending(c, own, phase, val)
<1>1. CASE own = {}
  BY <1>1, PeersEnding DEF fromPeersAnd
<1>2. CASE own # {}
  <2> DEFINE val == reconciliate(own, c.results)
  <2>1. /\ val \in Cache
        /\ val = own \/ \E i \in 1 .. Len(c.results) : val = c.results[i]
        /\ \A t \in Nat : Covers(own, t) \/ (\E i \in 1 .. Len(c.results) : Covers(c.results[i], t))
                          => Covers(val, t)
    BY CallFacts, ReconciliateFacts
  <2> HIDE DEF val
  <2>2. fromPeersAnd(c, own) = finished(c, "returned", val)
    BY <1>2 DEF fromPeersAnd, val
  <2>3. Ending(c, own, "returned", val)
    BY <2>1, <1>2 DEF Ending
  <2>4. QED
    BY <2>1, <2>2, <2>3
<1> QED
  BY <1>1, <1>2

(* A call that settles a request races on, or ends with what its peers     *)
(* answered and, at a replica, with its own answer.                        *)
RacesOn(o, c) ==
  /\ op' = [op EXCEPT ![o] = c]
  /\ store' = store
  /\ Len(c.results) < count(c) /\ c.unsettled # {}

EndsWith(o, c, own, phase, val) ==
  /\ Len(c.results) >= count(c) \/ c.unsettled = {}
  /\ op' = [op EXCEPT ![o] = finished(c, phase, val)]
  /\ Ending(c, own, phase, val)
  /\ \/ c.at \cap c.replicas = {} /\ own = {} /\ store' = store
     \/ \E n \in c.at \cap c.replicas :
          own = returned(c, n) /\ store' = [store EXCEPT ![n] = effect(c, n)]

LEMMA SettleCases ==
  ASSUME Types, NEW o \in Op, NEW c \in Call, c.kind \in Kinds, afterSettle(o, c)
  PROVE  \/ RacesOn(o, c)
         \/ \E own \in Cache, phase \in {"returned", "thrown"}, val \in Cache :
              EndsWith(o, c, own, phase, val)
<1>1. CASE ~ (Len(c.results) >= count(c) \/ c.unsettled = {})
  <2>1. count(c) \in Int /\ Len(c.results) \in Nat
    BY CallFacts DEF count
  <2>2. QED
    BY <1>1, <2>1 DEF afterSettle, RacesOn
<1>2. CASE (Len(c.results) >= count(c) \/ c.unsettled = {}) /\ c.at \cap c.replicas = {}
  <2>1. op' = [op EXCEPT ![o] = fromPeers(c)] /\ store' = store
    BY <1>2 DEF afterSettle
  <2>2. PICK phase \in {"returned", "thrown"}, val \in Cache :
          fromPeers(c) = finished(c, phase, val) /\ Ending(c, {}, phase, val)
    BY PeersEnding
  <2>3. EndsWith(o, c, {}, phase, val)
    BY <1>2, <2>1, <2>2 DEF EndsWith
  <2>4. QED
    BY <2>3, EmptyCache
<1>3. CASE (Len(c.results) >= count(c) \/ c.unsettled = {}) /\ c.at \cap c.replicas # {}
  <2>1. PICK n \in c.at \cap c.replicas :
          /\ op' = [op EXCEPT ![o] = fromPeersAnd(c, returned(c, n))]
          /\ store' = [store EXCEPT ![n] = effect(c, n)]
    BY <1>3 DEF afterSettle
  <2>2. returned(c, n) \in Cache
    BY CommandType, CallFacts
  <2>3. PICK phase \in {"returned", "thrown"}, val \in Cache :
          /\ fromPeersAnd(c, returned(c, n)) = finished(c, phase, val)
          /\ Ending(c, returned(c, n), phase, val)
    BY <2>2, ReplicaEnding
  <2>4. EndsWith(o, c, returned(c, n), phase, val)
    BY <1>3, <2>1, <2>3 DEF EndsWith
  <2>5. QED
    BY <2>2, <2>4
<1> QED
  BY <1>1, <1>2, <1>3

\* What never changes in a call.
SameCall(a, b) ==
  /\ a.kind = b.kind /\ a.at = b.at /\ a.replicas = b.replicas /\ a.quorum = b.quorum
  /\ a.payload = b.payload /\ a.asked = b.asked /\ a.since = b.since /\ a.before = b.before

(* The steps of the calls, by what they make of the call's record.         *)
Begins(o, n, c) ==
  /\ op[o].phase = "idle"
  /\ c \in Call /\ Started(c) /\ c.phase = "racing" /\ c.at = {n}
  /\ c.unsettled = c.asked /\ c.results = << >> /\ c.errors = 0 /\ c.value = {}
  /\ c.since = now /\ c.before = {x \in Op : op[x].phase = "returned"}
  /\ \A v \in c.payload : v.item = o /\ v.ttl \in Ttls
  /\ IF Alone(c)
     THEN /\ op' = [op EXCEPT ![o] = finished(c, "returned", returned(c, n))]
          /\ store' = [store EXCEPT ![n] = effect(c, n)]
     ELSE op' = [op EXCEPT ![o] = c] /\ store' = store
  /\ torun' = torun \cup ({o} \X c.asked)
  /\ replies' = replies /\ now' = now

LEMMA ExecuteBegins ==
  ASSUME Types, NEW o \in Op, NEW n \in Node, execute(o, n)
  PROVE  \E c : Begins(o, n, c)
<1> DEFINE
      Source(kind, quorum, nodes, payload) ==
        LET alone == isAReplica(n, nodes) /\ quorum = 1
            asked == IF alone THEN {} ELSE nodes \ {n}
            c     == [phase |-> "racing", kind |-> kind, at |-> {n}, replicas |-> nodes, quorum |-> quorum,
                      payload |-> payload, asked |-> asked, unsettled |-> asked, results |-> << >>,
                      errors |-> 0, value |-> {}, since |-> now,
                      before |-> {x \in Op : op[x].phase = "returned"}]
        IN  /\ op[o].phase = "idle"
            /\ IF alone
               THEN /\ op' = [op EXCEPT ![o] = finished(c, "returned", returned(c, n))]
                    /\ store' = [store EXCEPT ![n] = effect(c, n)]
               ELSE /\ op' = [op EXCEPT ![o] = c]
                    /\ UNCHANGED store
            /\ torun' = torun \cup ({o} \X asked)
            /\ UNCHANGED <<now, replies>>
<1>1. PICK kind \in Kinds, quorum \in Quorums, nodes \in Lists :
        \E payload \in payloads(kind, o, n) : Source(kind, quorum, nodes, payload)
  BY Zenon DEF execute
<1>2. PICK payload \in payloads(kind, o, n) : Source(kind, quorum, nodes, payload)
  BY <1>1
<1> DEFINE asked == IF n \in nodes /\ quorum = 1 THEN {} ELSE nodes \ {n}
           before == {x \in Op : op[x].phase = "returned"}
           c == [phase |-> "racing", kind |-> kind, at |-> {n}, replicas |-> nodes, quorum |-> quorum,
                 payload |-> payload, asked |-> asked, unsettled |-> asked, results |-> << >>,
                 errors |-> 0, value |-> {}, since |-> now, before |-> before]
<1>3. /\ op[o].phase = "idle"
      /\ IF n \in nodes /\ quorum = 1
         THEN /\ op' = [op EXCEPT ![o] = finished(c, "returned", returned(c, n))]
              /\ store' = [store EXCEPT ![n] = effect(c, n)]
         ELSE op' = [op EXCEPT ![o] = c] /\ store' = store
      /\ torun' = torun \cup ({o} \X asked)
      /\ replies' = replies /\ now' = now
  BY <1>2 DEF isAReplica
<1> HIDE DEF Source
<1>4. now \in Nat /\ clock(n) \in Nat
  BY NowFacts
<1>5. /\ payload \in Cache /\ (kind = "set" <=> payload # {})
      /\ \A v \in payload : v.item = o /\ v.ttl \in Ttls
  <2>1. CASE kind = "set"
    <3>1. PICK ttl \in Ttls : payload = {[item |-> o, updatedAt |-> clock(n), ttl |-> ttl]}
      BY <2>1 DEF payloads
    <3>2. [item |-> o, updatedAt |-> clock(n), ttl |-> ttl] \in CacheItem
      BY <1>4, KVAssumption DEF CacheItem
    <3>3. QED
      BY <3>1, <3>2, <2>1 DEF Cache
  <2>2. CASE kind # "set"
    BY <2>2, EmptyCache DEF payloads
  <2>3. QED
    BY <2>1, <2>2
<1>6. nodes \subseteq Node /\ quorum \in Nat /\ kind \in {"set", "get", "delete"}
  BY KVAssumption
<1>7. << >> \in Seq(Cache) /\ 0 \in Nat /\ asked \subseteq Node /\ before \subseteq Op
  BY <1>6
<1>8. c \in Call
  <2> HIDE DEF asked, before
  <2>1. QED
    BY <1>4, <1>5, <1>6, <1>7, EmptyCache DEF Call
<1>9. Alone(c) <=> n \in nodes /\ quorum = 1
  BY DEF Alone
<1>10. Started(c)
  BY <1>5, <1>9 DEF Started
<1>11. Begins(o, n, c)
  <2> HIDE DEF asked, before
  <2>1. /\ c.phase = "racing" /\ c.at = {n} /\ c.unsettled = c.asked /\ c.asked = asked
        /\ c.results = << >> /\ c.errors = 0 /\ c.value = {}
        /\ c.since = now /\ c.before = before /\ c.payload = payload
    OBVIOUS
  <2> HIDE DEF c
  <2>2. IF Alone(c)
        THEN /\ op' = [op EXCEPT ![o] = finished(c, "returned", returned(c, n))]
             /\ store' = [store EXCEPT ![n] = effect(c, n)]
        ELSE op' = [op EXCEPT ![o] = c] /\ store' = store
    BY <1>3, <1>9
  <2>3. torun' = torun \cup ({o} \X c.asked) /\ replies' = replies /\ now' = now
    BY <1>3, <2>1
  <2>4. c.before = {x \in Op : op[x].phase = "returned"}
    BY <2>1 DEF before
  <2>5. \A v \in c.payload : v.item = o /\ v.ttl \in Ttls
    BY <2>1, <1>5
  <2>6. QED
    BY <1>3, <1>8, <1>10, <2>1, <2>2, <2>3, <2>4, <2>5 DEF Begins
<1> QED
  BY <1>11

\* A request of the call is settled, which makes its record c.
Settles(o, p, c) ==
  /\ p \in op[o].unsettled
  /\ c \in Call /\ SameCall(op[o], c) /\ c.phase = op[o].phase /\ c.value = op[o].value
  /\ c.unsettled = op[o].unsettled \ {p}
  /\ afterSettle(o, c)
  /\ now' = now

Answers(r, c) ==
  /\ r \in replies /\ r.op \in Op /\ r.from \in Node /\ r.payload \in Cache
  /\ Settles(r.op, r.from, c)
  /\ c.results = Append(op[r.op].results, r.payload) /\ c.errors = op[r.op].errors
  /\ replies' = replies \ {r} /\ torun' = torun

Fails(o, p, c) ==
  /\ Settles(o, p, c)
  /\ c.results = op[o].results /\ c.errors = op[o].errors + 1
  /\ torun' \subseteq torun /\ torun \ {<<o, p>>} \subseteq torun' /\ replies' \subseteq replies

LEMMA AnswerSettles ==
  ASSUME Types, NEW r, answer(r)
  PROVE  \/ \E c : Answers(r, c)
         \/ /\ r \in replies /\ replies' = replies \ {r}
            /\ op' = op /\ store' = store /\ torun' = torun /\ now' = now
<1>1. r \in replies /\ r.op \in Op /\ r.from \in Node /\ r.payload \in Cache /\ op[r.op] \in Call
  BY DEF answer, Types, Reply
<1>2. CASE r.from \notin op[r.op].unsettled
  BY <1>1, <1>2 DEF answer
<1>3. CASE r.from \in op[r.op].unsettled
  <2> DEFINE a == op[r.op]
             c == [a EXCEPT !.results = Append(@, r.payload), !.unsettled = @ \ {r.from}]
  <2>1. a \in Call /\ a.results \in Seq(Cache) /\ a.unsettled \subseteq Node
    BY <1>1, CallFacts
  <2>2. afterSettle(r.op, c) /\ replies' = replies \ {r} /\ now' = now /\ torun' = torun
    BY <1>3 DEF answer
  <2> HIDE DEF a
  <2>3. Append(a.results, r.payload) \in Seq(Cache) /\ a.unsettled \ {r.from} \subseteq Node
    BY <1>1, <2>1
  <2>4. c \in Call
    BY <2>1, <2>3 DEF Call
  <2>5. /\ c.results = Append(a.results, r.payload) /\ c.unsettled = a.unsettled \ {r.from}
        /\ c.errors = a.errors /\ c.phase = a.phase /\ c.value = a.value /\ SameCall(a, c)
    BY <2>1 DEF Call, SameCall
  <2> HIDE DEF c
  <2>6. Answers(r, c)
    BY <1>1, <1>3, <2>2, <2>4, <2>5 DEF Answers, Settles, a
  <2>7. QED
    BY <2>6
<1> QED
  BY <1>2, <1>3

LEMMA FailSettles ==
  ASSUME Types, NEW o \in Op, NEW p, fail(o, p)
  PROVE  \E c : Fails(o, p, c)
<1> DEFINE a == op[o]
           c == [a EXCEPT !.errors = @ + 1, !.unsettled = @ \ {p}]
<1>1. a \in Call /\ a.errors \in Nat /\ a.unsettled \subseteq Node
  BY CallFacts DEF Types
<1>2. p \in a.unsettled /\ afterSettle(o, c) /\ now' = now
  BY DEF fail
<1>3. torun' \subseteq torun /\ torun \ {<<o, p>>} \subseteq torun' /\ replies' \subseteq replies
  BY DEF fail
<1> HIDE DEF a
<1>4. c \in Call
  <2>1. a.errors + 1 \in Nat /\ a.unsettled \ {p} \subseteq Node
    BY <1>1
  <2>2. QED
    BY <1>1, <2>1 DEF Call
<1>5. /\ c.errors = a.errors + 1 /\ c.unsettled = a.unsettled \ {p}
      /\ c.results = a.results /\ c.phase = a.phase /\ c.value = a.value /\ SameCall(a, c)
  BY <1>1 DEF Call, SameCall
<1> HIDE DEF c
<1> QED
  BY <1>2, <1>3, <1>4, <1>5 DEF Fails, Settles, a

\* A peer runs the command of o.
Runs(o, p) ==
  /\ <<o, p>> \in torun
  /\ store' = [store EXCEPT ![p] = effect(op[o], p)]
  /\ torun' = torun \ {<<o, p>>}
  /\ \/ replies' = replies
     \/ replies' = replies \cup {[op |-> o, from |-> p, payload |-> returned(op[o], p)]}
  /\ op' = op /\ now' = now

(* Every step is one of these, or none.                                    *)
LEMMA StepCases ==
  ASSUME Types, [Next]_vars
  PROVE  \/ \E o \in Op, n \in Node, c \in Call : Begins(o, n, c)
         \/ \E o \in Op, p \in Node : Runs(o, p)
         \/ \E r \in replies, c \in Call : Answers(r, c)
         \/ \E o \in Op, p \in Node, c \in Call : Fails(o, p, c)
         \/ /\ op' = op /\ store' = store /\ torun' = torun /\ replies' \subseteq replies
            /\ now' = now \/ (now < MaxTime /\ now' = now + 1)
<1>1. ASSUME NEW o \in Op, NEW n \in Node, execute(o, n) PROVE \E c \in Call : Begins(o, n, c)
  <2>1. PICK c : Begins(o, n, c)
    BY <1>1, ExecuteBegins
  <2>2. c \in Call
    BY <2>1 DEF Begins
  <2>3. QED
    BY <2>1, <2>2
<1>2. ASSUME NEW o \in Op, NEW p \in Node, executeAtPeer(o, p) PROVE Runs(o, p)
  BY <1>2 DEF executeAtPeer, Runs
<1>3. ASSUME NEW o \in Op, NEW p \in Node, fail(o, p) PROVE \E c \in Call : Fails(o, p, c)
  BY <1>3, FailSettles DEF Fails, Settles
<1>4. ASSUME NEW r \in replies, answer(r)
      PROVE  \/ \E c \in Call : Answers(r, c)
             \/ op' = op /\ store' = store /\ torun' = torun /\ replies' \subseteq replies /\ now' = now
  BY <1>4, AnswerSettles DEF Answers, Settles
<1>5. CASE tick
  BY <1>5 DEF tick
<1>6. CASE UNCHANGED vars
  BY <1>6 DEF vars
<1> QED
  BY <1>1, <1>2, <1>3, <1>4, <1>5, <1>6 DEF Next

-----------------------------------------------------------------------------
(* The type invariant *)

LEMMA StartedFacts ==
  ASSUME NEW c \in Call, Started(c)
  PROVE  /\ IsFiniteSet(c.replicas) /\ c.replicas # {} /\ Cardinality(c.replicas) \in Nat
         /\ c.asked \subseteq c.replicas /\ IsFiniteSet(c.asked) /\ Cardinality(c.asked) \in Nat
         /\ c.quorum \in Nat \ {0} /\ c.kind \in {"set", "get", "delete"}
<1>1. IsFiniteSet(c.replicas) /\ c.replicas # {} /\ c.asked \subseteq c.replicas
  BY KVAssumption DEF Started
<1>2. IsFiniteSet(c.asked)
  BY <1>1, FS_Subset
<1> QED
  BY <1>1, <1>2, FS_CardinalityType, KVAssumption DEF Started

LEMMA StartedSame ==
  ASSUME NEW a, NEW b, SameCall(a, b), Started(a)
  PROVE  Started(b) /\ (Alone(b) <=> Alone(a))
BY DEF SameCall, Started, Alone

LEMMA FinishedSame ==
  ASSUME NEW c \in Call, NEW phase \in {"returned", "thrown"}, NEW val \in Cache
  PROVE  SameCall(c, finished(c, phase, val))
BY FinishedFields DEF SameCall

(* A race goes on by one answer or failure at a time.                      *)
LEMMA RaceProgress ==
  ASSUME NEW a \in Call, Started(a), Progress(a), a.phase = "racing",
         NEW p \in a.unsettled, NEW c \in Call, SameCall(a, c), c.phase = "racing",
         c.unsettled = a.unsettled \ {p},
         Len(c.results) + c.errors = Len(a.results) + a.errors + 1
  PROVE  /\ Progress(c)
         /\ c.asked \ c.unsettled = (a.asked \ a.unsettled) \cup {p}
         /\ p \notin a.asked \ a.unsettled
<1>1. c.asked = a.asked /\ p \in a.asked /\ (Alone(c) <=> Alone(a))
  BY StartedSame DEF SameCall, Progress
<1>2. IsFiniteSet(a.asked)
  BY StartedFacts
<1>3. c.asked \ c.unsettled = (a.asked \ a.unsettled) \cup {p}
  BY <1>1
<1>4. Cardinality(c.asked \ c.unsettled) = Cardinality(a.asked \ a.unsettled) + 1
  <2>1. IsFiniteSet(a.asked \ a.unsettled)
    BY <1>2, FS_Subset
  <2>2. QED
    BY <2>1, <1>3, FS_AddElement
<1>5. Len(c.results) + c.errors = Cardinality(c.asked \ c.unsettled)
  BY <1>4 DEF Progress
<1>6. Cardinality(c.asked \ c.unsettled) <= Cardinality(c.asked)
  BY <1>1, <1>2, FS_Subset
<1> QED
  BY <1>1, <1>3, <1>5, <1>6 DEF Progress

LEMMA FinishedProgress ==
  ASSUME NEW c \in Call, Progress(c), NEW phase \in {"returned", "thrown"}, NEW val \in Cache
  PROVE  Progress(finished(c, phase, val))
BY FinishedFields DEF Progress

LEMMA BeginsProgress ==
  ASSUME NEW o \in Op, NEW n, NEW c, Begins(o, n, c)
  PROVE  /\ ~ Alone(c) => Progress(c)
         /\ Alone(c) => \A e \in Call : SameCall(c, e) /\ e.unsettled = {} /\ e.results = << >>
                                        /\ e.errors = 0 /\ e.phase = "returned" => Progress(e)
<1>1. c.unsettled = c.asked /\ Len(c.results) = 0 /\ c.errors = 0 /\ c \in Call /\ Started(c) /\ c.phase = "racing"
  BY DEF Begins
<1>2. Cardinality({}) = 0 /\ Cardinality(c.asked) \in Nat
  BY <1>1, FS_EmptySet, StartedFacts
<1>3. c.asked \ c.unsettled = {}
  BY <1>1
<1>4. ~ Alone(c) => Progress(c)
  <2>1. Len(c.results) + c.errors = 0
    BY <1>1
  <2>2. Cardinality(c.asked \ c.unsettled) = 0
    BY <1>2, <1>3
  <2>3. QED
    BY <1>1, <1>2, <2>1, <2>2 DEF Progress
<1>5. ASSUME NEW e \in Call, SameCall(c, e), e.unsettled = {}, e.results = << >>, e.errors = 0, e.phase = "returned"
      PROVE  Progress(e)
  <2>1. e.asked = c.asked /\ Len(e.results) = 0
    BY <1>5 DEF SameCall
  <2>2. QED
    BY <2>1, <1>2, <1>5 DEF Progress
<1> QED
  BY <1>4, <1>5

(* What a step makes of one call's record keeps the invariant of all.      *)
LEMMA CallUpdate ==
  ASSUME Types, CallInv, NEW o \in Op, NEW e \in Call, op' = [op EXCEPT ![o] = e],
         Started(e), Progress(e), e.phase # "idle", now' = now, e.since <= now,
         \A x \in e.before : op[x].phase = "returned", op[o].phase \in {"idle", "racing"}
  PROVE  CallInv' /\ op' \in [Op -> Call]
<1>1. op' \in [Op -> Call] /\ op'[o] = e /\ \A x \in Op : x # o => op'[x] = op[x]
  BY DEF Types
<1>2. \A x \in Op : op[x].phase = "returned" => op'[x].phase = "returned"
  BY <1>1
<1>3. \A y \in Op : op[y].before \subseteq Op
  BY CallFacts DEF Types
<1>4. e.before \subseteq Op
  BY CallFacts
<1>5. ASSUME NEW y \in Op
      PROVE  IF op'[y].phase = "idle" THEN op'[y] = Idle
             ELSE /\ Started(op'[y]) /\ Progress(op'[y]) /\ op'[y].since <= now'
                  /\ \A x \in op'[y].before : op'[x].phase = "returned"
  <2>1. CASE y = o
    BY <2>1, <1>1, <1>2, <1>4
  <2>2. CASE y # o
    BY <2>2, <1>1, <1>2, <1>3 DEF CallInv
  <2>3. QED
    BY <2>1, <2>2
<1> QED
  BY <1>1, <1>5 DEF CallInv

\* The racing call of a step that settles a request.
LEMMA SettlesFacts ==
  ASSUME KVInv, NEW o \in Op, NEW p, NEW c, Settles(o, p, c),
         Len(c.results) + c.errors = Len(op[o].results) + op[o].errors + 1
  PROVE  /\ op[o] \in Call /\ op[o].phase = "racing" /\ Started(op[o]) /\ Progress(op[o])
         /\ op[o].since <= now /\ \A x \in op[o].before : op[x].phase = "returned"
         /\ c \in Call /\ SameCall(op[o], c) /\ c.phase = "racing" /\ Started(c) /\ Progress(c)
         /\ c.asked \ c.unsettled = (op[o].asked \ op[o].unsettled) \cup {p}
         /\ p \in op[o].asked /\ p \notin op[o].asked \ op[o].unsettled
         /\ \/ RacesOn(o, c)
            \/ \E own \in Cache, phase \in {"returned", "thrown"}, val \in Cache :
                 EndsWith(o, c, own, phase, val)
<1>1. /\ op[o] \in Call /\ p \in op[o].unsettled /\ c \in Call /\ SameCall(op[o], c)
      /\ c.phase = op[o].phase /\ c.unsettled = op[o].unsettled \ {p} /\ afterSettle(o, c)
  BY DEF KVInv, Types, Settles
<1>2. op[o].phase # "idle"
  BY <1>1 DEF KVInv, CallInv, Idle
<1>3. /\ Started(op[o]) /\ Progress(op[o])
      /\ op[o].since <= now /\ \A x \in op[o].before : op[x].phase = "returned"
  BY <1>2 DEF KVInv, CallInv
<1>4. op[o].phase = "racing"
  BY <1>1, <1>3, CallFacts DEF Progress
<1>5. Started(c)
  BY <1>1, <1>3, StartedSame
<1>6. /\ Progress(c) /\ p \notin op[o].asked \ op[o].unsettled
      /\ c.asked \ c.unsettled = (op[o].asked \ op[o].unsettled) \cup {p}
  BY <1>1, <1>3, <1>4, RaceProgress
<1>7. p \in op[o].asked
  BY <1>1, <1>3 DEF Progress
<1>8. \/ RacesOn(o, c)
      \/ \E own \in Cache, phase \in {"returned", "thrown"}, val \in Cache :
           EndsWith(o, c, own, phase, val)
  <2>1. c.kind \in Kinds
    BY <1>5 DEF Started
  <2>2. QED
    BY <2>1, <1>1, SettleCases DEF KVInv
<1> QED
  BY <1>1, <1>3, <1>4, <1>5, <1>6, <1>7, <1>8

(* An answer and a failure each settle one request.                        *)
LEMMA AnswersCount ==
  ASSUME KVInv, NEW r, NEW c, Answers(r, c)
  PROVE  /\ r \in replies /\ r.op \in Op /\ r.payload \in Cache
         /\ Settles(r.op, r.from, c) /\ c.errors = op[r.op].errors
         /\ Len(c.results) = Len(op[r.op].results) + 1
         /\ Len(c.results) + c.errors = Len(op[r.op].results) + op[r.op].errors + 1
         /\ c.results[Len(c.results)] = r.payload
         /\ \A i \in 1 .. Len(op[r.op].results) : c.results[i] = op[r.op].results[i]
<1> DEFINE s == op[r.op].results
<1>1. /\ r \in replies /\ r.op \in Op /\ r.payload \in Cache /\ Settles(r.op, r.from, c)
      /\ c.errors = op[r.op].errors /\ c.results = Append(s, r.payload)
  BY DEF Answers
<1>2. s \in Seq(Cache) /\ op[r.op].errors \in Nat
  BY <1>1, CallFacts DEF KVInv, Types
<1> HIDE DEF s
<1>3. /\ Len(c.results) = Len(s) + 1 /\ c.results[Len(s) + 1] = r.payload
      /\ \A i \in 1 .. Len(s) : c.results[i] = s[i]
  BY <1>1, <1>2
<1>4. Len(s) \in Nat
  BY <1>2
<1>5. Len(c.results) + c.errors = Len(s) + op[r.op].errors + 1
  <2> DEFINE n == Len(s)
             m == op[r.op].errors
  <2>1. n \in Nat /\ m \in Nat /\ Len(c.results) = n + 1 /\ c.errors = m
    BY <1>1, <1>2, <1>3, <1>4
  <2> HIDE DEF n, m
  <2>2. Len(c.results) + c.errors = n + m + 1
    BY <2>1
  <2>3. QED
    BY <2>2 DEF n, m
<1> QED
  BY <1>1, <1>3, <1>5 DEF s

LEMMA FailsCount ==
  ASSUME KVInv, NEW o \in Op, NEW p, NEW c, Fails(o, p, c)
  PROVE  Len(c.results) + c.errors = Len(op[o].results) + op[o].errors + 1
<1>1. Len(op[o].results) \in Nat /\ op[o].errors \in Nat
  BY CallFacts DEF KVInv, Types
<1> QED
  BY <1>1 DEF Fails

(* A step that settles a request keeps the types.                          *)
LEMMA SettlesType ==
  ASSUME KVInv, NEW o \in Op, NEW p, NEW c, Settles(o, p, c),
         Len(c.results) + c.errors = Len(op[o].results) + op[o].errors + 1
  PROVE  /\ store' \in [Node -> Cache] /\ op' \in [Op -> Call] /\ CallInv'
         /\ \A x \in Op : op'[x].asked = op[x].asked
<1>1. /\ op[o] \in Call /\ op[o].phase = "racing" /\ SameCall(op[o], c)
      /\ op[o].since <= now /\ \A x \in op[o].before : op[x].phase = "returned"
      /\ c \in Call /\ c.phase = "racing" /\ Started(c) /\ Progress(c)
      /\ \/ RacesOn(o, c)
         \/ \E own \in Cache, phase \in {"returned", "thrown"}, val \in Cache :
              EndsWith(o, c, own, phase, val)
  BY SettlesFacts
<1>2. /\ c.since <= now /\ \A x \in c.before : op[x].phase = "returned"
  BY <1>1 DEF SameCall
<1>3. now' = now
  BY DEF Settles
<1>4. c.asked = op[o].asked
  BY <1>1 DEF SameCall
<1>5. Types /\ CallInv /\ store \in [Node -> Cache] /\ op \in [Op -> Call]
  BY DEF KVInv, Types
<1>6. CASE RacesOn(o, c)
  <2>1. op' = [op EXCEPT ![o] = c] /\ store' = store
    BY <1>6 DEF RacesOn
  <2>2. CallInv' /\ op' \in [Op -> Call]
    BY <1>1, <1>2, <1>3, <1>5, <2>1, CallUpdate
  <2>3. QED
    BY <2>1, <2>2, <1>4, <1>5
<1>7. ASSUME NEW own \in Cache, NEW phase \in {"returned", "thrown"}, NEW val \in Cache,
             EndsWith(o, c, own, phase, val)
      PROVE  /\ store' \in [Node -> Cache] /\ op' \in [Op -> Call] /\ CallInv'
             /\ \A x \in Op : op'[x].asked = op[x].asked
  <2> DEFINE e == finished(c, phase, val)
  <2>1. op' = [op EXCEPT ![o] = e]
    BY <1>7 DEF EndsWith
  <2>2. /\ e \in Call /\ e.phase = phase /\ e.since = c.since /\ e.before = c.before
        /\ e.asked = c.asked /\ SameCall(c, e) /\ Progress(e)
    <3>1. c \in Call /\ Progress(c)
      BY <1>1
    <3>2. SameCall(c, e) /\ Progress(e)
      BY <3>1, FinishedSame, FinishedProgress
    <3>3. e \in Call /\ e.phase = phase
      <4>1. e \in Call
        BY <3>1, FinishedType
      <4>2. e.phase = phase
        BY <3>1, FinishedFields
      <4>3. QED
        BY <4>1, <4>2
    <3>4. e.since = c.since /\ e.before = c.before /\ e.asked = c.asked
      BY <3>2 DEF SameCall
    <3>5. QED
      BY <3>2, <3>3, <3>4
  <2> HIDE DEF e
  <2>3. Started(e)
    BY <1>1, <2>2, StartedSame
  <2>4. CallInv' /\ op' \in [Op -> Call]
    BY <1>1, <1>2, <1>3, <1>5, <2>1, <2>2, <2>3, CallUpdate
  <2>5. store' \in [Node -> Cache]
    <3>1. CASE store' = store
      BY <3>1, <1>5
    <3>2. ASSUME NEW n \in c.at, store' = [store EXCEPT ![n] = effect(c, n)]
          PROVE  store' \in [Node -> Cache]
      <4>1. n \in Node /\ c.kind \in Kinds
        BY <1>1, CallFacts DEF Started
      <4>2. effect(c, n) \in Cache
        BY <4>1, <1>1, <1>5, CommandType
      <4>3. QED
        BY <4>2, <3>2, <1>5
    <3>3. QED
      BY <3>1, <3>2, <1>7 DEF EndsWith
  <2>6. QED
    BY <2>1, <2>2, <2>4, <2>5, <1>4, <1>5
<1> QED
  BY <1>1, <1>6, <1>7

LEMMA BeginsType ==
  ASSUME KVInv, NEW o \in Op, NEW n \in Node, NEW c \in Call, Begins(o, n, c)
  PROVE  KVInv'
<1>1. /\ op[o].phase = "idle" /\ Started(c) /\ c.phase = "racing"
      /\ c.results = << >> /\ c.errors = 0 /\ c.since = now /\ c.before = {x \in Op : op[x].phase = "returned"}
      /\ torun' = torun \cup ({o} \X c.asked) /\ replies' = replies /\ now' = now
  BY DEF Begins
<1>2. Types /\ CallInv /\ store \in [Node -> Cache] /\ op \in [Op -> Call] /\ now \in Nat
  BY NowFacts DEF KVInv, Types
<1>3. op[o] = Idle
  BY <1>1, <1>2 DEF CallInv
<1>4. \E e \in Call : /\ op' = [op EXCEPT ![o] = e] /\ Started(e) /\ Progress(e) /\ e.phase # "idle"
                      /\ e.since = now /\ e.before = c.before /\ e.asked = c.asked
  <2>1. CASE ~ Alone(c)
    <3>1. op' = [op EXCEPT ![o] = c] /\ Progress(c)
      BY <2>1, BeginsProgress DEF Begins
    <3>2. QED
      BY <3>1, <1>1
  <2>2. CASE Alone(c)
    <3> DEFINE val == returned(c, n)
               e == finished(c, "returned", val)
    <3>1. val \in Cache
      BY <1>1, <1>2, CommandType DEF Started
    <3> HIDE DEF val
    <3>2. /\ e \in Call /\ e.phase = "returned" /\ e.unsettled = {} /\ e.results = << >> /\ e.errors = 0
          /\ e.since = c.since /\ e.before = c.before /\ e.asked = c.asked /\ SameCall(c, e)
      BY <1>1, <3>1, FinishedType, FinishedFields, FinishedSame
    <3>3. op' = [op EXCEPT ![o] = e]
      BY <2>2 DEF Begins, val
    <3> HIDE DEF e
    <3>4. Progress(e)
      BY <2>2, <3>2, BeginsProgress
    <3>5. Started(e)
      BY <1>1, <3>2, StartedSame
    <3>6. QED
      BY <1>1, <3>2, <3>3, <3>4, <3>5
  <2>3. QED
    BY <2>1, <2>2
<1>5. PICK e \in Call : /\ op' = [op EXCEPT ![o] = e] /\ Started(e) /\ Progress(e) /\ e.phase # "idle"
                        /\ e.since = now /\ e.before = c.before /\ e.asked = c.asked
  BY <1>4
<1>6. CallInv' /\ op' \in [Op -> Call]
  <2>1. e.since <= now /\ \A x \in e.before : op[x].phase = "returned"
    BY <1>1, <1>2, <1>5
  <2>2. now' = now /\ op[o].phase \in {"idle", "racing"} /\ Types /\ CallInv
    BY <1>1, <1>2
  <2>3. QED
    BY <1>5, <2>1, <2>2, CallUpdate
<1>7. store' \in [Node -> Cache]
  <2>1. effect(c, n) \in Cache
    BY <1>1, <1>2, CommandType DEF Started
  <2>2. QED
    BY <2>1, <1>2 DEF Begins
<1>8. c.asked \subseteq Node
  BY CallFacts
<1>9. Types'
  BY <1>1, <1>2, <1>6, <1>7, <1>8 DEF Types
<1>10. \A x \in Op : op'[x].asked = IF x = o THEN c.asked ELSE op[x].asked
  BY <1>2, <1>5
<1>11. op[o].asked = {}
  BY <1>3 DEF Idle
<1>12. Asked'
  BY <1>1, <1>2, <1>10, <1>11 DEF KVInv, Asked, Types, Reply
<1> QED
  BY <1>6, <1>9, <1>12 DEF KVInv

LEMMA RunsType ==
  ASSUME KVInv, NEW o \in Op, NEW p \in Node, Runs(o, p)
  PROVE  KVInv'
<1>1. /\ Types /\ CallInv /\ Asked /\ store \in [Node -> Cache] /\ op \in [Op -> Call]
  BY DEF KVInv, Types
<1>2. /\ <<o, p>> \in torun /\ p \in op[o].asked /\ op' = op /\ now' = now
      /\ store' = [store EXCEPT ![p] = effect(op[o], p)] /\ torun' \subseteq torun
      /\ \/ replies' = replies
         \/ replies' = replies \cup {[op |-> o, from |-> p, payload |-> returned(op[o], p)]}
  BY <1>1 DEF Runs, Asked
<1>3. op[o].kind \in Kinds
  <2>1. op[o].phase # "idle"
    BY <1>1, <1>2 DEF CallInv, Idle
  <2>2. QED
    BY <1>1, <2>1 DEF CallInv, Started
<1>4. effect(op[o], p) \in Cache /\ returned(op[o], p) \in Cache
  BY <1>1, <1>3, CommandType
<1>5. store' \in [Node -> Cache]
  BY <1>1, <1>2, <1>4
<1>6. replies' \subseteq Reply
  BY <1>1, <1>2, <1>4 DEF Types, Reply
<1>7. Types'
  BY <1>1, <1>2, <1>5, <1>6 DEF Types
<1>8. CallInv'
  BY <1>1, <1>2 DEF CallInv
<1>9. Asked'
  BY <1>1, <1>2 DEF Asked
<1> QED
  BY <1>7, <1>8, <1>9 DEF KVInv

LEMMA KVInvStep ==
  ASSUME KVInv, [Next]_vars
  PROVE  KVInv'
<1>1. Types
  BY DEF KVInv
<1>2. CASE \E o \in Op, n \in Node, c \in Call : Begins(o, n, c)
  BY <1>2, BeginsType
<1>3. CASE \E o \in Op, p \in Node : Runs(o, p)
  BY <1>3, RunsType
<1>4. ASSUME NEW o \in Op, NEW p, NEW c, Settles(o, p, c),
             Len(c.results) + c.errors = Len(op[o].results) + op[o].errors + 1,
             torun' \subseteq torun, replies' \subseteq replies
      PROVE  KVInv'
  <2>1. /\ store' \in [Node -> Cache] /\ op' \in [Op -> Call] /\ CallInv'
        /\ \A x \in Op : op'[x].asked = op[x].asked
    BY <1>4, SettlesType
  <2>2. Types'
    BY <1>1, <1>4, <2>1 DEF Types, Settles
  <2>3. Asked'
    BY <1>1, <1>4, <2>1 DEF KVInv, Asked, Types, Reply
  <2>4. QED
    BY <2>1, <2>2, <2>3 DEF KVInv
<1>5. ASSUME NEW r \in replies, NEW c \in Call, Answers(r, c) PROVE KVInv'
  BY <1>4, <1>5, AnswersCount DEF Answers
<1>6. ASSUME NEW o \in Op, NEW p \in Node, NEW c \in Call, Fails(o, p, c) PROVE KVInv'
  BY <1>4, <1>6, FailsCount DEF Fails
<1>7. CASE /\ op' = op /\ store' = store /\ torun' = torun /\ replies' \subseteq replies
           /\ now' = now \/ (now < MaxTime /\ now' = now + 1)
  <2>1. now' \in Epoch .. Max({Epoch, MaxTime}) /\ now <= now' /\ now' \in Nat
    <3>1. Max({Epoch, MaxTime}) \in Nat /\ Max({Epoch, MaxTime}) >= MaxTime
      BY MaxPair, KVAssumption
    <3>2. QED
      BY <1>1, <1>7, <3>1, NowFacts, KVAssumption DEF Types
  <2>2. Types'
    BY <1>1, <1>7, <2>1 DEF Types
  <2>3. \A o \in Op : op[o].since \in Nat
    BY <1>1, CallFacts DEF Types
  <2>4. CallInv'
    BY <1>1, <1>7, <2>1, <2>3, NowFacts DEF KVInv, CallInv
  <2>5. Asked'
    BY <1>7 DEF KVInv, Asked
  <2>6. QED
    BY <2>2, <2>4, <2>5 DEF KVInv
<1> QED
  BY <1>1, <1>2, <1>3, <1>5, <1>6, <1>7, StepCases

LEMMA KVInvHolds == Spec => []KVInv
<1>1. Init => KVInv
  <2> SUFFICES ASSUME Init PROVE KVInv
    OBVIOUS
  <2>1. Idle \in Call /\ Idle.phase = "idle"
    BY EmptyCache DEF Idle, Call
  <2>2. Epoch \in Epoch .. Max({Epoch, MaxTime})
    BY MaxPair, KVAssumption
  <2>3. Types
    BY <2>1, <2>2, EmptyCache DEF Init, Types
  <2>4. QED
    BY <2>1, <2>3 DEF Init, KVInv, CallInv, Asked
<1>2. KVInv /\ [Next]_vars => KVInv'
  BY KVInvStep
<1> QED
  BY <1>1, <1>2, PTL DEF Spec

(* The type invariant, for any nodes, calls and clocks.                    *)
THEOREM KVTypeCorrect == Spec => []TypeOK
<1>1. KVInv => TypeOK
  <2> SUFFICES ASSUME KVInv PROVE TypeOK
    OBVIOUS
  <2>1. Types /\ CallInv /\ Asked
    BY DEF KVInv
  <2>2. ASSUME NEW n \in Node PROVE store[n] \subseteq CacheItem /\ Cardinality(store[n]) <= 1
    <3>1. store[n] \in Cache
      BY <2>1 DEF Types
    <3>2. CASE store[n] = {}
      BY <3>2, FS_EmptySet
    <3>3. CASE store[n] # {}
      <4>1. PICK v \in store[n] : store[n] = {v}
        BY <3>1, <3>3 DEF Cache
      <4>2. Cardinality(store[n]) = 1
        BY <4>1, FS_Singleton
      <4>3. QED
        BY <3>1, <4>2 DEF Cache
    <3>4. QED
      BY <3>2, <3>3
  <2>3. ASSUME NEW o \in Op
        PROVE  /\ op[o].phase \in {"idle", "racing", "returned", "thrown"}
               /\ op[o].replicas \in Lists \cup {{}}
               /\ op[o].unsettled \subseteq op[o].asked /\ op[o].asked \subseteq op[o].replicas
               /\ Len(op[o].results) + op[o].errors <= Cardinality(op[o].asked)
               /\ op[o].payload \cup op[o].value \subseteq CacheItem
    <3>1. op[o] \in Call
      BY <2>1 DEF Types
    <3>2. op[o].payload \in Cache /\ op[o].value \in Cache
      BY <3>1, CallFacts
    <3>3. op[o].phase \in {"idle", "racing", "returned", "thrown"}
      BY <3>1, CallFacts
    <3>4. CASE op[o].phase = "idle"
      <4>1. op[o] = Idle
        BY <2>1, <3>4 DEF CallInv
      <4>2. Len(<< >>) + 0 <= Cardinality({})
        BY FS_EmptySet
      <4>3. QED
        BY <4>1, <4>2 DEF Idle
    <3>5. CASE op[o].phase # "idle"
      <4>1. Started(op[o]) /\ Progress(op[o])
        BY <2>1, <3>5 DEF CallInv
      <4>2. QED
        BY <3>1, <3>2, <3>3, <4>1, StartedFacts DEF Started, Progress, Cache
    <3>6. QED
      BY <3>4, <3>5
  <2>4. torun \subseteq Op \X Node /\ \A call \in torun : call[2] \in op[call[1]].asked
    BY <2>1 DEF Types, Asked
  <2>5. \A r \in replies : r.op \in Op /\ r.from \in op[r.op].asked
    BY <2>1 DEF Types, Asked, Reply
  <2>6. now \in Epoch .. Max({Epoch, MaxTime})
    BY <2>1 DEF Types
  <2>7. QED
    BY <2>2, <2>3, <2>4, <2>5, <2>6 DEF TypeOK
<1> QED
  BY <1>1, KVInvHolds, PTL

-----------------------------------------------------------------------------
(* Caches only get newer *)

(* What a command leaves at n, and returns, when nothing has a ttl.        *)
LEMMA CommandFacts ==
  ASSUME Types, Lasting, NEW c \in Call, Started(c), Forever(c.payload), NEW n \in Node, Forever(store[n])
  PROVE  /\ \A t \in Nat : Covers(store[n], t) => Covers(effect(c, n), t)
         /\ c.kind = "set" => \A t \in Nat : Covers(c.payload, t) => Covers(effect(c, n), t)
         /\ c.kind = "delete" /\ store[n] # {} => \A t \in Nat : now >= t => Covers(effect(c, n), t)
         /\ \A w \in effect(c, n) : \/ w \in store[n] \/ w \in c.payload
                                    \/ w.item = Deleted /\ w.ttl = NoTtl /\ "delete" \in Kinds
         /\ returned(c, n) = IF c.kind = "get" THEN store[n] ELSE {}
<1>1. store[n] \in Cache /\ clock(n) \in Nat /\ clock(n) >= now /\ now \in Nat /\ c.payload \in Cache
  BY NowFacts, CallFacts DEF Types
<1>2. get(store[n], clock(n)) = store[n]
  BY GetKeeps
<1>3. returned(c, n) = IF c.kind = "get" THEN store[n] ELSE {}
  BY <1>2 DEF returned
<1>4. CASE c.kind = "set"
  <2>1. PICK v \in c.payload : c.payload = {v} /\ v \in CacheItem /\ v.ttl = NoTtl
    BY <1>1, <1>4 DEF Started, Cache, Forever
  <2>2. effect(c, n) = set(store[n], v, clock(n))
    BY <1>4, <2>1 DEF effect
  <2>3. /\ \A k \in Nat : Covers(store[n], k) \/ v.updatedAt >= k => Covers(effect(c, n), k)
        /\ \A w \in effect(c, n) : w \in store[n] \/ w = v
    BY <1>1, <2>1, <2>2, SetNewer
  <2>4. \A k \in Nat : Covers(c.payload, k) => v.updatedAt >= k
    BY <2>1 DEF Covers
  <2>5. QED
    BY <1>3, <1>4, <2>1, <2>3, <2>4
<1>5. CASE c.kind = "get"
  BY <1>2, <1>3, <1>5 DEF effect
<1>6. CASE c.kind = "delete"
  <2>1. Tombstone /\ "delete" \in Kinds
    BY <1>6 DEF Lasting, Started
  <2>2. effect(c, n) = delete(store[n], clock(n), FALSE)
    BY <1>6 DEF effect
  <2>3. /\ \A k \in Nat : Covers(store[n], k) \/ (store[n] # {} /\ clock(n) >= k) => Covers(effect(c, n), k)
        /\ \A w \in effect(c, n) :
             w \in store[n] \/ w = [item |-> Deleted, updatedAt |-> clock(n), ttl |-> NoTtl]
    BY <1>1, <2>1, <2>2, DeleteNewer
  <2>4. \A k \in Nat : now >= k => clock(n) >= k
    BY <1>1
  <2>5. QED
    BY <1>3, <1>6, <2>1, <2>3, <2>4
<1> QED
  BY <1>4, <1>5, <1>6, StartedFacts

(* A call begins once, keeps its terms while it races, and never changes   *)
(* when it has ended.                                                      *)
LEMMA CallSteps ==
  ASSUME KVInv, [Next]_vars, NEW o \in Op
  PROVE  \/ op'[o] = op[o]
         \/ op[o].phase = "idle" /\ op[o].payload = {} /\ op'[o].phase # "idle"
         \/ /\ op[o].phase = "racing" /\ SameCall(op[o], op'[o])
            /\ op'[o].phase # "idle" /\ op'[o].errors >= op[o].errors
<1> DEFINE P == \/ op'[o] = op[o]
                \/ op[o].phase = "idle" /\ op[o].payload = {} /\ op'[o].phase # "idle"
                \/ /\ op[o].phase = "racing" /\ SameCall(op[o], op'[o])
                   /\ op'[o].phase # "idle" /\ op'[o].errors >= op[o].errors
<1>1. Types /\ op \in [Op -> Call] /\ op[o] \in Call
  BY DEF KVInv, Types
<1>2. ASSUME NEW x \in Op, NEW n \in Node, NEW c \in Call, Begins(x, n, c) PROVE P
  <2>1. CASE x # o
    BY <1>1, <1>2, <2>1 DEF Begins
  <2>2. CASE x = o
    <3>1. op[o] = Idle /\ op[o].phase = "idle" /\ c.phase = "racing" /\ Started(c)
      BY <1>2, <2>2 DEF Begins, KVInv, CallInv
    <3>2. returned(c, n) \in Cache
      BY <1>1, <3>1, CommandType DEF Started
    <3>3. op'[o].phase # "idle"
      BY <1>1, <1>2, <2>2, <3>1, <3>2, FinishedType, FinishedFields DEF Begins
    <3>4. QED
      BY <3>1, <3>3 DEF Idle
  <2>3. QED
    BY <2>1, <2>2
<1>3. ASSUME NEW x \in Op, NEW p, NEW c, Settles(x, p, c), c.errors >= op[x].errors,
             Len(c.results) + c.errors = Len(op[x].results) + op[x].errors + 1
      PROVE  P
  <2>1. /\ op[x].phase = "racing" /\ SameCall(op[x], c) /\ c \in Call /\ c.phase = "racing"
        /\ \/ RacesOn(x, c)
           \/ \E own \in Cache, phase \in {"returned", "thrown"}, val \in Cache :
                EndsWith(x, c, own, phase, val)
    BY <1>3, SettlesFacts
  <2>2. CASE RacesOn(x, c)
    BY <1>1, <1>3, <2>1, <2>2 DEF RacesOn
  <2>3. ASSUME NEW own \in Cache, NEW phase \in {"returned", "thrown"}, NEW val \in Cache,
               EndsWith(x, c, own, phase, val)
        PROVE  P
    <3> DEFINE e == finished(c, phase, val)
    <3>1. op' = [op EXCEPT ![x] = e]
      BY <2>3 DEF EndsWith
    <3>2. SameCall(c, e) /\ e.phase = phase /\ e.errors = c.errors
      <4>1. c \in Call
        BY <2>1
      <4>2. SameCall(c, e)
        BY <4>1, FinishedSame
      <4>3. QED
        BY <4>1, <4>2, FinishedType, FinishedFields
    <3> HIDE DEF e
    <3>3. SameCall(op[x], e)
      BY <2>1, <3>2 DEF SameCall
    <3>4. QED
      BY <1>1, <1>3, <2>1, <3>1, <3>2, <3>3
  <2>4. QED
    BY <2>1, <2>2, <2>3
<1>4. ASSUME NEW r \in replies, NEW c \in Call, Answers(r, c) PROVE P
  <2>1. r.op \in Op /\ op[r.op].errors \in Nat
    BY <1>1, <1>4, AnswersCount, CallFacts DEF KVInv, Types
  <2>2. QED
    BY <1>3, <1>4, <2>1, AnswersCount
<1>5. ASSUME NEW x \in Op, NEW p \in Node, NEW c \in Call, Fails(x, p, c) PROVE P
  <2>1. op[x].errors \in Nat
    BY CallFacts DEF KVInv, Types
  <2>2. QED
    BY <1>3, <1>5, <2>1, FailsCount DEF Fails
<1>6. ASSUME op' = op PROVE P
  BY <1>6
<1> QED
  BY <1>1, <1>2, <1>4, <1>5, <1>6, StepCases DEF Runs

LEMMA ItemKept ==
  ASSUME KVInv, [Next]_vars
  PROVE  \A v : Item(v) => Item(v)'
<1>1. \A o \in Op : op[o].payload = {} \/ op'[o].payload = op[o].payload
  BY CallSteps DEF SameCall
<1> QED
  BY <1>1 DEF Item

\* A store changes by a command whose update, if it has one, belongs to a call.
LEMMA StoreSteps ==
  ASSUME KVInv, ItemInv, Lasting, [Next]_vars, NEW n \in Node
  PROVE  \/ store'[n] = store[n]
         \/ \E c \in Call : /\ Started(c) /\ store'[n] = effect(c, n)
                            /\ Forever(c.payload) /\ \A v \in c.payload : Item(v)'
<1> DEFINE P == \/ store'[n] = store[n]
                \/ \E c \in Call : /\ Started(c) /\ store'[n] = effect(c, n)
                                   /\ Forever(c.payload) /\ \A v \in c.payload : Item(v)'
<1>1. Types /\ store \in [Node -> Cache] /\ op \in [Op -> Call]
  BY DEF KVInv, Types
<1>2. ASSUME NEW o \in Op, NEW c \in Call, SameCall(op[o], c) PROVE Forever(c.payload) /\ \A v \in c.payload : Item(v)'
  <2>1. c.payload = op[o].payload
    BY <1>2 DEF SameCall
  <2>2. \A v \in c.payload : v.item = o /\ v.ttl = NoTtl
    BY <2>1 DEF ItemInv
  <2>3. \A v \in c.payload : Item(v)
    BY <2>1, <2>2 DEF Item
  <2>4. QED
    BY <2>2, <2>3, ItemKept DEF Forever
<1>3. ASSUME NEW o \in Op, NEW m \in Node, NEW c \in Call, Begins(o, m, c) PROVE P
  <2>1. CASE ~ Alone(c) \/ m # n
    BY <1>1, <1>3, <2>1 DEF Begins
  <2>2. CASE Alone(c) /\ m = n
    <3>1. store'[n] = effect(c, n) /\ Started(c)
      BY <1>1, <1>3, <2>2 DEF Begins
    <3>2. \A v \in c.payload : v.item = o /\ v.ttl = NoTtl
      BY <1>3 DEF Begins, Lasting
    <3>3. op'[o].payload = c.payload
      <4>1. returned(c, n) \in Cache
        BY <1>1, <3>1, CommandType DEF Started
      <4>2. finished(c, "returned", returned(c, n)).payload = c.payload
        BY <4>1, FinishedFields
      <4>3. op'[o] = finished(c, "returned", returned(c, n))
        BY <1>1, <1>3, <2>2 DEF Begins
      <4>4. QED
        BY <4>2, <4>3
    <3>4. \A v \in c.payload : Item(v)'
      BY <3>2, <3>3 DEF Item
    <3>5. QED
      BY <3>1, <3>2, <3>4 DEF Forever
  <2>3. QED
    BY <2>1, <2>2
<1>4. ASSUME NEW o \in Op, NEW p \in Node, Runs(o, p) PROVE P
  <2>1. CASE p # n
    BY <1>1, <1>4, <2>1 DEF Runs
  <2>2. CASE p = n
    <3>1. op[o] \in Call /\ store'[n] = effect(op[o], n) /\ <<o, n>> \in torun
      BY <1>1, <1>4, <2>2 DEF Runs
    <3>2. op[o].phase # "idle"
      BY <3>1 DEF KVInv, Asked, CallInv, Idle
    <3>3. Started(op[o])
      BY <3>2 DEF KVInv, CallInv
    <3>4. SameCall(op[o], op[o])
      BY DEF SameCall
    <3>5. QED
      BY <1>2, <3>1, <3>3, <3>4
  <2>3. QED
    BY <2>1, <2>2
<1>5. ASSUME NEW o \in Op, NEW p, NEW c, Settles(o, p, c),
             Len(c.results) + c.errors = Len(op[o].results) + op[o].errors + 1
      PROVE  P
  <2>1. /\ SameCall(op[o], c) /\ c \in Call /\ Started(c)
        /\ \/ RacesOn(o, c)
           \/ \E own \in Cache, phase \in {"returned", "thrown"}, val \in Cache :
                EndsWith(o, c, own, phase, val)
    BY <1>5, SettlesFacts
  <2>2. CASE store' = store
    BY <2>2
  <2>3. ASSUME NEW m \in c.at, store' = [store EXCEPT ![m] = effect(c, m)] PROVE P
    <3>1. CASE m # n
      BY <1>1, <2>3, <3>1
    <3>2. CASE m = n
      <4>1. store'[n] = effect(c, n)
        BY <1>1, <2>3, <3>2
      <4>2. QED
        BY <4>1, <2>1, <1>2
    <3>3. QED
      BY <3>1, <3>2
  <2>4. QED
    BY <2>1, <2>2, <2>3 DEF RacesOn, EndsWith
<1>6. ASSUME NEW r \in replies, NEW c \in Call, Answers(r, c) PROVE P
  BY <1>5, <1>6, AnswersCount
<1>7. ASSUME NEW o \in Op, NEW p \in Node, NEW c \in Call, Fails(o, p, c) PROVE P
  BY <1>5, <1>7, FailsCount DEF Fails
<1>8. ASSUME store' = store PROVE P
  BY <1>8
<1> QED
  BY <1>1, <1>3, <1>4, <1>6, <1>7, <1>8, StepCases

(* So no cache ever gets older.                                            *)
LEMMA StoresGrow ==
  ASSUME KVInv, ItemInv, Lasting, [Next]_vars, NEW p \in Node, NEW t \in Nat, Covers(store[p], t)
  PROVE  Covers(store'[p], t)
<1>1. CASE store'[p] = store[p]
  BY <1>1
<1>2. ASSUME NEW c \in Call, Started(c), store'[p] = effect(c, p), Forever(c.payload)
      PROVE  Covers(store'[p], t)
  <2>1. Forever(store[p])
    BY DEF ItemInv, Items, Item, Forever
  <2>2. QED
    BY <1>2, <2>1, CommandFacts DEF KVInv
<1> QED
  BY <1>1, <1>2, StoreSteps

LEMMA ItemInvStep ==
  ASSUME KVInv, ItemInv, Lasting, [Next]_vars
  PROVE  ItemInv'
<1>1. Types /\ store \in [Node -> Cache] /\ op \in [Op -> Call] /\ \A o \in Op : op[o] \in Call
  BY DEF KVInv, Types
<1>2. \A v : Item(v) => Item(v)'
  BY ItemKept
<1>3. ASSUME NEW n \in Node, NEW w \in store'[n] PROVE Item(w)'
  <2>1. CASE w \in store[n]
    BY <2>1, <1>2 DEF ItemInv, Items
  <2>2. ASSUME NEW c \in Call, Started(c), store'[n] = effect(c, n),
               Forever(c.payload), \A v \in c.payload : Item(v)'
        PROVE  Item(w)'
    <3>1. Forever(store[n])
      BY DEF ItemInv, Items, Item, Forever
    <3>2. \/ w \in store[n] \/ w \in c.payload
          \/ w.item = Deleted /\ w.ttl = NoTtl /\ "delete" \in Kinds
      BY <1>1, <2>2, <3>1, CommandFacts
    <3>3. CASE w.item = Deleted /\ w.ttl = NoTtl /\ "delete" \in Kinds
      BY <3>3 DEF Item
    <3>4. QED
      BY <2>1, <2>2, <3>2, <3>3
  <2>3. QED
    BY <2>1, <2>2, StoreSteps
<1> DEFINE P == /\ \A r \in replies' : \A v \in r.payload : Item(v)'
                /\ \A o \in Op : \A v \in op'[o].payload : v.item = o /\ v.ttl = NoTtl
                /\ \A o \in Op : \A i \in 1 .. Len(op'[o].results) : \A v \in op'[o].results[i] : Item(v)'
                /\ \A o \in Op : \A v \in op'[o].value : Item(v)'
<1>4. \A r \in replies : \A v \in r.payload : Item(v)'
  BY <1>2 DEF ItemInv, Items
<1>5. /\ \A o \in Op : \A i \in 1 .. Len(op[o].results) : \A v \in op[o].results[i] : Item(v)'
      /\ \A o \in Op : \A v \in op[o].value : Item(v)'
  BY <1>2 DEF ItemInv, Items
<1>6. \A c, n : \A v \in returned(c, n) : v \in store[n]
  BY DEF returned, get
<1>7. \A val : \A v \in plain(val) : v \in val
  BY DEF plain
<1>8. ASSUME NEW o \in Op, NEW n \in Node, NEW c \in Call, Begins(o, n, c) PROVE P
  <2>1. c.results = << >> /\ replies' = replies /\ \A v \in c.payload : v.item = o /\ v.ttl = NoTtl
    BY <1>8 DEF Begins, Lasting
  <2>2. PICK e \in Call : /\ op' = [op EXCEPT ![o] = e] /\ e.payload = c.payload /\ e.results = << >>
                          /\ \A v \in e.value : v \in store[n]
    <3>1. returned(c, n) \in Cache /\ \A v \in plain(returned(c, n)) : v \in store[n]
      BY <1>1, <1>8, <1>6, <1>7, CommandType DEF Begins, Started
    <3>2. QED
      BY <2>1, <3>1, <1>8, FinishedType, FinishedFields DEF Begins
  <2>3. \A x \in Op : op'[x] = IF x = o THEN e ELSE op[x]
    BY <1>1, <2>2
  <2>4. \A i \in 1 .. Len(e.results) : FALSE
    BY <2>2
  <2>5. \A v \in e.value : Item(v)'
    BY <1>2, <2>2 DEF ItemInv, Items
  <2>6. QED
    BY <2>1, <2>2, <2>3, <2>4, <2>5, <1>4, <1>5 DEF ItemInv
<1>9. ASSUME NEW o \in Op, NEW p \in Node, Runs(o, p) PROVE P
  <2>1. op' = op
    BY <1>9 DEF Runs
  <2>2. \A v \in returned(op[o], p) : v \in store[p]
    BY DEF returned, get
  <2>3. \A v \in returned(op[o], p) : Item(v)'
    BY <2>2, <1>2 DEF ItemInv, Items
  <2>4. \A r \in replies' : r \in replies \/ r.payload = returned(op[o], p)
    BY <1>9 DEF Runs
  <2>5. QED
    BY <2>1, <2>3, <2>4, <1>4, <1>5 DEF ItemInv
<1>10. ASSUME NEW o \in Op, NEW p, NEW c, Settles(o, p, c), replies' \subseteq replies,
             Len(c.results) + c.errors = Len(op[o].results) + op[o].errors + 1,
             \A i \in 1 .. Len(c.results) : \A v \in c.results[i] : Item(v)'
      PROVE  P
  <2>1. /\ SameCall(op[o], c) /\ c \in Call
        /\ \/ RacesOn(o, c)
           \/ \E own \in Cache, phase \in {"returned", "thrown"}, val \in Cache :
                EndsWith(o, c, own, phase, val)
    BY <1>10, SettlesFacts
  <2>2. PICK e \in Call : /\ op' = [op EXCEPT ![o] = e] /\ e.payload = c.payload /\ e.results = c.results
                          /\ \A v \in e.value : Item(v)'
    <3>1. CASE RacesOn(o, c)
      BY <1>5, <1>10, <2>1, <3>1 DEF RacesOn, Settles
    <3>2. ASSUME NEW own \in Cache, NEW phase \in {"returned", "thrown"}, NEW val \in Cache,
                 EndsWith(o, c, own, phase, val)
          PROVE  \E e \in Call : /\ op' = [op EXCEPT ![o] = e] /\ e.payload = c.payload /\ e.results = c.results
                                 /\ \A v \in e.value : Item(v)'
      <4> DEFINE e == finished(c, phase, val)
      <4>1. /\ e \in Call /\ e.payload = c.payload /\ e.results = c.results /\ e.value = plain(val)
        <5>1. c \in Call
          BY <2>1
        <5>2. e \in Call
          BY <5>1, FinishedType
        <5>3. QED
          BY <5>1, <5>2, FinishedFields
      <4>2. op' = [op EXCEPT ![o] = e] /\ Ending(c, own, phase, val)
        BY <3>2 DEF EndsWith
      <4> HIDE DEF e
      <4>3. own = {} \/ \E n \in c.at : own = returned(c, n)
        BY <3>2 DEF EndsWith
      <4>4. \A v \in own : Item(v)'
        <5>1. \A n \in c.at : n \in Node
          BY <2>1, CallFacts
        <5>2. QED
          BY <1>2, <1>6, <4>3, <5>1 DEF ItemInv, Items
      <4>5. \A v \in val : Item(v)'
        BY <1>10, <4>2, <4>4 DEF Ending
      <4>6. QED
        BY <1>7, <4>1, <4>2, <4>5
    <3>3. QED
      BY <2>1, <3>1, <3>2
  <2>3. \A x \in Op : op'[x] = IF x = o THEN e ELSE op[x]
    BY <1>1, <2>2
  <2>4. c.payload = op[o].payload
    BY <2>1 DEF SameCall
  <2>5. QED
    BY <1>4, <1>5, <1>10, <2>2, <2>3, <2>4 DEF ItemInv
<1>11. ASSUME NEW r \in replies, NEW c \in Call, Answers(r, c) PROVE P
  <2> DEFINE s == op[r.op].results
  <2>1. /\ r.op \in Op /\ Settles(r.op, r.from, c) /\ replies' \subseteq replies
        /\ Len(c.results) + c.errors = Len(op[r.op].results) + op[r.op].errors + 1
        /\ Len(c.results) = Len(s) + 1 /\ c.results[Len(c.results)] = r.payload
        /\ \A i \in 1 .. Len(s) : c.results[i] = s[i]
    BY <1>11, AnswersCount DEF Answers
  <2>2. Len(s) \in Nat /\ \A i \in 1 .. Len(s) : \A v \in s[i] : Item(v)'
    BY <1>1, <1>5, <2>1, CallFacts
  <2>3. \A v \in r.payload : Item(v)'
    BY <1>4
  <2>4. \A i \in 1 .. Len(c.results) : i \in 1 .. Len(s) \/ i = Len(c.results)
    BY <2>1, <2>2
  <2>5. \A i \in 1 .. Len(c.results) : \A v \in c.results[i] : Item(v)'
    BY <2>1, <2>2, <2>3, <2>4
  <2>6. QED
    BY <1>10, <2>1, <2>5
<1>12. ASSUME NEW o \in Op, NEW p \in Node, NEW c \in Call, Fails(o, p, c) PROVE P
  BY <1>5, <1>10, <1>12, FailsCount DEF Fails
<1>13. ASSUME op' = op, replies' \subseteq replies PROVE P
  BY <1>4, <1>5, <1>13 DEF ItemInv
<1>14. P
  BY <1>1, <1>8, <1>9, <1>11, <1>12, <1>13, StepCases
<1> HIDE DEF P
<1> QED
  BY <1>3, <1>14 DEF P, ItemInv, Items

-----------------------------------------------------------------------------
(* What sets and deletes leave *)

LEMMA EnoughFacts ==
  ASSUME NEW c \in Call, Started(c)
  PROVE  /\ Enough(c) \in Nat /\ Enough(c) <= c.quorum /\ Enough(c) <= Cardinality(c.replicas)
<1>1. c.quorum \in Nat /\ Cardinality(c.replicas) \in Nat
  BY StartedFacts
<1> QED
  BY <1>1, MinPair DEF Enough

LEMMA HavingFacts ==
  ASSUME NEW peers, IsFiniteSet(peers), NEW t, NEW caches
  PROVE  /\ IsFiniteSet(Having(peers, t, caches)) /\ Having(peers, t, caches) \subseteq peers
         /\ Cardinality(Having(peers, t, caches)) \in Nat
         /\ Cardinality(Having(peers, t, caches)) <= Cardinality(peers)
         /\ Cardinality(Having(peers, t, caches)) = Cardinality(peers) =>
              \A p \in peers : Covers(caches[p], t)
<1>1. Having(peers, t, caches) \in SUBSET peers
  BY DEF Having
<1>2. /\ IsFiniteSet(Having(peers, t, caches))
      /\ Cardinality(Having(peers, t, caches)) <= Cardinality(peers)
      /\ Cardinality(Having(peers, t, caches)) = Cardinality(peers) => peers = Having(peers, t, caches)
  BY <1>1, FS_Subset
<1> QED
  BY <1>1, <1>2, FS_CardinalityType DEF Having

(* More peers, or newer caches: as many have an item as new as t.          *)
LEMMA HavingGrows ==
  ASSUME NEW peers, NEW more, IsFiniteSet(more), peers \subseteq more, NEW t, NEW old, NEW new,
         \A p \in peers : Covers(old[p], t) => Covers(new[p], t)
  PROVE  Cardinality(Having(peers, t, old)) <= Cardinality(Having(more, t, new))
<1>1. Having(peers, t, old) \in SUBSET Having(more, t, new)
  BY DEF Having
<1> QED
  BY <1>1, HavingFacts, FS_Subset

(* The command of a call leaves what the call leaves.                      *)
LEMMA CommandLeaves ==
  ASSUME KVInv, ItemInv, LeftInv, Lasting, NEW c \in Call, Started(c), Forever(c.payload), c.since <= now,
         \A x \in c.before : op[x].phase = "returned",
         NEW t \in Nat, Leaves(c, t, op), NEW p \in c.replicas
  PROVE  /\ Covers(effect(c, p), t) /\ returned(c, p) = {}
<1>1. Types /\ p \in Node /\ Forever(store[p]) /\ now \in Nat /\ c.since \in Nat
  BY CallFacts, NowFacts DEF KVInv, ItemInv, Items, Item, Forever
<1>2. CASE c.kind = "set"
  BY <1>1, <1>2, CommandFacts DEF Leaves
<1>3. CASE c.kind = "delete"
  <2>1. PICK o \in c.before : /\ op[o].kind = "set" /\ op[o].errors = 0
                              /\ c.replicas \subseteq op[o].replicas
                              /\ Enough(op[o]) = Cardinality(op[o].replicas)
    BY <1>3 DEF Leaves
  <2>2. o \in Op /\ op[o] \in Call /\ op[o].phase = "returned"
    BY <2>1, CallFacts DEF KVInv, Types
  <2>3. Started(op[o])
    BY <2>2 DEF KVInv, CallInv
  <2>4. PICK v \in op[o].payload : v \in CacheItem
    BY <2>1, <2>2, <2>3, CallFacts DEF Started, Cache
  <2> DEFINE u == v.updatedAt
  <2>5. u \in Nat /\ Covers(op[o].payload, u)
    BY <2>4, ItemFacts DEF Covers
  <2> HIDE DEF u
  <2>6. Left(o, op[o], u, store, replies, torun)
    BY <2>1, <2>2, <2>5 DEF Leaves, LeftInv
  <2>7. Cardinality(Having(op[o].replicas, u, store)) >= Cardinality(op[o].replicas)
    BY <2>1, <2>2, <2>6 DEF Left
  <2>8. Covers(store[p], u)
    <3>1. IsFiniteSet(op[o].replicas) /\ Cardinality(op[o].replicas) \in Nat
      BY <2>2, <2>3, StartedFacts
    <3>2. Cardinality(Having(op[o].replicas, u, store)) = Cardinality(op[o].replicas)
      BY <2>7, <3>1, HavingFacts
    <3>3. QED
      BY <2>1, <3>1, <3>2, HavingFacts
  <2>9. store[p] # {} /\ now >= t
    BY <1>1, <1>3, <2>8 DEF Covers, Leaves
  <2>10. QED
    BY <1>1, <1>3, <2>9, CommandFacts
<1> QED
  BY <1>2, <1>3 DEF Leaves

(* What a call leaves does not change after it began.                      *)
LEMMA LeavesKept ==
  ASSUME KVInv, [Next]_vars, NEW o \in Op, op[o].phase # "idle", NEW t
  PROVE  Leaves(op[o], t, op) <=> Leaves(op'[o], t, op')
<1>1. op'[o] = op[o] \/ SameCall(op[o], op'[o])
  BY CallSteps
<1>2. op[o].before \subseteq Op /\ \A x \in op[o].before : op[x].phase = "returned"
  BY CallFacts DEF KVInv, Types, CallInv
<1>3. \A x \in op[o].before : op'[x] = op[x]
  BY <1>2, CallSteps
<1> QED
  BY <1>1, <1>3 DEF SameCall, Leaves

LEMMA LeftGrows ==
  ASSUME NEW o, NEW c \in Call, Started(c), NEW t, NEW caches, NEW answers, NEW runs,
         Left(o, c, t, caches, answers, runs), NEW newer2, NEW answers2, NEW runs2,
         \A p \in Node : Covers(caches[p], t) => Covers(newer2[p], t),
         \A r \in answers : r.from \in Node,
         \A r \in answers2 : r.op = o => r \in answers \/ Covers(newer2[r.from], t),
         \A p \in c.asked : <<o, p>> \in runs => <<o, p>> \in runs2 \/ Covers(newer2[p], t)
  PROVE  Left(o, c, t, newer2, answers2, runs2)
<1>1. /\ c.replicas \subseteq Node /\ c.asked \subseteq Node /\ IsFiniteSet(c.replicas) /\ IsFiniteSet(c.asked)
      /\ Len(c.results) \in Nat /\ Enough(c) \in Nat
  BY CallFacts, StartedFacts, EnoughFacts
<1>2. IsFiniteSet(c.asked \ c.unsettled)
  BY <1>1, FS_Subset
<1>3. /\ Cardinality(Having(c.asked \ c.unsettled, t, caches)) <= Cardinality(Having(c.asked \ c.unsettled, t, newer2))
      /\ Cardinality(Having(c.replicas, t, caches)) <= Cardinality(Having(c.replicas, t, newer2))
  BY <1>1, <1>2, HavingGrows
<1>4. /\ Cardinality(Having(c.asked \ c.unsettled, t, caches)) \in Nat
      /\ Cardinality(Having(c.asked \ c.unsettled, t, newer2)) \in Nat
      /\ Cardinality(Having(c.replicas, t, caches)) \in Nat
      /\ Cardinality(Having(c.replicas, t, newer2)) \in Nat
  BY <1>1, <1>2, HavingFacts
<1>5. c.phase = "racing" => Cardinality(Having(c.asked \ c.unsettled, t, newer2)) >= Len(c.results)
  BY <1>1, <1>3, <1>4 DEF Left
<1>6. c.phase = "returned" =>
        Cardinality(Having(c.replicas, t, newer2)) >= IF c.errors = 0 THEN Enough(c) ELSE 1
  BY <1>1, <1>3, <1>4 DEF Left
<1> QED
  BY <1>1, <1>5, <1>6 DEF Left

(* A call that ends in its race has left enough.                           *)
LEMMA LeftEnds ==
  ASSUME NEW o, NEW c \in Call, Started(c), Progress(c), c.phase = "racing",
         NEW t, NEW caches, NEW answers, NEW runs, Left(o, c, t, caches, answers, runs),
         NEW phase \in {"returned", "thrown"}, NEW val \in Cache, Ending(c, {}, phase, val),
         Len(c.results) >= count(c) \/ c.unsettled = {},
         \A p \in c.at \cap c.replicas : Covers(caches[p], t)
  PROVE  Left(o, finished(c, phase, val), t, caches, answers, runs)
<1> DEFINE G == Having(c.asked \ c.unsettled, t, caches)
           R == Having(c.replicas, t, caches)
           e == finished(c, phase, val)
           k == Len(c.results)
<1>1. PICK n \in Node : c.at = {n}
  BY DEF Started
<1>2. /\ IsFiniteSet(c.replicas) /\ Cardinality(c.replicas) \in Nat /\ c.quorum \in Nat \ {0}
      /\ c.asked = c.replicas \ {n} /\ IsFiniteSet(c.asked)
  BY <1>1, StartedFacts DEF Started, Progress
<1>3. IsFiniteSet(R) /\ IsFiniteSet(G) /\ Cardinality(R) \in Nat /\ Cardinality(G) \in Nat /\ G \subseteq c.asked
  <2>1. IsFiniteSet(c.asked \ c.unsettled)
    BY <1>2, FS_Subset
  <2>2. QED
    BY <1>2, <2>1, HavingFacts
<1>4. k \in Nat /\ Cardinality(G) >= k
  BY CallFacts DEF Left
<1>5. Cardinality(R) >= Cardinality(G)
  BY <1>2, HavingGrows
<1>6. n \in c.replicas => Cardinality(R) >= Cardinality(G) + 1
  <2>1. SUFFICES ASSUME n \in c.replicas PROVE Cardinality(R) >= Cardinality(G) + 1
    OBVIOUS
  <2>2. Covers(caches[n], t) /\ n \notin G
    BY <1>1, <1>2, <1>3, <2>1
  <2>3. G \cup {n} \subseteq R
    BY <1>2, <2>1, <2>2 DEF Having
  <2>4. Cardinality(G \cup {n}) = Cardinality(G) + 1
    BY <1>3, <2>2, FS_AddElement
  <2>5. Cardinality(G \cup {n}) <= Cardinality(R)
    BY <1>3, <2>3, FS_Subset
  <2>6. QED
    BY <2>4, <2>5
<1>7. Enough(c) \in Nat /\ Enough(c) <= c.quorum /\ Enough(c) <= Cardinality(c.replicas)
  BY EnoughFacts
<1>8. c.errors = 0 => Cardinality(R) >= Enough(c)
  <2>1. SUFFICES ASSUME c.errors = 0 PROVE Cardinality(R) >= Enough(c)
    OBVIOUS
  <2>2. CASE c.unsettled = {}
    <3>1. k = Cardinality(c.asked)
      <4>1. c.asked \ c.unsettled = c.asked
        BY <2>2
      <4>2. k + 0 = Cardinality(c.asked)
        BY <2>1, <4>1 DEF Progress
      <4>3. QED
        BY <1>4, <4>2
    <3>2. Cardinality(c.asked) = IF n \in c.replicas THEN Cardinality(c.replicas) - 1
                                                     ELSE Cardinality(c.replicas)
      BY <1>2, FS_RemoveElement
    <3>3. QED
      BY <1>2, <1>3, <1>4, <1>5, <1>6, <1>7, <3>1, <3>2
  <2>3. CASE k >= count(c)
    <3>1. count(c) = IF n \in c.replicas THEN c.quorum - 1 ELSE c.quorum
      BY <1>1 DEF count, isAReplica
    <3>2. QED
      BY <1>2, <1>3, <1>4, <1>5, <1>6, <1>7, <2>3, <3>1
  <2>4. QED
    BY <2>2, <2>3
<1>9. phase = "returned" => k # 0
  BY CallFacts DEF Ending
<1>10. phase = "returned" => Cardinality(R) >= IF c.errors = 0 THEN Enough(c) ELSE 1
  BY <1>3, <1>4, <1>5, <1>8, <1>9
<1>11. /\ e.phase = phase /\ e.at = c.at /\ e.replicas = c.replicas /\ e.quorum = c.quorum
       /\ e.asked = c.asked /\ e.errors = c.errors
  BY FinishedFields
<1>12. Enough(e) = Enough(c)
  BY <1>11 DEF Enough
<1> HIDE DEF e
<1>13. e.phase # "racing"
  BY <1>11
<1> QED
  BY <1>10, <1>11, <1>12, <1>13 DEF Left, e

(* A step that does not change a call keeps what it left.                  *)
LEMMA LeftOthers ==
  ASSUME KVInv, ItemInv, LeftInv, Lasting, [Next]_vars,
         NEW x \in Op, op'[x] = op[x], NEW t \in Nat, Leaves(op'[x], t, op'),
         \A r \in replies' : r.op = x => r \in replies \/ Covers(store'[r.from], t),
         \A p \in Node : <<x, p>> \in torun => <<x, p>> \in torun' \/ Covers(store'[p], t)
  PROVE  Left(x, op'[x], t, store', replies', torun')
<1>1. op[x] \in Call /\ op[x].asked \subseteq Node
  BY CallFacts DEF KVInv, Types
<1>2. op[x].phase # "idle"
  BY DEF KVInv, CallInv, Idle, Leaves
<1>3. Started(op[x])
  BY <1>2 DEF KVInv, CallInv
<1>4. Leaves(op[x], t, op)
  BY <1>2, LeavesKept
<1>5. Left(x, op[x], t, store, replies, torun)
  BY <1>4 DEF LeftInv
<1>6. \A p \in Node : Covers(store[p], t) => Covers(store'[p], t)
  BY StoresGrow
<1>7. \A r \in replies : r.from \in Node
  BY DEF KVInv, Types, Reply
<1>8. \A p \in op[x].asked : <<x, p>> \in torun => <<x, p>> \in torun' \/ Covers(store'[p], t)
  BY <1>1
<1>9. Left(x, op[x], t, store', replies', torun')
  BY <1>1, <1>3, <1>5, <1>6, <1>7, <1>8, LeftGrows
<1> QED
  BY <1>9

(* Nor does the begin of a call.                                           *)
LEMMA BeginsLeft ==
  ASSUME KVInv, ItemInv, LeftInv, Lasting, [Next]_vars,
         NEW o \in Op, NEW n \in Node, NEW c \in Call, Begins(o, n, c),
         NEW t \in Nat, Leaves(op'[o], t, op')
  PROVE  Left(o, op'[o], t, store', replies', torun')
<1>1. /\ Types /\ op \in [Op -> Call] /\ store \in [Node -> Cache] /\ op[o] = Idle
      /\ now \in Nat
  BY NowFacts DEF Begins, KVInv, CallInv, Types
<1>2. /\ Started(c) /\ c.phase = "racing" /\ c.at = {n} /\ c.unsettled = c.asked
      /\ c.results = << >> /\ c.errors = 0 /\ c.since = now
      /\ c.before = {x \in Op : op[x].phase = "returned"}
      /\ torun' = torun \cup ({o} \X c.asked) /\ replies' = replies
  BY DEF Begins
<1>3. \A r \in replies : r.op # o
  BY <1>1 DEF KVInv, Asked, Idle
<1>4. Len(c.results) = 0 /\ \A p \in c.asked : <<o, p>> \in torun'
  BY <1>2
<1>5. CASE ~ Alone(c)
  <2>1. op'[o] = c
    BY <1>1, <1>5 DEF Begins
  <2>2. Cardinality(Having(c.asked \ c.unsettled, t, store')) >= Len(c.results)
    <3>1. Having(c.asked \ c.unsettled, t, store') = {}
      BY <1>2 DEF Having
    <3>2. Cardinality(Having(c.asked \ c.unsettled, t, store')) = 0
      BY <3>1, FS_EmptySet
    <3>3. QED
      BY <3>2, <1>4
  <2>3. QED
    BY <1>2, <1>3, <1>4, <2>1, <2>2 DEF Left, Ended
<1>6. CASE Alone(c)
  <2> DEFINE e == finished(c, "returned", returned(c, n))
  <2>1. /\ op' = [op EXCEPT ![o] = e] /\ op'[o] = e
        /\ store' = [store EXCEPT ![n] = effect(c, n)]
    BY <1>1, <1>6 DEF Begins
  <2>2. n \in c.replicas /\ c.asked = {} /\ c.quorum = 1
    BY <1>2, <1>6 DEF Alone, Started
  <2>3. /\ e \in Call /\ e.phase = "returned" /\ e.errors = 0 /\ e.asked = {} /\ SameCall(c, e)
        /\ e.kind = c.kind /\ e.payload = c.payload /\ e.since = c.since /\ e.before = c.before
        /\ e.replicas = c.replicas /\ e.quorum = 1 /\ e.at = {n}
    <3>1. returned(c, n) \in Cache
      BY <1>1, <1>2, CommandType DEF Started
    <3>2. QED
      BY <1>2, <2>2, <3>1, FinishedType, FinishedFields, FinishedSame
  <2> HIDE DEF e
  <2>4. \A x \in c.before : x \in Op /\ op[x].phase = "returned" /\ op'[x] = op[x]
    <3>1. op[o].phase = "idle"
      BY DEF Begins
    <3>2. \A x \in Op : x # o => op'[x] = op[x]
      BY <1>1, <2>1
    <3>3. \A x \in c.before : x \in Op /\ op[x].phase = "returned"
      BY <1>2
    <3>4. QED
      BY <3>1, <3>2, <3>3
  <2>5. Leaves(c, t, op)
    BY <2>1, <2>3, <2>4 DEF Leaves
  <2>6. Forever(c.payload)
    BY DEF Begins, Lasting, Forever
  <2>7. Covers(effect(c, n), t)
    BY <1>1, <1>2, <2>2, <2>4, <2>5, <2>6, CommandLeaves
  <2>8. Covers(store'[n], t)
    BY <1>1, <2>1, <2>7
  <2>9. IsFiniteSet(c.replicas) /\ Cardinality(c.replicas) \in Nat
    BY <1>2, StartedFacts
  <2>10. Cardinality(Having(e.replicas, t, store')) >= 1
    <3>1. n \in Having(c.replicas, t, store')
      BY <2>2, <2>8 DEF Having
    <3>2. /\ IsFiniteSet(Having(c.replicas, t, store'))
          /\ Cardinality(Having(c.replicas, t, store')) \in Nat
      BY <2>9, HavingFacts
    <3>3. Cardinality(Having(c.replicas, t, store')) # 0
      BY <3>1, <3>2, FS_EmptySet
    <3>4. QED
      BY <2>3, <3>2, <3>3
  <2>11. Enough(e) <= 1 /\ Enough(e) \in Nat
    <3>1. Started(e)
      BY <1>2, <2>3, StartedSame
    <3>2. QED
      BY <2>3, <3>1, EnoughFacts
  <2>12. IsFiniteSet(e.replicas) /\ Cardinality(Having(e.replicas, t, store')) \in Nat
    BY <2>3, <2>9, HavingFacts
  <2>13. Cardinality(Having(e.replicas, t, store')) >= IF e.errors = 0 THEN Enough(e) ELSE 1
    BY <2>10, <2>11, <2>12
  <2>14. QED
    BY <1>2, <1>3, <2>1, <2>3, <2>8, <2>13 DEF Left, Ended
<1> QED
  BY <1>5, <1>6

(* Nor a step that settles a request.                                      *)
LEMMA SettlesLeft ==
  ASSUME KVInv, ItemInv, LeftInv, Lasting, [Next]_vars,
         NEW o \in Op, NEW p, NEW c, Settles(o, p, c),
         Len(c.results) + c.errors = Len(op[o].results) + op[o].errors + 1,
         NEW t \in Nat, Leaves(op[o], t, op), Left(o, c, t, store, replies', torun')
  PROVE  Left(o, op'[o], t, store', replies', torun')
<1>1. /\ Types /\ op \in [Op -> Call] /\ op'[o] \in Call
      /\ store \in [Node -> Cache] /\ store' \in [Node -> Cache]
  <2>1. op' \in [Op -> Call] /\ store' \in [Node -> Cache]
    BY SettlesType
  <2>2. QED
    BY <2>1 DEF KVInv, Types
<1>2. /\ op[o].since <= now /\ \A x \in op[o].before : op[x].phase = "returned"
      /\ c \in Call /\ SameCall(op[o], c) /\ c.phase = "racing" /\ Started(c) /\ Progress(c)
      /\ \/ RacesOn(o, c)
         \/ \E own \in Cache, phase \in {"returned", "thrown"}, val \in Cache :
              EndsWith(o, c, own, phase, val)
  BY SettlesFacts
<1>3. /\ c.since <= now /\ \A x \in c.before : op[x].phase = "returned"
      /\ Leaves(c, t, op) /\ c.payload = op[o].payload
  BY <1>2 DEF SameCall, Leaves
<1>4. Forever(c.payload)
  BY <1>3 DEF ItemInv, Forever
<1>5. \A q \in Node : Covers(store[q], t) => Covers(store'[q], t)
  BY StoresGrow
<1>6. \A r \in replies' : r.from \in Node
  <2>1. KVInv'
    BY KVInvStep
  <2>2. QED
    BY <2>1 DEF KVInv, Types, Reply
<1>7. Left(o, c, t, store', replies', torun')
  BY <1>2, <1>5, <1>6, LeftGrows
<1>8. CASE RacesOn(o, c)
  BY <1>1, <1>7, <1>8 DEF RacesOn
<1>9. ASSUME NEW own \in Cache, NEW phase \in {"returned", "thrown"}, NEW val \in Cache,
             EndsWith(o, c, own, phase, val)
      PROVE  Left(o, op'[o], t, store', replies', torun')
  <2>1. PICK n \in Node : c.at = {n}
    BY <1>2 DEF Started
  <2>2. /\ op'[o] = finished(c, phase, val) /\ Ending(c, own, phase, val)
        /\ Len(c.results) >= count(c) \/ c.unsettled = {}
        /\ \/ c.at \cap c.replicas = {} /\ own = {} /\ store' = store
           \/ n \in c.replicas /\ own = returned(c, n) /\ store' = [store EXCEPT ![n] = effect(c, n)]
    BY <1>1, <1>9, <2>1 DEF EndsWith
  <2>3. own = {} /\ \A q \in c.at \cap c.replicas : Covers(store'[q], t)
    <3>1. CASE n \in c.replicas /\ own = returned(c, n) /\ store' = [store EXCEPT ![n] = effect(c, n)]
      <4>1. Covers(effect(c, n), t) /\ returned(c, n) = {}
        BY <1>2, <1>3, <1>4, <3>1, CommandLeaves
      <4>2. QED
        BY <1>1, <2>1, <3>1, <4>1
    <3>2. QED
      BY <2>2, <3>1
  <2>4. Ending(c, {}, phase, val)
    BY <2>2, <2>3
  <2>5. Left(o, finished(c, phase, val), t, store', replies', torun')
    BY <1>2, <1>7, <2>2, <2>3, <2>4, LeftEnds
  <2>6. QED
    BY <2>2, <2>5
<1> QED
  BY <1>2, <1>8, <1>9

LEMMA LeftInvStep ==
  ASSUME KVInv, ItemInv, LeftInv, Lasting, [Next]_vars
  PROVE  LeftInv'
<1> SUFFICES ASSUME NEW x \in Op, NEW t \in Nat, Leaves(op'[x], t, op')
             PROVE  Left(x, op'[x], t, store', replies', torun')
  BY DEF LeftInv
<1> DEFINE P == Left(x, op'[x], t, store', replies', torun')
<1>1. Types /\ op \in [Op -> Call] /\ store \in [Node -> Cache] /\ \A r \in replies : r.from \in Node
  BY DEF KVInv, Types, Reply
<1>2. ASSUME NEW o \in Op, NEW n \in Node, NEW c \in Call, Begins(o, n, c) PROVE P
  <2>1. CASE x = o
    BY <1>2, <2>1, BeginsLeft
  <2>2. CASE x # o
    <3>1. op'[x] = op[x]
      BY <1>1, <1>2, <2>2 DEF Begins
    <3>2. replies' = replies /\ torun \subseteq torun'
      BY <1>2 DEF Begins
    <3>3. QED
      BY <3>1, <3>2, LeftOthers
  <2>3. QED
    BY <2>1, <2>2
<1>3. ASSUME NEW o \in Op, NEW p \in Node, Runs(o, p) PROVE P
  <2>1. /\ op' = op /\ <<o, p>> \in torun /\ p \in op[o].asked /\ op[o] \in Call
        /\ store'[p] = effect(op[o], p)
    BY <1>1, <1>3 DEF Runs, KVInv, Asked
  <2>2. \A r \in replies' : r \in replies \/ (r.op = o /\ r.from = p)
    BY <1>3 DEF Runs
  <2>3. \A q \in Node : <<x, q>> \in torun => <<x, q>> \in torun' \/ (x = o /\ q = p)
    BY <1>3 DEF Runs
  <2>4. ASSUME x = o PROVE Covers(store'[p], t)
    <3>1. op[o].phase # "idle"
      BY <2>1 DEF KVInv, CallInv, Idle
    <3>2. /\ Started(op[o]) /\ op[o].since <= now /\ \A y \in op[o].before : op[y].phase = "returned"
      BY <3>1 DEF KVInv, CallInv
    <3>3. p \in op[o].replicas
      BY <2>1, <3>2, StartedFacts
    <3>4. Leaves(op[o], t, op)
      BY <2>1, <2>4
    <3>5. Forever(op[o].payload)
      BY DEF ItemInv, Forever
    <3>6. QED
      BY <2>1, <3>2, <3>3, <3>4, <3>5, CommandLeaves
  <2>5. QED
    BY <2>1, <2>2, <2>3, <2>4, LeftOthers
<1>4. ASSUME NEW o \in Op, NEW p, NEW c, Settles(o, p, c),
             Len(c.results) + c.errors = Len(op[o].results) + op[o].errors + 1,
             replies' \subseteq replies, torun \ {<<o, p>>} \subseteq torun',
             c.errors = 0 => torun' = torun /\ op[o].errors = 0,
             Len(c.results) = Len(op[o].results)
             \/ (Len(c.results) = Len(op[o].results) + 1 /\ \E r \in replies : r.op = o /\ r.from = p)
      PROVE  P
  <2>1. /\ op[o] \in Call /\ op[o].phase = "racing" /\ Started(op[o])
        /\ c \in Call /\ SameCall(op[o], c) /\ c.phase = "racing" /\ Started(c)
        /\ c.asked \ c.unsettled = (op[o].asked \ op[o].unsettled) \cup {p}
        /\ p \in op[o].asked /\ p \notin op[o].asked \ op[o].unsettled
        /\ \/ RacesOn(o, c)
           \/ \E own \in Cache, phase \in {"returned", "thrown"}, val \in Cache :
                EndsWith(o, c, own, phase, val)
    BY <1>4, SettlesFacts
  <2>2. CASE x # o
    <3>1. op'[x] = op[x]
      BY <1>1, <2>1, <2>2 DEF RacesOn, EndsWith
    <3>2. \A q \in Node : <<x, q>> \in torun => <<x, q>> \in torun'
      BY <1>4, <2>2
    <3>3. QED
      BY <1>4, <3>1, <3>2, LeftOthers
  <2>3. CASE x = o
    <3> DEFINE G == Having(op[o].asked \ op[o].unsettled, t, store)
               H == Having(c.asked \ c.unsettled, t, store)
    <3>1. Leaves(op[o], t, op)
      BY <2>1, <2>3, LeavesKept
    <3>2. Left(o, op[o], t, store, replies, torun)
      BY <3>1 DEF LeftInv
    <3>3. c.asked = op[o].asked
      BY <2>1 DEF SameCall
    <3>4. IsFiniteSet(op[o].asked \ op[o].unsettled) /\ IsFiniteSet(c.asked \ c.unsettled)
      <4>1. IsFiniteSet(op[o].asked) /\ IsFiniteSet(c.asked)
        BY <2>1, StartedFacts
      <4>2. QED
        BY <4>1, FS_Subset
    <3>5. /\ IsFiniteSet(G) /\ Cardinality(G) \in Nat /\ G \subseteq op[o].asked \ op[o].unsettled
          /\ IsFiniteSet(H) /\ Cardinality(H) \in Nat
      BY <3>4, HavingFacts
    <3>6. Cardinality(G) >= Len(op[o].results) /\ Len(op[o].results) \in Nat
      BY <2>1, <3>2, CallFacts DEF Left
    <3>7. Cardinality(H) >= Len(c.results)
      <4>1. CASE Len(c.results) = Len(op[o].results)
        <5>1. Cardinality(G) <= Cardinality(H)
          BY <2>1, <3>4, HavingGrows
        <5>2. QED
          BY <5>1, <3>5, <3>6, <4>1
      <4>2. ASSUME Len(c.results) = Len(op[o].results) + 1, NEW r \in replies, r.op = o, r.from = p
            PROVE  Cardinality(H) >= Len(c.results)
        <5>1. Covers(store[p], t)
          BY <3>2, <4>2 DEF Left
        <5>2. p \notin G /\ H = G \cup {p}
          BY <2>1, <3>5, <5>1 DEF Having
        <5>3. Cardinality(H) = Cardinality(G) + 1
          BY <3>5, <5>2, FS_AddElement
        <5>4. QED
          BY <5>3, <3>5, <3>6, <4>2
      <4>3. QED
        BY <1>4, <4>1, <4>2
    <3>8. Left(o, c, t, store, replies', torun')
      <4>1. \A r \in replies' : r.op = o => Covers(store[r.from], t)
        BY <1>4, <3>2 DEF Left
      <4>2. c.errors = 0 => \A q \in c.asked : <<o, q>> \in torun' \/ Covers(store[q], t)
        BY <1>4, <3>2, <3>3 DEF Left
      <4>3. QED
        BY <2>1, <3>7, <4>1, <4>2 DEF Left, Ended
    <3>9. QED
      BY <1>4, <2>3, <3>1, <3>8, SettlesLeft
  <2>4. QED
    BY <2>2, <2>3
<1>5. ASSUME NEW r \in replies, NEW c \in Call, Answers(r, c) PROVE P
  <2>1. /\ r.op \in Op /\ Settles(r.op, r.from, c) /\ c.errors = op[r.op].errors
        /\ Len(c.results) = Len(op[r.op].results) + 1
        /\ Len(c.results) + c.errors = Len(op[r.op].results) + op[r.op].errors + 1
    BY <1>5, AnswersCount
  <2>2. replies' \subseteq replies /\ torun' = torun
    BY <1>5 DEF Answers
  <2>3. \E q \in replies : q.op = r.op /\ q.from = r.from
    OBVIOUS
  <2>4. torun \ {<<r.op, r.from>>} \subseteq torun'
    BY <2>2
  <2>5. QED
    BY <1>4, <2>1, <2>2, <2>3, <2>4
<1>6. ASSUME NEW o \in Op, NEW p \in Node, NEW c \in Call, Fails(o, p, c) PROVE P
  <2>1. /\ Settles(o, p, c) /\ c.results = op[o].results /\ c.errors # 0
        /\ torun \ {<<o, p>>} \subseteq torun' /\ replies' \subseteq replies
    <3>1. op[o].errors \in Nat
      BY CallFacts DEF KVInv, Types
    <3>2. QED
      BY <1>6, <3>1 DEF Fails
  <2>2. Len(c.results) + c.errors = Len(op[o].results) + op[o].errors + 1
    BY <1>6, FailsCount
  <2>3. c.errors = 0 => torun' = torun /\ op[o].errors = 0
    BY <2>1
  <2>4. Len(c.results) = Len(op[o].results)
    BY <2>1
  <2> HIDE DEF P
  <2>5. QED
    BY <1>4, <2>1, <2>2, <2>3, <2>4
<1>7. CASE op' = op /\ store' = store /\ torun' = torun /\ replies' \subseteq replies
  BY <1>7, LeftOthers
<1> HIDE DEF P
<1> QED
  BY <1>1, <1>2, <1>3, <1>5, <1>6, <1>7, StepCases DEF P

-----------------------------------------------------------------------------
(* What gets find *)

(* When the race of a call is over without errors, as many replicas as it  *)
(* waits for have answered, its own node included if it is one.            *)
LEMMA QuorumReached ==
  ASSUME NEW c \in Call, Started(c), Progress(c), c.phase = "racing", c.errors = 0,
         Len(c.results) >= count(c) \/ c.unsettled = {}
  PROVE  LET A == (c.asked \ c.unsettled) \cup (c.at \cap c.replicas)
         IN  A \subseteq c.replicas /\ Cardinality(A) >= Enough(c)
<1> DEFINE S == c.asked \ c.unsettled
           A == S \cup (c.at \cap c.replicas)
           k == Len(c.results)
<1>1. PICK n \in Node : c.at = {n}
  BY DEF Started
<1>2. /\ IsFiniteSet(c.replicas) /\ Cardinality(c.replicas) \in Nat /\ c.quorum \in Nat \ {0}
      /\ c.asked = c.replicas \ {n} /\ IsFiniteSet(c.asked)
  BY <1>1, StartedFacts DEF Started, Progress
<1>3. /\ A \subseteq c.replicas
      /\ IsFiniteSet(S) /\ Cardinality(S) \in Nat
  <2>1. IsFiniteSet(S)
    BY <1>2, FS_Subset
  <2>2. QED
    BY <1>2, <2>1, FS_CardinalityType
<1>4. k \in Nat /\ Cardinality(S) = k
  <2>1. k \in Nat
    BY CallFacts
  <2>2. k + 0 = Cardinality(S)
    BY DEF Progress
  <2>3. QED
    BY <2>1, <2>2
<1>5. Enough(c) \in Nat /\ Enough(c) <= c.quorum /\ Enough(c) <= Cardinality(c.replicas)
  BY EnoughFacts
<1>6. CASE n \in c.replicas
  <2>1. A = S \cup {n} /\ n \notin S
    BY <1>1, <1>2, <1>6
  <2>2. Cardinality(A) = k + 1
    <3> HIDE DEF A, S, k
    <3>1. Cardinality(S \cup {n}) = Cardinality(S) + 1
      BY <1>3, <2>1, FS_AddElement
    <3>2. QED
      BY <1>4, <2>1, <3>1
  <2>3. count(c) = c.quorum - 1
    BY <1>1, <1>6 DEF count, isAReplica
  <2>4. c.unsettled = {} => A = c.replicas
    BY <1>2, <1>6, <2>1
  <2>5. Cardinality(A) >= Enough(c)
    <3> HIDE DEF A, k
    <3>1. CASE c.unsettled = {}
      BY <1>2, <1>5, <2>4, <3>1
    <3>2. CASE k >= count(c)
      BY <1>2, <1>4, <1>5, <2>2, <2>3, <3>2
    <3>3. QED
      BY <3>1, <3>2 DEF k
  <2>6. QED
    BY <1>3, <2>5
<1>7. CASE n \notin c.replicas
  <2>1. A = S
    BY <1>1, <1>7
  <2>2. Cardinality(A) = k
    BY <1>4, <2>1
  <2>3. count(c) = c.quorum
    BY <1>1, <1>7 DEF count, isAReplica
  <2>4. c.unsettled = {} => A = c.replicas
    BY <1>2, <1>7, <2>1
  <2>5. Cardinality(A) >= Enough(c)
    <3> HIDE DEF A, k
    <3>1. CASE c.unsettled = {}
      BY <1>2, <1>5, <2>4, <3>1
    <3>2. CASE k >= count(c)
      BY <1>2, <1>4, <1>5, <2>2, <2>3, <3>2
    <3>3. QED
      BY <3>1, <3>2 DEF k
  <2>6. QED
    BY <1>3, <2>5
<1> QED
  BY <1>6, <1>7

\* The get g goes on from c to c2: with newer caches, with more results, which
\* were among the answers, and with answers of caches that are as new as t.
GoesOn(g, c, x, t, caches, answers, c2, caches2, answers2) ==
  /\ \A p \in x.replicas : Covers(caches[p], t) => Covers(caches2[p], t)
  /\ \A r \in answers2 : r.op = g => r \in answers \/ (Covers(caches[r.from], t) => Covers(r.payload, t))
  /\ \A i \in 1 .. Len(c.results) : \E j \in 1 .. Len(c2.results) : c2.results[j] = c.results[i]
  /\ \A p \in c2.asked \ c2.unsettled :
       \/ p \in c.asked \ c.unsettled
       \/ \E r \in answers : /\ r.op = g /\ r.from = p
                             /\ \E j \in 1 .. Len(c2.results) : c2.results[j] = r.payload

LEMMA FindingGrows ==
  ASSUME NEW g, NEW c, NEW x, IsFiniteSet(x.replicas), NEW t, NEW caches, NEW answers, Enough(x) \in Nat,
         Finding(g, c, x, t, caches, answers),
         NEW c2, NEW caches2, NEW answers2, GoesOn(g, c, x, t, caches, answers, c2, caches2, answers2)
  PROVE  Finding(g, c2, x, t, caches2, answers2)
<1> DEFINE F == {p \in x.replicas : Fresh(g, c, p, t, caches, answers)}
           G == {p \in x.replicas : Fresh(g, c2, p, t, caches2, answers2)}
<1>1. ASSUME NEW p \in x.replicas, Fresh(g, c, p, t, caches, answers)
      PROVE  Fresh(g, c2, p, t, caches2, answers2)
  <2>1. Covers(caches2[p], t)
    BY <1>1 DEF Fresh, GoesOn
  <2>2. ASSUME NEW r \in answers2, r.op = g, r.from = p PROVE Covers(r.payload, t)
    BY <1>1, <2>2 DEF Fresh, GoesOn
  <2>3. ASSUME p \in c2.asked \ c2.unsettled
        PROVE  \E j \in 1 .. Len(c2.results) : Covers(c2.results[j], t)
    <3>1. CASE p \in c.asked \ c.unsettled
      <4>1. PICK i \in 1 .. Len(c.results) : Covers(c.results[i], t)
        BY <1>1, <3>1 DEF Fresh
      <4>2. PICK j \in 1 .. Len(c2.results) : c2.results[j] = c.results[i]
        BY DEF GoesOn
      <4>3. QED
        BY <4>1, <4>2
    <3>2. ASSUME NEW r \in answers, r.op = g, r.from = p,
                 NEW j \in 1 .. Len(c2.results), c2.results[j] = r.payload
          PROVE  \E i \in 1 .. Len(c2.results) : Covers(c2.results[i], t)
      <4>1. Covers(r.payload, t)
        BY <1>1, <3>2 DEF Fresh
      <4>2. QED
        BY <3>2, <4>1
    <3>3. QED
      BY <2>3, <3>1, <3>2 DEF GoesOn
  <2>4. QED
    BY <2>1, <2>2, <2>3 DEF Fresh
<1>2. F \in SUBSET G /\ IsFiniteSet(G)
  BY <1>1, FS_Subset
<1>3. Cardinality(F) <= Cardinality(G) /\ Cardinality(F) \in Nat /\ Cardinality(G) \in Nat
  BY <1>2, FS_Subset, FS_CardinalityType
<1>4. Cardinality(F) >= Enough(x)
  BY DEF Finding
<1> HIDE DEF F
<1>5. Cardinality(G) >= Enough(x)
  BY <1>3, <1>4
<1> QED
  BY <1>5 DEF Finding

(* Two sets of replicas that are large enough have one in common.          *)
LEMMA QuorumsMeet ==
  ASSUME NEW c \in Call, Started(c), NEW x \in Call, Started(x),
         Enough(c) + Enough(x) > Cardinality(c.replicas \cup x.replicas),
         NEW A \in SUBSET c.replicas, Cardinality(A) >= Enough(c),
         NEW F \in SUBSET x.replicas, Cardinality(F) >= Enough(x)
  PROVE  \E p \in A : p \in F
<1> DEFINE U == c.replicas \cup x.replicas
<1>1. IsFiniteSet(c.replicas) /\ IsFiniteSet(x.replicas)
  BY StartedFacts
<1>2. IsFiniteSet(U) /\ Cardinality(U) \in Nat
  BY <1>1, FS_Union, FS_CardinalityType
<1>3. IsFiniteSet(A) /\ IsFiniteSet(F) /\ Cardinality(A) \in Nat /\ Cardinality(F) \in Nat
  BY <1>1, FS_Subset, FS_CardinalityType
<1>4. Enough(c) \in Nat /\ Enough(x) \in Nat
  BY EnoughFacts
<1>5. A \cap F # {}
  <2>1. Cardinality(A) + Cardinality(F) > Cardinality(U)
    BY <1>2, <1>3, <1>4
  <2>2. A \subseteq U /\ F \subseteq U
    OBVIOUS
  <2> HIDE DEF U
  <2>3. QED
    BY <1>2, <2>1, <2>2, FS_MajoritiesIntersect
<1> QED
  BY <1>5

\* A call that has begun.
LEMMA BegunFacts ==
  ASSUME KVInv, NEW o \in Op, op[o].phase # "idle"
  PROVE  /\ op[o] \in Call /\ Started(op[o]) /\ Progress(op[o]) /\ op[o].since <= now
         /\ op[o].before \subseteq Op /\ \A x \in op[o].before : op[x].phase = "returned"
         /\ IsFiniteSet(op[o].replicas) /\ Enough(op[o]) \in Nat
<1>1. op[o] \in Call /\ Started(op[o])
  BY DEF KVInv, CallInv, Types
<1>2. op[o].before \subseteq Op /\ IsFiniteSet(op[o].replicas) /\ Enough(op[o]) \in Nat
  BY <1>1, CallFacts, StartedFacts, EnoughFacts
<1> QED
  BY <1>1, <1>2 DEF KVInv, CallInv

(* A step that does not change the get.                                    *)
LEMMA ReadsOthers ==
  ASSUME KVInv, ItemInv, ReadInv, Lasting, [Next]_vars,
         NEW g \in Op, op'[g] = op[g], op[g].kind = "get", op[g].errors = 0,
         NEW x \in op[g].before, op[x].errors = 0, NEW t \in Nat, Leaves(op[x], t, op),
         \A r \in replies' : r.op = g => r \in replies \/ (Covers(store[r.from], t) => Covers(r.payload, t))
  PROVE  /\ op[g].phase = "racing" => Finding(g, op[g], op[x], t, store', replies')
         /\ op[g].phase = "returned" => Found(op[g], op[x], t)'
<1>1. op[g].phase # "idle"
  BY DEF KVInv, CallInv, Idle
<1>2. x \in Op /\ op[x].phase = "returned"
  BY <1>1, BegunFacts
<1>3. /\ op[g].phase = "racing" => Finding(g, op[g], op[x], t, store, replies)
      /\ op[g].phase = "returned" => Found(op[g], op[x], t)
  BY DEF ReadInv
<1>4. op[x] \in Call /\ IsFiniteSet(op[x].replicas) /\ Enough(op[x]) \in Nat
  BY <1>2, BegunFacts
<1>5. \A p \in op[x].replicas : Covers(store[p], t) => Covers(store'[p], t)
  BY <1>4, CallFacts, StoresGrow
<1>6. ASSUME op[g].phase = "racing" PROVE Finding(g, op[g], op[x], t, store', replies')
  <2>1. GoesOn(g, op[g], op[x], t, store, replies, op[g], store', replies')
    BY <1>5 DEF GoesOn
  <2>2. QED
    BY <1>3, <1>4, <1>6, <2>1, FindingGrows
<1>7. ASSUME op[g].phase = "returned" PROVE Found(op[g], op[x], t)'
  <2>1. Found(op[g], op[x], t)
    BY <1>3, <1>7
  <2>2. op'[x] = op[x]
    BY <1>2, CallSteps
  <2>3. \A val : Items(val) => Items(val)'
    BY ItemKept DEF Items
  <2>4. QED
    BY <2>1, <2>2, <2>3 DEF Found
<1> QED
  BY <1>6, <1>7

(* The begin of a get.                                                     *)
LEMMA BeginsReads ==
  ASSUME KVInv, ItemInv, LeftInv, Lasting, [Next]_vars,
         NEW g \in Op, NEW n \in Node, NEW c \in Call, Begins(g, n, c), c.kind = "get",
         NEW x \in c.before, op[x].errors = 0, NEW t \in Nat, Leaves(op[x], t, op)
  PROVE  /\ op'[g].phase = "racing" => Finding(g, op'[g], op[x], t, store', replies')
         /\ op'[g].phase = "returned" => Found(op[g], op[x], t)'
<1>1. /\ Types /\ op \in [Op -> Call] /\ store \in [Node -> Cache] /\ op[g] = Idle
  BY DEF Begins, KVInv, CallInv, Types
<1>2. /\ Started(c) /\ c.phase = "racing" /\ c.at = {n} /\ c.unsettled = c.asked
      /\ c.results = << >> /\ c.errors = 0 /\ replies' = replies
      /\ c.before = {y \in Op : op[y].phase = "returned"}
  BY DEF Begins
<1>3. x \in Op /\ op[x].phase = "returned"
  BY <1>2
<1>4. op[x] \in Call /\ Started(op[x]) /\ IsFiniteSet(op[x].replicas) /\ Enough(op[x]) \in Nat
  BY <1>3, BegunFacts
<1> DEFINE F == Having(op[x].replicas, t, store)
<1>5. F \in SUBSET op[x].replicas /\ Cardinality(F) >= Enough(op[x])
  <2>1. Left(x, op[x], t, store, replies, torun)
    BY <1>3 DEF LeftInv
  <2>2. QED
    BY <1>3, <2>1 DEF Left, Having
<1>6. \A r \in replies : r.op # g
  BY <1>1 DEF KVInv, Asked, Idle
<1>7. CASE ~ Alone(c)
  <2>1. op'[g] = c /\ store' = store
    BY <1>1, <1>7 DEF Begins
  <2>2. F = {p \in op[x].replicas : Fresh(g, c, p, t, store', replies')}
    BY <1>2, <1>6, <2>1 DEF Having, Fresh
  <2>3. Finding(g, c, op[x], t, store', replies')
    BY <1>5, <2>2 DEF Finding
  <2>4. QED
    BY <1>2, <2>1, <2>3
<1>8. CASE Alone(c)
  <2> DEFINE e == finished(c, "returned", returned(c, n))
  <2>1. op' = [op EXCEPT ![g] = e] /\ op'[g] = e
    BY <1>1, <1>8 DEF Begins
  <2>2. /\ e \in Call /\ e.phase = "returned" /\ SameCall(c, e) /\ e.value = plain(returned(c, n))
        /\ returned(c, n) \in Cache
    <3>1. returned(c, n) \in Cache
      BY <1>1, <1>2, CommandType DEF Started
    <3>2. QED
      BY <3>1, FinishedType, FinishedFields, FinishedSame
  <2> HIDE DEF e
  <2>3. Started(e) /\ e.replicas = c.replicas /\ e.quorum = 1 /\ n \in c.replicas
    BY <1>2, <1>8, <2>2, StartedSame DEF Alone, SameCall
  <2>4. returned(c, n) = store[n] /\ Items(store[n])
    <3>1. Forever(store[n]) /\ Forever(c.payload)
      BY DEF ItemInv, Items, Item, Forever, Begins, Lasting
    <3>2. QED
      BY <1>1, <1>2, <3>1, CommandFacts DEF ItemInv
  <2>5. \A w \in store[n] : Item(w)'
    BY <2>4, ItemKept DEF Items
  <2>6. ASSUME Enough(e) + Enough(op[x]) > Cardinality(e.replicas \cup op[x].replicas)
        PROVE  Covers(store[n], t)
    <3>1. {n} \in SUBSET e.replicas /\ Cardinality({n}) = 1
      BY <2>3, FS_Singleton
    <3>2. Enough(e) <= 1
      BY <2>2, <2>3, EnoughFacts
    <3>3. Enough(e) \in Nat
      BY <2>2, <2>3, EnoughFacts
    <3>4. Cardinality({n}) >= Enough(e)
      BY <3>1, <3>2, <3>3
    <3> HIDE DEF F
    <3>5. \E p \in {n} : p \in F
      BY <1>4, <1>5, <2>2, <2>3, <2>6, <3>1, <3>4, QuorumsMeet
    <3>6. QED
      BY <3>5 DEF F, Having
  <2>7. op'[x] = op[x]
    BY <1>3, CallSteps
  <2>8. Found(op[g], op[x], t)'
    BY <2>1, <2>2, <2>4, <2>5, <2>6, <2>7 DEF Found, Items, Enough
  <2>9. QED
    BY <2>1, <2>2, <2>8
<1> QED
  BY <1>7, <1>8

(* A get that settles a request, after which its record is c.              *)
LEMMA SettlesReads ==
  ASSUME KVInv, ItemInv, ReadInv, Lasting, [Next]_vars,
         NEW g \in Op, NEW p, NEW c, Settles(g, p, c), c.kind = "get", c.errors = 0,
         Len(c.results) + c.errors = Len(op[g].results) + op[g].errors + 1,
         \A i \in 1 .. Len(c.results) : Items(c.results[i]),
         NEW x \in op[g].before, NEW t \in Nat, Finding(g, c, op[x], t, store, replies')
  PROVE  /\ op'[g].phase = "racing" => Finding(g, op'[g], op[x], t, store', replies')
         /\ op'[g].phase = "returned" => Found(op[g], op[x], t)'
<1>1. /\ Types /\ op \in [Op -> Call] /\ store \in [Node -> Cache]
  BY DEF KVInv, Types
<1>2. /\ op[g].phase = "racing" /\ \A y \in op[g].before : op[y].phase = "returned"
      /\ op[g].before \subseteq Op
      /\ c \in Call /\ SameCall(op[g], c) /\ c.phase = "racing" /\ Started(c) /\ Progress(c)
      /\ \/ RacesOn(g, c)
         \/ \E own \in Cache, phase \in {"returned", "thrown"}, val \in Cache :
              EndsWith(g, c, own, phase, val)
  BY <1>1, SettlesFacts, CallFacts
<1>3. x \in Op /\ op[x].phase = "returned"
  BY <1>2
<1>4. op[x] \in Call /\ Started(op[x]) /\ IsFiniteSet(op[x].replicas) /\ Enough(op[x]) \in Nat
  BY <1>3, BegunFacts
<1>5. CASE RacesOn(g, c)
  BY <1>1, <1>2, <1>5 DEF RacesOn
<1>6. ASSUME NEW own \in Cache, NEW phase \in {"returned", "thrown"}, NEW val \in Cache,
             EndsWith(g, c, own, phase, val)
      PROVE  /\ op'[g].phase # "racing"
             /\ Found(op[g], op[x], t)'
  <2>1. PICK n \in Node : c.at = {n}
    BY <1>2 DEF Started
  <2>2. /\ op'[g] = finished(c, phase, val) /\ Ending(c, own, phase, val)
        /\ Len(c.results) >= count(c) \/ c.unsettled = {}
        /\ \/ c.at \cap c.replicas = {} /\ own = {}
           \/ n \in c.replicas /\ own = returned(c, n)
    BY <1>1, <1>6, <2>1 DEF EndsWith
  <2>3. /\ op'[g] \in Call /\ op'[g].phase = phase /\ op'[g].value = plain(val)
        /\ op'[g].replicas = c.replicas /\ op'[g].quorum = c.quorum
    <3>1. c \in Call
      BY <1>2
    <3>2. finished(c, phase, val) \in Call
      BY <3>1, FinishedType
    <3>3. QED
      BY <2>2, <3>1, <3>2, FinishedFields
  <2>4. Items(store[n]) /\ (n \in c.replicas => own = store[n])
    <3>1. Forever(store[n]) /\ Forever(c.payload)
      BY <1>2 DEF ItemInv, Items, Item, Forever, SameCall
    <3>2. returned(c, n) = store[n]
      BY <1>1, <1>2, <3>1, CommandFacts
    <3>3. QED
      BY <2>1, <2>2, <3>2 DEF ItemInv
  <2>5. Items(val)
    <3>1. Items(own) /\ Items({})
      BY <2>2, <2>4 DEF Items
    <3>2. QED
      BY <2>2, <3>1 DEF Ending
  <2> DEFINE A == (c.asked \ c.unsettled) \cup (c.at \cap c.replicas)
             F == {q \in op[x].replicas : Fresh(g, c, q, t, store, replies')}
  <2>6. A \subseteq c.replicas /\ Cardinality(A) >= Enough(c)
    BY <1>2, <2>2, QuorumReached
  <2>7. F \in SUBSET op[x].replicas /\ Cardinality(F) >= Enough(op[x])
    BY DEF Finding
  <2>8. ASSUME Enough(c) + Enough(op[x]) > Cardinality(c.replicas \cup op[x].replicas)
        PROVE  Covers(val, t)
    <3>1. PICK q \in A : q \in F
      <4> HIDE DEF A, F
      <4>1. QED
        BY <1>2, <1>4, <2>6, <2>7, <2>8, QuorumsMeet
    <3>2. Fresh(g, c, q, t, store, replies')
      BY <3>1
    <3>3. Covers(own, t) \/ \E i \in 1 .. Len(c.results) : Covers(c.results[i], t)
      <4>1. CASE q \in c.asked \ c.unsettled
        BY <3>2, <4>1 DEF Fresh
      <4>2. CASE q \in c.at \cap c.replicas
        <5>1. q = n /\ own = store[q]
          BY <2>1, <2>4, <4>2
        <5>2. QED
          BY <3>2, <5>1 DEF Fresh
      <4>3. QED
        BY <4>1, <4>2
    <3>4. QED
      BY <2>2, <3>3 DEF Ending
  <2>9. op'[x] = op[x] /\ \A w \in val : Item(w)'
    BY <1>3, <2>5, CallSteps, ItemKept DEF Items
  <2>10. Enough(op'[g]) = Enough(c)
    BY <2>3 DEF Enough
  <2>11. Found(op[g], op[x], t)'
    BY <2>3, <2>8, <2>9, <2>10 DEF Found, Items, Enough
  <2>12. QED
    BY <2>3, <2>11
<1> QED
  BY <1>2, <1>5, <1>6

LEMMA ReadInvStep ==
  ASSUME KVInv, ItemInv, LeftInv, ReadInv, Lasting, [Next]_vars
  PROVE  ReadInv'
<1> SUFFICES ASSUME NEW g \in Op, op'[g].kind = "get", op'[g].errors = 0,
                    NEW x \in op'[g].before, op'[x].errors = 0, NEW t \in Nat, Leaves(op'[x], t, op')
             PROVE  /\ op'[g].phase = "racing" => Finding(g, op'[g], op'[x], t, store', replies')
                    /\ op'[g].phase = "returned" => Found(op[g], op[x], t)'
  BY DEF ReadInv
<1> DEFINE P == /\ op'[g].phase = "racing" => Finding(g, op'[g], op'[x], t, store', replies')
                /\ op'[g].phase = "returned" => Found(op[g], op[x], t)'
<1>1. Types /\ op \in [Op -> Call] /\ op[g] \in Call
  BY DEF KVInv, Types
<1>2. ASSUME op'[g] = op[g],
             \A r \in replies' : r.op = g => r \in replies \/ (Covers(store[r.from], t) => Covers(r.payload, t))
      PROVE  P
  <2>1. op[g].phase # "idle"
    BY <1>2 DEF KVInv, CallInv, Idle
  <2>2. x \in Op /\ op[x].phase = "returned"
    BY <1>2, <2>1, BegunFacts
  <2>3. op'[x] = op[x]
    BY <2>2, CallSteps
  <2>4. Leaves(op[x], t, op)
    BY <2>2, LeavesKept
  <2>5. QED
    BY <1>2, <2>3, <2>4, ReadsOthers
<1>3. ASSUME NEW o \in Op, NEW n \in Node, NEW c \in Call, Begins(o, n, c) PROVE P
  <2>1. CASE g # o
    BY <1>1, <1>2, <1>3, <2>1 DEF Begins
  <2>2. CASE g = o
    <3>1. SameCall(c, op'[g])
      <4>1. returned(c, n) \in Cache
        BY <1>1, <1>3, CommandType DEF Begins, Started
      <4>2. op'[g] = c \/ op'[g] = finished(c, "returned", returned(c, n))
        BY <1>1, <1>3, <2>2 DEF Begins
      <4>3. SameCall(c, c)
        BY DEF SameCall
      <4>4. QED
        BY <4>1, <4>2, <4>3, FinishedSame
    <3>2. x \in c.before /\ c.kind = "get"
      BY <3>1 DEF SameCall
    <3>3. x \in Op /\ op[x].phase = "returned"
      BY <1>3, <3>2 DEF Begins
    <3>4. op'[x] = op[x]
      BY <3>3, CallSteps
    <3>5. Leaves(op[x], t, op)
      BY <3>3, LeavesKept
    <3>6. QED
      BY <1>3, <2>2, <3>2, <3>4, <3>5, BeginsReads
  <2>3. QED
    BY <2>1, <2>2
<1>4. ASSUME NEW o \in Op, NEW p \in Node, Runs(o, p) PROVE P
  <2>1. op' = op /\ <<o, p>> \in torun
    BY <1>4 DEF Runs
  <2>2. ASSUME NEW r \in replies', r.op = g, r \notin replies, Covers(store[r.from], t)
        PROVE  Covers(r.payload, t)
    <3>1. r = [op |-> o, from |-> p, payload |-> returned(op[o], p)]
      BY <1>4, <2>2 DEF Runs
    <3>2. o = g /\ r.from = p /\ r.payload = returned(op[g], p)
      BY <2>2, <3>1
    <3>3. op[g].phase # "idle"
      BY <2>1 DEF KVInv, CallInv, Idle
    <3>4. Started(op[g]) /\ op[g].kind = "get"
      BY <2>1, <3>3, BegunFacts
    <3>5. Forever(store[p]) /\ Forever(op[g].payload)
      BY DEF ItemInv, Items, Item, Forever
    <3>6. returned(op[g], p) = store[p]
      BY <1>1, <3>4, <3>5, CommandFacts
    <3>7. QED
      BY <2>2, <3>2, <3>6
  <2>3. QED
    BY <1>2, <2>1, <2>2
<1>5. ASSUME NEW o \in Op, NEW p, NEW c, Settles(o, p, c),
             Len(c.results) + c.errors = Len(op[o].results) + op[o].errors + 1,
             replies' \subseteq replies, g # o
      PROVE  P
  <2>1. \/ RacesOn(o, c)
        \/ \E own \in Cache, phase \in {"returned", "thrown"}, val \in Cache :
             EndsWith(o, c, own, phase, val)
    BY <1>5, SettlesFacts
  <2>2. op'[g] = op[g]
    BY <1>1, <1>5, <2>1 DEF RacesOn, EndsWith
  <2>3. QED
    BY <1>2, <1>5, <2>2
<1>6. ASSUME NEW r \in replies, NEW c \in Call, Answers(r, c), r.op = g PROVE P
  <2> DEFINE s == op[g].results
  <2>1. /\ Settles(g, r.from, c) /\ c.errors = op[g].errors
        /\ Len(c.results) = Len(s) + 1
        /\ Len(c.results) + c.errors = Len(s) + op[g].errors + 1
        /\ c.results[Len(c.results)] = r.payload
        /\ \A i \in 1 .. Len(s) : c.results[i] = s[i]
    BY <1>6, AnswersCount
  <2>2. Len(s) \in Nat
    BY <1>1, CallFacts
  <2>3. /\ op[g].phase = "racing" /\ SameCall(op[g], c)
        /\ op[g].before \subseteq Op /\ \A y \in op[g].before : op[y].phase = "returned"
        /\ c.asked \ c.unsettled = (op[g].asked \ op[g].unsettled) \cup {r.from}
        /\ \/ RacesOn(g, c)
           \/ \E own \in Cache, phase \in {"returned", "thrown"}, val \in Cache :
                EndsWith(g, c, own, phase, val)
    BY <1>1, <2>1, SettlesFacts, CallFacts
  <2>4. SameCall(c, op'[g]) /\ op'[g].errors = c.errors
    <3>1. SameCall(c, c)
      BY DEF SameCall
    <3>2. ASSUME NEW phase \in {"returned", "thrown"}, NEW val \in Cache
          PROVE  SameCall(c, finished(c, phase, val)) /\ finished(c, phase, val).errors = c.errors
      BY FinishedSame, FinishedFields
    <3>3. QED
      BY <1>1, <2>3, <3>1, <3>2 DEF RacesOn, EndsWith
  <2>5. op[g].kind = "get" /\ c.kind = "get" /\ op[g].errors = 0 /\ c.errors = 0 /\ x \in op[g].before
    BY <2>1, <2>3, <2>4 DEF SameCall
  <2>6. x \in Op /\ op[x].phase = "returned"
    BY <2>3, <2>5
  <2>7. op'[x] = op[x]
    BY <2>6, CallSteps
  <2>8. Leaves(op[x], t, op)
    BY <2>6, LeavesKept
  <2>9. Finding(g, op[g], op[x], t, store, replies)
    BY <2>3, <2>5, <2>7, <2>8 DEF ReadInv
  <2>10. Finding(g, c, op[x], t, store, replies')
    <3>1. IsFiniteSet(op[x].replicas) /\ Enough(op[x]) \in Nat
      BY <2>6, BegunFacts
    <3>2. replies' \subseteq replies
      BY <1>6 DEF Answers
    <3>3. Len(c.results) \in 1 .. Len(c.results) /\ \A i \in 1 .. Len(s) : i \in 1 .. Len(c.results)
      BY <2>1, <2>2
    <3>4. \A i \in 1 .. Len(op[g].results) : \E j \in 1 .. Len(c.results) : c.results[j] = op[g].results[i]
      BY <2>1, <3>3
    <3>5. \A q \in c.asked \ c.unsettled :
            \/ q \in op[g].asked \ op[g].unsettled
            \/ \E a \in replies : /\ a.op = g /\ a.from = q
                                  /\ \E j \in 1 .. Len(c.results) : c.results[j] = a.payload
      BY <1>6, <2>1, <2>3, <3>3
    <3>6. GoesOn(g, op[g], op[x], t, store, replies, c, store, replies')
      BY <3>2, <3>4, <3>5 DEF GoesOn
    <3>7. QED
      BY <2>9, <3>1, <3>6, FindingGrows
  <2>11. \A i \in 1 .. Len(c.results) : Items(c.results[i])
    <3>1. \A i \in 1 .. Len(c.results) : i \in 1 .. Len(s) \/ i = Len(c.results)
      BY <2>1, <2>2
    <3>2. QED
      BY <2>1, <3>1 DEF ItemInv
  <2>12. QED
    BY <2>1, <2>5, <2>7, <2>10, <2>11, SettlesReads
<1>7. ASSUME NEW r \in replies, NEW c \in Call, Answers(r, c), r.op # g PROVE P
  BY <1>5, <1>7, AnswersCount DEF Answers
<1>8. ASSUME NEW p \in Node, NEW c \in Call, Fails(g, p, c) PROVE FALSE
  <2>1. Settles(g, p, c) /\ c.errors = op[g].errors + 1 /\ op[g].errors \in Nat
    BY <1>1, <1>8, CallFacts DEF Fails
  <2>2. \/ RacesOn(g, c)
        \/ \E own \in Cache, phase \in {"returned", "thrown"}, val \in Cache :
             EndsWith(g, c, own, phase, val)
    BY <1>8, <2>1, FailsCount, SettlesFacts
  <2>3. \A phase \in {"returned", "thrown"}, val \in Cache : finished(c, phase, val).errors = c.errors
    BY FinishedType, FinishedFields
  <2>4. op'[g].errors = c.errors
    BY <1>1, <2>2, <2>3 DEF RacesOn, EndsWith
  <2>5. QED
    BY <2>1, <2>4
<1>9. ASSUME NEW o \in Op, NEW p \in Node, NEW c \in Call, Fails(o, p, c), o # g PROVE P
  BY <1>5, <1>9, FailsCount DEF Fails
<1>10. CASE op' = op /\ replies' \subseteq replies
  BY <1>2, <1>10
<1> HIDE DEF P
<1> QED
  BY <1>1, <1>3, <1>4, <1>6, <1>7, <1>8, <1>9, <1>10, StepCases DEF P

-----------------------------------------------------------------------------
(* The theorems *)

LastingInv == KVInv /\ ItemInv /\ LeftInv /\ ReadInv

LEMMA LastingInvHolds ==
  ASSUME Lasting
  PROVE  Spec => []LastingInv
<1>1. Init => ItemInv /\ LeftInv /\ ReadInv
  <2> SUFFICES ASSUME Init PROVE ItemInv /\ LeftInv /\ ReadInv
    OBVIOUS
  <2>1. /\ \A o \in Op : /\ op[o].kind = "none" /\ op[o].payload = {} /\ op[o].value = {}
                         /\ op[o].results = << >>
        /\ \A n \in Node : store[n] = {}
        /\ replies = {}
    BY DEF Init, Idle
  <2>2. ItemInv
    BY <2>1 DEF ItemInv, Items
  <2>3. LeftInv
    BY <2>1 DEF LeftInv, Leaves
  <2>4. ReadInv
    BY <2>1 DEF ReadInv
  <2>5. QED
    BY <2>2, <2>3, <2>4
<1>2. KVInv /\ (ItemInv /\ LeftInv /\ ReadInv) /\ [Next]_vars => (ItemInv /\ LeftInv /\ ReadInv)'
  BY ItemInvStep, LeftInvStep, ReadInvStep
<1>3. KVInv /\ ItemInv /\ LeftInv /\ ReadInv => LastingInv
  BY DEF LastingInv
<1> QED
  BY <1>1, <1>2, <1>3, KVInvHolds, PTL DEF Spec

\* A set's update and who holds it.
LEMMA SetFacts ==
  ASSUME KVInv, NEW o \in Op, op[o].kind = "set"
  PROVE  \E u \in op[o].payload :
           /\ op[o].payload = {u} /\ u.updatedAt \in Nat
           /\ Leaves(op[o], u.updatedAt, op)
           /\ Holders(o) = Having(op[o].replicas, u.updatedAt, store)
<1>1. op[o].phase # "idle"
  BY DEF KVInv, CallInv, Idle
<1>2. Started(op[o]) /\ op[o] \in Call
  BY <1>1, BegunFacts
<1>3. PICK u \in op[o].payload : op[o].payload = {u} /\ u \in CacheItem
  <2>1. op[o].payload \in Cache /\ op[o].payload # {}
    BY <1>2, CallFacts DEF Started
  <2>2. QED
    BY <2>1 DEF Cache
<1>4. u.updatedAt \in Nat
  BY <1>3, ItemFacts
<1>5. Leaves(op[o], u.updatedAt, op)
  BY <1>3, <1>4 DEF Leaves, Covers
<1>6. Holders(o) = Having(op[o].replicas, u.updatedAt, store)
  BY <1>3 DEF Holders, Having, Covers
<1> QED
  BY <1>3, <1>4, <1>5, <1>6

(* A set that returned is on as many replicas as its quorum asks for, on   *)
(* one at least when requests failed, and stays there or is replaced by a  *)
(* newer one: for any number of nodes, calls and lists, clocks however far *)
(* apart, when nothing expires and deletes, if any, leave tombstones.      *)
THEOREM KVAcknowledgedIsStored ==
  ASSUME Lasting
  PROVE  Spec => []AcknowledgedIsStored
<1>1. LastingInv => AcknowledgedIsStored
  <2> SUFFICES ASSUME LastingInv, NEW o \in Op, Returned(o, "set")
               PROVE  Cardinality(Holders(o)) >= IF op[o].errors = 0 THEN Waits(o) ELSE 1
    BY DEF AcknowledgedIsStored
  <2>1. PICK u \in op[o].payload : /\ u.updatedAt \in Nat /\ Leaves(op[o], u.updatedAt, op)
                                   /\ Holders(o) = Having(op[o].replicas, u.updatedAt, store)
    BY SetFacts DEF LastingInv, Returned
  <2>2. Left(o, op[o], u.updatedAt, store, replies, torun)
    BY <2>1 DEF LastingInv, LeftInv
  <2>3. Waits(o) = Enough(op[o])
    BY DEF Waits, Enough
  <2>4. QED
    BY <2>1, <2>2, <2>3 DEF Left, Returned
<1> QED
  BY <1>1, LastingInvHolds, PTL

(* The replicas of a set converge on it or on a newer one, whatever the    *)
(* order in which each of them ran the commands, under the same            *)
(* hypotheses.                                                             *)
THEOREM KVReplicasConverge ==
  ASSUME Lasting
  PROVE  Spec => []ReplicasConverge
<1>1. LastingInv => ReplicasConverge
  <2> SUFFICES ASSUME LastingInv, NEW o \in Op, op[o].kind = "set", op[o].phase # "racing",
                      torun \cap ({o} \X Node) = {}, op[o].errors = 0, op[o].asked # {}
               PROVE  Holders(o) = op[o].replicas
    BY DEF ReplicasConverge
  <2>1. KVInv
    BY DEF LastingInv
  <2>2. op[o].phase # "idle"
    BY <2>1 DEF KVInv, CallInv, Idle
  <2>3. op[o] \in Call /\ Started(op[o]) /\ op[o].asked \subseteq Node
    BY <2>1, <2>2, BegunFacts, CallFacts
  <2>4. PICK u \in op[o].payload : /\ u.updatedAt \in Nat /\ Leaves(op[o], u.updatedAt, op)
                                   /\ Holders(o) = Having(op[o].replicas, u.updatedAt, store)
    BY <2>1, SetFacts
  <2>5. Left(o, op[o], u.updatedAt, store, replies, torun)
    BY <2>4 DEF LastingInv, LeftInv
  <2>6. \A p \in op[o].asked : Covers(store[p], u.updatedAt)
    <3>1. \A p \in op[o].asked : <<o, p>> \notin torun
      BY <2>3
    <3>2. QED
      BY <2>5, <3>1 DEF Left
  <2>7. \A p \in op[o].at \cap op[o].replicas : Covers(store[p], u.updatedAt)
    <3>1. Ended(op[o])
      BY <2>2, <2>3, CallFacts DEF Ended
    <3>2. QED
      BY <2>5, <3>1 DEF Left
  <2>8. \A p \in op[o].replicas : p \in op[o].asked \/ p \in op[o].at \cap op[o].replicas
    BY <2>3 DEF Started
  <2>9. QED
    BY <2>4, <2>6, <2>7, <2>8 DEF Having
<1> QED
  BY <1>1, LastingInvHolds, PTL

(* A get whose quorum overlaps with that of an earlier set returns its     *)
(* update or a newer one, whatever the preference lists the two calls had. *)
THEOREM KVQuorumReadsLatest ==
  ASSUME Ttls \subseteq {NoTtl}, "delete" \notin Kinds
  PROVE  Spec => []QuorumReadsLatest
<1>1. Lasting
  BY DEF Lasting
<1>2. LastingInv => QuorumReadsLatest
  <2> SUFFICES ASSUME LastingInv, NEW g \in Op, NEW o \in Op,
                      Returned(g, "get"), o \in op[g].before, op[o].kind = "set",
                      Overlap(g, o), op[g].errors = 0, op[o].errors = 0
               PROVE  \E v \in op[g].value : \E u \in op[o].payload : v.updatedAt >= u.updatedAt
    BY DEF QuorumReadsLatest
  <2>1. PICK u \in op[o].payload : u.updatedAt \in Nat /\ Leaves(op[o], u.updatedAt, op)
    BY SetFacts DEF LastingInv
  <2>2. Found(op[g], op[o], u.updatedAt)
    BY <2>1 DEF LastingInv, ReadInv, Returned
  <2>3. PICK val \in Cache : Covers(val, u.updatedAt) /\ Items(val) /\ op[g].value = plain(val)
    BY <2>2 DEF Found, Overlap, Waits, Enough
  <2>4. \A v \in val : v.item # Deleted
    BY <2>3, StoreAssumption, KVAssumption DEF Items, Item
  <2>5. op[g].value = val
    BY <2>3, <2>4 DEF plain
  <2>6. QED
    BY <2>3, <2>5 DEF Covers
<1> QED
  BY <1>1, <1>2, LastingInvHolds, PTL

(* A deleted value is not read again by a get whose quorum overlaps with   *)
(* that of the delete, if the set before it had reached all its replicas.  *)
THEOREM KVDeletedIsHidden ==
  ASSUME Ttls \subseteq {NoTtl}, Tombstone
  PROVE  Spec => []DeletedIsHidden
<1>1. Lasting
  BY DEF Lasting
<1>2. LastingInv => DeletedIsHidden
  <2> SUFFICES ASSUME LastingInv, NEW g \in Op, NEW d \in Op, NEW o \in Op,
                      Returned(g, "get"), d \in op[g].before, op[d].kind = "delete",
                      o \in op[d].before, Waits(o) = Cardinality(op[o].replicas),
                      Overlap(g, d), op[d].replicas \subseteq op[o].replicas,
                      op[g].errors = 0, op[d].errors = 0, op[o].errors = 0,
                      \A v \in op[o].payload : v.updatedAt < op[d].since,
                      NEW v \in op[g].value, v.item = o
               PROVE  FALSE
    BY DEF DeletedIsHidden
  <2>1. op[d].phase # "idle" /\ op[o].phase = "returned"
    BY DEF LastingInv, KVInv, CallInv, Idle
  <2>2. /\ op[d] \in Call /\ op[d].since \in Nat
        /\ op[o] \in Call /\ Started(op[o])
    BY <2>1, BegunFacts, CallFacts DEF LastingInv
  <2>3. CASE op[o].kind = "set"
    <3>1. Leaves(op[d], op[d].since, op)
      <4>1. Enough(op[o]) = Cardinality(op[o].replicas)
        BY DEF Waits, Enough
      <4>2. op[d].since >= op[d].since
        BY <2>2
      <4>3. QED
        BY <2>3, <4>1, <4>2 DEF Leaves
    <3>2. Found(op[g], op[d], op[d].since)
      BY <2>2, <3>1 DEF LastingInv, ReadInv, Returned
    <3>3. PICK val \in Cache : Covers(val, op[d].since) /\ Items(val) /\ op[g].value = plain(val)
      BY <3>2 DEF Found, Overlap, Waits, Enough
    <3>4. v \in val
      BY <3>3 DEF plain
    <3>5. v.updatedAt >= op[d].since
      BY <3>3, <3>4 DEF Covers, Cache
    <3>6. v \in op[o].payload
      BY <3>3, <3>4, StoreAssumption, KVAssumption DEF Items, Item
    <3>7. v.updatedAt \in Nat
      BY <3>3, <3>4, ItemFacts DEF Cache
    <3>8. QED
      BY <2>2, <3>5, <3>6, <3>7
  <2>4. CASE op[o].kind # "set"
    <3>1. op[o].payload = {}
      BY <2>2, <2>4 DEF Started
    <3>2. Item(v)
      BY DEF LastingInv, ItemInv, Items
    <3>3. v \in op[o].payload
      BY <3>2, StoreAssumption, KVAssumption DEF Item
    <3>4. QED
      BY <3>1, <3>3
  <2>5. QED
    BY <2>3, <2>4
<1> QED
  BY <1>1, <1>2, LastingInvHolds, PTL
=============================================================================
