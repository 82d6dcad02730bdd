--------------------------- MODULE TransferProofs ---------------------------
(***************************************************************************)
(* Theorems about Transfer, for any keys, tokens, batches and writes of    *)
(* clients.  A move deletes at the source what it has sent: nothing is     *)
(* lost because the item it deletes is the one it sent, unless a client    *)
(* wrote the key in between (WindowInv), and what it sent is with the      *)
(* target or on the wire (SentInv).  That every owed key is handed over    *)
(* follows the iterator: a listed key is in the batch, in what the         *)
(* iterator has yet to visit, or in a token to come (Pending).             *)
(***************************************************************************)
EXTENDS Transfer, LoopProofs, SequenceTheorems

-----------------------------------------------------------------------------
(* Items and caches *)

\* The items and the caches at time t, and the chunks: live items, one of a key.
Items(t) == Item(Value \cup {Deleted}, Epoch .. t)
Cell(t)  == {c \in SUBSET Items(t) : \A v, w \in c : v = w}
Chunk(t) == {ch \in SUBSET (Key \X Items(t)) :
               /\ \A d \in ch : d[2].item # Deleted
               /\ \A d, e \in ch : d[1] = e[1] => d = e}

Covers(c, t)     == \E v \in c : v.updatedAt >= t
InChunk(ch, k, t) == \E d \in ch : d[1] = k /\ d[2].updatedAt >= t
Live(c)          == \E v \in c : v.item # Deleted
tombstone(t)     == [item |-> Deleted, updatedAt |-> t, ttl |-> NoTtl]

LEMMA ItemFacts ==
  ASSUME NEW t \in Nat, NEW v \in Items(t)
  PROVE  /\ v.updatedAt \in Nat /\ v.updatedAt <= t /\ v.updatedAt >= Epoch
         /\ v.ttl = NoTtl /\ v.item \in Value \cup {Deleted}
         /\ v = [item |-> v.item, updatedAt |-> v.updatedAt, ttl |-> NoTtl]
BY TransferAssumption DEF Items, Item

LEMMA ItemsGrow ==
  ASSUME NEW t \in Nat
  PROVE  /\ Items(t) \subseteq Items(t + 1) /\ Cell(t) \subseteq Cell(t + 1)
         /\ Chunk(t) \subseteq Chunk(t + 1)
<1>1. Items(t) \subseteq Items(t + 1)
  BY TransferAssumption DEF Items, Item
<1>2. Cell(t) \subseteq Cell(t + 1)
  BY <1>1 DEF Cell
<1>3. Chunk(t) \subseteq Chunk(t + 1)
  BY <1>1 DEF Chunk
<1>4. QED
  BY <1>1, <1>2, <1>3

(* Without ttls the commands do this.                                      *)
LEMMA SetPlain ==
  ASSUME NEW t \in Nat, NEW c \in Cell(t), NEW v \in Items(t)
  PROVE  /\ set(c, v, t) = IF accepts(c, v) THEN {v} ELSE c
         /\ set(c, v, t) \in Cell(t)
         /\ \A n \in Nat : Covers(c, n) \/ v.updatedAt >= n => Covers(set(c, v, t), n)
<1>1. v.ttl = NoTtl /\ v.updatedAt \in Nat /\ \A d \in c : d.updatedAt \in Nat
  BY ItemFacts DEF Cell
<1>2. buildCacheValue(v, t) = v /\ ~ isAlreadyExpired(v, t)
  BY <1>1, ItemFacts DEF buildCacheValue, isAlreadyExpired
<1>3. set(c, v, t) = IF accepts(c, v) THEN {v} ELSE c
  BY <1>1, <1>2 DEF set, accepts
<1>4. set(c, v, t) \in Cell(t)
  BY <1>3 DEF Cell
<1>5. ASSUME NEW n \in Nat, Covers(c, n) \/ v.updatedAt >= n PROVE Covers(set(c, v, t), n)
  <2>1. CASE accepts(c, v)
    <3>1. v.updatedAt >= n
      BY <1>1, <1>5, <2>1 DEF accepts, Covers
    <3>2. QED
      BY <1>3, <2>1, <3>1 DEF Covers
  <2>2. CASE ~ accepts(c, v)
    <3>1. PICK d \in c : ~ (d.updatedAt <= v.updatedAt)
      BY <2>2 DEF accepts
    <3>2. v.updatedAt >= n => d.updatedAt >= n
      BY <1>1, <3>1
    <3>3. QED
      BY <1>3, <1>5, <2>2, <3>2 DEF Covers
  <2>3. QED
    BY <2>1, <2>2
<1>6. QED
  BY <1>3, <1>4, <1>5

LEMMA GetPlain ==
  ASSUME NEW t \in Nat, NEW c \in Cell(t)
  PROVE  get(c, t) = c
<1>1. \A v \in c : v.ttl = NoTtl
  BY ItemFacts DEF Cell
<1>2. QED
  BY <1>1 DEF get, isAlreadyExpired

LEMMA DeletePlain ==
  ASSUME NEW t \in Nat, Epoch <= t, NEW c \in Cell(t), c # {}
  PROVE  /\ tombstone(t) \in Items(t)
         /\ delete(c, t, FALSE) = {tombstone(t)}
         /\ accepts(c, tombstone(t))
<1>1. tombstone(t) \in Items(t) /\ tombstone(t).updatedAt = t
  BY TransferAssumption DEF tombstone, Items, Item
<1>2. \A d \in c : d.updatedAt <= t
  BY ItemFacts DEF Cell
<1>3. accepts(c, tombstone(t))
  BY <1>1, <1>2 DEF accepts
<1>4. delete(c, t, FALSE) = set(c, tombstone(t), t)
  BY GetPlain, TransferAssumption DEF delete, tombstone
<1>5. QED
  BY <1>1, <1>3, <1>4, SetPlain

(* A chunk at the target: mset of the one item of a key, if there is one.  *)
msetOne(c, ch, k, t) ==
  IF itemOf(ch, k) = {} THEN c ELSE UNION {set(c, v, t) : v \in itemOf(ch, k)}

LEMMA ChunkItem ==
  ASSUME NEW t \in Nat, NEW ch \in Chunk(t), NEW k \in Key
  PROVE  /\ itemOf(ch, k) \in Cell(t)
         /\ \A v \in itemOf(ch, k) : v.item # Deleted /\ <<k, v>> \in ch
         /\ \A d \in ch : d[1] = k => d[2] \in itemOf(ch, k)
         /\ \A n : InChunk(ch, k, n) <=> Covers(itemOf(ch, k), n)
<1>1. \A d \in ch : d = <<d[1], d[2]>> /\ d[2] \in Items(t) /\ d[2].item # Deleted
  BY DEF Chunk
<1>2. \A d, e \in ch : d[1] = e[1] => d = e
  BY DEF Chunk
<1>3. \A v \in itemOf(ch, k) : \E d \in ch : d[1] = k /\ d[2] = v
  BY DEF itemOf
<1>4. itemOf(ch, k) \in Cell(t)
  <2>1. itemOf(ch, k) \subseteq Items(t)
    BY <1>1, <1>3
  <2>2. \A v, w \in itemOf(ch, k) : v = w
    BY <1>2, <1>3
  <2>3. QED
    BY <2>1, <2>2 DEF Cell
<1>5. \A d \in ch : d[1] = k => d[2] \in itemOf(ch, k)
  BY DEF itemOf
<1>6. \A v \in itemOf(ch, k) : v.item # Deleted /\ <<k, v>> \in ch
  BY <1>1, <1>3
<1>7. \A n : InChunk(ch, k, n) <=> Covers(itemOf(ch, k), n)
  BY <1>3, <1>5 DEF InChunk, Covers
<1>8. QED
  BY <1>4, <1>5, <1>6, <1>7

LEMMA MsetPlain ==
  ASSUME NEW t \in Nat, NEW c \in Cell(t), NEW ch \in Chunk(t), NEW k \in Key
  PROVE  /\ msetOne(c, ch, k, t) \in Cell(t)
         /\ \A n \in Nat : Covers(c, n) \/ InChunk(ch, k, n) => Covers(msetOne(c, ch, k, t), n)
         /\ IF {v \in itemOf(ch, k) : accepts(c, v)} # {}
            THEN Live(msetOne(c, ch, k, t)) ELSE msetOne(c, ch, k, t) = c
<1>1. CASE itemOf(ch, k) = {}
  BY <1>1, ChunkItem DEF msetOne, Covers
<1>2. CASE itemOf(ch, k) # {}
  <2>1. PICK v \in itemOf(ch, k) : itemOf(ch, k) = {v}
    BY <1>2, ChunkItem DEF Cell
  <2>2. v \in Items(t) /\ v.item # Deleted
    BY ChunkItem DEF Cell
  <2>3. msetOne(c, ch, k, t) = set(c, v, t)
    BY <1>2, <2>1 DEF msetOne
  <2>4. \A n \in Nat : InChunk(ch, k, n) => v.updatedAt >= n
    <3>1. SUFFICES ASSUME NEW n \in Nat, InChunk(ch, k, n) PROVE v.updatedAt >= n
      OBVIOUS
    <3>2. Covers(itemOf(ch, k), n)
      BY <3>1, ChunkItem
    <3>3. QED
      BY <2>1, <3>2 DEF Covers
  <2>5. /\ set(c, v, t) = IF accepts(c, v) THEN {v} ELSE c
        /\ set(c, v, t) \in Cell(t)
        /\ \A n \in Nat : Covers(c, n) \/ v.updatedAt >= n => Covers(set(c, v, t), n)
    BY <2>2, SetPlain
  <2>6. QED
    BY <2>1, <2>2, <2>3, <2>4, <2>5 DEF Live
<1>3. QED
  BY <1>1, <1>2

-----------------------------------------------------------------------------
(* The stream of the source *)

Stream(t) == [at : {"idle", "writing", "draining", "ended"}, todo : Seq(Token),
              token : SUBSET Token, unvisited : SUBSET Key, live : BOOLEAN,
              batch : SUBSET Key, data : Chunk(t)]

\* The iterator of st has yet to visit k, or its token is to come.
Pending(st, k) == k \in st.unvisited \/ \E i \in DOMAIN st.todo : st.todo[i] = getToken[k]

Read(cache, batch) == UNION {{k} \X cache[k] : k \in batch}

\* What is on the wire after the chunk was written to it, or waits for 'drain'.
Put(data, at) ==
  \/ at = "writing" /\ wire' = (IF broken THEN wire ELSE Append(wire, data))
  \/ at = "draining" /\ wire' = wire

LEMMA StreamFacts ==
  ASSUME NEW t \in Nat, NEW st \in Stream(t)
  PROVE  /\ st.at \in {"idle", "writing", "draining", "ended"} /\ st.todo \in Seq(Token)
         /\ st.token \subseteq Token /\ st.unvisited \subseteq Key /\ st.live \in BOOLEAN
         /\ st.batch \subseteq Key /\ st.data \in Chunk(t)
BY DEF Stream

LEMMA IdleFacts ==
  ASSUME NEW t \in Nat
  PROVE  /\ Idle \in Stream(t) /\ [Idle EXCEPT !.at = "ended"] \in Stream(t)
         /\ [Idle EXCEPT !.at = "ended"].at = "ended"
         /\ [Idle EXCEPT !.at = "ended"].unvisited = {} /\ [Idle EXCEPT !.at = "ended"].batch = {}
         /\ [Idle EXCEPT !.at = "ended"].data = {} /\ Idle.unvisited = {} /\ Idle.todo = Asked
<1>1. {} \in Chunk(t) /\ Asked \in Seq(Token)
  BY TransferAssumption DEF Chunk
<1>2. QED
  BY <1>1 DEF Idle, Stream

(* What mget reads of live, listed keys is a chunk.                        *)
LEMMA ReadFacts ==
  ASSUME NEW t \in Nat, NEW cache, NEW batch \in SUBSET Key,
         \A k \in batch : cache[k] \in Cell(t) /\ Live(cache[k])
  PROVE  /\ Read(cache, batch) \in Chunk(t)
         /\ UNION {{k} \X get(cache[k], t) : k \in batch} = Read(cache, batch)
         /\ \A d \in Read(cache, batch) : d[1] \in batch /\ d[2] \in cache[d[1]]
         /\ \A k \in batch : \A v \in cache[k] : <<k, v>> \in Read(cache, batch)
<1>1. \A k \in batch : \A v \in cache[k] : v.item # Deleted
  BY DEF Live, Cell
<1>2. \A k \in batch : cache[k] \subseteq Items(t) /\ \A v, w \in cache[k] : v = w
  BY DEF Cell
<1>3. \A d \in Read(cache, batch) :
        d[1] \in batch /\ d[2] \in cache[d[1]] /\ d = <<d[1], d[2]>>
  BY DEF Read
<1>4. Read(cache, batch) \subseteq Key \X Items(t)
  BY <1>2, <1>3
<1>5. Read(cache, batch) \in Chunk(t)
  BY <1>1, <1>2, <1>3, <1>4 DEF Chunk
<1>6. \A k \in batch : get(cache[k], t) = cache[k]
  BY GetPlain
<1>7. UNION {{k} \X get(cache[k], t) : k \in batch} = Read(cache, batch)
  BY <1>6 DEF Read
<1>8. \A k \in batch : \A v \in cache[k] : <<k, v>> \in Read(cache, batch)
  BY DEF Read
<1>9. QED
  BY <1>3, <1>5, <1>7, <1>8

(* A yield takes the batch from the iterator and leaves the tokens.        *)
LEMMA YieldFacts ==
  ASSUME now \in Nat, NEW st \in Stream(now), NEW cache, NEW batch \in SUBSET st.unvisited,
         \A k \in batch : cache[k] \in Cell(now) /\ Live(cache[k]),
         yield(st, batch, cache)
  PROVE  /\ stream' \in Stream(now) /\ stream'.todo = st.todo /\ stream'.token = st.token
         /\ stream'.unvisited = st.unvisited \ batch
         /\ stream'.batch = batch /\ stream'.data = Read(cache, batch)
         /\ Put(stream'.data, stream'.at)
<1> DEFINE data == UNION {{k} \X get(cache[k], now) : k \in batch}
           end  == Cardinality(batch) = BatchSize
           next == [st EXCEPT !.batch = batch, !.data = data,
                              !.unvisited = @ \ batch, !.live = end]
<1>1. batch \subseteq Key /\ st.unvisited \subseteq Key
  BY StreamFacts
<1>2. data \in Chunk(now) /\ data = Read(cache, batch)
  <2>1. batch \in SUBSET Key
    BY <1>1
  <2>2. /\ Read(cache, batch) \in Chunk(now)
        /\ UNION {{k} \X get(cache[k], now) : k \in batch} = Read(cache, batch)
    BY <2>1, ReadFacts
  <2>3. QED
    BY <2>2
<1>3. end \in BOOLEAN
  OBVIOUS
<1>4. \/ stream' = [next EXCEPT !.at = "writing"] /\ wire' = (IF broken THEN wire ELSE Append(wire, data))
      \/ stream' = [next EXCEPT !.at = "draining"] /\ wire' = wire
  BY DEF yield
<1> HIDE DEF data, end
<1>5. PICK at \in {"writing", "draining"} :
        /\ stream' = [next EXCEPT !.at = at]
        /\ Put(data, at)
  BY <1>4 DEF Put
<1>6. stream' = [at |-> at, todo |-> st.todo, token |-> st.token,
                 unvisited |-> st.unvisited \ batch, live |-> end, batch |-> batch, data |-> data]
  BY <1>5 DEF Stream
<1>7. stream' \in Stream(now)
  BY <1>1, <1>2, <1>3, <1>6 DEF Stream
<1>8. QED
  BY <1>2, <1>5, <1>6, <1>7

\* The two ways on: the end of the call when nothing is left, or a chunk of
\* listed keys, with what is listed and was pending in it or pending still.
Ends(st, listed) ==
  /\ stream' = [Idle EXCEPT !.at = "ended"] /\ wire' = wire
  /\ \A k \in listed : ~ Pending(st, k)

Yields(st, cache, listed) ==
  /\ stream' \in Stream(now)
  /\ stream'.unvisited \subseteq OfTokens(listed, stream'.token)
  /\ stream'.batch \subseteq listed
  /\ stream'.data = Read(cache, stream'.batch)
  /\ Put(stream'.data, stream'.at)
  /\ \A k \in listed : Pending(st, k) => k \in stream'.batch \/ Pending(stream', k)

LEMMA Proceeds ==
  ASSUME now \in Nat, NEW st \in Stream(now), NEW cache, NEW listed \in SUBSET Key,
         st.unvisited \subseteq OfTokens(listed, st.token),
         \A k \in listed : cache[k] \in Cell(now) /\ Live(cache[k]),
         proceed(st, cache, listed)
  PROVE  Ends(st, listed) \/ Yields(st, cache, listed)
<1>1. /\ st.todo \in Seq(Token) /\ st.unvisited \subseteq Key /\ st.token \subseteq Token
      /\ st.batch \subseteq Key /\ st.data \in Chunk(now) /\ st.live \in BOOLEAN
      /\ DOMAIN st.todo = 1 .. Len(st.todo) /\ Len(st.todo) \in Nat
  BY StreamFacts, LenProperties
<1>2. \A T : OfTokens(listed, T) \subseteq listed
  BY DEF OfTokens
<1>3. CASE st.unvisited # {}
  <2>1. PICK batch \in getBatchedKeys(st.unvisited) : yield(st, batch, cache)
    BY <1>3 DEF proceed
  <2>2. batch \in SUBSET st.unvisited
    BY DEF getBatchedKeys, kSubset
  <2>3. \A k \in batch : k \in listed /\ cache[k] \in Cell(now) /\ Live(cache[k])
    BY <1>2, <2>2
  <2>4. /\ stream' \in Stream(now) /\ stream'.todo = st.todo /\ stream'.token = st.token
        /\ stream'.unvisited = st.unvisited \ batch
        /\ stream'.batch = batch /\ stream'.data = Read(cache, batch)
        /\ Put(stream'.data, stream'.at)
    BY <2>1, <2>2, <2>3, YieldFacts
  <2>5. \A k \in listed : Pending(st, k) => k \in stream'.batch \/ Pending(stream', k)
    BY <2>4 DEF Pending
  <2>6. Yields(st, cache, listed)
    BY <2>3, <2>4, <2>5 DEF Yields
  <2>7. QED
    BY <2>6
<1>4. CASE st.unvisited = {}
  <2> DEFINE keysOf(i) == OfTokens(listed, {st.todo[i]})
             full      == {i \in DOMAIN st.todo : keysOf(i) # {}}
             m         == Min(full)
  <2>1. /\ full = {} => stream' = [Idle EXCEPT !.at = "ended"] /\ wire' = wire
        /\ full # {} => \E batch \in getBatchedKeys(keysOf(m)) :
             yield([st EXCEPT !.token = {st.todo[m]}, !.unvisited = keysOf(m),
                              !.todo = SubSeq(@, m + 1, Len(@))], batch, cache)
    BY <1>4 DEF proceed
  <2>2. ASSUME NEW k \in listed, Pending(st, k)
        PROVE  \E i \in full : st.todo[i] = getToken[k]
    <3>1. PICK i \in DOMAIN st.todo : st.todo[i] = getToken[k]
      BY <1>4, <2>2 DEF Pending
    <3>2. k \in keysOf(i)
      BY <2>2, <3>1 DEF OfTokens
    <3>3. QED
      BY <3>1, <3>2
  <2>3. CASE full = {}
    <3>1. \A k \in listed : ~ Pending(st, k)
      BY <2>2, <2>3
    <3>2. QED
      BY <2>1, <2>3, <3>1 DEF Ends
  <2>4. CASE full # {}
    <3>1. m \in full /\ \A i \in full : m <= i
      <4>1. full \in SUBSET Nat
        BY <1>1
      <4> HIDE DEF full
      <4>2. \E x \in full : \A y \in full : x <= y
        BY <2>4, <4>1, NatMin
      <4>3. QED
        BY <4>2 DEF Min
    <3>2. m \in 1 .. Len(st.todo) /\ st.todo[m] \in Token
      <4>1. m \in DOMAIN st.todo
        BY <3>1
      <4> HIDE DEF m
      <4>2. QED
        BY <1>1, <4>1, ElementOfSeq
    <3> DEFINE keys == keysOf(m)
               rest == SubSeq(st.todo, m + 1, Len(st.todo))
               new  == [st EXCEPT !.token = {st.todo[m]}, !.unvisited = keys, !.todo = rest]
    <3>3. keys \subseteq listed /\ keys = OfTokens(listed, {st.todo[m]})
      BY <1>2
    <3>4. /\ rest \in Seq(Token)
          /\ Len(rest) = Len(st.todo) - m
          /\ \A i \in 1 .. Len(st.todo) - m : rest[i] = st.todo[m + i]
      <4> HIDE DEF m
      <4>1. m + 1 \in 1 .. Len(st.todo) + 1 /\ m \in Nat
        BY <1>1, <3>2
      <4>2. /\ SubSeq(st.todo, m + 1, Len(st.todo)) \in Seq(Token)
            /\ Len(SubSeq(st.todo, m + 1, Len(st.todo))) =
                 IF m + 1 <= Len(st.todo) THEN Len(st.todo) - (m + 1) + 1 ELSE 0
            /\ \A i \in 1 .. Len(st.todo) - (m + 1) + 1 :
                 SubSeq(st.todo, m + 1, Len(st.todo))[i] = st.todo[m + 1 + i - 1]
        BY <1>1, <4>1, SubSeqProperties
      <4>3. QED
        BY <1>1, <3>2, <4>1, <4>2
    <3>5. DOMAIN rest = 1 .. Len(st.todo) - m
      BY <3>4, LenProperties
    <3>6. \E batch \in getBatchedKeys(keys) : yield(new, batch, cache)
      BY <2>1, <2>4
    <3> HIDE DEF keysOf, m, keys, rest
    <3>7. PICK batch \in getBatchedKeys(keys) : yield(new, batch, cache)
      BY <3>6
    <3>8. batch \in SUBSET keys
      BY DEF getBatchedKeys, kSubset
    <3>9. keys \subseteq Key /\ {st.todo[m]} \subseteq Token
      BY <3>2, <3>3
    <3>10. /\ new \in Stream(now)
           /\ new.unvisited = keys /\ new.todo = rest /\ new.token = {st.todo[m]}
      BY <3>4, <3>9, st \in Stream(now) DEF Stream
    <3> HIDE DEF new
    <3>11. \A k \in batch : k \in listed /\ cache[k] \in Cell(now) /\ Live(cache[k])
      BY <3>3, <3>8
    <3>12. /\ stream' \in Stream(now) /\ stream'.todo = rest /\ stream'.token = {st.todo[m]}
           /\ stream'.unvisited = keys \ batch
           /\ stream'.batch = batch /\ stream'.data = Read(cache, batch)
           /\ Put(stream'.data, stream'.at)
      BY <3>7, <3>8, <3>10, <3>11, YieldFacts
    <3>13. ASSUME NEW k \in listed, Pending(st, k)
           PROVE  k \in stream'.batch \/ Pending(stream', k)
      <4>1. PICK i \in full : st.todo[i] = getToken[k]
        BY <2>2, <3>13
      <4>2. i \in 1 .. Len(st.todo) /\ m <= i
        BY <1>1, <3>1, <4>1
      <4>3. CASE i = m
        <5>1. k \in keys
          BY <3>3, <3>13, <4>1, <4>3 DEF OfTokens
        <5>2. QED
          BY <3>12, <5>1 DEF Pending
      <4>4. CASE i # m
        <5>1. i - m \in 1 .. Len(st.todo) - m /\ m + (i - m) = i
          BY <1>1, <3>2, <4>2, <4>4
        <5>2. i - m \in DOMAIN rest /\ rest[i - m] = getToken[k]
          BY <3>4, <3>5, <4>1, <5>1
        <5>3. QED
          BY <3>12, <5>2 DEF Pending
      <4>5. QED
        BY <4>3, <4>4
    <3>14. stream'.unvisited \subseteq OfTokens(listed, stream'.token)
      BY <3>3, <3>12
    <3>15. stream'.batch \subseteq listed
      BY <3>11, <3>12
    <3>16. Yields(st, cache, listed)
      BY <3>12, <3>13, <3>14, <3>15 DEF Yields
    <3>17. QED
      BY <3>16
  <2>5. QED
    BY <2>3, <2>4
<1>5. QED
  BY <1>3, <1>4

-----------------------------------------------------------------------------
(* The wire *)

\* An item of k as new as t is on the wire; or anywhere, see copies.
Wired(k, t) == \E i \in DOMAIN wire : InChunk(wire[i], k, t)

Around(k, t) ==
  \/ Covers(store["source"][k], t) \/ Covers(store["target"][k], t) \/ Wired(k, t)
  \/ stream.at = "draining" /\ InChunk(stream.data, k, t)

LEMMA WireAppends ==
  ASSUME NEW t \in Nat, wire \in Seq(Chunk(t)), NEW ch \in Chunk(t), wire' = Append(wire, ch)
  PROVE  /\ wire' \in Seq(Chunk(t)) /\ wire' # << >> /\ wire'[Len(wire')] = ch
         /\ \A k \in Key, n \in Nat : Wired(k, n)' <=> Wired(k, n) \/ InChunk(ch, k, n)
<1>1. /\ wire' \in Seq(Chunk(t)) /\ wire' # << >> /\ Len(wire') = Len(wire) + 1
      /\ \A i \in 1 .. Len(wire) : wire'[i] = wire[i]
      /\ wire'[Len(wire) + 1] = ch
  BY AppendProperties
<1>2. DOMAIN wire = 1 .. Len(wire) /\ DOMAIN wire' = 1 .. Len(wire) + 1 /\ Len(wire) \in Nat
  BY <1>1, LenProperties
<1>3. ASSUME NEW k \in Key, NEW n \in Nat
      PROVE  Wired(k, n)' <=> Wired(k, n) \/ InChunk(ch, k, n)
  <2>1. ASSUME Wired(k, n)' PROVE Wired(k, n) \/ InChunk(ch, k, n)
    <3>1. PICK i \in DOMAIN wire' : InChunk(wire'[i], k, n)
      BY <2>1 DEF Wired
    <3>2. CASE i \in DOMAIN wire
      BY <1>1, <1>2, <3>1, <3>2 DEF Wired
    <3>3. CASE i = Len(wire) + 1
      BY <1>1, <3>1, <3>3
    <3>4. QED
      BY <1>2, <3>2, <3>3
  <2>2. ASSUME Wired(k, n) PROVE Wired(k, n)'
    <3>1. PICK i \in DOMAIN wire : InChunk(wire[i], k, n)
      BY <2>2 DEF Wired
    <3>2. i \in DOMAIN wire' /\ wire'[i] = wire[i]
      BY <1>1, <1>2
    <3>3. QED
      BY <3>1, <3>2 DEF Wired
  <2>3. ASSUME InChunk(ch, k, n) PROVE Wired(k, n)'
    <3>1. Len(wire) + 1 \in DOMAIN wire' /\ wire'[Len(wire) + 1] = ch
      BY <1>1, <1>2
    <3>2. QED
      BY <2>3, <3>1 DEF Wired
  <2>4. QED
    BY <2>1, <2>2, <2>3
<1>4. QED
  BY <1>1, <1>3

LEMMA WireDelivers ==
  ASSUME NEW t \in Nat, wire \in Seq(Chunk(t)), wire # << >>, wire' = Tail(wire)
  PROVE  /\ Head(wire) \in Chunk(t) /\ wire' \in Seq(Chunk(t))
         /\ IF wire' = << >> THEN Head(wire) = wire[Len(wire)]
                             ELSE wire'[Len(wire')] = wire[Len(wire)]
         /\ \A k \in Key, n \in Nat : Wired(k, n) => Wired(k, n)' \/ InChunk(Head(wire), k, n)
<1>1. DOMAIN wire = 1 .. Len(wire) /\ Len(wire) \in Nat /\ Len(wire) # 0
  BY LenProperties, EmptySeq
<1>2. /\ Head(wire) \in Chunk(t) /\ wire' \in Seq(Chunk(t)) /\ Len(wire') = Len(wire) - 1
      /\ \A i \in 1 .. Len(wire') : wire'[i] = wire[i + 1]
  BY HeadTailProperties
<1>3. Head(wire) = wire[1] /\ DOMAIN wire' = 1 .. Len(wire) - 1
  BY <1>1, <1>2, LenProperties
<1>4. CASE wire' = << >>
  <2>1. Len(wire') = 0
    BY <1>4, EmptySeq
  <2>2. Len(wire) = 1
    BY <1>1, <1>2, <2>1
  <2>3. \A i \in DOMAIN wire : i = 1
    BY <1>1, <2>2
  <2>4. QED
    BY <1>2, <1>3, <1>4, <2>2, <2>3 DEF Wired
<1>5. CASE wire' # << >>
  <2>1. Len(wire') \in 1 .. Len(wire') /\ Len(wire') + 1 = Len(wire)
    BY <1>1, <1>2, <1>5, EmptySeq
  <2>2. wire'[Len(wire')] = wire[Len(wire)]
    BY <1>2, <2>1
  <2>3. ASSUME NEW k \in Key, NEW n \in Nat, Wired(k, n)
        PROVE  Wired(k, n)' \/ InChunk(Head(wire), k, n)
    <3>1. PICK i \in DOMAIN wire : InChunk(wire[i], k, n)
      BY <2>3 DEF Wired
    <3>2. CASE i = 1
      BY <1>3, <3>1, <3>2
    <3>3. CASE i # 1
      <4>1. i - 1 \in DOMAIN wire' /\ i - 1 + 1 = i /\ i - 1 \in 1 .. Len(wire')
        BY <1>1, <1>2, <1>3, <3>3
      <4>2. wire'[i - 1] = wire[i]
        BY <1>2, <4>1
      <4>3. QED
        BY <3>1, <4>1, <4>2 DEF Wired
    <3>4. QED
      BY <3>2, <3>3
  <2>4. QED
    BY <1>2, <1>5, <2>2, <2>3
<1>6. QED
  BY <1>4, <1>5

(* The property's copies of a key are those around it.                     *)
LEMMA CopiesAround ==
  ASSUME NEW t \in Nat, wire \in Seq(Chunk(t)), stream \in Stream(t), NEW k \in Key, NEW n
  PROVE  Covers(copies(k), n) <=> Around(k, n)
<1>1. DOMAIN wire = 1 .. Len(wire) /\ \A i \in DOMAIN wire : wire[i] \in Chunk(t)
  BY LenProperties, ElementOfSeq
<1>2. stream.data \in Chunk(t)
  BY StreamFacts
<1>3. \A i \in DOMAIN wire : InChunk(wire[i], k, n) <=> Covers(itemOf(wire[i], k), n)
  BY <1>1, ChunkItem
<1>4. InChunk(stream.data, k, n) <=> Covers(itemOf(stream.data, k), n)
  BY <1>2, ChunkItem
<1>5. Wired(k, n) <=> Covers(UNION {itemOf(wire[i], k) : i \in DOMAIN wire}, n)
  BY <1>3 DEF Wired, Covers
<1>6. Covers(UNION {store[s][k] : s \in Side}, n)
        <=> Covers(store["source"][k], n) \/ Covers(store["target"][k], n)
  BY DEF Side, Covers
<1> DEFINE A == UNION {store[s][k] : s \in Side}
           B == UNION {itemOf(wire[i], k) : i \in DOMAIN wire}
           C == IF stream.at = "draining" THEN itemOf(stream.data, k) ELSE {}
<1>7. copies(k) = A \cup B \cup C
  BY DEF copies
<1>8. Covers(C, n) <=> stream.at = "draining" /\ InChunk(stream.data, k, n)
  BY <1>4 DEF Covers
<1> HIDE DEF A, B, C
<1>9. Covers(copies(k), n) <=> Covers(A, n) \/ Covers(B, n) \/ Covers(C, n)
  BY <1>7 DEF Covers
<1>10. QED
  BY <1>5, <1>6, <1>8, <1>9 DEF Around, A, B

-----------------------------------------------------------------------------
(* The inductive invariant *)

Typed ==
  /\ now \in Nat /\ Epoch <= now /\ (now <= MaxTime \/ now = Epoch)
  /\ store \in [Side -> [Key -> Cell(now)]]
  /\ keysMeta \in [Side -> SUBSET Key]
  /\ command \in Command
  /\ stream \in Stream(now) /\ wire \in Seq(Chunk(now))
  /\ stream.unvisited \subseteq OfTokens(keysMeta["source"], stream.token)
  /\ \A d \in stream.data : d[1] \in stream.batch
  /\ broken \in BOOLEAN /\ loop \in {"none", "reading", "done", "failed"}
  /\ calls \in 0 .. MaxCalls
  /\ newest \in [Key -> {0} \cup Epoch .. now]
  /\ risked \subseteq Key /\ owed \subseteq Key

\* A key of the batch that no client wrote at the source since it was read: of
\* a move unless it is risked, and any that is owed.
Clean(k) == k \in owed \/ (command = "MoveData" /\ k \notin risked)

\* In the window the batch holds what the source holds.
WindowInv ==
  stream.at \in {"draining", "writing"} =>
    \A k \in stream.batch : Clean(k) =>
      /\ \A v \in store["source"][k] : <<k, v>> \in stream.data
      /\ \A d \in stream.data : d[1] = k => d[2] \in store["source"][k]

\* What is being written is the last on the wire, or with the target.
SentInv ==
  stream.at = "writing" /\ ~ broken =>
    IF wire = << >>
    THEN \A d \in stream.data : Covers(store["target"][d[1]], d[2].updatedAt)
    ELSE wire[Len(wire)] = stream.data

KeptInv == \A k \in Key \ risked : newest[k] # 0 => Around(k, newest[k])

\* A copy leaves every newest update with one of the two sides.
CopyInv ==
  command = "CopyData" => \A k \in Key : newest[k] # 0 =>
    Covers(store["source"][k], newest[k]) \/ Covers(store["target"][k], newest[k])

\* An owed key is yet to be sent, and listed, or sent, and gone if moved.
Waits(k) ==
  /\ stream.at \in {"draining", "writing"}
  /\ k \in keysMeta["source"]
  /\ k \in stream.batch \/ Pending(stream, k)

Handed(k) ==
  /\ command = "MoveData" => store["source"][k] = {}
  /\ Covers(store["target"][k], newest[k]) \/ Wired(k, newest[k])

OwedInv == ~ broken => \A k \in owed : k \notin risked /\ (Waits(k) \/ Handed(k))

StagesInv ==
  /\ stream.at = "idle" => /\ stream.unvisited = {} /\ stream.todo = Asked /\ ~ stream.live
                           /\ wire = << >> /\ risked = {} /\ owed = {}
  /\ loop = "done" => ~ broken /\ stream.at = "ended" /\ wire = << >>

TransferInv ==
  /\ Typed /\ ListedIsLive /\ WindowInv /\ SentInv /\ KeptInv /\ CopyInv /\ OwedInv /\ StagesInv

LEMMA TypedFacts ==
  ASSUME Typed
  PROVE  /\ \A s \in Side, k \in Key : store[s][k] \in Cell(now)
         /\ \A k \in Key : newest[k] \in Nat
         /\ stream.data \in Chunk(now) /\ stream.batch \subseteq Key
         /\ \A d \in stream.data : d[1] \in Key /\ d[2] \in Items(now) /\ d = <<d[1], d[2]>>
<1>1. stream.data \in Chunk(now) /\ stream.batch \subseteq Key
  BY StreamFacts DEF Typed
<1>2. \A d \in stream.data : d[1] \in Key /\ d[2] \in Items(now) /\ d = <<d[1], d[2]>>
  BY <1>1 DEF Chunk
<1>3. \A k \in Key : newest[k] \in Nat
  BY TransferAssumption DEF Typed
<1>4. \A s \in Side, k \in Key : store[s][k] \in Cell(now)
  BY DEF Typed
<1>5. QED
  BY <1>1, <1>2, <1>3, <1>4

(* A newer item covers what an older one covers.                           *)
LEMMA CoversLess ==
  ASSUME NEW t \in Nat, NEW c \in Cell(t), NEW m \in Nat, NEW n \in Nat, Covers(c, m), m >= n
  PROVE  Covers(c, n)
<1>1. \A v \in c : v.updatedAt \in Nat
  BY ItemFacts DEF Cell
<1>2. QED
  BY <1>1 DEF Covers

(* What is being written has a copy beyond the source.                     *)
LEMMA Arrives ==
  ASSUME Typed, SentInv, stream.at = "writing", ~ broken, NEW d \in stream.data,
         NEW n \in Nat, d[2].updatedAt >= n
  PROVE  Covers(store["target"][d[1]], n) \/ Wired(d[1], n)
<1>1. d[1] \in Key /\ d[2] \in Items(now) /\ now \in Nat
  BY TypedFacts DEF Typed
<1>2. d[2].updatedAt \in Nat
  BY <1>1, ItemFacts
<1>3. CASE wire = << >>
  <2>1. Covers(store["target"][d[1]], d[2].updatedAt)
    BY <1>3 DEF SentInv
  <2>2. store["target"][d[1]] \in Cell(now)
    BY <1>1, TypedFacts DEF Side
  <2>3. QED
    BY <1>1, <1>2, <2>1, <2>2, CoversLess
<1>4. CASE wire # << >>
  <2>1. wire[Len(wire)] = stream.data
    BY <1>4 DEF SentInv
  <2>2. Len(wire) \in DOMAIN wire
    BY <1>4, LenProperties, EmptySeq DEF Typed
  <2>3. InChunk(wire[Len(wire)], d[1], n)
    BY <2>1 DEF InChunk
  <2>4. QED
    BY <2>2, <2>3 DEF Wired
<1>5. QED
  BY <1>3, <1>4

(* So a clean key of the batch stays covered when the source deletes it.   *)
LEMMA SentKey ==
  ASSUME Typed, ListedIsLive, WindowInv, SentInv, KeptInv, stream.at = "writing", ~ broken,
         NEW k \in stream.batch, Clean(k), k \notin risked, store["source"][k] # {}
  PROVE  Covers(store["target"][k], newest[k]) \/ Wired(k, newest[k])
<1>1. k \in Key /\ newest[k] \in Nat /\ now \in Nat
  BY TypedFacts DEF Typed
<1>2. ASSUME NEW v \in store["source"][k], v.updatedAt >= newest[k]
      PROVE  Covers(store["target"][k], newest[k]) \/ Wired(k, newest[k])
  <2>1. <<k, v>> \in stream.data
    BY DEF WindowInv
  <2>2. <<k, v>>[1] = k /\ <<k, v>>[2] = v
    OBVIOUS
  <2>3. QED
    BY <1>1, <1>2, <2>1, <2>2, Arrives
<1>3. CASE newest[k] = 0
  <2>1. PICK v \in store["source"][k] : TRUE
    OBVIOUS
  <2>2. v \in Items(now)
    BY <1>1, <2>1, TypedFacts DEF Side, Cell
  <2>3. v.updatedAt >= newest[k]
    BY <1>1, <1>3, <2>2, ItemFacts
  <2>4. QED
    BY <1>2, <2>1, <2>3
<1>4. CASE newest[k] # 0
  <2>1. Around(k, newest[k])
    BY <1>1, <1>4 DEF KeptInv
  <2>2. CASE Covers(store["source"][k], newest[k])
    BY <1>2, <2>2 DEF Covers
  <2>3. QED
    BY <2>1, <2>2 DEF Around
<1>5. QED
  BY <1>3, <1>4

-----------------------------------------------------------------------------
(* The steps of the source *)

(* Wherever the loop goes on to, the new batch is what the source holds,   *)
(* and what was listed and pending waits.                                  *)
LEMMA Proceeded ==
  ASSUME Typed, now' = now, broken' = broken, NEW st \in Stream(now), NEW cache,
         NEW listed \in SUBSET Key, st.unvisited \subseteq OfTokens(listed, st.token),
         \A k \in listed : cache[k] \in Cell(now) /\ Live(cache[k]),
         store'["source"] = cache, keysMeta'["source"] = listed, proceed(st, cache, listed)
  PROVE  /\ stream' \in Stream(now) /\ wire' \in Seq(Chunk(now))
         /\ stream'.unvisited \subseteq OfTokens(listed, stream'.token)
         /\ \A d \in stream'.data : d[1] \in stream'.batch
         /\ stream'.at \in {"writing", "draining", "ended"}
         /\ WindowInv' /\ SentInv'
         /\ \A k \in Key, n \in Nat : Wired(k, n) => Wired(k, n)'
         /\ \A k \in listed : Pending(st, k) => Waits(k)'
<1>1. now \in Nat /\ wire \in Seq(Chunk(now)) /\ broken \in BOOLEAN
  BY DEF Typed
<1>2. CASE Ends(st, listed)
  <2>1. stream' = [Idle EXCEPT !.at = "ended"] /\ wire' = wire
    BY <1>2 DEF Ends
  <2>2. /\ stream' \in Stream(now) /\ stream'.at = "ended"
        /\ stream'.unvisited = {} /\ stream'.data = {}
    BY <1>1, <2>1, IdleFacts
  <2>3. \A k \in listed : ~ Pending(st, k)
    BY <1>2 DEF Ends
  <2>4. WindowInv' /\ SentInv'
    BY <2>2 DEF WindowInv, SentInv
  <2>5. QED
    BY <1>1, <2>1, <2>2, <2>3, <2>4 DEF Wired
<1>3. CASE Yields(st, cache, listed)
  <2> DEFINE batch == stream'.batch
             data  == stream'.data
  <2>1. /\ stream' \in Stream(now) /\ batch \subseteq listed /\ data = Read(cache, batch)
        /\ stream'.unvisited \subseteq OfTokens(listed, stream'.token)
        /\ Put(data, stream'.at)
        /\ \A k \in listed : Pending(st, k) => k \in batch \/ Pending(stream', k)
    BY <1>3 DEF Yields
  <2>2. stream'.at \in {"writing", "draining"}
    BY <2>1 DEF Put
  <2>3. batch \in SUBSET Key /\ \A k \in batch : cache[k] \in Cell(now) /\ Live(cache[k])
    BY <2>1
  <2>4. /\ data \in Chunk(now)
        /\ \A d \in data : d[1] \in batch /\ d[2] \in cache[d[1]]
        /\ \A k \in batch : \A v \in cache[k] : <<k, v>> \in data
    <3> HIDE DEF batch, data
    <3>1. QED
      BY <1>1, <2>1, <2>3, ReadFacts
  <2>5. WindowInv'
    BY <2>4 DEF WindowInv
  <2>6. CASE wire' = wire /\ (broken \/ stream'.at = "draining")
    <3>1. SentInv'
      BY <2>6 DEF SentInv
    <3>2. \A k \in Key, n \in Nat : Wired(k, n) => Wired(k, n)'
      BY <2>6 DEF Wired
    <3>3. \A k \in listed : Pending(st, k) => Waits(k)'
      BY <2>1, <2>2 DEF Waits, Pending
    <3>4. QED
      BY <1>1, <2>1, <2>2, <2>4, <2>5, <2>6, <3>1, <3>2, <3>3
  <2>7. CASE wire' = Append(wire, data)
    <3> HIDE DEF data
    <3>1. /\ wire' \in Seq(Chunk(now)) /\ wire' # << >> /\ wire'[Len(wire')] = data
          /\ \A k \in Key, n \in Nat : Wired(k, n)' <=> Wired(k, n) \/ InChunk(data, k, n)
      BY <1>1, <2>4, <2>7, WireAppends
    <3>2. SentInv'
      BY <3>1 DEF SentInv, data
    <3>3. \A k \in listed : Pending(st, k) => Waits(k)'
      BY <2>1, <2>2 DEF Waits, Pending
    <3>4. QED
      BY <2>1, <2>2, <2>4, <2>5, <3>1, <3>2, <3>3 DEF data
  <2>8. QED
    BY <1>1, <2>1, <2>2, <2>6, <2>7 DEF Put
<1>4. QED
  BY <1>1, <1>2, <1>3, Proceeds

LEMMA ListedFacts ==
  ASSUME Typed, ListedIsLive, NEW s \in Side, NEW k \in Key
  PROVE  (k \in keysMeta[s] <=> Live(store[s][k])) /\ store[s][k] \in Cell(now)
BY TypedFacts DEF ListedIsLive, Live

LEMMA StreamStarts == TransferInv /\ executeStream => TransferInv'
<1> SUFFICES ASSUME TransferInv, executeStream PROVE TransferInv'
  OBVIOUS
<1> DEFINE cache  == store["source"]
           listed == keysMeta["source"]
<1>1. Typed /\ ListedIsLive /\ now \in Nat /\ StagesInv /\ KeptInv /\ CopyInv
  BY DEF TransferInv, Typed
<1>2. /\ loop = "reading" /\ stream.at = "idle" /\ ~ broken
      /\ proceed(stream, cache, listed)
      /\ owed' = OfTokens(listed, {Asked[i] : i \in DOMAIN Asked})
      /\ UNCHANGED <<now, store, keysMeta, command, broken, loop, calls, newest, risked>>
  BY DEF executeStream
<1>3. stream.unvisited = {} /\ stream.todo = Asked /\ risked = {}
  BY <1>1, <1>2 DEF StagesInv
<1>4. listed \in SUBSET Key /\ stream \in Stream(now)
  BY <1>1 DEF Typed, Side
<1>5. \A k \in listed : cache[k] \in Cell(now) /\ Live(cache[k])
  BY <1>1, <1>4, ListedFacts DEF Side
<1>6. /\ stream' \in Stream(now) /\ wire' \in Seq(Chunk(now))
      /\ stream'.unvisited \subseteq OfTokens(listed, stream'.token)
      /\ \A d \in stream'.data : d[1] \in stream'.batch
      /\ stream'.at \in {"writing", "draining", "ended"}
      /\ WindowInv' /\ SentInv'
      /\ \A k \in Key, n \in Nat : Wired(k, n) => Wired(k, n)'
      /\ \A k \in listed : Pending(stream, k) => Waits(k)'
  <2> HIDE DEF cache, listed
  <2>1. store'["source"] = cache /\ keysMeta'["source"] = listed
    BY <1>2 DEF cache, listed
  <2>2. stream.unvisited \subseteq OfTokens(listed, stream.token)
    BY <1>3
  <2>3. QED
    BY <1>1, <1>2, <1>4, <1>5, <2>1, <2>2, Proceeded
<1>7. Typed'
  <2>1. owed' \subseteq Key
    BY <1>2, <1>4 DEF OfTokens
  <2>2. QED
    BY <1>1, <1>2, <1>6, <2>1 DEF Typed
<1>8. ListedIsLive'
  BY <1>1, <1>2 DEF ListedIsLive
<1>9. KeptInv'
  <2>1. SUFFICES ASSUME NEW k \in Key \ risked, newest[k] # 0 PROVE Around(k, newest[k])'
    BY <1>2 DEF KeptInv
  <2>2. Around(k, newest[k]) /\ newest[k] \in Nat
    BY <1>1, <2>1, TypedFacts DEF KeptInv
  <2>3. QED
    BY <1>2, <1>6, <2>2 DEF Around
<1>10. CopyInv'
  BY <1>1, <1>2 DEF CopyInv
<1>11. OwedInv'
  <2>1. SUFFICES ASSUME NEW k \in owed' PROVE k \notin risked' /\ Waits(k)'
    BY DEF OwedInv
  <2>2. k \in listed /\ \E i \in DOMAIN Asked : Asked[i] = getToken[k]
    BY <1>2 DEF OfTokens
  <2>3. Pending(stream, k)
    BY <1>3, <2>2 DEF Pending
  <2>4. QED
    BY <1>2, <1>3, <1>6, <2>2, <2>3
<1>12. StagesInv'
  BY <1>2, <1>6 DEF StagesInv
<1>13. QED
  BY <1>6, <1>7, <1>8, <1>9, <1>10, <1>11, <1>12 DEF TransferInv

\* The stream `to` goes on as st does, when what is listed becomes `after`.
Follows(to, st, after, t) ==
  /\ to \in Stream(t)
  /\ to.unvisited \subseteq OfTokens(after, to.token)
  /\ to.at = st.at /\ to.todo = st.todo /\ to.live = st.live
  /\ to.batch = st.batch /\ to.data = st.data
  /\ st.live \/ to.unvisited \subseteq st.unvisited
  /\ \A k \in after : Pending(st, k) => Pending(to, k)

(* A live iterator keeps what is still listed.                             *)
LEMMA FollowFacts ==
  ASSUME NEW t \in Nat, NEW st \in Stream(t), NEW listed \in SUBSET Key, NEW after \in SUBSET Key,
         st.unvisited \subseteq OfTokens(listed, st.token), NEW to, to = follow(st, listed, after)
  PROVE  Follows(to, st, after, t)
<1> DEFINE met  == IF st.live THEN OfTokens(after \ listed, st.token) ELSE {}
           kept == (st.unvisited \cap after) \cup met
<1>1. met \subseteq OfTokens(after, st.token) /\ (met = {} \/ st.live)
  BY DEF OfTokens
<1>2. st.unvisited \cap after \subseteq OfTokens(after, st.token) /\ st.unvisited \subseteq Key
  BY StreamFacts DEF OfTokens
<1>3. kept \subseteq OfTokens(after, st.token) /\ kept \subseteq Key
  BY <1>1, <1>2 DEF OfTokens
<1>4. to = [st EXCEPT !.unvisited = kept]
  BY DEF follow
<1> HIDE DEF met
<1>5. \A k \in after : k \in st.unvisited => k \in kept
  OBVIOUS
<1>6. st.live \/ kept \subseteq st.unvisited
  BY <1>1
<1> HIDE DEF kept
<1>7. /\ to \in Stream(t) /\ to.unvisited = kept
      /\ to.at = st.at /\ to.todo = st.todo /\ to.token = st.token /\ to.live = st.live
      /\ to.batch = st.batch /\ to.data = st.data
  BY <1>3, <1>4 DEF Stream
<1>8. \A k \in after : Pending(st, k) => Pending(to, k)
  BY <1>5, <1>7 DEF Pending
<1>9. QED
  BY <1>3, <1>6, <1>7, <1>8 DEF Follows

LEMMA DrainSteps == TransferInv /\ drain => TransferInv'
<1> SUFFICES ASSUME TransferInv, drain PROVE TransferInv'
  OBVIOUS
<1>1. Typed /\ now \in Nat /\ stream.data \in Chunk(now) /\ wire \in Seq(Chunk(now))
  BY TypedFacts DEF TransferInv, Typed
<1>2. /\ stream.at = "draining" /\ ~ broken
      /\ stream' = [stream EXCEPT !.at = "writing"]
      /\ wire' = Append(wire, stream.data)
      /\ UNCHANGED <<now, store, keysMeta, command, broken, loop, calls, newest, risked, owed>>
  BY DEF drain, history
<1>3. /\ stream' \in Stream(now) /\ stream'.at = "writing" /\ stream'.todo = stream.todo
      /\ stream'.unvisited = stream.unvisited /\ stream'.token = stream.token
      /\ stream'.batch = stream.batch /\ stream'.data = stream.data
  BY <1>1, <1>2 DEF Typed, Stream
<1>4. /\ wire' \in Seq(Chunk(now)) /\ wire' # << >> /\ wire'[Len(wire')] = stream.data
      /\ \A k \in Key, n \in Nat : Wired(k, n)' <=> Wired(k, n) \/ InChunk(stream.data, k, n)
  BY <1>1, <1>2, WireAppends
<1>5. Typed'
  BY <1>1, <1>2, <1>3, <1>4 DEF Typed
<1>6. ListedIsLive' /\ CopyInv'
  BY <1>2 DEF TransferInv, ListedIsLive, CopyInv
<1>7. WindowInv'
  BY <1>2, <1>3 DEF TransferInv, WindowInv, Clean
<1>8. SentInv'
  BY <1>3, <1>4 DEF SentInv
<1>9. KeptInv'
  <2>1. SUFFICES ASSUME NEW k \in Key \ risked, newest[k] # 0 PROVE Around(k, newest[k])'
    BY <1>2 DEF KeptInv
  <2>2. Around(k, newest[k]) /\ newest[k] \in Nat
    BY <1>1, <2>1, TypedFacts DEF KeptInv, TransferInv
  <2>3. QED
    BY <1>2, <1>4, <2>2 DEF Around
<1>10. OwedInv'
  <2>1. SUFFICES ASSUME NEW k \in owed PROVE k \notin risked /\ (Waits(k)' \/ Handed(k)')
    BY <1>2 DEF OwedInv
  <2>2. k \notin risked /\ (Waits(k) \/ Handed(k)) /\ k \in Key /\ newest[k] \in Nat
    BY <1>1, <1>2, TypedFacts DEF OwedInv, TransferInv, Typed
  <2>3. Waits(k) => Waits(k)'
    BY <1>2, <1>3 DEF Waits, Pending
  <2>4. Handed(k) => Handed(k)'
    BY <1>2, <1>4, <2>2 DEF Handed
  <2>5. QED
    BY <2>2, <2>3, <2>4
<1>11. StagesInv'
  BY <1>2, <1>3 DEF TransferInv, StagesInv
<1>12. QED
  BY <1>5, <1>6, <1>7, <1>8, <1>9, <1>10, <1>11 DEF TransferInv

LEMMA WriteFailsSteps == TransferInv /\ writeFails => TransferInv'
<1> SUFFICES ASSUME TransferInv, writeFails PROVE TransferInv'
  OBVIOUS
<1>1. Typed /\ now \in Nat
  BY DEF TransferInv, Typed
<1>2. /\ stream.at = "writing" /\ broken
      /\ stream' = [Idle EXCEPT !.at = "ended"]
      /\ UNCHANGED <<now, store, keysMeta, command, wire, broken, loop, calls, newest, risked, owed>>
  BY DEF writeFails, history
<1>3. /\ stream' \in Stream(now) /\ stream'.at = "ended" /\ stream'.unvisited = {}
      /\ stream'.data = {}
  BY <1>1, <1>2, IdleFacts
<1>4. Typed'
  BY <1>1, <1>2, <1>3 DEF Typed
<1>5. ListedIsLive' /\ CopyInv'
  BY <1>2 DEF TransferInv, ListedIsLive, CopyInv
<1>6. WindowInv' /\ SentInv' /\ OwedInv'
  BY <1>2, <1>3 DEF WindowInv, SentInv, OwedInv
<1>7. KeptInv'
  BY <1>2 DEF TransferInv, KeptInv, Around, Wired
<1>8. StagesInv'
  BY <1>2, <1>3 DEF TransferInv, StagesInv
<1>9. QED
  BY <1>4, <1>5, <1>6, <1>7, <1>8 DEF TransferInv

(* The write is over: what is deleted at the source is what was sent.      *)
LEMMA WrittenSteps == TransferInv /\ written => TransferInv'
<1> SUFFICES ASSUME TransferInv, written PROVE TransferInv'
  OBVIOUS
<1> DEFINE from   == store["source"]
           gone   == mdel(stream)
           cache  == [k \in Key |-> IF k \in gone THEN delete(from[k], now, TRUE) ELSE from[k]]
           listed == keysMeta["source"]
           left   == updateKeysMeta(listed, gone, "delete")
           st     == follow(stream, listed, left)
<1>1. /\ Typed /\ ListedIsLive /\ now \in Nat /\ stream \in Stream(now)
      /\ WindowInv /\ SentInv /\ KeptInv
  BY DEF TransferInv, Typed
<1>2. /\ stream.at = "writing"
      /\ store' = [store EXCEPT !["source"] = cache]
      /\ keysMeta' = [keysMeta EXCEPT !["source"] = left]
      /\ proceed(st, cache, left)
      /\ risked' = IF broken /\ command = "MoveData" THEN risked \cup stream.batch ELSE risked
      /\ UNCHANGED <<now, command, broken, loop, calls, newest, owed>>
  BY DEF written
<1>3. /\ gone \subseteq stream.batch /\ (gone # {} => command = "MoveData")
      /\ command = "MoveData" => \A k \in stream.batch : from[k] # {} => k \in gone
  BY DEF mdel
<1>4. listed \in SUBSET Key /\ left = listed \ gone
  BY <1>1 DEF Typed, Side, updateKeysMeta
<1>5. \A k \in Key : cache[k] = IF k \in gone THEN {} ELSE from[k]
  BY DEF delete
<1>6. /\ store'["source"] = cache /\ store'["target"] = store["target"]
      /\ keysMeta'["source"] = left /\ keysMeta'["target"] = keysMeta["target"]
      /\ store' \in [Side -> [Key -> Cell(now)]] /\ keysMeta' \in [Side -> SUBSET Key]
  <2>1. cache \in [Key -> Cell(now)]
    <3>1. \A k \in Key : from[k] \in Cell(now) /\ {} \in Cell(now)
      BY <1>1, ListedFacts DEF Side, Cell
    <3>2. QED
      BY <1>5, <3>1
  <2>2. left \in SUBSET Key
    BY <1>4
  <2>3. "source" \in Side /\ "target" \in Side
    BY DEF Side
  <2> HIDE DEF cache, left
  <2>4. QED
    BY <1>1, <1>2, <2>1, <2>2, <2>3 DEF Typed
<1> HIDE DEF gone, cache, left
<1>7. /\ st \in Stream(now) /\ st.unvisited \subseteq OfTokens(left, st.token)
      /\ \A k \in left : Pending(stream, k) => Pending(st, k)
  <2>1. left \in SUBSET Key /\ stream.unvisited \subseteq OfTokens(listed, stream.token)
    BY <1>1, <1>4 DEF Typed
  <2>2. Follows(st, stream, left, now)
    BY <1>1, <1>4, <2>1, FollowFacts
  <2>3. QED
    BY <2>2 DEF Follows
<1>8. \A k \in left : cache[k] \in Cell(now) /\ Live(cache[k])
  <2>1. SUFFICES ASSUME NEW k \in left PROVE cache[k] \in Cell(now) /\ Live(cache[k])
    OBVIOUS
  <2>2. k \in Key /\ k \in listed /\ k \notin gone
    BY <1>4
  <2>3. QED
    BY <1>1, <1>5, <2>2, ListedFacts DEF Side
<1> HIDE DEF st
<1>9. /\ stream' \in Stream(now) /\ wire' \in Seq(Chunk(now))
      /\ stream'.unvisited \subseteq OfTokens(left, stream'.token)
      /\ \A d \in stream'.data : d[1] \in stream'.batch
      /\ stream'.at \in {"writing", "draining", "ended"}
      /\ WindowInv' /\ SentInv'
      /\ \A k \in Key, n \in Nat : Wired(k, n) => Wired(k, n)'
      /\ \A k \in left : Pending(st, k) => Waits(k)'
  <2>1. left \in SUBSET Key
    BY <1>4
  <2>2. QED
    BY <1>1, <1>2, <1>6, <1>7, <1>8, <2>1, Proceeded
<1>10. Typed'
  <2>1. risked' \subseteq Key
    BY <1>1, <1>2, TypedFacts DEF Typed
  <2>2. QED
    BY <1>1, <1>2, <1>6, <1>9, <2>1 DEF Typed
<1>11. ListedIsLive'
  <2>1. \A k \in Key : k \in left <=> \E c \in cache[k] : c.item # Deleted
    BY <1>1, <1>4, <1>5 DEF ListedIsLive, Side
  <2>2. QED
    BY <1>1, <1>6, <2>1 DEF ListedIsLive, Side
<1>12. ASSUME NEW k \in Key, k \notin risked', k \in gone
       PROVE  ~ broken /\ (Covers(store["target"][k], newest[k]) \/ Wired(k, newest[k]))
  <2>1. command = "MoveData" /\ k \in stream.batch /\ from[k] # {}
    BY <1>12 DEF gone, mdel
  <2>2. ~ broken /\ k \notin risked
    BY <1>1, <1>2, <1>12, <2>1 DEF Typed
  <2>3. Clean(k)
    BY <2>1, <2>2 DEF Clean
  <2>4. QED
    BY <1>1, <1>2, <2>1, <2>2, <2>3, SentKey
<1>13. KeptInv'
  <2>1. SUFFICES ASSUME NEW k \in Key \ risked', newest[k] # 0 PROVE Around(k, newest[k])'
    BY <1>2 DEF KeptInv
  <2>2. k \notin risked
    BY <1>2
  <2>3. Around(k, newest[k]) /\ newest[k] \in Nat
    BY <1>1, <2>1, <2>2, TypedFacts DEF KeptInv
  <2>4. \/ Covers(from[k], newest[k]) \/ Covers(store["target"][k], newest[k])
        \/ Wired(k, newest[k])
    BY <1>2, <2>3 DEF Around
  <2>5. CASE k \in gone
    BY <1>2, <1>6, <1>9, <1>12, <2>1, <2>3, <2>5 DEF Around
  <2>6. CASE k \notin gone
    BY <1>2, <1>5, <1>6, <1>9, <2>3, <2>4, <2>6 DEF Around
  <2>7. QED
    BY <2>5, <2>6
<1>14. CopyInv'
  <2>1. SUFFICES ASSUME command = "CopyData", NEW k \in Key, newest[k] # 0
                 PROVE  \/ Covers(cache[k], newest[k])
                        \/ Covers(store["target"][k], newest[k])
    BY <1>2, <1>6 DEF CopyInv
  <2>2. k \notin gone
    BY <1>3, <2>1
  <2>3. QED
    BY <1>5, <2>1, <2>2 DEF TransferInv, CopyInv
<1>15. OwedInv'
  <2>1. SUFFICES ASSUME ~ broken, NEW k \in owed
                 PROVE  k \notin risked /\ (Waits(k)' \/ Handed(k)')
    BY <1>2 DEF OwedInv
  <2>2. k \notin risked /\ (Waits(k) \/ Handed(k)) /\ k \in Key /\ newest[k] \in Nat
    BY <1>1, <2>1, TypedFacts DEF OwedInv, TransferInv, Typed
  <2>3. CASE Handed(k)
    <3>1. command = "MoveData" => cache[k] = {}
      BY <1>5, <2>2, <2>3 DEF Handed
    <3>2. Covers(store["target"][k], newest[k]) \/ Wired(k, newest[k])
      BY <2>3 DEF Handed
    <3>3. Handed(k)'
      BY <1>2, <1>6, <1>9, <2>2, <3>1, <3>2 DEF Handed
    <3>4. QED
      BY <2>2, <3>3
  <2>4. CASE Waits(k) /\ k \in stream.batch
    <3>1. from[k] # {} /\ Clean(k)
      BY <1>1, <2>1, <2>2, <2>4, ListedFacts DEF Waits, Live, Clean, Side
    <3>2. Covers(store["target"][k], newest[k]) \/ Wired(k, newest[k])
      BY <1>1, <1>2, <2>1, <2>2, <2>4, <3>1, SentKey
    <3>3. command = "MoveData" => cache[k] = {}
      BY <1>3, <1>5, <2>2, <2>4, <3>1
    <3>4. Handed(k)'
      BY <1>2, <1>6, <1>9, <2>2, <3>2, <3>3 DEF Handed
    <3>5. QED
      BY <2>2, <3>4
  <2>5. CASE Waits(k) /\ k \notin stream.batch
    <3>1. k \in left /\ Pending(stream, k)
      BY <1>3, <1>4, <2>5 DEF Waits
    <3>2. QED
      BY <1>7, <1>9, <2>2, <3>1
  <2>6. QED
    BY <2>2, <2>3, <2>4, <2>5
<1>16. StagesInv'
  BY <1>2, <1>9 DEF TransferInv, StagesInv
<1>17. QED
  BY <1>9, <1>10, <1>11, <1>13, <1>14, <1>15, <1>16 DEF TransferInv

-----------------------------------------------------------------------------
(* The steps of the target, the network and the clock *)

(* A chunk leaves the target as new as it was, and as new as the chunk.    *)
LEMMA MsetSteps == TransferInv /\ mset => TransferInv'
<1> SUFFICES ASSUME TransferInv, mset PROVE TransferInv'
  OBVIOUS
<1> DEFINE to     == store["target"]
           ch     == Head(wire)
           new(k) == {v \in itemOf(ch, k) : accepts(to[k], v)}
           cache  == [k \in Key |-> msetOne(to[k], ch, k, now)]
           after  == updateKeysMeta(keysMeta["target"], {k \in Key : new(k) # {}}, "set")
<1>1. Typed /\ ListedIsLive /\ now \in Nat /\ wire \in Seq(Chunk(now))
  BY DEF TransferInv, Typed
<1>2. /\ loop = "reading" /\ wire # << >>
      /\ store' = [store EXCEPT !["target"] = cache]
      /\ keysMeta' = [keysMeta EXCEPT !["target"] = after]
      /\ wire' = Tail(wire)
      /\ UNCHANGED <<now, command, stream, broken, loop, calls, newest, risked, owed>>
  <2>1. "target" \in Side
    BY DEF Side
  <2>2. store["target"] = to
    OBVIOUS
  <2>3. QED
    BY DEF mset, history, msetOne
<1>3. /\ ch \in Chunk(now) /\ wire' \in Seq(Chunk(now))
      /\ IF wire' = << >> THEN ch = wire[Len(wire)] ELSE wire'[Len(wire')] = wire[Len(wire)]
      /\ \A k \in Key, n \in Nat : Wired(k, n) => Wired(k, n)' \/ InChunk(ch, k, n)
  BY <1>1, <1>2, WireDelivers
<1>4. after = keysMeta["target"] \cup {k \in Key : new(k) # {}}
  BY DEF updateKeysMeta
<1> HIDE DEF ch, after
<1>5. ASSUME NEW k \in Key
      PROVE  /\ cache[k] \in Cell(now)
             /\ \A n \in Nat : Covers(to[k], n) \/ InChunk(ch, k, n) => Covers(cache[k], n)
             /\ IF new(k) # {} THEN Live(cache[k]) ELSE cache[k] = to[k]
  <2>1. to[k] \in Cell(now)
    BY <1>1, ListedFacts DEF Side
  <2>2. cache[k] = msetOne(to[k], ch, k, now)
    OBVIOUS
  <2> HIDE DEF cache
  <2>3. QED
    BY <1>1, <1>3, <2>1, <2>2, MsetPlain
<1>6. /\ store'["target"] = cache /\ store'["source"] = store["source"]
      /\ keysMeta'["target"] = after /\ keysMeta'["source"] = keysMeta["source"]
      /\ store' \in [Side -> [Key -> Cell(now)]] /\ keysMeta' \in [Side -> SUBSET Key]
  <2>1. cache \in [Key -> Cell(now)]
    BY <1>5
  <2>2. "source" \in Side /\ "target" \in Side
    BY DEF Side
  <2>3. after \in SUBSET Key
    BY <1>1, <1>4, <2>2 DEF Typed
  <2> HIDE DEF cache
  <2>4. QED
    BY <1>1, <1>2, <2>1, <2>2, <2>3 DEF Typed
<1>7. Typed'
  BY <1>1, <1>2, <1>3, <1>6 DEF Typed
<1>8. ListedIsLive'
  <2>1. ASSUME NEW k \in Key PROVE k \in after <=> Live(cache[k])
    <3>1. k \in keysMeta["target"] <=> Live(to[k])
      BY <1>1, ListedFacts DEF Side
    <3>2. k \in after <=> k \in keysMeta["target"] \/ new(k) # {}
      BY <1>4
    <3>3. IF new(k) # {} THEN Live(cache[k]) ELSE cache[k] = to[k]
      BY <1>5
    <3> HIDE DEF new, cache
    <3>4. QED
      BY <3>1, <3>2, <3>3
  <2> HIDE DEF cache
  <2>2. QED
    BY <1>1, <1>6, <2>1 DEF ListedIsLive, Side, Live
<1> HIDE DEF cache, new
<1>9. WindowInv'
  BY <1>2, <1>6 DEF TransferInv, WindowInv, Clean
<1>10. SentInv'
  <2>1. SUFFICES ASSUME stream.at = "writing", ~ broken
                 PROVE  IF wire' = << >>
                        THEN \A d \in stream.data : Covers(cache[d[1]], d[2].updatedAt)
                        ELSE wire'[Len(wire')] = stream.data
    BY <1>2, <1>6 DEF SentInv
  <2>2. wire[Len(wire)] = stream.data
    BY <1>2, <2>1 DEF TransferInv, SentInv
  <2>3. ASSUME wire' = << >>, NEW d \in stream.data PROVE Covers(cache[d[1]], d[2].updatedAt)
    <3>1. d[1] \in Key /\ d[2] \in Items(now)
      BY <1>1, TypedFacts
    <3>2. d[2].updatedAt \in Nat
      BY <1>1, <3>1, ItemFacts
    <3>3. InChunk(ch, d[1], d[2].updatedAt)
      BY <1>3, <2>2, <2>3, <3>2 DEF InChunk
    <3>4. QED
      BY <1>5, <3>1, <3>2, <3>3
  <2>4. QED
    BY <1>3, <2>2, <2>3
<1>11. KeptInv'
  <2>1. SUFFICES ASSUME NEW k \in Key \ risked, newest[k] # 0 PROVE Around(k, newest[k])'
    BY <1>2 DEF KeptInv
  <2>2. Around(k, newest[k]) /\ newest[k] \in Nat
    BY <1>1, <2>1, TypedFacts DEF KeptInv, TransferInv
  <2>3. QED
    BY <1>2, <1>3, <1>5, <1>6, <2>2 DEF Around
<1>12. CopyInv'
  <2>1. SUFFICES ASSUME command = "CopyData", NEW k \in Key, newest[k] # 0
                 PROVE  \/ Covers(store["source"][k], newest[k])
                        \/ Covers(cache[k], newest[k])
    BY <1>2, <1>6 DEF CopyInv
  <2>2. newest[k] \in Nat
    BY <1>1, TypedFacts
  <2>3. QED
    BY <1>5, <2>1, <2>2 DEF TransferInv, CopyInv
<1>13. OwedInv'
  <2>1. SUFFICES ASSUME ~ broken, NEW k \in owed
                 PROVE  k \notin risked /\ (Waits(k)' \/ Handed(k)')
    BY <1>2 DEF OwedInv
  <2>2. k \notin risked /\ (Waits(k) \/ Handed(k)) /\ k \in Key /\ newest[k] \in Nat
    BY <1>1, <2>1, TypedFacts DEF OwedInv, TransferInv, Typed
  <2>3. Waits(k) => Waits(k)'
    BY <1>2, <1>6 DEF Waits, Pending
  <2>4. Handed(k) => Handed(k)'
    BY <1>2, <1>3, <1>5, <1>6, <2>2 DEF Handed
  <2>5. QED
    BY <2>2, <2>3, <2>4
<1>14. StagesInv'
  BY <1>2 DEF TransferInv, StagesInv
<1>15. QED
  BY <1>7, <1>8, <1>9, <1>10, <1>11, <1>12, <1>13, <1>14 DEF TransferInv

(* Of a move a failure loses what was sent before the last chunk: that one *)
(* the source has not deleted yet.                                         *)
LEMMA BreakSteps == TransferInv /\ break => TransferInv'
<1> SUFFICES ASSUME TransferInv, break PROVE TransferInv'
  OBVIOUS
<1> DEFINE last == IF stream.at = "writing" THEN Len(wire) ELSE 0
           lost == UNION {{d[1] : d \in wire[i]} : i \in (DOMAIN wire) \ {last}}
<1>1. Typed /\ now \in Nat /\ wire \in Seq(Chunk(now))
  BY DEF TransferInv, Typed
<1>2. /\ loop = "reading" /\ ~ broken /\ broken' = TRUE /\ wire' = << >>
      /\ risked' = IF command = "MoveData" THEN risked \cup lost ELSE risked
      /\ UNCHANGED <<now, store, keysMeta, command, stream, loop, calls, newest, owed>>
  BY DEF break
<1>3. /\ DOMAIN wire = 1 .. Len(wire) /\ Len(wire) \in Nat
      /\ \A i \in DOMAIN wire : wire[i] \in Chunk(now)
  BY <1>1, LenProperties, ElementOfSeq
<1>4. lost \subseteq Key
  <2>1. \A i \in DOMAIN wire : \A d \in wire[i] : d[1] \in Key
    BY <1>3 DEF Chunk
  <2>2. QED
    BY <2>1
<1>5. \A i \in DOMAIN wire : \A d \in wire[i] : d[1] \in lost \/ i = last
  OBVIOUS
<1>6. wire = << >> => lost = {}
  BY EmptySeq
<1> HIDE DEF lost
<1>7. Typed'
  <2>1. << >> \in Seq(Chunk(now))
    BY EmptySeq
  <2>2. QED
    BY <1>1, <1>2, <1>4, <2>1 DEF Typed
<1>8. ListedIsLive' /\ CopyInv' /\ SentInv' /\ OwedInv'
  BY <1>2 DEF TransferInv, ListedIsLive, CopyInv, SentInv, OwedInv
<1>9. WindowInv'
  BY <1>2 DEF TransferInv, WindowInv, Clean
<1>10. KeptInv'
  <2>1. SUFFICES ASSUME NEW k \in Key \ risked', newest[k] # 0 PROVE Around(k, newest[k])'
    BY <1>2 DEF KeptInv
  <2>2. k \notin risked /\ Around(k, newest[k]) /\ newest[k] \in Nat
    BY <1>1, <1>2, <2>1, TypedFacts DEF KeptInv, TransferInv
  <2>3. CASE ~ Wired(k, newest[k])
    BY <1>2, <2>2, <2>3 DEF Around
  <2>4. CASE command # "MoveData"
    <3>1. command = "CopyData"
      BY <1>1, <2>4, TransferAssumption DEF Typed
    <3>2. QED
      BY <1>2, <2>1, <3>1 DEF TransferInv, CopyInv, Around
  <2>5. CASE command = "MoveData" /\ Wired(k, newest[k])
    <3>1. PICK i \in DOMAIN wire : InChunk(wire[i], k, newest[k])
      BY <2>5 DEF Wired
    <3>2. PICK d \in wire[i] : d[1] = k /\ d[2].updatedAt >= newest[k]
      BY <3>1 DEF InChunk
    <3>3. k \notin lost
      BY <1>2, <2>1, <2>5
    <3>4. i = last
      BY <1>5, <3>2, <3>3
    <3>5. stream.at = "writing" /\ i = Len(wire) /\ wire # << >>
      BY <1>3, <3>4
    <3>6. d \in stream.data
      BY <1>2, <3>2, <3>5 DEF TransferInv, SentInv
    <3>7. k \in stream.batch
      BY <1>1, <3>2, <3>6 DEF Typed
    <3>8. Clean(k)
      BY <2>2, <2>5 DEF Clean
    <3>9. d[2] \in store["source"][k]
      BY <3>2, <3>5, <3>6, <3>7, <3>8 DEF TransferInv, WindowInv
    <3>10. Covers(store["source"][k], newest[k])
      BY <3>2, <3>9 DEF Covers
    <3>11. QED
      BY <1>2, <3>10 DEF Around
  <2>6. QED
    BY <2>3, <2>4, <2>5
<1>11. StagesInv'
  BY <1>2, <1>6 DEF TransferInv, StagesInv
<1>12. QED
  BY <1>7, <1>8, <1>9, <1>10, <1>11 DEF TransferInv

LEMMA ReadingSteps ==
  ASSUME TransferInv, getDataStream \/ endOfStream
  PROVE  TransferInv'
<1>1. UNCHANGED <<now, store, keysMeta, command, stream, wire, broken, calls, newest, risked, owed>>
  BY DEF getDataStream, endOfStream, history
<1>2. loop' \in {"reading", "done", "failed"}
  BY DEF getDataStream, endOfStream
<1>3. Typed'
  BY <1>1, <1>2 DEF TransferInv, Typed
<1>4. ListedIsLive' /\ WindowInv' /\ SentInv' /\ CopyInv'
  BY <1>1 DEF TransferInv, ListedIsLive, WindowInv, Clean, SentInv, CopyInv
<1>5. KeptInv' /\ OwedInv'
  BY <1>1 DEF TransferInv, KeptInv, Around, Wired, OwedInv, Waits, Handed, Pending
<1>6. StagesInv'
  BY <1>1 DEF TransferInv, StagesInv, getDataStream, endOfStream
<1>7. QED
  BY <1>3, <1>4, <1>5, <1>6 DEF TransferInv

LEMMA TickSteps == TransferInv /\ tick => TransferInv'
<1> SUFFICES ASSUME TransferInv, tick PROVE TransferInv'
  OBVIOUS
<1>1. /\ now < MaxTime /\ now' = now + 1
      /\ UNCHANGED <<store, keysMeta, command, stream, wire, broken, loop, calls, newest, risked, owed>>
  BY DEF tick, history
<1>2. Typed'
  <2>1. Typed /\ now \in Nat
    BY DEF TransferInv, Typed
  <2>2. /\ Items(now) \subseteq Items(now + 1) /\ Cell(now) \subseteq Cell(now + 1)
        /\ Chunk(now) \subseteq Chunk(now + 1)
    BY <2>1, ItemsGrow
  <2>3. store \in [Side -> [Key -> Cell(now + 1)]]
    BY <2>1, <2>2 DEF Typed
  <2>4. stream \in Stream(now + 1)
    BY <2>1, <2>2 DEF Typed, Stream
  <2>5. wire \in Seq(Chunk(now + 1))
    BY <2>1, <2>2, SeqMonotonic DEF Typed
  <2>6. newest \in [Key -> {0} \cup Epoch .. now + 1]
    BY <2>1, TransferAssumption DEF Typed
  <2>7. now + 1 \in Nat /\ Epoch <= now + 1 /\ now + 1 <= MaxTime
    BY <1>1, <2>1, TransferAssumption DEF Typed
  <2>8. QED
    BY <1>1, <2>1, <2>3, <2>4, <2>5, <2>6, <2>7 DEF Typed
<1>3. ListedIsLive' /\ WindowInv' /\ SentInv' /\ CopyInv' /\ StagesInv'
  BY <1>1 DEF TransferInv, ListedIsLive, WindowInv, Clean, SentInv, CopyInv, StagesInv
<1>4. KeptInv' /\ OwedInv'
  BY <1>1 DEF TransferInv, KeptInv, Around, Wired, OwedInv, Waits, Handed, Pending
<1>5. QED
  BY <1>2, <1>3, <1>4 DEF TransferInv

-----------------------------------------------------------------------------
(* The writes of clients *)

\* What a client's set or delete of k at s leaves: the item v, and `after` listed.
Writes(s, k, v, after) ==
  /\ calls > 0 /\ v \in Items(now) /\ accepts(store[s][k], v)
  /\ store' = [store EXCEPT ![s][k] = {v}]
  /\ after \in SUBSET Key /\ keysMeta' = [keysMeta EXCEPT ![s] = after]
  /\ \A x \in Key : x \in after <=> IF x = k THEN v.item # Deleted ELSE x \in keysMeta[s]
  /\ wrote(s, k, v.updatedAt)

(* A write leaves its item as the only one of its key, and the newest: it  *)
(* covers what it replaces.  At the source it ends the claims about the    *)
(* batch and the owed keys, for its key.                                   *)
LEMMA WriteSteps ==
  ASSUME TransferInv, NEW s \in Side, NEW k \in Key, NEW v, NEW after, Writes(s, k, v, after)
  PROVE  TransferInv'
<1> USE DEF Writes
<1> DEFINE t == v.updatedAt
<1>1. Typed /\ ListedIsLive /\ now \in Nat /\ stream \in Stream(now) /\ t \in Epoch .. now /\ t \in Nat
  BY ItemFacts, TransferAssumption DEF TransferInv, Typed
<1>2. /\ calls' = calls - 1
      /\ newest' = [newest EXCEPT ![k] = IF t > @ THEN t ELSE @]
      /\ risked' = IF s = "source" /\ k \in window /\ command = "MoveData"
                   THEN risked \cup {k} ELSE risked
      /\ owed' = IF s = "source" THEN owed \ {k} ELSE owed
      /\ stream' = IF s = "source" THEN follow(stream, keysMeta[s], keysMeta'[s]) ELSE stream
      /\ UNCHANGED <<now, command, wire, broken, loop>>
  BY DEF wrote
<1> HIDE DEF t
<1>3. /\ store'[s][k] = {v}
      /\ \A u \in Side, x \in Key : u # s \/ x # k => store'[u][x] = store[u][x]
      /\ keysMeta'[s] = after /\ \A u \in Side : u # s => keysMeta'[u] = keysMeta[u]
  BY <1>1 DEF Typed
<1>4. {v} \in Cell(now)
  BY DEF Cell
<1>5. store' \in [Side -> [Key -> Cell(now)]] /\ keysMeta' \in [Side -> SUBSET Key]
  BY <1>1, <1>4 DEF Typed
<1>6. /\ stream' \in Stream(now)
      /\ stream'.unvisited \subseteq OfTokens(keysMeta'["source"], stream'.token)
      /\ stream'.at = stream.at /\ stream'.todo = stream.todo /\ stream'.live = stream.live
      /\ stream'.batch = stream.batch /\ stream'.data = stream.data
      /\ stream.live \/ stream'.unvisited \subseteq stream.unvisited
      /\ \A x \in keysMeta'["source"] : Pending(stream, x) => Pending(stream', x)
  <2>1. CASE s = "source"
    <3>1. stream' = follow(stream, keysMeta["source"], after) /\ keysMeta'["source"] = after
      BY <1>2, <1>3, <2>1
    <3>2. keysMeta["source"] \in SUBSET Key
      BY <1>1 DEF Typed, Side
    <3>3. stream.unvisited \subseteq OfTokens(keysMeta["source"], stream.token)
      BY <1>1 DEF Typed
    <3>4. Follows(stream', stream, after, now)
      BY <1>1, <3>1, <3>2, <3>3, FollowFacts
    <3>5. QED
      BY <3>1, <3>4 DEF Follows
  <2>2. CASE s # "source"
    <3>1. stream' = stream /\ keysMeta'["source"] = keysMeta["source"]
      BY <1>2, <1>3, <2>2 DEF Side
    <3>2. QED
      BY <1>1, <3>1 DEF Typed
  <2>3. QED
    BY <2>1, <2>2
<1>7. \A x \in Key : newest[x] \in Nat /\ newest'[x] = IF x = k /\ t > newest[k] THEN t ELSE newest[x]
  BY <1>1, <1>2, TypedFacts DEF Typed
<1>8. newest' \in [Key -> {0} \cup Epoch .. now]
  BY <1>1, <1>2 DEF Typed
<1>9. Typed'
  <2>1. calls' \in 0 .. MaxCalls
    BY <1>1, <1>2, TransferAssumption DEF Typed
  <2>2. risked' \subseteq Key /\ owed' \subseteq Key
    BY <1>1, <1>2 DEF Typed
  <2>3. \A d \in stream'.data : d[1] \in stream'.batch
    BY <1>1, <1>6 DEF Typed
  <2>4. QED
    BY <1>1, <1>2, <1>5, <1>6, <1>8, <2>1, <2>2, <2>3 DEF Typed
<1>10. ListedIsLive'
  <2>1. SUFFICES ASSUME NEW u \in Side, NEW x \in Key
                 PROVE  x \in keysMeta'[u] <=> \E c \in store'[u][x] : c.item # Deleted
    BY DEF ListedIsLive
  <2>2. CASE u = s /\ x = k
    BY <1>3, <2>2
  <2>3. CASE ~ (u = s /\ x = k)
    BY <1>1, <1>3, <2>3 DEF ListedIsLive
  <2>4. QED
    BY <2>2, <2>3
<1>11. ASSUME NEW u \in Side, NEW x \in Key, NEW n \in Nat, Covers(store[u][x], n)
       PROVE  Covers(store'[u][x], n)
  <2>1. CASE u = s /\ x = k
    <3>1. PICK c \in store[s][k] : c.updatedAt >= n
      BY <1>11, <2>1 DEF Covers
    <3>2. c.updatedAt \in Nat
      BY <1>1, ItemFacts, TypedFacts DEF Cell
    <3>3. c.updatedAt <= v.updatedAt
      BY DEF accepts
    <3>4. v.updatedAt >= n
      BY <1>1, <3>1, <3>2, <3>3 DEF t
    <3>5. QED
      BY <1>3, <2>1, <3>4 DEF Covers
  <2>2. CASE ~ (u = s /\ x = k)
    BY <1>3, <1>11, <2>2
  <2>3. QED
    BY <2>1, <2>2
<1>12. newest'[k] # newest[k] => newest'[k] = t /\ Covers(store'[s][k], newest'[k])
  BY <1>1, <1>3, <1>7 DEF Covers, t
<1>13. WindowInv'
  <2>1. SUFFICES ASSUME stream.at \in {"draining", "writing"}, NEW x \in stream.batch, Clean(x)'
                 PROVE  /\ \A w \in store'["source"][x] : <<x, w>> \in stream.data
                        /\ \A d \in stream.data : d[1] = x => d[2] \in store'["source"][x]
    BY <1>6 DEF WindowInv
  <2>2. x \in Key /\ "source" \in Side
    BY <1>1, TypedFacts DEF Side
  <2>3. ~ (s = "source" /\ x = k)
    BY <1>2, <2>1 DEF Clean, window
  <2>4. store'["source"][x] = store["source"][x]
    BY <1>3, <2>2, <2>3
  <2>5. Clean(x)
    BY <1>2, <2>1 DEF Clean
  <2>6. QED
    BY <2>1, <2>4, <2>5 DEF TransferInv, WindowInv
<1>14. SentInv'
  <2>1. SUFFICES ASSUME stream.at = "writing", ~ broken, wire = << >>, NEW d \in stream.data
                 PROVE  Covers(store'["target"][d[1]], d[2].updatedAt)
    BY <1>2, <1>6 DEF SentInv, TransferInv
  <2>2. Covers(store["target"][d[1]], d[2].updatedAt)
    BY <2>1 DEF SentInv, TransferInv
  <2>3. d[1] \in Key /\ d[2].updatedAt \in Nat /\ "target" \in Side
    BY <1>1, TypedFacts, ItemFacts DEF Side
  <2>4. QED
    BY <1>11, <2>2, <2>3
<1>15. \A x \in Key, n \in Nat : Wired(x, n)' <=> Wired(x, n)
  BY <1>2 DEF Wired
<1>16. KeptInv'
  <2>1. SUFFICES ASSUME NEW x \in Key \ risked', newest'[x] # 0 PROVE Around(x, newest[x])'
    BY DEF KeptInv
  <2>2. CASE newest'[x] = newest[x]
    <3>1. x \notin risked /\ newest[x] \in Nat
      BY <1>2, <1>7
    <3>2. Around(x, newest[x])
      BY <2>1, <2>2, <3>1 DEF TransferInv, KeptInv
    <3>3. QED
      BY <1>6, <1>11, <1>15, <2>2, <3>1, <3>2 DEF Around, Side
  <2>3. CASE newest'[x] # newest[x]
    BY <1>7, <1>12, <2>3 DEF Around, Side
  <2>4. QED
    BY <2>2, <2>3
<1>17. CopyInv'
  <2>1. SUFFICES ASSUME command = "CopyData", NEW x \in Key, newest'[x] # 0
                 PROVE  \/ Covers(store'["source"][x], newest'[x])
                        \/ Covers(store'["target"][x], newest'[x])
    BY <1>2 DEF CopyInv
  <2>2. CASE newest'[x] = newest[x]
    BY <1>7, <1>11, <2>1, <2>2 DEF TransferInv, CopyInv, Side
  <2>3. CASE newest'[x] # newest[x]
    BY <1>7, <1>12, <2>3 DEF Side
  <2>4. QED
    BY <2>2, <2>3
<1>18. OwedInv'
  <2>1. SUFFICES ASSUME ~ broken, NEW x \in owed'
                 PROVE  x \notin risked' /\ (Waits(x)' \/ Handed(x)')
    BY <1>2 DEF OwedInv
  <2>2. x \in owed /\ ~ (s = "source" /\ x = k)
    BY <1>2, <2>1
  <2>3. x \notin risked /\ (Waits(x) \/ Handed(x)) /\ x \in Key /\ newest[x] \in Nat
    BY <1>1, <2>1, <2>2, TypedFacts DEF OwedInv, TransferInv, Typed
  <2>4. x \notin risked'
    BY <1>2, <2>2, <2>3
  <2>5. store'["source"][x] = store["source"][x]
    BY <1>3, <2>2, <2>3 DEF Side
  <2>6. ASSUME Waits(x) PROVE Waits(x)'
    <3>1. x \in keysMeta'["source"]
      <4>1. CASE s = "source"
        BY <1>3, <2>2, <2>3, <2>6, <4>1 DEF Waits
      <4>2. CASE s # "source"
        BY <1>3, <2>6, <4>2 DEF Waits, Side
      <4>3. QED
        BY <4>1, <4>2
    <3>2. QED
      BY <1>6, <2>6, <3>1 DEF Waits, Pending
  <2>7. ASSUME Handed(x) PROVE Handed(x)'
    <3>1. command' = "MoveData" => store'["source"][x] = {}
      BY <1>2, <2>5, <2>7 DEF Handed
    <3>2. CASE newest'[x] = newest[x]
      <4>1. Covers(store'["target"][x], newest[x]) \/ Wired(x, newest[x])
        BY <1>11, <2>3, <2>7 DEF Handed, Side
      <4>2. QED
        BY <1>15, <2>3, <3>1, <3>2, <4>1 DEF Handed
    <3>3. CASE newest'[x] # newest[x]
      <4>1. x = k /\ s = "target"
        BY <1>7, <2>2, <2>3, <3>3 DEF Side
      <4>2. Covers(store'["target"][x], newest'[x])
        BY <1>12, <3>3, <4>1
      <4>3. QED
        BY <3>1, <4>2 DEF Handed
    <3>4. QED
      BY <3>2, <3>3
  <2>8. QED
    BY <2>3, <2>4, <2>6, <2>7
<1>19. StagesInv'
  <2>1. ASSUME stream.at = "idle"
        PROVE  /\ stream'.unvisited = {} /\ stream'.todo = Asked /\ ~ stream'.live
               /\ wire' = << >> /\ risked' = {} /\ owed' = {}
    <3>1. /\ stream.unvisited = {} /\ stream.todo = Asked /\ ~ stream.live
          /\ wire = << >> /\ risked = {} /\ owed = {}
      BY <2>1 DEF TransferInv, StagesInv
    <3>2. window = {}
      BY <2>1 DEF window
    <3>3. QED
      BY <1>2, <1>6, <3>1, <3>2
  <2>2. QED
    BY <1>2, <1>6, <2>1 DEF TransferInv, StagesInv
<1>20. QED
  BY <1>9, <1>10, <1>13, <1>14, <1>16, <1>17, <1>18, <1>19 DEF TransferInv

LEMMA SetSteps ==
  ASSUME TransferInv, NEW s \in Side, NEW k \in Key, NEW v \in Item(Value, Epoch .. now),
         clientSet(s, k, v)
  PROVE  TransferInv'
<1> DEFINE after == updateKeysMeta(keysMeta[s], {k}, "set")
<1>1. Typed /\ ListedIsLive /\ now \in Nat /\ store[s][k] \in Cell(now)
  BY TypedFacts DEF TransferInv, Typed
<1>2. v \in Items(now) /\ v.item # Deleted
  BY StoreAssumption DEF Items, Item
<1>3. /\ calls > 0 /\ accepts(store[s][k], v)
      /\ store' = [store EXCEPT ![s][k] = set(store[s][k], v, now)]
      /\ keysMeta' = [keysMeta EXCEPT ![s] = after]
      /\ wrote(s, k, v.updatedAt)
  BY DEF clientSet
<1>4. set(store[s][k], v, now) = {v}
  BY <1>1, <1>2, <1>3, SetPlain
<1>5. after = keysMeta[s] \cup {k} /\ keysMeta[s] \subseteq Key
  BY <1>1 DEF updateKeysMeta, Typed
<1> HIDE DEF after
<1>6. after \in SUBSET Key
  BY <1>5
<1>7. \A x \in Key : x \in after <=> IF x = k THEN v.item # Deleted ELSE x \in keysMeta[s]
  BY <1>2, <1>5
<1>8. store' = [store EXCEPT ![s][k] = {v}]
  BY <1>3, <1>4
<1>9. Writes(s, k, v, after)
  BY <1>2, <1>3, <1>6, <1>7, <1>8 DEF Writes
<1>10. QED
  BY <1>2, <1>9, WriteSteps

LEMMA DeleteSteps ==
  ASSUME TransferInv, NEW s \in Side, NEW k \in Key, clientDelete(s, k)
  PROVE  TransferInv'
<1> DEFINE after == updateKeysMeta(keysMeta[s], {k}, "delete")
           v     == tombstone(now)
<1>1. Typed /\ ListedIsLive /\ now \in Nat /\ store[s][k] \in Cell(now) /\ Epoch <= now
  BY TypedFacts DEF TransferInv, Typed
<1>2. /\ calls > 0 /\ get(store[s][k], now) # {}
      /\ store' = [store EXCEPT ![s][k] = delete(store[s][k], now, FALSE)]
      /\ keysMeta' = [keysMeta EXCEPT ![s] = after]
      /\ wrote(s, k, now)
  BY DEF clientDelete
<1>3. store[s][k] # {}
  BY <1>1, <1>2, GetPlain
<1>4. v \in Items(now) /\ delete(store[s][k], now, FALSE) = {v} /\ accepts(store[s][k], v)
  BY <1>1, <1>3, DeletePlain
<1>5. v.item = Deleted /\ v.updatedAt = now
  BY DEF tombstone
<1>6. after = keysMeta[s] \ {k} /\ keysMeta[s] \subseteq Key
  BY <1>1 DEF updateKeysMeta, Typed
<1> HIDE DEF after, v
<1>7. after \in SUBSET Key
  BY <1>6
<1>8. \A x \in Key : x \in after <=> IF x = k THEN v.item # Deleted ELSE x \in keysMeta[s]
  BY <1>5, <1>6
<1>9. store' = [store EXCEPT ![s][k] = {v}]
  BY <1>2, <1>4
<1>10. wrote(s, k, v.updatedAt)
  BY <1>2, <1>5
<1>11. Writes(s, k, v, after)
  BY <1>2, <1>4, <1>7, <1>8, <1>9, <1>10 DEF Writes
<1>12. QED
  BY <1>4, <1>11, WriteSteps

-----------------------------------------------------------------------------
(* The theorems *)

LEMMA InitTransfer == Init => TransferInv
<1> SUFFICES ASSUME Init PROVE TransferInv
  OBVIOUS
<1>1. PICK S \in SUBSET Key, v \in Item(Value, {Epoch}) :
        /\ store = [s \in Side |-> [k \in Key |-> IF s = "source" /\ k \in S THEN {v} ELSE {}]]
        /\ keysMeta = [s \in Side |-> IF s = "source" THEN S ELSE {}]
        /\ newest = [k \in Key |-> IF k \in S THEN Epoch ELSE 0]
  BY DEF Init
<1>2. /\ now = Epoch /\ command \in Command /\ stream = Idle /\ wire = << >> /\ broken = FALSE
      /\ loop = "none" /\ calls = MaxCalls /\ risked = {} /\ owed = {} /\ now \in Nat
  BY TransferAssumption DEF Init
<1>3. v \in Items(now) /\ v.item # Deleted /\ v.updatedAt = Epoch
  BY <1>2, StoreAssumption, TransferAssumption DEF Items, Item
<1>4. {v} \in Cell(now) /\ {} \in Cell(now)
  BY <1>3 DEF Cell
<1>5. /\ Idle \in Stream(now) /\ Idle.unvisited = {} /\ Idle.todo = Asked /\ ~ Idle.live
      /\ Idle.data = {} /\ Idle.at = "idle"
  BY <1>2, IdleFacts DEF Idle
<1>6. Typed
  <2>1. store \in [Side -> [Key -> Cell(now)]]
    BY <1>1, <1>4
  <2>2. keysMeta \in [Side -> SUBSET Key]
    BY <1>1
  <2>3. newest \in [Key -> {0} \cup Epoch .. now]
    BY <1>1, <1>2, TransferAssumption
  <2>4. wire \in Seq(Chunk(now))
    BY <1>2, EmptySeq
  <2>5. calls \in 0 .. MaxCalls
    BY <1>2, TransferAssumption
  <2>6. Epoch <= now /\ stream \in Stream(now) /\ stream.unvisited = {} /\ stream.data = {}
    BY <1>2, <1>5, TransferAssumption
  <2>7. QED
    BY <1>2, <2>1, <2>2, <2>3, <2>4, <2>5, <2>6 DEF Typed
<1>7. ListedIsLive
  BY <1>1, <1>3 DEF ListedIsLive, Side
<1>8. WindowInv /\ SentInv /\ OwedInv /\ StagesInv
  BY <1>2, <1>5 DEF WindowInv, SentInv, OwedInv, StagesInv
<1>9. ASSUME NEW k \in Key, newest[k] # 0 PROVE Covers(store["source"][k], newest[k])
  <2>1. k \in S /\ newest[k] = Epoch
    BY <1>1, <1>9
  <2>2. store["source"][k] = {v}
    BY <1>1, <2>1 DEF Side
  <2>3. v.updatedAt >= newest[k]
    BY <1>3, <2>1, TransferAssumption
  <2>4. QED
    BY <2>2, <2>3 DEF Covers
<1>10. KeptInv /\ CopyInv
  BY <1>9 DEF KeptInv, Around, CopyInv
<1>11. QED
  BY <1>6, <1>7, <1>8, <1>10 DEF TransferInv

LEMMA TransferInductive == Spec => []TransferInv
<1>1. TransferInv /\ [Next]_vars => TransferInv'
  <2> SUFFICES ASSUME TransferInv, [Next]_vars PROVE TransferInv'
    OBVIOUS
  <2>1. CASE getDataStream \/ endOfStream
    BY <2>1, ReadingSteps
  <2>2. CASE executeStream
    BY <2>2, StreamStarts
  <2>3. CASE drain
    BY <2>3, DrainSteps
  <2>4. CASE written
    BY <2>4, WrittenSteps
  <2>5. CASE writeFails
    BY <2>5, WriteFailsSteps
  <2>6. CASE mset
    BY <2>6, MsetSteps
  <2>7. CASE break
    BY <2>7, BreakSteps
  <2>8. CASE tick
    BY <2>8, TickSteps
  <2>9. ASSUME NEW s \in Side, NEW k \in Key, NEW v \in Item(Value, Epoch .. now), clientSet(s, k, v)
        PROVE  TransferInv'
    BY <2>9, SetSteps
  <2>10. ASSUME NEW s \in Side, NEW k \in Key, clientDelete(s, k) PROVE TransferInv'
    BY <2>10, DeleteSteps
  <2>11. CASE UNCHANGED vars
    <3>1. UNCHANGED <<now, store, keysMeta, command, stream, wire, broken, loop, calls,
                      newest, risked, owed>>
      BY <2>11 DEF vars
    <3>2. Typed'
      BY <3>1 DEF TransferInv, Typed
    <3>3. ListedIsLive' /\ WindowInv' /\ SentInv' /\ CopyInv' /\ StagesInv'
      BY <3>1 DEF TransferInv, ListedIsLive, WindowInv, Clean, SentInv, CopyInv, StagesInv
    <3>4. KeptInv' /\ OwedInv'
      BY <3>1 DEF TransferInv, KeptInv, Around, Wired, OwedInv, Waits, Handed, Pending
    <3>5. QED
      BY <3>2, <3>3, <3>4 DEF TransferInv
  <2>12. QED
    BY <2>1, <2>2, <2>3, <2>4, <2>5, <2>6, <2>7, <2>8, <2>9, <2>10, <2>11 DEF Next
<1>2. QED
  BY <1>1, InitTransfer, PTL DEF Spec

(* Every variable of both ends keeps its type, and getBatchedKeys never    *)
(* yields a key that keysMeta no longer lists.                             *)
THEOREM TransferTypeCorrect == Spec => []TypeOK
<1>1. TransferInv => TypeOK
  <2> SUFFICES ASSUME Typed PROVE TypeOK
    BY DEF TransferInv
  <2>1. now \in Epoch .. Max({Epoch, MaxTime})
    <3>1. /\ Max({Epoch, MaxTime}) \in {Epoch, MaxTime}
          /\ \A y \in {Epoch, MaxTime} : Max({Epoch, MaxTime}) >= y
      <4>1. \E x \in {Epoch, MaxTime} : \A y \in {Epoch, MaxTime} : x >= y
        BY TransferAssumption
      <4>2. QED
        BY <4>1 DEF Max
    <3>2. QED
      BY <3>1, TransferAssumption DEF Typed
  <2>2. store \in [Side -> [Key -> SUBSET Item(Value \cup {Deleted}, Epoch .. now)]]
    BY DEF Typed, Cell, Items
  <2>3. /\ stream.at \in {"idle", "writing", "draining", "ended"}
        /\ stream.unvisited \cup stream.batch \subseteq Key
    BY StreamFacts DEF Typed
  <2>4. stream.data \subseteq stream.batch \X Item(Value \cup {Deleted}, Epoch .. now)
    <3>1. \A d \in stream.data : d = <<d[1], d[2]>> /\ d[1] \in stream.batch /\ d[2] \in Items(now)
      BY TypedFacts DEF Typed
    <3>2. stream.data \subseteq stream.batch \X Items(now)
      BY <3>1
    <3>3. QED
      BY <3>2 DEF Items
  <2>5. \A i \in DOMAIN wire : wire[i] \subseteq Key \X Item(Value \cup {Deleted}, Epoch .. now)
    <3>1. \A i \in DOMAIN wire : wire[i] \in Chunk(now)
      BY LenProperties, ElementOfSeq DEF Typed
    <3>2. QED
      BY <3>1 DEF Chunk, Items
  <2>6. QED
    BY <2>1, <2>2, <2>3, <2>4, <2>5 DEF Typed, TypeOK
<1>2. QED
  BY <1>1, TransferInductive, PTL

(* keysMeta lists exactly the keys with a live item, on both sides of a    *)
(* move and through every interleaving of it with the clients' calls.      *)
THEOREM TransferListedIsLive == Spec => []ListedIsLive
<1>1. TransferInv => ListedIsLive
  BY DEF TransferInv
<1>2. QED
  BY <1>1, TransferInductive, PTL

(* A copy loses nothing, and a move only what was on its way when the      *)
(* stream failed or was written at the source between mget and mdel.       *)
THEOREM TransferNothingElseLost == Spec => []NothingElseLost
<1>1. TransferInv => NothingElseLost
  <2>1. SUFFICES ASSUME TransferInv, NEW k \in Key \ risked, newest[k] # 0
                 PROVE  Covers(copies(k), newest[k])
    BY DEF NothingElseLost, Covers
  <2>2. Around(k, newest[k])
    BY <2>1 DEF TransferInv, KeptInv
  <2>3. now \in Nat /\ wire \in Seq(Chunk(now)) /\ stream \in Stream(now) /\ k \in Key
    BY <2>1 DEF TransferInv, Typed
  <2>4. QED
    BY <2>2, <2>3, CopiesAround
<1>2. QED
  BY <1>1, TransferInductive, PTL

(* A stream that ends without an error has handed every owed key over, at  *)
(* its newest update, and a move has taken it from the source: for any     *)
(* tokens, batch size and order of the iterators.                          *)
THEOREM TransferHandedOver == Spec => []HandedOver
<1>1. TransferInv => HandedOver
  <2>1. SUFFICES ASSUME TransferInv, loop = "done", NEW k \in owed
                 PROVE  /\ Covers(store["target"][k], newest[k])
                        /\ command = "MoveData" => store["source"][k] = {}
    BY DEF HandedOver, Covers
  <2>2. ~ broken /\ stream.at = "ended" /\ wire = << >>
    BY <2>1 DEF TransferInv, StagesInv
  <2>3. Handed(k)
    BY <2>1, <2>2 DEF TransferInv, OwedInv, Waits
  <2>4. ~ Wired(k, newest[k])
    BY <2>2 DEF Wired
  <2>5. QED
    BY <2>3, <2>4 DEF Handed
<1>2. QED
  BY <1>1, TransferInductive, PTL
=============================================================================
