------------------------------ MODULE Transfer ------------------------------
(***************************************************************************)
(* One stream of tokens from a peer to the node that asked for them, while *)
(* clients write at both: initiateDataTransfer, executeStream and          *)
(* updateKeysMeta (packages/core/src/peer-ring.ts), getBatchedKeys         *)
(* (helpers/array.ts), both ends of executeServerStreamCommand             *)
(* (rpc/manager.ts) and mget, mset and mdel (packages/kv-store/src/        *)
(* store.ts).  The commands of the store are await chains without I/O, so  *)
(* each runs to its end before the next event; the source waits only for   *)
(* its stream, the target only for the next chunk.  No item has a ttl: a   *)
(* set with one never reaches the cache (KV, TtlSetIsStored).              *)
(***************************************************************************)
EXTENDS Store, Sequences, FiniteSetsExt

CONSTANTS Key, Token,
          getToken,      \* the token of each key
          Asked,         \* the tokens of the command, in order
          BatchSize,     \* batchSize of getBatchedKeys
          Command,       \* the commands considered, of "MoveData", "CopyData"
          Epoch,         \* the first time
          MaxTime,       \* bound: the last time
          MaxCalls       \* bound: the writes of clients that are accepted

Side == {"source", "target"}

ASSUME TransferAssumption ==
  /\ getToken \in [Key -> Token]
  /\ Asked \in Seq(Token)
  /\ BatchSize \in Nat \ {0}
  /\ Command \subseteq {"MoveData", "CopyData"}
  /\ Epoch \in Nat /\ MaxTime \in Nat /\ MaxCalls \in Nat
  /\ Tombstone

VARIABLES now,        \* the time, the same on both
          store,      \* the cache of each side
          keysMeta,   \* the keys in keysMeta of each side, whatever their token
          command,    \* what initiateDataTransfer asks for
          stream,     \* executeStream and its writer at the source
          wire,       \* the chunks on their way
          broken,     \* the network has failed
          loop,       \* for await in initiateDataTransfer at the target
          calls,      \* the writes of clients that are left
          newest,     \* history: the newest update either side accepted of a key
          risked,     \* history: the keys the source may have lost, see below
          owed        \* history: the keys listed at the start, not written since

vars == <<now, store, keysMeta, command, stream, wire, broken, loop, calls,
          newest, risked, owed>>
history == <<newest, risked, owed>>

Item(values, times) == [item : values, updatedAt : times, ttl : {NoTtl}]

\* `todo` are the tokens after the current one, `unvisited` the keys that the
\* iterator over the current token has yet to visit, `live` says whether it
\* still meets keys that are added; `batch` and `data` are what mget was
\* called with and what it returned.
Idle == [at |-> "idle", todo |-> Asked, token |-> {}, unvisited |-> {}, live |-> FALSE,
         batch |-> {}, data |-> {}]

Init ==
  /\ now = Epoch
  /\ \E S \in SUBSET Key, v \in Item(Value, {Epoch}) :
       /\ store = [s \in Side |-> [k \in Key |->
                     IF s = "source" /\ k \in S THEN {v} ELSE {}]]
       /\ keysMeta = [s \in Side |-> IF s = "source" THEN S ELSE {}]
       /\ newest = [k \in Key |-> IF k \in S THEN Epoch ELSE 0]
  /\ command \in Command
  /\ stream = Idle
  /\ wire = << >>
  /\ broken = FALSE
  /\ loop = "none"
  /\ calls = MaxCalls
  /\ risked = {}
  /\ owed = {}

OfTokens(keys, T) == {k \in keys : getToken[k] \in T}

-----------------------------------------------------------------------------
(* The two pieces of state of a side *)

\* Mutant: a deleted key stays listed.
updateKeysMetaKeeping(listed, keys, kind) ==
  IF kind = "set" THEN listed \cup keys ELSE listed

updateKeysMeta(listed, keys, kind) ==
  IF kind = "set" THEN listed \cup keys ELSE listed \ keys

\* Mutant: the iterator is an index, and skips a key when one is deleted.
followByIndex(st, listed, after) ==
  LET left == st.unvisited \cap after
  IN  [st EXCEPT !.unvisited =
         (IF left = {} \/ listed \subseteq after THEN left ELSE left \ {CHOOSE k \in left : TRUE})
           \cup (IF st.live THEN OfTokens(after \ listed, st.token) ELSE {})]

\* Mutant: the iterator runs over a snapshot.
followStale(st, listed, after) == st

\* What `listed` becoming `after` does to a live iterator: it meets what is
\* added and no longer meets what is deleted.
follow(st, listed, after) ==
  [st EXCEPT !.unvisited =
     (@ \cap after) \cup (IF st.live THEN OfTokens(after \ listed, st.token) ELSE {})]

\* Whether Store.set of v changes the cache, as isDelayedRequest has it.
accepts(cache, v) == \A c \in cache : c.updatedAt <= v.updatedAt

-----------------------------------------------------------------------------
(* The source *)

\* The next keys the iterator visits; the order of the map is left open.
getBatchedKeys(keys) ==
  kSubset(IF Cardinality(keys) < BatchSize THEN Cardinality(keys) ELSE BatchSize, keys)

\* mget of the batch, yielded to the writer, which writes it at once or waits
\* for 'drain'.  An iterator that ran out before the batch was full is over.
yield(st, batch, cache) ==
  LET data == UNION {{k} \X get(cache[k], now) : k \in batch}
      next == [st EXCEPT !.batch = batch, !.data = data,
                         !.unvisited = @ \ batch,
                         !.live = Cardinality(batch) = BatchSize]
  IN  \/ /\ stream' = [next EXCEPT !.at = "writing"]
         /\ wire' = IF broken THEN wire ELSE Append(wire, data)
      \/ /\ stream' = [next EXCEPT !.at = "draining"]
         /\ UNCHANGED wire

\* The loop of executeStream up to its next yield or its end, which ends the
\* call; a token without keys is skipped.
proceed(st, cache, listed) ==
  IF st.unvisited # {}
  THEN \E batch \in getBatchedKeys(st.unvisited) : yield(st, batch, cache)
  ELSE LET full == {i \in DOMAIN st.todo : OfTokens(listed, {st.todo[i]}) # {}}
           i    == Min(full)
           keys == OfTokens(listed, {st.todo[i]})
       IN  IF full = {}
           THEN /\ stream' = [Idle EXCEPT !.at = "ended"]
                /\ UNCHANGED wire
           ELSE \E batch \in getBatchedKeys(keys) :
                  yield([st EXCEPT !.token = {st.todo[i]}, !.unvisited = keys,
                                   !.todo = SubSeq(@, i + 1, Len(@))],
                        batch, cache)

\* executeServerStreamCommand at the source, up to the first write.
executeStream ==
  /\ loop = "reading" /\ stream.at = "idle" /\ ~ broken
  /\ proceed(stream, store["source"], keysMeta["source"])
  /\ owed' = OfTokens(keysMeta["source"], {Asked[i] : i \in DOMAIN Asked})
  /\ UNCHANGED <<now, store, keysMeta, command, broken, loop, calls, newest, risked>>

\* 'drain' at last; a stream that is gone may never emit it.
drain ==
  /\ stream.at = "draining" /\ ~ broken
  /\ stream' = [stream EXCEPT !.at = "writing"]
  /\ wire' = Append(wire, stream.data)
  /\ UNCHANGED <<now, store, keysMeta, command, broken, loop, calls, history>>

\* Mutant: a copy deletes too.
mdelAlways(st) == {k \in st.batch : store["source"][k] # {}}

\* The keys mdel deletes; a copy leaves the source as it is.
mdel(st) ==
  IF command = "MoveData" THEN {k \in st.batch : store["source"][k] # {}} ELSE {}

\* The callback of the write: the generator goes on, deletes what it moved
\* and reads the next batch.  On a broken stream the write may seem to succeed.
written ==
  LET gone  == mdel(stream)
      cache == [k \in Key |-> IF k \in gone THEN delete(store["source"][k], now, TRUE)
                              ELSE store["source"][k]]
      left  == updateKeysMeta(keysMeta["source"], gone, "delete")
  IN  /\ stream.at = "writing"
      /\ store' = [store EXCEPT !["source"] = cache]
      /\ keysMeta' = [keysMeta EXCEPT !["source"] = left]
      /\ proceed(follow(stream, keysMeta["source"], left), cache, left)
      /\ risked' = IF broken /\ command = "MoveData" THEN risked \cup stream.batch ELSE risked
      /\ UNCHANGED <<now, command, broken, loop, calls, newest, owed>>

\* The write fails: the generator is returned, before its mdel, and the call
\* ends.
writeFails ==
  /\ broken
  /\ stream.at = "writing"
  /\ stream' = [Idle EXCEPT !.at = "ended"]
  /\ UNCHANGED <<now, store, keysMeta, command, wire, broken, loop, calls, history>>

-----------------------------------------------------------------------------
(* The target *)

\* getDataStream: open the call.
getDataStream ==
  /\ loop = "none"
  /\ loop' = "reading"
  /\ UNCHANGED <<now, store, keysMeta, command, stream, wire, broken, calls, history>>

\* The item of key k in a chunk, none or one.
itemOf(chunk, k) == {d[2] : d \in {d \in chunk : d[1] = k}}

\* The next chunk: mset sets its items one by one.
mset ==
  LET new(k) == {v \in itemOf(Head(wire), k) : accepts(store["target"][k], v)}
  IN  /\ loop = "reading" /\ wire # << >>
      /\ store' = [store EXCEPT !["target"] =
                     [k \in Key |-> IF itemOf(Head(wire), k) = {} THEN @[k]
                                    ELSE UNION {set(@[k], v, now) : v \in itemOf(Head(wire), k)}]]
      /\ keysMeta' = [keysMeta EXCEPT !["target"] =
                        updateKeysMeta(@, {k \in Key : new(k) # {}}, "set")]
      /\ wire' = Tail(wire)
      /\ UNCHANGED <<now, command, stream, broken, loop, calls, history>>

\* Mutant: the error of the stream is only logged.
endOfStreamQuiet ==
  /\ loop = "reading"
  /\ ~ broken /\ stream.at = "ended" /\ wire = << >>
  /\ loop' = "done"
  /\ UNCHANGED <<now, store, keysMeta, command, stream, wire, broken, calls, history>>

\* The stream ends after its last chunk, or with an error that is logged.
endOfStream ==
  /\ loop = "reading"
  /\ \/ /\ ~ broken /\ stream.at = "ended" /\ wire = << >>
        /\ loop' = "done"
     \/ /\ broken
        /\ loop' = "failed"
  /\ UNCHANGED <<now, store, keysMeta, command, stream, wire, broken, calls, history>>

-----------------------------------------------------------------------------
(* The others *)

\* In the window between mget and mdel, mdel removes what is written now.
window == IF stream.at \in {"draining", "writing"} THEN stream.batch ELSE {}

wrote(s, k, t) ==
  /\ calls' = calls - 1
  /\ newest' = [newest EXCEPT ![k] = IF t > @ THEN t ELSE @]
  /\ risked' = IF s = "source" /\ k \in window /\ command = "MoveData"
               THEN risked \cup {k} ELSE risked
  /\ owed' = IF s = "source" THEN owed \ {k} ELSE owed
  /\ stream' = IF s = "source" THEN follow(stream, keysMeta[s], keysMeta'[s]) ELSE stream
  /\ UNCHANGED <<now, command, wire, broken, loop>>

\* Store.set for a client, whose update may be older than what is here.
clientSet(s, k, v) ==
  /\ calls > 0
  /\ accepts(store[s][k], v)
  /\ store' = [store EXCEPT ![s][k] = set(@, v, now)]
  /\ keysMeta' = [keysMeta EXCEPT ![s] = updateKeysMeta(@, {k}, "set")]
  /\ wrote(s, k, v.updatedAt)

\* Store.delete for a client: the tombstone is in the cache, not in keysMeta.
clientDelete(s, k) ==
  /\ calls > 0
  /\ get(store[s][k], now) # {}
  /\ store' = [store EXCEPT ![s][k] = delete(@, now, FALSE)]
  /\ keysMeta' = [keysMeta EXCEPT ![s] = updateKeysMeta(@, {k}, "delete")]
  /\ wrote(s, k, now)

\* The network or a process fails: what is on its way is lost, and of a move
\* the source has deleted all but the last chunk while its write is under way.
break ==
  LET last == IF stream.at = "writing" THEN Len(wire) ELSE 0
      lost == UNION {{d[1] : d \in wire[i]} : i \in (DOMAIN wire) \ {last}}
  IN  /\ loop = "reading" /\ ~ broken
      /\ broken' = TRUE
      /\ wire' = << >>
      /\ risked' = IF command = "MoveData" THEN risked \cup lost ELSE risked
      /\ UNCHANGED <<now, store, keysMeta, command, stream, loop, calls, newest, owed>>

tick ==
  /\ now < MaxTime
  /\ now' = now + 1
  /\ UNCHANGED <<store, keysMeta, command, stream, wire, broken, loop, calls, history>>

Next ==
  \/ getDataStream \/ executeStream \/ drain \/ written \/ writeFails
  \/ mset \/ endOfStream \/ break \/ tick
  \/ \E s \in Side, k \in Key :
       \/ \E v \in Item(Value, Epoch .. now) : clientSet(s, k, v)
       \/ clientDelete(s, k)

Spec == Init /\ [][Next]_vars

\* What is sent arrives or the stream fails; the source runs what it is sent
\* and hears of its writes while the stream lives.
Fairness ==
  /\ WF_vars(executeStream) /\ WF_vars(drain)
  /\ WF_vars(~ broken /\ written)
  /\ WF_vars(mset) /\ WF_vars(endOfStream)

FairSpec == Spec /\ Fairness

-----------------------------------------------------------------------------
(* The type invariant: every variable has its type, and the iterator of    *)
(* getBatchedKeys never yields a key that is no longer listed.             *)
TypeOK ==
  /\ now \in Epoch .. Max({Epoch, MaxTime})
  /\ store \in [Side -> [Key -> SUBSET Item(Value \cup {Deleted}, Epoch .. now)]]
  /\ keysMeta \in [Side -> SUBSET Key]
  /\ command \in Command
  /\ stream.at \in {"idle", "writing", "draining", "ended"}
  /\ stream.unvisited \cup stream.batch \subseteq Key
  /\ stream.unvisited \subseteq OfTokens(keysMeta["source"], stream.token)
  /\ stream.data \subseteq stream.batch \X Item(Value \cup {Deleted}, Epoch .. now)
  /\ \A i \in DOMAIN wire : wire[i] \subseteq Key \X Item(Value \cup {Deleted}, Epoch .. now)
  /\ broken \in BOOLEAN
  /\ loop \in {"none", "reading", "done", "failed"}
  /\ calls \in 0 .. MaxCalls
  /\ newest \in [Key -> {0} \cup Epoch .. now]
  /\ risked \subseteq Key /\ owed \subseteq Key

(* keysMeta, which set, delete, mset and mdel each keep beside the cache,  *)
(* lists the keys with a live item and no others, on both sides of a move  *)
(* and through every interleaving of it with the clients' calls: a live    *)
(* item that is not listed would never move.                               *)
ListedIsLive ==
  \A s \in Side, k \in Key :
    k \in keysMeta[s] <=> \E c \in store[s][k] : c.item # Deleted

\* Where the items of k are, on their way included.
copies(k) ==
  (UNION {store[s][k] : s \in Side}) \cup (UNION {itemOf(wire[i], k) : i \in DOMAIN wire})
    \cup (IF stream.at = "draining" THEN itemOf(stream.data, k) ELSE {})

(* Every update that either side accepted is kept by one of them or is on  *)
(* its way, unless a newer one is: a copy loses nothing, a failing stream  *)
(* or not; a move loses what was on its way when the stream failed, or     *)
(* was written at the source between its mget and its mdel, and nothing    *)
(* else.                                                                   *)
NothingElseLost ==
  \A k \in Key \ risked :
    newest[k] # 0 => \E c \in copies(k) : c.updatedAt >= newest[k]

(* When the stream ends without an error, the target has every key of the  *)
(* tokens that the source listed when it was asked, at its newest update,  *)
(* and after a move the source no longer has it; but for the keys written  *)
(* at the source meanwhile.  The iterator runs over a map that mdel and    *)
(* the clients change under it.                                            *)
HandedOver ==
  loop = "done" => \A k \in owed :
    /\ \E c \in store["target"][k] : c.updatedAt >= newest[k]
    /\ command = "MoveData" => store["source"][k] = {}

(* The node that asked does not wait for ever: its loop ends, with the     *)
(* stream or with its error.  initRing and the next peer to be asked wait  *)
(* for it.                                                                 *)
TransferEnds == loop = "reading" ~> loop \in {"done", "failed"}
=============================================================================
