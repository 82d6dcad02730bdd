------------------------------- MODULE Store -------------------------------
(***************************************************************************)
(* One replica's cache for one key (packages/kv-store/src/store.ts): the   *)
(* empty set, or the set of one item.  Keys do not interact: each command  *)
(* is a map operation on its own key.  `now` is the replica's clock; the   *)
(* times are those of Date.now(), far beyond any relative ttl.             *)
(***************************************************************************)
EXTENDS Integers

CONSTANTS Value,       \* what the clients store
          NoTtl,       \* ttl is undefined
          Tombstone    \* opts.enableDataSync: deletions leave a tombstone

\* The item of a tombstone, "" in the code, which no client can store.
Deleted == "deleted"

ASSUME StoreAssumption == NoTtl \notin Nat /\ Deleted \notin Value /\ Tombstone \in BOOLEAN

CacheItem == [item : Value \cup {Deleted}, updatedAt : Nat, ttl : Nat \cup {NoTtl}]

\* A ttl in the cache is absolute; 0 is falsy.
isAlreadyExpired(v, now) == v.ttl \notin {NoTtl, 0} /\ now > v.ttl

buildCacheValue(v, now) == [v EXCEPT !.ttl = IF @ = NoTtl THEN @ ELSE now + @]

\* Mutant: the order of the two updates is not looked at.
setAlways(cache, v, now) ==
  IF isAlreadyExpired(v, now) THEN cache ELSE {buildCacheValue(v, now)}

\* isDelayedRequest: an older update never replaces a newer one.
set(cache, v, now) ==
  IF isAlreadyExpired(v, now) \/ \E c \in cache : c.updatedAt > v.updatedAt
  THEN cache
  ELSE {buildCacheValue(v, now)}

\* An expired item is also dropped from the cache.
get(cache, now) == {c \in cache : ~ isAlreadyExpired(c, now)}

\* Mutant: no tombstone.
deleteEntirely(cache, now, disableTombstone) == {}

\* The tombstone is set like any item, with this replica's time.
delete(cache, now, disableTombstone) ==
  IF Tombstone /\ ~ disableTombstone /\ get(cache, now) # {}
  THEN set(get(cache, now), [item |-> Deleted, updatedAt |-> now, ttl |-> NoTtl], now)
  ELSE {}
=============================================================================
