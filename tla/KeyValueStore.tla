--------------------------- MODULE KeyValueStore ----------------------------
(***************************************************************************)
(* The key-value store of the persistence layer: GET, SET with a time to   *)
(* live, DEL and EXPIRE (persistence/redis-kv-store.ts, and the in-memory  *)
(* store of persistence/in-memory-kv-store.ts with the same meaning).      *)
(* A store maps every key to an entry; time to live is counted in ticks    *)
(* and an entry with none left is not there.                               *)
(***************************************************************************)
EXTENDS Naturals

CONSTANTS
    Key,      \* the keys of one room
    Nothing,  \* what GET answers for a key that is not there
    Ttl       \* ttlSeconds, in ticks

ASSUME StoreAssumption == Ttl \in Nat \ {0}

\* What a key that was never set, was deleted, or has expired holds.
Gone == [value |-> Nothing, left |-> 0]

EmptyStore == [k \in Key |-> Gone]

\* GET and EXISTS; the value is read only where the entry is there.
KvHas(s, k) == s[k].left > 0
KvGet(s, k) == s[k].value

\* SET key value EX ttl
KvSet(s, k, v) == [s EXCEPT ![k] = [value |-> v, left |-> Ttl]]

KvDel(s, k) == [s EXCEPT ![k] = Gone]

\* EXPIRE renews an entry that is there and does nothing to one that is not.
KvExpire(s, ks) ==
    [k \in Key |-> IF k \in ks /\ KvHas(s, k) THEN [s[k] EXCEPT !.left = Ttl] ELSE s[k]]

\* One tick of wall-clock time.
KvTick(s) ==
    [k \in Key |-> IF s[k].left > 1 THEN [s[k] EXCEPT !.left = @ - 1] ELSE Gone]
=============================================================================
