----------------------------- MODULE CacheDict -----------------------------
(***************************************************************************)
(* The data structure of registry/cache.py (class TTLCache) and what each  *)
(* of its methods does to it, as operators on values: the state machines   *)
(* that own a cache (TTLCache, RegistryClient) apply them to a variable.   *)
(*                                                                         *)
(* A Python dict iterates in insertion order and an assignment to a key    *)
(* already present keeps the key's place, so the dict is the sequence of   *)
(* its items, oldest insertion first.  An item is [key, exp, val]: `exp'   *)
(* is the monotonic() time from which the item is expired.                 *)
(***************************************************************************)
EXTENDS Integers, Sequences

CONSTANT MaxSize        \* TTLCache(max_size): 256 in the application

ASSUME MaxSizeAssumption == MaxSize \in Nat \ {0}

KeysOf(d) == {d[i].key : i \in DOMAIN d}

\* The place of key k, which is present in d.
IndexOf(d, k) == CHOOSE i \in DOMAIN d : d[i].key = k

\* d without its item at place p.
Without(d, p) == [i \in 1 .. Len(d) - 1 |-> IF i < p THEN d[i] ELSE d[i + 1]]

ExpiredAt(d, t) == {i \in DOMAIN d : d[i].exp <= t}

\* Mutant of Hit: a deadline that has passed is not looked at.
Hit_Expired(d, k, t) == k \in KeysOf(d)

\* get hits iff the item is there and its deadline lies ahead.
Hit(d, k, t) == k \in KeysOf(d) /\ d[IndexOf(d, k)].exp > t
ValueAt(d, k) == d[IndexOf(d, k)].val

\* dict.pop(key, None), which is also what invalidate does.
Pop(d, k) == IF k \in KeysOf(d) THEN Without(d, IndexOf(d, k)) ELSE d

\* The dict after get(k): an expired item is pruned on read.
AfterGet(d, k, t) == IF Hit(d, k, t) THEN d ELSE Pop(d, k)

\* Mutants of Victim: the newest live item goes; expired items are not preferred.
Victim_Newest(d, t) == IF ExpiredAt(d, t) = {} THEN Len(d) ELSE 1
Victim_Oldest(d, t) == 1

\* The place _evict_one drops: the first expired item, else the first item.
Victim(d, t) ==
    IF ExpiredAt(d, t) = {} THEN 1
    ELSE CHOOSE i \in ExpiredAt(d, t) : \A j \in ExpiredAt(d, t) : i <= j

EvictOne(d, t) == IF d = << >> THEN d ELSE Without(d, Victim(d, t))

\* Mutants of AfterSet: no eviction; a key that is there keeps its old item;
\* a full cache evicts also when a key is overwritten.
AfterSet_Unbounded(d, k, v, ttl, t) ==
    Append(Pop(d, k), [key |-> k, exp |-> t + ttl, val |-> v])
AfterSet_KeepsOld(d, k, v, ttl, t) ==
    IF k \in KeysOf(d) THEN d
    ELSE Append(IF Len(d) >= MaxSize THEN EvictOne(d, t) ELSE d,
                [key |-> k, exp |-> t + ttl, val |-> v])
AfterSet_Evicts(d, k, v, ttl, t) ==
    Append(Pop(IF Len(d) >= MaxSize THEN EvictOne(d, t) ELSE d, k),
           [key |-> k, exp |-> t + ttl, val |-> v])

\* The dict after set(k, v, ttl) at time t.
AfterSet(d, k, v, ttl, t) ==
    LET item == [key |-> k, exp |-> t + ttl, val |-> v]
    IN  IF k \in KeysOf(d) THEN [d EXCEPT ![IndexOf(d, k)] = item]
        ELSE Append(IF Len(d) >= MaxSize THEN EvictOne(d, t) ELSE d, item)

=============================================================================
