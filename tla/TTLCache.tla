------------------------------ MODULE TTLCache ------------------------------
(***************************************************************************)
(* registry/cache.py, class TTLCache: the bounded cache the long-lived     *)
(* registry client keeps in front of the registry, driven by an arbitrary  *)
(* caller while the monotonic clock advances.  Every method runs without   *)
(* an await, so each is one action; the clock does not move inside one.    *)
(***************************************************************************)
EXTENDS CacheDict

CONSTANTS
    Keys,      \* cache keys
    Values,    \* cached values
    TTLs,      \* the lifetimes callers ask for
    MaxTime,   \* bound on the clock
    None       \* "no entry", "no answer"

ASSUME TTLsAssumption == TTLs \subseteq Nat

VARIABLES
    data,      \* self._data, see CacheDict
    now,       \* time.monotonic()
    ret,       \* what the last call returned
    written,   \* history: the deadline and value last set for each key
    since      \* history: how many new keys were stored after this one first was
               \*          (an overwrite keeps its place), counted up to MaxSize

vars == << data, now, ret, written, since >>

Item == [key : Keys, exp : Nat, val : Values]
Answer == [key : Keys, hit : BOOLEAN, val : Values \cup {None}]
Write == [exp : Nat, val : Values]

ASSUME NoneAssumption == None \notin Values /\ None \notin Write

-----------------------------------------------------------------------------
Init ==
    /\ data = << >>
    /\ now = 0
    /\ ret = None
    /\ written = [k \in Keys |-> None]
    /\ since = [k \in Keys |-> 0]

Tick ==
    /\ now < MaxTime
    /\ now' = now + 1
    /\ UNCHANGED << data, ret, written, since >>

Get(k) ==
    /\ ret' = IF Hit(data, k, now)
              THEN [key |-> k, hit |-> TRUE, val |-> ValueAt(data, k)]
              ELSE [key |-> k, hit |-> FALSE, val |-> None]
    /\ data' = AfterGet(data, k, now)
    /\ UNCHANGED << now, written, since >>

Set(k, v, ttl) ==
    /\ data' = AfterSet(data, k, v, ttl, now)
    /\ ret' = None
    /\ written' = [written EXCEPT ![k] = [exp |-> now + ttl, val |-> v]]
    /\ since' = IF k \in KeysOf(data) THEN since
                ELSE [j \in Keys |-> IF j = k THEN 0
                                     ELSE IF since[j] < MaxSize THEN since[j] + 1
                                     ELSE since[j]]
    /\ UNCHANGED now

Invalidate(k) ==
    /\ data' = Pop(data, k)
    /\ ret' = None
    /\ written' = [written EXCEPT ![k] = None]
    /\ UNCHANGED << now, since >>

Clear ==
    /\ data' = << >>
    /\ ret' = None
    /\ written' = [k \in Keys |-> None]
    /\ UNCHANGED << now, since >>

Next ==
    \/ Tick
    \/ \E k \in Keys : Get(k)
    \/ \E k \in Keys, v \in Values, ttl \in TTLs : Set(k, v, ttl)
    \/ \E k \in Keys : Invalidate(k)
    \/ Clear

Spec == Init /\ [][Next]_vars

-----------------------------------------------------------------------------
\* The cache is a dict (one item per key) and never outgrows max_size.
TypeOK ==
    /\ data \in Seq(Item)
    /\ Len(data) <= MaxSize
    /\ \A i, j \in DOMAIN data : data[i].key = data[j].key => i = j
    /\ now \in Nat
    /\ ret \in Answer \cup {None}
    /\ written \in [Keys -> Write \cup {None}]
    /\ since \in [Keys -> 0 .. MaxSize]

Live(k) == written[k] # None /\ written[k].exp > now

\* A value that was set and has not expired can be found again until MaxSize
\* new keys were stored after its key first was (setting it again does not renew
\* its place): neither the pruning in get, nor an eviction
\* for another key, nor the mix of short manifest and long blob lifetimes
\* makes the cache lose it earlier (get, set and _evict_one together).
FifoRetention ==
    \A k \in Keys : Live(k) /\ since[k] < MaxSize => Hit(data, k, now)

\* A lookup of a key that hits returns what was set last, before its deadline;
\* an overwritten or an invalidated value is never seen again.
HitIsLastSet ==
    \A k \in Keys : Hit(data, k, now) => Live(k) /\ ValueAt(data, k) = written[k].val

LostLive == {k \in Keys : Hit(data, k, now) /\ k \notin KeysOf(data')}

DropsForRoom ==
    \/ LostLive = {}
    \/ \E k \in Keys : Invalidate(k)
    \/ Clear
    \/ /\ \E k \in LostLive : LostLive = {k}
       /\ Len(data) = MaxSize
       /\ ExpiredAt(data, now) = {}

\* Unless the caller drops them, a live item leaves the cache only to make
\* room for a new key: one item at a time, in a full cache, and when every
\* other item was live as well (an expired item always goes first).
EvictionSparesLive == [][DropsForRoom]_vars

\* The dict implements the promise its callers rely on.
Promise == INSTANCE CachePromise WITH
    mem <- [k \in Keys |-> IF k \in KeysOf(data)
                           THEN [exp |-> data[IndexOf(data, k)].exp,
                                 val |-> data[IndexOf(data, k)].val]
                           ELSE None]
PromiseSpec == Promise!Spec

=============================================================================
