---------------------------- MODULE CachePromise ----------------------------
(***************************************************************************)
(* What registry/cache.py promises its callers, without the dict: a        *)
(* partial map from keys to values with deadlines, of at most MaxSize      *)
(* entries.  Storing a new key in a full map forgets one other entry, an   *)
(* expired one when there is any; nothing else is ever forgotten before    *)
(* its deadline.  Which live entry goes is left open here (TTLCache says   *)
(* it is the oldest insertion).                                            *)
(***************************************************************************)
EXTENDS Integers, FiniteSets

CONSTANTS Keys, Values, TTLs, MaxSize, MaxTime, None

VARIABLES mem, now, ret
vars == << mem, now, ret >>

Held == {k \in Keys : mem[k] # None}
Expired == {k \in Held : mem[k].exp <= now}

Init ==
    /\ mem = [k \in Keys |-> None]
    /\ now = 0
    /\ ret = None

Tick == now' = now + 1 /\ now < MaxTime /\ UNCHANGED << mem, ret >>

Get(k) ==
    /\ IF k \in Held \ Expired
       THEN ret' = [key |-> k, hit |-> TRUE, val |-> mem[k].val] /\ UNCHANGED mem
       ELSE /\ ret' = [key |-> k, hit |-> FALSE, val |-> None]
            /\ mem' = [mem EXCEPT ![k] = None]
    /\ UNCHANGED now

Forgettable(k) ==
    IF k \in Held \/ Cardinality(Held) < MaxSize THEN {{}}
    ELSE {{j} : j \in IF Expired = {} THEN Held ELSE Expired}

Set(k, v, ttl) ==
    /\ \E lost \in Forgettable(k) :
          mem' = [j \in Keys |-> IF j = k THEN [exp |-> now + ttl, val |-> v]
                                 ELSE IF j \in lost THEN None ELSE mem[j]]
    /\ ret' = None
    /\ UNCHANGED now

Invalidate(k) == mem' = [mem EXCEPT ![k] = None] /\ ret' = None /\ UNCHANGED now

Clear == mem' = [k \in Keys |-> None] /\ ret' = None /\ UNCHANGED now

Next ==
    \/ Tick
    \/ \E k \in Keys : Get(k) \/ Invalidate(k)
    \/ \E k \in Keys, v \in Values, ttl \in TTLs : Set(k, v, ttl)
    \/ Clear

Spec == Init /\ [][Next]_vars

=============================================================================
