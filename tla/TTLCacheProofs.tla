--------------------------- MODULE TTLCacheProofs ---------------------------
(***************************************************************************)
(* Proofs that the cache of registry/cache.py is a bounded dict, that what *)
(* it returns was set last, and that it retains live items first in, first *)
(* out, for every capacity, every key set and every choice of lifetimes;   *)
(* and that it implements the map of CachePromise.                         *)
(***************************************************************************)
EXTENDS TTLCache, SequenceTheorems, FiniteSetTheorems, WellFoundedInduction, TLAPS

-----------------------------------------------------------------------------
\* The dict operations.

\* A dict is a sequence of items no two of which have the same key.
Dict(S) == {d \in Seq(S) : \A i, j \in DOMAIN d : d[i].key = d[j].key => i = j}

\* A present key has one place, the one IndexOf names.
LEMMA IndexOfPlace ==
    ASSUME NEW d, NEW k \in KeysOf(d)
    PROVE  IndexOf(d, k) \in DOMAIN d /\ d[IndexOf(d, k)].key = k
  BY DEF KeysOf, IndexOf

\* Dropping the item at a place shifts the later ones down by one.
LEMMA WithoutShape ==
    ASSUME NEW S, NEW d \in Seq(S), NEW p \in 1 .. Len(d)
    PROVE  /\ Without(d, p) \in Seq(S)
           /\ Len(Without(d, p)) = Len(d) - 1
           /\ DOMAIN Without(d, p) = 1 .. Len(d) - 1
           /\ \A i \in 1 .. Len(d) - 1 :
                 Without(d, p)[i] = IF i < p THEN d[i] ELSE d[i + 1]
<1>1. Len(d) \in Nat /\ d \in [1 .. Len(d) -> S]
  BY LenProperties
<1>2. \A i \in 1 .. Len(d) - 1 : i \in 1 .. Len(d) /\ i + 1 \in 1 .. Len(d)
  BY <1>1
<1>3. Without(d, p) \in [1 .. Len(d) - 1 -> S]
  BY <1>1, <1>2 DEF Without
<1>4. Len(d) - 1 \in Nat
  BY <1>1
<1>5. Without(d, p) \in Seq(S)
  BY <1>3, <1>4, SeqDef
<1>6. Len(Without(d, p)) = Len(d) - 1
  <2>1. Len(Without(d, p)) \in Nat /\ DOMAIN Without(d, p) = 1 .. Len(Without(d, p))
    BY <1>5, LenProperties
  <2>2. DOMAIN Without(d, p) = 1 .. Len(d) - 1
    BY <1>3
  <2> QED BY <2>1, <2>2, <1>4
<1> QED BY <1>3, <1>5, <1>6 DEF Without

\* b is what is left of the dict d after some items were dropped: the items
\* keep their order, so none has more items behind it than it had.
Rest(S, b, d) ==
    /\ b \in Dict(S)
    /\ Len(b) <= Len(d)
    /\ \A i \in DOMAIN b : \E j \in DOMAIN d :
          b[i] = d[j] /\ Len(b) - i <= Len(d) - j

\* Dropping the item at place p leaves all the others, and not its key.
LEMMA WithoutDict ==
    ASSUME NEW S, NEW d \in Dict(S), NEW p \in 1 .. Len(d)
    PROVE  /\ Rest(S, Without(d, p), d)
           /\ Len(Without(d, p)) = Len(d) - 1
           /\ d[p].key \notin KeysOf(Without(d, p))
           /\ \A j \in DOMAIN d : j # p =>
                 \E i \in DOMAIN Without(d, p) : Without(d, p)[i] = d[j]
<1> DEFINE w == Without(d, p)
<1>1. d \in Seq(S) /\ Len(d) \in Nat /\ DOMAIN d = 1 .. Len(d)
  BY LenProperties DEF Dict
<1>2. /\ w \in Seq(S) /\ Len(w) = Len(d) - 1 /\ DOMAIN w = 1 .. Len(d) - 1
      /\ \A i \in DOMAIN w : w[i] = IF i < p THEN d[i] ELSE d[i + 1]
  BY <1>1, WithoutShape
<1> DEFINE Old(i) == IF i < p THEN i ELSE i + 1
<1> HIDE DEF w
<1>3. \A i \in DOMAIN w : /\ Old(i) \in DOMAIN d /\ Old(i) # p /\ w[i] = d[Old(i)]
                          /\ Len(w) - i <= Len(d) - Old(i)
  BY <1>1, <1>2
<1>4. \A j \in DOMAIN d : j # p => \E i \in DOMAIN w : w[i] = d[j]
  <2> SUFFICES ASSUME NEW j \in DOMAIN d, j # p PROVE \E i \in DOMAIN w : w[i] = d[j]
    OBVIOUS
  <2>1. CASE j < p
    <3>1. j \in DOMAIN w /\ w[j] = d[j]
      BY <2>1, <1>1, <1>2
    <3> QED BY <3>1
  <2>2. CASE j > p
    <3>1. j - 1 \in DOMAIN w /\ w[j - 1] = d[j]
      BY <2>2, <1>1, <1>2
    <3> QED BY <3>1
  <2> QED BY <2>1, <2>2, <1>1
<1>5. \A i, j \in DOMAIN w : w[i].key = w[j].key => i = j
  <2> SUFFICES ASSUME NEW i \in DOMAIN w, NEW j \in DOMAIN w, w[i].key = w[j].key
               PROVE  i = j
    OBVIOUS
  <2>1. Old(i) = Old(j)
    <3>1. d[Old(i)].key = d[Old(j)].key
      BY <1>3
    <3> HIDE DEF Old
    <3> QED BY <3>1, <1>3 DEF Dict
  <2> QED BY <2>1, <1>1, <1>2
<1>6. d[p].key \notin KeysOf(w)
  <2> HIDE DEF Old
  <2> QED BY <1>1, <1>3 DEF KeysOf, Dict
<1>7. Rest(S, w, d)
  <2> HIDE DEF Old
  <2>1. Len(w) <= Len(d)
    BY <1>1, <1>2
  <2> QED BY <1>2, <1>3, <1>5, <2>1 DEF Rest, Dict
<1> QED BY <1>2, <1>4, <1>6, <1>7 DEF w

\* A dict is what is left of itself.
LEMMA RestRefl == ASSUME NEW S, NEW d \in Dict(S) PROVE Rest(S, d, d)
<1>1. d \in Seq(S) /\ Len(d) \in Nat /\ DOMAIN d = 1 .. Len(d)
  BY LenProperties DEF Dict
<1> QED BY <1>1 DEF Rest

\* A lookup hits iff an item with the key has its deadline ahead; the value
\* returned is that item's.
LEMMA HitMeaning ==
    ASSUME NEW S, NEW d \in Dict(S), NEW k, NEW t
    PROVE  /\ Hit(d, k, t) <=> \E i \in DOMAIN d : d[i].key = k /\ d[i].exp > t
           /\ \A i \in DOMAIN d : d[i].key = k => IndexOf(d, k) = i
<1>1. \A i \in DOMAIN d : d[i].key = k => k \in KeysOf(d) /\ IndexOf(d, k) = i
  <2> SUFFICES ASSUME NEW i \in DOMAIN d, d[i].key = k
               PROVE  k \in KeysOf(d) /\ IndexOf(d, k) = i
    OBVIOUS
  <2>1. k \in KeysOf(d)
    BY DEF KeysOf
  <2>2. IndexOf(d, k) \in DOMAIN d /\ d[IndexOf(d, k)].key = k
    BY <2>1, IndexOfPlace
  <2> QED BY <2>1, <2>2 DEF Dict
<1>2. Hit(d, k, t) => \E i \in DOMAIN d : d[i].key = k /\ d[i].exp > t
  BY IndexOfPlace DEF Hit
<1>3. (\E i \in DOMAIN d : d[i].key = k /\ d[i].exp > t) => Hit(d, k, t)
  BY <1>1 DEF Hit
<1> QED BY <1>1, <1>2, <1>3

\* pop drops the key's item and no other.
LEMMA PopDict ==
    ASSUME NEW S, NEW d \in Dict(S), NEW k
    PROVE  /\ Rest(S, Pop(d, k), d)
           /\ k \notin KeysOf(Pop(d, k))
           /\ \A j \in DOMAIN d : d[j].key # k =>
                 \E i \in DOMAIN Pop(d, k) : Pop(d, k)[i] = d[j]
<1>1. CASE k \notin KeysOf(d)
  BY <1>1, RestRefl DEF Pop
<1>2. CASE k \in KeysOf(d)
  <2>1. IndexOf(d, k) \in 1 .. Len(d) /\ d[IndexOf(d, k)].key = k
    BY <1>2, IndexOfPlace, LenProperties DEF Dict
  <2> QED BY <1>2, <2>1, WithoutDict DEF Pop
<1> QED BY <1>1, <1>2

\* A set of natural numbers that has elements has a least one.
LEMMA LeastElement ==
    ASSUME NEW T \in SUBSET Nat, T # {}
    PROVE  \E i \in T : \A j \in T : i <= j
<1>1. PICK i \in T : \A j \in T : << j, i >> \notin OpToRel(<, Nat)
  BY NatLessThanWellFounded, WFMin
<1>2. \A j \in T : ~ (j < i)
  BY <1>1 DEF OpToRel
<1> QED BY <1>2

\* _evict_one drops a place of the dict: an expired item's when there is one,
\* otherwise the oldest insertion's.
LEMMA VictimPlace ==
    ASSUME NEW S, NEW d \in Dict(S), Len(d) > 0, NEW t \in Int
    PROVE  /\ Victim(d, t) \in 1 .. Len(d)
           /\ ExpiredAt(d, t) = {} => Victim(d, t) = 1
           /\ ExpiredAt(d, t) # {} => Victim(d, t) \in ExpiredAt(d, t)
<1>1. Len(d) \in Nat /\ DOMAIN d = 1 .. Len(d)
  BY LenProperties DEF Dict
<1>2. CASE ExpiredAt(d, t) = {}
  BY <1>1, <1>2 DEF Victim
<1>3. CASE ExpiredAt(d, t) # {}
  <2>1. ExpiredAt(d, t) \subseteq 1 .. Len(d)
    BY <1>1 DEF ExpiredAt
  <2>2. ExpiredAt(d, t) \subseteq Nat
    BY <2>1, <1>1
  <2>3. \E i \in ExpiredAt(d, t) : \A j \in ExpiredAt(d, t) : i <= j
    BY <2>2, <1>3, LeastElement
  <2>4. Victim(d, t) \in ExpiredAt(d, t)
    BY <1>3, <2>3 DEF Victim
  <2> QED BY <1>3, <2>1, <2>4
<1> QED BY <1>2, <1>3

\* The dict that set appends a new item to.
Room(d, t) == IF Len(d) >= MaxSize THEN EvictOne(d, t) ELSE d

\* It has room, and when an item had
\* to go, that was an expired one or the oldest insertion.
LEMMA RoomDict ==
    ASSUME NEW S, NEW d \in Dict(S), Len(d) <= MaxSize, NEW t \in Int
    PROVE  /\ Rest(S, Room(d, t), d)
           /\ Len(Room(d, t)) < MaxSize
           /\ \A j \in DOMAIN d :
                 \/ \E i \in DOMAIN Room(d, t) : Room(d, t)[i] = d[j]
                 \/ d[j].exp <= t
                 \/ j = 1 /\ Len(d) = MaxSize /\ ExpiredAt(d, t) = {}
<1> DEFINE b == Room(d, t)
<1>0. b = IF Len(d) >= MaxSize THEN EvictOne(d, t) ELSE d
  BY DEF Room
<1> HIDE DEF b
<1> SUFFICES /\ Rest(S, b, d)
             /\ Len(b) < MaxSize
             /\ \A j \in DOMAIN d :
                   \/ \E i \in DOMAIN b : b[i] = d[j]
                   \/ d[j].exp <= t
                   \/ j = 1 /\ Len(d) = MaxSize /\ ExpiredAt(d, t) = {}
  BY DEF b
<1>1. d \in Seq(S) /\ Len(d) \in Nat /\ DOMAIN d = 1 .. Len(d) /\ MaxSize \in Nat \ {0}
  BY LenProperties, MaxSizeAssumption DEF Dict
<1>2. CASE Len(d) < MaxSize
  <2>1. b = d
    BY <1>0, <1>1, <1>2
  <2> QED BY <2>1, <1>1, <1>2, RestRefl
<1>3. CASE Len(d) >= MaxSize
  <2> DEFINE p == Victim(d, t)
  <2>1. Len(d) = MaxSize /\ Len(d) > 0 /\ d # << >>
    <3>1. Len(d) \in Nat /\ MaxSize \in Nat /\ MaxSize # 0
      BY <1>1
    <3>2. Len(d) = MaxSize /\ Len(d) > 0
      BY <3>1, <1>3
    <3> QED BY <3>2, EmptySeq
  <2>2. b = Without(d, p)
    BY <1>0, <1>3, <2>1 DEF EvictOne
  <2>3. /\ p \in 1 .. Len(d)
        /\ ExpiredAt(d, t) = {} => p = 1
        /\ ExpiredAt(d, t) # {} => p \in ExpiredAt(d, t)
    BY <2>1, VictimPlace
  <2> HIDE DEF p
  <2>4. /\ Rest(S, b, d) /\ Len(b) = Len(d) - 1
        /\ \A j \in DOMAIN d : j # p => \E i \in DOMAIN b : b[i] = d[j]
    BY <2>2, <2>3, WithoutDict
  <2>5. Len(b) < MaxSize
    BY <1>1, <2>1, <2>4
  <2>6. d[p].exp <= t \/ (p = 1 /\ ExpiredAt(d, t) = {})
    BY <2>3 DEF ExpiredAt
  <2> QED BY <2>1, <2>4, <2>5, <2>6
<1>4. Len(d) < MaxSize \/ Len(d) >= MaxSize
  BY <1>1
<1> QED BY <1>2, <1>3, <1>4

\* Appending an item with a new key gives a dict with the item in last place.
LEMMA AppendDict ==
    ASSUME NEW S, NEW b \in Dict(S), NEW e \in S, e.key \notin KeysOf(b)
    PROVE  /\ Append(b, e) \in Dict(S)
           /\ Len(Append(b, e)) = Len(b) + 1
           /\ DOMAIN Append(b, e) = 1 .. Len(b) + 1
           /\ Append(b, e)[Len(b) + 1] = e
           /\ \A i \in DOMAIN b : i \in 1 .. Len(b) /\ Append(b, e)[i] = b[i]
<1>1. b \in Seq(S) /\ Len(b) \in Nat /\ DOMAIN b = 1 .. Len(b)
  BY LenProperties DEF Dict
<1>2. /\ Append(b, e) \in Seq(S) /\ Len(Append(b, e)) = Len(b) + 1
      /\ Append(b, e)[Len(b) + 1] = e
      /\ \A i \in 1 .. Len(b) : Append(b, e)[i] = b[i]
  BY <1>1, AppendProperties
<1>3. DOMAIN Append(b, e) = 1 .. Len(b) + 1
  BY <1>2, LenProperties
<1>4. \A i \in 1 .. Len(b) : b[i].key # e.key
  BY <1>1 DEF KeysOf
<1>5. \A i, j \in 1 .. Len(b) + 1 : Append(b, e)[i].key = Append(b, e)[j].key => i = j
  <2> SUFFICES ASSUME NEW i \in 1 .. Len(b) + 1, NEW j \in 1 .. Len(b) + 1,
                      Append(b, e)[i].key = Append(b, e)[j].key
               PROVE  i = j
    OBVIOUS
  <2>1. CASE i \in 1 .. Len(b) /\ j \in 1 .. Len(b)
    BY <2>1, <1>1, <1>2 DEF Dict
  <2>2. CASE i = Len(b) + 1 \/ j = Len(b) + 1
    BY <2>2, <1>1, <1>2, <1>4
  <2> QED BY <2>1, <2>2, <1>1
<1> QED BY <1>1, <1>2, <1>3, <1>5 DEF Dict

\* Overwriting the item of a key that is present keeps every place.
LEMMA OverwriteDict ==
    ASSUME NEW S, NEW d \in Dict(S), NEW p \in DOMAIN d, NEW e \in S, e.key = d[p].key
    PROVE  /\ [d EXCEPT ![p] = e] \in Dict(S)
           /\ Len([d EXCEPT ![p] = e]) = Len(d)
           /\ DOMAIN [d EXCEPT ![p] = e] = DOMAIN d
           /\ \A i \in DOMAIN d : [d EXCEPT ![p] = e][i] = IF i = p THEN e ELSE d[i]
<1>1. d \in Seq(S) /\ Len(d) \in Nat /\ DOMAIN d = 1 .. Len(d)
  BY LenProperties DEF Dict
<1>2. /\ [d EXCEPT ![p] = e] \in Seq(S) /\ Len([d EXCEPT ![p] = e]) = Len(d)
      /\ \A i \in 1 .. Len(d) : [d EXCEPT ![p] = e][i] = IF i = p THEN e ELSE d[i]
  BY <1>1, ExceptSeq
<1>3. DOMAIN [d EXCEPT ![p] = e] = DOMAIN d
  OBVIOUS
<1>4. \A i, j \in DOMAIN d :
         [d EXCEPT ![p] = e][i].key = [d EXCEPT ![p] = e][j].key => i = j
  <2>1. \A i \in DOMAIN d : [d EXCEPT ![p] = e][i].key = d[i].key
    BY <1>1, <1>2
  <2> QED BY <2>1 DEF Dict
<1> QED BY <1>1, <1>2, <1>3, <1>4 DEF Dict

-----------------------------------------------------------------------------
\* The inductive invariant.

\* Every item holds what was set last for its key.
Current ==
    \A i \in DOMAIN data :
        written[data[i].key] = [exp |-> data[i].exp, val |-> data[i].val]

\* The items behind an item are new keys stored after it.
Ages == \A i \in DOMAIN data : Len(data) - i <= since[data[i].key]

IInv == TypeOK /\ Current /\ Ages /\ FifoRetention

\* What the type invariant says of the dict.
LEMMA DataDict ==
    ASSUME TypeOK
    PROVE  /\ data \in Dict(Item)
           /\ Len(data) \in Nat
           /\ DOMAIN data = 1 .. Len(data)
           /\ \A i \in DOMAIN data : data[i] \in Item
           /\ MaxSize \in Nat \ {0}
<1>1. data \in Dict(Item)
  BY DEF TypeOK, Dict
<1>2. data \in Seq(Item)
  BY DEF TypeOK
<1> QED BY <1>1, <1>2, LenProperties, ElementOfSeq, MaxSizeAssumption

\* The retention promise in terms of places: a live key stored fewer than
\* MaxSize keys ago has an item whose deadline lies ahead.
LEMMA FifoMeaning ==
    ASSUME TypeOK
    PROVE  FifoRetention <=>
              \A k \in Keys : Live(k) /\ since[k] < MaxSize =>
                  \E i \in DOMAIN data : data[i].key = k /\ data[i].exp > now
  BY DataDict, HitMeaning DEF FifoRetention

\* Dropping items that are expired, or whose keys the caller gave up, keeps
\* the invariant: get and invalidate.
LEMMA RestStep ==
    ASSUME IInv, Rest(Item, data', data),
           now' = now, since' = since, ret' \in Answer \cup {None},
           written' \in [Keys -> Write \cup {None}],
           \A i \in DOMAIN data' : written'[data'[i].key] = written[data'[i].key],
           \A k \in Keys : written'[k] = written[k] \/ written'[k] = None,
           \A k \in Keys, j \in DOMAIN data :
              /\ written'[k] # None
              /\ data[j].key = k
              /\ data[j].exp > now
              => \E i \in DOMAIN data' : data'[i] = data[j]
    PROVE  IInv'
<1>1. /\ data \in Dict(Item) /\ Len(data) \in Nat /\ DOMAIN data = 1 .. Len(data)
      /\ \A i \in DOMAIN data : data[i] \in Item
      /\ MaxSize \in Nat \ {0} /\ Len(data) <= MaxSize
      /\ now \in Nat /\ since \in [Keys -> 0 .. MaxSize]
  BY DataDict DEF IInv, TypeOK
<1>2. /\ data' \in Dict(Item) /\ data' \in Seq(Item) /\ Len(data') \in Nat
      /\ Len(data') <= Len(data) /\ DOMAIN data' = 1 .. Len(data')
      /\ \A i \in DOMAIN data' : \E j \in DOMAIN data :
            data'[i] = data[j] /\ Len(data') - i <= Len(data) - j
  BY LenProperties DEF Rest, Dict
<1>3. TypeOK'
  <2>1. Len(data') <= MaxSize
    BY <1>1, <1>2
  <2>2. \A i, j \in DOMAIN data' : data'[i].key = data'[j].key => i = j
    BY <1>2 DEF Dict
  <2> QED BY <1>1, <1>2, <2>1, <2>2 DEF TypeOK
<1>4. Current'
  BY <1>2 DEF IInv, Current
<1>5. Ages'
  <2> SUFFICES ASSUME NEW i \in DOMAIN data'
               PROVE  Len(data') - i <= since[data'[i].key]
    BY DEF Ages
  <2>1. PICK j \in DOMAIN data : data'[i] = data[j] /\ Len(data') - i <= Len(data) - j
    BY <1>2
  <2>2. Len(data) - j <= since[data[j].key] /\ since[data[j].key] \in Nat
    BY <1>1 DEF IInv, Ages, Item
  <2> QED BY <1>1, <1>2, <2>1, <2>2
<1>6. FifoRetention'
  <2> SUFFICES ASSUME NEW k \in Keys, Live(k)', since[k] < MaxSize
               PROVE  \E i \in DOMAIN data' : data'[i].key = k /\ data'[i].exp > now
    BY <1>2, HitMeaning DEF FifoRetention
  <2>1. Live(k) /\ written'[k] # None
    BY DEF Live
  <2>2. PICK j \in DOMAIN data : data[j].key = k /\ data[j].exp > now
    BY <2>1, FifoMeaning DEF IInv
  <2>3. PICK i \in DOMAIN data' : data'[i] = data[j]
    BY <2>1, <2>2
  <2> QED BY <2>2, <2>3
<1> QED BY <1>3, <1>4, <1>5, <1>6 DEF IInv

\* Overwriting a key that is present keeps the invariant.
LEMMA OverwriteStep ==
    ASSUME IInv, NEW k \in Keys, NEW v \in Values, NEW ttl \in TTLs,
           Set(k, v, ttl), k \in KeysOf(data)
    PROVE  IInv'
<1> DEFINE p == IndexOf(data, k)
           e == [key |-> k, exp |-> now + ttl, val |-> v]
<1>1. /\ data \in Dict(Item) /\ Len(data) \in Nat /\ DOMAIN data = 1 .. Len(data)
      /\ \A i \in DOMAIN data : data[i] \in Item
      /\ now \in Nat /\ since \in [Keys -> 0 .. MaxSize]
      /\ written \in [Keys -> Write \cup {None}]
  BY DataDict DEF IInv, TypeOK
<1>2. e \in Item /\ [exp |-> now + ttl, val |-> v] \in Write
  BY <1>1, TTLsAssumption DEF Item, Write
<1>3. p \in DOMAIN data /\ data[p].key = k
  BY IndexOfPlace
<1>4. data' = [data EXCEPT ![p] = e]
  BY DEF Set, AfterSet
<1>5. /\ now' = now /\ since' = since /\ ret' = None
      /\ written' = [written EXCEPT ![k] = [exp |-> now + ttl, val |-> v]]
  BY DEF Set
<1> HIDE DEF p
<1>6. /\ data' \in Dict(Item) /\ Len(data') = Len(data) /\ DOMAIN data' = DOMAIN data
      /\ \A i \in DOMAIN data : data'[i] = IF i = p THEN e ELSE data[i]
  <2>1. e.key = data[p].key
    BY <1>3
  <2> HIDE DEF e
  <2> QED BY <1>1, <1>2, <1>3, <1>4, <2>1, OverwriteDict
<1>7. \A i \in DOMAIN data : data'[i].key = data[i].key
  BY <1>3, <1>6
<1>8. TypeOK'
  BY <1>1, <1>2, <1>5, <1>6 DEF IInv, TypeOK, Dict
<1>9. Current'
  <2> SUFFICES ASSUME NEW i \in DOMAIN data
               PROVE  written'[data'[i].key] = [exp |-> data'[i].exp, val |-> data'[i].val]
    BY <1>6 DEF Current
  <2>1. CASE i = p
    BY <2>1, <1>1, <1>5, <1>6
  <2>2. CASE i # p
    <3>1. data'[i] = data[i] /\ data[i].key # k
      BY <2>2, <1>1, <1>3, <1>6 DEF Dict
    <3> QED BY <3>1, <1>5 DEF IInv, Current
  <2> QED BY <2>1, <2>2
<1>10. Ages'
  BY <1>5, <1>6, <1>7 DEF IInv, Ages
<1>11. FifoRetention'
  <2> SUFFICES ASSUME NEW j \in Keys, Live(j)', since[j] < MaxSize
               PROVE  \E i \in DOMAIN data' : data'[i].key = j /\ data'[i].exp > now
    BY <1>5, <1>6, HitMeaning DEF FifoRetention
  <2>1. CASE j = k
    <3>1. now + ttl > now
      BY <2>1, <1>1, <1>5 DEF Live
    <3> QED BY <2>1, <3>1, <1>3, <1>6
  <2>2. CASE j # k
    <3>1. Live(j)
      BY <2>2, <1>5 DEF Live
    <3>2. PICK i \in DOMAIN data : data[i].key = j /\ data[i].exp > now
      BY <3>1, FifoMeaning DEF IInv
    <3> QED BY <2>2, <3>2, <1>3, <1>6
  <2> QED BY <2>1, <2>2
<1> QED BY <1>8, <1>9, <1>10, <1>11 DEF IInv

\* Storing a new key, with or without an eviction, keeps the invariant.
LEMMA InsertStep ==
    ASSUME IInv, NEW k \in Keys, NEW v \in Values, NEW ttl \in TTLs,
           Set(k, v, ttl), k \notin KeysOf(data)
    PROVE  IInv'
<1> DEFINE b == Room(data, now)
           e == [key |-> k, exp |-> now + ttl, val |-> v]
           n == Len(b) + 1
<1>1. /\ data \in Dict(Item) /\ Len(data) \in Nat /\ DOMAIN data = 1 .. Len(data)
      /\ \A i \in DOMAIN data : data[i] \in Item
      /\ now \in Nat /\ since \in [Keys -> 0 .. MaxSize] /\ Len(data) <= MaxSize
      /\ written \in [Keys -> Write \cup {None}] /\ MaxSize \in Nat \ {0}
  BY DataDict DEF IInv, TypeOK
<1>2. e \in Item /\ [exp |-> now + ttl, val |-> v] \in Write
  BY <1>1, TTLsAssumption DEF Item, Write
<1>3. data' = Append(b, e)
  BY DEF Set, AfterSet, Room
<1>4. /\ now' = now /\ ret' = None
      /\ written' = [written EXCEPT ![k] = [exp |-> now + ttl, val |-> v]]
      /\ since' = [j \in Keys |-> IF j = k THEN 0
                                  ELSE IF since[j] < MaxSize THEN since[j] + 1
                                  ELSE since[j]]
  BY DEF Set
<1>5. /\ Rest(Item, b, data) /\ Len(b) < MaxSize
      /\ \A j \in DOMAIN data :
            \/ \E i \in DOMAIN b : b[i] = data[j]
            \/ data[j].exp <= now
            \/ j = 1 /\ Len(data) = MaxSize
  <2>1. data \in Dict(Item) /\ Len(data) <= MaxSize /\ now \in Int
    BY <1>1
  <2> QED BY <2>1, RoomDict
<1> HIDE DEF b
<1>6. /\ b \in Dict(Item) /\ Len(b) \in Nat /\ DOMAIN b = 1 .. Len(b)
      /\ \A i \in DOMAIN b : \E j \in DOMAIN data :
            b[i] = data[j] /\ Len(b) - i <= Len(data) - j
  BY <1>5, LenProperties DEF Rest, Dict
<1>7. e.key \notin KeysOf(b)
  BY <1>6 DEF KeysOf
<1>8. /\ data' \in Dict(Item) /\ Len(data') = n /\ DOMAIN data' = 1 .. n
      /\ data'[n] = e
      /\ \A i \in DOMAIN b : data'[i] = b[i]
  BY <1>2, <1>3, <1>6, <1>7, AppendDict
<1>9. since' \in [Keys -> 0 .. MaxSize]
  BY <1>1, <1>4
<1>10. TypeOK'
  <2>1. Len(data') <= MaxSize
    BY <1>1, <1>5, <1>6, <1>8
  <2>2. data' \in Seq(Item) /\ \A i, j \in DOMAIN data' : data'[i].key = data'[j].key => i = j
    BY <1>8 DEF Dict
  <2>3. now' \in Nat /\ ret' \in Answer \cup {None} /\ written' \in [Keys -> Write \cup {None}]
    BY <1>1, <1>2, <1>4
  <2> QED BY <1>9, <2>1, <2>2, <2>3 DEF TypeOK
<1>11. \A i \in 1 .. Len(b) : data'[i].key \in Keys /\ data'[i].key # k
  BY <1>1, <1>6, <1>7, <1>8 DEF KeysOf, Item
<1>12. \A i \in DOMAIN data' : i = n \/ i \in 1 .. Len(b)
  BY <1>6, <1>8
<1>13. Current'
  <2> SUFFICES ASSUME NEW i \in DOMAIN data'
               PROVE  written'[data'[i].key] = [exp |-> data'[i].exp, val |-> data'[i].val]
    BY DEF Current
  <2>1. CASE i = n
    BY <2>1, <1>1, <1>4, <1>8
  <2>2. CASE i \in 1 .. Len(b)
    <3>1. PICK j \in DOMAIN data : b[i] = data[j]
      BY <2>2, <1>6
    <3>2. data'[i] = data[j] /\ data[j].key # k /\ data[j].key \in Keys
      BY <2>2, <3>1, <1>6, <1>8, <1>11
    <3> QED BY <3>2, <1>4 DEF IInv, Current
  <2> QED BY <2>1, <2>2, <1>12
<1>14. Ages'
  <2> SUFFICES ASSUME NEW i \in DOMAIN data'
               PROVE  Len(data') - i <= since'[data'[i].key]
    BY DEF Ages
  <2>1. CASE i = n
    <3>1. since'[k] = 0 /\ data'[i].key = k
      BY <2>1, <1>4, <1>8
    <3> QED BY <2>1, <3>1, <1>6, <1>8
  <2>2. CASE i \in 1 .. Len(b)
    <3>1. PICK j \in DOMAIN data : b[i] = data[j] /\ Len(b) - i <= Len(data) - j
      BY <2>2, <1>6
    <3> DEFINE x == data[j].key
    <3>2. data'[i].key = x /\ x # k /\ x \in Keys
      BY <2>2, <3>1, <1>6, <1>8, <1>11
    <3>3. Len(data) - j <= since[x] /\ since[x] \in 0 .. MaxSize
      BY <1>1, <3>2 DEF IInv, Ages
    <3>4. since'[x] = IF since[x] < MaxSize THEN since[x] + 1 ELSE since[x]
      BY <1>4, <3>2
    <3> HIDE DEF x
    <3>5. n - i <= since'[x]
      <4>1. /\ Len(b) \in Nat /\ Len(data) \in Nat /\ MaxSize \in Nat
            /\ i \in Nat /\ i >= 1 /\ j \in Nat /\ since[x] \in Nat
        BY <1>1, <1>6, <2>2, <3>3
      <4>2. since[x] <= MaxSize
        BY <4>1, <3>3
      <4>3. Len(b) < MaxSize
        BY <1>5
      <4> QED BY <4>1, <4>2, <4>3, <3>1, <3>3, <3>4
    <3> QED BY <3>2, <3>5, <1>8
  <2> QED BY <2>1, <2>2, <1>12
<1>15. FifoRetention'
  <2> SUFFICES ASSUME NEW j \in Keys, Live(j)', since'[j] < MaxSize
               PROVE  \E i \in DOMAIN data' : data'[i].key = j /\ data'[i].exp > now
    BY <1>4, <1>8, HitMeaning DEF FifoRetention
  <2>1. CASE j = k
    <3>1. now + ttl > now
      BY <2>1, <1>1, <1>4 DEF Live
    <3>2. n \in DOMAIN data'
      BY <1>6, <1>8
    <3> QED BY <2>1, <3>1, <3>2, <1>8
  <2>2. CASE j # k
    <3>1. Live(j) /\ since[j] \in 0 .. MaxSize /\ since[j] < MaxSize - 1
      BY <2>2, <1>1, <1>4 DEF Live
    <3>2. PICK q \in DOMAIN data : data[q].key = j /\ data[q].exp > now
      <4>1. since[j] < MaxSize
        BY <3>1, <1>1
      <4> QED BY <3>1, <4>1, FifoMeaning DEF IInv
    <3>3. Len(data) - q <= since[j]
      BY <3>2 DEF IInv, Ages
    <3>4. ~ (q = 1 /\ Len(data) = MaxSize)
      <4>1. Len(data) \in Nat /\ MaxSize \in Nat /\ since[j] \in Nat
        BY <3>1, <1>1
      <4> QED BY <4>1, <3>1, <3>3
    <3>5. ~ (data[q].exp <= now)
      BY <3>2, <1>1 DEF Item
    <3>6. PICK i \in DOMAIN b : b[i] = data[q]
      BY <3>4, <3>5, <1>5
    <3>7. i \in DOMAIN data' /\ data'[i] = data[q]
      BY <3>6, <1>6, <1>8
    <3> QED BY <3>2, <3>7
  <2> QED BY <2>1, <2>2
<1> QED BY <1>10, <1>13, <1>14, <1>15 DEF IInv

\* get keeps the invariant: it drops at most an expired item.
LEMMA GetStep ==
    ASSUME IInv, NEW k \in Keys, Get(k)
    PROVE  IInv'
<1>1. /\ data \in Dict(Item) /\ \A i \in DOMAIN data : data[i] \in Item
      /\ written \in [Keys -> Write \cup {None}]
  BY DataDict DEF IInv, TypeOK
<1>2. now' = now /\ since' = since /\ written' = written
  BY DEF Get
<1>3. CASE Hit(data, k, now)
  <2>1. data' = data
    BY <1>3 DEF Get, AfterGet
  <2>2. k \in KeysOf(data) /\ ValueAt(data, k) \in Values
    BY <1>1, <1>3, IndexOfPlace DEF Hit, ValueAt, Item
  <2>3. ret' \in Answer
    BY <1>3, <2>2 DEF Get, Answer
  <2> QED BY <1>1, <1>2, <2>1, <2>3, RestRefl, RestStep
<1>4. CASE ~ Hit(data, k, now)
  <2>1. data' = Pop(data, k)
    BY <1>4 DEF Get, AfterGet
  <2>2. ret' \in Answer
    BY <1>4 DEF Get, Answer
  <2>3. \A j \in DOMAIN data : data[j].key = k => ~ (data[j].exp > now)
    BY <1>1, <1>4, HitMeaning
  <2>4. /\ Rest(Item, data', data)
        /\ \A j \in DOMAIN data : data[j].key # k => \E i \in DOMAIN data' : data'[i] = data[j]
    BY <1>1, <2>1, PopDict
  <2> QED BY <1>1, <1>2, <2>2, <2>3, <2>4, RestStep
<1> QED BY <1>3, <1>4

\* invalidate keeps the invariant: the key it drops is no longer expected.
LEMMA InvalidateStep ==
    ASSUME IInv, NEW k \in Keys, Invalidate(k)
    PROVE  IInv'
<1>1. data \in Dict(Item) /\ written \in [Keys -> Write \cup {None}]
  BY DataDict DEF IInv, TypeOK
<1>2. /\ now' = now /\ since' = since /\ ret' = None
      /\ written' = [written EXCEPT ![k] = None] /\ data' = Pop(data, k)
  BY DEF Invalidate
<1>3. /\ Rest(Item, data', data) /\ k \notin KeysOf(data')
      /\ \A j \in DOMAIN data : data[j].key # k => \E i \in DOMAIN data' : data'[i] = data[j]
  BY <1>1, <1>2, PopDict
<1>4. \A i \in DOMAIN data' : data'[i].key # k
  BY <1>3 DEF KeysOf
<1>5. \A i \in DOMAIN data' : written'[data'[i].key] = written[data'[i].key]
  BY <1>1, <1>2, <1>4
<1>6. \A j \in Keys : written'[j] = written[j] \/ written'[j] = None
  BY <1>1, <1>2
<1>7. written' \in [Keys -> Write \cup {None}] /\ written'[k] = None
  BY <1>1, <1>2
<1> QED BY <1>2, <1>3, <1>5, <1>6, <1>7, RestStep

\* clear keeps the invariant: nothing is expected of an empty cache.
LEMMA ClearStep ==
    ASSUME IInv, Clear
    PROVE  IInv'
<1>1. /\ data' = << >> /\ ret' = None /\ now' = now /\ since' = since
      /\ written' = [j \in Keys |-> None]
  BY DEF Clear
<1>2. << >> \in Seq(Item) /\ Len(<< >>) = 0 /\ DOMAIN << >> = {}
  BY EmptySeq
<1>3. TypeOK'
  BY <1>1, <1>2, MaxSizeAssumption DEF IInv, TypeOK
<1> QED BY <1>1, <1>2, <1>3 DEF IInv, Current, Ages, FifoRetention, Live

\* The invariant is inductive.
LEMMA Invariance == Spec => []IInv
<1>1. Init => IInv
  <2> SUFFICES ASSUME Init PROVE IInv
    OBVIOUS
  <2>1. << >> \in Seq(Item) /\ Len(<< >>) = 0 /\ DOMAIN << >> = {}
    BY EmptySeq
  <2>2. TypeOK
    BY <2>1, MaxSizeAssumption DEF Init, TypeOK
  <2> QED BY <2>1, <2>2 DEF Init, IInv, Current, Ages, FifoRetention, Live
<1>2. IInv /\ [Next]_vars => IInv'
  <2> SUFFICES ASSUME IInv, [Next]_vars PROVE IInv'
    OBVIOUS
  <2>1. CASE Tick
    <3>1. /\ data' = data /\ ret' = ret /\ written' = written /\ since' = since
          /\ now \in Nat /\ now' = now + 1
      BY <2>1 DEF Tick, IInv, TypeOK
    <3>2. TypeOK' /\ Current' /\ Ages'
      BY <3>1 DEF IInv, TypeOK, Current, Ages
    <3>3. FifoRetention'
      <4> SUFFICES ASSUME NEW k \in Keys, Live(k)', since[k] < MaxSize
                   PROVE  Hit(data, k, now')
        BY <3>1 DEF FifoRetention
      <4>1. data \in Dict(Item) /\ written \in [Keys -> Write \cup {None}]
        BY DataDict DEF IInv, TypeOK
      <4>2. written[k] \in Write /\ written[k].exp > now + 1
        BY <3>1, <4>1 DEF Live
      <4>3. Live(k)
        BY <3>1, <4>2 DEF Live, Write
      <4>4. PICK i \in DOMAIN data : data[i].key = k /\ data[i].exp > now
        BY <4>3, FifoMeaning DEF IInv
      <4>5. data[i].exp = written[k].exp
        <5>1. written[k] = [exp |-> data[i].exp, val |-> data[i].val]
          BY <4>4 DEF IInv, Current
        <5> QED BY <5>1
      <4> QED BY <3>1, <4>1, <4>2, <4>4, <4>5, HitMeaning
    <3> QED BY <3>2, <3>3 DEF IInv
  <2>2. ASSUME NEW k \in Keys, Get(k) PROVE IInv'
    BY <2>2, GetStep
  <2>3. ASSUME NEW k \in Keys, NEW v \in Values, NEW ttl \in TTLs, Set(k, v, ttl)
        PROVE  IInv'
    BY <2>3, OverwriteStep, InsertStep
  <2>4. ASSUME NEW k \in Keys, Invalidate(k) PROVE IInv'
    BY <2>4, InvalidateStep
  <2>5. CASE Clear
    BY <2>5, ClearStep
  <2>6. CASE UNCHANGED vars
    BY <2>6 DEF vars, IInv, TypeOK, Current, Ages, FifoRetention, Live, Hit, KeysOf, IndexOf
  <2> QED BY <2>1, <2>2, <2>3, <2>4, <2>5, <2>6 DEF Next
<1> QED BY <1>1, <1>2, PTL DEF Spec

-----------------------------------------------------------------------------
\* The cache is a dict of at most max_size items, whatever the capacity and
\* whatever sequence of get, set, invalidate and clear the client makes.
THEOREM TypeCorrect == Spec => []TypeOK
<1>1. IInv => TypeOK
  BY DEF IInv
<1> QED BY <1>1, Invariance, PTL

\* A live item is found until max_size new keys were stored after its key was:
\* with the application's 256 places, until 256 other answers were cached.
THEOREM Retention == Spec => []FifoRetention
<1>1. IInv => FifoRetention
  BY DEF IInv
<1> QED BY <1>1, Invariance, PTL

\* What a lookup finds is what was set last for the key, before its deadline.
THEOREM LastSet == Spec => []HitIsLastSet
<1>1. IInv => HitIsLastSet
  <2> SUFFICES ASSUME IInv, NEW k \in Keys, Hit(data, k, now)
               PROVE  Live(k) /\ ValueAt(data, k) = written[k].val
    BY DEF HitIsLastSet
  <2>1. PICK i \in DOMAIN data : data[i].key = k /\ data[i].exp > now
    BY DataDict, HitMeaning DEF IInv
  <2>2. IndexOf(data, k) = i
    BY <2>1, DataDict, HitMeaning DEF IInv
  <2>3. written[k] = [exp |-> data[i].exp, val |-> data[i].val]
    BY <2>1 DEF IInv, Current
  <2>4. written[k] # None
    <3>1. data[i] \in Item
      BY <2>1, DataDict DEF IInv
    <3>2. [exp |-> data[i].exp, val |-> data[i].val] \in Write
      BY <3>1 DEF Item, Write
    <3> QED BY <2>3, <3>2, NoneAssumption
  <2> QED BY <2>1, <2>2, <2>3, <2>4 DEF Live, ValueAt
<1> QED BY <1>1, Invariance, PTL

\* A live item whose place survives is not lost.
LEMMA LostMeaning ==
    ASSUME IInv, NEW k \in LostLive
    PROVE  \E j \in DOMAIN data :
              /\ data[j].key = k
              /\ data[j].exp > now
              /\ \A i \in DOMAIN data' : data'[i] # data[j]
<1>1. Hit(data, k, now) /\ k \notin KeysOf(data')
  BY DEF LostLive
<1>2. PICK j \in DOMAIN data : data[j].key = k /\ data[j].exp > now
  BY <1>1, DataDict, HitMeaning DEF IInv
<1>3. \A i \in DOMAIN data' : data'[i] # data[j]
  BY <1>1, <1>2 DEF KeysOf
<1> QED BY <1>2, <1>3

\* Storing a new key loses at most the oldest item, and only when the cache is
\* full of live items.
LEMMA SetSpares ==
    ASSUME IInv, NEW k \in Keys, NEW v \in Values, NEW ttl \in TTLs, Set(k, v, ttl)
    PROVE  DropsForRoom
<1> DEFINE b == Room(data, now)
           e == [key |-> k, exp |-> now + ttl, val |-> v]
<1>1. data \in Dict(Item) /\ Len(data) <= MaxSize /\ now \in Nat
  BY DataDict DEF IInv, TypeOK
<1>2. \A i \in DOMAIN data : data[i].exp \in Nat
  BY DataDict DEF IInv, Item
<1>3. CASE k \in KeysOf(data)
  <2>1. data' = [data EXCEPT ![IndexOf(data, k)] = e]
    BY <1>3 DEF Set, AfterSet
  <2>2. IndexOf(data, k) \in DOMAIN data /\ data[IndexOf(data, k)].key = k
    BY <1>3, IndexOfPlace
  <2>3. KeysOf(data') = KeysOf(data)
    BY <2>1, <2>2 DEF KeysOf
  <2> QED BY <2>3 DEF DropsForRoom, LostLive, Hit
<1>4. CASE k \notin KeysOf(data)
  <2>1. data' = Append(b, e)
    BY <1>4 DEF Set, AfterSet, Room
  <2>2. /\ Rest(Item, b, data)
        /\ \A j \in DOMAIN data :
              \/ \E i \in DOMAIN b : b[i] = data[j]
              \/ data[j].exp <= now
              \/ j = 1 /\ Len(data) = MaxSize /\ ExpiredAt(data, now) = {}
    <3>1. data \in Dict(Item) /\ Len(data) <= MaxSize /\ now \in Int
      BY <1>1
    <3> QED BY <3>1, RoomDict
  <2> HIDE DEF b
  <2>3. e \in Item
    <3>1. now + ttl \in Nat
      BY <1>1, TTLsAssumption
    <3> QED BY <3>1 DEF Item
  <2>4. \A i \in DOMAIN b : i \in DOMAIN data' /\ data'[i] = b[i]
    <3>1. b \in Seq(Item) /\ Len(b) \in Nat /\ DOMAIN b = 1 .. Len(b)
      BY <2>2, LenProperties DEF Rest, Dict
    <3> HIDE DEF e
    <3>2. /\ Len(data') = Len(b) + 1 /\ data' \in Seq(Item)
          /\ \A i \in 1 .. Len(b) : data'[i] = b[i]
      BY <2>1, <2>3, <3>1, AppendProperties
    <3>3. DOMAIN data' = 1 .. Len(b) + 1
      BY <3>2, LenProperties
    <3> QED BY <3>1, <3>2, <3>3
  <2>5. \A x \in LostLive : /\ data[1].key = x
                            /\ Len(data) = MaxSize
                            /\ ExpiredAt(data, now) = {}
    <3> SUFFICES ASSUME NEW x \in LostLive
                 PROVE  /\ data[1].key = x
                        /\ Len(data) = MaxSize
                        /\ ExpiredAt(data, now) = {}
      OBVIOUS
    <3>1. PICK j \in DOMAIN data : /\ data[j].key = x /\ data[j].exp > now
                                   /\ \A i \in DOMAIN data' : data'[i] # data[j]
      BY LostMeaning
    <3>2. ~ (data[j].exp <= now)
      BY <1>1, <1>2, <3>1
    <3>3. ~ \E i \in DOMAIN b : b[i] = data[j]
      BY <2>4, <3>1
    <3> QED BY <2>2, <3>1, <3>2, <3>3
  <2> QED BY <2>5 DEF DropsForRoom
<1> QED BY <1>3, <1>4

\* Only room for a new key costs a live item, and then there is no expired
\* one and exactly one item is lost: get never loses a live item.
THEOREM Spares == Spec => EvictionSparesLive
<1>1. IInv /\ [Next]_vars => [DropsForRoom]_vars
  <2> SUFFICES ASSUME IInv, Next PROVE DropsForRoom
    BY DEF vars
  <2>1. CASE Tick
    BY <2>1 DEF Tick, DropsForRoom, LostLive, Hit
  <2>2. ASSUME NEW k \in Keys, Get(k) PROVE DropsForRoom
    <3> SUFFICES ASSUME NEW x \in LostLive PROVE FALSE
      BY DEF DropsForRoom
    <3>1. PICK j \in DOMAIN data : /\ data[j].key = x /\ data[j].exp > now
                                   /\ \A i \in DOMAIN data' : data'[i] # data[j]
      BY LostMeaning
    <3>2. data \in Dict(Item)
      BY DataDict DEF IInv
    <3>3. CASE Hit(data, k, now)
      BY <2>2, <3>1, <3>3 DEF Get, AfterGet
    <3>4. CASE ~ Hit(data, k, now)
      <4>1. data' = Pop(data, k) /\ data[j].key # k
        BY <2>2, <3>1, <3>2, <3>4, HitMeaning DEF Get, AfterGet
      <4> QED BY <3>1, <3>2, <4>1, PopDict
    <3> QED BY <3>3, <3>4
  <2>3. ASSUME NEW k \in Keys, NEW v \in Values, NEW ttl \in TTLs, Set(k, v, ttl)
        PROVE  DropsForRoom
    BY <2>3, SetSpares
  <2>4. ASSUME NEW k \in Keys, Invalidate(k) PROVE DropsForRoom
    BY <2>4 DEF DropsForRoom
  <2>5. CASE Clear
    BY <2>5 DEF DropsForRoom
  <2> QED BY <2>1, <2>2, <2>3, <2>4, <2>5 DEF Next
<1> QED BY <1>1, Invariance, PTL DEF Spec, EvictionSparesLive

-----------------------------------------------------------------------------
\* The refinement: the dict implements the partial map of CachePromise.

\* What the map holds for an item, and the map a dict stands for.
Entry(e) == [exp |-> e.exp, val |-> e.val]
Mem(d) == [k \in Keys |-> IF k \in KeysOf(d) THEN Entry(d[IndexOf(d, k)]) ELSE None]

\* The map holds what the key's item holds, which is not None.
LEMMA MemMeaning ==
    ASSUME NEW d \in Dict(Item)
    PROVE  /\ \A i \in DOMAIN d : /\ d[i] \in Item /\ Entry(d[i]) # None
                                  /\ Mem(d)[d[i].key] = Entry(d[i])
           /\ \A k \in Keys : k \notin KeysOf(d) => Mem(d)[k] = None
           /\ KeysOf(d) \subseteq Keys
<1>1. \A i \in DOMAIN d : d[i] \in Item /\ d[i].key \in Keys
  <2>1. \A i \in DOMAIN d : d[i] \in Item
    BY ElementOfSeq, LenProperties DEF Dict
  <2> QED BY <2>1 DEF Item
<1>2. \A i \in DOMAIN d : d[i].key \in KeysOf(d) /\ IndexOf(d, d[i].key) = i
  <2>1. \A i \in DOMAIN d : d[i].key \in KeysOf(d)
    BY DEF KeysOf
  <2> QED BY <2>1, HitMeaning
<1>3. \A i \in DOMAIN d : Entry(d[i]) \in Write
  BY <1>1 DEF Item, Write, Entry
<1>4. KeysOf(d) \subseteq Keys
  BY <1>1 DEF KeysOf
<1>5. \A i \in DOMAIN d : Mem(d)[d[i].key] = Entry(d[i])
  BY <1>1, <1>2, Zenon DEF Mem
<1>6. \A k \in Keys : k \notin KeysOf(d) => Mem(d)[k] = None
  BY DEF Mem
<1> QED BY <1>1, <1>3, <1>4, <1>5, <1>6, NoneAssumption

\* Dropping items drops their keys from the map and changes nothing else.
LEMMA RestMem ==
    ASSUME NEW d \in Dict(Item), NEW b, Rest(Item, b, d)
    PROVE  \A k \in Keys : Mem(b)[k] = IF k \in KeysOf(b) THEN Mem(d)[k] ELSE None
<1>1. b \in Dict(Item)
  BY DEF Rest
<1> SUFFICES ASSUME NEW k \in Keys, k \in KeysOf(b) PROVE Mem(b)[k] = Mem(d)[k]
  BY <1>1, MemMeaning
<1>2. PICK i \in DOMAIN b : b[i].key = k
  BY DEF KeysOf
<1>3. PICK j \in DOMAIN d : b[i] = d[j]
  BY <1>2 DEF Rest
<1> QED BY <1>1, <1>2, <1>3, MemMeaning

\* Two maps that agree on every key are the same.
LEMMA MemExtensional ==
    ASSUME NEW d, NEW m, m = [k \in Keys |-> m[k]], \A k \in Keys : Mem(d)[k] = m[k]
    PROVE  Mem(d) = m
<1>1. Mem(d) = [k \in Keys |-> Mem(d)[k]]
  BY DEF Mem
<1> QED BY <1>1, Zenon

\* The keys that are left when a key's item is dropped.
LEMMA PopKeys ==
    ASSUME NEW d \in Dict(Item), NEW k
    PROVE  KeysOf(Pop(d, k)) = KeysOf(d) \ {k}
<1>1. /\ Rest(Item, Pop(d, k), d) /\ k \notin KeysOf(Pop(d, k))
      /\ \A j \in DOMAIN d : d[j].key # k => \E i \in DOMAIN Pop(d, k) : Pop(d, k)[i] = d[j]
  BY PopDict
<1>2. KeysOf(Pop(d, k)) \subseteq KeysOf(d)
  BY <1>1 DEF Rest, KeysOf
<1>3. \A x \in KeysOf(d) \ {k} : x \in KeysOf(Pop(d, k))
  BY <1>1 DEF KeysOf
<1> QED BY <1>1, <1>2, <1>3

\* pop forgets the key's entry and no other.
LEMMA PopMem ==
    ASSUME NEW d \in Dict(Item), NEW k \in Keys
    PROVE  Mem(Pop(d, k)) = [Mem(d) EXCEPT ![k] = None]
<1> DEFINE m == [Mem(d) EXCEPT ![k] = None]
<1>1. m = [j \in Keys |-> IF j = k THEN None ELSE Mem(d)[j]]
  BY DEF Mem
<1>2. \A j \in Keys : Mem(Pop(d, k))[j] = m[j]
  <2> SUFFICES ASSUME NEW j \in Keys PROVE Mem(Pop(d, k))[j] = m[j]
    OBVIOUS
  <2>1. Mem(Pop(d, k))[j] = IF j \in KeysOf(d) \ {k} THEN Mem(d)[j] ELSE None
    BY PopDict, PopKeys, RestMem
  <2>2. j \notin KeysOf(d) => Mem(d)[j] = None
    BY MemMeaning
  <2>3. m[j] = IF j = k THEN None ELSE Mem(d)[j]
    BY <1>1
  <2> HIDE DEF m
  <2> QED BY <2>1, <2>2, <2>3
<1>3. m = [j \in Keys |-> m[j]]
  BY <1>1
<1> QED BY <1>2, <1>3, MemExtensional

\* A dict has as many keys as places.
LEMMA KeysCount ==
    ASSUME NEW d \in Dict(Item)
    PROVE  Cardinality(KeysOf(d)) = Len(d)
<1> DEFINE f == [i \in 1 .. Len(d) |-> d[i].key]
<1>1. Len(d) \in Nat /\ DOMAIN d = 1 .. Len(d)
  BY LenProperties DEF Dict
<1>2. f \in Bijection(1 .. Len(d), KeysOf(d))
  <2>1. f \in Surjection(1 .. Len(d), KeysOf(d))
    BY <1>1 DEF KeysOf, Surjection
  <2>2. f \in Injection(1 .. Len(d), KeysOf(d))
    BY <1>1, <2>1 DEF Dict, IsInjective, Injection, Surjection
  <2> QED BY <2>1, <2>2 DEF Bijection
<1>3. ExistsBijection(1 .. Len(d), KeysOf(d))
  BY <1>2 DEF ExistsBijection
<1> QED BY <1>1, <1>3, FS_CountingElements

\* The state of CachePromise that the dict stands for: what it holds and what
\* has expired are the dict's keys and the keys of its expired items.
LEMMA PromiseState ==
    ASSUME TypeOK
    PROVE  /\ Promise!Held = KeysOf(data)
           /\ Promise!Expired = {data[i].key : i \in ExpiredAt(data, now)}
           /\ \A k \in Keys : Hit(data, k, now) <=> k \in Promise!Held \ Promise!Expired
           /\ \A k \in Keys : Hit(data, k, now) => Mem(data)[k].val = ValueAt(data, k)
<1>1. data \in Dict(Item) /\ now \in Nat /\ \A i \in DOMAIN data : data[i].exp \in Nat
  BY DataDict DEF Item, TypeOK
<1>2. Promise!Held = {k \in Keys : Mem(data)[k] # None}
  BY DEF Promise!Held, Mem, Entry
<1>3. \A k \in KeysOf(data) : Mem(data)[k] # None
  BY <1>1, MemMeaning DEF KeysOf
<1>4. Promise!Held = KeysOf(data)
  BY <1>1, <1>2, <1>3, MemMeaning
<1>5. Promise!Expired = {k \in Promise!Held : Mem(data)[k].exp <= now}
  BY DEF Promise!Expired, Mem, Entry
<1>6. \A i \in DOMAIN data : /\ Mem(data)[data[i].key].exp = data[i].exp
                               /\ Mem(data)[data[i].key].val = data[i].val
  <2>1. \A i \in DOMAIN data : Mem(data)[data[i].key] = Entry(data[i])
    BY <1>1, MemMeaning
  <2>2. \A i \in DOMAIN data : Entry(data[i]).exp = data[i].exp /\ Entry(data[i]).val = data[i].val
    BY DEF Entry
  <2> QED BY <2>1, <2>2
<1>7. Promise!Expired = {data[i].key : i \in ExpiredAt(data, now)}
  BY <1>4, <1>5, <1>6 DEF KeysOf, ExpiredAt
<1>8. ASSUME NEW k \in Keys
      PROVE  /\ Hit(data, k, now) <=> k \in Promise!Held \ Promise!Expired
             /\ Hit(data, k, now) => Mem(data)[k].val = ValueAt(data, k)
  <2>1. CASE k \notin KeysOf(data)
    BY <2>1, <1>4 DEF Hit
  <2>2. CASE k \in KeysOf(data)
    <3>1. PICK i \in DOMAIN data : data[i].key = k /\ i = IndexOf(data, k)
      BY <2>2, IndexOfPlace
    <3>2. Hit(data, k, now) <=> data[i].exp > now
      BY <2>2, <3>1 DEF Hit
    <3>3. k \in Promise!Held \ Promise!Expired <=> ~ (data[i].exp <= now)
      BY <2>2, <3>1, <1>4, <1>5, <1>6
    <3>4. Mem(data)[k].val = ValueAt(data, k)
      BY <1>6, <3>1 DEF ValueAt
    <3> QED BY <1>1, <3>2, <3>3, <3>4
  <2> QED BY <2>1, <2>2
<1> QED BY <1>4, <1>7, <1>8

\* get is the promised Get: a hit changes nothing, and a miss, by a key that is
\* absent or expired, forgets it.
LEMMA GetRefines ==
    ASSUME IInv, NEW k \in Keys, Get(k)
    PROVE  Promise!Get(k)
<1>1. data \in Dict(Item) /\ TypeOK
  BY DataDict DEF IInv
<1>2. /\ now' = now /\ data' = AfterGet(data, k, now)
      /\ ret' = IF Hit(data, k, now)
                THEN [key |-> k, hit |-> TRUE, val |-> ValueAt(data, k)]
                ELSE [key |-> k, hit |-> FALSE, val |-> None]
  BY DEF Get
<1>3. CASE Hit(data, k, now)
  <2>1. data' = data /\ ret' = [key |-> k, hit |-> TRUE, val |-> Mem(data)[k].val]
    BY <1>1, <1>2, <1>3, PromiseState DEF AfterGet
  <2>2. k \in Promise!Held \ Promise!Expired
    BY <1>1, <1>3, PromiseState
  <2> QED BY <1>2, <2>1, <2>2 DEF Promise!Get, Mem, Entry
<1>4. CASE ~ Hit(data, k, now)
  <2>1. Mem(data') = [Mem(data) EXCEPT ![k] = None]
    BY <1>1, <1>2, <1>4, PopMem DEF AfterGet
  <2>2. k \notin Promise!Held \ Promise!Expired
    BY <1>1, <1>4, PromiseState
  <2>3. ret' = [key |-> k, hit |-> FALSE, val |-> None]
    BY <1>2, <1>4
  <2> QED BY <1>2, <2>1, <2>2, <2>3 DEF Promise!Get, Mem, Entry
<1> QED BY <1>3, <1>4

\* The map after set: the new entry in place of the key's, without what was lost.
Stored(m, k, e, lost) ==
    [j \in Keys |-> IF j = k THEN Entry(e) ELSE IF j \in lost THEN None ELSE m[j]]

\* Overwriting the key of an item loses no entry.
LEMMA OverwriteMem ==
    ASSUME NEW d \in Dict(Item), NEW k \in KeysOf(d), NEW e \in Item, e.key = k
    PROVE  Mem([d EXCEPT ![IndexOf(d, k)] = e]) = Stored(Mem(d), k, e, {})
<1> DEFINE p == IndexOf(d, k)
           w == [d EXCEPT ![p] = e]
<1>1. p \in DOMAIN d /\ d[p].key = k
  BY IndexOfPlace
<1> HIDE DEF p
<1>2. /\ w \in Dict(Item) /\ DOMAIN w = DOMAIN d
      /\ \A i \in DOMAIN d : w[i] = IF i = p THEN e ELSE d[i]
  BY <1>1, OverwriteDict
<1> HIDE DEF w
<1>3. KeysOf(w) = KeysOf(d)
  <2>1. \A i \in DOMAIN d : w[i].key = d[i].key
    BY <1>1, <1>2
  <2> QED BY <1>2, <2>1 DEF KeysOf
<1>4. \A j \in Keys : Mem(w)[j] = Stored(Mem(d), k, e, {})[j]
  <2> SUFFICES ASSUME NEW j \in Keys
               PROVE  Mem(w)[j] = IF j = k THEN Entry(e) ELSE Mem(d)[j]
    BY DEF Stored
  <2>1. CASE j \notin KeysOf(d)
    BY <2>1, <1>2, <1>3, MemMeaning
  <2>2. CASE j \in KeysOf(d)
    <3>1. PICK i \in DOMAIN d : d[i].key = j
      BY <2>2 DEF KeysOf
    <3>2. CASE i = p
      <4>1. w[i] = e /\ j = k
        BY <3>1, <3>2, <1>1, <1>2
      <4> QED BY <4>1, <1>2, <3>1, MemMeaning
    <3>3. CASE i # p
      <4>1. w[i] = d[i] /\ j # k
        BY <3>1, <3>3, <1>1, <1>2 DEF Dict
      <4> QED BY <4>1, <1>2, <3>1, MemMeaning
    <3> QED BY <3>2, <3>3
  <2> QED BY <2>1, <2>2
<1>5. Stored(Mem(d), k, e, {}) = [j \in Keys |-> Stored(Mem(d), k, e, {})[j]]
  BY DEF Stored
<1> DEFINE s == Stored(Mem(d), k, e, {})
<1>6. s = [j \in Keys |-> s[j]] /\ \A j \in Keys : Mem(w)[j] = s[j]
  BY <1>4, <1>5
<1> HIDE DEF s
<1>7. Mem(w) = s
  BY <1>6, MemExtensional
<1> QED BY <1>7 DEF w, p, s

\* Appending an item with a new key to what is left of d loses the keys that
\* were dropped.
LEMMA AppendMem ==
    ASSUME NEW d \in Dict(Item), NEW b, Rest(Item, b, d), NEW e \in Item,
           e.key \notin KeysOf(d)
    PROVE  Mem(Append(b, e)) = Stored(Mem(d), e.key, e, KeysOf(d) \ KeysOf(b))
<1> DEFINE w == Append(b, e)
           k == e.key
<1>1. b \in Dict(Item) /\ KeysOf(b) \subseteq KeysOf(d)
  BY DEF Rest, KeysOf
<1>2. k \notin KeysOf(b)
  BY <1>1
<1>3. Len(b) \in Nat /\ DOMAIN b = 1 .. Len(b)
  BY <1>1, LenProperties DEF Dict
<1>4. /\ w \in Dict(Item) /\ DOMAIN w = 1 .. Len(b) + 1 /\ w[Len(b) + 1] = e
      /\ \A i \in DOMAIN b : w[i] = b[i]
  BY <1>1, <1>2, AppendDict
<1> HIDE DEF w
<1>5. \A i \in DOMAIN w : i = Len(b) + 1 \/ i \in DOMAIN b
  BY <1>3, <1>4
<1>6. Len(b) + 1 \in DOMAIN w /\ \A i \in DOMAIN b : i \in DOMAIN w
  BY <1>3, <1>4
<1>7. KeysOf(w) = KeysOf(b) \cup {k}
  BY <1>4, <1>5, <1>6 DEF KeysOf
<1>8. \A j \in Keys : Mem(w)[j] = Stored(Mem(d), k, e, KeysOf(d) \ KeysOf(b))[j]
  <2> SUFFICES ASSUME NEW j \in Keys
               PROVE  Mem(w)[j] = IF j = k THEN Entry(e)
                                  ELSE IF j \in KeysOf(d) \ KeysOf(b) THEN None ELSE Mem(d)[j]
    BY DEF Stored
  <2>1. CASE j = k
    BY <2>1, <1>4, <1>6, MemMeaning
  <2>2. CASE j # k /\ j \in KeysOf(b)
    <3>1. PICK i \in DOMAIN b : b[i].key = j
      BY <2>2 DEF KeysOf
    <3>2. Mem(w)[j] = Mem(b)[j]
      BY <3>1, <1>1, <1>4, <1>6, MemMeaning
    <3>3. Mem(b)[j] = Mem(d)[j]
      BY <2>2, RestMem
    <3> HIDE DEF k
    <3> QED BY <2>2, <3>2, <3>3
  <2>3. CASE j # k /\ j \notin KeysOf(b)
    <3>1. Mem(w)[j] = None
      BY <2>3, <1>4, <1>7, MemMeaning
    <3>2. j \notin KeysOf(d) => Mem(d)[j] = None
      BY MemMeaning
    <3> HIDE DEF k
    <3> QED BY <2>3, <3>1, <3>2
  <2> QED BY <2>1, <2>2, <2>3
<1>9. Stored(Mem(d), k, e, KeysOf(d) \ KeysOf(b)) =
         [j \in Keys |-> Stored(Mem(d), k, e, KeysOf(d) \ KeysOf(b))[j]]
  BY DEF Stored
<1> QED BY <1>8, <1>9, MemExtensional DEF w

\* What _evict_one drops: nothing while there is room, and otherwise one key, an
\* expired one when there is any.
LEMMA RoomKeys ==
    ASSUME TypeOK
    PROVE  /\ Len(data) < MaxSize => Room(data, now) = data
           /\ ~ (Len(data) < MaxSize) =>
                \E i \in IF ExpiredAt(data, now) = {} THEN DOMAIN data ELSE ExpiredAt(data, now) :
                   KeysOf(data) \ KeysOf(Room(data, now)) = {data[i].key}
<1>1. /\ data \in Dict(Item) /\ Len(data) \in Nat /\ DOMAIN data = 1 .. Len(data)
      /\ MaxSize \in Nat \ {0} /\ now \in Int
  BY DataDict DEF TypeOK
<1>2. CASE Len(data) < MaxSize
  BY <1>1, <1>2 DEF Room
<1>3. CASE ~ (Len(data) < MaxSize)
  <2> DEFINE p == Victim(data, now)
  <2>1. Len(data) >= MaxSize /\ Len(data) > 0 /\ data # << >>
    <3>1. Len(data) >= MaxSize /\ Len(data) > 0
      BY <1>1, <1>3
    <3> QED BY <3>1, EmptySeq
  <2>2. /\ p \in 1 .. Len(data)
        /\ ExpiredAt(data, now) # {} => p \in ExpiredAt(data, now)
    BY <1>1, <2>1, VictimPlace
  <2>3. Room(data, now) = Without(data, p)
    BY <2>1 DEF Room, EvictOne
  <2> DEFINE w == Without(data, p)
  <2> HIDE DEF p
  <2>4. /\ data[p].key \notin KeysOf(w)
        /\ \A j \in DOMAIN data : j # p => \E i \in DOMAIN w : w[i] = data[j]
    BY <1>1, <2>2, WithoutDict
  <2>5. /\ data[p].key \notin KeysOf(Room(data, now))
        /\ \A j \in DOMAIN data : j # p =>
              \E i \in DOMAIN Room(data, now) : Room(data, now)[i] = data[j]
    BY Zenon, <2>3, <2>4
  <2>6. \A j \in DOMAIN data : j # p => data[j].key \in KeysOf(Room(data, now))
    BY <2>5 DEF KeysOf
  <2>7. KeysOf(data) \ KeysOf(Room(data, now)) = {data[p].key}
    BY <1>1, <2>2, <2>5, <2>6 DEF KeysOf
  <2> QED BY <1>1, <1>3, <2>2, <2>7
<1> QED BY <1>2, <1>3

\* What set loses is what the promise lets it forget.
LEMMA SetForgets ==
    ASSUME TypeOK, NEW k \in Keys
    PROVE  /\ k \in KeysOf(data) => {} \in Promise!Forgettable(k)
           /\ k \notin KeysOf(data) =>
                KeysOf(data) \ KeysOf(Room(data, now)) \in Promise!Forgettable(k)
<1> DEFINE lost == KeysOf(data) \ KeysOf(Room(data, now))
<1>1. data \in Dict(Item) /\ DOMAIN data = 1 .. Len(data)
  BY DataDict
<1>2. /\ Promise!Held = KeysOf(data) /\ Cardinality(Promise!Held) = Len(data)
      /\ Promise!Expired = {data[i].key : i \in ExpiredAt(data, now)}
  BY <1>1, KeysCount, PromiseState
<1>3. Promise!Forgettable(k) =
         IF k \in Promise!Held \/ Cardinality(Promise!Held) < MaxSize THEN {{}}
         ELSE {{j} : j \in IF Promise!Expired = {} THEN Promise!Held ELSE Promise!Expired}
  <2>1. Promise!Cardinality(Promise!Held) = Cardinality(Promise!Held)
    BY DEF Promise!Cardinality, Cardinality
  <2> QED BY <2>1 DEF Promise!Forgettable
<1>4. CASE k \in KeysOf(data)
  BY <1>2, <1>3, <1>4
<1>5. CASE k \notin KeysOf(data) /\ Len(data) < MaxSize
  <2>1. lost = {}
    BY <1>5, RoomKeys
  <2> QED BY <1>2, <1>3, <1>5, <2>1
<1>6. CASE k \notin KeysOf(data) /\ ~ (Len(data) < MaxSize)
  <2>1. PICK i \in IF ExpiredAt(data, now) = {} THEN DOMAIN data ELSE ExpiredAt(data, now) :
           lost = {data[i].key}
    BY <1>6, RoomKeys
  <2> HIDE DEF lost
  <2>2. data[i].key \in IF Promise!Expired = {} THEN Promise!Held ELSE Promise!Expired
    <3>1. CASE ExpiredAt(data, now) = {}
      BY <1>2, <2>1, <3>1 DEF KeysOf
    <3>2. CASE ExpiredAt(data, now) # {}
      BY <1>2, <2>1, <3>2
    <3> QED BY <3>1, <3>2
  <2>3. lost \in Promise!Forgettable(k)
    BY <1>2, <1>3, <1>6, <2>1, <2>2
  <2> QED BY <1>6, <2>3 DEF lost
<1> QED BY <1>4, <1>5, <1>6

\* set is the promised Set: it puts the entry in place and forgets what it may.
LEMMA SetRefines ==
    ASSUME IInv, NEW k \in Keys, NEW v \in Values, NEW ttl \in TTLs, Set(k, v, ttl)
    PROVE  Promise!Set(k, v, ttl)
<1> DEFINE e == [key |-> k, exp |-> now + ttl, val |-> v]
           b == Room(data, now)
<1>1. /\ data \in Dict(Item) /\ Len(data) <= MaxSize /\ now \in Nat /\ TypeOK
  BY DataDict DEF IInv, TypeOK
<1>2. e \in Item /\ e.key = k /\ Entry(e) = [exp |-> now + ttl, val |-> v]
  BY <1>1, TTLsAssumption DEF Item, Entry
<1>3. /\ now' = now /\ ret' = None
      /\ data' = IF k \in KeysOf(data) THEN [data EXCEPT ![IndexOf(data, k)] = e]
                 ELSE Append(b, e)
  BY DEF Set, AfterSet, Room
<1>4. Rest(Item, b, data)
  BY <1>1, RoomDict
<1> HIDE DEF e, b
<1>5. \E lost \in Promise!Forgettable(k) : Mem(data') = Stored(Mem(data), k, e, lost)
  <2>1. CASE k \in KeysOf(data)
    <3>1. Mem(data') = Stored(Mem(data), k, e, {})
      BY <1>1, <1>2, <1>3, <2>1, OverwriteMem
    <3> QED BY <1>1, <2>1, <3>1, SetForgets
  <2>2. CASE k \notin KeysOf(data)
    <3>1. Mem(data') = Stored(Mem(data), k, e, KeysOf(data) \ KeysOf(b))
      BY <1>1, <1>2, <1>3, <1>4, <2>2, AppendMem
    <3> QED BY <1>1, <2>2, <3>1, SetForgets DEF b
  <2> QED BY <2>1, <2>2
<1>6. PICK lost \in Promise!Forgettable(k) : Mem(data') = Stored(Mem(data), k, e, lost)
  BY <1>5
<1>7. Mem(data') = [j \in Keys |-> IF j = k THEN [exp |-> now + ttl, val |-> v]
                                   ELSE IF j \in lost THEN None ELSE Mem(data)[j]]
  BY <1>2, <1>6 DEF Stored
<1> QED BY <1>3, <1>6, <1>7 DEF Promise!Set, Mem, Entry

\* The dict of registry/cache.py implements the map its callers rely on: every
\* step of a method is a step of the promise, for every capacity, every set of
\* keys and every choice of lifetimes.
THEOREM Implements == Spec => PromiseSpec
<1>1. Init => Promise!Init
  <2> SUFFICES ASSUME Init PROVE Promise!Init
    OBVIOUS
  <2>1. data = << >> /\ KeysOf(data) = {}
    BY EmptySeq DEF Init, KeysOf
  <2> QED BY <2>1 DEF Init, Promise!Init
<1>2. IInv /\ [Next]_vars => [Promise!Next]_(Promise!vars)
  <2> SUFFICES ASSUME IInv, [Next]_vars PROVE [Promise!Next]_(Promise!vars)
    OBVIOUS
  <2>1. data \in Dict(Item)
    BY DataDict DEF IInv
  <2>2. CASE Tick
    <3>1. Promise!Tick
      BY <2>2 DEF Tick, Promise!Tick
    <3> QED BY <3>1 DEF Promise!Next
  <2>3. ASSUME NEW k \in Keys, Get(k) PROVE Promise!Next
    BY <2>3, GetRefines DEF Promise!Next
  <2>4. ASSUME NEW k \in Keys, NEW v \in Values, NEW ttl \in TTLs, Set(k, v, ttl)
        PROVE  Promise!Next
    BY <2>4, SetRefines DEF Promise!Next
  <2>5. ASSUME NEW k \in Keys, Invalidate(k) PROVE Promise!Next
    <3>1. Mem(data') = [Mem(data) EXCEPT ![k] = None] /\ ret' = None /\ now' = now
      BY <2>1, <2>5, PopMem DEF Invalidate
    <3>2. Promise!Invalidate(k)
      BY <3>1 DEF Promise!Invalidate, Mem, Entry
    <3> QED BY <3>2 DEF Promise!Next
  <2>6. CASE Clear
    <3>1. data' = << >> /\ KeysOf(data') = {} /\ ret' = None /\ now' = now
      BY <2>6, EmptySeq DEF Clear, KeysOf
    <3>2. Promise!Clear
      BY <3>1 DEF Promise!Clear
    <3> QED BY <3>2 DEF Promise!Next
  <2>7. CASE UNCHANGED vars
    BY <2>7 DEF vars, Promise!vars
  <2> QED BY <2>2, <2>3, <2>4, <2>5, <2>6, <2>7 DEF Next
<1> QED BY <1>1, <1>2, Invariance, PTL DEF Spec, PromiseSpec, Promise!Spec

=============================================================================
