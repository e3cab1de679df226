------------------------ MODULE RegistryClientProofs ------------------------
(***************************************************************************)
(* Proofs about RegistryClient, for any lifetimes, cache size, clock,      *)
(* number of requests, tags, manifests, pushes and crashes.                *)
(*                                                                         *)
(* TypeOK, Staleness, Isolation, ConfigMatches.  The argument is about     *)
(* items: an item of the cache was fetched for everybody, a config is      *)
(* filed under its own name, and any other item expires CacheTTL after     *)
(* the client got it, or earlier (Item).  What a handler has in hand was   *)
(* got less than CacheTTL before its request began, since either the       *)
(* request got it itself or it had not expired (Good, ExchangeOK), and     *)
(* what the handler shows is what it has in hand.                          *)
(*                                                                         *)
(* AuditExact, DeletesWhatTagNamed.  A DELETE under way for a tag carries  *)
(* a manifest that the tag named since its request began, because the      *)
(* answer to the HEAD did (WireOK); an affirmative answer to it says that  *)
(* the registry removed that manifest for this request; an event is        *)
(* written in the step that answers the request, so no request that is not *)
(* done has one (AuditRequestOK).                                          *)
(***************************************************************************)
EXTENDS RegistryClient, SequenceTheorems, TLAPS

Key == ({"manifest"} \X (Tags \cup Digests \cup {None}))
       \cup ({"image_config"} \X {ConfigOf[d] : d \in Digests \ Indexes})
       \cup {TagsKey}

\* At time n the copy v has been asked for, answered and got, in this order.
Dated(v, n) == v.asked <= v.at /\ v.at <= v.got /\ v.got <= n

\* The cache's items at time t.
Item(t) ==
    {x \in [key : Key, exp : Int, val : Copy] :
        /\ Dated(x.val, t)
        /\ x.val.by = Shared
        /\ x.key[1] = "manifest" => x.val.body \in Digests
        /\ x.key[1] = "image_config" => x.val.body = x.key[2]
        /\ x.key = TagsKey => x.val.body \subseteq Tags
        /\ x.key[1] # "image_config" => x.exp <= x.val.got + CacheTTL}

CacheOK(c, t) == c \in Seq(Item(t)) /\ Len(c) <= MaxSize

\* A copy of a manifest or of a list that request t, begun at time b, may show.
Good(t, b, m) ==
    m \in Copy /\ m.by = t.who /\ m.asked <= m.at /\ b < m.got + CacheTTL
GoodManifest(t, b, m) == Good(t, b, m) /\ m.body \in Digests
GoodConfig(t, m, c) == c \in Copy /\ c.by = t.who /\ c.body = ConfigOf[m.body]

\* What the answer a to the exchange w of the task t says at time n.
AnswerOK(t, w, a, n) ==
    /\ a.at \in Nat /\ w.sent <= a.at /\ a.at <= n
    /\ a.by = t.who
    /\ w.kind = "get" /\ a.ok => a.body \in Digests
    /\ w.kind = "head" /\ a.ok /\ a.body # None => a.body \in Digests
    /\ w.kind = "list" /\ a.ok => a.body \subseteq Tags
    /\ w.kind = "blob" /\ a.ok /\ a.body # None => a.body = w.ref

ExchangeOK(t, b, w, n) ==
    /\ {"kind", "ref", "sent", "ans"} \subseteq DOMAIN w
    /\ w.sent \in Nat /\ b <= w.sent /\ w.sent <= n
    /\ w.kind = "delete" => w.ref \in Digests
    /\ w.ans # None => AnswerOK(t, w, w.ans, n)

ResultOK(t, b, x) ==
    /\ x \in Result
    /\ x.ok /\ t.op \in {"page", "config"} =>
          /\ x.shown \in Nat
          /\ GoodManifest(t, b, x.man) /\ (x.config # None => GoodConfig(t, x.man, x.config))
    /\ x.ok /\ t.op = "tags" => x.shown \in Nat /\ Good(t, b, x.tags)

KindsOf(op) == CASE op \in {"page", "config"} -> {"get", "blob"}
                 [] op = "tags" -> {"list"}
                 [] op = "delete" -> {"head", "delete"}

\* A request that awaits the exchange kind.
AwaitsOK(kind, t, b, w, m, n) ==
    /\ kind \in KindsOf(t.op) /\ w.kind = kind /\ ExchangeOK(t, b, w, n)
    /\ kind = "blob" => /\ GoodManifest(t, b, m) /\ m.body \notin Indexes
                        /\ w.ref = ConfigOf[m.body]
                        /\ Dated(m, n)

RequestOK(r) ==
    \/ pc[r] = "idle" /\ task[r] = None /\ result[r] = None
    \/ pc[r] = "done" /\ task[r] \in Task /\ ResultOK(task[r], began[r], result[r])
    \/ /\ pc[r] \in {"get", "blob", "list", "head", "delete"}
       /\ task[r] \in Task /\ result[r] = None
       /\ AwaitsOK(pc[r], task[r], began[r], wire[r], man[r], now)

Tables == /\ pc = [r \in Requests |-> pc[r]] /\ DOMAIN task = Requests /\ DOMAIN wire = Requests
          /\ DOMAIN result = Requests /\ DOMAIN man = Requests
          /\ began \in [Requests -> Nat]

RegistryOK == tag \in [Tags -> stored \cup {None}] /\ stored \subseteq Digests

IInv == /\ Tables /\ RegistryOK /\ now \in Nat /\ CacheOK(cache, now)
        /\ auditFile \subseteq audit
        /\ \A r \in Requests : RequestOK(r)

-----------------------------------------------------------------------------
\* The dict: whatever its operations do, its items stay items.

\* Dropping a place of a sequence.
LEMMA WithoutSeq ==
    ASSUME NEW S, NEW d \in Seq(S), NEW p, d # << >>
    PROVE  Without(d, p) \in Seq(S) /\ Len(Without(d, p)) = Len(d) - 1
<1>1. Len(d) \in Nat /\ d \in [1 .. Len(d) -> S] /\ Len(d) # 0
  BY LenProperties, EmptySeq
<1>2. \A i \in 1 .. Len(d) - 1 : d[i] \in S /\ d[i + 1] \in S
  BY <1>1
<1>3. Without(d, p) \in [1 .. Len(d) - 1 -> S] /\ Len(d) - 1 \in Nat
  BY <1>1, <1>2 DEF Without
<1>4. Without(d, p) \in Seq(S)
  BY <1>3, SeqDef
<1>5. Len(Without(d, p)) \in Nat /\ DOMAIN Without(d, p) = 1 .. Len(Without(d, p))
  BY <1>4, LenProperties
<1>6. DOMAIN Without(d, p) = 1 .. Len(d) - 1
  BY <1>3
<1> QED BY <1>3, <1>4, <1>5, <1>6

\* The item that a lookup of a present key finds.
LEMMA FoundItem ==
    ASSUME NEW S, NEW d \in Seq(S), NEW k \in KeysOf(d)
    PROVE  /\ IndexOf(d, k) \in DOMAIN d /\ IndexOf(d, k) \in 1 .. Len(d)
           /\ d[IndexOf(d, k)] \in S /\ d[IndexOf(d, k)].key = k
<1>1. IndexOf(d, k) \in DOMAIN d /\ d[IndexOf(d, k)].key = k
  BY DEF KeysOf, IndexOf
<1> QED BY <1>1, LenProperties, ElementOfSeq

LEMMA GetSeq ==
    ASSUME NEW S, NEW d \in Seq(S), NEW k, NEW t
    PROVE  AfterGet(d, k, t) \in Seq(S) /\ Len(AfterGet(d, k, t)) <= Len(d)
<1>1. Len(d) \in Nat
  BY LenProperties
<1>2. CASE k \in KeysOf(d)
  <2>1. d # << >>
    BY <1>2 DEF KeysOf
  <2> QED BY <1>1, <2>1, WithoutSeq DEF AfterGet, Pop
<1>3. CASE k \notin KeysOf(d)
  BY <1>1, <1>3 DEF AfterGet, Pop
<1> QED BY <1>2, <1>3

LEMMA SetSeq ==
    ASSUME NEW S, NEW d \in Seq(S), Len(d) <= MaxSize, NEW k, NEW v, NEW ttl, NEW t,
           [key |-> k, exp |-> t + ttl, val |-> v] \in S
    PROVE  /\ AfterSet(d, k, v, ttl, t) \in Seq(S)
           /\ Len(AfterSet(d, k, v, ttl, t)) <= MaxSize
<1> DEFINE item == [key |-> k, exp |-> t + ttl, val |-> v]
<1> DEFINE room == IF Len(d) >= MaxSize THEN EvictOne(d, t) ELSE d
<1>1. AfterSet(d, k, v, ttl, t) =
          IF k \in KeysOf(d) THEN [d EXCEPT ![IndexOf(d, k)] = item] ELSE Append(room, item)
  BY DEF AfterSet
<1>2. item \in S
  OBVIOUS
<1>3. Len(d) \in Nat /\ MaxSize \in Nat /\ MaxSize # 0
  BY LenProperties, MaxSizeAssumption
<1>4. room \in Seq(S) /\ Len(room) \in Nat /\ Len(room) < MaxSize
  <2>1. CASE Len(d) >= MaxSize
    <3>1. d # << >>
      BY <1>3, <2>1, EmptySeq
    <3>2. room = Without(d, Victim(d, t))
      BY <2>1, <3>1 DEF EvictOne
    <3> QED BY <1>3, <3>1, <3>2, WithoutSeq
  <2>2. CASE ~ (Len(d) >= MaxSize)
    BY <1>3, <2>2
  <2> QED BY <2>1, <2>2
<1> HIDE DEF item, room
<1>5. CASE k \in KeysOf(d)
  BY <1>1, <1>2, <1>5, FoundItem, ExceptSeq
<1>6. CASE k \notin KeysOf(d)
  <2>1. Append(room, item) \in Seq(S) /\ Len(Append(room, item)) = Len(room) + 1
    BY <1>2, <1>4, AppendProperties
  <2> QED BY <1>1, <1>3, <1>4, <1>6, <2>1
<1> QED BY <1>5, <1>6

\* A cache that is fine stays so as time passes.
LEMMA OlderCache ==
    ASSUME NEW t \in Nat, NEW c, CacheOK(c, t)
    PROVE  CacheOK(c, t + 1)
<1>1. Item(t) \subseteq Item(t + 1)
  BY DEF Item, Copy, Dated
<1>2. Len(c) \in Nat /\ c \in [1 .. Len(c) -> Item(t)]
  BY LenProperties DEF CacheOK
<1>3. c \in [1 .. Len(c) -> Item(t + 1)]
  BY <1>1, <1>2
<1> QED BY <1>2, <1>3, SeqDef DEF CacheOK

-----------------------------------------------------------------------------
\* What a handler has in hand.

LEMMA Keys ==
    /\ \A ref : ManifestKey(ref)[1] = "manifest" /\ ManifestKey(ref) # TagsKey
    /\ \A d : /\ ConfigKey(d)[1] = "image_config" /\ ConfigKey(d)[2] = ConfigOf[d]
              /\ ConfigKey(d) # TagsKey
    /\ TagsKey[1] = "paginated"
<1>1. TagsKey[1] = "paginated"
  BY DEF TagsKey
<1>2. \A ref : ManifestKey(ref)[1] = "manifest"
  BY DEF ManifestKey
<1>3. \A d : ConfigKey(d)[1] = "image_config" /\ ConfigKey(d)[2] = ConfigOf[d]
  BY DEF ConfigKey
<1>4. "paginated" # "manifest" /\ "paginated" # "image_config"
  OBVIOUS
<1> QED BY <1>1, <1>2, <1>3, <1>4, Zenon

\* A hit is an item.
LEMMA HitItem ==
    ASSUME NEW t \in Nat, NEW c, CacheOK(c, t), NEW k, Hit(c, k, t)
    PROVE  \E x \in Item(t) : x.key = k /\ x.val = ValueAt(c, k) /\ x.exp > t
<1>1. k \in KeysOf(c) /\ c[IndexOf(c, k)].exp > t /\ c \in Seq(Item(t))
  BY DEF Hit, CacheOK
<1> QED BY <1>1, FoundItem DEF ValueAt

\* A manifest that comes from the cache.
LEMMA CachedManifest ==
    ASSUME NEW t \in Nat, NEW c, CacheOK(c, t), NEW q \in Task, Caching(q),
           Hit(c, ManifestKey(q.ref), t), NEW m, m = ValueAt(c, ManifestKey(q.ref))
    PROVE  GoodManifest(q, t, m) /\ Dated(m, t)
<1> DEFINE k == ManifestKey(q.ref)
<1>1. PICK x \in Item(t) : x.key = k /\ x.val = m /\ x.exp > t
  BY HitItem
<1>2. k[1] = "manifest"
  BY Keys
<1> HIDE DEF k
<1>3. /\ m \in Copy /\ m.by = Shared /\ m.body \in Digests /\ Dated(m, t)
      /\ x.exp \in Int /\ x.exp <= m.got + CacheTTL
  BY <1>1, <1>2 DEF Item
<1>4. m.got \in Nat /\ m.asked <= m.at
  BY <1>3 DEF Copy, Dated
<1> QED BY <1>1, <1>3, <1>4, TimesAssumption DEF GoodManifest, Good, Caching

\* A config that comes from the cache.
LEMMA CachedConfig ==
    ASSUME NEW t \in Nat, NEW c, CacheOK(c, t), NEW q \in Task, Caching(q), NEW m,
           Hit(c, ConfigKey(m.body), t)
    PROVE  GoodConfig(q, m, ValueAt(c, ConfigKey(m.body)))
<1> DEFINE k == ConfigKey(m.body)
<1>1. PICK x \in Item(t) : x.key = k /\ x.val = ValueAt(c, k) /\ x.exp > t
  BY HitItem
<1>2. k[1] = "image_config" /\ k[2] = ConfigOf[m.body]
  BY Keys
<1> HIDE DEF k
<1>3. x.val \in Copy /\ x.val.by = Shared /\ x.val.body = ConfigOf[m.body]
  BY <1>1, <1>2 DEF Item
<1> QED BY <1>1, <1>3 DEF GoodConfig, Caching, k

\* A list of tags that comes from the cache.
LEMMA CachedTags ==
    ASSUME NEW t \in Nat, NEW c, CacheOK(c, t), NEW q \in Task, Caching(q),
           Hit(c, TagsKey, t), NEW v, v = ValueAt(c, TagsKey)
    PROVE  Good(q, t, v)
<1>1. PICK x \in Item(t) : x.key = TagsKey /\ x.val = v /\ x.exp > t
  BY HitItem
<1>2. /\ v \in Copy /\ v.by = Shared /\ Dated(v, t)
      /\ x.exp \in Int /\ x.exp <= v.got + CacheTTL
  BY <1>1, Keys DEF Item
<1>3. v.got \in Nat /\ v.asked <= v.at
  BY <1>2 DEF Copy, Dated
<1> QED BY <1>1, <1>2, <1>3, TimesAssumption DEF Good, Caching

\* What a handler keeps of its answer.
LEMMA FetchedFields ==
    ASSUME NEW r
    PROVE  /\ Fetched(r).body = wire[r].ans.body /\ Fetched(r).at = wire[r].ans.at
           /\ Fetched(r).by = wire[r].ans.by /\ Fetched(r).asked = wire[r].sent
           /\ Fetched(r).got = now
BY DEF Fetched

LEMMA FetchedCopy ==
    ASSUME NEW r, NEW q \in Task, NEW b \in Nat, now \in Nat,
           ExchangeOK(q, b, wire[r], now), wire[r].ans # None,
           wire[r].ans.body \in Digests \cup {ConfigOf[d] : d \in Digests \ Indexes}
                                \cup SUBSET Tags
    PROVE  Good(q, b, Fetched(r)) /\ Dated(Fetched(r), now) /\ Fetched(r).got = now
<1> DEFINE v == Fetched(r)
<1>1. /\ v.body = wire[r].ans.body /\ v.at = wire[r].ans.at /\ v.by = q.who /\ v.got = now
      /\ v.asked = wire[r].sent
      /\ v.at \in Nat /\ v.at <= now /\ v.asked \in Nat /\ b <= v.asked /\ v.asked <= v.at
  BY FetchedFields DEF ExchangeOK, AnswerOK
<1>2. q.who \in Users \cup {Shared}
  BY DEF Task
<1>3. v \in Copy
  BY <1>1, <1>2 DEF Fetched, Copy
<1> HIDE DEF v
<1>4. Good(q, b, v) /\ Dated(v, now)
  BY <1>1, <1>3, TimesAssumption DEF Good, Dated
<1> QED BY <1>1, <1>4 DEF v

\* A copy can be filed under a key that says what it is.
LEMMA NewItem ==
    ASSUME NEW t \in Nat, NEW q \in Task, Caching(q), NEW b, NEW v, Good(q, b, v),
           Dated(v, t), v.got = t, NEW ttl \in Nat, NEW k \in Key,
           k[1] = "manifest" => v.body \in Digests /\ ttl = CacheTTL,
           k[1] = "image_config" => v.body = k[2],
           k = TagsKey => v.body \subseteq Tags /\ ttl = CacheTTL
    PROVE  [key |-> k, exp |-> t + ttl, val |-> v] \in Item(t)
<1> DEFINE x == [key |-> k, exp |-> t + ttl, val |-> v]
<1>1. x.key = k /\ x.exp = t + ttl /\ x.val = v
  OBVIOUS
<1>2. v \in Copy /\ v.by = Shared
  BY DEF Good, Caching, Copy
<1>3. x \in [key : Key, exp : Int, val : Copy]
  BY <1>2
<1>4. k[1] = "manifest" \/ k[1] = "image_config" \/ k = TagsKey
  BY DEF Key
<1> HIDE DEF x
<1>5. k[1] # "image_config" => t + ttl <= v.got + CacheTTL
  BY <1>2, <1>4, TimesAssumption
<1> QED BY <1>1, <1>2, <1>3, <1>5 DEF Item, x

-----------------------------------------------------------------------------
\* What a step of request r does to it and to the others.

\* The step of r leaves the other requests alone.
Moves(r) ==
    /\ pc' = [q \in Requests |-> pc'[q]]
    /\ DOMAIN wire' = Requests /\ DOMAIN result' = Requests
    /\ \A q \in Requests \ {r} :
          pc'[q] = pc[q] /\ wire'[q] = wire[q] /\ result'[q] = result[q]

Keeps(r) ==
    /\ DOMAIN task' = Requests /\ DOMAIN man' = Requests
    /\ began' \in [Requests -> Nat]
    /\ \A q \in Requests \ {r} : /\ task'[q] = task[q] /\ man'[q] = man[q]
                                /\ began'[q] = began[q]

\* A request is as well off after a step that does not touch it.
LEMMA SparedOK ==
    ASSUME NEW q, RequestOK(q), now' = now, pc'[q] = pc[q], task'[q] = task[q],
           began'[q] = began[q], wire'[q] = wire[q], result'[q] = result[q], man'[q] = man[q]
    PROVE  RequestOK(q)'
BY DEF RequestOK

LEMMA OneRequest ==
    ASSUME IInv, NEW r \in Requests, Moves(r), Keeps(r), now' = now,
           RegistryOK', CacheOK(cache', now), auditFile' \subseteq audit', RequestOK(r)'
    PROVE  IInv'
<1>1. ASSUME NEW q \in Requests  PROVE RequestOK(q)'
  <2>1. CASE q = r
    BY <2>1
  <2>2. CASE q # r
    <3>1. /\ RequestOK(q) /\ pc'[q] = pc[q] /\ task'[q] = task[q]
          /\ wire'[q] = wire[q] /\ result'[q] = result[q] /\ man'[q] = man[q]
          /\ began'[q] = began[q]
      BY <2>2 DEF IInv, Moves, Keeps
    <3> QED BY <3>1, SparedOK
  <2> QED BY <2>1, <2>2
<1>2. Tables'
  BY DEF Tables, Moves, Keeps
<1> QED BY <1>1, <1>2 DEF IInv

\* A request that ends with an answer as it should be.
LEMMA Ended ==
    ASSUME IInv, NEW r \in Requests, NEW STATE outcome, Finish(r, outcome),
           task'[r] \in Task, ResultOK(task'[r], began'[r], outcome)
    PROVE  Moves(r) /\ RequestOK(r)'
<1>1. Moves(r) /\ pc'[r] = "done" /\ result'[r] = outcome
  BY DEF IInv, Tables, Finish, Moves
<1> QED BY <1>1 DEF RequestOK

\* A request that failed has nothing to show.
LEMMA FailedOK ==
    ASSUME NEW t, NEW b, NEW why \in {"registry", "connection", "400", "500", "dropped"}
    PROVE  ResultOK(t, b, Failed(why))
<1>1. Failed(why) \in [ok : {FALSE}, why : {"registry", "connection", "400", "500", "dropped"}]
  BY Zenon DEF Failed
<1>2. ~ Failed(why).ok
  BY DEF Failed
<1> QED BY <1>1, <1>2, Zenon DEF ResultOK, Result

\* A page made of what a request may show.
LEMMA PageOK ==
    ASSUME now \in Nat, NEW t, t.op \in {"page", "config"}, NEW b,
           NEW m, GoodManifest(t, b, m), NEW c, c = None \/ GoodConfig(t, m, c)
    PROVE  ResultOK(t, b, Page(m, c))
<1>1. m \in Copy /\ c \in Copy \cup {None}
  BY DEF GoodManifest, Good, GoodConfig
<1>2. Page(m, c) \in [ok : {TRUE}, man : Copy, config : Copy \cup {None}, shown : Nat]
  BY <1>1, Zenon DEF Page
<1>3. Page(m, c).man = m /\ Page(m, c).config = c /\ Page(m, c).shown \in Nat
  BY DEF Page
<1>4. Page(m, c) \in Result
  BY <1>2, Zenon DEF Result
<1>5. t.op # "tags"
  OBVIOUS
<1> QED BY <1>3, <1>4, <1>5, Zenon DEF ResultOK

\* A list a request may show.
LEMMA ListingOK ==
    ASSUME now \in Nat, NEW t, t.op = "tags", NEW b, NEW v, Good(t, b, v)
    PROVE  ResultOK(t, b, Listing(v))
<1>1. v \in Copy
  BY DEF Good
<1>2. Listing(v) \in [ok : {TRUE}, tags : Copy, shown : Nat]
  BY <1>1, Zenon DEF Listing
<1>3. Listing(v).tags = v /\ Listing(v).shown \in Nat
  BY DEF Listing
<1>4. Listing(v) \in Result
  BY <1>2, Zenon DEF Result
<1>5. t.op \notin {"page", "config"}
  OBVIOUS
<1> QED BY <1>3, <1>4, <1>5, Zenon DEF ResultOK

\* A request that sends an exchange of its kind.
LEMMA SentOK ==
    ASSUME IInv, NEW r \in Requests, NEW kind, NEW STATE ref, Send(r, kind, ref), now' = now,
           pc[r] # "done", task'[r] \in Task, began'[r] <= now, kind \in KindsOf(task'[r].op),
           kind \in {"get", "blob", "list", "head", "delete"},
           kind = "delete" => ref \in Digests,
           kind = "blob" => /\ GoodManifest(task'[r], began'[r], man'[r])
                            /\ man'[r].body \notin Indexes
                            /\ ref = ConfigOf[man'[r].body]
                            /\ Dated(man'[r], now)
    PROVE  Moves(r) /\ RequestOK(r)'
<1>1. /\ Moves(r) /\ pc'[r] = kind /\ result'[r] = result[r]
      /\ wire'[r] = [kind |-> kind, ref |-> ref, sent |-> now, ans |-> None]
  BY DEF IInv, Tables, Send, Moves
<1>2. /\ {"kind", "ref", "sent", "ans"} \subseteq DOMAIN wire'[r]
      /\ wire'[r].kind = kind /\ wire'[r].ref = ref /\ wire'[r].sent = now
      /\ wire'[r].ans = None
  BY <1>1
<1>3. result[r] = None /\ now \in Nat
  BY DEF IInv, RequestOK
<1>4. ExchangeOK(task'[r], began'[r], wire'[r], now)
  BY <1>2, <1>3, TimesAssumption DEF ExchangeOK
<1>5. AwaitsOK(kind, task'[r], began'[r], wire'[r], man'[r], now)
  BY <1>2, <1>4, Zenon DEF AwaitsOK
<1> QED BY <1>1, <1>3, <1>5 DEF RequestOK

\* A reader that has a manifest: get_image_config.
LEMMA HaveManifestOK ==
    ASSUME IInv, NEW r \in Requests, NEW STATE t, NEW STATE m, NEW STATE c,
           HaveManifest(r, t, m, c), t = task'[r], t \in Task, t.op \in {"page", "config"},
           GoodManifest(t, began'[r], m), Dated(m, now), CacheOK(c, now),
           pc[r] # "done", now' = now, began'[r] <= now
    PROVE  /\ Moves(r) /\ RequestOK(r)' /\ CacheOK(cache', now)
           /\ DOMAIN man' = Requests /\ \A q \in Requests \ {r} : man'[q] = man[q]
<1> DEFINE key == ConfigKey(m.body)
<1>1. DOMAIN man = Requests /\ now \in Nat
  BY DEF IInv, Tables
<1>2. CASE m.body \in Indexes
  <2>1. /\ cache' = c /\ UNCHANGED man
        /\ Finish(r, IF t.op = "page" THEN Page(m, None) ELSE Failed("400"))
    BY <1>2 DEF HaveManifest
  <2>2. ResultOK(t, began'[r], IF t.op = "page" THEN Page(m, None) ELSE Failed("400"))
    <3>1. ResultOK(t, began'[r], Page(m, None))
      BY <1>1, PageOK
    <3>2. ResultOK(t, began'[r], Failed("400"))
      BY FailedOK
    <3> QED BY <3>1, <3>2
  <2>3. Moves(r) /\ RequestOK(r)'
    BY <2>1, <2>2, Ended
  <2> QED BY <1>1, <2>1, <2>3
<1>3. CASE m.body \notin Indexes
  <2>1. /\ cache' = IF Caching(t) THEN AfterGet(c, key, now) ELSE c
        /\ IF Caching(t) /\ Hit(c, key, now)
           THEN Finish(r, Page(m, ValueAt(c, key))) /\ UNCHANGED man
           ELSE Send(r, "blob", ConfigOf[m.body]) /\ man' = [man EXCEPT ![r] = m]
    BY <1>3 DEF HaveManifest
  <2>2. CacheOK(cache', now)
    <3>1. c \in Seq(Item(now)) /\ Len(c) <= MaxSize /\ Len(c) \in Nat /\ MaxSize \in Nat
      BY LenProperties, MaxSizeAssumption DEF CacheOK
    <3>2. AfterGet(c, key, now) \in Seq(Item(now)) /\ Len(AfterGet(c, key, now)) <= Len(c)
      BY <3>1, GetSeq
    <3>3. Len(AfterGet(c, key, now)) \in Nat
      BY <3>2, LenProperties
    <3> HIDE DEF key
    <3> QED BY <2>1, <3>1, <3>2, <3>3 DEF CacheOK
  <2>3. CASE Caching(t) /\ Hit(c, key, now)
    <3>1. GoodConfig(t, m, ValueAt(c, key))
      BY <1>1, <2>3, CachedConfig
    <3>2. ResultOK(t, began'[r], Page(m, ValueAt(c, key)))
      BY <1>1, <3>1, PageOK
    <3>3. Moves(r) /\ RequestOK(r)'
      BY <2>1, <2>3, <3>2, Ended
    <3> QED BY <1>1, <2>1, <2>2, <2>3, <3>3
  <2>4. CASE ~ (Caching(t) /\ Hit(c, key, now))
    <3>1. Send(r, "blob", ConfigOf[m.body]) /\ man' = [man EXCEPT ![r] = m]
      BY <2>1, <2>4
    <3>2. man'[r] = m /\ DOMAIN man' = Requests /\ \A q \in Requests \ {r} : man'[q] = man[q]
      BY <1>1, <3>1
    <3>3. "blob" \in KindsOf(t.op)
      BY DEF KindsOf
    <3>4. Moves(r) /\ RequestOK(r)'
      BY <1>3, <3>1, <3>2, <3>3, SentOK
    <3> QED BY <2>2, <3>2, <3>4
  <2> QED BY <2>3, <2>4
<1> QED BY <1>2, <1>3

-----------------------------------------------------------------------------
\* The steps of handlers.

\* After the first step of a handler, or a later one.
LEMMA Steps ==
    ASSUME IInv, NEW r \in Requests, NEW t \in Task, Begin(r, t) \/ Quiet
    PROVE  /\ RegistryOK' /\ auditFile' \subseteq audit' /\ now' = now
           /\ DOMAIN task' = Requests /\ \A q \in Requests \ {r} : task'[q] = task[q]
           /\ began' \in [Requests -> Nat] /\ \A q \in Requests \ {r} : began'[q] = began[q]
           /\ Begin(r, t) => task'[r] = t /\ pc[r] = "idle" /\ began'[r] = now
           /\ Quiet => task'[r] = task[r] /\ began'[r] = began[r]
BY DEF IInv, Tables, RegistryOK, Begin, Quiet, registry

\* A lookup, or none, leaves the cache fine.
LEMMA LookedUp ==
    ASSUME IInv, NEW key
    PROVE  CacheOK(AfterGet(cache, key, now), now) /\ CacheOK(cache, now)
<1>1. cache \in Seq(Item(now)) /\ Len(cache) <= MaxSize /\ Len(cache) \in Nat /\ MaxSize \in Nat
  BY LenProperties, MaxSizeAssumption DEF CacheOK, IInv
<1>2. /\ AfterGet(cache, key, now) \in Seq(Item(now))
      /\ Len(AfterGet(cache, key, now)) <= Len(cache)
  BY <1>1, GetSeq
<1>3. Len(AfterGet(cache, key, now)) \in Nat
  BY <1>2, LenProperties
<1> QED BY <1>1, <1>2, <1>3 DEF CacheOK

\* So does filing an item.
LEMMA Filed ==
    ASSUME IInv, NEW key, NEW STATE v, NEW ttl, [key |-> key, exp |-> now + ttl, val |-> v] \in Item(now)
    PROVE  CacheOK(AfterSet(cache, key, v, ttl, now), now)
<1>1. cache \in Seq(Item(now)) /\ Len(cache) <= MaxSize
  BY DEF CacheOK, IInv
<1> QED BY <1>1, SetSeq DEF CacheOK

\* The keys under which the handlers file what they fetch.
LEMMA KeysInUse ==
    /\ \A t \in Task : ManifestKey(t.ref) \in Key
    /\ \A d \in Digests \ Indexes : ConfigKey(d) \in Key
    /\ TagsKey \in Key
<1>1. \A t \in Task : ManifestKey(t.ref) \in Key
  BY DEF Task, ManifestKey, Key
<1>2. \A d \in Digests \ Indexes : ConfigKey(d) \in Key
  BY DEF ConfigKey, Key
<1>3. TagsKey \in Key
  BY DEF Key
<1> QED BY <1>1, <1>2, <1>3

LEMMA ReadManifestStep ==
    ASSUME IInv, NEW r \in Requests, NEW op \in {"page", "config"},
           NEW ref \in Tags \cup Digests, NEW who \in Users \cup {Shared},
           ReadManifest(r, op, ref, who)
    PROVE  IInv'
<1> DEFINE t == [op |-> op, ref |-> ref, who |-> who]
<1> DEFINE key == ManifestKey(ref)
<1> DEFINE c == IF Caching(t) THEN AfterGet(cache, key, now) ELSE cache
<1> DEFINE m == ValueAt(cache, key)
<1>1. /\ Begin(r, t)
      /\ IF Caching(t) /\ Hit(cache, key, now) THEN HaveManifest(r, t, m, c)
         ELSE cache' = c /\ Send(r, "get", ref) /\ UNCHANGED man
  BY DEF ReadManifest
<1>2. t.op \in {"page", "config"} /\ t.ref = ref /\ t \in Task
  BY <1>1 DEF Begin, Task
<1>3. CacheOK(c, now)
  BY LookedUp
<1>4. Caching(t) /\ Hit(cache, key, now) => GoodManifest(t, now, m) /\ Dated(m, now)
  BY <1>2, CachedManifest DEF IInv
<1> HIDE DEF t, c, key, m
<1>5. /\ RegistryOK' /\ auditFile' \subseteq audit' /\ now' = now
      /\ DOMAIN task' = Requests /\ \A q \in Requests \ {r} : task'[q] = task[q]
      /\ began' \in [Requests -> Nat] /\ \A q \in Requests \ {r} : began'[q] = began[q]
      /\ task'[r] = t /\ pc[r] = "idle" /\ began'[r] = now /\ now \in Nat
  BY <1>1, <1>2, Steps DEF IInv
<1>6. CASE Caching(t) /\ Hit(cache, key, now)
  <2>1. /\ Moves(r) /\ RequestOK(r)' /\ CacheOK(cache', now)
        /\ DOMAIN man' = Requests /\ \A q \in Requests \ {r} : man'[q] = man[q]
    BY <1>1, <1>2, <1>3, <1>4, <1>5, <1>6, HaveManifestOK
  <2> QED BY <1>5, <2>1, OneRequest DEF Keeps
<1>7. CASE ~ (Caching(t) /\ Hit(cache, key, now))
  <2>1. cache' = c /\ Send(r, "get", ref) /\ UNCHANGED man
    BY <1>1, <1>7
  <2>2. "get" \in KindsOf(t.op)
    BY <1>2 DEF KindsOf
  <2>3. Moves(r) /\ RequestOK(r)'
    BY <1>2, <1>5, <2>1, <2>2, SentOK
  <2>4. Keeps(r)
    BY <1>5, <2>1 DEF Keeps, IInv, Tables
  <2> QED BY <1>3, <1>5, <2>1, <2>3, <2>4, OneRequest
<1> QED BY <1>6, <1>7

LEMMA ReadTagsStep ==
    ASSUME IInv, NEW r \in Requests, NEW who \in Users \cup {Shared}, ReadTags(r, who)
    PROVE  IInv'
<1> DEFINE t == [op |-> "tags", ref |-> None, who |-> who]
<1> DEFINE v == ValueAt(cache, TagsKey)
<1>1. /\ Begin(r, t) /\ UNCHANGED man
      /\ cache' = IF Caching(t) THEN AfterGet(cache, TagsKey, now) ELSE cache
      /\ IF Caching(t) /\ Hit(cache, TagsKey, now) THEN Finish(r, Listing(v))
         ELSE Send(r, "list", None)
  BY DEF ReadTags
<1>2. t.op = "tags" /\ t \in Task
  BY <1>1 DEF Begin, Task
<1>3. CacheOK(AfterGet(cache, TagsKey, now), now) /\ CacheOK(cache, now)
  BY LookedUp
<1>4. Caching(t) /\ Hit(cache, TagsKey, now) => Good(t, now, v)
  BY <1>2, CachedTags DEF IInv
<1> HIDE DEF t, v
<1>5. /\ RegistryOK' /\ auditFile' \subseteq audit' /\ now' = now
      /\ DOMAIN task' = Requests /\ \A q \in Requests \ {r} : task'[q] = task[q]
      /\ began' \in [Requests -> Nat] /\ \A q \in Requests \ {r} : began'[q] = began[q]
      /\ task'[r] = t /\ pc[r] = "idle" /\ began'[r] = now /\ now \in Nat
  BY <1>1, <1>2, Steps DEF IInv
<1>6. Moves(r) /\ RequestOK(r)'
  <2>1. CASE Caching(t) /\ Hit(cache, TagsKey, now)
    <3>1. ResultOK(t, now, Listing(v))
      BY <1>2, <1>4, <1>5, <2>1, ListingOK
    <3> QED BY <1>1, <1>2, <1>5, <2>1, <3>1, Ended
  <2>2. CASE ~ (Caching(t) /\ Hit(cache, TagsKey, now))
    <3>1. "list" \in KindsOf(t.op)
      BY <1>2 DEF KindsOf
    <3> QED BY <1>1, <1>2, <1>5, <2>2, <3>1, SentOK
  <2> QED BY <2>1, <2>2
<1>7. Keeps(r) /\ CacheOK(cache', now)
  BY <1>1, <1>3, <1>5 DEF Keeps, IInv, Tables
<1> QED BY <1>5, <1>6, <1>7, OneRequest

LEMMA DeleteStep ==
    ASSUME IInv, NEW r \in Requests, NEW ref \in Tags \cup Digests,
           NEW who \in Users \cup {Shared}, Delete(r, ref, who)
    PROVE  IInv'
<1> DEFINE t == [op |-> "delete", ref |-> ref, who |-> who]
<1> DEFINE kind == IF ref \in Digests THEN "delete" ELSE "head"
<1>1. Begin(r, t) /\ Send(r, kind, ref) /\ UNCHANGED << cache, man >>
  BY DEF Delete
<1>2. t.op = "delete" /\ t \in Task
  BY <1>1 DEF Begin, Task
<1>3. /\ kind \in {"head", "delete"} /\ kind \in KindsOf(t.op)
      /\ kind = "delete" => ref \in Digests
  BY DEF KindsOf
<1> HIDE DEF t, kind
<1>4. /\ RegistryOK' /\ auditFile' \subseteq audit' /\ now' = now
      /\ DOMAIN task' = Requests /\ \A q \in Requests \ {r} : task'[q] = task[q]
      /\ began' \in [Requests -> Nat] /\ \A q \in Requests \ {r} : began'[q] = began[q]
      /\ task'[r] = t /\ pc[r] = "idle" /\ began'[r] = now /\ now \in Nat
  BY <1>1, <1>2, Steps DEF IInv
<1>5. Moves(r) /\ RequestOK(r)'
  BY <1>1, <1>2, <1>3, <1>4, SentOK
<1>6. Keeps(r) /\ CacheOK(cache', now)
  BY <1>1, <1>4 DEF Keeps, IInv, Tables
<1> QED BY <1>4, <1>5, <1>6, OneRequest

\* What an exchange that is awaited says of its request.
LEMMA Awaiting ==
    ASSUME IInv, NEW r \in Requests, pc[r] \in {"get", "blob", "list", "head", "delete"}
    PROVE  /\ task[r] \in Task /\ result[r] = None
           /\ AwaitsOK(pc[r], task[r], began[r], wire[r], man[r], now)
           /\ ExchangeOK(task[r], began[r], wire[r], now) /\ wire[r].kind = pc[r]
           /\ began[r] \in Nat /\ began[r] <= now
           /\ pc[r] \in {"get", "blob"} => task[r].op \in {"page", "config"}
           /\ pc[r] = "list" => task[r].op = "tags"
           /\ pc[r] \in {"head", "delete"} => task[r].op = "delete"
<1>1. RequestOK(r)
  BY DEF IInv
<1>2. /\ task[r] \in Task /\ result[r] = None
      /\ AwaitsOK(pc[r], task[r], began[r], wire[r], man[r], now)
  BY <1>1 DEF RequestOK
<1>3. task[r].op \in {"page", "config", "tags", "delete"}
  BY <1>2, OpsAssumption DEF Task
<1>4. pc[r] \in KindsOf(task[r].op) /\ wire[r].kind = pc[r]
  BY <1>2 DEF AwaitsOK
<1>5. /\ pc[r] \in {"get", "blob"} => task[r].op \in {"page", "config"}
      /\ pc[r] = "list" => task[r].op = "tags"
      /\ pc[r] \in {"head", "delete"} => task[r].op = "delete"
  BY <1>3, <1>4 DEF KindsOf
<1>6. ExchangeOK(task[r], began[r], wire[r], now) /\ began[r] \in Nat /\ now \in Nat
  BY <1>2 DEF AwaitsOK, IInv, Tables
<1>7. began[r] <= now
  BY <1>6 DEF ExchangeOK
<1> QED BY <1>2, <1>4, <1>5, <1>6, <1>7

\* A later step of a handler that ends the request or goes on with it.
LEMMA Continues ==
    ASSUME IInv, NEW r \in Requests, task[r] \in Task, Quiet, Moves(r), RequestOK(r)',
           CacheOK(cache', now),
           DOMAIN man' = Requests, \A q \in Requests \ {r} : man'[q] = man[q]
    PROVE  IInv'
<1>1. /\ RegistryOK' /\ auditFile' \subseteq audit' /\ now' = now
      /\ DOMAIN task' = Requests /\ \A q \in Requests \ {r} : task'[q] = task[q]
      /\ began' \in [Requests -> Nat] /\ \A q \in Requests \ {r} : began'[q] = began[q]
  BY Steps
<1> QED BY <1>1, OneRequest DEF Keeps

LEMMA ReceiveManifestStep ==
    ASSUME IInv, NEW r \in Requests, ReceiveManifest(r)
    PROVE  IInv'
<1> DEFINE t == task[r]
<1> DEFINE a == wire[r].ans
<1> DEFINE m == Fetched(r)
<1> DEFINE key == ManifestKey(t.ref)
<1> DEFINE c == IF Caching(t) THEN AfterSet(cache, key, m, CacheTTL, now) ELSE cache
<1>1. /\ pc[r] = "get" /\ a # None /\ Quiet
      /\ IF a.ok THEN HaveManifest(r, t, m, c)
         ELSE Finish(r, Failed("registry")) /\ UNCHANGED << cache, man >>
  BY DEF ReceiveManifest, Answered
<1>2. /\ t \in Task /\ t.op \in {"page", "config"}
      /\ ExchangeOK(t, began[r], wire[r], now) /\ wire[r].kind = "get"
  BY <1>1, Awaiting
<1>3. /\ task'[r] = t /\ now' = now /\ now \in Nat
      /\ began'[r] = began[r] /\ began[r] \in Nat /\ began[r] <= now
  BY <1>1, Awaiting DEF Quiet, IInv
<1> HIDE DEF t
<1>4. CASE a.ok
  <2>1. a.body \in Digests
    BY <1>1, <1>2, <1>4 DEF ExchangeOK, AnswerOK
  <2>2. /\ Good(t, began[r], m) /\ Dated(m, now) /\ m.got = now
        /\ m.body \in Digests
    BY <1>1, <1>2, <1>3, <2>1, FetchedCopy, FetchedFields
  <2>3. CacheOK(c, now)
    <3>1. key \in Key /\ key[1] = "manifest" /\ key # TagsKey
      BY <1>2, Keys, KeysInUse
    <3> HIDE DEF key, m
    <3>2. ASSUME Caching(t)
          PROVE  [key |-> key, exp |-> now + CacheTTL, val |-> m] \in Item(now)
      BY <1>2, <1>3, <2>2, <3>1, <3>2, NewItem, TimesAssumption
    <3> QED BY <3>2, Filed, LookedUp
  <2>4. HaveManifest(r, t, m, c)
    BY <1>1, <1>4
  <2> HIDE DEF m, c
  <2>5. /\ Moves(r) /\ RequestOK(r)' /\ CacheOK(cache', now)
        /\ DOMAIN man' = Requests /\ \A q \in Requests \ {r} : man'[q] = man[q]
    <3>1. GoodManifest(t, began[r], m) /\ pc[r] # "done"
      BY <1>1, <1>3, <2>2 DEF GoodManifest
    <3> QED BY <1>2, <1>3, <2>2, <2>3, <2>4, <3>1, HaveManifestOK
  <2> QED BY <1>1, <1>2, <2>5, Continues DEF t
<1>5. CASE ~ a.ok
  <2>1. Finish(r, Failed("registry")) /\ UNCHANGED << cache, man >>
    BY <1>1, <1>5
  <2>2. ResultOK(t, began[r], Failed("registry"))
    BY FailedOK
  <2>3. Moves(r) /\ RequestOK(r)'
    BY <1>2, <1>3, <2>1, <2>2, Ended
  <2>4. CacheOK(cache', now) /\ DOMAIN man' = Requests
    BY <2>1 DEF IInv, Tables
  <2> QED BY <1>1, <1>2, <2>1, <2>3, <2>4, Continues DEF t
<1> QED BY <1>4, <1>5

LEMMA ReceiveBlobStep ==
    ASSUME IInv, NEW r \in Requests, ReceiveBlob(r)
    PROVE  IInv'
<1> DEFINE t == task[r]
<1> DEFINE m == man[r]
<1> DEFINE a == wire[r].ans
<1> DEFINE b == Fetched(r)
<1> DEFINE good == a.ok /\ a.body # None
<1> DEFINE key == ConfigKey(m.body)
<1> DEFINE outcome == IF good THEN Page(m, b)
                      ELSE IF a.ok THEN Failed("500")
                      ELSE IF t.op = "page" THEN Page(m, None) ELSE Failed("400")
<1>1. /\ pc[r] = "blob" /\ a # None /\ Quiet
      /\ cache' = IF good /\ Caching(t) THEN AfterSet(cache, key, b, BlobTTL, now) ELSE cache
      /\ Finish(r, outcome)
      /\ man' = [man EXCEPT ![r] = None]
  BY DEF ReceiveBlob, Answered
<1>2. /\ t \in Task /\ t.op \in {"page", "config"}
      /\ ExchangeOK(t, began[r], wire[r], now) /\ wire[r].kind = "blob"
      /\ GoodManifest(t, began[r], m) /\ m.body \notin Indexes /\ wire[r].ref = ConfigOf[m.body]
  BY <1>1, Awaiting DEF AwaitsOK
<1>3. /\ task'[r] = t /\ now' = now /\ now \in Nat
      /\ began'[r] = began[r] /\ began[r] \in Nat /\ began[r] <= now
  BY <1>1, Awaiting DEF Quiet, IInv
<1>4. m.body \in Digests \ Indexes
  BY <1>2 DEF GoodManifest
<1>5. ASSUME good
      PROVE  /\ Good(t, began[r], b) /\ Dated(b, now) /\ b.got = now
             /\ b.body = ConfigOf[m.body]
  <2>1. a.body = ConfigOf[m.body]
    BY <1>1, <1>2, <1>5 DEF ExchangeOK, AnswerOK
  <2>2. a.body \in {ConfigOf[d] : d \in Digests \ Indexes}
    BY <1>4, <2>1
  <2> QED BY <1>1, <1>2, <1>3, <2>1, <2>2, FetchedCopy, FetchedFields
<1>6. CacheOK(cache', now)
  <2>1. /\ key \in Key /\ key[1] = "image_config" /\ key[2] = ConfigOf[m.body]
        /\ key # TagsKey
    BY <1>4, Keys, KeysInUse
  <2>2. cache' = IF good /\ Caching(t) THEN AfterSet(cache, key, b, BlobTTL, now) ELSE cache
    BY <1>1
  <2> HIDE DEF key, b, t, good
  <2>3. ASSUME good, Caching(t)
        PROVE  [key |-> key, exp |-> now + BlobTTL, val |-> b] \in Item(now)
    <3>1. key[1] # "manifest" /\ b.body = key[2] /\ BlobTTL \in Nat
      BY <1>5, <2>1, <2>3, TimesAssumption
    <3> QED BY <1>2, <1>3, <1>5, <2>1, <2>3, <3>1, NewItem
  <2> QED BY <2>2, <2>3, Filed, LookedUp
<1> HIDE DEF t, m, b, good
<1>7. ResultOK(t, began[r], outcome)
  <2>1. CASE good
    <3>1. GoodConfig(t, m, b)
      BY <1>5, <2>1 DEF GoodConfig, Good
    <3>2. ResultOK(t, began[r], Page(m, b))
      BY <1>2, <1>3, <3>1, PageOK
    <3> QED BY <2>1, <3>2
  <2>2. CASE ~ good
    <3>1. ResultOK(t, began[r], Page(m, None))
      BY <1>2, <1>3, PageOK
    <3>2. ResultOK(t, began[r], Failed("400")) /\ ResultOK(t, began[r], Failed("500"))
      BY FailedOK
    <3> QED BY <2>2, <3>1, <3>2
  <2> QED BY <2>1, <2>2
<1>8. Moves(r) /\ RequestOK(r)'
  <2> HIDE DEF outcome
  <2> QED BY <1>1, <1>2, <1>3, <1>7, Ended
<1>9. DOMAIN man' = Requests /\ \A q \in Requests \ {r} : man'[q] = man[q]
  BY <1>1 DEF IInv, Tables
<1> QED BY <1>1, <1>2, <1>6, <1>8, <1>9, Continues DEF t

LEMMA ReceiveTagsStep ==
    ASSUME IInv, NEW r \in Requests, ReceiveTags(r)
    PROVE  IInv'
<1> DEFINE t == task[r]
<1> DEFINE a == wire[r].ans
<1> DEFINE v == Fetched(r)
<1> DEFINE outcome == IF a.ok THEN Listing(v) ELSE Failed("registry")
<1>1. /\ pc[r] = "list" /\ a # None /\ Quiet
      /\ cache' = IF a.ok /\ Caching(t) THEN AfterSet(cache, TagsKey, v, CacheTTL, now)
                  ELSE cache
      /\ Finish(r, outcome)
      /\ UNCHANGED man
  BY DEF ReceiveTags, Answered
<1>2. /\ t \in Task /\ t.op = "tags"
      /\ ExchangeOK(t, began[r], wire[r], now) /\ wire[r].kind = "list"
  BY <1>1, Awaiting
<1>3. /\ task'[r] = t /\ now' = now /\ now \in Nat
      /\ began'[r] = began[r] /\ began[r] \in Nat /\ began[r] <= now
  BY <1>1, Awaiting DEF Quiet, IInv
<1>4. ASSUME a.ok
      PROVE  /\ Good(t, began[r], v) /\ Dated(v, now) /\ v.got = now
             /\ v.body \subseteq Tags
  <2>1. a.body \in SUBSET Tags
    BY <1>1, <1>2, <1>4 DEF ExchangeOK, AnswerOK
  <2> QED BY <1>1, <1>2, <1>3, <2>1, FetchedCopy, FetchedFields
<1> HIDE DEF t, v
<1>5. CacheOK(cache', now)
  <2>1. ASSUME a.ok, Caching(t)
        PROVE  [key |-> TagsKey, exp |-> now + CacheTTL, val |-> v] \in Item(now)
    <3>1. TagsKey[1] # "manifest" /\ TagsKey[1] # "image_config" /\ CacheTTL \in Nat
      BY Keys, TimesAssumption
    <3> QED BY <1>2, <1>3, <1>4, <2>1, <3>1, KeysInUse, NewItem
  <2> QED BY <1>1, <2>1, Filed, LookedUp
<1>6. ResultOK(t, began[r], outcome)
  <2>1. CASE a.ok
    <3>1. ResultOK(t, began[r], Listing(v))
      BY <1>2, <1>3, <1>4, <2>1, ListingOK
    <3> QED BY <2>1, <3>1
  <2>2. CASE ~ a.ok
    BY <2>2, FailedOK
  <2> QED BY <2>1, <2>2
<1>7. Moves(r) /\ RequestOK(r)'
  <2> HIDE DEF outcome
  <2> QED BY <1>1, <1>2, <1>3, <1>6, Ended
<1>8. DOMAIN man' = Requests /\ \A q \in Requests \ {r} : man'[q] = man[q]
  BY <1>1 DEF IInv, Tables
<1> QED BY <1>1, <1>2, <1>5, <1>7, <1>8, Continues DEF t

LEMMA ReceiveHeadStep ==
    ASSUME IInv, NEW r \in Requests, ReceiveHead(r)
    PROVE  IInv'
<1> DEFINE a == wire[r].ans
<1>1. /\ pc[r] = "head" /\ a # None /\ Quiet /\ UNCHANGED << cache, man >>
      /\ IF a.ok /\ a.body # None THEN Send(r, "delete", a.body)
         ELSE Finish(r, Failed("registry"))
  BY DEF ReceiveHead, Answered
<1>2. /\ task[r] \in Task /\ task[r].op = "delete"
      /\ ExchangeOK(task[r], began[r], wire[r], now) /\ wire[r].kind = "head"
  BY <1>1, Awaiting
<1>3. task'[r] = task[r] /\ now' = now /\ began'[r] = began[r] /\ began[r] <= now
  BY <1>1, Awaiting DEF Quiet
<1>4. "delete" \in KindsOf(task[r].op)
  BY <1>2 DEF KindsOf
<1>5. ResultOK(task[r], began[r], Failed("registry"))
  BY FailedOK
<1>6. Moves(r) /\ RequestOK(r)'
  <2>1. CASE a.ok /\ a.body # None
    <3>1. a.body \in Digests
      BY <1>1, <1>2, <2>1 DEF ExchangeOK, AnswerOK
    <3> QED BY <1>1, <1>2, <1>3, <1>4, <2>1, <3>1, SentOK
  <2>2. CASE ~ (a.ok /\ a.body # None)
    BY <1>1, <1>2, <1>3, <1>5, <2>2, Ended
  <2> QED BY <1>1, <2>1, <2>2
<1>7. CacheOK(cache', now) /\ DOMAIN man' = Requests
  BY <1>1 DEF IInv, Tables
<1> QED BY <1>1, <1>2, <1>6, <1>7, Continues

LEMMA ReceiveDeleteStep ==
    ASSUME IInv, NEW r \in Requests, ReceiveDelete(r)
    PROVE  IInv'
<1> DEFINE done == [ok |-> TRUE, digest |-> wire[r].ref]
<1>1. /\ pc[r] = "delete"
      /\ Finish(r, done) \/ Finish(r, Failed("registry"))
      /\ UNCHANGED << cache, man, now, task, began, tag, stored >>
  BY DEF ReceiveDelete, Answered, registry
<1>2. task[r] \in Task /\ task[r].op = "delete" /\ wire[r].ref \in Digests
  BY <1>1, Awaiting DEF ExchangeOK
<1>3. ResultOK(task[r], began[r], done)
  <2>1. done \in [ok : {TRUE}, digest : Digests]
    BY <1>2, Zenon
  <2>2. done \in Result
    BY <2>1, Zenon DEF Result
  <2> QED BY <1>2, <2>2 DEF ResultOK
<1> HIDE DEF done
<1>4. Moves(r) /\ RequestOK(r)'
  BY <1>1, <1>2, <1>3, FailedOK, Ended
<1>5. auditFile' \subseteq audit'
  BY DEF ReceiveDelete, IInv
<1>6. RegistryOK' /\ CacheOK(cache', now) /\ Keeps(r)
  BY <1>1 DEF IInv, RegistryOK, Tables, Keeps
<1> QED BY <1>1, <1>4, <1>5, <1>6, OneRequest

LEMMA GiveUpStep ==
    ASSUME IInv, NEW r \in Requests, GiveUp(r)
    PROVE  IInv'
<1> DEFINE outcome == IF pc[r] # "blob" THEN Failed("connection")
                      ELSE IF task[r].op = "page" THEN Page(man[r], None) ELSE Failed("400")
<1>1. /\ Finish(r, outcome) /\ Quiet /\ UNCHANGED cache
      /\ man' = [man EXCEPT ![r] = None]
      /\ pc[r] \notin {"idle", "done"}
  BY DEF GiveUp, Waiting
<1>2. pc[r] \in {"get", "blob", "list", "head", "delete"}
  BY <1>1 DEF IInv, RequestOK
<1>3. task[r] \in Task /\ task'[r] = task[r] /\ began'[r] = began[r] /\ now \in Nat
  BY <1>1, <1>2, Awaiting DEF Quiet, IInv
<1>4. ResultOK(task[r], began[r], outcome)
  <2>1. ASSUME pc[r] = "blob"  PROVE ResultOK(task[r], began[r], Page(man[r], None))
    <3>1. task[r].op \in {"page", "config"} /\ GoodManifest(task[r], began[r], man[r])
      BY <2>1, Awaiting DEF AwaitsOK
    <3> QED BY <1>3, <3>1, PageOK
  <2>2. /\ ResultOK(task[r], began[r], Failed("connection"))
        /\ ResultOK(task[r], began[r], Failed("400"))
    BY FailedOK
  <2> QED BY <2>1, <2>2
<1>5. Moves(r) /\ RequestOK(r)'
  <2> HIDE DEF outcome
  <2> QED BY <1>1, <1>3, <1>4, Ended
<1>6. /\ CacheOK(cache', now) /\ DOMAIN man' = Requests
      /\ \A q \in Requests \ {r} : man'[q] = man[q]
  BY <1>1 DEF IInv, Tables
<1> QED BY <1>1, <1>3, <1>5, <1>6, Continues

-----------------------------------------------------------------------------
\* The steps of the registry, of other people and of the process.

Replied(w, a) == [w EXCEPT !.ans = a]

\* An answer leaves the rest of its exchange as it was.
LEMMA RepliedFields ==
    ASSUME NEW w, NEW a, {"kind", "ref", "sent", "ans"} \subseteq DOMAIN w
    PROVE  /\ {"kind", "ref", "sent", "ans"} \subseteq DOMAIN Replied(w, a)
           /\ Replied(w, a).kind = w.kind /\ Replied(w, a).ref = w.ref
           /\ Replied(w, a).sent = w.sent /\ Replied(w, a).ans = a
<1>1. "kind" \in DOMAIN w /\ "ref" \in DOMAIN w /\ "sent" \in DOMAIN w /\ "ans" \in DOMAIN w
  BY Zenon
<1>2. "kind" # "ans" /\ "ref" # "ans" /\ "sent" # "ans"
  OBVIOUS
<1>3. DOMAIN Replied(w, a) = DOMAIN w
  BY Zenon DEF Replied
<1> QED BY <1>1, <1>2, <1>3, Zenon DEF Replied

\* What the registry may say while it answers request r.
TruthFor(w, ok, body) ==
    /\ w.kind = "get" /\ ok => body \in Digests
    /\ w.kind = "head" /\ ok /\ body # None => body \in Digests
    /\ w.kind = "list" /\ ok => body \subseteq Tags
    /\ w.kind = "blob" /\ ok /\ body # None => body = w.ref

LEMMA AnswerStep ==
    ASSUME IInv, NEW r \in Requests, NEW STATE ok, NEW STATE body, Answer(r, ok, body),
           TruthFor(wire[r], ok, body), RegistryOK',
           UNCHANGED << cache, now, task, began, pc, man, result, audit, auditFile >>
    PROVE  IInv'
<1> DEFINE a == [ok |-> ok, body |-> body, at |-> now, by |-> task[r].who]
<1>1. wire' = [wire EXCEPT ![r] = Replied(wire[r], a)]
  BY Zenon DEF Answer, Replied
<1>2. a.ok = ok /\ a.body = body /\ a.at = now /\ a.by = task[r].who
  BY Zenon
<1> HIDE DEF a
<1>3. /\ DOMAIN wire' = Requests
      /\ \A q \in Requests \ {r} : wire'[q] = wire[q]
      /\ wire'[r] = Replied(wire[r], a)
  BY <1>1 DEF IInv, Tables
<1>4. Moves(r) /\ Keeps(r) /\ CacheOK(cache', now)
  BY <1>3 DEF IInv, Tables, Moves, Keeps
<1>5. RequestOK(r)'
  <2>1. CASE pc[r] \in {"get", "blob", "list", "head", "delete"}
    <3>1. /\ task[r] \in Task /\ result[r] = None
          /\ AwaitsOK(pc[r], task[r], began[r], wire[r], man[r], now)
          /\ ExchangeOK(task[r], began[r], wire[r], now)
      BY <2>1, Awaiting
    <3>2. /\ {"kind", "ref", "sent", "ans"} \subseteq DOMAIN wire'[r]
          /\ wire'[r].kind = wire[r].kind /\ wire'[r].ref = wire[r].ref
          /\ wire'[r].sent = wire[r].sent /\ wire'[r].ans = a
      BY <1>3, <3>1, RepliedFields DEF ExchangeOK
    <3>3. AnswerOK(task[r], wire'[r], a, now)
      BY <1>2, <3>1, <3>2 DEF AnswerOK, ExchangeOK, TruthFor, IInv
    <3>4. ExchangeOK(task[r], began[r], wire'[r], now)
      BY <3>1, <3>2, <3>3 DEF ExchangeOK
    <3>5. AwaitsOK(pc[r], task[r], began[r], wire'[r], man[r], now)
      BY <3>1, <3>2, <3>4 DEF AwaitsOK
    <3> QED BY <2>1, <3>1, <3>5 DEF RequestOK
  <2>2. CASE pc[r] \notin {"get", "blob", "list", "head", "delete"}
    BY <2>2 DEF IInv, RequestOK
  <2> QED BY <2>1, <2>2
<1> QED BY <1>4, <1>5, OneRequest DEF IInv

LEMMA ServeStep ==
    ASSUME IInv, NEW r \in Requests, Serve(r)
    PROVE  IInv'
<1>1. UNCHANGED << cache, now, task, began, pc, man, result, audit, auditFile >>
  BY DEF Serve
<1>2. UNCHANGED registry => RegistryOK'
  BY DEF registry, IInv, RegistryOK
<1>3. CASE ServeManifest(r)
  <2>1. /\ Answer(r, Resolve(wire[r].ref) # None, Resolve(wire[r].ref))
        /\ wire[r].kind \in {"get", "head"} /\ UNCHANGED registry
    BY <1>3 DEF ServeManifest, Unserved
  <2>2. Resolve(wire[r].ref) \in Digests \cup {None}
    BY DEF Resolve, IInv, RegistryOK
  <2>3. TruthFor(wire[r], Resolve(wire[r].ref) # None, Resolve(wire[r].ref))
    BY <2>1, <2>2 DEF TruthFor
  <2> QED BY <1>1, <1>2, <2>1, <2>3, AnswerStep
<1>4. CASE ServeHeadWithoutDigest(r)
  <2>1. Answer(r, TRUE, None) /\ wire[r].kind = "head" /\ UNCHANGED registry
    BY <1>4 DEF ServeHeadWithoutDigest, Unserved
  <2>2. TruthFor(wire[r], TRUE, None)
    BY <2>1 DEF TruthFor
  <2> QED BY <1>1, <1>2, <2>1, <2>2, AnswerStep
<1>5. CASE ServeTags(r)
  <2>1. /\ Answer(r, TRUE, {x \in Tags : tag[x] # None})
        /\ wire[r].kind = "list" /\ UNCHANGED registry
    BY <1>5 DEF ServeTags, Unserved
  <2>2. TruthFor(wire[r], TRUE, {x \in Tags : tag[x] # None})
    BY <2>1 DEF TruthFor
  <2> QED BY <1>1, <1>2, <2>1, <2>2, AnswerStep
<1>6. CASE ServeBlob(r)
  <2>1. PICK body \in {wire[r].ref, None} : Answer(r, TRUE, body)
    BY <1>6 DEF ServeBlob
  <2>2. wire[r].kind = "blob" /\ UNCHANGED registry
    BY <1>6 DEF ServeBlob, Unserved
  <2>3. TruthFor(wire[r], TRUE, body)
    BY <2>1, <2>2 DEF TruthFor
  <2> QED BY <1>1, <1>2, <2>1, <2>2, <2>3, AnswerStep
<1>7. CASE ServeDelete(r)
  <2>1. /\ Answer(r, wire[r].ref \in stored, wire[r].ref) /\ wire[r].kind = "delete"
        /\ stored' = stored \ {wire[r].ref}
        /\ tag' = [x \in Tags |-> IF tag[x] = wire[r].ref THEN None ELSE tag[x]]
    BY <1>7 DEF ServeDelete, Unserved
  <2>2. RegistryOK'
    BY <2>1 DEF IInv, RegistryOK
  <2>3. TruthFor(wire[r], wire[r].ref \in stored, wire[r].ref)
    BY <2>1 DEF TruthFor
  <2> QED BY <1>1, <2>1, <2>2, <2>3, AnswerStep
<1>8. CASE ServeError(r)
  <2>1. Answer(r, FALSE, None) /\ UNCHANGED registry
    BY <1>8 DEF ServeError
  <2>2. TruthFor(wire[r], FALSE, None)
    BY DEF TruthFor
  <2> QED BY <1>1, <1>2, <2>1, <2>2, AnswerStep
<1> QED BY <1>3, <1>4, <1>5, <1>6, <1>7, <1>8 DEF Serve

\* A step that leaves the application alone.
LEMMA OtherStep ==
    ASSUME IInv, RegistryOK',
           UNCHANGED << cache, now, task, began, pc, man, wire, result, audit, auditFile >>
    PROVE  IInv'
<1>1. \A q \in Requests : RequestOK(q)'
  BY SparedOK DEF IInv
<1> QED BY <1>1 DEF IInv, Tables

LEMMA PushStep ==
    ASSUME IInv, NEW x \in Tags, NEW d \in Digests, Push(x, d)
    PROVE  IInv'
<1>1. RegistryOK'
  BY DEF Push, IInv, RegistryOK
<1> QED BY <1>1, OtherStep DEF Push

LEMMA StutterStep == ASSUME IInv, UNCHANGED vars PROVE IInv'
<1>1. RegistryOK'
  BY DEF vars, registry, IInv, RegistryOK
<1> QED BY <1>1, OtherStep DEF vars

\* Time passes, and nothing is got or shown.
LEMMA TickStep == ASSUME IInv, Tick PROVE IInv'
<1>1. /\ now' = now + 1 /\ now \in Nat
      /\ UNCHANGED << tag, stored, cache, task, began, pc, man, wire, result, audit, auditFile >>
  BY DEF Tick, registry, IInv
<1>2. ASSUME NEW r \in Requests  PROVE RequestOK(r)'
  <2>1. CASE pc[r] \in {"get", "blob", "list", "head", "delete"}
    <3>1. /\ task[r] \in Task /\ result[r] = None
          /\ AwaitsOK(pc[r], task[r], began[r], wire[r], man[r], now)
          /\ ExchangeOK(task[r], began[r], wire[r], now)
      BY <2>1, Awaiting
    <3>2. ExchangeOK(task[r], began[r], wire[r], now + 1)
      <4>1. wire[r].sent \in Nat /\ wire[r].sent <= now + 1
        BY <1>1, <3>1 DEF ExchangeOK
      <4>2. ASSUME wire[r].ans # None
            PROVE  AnswerOK(task[r], wire[r], wire[r].ans, now + 1)
        BY <1>1, <3>1, <4>2 DEF ExchangeOK, AnswerOK
      <4> QED BY <3>1, <4>1, <4>2 DEF ExchangeOK
    <3>3. AwaitsOK(pc[r], task[r], began[r], wire[r], man[r], now + 1)
      <4>1. ASSUME pc[r] = "blob"
            PROVE  Dated(man[r], now + 1)
        BY <1>1, <3>1, <4>1 DEF AwaitsOK, GoodManifest, Good, Copy, Dated
      <4> QED BY <3>1, <3>2, <4>1 DEF AwaitsOK
    <3> QED BY <1>1, <2>1, <3>1, <3>3 DEF RequestOK
  <2>2. CASE pc[r] \notin {"get", "blob", "list", "head", "delete"}
    BY <1>1, <2>2 DEF IInv, RequestOK
  <2> QED BY <2>1, <2>2
<1>3. CacheOK(cache, now + 1) /\ now + 1 \in Nat
  BY OlderCache DEF IInv
<1> QED BY <1>1, <1>2, <1>3 DEF IInv, Tables, RegistryOK

LEMMA EmptyCache == ASSUME NEW t PROVE CacheOK(<< >>, t)
BY EmptySeq, MaxSizeAssumption DEF CacheOK

LEMMA CrashStep == ASSUME IInv, Crash PROVE IInv'
<1>1. /\ cache' = << >>
      /\ pc' = [r \in Requests |-> IF r \in Waiting THEN "done" ELSE pc[r]]
      /\ result' = [r \in Requests |-> IF r \in Waiting THEN Failed("dropped") ELSE result[r]]
      /\ man' = [r \in Requests |-> None]
      /\ wire' = [r \in Requests |-> Abandon(wire[r])]
      /\ UNCHANGED << now, tag, stored, task, began, audit, auditFile >>
  BY DEF Crash, registry
<1>2. ASSUME NEW r \in Requests  PROVE RequestOK(r)'
  <2>1. CASE r \in Waiting
    <3>1. task[r] \in Task
      BY <2>1 DEF Waiting, IInv, RequestOK
    <3>2. pc'[r] = "done" /\ result'[r] = Failed("dropped")
      BY <1>1, <2>1
    <3>3. ResultOK(task[r], began[r], Failed("dropped"))
      BY FailedOK
    <3> QED BY <1>1, <3>1, <3>2, <3>3 DEF RequestOK
  <2>2. CASE r \notin Waiting
    BY <1>1, <2>2 DEF Waiting, IInv, RequestOK
  <2> QED BY <2>1, <2>2
<1>3. CacheOK(cache', now')
  BY <1>1, EmptyCache
<1> QED BY <1>1, <1>2, <1>3 DEF IInv, Tables, RegistryOK

-----------------------------------------------------------------------------
LEMMA InitInductive == Init => IInv
<1> SUFFICES ASSUME Init  PROVE IInv
  OBVIOUS
<1>1. CacheOK(cache, now) /\ now \in Nat
  BY EmptyCache DEF Init
<1>2. Tables /\ RegistryOK
  BY DEF Init, Tables, RegistryOK
<1>3. \A r \in Requests : RequestOK(r)
  BY DEF Init, RequestOK
<1> QED BY <1>1, <1>2, <1>3 DEF IInv, Init

LEMMA NextInductive == IInv /\ [Next]_vars => IInv'
<1> SUFFICES ASSUME IInv, [Next]_vars  PROVE IInv'
  OBVIOUS
<1>1. ASSUME NEW r \in Requests, Start(r)  PROVE IInv'
  <2>1. PICK who \in Users \cup {Shared} :
           \/ ReadTags(r, who)
           \/ \E ref \in Tags \cup Digests :
                 \/ \E op \in {"page", "config"} : ReadManifest(r, op, ref, who)
                 \/ Delete(r, ref, who)
    BY <1>1 DEF Start
  <2> QED BY <2>1, ReadTagsStep, ReadManifestStep, DeleteStep
<1>2. ASSUME NEW r \in Requests, Receive(r)  PROVE IInv'
  BY <1>2, ReceiveManifestStep, ReceiveBlobStep, ReceiveTagsStep, ReceiveHeadStep,
     ReceiveDeleteStep DEF Receive
<1> QED BY <1>1, <1>2, ServeStep, GiveUpStep, PushStep, CrashStep, TickStep, StutterStep
        DEF Next

LEMMA Inductive == Spec => []IInv
BY InitInductive, NextInductive, PTL DEF Spec

-----------------------------------------------------------------------------
\* What a request shows is good.
LEMMA ShownGood ==
    ASSUME IInv, NEW r \in Requests
    PROVE  /\ IsPage(r) => /\ GoodManifest(task[r], began[r], result[r].man)
                           /\ result[r].shown \in Nat
                           /\ result[r].config # None =>
                                 GoodConfig(task[r], result[r].man, result[r].config)
           /\ IsListing(r) => /\ Good(task[r], began[r], result[r].tags)
                              /\ result[r].shown \in Nat
<1>1. Ok(r) => ResultOK(task[r], began[r], result[r]) /\ result[r].ok
  BY DEF IInv, RequestOK, Ok
<1>2. IsPage(r) => /\ GoodManifest(task[r], began[r], result[r].man)
                   /\ result[r].shown \in Nat
                   /\ result[r].config # None =>
                         GoodConfig(task[r], result[r].man, result[r].config)
  BY <1>1 DEF IsPage, ResultOK
<1>3. IsListing(r) => Good(task[r], began[r], result[r].tags) /\ result[r].shown \in Nat
  BY <1>1 DEF IsListing, ResultOK
<1> QED BY <1>1, <1>2, <1>3

\* RegistryClient's state has its type (TypeOK): the cache of cache.py stays
\* within its size, a request that is done has answered, and no other has.
THEOREM TypeCorrect == Spec => []TypeOK
<1>1. IInv => TypeOK
  <2> SUFFICES ASSUME IInv  PROVE TypeOK
    OBVIOUS
  <2>1. ASSUME NEW i \in DOMAIN cache  PROVE IsCopy(cache[i].val, cache[i].key = TagsKey)
    <3>1. cache[i] \in Item(now)
      BY ElementOfSeq, LenProperties DEF IInv, CacheOK
    <3> DEFINE v == cache[i].val
    <3>2. /\ v.asked \in Nat /\ v.at \in Nat /\ v.got \in Nat /\ now \in Nat
          /\ v.by \in Users \cup {Shared} /\ Dated(v, now)
      BY <3>1 DEF Item, Copy, IInv
    <3>3. cache[i].key = TagsKey => v.body \subseteq Tags
      BY <3>1 DEF Item
    <3>4. cache[i].key # TagsKey => v.body \in Bodies
      BY <3>1 DEF Item, Key, Bodies
    <3> QED BY <3>2, <3>3, <3>4 DEF IsCopy, Dated
  <2>2. ASSUME NEW r \in Requests
        PROVE  /\ pc[r] \in {"idle", "get", "blob", "list", "head", "delete", "done"}
               /\ pc[r] = "done" <=> result[r] # None
               /\ pc[r] = "idle" <=> task[r] = None
               /\ pc[r] = "blob" => IsCopy(man[r], FALSE)
               /\ r \in Waiting => wire[r].kind = pc[r]
    <3>1. RequestOK(r) /\ now \in Nat
      BY DEF IInv
    <3>2. None \notin Task /\ None \notin Result
      BY NoneAssumption
    <3>3. /\ pc[r] \in {"idle", "get", "blob", "list", "head", "delete", "done"}
          /\ pc[r] = "done" <=> result[r] # None
          /\ pc[r] = "idle" <=> task[r] = None
      BY <3>1, <3>2 DEF RequestOK, ResultOK
    <3>4. pc[r] = "blob" => IsCopy(man[r], FALSE)
      <4> SUFFICES ASSUME pc[r] = "blob"  PROVE IsCopy(man[r], FALSE)
        OBVIOUS
      <4>1. /\ GoodManifest(task[r], began[r], man[r])
            /\ Dated(man[r], now)
        BY Awaiting DEF AwaitsOK
      <4>2. /\ man[r].asked \in Nat /\ man[r].at \in Nat /\ man[r].got \in Nat /\ man[r].body \in Bodies
            /\ man[r].by \in Users \cup {Shared}
        BY <4>1 DEF GoodManifest, Good, Copy, Bodies
      <4> QED BY <3>1, <4>1, <4>2 DEF IsCopy, Dated
    <3>5. r \in Waiting => wire[r].kind = pc[r]
      BY <3>3, Awaiting DEF Waiting
    <3> QED BY <3>3, <3>4, <3>5
  <2>3. pc \in [Requests -> {"idle", "get", "blob", "list", "head", "delete", "done"}]
    <3>1. pc = [r \in Requests |-> pc[r]]
      BY DEF IInv, Tables
    <3> QED BY <2>2, <3>1
  <2> QED BY <2>1, <2>2, <2>3 DEF IInv, RegistryOK, CacheOK, TypeOK
<1> QED BY <1>1, Inductive, PTL

\* What is shown is no older than a lifetime, the exchange that fetched it and
\* the request that shows it (Staleness), whichever way it came out of
\* RegistryClient: the request began before the copy's lifetime was over.
THEOREM Fresh == Spec => []Staleness
<1>1. IInv => Staleness
  <2> SUFFICES ASSUME IInv, NEW r \in Requests
               PROVE  LET bound(v, shown) == CacheTTL + FetchTime(v) + (shown - began[r])
                          x == result[r] IN
                      /\ IsPage(r) => Age(x.man, x.shown) < bound(x.man, x.shown)
                      /\ IsListing(r) => Age(x.tags, x.shown) < bound(x.tags, x.shown)
    BY DEF Staleness
  <2>1. ASSUME NEW v, NEW n \in Nat, Good(task[r], began[r], v)
        PROVE  Age(v, n) < CacheTTL + FetchTime(v) + (n - began[r])
    <3>1. /\ v.asked \in Nat /\ v.at \in Nat /\ v.got \in Nat /\ began[r] \in Nat
          /\ v.asked <= v.at /\ began[r] < v.got + CacheTTL
      BY <2>1 DEF Good, Copy, IInv, Tables
    <3> QED BY <3>1, TimesAssumption DEF Age, FetchTime
  <2> QED BY <2>1, ShownGood DEF GoodManifest
<1> QED BY <1>1, Inductive, PTL

\* What was fetched with one person's credentials is shown to nobody else
\* (Isolation): the cache of the shared client holds what it fetched itself.
THEOREM Isolated == Spec => []Isolation
<1>1. IInv => Isolation
  <2> SUFFICES ASSUME IInv  PROVE Isolation
    OBVIOUS
  <2>1. ASSUME NEW r \in Requests, NEW c \in Shown(r)  PROVE c.by = task[r].who
    BY <2>1, ShownGood DEF Shown, GoodManifest, Good, GoodConfig
  <2>2. ASSUME NEW i \in DOMAIN cache  PROVE cache[i].val.by = Shared
    <3>1. cache[i] \in Item(now)
      BY ElementOfSeq, LenProperties DEF IInv, CacheOK
    <3> QED BY <3>1 DEF Item
  <2> QED BY <2>1, <2>2 DEF Isolation
<1> QED BY <1>1, Inductive, PTL

\* A page's config is that of its manifest (ConfigMatches): get_image_config
\* asks for, and files, the blob that the manifest in hand names.
THEOREM Matching == Spec => []ConfigMatches
<1>1. IInv => ConfigMatches
  BY ShownGood DEF ConfigMatches, GoodConfig
<1> QED BY <1>1, Inductive, PTL

-----------------------------------------------------------------------------
\* Deletions and the audit log.

Event(r) == \E e \in audit : e.req = r

\* What the exchange of request r, abandoned or not, says of its deletion.
WireOK(r) ==
    /\ {"kind", "ref", "ans"} \subseteq DOMAIN wire[r]
    /\ wire[r].kind = "head" =>
          /\ wire[r].ref = task[r].ref /\ task[r].ref \in Tags /\ named[r] # {}
          /\ wire[r].ans # None /\ wire[r].ans.ok /\ wire[r].ans.body # None =>
                wire[r].ans.body \in Digests \cap named[r]
    /\ wire[r].kind = "delete" =>
          /\ wire[r].ref \in Digests
          /\ task[r].ref \in Tags => wire[r].ref \in named[r]
          /\ wire[r].ans # None /\ wire[r].ans.ok => << r, wire[r].ref >> \in removed

AuditRequestOK(r) ==
    /\ pc[r] \in {"idle", "get", "blob", "list", "head", "delete", "done"}
    /\ pc[r] = "idle" => wire[r] = None
    /\ pc[r] # "done" => result[r] = None
    /\ pc[r] \in {"get", "blob", "list"} => task[r].op # "delete"
    /\ pc[r] \in {"head", "delete"} => task[r].op = "delete"
    /\ pc[r] \notin {"idle", "done"} => wire[r].kind = pc[r]
    /\ wire[r] # None \/ pc[r] \notin {"idle", "done"} => WireOK(r)
    /\ Ok(r) /\ task[r].op = "delete" <=> Event(r)

AuditTables == /\ DOMAIN pc = Requests /\ DOMAIN task = Requests /\ DOMAIN wire = Requests
          /\ DOMAIN result = Requests /\ DOMAIN named = Requests

AuditRegistryOK == DOMAIN tag = Tags /\ \A x \in Tags : tag[x] \in Digests \cup {None}

\* What the registry removed, it removed for a request that had begun, and if
\* that named a tag, the tag had named it.
RemovedOK ==
    \A x \in removed :
        /\ x \in Requests \X Digests
        /\ pc[x[1]] # "idle"
        /\ task[x[1]].ref \in Tags => x[2] \in named[x[1]]

AuditOK == \A e \in audit : e.req \in Requests /\ << e.req, e.digest >> \in removed

AuditInv == /\ AuditTables /\ AuditRegistryOK /\ RemovedOK /\ AuditOK
        /\ \A r \in Requests : AuditRequestOK(r)

-----------------------------------------------------------------------------
\* Steps and the requests they leave alone.

\* A step that keeps all of request q, or lets its tag name more manifests.
Spares(q) ==
    /\ pc'[q] = pc[q] /\ task'[q] = task[q] /\ wire'[q] = wire[q]
    /\ result'[q] = result[q] /\ named[q] \subseteq named'[q]

\* Request q is as well off after a step that spares it.
LEMMA AuditSparedOK ==
    ASSUME NEW q, AuditRequestOK(q), Spares(q), removed \subseteq removed', Event(q)' <=> Event(q)
    PROVE  AuditRequestOK(q)'
<1>1. Ok(q)' <=> Ok(q)
  BY DEF Spares, Ok
<1>2. ASSUME WireOK(q)  PROVE WireOK(q)'
  BY <1>2 DEF Spares, WireOK
<1> QED BY <1>1, <1>2 DEF Spares, AuditRequestOK

\* A step of request r that leaves the registry's deletions and the audit alone
\* keeps the invariant if it keeps it for r.
LEMMA AuditOneRequest ==
    ASSUME AuditInv, NEW r \in Requests, AuditTables', UNCHANGED << tag, removed, audit >>,
           \A q \in Requests \ {r} : Spares(q),
           pc'[r] # "idle",
           pc[r] # "idle" => task'[r] = task[r] /\ named[r] \subseteq named'[r],
           AuditRequestOK(r)'
    PROVE  AuditInv'
<1>1. \A q \in Requests : AuditRequestOK(q)'
  <2> SUFFICES ASSUME NEW q \in Requests  PROVE AuditRequestOK(q)'
    OBVIOUS
  <2>1. CASE q = r
    BY <2>1
  <2>2. CASE q # r
    <3>1. AuditRequestOK(q) /\ Spares(q)
      BY <2>2 DEF AuditInv
    <3>2. Event(q)' <=> Event(q)
      BY DEF Event
    <3> QED BY <3>1, <3>2, AuditSparedOK
  <2> QED BY <2>1, <2>2
<1>2. AuditRegistryOK' /\ AuditOK'
  BY DEF AuditInv, AuditRegistryOK, AuditOK
<1>3. RemovedOK'
  <2> SUFFICES ASSUME NEW x \in removed
               PROVE  /\ x \in Requests \X Digests
                      /\ pc'[x[1]] # "idle"
                      /\ task'[x[1]].ref \in Tags => x[2] \in named'[x[1]]
    BY DEF RemovedOK
  <2>1. /\ x \in Requests \X Digests /\ pc[x[1]] # "idle" /\ x[1] \in Requests
        /\ task[x[1]].ref \in Tags => x[2] \in named[x[1]]
    BY DEF AuditInv, RemovedOK
  <2>2. CASE x[1] = r
    BY <2>1, <2>2
  <2>3. CASE x[1] # r
    BY <2>1, <2>3 DEF Spares
  <2> QED BY <2>1, <2>2, <2>3
<1> QED BY <1>1, <1>2, <1>3 DEF AuditInv

-----------------------------------------------------------------------------
\* Exchanges that go out, and answers.

\* A step in which request r alone sends, receives or ends.
AuditMoves(r) ==
    /\ DOMAIN pc' = Requests /\ DOMAIN wire' = Requests /\ DOMAIN result' = Requests
    /\ \A q \in Requests \ {r} :
          pc'[q] = pc[q] /\ wire'[q] = wire[q] /\ result'[q] = result[q]

\* What Send leaves behind.
LEMMA Sends ==
    ASSUME AuditTables, NEW r \in Requests, NEW kind, NEW STATE ref, Send(r, kind, ref)
    PROVE  /\ AuditMoves(r)
           /\ pc'[r] = kind /\ result'[r] = result[r]
           /\ {"kind", "ref", "ans"} \subseteq DOMAIN wire'[r]
           /\ wire'[r].kind = kind /\ wire'[r].ref = ref /\ wire'[r].ans = None
BY DEF AuditTables, Send, AuditMoves

\* What Finish leaves behind.
LEMMA Finishes ==
    ASSUME AuditTables, NEW r \in Requests, NEW STATE outcome, Finish(r, outcome)
    PROVE  /\ AuditMoves(r)
           /\ pc'[r] = "done" /\ result'[r] = outcome
           /\ wire'[r] = Abandon(wire[r])
BY DEF AuditTables, Finish, AuditMoves

\* A request that sends a read is no deletion and has no event.
LEMMA SentRead ==
    ASSUME AuditInv, NEW r \in Requests, NEW kind \in {"get", "blob", "list"}, NEW STATE ref,
           Send(r, kind, ref), pc[r] # "done", task'[r].op # "delete", UNCHANGED audit
    PROVE  AuditMoves(r) /\ pc'[r] # "idle" /\ AuditRequestOK(r)'
<1>1. /\ AuditMoves(r)
      /\ pc'[r] = kind /\ result'[r] = result[r]
      /\ {"kind", "ref", "ans"} \subseteq DOMAIN wire'[r]
      /\ wire'[r].kind = kind
  BY Sends DEF AuditInv
<1>2. AuditRequestOK(r)
  BY DEF AuditInv
<1>3. result[r] = None /\ ~ Event(r)
  BY <1>2 DEF AuditRequestOK, Ok
<1>4. ~ Ok(r)' /\ ~ Event(r)'
  BY <1>1, <1>3 DEF Ok, Event
<1>5. WireOK(r)'
  BY <1>1 DEF WireOK
<1> QED BY <1>1, <1>3, <1>4, <1>5 DEF AuditRequestOK

\* A request that ends without a deletion to report.
LEMMA AuditEnded ==
    ASSUME AuditInv, NEW r \in Requests, NEW STATE outcome, Finish(r, outcome), pc[r] # "done",
           pc[r] # "idle" => task'[r] = task[r] /\ named'[r] = named[r],
           task'[r].op # "delete" \/ ~ outcome.ok,
           UNCHANGED << removed, audit >>
    PROVE  AuditMoves(r) /\ pc'[r] # "idle" /\ AuditRequestOK(r)'
<1>1. /\ AuditMoves(r)
      /\ pc'[r] = "done" /\ result'[r] = outcome
      /\ wire'[r] = Abandon(wire[r])
  BY Finishes DEF AuditInv
<1>2. AuditRequestOK(r)
  BY DEF AuditInv
<1>3. ~ Event(r)
  BY <1>2 DEF AuditRequestOK, Ok
<1>4. ~ (Ok(r)' /\ task'[r].op = "delete") /\ ~ Event(r)'
  BY <1>1, <1>3 DEF Ok, Event
<1>5. ASSUME wire'[r] # None  PROVE WireOK(r)'
  <2>1. wire'[r] = wire[r] /\ wire[r] # None
    BY <1>1, <1>5 DEF Abandon
  <2>2. WireOK(r) /\ pc[r] # "idle"
    BY <2>1, <1>2 DEF AuditRequestOK
  <2> QED BY <2>1, <2>2 DEF WireOK
<1> QED BY <1>1, <1>4, <1>5 DEF AuditRequestOK

\* A reader that has a manifest ends or asks for its config.
LEMMA AuditHaveManifestOK ==
    ASSUME AuditInv, NEW r \in Requests, NEW STATE t, NEW STATE m, NEW STATE c,
           HaveManifest(r, t, m, c), pc[r] # "done",
           pc[r] # "idle" => task'[r] = task[r] /\ named'[r] = named[r],
           task'[r].op # "delete", UNCHANGED << removed, audit >>
    PROVE  AuditMoves(r) /\ pc'[r] # "idle" /\ AuditRequestOK(r)'
<1>1. CASE Finish(r, IF t.op = "page" THEN Page(m, None) ELSE Failed("400"))
  BY <1>1, AuditEnded
<1>2. CASE Finish(r, Page(m, ValueAt(c, ConfigKey(m.body))))
  BY <1>2, AuditEnded
<1>3. CASE Send(r, "blob", ConfigOf[m.body])
  BY <1>3, SentRead
<1> QED BY <1>1, <1>2, <1>3 DEF HaveManifest

-----------------------------------------------------------------------------
\* The steps of handlers.

\* The first step of a handler changes nothing of other requests but theirs.
LEMMA Begins ==
    ASSUME AuditInv, NEW r \in Requests, NEW t, Begin(r, t), AuditMoves(r), pc'[r] # "idle",
           AuditRequestOK(r)'
    PROVE  AuditInv'
<1>1. /\ AuditTables' /\ pc[r] = "idle"
      /\ \A q \in Requests \ {r} : Spares(q)
      /\ UNCHANGED << tag, removed, audit >>
  BY DEF AuditInv, AuditTables, Begin, AuditMoves, Spares, registry
<1> QED BY <1>1, AuditOneRequest

\* A later step of a handler that reports no deletion.
LEMMA AuditContinues ==
    ASSUME AuditInv, NEW r \in Requests, UNCHANGED << tag, removed, audit, task, named >>,
           AuditMoves(r), pc'[r] # "idle", AuditRequestOK(r)'
    PROVE  AuditInv'
<1>1. /\ AuditTables'
      /\ \A q \in Requests \ {r} : Spares(q)
  BY DEF AuditInv, AuditTables, AuditMoves, Spares
<1> QED BY <1>1, AuditOneRequest

LEMMA AuditReadManifestStep ==
    ASSUME AuditInv, NEW r \in Requests, NEW op \in {"page", "config"}, NEW ref, NEW who,
           ReadManifest(r, op, ref, who)
    PROVE  AuditInv'
<1> DEFINE t == [op |-> op, ref |-> ref, who |-> who]
<1> DEFINE c == IF Caching(t) THEN AfterGet(cache, ManifestKey(ref), now) ELSE cache
<1> DEFINE m == ValueAt(cache, ManifestKey(ref))
<1>1. Begin(r, t) /\ (HaveManifest(r, t, m, c) \/ Send(r, "get", ref))
  BY DEF ReadManifest
<1>2. t.op # "delete"
  OBVIOUS
<1> HIDE DEF t, c, m
<1>3. pc[r] = "idle" /\ task'[r].op # "delete" /\ UNCHANGED << removed, audit >>
  BY <1>1, <1>2 DEF Begin, AuditInv, AuditTables, registry
<1>4. AuditMoves(r) /\ pc'[r] # "idle" /\ AuditRequestOK(r)'
  BY <1>1, <1>3, AuditHaveManifestOK, SentRead
<1> QED BY <1>1, <1>4, Begins

LEMMA AuditReadTagsStep ==
    ASSUME AuditInv, NEW r \in Requests, NEW who, ReadTags(r, who)
    PROVE  AuditInv'
<1> DEFINE t == [op |-> "tags", ref |-> None, who |-> who]
<1>1. /\ Begin(r, t)
      /\ Finish(r, Listing(ValueAt(cache, TagsKey))) \/ Send(r, "list", None)
  BY DEF ReadTags
<1>2. t.op # "delete"
  OBVIOUS
<1> HIDE DEF t
<1>3. pc[r] = "idle" /\ task'[r].op # "delete" /\ UNCHANGED << removed, audit >>
  BY <1>1, <1>2 DEF Begin, AuditInv, AuditTables, registry
<1>4. AuditMoves(r) /\ pc'[r] # "idle" /\ AuditRequestOK(r)'
  BY <1>1, <1>3, AuditEnded, SentRead
<1> QED BY <1>1, <1>4, Begins

\* The DELETE of a digest goes out at once, a tag is asked for first; by then
\* the tag names what it names.
LEMMA AuditDeleteStep ==
    ASSUME AuditInv, NEW r \in Requests, NEW ref \in Tags \cup Digests, NEW who,
           Delete(r, ref, who)
    PROVE  AuditInv'
<1> DEFINE t == [op |-> "delete", ref |-> ref, who |-> who]
<1> DEFINE kind == IF ref \in Digests THEN "delete" ELSE "head"
<1>1. Begin(r, t) /\ Send(r, kind, ref)
  BY DEF Delete
<1>2. /\ pc[r] = "idle" /\ task'[r] = t /\ UNCHANGED << removed, audit >>
      /\ named'[r] = IF ref \in Tags THEN {tag[ref]} ELSE {}
  BY <1>1 DEF Begin, AuditInv, AuditTables, registry
<1>3. /\ AuditMoves(r)
      /\ pc'[r] = kind /\ result'[r] = result[r]
      /\ {"kind", "ref", "ans"} \subseteq DOMAIN wire'[r]
      /\ wire'[r].kind = kind /\ wire'[r].ref = ref /\ wire'[r].ans = None
  BY <1>1, Sends DEF AuditInv
<1>4. result[r] = None /\ ~ Event(r)
  BY <1>2 DEF AuditInv, AuditRequestOK, Ok
<1>5. ~ Ok(r)' /\ ~ Event(r)'
  BY <1>2, <1>3, <1>4 DEF Ok, Event
<1>6. WireOK(r)'
  BY <1>2, <1>3, NamesAssumption DEF WireOK
<1>7. AuditRequestOK(r)'
  BY <1>2, <1>3, <1>4, <1>5, <1>6 DEF AuditRequestOK
<1>8. pc'[r] # "idle"
  BY <1>3
<1> QED BY <1>1, <1>3, <1>7, <1>8, Begins

LEMMA AuditReceiveManifestStep ==
    ASSUME AuditInv, NEW r \in Requests, ReceiveManifest(r)
    PROVE  AuditInv'
<1> DEFINE a == wire[r].ans
<1> DEFINE m == Fetched(r)
<1> DEFINE c == IF Caching(task[r])
                THEN AfterSet(cache, ManifestKey(task[r].ref), m, CacheTTL, now) ELSE cache
<1>1. /\ pc[r] = "get" /\ Quiet
      /\ HaveManifest(r, task[r], m, c) \/ Finish(r, Failed("registry"))
  BY DEF ReceiveManifest, Answered
<1> HIDE DEF m, c
<1>2. task'[r].op # "delete" /\ UNCHANGED << tag, removed, audit, task, named >>
  BY <1>1 DEF AuditInv, AuditRequestOK, Quiet, registry
<1>3. AuditMoves(r) /\ pc'[r] # "idle" /\ AuditRequestOK(r)'
  BY <1>1, <1>2, AuditHaveManifestOK, AuditEnded
<1> QED BY <1>2, <1>3, AuditContinues

LEMMA ReceiveReadStep ==
    ASSUME AuditInv, NEW r \in Requests, ReceiveBlob(r) \/ ReceiveTags(r)
    PROVE  AuditInv'
<1>1. PICK outcome : Finish(r, outcome)
  BY DEF ReceiveBlob, ReceiveTags
<1>2. pc[r] \in {"blob", "list"} /\ Quiet
  BY DEF ReceiveBlob, ReceiveTags, Answered
<1>3. task'[r].op # "delete" /\ UNCHANGED << tag, removed, audit, task, named >>
  BY <1>2 DEF AuditInv, AuditRequestOK, Quiet, registry
<1>4. AuditMoves(r) /\ pc'[r] # "idle" /\ AuditRequestOK(r)'
  BY <1>1, <1>2, <1>3, AuditEnded
<1> QED BY <1>3, <1>4, AuditContinues

\* The DELETE carries what the answer to the HEAD named.
LEMMA AuditReceiveHeadStep ==
    ASSUME AuditInv, NEW r \in Requests, ReceiveHead(r)
    PROVE  AuditInv'
<1> DEFINE a == wire[r].ans
<1>1. /\ pc[r] = "head" /\ a # None
      /\ UNCHANGED << tag, removed, audit, task, named >>
  BY DEF ReceiveHead, Answered, Quiet, registry
<1>2. AuditRequestOK(r)
  BY DEF AuditInv
<1>3. CASE a.ok /\ a.body # None /\ Send(r, "delete", a.body)
  <2>1. a.body \in Digests /\ a.body \in named[r]
    BY <1>1, <1>2, <1>3 DEF AuditRequestOK, WireOK
  <2>2. /\ AuditMoves(r)
        /\ pc'[r] = "delete" /\ result'[r] = result[r]
        /\ {"kind", "ref", "ans"} \subseteq DOMAIN wire'[r]
        /\ wire'[r].kind = "delete" /\ wire'[r].ref = a.body /\ wire'[r].ans = None
    BY <1>3, Sends DEF AuditInv
  <2>3. result[r] = None /\ ~ Event(r) /\ task[r].op = "delete"
    BY <1>1, <1>2 DEF AuditRequestOK, Ok
  <2>4. ~ Ok(r)' /\ ~ Event(r)'
    BY <1>1, <2>2, <2>3 DEF Ok, Event
  <2>5. WireOK(r)'
    BY <1>1, <2>1, <2>2 DEF WireOK
  <2>6. AuditRequestOK(r)'
    BY <1>1, <2>2, <2>3, <2>4, <2>5 DEF AuditRequestOK
  <2> QED BY <1>1, <2>2, <2>6, AuditContinues
<1>4. CASE Finish(r, Failed("registry"))
  <2>1. AuditMoves(r) /\ pc'[r] # "idle" /\ AuditRequestOK(r)'
    BY <1>1, <1>4, AuditEnded DEF Failed
  <2> QED BY <1>1, <2>1, AuditContinues
<1> QED BY <1>3, <1>4 DEF ReceiveHead

\* A reported deletion is an answer.
LEMMA Reported ==
    ASSUME NEW d \in Digests
    PROVE  [ok |-> TRUE, digest |-> d] # None /\ [ok |-> TRUE, digest |-> d].ok
<1>1. [ok |-> TRUE, digest |-> d] \in [ok : {TRUE}, digest : Digests]
  BY Zenon
<1> QED BY <1>1, NoneAssumption, Zenon DEF Result

\* The answer and the event are one step, and the registry removed before.
LEMMA AuditReceiveDeleteStep ==
    ASSUME AuditInv, NEW r \in Requests, ReceiveDelete(r)
    PROVE  AuditInv'
<1> DEFINE a == wire[r].ans
<1> DEFINE event == [req |-> r, ref |-> task[r].ref, digest |-> wire[r].ref]
<1> DEFINE done == [ok |-> TRUE, digest |-> wire[r].ref]
<1>1. /\ pc[r] = "delete" /\ a # None
      /\ UNCHANGED << tag, removed, task, named >>
  BY DEF ReceiveDelete, Answered, registry
<1>2. AuditRequestOK(r)
  BY DEF AuditInv
<1>3. CASE a.ok /\ Finish(r, done) /\ audit' = audit \cup {event}
  <2>1. wire[r].ref \in Digests /\ << r, wire[r].ref >> \in removed /\ task[r].op = "delete"
    BY <1>1, <1>2, <1>3 DEF AuditRequestOK, WireOK
  <2>2. AuditMoves(r) /\ pc'[r] = "done" /\ result'[r] = done /\ wire'[r] = Abandon(wire[r])
    BY <1>3, Finishes DEF AuditInv
  <2>3. wire'[r] = None
    BY <1>1, <2>2 DEF Abandon
  <2>4. done # None /\ done.ok
    BY <2>1, Reported
  <2>5. event.req = r /\ event.digest = wire[r].ref
    OBVIOUS
  <2>6. Ok(r)' /\ Event(r)'
    <3> HIDE DEF done, event
    <3> QED BY <1>3, <2>2, <2>4, <2>5 DEF Ok, Event
  <2>7. AuditRequestOK(r)'
    BY <1>1, <2>1, <2>2, <2>3, <2>6 DEF AuditRequestOK
  <2>8. \A q \in Requests : AuditRequestOK(q)'
    <3> SUFFICES ASSUME NEW q \in Requests, q # r  PROVE AuditRequestOK(q)'
      BY <2>7
    <3>1. AuditRequestOK(q) /\ Spares(q)
      BY <1>1, <2>2 DEF AuditInv, AuditMoves, Spares
    <3>2. Event(q)' <=> Event(q)
      BY <1>3, <2>5 DEF Event
    <3> QED BY <1>1, <3>1, <3>2, AuditSparedOK
  <2>9. AuditOK'
    BY <1>1, <1>3, <2>1, <2>5 DEF AuditInv, AuditOK
  <2>10. AuditTables' /\ AuditRegistryOK'
    BY <1>1, <2>2 DEF AuditInv, AuditTables, AuditRegistryOK, AuditMoves
  <2>11. RemovedOK'
    <3> SUFFICES ASSUME NEW x \in removed
                 PROVE  /\ x \in Requests \X Digests
                        /\ pc'[x[1]] # "idle"
                        /\ task[x[1]].ref \in Tags => x[2] \in named[x[1]]
      BY <1>1 DEF RemovedOK
    <3>1. /\ x \in Requests \X Digests /\ pc[x[1]] # "idle" /\ x[1] \in Requests
          /\ task[x[1]].ref \in Tags => x[2] \in named[x[1]]
      BY DEF AuditInv, RemovedOK
    <3> QED BY <2>2, <3>1 DEF AuditMoves
  <2> QED BY <2>8, <2>9, <2>10, <2>11 DEF AuditInv
<1>4. CASE Finish(r, Failed("registry")) /\ UNCHANGED audit
  <2>1. AuditMoves(r) /\ pc'[r] # "idle" /\ AuditRequestOK(r)'
    BY <1>1, <1>4, AuditEnded DEF Failed
  <2> QED BY <1>1, <1>4, <2>1, AuditContinues
<1> QED BY <1>3, <1>4 DEF ReceiveDelete

LEMMA AuditGiveUpStep ==
    ASSUME AuditInv, NEW r \in Requests, GiveUp(r)
    PROVE  AuditInv'
<1> DEFINE outcome == IF pc[r] # "blob" THEN Failed("connection")
                      ELSE IF task[r].op = "page" THEN Page(man[r], None) ELSE Failed("400")
<1>1. /\ pc[r] \notin {"idle", "done"} /\ Finish(r, outcome)
      /\ UNCHANGED << tag, removed, audit, task, named >>
  BY DEF GiveUp, Waiting, Quiet, registry
<1>2. task'[r].op # "delete" \/ ~ outcome.ok
  BY <1>1 DEF AuditInv, AuditRequestOK, Failed
<1> HIDE DEF outcome
<1>3. AuditMoves(r) /\ pc'[r] # "idle" /\ AuditRequestOK(r)'
  BY <1>1, <1>2, AuditEnded
<1> QED BY <1>1, <1>3, AuditContinues

-----------------------------------------------------------------------------
\* The steps of the registry, of other people and of the process.

AuditReplied(w, a) == [w EXCEPT !.ans = a]

\* An answer leaves the rest of its exchange as it was.
LEMMA AuditRepliedFields ==
    ASSUME NEW w, NEW a, {"kind", "ref", "ans"} \subseteq DOMAIN w
    PROVE  /\ {"kind", "ref", "ans"} \subseteq DOMAIN AuditReplied(w, a)
           /\ AuditReplied(w, a).kind = w.kind /\ AuditReplied(w, a).ref = w.ref
           /\ AuditReplied(w, a).ans = a
<1>1. "kind" \in DOMAIN w /\ "ref" \in DOMAIN w /\ "ans" \in DOMAIN w
  BY Zenon
<1>2. "kind" # "ans" /\ "ref" # "ans"
  OBVIOUS
<1>3. DOMAIN AuditReplied(w, a) = DOMAIN w
  BY Zenon DEF AuditReplied
<1> QED BY <1>1, <1>2, <1>3, Zenon DEF AuditReplied

\* What Answer leaves behind.
LEMMA AnswerGiven ==
    ASSUME AuditTables, NEW r \in Requests, {"kind", "ref", "ans"} \subseteq DOMAIN wire[r],
           NEW STATE ok, NEW STATE body, Answer(r, ok, body)
    PROVE  /\ DOMAIN wire' = Requests
           /\ \A q \in Requests \ {r} : wire'[q] = wire[q]
           /\ {"kind", "ref", "ans"} \subseteq DOMAIN wire'[r]
           /\ wire'[r].kind = wire[r].kind /\ wire'[r].ref = wire[r].ref
           /\ wire'[r].ans.ok = ok /\ wire'[r].ans.body = body
<1> DEFINE a == [ok |-> ok, body |-> body, at |-> now, by |-> task[r].who]
<1>1. wire' = [wire EXCEPT ![r] = AuditReplied(wire[r], a)]
  BY Zenon DEF Answer, AuditReplied
<1>2. a.ok = ok /\ a.body = body
  BY Zenon
<1> HIDE DEF a
<1>3. /\ {"kind", "ref", "ans"} \subseteq DOMAIN AuditReplied(wire[r], a)
      /\ AuditReplied(wire[r], a).kind = wire[r].kind /\ AuditReplied(wire[r], a).ref = wire[r].ref
      /\ AuditReplied(wire[r], a).ans = a
  BY AuditRepliedFields
<1>4. /\ DOMAIN wire' = Requests
      /\ \A q \in Requests \ {r} : wire'[q] = wire[q]
      /\ wire'[r] = AuditReplied(wire[r], a)
  BY <1>1 DEF AuditTables
<1> QED BY <1>2, <1>3, <1>4

\* While the registry answers, what it says of a deletion is true.
LEMMA ServedOK ==
    ASSUME AuditInv, NEW r \in Requests, wire[r] # None,
           NEW STATE ok, NEW STATE body, Answer(r, ok, body),
           UNCHANGED << pc, task, result, audit >>,
           DOMAIN named' = Requests, \A q \in Requests : named[q] \subseteq named'[q],
           removed \subseteq removed',
           wire[r].kind = "head" /\ ok /\ body # None => body \in Digests \cap named'[r],
           wire[r].kind = "delete" /\ ok => << r, wire[r].ref >> \in removed'
    PROVE  AuditTables' /\ \A q \in Requests : AuditRequestOK(q)'
<1>1. AuditRequestOK(r) /\ WireOK(r) /\ pc[r] # "idle"
  BY DEF AuditInv, AuditRequestOK
<1>2. /\ DOMAIN wire' = Requests
      /\ \A q \in Requests \ {r} : wire'[q] = wire[q]
      /\ {"kind", "ref", "ans"} \subseteq DOMAIN wire'[r]
      /\ wire'[r].kind = wire[r].kind /\ wire'[r].ref = wire[r].ref
      /\ wire'[r].ans.ok = ok /\ wire'[r].ans.body = body
  BY <1>1, AnswerGiven DEF AuditInv, WireOK
<1>3. WireOK(r)'
  <2>1. ASSUME wire[r].kind = "head"
        PROVE  /\ wire'[r].ref = task'[r].ref /\ task'[r].ref \in Tags /\ named'[r] # {}
               /\ ok /\ body # None => body \in Digests \cap named'[r]
    BY <1>1, <1>2, <2>1 DEF WireOK
  <2>2. ASSUME wire[r].kind = "delete"
        PROVE  /\ wire'[r].ref \in Digests
               /\ task'[r].ref \in Tags => wire'[r].ref \in named'[r]
               /\ ok => << r, wire'[r].ref >> \in removed'
    BY <1>1, <1>2, <2>2 DEF WireOK
  <2> QED BY <1>2, <2>1, <2>2 DEF WireOK
<1>4. (Ok(r)' <=> Ok(r)) /\ (Event(r)' <=> Event(r))
  BY DEF Ok, Event
<1>5. AuditRequestOK(r)'
  BY <1>1, <1>2, <1>3, <1>4 DEF AuditRequestOK
<1>6. ASSUME NEW q \in Requests, q # r  PROVE AuditRequestOK(q)'
  <2>1. AuditRequestOK(q) /\ Spares(q)
    BY <1>2, <1>6 DEF AuditInv, Spares
  <2>2. Event(q)' <=> Event(q)
    BY DEF Event
  <2> QED BY <2>1, <2>2, AuditSparedOK
<1>7. AuditTables'
  BY <1>2 DEF AuditInv, AuditTables
<1> QED BY <1>5, <1>6, <1>7

\* Older deletions stay explained when tags come to name more.
LEMMA StillRemoved ==
    ASSUME AuditInv, UNCHANGED << pc, task >>, \A q \in Requests : named[q] \subseteq named'[q],
           NEW x \in removed
    PROVE  /\ x \in Requests \X Digests
           /\ pc'[x[1]] # "idle"
           /\ task'[x[1]].ref \in Tags => x[2] \in named'[x[1]]
<1>1. /\ x \in Requests \X Digests /\ pc[x[1]] # "idle" /\ x[1] \in Requests
      /\ task[x[1]].ref \in Tags => x[2] \in named[x[1]]
  BY DEF AuditInv, RemovedOK
<1> QED BY <1>1

LEMMA AuditServeStep ==
    ASSUME AuditInv, NEW r \in Requests, Serve(r)
    PROVE  AuditInv'
<1>1. /\ UNCHANGED << pc, task, result, audit >>
      /\ named' = [q \in Requests |-> IF named[q] = {} THEN {}
                                      ELSE named[q] \cup {tag'[task[q].ref]}]
  BY DEF Serve
<1>2. DOMAIN named' = Requests /\ \A q \in Requests : named[q] \subseteq named'[q]
  BY <1>1
<1>3. ASSUME wire[r] # None
      PROVE  /\ WireOK(r)
             /\ wire[r].kind = "head" =>
                   /\ Resolve(wire[r].ref) = tag[task[r].ref]
                   /\ tag[task[r].ref] \in Digests \cup {None}
                   /\ named'[r] = named[r] \cup {tag'[task[r].ref]}
  <2>1. WireOK(r)
    BY <1>3 DEF AuditInv, AuditRequestOK
  <2> QED BY <1>1, <2>1 DEF WireOK, Resolve, AuditInv, AuditRegistryOK
<1>4. ASSUME UNCHANGED registry, wire[r] # None, wire[r].kind # "delete",
             NEW STATE ok, NEW STATE body, Answer(r, ok, body),
             wire[r].kind = "head" /\ ok /\ body # None => body = Resolve(wire[r].ref)
      PROVE  AuditInv'
  <2>1. UNCHANGED << tag, removed >>
    BY <1>4 DEF registry
  <2>2. wire[r].kind = "head" /\ ok /\ body # None => body \in Digests \cap named'[r]
    BY <1>3, <1>4, <2>1
  <2>3. AuditTables' /\ \A q \in Requests : AuditRequestOK(q)'
    BY <1>1, <1>2, <1>4, <2>1, <2>2, ServedOK
  <2>4. RemovedOK'
    BY <1>1, <1>2, <2>1, StillRemoved DEF RemovedOK
  <2>5. AuditRegistryOK' /\ AuditOK'
    BY <1>1, <2>1 DEF AuditInv, AuditRegistryOK, AuditOK
  <2> QED BY <2>3, <2>4, <2>5 DEF AuditInv
<1>5. CASE ServeManifest(r)
  BY <1>4, <1>5 DEF ServeManifest, Unserved
<1>6. CASE ServeHeadWithoutDigest(r)
  BY <1>4, <1>6 DEF ServeHeadWithoutDigest, Unserved
<1>7. CASE ServeTags(r)
  BY <1>4, <1>7 DEF ServeTags, Unserved
<1>8. CASE ServeBlob(r)
  BY <1>4, <1>8 DEF ServeBlob, Unserved
<1>9. CASE ServeError(r)
  <2>1. /\ UNCHANGED << tag, removed >> /\ wire[r] # None /\ Answer(r, FALSE, None)
    BY <1>9 DEF ServeError, Unserved, registry
  <2>2. AuditTables' /\ \A q \in Requests : AuditRequestOK(q)'
    BY <1>1, <1>2, <2>1, ServedOK
  <2>3. RemovedOK'
    BY <1>1, <1>2, <2>1, StillRemoved DEF RemovedOK
  <2>4. AuditRegistryOK' /\ AuditOK'
    BY <1>1, <2>1 DEF AuditInv, AuditRegistryOK, AuditOK
  <2> QED BY <2>2, <2>3, <2>4 DEF AuditInv
<1>10. CASE ServeDelete(r)
  <2> DEFINE d == wire[r].ref
  <2>1. /\ wire[r] # None /\ wire[r].kind = "delete" /\ Answer(r, d \in stored, d)
        /\ tag' = [x \in Tags |-> IF tag[x] = d THEN None ELSE tag[x]]
        /\ removed' = IF d \in stored THEN removed \cup {<< r, d >>} ELSE removed
    BY <1>10 DEF ServeDelete, Unserved
  <2>2. /\ d \in Digests /\ pc[r] # "idle"
        /\ task[r].ref \in Tags => d \in named[r]
    BY <1>3, <2>1 DEF AuditInv, AuditRequestOK, WireOK
  <2>3. AuditTables' /\ \A q \in Requests : AuditRequestOK(q)'
    BY <1>1, <1>2, <2>1, ServedOK
  <2>4. RemovedOK'
    <3>1. \A x \in removed : /\ x \in Requests \X Digests
                             /\ pc'[x[1]] # "idle"
                             /\ task'[x[1]].ref \in Tags => x[2] \in named'[x[1]]
      BY <1>1, <1>2, StillRemoved
    <3>2. pc'[r] # "idle" /\ (task'[r].ref \in Tags => d \in named'[r])
      BY <1>1, <1>2, <2>2
    <3>3. removed' \subseteq removed \cup {<< r, d >>}
      BY <2>1
    <3>4. << r, d >> \in Requests \X Digests /\ << r, d >>[1] = r /\ << r, d >>[2] = d
      BY <2>2
    <3> HIDE DEF d
    <3> QED BY <3>1, <3>2, <3>3, <3>4 DEF RemovedOK
  <2>5. AuditRegistryOK' /\ AuditOK'
    BY <1>1, <2>1 DEF AuditInv, AuditRegistryOK, AuditOK
  <2> QED BY <2>3, <2>4, <2>5 DEF AuditInv
<1> QED BY <1>5, <1>6, <1>7, <1>8, <1>9, <1>10 DEF Serve

\* A step that leaves the requests alone, and tags at most name more.
LEMMA AuditOtherStep ==
    ASSUME AuditInv, UNCHANGED << pc, task, wire, result, audit, removed >>, AuditRegistryOK',
           DOMAIN named' = Requests, \A q \in Requests : named[q] \subseteq named'[q]
    PROVE  AuditInv'
<1>1. ASSUME NEW q \in Requests  PROVE AuditRequestOK(q)'
  <2>1. AuditRequestOK(q) /\ Spares(q)
    BY DEF AuditInv, Spares
  <2>2. Event(q)' <=> Event(q)
    BY DEF Event
  <2> QED BY <2>1, <2>2, AuditSparedOK
<1>2. AuditTables' /\ AuditOK'
  BY DEF AuditInv, AuditTables, AuditOK
<1>3. RemovedOK'
  BY StillRemoved DEF RemovedOK
<1> QED BY <1>1, <1>2, <1>3 DEF AuditInv

LEMMA AuditPushStep ==
    ASSUME AuditInv, NEW x \in Tags, NEW d \in Digests, Push(x, d)
    PROVE  AuditInv'
<1>1. AuditRegistryOK'
  BY DEF Push, AuditInv, AuditRegistryOK
<1>2. DOMAIN named' = Requests /\ \A q \in Requests : named[q] \subseteq named'[q]
  BY DEF Push
<1> QED BY <1>1, <1>2, AuditOtherStep DEF Push

LEMMA AuditTickStep ==
    ASSUME AuditInv, Tick \/ UNCHANGED vars
    PROVE  AuditInv'
<1>1. UNCHANGED << tag, removed, pc, task, wire, result, audit, named >>
  BY DEF Tick, vars, registry
<1>2. AuditRegistryOK' /\ DOMAIN named' = Requests
  BY <1>1 DEF AuditInv, AuditRegistryOK, AuditTables
<1> QED BY <1>1, <1>2, AuditOtherStep

\* A crash ends the handlers that run without an event; a DELETE on its way
\* still carries what the tag named.
LEMMA AuditCrashStep == ASSUME AuditInv, Crash PROVE AuditInv'
<1>1. /\ pc' = [r \in Requests |-> IF r \in Waiting THEN "done" ELSE pc[r]]
      /\ result' = [r \in Requests |-> IF r \in Waiting THEN Failed("dropped") ELSE result[r]]
      /\ wire' = [r \in Requests |-> Abandon(wire[r])]
      /\ UNCHANGED << tag, removed, task, audit, named >>
  BY DEF Crash, registry
<1>2. ASSUME NEW r \in Requests  PROVE AuditRequestOK(r)'
  <2>1. AuditRequestOK(r)
    BY DEF AuditInv
  <2>2. Event(r)' <=> Event(r)
    BY <1>1 DEF Event
  <2>3. wire'[r] \in {None, wire[r]}
    BY <1>1 DEF Abandon
  <2>4. ASSUME wire'[r] # None  PROVE WireOK(r)'
    BY <1>1, <2>1, <2>3, <2>4 DEF AuditRequestOK, WireOK
  <2>5. CASE r \in Waiting
    <3>1. pc'[r] = "done" /\ ~ Ok(r)' /\ ~ Ok(r)
      BY <1>1, <2>1, <2>5 DEF Failed, Ok, Waiting, AuditRequestOK
    <3> QED BY <1>1, <2>1, <2>2, <2>4, <3>1 DEF AuditRequestOK
  <2>6. CASE r \notin Waiting
    <3>1. pc'[r] = pc[r] /\ result'[r] = result[r] /\ pc[r] \in {"idle", "done"}
      BY <1>1, <2>6 DEF Waiting
    <3>2. Ok(r)' <=> Ok(r)
      BY <3>1 DEF Ok
    <3> QED BY <1>1, <2>1, <2>2, <2>3, <2>4, <3>1, <3>2 DEF AuditRequestOK
  <2> QED BY <2>5, <2>6
<1>3. AuditTables' /\ AuditRegistryOK' /\ AuditOK'
  BY <1>1 DEF AuditInv, AuditTables, AuditRegistryOK, AuditOK
<1>4. RemovedOK'
  BY <1>1 DEF AuditInv, RemovedOK
<1> QED BY <1>2, <1>3, <1>4 DEF AuditInv

-----------------------------------------------------------------------------
LEMMA AuditInitInductive == Init => AuditInv
<1> SUFFICES ASSUME Init  PROVE AuditInv
  OBVIOUS
<1>1. ASSUME NEW r \in Requests  PROVE AuditRequestOK(r)
  BY DEF Init, AuditRequestOK, Ok, Event
<1>2. AuditTables /\ AuditRegistryOK /\ RemovedOK /\ AuditOK
  BY DEF Init, AuditTables, AuditRegistryOK, RemovedOK, AuditOK
<1> QED BY <1>1, <1>2 DEF AuditInv

LEMMA AuditNextInductive == AuditInv /\ [Next]_vars => AuditInv'
<1> SUFFICES ASSUME AuditInv, [Next]_vars  PROVE AuditInv'
  OBVIOUS
<1>1. ASSUME NEW r \in Requests, Start(r)  PROVE AuditInv'
  <2>1. PICK who \in Users \cup {Shared} :
           \/ ReadTags(r, who)
           \/ \E ref \in Tags \cup Digests :
                 \/ \E op \in {"page", "config"} : ReadManifest(r, op, ref, who)
                 \/ Delete(r, ref, who)
    BY <1>1 DEF Start
  <2> QED BY <2>1, AuditReadTagsStep, AuditReadManifestStep, AuditDeleteStep
<1>2. ASSUME NEW r \in Requests, Receive(r)  PROVE AuditInv'
  BY <1>2, AuditReceiveManifestStep, ReceiveReadStep, AuditReceiveHeadStep, AuditReceiveDeleteStep DEF Receive
<1> QED BY <1>1, <1>2, AuditServeStep, AuditGiveUpStep, AuditPushStep, AuditCrashStep, AuditTickStep DEF Next

LEMMA AuditInductive == Spec => []AuditInv
BY AuditInitInductive, AuditNextInductive, PTL DEF Spec

\* The audit trail is exact (AuditExact): audit.py and the handlers that call it
\* write an event for each deletion they report, and for no other.
THEOREM AuditIsExact == Spec => []AuditExact
<1>1. AuditInv => AuditExact
  BY DEF AuditInv, AuditOK, AuditRequestOK, Event, AuditExact
<1> QED BY <1>1, AuditInductive, PTL

\* A delete by tag removes nothing the tag did not name meanwhile
\* (DeletesWhatTagNamed): _resolve_digest asks the registry, never the cache.
THEOREM DeletesAreNamed == Spec => []DeletesWhatTagNamed
<1>1. AuditInv => DeletesWhatTagNamed
  BY DEF AuditInv, RemovedOK, DeletesWhatTagNamed
<1> QED BY <1>1, AuditInductive, PTL

=============================================================================
