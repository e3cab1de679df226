--------------------------- MODULE RegistryClient ---------------------------
(***************************************************************************)
(* registry/client.py (class RegistryClient) serving the web handlers: the *)
(* manifest, image-config and tag-list reads with their cache, the delete  *)
(* of api/manifests.py and web/routes.py with its audit event, on one      *)
(* repository, against a registry that other people push to.               *)
(*                                                                         *)
(* Handlers are coroutines of one event loop: they interleave only where   *)
(* they await an HTTP exchange.  An exchange is three steps: the request   *)
(* goes out, the registry serves it (or never does), the answer comes back *)
(* (or the client gives up first, or the process dies).                    *)
(***************************************************************************)
EXTENDS CacheDict, FiniteSets

CONSTANTS
    Tags, Digests,   \* the names and the content-addressed manifests
    Indexes,         \* the manifests that are an index: they have no config
    ConfigOf,        \* ConfigOf[d]: the config blob that image d names
    Requests,        \* handler calls, each made once
    Ops,             \* the handlers called: page, config, tags, delete
    Users,           \* people logged in with registry credentials of their own
    Shared,          \* everybody else: the application's own credentials
    CacheTTL,        \* settings.cache_ttl, lifetime of manifests and tag lists
    BlobTTL,         \* blob_cache_ttl
    MaxTime,         \* bound on the clock
    MaxPushes,       \* bound on the pushes by other people
    MaxCrashes,      \* bound on the restarts of the application
    None

ASSUME OpsAssumption == Ops \subseteq {"page", "config", "tags", "delete"}
ASSUME TimesAssumption ==
    CacheTTL \in Nat \ {0} /\ BlobTTL \in Nat \ {0}
\* A digest has a colon, a tag has none.
ASSUME NamesAssumption == Tags \cap Digests = {}

Task == [op : Ops, ref : Tags \cup Digests \cup {None}, who : Users \cup {Shared}]

\* What the registry answered at some time and for whom, a manifest, an image
\* config or a list of tags, and when the client asked for it and got it.
Copy == [body : Digests \cup {ConfigOf[d] : d \in Digests \ Indexes} \cup SUBSET Tags,
         at : Nat, by : Users \cup {Shared}, asked : Nat, got : Nat]

Result == [ok : {FALSE}, why : {"registry", "connection", "400", "500", "dropped"}]
          \cup [ok : {TRUE}, man : Copy, config : Copy \cup {None}, shown : Nat]
          \cup [ok : {TRUE}, tags : Copy, shown : Nat]
          \cup [ok : {TRUE}, digest : Digests]

ASSUME NoneAssumption == None \notin Digests \cup Task \cup Copy \cup Result

VARIABLES
    tag, stored,     \* the registry: what a tag names, the manifests it has
    cache,           \* RegistryClient._cache of the shared client
    now,
    task,            \* task[r]: what request r asks for, and on whose behalf
    pc,              \* pc[r]: idle, the exchange r awaits, or done
    man,             \* man[r]: the manifest r has got
    wire,            \* wire[r]: the exchange of r, which may outlive r's wait
    result,          \* result[r]: what r answered
    audit,           \* the audit events on stdout
    auditFile,       \* the lines of AUDIT_LOG_PATH
    pushes, crashes, \* counters of the bounded events
    removed,         \* history: the deletions the registry made, by request
    began,           \* history: when r began
    before,          \* history: the audit events there were when r asked for the tags
    named            \* history: the manifests named by the tag r deletes, since r began

registry == << tag, stored, removed >>
vars == << tag, stored, cache, now, task, pc, man, wire, result, audit, auditFile,
           pushes, crashes, removed, named, began, before >>

Waiting == {r \in Requests : pc[r] \notin {"idle", "done"}}

\* The cache keys; the repository is one, so it is left out.
ManifestKey(ref) == << "manifest", ref >>
\* Mutant of ConfigKey: the blob's digest is left out.
ConfigKey_Repository(d) == << "image_config" >>
ConfigKey(d) == << "image_config", ConfigOf[d] >>
TagsKey == << "paginated" >>

\* Mutant of Caching: sessions' clients share the long-lived client's cache.
Caching_Everybody(t) == TRUE

\* Only the long-lived client has a cache; a session's client has none.
Caching(t) == t.who = Shared

\* What the registry says of a reference.
Resolve(ref) == IF ref \in Tags THEN tag[ref] ELSE IF ref \in stored THEN ref ELSE None

-----------------------------------------------------------------------------
\* Parts of handler steps.

Send(r, kind, ref) ==
    /\ pc' = [pc EXCEPT ![r] = kind]
    /\ wire' = [wire EXCEPT ![r] = [kind |-> kind, ref |-> ref, sent |-> now, ans |-> None]]
    /\ UNCHANGED result

\* An exchange nobody awaits any more matters only if it is a DELETE that the
\* registry has still to serve.
Abandon(w) == IF w # None /\ w.kind = "delete" /\ w.ans = None THEN w ELSE None

Finish(r, outcome) ==
    /\ pc' = [pc EXCEPT ![r] = "done"]
    /\ result' = [result EXCEPT ![r] = outcome]
    /\ wire' = [wire EXCEPT ![r] = Abandon(@)]

Failed(why) == [ok |-> FALSE, why |-> why]
Page(m, c) == [ok |-> TRUE, man |-> m, config |-> c, shown |-> now]
Listing(v) == [ok |-> TRUE, tags |-> v, shown |-> now]

\* get_image_config after get_manifest gave m, from the cache c left by it: the
\* page shows m without its config when that cannot be had, the config route
\* reports an error.
HaveManifest(r, t, m, c) ==
    /\ IF m.body \in Indexes
       THEN /\ cache' = c
            /\ UNCHANGED man
            /\ Finish(r, IF t.op = "page" THEN Page(m, None) ELSE Failed("400"))
       ELSE LET key == ConfigKey(m.body) IN
            /\ cache' = IF Caching(t) THEN AfterGet(c, key, now) ELSE c
            /\ IF Caching(t) /\ Hit(c, key, now)
               THEN Finish(r, Page(m, ValueAt(c, key))) /\ UNCHANGED man
               ELSE Send(r, "blob", ConfigOf[m.body]) /\ man' = [man EXCEPT ![r] = m]

-----------------------------------------------------------------------------
\* The handlers' first steps.

Begin(r, t) ==
    /\ pc[r] = "idle"
    /\ task' = [task EXCEPT ![r] = t]
    /\ t.op \in Ops
    /\ named' = [named EXCEPT ![r] = IF t.op = "delete" /\ t.ref \in Tags
                                     THEN {tag[t.ref]} ELSE {}]
    /\ began' = [began EXCEPT ![r] = now]
    /\ before' = [before EXCEPT ![r] = IF t.op = "tags" THEN audit ELSE {}]
    /\ UNCHANGED << now, audit, auditFile, pushes, crashes, registry >>

\* get_manifest (and the config of what it gives): the cache first.
ReadManifest(r, op, ref, who) ==
    LET t == [op |-> op, ref |-> ref, who |-> who]
        key == ManifestKey(ref)
        c == IF Caching(t) THEN AfterGet(cache, key, now) ELSE cache
    IN  /\ Begin(r, t)
        /\ IF Caching(t) /\ Hit(cache, key, now)
           THEN HaveManifest(r, t, ValueAt(cache, key), c)
           ELSE cache' = c /\ Send(r, "get", ref) /\ UNCHANGED man

\* iter_tags of a repository whose tags fit one page.
ReadTags(r, who) ==
    LET t == [op |-> "tags", ref |-> None, who |-> who] IN
    /\ Begin(r, t)
    /\ cache' = IF Caching(t) THEN AfterGet(cache, TagsKey, now) ELSE cache
    /\ IF Caching(t) /\ Hit(cache, TagsKey, now)
       THEN Finish(r, Listing(ValueAt(cache, TagsKey)))
       ELSE Send(r, "list", None)
    /\ UNCHANGED man

\* Mutant of Delete: a cached manifest stands for the tag's resolution.
Delete_Cached(r, ref, who) ==
    /\ Begin(r, [op |-> "delete", ref |-> ref, who |-> who])
    /\ IF Hit(cache, ManifestKey(ref), now)
       THEN Send(r, "delete", ValueAt(cache, ManifestKey(ref)).body)
       ELSE Send(r, IF ref \in Digests THEN "delete" ELSE "head", ref)
    /\ UNCHANGED << cache, man >>

\* delete_manifest: a tag is resolved by the registry first, a digest is not.
Delete(r, ref, who) ==
    /\ Begin(r, [op |-> "delete", ref |-> ref, who |-> who])
    /\ Send(r, IF ref \in Digests THEN "delete" ELSE "head", ref)
    /\ UNCHANGED << cache, man >>

-----------------------------------------------------------------------------
\* The registry (external) and the people who push to it.

Answer(r, ok, body) ==
    wire' = [wire EXCEPT ![r].ans =
                [ok |-> ok, body |-> body, at |-> now, by |-> task[r].who]]

Unserved(r, kinds) == wire[r] # None /\ wire[r].ans = None /\ wire[r].kind \in kinds

ServeManifest(r) ==
    /\ Unserved(r, {"get", "head"})
    /\ LET d == Resolve(wire[r].ref) IN Answer(r, d # None, d)
    /\ UNCHANGED registry

\* A registry that leaves Docker-Content-Digest out of its answer to a HEAD.
ServeHeadWithoutDigest(r) ==
    /\ Unserved(r, {"head"})
    /\ Resolve(wire[r].ref) # None
    /\ Answer(r, TRUE, None)
    /\ UNCHANGED registry

ServeTags(r) ==
    /\ Unserved(r, {"list"})
    /\ Answer(r, TRUE, {x \in Tags : tag[x] # None})
    /\ UNCHANGED registry

\* None stands for a JSON object that is no image config.
ServeBlob(r) ==
    /\ Unserved(r, {"blob"})
    /\ \E body \in {wire[r].ref, None} : Answer(r, TRUE, body)
    /\ UNCHANGED registry

\* Deleting a manifest unlinks it and every tag that names it.
ServeDelete(r) ==
    LET d == wire[r].ref IN
    /\ Unserved(r, {"delete"})
    /\ Answer(r, d \in stored, d)
    /\ stored' = stored \ {d}
    /\ tag' = [x \in Tags |-> IF tag[x] = d THEN None ELSE tag[x]]
    /\ removed' = IF d \in stored THEN removed \cup {<< r, d >>} ELSE removed

\* 401, 405 (deletion disabled), 5xx, or a body the client rejects.
ServeError(r) ==
    /\ Unserved(r, {"get", "head", "list", "blob", "delete"})
    /\ Answer(r, FALSE, None)
    /\ UNCHANGED registry

Serve(r) ==
    /\ \/ ServeManifest(r) \/ ServeHeadWithoutDigest(r) \/ ServeTags(r)
       \/ ServeBlob(r) \/ ServeDelete(r) \/ ServeError(r)
    /\ named' = [q \in Requests |-> IF named[q] = {} THEN {}
                                    ELSE named[q] \cup {tag'[task[q].ref]}]
    /\ UNCHANGED << cache, now, task, pc, man, result, audit, auditFile, pushes, crashes,
                    began, before >>

Push(x, d) ==
    /\ pushes < MaxPushes
    /\ pushes' = pushes + 1
    /\ tag' = [tag EXCEPT ![x] = d]
    /\ stored' = stored \cup {d}
    /\ named' = [q \in Requests |-> IF named[q] # {} /\ task[q].ref = x
                                    THEN named[q] \cup {d} ELSE named[q]]
    /\ UNCHANGED << cache, now, task, pc, man, wire, result, audit, auditFile, crashes,
                    removed, began, before >>

-----------------------------------------------------------------------------
\* The handlers' later steps: what they do with the answer they awaited.

Answered(r, kind) == pc[r] = kind /\ wire[r].ans # None

\* The answer r awaited, as the client keeps it.
Fetched(r) == [body |-> wire[r].ans.body, at |-> wire[r].ans.at, by |-> wire[r].ans.by,
               asked |-> wire[r].sent, got |-> now]

Quiet == UNCHANGED << now, task, audit, auditFile, pushes, crashes, registry, named,
                    began, before >>

ReceiveManifest(r) ==
    LET a == wire[r].ans
        m == Fetched(r)
        c == IF Caching(task[r])
             THEN AfterSet(cache, ManifestKey(task[r].ref), m, CacheTTL, now) ELSE cache
    IN  /\ Answered(r, "get")
        /\ IF a.ok THEN HaveManifest(r, task[r], m, c)
           ELSE Finish(r, Failed("registry")) /\ UNCHANGED << cache, man >>
        /\ Quiet

\* Whatever goes wrong with the config, a page is shown without it, except that
\* nobody catches ImageConfig's ValidationError.
ReceiveBlob(r) ==
    LET a == wire[r].ans
        good == a.ok /\ a.body # None
        b == Fetched(r)
    IN  /\ Answered(r, "blob")
        /\ cache' = IF good /\ Caching(task[r])
                    THEN AfterSet(cache, ConfigKey(man[r].body), b, BlobTTL, now)
                    ELSE cache
        /\ Finish(r, IF good THEN Page(man[r], b)
                     ELSE IF a.ok THEN Failed("500")
                     ELSE IF task[r].op = "page" THEN Page(man[r], None) ELSE Failed("400"))
        /\ man' = [man EXCEPT ![r] = None]
        /\ Quiet

ReceiveTags(r) ==
    LET a == wire[r].ans
        v == Fetched(r)
    IN  /\ Answered(r, "list")
        /\ cache' = IF a.ok /\ Caching(task[r]) THEN AfterSet(cache, TagsKey, v, CacheTTL, now)
                    ELSE cache
        /\ Finish(r, IF a.ok THEN Listing(v) ELSE Failed("registry"))
        /\ UNCHANGED man
        /\ Quiet

\* _resolve_digest: without a digest there is nothing it is safe to delete.
ReceiveHead(r) ==
    LET a == wire[r].ans IN
    /\ Answered(r, "head")
    /\ IF a.ok /\ a.body # None THEN Send(r, "delete", a.body)
       ELSE Finish(r, Failed("registry"))
    /\ UNCHANGED << cache, man >>
    /\ Quiet

\* Mutant of ReceiveDelete: the registry's refusal goes unnoticed.
ReceiveDelete_Refused(r) ==
    /\ Answered(r, "delete")
    /\ Finish(r, [ok |-> TRUE, digest |-> wire[r].ref])
    /\ audit' = audit \cup {[req |-> r, ref |-> task[r].ref, digest |-> wire[r].ref]}
    /\ auditFile' = auditFile
    /\ UNCHANGED << cache, man, now, task, pushes, crashes, registry, named,
                    began, before >>

\* The registry acknowledged the DELETE or refused it.  log_manifest_deleted
\* writes the event, then the file's line; a file that cannot be written is
\* only warned about.
ReceiveDelete(r) ==
    LET a == wire[r].ans
        event == [req |-> r, ref |-> task[r].ref, digest |-> wire[r].ref]
    IN  /\ Answered(r, "delete")
        /\ IF a.ok
           THEN /\ Finish(r, [ok |-> TRUE, digest |-> wire[r].ref])
                /\ audit' = audit \cup {event}
                /\ auditFile' \in {auditFile, auditFile \cup {event}}
           ELSE Finish(r, Failed("registry")) /\ UNCHANGED << audit, auditFile >>
        /\ UNCHANGED << cache, man, now, task, pushes, crashes, registry, named,
                    began, before >>

\* Mutant of GiveUp: the HEAD before a delete is sent without a timeout.
GiveUp_NotHead(r) ==
    /\ r \in Waiting /\ pc[r] # "head"
    /\ Finish(r, Failed("connection"))
    /\ man' = [man EXCEPT ![r] = None]
    /\ UNCHANGED cache
    /\ Quiet

\* httpx reports a timeout or a broken connection.  The config of a page is
\* best effort, everything else fails.
GiveUp(r) ==
    /\ r \in Waiting
    /\ Finish(r, IF pc[r] # "blob" THEN Failed("connection")
                 ELSE IF task[r].op = "page" THEN Page(man[r], None) ELSE Failed("400"))
    /\ man' = [man EXCEPT ![r] = None]
    /\ UNCHANGED cache
    /\ Quiet

\* The process dies and starts again: the cache and the handlers are gone, what
\* they sent is not.
Crash ==
    /\ crashes < MaxCrashes
    /\ crashes' = crashes + 1
    /\ cache' = << >>
    /\ pc' = [r \in Requests |-> IF r \in Waiting THEN "done" ELSE pc[r]]
    /\ result' = [r \in Requests |-> IF r \in Waiting THEN Failed("dropped") ELSE result[r]]
    /\ man' = [r \in Requests |-> None]
    /\ wire' = [r \in Requests |-> Abandon(wire[r])]
    /\ UNCHANGED << now, task, audit, auditFile, pushes, registry,
                    named, began, before >>

\* An exchange may last as long as it likes: httpx's timeout is for each
\* connection, read and write of it, and one call of the client may be a token
\* dance of several exchanges.
Tick ==
    /\ now < MaxTime
    /\ now' = now + 1
    /\ UNCHANGED << cache, task, pc, man, wire, result, audit, auditFile, pushes, crashes,
                    registry, named,
                    began, before >>

-----------------------------------------------------------------------------
Init ==
    /\ tag \in [Tags -> Digests \cup {None}]
    /\ stored = {tag[x] : x \in Tags} \ {None}
    /\ cache = << >>
    /\ now = 0
    /\ task = [r \in Requests |-> None]
    /\ pc = [r \in Requests |-> "idle"]
    /\ man = [r \in Requests |-> None]
    /\ wire = [r \in Requests |-> None]
    /\ result = [r \in Requests |-> None]
    /\ audit = {} /\ auditFile = {}
    /\ pushes = 0 /\ crashes = 0
    /\ removed = {}
    /\ named = [r \in Requests |-> {}]
    /\ began = [r \in Requests |-> 0]
    /\ before = [r \in Requests |-> {}]

Start(r) ==
    \E who \in Users \cup {Shared} :
        \/ ReadTags(r, who)
        \/ \E ref \in Tags \cup Digests :
              \/ \E op \in {"page", "config"} : ReadManifest(r, op, ref, who)
              \/ Delete(r, ref, who)

Receive(r) ==
    \/ ReceiveManifest(r) \/ ReceiveBlob(r) \/ ReceiveTags(r)
    \/ ReceiveHead(r) \/ ReceiveDelete(r)

Next ==
    \/ \E r \in Requests : Start(r) \/ Serve(r) \/ Receive(r) \/ GiveUp(r)
    \/ \E x \in Tags, d \in Digests : Push(x, d)
    \/ Crash
    \/ Tick

Spec == Init /\ [][Next]_vars

\* The event loop runs every handler whose answer has come, and every wait ends:
\* httpx reports an exchange that makes no progress for its timeout.  Whether
\* the registry answers is open; only one that sends an answer without end, a
\* little at a time, is left out.
FairSpec == Spec /\ \A r \in Requests : WF_vars(Receive(r) \/ GiveUp(r))

-----------------------------------------------------------------------------
Bodies == Digests \cup {ConfigOf[d] : d \in Digests \ Indexes}

\* v is a copy of something the registry answered.
IsCopy(v, isList) ==
    /\ IF isList THEN v.body \subseteq Tags ELSE v.body \in Bodies
    /\ v.got \in 0 .. now /\ v.at \in 0 .. v.got /\ v.asked \in 0 .. v.at
    /\ v.by \in Users \cup {Shared}

TypeOK ==
    /\ tag \in [Tags -> stored \cup {None}] /\ stored \subseteq Digests
    /\ Len(cache) <= MaxSize
    /\ \A i \in DOMAIN cache : IsCopy(cache[i].val, cache[i].key = TagsKey)
    /\ pc \in [Requests -> {"idle", "get", "blob", "list", "head", "delete", "done"}]
    /\ \A r \in Requests : /\ pc[r] = "done" <=> result[r] # None
                           /\ pc[r] = "idle" <=> task[r] = None
                           /\ pc[r] = "blob" => IsCopy(man[r], FALSE)
                           /\ r \in Waiting => wire[r].kind = pc[r]
    /\ auditFile \subseteq audit

Ok(r) == result[r] # None /\ result[r].ok
IsPage(r) == Ok(r) /\ task[r].op \in {"page", "config"}
IsListing(r) == Ok(r) /\ task[r].op = "tags"
Shown(r) == IF IsPage(r) THEN {result[r].man} \cup ({result[r].config} \ {None})
            ELSE IF IsListing(r) THEN {result[r].tags} ELSE {}

\* No manifest and no tag list is older than this when it is shown: the lifetime
\* of the cache, and the time that the exchange which fetched it took, and the
\* time that the request which shows it took (a page still waits for its image
\* config after its manifest is read).  A slow answer, one overtaken by another
\* request's fill, or a hit on the last moment of an item adds nothing to it.
Age(v, shown) == shown - v.at
FetchTime(v) == v.got - v.asked
Staleness ==
    \A r \in Requests :
        LET bound(v, shown) == CacheTTL + FetchTime(v) + (shown - began[r])
            x == result[r] IN
        /\ IsPage(r) => Age(x.man, x.shown) < bound(x.man, x.shown)
        /\ IsListing(r) => Age(x.tags, x.shown) < bound(x.tags, x.shown)

\* Answers got with one person's registry credentials are never shown to
\* another, by way of the cache or otherwise: a session sees only what it
\* fetched itself, in this request; the cache holds the shared client's answers.
Isolation ==
    /\ \A r \in Requests : \A c \in Shown(r) : c.by = task[r].who
    /\ \A i \in DOMAIN cache : cache[i].val.by = Shared

\* A page never mixes one manifest with another's image config, although tags
\* move between the two fetches and either may come from the cache.
ConfigMatches ==
    \A r \in Requests : IsPage(r) /\ result[r].config # None =>
        result[r].config.body = ConfigOf[result[r].man.body]

\* The audit trail has an event for exactly the deletions that were reported as
\* done, each names a manifest the registry removed for that very request, and
\* no removal is claimed by two events: concurrent deletes of one manifest,
\* refused ones and those whose answer was lost leave no event; and an event is
\* written, to stdout, also when the audit file cannot be.  (Events are a set: that
\* one request writes its event twice would not show.)
AuditExact ==
    /\ \A e \in audit : << e.req, e.digest >> \in removed
    /\ \A r \in Requests :
          Ok(r) /\ task[r].op = "delete" <=> \E e \in audit : e.req = r

\* Deleting by tag removes only a manifest that the tag named at some moment
\* while the request ran: a cached, older resolution is never used.
DeletesWhatTagNamed ==
    \A x \in removed : task[x[1]].ref \in Tags => x[2] \in named[x[1]]

\* Every handler answers, whatever the registry does.
Answers == \A r \in Requests : pc[r] \notin {"idle", "done"} ~> pc[r] = "done"

\* web/routes.py:718 "the deleted tag is already gone from the freshly-rendered
\* page": a tag list asked for after the delete of a tag was reported as done
\* does not have the tag, when nobody has pushed anything.
DeletedTagGone ==
    pushes = 0 =>
        \A r \in Requests : IsListing(r) =>
            \A e \in before[r] : e.ref \notin result[r].tags.body

=============================================================================
