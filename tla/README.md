# LayerLoupe in TLA+

LayerLoupe is a web UI in front of a container registry: a FastAPI application
that lists repositories and tags, shows manifests with their image config, and
lets an administrator delete manifests.  This directory holds TLA+ models of the
parts of it that have state and can go wrong in time, TLC configurations that
check them on small instances, and TLAPS proofs of the properties that hold for
every instance.  `PROJECT.json` maps each definition to the lines it models and
lists the runs, the mutants, the hazards and the theorems.

Run a model with `tlc -workers 2 -config MCX.cfg MCX`, a proof with
`tlapm XProofs.tla`.  Paths below are relative to `src/layerloupe/`.

## 1. The system

One process, one event loop.  Handlers are coroutines: they interleave only where
they await an HTTP exchange with the registry or its token server.

| Component | Code | State | Operations |
|---|---|---|---|
| TTL cache | `registry/cache.py` | a dict of (deadline, value), at most 256 | get, set, invalidate, clear |
| Registry client | `registry/client.py` | the cache; nothing else | get_manifest, get_image_config, iter_tags/iter_repositories, delete_manifest, get_referrers, probe |
| Token flow | `registry/bearer.py` | token dict by (service, scope) | async_auth_flow, put, find_any |
| Guards, identities | `deps.py`, `auth/` | none: reads settings and session | require_browse_access, require_admin, get_registry_client, get_auth_provider |
| Session | Starlette's SessionMiddleware, `sessions.py` | the browser's cookie: identity and encrypted registry credentials | login, logout, ui_login, ui_logout (JSON and forms) |
| Settings | `config.py`, `config_secrets.py` | read once at startup | Settings(), get_settings |
| Audit | `audit.py` | stdout, a JSONL file | log_manifest_deleted |
| API and pages | `api/`, `web/routes.py`, `web/templates/`, `main.py` | none | full pages, htmx fragments, the JSON routes, the error pages |
| Views | `registry/parser.py`, `layers.py`, `annotations.py`, `referrers.py`, `manifests.py`, `utils/` | none (pure) | JSON to view models, sorting, formatting |
| Browser | `web/static/layerloupe.js`, htmx | the page: three columns, location bar, delete dialog | clicks, filters, swaps, typed confirmation |

How they interact.  A request loads the session from its cookie, passes a guard,
and gets a registry client: a short-lived one without a cache when the session has
registry credentials, else the process's own with the cache.  Every exchange of a
client goes through the token flow.  A delete resolves a tag by HEAD, deletes the
digest and writes an audit event.  A login changes the handler's copy of the
session, which goes back as a cookie with the response.  A page is rendered whole on
a deep link; after that htmx asks for fragments, swaps them into a column, and pushes
a URL that should show the same again.  A freshly picked repository brings the panel
of its first tag along.

What is hard in it:

* *interleaving*: fills of one cache key that overtake each other, a tag that
  moves between the HEAD and the DELETE or between two fetches of a page, names
  that come and go between the pages of a listing, overlapping responses of one
  browser that overwrite each other's cookie, concurrent token fetches;
* *failure*: exchanges that never come back, a DELETE done whose answer is lost, a
  process that dies between the DELETE and the audit event, an audit file that
  cannot be written, a listing that fails in the middle;
* *a page made of pieces*: fragments that come back in another order than they were
  asked for, elements swapped away under a request in flight, a dialog inside a panel
  that a late answer replaces, five exchanges behind one click of which one fails;
* *time*: deadlines on their boundary, slow fills, tokens that die on the way;
* *configuration over time*: restarts that change AUTH_MODE, rotate the secret or
  disable a login while browsers keep their cookies;
* *odd registries*: pages shorter or longer than asked for, ignored cursors, links in a
  circle, renamed services, missing digests;
* *a world that moves on*: tags re-pushed while a panel, perhaps from the cache, waits
  with its delete dialog.

What makes each part correct: the cache returns only what was set last and loses
nothing early; the client shows nothing older than its lifetime and the exchanges under it allow, never
mixes two images or two people's rights, and its audit trail is exact; listings
are complete and end; requests are not failed by what happens to be cached; only
an administrator's login deletes, and a sign-out is final; an application that
starts can be logged in to; columns, panel, URL and dialog say the same, what only
adorns a manifest never costs it, and nothing is deleted but what was typed.

## 2. The modules

| Module | Models | Composes |
|---|---|---|
| `CacheDict` | the dict of `TTLCache` and what each method does to it, as operators | |
| `CachePromise` | the abstract specification: a partial map with deadlines | |
| `TTLCache` | the cache under an arbitrary caller and clock | `CacheDict`, refines `CachePromise` |
| `RegistryClient` | handlers, client, cache, audit; registry and pushers as environment | `CacheDict` |
| `Pagination` | `_iter_paginated` and its caching wrapper | |
| `BearerAuth` | the token flow and `TokenCache` | |
| `AccessControl` | guards, logins, cookie sessions, restarts | |
| `Startup` | `Settings`, secret files, login provider | |
| `Views` | the pure functions from the registry's JSON to what a page shows | |
| `WebShell` | pages, fragments and the delete route, htmx and one browser; the registry as environment | `Views` |
| `TTLCacheProofs`, `RegistryClientProofs`, `PaginationProofs`, `BearerAuthProofs`, `AccessControlProofs`, `StartupProofs` | theorems about the module named | |
| `WebShellProofs` | theorems about deletes and the URL | |
| `WebShellPanelProofs` | theorems about panels, what they show, and the columns beside them | `WebShellProofs` |
| `MC*` | instances for TLC | |

A definition called `X_Something` with the comment "Mutant of X" is not part of
the model: it is X as a plausible slip would have it.  `PROJECT.json` pairs each
with a property that fails when it takes X's place, which shows that the property
can fail.

### CacheDict, TTLCache, CachePromise

The dict is the sequence of its items in insertion order, because `_evict_one`
walks it in that order and an overwritten key keeps its place.  Every method runs
without an await, so each is one action.  `written` and `since` are history: what
was last set for a key, and how many new keys came after.  `CachePromise` forgets
the order: storing a new key in a full map forgets some one entry, an expired one
if there is any.

### RegistryClient

One repository.  An exchange is three steps: it goes out (`Send`), the registry
serves it or never does (`Serve*`), its answer is received (`Receive*`) or the
client gives up first (`GiveUp`).  Between two steps of one handler anything else
may happen, which is what the event loop allows.  `cache` holds real cache items
with the times at which it was asked for (`asked`), made by the registry (`at`) and read
(`got`), and the person (`by`) whose credentials fetched it; `began` and `shown` say when a
request came and when it was answered.  The properties use these, no action branches on
them.  The clock may tick at any step: httpx's timeout is for each connection, read and
write, and one call of the client may be a token dance of three exchanges, so nothing
bounds how long an exchange takes.
A `page` is a manifest with a best-effort config (`_fetch_manifest`,
`api/manifests.py:82`), a `config` is the route that fails without one.  A body
that is JSON but no image config raises pydantic's ValidationError, which nothing
catches: both answer 500 then.  `Crash` drops the cache and the handlers and
leaves what they had sent under way.

Left out: `probe`, referrers and filters (they touch no state; `WebShell` has the
latter two), the fallback annotations of an index (another `ReadManifest`), keys of
other repositories (which only compete for places in the cache, as the keys of one do).

### Pagination

Here a page is one step.  The registry's style (`link`, `cap`, `replay`) is chosen
at the start: by the book, with pages shorter or longer than `?n=` asks for, ignoring
`?last=`, linking in a circle.  The cache holds one item for the listing, since all callers of a run pass
the same page size and `max_pages`; a caller that finds it gets it, others fetch.
`limit` is where the caller breaks out.  Two registries are left out, because without `max_pages` nothing in
the code ends their listing: a circle of links (`Init` gives it a bound) and one that goes on
for ever with full pages of new names (`client.py:553-556`; no `Style`, names are finitely
many).  No caller in the application passes `max_pages`, which is listed as a hazard.
`NoDuplicates` excludes a replayed page that carries a `Link`: the stagnation guard looks
only at registries that page by cursor.

### BearerAuth

A request is in its first try, in the token fetch or in its second try.  A token
carries its service, its scope and its birth and death by the server's clock; the
cache files it under a deadline counted from when the answer was read.  The
registry may refuse a good token, rename its service, or answer with a 401 that is
no Bearer challenge; that counts as its refusal, whatever was attached.  The scope guessed
for a DELETE is never the one a registry asks for, and for the path of an image's referrers
`infer_scope` knows none, so these two always dance.

### AccessControl

The server keeps no session.  A request starts from the cookie its browser had when
it was sent; the handler works on a copy; `Respond` brings the copy back, in any
order with the browser's other responses.  An unchanged session may or may not be
written again, depending on the middleware's version.  The registry's own refusal of a request that was let through is passed on with
its status (`main.py:66-71`), so `BrowseDone` and `DeleteDone` may answer 401 and 403, too;
`asked` tells the two kinds apart.  `Restart` installs any mode,
allows or forbids the registry login, and keeps or rotates the secret; requests in
flight are lost, cookies are not.  `epoch`, `minted` and `out` are history.

### Startup

Environment variables and the secret files' contents are chosen freely at the start,
blank and broken ones included; the operator may change a file later; the process
starts, is refused, stops and starts again.  A password stands for its hash.  `read` is what
the files held when the running process read them: `Sound`, or it would not run.

### Views

One operator per function of `registry/parser.py`, `layers.py`, `annotations.py`,
`referrers.py` and `utils/version_sort.py`, over records that keep what control
depends on: kinds, optional parts, the order of lists, sizes, keys.  An optional value
is a sequence of length 0 or 1.  `valid` (of a body or a config) says whether pydantic
accepts it; `readable`, `decodes` and `fits` say the same of a referrer row and of a
schema 1 history string.  A selection or a sort is a function from places to members
(`InOrder`, `Kept`) and a sum a recursive function, so that proofs can follow them.
Which tags are versions, and which, is the constant
`VersionOf`; alphabetical orders are given as sequences (`NamedTags`,
`OtherAnnotations`).  Variants, dates, comments, titles and pull commands are left out.

### WebShell

`url`, `repoCol`, `filterBox`, `tagCol`, `panel` and `dialog` are the document as the
templates render it; `pending` holds htmx's requests with, once served, the answer: what
it swaps in and what URL it pushes.  A handler is one step (`LoadPage`, `TagsFragment`,
`ManifestFragment`, `ReposFragment`, `ServeDelete`): what its awaits interleave with is
`RegistryClient`'s subject.  Each handler names
its exchanges (`PageExchanges`, `FragmentExchanges`), and one of them may fail.  An
outcome is fine, a `RegistryError`, or a crash: pydantic's ValidationError, which no
handler catches.  `Deliver` is htmx's swap: the target is looked up when the request is
sent; if another swap has removed it since (`attached`), nothing happens; a 5xx is not
swapped; the URL is pushed with the swap.  A new panel brings a new, closed dialog.
`overlapped`, `deletes` and `removed` are history.

Tags move: `now` is what each of them names, `Push` points one of the world's `moving` tags
at another manifest of the repository, and `pushes` remembers that.  Pages read a tag as the client does, from `cached`,
which `Expire` brings up to date at any moment, so a panel may show a manifest that the tag
no longer names when the panel is made, and the more so when its dialog is confirmed.
`delete_manifest` asks the registry (`DeletedDigest` uses `now`).  What a digest names never
changes.  A manifest that was deleted while it is cached is left to `RegistryClient`, and new
names of tags to `Pagination`.

`Rendered` is the template of a full page: above a platform child it slices the digest, and
fails when the registry omitted it (`manifest_info.html:110-113`), which makes the page a 500.

Left out: a second request of one element (htmx queues or drops it, and with it a
second confirmation of one deletion), the browser's history, the login page swapped into
a column when a session ends, the row highlight, tag pages other than the first that are
opened with `?q=`.

## 3. What the runs check

| Run | Instance | Shows |
|---|---|---|
| `cache` | 3 keys, 2 values, 2 places, lifetimes 1 and 3, clock to 4 | `TypeOK`, `FifoRetention`, `HitIsLastSet`, `EvictionSparesLive`; `PromiseSpec`: the cache implements the promise |
| `registry_reads` | 1 tag, 2 images, 2 page or tag-list requests, a session and the shared client, 1 push, 2 places, lifetimes 1 and 2, clock to 2 | `Staleness`, `Isolation`, `ConfigMatches` |
| `registry_deletes` | 1 tag, 1 image, 1 index, 2 requests, 1 push, 1 crash | `AuditExact`, `DeletesWhatTagNamed`, `Answers` (fair) |
| `access` | 1 browser, 2 requests in flight, 2 restarts | `DeleteAuthorized`, `RefusalsHelp`, `StaysOut`, `CredentialsReadable`, `Orthogonal` |
| `pagination` | 3 names, pages of 2 asked for and 1 to 3 served, 2 listings, 1 change, 9 styles, `max_pages` 3 or none | `ListsWhatIsThere`, `NoDuplicates`, `WorkBounded`, `Terminates` (fair) |
| `bearer` | 2 pulls or listings of referrers, 2 service names, 1 renaming, tokens of 1 or 2 ticks with a grace of 1, clock to 2 | `AttachedAlive`, `NoNeedless401`, `SkipsDance`, `Answers` (fair) |
| `startup` | 2 names, 2 passwords, 2 secrets, 2 starts, 1 edit | `LoginsAreConfigured`, `SomeoneCanLogIn`, `SessionsSurvive` |
| `shell` | 5 registries (below), 3 actions of the user beside the dialog's, 1 failed exchange, 2 pushes, pages of 2, 3 names read | `UrlMatchesPanel`, `Coherent`, `DeleteConfirmed`, `LayersComplete`, `AnnotationsHonest`, `BestEffort`, `AutoTagNewest` |

and, expected to be violated:

| Run | Claim | What happens |
|---|---|---|
| `deleted_tag` | `web/routes.py:718` "the deleted tag is already gone from the freshly-rendered page" | list, delete, list: the second list is the cached first |
| `flip` | `CHANGELOG.md:133` flipping the mode "invalidates all existing UI sessions" | the cookie is ignored, not cleared: flipping back revives it |
| `plaintext` | `README.md:98` "Plaintext `ADMIN_PASSWORD` in env is rejected at startup" | not when a hash or a file is set beside it |
| `child_digest` | `web/templates/partials/manifest_info.html:414` the dialog's fields "stay consistent with the displayed manifest" | on a platform child's page it says the tag "Resolves to digest" of the child; confirming deletes the index |

Why these bounds are enough for the cases to occur.  Two places and three keys fill
the cache and evict live and expired items.  Two requests are what it takes for one
to overtake, spoil or serve the other; a push or a second delete is the third party.
A manifest's lifetime of 1 and a clock to 2 let the exchange that fills the cache, or the
request that hits it, take a tick.  Two requests may fill one key in either order, and a
third would read what is left: that is the theorem's (`Fresh`), whose requests are any.  In
`registry_deletes` the clock stands still: a timeout there is `GiveUp`, which may
come at any moment, and expiry plays no part in a delete.  Two restarts flip a mode
and flip it back.  Pages of two over three names give an empty, a short and a full
last page, and a circle of links passes `max_pages` 3.  With two ticks of life and
one of grace a token can be fresh, within its grace, and dead; a token of one tick is
expired when it is stored, so it is never found and every request that gets one dances.
`BearerAuth` starts with the service name `FirstName`, since no name is special.

The five registries of `shell`: `ImageWorld` (images with annotations, labels, a history
longer than the layers, a referrer that is itself a manifest, an unreadable referrer),
`IndexWorld` (indexes with and without the host's platform, with annotations of their
own, with an attestation; more tags than a page shows), `OddWorld` (a Helm chart whose
config is no image config, an index of one and an index of sound images, a web page instead
of a manifest, a schema 1 manifest that does not fit, no `Docker-Content-Digest`) `ManyWorld` (three repositories,
one empty, four tags of which three are read, pre-releases, schema 1 with a history
string that does not decode) and `MovingWorld` (a tag that two pushes move away and back,
before and after the client has read it; the tags of the others stand still).  Two requests that overlap need two clicks, the third opens
the dialog's panel before them or follows them; deleting and being redirected takes one.

Symmetry is used only in runs without liveness.  Deadlock is checked where the
system can always move (`cache`, `access`); the others stop when every request has
been made once.

### Fairness

`WF(Receive(r) \/ GiveUp(r))` in `RegistryClient` and `BearerAuth`, `WF(Page(l))` in
`Pagination`.  The event loop runs a coroutine whose answer has come, and httpx ends
a wait with an answer or a timeout (30 s; `registry/client.py:641`,
`registry/bearer.py:165`).  That timeout is for each connection, read and write: a registry
that sends one answer without end, a little at a time, is left out.  Nothing else is assumed of the registry, of the token server,
of the people who push, or of the operator.  `Page` includes the exchange, whose end
httpx ensures; a failed one (`Fail`) ends the listing anyway.

## 4. What is proved

The proof modules prove for every value of the constants (any keys, values, sizes and
lifetimes; any browsers, requests, users and restarts; any registry content) what the
runs check on the instances.

*TTLCache*, from `MaxSizeAssumption`, `TTLsAssumption`, `NoneAssumption`:
`TypeCorrect`, `Retention`, `LastSet`, `Spares`.  The lemmas on `CacheDict` say what
removing an item does to keys, places and lengths, and what `Victim`, `AfterGet` and
`AfterSet` return.  `FifoRetention` is not inductive
by itself, since nothing in it says which item an eviction takes.  `IInv` adds
`Current` (every item holds the deadline and value last set for its key) and `Ages`
(no more items stand behind an item than new keys were stored after it).  When a full
dict without expired items evicts its head, `Ages` gives that `MaxSize - 1` new keys
followed it, the new one is the next, and the head's key leaves the promise.
`HitIsLastSet` follows from `Current`, and `EvictionSparesLive` is an action property
proved from `IInv`.  `Implements` is the refinement: the map a dict stands for (`Mem`) is
what `CachePromise` describes.  Each method is a step of the promise: what a pop, an
overwriting and an appending do to the map (`PopMem`, `OverwriteMem`, `AppendMem`), and
that the one key an eviction costs is one the promise may forget (`RoomKeys`,
`SetForgets`), since a dict has as many keys as places (`KeysCount`).

*RegistryClient*, from `OpsAssumption`, `TimesAssumption`, `NamesAssumption` (no tag is a
digest), `NoneAssumption` and the cache's `MaxSizeAssumption`: all its invariants, with one
inductive invariant for deletes and one for reads.  Deletes (`AuditIsExact`,
`DeletesAreNamed`): a DELETE on its way for a tag carries a manifest the tag named since
the request began, its affirmative answer means that the registry removed that manifest for
this request, and a request that is not done has no event (`WireOK`, `RequestOK`).
Reads (`TypeCorrect`, `Fresh`, `Isolated`, `Matching`): every item of the cache was fetched for everybody, a config is filed under its own name, and any other
item's deadline is a `CacheTTL` after its value was read, which was asked for before the
registry made it (`Item`, `ExchangeOK`).  A request that shows a value began before that
deadline, for it found the item alive later or fetched it itself (`Good`).  `Fresh` is the
sum of the three: the exchange that filled the cache, the item's life, the request that shows
it; how long the first and the last take, nothing bounds.

*Pagination*, from `PagingAssumption` (names are positive numbers and finitely many, sizes
are positive) and `StylesAssumption`: `TypeCorrect`, `Complete`, `NoRepeats`, `Bounded`.  A
page is the lowest names after the cursor, in order (`PageMeaning`, over lemmas about places
in a finite set of numbers).  `IInv` says what a walk has so far: names that were there at
some time, in order, the last of them the cursor, and every name up to the cursor that was
there all the time (`Walk`, `UpToCursor`).  A page shorter than asked for, from a registry
that pages by the book, has no name behind it, so the report of a walk it ends is `Whole`.
A registry that replays its first page gets a case of its own (`OnePage`): what the
stagnation guard has let through is that one page.

*AccessControl*, from `NoneAssumption`: `TypeCorrect`, `Authorized`, `Refusals`,
`SignOutFinal`, `Readable`, `Independence`.  The inductive invariant `IInv` adds to
the type invariant: every identity in a cookie or in a request in flight was minted
for that browser under that key, and a request's status fits its kind and the mode
(`CookiesOK`, `RequestsOK`), identities of admin mode hold the admin role (`RolesOK`),
and a browser that signed out has no request in flight that carries an identity
(`QuietOK`).  `Orthogonal` is an action property.

*BearerAuth*, from `NameAssumption`, `OpsAssumption`, `TimesAssumption`, `NoneAssumption`:
`TypeCorrect`, `Alive`, `CacheIsHarmless`, `Skips`.  `NoNeedless401` says that a cached
token never costs a request its answer; what makes it true is `Fetched`: a request in its
second try carries a token it fetched itself, for the service and the scope of the
challenge it was given.  The cache files one token per service and scope, each with a
deadline that leaves the grace before its death, which gives `Alive`.  `SkipsDance` needs
that, as long as the registry has not been renamed, every token in the cache or in hand
is one of its only service.

*Startup*, from no assumption: `TypeCorrect`, `Configured`, `Possible`, `Survival`.  `IInv`
says that the running process and the one before it hold what the variables and the files
they read come to (`Settled`), that a generated secret is the number it was generated as and
newer than the predecessor's (`Numbered`, `Newer`), and that a login was answered from the
settings of the process that runs (`Answered`).  What is left of each property is reading
off the table of cases in `Settings`.

*WebShell*.  Assumed of the constants: page sizes are positive, bounds are numbers
(`PageAssumption`, `BoundAssumption`); every repository has its tags, no tag looks like a
digest, lists are lists and a config that a manifest names has a body
(`WorldsAssumption`, `BodiesAssumption`); components of versions are numbers
(`TagAssumption`); every annotation key has one place in the table (`KeyAssumption`); the
host knows its own platform (`PlatformAssumption`).  All seven properties of the run and
the type invariant are theorems: `DeletesConfirmed` and `UrlShowsPanel` in
`WebShellProofs`, `PanelsExcused`, `ColumnsAgree`, `OpensNewest`, `TypeCorrect`,
`AnnotationsOwned` and `LayersListed` in `WebShellPanelProofs`.

* *Deletes* (`GateHolds`).  `DeleteConfirmed` speaks of deletions, several steps after the
  typing; `IInv` follows the digest all the way: an enabled button means that the text is
  the name on the panel (`GateOK`), a panel's digest is what the client read for its
  reference, and either the tag still names it or a push after that reading made it name
  another (`Stands`), unless it shows a platform's child (`PanelOK`); a deletion under way or
  done is the one confirmed (`PendingOK`, `RemovedOK`).
* *The URL*.  The invariant is about answers: each swaps a panel and pushes the URL that
  shows it, or does neither (`AnswerFits`), and each request under way still has the list
  length and the URL of the link or control that sent it (`RequestFits`, `Sent`), so that
  a swap, early or late, moves both.
* *Panels*.  Three properties are about every panel on screen or on its way there.  Each
  was made by a handler in one of five ways (`Born`, the torn page included); what is made is as the property has
  it (`BornExcused`, `BornHonest`, `BornComplete`, from what `FetchManifest` and
  `AnnotationsWithFallback` can come to), and it stays so, since what a digest names
  does not change and a panel remembers what was read for it (`found`; `ExcusedLasts`,
  `HonestLasts`, `CompleteLasts`).  That nothing but a handler
  makes panels (`PanelsGrow`) needs `Places`: whatever a click or an answer names is a
  repository the registry has (`PanelsPlaced`).
* *Annotations*.  `MergeTabulates` shows the merged rows to be a table of the two
  sources; `FetchedBody` says where a fetched manifest has its annotations and its config
  from; `NotesAre` and `PickIsEntry` say whose rows a fallback shows.
* *Layers*.  `BuildLayerRows` numbers the layers by counting history steps.  `Threads`
  says the same without counting: a walk over the rows that at each step either takes the
  next layer or shows none, and ends behind the last (`RowsThread`).  From it follow the
  order (`ThreadedOrder`) and the sum of sizes (`ThreadedSize`).
* *Tags*.  A selection keeps the order of what it selects (`KeptMeaning`), a sort by an
  ordering puts every member somewhere and nothing before what precedes it
  (`InOrderMeaning`), and comparing version keys component by component is an ordering
  (`KeysOrdered`, `KeysChain`).  So the first tag of `SortTags` is a greatest
  (`FirstIsNewest`).
* *Columns*.  `Coherent` alone is not inductive: nothing in it says what a late answer
  does.  `ColumnsInv` adds, of each request that will swap the tag list, that it was sent
  from the list still there or has been detached, and that its answer brings what it asked
  for (`Listing`); that a page which failed to render offers nothing to click (`Idle`); and
  that without overlap at most one fragment is under way, sent from the document as it is
  (`Calm`).
* *Types*.  `TypeInv` adds to `ColumnsInv` the shapes of the rest (`Typed`); a limit is at
  most a page for each click so far and one more (`Extent`), which bounds it.

Where a statement is about every length (a sum, a walk over rows, a sort), the induction
is over a set of places, from a least counterexample (`Upwards`, `LeastNatural`), since
the library's induction theorems take an operator as a parameter, which the provers
cannot instantiate.

Only model-checked: liveness (`Answers` of two modules, `Terminates`), which together with
ENABLED is out of the prover's reach.

## 5. Remarks on the code

Met while modelling, and either outside a property or stated in it as an exception:

* A registry that caps its pages below `n` and sends no `Link` is listed only up to
  its first page (`registry/client.py:623`), although the doc of `iter_repositories`
  says "Servers may cap this; honor what they return".  `ListsWhatIsThere` excludes it.
* `infer_scope` has no pattern for `/v2/<repo>/referrers/<digest>` (`registry/bearer.py:82`),
  which `registry/client.py:364` asks for with every image panel: each of them dances, with a
  good token in the cache.  `SkipsDance` does not claim it.
* A platform child's page of a registry that omits `Docker-Content-Digest` answers 500
  (`manifest_info.html:112`), though a panel without a digest is provided for everywhere else.
  `BestEffort` names it.
* Nothing compares a page of a listing with the size asked for: a registry that ignores `?n=`
  fills memory with one page, whatever `max_pages` says.  `WorkBounded` counts in its pages.
* `find_any` returns the first usable token of a scope whatever its service, so
  after a registry changes its service name an old token hides the new one until it
  expires and each request dances (`SkipsDance` has `renames = 0`).
* `audit.py:37-41` provides for a delete by a session with registry credentials and
  no UI identity; `require_admin` answers it 401 before.
* With `ADMIN_USERNAME` set to nothing beside a hash, public mode starts and its UI
  logins raise in `get_auth_provider` instead of answering 403.
* A lost answer to a DELETE, or a crash before the event, leaves a deletion
  unaudited: `AuditExact` speaks of the deletions that were reported as done.
* Registry credentials in a session outlive `ALLOW_REGISTRY_LOGIN`.
* A config blob that is JSON but no image config (a Helm chart, an ORAS artifact) makes
  every page and fragment of that manifest answer 500 (`registry/client.py:346`), while
  `api/manifests.py:103` calls the config fetch best-effort and `web/routes.py:618-620`
  means the auto-selection to fall back to a placeholder.  `BestEffort` names this case,
  and an index whose only child is such an image shares it.
* A failed repository list hides a manifest that was fetched: `error = repo_err`
  (`web/routes.py:489-490`) reaches `manifest_info.html`, which shows the message in
  place of the panel.  A click on the tag shows it.
* A tag fragment that fails is a paragraph without `id="tag-list"`
  (`tag_list.html:42-43`): the filter has no target until a repository is picked again.
  `repos_fragment` drops its error and shows an empty list.
* A tag clicked just before another repository leaves, if its answer is the later one,
  that tag's panel and URL beside the other repository's tags; a Load more that is
  answered after a keystroke leaves a list the filter box does not describe.  `Coherent`
  claims the whole only of requests that did not overlap.
* Schema 1: `fsLayers` parallels `history`, but `_build_v1_history` drops strings that do
  not decode and `build_layer_rows` gives throwaway steps no layer, so instructions move
  to other layers (`registry/parser.py:332-347`).  `LayersComplete` claims order and
  completeness, which hold, not that pairing.
* `_fetch_tags` sorts after cutting at 5000: `AutoTagNewest` speaks of the tags read.
* `README.md:98` forbids a plaintext `ADMIN_PASSWORD` altogether, while
  `tests/test_auth_config.py:199-210` allow it beside a hash or a file: of the run `plaintext`,
  the code's side is the intended one.
* htmx restores a page on Back from its snapshot, `data-bound` marks included, so `init`
  leaves the restored buttons without listeners until a reload (`layerloupe.js:509`
  listens for `afterSwap` only).  Read off the code, not modelled.
* `api/manifests.py:160-164` resolves a tag for its referrers by a HEAD without the
  manifest types in `Accept`, and takes the tag for the digest when the answer has none.

## 6. Plan

Done: the modules above.  Left, in this order:

1. The browser's history, if htmx's snapshots are to be relied on.
2. Proofs about the functions of `Views` that no property of `WebShell` rests on
   (`ParseReferrers`, `ClassifyArtifact`).

Not modelled: logging, error pages and application wiring (`main.py`, `logging.py`,
`api/system.py`), which pass on what the handlers raise; formatting (`humanize.py`, pull
commands, match highlighting), which is text; the rest of `layerloupe.js` (theme, tabs,
copying, keyboard, scrolling), each a single listener without shared state; Docker and CI
files.
