------------------------------ MODULE WebShell ------------------------------
(***************************************************************************)
(* web/routes.py and the templates it renders, with one browser showing    *)
(* them: full pages, the fragments htmx swaps into the three columns, the  *)
(* URL it pushes, and the delete dialog inside the manifest panel, against *)
(* a registry whose exchanges may fail and whose tags other people move,   *)
(* which a client that caches manifests finds out late.                    *)
(*                                                                         *)
(* A click sends a fragment request; the server answers it in one step     *)
(* (what a handler's awaits interleave with is RegistryClient's subject);  *)
(* answers arrive in any order.  A full page load replaces everything in   *)
(* one step.  htmx resolves the element to swap when the request is sent,  *)
(* does not swap a 4xx or 5xx, pushes the URL with the swap, and lets one  *)
(* element have one request in flight.                                     *)
(***************************************************************************)
EXTENDS Views

CONSTANTS
    Worlds,      \* what the registry may hold, see world
    Matching,    \* Matching[q]: the names that filter text q matches
    PAGE,        \* names shown at first, and more at each Load more
    RepoCap,     \* the names _fetch_repos reads before it stops
    TagCap,      \* the tags _fetch_tags reads before it stops
    MaxClicks,   \* bound on what the user does
    MaxFaults,   \* bound on the handler runs in which an exchange fails
    MaxPushes    \* bound on the tags that other people move

ASSUME PageAssumption == {PAGE, RepoCap, TagCap} \subseteq Nat \ {0}
ASSUME BoundAssumption == {MaxClicks, MaxFaults, MaxPushes} \subseteq Nat

\* Every repository lists tags it has; the entries of an index are a list, and name
\* manifests by digest, which no tag looks like (_DIGEST_RE of client.py).
ASSUME WorldsAssumption ==
    \A w \in Worlds :
        /\ ToSet(w.repos) \cup {""} \subseteq DOMAIN w.tag
        /\ \A repo \in ToSet(w.repos) \cup {""} :
              /\ w.listing[repo] \in Seq(ToSet(w.listing[repo]))
              /\ ToSet(w.listing[repo]) \subseteq DOMAIN w.tag[repo]
        /\ \A d \in DOMAIN w.body :
              /\ w.body[d].entries \in Seq(ToSet(w.body[d].entries))
              /\ \A e \in ToSet(w.body[d].entries), repo \in DOMAIN w.tag :
                    e.digest \notin DOMAIN w.tag[repo]

\* In bodies and configs, what is a list or may be missing is one, sizes are numbers,
\* flags are Booleans, and annotations and labels have keys of the table.
ASSUME BodiesAssumption ==
    \A w \in Worlds :
        /\ \A d \in DOMAIN w.body :
              LET m == w.body[d] IN
              /\ m.config = Nothing \/ \E c \in DOMAIN w.config : m.config = Just(c)
              /\ \A e \in ToSet(m.entries) : e.platform = Nothing \/ e.platform = Just(e.platform[1])
              /\ m.layers \in Seq(ToSet(m.layers)) /\ \A x \in ToSet(m.layers) : x.size \in Int
              /\ m.history \in Seq(ToSet(m.history))
              /\ \A s \in ToSet(m.history) :
                    s.throwaway \in BOOLEAN /\ DOMAIN s.labels \subseteq ToSet(Keys)
              /\ DOMAIN m.annotations \subseteq ToSet(Keys)
        /\ \A c \in DOMAIN w.config :
              LET config == w.config[c] IN
              /\ config.history \in Seq(ToSet(config.history))
              /\ \A s \in ToSet(config.history) : s.empty \in BOOLEAN
              /\ DOMAIN config.labels \subseteq ToSet(Keys)

VARIABLES
    world,       \* the registry: [admin, header, repos, listing, tag, moving, body,
                 \* config, referrers], fixed; admin: who is logged in here; tag:
                 \* what the tags name at first; moving: the tags, as
                 \* << repo, tag >>, that somebody pushes to
    gone,        \* the manifests deleted from it, as << repo, digest >>
    now,         \* now[repo][t]: the digest that tag t names now
    cached,      \* cached[repo][t]: what the client reads for it: [digest, at], at
                 \* (history): how many pushes there had been when it read that
    pushes,      \* history: the moves of tags, << repo, t, digest >> each
    url,         \* the location bar: [page, repo, ref, platform]
    repoCol,     \* the repository column: [names, filter, limit, more]
    filterBox,   \* the tag filter: [repo, text], repo "" while there is none
    tagCol,      \* the tag column: [repo, state, names, filter, limit, more]
    panel,       \* what #info-column-body shows
    dialog,      \* the panel's delete dialog: [open, text, enabled]
    pending,     \* htmx requests sent and not yet swapped in
    clicks, faults,
    overlapped,  \* history: a request was sent while another was in flight
    deletes,     \* history: the DELETEs sent, with what the dialog said
    removed      \* history: the manifests deleted: [repo, ref, digest]

columns == << url, repoCol, filterBox, tagCol, panel, dialog >>
tagging == << now, cached, pushes >>
vars == << world, gone, tagging, columns, pending, clicks, faults, overlapped, deletes, removed >>

PanelExchanges == {"manifest", "config", "referrers", "child", "childConfig"}

\* Which of the exchanges a handler makes fails while it runs: one at most, and
\* that MaxFaults times.
Outages(exchanges) == {{}} \cup IF faults < MaxFaults THEN {{e} : e \in exchanges} ELSE {}
CountFault(down) == faults' = faults + Cardinality(down)

-----------------------------------------------------------------------------
\* The registry as the client reports it.

IsTag(repo, ref) == repo \in DOMAIN world.tag /\ ref \in DOMAIN world.tag[repo]
Has(repo, digest) == digest \in DOMAIN world.body /\ << repo, digest >> \notin gone

\* What get_manifest reads for a reference: a tag's manifest may be a cached one, and
\* no longer the tag's.
Reads(repo, ref) == IF IsTag(repo, ref) THEN cached[repo][ref] ELSE [digest |-> ref, at |-> 0]
DigestOf(repo, ref) == Reads(repo, ref).digest
Exists(repo, ref) == Has(repo, DigestOf(repo, ref))

Matches(name, q) == q = "" \/ name \in Matching[q]
FirstOf(n, seq) == SubSeq(seq, 1, IF n < Len(seq) THEN n ELSE Len(seq))

\* _fetch_repos and _fetch_tags: filtered, cut and, for tags, sorted.
FetchRepos(q) ==
    FirstOf(RepoCap, Kept(world.repos, {i \in DOMAIN world.repos : Matches(world.repos[i], q)}))
FetchTags(repo, q) ==
    LET listed == world.listing[repo]
    IN  SortTags(FirstOf(TagCap, Kept(listed, {i \in DOMAIN listed :
                         Has(repo, now[repo][listed[i]]) /\ Matches(listed[i], q)})))

-----------------------------------------------------------------------------
\* Handlers: what they fetch.  An outcome is "ok", "error" (a RegistryError)
\* or "crash" (pydantic's ValidationError, which is none and which no handler
\* catches).

Failed(out) == [out |-> out]

\* get_image_config as _fetch_manifest uses it.
FetchConfig(m, failing) ==
    IF ~HasConfigBlob(ClassifyMediaType(m.mediaType)) \/ m.config = Nothing \/ failing
    THEN [out |-> "ok", config |-> Nothing]
    ELSE IF ~world.config[m.config[1]].valid THEN Failed("crash")
    ELSE [out |-> "ok", config |-> Just(world.config[m.config[1]])]

\* What _fetch_manifest makes of a body and the config it went on to fetch.
Parse(m, digest, c) ==
    IF c.out # "ok" THEN c
    ELSE IF ClassifyMediaType(m.mediaType) = "unknown" THEN Failed("error")
    ELSE IF ~m.valid THEN Failed("crash")
    ELSE [out |-> "ok",
          u |-> ToUnified(m, IF world.header THEN Just(digest) ELSE Nothing, c.config)]

\* _fetch_manifest, whose exchanges are named fetch and fetchConfig.
FetchManifest(repo, ref, down, fetch, fetchConfig) ==
    IF fetch \in down \/ ~Exists(repo, ref) THEN Failed("error")
    ELSE LET digest == DigestOf(repo, ref)
             m == world.body[digest]
         IN  Parse(m, digest, FetchConfig(m, fetchConfig \in down))

\* Mutant of FetchReferrers: the registry's errors are passed on.
FetchReferrers_Raises(u, down) ==
    IF u.digest = Nothing \/ u.type # "image" \/ u.kind = "docker_v1"
    THEN [out |-> "ok", rows |-> << >>]
    ELSE IF "referrers" \in down THEN Failed("error")
    ELSE [out |-> "ok", rows |-> ParseReferrers(world.referrers[u.digest[1]])]

\* _fetch_referrers: none for an index, for schema 1 or without a digest, and
\* none when the exchange fails.
FetchReferrers(u, down) ==
    IF u.digest = Nothing \/ u.type # "image" \/ u.kind = "docker_v1" \/ "referrers" \in down
    THEN [out |-> "ok", rows |-> << >>]
    ELSE [out |-> "ok", rows |-> ParseReferrers(world.referrers[u.digest[1]])]

NoAnnotations == [out |-> "ok", rows |-> << >>, source |-> Nothing]

\* The rows of the child fetched in place of an index's own.
ChildAnnotations(platform, child) ==
    IF child.out = "crash" THEN child
    ELSE IF child.out = "error" \/ AnnotationRows(child.u) = << >> THEN NoAnnotations
    ELSE [NoAnnotations EXCEPT !.rows = AnnotationRows(child.u), !.source = Just(platform)]

\* _annotation_rows_with_fallback.
AnnotationsWithFallback(repo, u, down) ==
    LET pick == FallbackPick(u.platforms) IN
    IF AnnotationRows(u) # << >> \/ u.type # "index"
    THEN [NoAnnotations EXCEPT !.rows = AnnotationRows(u)]
    ELSE IF pick = Nothing THEN NoAnnotations
    ELSE ChildAnnotations(pick[1].platform,
                          FetchManifest(repo, pick[1].digest[1], down, "child", "childConfig"))

-----------------------------------------------------------------------------
\* Panels.  kind: "hint" (nothing selected), "shown", "error" (the message in
\* place of the manifest), "broken" (no panel: the handler crashed).  asked: the
\* reference fetched; found: what the client read for it, if there was that manifest;
\* autoFrom: the tags it was selected from, if not by the user.

BlankPanel(kind, repo, ref, asked, down) ==
    [kind |-> kind, repo |-> repo, ref |-> ref, parent |-> Nothing, asked |-> asked,
     found |-> Nothing, autoFrom |-> {}, down |-> down, u |-> Nothing, layers |-> << >>,
     annotations |-> << >>, source |-> Nothing, referrers |-> << >>]

\* The panel of a manifest that was fetched.
FilledPanel(blank, parent, u, refs, notes) ==
    IF "crash" \in {refs.out, notes.out} THEN [blank EXCEPT !.kind = "broken"]
    ELSE IF "error" \in {refs.out, notes.out} THEN [blank EXCEPT !.kind = "error"]
    ELSE [blank EXCEPT !.kind = "shown", !.parent = parent, !.u = Just(u),
                       !.layers = LayerRows(u), !.annotations = notes.rows,
                       !.source = notes.source, !.referrers = refs.rows]

PanelOf(blank, parent, got, down) ==
    CASE got.out = "ok" -> FilledPanel(blank, parent, got.u, FetchReferrers(got.u, down),
                                       AnnotationsWithFallback(blank.repo, got.u, down))
      [] got.out = "error" -> blank
      [] got.out = "crash" -> [blank EXCEPT !.kind = "broken"]

\* The fetches that manifest_page, manifest_fragment and tags_fragment share, and
\* the panel that comes of them.
ManifestPanel(repo, ref, platform, down) ==
    LET asked == IF platform = Nothing THEN ref ELSE platform[1]
        found == IF Exists(repo, asked) THEN Just(Reads(repo, asked)) ELSE Nothing
    IN  PanelOf([BlankPanel("error", repo, ref, asked, down) EXCEPT !.found = found],
                IF platform = Nothing THEN Nothing ELSE Just(ref),
                FetchManifest(repo, asked, down, "manifest", "config"), down)

Column(all, q, limit) ==
    [names |-> FirstOf(limit, all), filter |-> q, limit |-> limit, more |-> limit < Len(all)]

TagColumn(repo, state, all, q, limit) ==
    [repo |-> repo, state |-> state, names |-> FirstOf(limit, all), filter |-> q,
     limit |-> limit, more |-> limit < Len(all)]

NoTags == TagColumn("", "none", << >>, "", PAGE)
NoFilter == [repo |-> "", text |-> ""]
Closed == [open |-> FALSE, text |-> Nothing, enabled |-> FALSE]

-----------------------------------------------------------------------------
\* Page routes.

URL(page, repo, ref, platform) ==
    [page |-> page, repo |-> repo, ref |-> ref, platform |-> platform]
HomeURL == URL("home", "", "", Nothing)
TagsURL(repo) == URL("tags", repo, "", Nothing)
ManifestURL(repo, ref) == URL("manifest", repo, ref, Nothing)
PlatformURL(repo, ref, child) == URL("manifest", repo, ref, Just(child))

\* The template of the panel: above a platform child it puts the start of its
\* digest, and fails if there is none.
Rendered(p) ==
    IF p.kind = "shown" /\ p.parent # Nothing /\ p.u[1].digest = Nothing
    THEN [BlankPanel("broken", p.repo, p.ref, p.asked, p.down) EXCEPT
             !.parent = p.parent, !.found = p.found]
    ELSE p

\* The manifest column of a full page: an error anywhere, the repository list's
\* included, is shown instead of the manifest.
PagePanel(u, down) ==
    LET asked == IF u.platform = Nothing THEN u.ref ELSE u.platform[1]
        error == BlankPanel("error", u.repo, u.ref, asked, down)
        Shadowed(p) == IF "repos" \in down /\ p.kind = "shown" THEN error ELSE p
    IN  IF u.page # "manifest" THEN BlankPanel("hint", u.repo, "", "", down)
        ELSE IF "tags" \in down THEN error
        ELSE Rendered(Shadowed(ManifestPanel(u.repo, u.ref, u.platform, down)))

\* The document of a page with panel p; a failed list is an empty one here.
Render(u, down, p) ==
    LET bare == p.kind = "broken"
        repos == IF "repos" \in down \/ bare THEN << >> ELSE FetchRepos("")
        tags == IF "tags" \in down THEN << >> ELSE FetchTags(u.repo, "")
    IN  /\ url' = u
        /\ panel' = p
        /\ repoCol' = Column(repos, "", PAGE)
        /\ tagCol' = IF bare \/ u.repo = "" THEN NoTags
                     ELSE TagColumn(u.repo, "list", tags, "", PAGE)
        /\ filterBox' = IF bare THEN NoFilter ELSE [repo |-> u.repo, text |-> ""]
        /\ dialog' = Closed

\* home, repository_page and manifest_page.
LoadPage(u, down) == Render(u, down, PagePanel(u, down))

-----------------------------------------------------------------------------
\* Fragment routes.  An answer says what it swaps in and the URL it pushes:
\* hx-push-url of the link clicked, unless the HX-Push-Url header says otherwise.

NoSwap == [ok |-> TRUE, repoCol |-> Nothing, tagCol |-> Nothing, filterBox |-> Nothing,
           panel |-> Nothing, push |-> Nothing]

ReposFragment(r, down) ==
    LET repos == IF "repos" \in down THEN << >> ELSE FetchRepos(r.q)
    IN  [NoSwap EXCEPT !.repoCol = Just(Column(repos, r.q, r.limit))]

\* The out-of-band panel of a freshly picked repository: that of its first tag,
\* or the placeholder when it cannot be had.
AutoPanel(tags, p) ==
    [p EXCEPT !.autoFrom = ToSet(tags),
              !.ref = IF p.kind = "error" THEN "" ELSE tags[1],
              !.kind = IF @ = "error" THEN "hint" ELSE @]

\* Mutant of PickedRepo: the HX-Push-Url header is not set.
PickedRepo_NoPushHeader(r, list, p, push) ==
    [list EXCEPT !.ok = p.kind # "broken", !.panel = Just(p),
                 !.filterBox = Just([repo |-> r.repo, text |-> r.q])]

\* A fresh pick also brings the panel, the filter box and the URL of the panel.
PickedRepo(r, list, p, push) ==
    [list EXCEPT !.ok = p.kind # "broken", !.panel = Just(p), !.push = push,
                 !.filterBox = Just([repo |-> r.repo, text |-> r.q])]

\* tags_fragment once it has the tags.
TagsAnswer(r, state, tags, down) ==
    LET list == [NoSwap EXCEPT !.tagCol = Just(TagColumn(r.repo, state, tags, r.q, r.limit)),
                               !.push = r.push]
    IN  IF r.kind = "filter" \/ r.limit > PAGE THEN list
        ELSE IF tags = << >>
        THEN PickedRepo(r, list, BlankPanel("hint", r.repo, "", "", down), r.push)
        ELSE PickedRepo(r, list,
                        AutoPanel(tags, ManifestPanel(r.repo, tags[1], Nothing, down)),
                        Just(ManifestURL(r.repo, tags[1])))

TagsFragment(r, down) ==
    IF "tags" \in down THEN TagsAnswer(r, "error", << >>, down)
    ELSE TagsAnswer(r, "list", FetchTags(r.repo, r.q), down)

PanelAnswer(r, p) == [NoSwap EXCEPT !.ok = p.kind # "broken", !.panel = Just(p), !.push = r.push]
ManifestFragment(r, down) == PanelAnswer(r, ManifestPanel(r.repo, r.ref, Nothing, down))

Answer(r, down) ==
    CASE r.kind = "repos" -> ReposFragment(r, down)
      [] r.kind \in {"tags", "filter", "more"} -> TagsFragment(r, down)
      [] r.kind = "manifest" -> ManifestFragment(r, down)

-----------------------------------------------------------------------------
\* The browser.  A request in flight: its element is told by kind, repo and ref.

Request(kind, repo, ref) ==
    [kind |-> kind, repo |-> repo, ref |-> ref, q |-> "", limit |-> PAGE,
     push |-> Nothing, attached |-> TRUE, answer |-> Nothing]

\* Mutant of Target: the filter swaps the whole column body.
Target_FilterColumn(kind) ==
    CASE kind = "repos" -> "repo-list"
      [] kind \in {"tags", "filter"} -> "tag-column-body"
      [] kind = "more" -> "tag-list"
      [] kind = "manifest" -> "info-column-body"
      [] kind = "delete" -> "none"

\* hx-target.
Target(kind) ==
    CASE kind = "repos" -> "repo-list"
      [] kind = "tags" -> "tag-column-body"
      [] kind \in {"filter", "more"} -> "tag-list"
      [] kind = "manifest" -> "info-column-body"
      [] kind = "delete" -> "none"

\* The element that a swap of target takes out of the document.
Removes(target) == IF target = "tag-column-body" THEN "tag-list" ELSE target
Persistent == {"tag-column-body", "info-column-body", "none"}

SameElement(r, q) == r.kind = q.kind /\ r.repo = q.repo /\ r.ref = q.ref

Send(r) ==
    /\ clicks < MaxClicks
    /\ ~\E q \in pending : SameElement(q, r)
    /\ pending' = pending \cup {r}
    /\ clicks' = clicks + 1
    /\ overlapped' = (overlapped \/ \E q \in pending : q.kind # "delete")
    /\ UNCHANGED << world, gone, tagging, faults, removed >>

\* showModal makes the page behind the dialog inert.
Click(r) == ~dialog.open /\ Send(r) /\ UNCHANGED << columns, deletes >>

ClickRepo(repo) ==
    /\ repo \in ToSet(repoCol.names)
    /\ Click([Request("tags", repo, "") EXCEPT !.push = Just(TagsURL(repo))])

ClickTag(tag) ==
    /\ tag \in ToSet(tagCol.names)
    /\ Click([Request("manifest", tagCol.repo, tag) EXCEPT
                 !.push = Just(ManifestURL(tagCol.repo, tag))])

ClickReferrer(i) ==
    /\ i \in DOMAIN panel.referrers
    /\ LET digest == panel.referrers[i].digest IN
       Click([Request("manifest", panel.repo, digest) EXCEPT
                !.push = Just(ManifestURL(panel.repo, digest))])

FilterRepos(q) == panel.kind # "broken" /\ Click([Request("repos", "", "filter") EXCEPT !.q = q])

MoreRepos ==
    /\ repoCol.more
    /\ Click([Request("repos", "", "more") EXCEPT !.q = repoCol.filter,
                                                  !.limit = repoCol.limit + PAGE])

MoreTags ==
    /\ tagCol.more
    /\ Click([Request("more", tagCol.repo, "") EXCEPT !.q = tagCol.filter,
                                                      !.limit = tagCol.limit + PAGE])

\* Typing into the tag filter.  Without a #tag-list to swap (the last answer was
\* an error message) htmx sends nothing.
FilterTags(q) ==
    LET r == [Request("filter", filterBox.repo, "") EXCEPT !.q = q] IN
    /\ ~dialog.open
    /\ filterBox.repo # "" /\ q # filterBox.text
    /\ filterBox' = [filterBox EXCEPT !.text = q]
    /\ IF tagCol.state = "list" THEN Send(r)
       ELSE /\ clicks < MaxClicks
            /\ clicks' = clicks + 1
            /\ UNCHANGED << world, gone, tagging, faults, removed, pending, overlapped >>
    /\ UNCHANGED << url, repoCol, tagCol, panel, dialog, deletes >>

-----------------------------------------------------------------------------
\* The delete dialog.  It is part of the panel and names the panel's reference.

DeleteTarget(p) == [repo |-> p.repo, ref |-> p.ref]
Title(p) == [repo |-> p.repo, ref |-> IF p.parent = Nothing THEN p.ref ELSE p.parent[1]]

\* The line "Resolves to digest", if it is there.
ResolvesTo(p) == IF p.u = Nothing THEN Nothing ELSE p.u[1].digest

DialogStep == UNCHANGED << world, gone, tagging, url, repoCol, filterBox, tagCol, panel, faults, removed >>
Typing == DialogStep /\ UNCHANGED << pending, clicks, overlapped, deletes >>

\* Mutant of OpenDialog: reopening clears the text and leaves the button as it was.
OpenDialog_ButtonStays ==
    /\ world.admin /\ panel.kind = "shown" /\ ~dialog.open
    /\ dialog' = [dialog EXCEPT !.open = TRUE, !.text = Nothing]
    /\ Typing

OpenDialog ==
    /\ world.admin /\ panel.kind = "shown" /\ ~dialog.open
    /\ dialog' = [open |-> TRUE, text |-> Nothing, enabled |-> FALSE]
    /\ Typing

\* Typing the name asked for enables the button; anything else disables it.
TypeName ==
    /\ dialog.open /\ dialog.text = Nothing
    /\ dialog' = [dialog EXCEPT !.text = Just(DeleteTarget(panel)), !.enabled = TRUE]
    /\ Typing

EraseName ==
    /\ dialog.open /\ dialog.text # Nothing
    /\ dialog' = [dialog EXCEPT !.text = Nothing, !.enabled = FALSE]
    /\ Typing

CancelDialog ==
    /\ dialog.open
    /\ dialog' = [dialog EXCEPT !.open = FALSE]
    /\ Typing

\* The button or the Enter key.
ConfirmDelete ==
    /\ dialog.open /\ dialog.enabled
    /\ Send(Request("delete", panel.repo, panel.ref))
    /\ deletes' = deletes \cup {[repo |-> panel.repo, ref |-> panel.ref,
                                 typed |-> dialog.text, title |-> Title(panel),
                                 child |-> panel.parent # Nothing,
                                 promised |-> ResolvesTo(panel), found |-> panel.found]}
    /\ UNCHANGED columns

-----------------------------------------------------------------------------
\* The server answers; the browser swaps.

ServeFragment(r, down) ==
    /\ r.kind # "delete" /\ r.answer = Nothing
    /\ pending' = (pending \ {r}) \cup {[r EXCEPT !.answer = Just(Answer(r, down))]}
    /\ CountFault(down)
    /\ UNCHANGED << world, gone, tagging, columns, clicks, overlapped, deletes, removed >>

\* Mutant of DeletedDigest: the tag's first manifest.
DeletedDigest_First(r) == IF IsTag(r.repo, r.ref) THEN world.tag[r.repo][r.ref] ELSE r.ref

\* What client.delete_manifest deletes: the digest given, or the one that a HEAD,
\* which nothing caches, finds the tag to name now.
DeletedDigest(r) == IF IsTag(r.repo, r.ref) THEN now[r.repo][r.ref] ELSE r.ref

\* delete_manifest_via_web.  Nobody listens to a request that a page load left behind.
ServeDelete(r, down) ==
    LET digest == DeletedDigest(r)
        ok == /\ "manifest" \notin down /\ Has(r.repo, digest)
              /\ IsTag(r.repo, r.ref) => world.header
    IN  /\ r.kind = "delete" /\ r.answer = Nothing
        /\ gone' = IF ok THEN gone \cup {<< r.repo, digest >>} ELSE gone
        /\ removed' = IF ok THEN removed \cup {[repo |-> r.repo, ref |-> r.ref, digest |-> digest]}
                      ELSE removed
        /\ pending' = (pending \ {r}) \cup
                         IF r.attached THEN {[r EXCEPT !.answer = Just([NoSwap EXCEPT !.ok = ok])]}
                         ELSE {}
        /\ CountFault(down)
        /\ UNCHANGED << world, tagging, columns, clicks, overlapped, deletes >>

\* A swap of the panel replaces its dialog by the new panel's, closed.
SwappedDialog(a) == IF a.panel = Nothing THEN dialog ELSE Closed

Swapped(option, old) == IF option = Nothing THEN old ELSE option[1]

\* htmx swaps an answer in, unless it is a 5xx or its target has been removed.
Deliver(r) ==
    /\ r.kind # "delete" /\ r.answer # Nothing
    /\ LET a == r.answer[1]
           swaps == a.ok /\ r.attached
           new == IF swaps THEN a ELSE NoSwap
           out == IF swaps THEN Removes(Target(r.kind)) ELSE "none"
       IN  /\ url' = Swapped(new.push, url)
           /\ repoCol' = Swapped(new.repoCol, repoCol)
           /\ tagCol' = Swapped(new.tagCol, tagCol)
           /\ filterBox' = Swapped(new.filterBox, filterBox)
           /\ panel' = Swapped(new.panel, panel)
           /\ dialog' = SwappedDialog(new)
           /\ pending' = {[q EXCEPT !.attached = @ /\ (Target(q.kind) \in Persistent
                                                       \/ Target(q.kind) # out)]
                            : q \in pending \ {r}}
    /\ UNCHANGED << world, gone, tagging, clicks, faults, overlapped, deletes, removed >>

\* A full page load leaves behind only deletes still to be served.
Load(u, down) ==
    /\ LoadPage(u, down)
    /\ pending' = {[q EXCEPT !.attached = FALSE]
                     : q \in {q \in pending : q.kind = "delete" /\ q.answer = Nothing}}
    /\ CountFault(down)
    /\ overlapped' = FALSE
    /\ UNCHANGED << world, gone, tagging, deletes, removed >>

\* Success redirects to the repository's tag list; a failure changes nothing.
DeliverDelete(r, down) ==
    /\ r.kind = "delete" /\ r.answer # Nothing
    /\ UNCHANGED clicks
    /\ IF r.answer[1].ok THEN Load(TagsURL(r.repo), down)
       ELSE /\ down = {}
            /\ pending' = pending \ {r}
            /\ UNCHANGED << world, gone, tagging, columns, faults, overlapped, deletes, removed >>

\* The pages a user can open: the location bar, a bookmark, a platform card of an
\* index, the way back from one.
Pages ==
    {HomeURL}
    \cup {TagsURL(repo) : repo \in ToSet(world.repos)}
    \cup (UNION {{ManifestURL(repo, t) : t \in DOMAIN world.tag[repo]} : repo \in ToSet(world.repos)})
    \cup IF panel.kind = "shown" /\ panel.u[1].type = "index"
         THEN {PlatformURL(panel.repo, panel.ref, p.digest[1])
                  : p \in ToSet(DisplayPlatforms(panel.u[1]))}
         ELSE {}

Visit(u, down) == clicks < MaxClicks /\ clicks' = clicks + 1 /\ Load(u, down)

-----------------------------------------------------------------------------
\* Other people push one of the repository's manifests under a tag (external).
Push(repo, t, digest) ==
    /\ Len(pushes) < MaxPushes
    /\ << repo, t >> \in world.moving /\ Has(repo, digest) /\ digest # now[repo][t]
    /\ now' = [now EXCEPT ![repo][t] = digest]
    /\ pushes' = Append(pushes, << repo, t, digest >>)
    /\ UNCHANGED << world, gone, cached, columns, pending, clicks, faults, overlapped,
                     deletes, removed >>

\* The cached manifest of a tag expires: from now on the client finds the tag's.
Expire(repo, t) ==
    /\ cached[repo][t].digest # now[repo][t]
    /\ cached' = [cached EXCEPT ![repo][t] = [digest |-> now[repo][t], at |-> Len(pushes)]]
    /\ UNCHANGED << world, gone, now, pushes, columns, pending, clicks, faults, overlapped,
                     deletes, removed >>

-----------------------------------------------------------------------------
Init ==
    /\ world \in Worlds
    /\ now = world.tag /\ pushes = << >>
    /\ cached = [repo \in DOMAIN world.tag |->
                    [t \in DOMAIN world.tag[repo] |-> [digest |-> world.tag[repo][t], at |-> 0]]]
    /\ url = HomeURL
    /\ panel = BlankPanel("hint", "", "", "", {})
    /\ repoCol = Column(FetchRepos(""), "", PAGE)
    /\ tagCol = NoTags /\ filterBox = NoFilter /\ dialog = Closed
    /\ gone = {} /\ pending = {} /\ deletes = {} /\ removed = {}
    /\ clicks = 0 /\ faults = 0 /\ overlapped = FALSE

\* The exchanges of each handler.
PageExchanges(u) ==
    {"repos"} \cup (IF u.page = "home" THEN {} ELSE {"tags"})
              \cup (IF u.page = "manifest" THEN PanelExchanges ELSE {})
FragmentExchanges(r) ==
    CASE r.kind = "repos" -> {"repos"}
      [] r.kind = "tags" -> {"tags"} \cup PanelExchanges
      [] r.kind \in {"filter", "more"} -> {"tags"}
      [] r.kind = "manifest" -> PanelExchanges
      [] r.kind = "delete" -> {"manifest"}

Filters == {""} \cup DOMAIN Matching

Browse ==
    \/ \E repo \in ToSet(world.repos) : ClickRepo(repo)
    \/ \E tag \in ToSet(tagCol.names) : ClickTag(tag)
    \/ \E i \in DOMAIN panel.referrers : ClickReferrer(i)
    \/ \E q \in Filters : FilterRepos(q) \/ FilterTags(q)
    \/ MoreRepos \/ MoreTags
    \/ \E u \in Pages : \E down \in Outages(PageExchanges(u)) : Visit(u, down)

Dialog == OpenDialog \/ TypeName \/ EraseName \/ CancelDialog \/ ConfirmDelete

Answers ==
    \E r \in pending :
        \/ \E down \in Outages(FragmentExchanges(r)) : ServeFragment(r, down) \/ ServeDelete(r, down)
        \/ \E down \in Outages({"repos", "tags"}) : DeliverDelete(r, down)
        \/ Deliver(r)

Others ==
    \E repo \in ToSet(world.repos) : \E t \in DOMAIN world.tag[repo] :
        \/ \E digest \in DOMAIN world.body : Push(repo, t, digest)
        \/ Expire(repo, t)

Next == Browse \/ Dialog \/ Answers \/ Others
Spec == Init /\ [][Next]_vars
-----------------------------------------------------------------------------
\* Type invariant: the columns, the location bar and the requests in flight have
\* the shapes the handlers, htmx and layerloupe.js give them.
TypeOK ==
    /\ world \in Worlds
    /\ \A g \in gone : g[1] \in ToSet(world.repos) /\ g[2] \in DOMAIN world.body
    /\ url.page \in {"home", "tags", "manifest"} /\ Len(url.platform) <= 1
    /\ panel.kind \in {"hint", "shown", "error", "broken"}
    /\ panel.kind = "shown" <=> panel.u # Nothing
    /\ tagCol.state \in {"none", "list", "error"} /\ Len(tagCol.names) <= tagCol.limit
    /\ dialog.open => panel.kind = "shown" /\ world.admin
    /\ dialog.enabled <=> dialog.text # Nothing
    /\ \A r \in pending : r.limit \in PAGE..(PAGE * (MaxClicks + 1)) /\ Len(r.answer) <= 1
    /\ clicks \in 0..MaxClicks /\ faults \in 0..MaxFaults /\ Len(pushes) \in 0..MaxPushes

\* The URL in the bar is the one that shows this panel again: a manifest URL while
\* that manifest (of that platform) is shown, a tag-list URL while none is, in
\* whatever order answers came back or failed (hx-push-url); beside a placeholder, it
\* is the URL of the tag that could not be had (the HX-Push-Url of tags_fragment).
UrlMatchesPanel ==
    /\ panel.kind = "shown" =>
          /\ url = URL("manifest", panel.repo, panel.ref,
                       IF panel.parent = Nothing THEN Nothing ELSE Just(panel.asked))
          /\ panel.parent \in {Nothing, Just(panel.ref)}
    /\ panel.kind # "shown" => url.repo = panel.repo
    /\ url.page = "manifest" /\ panel.kind = "hint" => url.ref = panel.asked

\* The tag column, its filter box and its list are of one repository whatever the
\* order of answers; and while requests have not overlapped since the page was
\* loaded, so are the panel and the URL, and the list is filtered by the box's text.
Coherent ==
    /\ tagCol.state # "none" => tagCol.repo = filterBox.repo
    /\ \A t \in ToSet(tagCol.names) : IsTag(tagCol.repo, t)
    /\ ~overlapped /\ {r \in pending : r.kind # "delete"} = {} /\ panel.kind # "broken" =>
          /\ tagCol.repo = panel.repo /\ url.repo = panel.repo
          /\ tagCol.state = "list" => tagCol.filter = filterBox.text

\* Somebody moved the tag to this digest after the client had read it as d.found.
PushedSince(d, digest) ==
    \E i \in (d.found[1].at + 1)..Len(pushes) : pushes[i] = << d.repo, d.ref, digest >>

\* Nothing is deleted that was not typed: a DELETE names what was typed into the
\* dialog since it was opened and what the title of the panel then said (the
\* type-to-confirm gate of layerloupe.js).  What the registry removes is the digest
\* the dialog stated, or, since delete_manifest looks the tag up again, the one that
\* somebody has moved the tag to since the client read what the panel shows; and
\* unless the panel showed a platform child.
DeleteConfirmed ==
    /\ \A d \in deletes : d.typed = Just([repo |-> d.repo, ref |-> d.ref])
                         /\ d.title = [repo |-> d.repo, ref |-> d.ref]
    /\ \A x \in removed : \E d \in deletes :
          /\ d.repo = x.repo /\ d.ref = x.ref
          /\ d.child \/ d.promised \in {Nothing, Just(x.digest)} \/ PushedSince(d, x.digest)

\* The dialog's "Resolves to digest" line names the manifest that confirming
\* deletes, as the comment in manifest_info.html has it ("its repository/reference
\* fields stay consistent with the displayed manifest").
DialogResolves ==
    \A x \in removed : \E d \in deletes :
        d.repo = x.repo /\ d.ref = x.ref /\ d.promised \in {Nothing, Just(x.digest)}

\* Every panel on screen or on its way there.
Panels == {panel} \cup UNION {ToSet(r.answer[1].panel) : r \in {q \in pending : q.answer # Nothing}}
Shown == {p \in Panels : p.kind = "shown"}
BodyOf(p) == world.body[p.found[1].digest]

\* The Layers tab of an image has every layer of the manifest exactly once and in
\* order, whatever the history narrates; every history step in order; and sizes
\* that add up to the size in the panel's head (build_layer_rows).
LayersComplete ==
    \A p \in {p \in Shown : p.u[1].type = "image"} :
        LET blobs == Kept(p.layers, {i \in DOMAIN p.layers : p.layers[i].digest # Nothing})
            history == IF p.u[1].config = Nothing THEN << >> ELSE p.u[1].config[1].history
        IN  /\ [i \in DOMAIN blobs |-> blobs[i].digest[1]]
                  = [i \in DOMAIN BodyOf(p).layers |-> BodyOf(p).layers[i].digest]
            /\ TotalSize(p.layers) = p.u[1].size
            /\ Len(p.layers) >= Len(history)
            /\ \A i \in DOMAIN history :
                  /\ p.layers[i].instruction = ParseCreatedBy(history[i].by)
                  /\ p.layers[i].empty = history[i].empty
                  /\ history[i].empty => p.layers[i].digest = Nothing
            /\ \A i \in (Len(history) + 1)..Len(p.layers) : p.layers[i].instruction = ""

\* The annotation table of what m and config say: each key once with the
\* manifest's value or else the label's, known keys before all others.
Tabulates(rows, notes, labels) ==
    /\ {rows[i].key : i \in DOMAIN rows} = DOMAIN notes \cup DOMAIN labels
    /\ \A i, j \in DOMAIN rows :
          /\ rows[i].key = rows[j].key => i = j
          /\ rows[i].key \in ToSet(OtherAnnotations) /\ rows[j].key \in ToSet(KnownAnnotations)
                => j < i
    /\ \A i \in DOMAIN rows : rows[i].value = IF rows[i].key \in DOMAIN notes
                                              THEN notes[rows[i].key] ELSE labels[rows[i].key]

\* The annotations of a manifest's own, and what may serve as its config: what it
\* refers to or, in schema 1, contains, or nothing when that could not be had.
NotesOf(m) == IF m.mediaType \in {"oci_index", "oci_image"} THEN m.annotations ELSE << >>
ConfigsOf(m) ==
    {Nothing} \cup CASE HasConfigBlob(m.mediaType) -> {Just(world.config[d]) : d \in ToSet(m.config)}
                     [] m.mediaType = "docker_v1" -> {SynthesizeImageConfigFromV1(m)}
                     [] OTHER -> {}
LabelsOf(config) == IF config = Nothing THEN << >> ELSE config[1].labels

\* The annotations shown are the manifest's own with its config's labels, and a
\* child's only beside the name of its platform: for an index that has none, from an
\* entry of it that is no attestation, and the host's own platform when the index
\* lists that (_annotation_rows_with_fallback).
AnnotationsHonest ==
    \A p \in Shown :
        IF p.source = Nothing
        THEN /\ p.u[1].config \in ConfigsOf(BodyOf(p))
             /\ Tabulates(p.annotations, NotesOf(BodyOf(p)), LabelsOf(p.u[1].config))
        ELSE /\ IsIndex(BodyOf(p).mediaType) /\ DOMAIN NotesOf(BodyOf(p)) = {}
             /\ p.annotations # << >> /\ p.source[1] # UnknownPlatform
             /\ \E e \in ToSet(BodyOf(p).entries) :
                  /\ e.platform = p.source
                  /\ \E config \in ConfigsOf(world.body[e.digest]) :
                        Tabulates(p.annotations, NotesOf(world.body[e.digest]), LabelsOf(config))
             /\ (\E e \in ToSet(BodyOf(p).entries) : e.platform = Just(LocalPlatform)) =>
                  p.source = Just(LocalPlatform)

\* A body the handler must parse and that does not fit its model.
Malformed(m) ==
    ~m.valid \/ (HasConfigBlob(m.mediaType) /\ m.config # Nothing /\ ~world.config[m.config[1]].valid)

\* What only adorns a panel never costs it: the panel is replaced by a message or a
\* placeholder only when the manifest, or a list of the same page, could not be had,
\* and the handler fails outright only over a malformed body of the manifest, its
\* config or the child it falls back to, or over a platform child that came without
\* its digest (manifest_info.html:110-113), never over an exchange that failed.
BestEffort ==
    \A p \in Panels :
        LET m == BodyOf(p) IN
        /\ p.kind = "error" \/ (p.kind = "hint" /\ p.asked # "") =>
              \/ p.down \cap {"repos", "tags", "manifest"} # {}
              \/ p.found = Nothing
              \/ ClassifyMediaType(m.mediaType) = "unknown"
        /\ p.kind = "broken" =>
              \/ Malformed(m)
              \/ \E e \in ToSet(m.entries) : Malformed(world.body[e.digest])
              \/ p.parent # Nothing /\ ~world.header

\* The tag opened for the user is latest if there is one, or else a version that no
\* other tag read exceeds in a component that both have, the release before its
\* pre-releases, or else the first by name (sort_tags, docstring).  It is about the
\* tags read: those that TagCap cuts off may be newer.
AutoTagNewest ==
    \A p \in {p \in Panels : p.autoFrom # {}} :
        LET tag == p.asked
            versions == p.autoFrom \cap DOMAIN VersionOf
            Version(t) == VersionOf[t]
        IN  CASE "latest" \in p.autoFrom -> tag = "latest"
              [] "latest" \notin p.autoFrom /\ versions # {} ->
                    /\ tag \in versions
                    /\ \A t \in versions :
                          /\ Version(t).nums = Version(tag).nums /\ Version(t).suffix = 0
                                => Version(tag).suffix = 0
                          /\ \A i \in DOMAIN Version(t).nums \cap DOMAIN Version(tag).nums :
                                (\A j \in 1..(i - 1) : Version(t).nums[j] = Version(tag).nums[j])
                                   => Version(t).nums[i] <= Version(tag).nums[i]
              [] OTHER -> \E i \in DOMAIN NamedTags :
                             NamedTags[i] = tag /\ \A j \in 1..(i - 1) : NamedTags[j] \notin p.autoFrom
=============================================================================
