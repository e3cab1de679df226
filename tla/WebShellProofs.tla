--------------------------- MODULE WebShellProofs ---------------------------
(***************************************************************************)
(* DeleteConfirmed and UrlMatchesPanel of WebShell, for any registry, any  *)
(* number of clicks, any order of answers and any failures: nothing is     *)
(* deleted but what was typed, and the URL in the bar is that of the panel.*)
(*                                                                         *)
(* DeleteConfirmed.  The argument: the button is enabled only while the    *)
(* text is the name of the panel the dialog is part of (GateOK), because   *)
(* every swap of the panel brings a closed dialog; what the client has     *)
(* cached of a tag is what it names, or somebody has moved the tag since   *)
(* (NamesOK), so that is true of a panel's digest, unless it shows a       *)
(* platform child, and stays true however long the panel is on its way     *)
(* (PanelOK, PendingOK); so each DELETE on its way is one that was         *)
(* confirmed (PendingOK), and what it removes was stated or is what the    *)
(* tag was moved to.                                                       *)
(***************************************************************************)
EXTENDS WebShell, SequenceTheorems, TLAPS

\* What the tags name, and what they were moved to.
Here == [world |-> world, now |-> now, pushes |-> pushes]

\* The manifest that ref names in repository repo of registry w.
Named(w, repo, ref) ==
    IF repo \in DOMAIN w.world.tag /\ ref \in DOMAIN w.world.tag[repo]
    THEN w.now[repo][ref] ELSE ref

\* Somebody moved the tag to this digest after the first n moves.
Since(w, n, repo, ref, digest) ==
    /\ n \in 0..Len(w.pushes)
    /\ \E i \in (n + 1)..Len(w.pushes) : w.pushes[i] = << repo, ref, digest >>

\* What is stated of a reference, read as found, is what it names, or somebody has
\* moved the tag since.
Stands(w, repo, ref, stated, found) ==
    /\ found[1].at \in 0..Len(w.pushes)
    /\ \/ stated \in {Nothing, Just(Named(w, repo, ref))}
       \/ Since(w, found[1].at, repo, ref, Named(w, repo, ref))

\* A panel's parent is its own reference, and its digest its reference's.
PanelOK(w, p) ==
    /\ p.parent \in {Nothing, Just(p.ref)}
    /\ p.u # Nothing /\ p.parent = Nothing =>
          Stands(w, p.repo, p.ref, p.u[1].digest, p.found)

\* A record with the fields of a panel, a request or a dialog that matter here.
IsPanel(p) == {"kind", "repo", "ref", "parent", "found", "u"} \subseteq DOMAIN p
IsRequest(r) == {"kind", "repo", "ref", "attached", "answer"} \subseteq DOMAIN r
IsDialog(d) == DOMAIN d = {"open", "text", "enabled"}

\* Answer a swaps in a panel that is right, if any.
AnswerOK(w, a) == a.panel # Nothing => PanelOK(w, a.panel[1])

GateOK == dialog.enabled => dialog.text = Just(DeleteTarget(panel))

\* Delete d names what was typed and what the title said.
Confirmed(d) ==
    /\ d.typed = Just([repo |-> d.repo, ref |-> d.ref])
    /\ d.title = [repo |-> d.repo, ref |-> d.ref]

\* One of the deletes confirmed is of ref in repo, and what it promised stands.
Promised(w, confirmed, repo, ref) ==
    \E d \in confirmed : /\ d.repo = repo /\ d.ref = ref
                         /\ \/ d.child \/ d.promised = Nothing
                            \/ Stands(w, repo, ref, d.promised, d.found)

\* One of them promised digest, or somebody has moved the tag to it since.
Redeemed(w, confirmed, repo, ref, digest) ==
    \E d \in confirmed : /\ d.repo = repo /\ d.ref = ref
                         /\ \/ d.child \/ d.promised \in {Nothing, Just(digest)}
                            \/ Since(w, d.found[1].at, repo, ref, digest)

RequestOK(w, confirmed, r) ==
    /\ IsRequest(r) /\ r.kind \in {"repos", "tags", "filter", "more", "manifest", "delete"}
    /\ r.answer # Nothing => AnswerOK(w, r.answer[1])
    /\ r.kind = "delete" => Promised(w, confirmed, r.repo, r.ref)

PendingOK == \A r \in pending : RequestOK(Here, deletes, r)
RemovedOK == \A x \in removed : Redeemed(Here, deletes, x.repo, x.ref, x.digest)

\* The moves there may be.
Moves ==
    ToSet(world.repos) \X (UNION {DOMAIN world.tag[repo] : repo \in DOMAIN world.tag})
                      \X DOMAIN world.body

\* What the client reads of a tag is what it names, or somebody has moved it since.
NamesOK ==
    /\ world \in Worlds /\ pushes \in Seq(Moves)
    /\ DOMAIN now = DOMAIN world.tag /\ DOMAIN cached = DOMAIN world.tag
    /\ \A repo \in DOMAIN world.tag :
          /\ DOMAIN now[repo] = DOMAIN world.tag[repo]
          /\ DOMAIN cached[repo] = DOMAIN world.tag[repo]
          /\ \A t \in DOMAIN world.tag[repo] :
                Stands(Here, repo, t, Just(cached[repo][t].digest), Just(cached[repo][t]))

IInv ==
    /\ NamesOK /\ IsDialog(dialog) /\ GateOK /\ PanelOK(Here, panel)
    /\ \A d \in deletes : Confirmed(d)
    /\ PendingOK /\ RemovedOK

-----------------------------------------------------------------------------
\* Panels, whichever handler they come from.

\* Whatever the kind of a manifest, to_unified keeps the digest it is given.
LEMMA UnifiedDigest ==
    ASSUME NEW STATE m, NEW STATE d, NEW STATE c
    PROVE  ToUnified(m, d, c).digest = d
BY DEF ToUnified, FromIndex, FromImage, FromSchema1, Unified

\* What _fetch_manifest returns has the digest read for its reference, or none.
LEMMA FetchedDigest ==
    ASSUME NEW STATE repo, NEW STATE ref, NEW STATE down, NEW STATE e, NEW STATE f
    PROVE  LET got == FetchManifest(repo, ref, down, e, f) IN
           /\ got.out \in {"ok", "error", "crash"}
           /\ got.out = "ok" => /\ got.u.digest \in {Nothing, Just(DigestOf(repo, ref))}
                                /\ got.u.digest = Nothing => ~world.header
                                /\ Exists(repo, ref)
<1> DEFINE digest == DigestOf(repo, ref)
           m == world.body[digest]
           c == FetchConfig(m, f \in down)
           d == IF world.header THEN Just(digest) ELSE Nothing
           got == FetchManifest(repo, ref, down, e, f)
<1>2. c.out \in {"ok", "crash"}
  BY DEF FetchConfig, Failed
<1>3. CASE e \in down \/ ~Exists(repo, ref)
  BY <1>3 DEF FetchManifest, Failed
<1>4. CASE ~(e \in down \/ ~Exists(repo, ref))
  <2>1. got = Parse(m, digest, c)
    BY <1>4 DEF FetchManifest
  <2>2. CASE c.out # "ok"
    BY <1>2, <2>1, <2>2 DEF Parse
  <2>3. CASE c.out = "ok"
    <3>1. CASE ClassifyMediaType(m.mediaType) = "unknown" \/ ~m.valid
      BY <2>1, <2>3, <3>1 DEF Parse, Failed
    <3>2. CASE ~(ClassifyMediaType(m.mediaType) = "unknown" \/ ~m.valid)
      <4>1. got = [out |-> "ok", u |-> ToUnified(m, d, c.config)]
        BY <2>1, <2>3, <3>2 DEF Parse
      <4>2. ToUnified(m, d, c.config).digest = d
        BY UnifiedDigest
      <4>3. d \in {Nothing, Just(digest)} /\ (d = Nothing => ~world.header)
        BY SMT DEF Nothing, Just
      <4>4. got.out = "ok" /\ got.u.digest = d
        BY <4>1, <4>2
      <4> QED BY <1>4, <4>3, <4>4
    <3> QED BY <3>1, <3>2
  <2> QED BY <2>2, <2>3
<1> QED BY <1>3, <1>4

\* The edits FilledPanel and PanelOf make to a blank panel.
Retitled(b, kind) == [b EXCEPT !.kind = kind]
Filled(b, parent, u, layers, rows, source, referrers) ==
    [b EXCEPT !.kind = "shown", !.parent = parent, !.u = u, !.layers = layers,
              !.annotations = rows, !.source = source, !.referrers = referrers]

LEMMA RetitledPanel ==
    ASSUME NEW STATE b, IsPanel(b), NEW STATE kind
    PROVE  /\ IsPanel(Retitled(b, kind)) /\ Retitled(b, kind).kind = kind
           /\ Retitled(b, kind).repo = b.repo /\ Retitled(b, kind).ref = b.ref
           /\ Retitled(b, kind).parent = b.parent /\ Retitled(b, kind).u = b.u
           /\ Retitled(b, kind).found = b.found
BY DEF IsPanel, Retitled

LEMMA FilledBlank ==
    ASSUME NEW STATE b, IsPanel(b), NEW STATE parent, NEW STATE u,
           NEW STATE layers, NEW STATE rows, NEW STATE source, NEW STATE referrers,
           NEW STATE q, q = Filled(b, parent, u, layers, rows, source, referrers)
    PROVE  /\ IsPanel(q) /\ q.kind = "shown"
           /\ q.repo = b.repo /\ q.ref = b.ref /\ q.parent = parent /\ q.u = u
           /\ q.found = b.found
BY DEF IsPanel, Filled

LEMMA BlankPanelOK ==
    ASSUME NEW STATE kind, NEW STATE repo, NEW STATE ref, NEW STATE asked, NEW STATE down
    PROVE  LET p == BlankPanel(kind, repo, ref, asked, down) IN
           /\ IsPanel(p) /\ PanelOK(Here, p)
           /\ p.repo = repo /\ p.ref = ref /\ p.parent = Nothing /\ p.u = Nothing
BY DEF BlankPanel, IsPanel, PanelOK

\* A panel filled from blank b is b with another kind, or shows what was fetched.
LEMMA FilledPanelOK ==
    ASSUME NEW STATE b, IsPanel(b), b.parent = Nothing, b.u = Nothing,
           NEW STATE parent, NEW STATE u, NEW STATE refs, NEW STATE notes
    PROVE  LET p == FilledPanel(b, parent, u, refs, notes) IN
           /\ IsPanel(p) /\ p.repo = b.repo /\ p.ref = b.ref /\ p.found = b.found
           /\ \/ p.parent = Nothing /\ p.u = Nothing
              \/ p.kind = "shown" /\ p.parent = parent /\ p.u = Just(u)
<1> DEFINE p == FilledPanel(b, parent, u, refs, notes)
<1>1. CASE "crash" \in {refs.out, notes.out}
  <2>1. p = Retitled(b, "broken")
    BY <1>1 DEF FilledPanel, Retitled
  <2> QED BY <2>1, RetitledPanel
<1>2. CASE "crash" \notin {refs.out, notes.out} /\ "error" \in {refs.out, notes.out}
  <2>1. p = Retitled(b, "error")
    BY <1>2 DEF FilledPanel, Retitled
  <2> QED BY <2>1, RetitledPanel
<1>3. CASE "crash" \notin {refs.out, notes.out} /\ "error" \notin {refs.out, notes.out}
  <2>1. p = Filled(b, parent, Just(u), LayerRows(u), notes.rows, notes.source, refs.rows)
    BY <1>3 DEF FilledPanel, Filled
  <2> QED BY <2>1, FilledBlank
<1> QED BY <1>1, <1>2, <1>3

\* A panel before its manifest is fetched, with what the client reads for it.
Found(b, found) == [b EXCEPT !.found = found]

LEMMA FoundPanel ==
    ASSUME NEW STATE b, IsPanel(b), NEW STATE found
    PROVE  LET p == Found(b, found) IN
           /\ IsPanel(p) /\ p.kind = b.kind /\ p.repo = b.repo /\ p.ref = b.ref
           /\ p.parent = b.parent /\ p.u = b.u /\ p.found = found
BY DEF IsPanel, Found

\* What the client reads for a reference stands when it reads it.
LEMMA ReadingStands ==
    ASSUME NamesOK, NEW STATE repo, NEW STATE ref, NEW STATE stated,
           stated \in {Nothing, Just(DigestOf(repo, ref))}
    PROVE  Stands(Here, repo, ref, stated, Just(Reads(repo, ref)))
<1> DEFINE read == Reads(repo, ref)
<1>1. DigestOf(repo, ref) = read.digest /\ Just(read)[1] = read
  BY DEF DigestOf, Just
<1>2. Here.world = world /\ Here.now = now /\ Here.pushes = pushes /\ Len(pushes) \in Nat
  BY LenProperties DEF Here, NamesOK
<1>3. CASE IsTag(repo, ref)
  <2>1. Stands(Here, repo, ref, Just(read.digest), Just(read))
    BY <1>3 DEF NamesOK, IsTag, Reads
  <2> DEFINE named == Just(Named(Here, repo, ref))
             Moved == Since(Here, Just(read)[1].at, repo, ref, Named(Here, repo, ref))
  <2>2. Just(read)[1].at \in 0..Len(Here.pushes) /\ (Just(read.digest) \in {Nothing, named} \/ Moved)
    BY <2>1 DEF Stands
  <2>3. stated \in {Nothing, Just(read.digest)}
    BY <1>1
  <2>4. stated \in {Nothing, named} \/ Moved
    BY <2>2, <2>3, Zenon
  <2> QED BY <2>2, <2>4, Zenon DEF Stands
<1>4. CASE ~IsTag(repo, ref)
  <2>1. read = [digest |-> ref, at |-> 0]
    BY <1>4 DEF Reads
  <2>2. Named(Here, repo, ref) = ref
    BY <1>2, <1>4 DEF Named, IsTag
  <2>3. read.digest = ref /\ read.at = 0
    BY <2>1
  <2>4. Just(read)[1].at \in 0..Len(Here.pushes)
    <3> DEFINE n == Len(pushes)
    <3> HIDE DEF n
    <3>1. n \in Nat => 0 \in 0..n
      OBVIOUS
    <3> QED BY <1>1, <1>2, <2>3, <3>1, Zenon DEF n
  <2>5. stated \in {Nothing, Just(Named(Here, repo, ref))}
    BY <1>1, <2>2, <2>3, Zenon
  <2> QED BY <2>4, <2>5, Zenon DEF Stands
<1> QED BY <1>3, <1>4

\* The panel that manifest_page, manifest_fragment and tags_fragment make of what
\* they fetch.
LEMMA ManifestPanelOK ==
    ASSUME NamesOK, NEW STATE repo, NEW STATE ref, NEW STATE platform, NEW STATE down
    PROVE  LET p == ManifestPanel(repo, ref, platform, down) IN
           /\ IsPanel(p) /\ PanelOK(Here, p) /\ p.repo = repo /\ p.ref = ref
           /\ platform = Nothing => p.parent = Nothing
           /\ p.kind = "error" => p.u = Nothing /\ p.parent = Nothing
<1> DEFINE asked == IF platform = Nothing THEN ref ELSE platform[1]
           parent == IF platform = Nothing THEN Nothing ELSE Just(ref)
           blank == BlankPanel("error", repo, ref, asked, down)
           found == IF Exists(repo, asked) THEN Just(Reads(repo, asked)) ELSE Nothing
           b == Found(blank, found)
           got == FetchManifest(repo, asked, down, "manifest", "config")
           p == ManifestPanel(repo, ref, platform, down)
<1>1. p = PanelOf(b, parent, got, down)
  BY DEF ManifestPanel, Found
<1>2. /\ IsPanel(b) /\ PanelOK(Here, b) /\ b.found = found
      /\ b.repo = repo /\ b.ref = ref /\ b.parent = Nothing /\ b.u = Nothing
  <2>1. /\ IsPanel(blank) /\ blank.repo = repo /\ blank.ref = ref
        /\ blank.parent = Nothing /\ blank.u = Nothing
    BY BlankPanelOK
  <2> HIDE DEF blank, found
  <2>2. /\ IsPanel(b) /\ b.found = found
        /\ b.repo = repo /\ b.ref = ref /\ b.parent = Nothing /\ b.u = Nothing
    BY <2>1, FoundPanel
  <2> HIDE DEF b
  <2> QED BY <2>2 DEF PanelOK
<1>3. /\ got.out \in {"ok", "error", "crash"}
      /\ got.out = "ok" => /\ got.u.digest \in {Nothing, Just(DigestOf(repo, asked))}
                           /\ found = Just(Reads(repo, asked))
  BY FetchedDigest
<1>4. parent = Nothing => asked = ref
  BY SMT DEF Nothing, Just
<1>5. parent \in {Nothing, Just(ref)} /\ (platform = Nothing => parent = Nothing)
  OBVIOUS
<1> DEFINE Goal == /\ IsPanel(p) /\ PanelOK(Here, p) /\ p.repo = repo /\ p.ref = ref
                   /\ platform = Nothing => p.parent = Nothing
                   /\ p.kind = "error" => p.u = Nothing /\ p.parent = Nothing
<1> SUFFICES Goal
  OBVIOUS
<1>6. CASE got.out = "error"
  <2>1. p = b
    BY <1>1, <1>6 DEF PanelOf
  <2> HIDE DEF p, b
  <2> QED BY <1>2, <2>1
<1>7. CASE got.out = "crash"
  <2>1. p = Retitled(b, "broken")
    BY <1>1, <1>7 DEF PanelOf, Retitled
  <2> HIDE DEF p, b
  <2> QED BY <1>2, <2>1, RetitledPanel DEF PanelOK
<1>8. CASE got.out = "ok"
  <2> DEFINE refs == FetchReferrers(got.u, down)
             notes == AnnotationsWithFallback(b.repo, got.u, down)
  <2>1. p = FilledPanel(b, parent, got.u, refs, notes)
    BY <1>1, <1>8 DEF PanelOf
  <2>2. Just(got.u)[1] = got.u
    BY DEF Just
  <2>7. Stands(Here, repo, asked, got.u.digest, found)
    BY <1>3, <1>8, ReadingStands
  <2> HIDE DEF p, b, parent, got, asked, refs, notes, found
  <2>3. /\ IsPanel(p) /\ p.repo = repo /\ p.ref = ref /\ p.found = found
        /\ \/ p.parent = Nothing /\ p.u = Nothing
           \/ p.kind = "shown" /\ p.parent = parent /\ p.u = Just(got.u)
    BY <1>2, <2>1, FilledPanelOK
  <2>4. CASE p.parent = Nothing /\ p.u = Nothing
    BY <2>3, <2>4 DEF PanelOK
  <2>5. CASE p.kind = "shown" /\ p.parent = parent /\ p.u = Just(got.u)
    <3>1. p.parent = Nothing => Stands(Here, p.repo, p.ref, p.u[1].digest, p.found)
      BY <1>4, <2>2, <2>3, <2>5, <2>7
    <3>2. PanelOK(Here, p)
      BY <1>5, <2>3, <2>5, <3>1 DEF PanelOK
    <3> QED BY <1>5, <2>3, <2>5, <3>2
  <2> QED BY <2>3, <2>4, <2>5
<1> QED BY <1>3, <1>6, <1>7, <1>8

\* A panel that the template cannot render is none.
LEMMA RenderedMeaning ==
    ASSUME NEW STATE p
    PROVE  LET q == Rendered(p) IN
           \/ q = p
           \/ /\ p.kind = "shown" /\ q.kind = "broken" /\ q.repo = p.repo /\ q.ref = p.ref
              /\ q.asked = p.asked /\ q.parent = p.parent /\ q.u = Nothing /\ q.found = p.found
BY DEF Rendered, BlankPanel

LEMMA PagePanelOK ==
    ASSUME NamesOK, NEW STATE u, NEW STATE down
    PROVE  PanelOK(Here, PagePanel(u, down))
<1> DEFINE asked == IF u.platform = Nothing THEN u.ref ELSE u.platform[1]
           hint == BlankPanel("hint", u.repo, "", "", down)
           error == BlankPanel("error", u.repo, u.ref, asked, down)
           p == ManifestPanel(u.repo, u.ref, u.platform, down)
<1>1. PagePanel(u, down) \in {hint, error, p, Rendered(error), Rendered(p)}
  BY DEF PagePanel
<1>2. PanelOK(Here, hint) /\ PanelOK(Here, error)
  BY BlankPanelOK
<1>3. PanelOK(Here, p)
  BY ManifestPanelOK
<1> HIDE DEF hint, error, p
<1>4. PanelOK(Here, Rendered(error)) /\ PanelOK(Here, Rendered(p))
  BY <1>2, <1>3, RenderedMeaning DEF PanelOK
<1> QED BY <1>1, <1>2, <1>3, <1>4

\* The out-of-band panel of a freshly picked repository is that of its first tag.
LEMMA AutoPanelOK ==
    ASSUME NamesOK, NEW STATE tags, NEW STATE repo, NEW STATE down
    PROVE  PanelOK(Here, AutoPanel(tags, ManifestPanel(repo, tags[1], Nothing, down)))
<1> DEFINE p == ManifestPanel(repo, tags[1], Nothing, down)
           q == AutoPanel(tags, p)
<1>1. /\ IsPanel(p) /\ PanelOK(Here, p) /\ p.repo = repo /\ p.ref = tags[1]
      /\ p.parent = Nothing
      /\ p.kind = "error" => p.u = Nothing /\ p.parent = Nothing
  BY ManifestPanelOK
<1> HIDE DEF p
<1>2. /\ q.repo = p.repo /\ q.parent = p.parent /\ q.u = p.u /\ q.found = p.found
      /\ q.ref = IF p.kind = "error" THEN "" ELSE tags[1]
  BY <1>1 DEF AutoPanel, IsPanel
<1> HIDE DEF q
<1>3. PanelOK(Here, q)
  BY <1>1, <1>2 DEF PanelOK
<1> QED BY <1>3 DEF p, q

-----------------------------------------------------------------------------
\* Answers.

\* A list swaps in no panel.
LEMMA ListAnswer ==
    ASSUME NEW STATE column, NEW STATE push
    PROVE  /\ [NoSwap EXCEPT !.repoCol = column].panel = Nothing
           /\ [NoSwap EXCEPT !.tagCol = column, !.push = push].panel = Nothing
           /\ "panel" \in DOMAIN [NoSwap EXCEPT !.tagCol = column, !.push = push]
BY DEF NoSwap

LEMMA PickedRepoOK ==
    ASSUME NEW STATE r, NEW STATE list, "panel" \in DOMAIN list, NEW STATE p, PanelOK(Here, p), NEW STATE push
    PROVE  AnswerOK(Here, PickedRepo(r, list, p, push))
<1>1. PickedRepo(r, list, p, push).panel = Just(p)
  BY DEF PickedRepo
<1>2. Just(p)[1] = p
  BY DEF Just
<1> QED BY <1>1, <1>2 DEF AnswerOK

LEMMA TagsAnswerOK ==
    ASSUME NamesOK, NEW STATE r, NEW STATE state, NEW STATE tags, NEW STATE down
    PROVE  AnswerOK(Here, TagsAnswer(r, state, tags, down))
<1> DEFINE list == [NoSwap EXCEPT !.tagCol = Just(TagColumn(r.repo, state, tags, r.q, r.limit)),
                                  !.push = r.push]
           hint == BlankPanel("hint", r.repo, "", "", down)
           auto == AutoPanel(tags, ManifestPanel(r.repo, tags[1], Nothing, down))
           a == TagsAnswer(r, state, tags, down)
<1>1. a \in {list, PickedRepo(r, list, hint, r.push), PickedRepo(r, list, auto, Just(ManifestURL(r.repo, tags[1])))}
  BY DEF TagsAnswer
<1>2. list.panel = Nothing /\ "panel" \in DOMAIN list
  BY ListAnswer
<1>3. PanelOK(Here, hint)
  BY BlankPanelOK
<1>4. PanelOK(Here, auto)
  BY AutoPanelOK
<1> HIDE DEF list, hint, auto, a
<1>5. AnswerOK(Here, PickedRepo(r, list, hint, r.push)) /\ AnswerOK(Here, PickedRepo(r, list, auto, Just(ManifestURL(r.repo, tags[1]))))
  BY <1>2, <1>3, <1>4, PickedRepoOK
<1>6. AnswerOK(Here, list)
  BY <1>2 DEF AnswerOK
<1>7. AnswerOK(Here, a)
  BY <1>1, <1>5, <1>6
<1> QED BY <1>7 DEF a

\* Every fragment that brings a panel brings one that is right.
LEMMA AnswerIsOK ==
    ASSUME NamesOK, NEW STATE r, NEW STATE down, r.kind # "delete",
           r.kind \in {"repos", "tags", "filter", "more", "manifest", "delete"}
    PROVE  AnswerOK(Here, Answer(r, down))
<1>1. CASE r.kind = "repos"
  <2> DEFINE repos == IF "repos" \in down THEN << >> ELSE FetchRepos(r.q)
             column == Just(Column(repos, r.q, r.limit))
  <2>1. Answer(r, down) = [NoSwap EXCEPT !.repoCol = column]
    BY <1>1 DEF Answer, ReposFragment
  <2>2. [NoSwap EXCEPT !.repoCol = column].panel = Nothing
    BY ListAnswer
  <2> QED BY <2>1, <2>2 DEF AnswerOK
<1>2. CASE r.kind \in {"tags", "filter", "more"}
  <2>1. Answer(r, down) = TagsFragment(r, down)
    BY <1>2 DEF Answer
  <2>2. \/ TagsFragment(r, down) = TagsAnswer(r, "error", << >>, down)
        \/ TagsFragment(r, down) = TagsAnswer(r, "list", FetchTags(r.repo, r.q), down)
    BY DEF TagsFragment
  <2> QED BY <2>1, <2>2, TagsAnswerOK
<1>3. CASE r.kind = "manifest"
  <2> DEFINE p == ManifestPanel(r.repo, r.ref, Nothing, down)
  <2>1. Answer(r, down) = PanelAnswer(r, p)
    BY <1>3 DEF Answer, ManifestFragment
  <2>2. PanelOK(Here, p)
    BY ManifestPanelOK
  <2> HIDE DEF p
  <2>3. PanelAnswer(r, p).panel = Just(p)
    BY DEF PanelAnswer, NoSwap
  <2>4. Just(p)[1] = p
    BY DEF Just
  <2> QED BY <2>1, <2>2, <2>3, <2>4 DEF AnswerOK
<1> QED BY <1>1, <1>2, <1>3

-----------------------------------------------------------------------------
\* Requests.

\* What a click sends is no delete and has no answer yet.
LEMMA FreshRequest ==
    ASSUME NEW STATE kind, kind \in {"repos", "tags", "filter", "more", "manifest"},
           NEW STATE repo, NEW STATE ref, NEW STATE q, NEW STATE limit, NEW STATE push
    PROVE  /\ RequestOK(Here, deletes, [Request(kind, repo, ref) EXCEPT !.push = push])
           /\ RequestOK(Here, deletes, [Request(kind, repo, ref) EXCEPT !.q = q])
           /\ RequestOK(Here, deletes, [Request(kind, repo, ref) EXCEPT !.q = q, !.limit = limit])
<1> DEFINE r == Request(kind, repo, ref)
           r1 == [r EXCEPT !.push = push]
           r2 == [r EXCEPT !.q = q]
           r3 == [r EXCEPT !.q = q, !.limit = limit]
<1>1. IsRequest(r1) /\ r1.kind = kind /\ r1.answer = Nothing
  BY DEF Request, IsRequest
<1>2. IsRequest(r2) /\ r2.kind = kind /\ r2.answer = Nothing
  BY DEF Request, IsRequest
<1>3. IsRequest(r3) /\ r3.kind = kind /\ r3.answer = Nothing
  BY DEF Request, IsRequest
<1> HIDE DEF r1, r2, r3
<1>4. RequestOK(Here, deletes, r1) /\ RequestOK(Here, deletes, r2) /\ RequestOK(Here, deletes, r3)
  BY <1>1, <1>2, <1>3 DEF RequestOK
<1> QED BY <1>4 DEF r1, r2, r3

\* Deletes confirmed meanwhile do not matter.
LEMMA MoreConfirmed ==
    ASSUME NEW STATE w, NEW STATE r, NEW STATE confirmed, NEW STATE confirmed2,
           confirmed \subseteq confirmed2, RequestOK(w, confirmed, r)
    PROVE  RequestOK(w, confirmed2, r)
BY DEF RequestOK, Promised

LEMMA DetachedRequest ==
    ASSUME NEW STATE r, NEW STATE yes, RequestOK(Here, deletes, r)
    PROVE  RequestOK(Here, deletes, [r EXCEPT !.attached = yes])
<1> DEFINE q == [r EXCEPT !.attached = yes]
<1>1. IsRequest(r)
  BY DEF RequestOK
<1>2. /\ IsRequest(q) /\ q.kind = r.kind /\ q.repo = r.repo /\ q.ref = r.ref
      /\ q.answer = r.answer
  BY <1>1 DEF IsRequest
<1> HIDE DEF q
<1>3. RequestOK(Here, deletes, q)
  BY <1>2 DEF RequestOK
<1> QED BY <1>3 DEF q

LEMMA AnsweredRequest ==
    ASSUME NEW STATE r, NEW STATE a, RequestOK(Here, deletes, r), AnswerOK(Here, a)
    PROVE  RequestOK(Here, deletes, [r EXCEPT !.answer = Just(a)])
<1> DEFINE q == [r EXCEPT !.answer = Just(a)]
<1>1. IsRequest(r)
  BY DEF RequestOK
<1>2. /\ IsRequest(q) /\ q.kind = r.kind /\ q.repo = r.repo /\ q.ref = r.ref
      /\ q.answer = Just(a)
  BY <1>1 DEF IsRequest
<1>3. Just(a)[1] = a
  BY DEF Just
<1> HIDE DEF q
<1>4. RequestOK(Here, deletes, q)
  BY <1>2, <1>3 DEF RequestOK
<1> QED BY <1>4 DEF q

-----------------------------------------------------------------------------
\* The steps, one lemma for each group of actions.

\* Most of them leave the tags alone, and what the client has cached of them.
LEMMA Unmoved ==
    ASSUME UNCHANGED << world, tagging >>
    PROVE  Here' = Here /\ (NamesOK' <=> NamesOK)
<1>1. Here' = Here /\ UNCHANGED << world, now, cached, pushes >>
  BY DEF tagging, Here
<1> QED BY <1>1 DEF NamesOK, Moves

\* Clicks.
LEMMA SendStep ==
    ASSUME IInv, NEW STATE r, RequestOK(Here, deletes, r), Send(r),
           UNCHANGED << panel, dialog, deletes >>
    PROVE  IInv'
<1>1. /\ UNCHANGED << world, tagging, panel, dialog, deletes, removed >>
      /\ pending' = pending \cup {r}
  BY DEF Send
<1>2. Here' = Here /\ (NamesOK' <=> NamesOK)
  BY <1>1, Unmoved
<1> QED BY <1>1, <1>2 DEF IInv, GateOK, PendingOK, RemovedOK

\* The dialog's own steps leave everything else alone.
LEMMA TypingStep ==
    ASSUME IInv, Typing, (IsDialog(dialog) /\ GateOK)'
    PROVE  IInv'
<1>1. UNCHANGED << world, tagging, panel, deletes, removed, pending >>
  BY DEF Typing, DialogStep
<1>2. Here' = Here /\ (NamesOK' <=> NamesOK)
  BY <1>1, Unmoved
<1> QED BY <1>1, <1>2 DEF IInv, PendingOK, RemovedOK

LEMMA DialogSteps ==
    ASSUME IInv, OpenDialog \/ TypeName \/ EraseName \/ CancelDialog
    PROVE  IInv'
<1> USE DEF Typing, DialogStep, IsDialog, GateOK
<1>1. IsDialog(dialog) /\ GateOK
  BY DEF IInv
<1>2. CASE OpenDialog
  <2>1. Typing /\ dialog' = [open |-> TRUE, text |-> Nothing, enabled |-> FALSE]
    BY <1>2 DEF OpenDialog
  <2> QED BY <2>1, TypingStep
<1>3. CASE TypeName
  <2>1. Typing /\ dialog' = [dialog EXCEPT !.text = Just(DeleteTarget(panel)), !.enabled = TRUE]
    BY <1>3 DEF TypeName
  <2>2. DOMAIN dialog' = DOMAIN dialog /\ dialog'.text = Just(DeleteTarget(panel))
    BY <1>1, <2>1
  <2>3. panel' = panel
    BY <2>1
  <2> QED BY <1>1, <2>1, <2>2, <2>3, TypingStep DEF DeleteTarget
<1>4. CASE EraseName
  <2>1. Typing /\ dialog' = [dialog EXCEPT !.text = Nothing, !.enabled = FALSE]
    BY <1>4 DEF EraseName
  <2>2. DOMAIN dialog' = DOMAIN dialog /\ ~dialog'.enabled
    BY <1>1, <2>1
  <2> QED BY <1>1, <2>1, <2>2, TypingStep
<1>5. CASE CancelDialog
  <2>1. Typing /\ dialog' = [dialog EXCEPT !.open = FALSE]
    BY <1>5 DEF CancelDialog
  <2>2. /\ DOMAIN dialog' = DOMAIN dialog /\ dialog'.enabled = dialog.enabled
        /\ dialog'.text = dialog.text
    BY <1>1, <2>1
  <2>3. panel' = panel
    BY <2>1
  <2> QED BY <1>1, <2>1, <2>2, <2>3, TypingStep DEF DeleteTarget
<1> QED BY <1>2, <1>3, <1>4, <1>5

\* An enabled button confirms a delete of what was typed, and promises its digest.
LEMMA ConfirmStep ==
    ASSUME IInv, ConfirmDelete
    PROVE  IInv'
<1> DEFINE d == [repo |-> panel.repo, ref |-> panel.ref, typed |-> dialog.text,
                 title |-> Title(panel), child |-> panel.parent # Nothing,
                 promised |-> ResolvesTo(panel), found |-> panel.found]
           r == Request("delete", panel.repo, panel.ref)
<1>1. /\ dialog.enabled /\ Send(r) /\ deletes' = deletes \cup {d}
      /\ UNCHANGED << world, tagging, panel, dialog, removed >> /\ pending' = pending \cup {r}
  BY DEF ConfirmDelete, Send, columns
<1>0. Here' = Here /\ (NamesOK' <=> NamesOK)
  BY <1>1, Unmoved
<1>2. /\ d.repo = panel.repo /\ d.ref = panel.ref
      /\ d.typed = dialog.text /\ d.title = Title(panel)
      /\ d.child = (panel.parent # Nothing) /\ d.promised = ResolvesTo(panel)
      /\ d.found = panel.found
  OBVIOUS
<1>3. /\ IsRequest(r) /\ r.kind = "delete" /\ r.repo = panel.repo /\ r.ref = panel.ref
      /\ r.answer = Nothing
  BY DEF Request, IsRequest
<1>4. dialog.text = Just(DeleteTarget(panel)) /\ PanelOK(Here, panel)
  BY <1>1 DEF IInv, GateOK
<1>5. Just(panel.ref)[1] = panel.ref
  BY DEF Just
<1> HIDE DEF d, r
<1>6. Title(panel) = [repo |-> panel.repo, ref |-> panel.ref]
  BY <1>4, <1>5 DEF Title, PanelOK
<1>7. Confirmed(d)
  BY <1>2, <1>4, <1>6 DEF Confirmed, DeleteTarget
<1>8. \/ d.child \/ d.promised = Nothing
      \/ Stands(Here, panel.repo, panel.ref, d.promised, d.found)
  BY <1>2, <1>4 DEF PanelOK, ResolvesTo
<1>9. RequestOK(Here, deletes', r)
  BY <1>1, <1>2, <1>3, <1>8 DEF RequestOK, Promised
<1>10. \A q \in pending : RequestOK(Here, deletes', q)
  BY <1>1, MoreConfirmed DEF IInv, PendingOK
<1>11. PendingOK'
  BY <1>0, <1>1, <1>9, <1>10 DEF PendingOK
<1>12. RemovedOK'
  BY <1>0, <1>1 DEF IInv, RemovedOK, Redeemed
<1> QED BY <1>0, <1>1, <1>7, <1>11, <1>12 DEF IInv, GateOK

LEMMA ServeFragmentStep ==
    ASSUME IInv, NEW r \in pending, NEW down, ServeFragment(r, down)
    PROVE  IInv'
<1> DEFINE q == [r EXCEPT !.answer = Just(Answer(r, down))]
<1>1. /\ r.kind # "delete" /\ pending' = (pending \ {r}) \cup {q}
      /\ UNCHANGED << world, tagging, panel, dialog, deletes, removed >>
  BY DEF ServeFragment, columns
<1>0. Here' = Here /\ (NamesOK' <=> NamesOK)
  BY <1>1, Unmoved
<1>2. RequestOK(Here, deletes, r)
  BY DEF IInv, PendingOK
<1>3. AnswerOK(Here, Answer(r, down))
  BY <1>1, <1>2, AnswerIsOK DEF IInv, RequestOK
<1>4. RequestOK(Here, deletes, q)
  BY <1>2, <1>3, AnsweredRequest
<1> HIDE DEF q
<1> QED BY <1>0, <1>1, <1>4 DEF IInv, GateOK, PendingOK, RemovedOK

\* What is removed is what the reference of the DELETE names.
LEMMA ServeDeleteStep ==
    ASSUME IInv, NEW r \in pending, NEW down, ServeDelete(r, down)
    PROVE  IInv'
<1> DEFINE ok == /\ "manifest" \notin down /\ Has(r.repo, DeletedDigest(r))
                 /\ IsTag(r.repo, r.ref) => world.header
           a == [NoSwap EXCEPT !.ok = ok]
           q == [r EXCEPT !.answer = Just(a)]
           x == [repo |-> r.repo, ref |-> r.ref, digest |-> DeletedDigest(r)]
<1>1. /\ r.kind = "delete" /\ pending' \subseteq (pending \ {r}) \cup {q}
      /\ removed' \subseteq removed \cup {x}
      /\ UNCHANGED << world, tagging, panel, dialog, deletes >>
  BY DEF ServeDelete, columns
<1>0. Here' = Here /\ (NamesOK' <=> NamesOK)
  BY <1>1, Unmoved
<1>2. RequestOK(Here, deletes, r)
  BY DEF IInv, PendingOK
<1>3. AnswerOK(Here, a)
  BY DEF AnswerOK, NoSwap
<1>4. RequestOK(Here, deletes, q)
  BY <1>2, <1>3, AnsweredRequest
<1>5. x.repo = r.repo /\ x.ref = r.ref /\ x.digest = Named(Here, r.repo, r.ref)
  BY DEF DeletedDigest, IsTag, Named, Here
<1> HIDE DEF q, x
<1>6. Redeemed(Here, deletes, x.repo, x.ref, x.digest)
  <2>1. Promised(Here, deletes, r.repo, r.ref)
    BY <1>1, <1>2 DEF RequestOK
  <2> QED BY <1>5, <2>1 DEF Promised, Redeemed, Stands
<1> QED BY <1>0, <1>1, <1>4, <1>6 DEF IInv, GateOK, PendingOK, RemovedOK

\* A new panel comes with a closed dialog.
LEMMA DeliverStep ==
    ASSUME IInv, NEW r \in pending, Deliver(r)
    PROVE  IInv'
<1> DEFINE swaps == r.answer[1].ok /\ r.attached
           new == IF swaps THEN r.answer[1] ELSE NoSwap
           out == IF swaps THEN Removes(Target(r.kind)) ELSE "none"
           stays(q) == q.attached /\ (Target(q.kind) \in Persistent \/ Target(q.kind) # out)
<1>1. /\ r.answer # Nothing /\ panel' = Swapped(new.panel, panel) /\ dialog' = SwappedDialog(new)
      /\ pending' = {[q EXCEPT !.attached = stays(q)] : q \in pending \ {r}}
      /\ UNCHANGED << world, tagging, deletes, removed >>
  BY DEF Deliver
<1>0. Here' = Here /\ (NamesOK' <=> NamesOK)
  BY <1>1, Unmoved
<1>2. RequestOK(Here, deletes, r)
  BY DEF IInv, PendingOK
<1>3. AnswerOK(Here, NoSwap)
  BY DEF AnswerOK, NoSwap
<1>4. AnswerOK(Here, new)
  BY <1>1, <1>2, <1>3 DEF RequestOK
<1> HIDE DEF new, stays
<1>5. (IsDialog(dialog) /\ GateOK)'
  <2>1. CASE new.panel = Nothing
    BY <1>1, <2>1 DEF IInv, GateOK, Swapped, SwappedDialog
  <2>2. CASE new.panel # Nothing
    BY <1>1, <2>2 DEF GateOK, IsDialog, SwappedDialog, Closed
  <2> QED BY <2>1, <2>2
<1>6. PanelOK(Here, panel)'
  BY <1>0, <1>1, <1>4 DEF IInv, AnswerOK, Swapped
<1>7. PendingOK'
  <2>1. \A q \in pending : RequestOK(Here, deletes, [q EXCEPT !.attached = stays(q)])
    BY DetachedRequest DEF IInv, PendingOK
  <2> QED BY <1>0, <1>1, <2>1 DEF PendingOK
<1> QED BY <1>0, <1>1, <1>5, <1>6, <1>7 DEF IInv, RemovedOK

LEMMA LoadStep ==
    ASSUME IInv, NEW u, NEW down, Load(u, down)
    PROVE  IInv'
<1> DEFINE left == {q \in pending : q.kind = "delete" /\ q.answer = Nothing}
<1>1. /\ panel' = PagePanel(u, down) /\ dialog' = Closed
      /\ pending' = {[q EXCEPT !.attached = FALSE] : q \in left}
      /\ UNCHANGED << world, tagging, deletes, removed >>
  BY DEF Load, LoadPage, Render
<1>0. Here' = Here /\ (NamesOK' <=> NamesOK)
  BY <1>1, Unmoved
<1>2. PanelOK(Here, panel')
  BY <1>1, PagePanelOK DEF IInv
<1>3. \A q \in left : RequestOK(Here, deletes, [q EXCEPT !.attached = FALSE])
  BY DetachedRequest DEF IInv, PendingOK
<1>4. PendingOK'
  BY <1>0, <1>1, <1>3 DEF PendingOK
<1> QED BY <1>0, <1>1, <1>2, <1>4 DEF IInv, GateOK, IsDialog, Closed, RemovedOK

LEMMA DeliverDeleteStep ==
    ASSUME IInv, NEW r \in pending, NEW down, DeliverDelete(r, down)
    PROVE  IInv'
<1>1. CASE r.answer[1].ok
  BY <1>1, LoadStep DEF DeliverDelete
<1>2. CASE ~r.answer[1].ok
  <2>1. /\ UNCHANGED << world, tagging, panel, dialog, deletes, removed >>
        /\ pending' = pending \ {r}
    BY <1>2 DEF DeliverDelete, columns
  <2>2. Here' = Here /\ (NamesOK' <=> NamesOK)
    BY <2>1, Unmoved
  <2> QED BY <2>1, <2>2 DEF IInv, GateOK, PendingOK, RemovedOK
<1> QED BY <1>1, <1>2

LEMMA ClickStep ==
    ASSUME IInv, NEW STATE r, RequestOK(Here, deletes, r), Click(r)
    PROVE  IInv'
BY SendStep DEF Click, columns

LEMMA FilterTagsStep ==
    ASSUME IInv, NEW q, FilterTags(q)
    PROVE  IInv'
<1> DEFINE r == [Request("filter", filterBox.repo, "") EXCEPT !.q = q]
<1>1. RequestOK(Here, deletes, r)
  BY FreshRequest
<1>2. UNCHANGED << panel, dialog, deletes >>
  BY DEF FilterTags
<1>3. CASE tagCol.state = "list"
  <2>1. Send(r)
    BY <1>3 DEF FilterTags
  <2> HIDE DEF r
  <2> QED BY <1>1, <1>2, <2>1, SendStep
<1>4. CASE tagCol.state # "list"
  <2>1. UNCHANGED << world, tagging, removed, pending >>
    BY <1>4 DEF FilterTags
  <2>2. Here' = Here /\ (NamesOK' <=> NamesOK)
    BY <2>1, Unmoved
  <2> QED BY <1>2, <2>1, <2>2 DEF IInv, GateOK, PendingOK, RemovedOK
<1> QED BY <1>3, <1>4

LEMMA BrowseStep ==
    ASSUME IInv, Browse
    PROVE  IInv'
<1>1. ASSUME NEW repo \in ToSet(world.repos), ClickRepo(repo)
      PROVE  IInv'
  BY <1>1, FreshRequest, ClickStep DEF ClickRepo
<1>2. ASSUME NEW tag \in ToSet(tagCol.names), ClickTag(tag)
      PROVE  IInv'
  BY <1>2, FreshRequest, ClickStep DEF ClickTag
<1>3. ASSUME NEW i \in DOMAIN panel.referrers, ClickReferrer(i)
      PROVE  IInv'
  BY <1>3, FreshRequest, ClickStep DEF ClickReferrer
<1>4. ASSUME NEW q \in Filters, FilterRepos(q)
      PROVE  IInv'
  BY <1>4, FreshRequest, ClickStep DEF FilterRepos
<1>5. CASE MoreRepos
  BY <1>5, FreshRequest, ClickStep DEF MoreRepos
<1>6. CASE MoreTags
  BY <1>6, FreshRequest, ClickStep DEF MoreTags
<1>7. ASSUME NEW u \in Pages, NEW down, Visit(u, down)
      PROVE  IInv'
  BY <1>7, LoadStep DEF Visit
<1> QED BY <1>1, <1>2, <1>3, <1>4, <1>5, <1>6, <1>7, FilterTagsStep DEF Browse

-----------------------------------------------------------------------------

\* Longer lists of moves have what the shorter ones have.
LEMMA MoreMoves ==
    ASSUME NEW STATE w, NEW STATE v, NEW STATE n, NEW STATE repo, NEW STATE ref, NEW STATE digest,
           Len(w.pushes) \in Nat, Len(v.pushes) = Len(w.pushes) + 1,
           \A i \in 1..Len(w.pushes) : v.pushes[i] = w.pushes[i]
    PROVE  /\ Since(w, n, repo, ref, digest) => Since(v, n, repo, ref, digest)
           /\ n \in 0..Len(w.pushes) => n \in 0..Len(v.pushes)
<1> SUFFICES ASSUME n \in 0..Len(w.pushes)
             PROVE  /\ Since(w, n, repo, ref, digest) => Since(v, n, repo, ref, digest)
                    /\ n \in 0..Len(v.pushes)
  BY DEF Since
<1>1. \A i \in (n + 1)..Len(w.pushes) : i \in (n + 1)..Len(v.pushes) /\ i \in 1..Len(w.pushes)
  OBVIOUS
<1> QED BY <1>1 DEF Since

\* Somebody moves a tag: what was stated of it before was stated before the move.
LEMMA PushedStands ==
    ASSUME NamesOK, NEW repo \in ToSet(world.repos), NEW t \in DOMAIN world.tag[repo],
           NEW digest \in DOMAIN world.body, Push(repo, t, digest)
    PROVE  /\ pushes' \in Seq(Moves) /\ Len(pushes') = Len(pushes) + 1 /\ Len(pushes) \in Nat
           /\ \A i \in 1..Len(pushes) : pushes'[i] = pushes[i]
           /\ DOMAIN now' = DOMAIN world.tag
           /\ \A r \in DOMAIN world.tag : DOMAIN now'[r] = DOMAIN world.tag[r]
           /\ \A r, ref, stated, found :
                 Stands(Here, r, ref, stated, found) => Stands(Here', r, ref, stated, found)
<1>1. repo \in DOMAIN world.tag
  BY WorldsAssumption DEF NamesOK
<1>2. << repo, t, digest >> \in Moves
  BY <1>1 DEF Moves
<1>3. /\ pushes \in Seq(Moves) /\ pushes' = Append(pushes, << repo, t, digest >>)
      /\ now' = [now EXCEPT ![repo][t] = digest] /\ world' = world
  BY DEF Push, NamesOK
<1>4. /\ pushes' \in Seq(Moves) /\ Len(pushes') = Len(pushes) + 1 /\ Len(pushes) \in Nat
      /\ \A i \in 1..Len(pushes) : pushes'[i] = pushes[i]
      /\ pushes'[Len(pushes) + 1] = << repo, t, digest >>
  BY <1>2, <1>3, AppendProperties, LenProperties
<1>5. /\ DOMAIN now = DOMAIN world.tag
      /\ \A r \in DOMAIN world.tag : DOMAIN now[r] = DOMAIN world.tag[r]
  BY DEF NamesOK
<1>6. /\ DOMAIN now' = DOMAIN world.tag
      /\ \A r \in DOMAIN world.tag : DOMAIN now'[r] = DOMAIN world.tag[r]
      /\ now'[repo][t] = digest
      /\ \A r \in DOMAIN world.tag : \A s \in DOMAIN world.tag[r] :
            r # repo \/ s # t => now'[r][s] = now[r][s]
  BY <1>1, <1>3, <1>5
<1>7. /\ Here.world = world /\ Here.now = now /\ Here.pushes = pushes
      /\ Here'.world = world /\ Here'.now = now' /\ Here'.pushes = pushes'
  BY <1>3 DEF Here
<1> HIDE DEF Here
<1>8. ASSUME NEW r, NEW ref, NEW stated, NEW found, Stands(Here, r, ref, stated, found)
      PROVE  Stands(Here', r, ref, stated, found)
  <2>1. found[1].at \in 0..Len(pushes) /\ found[1].at \in 0..Len(pushes')
    BY <1>4, <1>7, <1>8 DEF Stands
  <2>2. CASE r = repo /\ ref = t
    <3>1. Named(Here', r, ref) = digest
      BY <1>1, <1>6, <1>7, <2>2 DEF Named
    <3>2. Len(pushes) + 1 \in (found[1].at + 1)..Len(pushes')
      BY <1>4, <2>1
    <3>3. Since(Here', found[1].at, r, ref, digest)
      BY <1>4, <1>7, <2>1, <2>2, <3>2 DEF Since
    <3> QED BY <1>7, <2>1, <3>1, <3>3 DEF Stands
  <2>3. CASE ~(r = repo /\ ref = t)
    <3>1. Named(Here', r, ref) = Named(Here, r, ref)
      BY <1>6, <1>7, <2>3 DEF Named
    <3>2. \A d : Since(Here, found[1].at, r, ref, d) => Since(Here', found[1].at, r, ref, d)
      BY <1>4, <1>7, MoreMoves
    <3> QED BY <1>7, <1>8, <2>1, <3>1, <3>2 DEF Stands
  <2> QED BY <2>2, <2>3
<1> QED BY <1>4, <1>6, <1>8

LEMMA PushStep ==
    ASSUME IInv, NEW repo \in ToSet(world.repos), NEW t \in DOMAIN world.tag[repo],
           NEW digest \in DOMAIN world.body, Push(repo, t, digest)
    PROVE  IInv'
<1>1. NamesOK
  BY DEF IInv
<1>2. /\ pushes' \in Seq(Moves) /\ Len(pushes') = Len(pushes) + 1 /\ Len(pushes) \in Nat
      /\ \A i \in 1..Len(pushes) : pushes'[i] = pushes[i]
      /\ DOMAIN now' = DOMAIN world.tag
      /\ \A r \in DOMAIN world.tag : DOMAIN now'[r] = DOMAIN world.tag[r]
      /\ \A r, ref, stated, found :
            Stands(Here, r, ref, stated, found) => Stands(Here', r, ref, stated, found)
  BY <1>1, PushedStands
<1>3. UNCHANGED << world, cached, panel, dialog, pending, deletes, removed >>
  BY DEF Push, columns
<1>4. Here.pushes = pushes /\ Here'.pushes = pushes'
  BY DEF Here
<1> HIDE DEF Here
<1>5. NamesOK'
  BY <1>1, <1>2, <1>3 DEF NamesOK, Moves
<1>6. PanelOK(Here, panel)'
  BY <1>2, <1>3 DEF IInv, PanelOK
<1>7. \A a : AnswerOK(Here, a) => AnswerOK(Here', a)
  BY <1>2 DEF AnswerOK, PanelOK
<1>8. PendingOK'
  <2>1. ASSUME NEW r \in pending PROVE RequestOK(Here', deletes, r)
    <3>1. RequestOK(Here, deletes, r)
      BY DEF IInv, PendingOK
    <3>2. Promised(Here, deletes, r.repo, r.ref) => Promised(Here', deletes, r.repo, r.ref)
      BY <1>2 DEF Promised
    <3> QED BY <1>7, <3>1, <3>2 DEF RequestOK
  <2> QED BY <1>3, <2>1 DEF PendingOK
<1>9. RemovedOK'
  <2>1. \A n, r, ref, d : Since(Here, n, r, ref, d) => Since(Here', n, r, ref, d)
    BY <1>2, <1>4, MoreMoves
  <2>2. ASSUME NEW x \in removed
        PROVE  Redeemed(Here', deletes, x.repo, x.ref, x.digest)
    <3>1. Redeemed(Here, deletes, x.repo, x.ref, x.digest)
      BY DEF IInv, RemovedOK
    <3> QED BY <2>1, <3>1 DEF Redeemed
  <2> QED BY <1>3, <2>2 DEF RemovedOK
<1> QED BY <1>3, <1>5, <1>6, <1>8, <1>9 DEF IInv, GateOK

\* What the client reads afresh stands.
LEMMA ExpireStep ==
    ASSUME IInv, NEW repo \in ToSet(world.repos), NEW t \in DOMAIN world.tag[repo], Expire(repo, t)
    PROVE  IInv'
<1>1. NamesOK /\ repo \in DOMAIN world.tag
  BY WorldsAssumption DEF IInv, NamesOK
<1> DEFINE read == [digest |-> now[repo][t], at |-> Len(pushes)]
<1>2. /\ cached' = [cached EXCEPT ![repo][t] = read]
      /\ UNCHANGED << world, now, pushes, panel, dialog, pending, deletes, removed >>
  BY DEF Expire, columns
<1>3. /\ Here' = Here /\ Here.world = world /\ Here.now = now /\ Here.pushes = pushes
      /\ Len(pushes) \in Nat
  BY <1>1, <1>2, LenProperties DEF Here, NamesOK
<1>4. /\ DOMAIN cached = DOMAIN world.tag
      /\ \A r \in DOMAIN world.tag : DOMAIN cached[r] = DOMAIN world.tag[r]
  BY <1>1 DEF NamesOK
<1>5. read.digest = now[repo][t] /\ read.at = Len(pushes)
  OBVIOUS
<1> HIDE DEF read, Here
<1>6. /\ DOMAIN cached' = DOMAIN world.tag
      /\ \A r \in DOMAIN world.tag : DOMAIN cached'[r] = DOMAIN world.tag[r]
      /\ cached'[repo][t] = read
      /\ \A r \in DOMAIN world.tag : \A s \in DOMAIN world.tag[r] :
            r # repo \/ s # t => cached'[r][s] = cached[r][s]
  BY <1>1, <1>2, <1>4
<1>7. Stands(Here, repo, t, Just(read.digest), Just(read))
  <2>1. Named(Here, repo, t) = read.digest
    BY <1>1, <1>3, <1>5 DEF Named
  <2>2. Just(read)[1].at \in 0..Len(Here.pushes)
    BY <1>3, <1>5 DEF Just
  <2> QED BY <2>1, <2>2 DEF Stands
<1>8. ASSUME NEW r \in DOMAIN world.tag, NEW s \in DOMAIN world.tag[r]
      PROVE  Stands(Here, r, s, Just(cached'[r][s].digest), Just(cached'[r][s]))
  <2>1. CASE r = repo /\ s = t
    BY <1>6, <1>7, <2>1
  <2>2. CASE ~(r = repo /\ s = t)
    <3>1. cached'[r][s] = cached[r][s]
      BY <1>6, <2>2
    <3> QED BY <1>1, <3>1 DEF NamesOK
  <2> QED BY <2>1, <2>2
<1>9. NamesOK'
  BY <1>1, <1>2, <1>3, <1>6, <1>8 DEF NamesOK, Moves
<1> QED BY <1>2, <1>3, <1>9 DEF IInv, GateOK, PendingOK, RemovedOK

-----------------------------------------------------------------------------

\* At first the tags are where they are read to be.
LEMMA InitNames ==
    ASSUME Init
    PROVE  NamesOK
<1>1. /\ world \in Worlds /\ now = world.tag /\ pushes = << >>
      /\ cached = [repo \in DOMAIN world.tag |->
                     [t \in DOMAIN world.tag[repo] |-> [digest |-> world.tag[repo][t], at |-> 0]]]
  BY DEF Init
<1>2. pushes \in Seq(Moves) /\ Len(pushes) = 0
  BY <1>1, EmptySeq
<1>3. Here.world = world /\ Here.now = now /\ Here.pushes = pushes
  BY DEF Here
<1> HIDE DEF Here
<1>4. ASSUME NEW repo \in DOMAIN world.tag, NEW t \in DOMAIN world.tag[repo]
      PROVE  Stands(Here, repo, t, Just(cached[repo][t].digest), Just(cached[repo][t]))
  <2> DEFINE read == cached[repo][t]
  <2>1. read = [digest |-> now[repo][t], at |-> 0]
    BY <1>1
  <2>2. read.digest = now[repo][t] /\ read.at = 0
    BY <2>1
  <2> HIDE DEF read
  <2>3. Named(Here, repo, t) = read.digest
    BY <1>3, <2>2 DEF Named
  <2>4. Just(read)[1].at \in 0..Len(Here.pushes)
    BY <1>2, <1>3, <2>2 DEF Just
  <2>5. Stands(Here, repo, t, Just(read.digest), Just(read))
    BY <2>3, <2>4 DEF Stands
  <2> QED BY <2>5 DEF read
<1>5. \A repo \in DOMAIN world.tag : DOMAIN cached[repo] = DOMAIN world.tag[repo]
  BY <1>1
<1> QED BY <1>1, <1>2, <1>4, <1>5 DEF NamesOK

\* The page that is open at first has a closed dialog and nothing on its way.
LEMMA InitInductive == Init => IInv
<1> SUFFICES ASSUME Init PROVE IInv
  OBVIOUS
<1>1. PanelOK(Here, panel)
  BY BlankPanelOK DEF Init
<1> QED BY <1>1, InitNames DEF Init, IInv, IsDialog, GateOK, Closed, PendingOK, RemovedOK

LEMMA NextInductive == IInv /\ [Next]_vars => IInv'
<1> SUFFICES ASSUME IInv, [Next]_vars PROVE IInv'
  OBVIOUS
<1>1. CASE Browse
  BY <1>1, BrowseStep
<1>2. CASE Dialog
  BY <1>2, DialogSteps, ConfirmStep DEF Dialog
<1>3. CASE Answers
  BY <1>3, ServeFragmentStep, ServeDeleteStep, DeliverDeleteStep, DeliverStep DEF Answers
<1>4. CASE UNCHANGED vars
  <2>1. UNCHANGED << world, tagging, panel, dialog, pending, deletes, removed >>
    BY <1>4 DEF vars, columns
  <2>2. Here' = Here /\ (NamesOK' <=> NamesOK)
    BY <2>1, Unmoved
  <2> QED BY <2>1, <2>2 DEF IInv, GateOK, PendingOK, RemovedOK
<1>5. CASE Others
  BY <1>5, PushStep, ExpireStep DEF Others
<1> QED BY <1>1, <1>2, <1>3, <1>4, <1>5 DEF Next

\* The dialog's button is enabled only over the name of the panel on screen, and a
\* panel states the digest its own reference names, or named before somebody moved
\* the tag, unless it shows a platform child (manifest_info.html, layerloupe.js,
\* _fetch_manifest).
THEOREM GateHolds == Spec => []IInv
BY InitInductive, NextInductive, PTL DEF Spec

\* Nothing is deleted that was not typed, and what the registry removes is what the
\* dialog stated, or what somebody has moved the tag to since the client read what
\* the panel shows, unless that showed a platform child.
THEOREM DeletesConfirmed == Spec => []DeleteConfirmed
<1>1. IInv => DeleteConfirmed
  <2> SUFFICES ASSUME IInv PROVE DeleteConfirmed
    OBVIOUS
  <2>1. ASSUME NEW x \in removed
        PROVE  \E d \in deletes :
                  /\ d.repo = x.repo /\ d.ref = x.ref
                  /\ d.child \/ d.promised \in {Nothing, Just(x.digest)} \/ PushedSince(d, x.digest)
    <3>1. Redeemed(Here, deletes, x.repo, x.ref, x.digest) /\ Here.pushes = pushes
      BY DEF IInv, RemovedOK, Here
    <3> QED BY <3>1 DEF Redeemed, Since, PushedSince
  <2> QED BY <2>1 DEF IInv, Confirmed, DeleteConfirmed
<1> QED BY <1>1, GateHolds, PTL

-----------------------------------------------------------------------------
(***************************************************************************)
(* UrlMatchesPanel.  The argument: an answer that swaps in a panel pushes  *)
(* a URL that fits it, and one that swaps in none pushes none              *)
(* (AnswerFits), so URL and panel change together; a page load makes the   *)
(* panel from the URL.  Which URL a request pushes goes back to the link   *)
(* clicked (RequestFits).  A Load more is told from a fresh pick by its    *)
(* limit alone, so limits must be those the column was rendered with       *)
(* (LimitOK).                                                              *)
(***************************************************************************)

\* Location u is the one to show panel p with.
Fits(p, u) ==
    /\ p.kind = "shown" =>
          /\ u = URL("manifest", p.repo, p.ref,
                     IF p.parent = Nothing THEN Nothing ELSE Just(p.asked))
          /\ p.parent \in {Nothing, Just(p.ref)}
    /\ p.kind # "shown" => u.repo = p.repo
    /\ u.page = "manifest" /\ p.kind = "hint" => u.ref = p.asked

LimitOK(limit) == limit \in Nat /\ limit >= PAGE

AnswerFits(a) ==
    /\ a.panel = Nothing => a.push = Nothing
    /\ a.ok /\ a.panel # Nothing => a.push # Nothing /\ Fits(a.panel[1], a.push[1])
    /\ a.tagCol # Nothing => LimitOK(a.tagCol[1].limit)

\* The fields of a panel and of a request that matter here.
UrlIsPanel(p) == {"kind", "repo", "ref", "parent", "asked", "u"} \subseteq DOMAIN p
UrlIsRequest(r) ==
    {"kind", "repo", "ref", "limit", "push", "attached", "answer"} \subseteq DOMAIN r

\* The limit of request r and the URL it pushes are those of its link or control.
Sent(kind, repo, ref, limit, push) ==
    /\ kind \in {"repos", "tags", "filter", "more", "manifest", "delete"}
    /\ kind # "repos" => LimitOK(limit)
    /\ kind = "more" => limit > PAGE
    /\ kind \in {"repos", "filter", "more"} => push = Nothing
    /\ kind = "tags" => limit = PAGE /\ push = Just(TagsURL(repo))
    /\ kind = "manifest" => push = Just(ManifestURL(repo, ref))

RequestFits(r) ==
    /\ UrlIsRequest(r)
    /\ Sent(r.kind, r.repo, r.ref, r.limit, r.push)
    /\ r.kind # "delete" /\ r.answer # Nothing => AnswerFits(r.answer[1])

UrlInv ==
    /\ Fits(panel, url)
    /\ LimitOK(tagCol.limit)
    /\ \A r \in pending : RequestFits(r)

-----------------------------------------------------------------------------
\* Panels.

LEMMA Options ==
    ASSUME NEW STATE x
    PROVE  Just(x)[1] = x /\ Just(x) # Nothing
BY SMT DEF Just, Nothing

\* Panel q is blank panel b after its manifest, of parent, was fetched or was not.
Made(q, b, parent) ==
    /\ UrlIsPanel(q) /\ q.kind \in {"shown", "error", "broken"}
    /\ q.repo = b.repo /\ q.ref = b.ref /\ q.asked = b.asked
    /\ q.kind = "shown" => q.parent = parent

LEMMA UrlRetitledPanel ==
    ASSUME NEW STATE b, UrlIsPanel(b), NEW STATE parent, NEW STATE kind, kind \in {"error", "broken"}
    PROVE  Made(Retitled(b, kind), b, parent)
<1> DEFINE q == Retitled(b, kind)
<1>1. UrlIsPanel(q) /\ q.kind = kind /\ q.repo = b.repo /\ q.ref = b.ref /\ q.asked = b.asked
  BY DEF UrlIsPanel, Retitled
<1> QED BY <1>1 DEF Made

LEMMA UrlFilledBlank ==
    ASSUME NEW STATE b, UrlIsPanel(b), NEW STATE parent, NEW STATE u,
           NEW STATE layers, NEW STATE rows, NEW STATE source, NEW STATE referrers
    PROVE  Made(Filled(b, parent, u, layers, rows, source, referrers), b, parent)
<1> DEFINE q == Filled(b, parent, u, layers, rows, source, referrers)
<1>1. /\ UrlIsPanel(q) /\ q.kind = "shown" /\ q.repo = b.repo /\ q.ref = b.ref
      /\ q.asked = b.asked /\ q.parent = parent
  BY DEF UrlIsPanel, Filled
<1> QED BY <1>1 DEF Made

LEMMA FilledPanelMade ==
    ASSUME NEW STATE b, UrlIsPanel(b), NEW STATE parent, NEW STATE u, NEW STATE refs, NEW STATE notes
    PROVE  Made(FilledPanel(b, parent, u, refs, notes), b, parent)
<1> DEFINE p == FilledPanel(b, parent, u, refs, notes)
<1>1. CASE "crash" \in {refs.out, notes.out}
  <2>1. p = Retitled(b, "broken")
    BY <1>1 DEF FilledPanel, Retitled
  <2> QED BY <2>1, UrlRetitledPanel
<1>2. CASE "crash" \notin {refs.out, notes.out} /\ "error" \in {refs.out, notes.out}
  <2>1. p = Retitled(b, "error")
    BY <1>2 DEF FilledPanel, Retitled
  <2> QED BY <2>1, UrlRetitledPanel
<1>3. CASE "crash" \notin {refs.out, notes.out} /\ "error" \notin {refs.out, notes.out}
  <2>1. p = Filled(b, parent, Just(u), LayerRows(u), notes.rows, notes.source, refs.rows)
    BY <1>3 DEF FilledPanel, Filled
  <2> QED BY <2>1, UrlFilledBlank
<1> QED BY <1>1, <1>2, <1>3

LEMMA BlankPanelFields ==
    ASSUME NEW STATE kind, NEW STATE repo, NEW STATE ref, NEW STATE asked, NEW STATE down
    PROVE  LET b == BlankPanel(kind, repo, ref, asked, down) IN
           /\ UrlIsPanel(b) /\ b.kind = kind /\ b.repo = repo /\ b.ref = ref /\ b.asked = asked
BY DEF BlankPanel, UrlIsPanel

LEMMA FetchOutcome ==
    ASSUME NEW STATE repo, NEW STATE ref, NEW STATE down, NEW STATE e, NEW STATE f
    PROVE  FetchManifest(repo, ref, down, e, f).out \in {"ok", "error", "crash"}
<1> DEFINE digest == DigestOf(repo, ref)
           m == world.body[digest]
           c == FetchConfig(m, f \in down)
<1>1. c.out \in {"ok", "crash"}
  BY DEF FetchConfig, Failed
<1>2. Parse(m, digest, c).out \in {"ok", "error", "crash"}
  BY <1>1 DEF Parse, Failed
<1> QED BY <1>2 DEF FetchManifest, Failed

\* What manifest_page, manifest_fragment and tags_fragment make of a manifest.
LEMMA ManifestPanelMade ==
    ASSUME NEW STATE repo, NEW STATE ref, NEW STATE platform, NEW STATE down
    PROVE  LET q == ManifestPanel(repo, ref, platform, down) IN
           /\ UrlIsPanel(q) /\ q.kind \in {"shown", "error", "broken"}
           /\ q.repo = repo /\ q.ref = ref
           /\ q.asked = IF platform = Nothing THEN ref ELSE platform[1]
           /\ q.kind = "shown" => q.parent = IF platform = Nothing THEN Nothing ELSE Just(ref)
<1> DEFINE asked == IF platform = Nothing THEN ref ELSE platform[1]
           parent == IF platform = Nothing THEN Nothing ELSE Just(ref)
           blank == BlankPanel("error", repo, ref, asked, down)
           found == IF Exists(repo, asked) THEN Just(Reads(repo, asked)) ELSE Nothing
           b == Found(blank, found)
           got == FetchManifest(repo, asked, down, "manifest", "config")
           q == ManifestPanel(repo, ref, platform, down)
           refs == FetchReferrers(got.u, down)
           notes == AnnotationsWithFallback(b.repo, got.u, down)
<1>1. q = PanelOf(b, parent, got, down)
  BY DEF ManifestPanel, Found
<1>2. /\ UrlIsPanel(b) /\ b.kind = "error"
      /\ b.repo = repo /\ b.ref = ref /\ b.asked = asked
  <2>1. /\ UrlIsPanel(blank) /\ blank.kind = "error"
        /\ blank.repo = repo /\ blank.ref = ref /\ blank.asked = asked
    BY BlankPanelFields
  <2> HIDE DEF blank, found, asked
  <2> QED BY <2>1 DEF UrlIsPanel, Found
<1>3. got.out \in {"ok", "error", "crash"}
  BY FetchOutcome
<1>4. \/ q = b
      \/ q = Retitled(b, "broken")
      \/ q = FilledPanel(b, parent, got.u, refs, notes)
  BY <1>1, <1>3, Zenon DEF PanelOf, Retitled
<1> HIDE DEF b, q, refs, notes, got
<1>5. Made(q, b, parent)
  <2>1. Made(Retitled(b, "broken"), b, parent)
    BY <1>2, UrlRetitledPanel
  <2>2. Made(FilledPanel(b, parent, got.u, refs, notes), b, parent)
    BY <1>2, FilledPanelMade
  <2>3. Made(b, b, parent)
    BY <1>2 DEF Made
  <2> QED BY <1>4, <2>1, <2>2, <2>3
<1>6. /\ UrlIsPanel(q) /\ q.kind \in {"shown", "error", "broken"}
      /\ q.repo = repo /\ q.ref = ref /\ q.asked = asked
      /\ q.kind = "shown" => q.parent = parent
  BY <1>2, <1>5 DEF Made
<1> QED BY <1>6 DEF q

\* A page's panel is made from the page's own URL, if that is one a user can open.
LEMMA PagePanelFits ==
    ASSUME NEW STATE page, NEW STATE repo, NEW STATE ref, NEW STATE platform, NEW STATE down,
           platform = Nothing \/ platform = Just(platform[1])
    PROVE  LET u == URL(page, repo, ref, platform) IN Fits(PagePanel(u, down), u)
<1> DEFINE u == URL(page, repo, ref, platform)
           asked == IF u.platform = Nothing THEN u.ref ELSE u.platform[1]
           hint == BlankPanel("hint", u.repo, "", "", down)
           error == BlankPanel("error", u.repo, u.ref, asked, down)
           q == ManifestPanel(u.repo, u.ref, u.platform, down)
           p == PagePanel(u, down)
<1>1. /\ u.page = page /\ u.repo = repo /\ u.ref = ref /\ u.platform = platform
      /\ u = URL(page, repo, ref, platform)
  BY DEF URL
<1>2. \/ u.page # "manifest" /\ p = hint
      \/ p = error \/ p = Rendered(error)
      \/ u.page = "manifest" /\ p = Rendered(q)
  BY DEF PagePanel
<1>3. hint.kind = "hint" /\ hint.repo = u.repo /\ error.kind = "error" /\ error.repo = u.repo
  BY DEF BlankPanel
<1>4. /\ q.kind \in {"shown", "error", "broken"} /\ q.repo = u.repo /\ q.ref = u.ref
      /\ q.asked = IF u.platform = Nothing THEN u.ref ELSE u.platform[1]
      /\ q.kind = "shown" => q.parent = IF u.platform = Nothing THEN Nothing ELSE Just(u.ref)
  BY ManifestPanelMade
<1>5. Just(ref) # Nothing
  BY Options
<1> HIDE DEF u, hint, error, q, p
<1>6. (Fits(q, u) /\ Fits(Rendered(q), u)) \/ u.page # "manifest"
  BY <1>1, <1>4, <1>5, RenderedMeaning DEF Fits
<1>8. Fits(error, u) /\ Rendered(error) = error
  BY <1>3 DEF Fits, Rendered
<1>7. Fits(p, u)
  BY <1>2, <1>3, <1>6, <1>8 DEF Fits
<1> QED BY <1>7 DEF u, p

\* The panel of a freshly picked repository fits the URL its header pushes.
LEMMA AutoPanelFits ==
    ASSUME NEW STATE tags, NEW STATE repo, NEW STATE down
    PROVE  LET p == AutoPanel(tags, ManifestPanel(repo, tags[1], Nothing, down)) IN
           p.kind # "broken" => Fits(p, ManifestURL(repo, tags[1]))
<1> DEFINE p == ManifestPanel(repo, tags[1], Nothing, down)
           q == AutoPanel(tags, p)
           u == ManifestURL(repo, tags[1])
<1>1. /\ UrlIsPanel(p) /\ p.kind \in {"shown", "error", "broken"}
      /\ p.repo = repo /\ p.ref = tags[1] /\ p.asked = tags[1]
      /\ p.kind = "shown" => p.parent = Nothing
  BY ManifestPanelMade
<1> HIDE DEF p
<1>2. /\ q.kind = IF p.kind = "error" THEN "hint" ELSE p.kind
      /\ q.ref = IF p.kind = "error" THEN "" ELSE tags[1]
      /\ q.repo = p.repo /\ q.parent = p.parent /\ q.asked = p.asked
  BY <1>1 DEF AutoPanel, UrlIsPanel
<1>3. u = URL("manifest", repo, tags[1], Nothing) /\ u.repo = repo /\ u.ref = tags[1]
  BY DEF ManifestURL, URL
<1> HIDE DEF q, u
<1>4. q.kind # "broken" => Fits(q, u)
  BY <1>1, <1>2, <1>3 DEF Fits
<1> QED BY <1>4 DEF p, q, u

-----------------------------------------------------------------------------
\* Answers.

LEMMA UrlListAnswer ==
    ASSUME NEW STATE column, NEW STATE push
    PROVE  /\ LET a == [NoSwap EXCEPT !.repoCol = column] IN
              a.panel = Nothing /\ a.push = Nothing /\ a.tagCol = Nothing
           /\ LET a == [NoSwap EXCEPT !.tagCol = column, !.push = push] IN
              /\ {"ok", "panel", "push", "tagCol", "filterBox"} \subseteq DOMAIN a
              /\ a.panel = Nothing /\ a.push = push /\ a.tagCol = column
BY DEF NoSwap

LEMMA TagColumnLimit ==
    ASSUME NEW STATE repo, NEW STATE state, NEW STATE all, NEW STATE q, NEW STATE limit
    PROVE  TagColumn(repo, state, all, q, limit).limit = limit
BY DEF TagColumn

LEMMA PickedRepoFits ==
    ASSUME NEW STATE r, NEW STATE list, NEW STATE p, NEW STATE push,
           {"ok", "panel", "push", "tagCol", "filterBox"} \subseteq DOMAIN list,
           list.tagCol # Nothing => LimitOK(list.tagCol[1].limit),
           p.kind # "broken" => push # Nothing /\ Fits(p, push[1])
    PROVE  AnswerFits(PickedRepo(r, list, p, push))
<1> DEFINE a == PickedRepo(r, list, p, push)
<1>1. /\ a.ok = (p.kind # "broken") /\ a.panel = Just(p) /\ a.push = push
      /\ a.tagCol = list.tagCol
  BY DEF PickedRepo
<1>2. Just(p)[1] = p /\ Just(p) # Nothing
  BY Options
<1> HIDE DEF a
<1>3. AnswerFits(a)
  BY <1>1, <1>2 DEF AnswerFits
<1> QED BY <1>3 DEF a

LEMMA TagsAnswerFits ==
    ASSUME NEW STATE r, NEW STATE state, NEW STATE tags, NEW STATE down,
           r.kind \in {"tags", "filter", "more"}, Sent(r.kind, r.repo, r.ref, r.limit, r.push)
    PROVE  AnswerFits(TagsAnswer(r, state, tags, down))
<1> DEFINE column == TagColumn(r.repo, state, tags, r.q, r.limit)
           list == [NoSwap EXCEPT !.tagCol = Just(column), !.push = r.push]
           hint == BlankPanel("hint", r.repo, "", "", down)
           auto == AutoPanel(tags, ManifestPanel(r.repo, tags[1], Nothing, down))
           u == ManifestURL(r.repo, tags[1])
           t == TagsURL(r.repo)
           a == TagsAnswer(r, state, tags, down)
<1>1. a = IF r.kind = "filter" \/ r.limit > PAGE THEN list
          ELSE IF tags = << >> THEN PickedRepo(r, list, hint, r.push)
          ELSE PickedRepo(r, list, auto, Just(u))
  BY DEF TagsAnswer
<1>2. /\ {"ok", "panel", "push", "tagCol", "filterBox"} \subseteq DOMAIN list
      /\ list.panel = Nothing /\ list.push = r.push /\ list.tagCol = Just(column)
  BY UrlListAnswer
<1>3. column.limit = r.limit
  BY TagColumnLimit
<1>4. auto.kind # "broken" => Fits(auto, u)
  BY AutoPanelFits
<1>5. hint.kind = "hint" /\ hint.repo = r.repo
  BY DEF BlankPanel
<1>6. t.page = "tags" /\ t.repo = r.repo
  BY DEF TagsURL, URL
<1>7. /\ Just(column)[1] = column /\ Just(u)[1] = u /\ Just(u) # Nothing
      /\ Just(t)[1] = t /\ Just(t) # Nothing
  BY Options
<1>8. LimitOK(r.limit) /\ (r.kind = "tags" => r.limit = PAGE /\ r.push = Just(t))
  BY DEF Sent
<1>9. r.limit = PAGE => ~(r.limit > PAGE)
  BY <1>8 DEF LimitOK
<1>10. r.kind = "filter" \/ r.limit > PAGE => r.push = Nothing
  BY <1>9 DEF Sent
<1>11. ~(r.kind = "filter" \/ r.limit > PAGE) => r.kind = "tags"
  BY DEF Sent
<1> HIDE DEF column, list, hint, auto, u, t, a
<1>12. list.tagCol # Nothing => LimitOK(list.tagCol[1].limit)
  BY <1>2, <1>3, <1>7, <1>8
<1>13. CASE r.kind = "filter" \/ r.limit > PAGE
  <2>1. AnswerFits(a)
    BY <1>1, <1>2, <1>10, <1>12, <1>13 DEF AnswerFits
  <2> QED BY <2>1 DEF a
<1>14. CASE ~(r.kind = "filter" \/ r.limit > PAGE)
  <2>1. Fits(hint, t)
    BY <1>5, <1>6 DEF Fits
  <2>2. AnswerFits(PickedRepo(r, list, hint, r.push))
    BY <1>2, <1>7, <1>8, <1>11, <1>12, <1>14, <2>1, PickedRepoFits
  <2>3. AnswerFits(PickedRepo(r, list, auto, Just(u)))
    BY <1>2, <1>4, <1>7, <1>12, PickedRepoFits
  <2>4. AnswerFits(a)
    BY <1>1, <1>14, <2>2, <2>3
  <2> QED BY <2>4 DEF a
<1> QED BY <1>13, <1>14

LEMMA PanelAnswerFits ==
    ASSUME NEW STATE r, NEW STATE down, r.push = Just(ManifestURL(r.repo, r.ref))
    PROVE  AnswerFits(PanelAnswer(r, ManifestPanel(r.repo, r.ref, Nothing, down)))
<1> DEFINE p == ManifestPanel(r.repo, r.ref, Nothing, down)
           u == ManifestURL(r.repo, r.ref)
           a == PanelAnswer(r, p)
<1>1. /\ p.kind \in {"shown", "error", "broken"} /\ p.repo = r.repo /\ p.ref = r.ref
      /\ p.kind = "shown" => p.parent = Nothing
  BY ManifestPanelMade
<1>2. u = URL("manifest", r.repo, r.ref, Nothing) /\ u.repo = r.repo
  BY DEF ManifestURL, URL
<1>3. Just(p)[1] = p /\ Just(p) # Nothing /\ Just(u)[1] = u /\ Just(u) # Nothing
  BY Options
<1> HIDE DEF p
<1>4. a.panel = Just(p) /\ a.push = r.push /\ a.tagCol = Nothing
  BY DEF PanelAnswer, NoSwap
<1> HIDE DEF u, a
<1>5. Fits(p, u)
  BY <1>1, <1>2 DEF Fits
<1>6. r.push = Just(u)
  BY DEF u
<1>7. AnswerFits(a)
  BY <1>3, <1>4, <1>5, <1>6 DEF AnswerFits
<1> QED BY <1>7 DEF a, p

LEMMA AnswerIsFit ==
    ASSUME NEW STATE r, NEW STATE down, RequestFits(r), r.kind # "delete"
    PROVE  AnswerFits(Answer(r, down))
<1>1. Sent(r.kind, r.repo, r.ref, r.limit, r.push)
  BY DEF RequestFits
<1>2. CASE r.kind = "repos"
  <2> DEFINE repos == IF "repos" \in down THEN << >> ELSE FetchRepos(r.q)
             column == Just(Column(repos, r.q, r.limit))
             a == [NoSwap EXCEPT !.repoCol = column]
  <2>1. Answer(r, down) = a
    BY <1>2 DEF Answer, ReposFragment
  <2>2. a.panel = Nothing /\ a.push = Nothing /\ a.tagCol = Nothing
    BY UrlListAnswer
  <2> HIDE DEF a
  <2> QED BY <2>1, <2>2 DEF AnswerFits
<1>3. CASE r.kind \in {"tags", "filter", "more"}
  <2>1. Answer(r, down) = TagsFragment(r, down)
    BY <1>3 DEF Answer
  <2>2. \/ TagsFragment(r, down) = TagsAnswer(r, "error", << >>, down)
        \/ TagsFragment(r, down) = TagsAnswer(r, "list", FetchTags(r.repo, r.q), down)
    BY DEF TagsFragment
  <2> QED BY <1>1, <1>3, <2>1, <2>2, TagsAnswerFits
<1>4. CASE r.kind = "manifest"
  <2>1. Answer(r, down) = PanelAnswer(r, ManifestPanel(r.repo, r.ref, Nothing, down))
    BY <1>4 DEF Answer, ManifestFragment
  <2>2. r.push = Just(ManifestURL(r.repo, r.ref))
    BY <1>1, <1>4 DEF Sent
  <2> QED BY <2>1, <2>2, PanelAnswerFits
<1> QED BY <1>1, <1>2, <1>3, <1>4 DEF Sent

-----------------------------------------------------------------------------
\* Requests.

LEMMA PageLimit == LimitOK(PAGE)
BY PageAssumption DEF LimitOK

\* What a click on a link and what a column's control send.
LEMMA LinkRequest ==
    ASSUME NEW STATE kind, NEW STATE repo, NEW STATE ref, NEW STATE push,
           Sent(kind, repo, ref, PAGE, push)
    PROVE  RequestFits([Request(kind, repo, ref) EXCEPT !.push = push])
<1> DEFINE r == [Request(kind, repo, ref) EXCEPT !.push = push]
<1>1. /\ UrlIsRequest(r) /\ r.kind = kind /\ r.repo = repo /\ r.ref = ref
      /\ r.limit = PAGE /\ r.push = push /\ r.answer = Nothing
  BY DEF Request, UrlIsRequest
<1> HIDE DEF r
<1>2. RequestFits(r)
  BY <1>1 DEF RequestFits
<1> QED BY <1>2 DEF r

LEMMA FilterRequest ==
    ASSUME NEW STATE kind, NEW STATE repo, NEW STATE ref, NEW STATE q,
           Sent(kind, repo, ref, PAGE, Nothing)
    PROVE  RequestFits([Request(kind, repo, ref) EXCEPT !.q = q])
<1> DEFINE r == [Request(kind, repo, ref) EXCEPT !.q = q]
<1>1. /\ UrlIsRequest(r) /\ r.kind = kind /\ r.repo = repo /\ r.ref = ref
      /\ r.limit = PAGE /\ r.push = Nothing /\ r.answer = Nothing
  BY DEF Request, UrlIsRequest
<1> HIDE DEF r
<1>2. RequestFits(r)
  BY <1>1 DEF RequestFits
<1> QED BY <1>2 DEF r

LEMMA MoreRequest ==
    ASSUME NEW STATE kind, NEW STATE repo, NEW STATE ref, NEW STATE q, NEW STATE limit,
           Sent(kind, repo, ref, limit, Nothing)
    PROVE  RequestFits([Request(kind, repo, ref) EXCEPT !.q = q, !.limit = limit])
<1> DEFINE r == [Request(kind, repo, ref) EXCEPT !.q = q, !.limit = limit]
<1>1. /\ UrlIsRequest(r) /\ r.kind = kind /\ r.repo = repo /\ r.ref = ref
      /\ r.limit = limit /\ r.push = Nothing /\ r.answer = Nothing
  BY DEF Request, UrlIsRequest
<1> HIDE DEF r
<1>2. RequestFits(r)
  BY <1>1 DEF RequestFits
<1> QED BY <1>2 DEF r

LEMMA DeleteRequest ==
    ASSUME NEW STATE repo, NEW STATE ref
    PROVE  RequestFits(Request("delete", repo, ref))
<1> DEFINE r == Request("delete", repo, ref)
<1>1. /\ UrlIsRequest(r) /\ r.kind = "delete" /\ r.limit = PAGE
  BY DEF Request, UrlIsRequest
<1> HIDE DEF r
<1>2. RequestFits(r)
  BY <1>1, PageLimit DEF RequestFits, Sent
<1> QED BY <1>2 DEF r

LEMMA UrlDetachedRequest ==
    ASSUME NEW STATE r, NEW STATE yes, RequestFits(r)
    PROVE  RequestFits([r EXCEPT !.attached = yes])
<1> DEFINE q == [r EXCEPT !.attached = yes]
<1>1. UrlIsRequest(r)
  BY DEF RequestFits
<1>2. /\ UrlIsRequest(q) /\ q.kind = r.kind /\ q.repo = r.repo /\ q.ref = r.ref
      /\ q.limit = r.limit /\ q.push = r.push /\ q.answer = r.answer
  BY <1>1 DEF UrlIsRequest
<1> HIDE DEF q
<1>3. RequestFits(q)
  BY <1>2 DEF RequestFits
<1> QED BY <1>3 DEF q

LEMMA UrlAnsweredRequest ==
    ASSUME NEW STATE r, NEW STATE a, RequestFits(r), r.kind # "delete" => AnswerFits(a)
    PROVE  RequestFits([r EXCEPT !.answer = Just(a)])
<1> DEFINE q == [r EXCEPT !.answer = Just(a)]
<1>1. UrlIsRequest(r)
  BY DEF RequestFits
<1>2. /\ UrlIsRequest(q) /\ q.kind = r.kind /\ q.repo = r.repo /\ q.ref = r.ref
      /\ q.limit = r.limit /\ q.push = r.push /\ q.answer = Just(a)
  BY <1>1 DEF UrlIsRequest
<1>3. Just(a)[1] = a
  BY Options
<1> HIDE DEF q
<1>4. RequestFits(q)
  BY <1>2, <1>3 DEF RequestFits
<1> QED BY <1>4 DEF q

-----------------------------------------------------------------------------
\* The steps, one lemma for each group of actions.

LEMMA UrlClickStep ==
    ASSUME UrlInv, NEW STATE r, RequestFits(r), Click(r)
    PROVE  UrlInv'
BY DEF UrlInv, Click, Send, columns

LEMMA DialogStepFits ==
    ASSUME UrlInv, Dialog
    PROVE  UrlInv'
<1>1. CASE OpenDialog \/ TypeName \/ EraseName \/ CancelDialog
  <2>1. UNCHANGED << url, panel, tagCol, pending >>
    BY <1>1 DEF OpenDialog, TypeName, EraseName, CancelDialog, Typing, DialogStep
  <2> QED BY <2>1 DEF UrlInv
<1>2. CASE ConfirmDelete
  <2> DEFINE r == Request("delete", panel.repo, panel.ref)
  <2>1. UNCHANGED << url, panel, tagCol >> /\ pending' = pending \cup {r}
    BY <1>2 DEF ConfirmDelete, Send, columns
  <2>2. RequestFits(r)
    BY DeleteRequest
  <2> HIDE DEF r
  <2> QED BY <2>1, <2>2 DEF UrlInv
<1> QED BY <1>1, <1>2 DEF Dialog

\* A URL as the links and the location bar have them.
PageURL(u) ==
    /\ u = URL(u.page, u.repo, u.ref, u.platform)
    /\ u.platform = Nothing \/ u.platform = Just(u.platform[1])

LEMMA PageURLs ==
    /\ PageURL(HomeURL)
    /\ \A repo : PageURL(TagsURL(repo))
    /\ \A repo, ref : PageURL(ManifestURL(repo, ref))
    /\ \A repo, ref, child : PageURL(PlatformURL(repo, ref, child))
BY DEF PageURL, HomeURL, TagsURL, ManifestURL, PlatformURL, URL, Just

LEMMA OpenPages ==
    ASSUME NEW u \in Pages
    PROVE  PageURL(u)
BY PageURLs DEF Pages

LEMMA UrlLoadStep ==
    ASSUME UrlInv, NEW u, PageURL(u), NEW down, Load(u, down)
    PROVE  UrlInv'
<1> DEFINE left == {q \in pending : q.kind = "delete" /\ q.answer = Nothing}
           tags == IF "tags" \in down THEN << >> ELSE FetchTags(u.repo, "")
<1>1. /\ url' = u /\ panel' = PagePanel(u, down)
      /\ tagCol' \in {NoTags, TagColumn(u.repo, "list", tags, "", PAGE)}
      /\ pending' = {[q EXCEPT !.attached = FALSE] : q \in left}
  BY DEF Load, LoadPage, Render
<1>2. Fits(PagePanel(u, down), u)
  BY PagePanelFits DEF PageURL
<1>3. NoTags.limit = PAGE /\ TagColumn(u.repo, "list", tags, "", PAGE).limit = PAGE
  BY DEF TagColumn, NoTags
<1>4. \A q \in left : RequestFits([q EXCEPT !.attached = FALSE])
  BY UrlDetachedRequest DEF UrlInv
<1> HIDE DEF tags
<1>5. LimitOK(tagCol'.limit)
  BY <1>1, <1>3, PageLimit
<1> QED BY <1>1, <1>2, <1>4, <1>5 DEF UrlInv

LEMMA UrlBrowseStep ==
    ASSUME UrlInv, Browse
    PROVE  UrlInv'
<1>1. ASSUME NEW repo \in ToSet(world.repos), ClickRepo(repo)
      PROVE  UrlInv'
  <2>1. Sent("tags", repo, "", PAGE, Just(TagsURL(repo)))
    BY PageLimit DEF Sent
  <2> QED BY <1>1, <2>1, LinkRequest, UrlClickStep DEF ClickRepo
<1>2. ASSUME NEW tag \in ToSet(tagCol.names), ClickTag(tag)
      PROVE  UrlInv'
  <2>1. Sent("manifest", tagCol.repo, tag, PAGE, Just(ManifestURL(tagCol.repo, tag)))
    BY PageLimit DEF Sent
  <2> QED BY <1>2, <2>1, LinkRequest, UrlClickStep DEF ClickTag
<1>3. ASSUME NEW i \in DOMAIN panel.referrers, ClickReferrer(i)
      PROVE  UrlInv'
  <2> DEFINE digest == panel.referrers[i].digest
  <2>1. Sent("manifest", panel.repo, digest, PAGE, Just(ManifestURL(panel.repo, digest)))
    BY PageLimit DEF Sent
  <2> QED BY <1>3, <2>1, LinkRequest, UrlClickStep DEF ClickReferrer
<1>4. ASSUME NEW q \in Filters, FilterRepos(q)
      PROVE  UrlInv'
  <2>1. Sent("repos", "", "filter", PAGE, Nothing)
    BY PageLimit DEF Sent
  <2> QED BY <1>4, <2>1, FilterRequest, UrlClickStep DEF FilterRepos
<1>5. ASSUME NEW q \in Filters, FilterTags(q)
      PROVE  UrlInv'
  <2> DEFINE r == [Request("filter", filterBox.repo, "") EXCEPT !.q = q]
  <2>1. Sent("filter", filterBox.repo, "", PAGE, Nothing)
    BY PageLimit DEF Sent
  <2>2. RequestFits(r)
    BY <2>1, FilterRequest
  <2>3. /\ UNCHANGED << url, panel, tagCol >>
        /\ pending' = pending \/ pending' = pending \cup {r}
    BY <1>5 DEF FilterTags, Send
  <2> HIDE DEF r
  <2> QED BY <2>2, <2>3 DEF UrlInv
<1>6. CASE MoreRepos
  <2>1. Sent("repos", "", "more", repoCol.limit + PAGE, Nothing)
    BY DEF Sent
  <2> QED BY <1>6, <2>1, MoreRequest, UrlClickStep DEF MoreRepos
<1>7. CASE MoreTags
  <2>1. LimitOK(tagCol.limit)
    BY DEF UrlInv
  <2>2. Sent("more", tagCol.repo, "", tagCol.limit + PAGE, Nothing)
    BY <2>1, PageAssumption DEF Sent, LimitOK
  <2> QED BY <1>7, <2>2, MoreRequest, UrlClickStep DEF MoreTags
<1>8. ASSUME NEW u \in Pages, NEW down, Visit(u, down)
      PROVE  UrlInv'
  BY <1>8, OpenPages, UrlLoadStep DEF Visit
<1> QED BY <1>1, <1>2, <1>3, <1>4, <1>5, <1>6, <1>7, <1>8 DEF Browse

LEMMA ServeStep ==
    ASSUME UrlInv, NEW r \in pending, NEW down, ServeFragment(r, down) \/ ServeDelete(r, down)
    PROVE  UrlInv'
<1>1. RequestFits(r)
  BY DEF UrlInv
<1>2. CASE ServeFragment(r, down)
  <2> DEFINE q == [r EXCEPT !.answer = Just(Answer(r, down))]
  <2>1. /\ r.kind # "delete" /\ pending' = (pending \ {r}) \cup {q}
        /\ UNCHANGED << url, panel, tagCol >>
    BY <1>2 DEF ServeFragment, columns
  <2>2. RequestFits(q)
    BY <1>1, <2>1, AnswerIsFit, UrlAnsweredRequest
  <2> HIDE DEF q
  <2> QED BY <2>1, <2>2 DEF UrlInv
<1>3. CASE ServeDelete(r, down)
  <2> DEFINE ok == /\ "manifest" \notin down /\ Has(r.repo, DeletedDigest(r))
                   /\ IsTag(r.repo, r.ref) => world.header
             a == [NoSwap EXCEPT !.ok = ok]
             q == [r EXCEPT !.answer = Just(a)]
  <2>1. /\ r.kind = "delete" /\ pending' \subseteq (pending \ {r}) \cup {q}
        /\ UNCHANGED << url, panel, tagCol >>
    BY <1>3 DEF ServeDelete, columns
  <2>2. RequestFits(q)
    BY <1>1, <2>1, UrlAnsweredRequest
  <2> HIDE DEF q
  <2> QED BY <2>1, <2>2 DEF UrlInv
<1> QED BY <1>2, <1>3

\* Panel and URL are swapped together, or neither is.
LEMMA UrlDeliverStep ==
    ASSUME UrlInv, NEW r \in pending, Deliver(r)
    PROVE  UrlInv'
<1> DEFINE swaps == r.answer[1].ok /\ r.attached
           new == IF swaps THEN r.answer[1] ELSE NoSwap
           out == IF swaps THEN Removes(Target(r.kind)) ELSE "none"
           stays(q) == q.attached /\ (Target(q.kind) \in Persistent \/ Target(q.kind) # out)
<1>1. /\ r.kind # "delete" /\ r.answer # Nothing
      /\ panel' = Swapped(new.panel, panel) /\ url' = Swapped(new.push, url)
      /\ tagCol' = Swapped(new.tagCol, tagCol)
      /\ pending' = {[q EXCEPT !.attached = stays(q)] : q \in pending \ {r}}
  BY DEF Deliver
<1>2. AnswerFits(r.answer[1])
  BY <1>1 DEF UrlInv, RequestFits
<1>3. NoSwap.panel = Nothing /\ NoSwap.push = Nothing /\ NoSwap.tagCol = Nothing
  BY DEF NoSwap
<1>4. /\ new.panel = Nothing => new.push = Nothing
      /\ new.panel # Nothing => new.push # Nothing /\ Fits(new.panel[1], new.push[1])
      /\ new.tagCol # Nothing => LimitOK(new.tagCol[1].limit)
  BY <1>2, <1>3 DEF AnswerFits
<1> HIDE DEF new, stays
<1>5. Fits(panel, url)'
  BY <1>1, <1>4 DEF UrlInv, Swapped
<1>6. LimitOK(tagCol'.limit)
  BY <1>1, <1>4 DEF UrlInv, Swapped
<1>7. \A q \in pending : RequestFits([q EXCEPT !.attached = stays(q)])
  BY UrlDetachedRequest DEF UrlInv
<1> QED BY <1>1, <1>5, <1>6, <1>7 DEF UrlInv

LEMMA UrlDeliverDeleteStep ==
    ASSUME UrlInv, NEW r \in pending, NEW down, DeliverDelete(r, down)
    PROVE  UrlInv'
<1>1. CASE r.answer[1].ok
  BY <1>1, PageURLs, UrlLoadStep DEF DeliverDelete
<1>2. CASE ~r.answer[1].ok
  <2>1. UNCHANGED << url, panel, tagCol >> /\ pending' = pending \ {r}
    BY <1>2 DEF DeliverDelete, columns
  <2> QED BY <2>1 DEF UrlInv
<1> QED BY <1>1, <1>2

-----------------------------------------------------------------------------

\* The home page shows a placeholder.
LEMMA UrlInitInductive == Init => UrlInv
<1> SUFFICES ASSUME Init PROVE UrlInv
  OBVIOUS
<1>1. panel.kind = "hint" /\ panel.repo = ""
  BY DEF Init, BlankPanel
<1>2. url.page = "home" /\ url.repo = "" /\ tagCol.limit = PAGE /\ pending = {}
  BY DEF Init, HomeURL, URL, NoTags, TagColumn
<1> QED BY <1>1, <1>2, PageLimit DEF UrlInv, Fits

LEMMA UrlNextInductive == UrlInv /\ [Next]_vars => UrlInv'
<1> SUFFICES ASSUME UrlInv, [Next]_vars PROVE UrlInv'
  OBVIOUS
<1>1. CASE Browse
  BY <1>1, UrlBrowseStep
<1>2. CASE Dialog
  BY <1>2, DialogStepFits
<1>3. CASE Answers
  BY <1>3, ServeStep, UrlDeliverDeleteStep, UrlDeliverStep DEF Answers
<1>4. CASE UNCHANGED vars
  BY <1>4 DEF vars, columns, UrlInv
<1>5. CASE Others
  <2>1. UNCHANGED << url, panel, tagCol, pending >>
    BY <1>5 DEF Others, Push, Expire, columns
  <2> QED BY <2>1 DEF UrlInv
<1> QED BY <1>1, <1>2, <1>3, <1>4, <1>5 DEF Next

\* The URL in the bar is the one that shows the panel again, in whatever order the
\* answers came back, were auto-selected or failed.
THEOREM UrlShowsPanel == Spec => []UrlMatchesPanel
<1>1. UrlInv => UrlMatchesPanel
  BY DEF UrlInv, Fits, UrlMatchesPanel
<1> QED BY <1>1, UrlInitInductive, UrlNextInductive, PTL DEF Spec
=============================================================================
