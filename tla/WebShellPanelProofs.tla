------------------------- MODULE WebShellPanelProofs -------------------------
(***************************************************************************)
(* What a panel of WebShell shows, and what the columns beside it show,    *)
(* for any registry, any number of clicks, any order of answers and any    *)
(* failures.                                                               *)
(*                                                                         *)
(* The argument: every panel on screen or on its way there was made by a   *)
(* handler (PanelsGrow), from a repository of the registry (Places) and in *)
(* one of five ways (Born).  What holds of a panel as it is made goes on   *)
(* holding, since it is said of the manifest read then, and what a digest  *)
(* names stays as it is (ExcusedLasts): its excuse (PanelsExcused), the    *)
(* tag it was opened for (OpensNewest), its annotations (AnnotationsOwned) *)
(* and its layers (LayersListed).                                          *)
(*                                                                         *)
(* Of the columns ColumnsInv says what each request under way will swap in *)
(* and from which document it was sent (ColumnsAgree); TypeInv adds the    *)
(* shapes of everything else (TypeCorrect).                                *)
(***************************************************************************)
EXTENDS WebShellProofs, WellFoundedInduction, FiniteSetTheorems, SequenceTheorems

-----------------------------------------------------------------------------
\* Where requests, columns and panels point.

\* The repositories there are; "" stands for none.
Real == ToSet(world.repos)

\* All of a panel's fields.
Whole(p) == {"kind", "repo", "ref", "parent", "asked", "found", "autoFrom", "down", "u",
             "layers", "annotations", "source", "referrers"} \subseteq DOMAIN p

\* Panel p is of a repository, or the placeholder of a page that is of none.
PanelPlaced(p) ==
    /\ Whole(p) /\ p.repo \in Real \cup {""}
    /\ p.repo \in Real \/ (p.kind = "hint" /\ p.referrers = << >>)

\* A tag column of no repository lists nothing.
ColumnPlaced(c) == c.repo \in Real \/ (c.repo = "" /\ c.names = << >> /\ ~ c.more)

BoxPlaced(b) == "repo" \in DOMAIN b /\ b.repo \in Real \cup {""}

AnswerPlaced(a) ==
    /\ a.panel = Nothing \/ (a.panel = Just(a.panel[1]) /\ PanelPlaced(a.panel[1]))
    /\ a.tagCol # Nothing => ColumnPlaced(a.tagCol[1])
    /\ a.filterBox # Nothing => BoxPlaced(a.filterBox[1])

RequestPlaced(r) ==
    /\ r.kind # "repos" => r.repo \in Real
    /\ r.answer # Nothing => AnswerPlaced(r.answer[1])

Places ==
    /\ world \in Worlds
    /\ PanelPlaced(panel) /\ ColumnPlaced(tagCol) /\ BoxPlaced(filterBox)
    /\ dialog.open => panel.kind = "shown" /\ world.admin
    /\ \A r \in pending : RequestPlaced(r)

-----------------------------------------------------------------------------
\* The ways a handler makes a panel.

\* In place of a panel: nothing is selected; a list of the same page failed; the
\* manifest was fetched, by its own name or, for a fresh pick, by that of the first
\* tag.
Hint(p, repo) == \E down : p = BlankPanel("hint", repo, "", "", down)
Shadow(p, repo) ==
    \E ref, asked, down :
        p = BlankPanel("error", repo, ref, asked, down) /\ down \cap {"repos", "tags"} # {}
Fetched(p, repo) == \E ref, platform, down : p = ManifestPanel(repo, ref, platform, down)
Picked(p, repo) ==
    \E q, down : LET tags == FetchTags(repo, q) IN
        tags # << >> /\ p = AutoPanel(tags, ManifestPanel(repo, tags[1], Nothing, down))

\* A platform child that the template of the page could not render.
Torn(p, repo) ==
    \E ref, platform, down : LET m == ManifestPanel(repo, ref, platform, down) IN
        /\ m.kind = "shown" /\ m.parent # Nothing /\ m.u[1].digest = Nothing
        /\ p = [BlankPanel("broken", m.repo, m.ref, m.asked, m.down) EXCEPT
                   !.parent = m.parent, !.found = m.found]

Born(p) ==
    \/ \E repo \in Real \cup {""} : Hint(p, repo)
    \/ \E repo \in Real : Shadow(p, repo) \/ Fetched(p, repo) \/ Picked(p, repo) \/ Torn(p, repo)

\* A panel that shows nothing.
Bare(p) ==
    /\ p.u = Nothing /\ p.layers = << >> /\ p.annotations = << >> /\ p.source = Nothing
    /\ p.referrers = << >>

\* What the client reads for a reference, if there is that manifest.
Reading(repo, ref) == IF Exists(repo, ref) THEN Just(Reads(repo, ref)) ELSE Nothing

\* What _fetch_manifest got, and the panel that came of it.
Outcome(p, got) ==
    LET notes == AnnotationsWithFallback(p.repo, got.u, p.down) IN
    /\ p.found = Reading(p.repo, p.asked)
    /\ \/ p.kind = "error" /\ Bare(p) /\ got.out = "error"
       \/ /\ p.kind = "broken" /\ Bare(p)
          /\ got.out = "crash" \/ (got.out = "ok" /\ notes.out = "crash")
       \/ /\ p.kind = "shown" /\ got.out = "ok" /\ p.u = Just(got.u)
          /\ p.layers = LayerRows(got.u)
          /\ p.annotations = notes.rows /\ p.source = notes.source /\ notes.out = "ok"

-----------------------------------------------------------------------------
\* Panels, whichever handler they come from.

LEMMA BlankFields ==
    ASSUME NEW STATE kind, NEW STATE repo, NEW STATE ref, NEW STATE asked, NEW STATE down
    PROVE  LET p == BlankPanel(kind, repo, ref, asked, down) IN
           /\ Whole(p) /\ p.kind = kind /\ p.repo = repo /\ p.ref = ref /\ p.asked = asked
           /\ p.down = down /\ p.autoFrom = {} /\ p.parent = Nothing /\ Bare(p)
BY Zenon DEF BlankPanel, Whole, Bare

LEMMA FoundFields ==
    ASSUME NEW STATE b, Whole(b), NEW STATE found
    PROVE  LET p == Found(b, found) IN
           /\ Whole(p) /\ p.kind = b.kind /\ p.repo = b.repo /\ p.ref = b.ref
           /\ p.asked = b.asked /\ p.down = b.down /\ p.autoFrom = b.autoFrom
           /\ p.parent = b.parent /\ p.found = found
           /\ Bare(b) => Bare(p)
BY Zenon DEF Found, Whole, Bare

LEMMA RetitledFields ==
    ASSUME NEW STATE b, Whole(b), NEW STATE kind
    PROVE  LET p == Retitled(b, kind) IN
           /\ Whole(p) /\ p.kind = kind /\ p.repo = b.repo /\ p.ref = b.ref /\ p.asked = b.asked
           /\ p.down = b.down /\ p.autoFrom = b.autoFrom /\ p.parent = b.parent
           /\ p.found = b.found
           /\ Bare(b) => Bare(p)
BY Zenon DEF Retitled, Whole, Bare

LEMMA FilledFields ==
    ASSUME NEW STATE b, Whole(b), NEW STATE parent, NEW STATE u, NEW STATE layers,
           NEW STATE rows, NEW STATE source, NEW STATE referrers
    PROVE  LET p == Filled(b, parent, u, layers, rows, source, referrers) IN
           /\ Whole(p) /\ p.kind = "shown" /\ p.repo = b.repo /\ p.ref = b.ref
           /\ p.asked = b.asked /\ p.down = b.down /\ p.autoFrom = b.autoFrom
           /\ p.parent = parent /\ p.u = u /\ p.layers = layers /\ p.annotations = rows
           /\ p.source = source /\ p.referrers = referrers /\ p.found = b.found
BY Zenon DEF Filled, Whole

\* What only adorns a panel does not fail, but for a child that does not fit its model.
LEMMA NotesOutcome ==
    ASSUME NEW STATE repo, NEW STATE u, NEW STATE down
    PROVE  AnnotationsWithFallback(repo, u, down).out \in {"ok", "crash"}
<1> DEFINE pick == FallbackPick(u.platforms)
           child == FetchManifest(repo, pick[1].digest[1], down, "child", "childConfig")
<1>1. child.out \in {"ok", "error", "crash"}
  BY FetchOutcome
<1> HIDE DEF child
<1>2. ChildAnnotations(pick[1].platform, child).out \in {"ok", "crash"}
  BY <1>1 DEF ChildAnnotations, NoAnnotations
<1>3. /\ NoAnnotations.out = "ok"
      /\ [NoAnnotations EXCEPT !.rows = AnnotationRows(u)].out = "ok"
  BY DEF NoAnnotations
<1> QED BY <1>2, <1>3 DEF AnnotationsWithFallback, child

\* The panel of manifest_page, manifest_fragment and tags_fragment.
LEMMA ManifestPanelIs ==
    ASSUME NEW STATE repo, NEW STATE ref, NEW STATE platform, NEW STATE down
    PROVE  LET p == ManifestPanel(repo, ref, platform, down)
               asked == IF platform = Nothing THEN ref ELSE platform[1]
           IN  /\ Whole(p) /\ p.repo = repo /\ p.ref = ref /\ p.asked = asked /\ p.down = down
               /\ p.autoFrom = {}
               /\ Outcome(p, FetchManifest(repo, asked, down, "manifest", "config"))
<1> DEFINE asked == IF platform = Nothing THEN ref ELSE platform[1]
           parent == IF platform = Nothing THEN Nothing ELSE Just(ref)
           blank == BlankPanel("error", repo, ref, asked, down)
           found == Reading(repo, asked)
           b == Found(blank, found)
           got == FetchManifest(repo, asked, down, "manifest", "config")
           p == ManifestPanel(repo, ref, platform, down)
           refs == FetchReferrers(got.u, down)
           notes == AnnotationsWithFallback(b.repo, got.u, down)
<1>1. p = PanelOf(b, parent, got, down)
  BY DEF ManifestPanel, Found, Reading
<1>2. /\ Whole(b) /\ b.kind = "error" /\ b.repo = repo /\ b.ref = ref /\ b.asked = asked
      /\ b.down = down /\ b.autoFrom = {} /\ Bare(b) /\ b.found = found
  <2>1. /\ Whole(blank) /\ blank.kind = "error" /\ blank.repo = repo /\ blank.ref = ref
        /\ blank.asked = asked /\ blank.down = down /\ blank.autoFrom = {} /\ Bare(blank)
    BY BlankFields
  <2> HIDE DEF blank, found, asked
  <2> QED BY <2>1, FoundFields
<1>3. got.out \in {"ok", "error", "crash"}
  BY FetchOutcome
<1>4. notes.out \in {"ok", "crash"}
  BY NotesOutcome
<1>5. refs.out = "ok"
  BY DEF FetchReferrers
<1> DEFINE Goal == /\ Whole(p) /\ p.repo = repo /\ p.ref = ref /\ p.asked = asked /\ p.down = down
                   /\ p.autoFrom = {} /\ Outcome(p, got)
<1> SUFFICES Goal
  OBVIOUS
<1>6. CASE got.out = "error"
  <2>1. p = b
    BY <1>1, <1>6 DEF PanelOf
  <2> HIDE DEF p, b, got
  <2> QED BY <1>2, <1>6, <2>1 DEF Outcome
<1>7. CASE got.out = "crash" \/ (got.out = "ok" /\ notes.out = "crash")
  <2>1. p = Retitled(b, "broken")
    BY <1>1, <1>7 DEF PanelOf, Retitled, FilledPanel
  <2>2. notes = AnnotationsWithFallback(repo, got.u, down)
    BY <1>2
  <2> HIDE DEF p, b, got, notes
  <2>3. /\ Whole(p) /\ p.kind = "broken" /\ p.repo = repo /\ p.ref = ref /\ p.asked = asked
        /\ p.down = down /\ p.autoFrom = {} /\ Bare(p) /\ p.found = found
    BY <1>2, <2>1, RetitledFields
  <2> QED BY <1>7, <2>2, <2>3 DEF Outcome
<1>8. CASE got.out = "ok" /\ notes.out = "ok"
  <2>1. p = Filled(b, parent, Just(got.u), LayerRows(got.u), notes.rows, notes.source, refs.rows)
    BY <1>1, <1>5, <1>8 DEF PanelOf, FilledPanel, Filled
  <2>2. notes = AnnotationsWithFallback(repo, got.u, down)
    BY <1>2
  <2> HIDE DEF p, b, got, notes, refs, asked, parent
  <2>3. /\ Whole(p) /\ p.kind = "shown" /\ p.repo = repo /\ p.ref = ref /\ p.asked = asked
        /\ p.down = down /\ p.autoFrom = {} /\ p.u = Just(got.u) /\ p.layers = LayerRows(got.u)
        /\ p.annotations = notes.rows /\ p.source = notes.source /\ p.found = found
    BY <1>2, <2>1, FilledFields
  <2> QED BY <1>8, <2>2, <2>3 DEF Outcome
<1> QED BY <1>3, <1>4, <1>6, <1>7, <1>8

\* A fresh pick's panel is that of the first tag, or the placeholder if it failed.
LEMMA AutoPanelFields ==
    ASSUME NEW STATE tags, NEW STATE p, Whole(p)
    PROVE  LET q == AutoPanel(tags, p) IN
           /\ Whole(q) /\ q.kind = (IF p.kind = "error" THEN "hint" ELSE p.kind)
           /\ q.repo = p.repo /\ q.parent = p.parent /\ q.asked = p.asked /\ q.u = p.u
           /\ q.found = p.found
           /\ q.down = p.down /\ q.layers = p.layers /\ q.annotations = p.annotations
           /\ q.source = p.source /\ q.referrers = p.referrers /\ q.autoFrom = ToSet(tags)
BY Zenon DEF AutoPanel, Whole

\* A panel in pieces names a platform child that came without its digest.
LEMMA TornFields ==
    ASSUME NEW STATE p, NEW STATE repo, Torn(p, repo)
    PROVE  /\ Whole(p) /\ p.kind = "broken" /\ p.repo = repo /\ p.autoFrom = {} /\ Bare(p)
           /\ p.parent # Nothing /\ ~world.header
<1>1. PICK ref, platform, down : LET m == ManifestPanel(repo, ref, platform, down) IN
        /\ m.kind = "shown" /\ m.parent # Nothing /\ m.u[1].digest = Nothing
        /\ p = [BlankPanel("broken", m.repo, m.ref, m.asked, m.down) EXCEPT
                   !.parent = m.parent, !.found = m.found]
  BY DEF Torn
<1> DEFINE m == ManifestPanel(repo, ref, platform, down)
           asked == IF platform = Nothing THEN ref ELSE platform[1]
           got == FetchManifest(repo, asked, down, "manifest", "config")
           b == BlankPanel("broken", m.repo, m.ref, m.asked, m.down)
<1>2. m.repo = repo /\ Outcome(m, got)
  BY ManifestPanelIs
<1>3. got.out = "ok" /\ got.u.digest = Nothing => ~world.header
  BY FetchedDigest
<1>4. Just(got.u)[1] = got.u
  BY Options
<1> HIDE DEF m, got
<1>5. ~world.header
  BY <1>1, <1>2, <1>3, <1>4 DEF Outcome, m
<1>6. /\ Whole(b) /\ b.kind = "broken" /\ b.repo = repo /\ b.autoFrom = {} /\ Bare(b)
  BY <1>2, BlankFields
<1> HIDE DEF b
<1>7. p = [b EXCEPT !.parent = m.parent, !.found = m.found] /\ m.parent # Nothing
  BY <1>1 DEF b, m
<1>8. /\ Whole(p) /\ p.kind = b.kind /\ p.repo = b.repo /\ p.autoFrom = b.autoFrom /\ Bare(p)
      /\ p.parent = m.parent
  BY Zenon, <1>6, <1>7 DEF Whole, Bare
<1> QED BY <1>5, <1>6, <1>7, <1>8

\* Every panel has a repository, and only the placeholder can do without.
LEMMA BornPlaced ==
    ASSUME NEW STATE p, Born(p)
    PROVE  PanelPlaced(p)
<1>1. ASSUME NEW repo \in Real \cup {""}, Hint(p, repo) PROVE PanelPlaced(p)
  <2>1. PICK down : p = BlankPanel("hint", repo, "", "", down)
    BY <1>1 DEF Hint
  <2> DEFINE b == BlankPanel("hint", repo, "", "", down)
  <2>2. Whole(b) /\ b.repo = repo /\ b.kind = "hint" /\ Bare(b)
    BY Zenon DEF BlankPanel, Whole, Bare
  <2> HIDE DEF b
  <2> QED BY <1>1, <2>1, <2>2 DEF PanelPlaced, Bare, b
<1>2. ASSUME NEW repo \in Real, Shadow(p, repo) PROVE PanelPlaced(p)
  <2>1. PICK ref, asked, down : p = BlankPanel("error", repo, ref, asked, down)
    BY <1>2 DEF Shadow
  <2>2. Whole(p) /\ p.repo = repo
    BY <2>1, BlankFields
  <2> QED BY <2>2 DEF PanelPlaced
<1>3. ASSUME NEW repo \in Real, Fetched(p, repo) PROVE PanelPlaced(p)
  <2>1. PICK ref, platform, down : p = ManifestPanel(repo, ref, platform, down)
    BY <1>3 DEF Fetched
  <2>2. Whole(p) /\ p.repo = repo
    BY <2>1, ManifestPanelIs
  <2> QED BY <2>2 DEF PanelPlaced
<1>4. ASSUME NEW repo \in Real, Picked(p, repo) PROVE PanelPlaced(p)
  <2>1. PICK q, down : p = AutoPanel(FetchTags(repo, q),
                                     ManifestPanel(repo, FetchTags(repo, q)[1], Nothing, down))
    BY <1>4 DEF Picked
  <2> DEFINE tags == FetchTags(repo, q)
             m == ManifestPanel(repo, tags[1], Nothing, down)
  <2>2. Whole(m) /\ m.repo = repo
    BY ManifestPanelIs
  <2> HIDE DEF m
  <2>3. Whole(AutoPanel(tags, m)) /\ AutoPanel(tags, m).repo = repo
    BY <2>2, AutoPanelFields
  <2> QED BY <2>1, <2>3 DEF PanelPlaced, m
<1>5. ASSUME NEW repo \in Real, Torn(p, repo) PROVE PanelPlaced(p)
  BY <1>5, TornFields DEF PanelPlaced
<1> QED BY <1>1, <1>2, <1>3, <1>4, <1>5 DEF Born

-----------------------------------------------------------------------------
\* Answers.

\* Answer a brings a panel that was made, or none, and columns of one repository.
AnswerMade(a) ==
    /\ a.panel = Nothing \/ (a.panel = Just(a.panel[1]) /\ Born(a.panel[1]))
    /\ a.tagCol # Nothing => ColumnPlaced(a.tagCol[1])
    /\ a.filterBox # Nothing => BoxPlaced(a.filterBox[1])

LEMMA MadePlaced ==
    ASSUME NEW STATE a, AnswerMade(a)
    PROVE  AnswerPlaced(a)
BY BornPlaced DEF AnswerMade, AnswerPlaced

LEMMA NoSwapMade ==
    ASSUME NEW STATE ok
    PROVE  /\ NoSwap.panel = Nothing /\ NoSwap.tagCol = Nothing /\ NoSwap.filterBox = Nothing
           /\ AnswerMade([NoSwap EXCEPT !.ok = ok])
<1> DEFINE a == [NoSwap EXCEPT !.ok = ok]
<1>1. a.panel = Nothing /\ a.tagCol = Nothing /\ a.filterBox = Nothing
  BY DEF NoSwap
<1>2. NoSwap.panel = Nothing /\ NoSwap.tagCol = Nothing /\ NoSwap.filterBox = Nothing
  BY DEF NoSwap
<1> HIDE DEF a
<1>3. AnswerMade(a)
  BY <1>1 DEF AnswerMade
<1> QED BY <1>2, <1>3 DEF a

LEMMA ReposAnswerMade ==
    ASSUME NEW STATE column
    PROVE  AnswerMade([NoSwap EXCEPT !.repoCol = column])
<1> DEFINE a == [NoSwap EXCEPT !.repoCol = column]
<1>1. a.panel = Nothing /\ a.tagCol = Nothing /\ a.filterBox = Nothing
  BY DEF NoSwap
<1> HIDE DEF a
<1>2. AnswerMade(a)
  BY <1>1 DEF AnswerMade
<1> QED BY <1>2 DEF a

LEMMA TagColumnPlaced ==
    ASSUME NEW STATE repo, repo \in Real,
           NEW STATE state, NEW STATE all, NEW STATE q, NEW STATE limit
    PROVE  ColumnPlaced(TagColumn(repo, state, all, q, limit))
<1>1. TagColumn(repo, state, all, q, limit).repo = repo
  BY DEF TagColumn
<1> QED BY <1>1 DEF ColumnPlaced

LEMMA PickedMade ==
    ASSUME NEW STATE r, r.repo \in Real, NEW STATE list, NEW STATE p, NEW STATE push,
           {"ok", "panel", "push", "tagCol", "filterBox"} \subseteq DOMAIN list,
           list.tagCol # Nothing => ColumnPlaced(list.tagCol[1]), Born(p)
    PROVE  AnswerMade(PickedRepo(r, list, p, push))
<1> DEFINE a == PickedRepo(r, list, p, push)
           box == [repo |-> r.repo, text |-> r.q]
<1>1. a.panel = Just(p) /\ a.tagCol = list.tagCol /\ a.filterBox = Just(box)
  BY DEF PickedRepo
<1>2. Just(p)[1] = p /\ Just(p) # Nothing /\ Just(box)[1] = box
  BY Options
<1>3. "repo" \in DOMAIN box /\ box.repo = r.repo
  OBVIOUS
<1> HIDE DEF a, box
<1>4. AnswerMade(a)
  BY <1>1, <1>2, <1>3 DEF AnswerMade, BoxPlaced
<1> QED BY <1>4 DEF a

\* The tag list of a repository, and what comes with a fresh pick of it.
LEMMA TagsAnswerMade ==
    ASSUME NEW STATE r, r.repo \in Real, NEW STATE state, NEW STATE tags, NEW STATE down,
           tags = << >> \/ tags = FetchTags(r.repo, r.q)
    PROVE  AnswerMade(TagsAnswer(r, state, tags, down))
<1> DEFINE column == TagColumn(r.repo, state, tags, r.q, r.limit)
           list == [NoSwap EXCEPT !.tagCol = Just(column), !.push = r.push]
           hint == BlankPanel("hint", r.repo, "", "", down)
           m == ManifestPanel(r.repo, tags[1], Nothing, down)
           auto == AutoPanel(tags, m)
           first == Just(ManifestURL(r.repo, tags[1]))
           a == TagsAnswer(r, state, tags, down)
<1>1. a = IF r.kind = "filter" \/ r.limit > PAGE THEN list
          ELSE IF tags = << >> THEN PickedRepo(r, list, hint, r.push)
          ELSE PickedRepo(r, list, auto, first)
  BY DEF TagsAnswer
<1>2. /\ {"ok", "panel", "push", "tagCol", "filterBox"} \subseteq DOMAIN list
      /\ list.panel = Nothing /\ list.tagCol = Just(column) /\ list.filterBox = Nothing
  BY DEF NoSwap
<1>3. ColumnPlaced(column) /\ Just(column)[1] = column
  BY TagColumnPlaced, Options
<1>4. Born(hint)
  BY DEF Born, Hint
<1>5. tags # << >> => Born(auto)
  <2> SUFFICES ASSUME tags # << >> PROVE Born(auto)
    OBVIOUS
  <2>1. Picked(auto, r.repo)
    BY DEF Picked
  <2> HIDE DEF auto
  <2> QED BY <2>1 DEF Born
<1> HIDE DEF column, list, hint, auto, first, a
<1>6. AnswerMade(list)
  BY <1>2, <1>3 DEF AnswerMade
<1>7. AnswerMade(PickedRepo(r, list, hint, r.push))
  BY <1>2, <1>3, <1>4, PickedMade
<1>8. tags # << >> => AnswerMade(PickedRepo(r, list, auto, first))
  BY <1>2, <1>3, <1>5, PickedMade
<1>9. AnswerMade(a)
  BY <1>1, <1>6, <1>7, <1>8
<1> QED BY <1>9 DEF a

LEMMA PanelAnswerMade ==
    ASSUME NEW STATE r, NEW STATE p, Born(p)
    PROVE  AnswerMade(PanelAnswer(r, p))
<1> DEFINE a == PanelAnswer(r, p)
<1>1. a.panel = Just(p) /\ a.tagCol = Nothing /\ a.filterBox = Nothing
  BY DEF PanelAnswer, NoSwap
<1>2. Just(p)[1] = p
  BY Options
<1> HIDE DEF a
<1>3. AnswerMade(a)
  BY <1>1, <1>2 DEF AnswerMade
<1> QED BY <1>3 DEF a

LEMMA AnswerIsMade ==
    ASSUME NEW STATE r, NEW STATE down, r.kind # "repos" => r.repo \in Real,
           r.kind \in {"repos", "tags", "filter", "more", "manifest"}
    PROVE  AnswerMade(Answer(r, down))
<1>1. CASE r.kind = "repos"
  <2>1. \E column : Answer(r, down) = [NoSwap EXCEPT !.repoCol = column]
    BY <1>1 DEF Answer, ReposFragment
  <2> QED BY <2>1, ReposAnswerMade
<1>2. CASE r.kind \in {"tags", "filter", "more"}
  <2>1. \/ Answer(r, down) = TagsAnswer(r, "error", << >>, down)
        \/ Answer(r, down) = TagsAnswer(r, "list", FetchTags(r.repo, r.q), down)
    BY <1>2 DEF Answer, TagsFragment
  <2>2. AnswerMade(TagsAnswer(r, "error", << >>, down))
    BY <1>2, TagsAnswerMade
  <2>3. AnswerMade(TagsAnswer(r, "list", FetchTags(r.repo, r.q), down))
    BY <1>2, TagsAnswerMade
  <2> QED BY <2>1, <2>2, <2>3
<1>3. CASE r.kind = "manifest"
  <2> DEFINE p == ManifestPanel(r.repo, r.ref, Nothing, down)
  <2>1. Answer(r, down) = PanelAnswer(r, p)
    BY <1>3 DEF Answer, ManifestFragment
  <2>2. Fetched(p, r.repo)
    BY DEF Fetched
  <2> HIDE DEF p
  <2>3. Born(p)
    BY <1>3, <2>2 DEF Born
  <2> QED BY <2>1, <2>3, PanelAnswerMade
<1> QED BY <1>1, <1>2, <1>3

\* The panel of a page.
LEMMA PagePanelBorn ==
    ASSUME NEW STATE u, NEW STATE down,
           u.repo \in Real \cup {""}, u.page = "manifest" => u.repo \in Real
    PROVE  Born(PagePanel(u, down))
<1> DEFINE asked == IF u.platform = Nothing THEN u.ref ELSE u.platform[1]
           hint == BlankPanel("hint", u.repo, "", "", down)
           error == BlankPanel("error", u.repo, u.ref, asked, down)
           m == ManifestPanel(u.repo, u.ref, u.platform, down)
           p == PagePanel(u, down)
<1>1. \/ p = hint
      \/ u.page = "manifest" /\ p = error /\ down \cap {"repos", "tags"} # {}
      \/ u.page = "manifest" /\ p \in {m, Rendered(m)}
  <2>1. Rendered(error) = error
    BY DEF Rendered, BlankPanel
  <2> QED BY <2>1 DEF PagePanel
<1>2. Hint(hint, u.repo) /\ Fetched(m, u.repo)
      /\ (down \cap {"repos", "tags"} # {} => Shadow(error, u.repo))
  BY DEF Hint, Fetched, Shadow
<1>3. Rendered(m) = m \/ Torn(Rendered(m), u.repo)
  BY DEF Rendered, Torn
<1> HIDE DEF hint, error, m, p
<1>4. Born(p)
  BY <1>1, <1>2, <1>3 DEF Born
<1> QED BY <1>4 DEF p

-----------------------------------------------------------------------------
\* The steps.

\* Request q goes on as one there was, or is new; its answer is that one's, or one
\* a handler made.
Follows(q) ==
    \/ \E r \in pending : q.kind = r.kind /\ q.repo = r.repo /\ q.answer = r.answer
    \/ /\ q.kind # "repos" => q.repo \in Real
       /\ q.answer = Nothing \/ (q.answer = Just(q.answer[1]) /\ AnswerMade(q.answer[1]))

\* Panel p was there or was made.
Known(p) == p \in Panels \/ Born(p)

LEMMA InJust ==
    ASSUME NEW x, NEW y
    PROVE  y \in ToSet(Just(x)) <=> y = x
BY DEF ToSet, Just

LEMMA InNothing ==
    ASSUME NEW y
    PROVE  y \notin ToSet(Nothing)
BY DEF ToSet, Nothing

\* The panel an answer brings.
LEMMA AnswerPanels ==
    ASSUME NEW r \in pending, r.answer # Nothing
    PROVE  \A p \in ToSet(r.answer[1].panel) : p \in Panels
BY DEF Panels

LEMMA KnownPlaced ==
    ASSUME Places, NEW p, Known(p)
    PROVE  PanelPlaced(p)
<1>1. CASE Born(p)
  BY <1>1, BornPlaced
<1>2. CASE p = panel
  BY <1>2 DEF Places
<1>3. ASSUME NEW r \in pending, r.answer # Nothing, p \in ToSet(r.answer[1].panel)
      PROVE  PanelPlaced(p)
  <2> DEFINE a == r.answer[1]
  <2>1. a.panel = Nothing \/ (a.panel = Just(a.panel[1]) /\ PanelPlaced(a.panel[1]))
    BY <1>3 DEF Places, RequestPlaced, AnswerPlaced
  <2> HIDE DEF a
  <2>2. p \in ToSet(a.panel)
    BY <1>3 DEF a
  <2>3. a.panel = Just(a.panel[1]) /\ p = a.panel[1] /\ PanelPlaced(a.panel[1])
    BY <2>1, <2>2, InJust, InNothing
  <2> QED BY <2>3
<1> QED BY <1>1, <1>2, <1>3 DEF Known, Panels

\* A step is right if the requests, the panel and the columns it leaves are.
LEMMA Grow ==
    ASSUME Places, world' = world, \A q \in pending' : Follows(q), Known(panel'),
           ColumnPlaced(tagCol)', BoxPlaced(filterBox'),
           dialog'.open => panel'.kind = "shown" /\ world.admin
    PROVE  Places' /\ \A p \in Panels' : Known(p)
<1>0. Real' = Real
  BY DEF Real
<1>1. ASSUME NEW q \in pending' PROVE RequestPlaced(q)
  <2>1. CASE \E r \in pending : q.kind = r.kind /\ q.repo = r.repo /\ q.answer = r.answer
    BY <2>1 DEF Places, RequestPlaced
  <2>2. CASE /\ q.kind # "repos" => q.repo \in Real
             /\ q.answer = Nothing \/ (q.answer = Just(q.answer[1]) /\ AnswerMade(q.answer[1]))
    BY <2>2, MadePlaced DEF RequestPlaced
  <2> QED BY <1>1, <2>1, <2>2 DEF Follows
<1>2. ASSUME NEW q \in pending' PROVE RequestPlaced(q)'
  BY <1>0, <1>1 DEF RequestPlaced, AnswerPlaced, PanelPlaced, ColumnPlaced, BoxPlaced, Whole
<1>3. PanelPlaced(panel)'
  <2>1. PanelPlaced(panel')
    BY KnownPlaced
  <2> QED BY <1>0, <2>1 DEF PanelPlaced, Whole
<1>4. Places'
  BY <1>0, <1>2, <1>3 DEF Places, BoxPlaced
<1>5. ASSUME NEW p \in Panels' PROVE Known(p)
  <2>1. CASE p = panel'
    BY <2>1
  <2>2. ASSUME NEW q \in pending', q.answer # Nothing, p \in ToSet(q.answer[1].panel)
        PROVE  Known(p)
    <3>1. CASE \E r \in pending : q.kind = r.kind /\ q.repo = r.repo /\ q.answer = r.answer
      BY <2>2, <3>1, AnswerPanels DEF Known
    <3>2. CASE AnswerMade(q.answer[1])
      <4> DEFINE a == q.answer[1]
      <4>1. a.panel = Nothing \/ (a.panel = Just(a.panel[1]) /\ Born(a.panel[1]))
        BY <3>2 DEF AnswerMade
      <4> HIDE DEF a
      <4>2. p \in ToSet(a.panel)
        BY <2>2 DEF a
      <4>3. a.panel = Just(a.panel[1]) /\ p = a.panel[1] /\ Born(a.panel[1])
        BY <4>1, <4>2, InJust, InNothing
      <4> QED BY <4>3 DEF Known
    <3> QED BY <2>2, <3>1, <3>2 DEF Follows
  <2>3. \/ p = panel'
        \/ \E q \in pending' : q.answer # Nothing /\ p \in ToSet(q.answer[1].panel)
    BY Zenon, <1>5 DEF Panels
  <2> QED BY <2>1, <2>2, <2>3
<1> QED BY <1>4, <1>5

\* A request still unanswered, and one that goes on.
LEMMA NewFollows ==
    ASSUME NEW q, q.kind # "repos" => q.repo \in Real, q.answer = Nothing
    PROVE  Follows(q)
BY DEF Follows

LEMMA OldFollows ==
    ASSUME NEW q \in pending
    PROVE  Follows(q)
BY DEF Follows

LEMMA LinkFollows ==
    ASSUME NEW STATE kind, NEW STATE repo, NEW STATE ref, kind # "repos" => repo \in Real
    PROVE  /\ Follows(Request(kind, repo, ref))
           /\ \A push : Follows([Request(kind, repo, ref) EXCEPT !.push = push])
           /\ \A q : Follows([Request(kind, repo, ref) EXCEPT !.q = q])
           /\ \A q, limit : Follows([Request(kind, repo, ref) EXCEPT !.q = q, !.limit = limit])
<1>1. Follows(Request(kind, repo, ref))
  <2> DEFINE r == Request(kind, repo, ref)
  <2>1. r.kind = kind /\ r.repo = repo /\ r.answer = Nothing
    BY DEF Request
  <2> HIDE DEF r
  <2> QED BY <2>1, NewFollows DEF r
<1>2. ASSUME NEW push PROVE Follows([Request(kind, repo, ref) EXCEPT !.push = push])
  <2> DEFINE r == [Request(kind, repo, ref) EXCEPT !.push = push]
  <2>1. r.kind = kind /\ r.repo = repo /\ r.answer = Nothing
    BY DEF Request
  <2> HIDE DEF r
  <2>2. Follows(r)
    BY <2>1, NewFollows
  <2> QED BY <2>2 DEF r
<1>3. ASSUME NEW q PROVE Follows([Request(kind, repo, ref) EXCEPT !.q = q])
  <2> DEFINE r == [Request(kind, repo, ref) EXCEPT !.q = q]
  <2>1. r.kind = kind /\ r.repo = repo /\ r.answer = Nothing
    BY DEF Request
  <2> HIDE DEF r
  <2>2. Follows(r)
    BY <2>1, NewFollows
  <2> QED BY <2>2 DEF r
<1>4. ASSUME NEW q, NEW limit
      PROVE  Follows([Request(kind, repo, ref) EXCEPT !.q = q, !.limit = limit])
  <2> DEFINE r == [Request(kind, repo, ref) EXCEPT !.q = q, !.limit = limit]
  <2>1. r.kind = kind /\ r.repo = repo /\ r.answer = Nothing
    BY DEF Request
  <2> HIDE DEF r
  <2>2. Follows(r)
    BY <2>1, NewFollows
  <2> QED BY <2>2 DEF r
<1> QED BY <1>1, <1>2, <1>3, <1>4

\* What a step that is Grow comes to.
Grown == Places' /\ \A p \in Panels' : Known(p)

\* Steps that leave the document alone, but for what is typed into the filter.
LEMMA StillStep ==
    ASSUME Places, UNCHANGED << world, panel, tagCol >>, \A q \in pending' : Follows(q),
           BoxPlaced(filterBox'),
           dialog'.open => panel.kind = "shown" /\ world.admin
    PROVE  Grown
<1>1. Known(panel')
  BY DEF Known, Panels
<1>2. ColumnPlaced(tagCol)'
  BY DEF Places, ColumnPlaced, Real
<1> QED BY <1>1, <1>2, Grow DEF Grown

LEMMA PanelClickStep ==
    ASSUME Places, NEW STATE r, Follows(r), Click(r)
    PROVE  Grown
<1>1. /\ UNCHANGED << world, panel, tagCol, filterBox, dialog >>
      /\ pending' = pending \cup {r}
  BY DEF Click, Send, columns
<1>2. \A q \in pending' : Follows(q)
  BY <1>1, OldFollows
<1> QED BY <1>1, <1>2, StillStep DEF Places

LEMMA PanelDialogStep ==
    ASSUME Places, Dialog
    PROVE  Grown
<1>1. CASE OpenDialog
  <2>1. UNCHANGED << world, panel, tagCol, filterBox, pending >>
        /\ panel.kind = "shown" /\ world.admin
    BY <1>1 DEF OpenDialog, Typing, DialogStep
  <2>2. \A q \in pending' : Follows(q)
    BY <2>1, OldFollows
  <2> QED BY <2>1, <2>2, StillStep DEF Places
<1>2. CASE TypeName \/ EraseName \/ CancelDialog
  <2>1. UNCHANGED << world, panel, tagCol, filterBox, pending >> /\ dialog.open
    BY <1>2 DEF TypeName, EraseName, CancelDialog, Typing, DialogStep
  <2>2. \A q \in pending' : Follows(q)
    BY <2>1, OldFollows
  <2> QED BY <2>1, <2>2, StillStep DEF Places
<1>3. CASE ConfirmDelete
  <2> DEFINE r == Request("delete", panel.repo, panel.ref)
  <2>1. /\ UNCHANGED << world, panel, tagCol, filterBox, dialog >> /\ dialog.open
        /\ pending' = pending \cup {r}
    BY <1>3 DEF ConfirmDelete, Send, columns
  <2>2. panel.repo \in Real
    BY <2>1 DEF Places, PanelPlaced
  <2>3. Follows(r)
    BY <2>2, LinkFollows
  <2> HIDE DEF r
  <2>4. \A q \in pending' : Follows(q)
    BY <2>1, <2>3, OldFollows
  <2> QED BY <2>1, <2>4, StillStep DEF Places
<1> QED BY <1>1, <1>2, <1>3 DEF Dialog

\* A page of a repository, or the page of none.
PagePlaced(u) == u.repo \in Real \cup {""} /\ (u.page = "manifest" => u.repo \in Real)

LEMMA PagesPlaced ==
    ASSUME Places, NEW u \in Pages
    PROVE  PagePlaced(u)
<1>1. /\ HomeURL.page = "home" /\ HomeURL.repo = ""
      /\ \A repo : TagsURL(repo).page = "tags" /\ TagsURL(repo).repo = repo
      /\ \A repo, ref : ManifestURL(repo, ref).repo = repo
      /\ \A repo, ref, child : PlatformURL(repo, ref, child).repo = repo
  BY DEF HomeURL, TagsURL, ManifestURL, PlatformURL, URL
<1>2. panel.kind = "shown" => panel.repo \in Real
  BY DEF Places, PanelPlaced
<1>3. \/ u = HomeURL
      \/ \E repo \in Real : u = TagsURL(repo)
      \/ \E repo \in Real : \E ref : u = ManifestURL(repo, ref)
      \/ panel.kind = "shown" /\ \E child : u = PlatformURL(panel.repo, panel.ref, child)
  BY Zenon DEF Pages, Real
<1>4. u = HomeURL => PagePlaced(u)
  BY <1>1 DEF PagePlaced
<1>5. u = HomeURL \/ u.repo \in Real
  <2>1. ASSUME NEW repo \in Real, u = TagsURL(repo) PROVE u.repo \in Real
    BY <1>1, <2>1
  <2>2. ASSUME NEW repo \in Real, NEW ref, u = ManifestURL(repo, ref) PROVE u.repo \in Real
    BY <1>1, <2>2
  <2>3. ASSUME panel.kind = "shown", NEW child, u = PlatformURL(panel.repo, panel.ref, child)
        PROVE  u.repo \in Real
    BY <1>2, <2>3 DEF PlatformURL, URL
  <2> QED BY Zenon, <1>3, <2>1, <2>2, <2>3
<1> QED BY <1>4, <1>5 DEF PagePlaced

LEMMA TagsPlaced ==
    ASSUME NEW repo \in Real
    PROVE  PagePlaced(TagsURL(repo))
BY DEF PagePlaced, TagsURL, URL

LEMMA NoTagsPlaced == ColumnPlaced(NoTags)
<1> DEFINE none == SubSeq(<< >>, 1, 0)
<1>1. Len(<< >>) = 0 /\ PAGE \in Nat /\ PAGE # 0
  BY PageAssumption
<1>2. none = << >>
  OBVIOUS
<1>3. FirstOf(PAGE, << >>) = << >>
  BY <1>1, <1>2 DEF FirstOf
<1>4. NoTags.repo = "" /\ NoTags.names = FirstOf(PAGE, << >>) /\ NoTags.more = (PAGE < Len(<< >>))
  BY Zenon DEF NoTags, TagColumn
<1>5. ~ (PAGE < Len(<< >>))
  BY <1>1
<1>6. ~ NoTags.more
  BY Zenon, <1>4, <1>5
<1> QED BY <1>3, <1>4, <1>6 DEF ColumnPlaced

\* A page load makes everything anew.
LEMMA PanelLoadStep ==
    ASSUME Places, UrlInv, NEW u, PagePlaced(u), NEW down, Load(u, down)
    PROVE  Grown
<1> DEFINE tags == IF "tags" \in down THEN << >> ELSE FetchTags(u.repo, "")
           list == TagColumn(u.repo, "list", tags, "", PAGE)
           left == {q \in pending : q.kind = "delete" /\ q.answer = Nothing}
<1>1. /\ world' = world /\ panel' = PagePanel(u, down) /\ dialog' = Closed
      /\ tagCol' = NoTags \/ (u.repo # "" /\ tagCol' = list)
      /\ filterBox' \in {NoFilter, [repo |-> u.repo, text |-> ""]}
      /\ pending' = {[q EXCEPT !.attached = FALSE] : q \in left}
  BY DEF Load, LoadPage, Render
<1>2. Known(panel')
  BY <1>1, PagePanelBorn DEF PagePlaced, Known
<1>3. ColumnPlaced(NoTags)
  BY NoTagsPlaced
<1>4. u.repo # "" => ColumnPlaced(list)
  BY TagColumnPlaced DEF PagePlaced
<1> HIDE DEF list, tags
<1>5. ColumnPlaced(tagCol')
  BY <1>1, <1>3, <1>4
<1>6. ColumnPlaced(tagCol)'
  BY <1>1, <1>5 DEF ColumnPlaced, Real
<1>7. BoxPlaced(filterBox')
  <2>1. "repo" \in DOMAIN NoFilter /\ NoFilter.repo = ""
    BY DEF NoFilter
  <2> DEFINE box == [repo |-> u.repo, text |-> ""]
  <2>2. "repo" \in DOMAIN box /\ box.repo = u.repo
    OBVIOUS
  <2> HIDE DEF box
  <2> QED BY <1>1, <2>1, <2>2 DEF BoxPlaced, PagePlaced, box
<1>8. ~ dialog'.open
  BY <1>1 DEF Closed
<1>9. ASSUME NEW q \in left PROVE Follows([q EXCEPT !.attached = FALSE])
  <2> DEFINE d == [q EXCEPT !.attached = FALSE]
  <2>1. d.kind = q.kind /\ d.repo = q.repo /\ d.answer = q.answer
    BY DEF UrlInv, RequestFits, UrlIsRequest
  <2> HIDE DEF d
  <2>2. Follows(d)
    BY <2>1 DEF Follows
  <2> QED BY <2>2 DEF d
<1>10. \A q \in pending' : Follows(q)
  BY <1>1, <1>9
<1> HIDE DEF left
<1> QED BY <1>1, <1>2, <1>6, <1>7, <1>8, <1>10, Grow DEF Grown

LEMMA PanelBrowseStep ==
    ASSUME Places, UrlInv, Browse
    PROVE  Grown
<1>1. ASSUME NEW repo \in ToSet(world.repos), ClickRepo(repo) PROVE Grown
  BY <1>1, LinkFollows, PanelClickStep DEF ClickRepo, Real
<1>2. ASSUME NEW tag \in ToSet(tagCol.names), ClickTag(tag) PROVE Grown
  <2>1. tagCol.names # << >>
    BY <1>2 DEF ToSet
  <2>2. tagCol.repo \in Real
    BY <2>1 DEF Places, ColumnPlaced
  <2> QED BY <1>2, <2>2, LinkFollows, PanelClickStep DEF ClickTag
<1>3. ASSUME NEW i \in DOMAIN panel.referrers, ClickReferrer(i) PROVE Grown
  <2>1. panel.referrers # << >>
    BY <1>3
  <2>2. panel.repo \in Real
    BY <2>1 DEF Places, PanelPlaced
  <2> QED BY <1>3, <2>2, LinkFollows, PanelClickStep DEF ClickReferrer
<1>4. ASSUME NEW q \in Filters, FilterRepos(q) PROVE Grown
  BY <1>4, LinkFollows, PanelClickStep DEF FilterRepos
<1>5. ASSUME NEW q \in Filters, FilterTags(q) PROVE Grown
  <2> DEFINE r == [Request("filter", filterBox.repo, "") EXCEPT !.q = q]
  <2>1. /\ UNCHANGED << world, panel, tagCol, dialog >> /\ filterBox.repo # ""
        /\ filterBox' = [filterBox EXCEPT !.text = q]
        /\ pending' = pending \/ pending' = pending \cup {r}
    BY <1>5 DEF FilterTags, Send
  <2>2. BoxPlaced(filterBox')
    BY <2>1 DEF Places, BoxPlaced
  <2>3. Follows(r)
    BY <2>1, LinkFollows DEF Places, BoxPlaced
  <2> HIDE DEF r
  <2>4. \A q1 \in pending' : Follows(q1)
    BY <2>1, <2>3, OldFollows
  <2> QED BY <2>1, <2>2, <2>4, StillStep DEF Places
<1>6. CASE MoreRepos
  BY <1>6, LinkFollows, PanelClickStep DEF MoreRepos
<1>7. CASE MoreTags
  <2>1. tagCol.repo \in Real
    BY <1>7 DEF Places, ColumnPlaced, MoreTags
  <2> QED BY <1>7, <2>1, LinkFollows, PanelClickStep DEF MoreTags
<1>8. ASSUME NEW u \in Pages, NEW down, Visit(u, down) PROVE Grown
  BY <1>8, PagesPlaced, PanelLoadStep DEF Visit
<1> QED BY <1>1, <1>2, <1>3, <1>4, <1>5, <1>6, <1>7, <1>8 DEF Browse

\* A request answered follows itself if the answer was made.
LEMMA AnsweredFollows ==
    ASSUME Places, UrlInv, NEW r \in pending, NEW STATE a, AnswerMade(a)
    PROVE  Follows([r EXCEPT !.answer = Just(a)])
<1> DEFINE q == [r EXCEPT !.answer = Just(a)]
<1>1. q.kind = r.kind /\ q.repo = r.repo /\ q.answer = Just(a)
  BY DEF UrlInv, RequestFits, UrlIsRequest
<1>2. Just(a)[1] = a
  BY Options
<1>3. r.kind # "repos" => r.repo \in Real
  BY DEF Places, RequestPlaced
<1> HIDE DEF q
<1>4. Follows(q)
  BY <1>1, <1>2, <1>3 DEF Follows
<1> QED BY <1>4 DEF q

LEMMA PanelServeStep ==
    ASSUME Places, UrlInv, NEW r \in pending, NEW down,
           ServeFragment(r, down) \/ ServeDelete(r, down)
    PROVE  Grown
<1>1. CASE ServeFragment(r, down)
  <2> DEFINE a == Answer(r, down)
             q == [r EXCEPT !.answer = Just(a)]
  <2>1. /\ r.kind # "delete" /\ pending' = (pending \ {r}) \cup {q}
        /\ UNCHANGED << world, panel, tagCol, filterBox, dialog >>
    BY <1>1 DEF ServeFragment, columns
  <2>2. r.kind \in {"repos", "tags", "filter", "more", "manifest"}
    BY <2>1 DEF UrlInv, RequestFits, Sent
  <2>3. AnswerMade(a)
    BY <2>2, AnswerIsMade DEF Places, RequestPlaced
  <2> HIDE DEF a
  <2>4. Follows(q)
    BY <2>3, AnsweredFollows
  <2> HIDE DEF q
  <2>5. \A q1 \in pending' : Follows(q1)
    BY <2>1, <2>4, OldFollows
  <2> QED BY <2>1, <2>5, StillStep DEF Places
<1>2. CASE ServeDelete(r, down)
  <2> DEFINE ok == /\ "manifest" \notin down /\ Has(r.repo, DeletedDigest(r))
                   /\ IsTag(r.repo, r.ref) => world.header
             a == [NoSwap EXCEPT !.ok = ok]
             q == [r EXCEPT !.answer = Just(a)]
  <2>1. /\ pending' \subseteq (pending \ {r}) \cup {q}
        /\ UNCHANGED << world, panel, tagCol, filterBox, dialog >>
    BY <1>2 DEF ServeDelete, columns
  <2>2. AnswerMade(a)
    BY NoSwapMade
  <2> HIDE DEF a
  <2>3. Follows(q)
    BY <2>2, AnsweredFollows
  <2> HIDE DEF q
  <2>4. \A q1 \in pending' : Follows(q1)
    BY <2>1, <2>3, OldFollows
  <2> QED BY <2>1, <2>4, StillStep DEF Places
<1> QED BY <1>1, <1>2

\* The dialog goes with the panel it was in.
LEMMA PanelDeliverStep ==
    ASSUME Places, UrlInv, NEW r \in pending, Deliver(r)
    PROVE  Grown
<1> DEFINE swaps == r.answer[1].ok /\ r.attached
           new == IF swaps THEN r.answer[1] ELSE NoSwap
           out == IF swaps THEN Removes(Target(r.kind)) ELSE "none"
           stays(q) == q.attached /\ (Target(q.kind) \in Persistent \/ Target(q.kind) # out)
<1>1. /\ r.answer # Nothing /\ world' = world
      /\ panel' = Swapped(new.panel, panel) /\ tagCol' = Swapped(new.tagCol, tagCol)
      /\ filterBox' = Swapped(new.filterBox, filterBox) /\ dialog' = SwappedDialog(new)
      /\ pending' = {[q EXCEPT !.attached = stays(q)] : q \in pending \ {r}}
  BY DEF Deliver
<1>2. AnswerPlaced(r.answer[1])
  BY <1>1 DEF Places, RequestPlaced
<1>3. NoSwap.panel = Nothing /\ NoSwap.tagCol = Nothing /\ NoSwap.filterBox = Nothing
  BY NoSwapMade
<1>4. AnswerPlaced(new)
  BY <1>2, <1>3 DEF AnswerPlaced
<1>5. new.panel = Nothing \/ new = r.answer[1]
  BY <1>3
<1>6. ASSUME NEW q \in pending PROVE Follows([q EXCEPT !.attached = stays(q)])
  <2> DEFINE yes == stays(q)
             d == [q EXCEPT !.attached = yes]
  <2> HIDE DEF yes
  <2>1. d.kind = q.kind /\ d.repo = q.repo /\ d.answer = q.answer
    BY DEF UrlInv, RequestFits, UrlIsRequest
  <2> HIDE DEF d
  <2>2. Follows(d)
    BY <2>1 DEF Follows
  <2> QED BY <2>2 DEF d, yes
<1> HIDE DEF new, stays
<1>7. \A q \in pending' : Follows(q)
  BY <1>1, <1>6
<1>8. Known(panel') /\ (dialog'.open => panel'.kind = "shown" /\ world.admin)
  <2>1. CASE new.panel = Nothing
    BY <1>1, <2>1 DEF Swapped, SwappedDialog, Known, Panels, Places
  <2>2. CASE new.panel # Nothing
    <3>1. new.panel = Just(new.panel[1]) /\ panel' = new.panel[1] /\ dialog' = Closed
      BY <1>1, <1>4, <2>2 DEF AnswerPlaced, Swapped, SwappedDialog
    <3>2. new.panel[1] \in ToSet(r.answer[1].panel)
      BY <1>5, <2>2, <3>1, InJust
    <3>3. panel' \in Panels
      BY <1>1, <3>1, <3>2, AnswerPanels
    <3> QED BY <3>1, <3>3 DEF Known, Closed
  <2> QED BY <2>1, <2>2
<1>9. ColumnPlaced(tagCol') /\ BoxPlaced(filterBox')
  BY <1>1, <1>4 DEF AnswerPlaced, Places, Swapped
<1>10. ColumnPlaced(tagCol)'
  BY <1>1, <1>9 DEF ColumnPlaced, Real
<1> QED BY <1>1, <1>7, <1>8, <1>9, <1>10, Grow DEF Grown

LEMMA PanelDeliverDeleteStep ==
    ASSUME Places, UrlInv, NEW r \in pending, NEW down, DeliverDelete(r, down)
    PROVE  Grown
<1>1. CASE r.answer[1].ok
  <2>1. r.repo \in Real
    BY DEF DeliverDelete, Places, RequestPlaced
  <2> QED BY <1>1, <2>1, TagsPlaced, PanelLoadStep DEF DeliverDelete
<1>2. CASE ~r.answer[1].ok
  <2>1. /\ UNCHANGED << world, panel, tagCol, filterBox, dialog >>
        /\ pending' = pending \ {r}
    BY <1>2 DEF DeliverDelete, columns
  <2>2. \A q \in pending' : Follows(q)
    BY <2>1, OldFollows
  <2> QED BY <2>1, <2>2, StillStep DEF Places
<1> QED BY <1>1, <1>2

\* No step brings a panel but by a handler that made it.
LEMMA PanelsGrow ==
    ASSUME Places, UrlInv, [Next]_vars
    PROVE  Grown
<1>1. CASE Browse
  BY <1>1, PanelBrowseStep
<1>2. CASE Dialog
  BY <1>2, PanelDialogStep
<1>3. CASE Answers
  BY <1>3, PanelServeStep, PanelDeliverDeleteStep, PanelDeliverStep DEF Answers
<1>4. CASE UNCHANGED vars
  <2>1. \A q \in pending' : Follows(q)
    BY <1>4, OldFollows DEF vars
  <2> QED BY <1>4, <2>1, StillStep DEF vars, columns, Places
<1>5. CASE Others
  <2>1. UNCHANGED << world, panel, tagCol, filterBox, dialog, pending >>
    BY <1>5 DEF Others, Push, Expire, columns
  <2>2. \A q \in pending' : Follows(q)
    BY <2>1, OldFollows
  <2> QED BY <2>1, <2>2, StillStep DEF Places
<1> QED BY <1>1, <1>2, <1>3, <1>4, <1>5 DEF Next

\* The home page has a placeholder, of no repository.
LEMMA PlacesInit ==
    ASSUME Init
    PROVE  Places /\ Panels = {panel} /\ Born(panel)
<1>1. panel = BlankPanel("hint", "", "", "", {})
  BY DEF Init
<1>2. Hint(panel, "")
  BY <1>1 DEF Hint
<1>3. Born(panel)
  BY <1>2 DEF Born
<1>4. PanelPlaced(panel)
  BY <1>3, BornPlaced
<1>5. ColumnPlaced(NoTags)
  BY NoTagsPlaced
<1>6. Places
  BY <1>4, <1>5 DEF Init, Places, BoxPlaced, NoFilter, Closed
<1>7. Panels = {panel}
  BY DEF Init, Panels
<1> QED BY <1>3, <1>6, <1>7

-----------------------------------------------------------------------------
\* Why a panel is missing.

\* A set of numbers has a least member, which is what Min chooses.
LEMMA LeastNatural ==
    ASSUME NEW T, T \subseteq Nat, T # {}
    PROVE  Min(T) \in T /\ \A y \in T : Min(T) <= y
<1>1. PICK x \in T : \A y \in T : ~ (<< y, x >> \in OpToRel(<, Nat))
  BY WFMin, NatLessThanWellFounded, Zenon
<1>2. ASSUME NEW y \in T PROVE x <= y
  <2>1. x \in Nat /\ y \in Nat
    OBVIOUS
  <2>2. y < x => << y, x >> \in OpToRel(<, Nat)
    BY <2>1 DEF OpToRel
  <2>3. ~ (<< y, x >> \in OpToRel(<, Nat))
    BY Zenon, <1>1
  <2>4. ~ (y < x)
    BY Zenon, <2>2, <2>3
  <2> QED BY <2>1, <2>4
<1> QED BY <1>2 DEF Min

LEMMA Selected ==
    ASSUME NEW STATE seq, NEW STATE S, seq \in Seq(S), NEW STATE J, J \subseteq 1..Len(seq),
           J # {}
    PROVE  Min(J) \in DOMAIN seq /\ Min(J) \in J /\ Min(J) # 0
<1>1. J \subseteq Nat
  OBVIOUS
<1>2. Min(J) \in J
  BY <1>1, LeastNatural
<1> DEFINE m == Min(J)
<1>3. m \in 1..Len(seq) /\ m \in J
  BY <1>2
<1> HIDE DEF m
<1>4. m \in DOMAIN seq /\ m # 0
  BY <1>3
<1> QED BY <1>3, <1>4 DEF m

\* The child an index falls back to is one of its entries, by its digest.
LEMMA PickIsEntry ==
    ASSUME NEW STATE entries, NEW STATE S, entries \in Seq(S),
           FallbackPick(PlatformsFromIndex(entries)) # Nothing
    PROVE  LET pick == FallbackPick(PlatformsFromIndex(entries))[1] IN
           \E i \in DOMAIN entries :
              /\ pick = PlatformsFromIndex(entries)[i] /\ pick.digest = Just(entries[i].digest)
              /\ pick.platform # UnknownPlatform \/ pick.platform = LocalPlatform
              /\ (\E j \in DOMAIN entries : PlatformsFromIndex(entries)[j].platform = LocalPlatform)
                    => pick.platform = LocalPlatform
<1> DEFINE ps == PlatformsFromIndex(entries)
           Local == {i \in 1..Len(ps) : ps[i].platform = LocalPlatform}
           Listed == {i \in 1..Len(ps) : ps[i].platform # UnknownPlatform}
           i == IF Local # {} THEN Min(Local) ELSE IF Listed # {} THEN Min(Listed) ELSE 0
           pick == FallbackPick(ps)
<1>1. ps \in Seq(Range(ps)) /\ DOMAIN ps = DOMAIN entries /\ Len(ps) = Len(entries)
  BY DEF PlatformsFromIndex, Range
<1>2. \A j \in DOMAIN entries : ps[j].digest = Just(entries[j].digest)
  BY DEF PlatformsFromIndex
<1> HIDE DEF ps
<1>3. Local # {} => Min(Local) \in Local /\ Min(Local) # 0
  <2> HIDE DEF Local
  <2>1. Local \subseteq 1..Len(ps)
    BY DEF Local
  <2> QED BY <1>1, <2>1, Selected
<1>4. Listed # {} => Min(Listed) \in Listed /\ Min(Listed) # 0
  <2> HIDE DEF Listed
  <2>1. Listed \subseteq 1..Len(ps)
    BY DEF Listed
  <2> QED BY <1>1, <2>1, Selected
<1>5. pick = LET local == IF Local # {} THEN Min(Local) ELSE 0
                 any == IF Listed # {} THEN Min(Listed) ELSE 0
                 k == IF local # 0 THEN local ELSE any
             IN  IF k = 0 THEN Nothing ELSE Just(ps[k])
  BY DEF FallbackPick, SelectInSeq
<1> HIDE DEF Local, Listed, pick
<1>6. pick = IF i = 0 THEN Nothing ELSE Just(ps[i])
  BY <1>3, <1>5
<1> DEFINE least == Min(Local)
           first == Min(Listed)
<1>7. /\ Local # {} => pick = Just(ps[least])
      /\ Local = {} => Listed # {} /\ pick = Just(ps[first])
  BY <1>3, <1>4, <1>6 DEF ps, pick
<1>8. pick[1] = ps[IF Local # {} THEN least ELSE first]
  BY <1>7, Options
<1>9. CASE Local # {}
  <2>1. least \in 1..Len(ps) /\ ps[least].platform = LocalPlatform /\ pick[1] = ps[least]
    BY <1>3, <1>8, <1>9 DEF Local
  <2> HIDE DEF least
  <2>2. least \in DOMAIN entries /\ pick[1].digest = Just(entries[least].digest)
    BY <1>1, <1>2, <2>1
  <2> QED BY <2>1, <2>2 DEF ps, pick
<1>10. CASE Local = {}
  <2>1. first \in 1..Len(ps) /\ ps[first].platform # UnknownPlatform /\ pick[1] = ps[first]
    BY <1>4, <1>7, <1>8, <1>10 DEF Listed
  <2> HIDE DEF first
  <2>2. first \in DOMAIN entries /\ pick[1].digest = Just(entries[first].digest)
    BY <1>1, <1>2, <2>1
  <2>3. \A j \in DOMAIN entries : ps[j].platform # LocalPlatform
    BY <1>1, <1>10 DEF Local
  <2> QED BY <2>1, <2>2, <2>3 DEF ps, pick
<1> QED BY <1>9, <1>10

LEMMA ConfigOutcome ==
    ASSUME NEW STATE m, NEW STATE failing
    PROVE  LET c == FetchConfig(m, failing) IN
           /\ c.out \in {"ok", "crash"}
           /\ c.out = "crash" => /\ HasConfigBlob(m.mediaType) /\ m.config # Nothing
                                 /\ ~ world.config[m.config[1]].valid
BY DEF FetchConfig, Failed, ClassifyMediaType, HasConfigBlob

\* A manifest is refused or crashes its handler only as BestEffort has it.
LEMMA FetchBlame ==
    ASSUME NEW STATE repo, NEW STATE ref, NEW STATE down, NEW fetch, NEW fetchConfig
    PROVE  LET got == FetchManifest(repo, ref, down, fetch, fetchConfig)
               m == world.body[DigestOf(repo, ref)]
           IN  /\ got.out = "error" => \/ fetch \in down \/ ~ Exists(repo, ref)
                                       \/ ClassifyMediaType(m.mediaType) = "unknown"
               /\ got.out = "crash" => Malformed(m)
               /\ got.out \in {"ok", "crash"} => Exists(repo, ref)
<1> DEFINE m == world.body[DigestOf(repo, ref)]
           digest == DigestOf(repo, ref)
           c == FetchConfig(m, fetchConfig \in down)
           u == ToUnified(m, IF world.header THEN Just(digest) ELSE Nothing, c.config)
           got == FetchManifest(repo, ref, down, fetch, fetchConfig)
<1>1. /\ c.out \in {"ok", "crash"}
      /\ c.out = "crash" => /\ HasConfigBlob(m.mediaType) /\ m.config # Nothing
                            /\ ~ world.config[m.config[1]].valid
  BY ConfigOutcome
<1>2. got = IF fetch \in down \/ ~ Exists(repo, ref) THEN Failed("error")
            ELSE IF c.out # "ok" THEN c
            ELSE IF ClassifyMediaType(m.mediaType) = "unknown" THEN Failed("error")
            ELSE IF ~ m.valid THEN Failed("crash")
            ELSE [out |-> "ok", u |-> u]
  BY DEF FetchManifest, Parse
<1>3. Failed("error").out = "error" /\ Failed("crash").out = "crash"
  BY DEF Failed
<1>4. [out |-> "ok", u |-> u].out = "ok"
  OBVIOUS
<1> HIDE DEF m, c, u, got
<1>5. /\ got.out = "error" => \/ fetch \in down \/ ~ Exists(repo, ref)
                              \/ ClassifyMediaType(m.mediaType) = "unknown"
      /\ got.out = "crash" => Malformed(m)
      /\ got.out \in {"ok", "crash"} => Exists(repo, ref)
  BY <1>1, <1>2, <1>3, <1>4 DEF Malformed
<1> QED BY <1>5 DEF m, got

\* What an index that was fetched lists.
LEMMA FetchedIndex ==
    ASSUME NEW STATE repo, NEW STATE ref, NEW STATE down, NEW fetch, NEW fetchConfig,
           FetchManifest(repo, ref, down, fetch, fetchConfig).out = "ok",
           FetchManifest(repo, ref, down, fetch, fetchConfig).u.type = "index"
    PROVE  FetchManifest(repo, ref, down, fetch, fetchConfig).u.platforms
              = PlatformsFromIndex(world.body[DigestOf(repo, ref)].entries)
<1> DEFINE m == world.body[DigestOf(repo, ref)]
           digest == IF world.header THEN Just(DigestOf(repo, ref)) ELSE Nothing
           c == FetchConfig(m, fetchConfig \in down)
           u == ToUnified(m, digest, c.config)
           got == FetchManifest(repo, ref, down, fetch, fetchConfig)
<1>1. c.out \in {"ok", "crash"}
  BY ConfigOutcome
<1>2. got = IF fetch \in down \/ ~ Exists(repo, ref) THEN Failed("error")
            ELSE IF c.out # "ok" THEN c
            ELSE IF ClassifyMediaType(m.mediaType) = "unknown" THEN Failed("error")
            ELSE IF ~ m.valid THEN Failed("crash")
            ELSE [out |-> "ok", u |-> u]
  BY DEF FetchManifest, Parse
<1>3. Failed("error").out = "error" /\ Failed("crash").out = "crash"
  BY DEF Failed
<1>4. got.u = u
  <2> HIDE DEF c, u
  <2>1. [out |-> "ok", u |-> u].u = u
    OBVIOUS
  <2> QED BY <1>1, <1>2, <1>3, <2>1
<1> DEFINE config == c.config
           rest == [Unified("image", m, digest) EXCEPT !.size = TotalSize(m.layers),
                      !.platforms = ImagePlatform(config), !.config = config,
                      !.layers = m.layers]
<1>5. FromIndex(m, digest).platforms = PlatformsFromIndex(m.entries)
  BY DEF FromIndex, Unified
<1>6. FromImage(m, digest, config).type = "image" /\ FromSchema1(m, digest).type = "image"
  BY DEF FromImage, FromSchema1, Unified
<1> HIDE DEF m, c, got, digest
<1>7. u = FromIndex(m, digest)
  BY SMTT(30), <1>4, <1>6 DEF ToUnified, got
<1> QED BY <1>4, <1>5, <1>7 DEF m, got

\* Only a child that does not fit its model crashes the handler of its index.
LEMMA NotesBlame ==
    ASSUME world \in Worlds, NEW STATE repo, repo \in Real, NEW STATE ref, NEW STATE down,
           FetchManifest(repo, ref, down, "manifest", "config").out = "ok",
           AnnotationsWithFallback(repo, FetchManifest(repo, ref, down, "manifest", "config").u,
                                   down).out = "crash"
    PROVE  \E e \in ToSet(world.body[DigestOf(repo, ref)].entries) :
              Malformed(world.body[e.digest])
<1> DEFINE d == DigestOf(repo, ref)
           m == world.body[d]
           u == FetchManifest(repo, ref, down, "manifest", "config").u
           notes == AnnotationsWithFallback(repo, u, down)
           pick == FallbackPick(u.platforms)
           name == pick[1].digest[1]
           child == FetchManifest(repo, name, down, "child", "childConfig")
<1>1. d \in DOMAIN world.body
  BY FetchBlame DEF Exists, Has
<1>2. /\ NoAnnotations.out = "ok"
      /\ [NoAnnotations EXCEPT !.rows = AnnotationRows(u)].out = "ok"
      /\ [NoAnnotations EXCEPT !.rows = AnnotationRows(child.u),
                               !.source = Just(pick[1].platform)].out = "ok"
  BY DEF NoAnnotations
<1>3. u.type = "index" /\ pick # Nothing /\ child.out = "crash"
  <2> HIDE DEF u, pick, child
  <2>1. u.type = "index" /\ pick # Nothing
        /\ ChildAnnotations(pick[1].platform, child).out = "crash"
    BY <1>2 DEF AnnotationsWithFallback, u, pick, child
  <2> QED BY <1>2, <2>1 DEF ChildAnnotations
<1>4. u.platforms = PlatformsFromIndex(m.entries)
  BY <1>3, FetchedIndex
<1>5. m.entries \in Seq(ToSet(m.entries))
  BY <1>1, WorldsAssumption
<1> DEFINE entries == m.entries
<1>6. PICK i \in DOMAIN entries : pick[1].digest = Just(entries[i].digest)
  <2> HIDE DEF entries, u
  <2>1. entries \in Seq(ToSet(entries)) /\ pick = FallbackPick(PlatformsFromIndex(entries))
    BY <1>4, <1>5 DEF entries
  <2> QED BY <1>3, <2>1, PickIsEntry
<1>7. name = entries[i].digest /\ entries[i] \in ToSet(entries)
  <2> HIDE DEF entries, pick
  <2> QED BY <1>6, Options DEF ToSet
<1>8. repo \in DOMAIN world.tag
  BY WorldsAssumption DEF Real
<1>9. DigestOf(repo, name) = name
  <2> HIDE DEF d, name, entries
  <2>1. entries[i].digest \notin DOMAIN world.tag[repo]
    BY <1>1, <1>7, <1>8, WorldsAssumption DEF entries
  <2> QED BY <1>7, <2>1 DEF DigestOf, Reads, IsTag
<1>10. Malformed(world.body[DigestOf(repo, name)])
  BY <1>3, FetchBlame
<1> QED BY <1>7, <1>9, <1>10

\* BestEffort, of one panel.
Excused(p) ==
    LET m == BodyOf(p) IN
    /\ p.kind = "error" \/ (p.kind = "hint" /\ p.asked # "") =>
          \/ p.down \cap {"repos", "tags", "manifest"} # {}
          \/ p.found = Nothing
          \/ ClassifyMediaType(m.mediaType) = "unknown"
    /\ p.kind = "broken" =>
          \/ Malformed(m)
          \/ \E e \in ToSet(m.entries) : Malformed(world.body[e.digest])
          \/ p.parent # Nothing /\ ~world.header

\* The body of a panel is that of the manifest there was.
LEMMA FoundBody ==
    ASSUME NEW STATE p, p.found = Reading(p.repo, p.asked)
    PROVE  /\ p.found = Nothing <=> ~ Exists(p.repo, p.asked)
           /\ Exists(p.repo, p.asked) => BodyOf(p) = world.body[DigestOf(p.repo, p.asked)]
<1> DEFINE read == Reads(p.repo, p.asked)
<1>1. Just(read)[1] = read /\ Just(read) # Nothing
  BY Options
<1>2. p.found = IF Exists(p.repo, p.asked) THEN Just(read) ELSE Nothing
  BY DEF Reading
<1>3. DigestOf(p.repo, p.asked) = read.digest
  BY DEF DigestOf
<1> HIDE DEF read
<1> QED BY <1>1, <1>2, <1>3 DEF BodyOf

LEMMA FetchedExcused ==
    ASSUME world \in Worlds, NEW STATE p, p.repo \in Real,
           Outcome(p, FetchManifest(p.repo, p.asked, p.down, "manifest", "config"))
    PROVE  Excused(p)
<1> DEFINE got == FetchManifest(p.repo, p.asked, p.down, "manifest", "config")
           notes == AnnotationsWithFallback(p.repo, got.u, p.down)
           m == world.body[DigestOf(p.repo, p.asked)]
<1>1. /\ got.out = "error" => \/ "manifest" \in p.down \/ ~ Exists(p.repo, p.asked)
                              \/ ClassifyMediaType(m.mediaType) = "unknown"
      /\ got.out = "crash" => Malformed(m)
      /\ got.out \in {"ok", "crash"} => Exists(p.repo, p.asked)
  BY FetchBlame
<1>2. got.out = "ok" /\ notes.out = "crash" =>
        \E e \in ToSet(m.entries) : Malformed(world.body[e.digest])
  BY NotesBlame
<1>3. /\ p.kind \in {"error", "broken", "shown"}
      /\ p.kind = "error" => got.out = "error"
      /\ p.kind = "broken" => got.out = "crash" \/ (got.out = "ok" /\ notes.out = "crash")
  BY DEF Outcome
<1>6. /\ p.found = Nothing <=> ~ Exists(p.repo, p.asked)
      /\ Exists(p.repo, p.asked) => BodyOf(p) = m
  BY FoundBody DEF Outcome
<1> HIDE DEF got, notes, m
<1>4. p.kind = "error" => \/ "manifest" \in p.down \/ ~ Exists(p.repo, p.asked)
                          \/ ClassifyMediaType(m.mediaType) = "unknown"
  BY <1>1, <1>3
<1>5. p.kind = "broken" => \/ Malformed(m)
                           \/ \E e \in ToSet(m.entries) : Malformed(world.body[e.digest])
  BY <1>1, <1>2, <1>3
<1>7. p.kind = "broken" => Exists(p.repo, p.asked)
  BY <1>1, <1>3
<1> QED BY <1>3, <1>4, <1>5, <1>6, <1>7 DEF Excused

LEMMA BornExcused ==
    ASSUME world \in Worlds, NEW STATE p, Born(p)
    PROVE  Excused(p)
<1>1. ASSUME NEW repo, Hint(p, repo) PROVE Excused(p)
  <2>1. PICK down : p = BlankPanel("hint", repo, "", "", down)
    BY <1>1 DEF Hint
  <2> DEFINE b == BlankPanel("hint", repo, "", "", down)
  <2>2. b.kind = "hint" /\ b.asked = ""
    BY Zenon DEF BlankPanel
  <2> HIDE DEF b
  <2>3. p.kind = "hint" /\ p.asked = ""
    BY <2>1, <2>2 DEF b
  <2> QED BY <2>3 DEF Excused
<1>2. ASSUME NEW repo, Shadow(p, repo) PROVE Excused(p)
  <2>1. p.kind = "error" /\ p.down \cap {"repos", "tags"} # {}
    BY <1>2 DEF Shadow, BlankPanel
  <2> QED BY <2>1 DEF Excused
<1>3. ASSUME NEW repo \in Real, Fetched(p, repo) PROVE Excused(p)
  <2>1. PICK ref, platform, down : p = ManifestPanel(repo, ref, platform, down)
    BY <1>3 DEF Fetched
  <2>2. /\ p.repo = repo /\ p.repo \in Real
        /\ Outcome(p, FetchManifest(p.repo, p.asked, p.down, "manifest", "config"))
    BY <2>1, ManifestPanelIs
  <2> QED BY <2>2, FetchedExcused
<1>4. ASSUME NEW repo \in Real, Picked(p, repo) PROVE Excused(p)
  <2>1. PICK q, down : p = AutoPanel(FetchTags(repo, q),
                                     ManifestPanel(repo, FetchTags(repo, q)[1], Nothing, down))
    BY <1>4 DEF Picked
  <2> DEFINE tags == FetchTags(repo, q)
             m == ManifestPanel(repo, tags[1], Nothing, down)
  <2>2. /\ Whole(m) /\ m.repo = repo /\ m.repo \in Real
        /\ Outcome(m, FetchManifest(m.repo, m.asked, m.down, "manifest", "config"))
    BY ManifestPanelIs
  <2> HIDE DEF m
  <2>3. Excused(m) /\ m.kind \in {"error", "broken", "shown"}
    BY <2>2, FetchedExcused DEF Outcome
  <2>4. /\ p.kind = (IF m.kind = "error" THEN "hint" ELSE m.kind)
        /\ p.repo = m.repo /\ p.asked = m.asked /\ p.down = m.down /\ p.found = m.found
        /\ p.parent = m.parent
    BY <2>1, <2>2, AutoPanelFields DEF m
  <2> QED BY <2>3, <2>4 DEF Excused, BodyOf
<1>5. ASSUME NEW repo \in Real, Torn(p, repo) PROVE Excused(p)
  <2>1. p.kind = "broken" /\ p.parent # Nothing /\ ~world.header
    BY <1>5, TornFields
  <2> QED BY <2>1 DEF Excused
<1> QED BY <1>1, <1>2, <1>3, <1>4, <1>5 DEF Born

-----------------------------------------------------------------------------
\* The invariant.

\* What happened to a panel goes on being the reason: what the registry holds stays,
\* whatever is deleted and wherever its tags are moved.
LEMMA RegistryStays ==
    ASSUME [Next]_vars
    PROVE  world' = world
<1>1. CASE Browse
  <2>1. ASSUME NEW r, Click(r) PROVE world' = world
    BY <2>1 DEF Click, Send
  <2>2. ASSUME NEW q, FilterTags(q) PROVE world' = world
    BY <2>2 DEF FilterTags, Send
  <2>3. ASSUME NEW u, NEW down, Load(u, down) PROVE world' = world
    BY <2>3 DEF Load
  <2> QED BY <1>1, <2>1, <2>2, <2>3
          DEF Browse, ClickRepo, ClickTag, ClickReferrer, FilterRepos, MoreRepos, MoreTags, Visit
<1>2. CASE Dialog
  BY <1>2 DEF Dialog, OpenDialog, TypeName, EraseName, CancelDialog, ConfirmDelete, Send,
              Typing, DialogStep
<1>3. CASE Answers
  BY <1>3 DEF Answers, ServeFragment, ServeDelete, Deliver, DeliverDelete, Load
<1>4. CASE UNCHANGED vars
  BY <1>4 DEF vars
<1>5. CASE Others
  BY <1>5 DEF Others, Push, Expire
<1> QED BY <1>1, <1>2, <1>3, <1>4, <1>5 DEF Next

LEMMA ExcusedLasts ==
    ASSUME world' = world, NEW p, Excused(p)
    PROVE  Excused(p)'
<1>1. BodyOf(p)' = BodyOf(p)
  BY DEF BodyOf
<1>2. \A m : Malformed(m)' <=> Malformed(m)
  BY DEF Malformed
<1> QED BY <1>1, <1>2 DEF Excused

PanelInv == Places /\ UrlInv /\ \A p \in Panels : Excused(p)

LEMMA PanelInitInductive == Init => PanelInv
BY PlacesInit, UrlInitInductive, BornExcused DEF PanelInv, Places

LEMMA PanelNextInductive == PanelInv /\ [Next]_vars => PanelInv'
<1> SUFFICES ASSUME PanelInv, [Next]_vars PROVE PanelInv'
  OBVIOUS
<1>1. Grown
  BY PanelsGrow DEF PanelInv
<1>2. UrlInv'
  BY UrlNextInductive DEF PanelInv
<1>3. world \in Worlds
  BY DEF PanelInv, Places
<1>4. ASSUME NEW p \in Panels' PROVE Excused(p)'
  <2>1. Excused(p)
    BY <1>1, <1>3, BornExcused DEF Grown, Known, PanelInv
  <2> QED BY <2>1, RegistryStays, ExcusedLasts
<1> QED BY <1>1, <1>2, <1>4 DEF PanelInv, Grown

\* A request, a column or a panel names a repository of the registry, and the delete
\* dialog is open only in a panel that shows a manifest, to an administrator
\* (tags_fragment, manifest_fragment, the dialog block of manifest_info.html).
THEOREM PanelsPlaced == Spec => []Places
<1>1. PanelInv => Places
  BY DEF PanelInv
<1> QED BY <1>1, PanelInitInductive, PanelNextInductive, PTL DEF Spec

\* What only adorns a panel never costs it: a message stands in its place only when
\* the manifest or a list of the page could not be had, and a handler fails outright
\* only over a malformed body or a platform child without its digest (_fetch_manifest,
\* _fetch_referrers and _annotation_rows_with_fallback in web/routes.py, the platform
\* note of manifest_info.html).
THEOREM PanelsExcused == Spec => []BestEffort
<1>1. PanelInv => BestEffort
  BY DEF PanelInv, Excused, BestEffort
<1> QED BY <1>1, PanelInitInductive, PanelNextInductive, PTL DEF Spec

-----------------------------------------------------------------------------
\* Lists in order.

\* R puts the members of S in one order.
Ordering(S, R) ==
    /\ \A x \in S : << x, x >> \notin R
    /\ \A x, y \in S : x # y => << x, y >> \in R \/ << y, x >> \in R
    /\ \A x, y, z \in S : << x, y >> \in R /\ << y, z >> \in R => << x, z >> \in R

\* How many members of S come before x.
Ahead(S, R, x) == {y \in S : << y, x >> \in R}

\* A later member has more before it.
LEMMA AheadGrows ==
    ASSUME NEW S, IsFiniteSet(S), NEW R, Ordering(S, R), NEW x \in S, NEW y \in S,
           << x, y >> \in R
    PROVE  /\ Cardinality(Ahead(S, R, x)) \in Nat /\ Cardinality(Ahead(S, R, y)) \in Nat
           /\ Cardinality(Ahead(S, R, x)) < Cardinality(Ahead(S, R, y))
<1> DEFINE X == Ahead(S, R, x)
           Y == Ahead(S, R, y)
<1>1. X \subseteq Y /\ x \in Y /\ x \notin X /\ Y \subseteq S
  BY DEF Ordering, Ahead
<1> HIDE DEF X, Y
<1>2. IsFiniteSet(Y) /\ IsFiniteSet(X)
  BY <1>1, FS_Subset
<1>3. Cardinality(X) \in Nat /\ Cardinality(Y) \in Nat
  BY <1>2, FS_CardinalityType
<1>4. Cardinality(X) <= Cardinality(Y) /\ Cardinality(X) # Cardinality(Y)
  BY <1>1, <1>2, FS_Subset
<1>5. Cardinality(X) < Cardinality(Y)
  BY <1>3, <1>4
<1> QED BY <1>3, <1>5 DEF X, Y

\* The members of S have 0 to |S| - 1 before them, each another number.
LEMMA AheadOnto ==
    ASSUME NEW S, IsFiniteSet(S), NEW R, Ordering(S, R)
    PROVE  /\ Cardinality(S) \in Nat
           /\ \A x \in S : Cardinality(Ahead(S, R, x)) + 1 \in 1..Cardinality(S)
           /\ \A k \in 1..Cardinality(S) : \E x \in S : Cardinality(Ahead(S, R, x)) = k - 1
<1> DEFINE n == Cardinality(S)
           f == [x \in S |-> Cardinality(Ahead(S, R, x)) + 1]
<1>1. n \in Nat
  BY FS_CardinalityType
<1>2. ASSUME NEW x \in S PROVE Cardinality(Ahead(S, R, x)) \in Nat /\ f[x] \in 1..n
  <2> DEFINE X == Ahead(S, R, x)
  <2>1. X \subseteq S /\ x \notin X
    BY DEF Ahead, Ordering
  <2> HIDE DEF X
  <2>2. IsFiniteSet(X) /\ Cardinality(X) <= n /\ Cardinality(X) # n
    BY <2>1, FS_Subset
  <2>3. Cardinality(X) \in Nat
    BY <2>2, FS_CardinalityType
  <2>4. Cardinality(X) + 1 \in 1..n
    BY <1>1, <2>2, <2>3
  <2> QED BY <2>3, <2>4 DEF X
<1>3. ASSUME NEW x \in S, NEW y \in S, f[x] = f[y] PROVE x = y
  <2>1. Cardinality(Ahead(S, R, x)) = Cardinality(Ahead(S, R, y))
    BY <1>2, <1>3
  <2>2. << x, y >> \notin R /\ << y, x >> \notin R
    BY <1>2, <2>1, AheadGrows
  <2> QED BY <2>2 DEF Ordering
<1> HIDE DEF n
<1>4. f \in Injection(S, 1..n)
  <2>1. f \in [S -> 1..n]
    BY <1>2
  <2> HIDE DEF f
  <2> QED BY <1>3, <2>1 DEF Injection, IsInjective
<1>5. IsFiniteSet(1..n) /\ Cardinality(1..n) = n
  BY <1>1, FS_Interval
<1>6. f \in Surjection(S, 1..n)
  BY <1>4, <1>5, FS_Injection DEF n
<1>7. \A k \in 1..n : \E x \in S : f[x] = k
  BY <1>6 DEF Surjection
<1>8. ASSUME NEW k \in 1..n PROVE \E x \in S : Cardinality(Ahead(S, R, x)) = k - 1
  <2>1. PICK x \in S : f[x] = k
    BY <1>7
  <2>2. Cardinality(Ahead(S, R, x)) = k - 1
    BY <1>2, <2>1
  <2> QED BY <2>2
<1> QED BY <1>1, <1>2, <1>8 DEF n

\* InOrder lists each member of S once, earlier ones first.
LEMMA InOrderRanks ==
    ASSUME NEW S, IsFiniteSet(S), NEW R, Ordering(S, R)
    PROVE  LET o == InOrder(S, R)
               n == Cardinality(S)
           IN  /\ n \in Nat /\ o = [k \in 1..n |-> o[k]]
               /\ \A k \in 1..n : o[k] \in S /\ Cardinality(Ahead(S, R, o[k])) = k - 1
<1> DEFINE n == Cardinality(S)
           o == InOrder(S, R)
           Count(x) == Cardinality(Ahead(S, R, x))
<1>1. n \in Nat /\ \A k \in 1..n : \E x \in S : Count(x) = k - 1
  BY AheadOnto
<1>2. o = [k \in 1..n |-> CHOOSE x \in S : Count(x) = k - 1]
  BY DEF InOrder, Ahead
<1> HIDE DEF n, o, Count
<1>3. \A k \in 1..n : o[k] \in S /\ Count(o[k]) = k - 1
  BY <1>1, <1>2
<1> QED BY <1>1, <1>2, <1>3 DEF n, o, Count

LEMMA InOrderMeaning ==
    ASSUME NEW S, IsFiniteSet(S), NEW R, Ordering(S, R)
    PROVE  LET o == InOrder(S, R)
               n == Cardinality(S)
           IN  /\ n \in Nat /\ o \in [1..n -> S]
               /\ \A x \in S : \E k \in 1..n : o[k] = x
               /\ \A k, l \in 1..n : k < l => << o[k], o[l] >> \in R
<1> DEFINE n == Cardinality(S)
           o == InOrder(S, R)
           Count(x) == Cardinality(Ahead(S, R, x))
<1>1. n \in Nat /\ \A x \in S : Count(x) + 1 \in 1..n
  BY AheadOnto
<1>2. o = [k \in 1..n |-> o[k]] /\ \A k \in 1..n : o[k] \in S /\ Count(o[k]) = k - 1
  BY InOrderRanks
<1>3. \A x \in S : Count(x) \in Nat
  <2> SUFFICES ASSUME NEW x \in S PROVE Count(x) \in Nat
    OBVIOUS
  <2>1. Ahead(S, R, x) \subseteq S
    BY DEF Ahead
  <2> QED BY <2>1, FS_Subset, FS_CardinalityType
<1>4. \A x, y \in S : << x, y >> \in R => Count(x) < Count(y)
  BY AheadGrows
<1> HIDE DEF n, o
<1>5. o \in [1..n -> S]
  BY <1>2
<1>6. ASSUME NEW x \in S, NEW y \in S, Count(x) <= Count(y) PROVE x = y \/ << x, y >> \in R
  <2>1. ~ (Count(y) < Count(x))
    BY <1>3, <1>6
  <2> QED BY <1>4, <2>1 DEF Ordering
<1>7. ASSUME NEW x \in S PROVE \E k \in 1..n : o[k] = x
  <2> DEFINE k == Count(x) + 1
  <2>1. k \in 1..n /\ Count(x) = k - 1
    BY <1>1, <1>3
  <2> HIDE DEF k
  <2>2. o[k] \in S /\ Count(o[k]) = Count(x)
    BY <1>2, <2>1
  <2>3. ~ (Count(x) < Count(o[k])) /\ ~ (Count(o[k]) < Count(x))
    BY <1>3, <2>2
  <2>4. o[k] = x
    BY <1>4, <2>2, <2>3 DEF Ordering
  <2> QED BY <2>1, <2>4
<1>8. ASSUME NEW k \in 1..n, NEW l \in 1..n, k < l PROVE << o[k], o[l] >> \in R
  <2>1. o[k] \in S /\ o[l] \in S /\ Count(o[k]) = k - 1 /\ Count(o[l]) = l - 1
    BY <1>2
  <2>2. Count(o[k]) < Count(o[l])
    BY <1>8, <2>1, <1>1
  <2>3. Count(o[k]) <= Count(o[l]) /\ o[k] # o[l]
    BY <1>3, <2>1, <2>2
  <2> QED BY <1>6, <2>1, <2>3
<1> QED BY <1>1, <1>5, <1>7, <1>8 DEF n, o

\* Kept takes the elements at the places in S, in their order.
LEMMA KeptMeaning ==
    ASSUME NEW seq, NEW T, seq \in Seq(T), NEW S, S \subseteq DOMAIN seq
    PROVE  LET kept == Kept(seq, S)
               n == Cardinality(S)
           IN  /\ n \in Nat /\ kept \in Seq(T) /\ Len(kept) = n /\ DOMAIN kept = 1..n
               /\ \E o \in [1..n -> S] :
                     /\ kept = [k \in 1..n |-> seq[o[k]]]
                     /\ \A i \in S : \E k \in 1..n : o[k] = i
                     /\ \A k, l \in 1..n : k < l => o[k] < o[l]
<1> DEFINE n == Cardinality(S)
           R == {p \in S \X S : p[1] < p[2]}
           o == InOrder(S, R)
           kept == Kept(seq, S)
<1>1. IsFiniteSet(S) /\ S \subseteq Nat
  <2>1. DOMAIN seq = 1..Len(seq) /\ Len(seq) \in Nat
    OBVIOUS
  <2>2. IsFiniteSet(1..Len(seq))
    BY <2>1, FS_Interval
  <2> QED BY <2>1, <2>2, FS_Subset
<1>2. \A x, y \in S : << x, y >> \in R <=> x < y
  OBVIOUS
<1> HIDE DEF R
<1>3. Ordering(S, R)
  BY <1>1, <1>2 DEF Ordering
<1>4. /\ n \in Nat /\ o \in [1..n -> S]
      /\ \A i \in S : \E k \in 1..n : o[k] = i
      /\ \A k, l \in 1..n : k < l => << o[k], o[l] >> \in R
  BY <1>1, <1>3, InOrderMeaning
<1>5. kept = [k \in DOMAIN o |-> seq[o[k]]]
  BY DEF Kept, R
<1> HIDE DEF n, o, kept
<1>6. kept = [k \in 1..n |-> seq[o[k]]]
  BY <1>4, <1>5
<1>7. \A k \in 1..n : o[k] \in S /\ seq[o[k]] \in T
  BY <1>4
<1>8. kept \in [1..n -> T]
  BY <1>6, <1>7
<1>9. kept \in Seq(T) /\ DOMAIN kept = 1..n
  BY <1>4, <1>8, SeqDef
<1>10. Len(kept) = n
  BY <1>4, <1>9, LenProperties
<1>11. \A k, l \in 1..n : k < l => o[k] < o[l]
  BY <1>2, <1>4, <1>7
<1> QED BY <1>4, <1>6, <1>9, <1>10, <1>11 DEF n, o, kept

\* The element kept k-th has k - 1 places in S below its own.
Below(S, i) == {j \in S : j < i}

LEMMA KeptRanks ==
    ASSUME NEW seq, NEW T, seq \in Seq(T), NEW S, S \subseteq DOMAIN seq
    PROVE  /\ DOMAIN Kept(seq, S) = 1..Cardinality(S)
           /\ \A k \in 1..Cardinality(S) : \E i \in S :
                 Kept(seq, S)[k] = seq[i] /\ Cardinality(Below(S, i)) = k - 1
<1> DEFINE n == Cardinality(S)
           R == {p \in S \X S : p[1] < p[2]}
           o == InOrder(S, R)
           kept == Kept(seq, S)
<1>1. IsFiniteSet(S) /\ S \subseteq Nat
  <2>1. DOMAIN seq = 1..Len(seq) /\ Len(seq) \in Nat
    OBVIOUS
  <2>2. IsFiniteSet(1..Len(seq))
    BY <2>1, FS_Interval
  <2> QED BY <2>1, <2>2, FS_Subset
<1>2. \A x, y \in S : << x, y >> \in R <=> x < y
  OBVIOUS
<1>3. kept = [k \in DOMAIN o |-> seq[o[k]]]
  BY DEF Kept
<1> HIDE DEF R
<1>4. Ordering(S, R)
  BY <1>1, <1>2 DEF Ordering
<1>5. /\ o = [k \in 1..n |-> o[k]]
      /\ \A k \in 1..n : o[k] \in S /\ Cardinality(Ahead(S, R, o[k])) = k - 1
  BY <1>1, <1>4, InOrderRanks
<1>6. \A x \in S : Ahead(S, R, x) = Below(S, x)
  BY <1>2 DEF Ahead, Below
<1> HIDE DEF n, o, kept
<1>7. DOMAIN kept = 1..n /\ \A k \in 1..n : kept[k] = seq[o[k]]
  BY <1>3, <1>5
<1>8. \A k \in 1..n : o[k] \in S /\ kept[k] = seq[o[k]] /\ Cardinality(Below(S, o[k])) = k - 1
  BY <1>5, <1>6, <1>7
<1> QED BY <1>7, <1>8 DEF n, kept

\* What is kept is what was at those places.
LEMMA KeptOf ==
    ASSUME NEW seq, NEW T, seq \in Seq(T), NEW S, S \subseteq DOMAIN seq
    PROVE  /\ Kept(seq, S) \in Seq(T)
           /\ ToSet(Kept(seq, S)) = {seq[i] : i \in S}
           /\ Kept(seq, S) = << >> <=> S = {}
<1> DEFINE n == Cardinality(S)
           kept == Kept(seq, S)
<1>1. /\ n \in Nat /\ kept \in Seq(T) /\ Len(kept) = n /\ DOMAIN kept = 1..n
      /\ \E o \in [1..n -> S] : /\ kept = [k \in 1..n |-> seq[o[k]]]
                               /\ \A i \in S : \E k \in 1..n : o[k] = i
  BY KeptMeaning
<1> HIDE DEF n, kept
<1>2. PICK o \in [1..n -> S] : /\ kept = [k \in 1..n |-> seq[o[k]]]
                               /\ \A i \in S : \E k \in 1..n : o[k] = i
  BY <1>1
<1>3. ToSet(kept) = {kept[k] : k \in 1..n}
  BY <1>1 DEF ToSet
<1>4. \A k \in 1..n : kept[k] = seq[o[k]] /\ o[k] \in S
  BY <1>2
<1>5. ToSet(kept) = {seq[i] : i \in S}
  BY <1>2, <1>3, <1>4
<1>6. kept = << >> => S = {}
  <2> SUFFICES ASSUME kept = << >>, NEW i \in S PROVE FALSE
    OBVIOUS
  <2>1. PICK k \in 1..n : o[k] = i
    BY <1>2
  <2>2. DOMAIN kept = {}
    OBVIOUS
  <2> QED BY <1>1, <2>1, <2>2
<1>7. S = {} => kept = << >>
  <2> SUFFICES ASSUME S = {} PROVE kept = << >>
    OBVIOUS
  <2>1. n = 0
    BY FS_EmptySet DEF n
  <2> QED BY <1>1, <2>1, EmptySeq
<1> QED BY <1>1, <1>5, <1>6, <1>7 DEF kept

-----------------------------------------------------------------------------
\* The order of tags.

\* TupleLess orders the lists of numbers.
LEMMA TupleStrict ==
    ASSUME NEW a \in Seq(Nat)
    PROVE  ~ TupleLess(a, a)
<1> SUFFICES ASSUME NEW i \in DOMAIN a, i <= Len(a) => a[i] < a[i] PROVE FALSE
  BY DEF TupleLess
<1>1. i <= Len(a) /\ a[i] \in Nat
  OBVIOUS
<1> QED BY <1>1

LEMMA TupleChain ==
    ASSUME NEW a \in Seq(Nat), NEW b \in Seq(Nat), NEW c \in Seq(Nat),
           TupleLess(a, b), TupleLess(b, c)
    PROVE  TupleLess(a, c)
<1>1. PICK i \in DOMAIN b : /\ \A j \in 1..(i - 1) : j <= Len(a) /\ a[j] = b[j]
                            /\ i <= Len(a) => a[i] < b[i]
  BY DEF TupleLess
<1>2. PICK k \in DOMAIN c : /\ \A j \in 1..(k - 1) : j <= Len(b) /\ b[j] = c[j]
                            /\ k <= Len(b) => b[k] < c[k]
  BY DEF TupleLess
<1>3. /\ i \in Nat \ {0} /\ k \in Nat \ {0} /\ i <= Len(b) /\ k <= Len(c)
      /\ Len(a) \in Nat /\ Len(b) \in Nat /\ Len(c) \in Nat
  OBVIOUS
<1>4. ASSUME NEW j \in Nat \ {0}, j < i, j < k PROVE j <= Len(a) /\ a[j] = c[j]
  <2>1. j \in 1..(i - 1) /\ j \in 1..(k - 1)
    BY <1>3, <1>4
  <2>2. j <= Len(a) /\ a[j] = b[j] /\ b[j] = c[j]
    BY <1>1, <1>2, <2>1
  <2> QED BY <2>2
<1>5. CASE i < k
  <2>1. i \in DOMAIN c /\ i \in 1..(k - 1)
    BY <1>3, <1>5
  <2>2. b[i] = c[i]
    BY <1>2, <2>1
  <2>3. i <= Len(a) => a[i] < c[i]
    BY <1>1, <2>2
  <2>4. \A j \in 1..(i - 1) : j <= Len(a) /\ a[j] = c[j]
    <3> SUFFICES ASSUME NEW j \in 1..(i - 1) PROVE j <= Len(a) /\ a[j] = c[j]
      OBVIOUS
    <3>1. j \in Nat \ {0} /\ j < i /\ j < k
      BY SMTT(30), <1>3, <1>5
    <3> QED BY <1>4, <3>1
  <2> QED BY <2>1, <2>3, <2>4 DEF TupleLess
<1>6. CASE k < i
  <2>1. k \in 1..(i - 1) /\ k <= Len(b)
    BY <1>3, <1>6
  <2>2. a[k] = b[k] /\ b[k] < c[k]
    BY <1>1, <1>2, <2>1
  <2>3. \A j \in 1..(k - 1) : j <= Len(a) /\ a[j] = c[j]
    <3> SUFFICES ASSUME NEW j \in 1..(k - 1) PROVE j <= Len(a) /\ a[j] = c[j]
      OBVIOUS
    <3>1. j \in Nat \ {0} /\ j < i /\ j < k
      BY SMTT(30), <1>3, <1>6
    <3> QED BY <1>4, <3>1
  <2> QED BY <2>2, <2>3 DEF TupleLess
<1>7. CASE i = k
  <2>1. \A j \in 1..(k - 1) : j <= Len(a) /\ a[j] = c[j]
    BY SMTT(30), <1>3, <1>4, <1>7
  <2>2. k <= Len(a) => a[k] < c[k]
    <3> SUFFICES ASSUME k <= Len(a) PROVE a[k] < c[k]
      OBVIOUS
    <3>1. k <= Len(b)
      BY <1>3, <1>7
    <3>2. a[k] < b[k]
      BY <1>1, <1>7
    <3>3. b[k] < c[k]
      BY <1>2, <3>1
    <3>4. a[k] \in Nat /\ b[k] \in Nat /\ c[k] \in Nat
      BY SMTT(30), <1>3, <3>1
    <3> QED BY SMTT(30), <3>2, <3>3, <3>4
  <2> QED BY <2>1, <2>2 DEF TupleLess
<1> QED BY <1>3, <1>5, <1>6, <1>7

LEMMA TupleTotal ==
    ASSUME NEW STATE a, a \in Seq(Nat), NEW STATE b, b \in Seq(Nat), a # b
    PROVE  TupleLess(a, b) \/ TupleLess(b, a)
<1> DEFINE D == {i \in Nat \ {0} : i > Len(a) \/ i > Len(b) \/ a[i] # b[i]}
           m == Min(D)
<1>1. Len(a) \in Nat /\ Len(b) \in Nat
  OBVIOUS
<1>2. Len(a) + 1 \in D /\ D \subseteq Nat
  BY <1>1
<1>3. m \in D /\ \A y \in D : m <= y
  BY <1>2, LeastNatural
<1> HIDE DEF m
<1>4. m \in Nat \ {0} /\ (m > Len(a) \/ m > Len(b) \/ a[m] # b[m])
  BY <1>3
<1>5. \A j \in 1..(m - 1) : j <= Len(a) /\ j <= Len(b) /\ a[j] = b[j]
  <2> SUFFICES ASSUME NEW j \in 1..(m - 1) PROVE j \notin D
    BY <1>1, <1>4
  <2> QED BY <1>3, <1>4
<1> HIDE DEF D
<1>6. CASE m <= Len(a) /\ m <= Len(b)
  <2>1. a[m] \in Nat /\ b[m] \in Nat /\ a[m] # b[m] /\ m \in DOMAIN a /\ m \in DOMAIN b
    BY <1>1, <1>4, <1>6
  <2>2. a[m] < b[m] \/ b[m] < a[m]
    BY <2>1
  <2> QED BY <1>5, <2>1, <2>2 DEF TupleLess
<1>7. CASE m > Len(a) /\ m <= Len(b)
  <2>1. m \in DOMAIN b /\ ~ (m <= Len(a))
    BY <1>1, <1>4, <1>7
  <2> QED BY <1>5, <2>1 DEF TupleLess
<1>8. CASE m <= Len(a) /\ m > Len(b)
  <2>1. m \in DOMAIN a /\ ~ (m <= Len(b))
    BY <1>1, <1>4, <1>8
  <2> QED BY <1>5, <2>1 DEF TupleLess
<1>9. CASE m > Len(a) /\ m > Len(b)
  <2>1. m - 1 \in 1..(m - 1) \/ m = 1
    BY <1>4
  <2>2. Len(a) = m - 1 /\ Len(b) = m - 1
    BY <1>1, <1>4, <1>5, <1>9, <2>1
  <2>3. a = b
    BY <1>5, <2>2
  <2> QED BY <2>3
<1> QED BY <1>1, <1>4, <1>6, <1>7, <1>8, <1>9

\* v is what VersionOf says of a tag.
IsKey(v) == v.nums \in Seq(Nat) /\ v.suffix \in Nat

\* VersionKeyLess orders the versions but for those that are equal.
LEMMA KeysOrdered ==
    ASSUME NEW STATE v, IsKey(v), NEW STATE w, IsKey(w)
    PROVE  /\ ~ (VersionKeyLess(v, w) /\ VersionKeyLess(w, v))
           /\ ~ VersionKeyLess(v, w) /\ ~ VersionKeyLess(w, v) =>
                 v.nums = w.nums /\ v.suffix = w.suffix
<1> DEFINE a == v.nums
           b == w.nums
           x == v.suffix
           y == w.suffix
<1>1. a \in Seq(Nat) /\ b \in Seq(Nat) /\ x \in Nat /\ y \in Nat
  BY DEF IsKey
<1> DEFINE AB == TupleLess(a, b)
           BA == TupleLess(b, a)
<1>2. /\ VersionKeyLess(v, w) <=> AB \/ (a = b /\ x # 0 /\ (y = 0 \/ x < y))
      /\ VersionKeyLess(w, v) <=> BA \/ (b = a /\ y # 0 /\ (x = 0 \/ y < x))
  BY DEF VersionKeyLess
<1>3. a # b => AB \/ BA
  BY <1>1, TupleTotal
<1>4. ~ (AB /\ BA) /\ (a = b => ~ AB /\ ~ BA)
  BY <1>1, TupleStrict, TupleChain
<1> HIDE DEF a, b, x, y, AB, BA
<1>5. a = b => (x # 0 /\ (y = 0 \/ x < y)) \/ (y # 0 /\ (x = 0 \/ y < x)) \/ x = y
  BY <1>1
<1>6. ~ ((x # 0 /\ (y = 0 \/ x < y)) /\ (y # 0 /\ (x = 0 \/ y < x)))
  BY <1>1
<1>7. /\ ~ (VersionKeyLess(v, w) /\ VersionKeyLess(w, v))
      /\ ~ VersionKeyLess(v, w) /\ ~ VersionKeyLess(w, v) => a = b /\ x = y
  BY <1>2, <1>3, <1>4, <1>5, <1>6
<1> QED BY <1>7 DEF a, b, x, y

LEMMA KeysChain ==
    ASSUME NEW STATE u, IsKey(u), NEW STATE v, IsKey(v), NEW STATE w, IsKey(w),
           VersionKeyLess(u, v), VersionKeyLess(v, w)
    PROVE  VersionKeyLess(u, w)
<1> DEFINE a == u.nums
           b == v.nums
           c == w.nums
           x == u.suffix
           y == v.suffix
           z == w.suffix
<1>1. /\ a \in Seq(Nat) /\ b \in Seq(Nat) /\ c \in Seq(Nat)
      /\ x \in Nat /\ y \in Nat /\ z \in Nat
  BY DEF IsKey
<1> DEFINE AB == TupleLess(a, b)
           BC == TupleLess(b, c)
           AC == TupleLess(a, c)
<1>2. /\ AB \/ (a = b /\ x # 0 /\ (y = 0 \/ x < y))
      /\ BC \/ (b = c /\ y # 0 /\ (z = 0 \/ y < z))
      /\ VersionKeyLess(u, w) <=> AC \/ (a = c /\ x # 0 /\ (z = 0 \/ x < z))
  BY DEF VersionKeyLess
<1>3. (AB /\ BC => AC) /\ (a = b => (BC <=> AC)) /\ (b = c => (AB <=> AC))
  BY <1>1, TupleChain
<1> HIDE DEF a, b, c, x, y, z, AB, BC, AC
<1>4. x # 0 /\ (y = 0 \/ x < y) /\ y # 0 /\ (z = 0 \/ y < z) => z = 0 \/ x < z
  BY <1>1
<1>5. AC \/ (a = c /\ x # 0 /\ (z = 0 \/ x < z))
  BY <1>2, <1>3, <1>4
<1> QED BY <1>2, <1>5

\* The place of a version before that of another: it is greater, or listed first.
Sooner(versions, i, j) ==
    LET v == VersionOf[versions[i]]
        w == VersionOf[versions[j]]
    IN  VersionKeyLess(w, v) \/ (~VersionKeyLess(v, w) /\ i < j)

LEMMA SoonerOrders ==
    ASSUME NEW STATE versions, versions \in Seq(DOMAIN VersionOf)
    PROVE  LET S == DOMAIN versions
           IN  Ordering(S, {p \in S \X S : Sooner(versions, p[1], p[2])})
<1> DEFINE S == DOMAIN versions
           R == {p \in S \X S : Sooner(versions, p[1], p[2])}
           Key(i) == VersionOf[versions[i]]
           Less(i, j) == VersionKeyLess(Key(i), Key(j))
<1>1. S \subseteq Nat
  OBVIOUS
<1>2. \A i \in S : IsKey(Key(i))
  BY TagAssumption DEF IsKey
<1>3. ASSUME NEW i \in S, NEW j \in S
      PROVE  /\ ~ (Less(i, j) /\ Less(j, i))
             /\ ~ Less(i, j) /\ ~ Less(j, i) =>
                   Key(i).nums = Key(j).nums /\ Key(i).suffix = Key(j).suffix
  BY <1>2, KeysOrdered
<1>4. ASSUME NEW i \in S, NEW j \in S, NEW k \in S, Less(i, j), Less(j, k) PROVE Less(i, k)
  BY <1>2, <1>4, KeysChain
<1>5. ASSUME NEW i \in S, NEW j \in S, NEW k \in S, ~ Less(i, j), ~ Less(j, i)
      PROVE  (Less(i, k) <=> Less(j, k)) /\ (Less(k, i) <=> Less(k, j))
  <2>1. Key(i).nums = Key(j).nums /\ Key(i).suffix = Key(j).suffix
    BY <1>3, <1>5
  <2> HIDE DEF Key
  <2> QED BY <2>1 DEF VersionKeyLess
<1>6. \A i, j \in S : << i, j >> \in R <=> Less(j, i) \/ (~ Less(i, j) /\ i < j)
  BY DEF Sooner
<1> HIDE DEF S, R, Less
<1>7. \A i \in S : << i, i >> \notin R
  BY <1>1, <1>3, <1>6
<1>8. \A i, j \in S : i # j => << i, j >> \in R \/ << j, i >> \in R
  BY <1>1, <1>3, <1>6
<1>9. ASSUME NEW i \in S, NEW j \in S, NEW k \in S, << i, j >> \in R, << j, k >> \in R
      PROVE  << i, k >> \in R
  <2>1. Less(j, i) \/ (~ Less(i, j) /\ ~ Less(j, i) /\ i < j)
    BY <1>6, <1>9
  <2>2. Less(k, j) \/ (~ Less(j, k) /\ ~ Less(k, j) /\ j < k)
    BY <1>6, <1>9
  <2>3. Less(k, i) \/ (~ Less(i, k) /\ ~ Less(k, i) /\ i < k)
    <3>1. CASE Less(j, i) /\ Less(k, j)
      BY <1>4, <3>1
    <3>2. CASE Less(j, i) /\ ~ Less(j, k) /\ ~ Less(k, j)
      BY <1>5, <3>2
    <3>3. CASE ~ Less(i, j) /\ ~ Less(j, i) /\ Less(k, j)
      BY <1>5, <3>3
    <3>4. CASE ~ Less(i, j) /\ ~ Less(j, i) /\ i < j /\ ~ Less(j, k) /\ ~ Less(k, j) /\ j < k
      <4>1. ~ Less(i, k) /\ ~ Less(k, i)
        BY <1>5, <3>4
      <4>2. i \in Nat /\ j \in Nat /\ k \in Nat
        BY <1>1
      <4> QED BY <3>4, <4>1, <4>2
    <3> QED BY <2>1, <2>2, <3>1, <3>2, <3>3, <3>4
  <2> QED BY <1>6, <2>3
<1>10. Ordering(S, R)
  BY <1>7, <1>8, <1>9 DEF Ordering
<1> QED BY <1>10 DEF S, R

\* Lists put together, cut short and seen as lists of fewer things.
LEMMA Joined ==
    ASSUME NEW A, NEW s, s \in Seq(A), NEW t, t \in Seq(A)
    PROVE  /\ s \o t \in Seq(A) /\ ToSet(s \o t) = ToSet(s) \cup ToSet(t)
           /\ s # << >> => s \o t # << >> /\ (s \o t)[1] = s[1]
           /\ s = << >> => s \o t = t
<1>1. /\ s \o t \in Seq(A) /\ Len(s \o t) = Len(s) + Len(t)
      /\ Len(s) \in Nat /\ Len(t) \in Nat
      /\ \A i \in 1..Len(s) : (s \o t)[i] = s[i]
      /\ \A i \in 1..Len(t) : (s \o t)[Len(s) + i] = t[i]
  OBVIOUS
<1> DEFINE u == s \o t
<1>2. u \in Seq(A) /\ DOMAIN u = 1..(Len(s) + Len(t))
  BY <1>1
<1> HIDE DEF u
<1>3. ASSUME NEW k \in DOMAIN u PROVE u[k] \in ToSet(s) \cup ToSet(t)
  <2>1. CASE k \in 1..Len(s)
    BY <1>1, <2>1 DEF ToSet, u
  <2>2. CASE k - Len(s) \in 1..Len(t)
    <3>1. u[k] = t[k - Len(s)]
      BY <1>1, <1>2, <2>2 DEF u
    <3> QED BY <2>2, <3>1 DEF ToSet
  <2> QED BY <1>1, <1>2, <2>1, <2>2
<1>4. ASSUME NEW k \in DOMAIN s PROVE s[k] \in ToSet(u)
  <2>1. k \in 1..Len(s) /\ k \in DOMAIN u
    BY <1>1, <1>2
  <2> QED BY <1>1, <2>1 DEF ToSet, u
<1>5. ASSUME NEW k \in DOMAIN t PROVE t[k] \in ToSet(u)
  <2>1. k \in 1..Len(t) /\ Len(s) + k \in DOMAIN u
    BY <1>1, <1>2
  <2>2. u[Len(s) + k] = t[k]
    BY <1>1, <2>1 DEF u
  <2> QED BY <2>1, <2>2 DEF ToSet
<1>6. ToSet(u) = ToSet(s) \cup ToSet(t)
  BY <1>3, <1>4, <1>5 DEF ToSet
<1>7. s # << >> => 1 \in 1..Len(s)
  BY <1>1, EmptySeq
<1>8. s # << >> => u # << >> /\ u[1] = s[1]
  BY <1>1, <1>2, <1>7, EmptySeq DEF u
<1>9. s = << >> => u = t
  BY DEF u
<1> QED BY <1>2, <1>6, <1>8, <1>9 DEF u

LEMMA Narrowed ==
    ASSUME NEW A, NEW s, s \in Seq(A), NEW B, ToSet(s) \subseteq B
    PROVE  s \in Seq(B)
<1>1. Len(s) \in Nat /\ DOMAIN s = 1..Len(s)
  OBVIOUS
<1>2. \A i \in 1..Len(s) : s[i] \in B
  BY <1>1 DEF ToSet
<1>3. s \in [1..Len(s) -> B]
  BY <1>1, <1>2
<1> QED BY <1>1, <1>3, SeqDef

LEMMA Members ==
    ASSUME NEW A, NEW s, s \in Seq(A)
    PROVE  ToSet(s) \subseteq A
BY DEF ToSet

LEMMA CutShort ==
    ASSUME NEW A, NEW s, s \in Seq(A), NEW n \in Nat
    PROVE  /\ FirstOf(n, s) \in Seq(A) /\ ToSet(FirstOf(n, s)) \subseteq ToSet(s)
           /\ Len(FirstOf(n, s)) <= n
<1> DEFINE m == IF n < Len(s) THEN n ELSE Len(s)
           f == FirstOf(n, s)
<1>1. m \in 0..Len(s) /\ m <= n /\ Len(s) \in Nat
  OBVIOUS
<1>2. f = SubSeq(s, 1, m)
  BY DEF FirstOf
<1> HIDE DEF m, f
<1>3. /\ f \in Seq(A) /\ Len(f) = m
      /\ \A i \in 1..m : f[i] = s[i]
  BY <1>1, <1>2
<1>4. ToSet(f) \subseteq ToSet(s)
  BY <1>1, <1>3 DEF ToSet
<1> QED BY <1>1, <1>3, <1>4 DEF f

\* The tags in their order: latest, the versions, the others.
LEMMA SortedTags ==
    ASSUME NEW STATE tags, NEW STATE A, tags \in Seq(A)
    PROVE  \E latest, versions, named :
              /\ SortTags(tags) = latest \o versions \o named
              /\ latest \in Seq(ToSet(tags)) /\ ToSet(latest) = ToSet(tags) \cap {"latest"}
              /\ versions \in Seq(ToSet(tags)) /\ ToSet(versions) = ToSet(tags) \cap DOMAIN VersionOf
              /\ \A k \in DOMAIN versions :
                    k # 1 => ~ VersionKeyLess(VersionOf[versions[1]], VersionOf[versions[k]])
              /\ named \in Seq(ToSet(tags)) /\ ToSet(named) = ToSet(tags) \cap ToSet(NamedTags)
              /\ named # << >> => \E i \in DOMAIN NamedTags :
                    NamedTags[i] = named[1] /\ \A j \in 1..(i - 1) : NamedTags[j] \notin ToSet(tags)
<1> DEFINE L == {i \in DOMAIN tags : tags[i] = "latest"}
           V == {i \in DOMAIN tags : IsVersion(tags[i])}
           N == {i \in DOMAIN NamedTags : NamedTags[i] \in ToSet(tags)}
           latest == Kept(tags, L)
           some == Kept(tags, V)
           R == {p \in (DOMAIN some) \X (DOMAIN some) : Sooner(some, p[1], p[2])}
           order == InOrder(DOMAIN some, R)
           versions == [i \in DOMAIN order |-> some[order[i]]]
           named == Kept(NamedTags, N)
<1>1. SortTags(tags) = latest \o versions \o named
  BY DEF SortTags, Sooner
<1>2. tags \in Seq(ToSet(tags))
  BY Narrowed
<1>3. latest \in Seq(ToSet(tags)) /\ ToSet(latest) = ToSet(tags) \cap {"latest"}
  <2>1. ToSet(latest) = {tags[i] : i \in L} /\ latest \in Seq(ToSet(tags))
    BY <1>2, KeptOf
  <2>2. {tags[i] : i \in L} = ToSet(tags) \cap {"latest"}
    BY DEF ToSet
  <2> QED BY <2>1, <2>2
<1>4. some \in Seq(ToSet(tags)) /\ ToSet(some) = ToSet(tags) \cap DOMAIN VersionOf
  <2>1. ToSet(some) = {tags[i] : i \in V} /\ some \in Seq(ToSet(tags))
    BY <1>2, KeptOf
  <2>2. {tags[i] : i \in V} = ToSet(tags) \cap DOMAIN VersionOf
    BY DEF ToSet, IsVersion
  <2> QED BY <2>1, <2>2
<1>5. /\ named \in Seq(ToSet(tags)) /\ ToSet(named) = ToSet(tags) \cap ToSet(NamedTags)
      /\ named # << >> => \E i \in DOMAIN NamedTags :
            NamedTags[i] = named[1] /\ \A j \in 1..(i - 1) : NamedTags[j] \notin ToSet(tags)
  <2>1. NamedTags \in Seq(ToSet(NamedTags))
    BY TagAssumption
  <2>2. ToSet(named) = {NamedTags[i] : i \in N} /\ named \in Seq(ToSet(NamedTags))
    BY <2>1, KeptOf
  <2>3. {NamedTags[i] : i \in N} = ToSet(tags) \cap ToSet(NamedTags)
    BY DEF ToSet
  <2>4. named \in Seq(ToSet(tags))
    BY <2>2, <2>3, Narrowed
  <2>5. ASSUME named # << >>
        PROVE  \E i \in DOMAIN NamedTags :
                  NamedTags[i] = named[1] /\ \A j \in 1..(i - 1) : NamedTags[j] \notin ToSet(tags)
    <3> DEFINE n == Cardinality(N)
    <3>0. N \subseteq DOMAIN NamedTags
      OBVIOUS
    <3> HIDE DEF N
    <3>1. n \in Nat /\ Len(named) = n
      BY <2>1, <3>0, KeptMeaning
    <3>2. \E o \in [1..n -> N] : /\ named = [k \in 1..n |-> NamedTags[o[k]]]
                                 /\ \A i \in N : \E k \in 1..n : o[k] = i
                                 /\ \A k, l \in 1..n : k < l => o[k] < o[l]
      BY <2>1, <3>0, KeptMeaning
    <3> HIDE DEF n, named
    <3>3. PICK o \in [1..n -> N] : /\ named = [k \in 1..n |-> NamedTags[o[k]]]
                                   /\ \A i \in N : \E k \in 1..n : o[k] = i
                                   /\ \A k, l \in 1..n : k < l => o[k] < o[l]
      BY <3>2
    <3>4. 1 \in 1..n
      BY <2>5, <3>1, <2>4, EmptySeq
    <3>5. o[1] \in N /\ o[1] \in DOMAIN NamedTags /\ named[1] = NamedTags[o[1]]
      BY <3>0, <3>1, <3>3, <3>4
    <3>6. ASSUME NEW j \in 1..(o[1] - 1) PROVE NamedTags[j] \notin ToSet(tags)
      <4>1. DOMAIN NamedTags = 1..Len(NamedTags) /\ Len(NamedTags) \in Nat
        BY <2>1
      <4>2. o[1] \in Nat /\ j \in DOMAIN NamedTags /\ j < o[1]
        BY <3>5, <4>1
      <4>3. j \notin N
        <5> SUFFICES ASSUME j \in N PROVE FALSE
          OBVIOUS
        <5>1. PICK k \in 1..n : o[k] = j
          BY <3>3
        <5>2. 1 < k \/ k = 1
          BY <3>1
        <5> QED BY <3>3, <3>4, <4>2, <5>1, <5>2
      <4> QED BY <4>2, <4>3 DEF N
    <3> QED BY <3>5, <3>6
  <2> QED BY <2>2, <2>3, <2>4, <2>5
<1>6. /\ versions \in Seq(ToSet(tags)) /\ ToSet(versions) = ToSet(some)
      /\ \A k \in DOMAIN versions :
            k # 1 => ~ VersionKeyLess(VersionOf[versions[1]], VersionOf[versions[k]])
  <2> DEFINE S == DOMAIN some
             n == Cardinality(S)
  <2> HIDE DEF latest, named, some, L, V, N
  <2>1. some \in Seq(DOMAIN VersionOf)
    BY <1>4, Narrowed
  <2>2. Ordering(S, R)
    BY <2>1, SoonerOrders
  <2>3. S = 1..Len(some) /\ Len(some) \in Nat /\ IsFiniteSet(S)
    BY <2>1, FS_Interval
  <2>4. /\ n \in Nat /\ order \in [1..n -> S]
        /\ \A x \in S : \E k \in 1..n : order[k] = x
        /\ \A k, l \in 1..n : k < l => << order[k], order[l] >> \in R
    BY <2>2, <2>3, InOrderMeaning
  <2>5. \A i, j \in S : << i, j >> \in R => Sooner(some, i, j)
    OBVIOUS
  <2> HIDE DEF R, order, n, S
  <2>6. DOMAIN versions = 1..n /\ \A k \in 1..n : versions[k] = some[order[k]] /\ order[k] \in S
    BY <2>4
  <2>7. \A i \in S : some[i] \in ToSet(some)
    BY DEF ToSet, S
  <2>8. versions \in [1..n -> ToSet(some)]
    BY <2>4, <2>6, <2>7
  <2> HIDE DEF versions
  <2>9. versions \in Seq(ToSet(some))
    BY <2>4, <2>8, SeqDef
  <2>10. ToSet(versions) = ToSet(some)
    <3>1. ToSet(versions) = {versions[k] : k \in 1..n} /\ ToSet(some) = {some[i] : i \in S}
      BY <2>6 DEF ToSet, S
    <3>2. \A i \in S : \E k \in 1..n : versions[k] = some[i]
      BY <2>4, <2>6
    <3> QED BY <2>6, <3>1, <3>2
  <2>11. ASSUME NEW k \in DOMAIN versions, k # 1
         PROVE  ~ VersionKeyLess(VersionOf[versions[1]], VersionOf[versions[k]])
    <3>1. 1 \in 1..n /\ k \in 1..n /\ 1 < k
      BY <2>4, <2>6, <2>11
    <3>2. Sooner(some, order[1], order[k])
      BY <2>4, <2>5, <2>6, <3>1
    <3> DEFINE v == VersionOf[versions[1]]
               w == VersionOf[versions[k]]
    <3>3. VersionKeyLess(w, v) \/ ~ VersionKeyLess(v, w)
      BY <2>6, <3>1, <3>2 DEF Sooner
    <3>4. versions[1] \in DOMAIN VersionOf /\ versions[k] \in DOMAIN VersionOf
      BY <1>4, <2>6, <2>7, <3>1
    <3>5. IsKey(v) /\ IsKey(w)
      BY <3>4, TagAssumption DEF IsKey
    <3> QED BY <3>3, <3>5, KeysOrdered
  <2>12. versions \in Seq(ToSet(tags))
    BY <1>4, <2>9, <2>10, Narrowed
  <2> QED BY <2>10, <2>11, <2>12
<1> HIDE DEF latest, versions, named
<1> QED BY <1>1, <1>3, <1>4, <1>5, <1>6 DEF some

\* Tag is the one of from to open: latest, or a greatest version, or the first by name.
Newest(tag, from) ==
    LET versions == from \cap DOMAIN VersionOf
        Version(t) == VersionOf[t]
    IN  CASE "latest" \in from -> tag = "latest"
          [] "latest" \notin from /\ versions # {} ->
                /\ tag \in versions
                /\ \A t \in versions :
                      /\ Version(t).nums = Version(tag).nums /\ Version(t).suffix = 0
                            => Version(tag).suffix = 0
                      /\ \A i \in DOMAIN Version(t).nums \cap DOMAIN Version(tag).nums :
                            (\A j \in 1..(i - 1) : Version(t).nums[j] = Version(tag).nums[j])
                               => Version(t).nums[i] <= Version(tag).nums[i]
          [] OTHER -> \E i \in DOMAIN NamedTags :
                         NamedTags[i] = tag /\ \A j \in 1..(i - 1) : NamedTags[j] \notin from

\* What it means that version w is not greater than v.
LEMMA NotGreater ==
    ASSUME NEW STATE v, IsKey(v), NEW STATE w, IsKey(w), ~ VersionKeyLess(v, w)
    PROVE  /\ w.nums = v.nums /\ w.suffix = 0 => v.suffix = 0
           /\ \A i \in DOMAIN w.nums \cap DOMAIN v.nums :
                 (\A j \in 1..(i - 1) : w.nums[j] = v.nums[j]) => w.nums[i] <= v.nums[i]
<1>1. w.nums = v.nums /\ w.suffix = 0 => v.suffix = 0
  BY DEF VersionKeyLess
<1>2. ~ TupleLess(v.nums, w.nums)
  BY DEF VersionKeyLess
<1> DEFINE a == v.nums
           b == w.nums
<1>3. a \in Seq(Nat) /\ b \in Seq(Nat) /\ ~ TupleLess(a, b)
  BY <1>2 DEF IsKey
<1> HIDE DEF a, b
<1>4. ASSUME NEW i \in DOMAIN b \cap DOMAIN a, \A j \in 1..(i - 1) : b[j] = a[j]
      PROVE  b[i] <= a[i]
  <2>1. i \in DOMAIN b /\ a[i] \in Nat /\ b[i] \in Nat /\ i \in 1..Len(a) /\ Len(a) \in Nat
    BY <1>3
  <2>2. \A j \in 1..(i - 1) : j <= Len(a) /\ a[j] = b[j]
    BY <1>4, <2>1
  <2>3. ~ (a[i] < b[i])
    BY <1>3, <2>1, <2>2 DEF TupleLess
  <2> QED BY <2>1, <2>3
<1> QED BY <1>1, <1>4 DEF a, b

\* The first of the sorted tags is the one to open.
LEMMA FirstIsNewest ==
    ASSUME NEW STATE tags, NEW STATE A, tags \in Seq(A), SortTags(tags) # << >>
    PROVE  Newest(SortTags(tags)[1], ToSet(SortTags(tags)))
<1> DEFINE s == SortTags(tags)
           U == ToSet(s)
<1>1. PICK latest, versions, named :
        /\ s = latest \o versions \o named
        /\ latest \in Seq(ToSet(tags)) /\ ToSet(latest) = ToSet(tags) \cap {"latest"}
        /\ versions \in Seq(ToSet(tags)) /\ ToSet(versions) = ToSet(tags) \cap DOMAIN VersionOf
        /\ \A k \in DOMAIN versions :
              k # 1 => ~ VersionKeyLess(VersionOf[versions[1]], VersionOf[versions[k]])
        /\ named \in Seq(ToSet(tags)) /\ ToSet(named) = ToSet(tags) \cap ToSet(NamedTags)
        /\ named # << >> => \E i \in DOMAIN NamedTags :
              NamedTags[i] = named[1] /\ \A j \in 1..(i - 1) : NamedTags[j] \notin ToSet(tags)
  BY SortedTags
<1> DEFINE head == latest \o versions
<1>2. /\ head \in Seq(ToSet(tags)) /\ ToSet(head) = ToSet(latest) \cup ToSet(versions)
      /\ latest # << >> => head # << >> /\ head[1] = latest[1]
      /\ latest = << >> => head = versions
  <2>1. latest \in Seq(ToSet(tags)) /\ versions \in Seq(ToSet(tags))
    BY <1>1
  <2> QED BY <2>1, Joined
<1>3. s = head \o named /\ s # << >>
  BY <1>1
<1> HIDE DEF s, head
<1>4. /\ U = ToSet(head) \cup ToSet(named)
      /\ head # << >> => s[1] = head[1]
      /\ head = << >> => s = named
  BY SMTT(30), <1>1, <1>2, <1>3, Joined
<1> HIDE DEF U
<1>5. \A seq \in Seq(ToSet(tags)) : ToSet(seq) = {} <=> seq = << >>
  <2> SUFFICES ASSUME NEW seq \in Seq(ToSet(tags)) PROVE ToSet(seq) = {} <=> seq = << >>
    OBVIOUS
  <2>1. DOMAIN seq = {} => seq = << >>
    BY EmptySeq
  <2>2. seq = << >> => DOMAIN seq = {}
    OBVIOUS
  <2> QED BY <2>1, <2>2 DEF ToSet
<1>6. U \subseteq ToSet(tags)
  BY <1>1, <1>2, <1>4
<1>7. \A seq \in Seq(ToSet(tags)) : seq # << >> => 1 \in DOMAIN seq /\ seq[1] \in ToSet(seq)
  <2> SUFFICES ASSUME NEW seq \in Seq(ToSet(tags)), seq # << >>
               PROVE  1 \in DOMAIN seq /\ seq[1] \in ToSet(seq)
    OBVIOUS
  <2>1. 1 \in DOMAIN seq
    BY EmptySeq
  <2> QED BY <2>1 DEF ToSet
<1>8. CASE "latest" \in U
  <2>1. "latest" \in ToSet(latest)
    BY <1>1, <1>6, <1>8
  <2>2. latest # << >>
    BY <1>1, <1>5, <2>1
  <2>3. s[1] = "latest"
    BY <1>1, <1>2, <1>4, <1>7, <2>2
  <2> QED BY <1>8, <2>3 DEF Newest, s, U
<1>9. CASE "latest" \notin U /\ U \cap DOMAIN VersionOf # {}
  <2> DEFINE tag == s[1]
             vs == U \cap DOMAIN VersionOf
  <2>1. latest = << >> /\ head = versions
    BY <1>1, <1>2, <1>4, <1>5, <1>9
  <2>2. ToSet(versions) # {} /\ vs \subseteq ToSet(versions)
    BY <1>1, <1>6, <1>9
  <2>3. versions # << >> /\ tag = versions[1]
    BY <1>1, <1>4, <1>5, <2>1, <2>2
  <2>4. tag \in vs
    BY <1>1, <1>2, <1>4, <1>7, <2>1, <2>3
  <2>5. ASSUME NEW t \in vs
        PROVE  /\ VersionOf[t].nums = VersionOf[tag].nums /\ VersionOf[t].suffix = 0
                     => VersionOf[tag].suffix = 0
               /\ \A i \in DOMAIN VersionOf[t].nums \cap DOMAIN VersionOf[tag].nums :
                     (\A j \in 1..(i - 1) : VersionOf[t].nums[j] = VersionOf[tag].nums[j])
                        => VersionOf[t].nums[i] <= VersionOf[tag].nums[i]
    <3> DEFINE v == VersionOf[tag]
               w == VersionOf[t]
    <3>1. IsKey(v) /\ IsKey(w)
      BY <2>4, TagAssumption DEF IsKey
    <3>2. PICK k \in DOMAIN versions : versions[k] = t
      BY <2>2 DEF ToSet
    <3>3. ~ VersionKeyLess(v, w)
      <4>1. CASE k = 1
        BY <2>3, <3>1, <3>2, <4>1, KeysOrdered
      <4>2. CASE k # 1
        BY <1>1, <2>3, <3>2, <4>2
      <4> QED BY <4>1, <4>2
    <3> HIDE DEF v, w
    <3>4. /\ w.nums = v.nums /\ w.suffix = 0 => v.suffix = 0
          /\ \A i \in DOMAIN w.nums \cap DOMAIN v.nums :
                (\A j \in 1..(i - 1) : w.nums[j] = v.nums[j]) => w.nums[i] <= v.nums[i]
      BY <3>1, <3>3, NotGreater
    <3> QED BY <3>4 DEF v, w
  <2> HIDE DEF tag
  <2>6. Newest(tag, U)
    BY <1>9, <2>4, <2>5 DEF Newest
  <2> QED BY <2>6 DEF tag, s, U
<1>10. CASE "latest" \notin U /\ U \cap DOMAIN VersionOf = {}
  <2>1. ToSet(head) \subseteq U
    BY <1>4
  <2>2. ToSet(latest) = {} /\ ToSet(versions) = {}
    BY <1>1, <1>2, <1>10, <2>1
  <2>3. head = << >> /\ s = named /\ named # << >>
    BY <1>1, <1>2, <1>3, <1>4, <1>5, <2>2
  <2>4. \E i \in DOMAIN NamedTags :
           NamedTags[i] = s[1] /\ \A j \in 1..(i - 1) : NamedTags[j] \notin U
    BY <1>1, <1>6, <2>3
  <2>5. Newest(s[1], U)
    BY <1>10, <2>4 DEF Newest
  <2> QED BY <2>5 DEF s, U
<1> QED BY <1>8, <1>9, <1>10

-----------------------------------------------------------------------------
\* The tags of a repository.

\* What is fetched are tags of the repository, the one to open first.
LEMMA FetchedTags ==
    ASSUME world \in Worlds, NEW STATE repo, repo \in Real \cup {""}, NEW STATE q
    PROVE  LET tags == FetchTags(repo, q) IN
           /\ tags \in Seq(ToSet(tags))
           /\ \A t \in ToSet(tags) : IsTag(repo, t)
           /\ tags # << >> => Newest(tags[1], ToSet(tags))
<1> DEFINE listed == world.listing[repo]
           S == {i \in DOMAIN listed : Has(repo, now[repo][listed[i]]) /\ Matches(listed[i], q)}
           kept == Kept(listed, S)
           read == FirstOf(TagCap, kept)
           tags == FetchTags(repo, q)
<1>1. tags = SortTags(read)
  BY DEF FetchTags
<1>2. listed \in Seq(ToSet(listed)) /\ ToSet(listed) \subseteq DOMAIN world.tag[repo]
      /\ repo \in DOMAIN world.tag
  BY WorldsAssumption DEF Real
<1>3. kept \in Seq(ToSet(listed)) /\ ToSet(kept) = {listed[i] : i \in S}
  <2>1. S \subseteq DOMAIN listed
    OBVIOUS
  <2> HIDE DEF S, listed
  <2> QED BY ZenonT(60), <1>2, <2>1, KeptOf
<1>4. read \in Seq(ToSet(listed)) /\ ToSet(read) \subseteq ToSet(kept)
  <2> HIDE DEF kept, listed
  <2> QED BY <1>3, CutShort, PageAssumption
<1>5. \A t \in ToSet(read) : IsTag(repo, t)
  <2>1. \A t \in ToSet(read) : t \in ToSet(listed)
    BY <1>3, <1>4 DEF ToSet
  <2> HIDE DEF listed, read
  <2> QED BY <1>2, <2>1 DEF IsTag
<1> HIDE DEF read, listed, tags
<1>6. PICK latest, versions, named :
        /\ SortTags(read) = latest \o versions \o named
        /\ latest \in Seq(ToSet(read)) /\ versions \in Seq(ToSet(read)) /\ named \in Seq(ToSet(read))
  BY <1>4, SortedTags
<1>7. latest \o versions \in Seq(ToSet(read))
  BY <1>6, Joined
<1> DEFINE head == latest \o versions
<1>8. tags \in Seq(ToSet(read))
  <2>1. head \in Seq(ToSet(read)) /\ named \in Seq(ToSet(read)) /\ tags = head \o named
    BY <1>1, <1>6, <1>7
  <2> HIDE DEF head
  <2> QED BY <2>1, Joined
<1>9. ToSet(tags) \subseteq ToSet(read)
  BY <1>8, Members
<1>10. tags \in Seq(ToSet(tags))
  BY <1>8, Narrowed
<1>11. tags # << >> => Newest(tags[1], ToSet(tags))
  BY <1>1, <1>4, FirstIsNewest
<1> QED BY <1>5, <1>9, <1>10, <1>11 DEF tags

\* AutoTagNewest, of one panel.
Chosen(p) == p.autoFrom # {} => Newest(p.asked, p.autoFrom)

LEMMA BornChosen ==
    ASSUME world \in Worlds, NEW STATE p, Born(p)
    PROVE  Chosen(p)
<1>1. ASSUME NEW repo, Hint(p, repo) \/ Shadow(p, repo) PROVE Chosen(p)
  <2>1. \E kind, ref, asked, down : p = BlankPanel(kind, repo, ref, asked, down)
    BY <1>1 DEF Hint, Shadow
  <2>2. p.autoFrom = {}
    BY <2>1, BlankFields
  <2> QED BY <2>2 DEF Chosen
<1>2. ASSUME NEW repo \in Real, Fetched(p, repo) PROVE Chosen(p)
  <2>1. PICK ref, platform, down : p = ManifestPanel(repo, ref, platform, down)
    BY <1>2 DEF Fetched
  <2>2. p.autoFrom = {}
    BY <2>1, ManifestPanelIs
  <2> QED BY <2>2 DEF Chosen
<1>3. ASSUME NEW repo \in Real, Picked(p, repo) PROVE Chosen(p)
  <2>1. PICK q, down : /\ FetchTags(repo, q) # << >>
                       /\ p = AutoPanel(FetchTags(repo, q),
                                        ManifestPanel(repo, FetchTags(repo, q)[1], Nothing, down))
    BY <1>3 DEF Picked
  <2> DEFINE tags == FetchTags(repo, q)
             m == ManifestPanel(repo, tags[1], Nothing, down)
  <2>2. Whole(m) /\ m.asked = tags[1]
    BY ManifestPanelIs
  <2> HIDE DEF m
  <2>3. p.asked = tags[1] /\ p.autoFrom = ToSet(tags)
    BY <2>1, <2>2, AutoPanelFields DEF m
  <2>4. Newest(tags[1], ToSet(tags))
    BY <2>1, FetchedTags
  <2> QED BY <2>3, <2>4 DEF Chosen
<1>5. ASSUME NEW repo \in Real, Torn(p, repo) PROVE Chosen(p)
  <2>1. p.autoFrom = {}
    BY <1>5, TornFields
  <2> QED BY <2>1 DEF Chosen
<1> QED BY <1>1, <1>2, <1>3, <1>5 DEF Born

-----------------------------------------------------------------------------
\* The columns, the filter box and the panel agree.

\* A panel without a manifest shows nothing of one.
Formed(p) ==
    /\ p.kind \in {"hint", "shown", "error", "broken"}
    /\ p.kind = "shown" => p.u # Nothing
    /\ p.kind # "shown" => Bare(p)

\* All of a request's fields.
RequestWhole(r) ==
    {"kind", "repo", "ref", "q", "limit", "push", "attached", "answer"} \subseteq DOMAIN r

\* Column c lists tags of its repository, and offers more only below a list.
ListsTags(c) ==
    /\ \A t \in ToSet(c.names) : IsTag(c.repo, t)
    /\ c.more => c.state = "list"

\* Answer a to request r brings the list, the panel that r asked for.
BringsList(r, a) ==
    a.tagCol # Nothing /\ a.tagCol[1].repo = r.repo /\ a.tagCol[1].filter = r.q /\ ListsTags(a.tagCol[1])
BringsPanel(r, a) ==
    a.panel # Nothing /\ a.panel[1].repo = r.repo /\ (a.ok => a.panel[1].kind # "broken")

\* What an answer to each kind of request swaps in, and what it leaves alone.
Tells(r, a) ==
    /\ r.kind = "repos" => a.tagCol = Nothing /\ a.filterBox = Nothing /\ a.panel = Nothing
    /\ r.kind = "manifest" => a.tagCol = Nothing /\ a.filterBox = Nothing /\ BringsPanel(r, a)
    /\ r.kind \in {"filter", "more"} =>
          a.ok /\ a.filterBox = Nothing /\ a.panel = Nothing /\ BringsList(r, a)
    /\ r.kind = "tags" =>
          a.filterBox = Just([repo |-> r.repo, text |-> r.q]) /\ BringsPanel(r, a) /\ BringsList(r, a)

\* A request that will swap the tag list was sent from the list still there.
RequestTells(r) ==
    /\ RequestWhole(r)
    /\ r.kind \in {"filter", "more"} /\ r.attached => r.repo = tagCol.repo /\ tagCol.state = "list"
    /\ r.kind # "delete" /\ r.answer # Nothing => Tells(r, r.answer[1])

Listing ==
    /\ DOMAIN filterBox = {"repo", "text"}
    /\ tagCol.state # "none" => tagCol.repo = filterBox.repo
    /\ ListsTags(tagCol)
    /\ \A r \in pending : RequestTells(r)

Fragments == {r \in pending : r.kind # "delete"}

\* A page that a handler failed to render offers nothing to click.
Idle ==
    panel.kind = "broken" =>
        /\ Fragments = {} /\ tagCol = NoTags /\ filterBox = NoFilter
        /\ repoCol.names = << >> /\ ~ repoCol.more

\* While requests have not overlapped, one at most is in flight, sent from the
\* document as it is.
Calm ==
    ~ overlapped =>
        /\ \A q, r \in Fragments : q = r
        /\ \A r \in Fragments :
              /\ r.attached
              /\ r.kind = "manifest" => r.repo = tagCol.repo
              /\ r.kind = "filter" => r.q = filterBox.text
              /\ r.kind = "more" => r.q = tagCol.filter
        /\ panel.kind # "broken" => tagCol.repo = panel.repo
        /\ tagCol.state = "list" /\ (\A r \in Fragments : r.kind # "filter") =>
              tagCol.filter = filterBox.text

ColumnsInv == PanelInv /\ (\A p \in Panels : Formed(p) /\ Chosen(p)) /\ Listing /\ Idle /\ Calm

LEMMA BornFormed ==
    ASSUME NEW STATE p, Born(p)
    PROVE  Formed(p)
<1>1. ASSUME NEW repo, Hint(p, repo) \/ Shadow(p, repo) PROVE Formed(p)
  <2>1. ASSUME NEW STATE kind, kind \in {"hint", "error"}, NEW STATE ref, NEW STATE asked,
               NEW STATE down, p = BlankPanel(kind, repo, ref, asked, down)
        PROVE  Formed(p)
    <3>1. p.kind = kind /\ Bare(p)
      BY <2>1, BlankFields
    <3> QED BY <2>1, <3>1 DEF Formed
  <2> QED BY <1>1, <2>1 DEF Hint, Shadow
<1>2. ASSUME NEW STATE m, NEW STATE got, Outcome(m, got) PROVE Formed(m)
  <2>1. Just(got.u) # Nothing
    BY Options
  <2> QED BY <1>2, <2>1 DEF Outcome, Formed
<1>3. ASSUME NEW repo \in Real, Fetched(p, repo) PROVE Formed(p)
  <2>1. PICK ref, platform, down : p = ManifestPanel(repo, ref, platform, down)
    BY <1>3 DEF Fetched
  <2> DEFINE got == FetchManifest(repo, IF platform = Nothing THEN ref ELSE platform[1], down,
                                  "manifest", "config")
  <2>2. Outcome(p, got)
    BY <2>1, ManifestPanelIs
  <2> HIDE DEF got
  <2> QED BY <1>2, <2>2
<1>4. ASSUME NEW repo \in Real, Picked(p, repo) PROVE Formed(p)
  <2>1. PICK q, down : p = AutoPanel(FetchTags(repo, q),
                                     ManifestPanel(repo, FetchTags(repo, q)[1], Nothing, down))
    BY <1>4 DEF Picked
  <2> DEFINE tags == FetchTags(repo, q)
             m == ManifestPanel(repo, tags[1], Nothing, down)
             got == FetchManifest(repo, tags[1], down, "manifest", "config")
  <2>2. Whole(m) /\ Outcome(m, got)
    BY ManifestPanelIs
  <2> HIDE DEF m, got
  <2>3. Formed(m)
    BY <1>2, <2>2
  <2>4. /\ p.kind = (IF m.kind = "error" THEN "hint" ELSE m.kind)
        /\ p.u = m.u /\ p.layers = m.layers /\ p.annotations = m.annotations
        /\ p.source = m.source /\ p.referrers = m.referrers
    BY <2>1, <2>2, AutoPanelFields DEF m
  <2> QED BY <2>3, <2>4 DEF Formed, Bare
<1>5. ASSUME NEW repo \in Real, Torn(p, repo) PROVE Formed(p)
  <2>1. p.kind = "broken" /\ Bare(p)
    BY <1>5, TornFields
  <2> QED BY <2>1 DEF Formed
<1> QED BY <1>1, <1>3, <1>4, <1>5 DEF Born

\* A column made of tags that were fetched.
LEMMA ListedColumn ==
    ASSUME NEW STATE repo, NEW STATE state, NEW STATE all, all \in Seq(ToSet(all)),
           \A t \in ToSet(all) : IsTag(repo, t), state = "list" \/ all = << >>,
           NEW STATE q, NEW STATE limit, limit \in Nat
    PROVE  LET c == TagColumn(repo, state, all, q, limit) IN
           /\ c.repo = repo /\ c.state = state /\ c.filter = q /\ ListsTags(c)
<1> DEFINE c == TagColumn(repo, state, all, q, limit)
           names == FirstOf(limit, all)
           more == limit < Len(all)
<1>1. c.repo = repo /\ c.state = state /\ c.filter = q /\ c.names = names /\ c.more = more
  BY DEF TagColumn
<1> HIDE DEF c
<1>2. ToSet(names) \subseteq ToSet(all)
  BY CutShort
<1>3. more => state = "list"
  <2>1. all = << >> => ~ more
    OBVIOUS
  <2> QED BY <2>1
<1> HIDE DEF names, more
<1>4. ListsTags(c)
  BY <1>1, <1>2, <1>3 DEF ListsTags
<1> QED BY <1>1, <1>4 DEF c

\* A Boolean field of an answer is as it was set.
LEMMA ListTells ==
    ASSUME NEW STATE column, NEW STATE push
    PROVE  LET a == [NoSwap EXCEPT !.tagCol = Just(column), !.push = push] IN
           /\ {"ok", "panel", "push", "tagCol", "filterBox"} \subseteq DOMAIN a
           /\ a.tagCol = Just(column) /\ a.filterBox = Nothing /\ a.panel = Nothing /\ a.ok
BY Zenon DEF NoSwap

LEMMA PickedTells ==
    ASSUME NEW STATE r, NEW STATE list, NEW STATE p, NEW STATE push,
           {"ok", "panel", "push", "tagCol", "filterBox"} \subseteq DOMAIN list
    PROVE  LET a == PickedRepo(r, list, p, push) IN
           /\ a.tagCol = list.tagCol /\ a.filterBox = Just([repo |-> r.repo, text |-> r.q])
           /\ a.panel = Just(p) /\ a.ok = (p.kind # "broken")
BY Zenon DEF PickedRepo

LEMMA TagsTell ==
    ASSUME world \in Worlds, NEW STATE r, r.repo \in Real, NEW STATE state, NEW STATE tags,
           NEW STATE down, r.kind \in {"tags", "filter", "more"},
           Sent(r.kind, r.repo, r.ref, r.limit, r.push),
           (state = "list" /\ tags = FetchTags(r.repo, r.q)) \/ (state = "error" /\ tags = << >>)
    PROVE  Tells(r, TagsAnswer(r, state, tags, down))
<1> DEFINE column == TagColumn(r.repo, state, tags, r.q, r.limit)
           list == [NoSwap EXCEPT !.tagCol = Just(column), !.push = r.push]
           hint == BlankPanel("hint", r.repo, "", "", down)
           m == ManifestPanel(r.repo, tags[1], Nothing, down)
           auto == AutoPanel(tags, m)
           first == Just(ManifestURL(r.repo, tags[1]))
           a == TagsAnswer(r, state, tags, down)
<1>1. a = IF r.kind = "filter" \/ r.limit > PAGE THEN list
          ELSE IF tags = << >> THEN PickedRepo(r, list, hint, r.push)
          ELSE PickedRepo(r, list, auto, first)
  BY DEF TagsAnswer
<1>2. /\ {"ok", "panel", "push", "tagCol", "filterBox"} \subseteq DOMAIN list
      /\ list.tagCol = Just(column) /\ list.filterBox = Nothing /\ list.panel = Nothing /\ list.ok
  BY ListTells
<1>3. /\ r.limit \in Nat /\ PAGE \in Nat
      /\ r.kind = "more" => r.limit > PAGE
      /\ r.kind = "tags" => ~ (r.limit > PAGE)
  BY PageAssumption DEF Sent, LimitOK
<1>4. tags \in Seq(ToSet(tags)) /\ \A t \in ToSet(tags) : IsTag(r.repo, t)
  <2>1. CASE tags = << >>
    BY <2>1 DEF ToSet
  <2>2. CASE tags = FetchTags(r.repo, r.q)
    BY <2>2, FetchedTags
  <2> QED BY <2>1, <2>2
<1>5. column.repo = r.repo /\ column.filter = r.q /\ ListsTags(column)
  BY <1>3, <1>4, ListedColumn
<1>6. hint.repo = r.repo
  BY DEF BlankPanel
<1>7. auto.repo = r.repo
  <2>1. Whole(m) /\ m.repo = r.repo
    BY ManifestPanelIs
  <2> HIDE DEF m
  <2> QED BY <2>1, AutoPanelFields
<1>8. Just(column)[1] = column /\ Just(column) # Nothing
  BY Options
<1> HIDE DEF list, column, hint, auto, first, a
<1>9. CASE r.kind \in {"filter", "more"}
  <2>1. a = list
    BY <1>1, <1>3, <1>9
  <2> QED BY <1>2, <1>5, <1>8, <1>9, <2>1 DEF Tells, BringsList, a
<1>10. CASE r.kind = "tags"
  <2>1. PICK p, push : p \in {hint, auto} /\ a = PickedRepo(r, list, p, push)
    BY <1>1, <1>3, <1>10
  <2>2. /\ a.tagCol = Just(column) /\ a.filterBox = Just([repo |-> r.repo, text |-> r.q])
        /\ a.panel = Just(p) /\ a.ok = (p.kind # "broken") /\ p.repo = r.repo
    BY <1>2, <1>6, <1>7, <2>1, PickedTells
  <2>3. Just(p)[1] = p /\ Just(p) # Nothing
    BY Options
  <2> QED BY <1>5, <1>8, <1>10, <2>2, <2>3 DEF Tells, BringsList, BringsPanel, a
<1> QED BY <1>9, <1>10

LEMMA AnswerTells ==
    ASSUME world \in Worlds, NEW STATE r, NEW STATE down, r.kind # "repos" => r.repo \in Real,
           r.kind # "delete", Sent(r.kind, r.repo, r.ref, r.limit, r.push)
    PROVE  Tells(r, Answer(r, down))
<1>1. CASE r.kind = "repos"
  <2>1. PICK column : Answer(r, down) = [NoSwap EXCEPT !.repoCol = column]
    BY <1>1 DEF Answer, ReposFragment
  <2> DEFINE a == [NoSwap EXCEPT !.repoCol = column]
  <2>2. a.panel = Nothing /\ a.tagCol = Nothing /\ a.filterBox = Nothing
    BY DEF NoSwap
  <2> HIDE DEF a
  <2>3. Tells(r, a)
    BY <1>1, <2>2 DEF Tells
  <2> QED BY <2>1, <2>3 DEF a
<1>2. CASE r.kind \in {"tags", "filter", "more"}
  <2>1. \/ Answer(r, down) = TagsAnswer(r, "error", << >>, down)
        \/ Answer(r, down) = TagsAnswer(r, "list", FetchTags(r.repo, r.q), down)
    BY <1>2 DEF Answer, TagsFragment
  <2>2. Tells(r, TagsAnswer(r, "error", << >>, down))
    BY <1>2, TagsTell
  <2>3. Tells(r, TagsAnswer(r, "list", FetchTags(r.repo, r.q), down))
    BY <1>2, TagsTell
  <2> QED BY <2>1, <2>2, <2>3
<1>3. CASE r.kind = "manifest"
  <2> DEFINE p == ManifestPanel(r.repo, r.ref, Nothing, down)
             a == PanelAnswer(r, p)
  <2>1. Answer(r, down) = a
    BY <1>3 DEF Answer, ManifestFragment
  <2>2. p.repo = r.repo
    BY ManifestPanelIs
  <2> HIDE DEF p
  <2>3. a.panel = Just(p) /\ a.tagCol = Nothing /\ a.filterBox = Nothing /\ a.ok = (p.kind # "broken")
    BY DEF PanelAnswer, NoSwap
  <2>4. Just(p)[1] = p /\ Just(p) # Nothing
    BY Options
  <2> HIDE DEF a
  <2>5. Tells(r, a)
    BY <1>3, <2>2, <2>3, <2>4 DEF Tells, BringsPanel
  <2> QED BY <2>1, <2>5
<1> QED BY <1>1, <1>2, <1>3 DEF Sent

\* A request as it is sent, and as it goes on.
LEMMA SentFields ==
    ASSUME NEW STATE kind, NEW STATE repo, NEW STATE ref
    PROVE  LET r == Request(kind, repo, ref) IN
           RequestWhole(r) /\ r.kind = kind /\ r.repo = repo /\ r.attached /\ r.answer = Nothing
<1> DEFINE r == Request(kind, repo, ref)
<1>1. /\ RequestWhole(r) /\ r.kind = kind /\ r.repo = repo /\ r.attached = TRUE
      /\ r.answer = Nothing
  BY Zenon DEF Request, RequestWhole
<1> QED BY <1>1

LEMMA DetachedWhole ==
    ASSUME NEW STATE r, NEW STATE yes, RequestWhole(r)
    PROVE  LET d == [r EXCEPT !.attached = yes] IN
           /\ RequestWhole(d) /\ d.kind = r.kind /\ d.repo = r.repo /\ d.q = r.q
           /\ d.limit = r.limit /\ d.push = r.push /\ d.answer = r.answer /\ d.attached = yes
BY Zenon DEF RequestWhole

LEMMA AnsweredWhole ==
    ASSUME NEW STATE r, NEW STATE a, RequestWhole(r)
    PROVE  LET d == [r EXCEPT !.answer = a] IN
           /\ RequestWhole(d) /\ d.kind = r.kind /\ d.repo = r.repo /\ d.q = r.q
           /\ d.limit = r.limit /\ d.push = r.push /\ d.answer = a /\ d.attached = r.attached
BY Zenon DEF RequestWhole

\* What a step must keep besides PanelInv and what holds of every panel.
Agree == Listing /\ Idle /\ Calm

\* What holds of a request goes on holding while the tag column stays.
LEMMA StillTells ==
    ASSUME UNCHANGED << world, tagCol >>, NEW q, RequestTells(q)
    PROVE  RequestTells(q)'
<1>1. \A c : ListsTags(c)' = ListsTags(c)
  BY DEF ListsTags, IsTag
<1>2. \A a : Tells(q, a)' = Tells(q, a)
  BY <1>1 DEF Tells, BringsList, BringsPanel
<1> QED BY <1>2 DEF RequestTells, RequestWhole

\* Steps by which nothing the columns say changes but who typed what.
LEMMA AgreeStill ==
    ASSUME Agree, UNCHANGED << world, panel, repoCol, tagCol, filterBox, overlapped >>,
           Fragments' = Fragments,
           \A q \in pending' : q \in pending \/ (q.kind = "delete" /\ RequestWhole(q))
    PROVE  Agree'
<1>1. \A q \in pending' : RequestTells(q)
  BY DEF Agree, Listing, RequestTells
<1>2. \A q \in pending' : RequestTells(q)'
  BY <1>1, StillTells
<1>3. Listing'
  BY <1>2 DEF Agree, Listing, ListsTags, IsTag
<1>4. Idle' /\ Calm'
  BY DEF Agree, Idle, Calm
<1> QED BY <1>3, <1>4 DEF Agree

\* A request is sent, from the document as it is.
LEMMA AgreeSend ==
    ASSUME Agree, UNCHANGED << world, panel, repoCol, tagCol >>,
           NEW r, RequestWhole(r), r.attached, r.answer = Nothing,
           r.kind # "delete" => panel.kind # "broken",
           r.kind \in {"filter", "more"} => r.repo = tagCol.repo /\ tagCol.state = "list",
           ~ overlapped /\ r.kind = "manifest" => r.repo = tagCol.repo,
           r.kind = "filter" => r.q = filterBox'.text,
           r.kind = "more" => r.q = tagCol.filter,
           DOMAIN filterBox' = {"repo", "text"}, filterBox'.repo = filterBox.repo,
           filterBox' = filterBox \/ r.kind = "filter",
           pending' = pending \cup {r},
           overlapped' = (overlapped \/ \E q \in pending : q.kind # "delete")
    PROVE  Agree'
<1>1. \A q \in pending' : RequestTells(q)
  BY DEF Agree, Listing, RequestTells
<1>2. \A q \in pending' : RequestTells(q)'
  BY <1>1, StillTells
<1>3. Listing'
  BY <1>2 DEF Agree, Listing, ListsTags, IsTag
<1>4. Fragments' = Fragments \cup (IF r.kind = "delete" THEN {} ELSE {r})
  BY DEF Fragments
<1>5. Idle'
  <2> SUFFICES ASSUME panel.kind = "broken"
               PROVE  /\ Fragments' = {} /\ tagCol = NoTags /\ filterBox' = NoFilter
                      /\ repoCol.names = << >> /\ ~ repoCol.more
    BY DEF Idle, NoTags, NoFilter, TagColumn
  <2>1. r.kind = "delete" /\ filterBox' = filterBox
    OBVIOUS
  <2> QED BY <1>4, <2>1 DEF Agree, Idle
<1>6. Calm'
  <2> SUFFICES ASSUME ~ overlapped' PROVE Calm'
    BY DEF Calm
  <2>1. ~ overlapped /\ Fragments = {}
    BY DEF Fragments
  <2>2. \A q \in Fragments' : q = r /\ r.kind # "delete"
    BY <1>4, <2>1
  <2>3. panel.kind # "broken" => tagCol.repo = panel.repo
    BY <2>1 DEF Agree, Calm
  <2>4. tagCol.state = "list" => tagCol.filter = filterBox.text
    BY <2>1 DEF Agree, Calm
  <2>5. (\A q \in Fragments' : q.kind # "filter") => filterBox' = filterBox
    BY <1>4
  <2> QED BY <2>2, <2>3, <2>4, <2>5 DEF Calm
<1> QED BY <1>3, <1>5, <1>6 DEF Agree

LEMMA AgreeClick ==
    ASSUME Agree, NEW r, RequestWhole(r), r.attached, r.answer = Nothing, r.kind # "filter",
           panel.kind # "broken",
           r.kind = "more" => r.repo = tagCol.repo /\ tagCol.state = "list" /\ r.q = tagCol.filter,
           ~ overlapped /\ r.kind = "manifest" => r.repo = tagCol.repo,
           Click(r)
    PROVE  Agree'
<1>1. /\ UNCHANGED << world, panel, repoCol, tagCol, filterBox >> /\ pending' = pending \cup {r}
      /\ overlapped' = (overlapped \/ \E q \in pending : q.kind # "delete")
  BY DEF Click, Send, columns
<1>2. DOMAIN filterBox' = {"repo", "text"}
  BY <1>1 DEF Agree, Listing
<1> QED BY <1>1, <1>2, AgreeSend

LEMMA AgreeDialog ==
    ASSUME Agree, Dialog
    PROVE  Agree'
<1>1. CASE OpenDialog \/ TypeName \/ EraseName \/ CancelDialog
  <2>1. UNCHANGED << world, panel, repoCol, tagCol, filterBox, overlapped, pending >>
    BY <1>1 DEF OpenDialog, TypeName, EraseName, CancelDialog, Typing, DialogStep
  <2>2. Fragments' = Fragments
    BY <2>1 DEF Fragments
  <2> QED BY <2>1, <2>2, AgreeStill
<1>2. CASE ConfirmDelete
  <2> DEFINE r == Request("delete", panel.repo, panel.ref)
  <2>1. /\ UNCHANGED << world, panel, repoCol, tagCol, filterBox >> /\ pending' = pending \cup {r}
        /\ overlapped' = (overlapped \/ \E q \in pending : q.kind # "delete")
    BY <1>2 DEF ConfirmDelete, Send, columns
  <2>2. RequestWhole(r) /\ r.kind = "delete" /\ r.attached /\ r.answer = Nothing
    BY SentFields
  <2> HIDE DEF r
  <2>3. DOMAIN filterBox' = {"repo", "text"}
    BY <2>1 DEF Agree, Listing
  <2> QED BY <2>1, <2>2, <2>3, AgreeSend
<1> QED BY <1>1, <1>2 DEF Dialog

LEMMA AgreeServe ==
    ASSUME ColumnsInv, NEW r \in pending, NEW down, ServeFragment(r, down) \/ ServeDelete(r, down)
    PROVE  Agree'
<1>1. RequestTells(r) /\ RequestWhole(r) /\ Agree
  BY DEF ColumnsInv, Agree, Listing, RequestTells
<1>2. CASE ServeFragment(r, down)
  <2> DEFINE a == Answer(r, down)
             q == [r EXCEPT !.answer = Just(a)]
  <2>1. /\ r.kind # "delete" /\ r.answer = Nothing /\ pending' = (pending \ {r}) \cup {q}
        /\ UNCHANGED << world, panel, repoCol, tagCol, filterBox, overlapped >>
    BY <1>2 DEF ServeFragment, columns
  <2>2. Tells(r, a)
    <3>1. /\ world \in Worlds /\ (r.kind # "repos" => r.repo \in Real)
          /\ Sent(r.kind, r.repo, r.ref, r.limit, r.push)
      BY DEF ColumnsInv, PanelInv, Places, RequestPlaced, UrlInv, RequestFits
    <3> QED BY <2>1, <3>1, AnswerTells
  <2>3. /\ RequestWhole(q) /\ q.kind = r.kind /\ q.repo = r.repo /\ q.q = r.q
        /\ q.answer = Just(a) /\ q.attached = r.attached
    BY <1>1, AnsweredWhole
  <2>4. Just(a)[1] = a
    BY Options
  <2> HIDE DEF a, q
  <2>5. Tells(q, a)
    BY <2>2, <2>3 DEF Tells, BringsList, BringsPanel
  <2>6. RequestTells(q)
    BY <1>1, <2>3, <2>4, <2>5 DEF RequestTells
  <2>7. \A d \in pending' : RequestTells(d)
    BY SMTT(30), <1>1, <2>1, <2>6 DEF Agree, Listing
  <2>8. \A d \in pending' : RequestTells(d)'
    BY <1>1, <2>1, <2>7, StillTells
  <2>9. Listing'
    BY <1>1, <2>1, <2>8 DEF Agree, Listing, ListsTags, IsTag
  <2>10. Fragments' = (Fragments \ {r}) \cup {q} /\ r \in Fragments
    BY <2>1, <2>3 DEF Fragments
  <2>11. Idle'
    BY <1>1, <2>1, <2>10 DEF Agree, Idle
  <2>12. Calm'
    <3> SUFFICES ASSUME ~ overlapped' PROVE Calm'
      BY DEF Calm
    <3>1. Fragments = {r} /\ Fragments' = {q}
      BY <1>1, <2>1, <2>10 DEF Agree, Calm
    <3> QED BY <1>1, <2>1, <2>3, <3>1 DEF Agree, Calm
  <2> QED BY <2>9, <2>11, <2>12 DEF Agree
<1>3. CASE ServeDelete(r, down)
  <2> DEFINE ok == /\ "manifest" \notin down /\ Has(r.repo, DeletedDigest(r))
                   /\ IsTag(r.repo, r.ref) => world.header
             a == Just([NoSwap EXCEPT !.ok = ok])
             q == [r EXCEPT !.answer = a]
  <2>1. /\ r.kind = "delete" /\ pending' \in {(pending \ {r}) \cup {q}, pending \ {r}}
        /\ UNCHANGED << world, panel, repoCol, tagCol, filterBox, overlapped >>
    BY <1>3 DEF ServeDelete, columns
  <2> HIDE DEF a
  <2>2. RequestWhole(q) /\ q.kind = r.kind
    BY <1>1, AnsweredWhole
  <2> HIDE DEF q
  <2>3. Fragments' = Fragments
    BY <2>1, <2>2 DEF Fragments
  <2> QED BY <1>1, <2>1, <2>2, <2>3, AgreeStill
<1> QED BY <1>2, <1>3

\* Nothing is listed beside no repository.
LEMMA NoTagsAre ==
    /\ NoTags.repo = "" /\ NoTags.state = "none" /\ NoTags.names = << >> /\ ~ NoTags.more
    /\ ListsTags(NoTags)
<1>1. FirstOf(PAGE, << >>) = << >>
  <2>1. Len(<< >>) = 0 /\ PAGE \in Nat /\ PAGE # 0
    BY PageAssumption
  <2> QED BY <2>1 DEF FirstOf
<1>2. /\ NoTags.repo = "" /\ NoTags.state = "none" /\ NoTags.names = FirstOf(PAGE, << >>)
      /\ NoTags.more = (PAGE < Len(<< >>))
  BY Zenon DEF NoTags, TagColumn
<1>3. ~ (PAGE < Len(<< >>))
  BY PageAssumption
<1>4. ~ NoTags.more
  BY Zenon, <1>2, <1>3
<1>5. ToSet(<< >>) = {}
  BY DEF ToSet
<1>6. NoTags.names = << >>
  BY <1>1, <1>2
<1>7. ListsTags(NoTags)
  BY Zenon, <1>4, <1>5, <1>6 DEF ListsTags
<1> QED BY Zenon, <1>2, <1>4, <1>6, <1>7

LEMMA NoReposAre ==
    LET c == Column(<< >>, "", PAGE) IN c.names = << >> /\ ~ c.more
<1> DEFINE c == Column(<< >>, "", PAGE)
<1>1. FirstOf(PAGE, << >>) = << >>
  <2>1. Len(<< >>) = 0 /\ PAGE \in Nat /\ PAGE # 0
    BY PageAssumption
  <2> QED BY <2>1 DEF FirstOf
<1>2. c.names = FirstOf(PAGE, << >>) /\ c.more = (PAGE < Len(<< >>))
  BY Zenon DEF Column
<1>3. ~ (PAGE < Len(<< >>))
  BY PageAssumption
<1>4. ~ c.more
  BY Zenon, <1>2, <1>3
<1> QED BY <1>1, <1>2, <1>4

LEMMA AgreeFilter ==
    ASSUME Agree, NEW q, FilterTags(q)
    PROVE  Agree'
<1> DEFINE r == [Request("filter", filterBox.repo, "") EXCEPT !.q = q]
<1>1. /\ filterBox.repo # "" /\ filterBox' = [filterBox EXCEPT !.text = q]
      /\ UNCHANGED << world, repoCol, tagCol, panel >>
  BY DEF FilterTags, Send
<1>2. DOMAIN filterBox' = {"repo", "text"} /\ filterBox'.repo = filterBox.repo /\ filterBox'.text = q
  BY <1>1 DEF Agree, Listing
<1>3. panel.kind # "broken"
  <2>1. NoFilter.repo = ""
    BY DEF NoFilter
  <2> QED BY <1>1, <2>1 DEF Agree, Idle
<1>4. CASE tagCol.state = "list"
  <2>1. /\ pending' = pending \cup {r}
        /\ overlapped' = (overlapped \/ \E d \in pending : d.kind # "delete")
    BY <1>4 DEF FilterTags, Send
  <2>2. /\ RequestWhole(r) /\ r.kind = "filter" /\ r.repo = filterBox.repo /\ r.attached
        /\ r.answer = Nothing /\ r.q = q
    BY Zenon DEF Request, RequestWhole
  <2> HIDE DEF r
  <2>3. tagCol.repo = filterBox.repo
    BY <1>4 DEF Agree, Listing
  <2> QED BY <1>1, <1>2, <1>3, <1>4, <2>1, <2>2, <2>3, AgreeSend
<1>5. CASE tagCol.state # "list"
  <2>1. UNCHANGED << pending, overlapped >>
    BY <1>5 DEF FilterTags
  <2>2. \A d \in pending' : RequestTells(d)'
    BY <1>1, <2>1, StillTells DEF Agree, Listing
  <2>3. Listing'
    BY <1>1, <1>2, <2>2 DEF Agree, Listing, ListsTags, IsTag
  <2>4. Idle'
    BY <1>1, <1>3 DEF Idle
  <2>5. Fragments' = Fragments
    BY <2>1 DEF Fragments
  <2>6. ~ overlapped => \A d \in Fragments : d.kind # "filter"
    BY <1>5 DEF Agree, Calm, Listing, RequestTells, Fragments
  <2>7. Calm'
    BY <1>1, <1>5, <2>1, <2>5, <2>6 DEF Agree, Calm
  <2> QED BY <2>3, <2>4, <2>7 DEF Agree
<1> QED BY <1>4, <1>5

\* A page is loaded: what it shows is of one repository.
LEMMA AgreeLoad ==
    ASSUME ColumnsInv, NEW u, PageURL(u), PagePlaced(u), NEW down, Load(u, down)
    PROVE  Agree'
<1> DEFINE p == PagePanel(u, down)
           bare == p.kind = "broken"
           tags == IF "tags" \in down THEN << >> ELSE FetchTags(u.repo, "")
           list == TagColumn(u.repo, "list", tags, "", PAGE)
           left == {q \in pending : q.kind = "delete" /\ q.answer = Nothing}
           box == [repo |-> u.repo, text |-> ""]
<1>1. /\ world' = world /\ panel' = p /\ overlapped' = FALSE
      /\ tagCol' = IF bare \/ u.repo = "" THEN NoTags ELSE list
      /\ filterBox' = IF bare THEN NoFilter ELSE box
      /\ bare => repoCol' = Column(<< >>, "", PAGE)
      /\ pending' = {[q EXCEPT !.attached = FALSE] : q \in left}
  BY DEF Load, LoadPage, Render
<1>2. world \in Worlds
  BY DEF ColumnsInv, PanelInv, Places
<1>3. tags \in Seq(ToSet(tags)) /\ \A t \in ToSet(tags) : IsTag(u.repo, t)
  <2>1. CASE "tags" \in down
    BY <2>1 DEF ToSet
  <2>2. CASE "tags" \notin down
    BY <1>2, <2>2, FetchedTags DEF PagePlaced
  <2> QED BY <2>1, <2>2
<1> HIDE DEF tags
<1>4. list.repo = u.repo /\ list.state = "list" /\ list.filter = "" /\ ListsTags(list)
  BY <1>3, ListedColumn, PageAssumption
<1>5. p.repo = u.repo
  <2>1. Fits(p, u)
    BY PagePanelFits DEF PageURL
  <2>2. p.kind = "shown" => u.repo = p.repo
    BY <2>1 DEF Fits, URL
  <2> QED BY <2>1, <2>2 DEF Fits
<1>6. ASSUME NEW q \in pending'
      PROVE  q.kind = "delete" /\ RequestWhole(q)
  <2>1. PICK d \in left : q = [d EXCEPT !.attached = FALSE]
    BY <1>1, <1>6
  <2>2. RequestWhole(d) /\ d.kind = "delete"
    BY DEF ColumnsInv, Listing, RequestTells
  <2> QED BY <2>1, <2>2, DetachedWhole
<1>7. DOMAIN box = {"repo", "text"} /\ box.repo = u.repo /\ box.text = ""
  OBVIOUS
<1>8. DOMAIN NoFilter = {"repo", "text"} /\ NoFilter.repo = "" /\ NoFilter.text = ""
  BY DEF NoFilter
<1> HIDE DEF p, list, left, box
<1>9. tagCol'.state # "none" => tagCol'.repo = filterBox'.repo
  BY <1>1, <1>4, <1>7, <1>8, NoTagsAre
<1>10. ListsTags(tagCol') /\ DOMAIN filterBox' = {"repo", "text"}
  BY <1>1, <1>4, <1>7, <1>8, NoTagsAre
<1>11. Listing'
  BY <1>1, <1>6, <1>9, <1>10 DEF Listing, RequestTells, RequestWhole, ListsTags, IsTag
<1>12. Fragments' = {}
  BY <1>6 DEF Fragments
<1>13. Idle'
  <2> SUFFICES ASSUME bare PROVE tagCol' = NoTags /\ filterBox' = NoFilter /\ repoCol'.names = << >>
                                 /\ ~ repoCol'.more
    BY <1>1, <1>12 DEF Idle, NoTags, NoFilter, TagColumn
  <2> QED BY <1>1, NoReposAre
<1>14. Calm'
  <2>1. panel'.kind # "broken" => tagCol'.repo = panel'.repo
    BY <1>1, <1>4, <1>5, NoTagsAre
  <2>2. tagCol'.state = "list" => tagCol'.filter = filterBox'.text
    BY <1>1, <1>4, <1>7, NoTagsAre
  <2> QED BY <1>12, <2>1, <2>2 DEF Calm
<1> QED BY <1>11, <1>13, <1>14 DEF Agree

LEMMA AgreeBrowse ==
    ASSUME ColumnsInv, Browse
    PROVE  Agree'
<1>0. Agree /\ Formed(panel)
  BY DEF ColumnsInv, Agree, Panels
<1>1. ASSUME NEW repo \in ToSet(world.repos), ClickRepo(repo) PROVE Agree'
  <2> DEFINE r == [Request("tags", repo, "") EXCEPT !.push = Just(TagsURL(repo))]
  <2>1. RequestWhole(r) /\ r.kind = "tags" /\ r.attached /\ r.answer = Nothing
    BY Zenon DEF Request, RequestWhole
  <2>2. repo \in ToSet(repoCol.names) /\ Click(r)
    BY <1>1 DEF ClickRepo
  <2> HIDE DEF r
  <2>3. panel.kind # "broken"
    BY <1>0, <2>2 DEF Agree, Idle, ToSet
  <2> QED BY <1>0, <2>1, <2>2, <2>3, AgreeClick
<1>2. ASSUME NEW tag \in ToSet(tagCol.names), ClickTag(tag) PROVE Agree'
  <2> DEFINE r == [Request("manifest", tagCol.repo, tag) EXCEPT
                      !.push = Just(ManifestURL(tagCol.repo, tag))]
  <2>1. /\ RequestWhole(r) /\ r.kind = "manifest" /\ r.repo = tagCol.repo /\ r.attached
        /\ r.answer = Nothing
    BY Zenon DEF Request, RequestWhole
  <2>2. Click(r)
    BY <1>2 DEF ClickTag
  <2> HIDE DEF r
  <2>3. tagCol.names # << >>
    BY <1>2 DEF ToSet
  <2>4. panel.kind # "broken"
    BY <1>0, <2>3, NoTagsAre DEF Agree, Idle
  <2> QED BY <1>0, <2>1, <2>2, <2>4, AgreeClick
<1>3. ASSUME NEW i \in DOMAIN panel.referrers, ClickReferrer(i) PROVE Agree'
  <2> DEFINE digest == panel.referrers[i].digest
             r == [Request("manifest", panel.repo, digest) EXCEPT
                      !.push = Just(ManifestURL(panel.repo, digest))]
  <2>1. /\ RequestWhole(r) /\ r.kind = "manifest" /\ r.repo = panel.repo /\ r.attached
        /\ r.answer = Nothing
    BY Zenon DEF Request, RequestWhole
  <2>2. Click(r)
    BY <1>3 DEF ClickReferrer
  <2> HIDE DEF r
  <2>3. panel.referrers # << >>
    BY <1>3
  <2>4. panel.kind # "broken"
    BY <1>0, <2>3 DEF Formed, Bare
  <2>5. ~ overlapped => r.repo = tagCol.repo
    BY <1>0, <2>1, <2>4 DEF Agree, Calm
  <2> QED BY <1>0, <2>1, <2>2, <2>4, <2>5, AgreeClick
<1>4. ASSUME NEW q \in Filters, FilterRepos(q) PROVE Agree'
  <2> DEFINE r == [Request("repos", "", "filter") EXCEPT !.q = q]
  <2>1. RequestWhole(r) /\ r.kind = "repos" /\ r.attached /\ r.answer = Nothing
    BY Zenon DEF Request, RequestWhole
  <2>2. panel.kind # "broken" /\ Click(r)
    BY <1>4 DEF FilterRepos
  <2> HIDE DEF r
  <2> QED BY <1>0, <2>1, <2>2, AgreeClick
<1>5. ASSUME NEW q \in Filters, FilterTags(q) PROVE Agree'
  BY <1>0, <1>5, AgreeFilter
<1>6. CASE MoreRepos
  <2> DEFINE r == [Request("repos", "", "more") EXCEPT !.q = repoCol.filter,
                                                       !.limit = repoCol.limit + PAGE]
  <2>1. RequestWhole(r) /\ r.kind = "repos" /\ r.attached /\ r.answer = Nothing
    BY Zenon DEF Request, RequestWhole
  <2>2. repoCol.more /\ Click(r)
    BY <1>6 DEF MoreRepos
  <2> HIDE DEF r
  <2>3. panel.kind # "broken"
    BY <1>0, <2>2 DEF Agree, Idle
  <2> QED BY <1>0, <2>1, <2>2, <2>3, AgreeClick
<1>7. CASE MoreTags
  <2> DEFINE r == [Request("more", tagCol.repo, "") EXCEPT !.q = tagCol.filter,
                                                           !.limit = tagCol.limit + PAGE]
  <2>1. /\ RequestWhole(r) /\ r.kind = "more" /\ r.repo = tagCol.repo /\ r.attached
        /\ r.answer = Nothing /\ r.q = tagCol.filter
    BY Zenon DEF Request, RequestWhole
  <2>2. tagCol.more /\ Click(r)
    BY <1>7 DEF MoreTags
  <2> HIDE DEF r
  <2>3. panel.kind # "broken" /\ tagCol.state = "list"
    BY <1>0, <2>2, NoTagsAre DEF Agree, Idle, Listing, ListsTags
  <2> QED BY <1>0, <2>1, <2>2, <2>3, AgreeClick
<1>8. ASSUME NEW u \in Pages, NEW down, Visit(u, down) PROVE Agree'
  BY <1>8, PagesPlaced, OpenPages, AgreeLoad DEF Visit, ColumnsInv, PanelInv
<1> QED BY <1>1, <1>2, <1>3, <1>4, <1>5, <1>6, <1>7, <1>8 DEF Browse

LEMMA AgreeDeliver ==
    ASSUME ColumnsInv, NEW r \in pending, Deliver(r)
    PROVE  Agree'
<1> DEFINE a == r.answer[1]
           swaps == a.ok /\ r.attached
           new == IF swaps THEN a ELSE NoSwap
           out == IF swaps THEN Removes(Target(r.kind)) ELSE "none"
           stays(q) == q.attached /\ (Target(q.kind) \in Persistent \/ Target(q.kind) # out)
<1>1. /\ r.kind # "delete" /\ r.answer # Nothing /\ UNCHANGED << world, overlapped >>
      /\ panel' = Swapped(new.panel, panel) /\ tagCol' = Swapped(new.tagCol, tagCol)
      /\ filterBox' = Swapped(new.filterBox, filterBox)
      /\ repoCol' = Swapped(new.repoCol, repoCol)
      /\ pending' = {[q EXCEPT !.attached = stays(q)] : q \in pending \ {r}}
  BY DEF Deliver
<1>2. Agree /\ r \in Fragments /\ Tells(r, a)
  BY <1>1 DEF ColumnsInv, Agree, Listing, RequestTells, Fragments
<1>3. panel.kind # "broken"
  BY <1>2 DEF Agree, Idle
<1>4. NoSwap.panel = Nothing /\ NoSwap.tagCol = Nothing /\ NoSwap.filterBox = Nothing
  BY NoSwapMade
<1>5. r.kind \in {"repos", "tags", "filter", "more", "manifest"}
  BY <1>1 DEF ColumnsInv, PanelInv, UrlInv, RequestFits, Sent

<1>7. \/ ~ swaps /\ UNCHANGED << panel, tagCol, filterBox >>
      \/ r.kind = "repos" /\ UNCHANGED << panel, tagCol, filterBox >>
      \/ /\ r.kind = "manifest" /\ UNCHANGED << tagCol, filterBox >>
         /\ panel'.repo = r.repo /\ panel'.kind # "broken"
      \/ /\ r.kind \in {"filter", "more"} /\ swaps /\ UNCHANGED << panel, filterBox >>
         /\ tagCol'.repo = r.repo /\ tagCol'.filter = r.q /\ ListsTags(tagCol')
      \/ /\ r.kind = "tags" /\ swaps /\ filterBox' = [repo |-> r.repo, text |-> r.q]
         /\ panel'.repo = r.repo /\ panel'.kind # "broken"
         /\ tagCol'.repo = r.repo /\ tagCol'.filter = r.q /\ ListsTags(tagCol')
  <2>1. CASE ~ swaps
    BY <1>1, <1>4, <2>1 DEF Swapped
  <2>2. CASE swaps
    <3>1. new = a /\ a.ok /\ r.attached
      BY <2>2
    <3> HIDE DEF new, a, out, stays
    <3>2. /\ panel' = Swapped(a.panel, panel) /\ tagCol' = Swapped(a.tagCol, tagCol)
          /\ filterBox' = Swapped(a.filterBox, filterBox)
      BY <1>1, <3>1
    <3>3. CASE r.kind = "repos"
      BY <1>2, <3>2, <3>3 DEF Tells, Swapped
    <3>4. CASE r.kind = "manifest"
      BY <1>2, <3>1, <3>2, <3>4 DEF Tells, BringsPanel, Swapped
    <3>5. CASE r.kind \in {"filter", "more"}
      BY <1>2, <3>1, <3>2, <3>5 DEF Tells, BringsList, Swapped
    <3>6. CASE r.kind = "tags"
      <4>1. Just([repo |-> r.repo, text |-> r.q])[1] = [repo |-> r.repo, text |-> r.q]
            /\ Just([repo |-> r.repo, text |-> r.q]) # Nothing
        BY Options
      <4>2. filterBox' = [repo |-> r.repo, text |-> r.q]
        BY <1>2, <3>2, <3>6, <4>1 DEF Tells, Swapped
      <4> QED BY <1>2, <3>1, <3>2, <3>6, <4>2 DEF Tells, BringsList, BringsPanel, Swapped
    <3> QED BY <1>5, <3>3, <3>4, <3>5, <3>6
  <2> QED BY <2>1, <2>2
<1>8. (swaps => r.attached) /\ (r.kind = "filter" /\ r.attached => swaps)
  BY <1>2 DEF Tells
\* The list swapped out takes with it the requests that would have swapped it.
<1>9. r.kind \in {"tags", "filter", "more"} /\ swaps => out = "tag-list"
  BY DEF Target, Removes
<1>10. ASSUME NEW q \in pending, q.kind \in {"filter", "more"}, out = "tag-list"
       PROVE  ~ stays(q)
  <2>1. Target(q.kind) = "tag-list"
    BY <1>10 DEF Target
  <2> QED BY <1>10, <2>1 DEF Persistent
<1>11. RequestTells(r)
  BY <1>2 DEF Agree, Listing
<1>12. tagCol' = tagCol \/ (r.kind \in {"tags", "filter", "more"} /\ swaps)
  BY <1>7
<1> HIDE DEF a, swaps, new, out
<1>13. ASSUME NEW q \in pending PROVE RequestTells([q EXCEPT !.attached = stays(q)])'
  <2> DEFINE yes == stays(q)
             d == [q EXCEPT !.attached = yes]
  <2>1. RequestTells(q) /\ RequestWhole(q)
    BY <1>2 DEF Agree, Listing, RequestTells
  <2>2. yes => q.attached
    OBVIOUS
  <2>3. q.kind \in {"filter", "more"} /\ yes => tagCol' = tagCol
    BY <1>9, <1>10, <1>12
  <2> HIDE DEF stays
  <2> HIDE DEF yes
  <2>4. /\ RequestWhole(d) /\ d.kind = q.kind /\ d.repo = q.repo /\ d.q = q.q
        /\ d.answer = q.answer /\ d.attached = yes
    BY SMTT(30), <2>1, DetachedWhole
  <2> HIDE DEF d
  <2>5. d.kind # "delete" /\ d.answer # Nothing => Tells(d, d.answer[1])'
    BY <1>1, <2>1, <2>4 DEF RequestTells, Tells, BringsList, BringsPanel, ListsTags, IsTag
  <2>6. d.kind \in {"filter", "more"} /\ d.attached
            => d.repo = tagCol'.repo /\ tagCol'.state = "list"
    BY <2>1, <2>2, <2>3, <2>4 DEF RequestTells
  <2>7. RequestTells(d)'
    BY <2>4, <2>5, <2>6 DEF RequestTells, RequestWhole
  <2> QED BY <2>7 DEF d, yes
<1>14. Listing'
  <2>1. \A q \in pending' : RequestTells(q)'
    BY <1>1, <1>13
  <2>2. ListsTags(tagCol')
    BY <1>2, <1>7 DEF Agree, Listing
  <2>3. ListsTags(tagCol)'
    BY <1>1, <2>2 DEF ListsTags, IsTag
  <2>4. DOMAIN filterBox' = {"repo", "text"}
    BY <1>2, <1>7 DEF Agree, Listing
  <2>5. tagCol'.state # "none" => tagCol'.repo = filterBox'.repo
    BY <1>2, <1>7, <1>8, <1>11 DEF Agree, Listing, RequestTells
  <2> QED BY <2>1, <2>3, <2>4, <2>5 DEF Listing
<1>15. Idle'
  BY <1>3, <1>7 DEF Idle
<1>16. Calm'
  <2> SUFFICES ASSUME ~ overlapped' PROVE Calm'
    BY DEF Calm
  <2>1. Fragments = {r} /\ r.attached /\ ~ overlapped
    BY <1>1, <1>2 DEF Agree, Calm
  <2>2. ASSUME NEW q \in pending \ {r} PROVE [q EXCEPT !.attached = stays(q)].kind = "delete"
    <3> DEFINE yes == stays(q)
    <3>1. RequestWhole(q) /\ q.kind = "delete"
      BY <1>2, <2>1 DEF Agree, Listing, RequestTells, Fragments
    <3> HIDE DEF yes
    <3>2. [q EXCEPT !.attached = yes].kind = "delete"
      BY <3>1, DetachedWhole
    <3> QED BY <3>2 DEF yes
  <2>3. Fragments' = {}
    BY <1>1, <2>2 DEF Fragments
  <2>4. panel'.kind # "broken" => tagCol'.repo = panel'.repo
    BY <1>2, <1>3, <1>7, <1>8, <1>11, <2>1 DEF Agree, Calm, RequestTells
  <2>5. tagCol'.state = "list" => tagCol'.filter = filterBox'.text
    <3>1. r.kind # "filter" /\ tagCol.state = "list" => tagCol.filter = filterBox.text
      BY <1>2, <2>1 DEF Agree, Calm
    <3>2. CASE UNCHANGED << tagCol, filterBox >> /\ r.kind # "filter"
      BY <3>1, <3>2
    <3>3. CASE r.kind = "filter"
      BY <1>2, <1>7, <1>8, <2>1, <3>3 DEF Agree, Calm
    <3>4. CASE r.kind = "more"
      BY <1>2, <1>7, <1>11, <2>1, <3>1, <3>4 DEF Agree, Calm, RequestTells
    <3>5. CASE r.kind = "tags"
      BY <1>7, <2>1, <3>1, <3>5
    <3> QED BY <1>7, <3>2, <3>3, <3>4, <3>5
  <2> QED BY <2>3, <2>4, <2>5 DEF Calm
<1> QED BY <1>14, <1>15, <1>16 DEF Agree

LEMMA AgreeDeliverDelete ==
    ASSUME ColumnsInv, NEW r \in pending, NEW down, DeliverDelete(r, down)
    PROVE  Agree'
<1>1. CASE r.answer[1].ok
  <2>1. r.repo \in Real
    BY DEF DeliverDelete, ColumnsInv, PanelInv, Places, RequestPlaced
  <2> QED BY <1>1, <2>1, TagsPlaced, PageURLs, AgreeLoad DEF DeliverDelete
<1>2. CASE ~ r.answer[1].ok
  <2>1. /\ UNCHANGED << world, panel, repoCol, tagCol, filterBox, overlapped >>
        /\ pending' = pending \ {r} /\ r.kind = "delete"
    BY <1>2 DEF DeliverDelete, columns
  <2>2. Fragments' = Fragments
    BY <2>1 DEF Fragments
  <2> QED BY <2>1, <2>2, AgreeStill DEF ColumnsInv, Agree
<1> QED BY <1>1, <1>2

LEMMA AgreeStep ==
    ASSUME ColumnsInv, [Next]_vars
    PROVE  Agree'
<1>1. CASE Browse
  BY <1>1, AgreeBrowse
<1>2. CASE Dialog
  BY <1>2, AgreeDialog DEF ColumnsInv, Agree
<1>3. CASE Answers
  BY <1>3, AgreeServe, AgreeDeliver, AgreeDeliverDelete DEF Answers
<1>4. CASE UNCHANGED vars
  <2>1. Fragments' = Fragments
    BY <1>4 DEF vars, Fragments
  <2> QED BY <1>4, <2>1, AgreeStill DEF vars, columns, ColumnsInv, Agree
<1>5. CASE Others
  <2>1. UNCHANGED << world, panel, repoCol, tagCol, filterBox, overlapped, pending >>
    BY <1>5 DEF Others, Push, Expire, columns
  <2>2. Fragments' = Fragments
    BY <2>1 DEF Fragments
  <2> QED BY <2>1, <2>2, AgreeStill DEF ColumnsInv, Agree
<1> QED BY <1>1, <1>2, <1>3, <1>4, <1>5 DEF Next

LEMMA ColumnsInitInductive == Init => ColumnsInv
<1> SUFFICES ASSUME Init PROVE ColumnsInv
  OBVIOUS
<1>1. /\ world \in Worlds /\ Panels = {panel} /\ Born(panel)
  BY PlacesInit DEF Places
<1>2. \A p \in Panels : Formed(p) /\ Chosen(p)
  BY <1>1, BornFormed, BornChosen
<1>3. /\ tagCol = NoTags /\ filterBox = NoFilter /\ pending = {}
      /\ panel = BlankPanel("hint", "", "", "", {})
  BY DEF Init
<1>4. DOMAIN NoFilter = {"repo", "text"}
  BY DEF NoFilter
<1>5. Listing
  BY <1>3, <1>4, NoTagsAre DEF Listing
<1>6. panel.kind = "hint" /\ panel.repo = ""
  BY <1>3 DEF BlankPanel
<1>7. Idle
  BY <1>6 DEF Idle
<1>8. Fragments = {}
  BY <1>3 DEF Fragments
<1>9. Calm
  BY <1>3, <1>6, <1>8, NoTagsAre DEF Calm
<1> QED BY <1>2, <1>5, <1>7, <1>9, PanelInitInductive DEF ColumnsInv

LEMMA ColumnsNextInductive == ColumnsInv /\ [Next]_vars => ColumnsInv'
<1> SUFFICES ASSUME ColumnsInv, [Next]_vars PROVE ColumnsInv'
  OBVIOUS
<1>1. Grown /\ PanelInv' /\ Agree'
  BY PanelsGrow, PanelNextInductive, AgreeStep DEF ColumnsInv, PanelInv
<1>2. world \in Worlds
  BY DEF ColumnsInv, PanelInv, Places
<1>3. ASSUME NEW p \in Panels' PROVE Formed(p) /\ Chosen(p)
  BY <1>1, <1>2, BornFormed, BornChosen DEF Grown, Known, ColumnsInv
<1>4. (\A p \in Panels : Formed(p) /\ Chosen(p))'
  BY <1>3 DEF Formed, Bare, Chosen, Newest
<1> QED BY <1>1, <1>4 DEF ColumnsInv, Agree

\* The tag column, its filter box and its list are of one repository whatever the
\* order of answers; and while requests have not overlapped since the page was
\* loaded, so are the panel and the URL, and the list is filtered by the box's text
\* (tags_fragment and its out-of-band swaps, hx-push-url).
THEOREM ColumnsAgree == Spec => []Coherent
<1>1. ColumnsInv => Coherent
  <2> SUFFICES ASSUME ColumnsInv PROVE Coherent
    OBVIOUS
  <2>1. panel.repo = url.repo
    <3>1. Fits(panel, url)
      BY DEF ColumnsInv, PanelInv, UrlInv
    <3>2. panel.kind = "shown" => url.repo = panel.repo
      BY <3>1 DEF Fits, URL
    <3> QED BY <3>1, <3>2 DEF Fits
  <2> QED BY <2>1 DEF ColumnsInv, Listing, ListsTags, Calm, Coherent, Fragments
<1> QED BY <1>1, ColumnsInitInductive, ColumnsNextInductive, PTL DEF Spec

\* The tag opened for the user is latest if there is one, or else a version that no
\* other tag read exceeds, the release before its pre-releases, or else the first by
\* name (sort_tags; tags_fragment picks the first of them).
THEOREM OpensNewest == Spec => []AutoTagNewest
<1>1. ColumnsInv => AutoTagNewest
  BY DEF ColumnsInv, Chosen, Newest, AutoTagNewest
<1> QED BY <1>1, ColumnsInitInductive, ColumnsNextInductive, PTL DEF Spec

-----------------------------------------------------------------------------
\* The types.

\* After n clicks a list has been lengthened n times at most.
Extent(limit, n) == limit \in Nat /\ PAGE <= limit /\ limit <= PAGE * (n + 1)

Option(x) == x = Nothing \/ x = Just(x[1])
LinkTyped(u) == u.page \in {"home", "tags", "manifest"} /\ Option(u.platform)
ListTyped(c, n) ==
    c.state \in {"none", "list", "error"} /\ Len(c.names) <= c.limit /\ Extent(c.limit, n)
AnswerTyped(a, n) ==
    /\ a.push # Nothing => LinkTyped(a.push[1])
    /\ a.tagCol # Nothing => ListTyped(a.tagCol[1], n)
    /\ a.repoCol # Nothing => Extent(a.repoCol[1].limit, n)
RequestTyped(r, n) ==
    /\ Extent(r.limit, n) /\ Option(r.answer)
    /\ r.kind # "delete" /\ r.answer # Nothing => AnswerTyped(r.answer[1], n)

Counted ==
    /\ clicks \in 0..MaxClicks /\ faults \in 0..MaxFaults
    /\ pushes \in Seq(Moves) /\ Len(pushes) <= MaxPushes
GoneTyped == \A g \in gone : g[1] \in Real /\ g[2] \in DOMAIN world.body
DialogTyped ==
    DOMAIN dialog = {"open", "text", "enabled"} /\ dialog.enabled = (dialog.text # Nothing)
DocumentTyped == LinkTyped(url) /\ ListTyped(tagCol, clicks) /\ Extent(repoCol.limit, clicks)
PendingTyped == \A r \in pending : RequestTyped(r, clicks)

Typed == Counted /\ GoneTyped /\ DialogTyped /\ DocumentTyped /\ PendingTyped
TypeInv == ColumnsInv /\ Typed

\* Limits.
LEMMA ExtentGrows ==
    ASSUME NEW n \in Nat, NEW m \in {n, n + 1}, NEW limit, Extent(limit, n)
    PROVE  Extent(limit, m)
<1>1. PAGE \in Nat
  BY PageAssumption
<1>2. PAGE * (m + 1) = PAGE * (n + 1) \/ PAGE * (m + 1) = PAGE * (n + 1) + PAGE
  BY <1>1
<1>3. PAGE * (n + 1) \in Nat
  BY <1>1
<1> QED BY <1>1, <1>2, <1>3 DEF Extent

LEMMA PageExtent ==
    ASSUME NEW n \in Nat
    PROVE  Extent(PAGE, n)
<1>1. PAGE \in Nat
  BY PageAssumption
<1>2. PAGE * (n + 1) = PAGE * n + PAGE /\ PAGE * n \in Nat
  BY <1>1
<1> QED BY <1>1, <1>2 DEF Extent

LEMMA MoreExtent ==
    ASSUME NEW n \in Nat, NEW limit, Extent(limit, n)
    PROVE  Extent(limit + PAGE, n + 1)
<1>1. PAGE \in Nat
  BY PageAssumption
<1>2. PAGE * ((n + 1) + 1) = PAGE * (n + 1) + PAGE /\ PAGE * (n + 1) \in Nat
  BY <1>1
<1> QED BY <1>1, <1>2 DEF Extent

LEMMA TypedGrows ==
    ASSUME NEW n \in Nat, NEW m \in {n, n + 1}
    PROVE  /\ \A c : ListTyped(c, n) => ListTyped(c, m)
           /\ \A r : RequestTyped(r, n) => RequestTyped(r, m)
<1>1. \A limit : Extent(limit, n) => Extent(limit, m)
  BY ExtentGrows
<1> QED BY <1>1 DEF ListTyped, RequestTyped, AnswerTyped

\* What the handlers answer.
LEMMA ColumnTyped ==
    ASSUME NEW STATE repo, NEW STATE state, state \in {"none", "list", "error"},
           NEW STATE all, all \in Seq(ToSet(all)), NEW STATE q, NEW STATE limit,
           NEW STATE n, Extent(limit, n)
    PROVE  ListTyped(TagColumn(repo, state, all, q, limit), n)
<1> DEFINE c == TagColumn(repo, state, all, q, limit)
<1>1. c.state = state /\ c.names = FirstOf(limit, all) /\ c.limit = limit
  BY DEF TagColumn
<1>2. Len(FirstOf(limit, all)) <= limit
  BY CutShort DEF Extent
<1> HIDE DEF c
<1>3. ListTyped(c, n)
  BY <1>1, <1>2 DEF ListTyped
<1> QED BY <1>3 DEF c

LEMMA LinksTyped ==
    /\ LinkTyped(HomeURL)
    /\ \A repo : LinkTyped(TagsURL(repo))
    /\ \A repo, ref : LinkTyped(ManifestURL(repo, ref))
    /\ \A repo, ref, child : LinkTyped(PlatformURL(repo, ref, child))
<1>1. \A x : Option(Just(x))
  BY DEF Option, Just
<1>2. ASSUME NEW page \in {"home", "tags", "manifest"}, NEW repo, NEW ref, NEW platform, Option(platform)
      PROVE  LinkTyped(URL(page, repo, ref, platform))
  <2>1. URL(page, repo, ref, platform).page = page /\ URL(page, repo, ref, platform).platform = platform
    BY DEF URL
  <2> QED BY <1>2, <2>1 DEF LinkTyped
<1>3. Option(Nothing)
  BY DEF Option
<1> QED BY <1>1, <1>2, <1>3 DEF HomeURL, TagsURL, ManifestURL, PlatformURL

LEMMA TagsTyped ==
    ASSUME world \in Worlds, NEW STATE r, r.repo \in Real, NEW STATE state, NEW STATE tags,
           NEW STATE down, r.kind \in {"tags", "filter", "more"},
           r.push # Nothing => LinkTyped(r.push[1]), NEW STATE n, Extent(r.limit, n),
           (state = "list" /\ tags = FetchTags(r.repo, r.q)) \/ (state = "error" /\ tags = << >>)
    PROVE  AnswerTyped(TagsAnswer(r, state, tags, down), n)
<1> DEFINE column == TagColumn(r.repo, state, tags, r.q, r.limit)
           list == [NoSwap EXCEPT !.tagCol = Just(column), !.push = r.push]
           hint == BlankPanel("hint", r.repo, "", "", down)
           auto == AutoPanel(tags, ManifestPanel(r.repo, tags[1], Nothing, down))
           first == Just(ManifestURL(r.repo, tags[1]))
           a == TagsAnswer(r, state, tags, down)
<1>1. a = list \/ a = PickedRepo(r, list, hint, r.push) \/ a = PickedRepo(r, list, auto, first)
  BY DEF TagsAnswer
<1>2. list.tagCol = Just(column) /\ list.push = r.push /\ list.repoCol = Nothing
  BY DEF NoSwap
<1>3. tags \in Seq(ToSet(tags))
  <2>1. CASE tags = << >>
    BY <2>1
  <2>2. CASE tags = FetchTags(r.repo, r.q)
    BY <2>2, FetchedTags
  <2> QED BY <2>1, <2>2
<1>4. ListTyped(column, n)
  BY <1>3, ColumnTyped
<1>5. LinkTyped(first[1])
  BY LinksTyped, Options
<1>6. Just(column)[1] = column
  BY Options
<1>7. {"ok", "panel", "push", "tagCol", "filterBox", "repoCol"} \subseteq DOMAIN list
  BY DEF NoSwap
<1> HIDE DEF column, list, hint, auto, first, a
<1>8. ASSUME NEW STATE p, NEW STATE push, a = PickedRepo(r, list, p, push)
      PROVE  a.tagCol = list.tagCol /\ a.push = push /\ a.repoCol = Nothing
  BY Zenon, <1>2, <1>7, <1>8 DEF PickedRepo
<1>9. a.tagCol = list.tagCol /\ a.push \in {r.push, first} /\ a.repoCol = Nothing
  BY <1>1, <1>2, <1>8
<1>10. AnswerTyped(a, n)
  BY <1>2, <1>4, <1>5, <1>6, <1>9 DEF AnswerTyped
<1> QED BY <1>10 DEF a

LEMMA AnswerIsTyped ==
    ASSUME world \in Worlds, NEW STATE r, NEW STATE down, r.kind # "repos" => r.repo \in Real,
           r.kind # "delete", Sent(r.kind, r.repo, r.ref, r.limit, r.push),
           NEW STATE n, Extent(r.limit, n)
    PROVE  AnswerTyped(Answer(r, down), n)
<1>0. r.push # Nothing => LinkTyped(r.push[1])
  BY LinksTyped, Options DEF Sent
<1>1. CASE r.kind = "repos"
  <2> DEFINE repos == IF "repos" \in down THEN << >> ELSE FetchRepos(r.q)
             c == Column(repos, r.q, r.limit)
             a == [NoSwap EXCEPT !.repoCol = Just(c)]
  <2>1. Answer(r, down) = a
    BY <1>1 DEF Answer, ReposFragment
  <2>2. a.push = Nothing /\ a.tagCol = Nothing /\ a.repoCol = Just(c)
    BY DEF NoSwap
  <2>3. c.limit = r.limit
    BY DEF Column
  <2>4. Just(c)[1] = c
    BY Options
  <2> HIDE DEF c, a
  <2>5. AnswerTyped(a, n)
    BY <2>2, <2>3, <2>4 DEF AnswerTyped
  <2> QED BY <2>1, <2>5
<1>2. CASE r.kind \in {"tags", "filter", "more"}
  <2>1. \/ Answer(r, down) = TagsAnswer(r, "error", << >>, down)
        \/ Answer(r, down) = TagsAnswer(r, "list", FetchTags(r.repo, r.q), down)
    BY <1>2 DEF Answer, TagsFragment
  <2>2. AnswerTyped(TagsAnswer(r, "error", << >>, down), n)
    BY <1>0, <1>2, TagsTyped
  <2>3. AnswerTyped(TagsAnswer(r, "list", FetchTags(r.repo, r.q), down), n)
    BY <1>0, <1>2, TagsTyped
  <2> QED BY <2>1, <2>2, <2>3
<1>3. CASE r.kind = "manifest"
  <2> DEFINE p == ManifestPanel(r.repo, r.ref, Nothing, down)
             a == PanelAnswer(r, p)
  <2>1. Answer(r, down) = a
    BY <1>3 DEF Answer, ManifestFragment
  <2> HIDE DEF p
  <2>2. a.push = r.push /\ a.tagCol = Nothing /\ a.repoCol = Nothing
    BY DEF PanelAnswer, NoSwap
  <2> HIDE DEF a
  <2>3. AnswerTyped(a, n)
    BY <1>0, <2>2 DEF AnswerTyped
  <2> QED BY <2>1, <2>3
<1> QED BY <1>1, <1>2, <1>3 DEF Sent

\* The steps.

\* One exchange at most fails while a handler runs.
LEMMA FaultsCounted ==
    ASSUME Counted, NEW exchanges, NEW down \in Outages(exchanges), CountFault(down)
    PROVE  faults' \in 0..MaxFaults
<1>1. MaxFaults \in Nat /\ faults \in 0..MaxFaults
  BY BoundAssumption DEF Counted
<1>2. CASE down = {}
  BY <1>1, <1>2, FS_EmptySet DEF CountFault
<1>3. ASSUME faults < MaxFaults, NEW e, down = {e} PROVE faults' \in 0..MaxFaults
  <2>1. Cardinality({e}) = 1
    BY FS_Singleton
  <2> QED BY <1>1, <1>3, <2>1 DEF CountFault
<1> QED BY <1>2, <1>3 DEF Outages

\* A request is sent.
LEMMA TypedSend ==
    ASSUME Typed, NEW r, RequestTyped(r, clicks + 1), Send(r),
           UNCHANGED << url, tagCol, repoCol, dialog >>
    PROVE  Typed'
<1>1. /\ clicks < MaxClicks /\ clicks' = clicks + 1 /\ pending' = pending \cup {r}
      /\ UNCHANGED << world, gone, faults, pushes >>
  BY DEF Send, tagging
<1>2. MaxClicks \in Nat /\ clicks \in Nat
  BY BoundAssumption DEF Typed, Counted
<1>3. Counted'
  BY <1>1, <1>2 DEF Typed, Counted, Moves
<1>4. DocumentTyped'
  BY <1>1, <1>2, TypedGrows, ExtentGrows DEF Typed, DocumentTyped
<1>5. PendingTyped'
  BY <1>1, <1>2, TypedGrows DEF Typed, PendingTyped
<1>6. GoneTyped' /\ DialogTyped'
  BY <1>1 DEF Typed, GoneTyped, DialogTyped, Real
<1> QED BY <1>3, <1>4, <1>5, <1>6 DEF Typed

LEMMA TypedClick ==
    ASSUME Typed, NEW r, Extent(r.limit, clicks + 1), r.answer = Nothing, Click(r)
    PROVE  Typed'
<1>1. RequestTyped(r, clicks + 1)
  BY DEF RequestTyped, Option
<1> QED BY <1>1, TypedSend DEF Click, columns

\* The dialog or the filter box is used.
LEMMA TypedDialog ==
    ASSUME Typed, Dialog
    PROVE  Typed'
<1>1. CASE OpenDialog \/ TypeName \/ EraseName \/ CancelDialog
  <2>1. UNCHANGED << world, gone, pushes, url, tagCol, repoCol, pending, clicks, faults >>
    BY <1>1 DEF OpenDialog, TypeName, EraseName, CancelDialog, Typing, DialogStep, tagging
  <2>2. \/ dialog' = [open |-> TRUE, text |-> Nothing, enabled |-> FALSE]
        \/ dialog' = [dialog EXCEPT !.text = Just(DeleteTarget(panel)), !.enabled = TRUE]
        \/ dialog' = [dialog EXCEPT !.text = Nothing, !.enabled = FALSE]
        \/ dialog' = [dialog EXCEPT !.open = FALSE]
    BY <1>1 DEF OpenDialog, TypeName, EraseName, CancelDialog
  <2>3. Just(DeleteTarget(panel)) # Nothing
    BY Options
  <2>4. /\ DOMAIN dialog' = {"open", "text", "enabled"}
        /\ \/ dialog'.enabled = TRUE /\ dialog'.text # Nothing
           \/ dialog'.enabled = FALSE /\ dialog'.text = Nothing
           \/ dialog'.enabled = dialog.enabled /\ dialog'.text = dialog.text
    <3>1. DOMAIN dialog = {"open", "text", "enabled"}
      BY DEF Typed, DialogTyped
    <3>2. CASE dialog' = [open |-> TRUE, text |-> Nothing, enabled |-> FALSE]
      BY Zenon, <3>2
    <3>3. CASE dialog' = [dialog EXCEPT !.text = Just(DeleteTarget(panel)), !.enabled = TRUE]
      BY Zenon, <2>3, <3>1, <3>3
    <3>4. CASE dialog' = [dialog EXCEPT !.text = Nothing, !.enabled = FALSE]
      BY Zenon, <3>1, <3>4
    <3>5. CASE dialog' = [dialog EXCEPT !.open = FALSE]
      BY Zenon, <3>1, <3>5
    <3> QED BY <2>2, <3>2, <3>3, <3>4, <3>5
  <2>5. DialogTyped'
    BY <2>4 DEF Typed, DialogTyped
  <2> QED BY <2>1, <2>5
          DEF Typed, Counted, Moves, GoneTyped, DocumentTyped, PendingTyped, Real
<1>2. CASE ConfirmDelete
  <2> DEFINE r == Request("delete", panel.repo, panel.ref)
  <2>1. Send(r) /\ UNCHANGED << url, tagCol, repoCol, dialog >>
    BY <1>2 DEF ConfirmDelete, columns
  <2>2. r.limit = PAGE /\ r.answer = Nothing
    BY DEF Request
  <2> HIDE DEF r
  <2>3. clicks + 1 \in Nat
    BY DEF Typed, Counted
  <2>4. RequestTyped(r, clicks + 1)
    BY <2>2, <2>3, PageExtent DEF RequestTyped, Option
  <2> QED BY <2>1, <2>4, TypedSend
<1> QED BY <1>1, <1>2 DEF Dialog

LEMMA TypedFilter ==
    ASSUME Typed, NEW q, FilterTags(q)
    PROVE  Typed'
<1> DEFINE r == [Request("filter", filterBox.repo, "") EXCEPT !.q = q]
<1>1. UNCHANGED << url, tagCol, repoCol, dialog >>
  BY DEF FilterTags
<1>2. clicks + 1 \in Nat /\ clicks \in Nat /\ MaxClicks \in Nat
  BY BoundAssumption DEF Typed, Counted
<1>3. CASE tagCol.state = "list"
  <2>1. Send(r)
    BY <1>3 DEF FilterTags
  <2>2. r.limit = PAGE /\ r.answer = Nothing
    BY Zenon DEF Request
  <2> HIDE DEF r
  <2>3. RequestTyped(r, clicks + 1)
    BY <1>2, <2>2, PageExtent DEF RequestTyped, Option
  <2> QED BY <1>1, <2>1, <2>3, TypedSend
<1>4. CASE tagCol.state # "list"
  <2>1. /\ clicks < MaxClicks /\ clicks' = clicks + 1
        /\ UNCHANGED << world, gone, pushes, faults, pending >>
    BY <1>4 DEF FilterTags, tagging
  <2>2. Counted'
    BY <1>2, <2>1 DEF Typed, Counted, Moves
  <2>3. DocumentTyped'
    BY <1>1, <1>2, <2>1, TypedGrows, ExtentGrows DEF Typed, DocumentTyped
  <2>4. PendingTyped'
    BY <1>2, <2>1, TypedGrows DEF Typed, PendingTyped
  <2>5. GoneTyped' /\ DialogTyped'
    BY <1>1, <2>1 DEF Typed, GoneTyped, DialogTyped, Real
  <2> QED BY <2>2, <2>3, <2>4, <2>5 DEF Typed
<1> QED BY <1>3, <1>4

\* A page is loaded.
LEMMA TypedLoad ==
    ASSUME ColumnsInv, Typed, NEW u, LinkTyped(u), PagePlaced(u),
           NEW exchanges, NEW down \in Outages(exchanges),
           clicks' = clicks \/ (clicks < MaxClicks /\ clicks' = clicks + 1), Load(u, down)
    PROVE  Typed'
<1> DEFINE p == PagePanel(u, down)
           tags == IF "tags" \in down THEN << >> ELSE FetchTags(u.repo, "")
           list == TagColumn(u.repo, "list", tags, "", PAGE)
           left == {q \in pending : q.kind = "delete" /\ q.answer = Nothing}
<1>1. /\ UNCHANGED << world, gone, pushes >> /\ CountFault(down) /\ url' = u
      /\ tagCol' \in {NoTags, list} /\ (\E repos : repoCol' = Column(repos, "", PAGE))
      /\ dialog' = Closed
      /\ pending' = {[q EXCEPT !.attached = FALSE] : q \in left}
  BY DEF Load, LoadPage, Render, tagging
<1>2. clicks \in Nat /\ MaxClicks \in Nat /\ clicks' \in {clicks, clicks + 1} /\ clicks' \in Nat
  BY BoundAssumption DEF Typed, Counted
<1>3. Counted'
  <2>1. faults' \in 0..MaxFaults
    BY <1>1, FaultsCounted DEF Typed
  <2>2. clicks' \in 0..MaxClicks
    BY <1>2 DEF Typed, Counted
  <2> QED BY <1>1, <2>1, <2>2 DEF Typed, Counted, Moves
<1>4. Extent(PAGE, clicks')
  BY <1>2, PageExtent
<1>5. ListTyped(list, clicks')
  <2>1. tags \in Seq(ToSet(tags))
    <3>1. world \in Worlds
      BY DEF ColumnsInv, PanelInv, Places
    <3>2. FetchTags(u.repo, "") \in Seq(ToSet(FetchTags(u.repo, "")))
      BY <3>1, FetchedTags DEF PagePlaced
    <3>3. << >> \in Seq(ToSet(<< >>))
      OBVIOUS
    <3> QED BY <3>2, <3>3
  <2> HIDE DEF tags
  <2> QED BY <1>4, <2>1, ColumnTyped
<1>6. ListTyped(NoTags, clicks')
  <2>1. << >> \in Seq(ToSet(<< >>))
    OBVIOUS
  <2> QED BY <1>4, <2>1, ColumnTyped DEF NoTags
<1>7. repoCol'.limit = PAGE
  <2>1. \A repos : Column(repos, "", PAGE).limit = PAGE
    BY DEF Column
  <2> QED BY <1>1, <2>1
<1> HIDE DEF list
<1>8. DocumentTyped'
  BY <1>1, <1>4, <1>5, <1>6, <1>7 DEF DocumentTyped
<1>9. PendingTyped'
  <2>1. ASSUME NEW q \in left PROVE RequestTyped([q EXCEPT !.attached = FALSE], clicks')
    <3> DEFINE d == [q EXCEPT !.attached = FALSE]
    <3>1. RequestWhole(q) /\ RequestTyped(q, clicks)
      BY DEF ColumnsInv, Listing, RequestTells, Typed, PendingTyped
    <3>2. d.limit = q.limit /\ d.kind = q.kind /\ d.answer = q.answer
      BY <3>1, DetachedWhole
    <3> HIDE DEF d
    <3>3. RequestTyped(q, clicks')
      BY <1>2, <3>1, TypedGrows
    <3>4. RequestTyped(d, clicks')
      BY <3>2, <3>3 DEF RequestTyped
    <3> QED BY <3>4 DEF d
  <2> QED BY <1>1, <2>1 DEF PendingTyped
<1>10. DialogTyped'
  BY <1>1 DEF DialogTyped, Closed
<1>11. GoneTyped'
  BY <1>1 DEF Typed, GoneTyped, Real
<1> QED BY <1>3, <1>8, <1>9, <1>10, <1>11 DEF Typed

LEMMA TypedBrowse ==
    ASSUME ColumnsInv, Typed, Browse
    PROVE  Typed'
<1>0. clicks \in Nat /\ clicks + 1 \in Nat /\ Extent(PAGE, clicks + 1)
  BY PageExtent DEF Typed, Counted
<1>1. ASSUME NEW repo \in ToSet(world.repos), ClickRepo(repo) PROVE Typed'
  <2> DEFINE r == [Request("tags", repo, "") EXCEPT !.push = Just(TagsURL(repo))]
  <2>1. r.limit = PAGE /\ r.answer = Nothing
    BY Zenon DEF Request
  <2>2. Click(r)
    BY <1>1 DEF ClickRepo
  <2> HIDE DEF r
  <2> QED BY <1>0, <2>1, <2>2, TypedClick
<1>2. ASSUME NEW tag \in ToSet(tagCol.names), ClickTag(tag) PROVE Typed'
  <2> DEFINE r == [Request("manifest", tagCol.repo, tag) EXCEPT
                      !.push = Just(ManifestURL(tagCol.repo, tag))]
  <2>1. r.limit = PAGE /\ r.answer = Nothing
    BY Zenon DEF Request
  <2>2. Click(r)
    BY <1>2 DEF ClickTag
  <2> HIDE DEF r
  <2> QED BY <1>0, <2>1, <2>2, TypedClick
<1>3. ASSUME NEW i \in DOMAIN panel.referrers, ClickReferrer(i) PROVE Typed'
  <2> DEFINE digest == panel.referrers[i].digest
             r == [Request("manifest", panel.repo, digest) EXCEPT
                      !.push = Just(ManifestURL(panel.repo, digest))]
  <2>1. r.limit = PAGE /\ r.answer = Nothing
    BY Zenon DEF Request
  <2>2. Click(r)
    BY <1>3 DEF ClickReferrer
  <2> HIDE DEF r
  <2> QED BY <1>0, <2>1, <2>2, TypedClick
<1>4. ASSUME NEW q \in Filters, FilterRepos(q) PROVE Typed'
  <2> DEFINE r == [Request("repos", "", "filter") EXCEPT !.q = q]
  <2>1. r.limit = PAGE /\ r.answer = Nothing
    BY Zenon DEF Request
  <2>2. Click(r)
    BY <1>4 DEF FilterRepos
  <2> HIDE DEF r
  <2> QED BY <1>0, <2>1, <2>2, TypedClick
<1>5. ASSUME NEW q \in Filters, FilterTags(q) PROVE Typed'
  BY <1>5, TypedFilter
<1>6. CASE MoreRepos
  <2> DEFINE limit == repoCol.limit + PAGE
             r == [Request("repos", "", "more") EXCEPT !.q = repoCol.filter, !.limit = limit]
  <2> HIDE DEF limit
  <2>1. r.limit = limit /\ r.answer = Nothing
    BY Zenon DEF Request
  <2>2. Click(r)
    BY <1>6 DEF MoreRepos, limit
  <2> HIDE DEF r
  <2>3. Extent(limit, clicks + 1)
    BY <1>0, MoreExtent DEF Typed, DocumentTyped, limit
  <2> QED BY <2>1, <2>2, <2>3, TypedClick
<1>7. CASE MoreTags
  <2> DEFINE limit == tagCol.limit + PAGE
             r == [Request("more", tagCol.repo, "") EXCEPT !.q = tagCol.filter, !.limit = limit]
  <2> HIDE DEF limit
  <2>1. r.limit = limit /\ r.answer = Nothing
    BY Zenon DEF Request
  <2>2. Click(r)
    BY <1>7 DEF MoreTags, limit
  <2> HIDE DEF r
  <2>3. Extent(limit, clicks + 1)
    BY <1>0, MoreExtent DEF Typed, DocumentTyped, ListTyped, limit
  <2> QED BY <2>1, <2>2, <2>3, TypedClick
<1>8. ASSUME NEW u \in Pages, NEW down \in Outages(PageExchanges(u)), Visit(u, down)
      PROVE  Typed'
  <2>1. LinkTyped(u)
    BY LinksTyped DEF Pages
  <2>2. PagePlaced(u)
    BY PagesPlaced DEF ColumnsInv, PanelInv
  <2> QED BY <1>8, <2>1, <2>2, TypedLoad DEF Visit
<1> QED BY <1>1, <1>2, <1>3, <1>4, <1>5, <1>6, <1>7, <1>8 DEF Browse

\* A request is answered.
LEMMA TypedServe ==
    ASSUME ColumnsInv, Typed, NEW r \in pending, NEW down \in Outages(FragmentExchanges(r)),
           ServeFragment(r, down) \/ ServeDelete(r, down)
    PROVE  Typed'
<1>1. /\ RequestWhole(r) /\ RequestTyped(r, clicks) /\ world \in Worlds
      /\ (r.kind # "repos" => r.repo \in Real)
      /\ Sent(r.kind, r.repo, r.ref, r.limit, r.push)
  BY DEF ColumnsInv, Listing, RequestTells, Typed, PendingTyped, PanelInv, Places,
         RequestPlaced, UrlInv, RequestFits
<1>2. /\ UNCHANGED << world, pushes, url, tagCol, repoCol, dialog, clicks >> /\ CountFault(down)
  BY DEF ServeFragment, ServeDelete, columns, tagging
<1>3. Counted'
  BY <1>2, FaultsCounted DEF Typed, Counted, Moves
<1>4. DocumentTyped' /\ DialogTyped'
  BY <1>2 DEF Typed, DocumentTyped, DialogTyped
<1>5. CASE ServeFragment(r, down)
  <2> DEFINE a == Answer(r, down)
             q == [r EXCEPT !.answer = Just(a)]
  <2>1. r.kind # "delete" /\ pending' = (pending \ {r}) \cup {q} /\ gone' = gone
    BY <1>5 DEF ServeFragment
  <2>2. AnswerTyped(a, clicks)
    BY <1>1, <2>1, AnswerIsTyped DEF RequestTyped
  <2> HIDE DEF a
  <2>3. q.kind = r.kind /\ q.limit = r.limit /\ q.answer = Just(a)
    BY <1>1, AnsweredWhole
  <2> HIDE DEF q
  <2>4. RequestTyped(q, clicks)
    BY <1>1, <2>2, <2>3, Options DEF RequestTyped, Option
  <2>5. PendingTyped'
    BY <1>2, <2>1, <2>4 DEF Typed, PendingTyped
  <2>6. GoneTyped'
    BY <1>2, <2>1 DEF Typed, GoneTyped, Real
  <2> QED BY <1>3, <1>4, <2>5, <2>6 DEF Typed
<1>6. CASE ServeDelete(r, down)
  <2> DEFINE ok == /\ "manifest" \notin down /\ Has(r.repo, DeletedDigest(r))
                   /\ IsTag(r.repo, r.ref) => world.header
             a == [NoSwap EXCEPT !.ok = ok]
             q == [r EXCEPT !.answer = Just(a)]
             g == << r.repo, DeletedDigest(r) >>
  <2>1. /\ r.kind = "delete" /\ pending' \subseteq (pending \ {r}) \cup {q}
        /\ gone' = gone \/ (ok /\ gone' = gone \cup {g})
    BY <1>6 DEF ServeDelete
  <2>2. ok => r.repo \in Real /\ DeletedDigest(r) \in DOMAIN world.body
    BY <1>1, <2>1 DEF Has
  <2>3. g[1] = r.repo /\ g[2] = DeletedDigest(r)
    OBVIOUS
  <2> HIDE DEF ok, g
  <2>4. GoneTyped'
    BY <1>2, <2>1, <2>2, <2>3 DEF Typed, GoneTyped, Real
  <2> HIDE DEF a
  <2>5. q.kind = r.kind /\ q.limit = r.limit /\ q.answer = Just(a)
    BY <1>1, AnsweredWhole
  <2> HIDE DEF q
  <2>6. RequestTyped(q, clicks)
    BY <1>1, <2>1, <2>5, Options DEF RequestTyped, Option
  <2>7. PendingTyped'
    BY <1>2, <2>1, <2>6 DEF Typed, PendingTyped
  <2> QED BY <1>3, <1>4, <2>4, <2>7 DEF Typed
<1> QED BY <1>5, <1>6

\* An answer is swapped in.
LEMMA TypedDeliver ==
    ASSUME ColumnsInv, Typed, NEW r \in pending, Deliver(r)
    PROVE  Typed'
<1> DEFINE swaps == r.answer[1].ok /\ r.attached
           new == IF swaps THEN r.answer[1] ELSE NoSwap
           out == IF swaps THEN Removes(Target(r.kind)) ELSE "none"
           stays(q) == q.attached /\ (Target(q.kind) \in Persistent \/ Target(q.kind) # out)
<1>1. /\ r.kind # "delete" /\ r.answer # Nothing /\ UNCHANGED << world, gone, pushes, clicks, faults >>
      /\ url' = Swapped(new.push, url) /\ tagCol' = Swapped(new.tagCol, tagCol)
      /\ repoCol' = Swapped(new.repoCol, repoCol) /\ dialog' \in {dialog, Closed}
      /\ pending' = {[q EXCEPT !.attached = stays(q)] : q \in pending \ {r}}
  BY DEF Deliver, SwappedDialog, tagging
<1>2. AnswerTyped(r.answer[1], clicks)
  BY <1>1 DEF Typed, PendingTyped, RequestTyped
<1>3. NoSwap.push = Nothing /\ NoSwap.tagCol = Nothing /\ NoSwap.repoCol = Nothing
  BY DEF NoSwap
<1>4. AnswerTyped(NoSwap, clicks)
  BY <1>3 DEF AnswerTyped
<1>5. AnswerTyped(new, clicks)
  BY <1>2, <1>4
<1> HIDE DEF new, out, swaps
<1>6. DocumentTyped'
  BY <1>1, <1>5 DEF Typed, DocumentTyped, AnswerTyped, Swapped
<1>7. PendingTyped'
  <2>1. ASSUME NEW q \in pending PROVE RequestTyped([q EXCEPT !.attached = stays(q)], clicks)
    <3> DEFINE yes == stays(q)
               d == [q EXCEPT !.attached = yes]
    <3>1. RequestWhole(q) /\ RequestTyped(q, clicks)
      BY DEF ColumnsInv, Listing, RequestTells, Typed, PendingTyped
    <3> HIDE DEF stays
    <3> HIDE DEF yes
    <3>2. d.limit = q.limit /\ d.kind = q.kind /\ d.answer = q.answer
      BY <3>1, DetachedWhole
    <3> HIDE DEF d
    <3>3. RequestTyped(d, clicks)
      BY <3>1, <3>2 DEF RequestTyped
    <3> QED BY <3>3 DEF d, yes
  <2> QED BY <1>1, <2>1 DEF PendingTyped
<1>8. DialogTyped'
  <2>1. DOMAIN Closed = {"open", "text", "enabled"} /\ Closed.enabled = (Closed.text # Nothing)
    BY DEF Closed
  <2> QED BY <1>1, <2>1 DEF Typed, DialogTyped
<1>9. GoneTyped' /\ Counted'
  BY <1>1 DEF Typed, GoneTyped, Counted, Moves, Real
<1> QED BY <1>6, <1>7, <1>8, <1>9 DEF Typed

LEMMA TypedDeliverDelete ==
    ASSUME ColumnsInv, Typed, NEW r \in pending, NEW down \in Outages({"repos", "tags"}),
           DeliverDelete(r, down)
    PROVE  Typed'
<1>1. CASE r.answer[1].ok
  <2>1. r.repo \in Real
    BY DEF DeliverDelete, ColumnsInv, PanelInv, Places, RequestPlaced
  <2>2. Load(TagsURL(r.repo), down) /\ clicks' = clicks
    BY <1>1 DEF DeliverDelete
  <2> QED BY <2>1, <2>2, TagsPlaced, LinksTyped, TypedLoad
<1>2. CASE ~ r.answer[1].ok
  <2>1. /\ UNCHANGED << world, gone, pushes, url, tagCol, repoCol, dialog, clicks, faults >>
        /\ pending' = pending \ {r}
    BY <1>2 DEF DeliverDelete, columns, tagging
  <2> QED BY <2>1
          DEF Typed, Counted, Moves, GoneTyped, DocumentTyped, DialogTyped, PendingTyped, Real
<1> QED BY <1>1, <1>2

\* Other people move a tag, or the client finds out.
LEMMA TypedOthers ==
    ASSUME ColumnsInv, Typed, Others
    PROVE  Typed'
<1>0. PICK repo \in Real : \E t \in DOMAIN world.tag[repo] :
         (\E digest \in DOMAIN world.body : Push(repo, t, digest)) \/ Expire(repo, t)
  BY DEF Others, Real
<1>1. PICK t \in DOMAIN world.tag[repo] :
         (\E digest \in DOMAIN world.body : Push(repo, t, digest)) \/ Expire(repo, t)
  BY <1>0
<1>2. UNCHANGED << world, gone, url, tagCol, repoCol, dialog, pending, clicks, faults >>
  BY <1>1 DEF Push, Expire, columns
<1>3. pushes \in Seq(Moves) /\ Len(pushes) <= MaxPushes /\ MaxPushes \in Nat
  BY BoundAssumption DEF Typed, Counted
<1>4. pushes' \in Seq(Moves) /\ Len(pushes') <= MaxPushes
  <2>1. ASSUME NEW digest \in DOMAIN world.body, Push(repo, t, digest)
        PROVE  pushes' \in Seq(Moves) /\ Len(pushes') <= MaxPushes
    <3>1. Len(pushes) < MaxPushes /\ pushes' = Append(pushes, << repo, t, digest >>)
      BY <2>1 DEF Push
    <3>2. << repo, t, digest >> \in Moves
      <4>1. repo \in DOMAIN world.tag
        BY WorldsAssumption DEF Real, ColumnsInv, PanelInv, Places
      <4> QED BY <4>1 DEF Moves, Real
    <3> DEFINE move == << repo, t, digest >>
    <3> HIDE DEF move
    <3>3. Append(pushes, move) \in Seq(Moves) /\ Len(Append(pushes, move)) = Len(pushes) + 1
      BY <1>3, <3>2, AppendProperties DEF move
    <3> QED BY <1>3, <3>1, <3>3, LenProperties DEF move
  <2>2. CASE Expire(repo, t)
    BY <1>3, <2>2 DEF Expire
  <2> QED BY <1>1, <2>1, <2>2
<1> QED BY <1>2, <1>4
        DEF Typed, Counted, Moves, GoneTyped, DocumentTyped, DialogTyped, PendingTyped, Real

LEMMA TypeInitInductive == Init => TypeInv
<1> SUFFICES ASSUME Init PROVE TypeInv
  OBVIOUS
<1>1. 0 \in Nat /\ Extent(PAGE, 0)
  BY PageExtent
<1>2. Counted
  <2>1. /\ MaxClicks \in Nat /\ MaxFaults \in Nat /\ MaxPushes \in Nat
        /\ clicks = 0 /\ faults = 0 /\ pushes = << >>
    BY BoundAssumption DEF Init
  <2>2. << >> \in Seq(Moves) /\ Len(<< >>) = 0
    BY EmptySeq
  <2> QED BY <2>1, <2>2 DEF Counted
<1>3. GoneTyped /\ PendingTyped
  BY DEF Init, GoneTyped, PendingTyped
<1>4. dialog = Closed /\ DialogTyped
  BY DEF Init, DialogTyped, Closed
<1>5. DocumentTyped
  <2>1. url = HomeURL /\ tagCol = NoTags /\ clicks = 0 /\ repoCol = Column(FetchRepos(""), "", PAGE)
    BY DEF Init
  <2>2. repoCol.limit = PAGE
    BY <2>1 DEF Column
  <2>3. << >> \in Seq(ToSet(<< >>))
    OBVIOUS
  <2>4. ListTyped(NoTags, 0)
    BY <1>1, <2>3, ColumnTyped DEF NoTags
  <2> QED BY <1>1, <2>1, <2>2, <2>4, LinksTyped DEF DocumentTyped
<1> QED BY <1>2, <1>3, <1>4, <1>5, ColumnsInitInductive DEF TypeInv, Typed

LEMMA TypeNextInductive == TypeInv /\ [Next]_vars => TypeInv'
<1> SUFFICES ASSUME TypeInv, [Next]_vars PROVE TypeInv'
  OBVIOUS
<1>1. ColumnsInv'
  BY ColumnsNextInductive DEF TypeInv
<1>2. ASSUME Browse PROVE Typed'
  BY <1>2, TypedBrowse DEF TypeInv
<1>3. ASSUME Dialog PROVE Typed'
  BY <1>3, TypedDialog DEF TypeInv
<1>4. ASSUME Answers PROVE Typed'
  BY <1>4, TypedServe, TypedDeliver, TypedDeliverDelete DEF Answers, TypeInv
<1>5. ASSUME UNCHANGED vars PROVE Typed'
  BY <1>5 DEF vars, tagging, columns, TypeInv, Typed, Counted, Moves, GoneTyped, DocumentTyped, DialogTyped,
              PendingTyped, Real
<1>6. ASSUME Others PROVE Typed'
  BY <1>6, TypedOthers DEF TypeInv
<1>7. Typed'
  BY <1>2, <1>3, <1>4, <1>5, <1>6 DEF Next
<1> QED BY <1>1, <1>7 DEF TypeInv

\* The columns, the location bar and the requests in flight have the shapes the
\* handlers, htmx and layerloupe.js give them; no list is longer than its limit, and
\* no limit longer than the Load more clicks allow (clamp_limit of web/routes.py).
THEOREM TypeCorrect == Spec => []TypeOK
<1>1. TypeInv => TypeOK
  <2> SUFFICES ASSUME TypeInv PROVE TypeOK
    OBVIOUS
  <2>1. \A x : Option(x) => Len(x) <= 1
    BY DEF Option, Just, Nothing
  <2>2. world \in Worlds /\ (dialog.open => panel.kind = "shown" /\ world.admin)
    BY DEF TypeInv, ColumnsInv, PanelInv, Places
  <2>3. Formed(panel)
    BY DEF TypeInv, ColumnsInv, Panels
  <2>4. panel.kind \in {"hint", "shown", "error", "broken"} /\ (panel.kind = "shown" <=> panel.u # Nothing)
    BY <2>3 DEF Formed, Bare
  <2>5. \A g \in gone : g[1] \in ToSet(world.repos) /\ g[2] \in DOMAIN world.body
    BY DEF TypeInv, Typed, GoneTyped, Real
  <2>6. url.page \in {"home", "tags", "manifest"} /\ Len(url.platform) <= 1
    BY <2>1 DEF TypeInv, Typed, DocumentTyped, LinkTyped
  <2>7. tagCol.state \in {"none", "list", "error"} /\ Len(tagCol.names) <= tagCol.limit
    BY DEF TypeInv, Typed, DocumentTyped, ListTyped
  <2>8. dialog.enabled <=> dialog.text # Nothing
    BY DEF TypeInv, Typed, DialogTyped
  <2>9. clicks \in 0..MaxClicks /\ faults \in 0..MaxFaults /\ Len(pushes) \in 0..MaxPushes
    <3>1. pushes \in Seq(Moves) /\ Len(pushes) <= MaxPushes /\ MaxPushes \in Nat
      BY BoundAssumption DEF TypeInv, Typed, Counted
    <3> QED BY <3>1, LenProperties DEF TypeInv, Typed, Counted
  <2>10. ASSUME NEW r \in pending
         PROVE  r.limit \in PAGE..(PAGE * (MaxClicks + 1)) /\ Len(r.answer) <= 1
    <3>1. RequestTyped(r, clicks)
      BY DEF TypeInv, Typed, PendingTyped
    <3>2. PAGE \in Nat /\ MaxClicks \in Nat /\ clicks \in Nat /\ clicks <= MaxClicks
      BY <2>9, PageAssumption, BoundAssumption
    <3>3. PAGE * (clicks + 1) <= PAGE * (MaxClicks + 1)
      BY <3>2
    <3>4. PAGE * (clicks + 1) \in Nat /\ PAGE * (MaxClicks + 1) \in Nat
      BY <3>2
    <3> HIDE DEF Extent
    <3>5. r.limit \in Nat /\ PAGE <= r.limit /\ r.limit <= PAGE * (clicks + 1)
      BY <3>1 DEF RequestTyped, Extent
    <3>6. r.limit \in PAGE..(PAGE * (MaxClicks + 1))
      BY <3>2, <3>3, <3>4, <3>5
    <3> QED BY <2>1, <3>1, <3>6 DEF RequestTyped
  <2> QED BY <2>2, <2>4, <2>5, <2>6, <2>7, <2>8, <2>9, <2>10 DEF TypeOK
<1> QED BY <1>1, TypeInitInductive, TypeNextInductive, PTL DEF Spec

-----------------------------------------------------------------------------
\* Annotations.

LEMMA KeysPlaced ==
    /\ Keys \in Seq(ToSet(Keys))
    /\ \A i, j \in DOMAIN Keys :
          Keys[i] \in ToSet(OtherAnnotations) /\ Keys[j] \in ToSet(KnownAnnotations) => j < i
<1> DEFINE K == KnownAnnotations
           O == OtherAnnotations
           A == ToSet(K) \cup ToSet(O)
<1>1. K \in Seq(A) /\ O \in Seq(A)
  BY KeyAssumption, Narrowed
<1>2. Keys \in Seq(A) /\ ToSet(Keys) = A
  <2> HIDE DEF A
  <2>1. K \o O \in Seq(A) /\ ToSet(K \o O) = ToSet(K) \cup ToSet(O)
    BY <1>1, Joined
  <2> QED BY <2>1 DEF A, Keys
<1> HIDE DEF A
<1>3. /\ Len(K) \in Nat /\ Len(O) \in Nat /\ DOMAIN Keys = 1..(Len(K) + Len(O))
      /\ \A k \in 1..Len(K) : Keys[k] = K[k]
      /\ \A k \in 1..Len(O) : Keys[Len(K) + k] = O[k]
  BY <1>1 DEF Keys
<1>4. ASSUME NEW i \in DOMAIN Keys, NEW j \in DOMAIN Keys, Keys[i] \in ToSet(O),
             Keys[j] \in ToSet(K)
      PROVE  j < i
  <2>1. PICK k \in 1..Len(K) : K[k] = Keys[j]
    BY <1>1, <1>4 DEF ToSet
  <2>2. PICK l \in 1..Len(O) : O[l] = Keys[i]
    BY <1>1, <1>4 DEF ToSet
  <2>3. k \in DOMAIN Keys /\ Len(K) + l \in DOMAIN Keys
    BY <1>3
  <2>4. k = j /\ Len(K) + l = i
    BY <1>3, <2>1, <2>2, <2>3, KeyAssumption
  <2> QED BY <1>3, <2>4
<1> QED BY <1>2, <1>4

\* merge_annotations tabulates what it is given.
LEMMA MergeTabulates ==
    ASSUME NEW STATE notes, DOMAIN notes \subseteq ToSet(Keys),
           NEW STATE labels, DOMAIN labels \subseteq ToSet(Keys)
    PROVE  Tabulates(MergeAnnotations(notes, labels), notes, labels)
<1> DEFINE D == DOMAIN notes \cup DOMAIN labels
           merged == [k \in D |-> IF k \in DOMAIN notes THEN notes[k] ELSE labels[k]]
           S == {i \in DOMAIN Keys : Keys[i] \in D}
           n == Cardinality(S)
           keys == Kept(Keys, S)
           rows == MergeAnnotations(notes, labels)
<1>1. rows = [i \in DOMAIN keys |-> [key |-> keys[i], value |-> merged[keys[i]]]]
  BY DEF MergeAnnotations
<1>2. /\ DOMAIN keys = 1..n
      /\ \E o \in [1..n -> S] : /\ keys = [k \in 1..n |-> Keys[o[k]]]
                                /\ \A i \in S : \E k \in 1..n : o[k] = i
                                /\ \A k, l \in 1..n : k < l => o[k] < o[l]
  <2>1. Keys \in Seq(ToSet(Keys)) /\ S \subseteq DOMAIN Keys
    BY KeysPlaced
  <2> HIDE DEF S
  <2> QED BY <2>1, KeptMeaning
<1>3. PICK o \in [1..n -> S] : /\ keys = [k \in 1..n |-> Keys[o[k]]]
                               /\ \A i \in S : \E k \in 1..n : o[k] = i
                               /\ \A k, l \in 1..n : k < l => o[k] < o[l]
  BY <1>2
<1> HIDE DEF keys, rows, n
<1>4. \A i \in 1..n : /\ o[i] \in DOMAIN Keys /\ Keys[o[i]] \in D /\ rows[i].key = Keys[o[i]]
                      /\ rows[i].value = merged[Keys[o[i]]]
  BY <1>1, <1>2, <1>3
<1>5. DOMAIN rows = 1..n
  BY <1>1, <1>2
<1>6. ASSUME NEW k \in D PROVE \E i \in DOMAIN rows : rows[i].key = k
  <2>1. PICK j \in DOMAIN Keys : Keys[j] = k
    BY <1>6 DEF ToSet
  <2>2. PICK l \in 1..n : o[l] = j
    BY <1>3, <1>6, <2>1
  <2>3. l \in DOMAIN rows /\ rows[l].key = k
    BY <1>4, <1>5, <2>1, <2>2
  <2> QED BY <2>3
<1>7. {rows[i].key : i \in DOMAIN rows} = D
  <2>1. \A i \in DOMAIN rows : rows[i].key \in D
    BY <1>4, <1>5
  <2> HIDE DEF D
  <2> QED BY <1>6, <2>1
<1>8. ASSUME NEW i \in DOMAIN rows, NEW j \in DOMAIN rows
      PROVE  /\ rows[i].key = rows[j].key => i = j
             /\ rows[i].key \in ToSet(OtherAnnotations) /\ rows[j].key \in ToSet(KnownAnnotations)
                   => j < i
  <2>1. i \in Int /\ j \in Int /\ i \in 1..n /\ j \in 1..n
    BY <1>5
  <2>2. o[i] \in Int /\ o[j] \in Int
    BY <1>4, <2>1, KeysPlaced
  <2>3. (i < j => o[i] < o[j]) /\ (j < i => o[j] < o[i])
    BY <1>3, <2>1
  <2>4. rows[i].key = rows[j].key => o[i] = o[j]
    <3>1. \A k, l \in DOMAIN Keys : Keys[k] = Keys[l] => k = l
      BY KeyAssumption
    <3>2. /\ o[i] \in DOMAIN Keys /\ rows[i].key = Keys[o[i]]
          /\ o[j] \in DOMAIN Keys /\ rows[j].key = Keys[o[j]]
      BY <1>4, <2>1
    <3> QED BY <3>1, <3>2
  <2>5. rows[i].key \in ToSet(OtherAnnotations) /\ rows[j].key \in ToSet(KnownAnnotations)
           => o[j] < o[i]
    BY <1>4, <2>1, KeysPlaced
  <2> QED BY <2>1, <2>2, <2>3, <2>4, <2>5
<1>9. \A i \in DOMAIN rows : rows[i].value = IF rows[i].key \in DOMAIN notes
                                             THEN notes[rows[i].key] ELSE labels[rows[i].key]
  BY <1>4, <1>5
<1> QED BY <1>7, <1>8, <1>9 DEF Tabulates, rows

\* What a manifest that was fetched says of itself.
LEMMA FetchedBody ==
    ASSUME world \in Worlds, NEW STATE repo, NEW STATE ref, NEW STATE down, NEW fetch,
           NEW fetchConfig, FetchManifest(repo, ref, down, fetch, fetchConfig).out = "ok"
    PROVE  LET m == world.body[DigestOf(repo, ref)]
               u == FetchManifest(repo, ref, down, fetch, fetchConfig).u
           IN  /\ DigestOf(repo, ref) \in DOMAIN world.body
               /\ u.annotations = NotesOf(m) /\ u.config \in ConfigsOf(m)
               /\ u.type = "index" <=> IsIndex(m.mediaType)
<1> DEFINE d == DigestOf(repo, ref)
           m == world.body[d]
           digest == IF world.header THEN Just(d) ELSE Nothing
           c == FetchConfig(m, fetchConfig \in down)
           u == ToUnified(m, digest, c.config)
           got == FetchManifest(repo, ref, down, fetch, fetchConfig)
           config == c.config
<1>1. c.out \in {"ok", "crash"}
  BY ConfigOutcome
<1>2. got = IF fetch \in down \/ ~ Exists(repo, ref) THEN Failed("error")
            ELSE IF c.out # "ok" THEN c
            ELSE IF ClassifyMediaType(m.mediaType) = "unknown" THEN Failed("error")
            ELSE IF ~ m.valid THEN Failed("crash")
            ELSE [out |-> "ok", u |-> u]
  BY DEF FetchManifest, Parse
<1>3. Failed("error").out = "error" /\ Failed("crash").out = "crash"
  BY DEF Failed
<1>4. got.u = u /\ Exists(repo, ref) /\ c.out = "ok" /\ ClassifyMediaType(m.mediaType) # "unknown"
  <2> HIDE DEF c, u, m
  <2>1. [out |-> "ok", u |-> u].u = u
    OBVIOUS
  <2>2. got.out = "ok"
    OBVIOUS
  <2> HIDE DEF got
  <2> QED BY <1>1, <1>2, <1>3, <2>1, <2>2
<1>5. d \in DOMAIN world.body
  BY <1>4 DEF Exists, Has
<1>6. m.config = Nothing \/ \E k \in DOMAIN world.config : m.config = Just(k)
  BY <1>5, BodiesAssumption
<1>7. HasConfigBlob(m.mediaType) => config \in ConfigsOf(m)
  <2> SUFFICES ASSUME HasConfigBlob(m.mediaType) PROVE config \in ConfigsOf(m)
    OBVIOUS
  <2>1. config = Nothing \/ (m.config # Nothing /\ config = Just(world.config[m.config[1]]))
    <3>1. \A x : [out |-> "ok", config |-> x].config = x /\ [out |-> "ok", config |-> x].out = "ok"
      OBVIOUS
    <3>2. c = IF ~ HasConfigBlob(ClassifyMediaType(m.mediaType)) \/ m.config = Nothing
                 \/ fetchConfig \in down
              THEN [out |-> "ok", config |-> Nothing]
              ELSE IF ~ world.config[m.config[1]].valid THEN Failed("crash")
              ELSE [out |-> "ok", config |-> Just(world.config[m.config[1]])]
      BY DEF FetchConfig
    <3> HIDE DEF c, m
    <3> QED BY <1>3, <1>4, <3>1, <3>2
  <2> HIDE DEF m, config
  <2>2. ASSUME NEW k, m.config = Just(k) PROVE m.config[1] = k /\ k \in ToSet(m.config)
    BY <2>2, Options, InJust
  <2>3. ConfigsOf(m) = {Nothing} \cup {Just(world.config[k]) : k \in ToSet(m.config)}
    <3>1. m.mediaType # "docker_v1"
      BY DEF HasConfigBlob
    <3> QED BY <3>1 DEF ConfigsOf
  <2> QED BY <1>6, <2>1, <2>2, <2>3
<1> HIDE DEF config, got, d, digest
<1>8. /\ FromIndex(m, digest).annotations = NotesOf(m) /\ FromIndex(m, digest).config = Nothing
      /\ FromIndex(m, digest).type = "index"
  BY DEF FromIndex, Unified, NotesOf
<1>9. /\ FromImage(m, digest, config).annotations = NotesOf(m)
      /\ FromImage(m, digest, config).config = config
      /\ FromImage(m, digest, config).type = "image"
  BY DEF FromImage, Unified, NotesOf
<1>10. /\ FromSchema1(m, digest).annotations = NotesOf(m)
       /\ FromSchema1(m, digest).config = SynthesizeImageConfigFromV1(m)
       /\ FromSchema1(m, digest).type = "image"
  BY DEF FromSchema1, Unified, NotesOf
<1>11. /\ ClassifyMediaType(m.mediaType) = m.mediaType
       /\ m.mediaType \in {"oci_index", "oci_image", "docker_list", "docker_v2", "docker_v1"}
  <2> HIDE DEF m
  <2> QED BY <1>4 DEF ClassifyMediaType
<1>12. u = IF IsIndex(m.mediaType) THEN FromIndex(m, digest)
           ELSE IF HasConfigBlob(m.mediaType) THEN FromImage(m, digest, config)
           ELSE FromSchema1(m, digest)
  BY <1>11 DEF ToUnified, config
<1> HIDE DEF u, m
<1>13. ~ IsIndex(m.mediaType) /\ ~ HasConfigBlob(m.mediaType) => m.mediaType = "docker_v1"
  BY <1>11 DEF IsIndex, HasConfigBlob
<1>14. Nothing \in ConfigsOf(m)
  BY DEF ConfigsOf
<1>15. m.mediaType = "docker_v1" => SynthesizeImageConfigFromV1(m) \in ConfigsOf(m)
  BY DEF ConfigsOf, HasConfigBlob
<1>16. CASE IsIndex(m.mediaType)
  <2>1. u.annotations = NotesOf(m) /\ u.config \in ConfigsOf(m) /\ u.type = "index"
    BY <1>8, <1>12, <1>14, <1>16
  <2> QED BY <1>4, <1>5, <1>16, <2>1 DEF m, d, got
<1>17. CASE ~ IsIndex(m.mediaType)
  <2>1. u.annotations = NotesOf(m) /\ u.config \in ConfigsOf(m) /\ u.type = "image"
    BY <1>7, <1>9, <1>10, <1>12, <1>13, <1>15, <1>17
  <2> QED BY <1>4, <1>5, <1>17, <2>1 DEF m, d, got
<1> QED BY <1>16, <1>17

LEMMA KeysKnown ==
    ASSUME world \in Worlds, NEW STATE d, d \in DOMAIN world.body, NEW STATE config,
           config \in ConfigsOf(world.body[d])
    PROVE  /\ DOMAIN NotesOf(world.body[d]) \subseteq ToSet(Keys)
           /\ DOMAIN LabelsOf(config) \subseteq ToSet(Keys)
<1> DEFINE m == world.body[d]
<1>1. DOMAIN << >> = {}
  OBVIOUS
<1>2. /\ DOMAIN m.annotations \subseteq ToSet(Keys)
      /\ \A s \in ToSet(m.history) : DOMAIN s.labels \subseteq ToSet(Keys)
      /\ m.history \in Seq(ToSet(m.history))
      /\ m.config = Nothing \/ \E c \in DOMAIN world.config : m.config = Just(c)
      /\ \A c \in DOMAIN world.config : DOMAIN world.config[c].labels \subseteq ToSet(Keys)
  BY BodiesAssumption
<1> HIDE DEF m
<1>3. DOMAIN NotesOf(m) \subseteq ToSet(Keys)
  BY <1>1, <1>2 DEF NotesOf
<1>4. config \in ConfigsOf(m)
  BY DEF m
<1>5. ASSUME NEW STATE x, config = Just(x), DOMAIN x.labels \subseteq ToSet(Keys)
      PROVE  DOMAIN LabelsOf(config) \subseteq ToSet(Keys)
  <2>1. LabelsOf(config) = x.labels
    BY <1>5, Options DEF LabelsOf
  <2> QED BY <1>5, <2>1
<1> DEFINE Goal == DOMAIN LabelsOf(config) \subseteq ToSet(Keys)
<1>6. ASSUME config = Nothing PROVE Goal
  BY <1>1, <1>6 DEF LabelsOf
<1>7. ASSUME config # Nothing /\ HasConfigBlob(m.mediaType) PROVE Goal
  <2>1. m.mediaType # "docker_v1"
    BY <1>7 DEF HasConfigBlob
  <2>2. PICK k \in ToSet(m.config) : config = Just(world.config[k])
    BY <1>4, <1>7, <2>1 DEF ConfigsOf
  <2>3. k \in DOMAIN world.config
    BY <1>2, <2>2, InJust, InNothing
  <2> QED BY <1>2, <1>5, <2>2, <2>3
<1>8. ASSUME config # Nothing /\ ~ HasConfigBlob(m.mediaType) PROVE Goal
  <2>1. config = SynthesizeImageConfigFromV1(m)
    BY <1>4, <1>8 DEF ConfigsOf
  <2> DEFINE first == m.history[1]
             c == [valid |-> TRUE, labels |-> first.labels, history |-> BuildV1History(m),
                   platform |-> [architecture |-> IF first.arch = "" THEN m.arch ELSE first.arch,
                                 os |-> IF first.os = "" THEN "linux" ELSE first.os]]
  <2>2. config = Just(c) /\ m.history # << >>
    BY <1>8, <2>1 DEF SynthesizeImageConfigFromV1
  <2>3. first \in ToSet(m.history)
    <3> DEFINE h == m.history
    <3>1. h \in Seq(ToSet(h)) /\ h # << >>
      BY <1>2, <2>2
    <3> HIDE DEF h
    <3>2. Len(h) \in Nat \ {0} /\ DOMAIN h = 1..Len(h)
      BY <3>1, EmptySeq
    <3> QED BY <3>2 DEF ToSet, h
  <2>4. c.labels = first.labels
    OBVIOUS
  <2>5. DOMAIN c.labels \subseteq ToSet(Keys)
    BY <1>2, <2>3, <2>4
  <2> HIDE DEF c
  <2> QED BY <1>5, <2>2, <2>5
<1> QED BY <1>3, <1>6, <1>7, <1>8 DEF m

\* The rows of a manifest that was fetched are the table of what it says.
LEMMA RowsTabulate ==
    ASSUME world \in Worlds, NEW STATE repo, NEW STATE ref, NEW STATE down, NEW fetch,
           NEW fetchConfig, FetchManifest(repo, ref, down, fetch, fetchConfig).out = "ok"
    PROVE  LET u == FetchManifest(repo, ref, down, fetch, fetchConfig).u IN
           Tabulates(AnnotationRows(u), NotesOf(world.body[DigestOf(repo, ref)]),
                     LabelsOf(u.config))
<1> DEFINE d == DigestOf(repo, ref)
           u == FetchManifest(repo, ref, down, fetch, fetchConfig).u
           notes == NotesOf(world.body[d])
           labels == LabelsOf(u.config)
<1>1. /\ d \in DOMAIN world.body /\ u.annotations = notes /\ u.config \in ConfigsOf(world.body[d])
  BY FetchedBody
<1>2. DOMAIN notes \subseteq ToSet(Keys) /\ DOMAIN labels \subseteq ToSet(Keys)
  <2> HIDE DEF d, u
  <2> QED BY <1>1, KeysKnown
<1>3. AnnotationRows(u) = MergeAnnotations(notes, labels)
  <2> HIDE DEF u, notes
  <2> QED BY <1>1 DEF AnnotationRows, LabelsOf, Nothing
<1> HIDE DEF notes, labels, u, d
<1>4. Tabulates(MergeAnnotations(notes, labels), notes, labels)
  BY <1>2, MergeTabulates
<1> QED BY <1>3, <1>4 DEF notes, labels, u, d

LEMMA NothingTabulated ==
    ASSUME NEW notes, NEW labels, Tabulates(<< >>, notes, labels)
    PROVE  DOMAIN notes = {}
BY DEF Tabulates

\* AnnotationsHonest, of one panel.
Honest(p) ==
    p.kind = "shown" =>
        IF p.source = Nothing
        THEN /\ p.u[1].config \in ConfigsOf(BodyOf(p))
             /\ Tabulates(p.annotations, NotesOf(BodyOf(p)), LabelsOf(p.u[1].config))
        ELSE /\ IsIndex(BodyOf(p).mediaType) /\ DOMAIN NotesOf(BodyOf(p)) = {}
             /\ p.annotations # << >> /\ p.source[1] # UnknownPlatform
             /\ \E e \in ToSet(BodyOf(p).entries) :
                  /\ e.platform = p.source
                  /\ \E config \in ConfigsOf(world.body[e.digest]) :
                        Tabulates(p.annotations, NotesOf(world.body[e.digest]), LabelsOf(config))
             /\ (\E e \in ToSet(BodyOf(p).entries) : e.platform = Just(LocalPlatform)) =>
                  p.source = Just(LocalPlatform)

\* What _annotation_rows_with_fallback comes to: a manifest's own rows, or its child's.
LEMMA NotesAre ==
    ASSUME NEW STATE repo, NEW STATE u, NEW STATE down,
           AnnotationsWithFallback(repo, u, down).out = "ok"
    PROVE  LET notes == AnnotationsWithFallback(repo, u, down)
               pick == FallbackPick(u.platforms)
               child == FetchManifest(repo, pick[1].digest[1], down, "child", "childConfig")
           IN  \/ notes.source = Nothing /\ notes.rows = AnnotationRows(u)
               \/ /\ u.type = "index" /\ AnnotationRows(u) = << >> /\ pick # Nothing
                  /\ child.out = "ok" /\ notes.rows = AnnotationRows(child.u)
                  /\ notes.rows # << >> /\ notes.source = Just(pick[1].platform)
<1> DEFINE notes == AnnotationsWithFallback(repo, u, down)
           pick == FallbackPick(u.platforms)
           child == FetchManifest(repo, pick[1].digest[1], down, "child", "childConfig")
           own == AnnotationRows(u)
           rows == AnnotationRows(child.u)
           source == Just(pick[1].platform)
<1>1. child.out \in {"ok", "error", "crash"}
  BY FetchOutcome
<1>2. notes = IF own # << >> \/ u.type # "index" THEN [NoAnnotations EXCEPT !.rows = own]
              ELSE IF pick = Nothing THEN NoAnnotations
              ELSE ChildAnnotations(pick[1].platform, child)
  BY DEF AnnotationsWithFallback
<1>3. ChildAnnotations(pick[1].platform, child)
         = IF child.out = "crash" THEN child
           ELSE IF child.out = "error" \/ rows = << >> THEN NoAnnotations
           ELSE [NoAnnotations EXCEPT !.rows = rows, !.source = source]
  BY DEF ChildAnnotations
<1>4. notes.out = "ok"
  OBVIOUS
<1> HIDE DEF notes, pick, child, own, rows, source
<1>5. /\ NoAnnotations.rows = << >> /\ NoAnnotations.source = Nothing
      /\ [NoAnnotations EXCEPT !.rows = own].rows = own
      /\ [NoAnnotations EXCEPT !.rows = own].source = Nothing
      /\ [NoAnnotations EXCEPT !.rows = rows, !.source = source].rows = rows
      /\ [NoAnnotations EXCEPT !.rows = rows, !.source = source].source = source
  BY DEF NoAnnotations
<1>6. \/ notes.source = Nothing /\ notes.rows = own
      \/ /\ u.type = "index" /\ own = << >> /\ pick # Nothing /\ child.out = "ok"
         /\ notes.rows = rows /\ notes.rows # << >> /\ notes.source = source
  BY SMTT(30), <1>1, <1>2, <1>3, <1>4, <1>5
<1> QED BY <1>6 DEF notes, pick, child, own, rows, source

LEMMA FetchedHonest ==
    ASSUME world \in Worlds, NEW STATE p, p.repo \in Real,
           Outcome(p, FetchManifest(p.repo, p.asked, p.down, "manifest", "config"))
    PROVE  Honest(p)
<1> DEFINE got == FetchManifest(p.repo, p.asked, p.down, "manifest", "config")
           u == got.u
           notes == AnnotationsWithFallback(p.repo, u, p.down)
           d == DigestOf(p.repo, p.asked)
           m == world.body[d]
           pick == FallbackPick(u.platforms)
           name == pick[1].digest[1]
           child == FetchManifest(p.repo, name, p.down, "child", "childConfig")
           body == world.body[DigestOf(p.repo, name)]
<1> SUFFICES ASSUME p.kind = "shown" PROVE Honest(p)
  BY DEF Honest
<1>1. /\ got.out = "ok" /\ p.u = Just(u) /\ p.annotations = notes.rows
      /\ p.source = notes.source /\ notes.out = "ok"
  BY DEF Outcome
<1>2. BodyOf(p) = m /\ p.u[1] = u
  <2>1. Exists(p.repo, p.asked)
    BY <1>1, FetchBlame
  <2>2. p.found = Reading(p.repo, p.asked)
    BY DEF Outcome
  <2> HIDE DEF u
  <2> QED BY <1>1, <2>1, <2>2, FoundBody, Options
<1>3. /\ d \in DOMAIN world.body /\ u.annotations = NotesOf(m) /\ u.config \in ConfigsOf(m)
      /\ u.type = "index" <=> IsIndex(m.mediaType)
  BY <1>1, FetchedBody
<1>4. Tabulates(AnnotationRows(u), NotesOf(m), LabelsOf(u.config))
  BY SMTT(30), <1>1, RowsTabulate
<1>5. \/ notes.source = Nothing /\ notes.rows = AnnotationRows(u)
      \/ /\ u.type = "index" /\ AnnotationRows(u) = << >> /\ pick # Nothing
         /\ child.out = "ok" /\ notes.rows = AnnotationRows(child.u)
         /\ notes.rows # << >> /\ notes.source = Just(pick[1].platform)
  BY <1>1, NotesAre
<1>6. CASE notes.source = Nothing /\ notes.rows = AnnotationRows(u)
  <2> HIDE DEF notes, u, m
  <2> QED BY <1>1, <1>2, <1>3, <1>4, <1>6 DEF Honest
<1>7. CASE /\ u.type = "index" /\ AnnotationRows(u) = << >> /\ pick # Nothing
           /\ child.out = "ok" /\ notes.rows = AnnotationRows(child.u)
           /\ notes.rows # << >> /\ notes.source = Just(pick[1].platform)
  <2> DEFINE entries == m.entries
             platform == pick[1].platform
  <2>1. u.platforms = PlatformsFromIndex(entries)
    BY <1>1, <1>7, FetchedIndex
  <2>2. entries \in Seq(ToSet(entries))
    BY <1>3, WorldsAssumption
  <2>3. \A e \in ToSet(entries) :
           /\ \A repo \in DOMAIN world.tag : e.digest \notin DOMAIN world.tag[repo]
           /\ e.platform = Nothing \/ e.platform = Just(e.platform[1])
    <3>1. \A e \in ToSet(entries), repo \in DOMAIN world.tag :
             e.digest \notin DOMAIN world.tag[repo]
      BY <1>3, WorldsAssumption
    <3>2. \A e \in ToSet(entries) : e.platform = Nothing \/ e.platform = Just(e.platform[1])
      BY <1>3, BodiesAssumption
    <3> QED BY Zenon, <3>1, <3>2
  <2>4. PICK i \in DOMAIN entries :
           /\ pick[1] = PlatformsFromIndex(entries)[i] /\ pick[1].digest = Just(entries[i].digest)
           /\ platform # UnknownPlatform \/ platform = LocalPlatform
           /\ (\E j \in DOMAIN entries : PlatformsFromIndex(entries)[j].platform = LocalPlatform)
                 => platform = LocalPlatform
    <3> HIDE DEF entries, u
    <3>1. pick = FallbackPick(PlatformsFromIndex(entries))
      BY <2>1
    <3> HIDE DEF pick
    <3> QED BY <1>7, <2>2, <3>1, PickIsEntry
  <2>5. \A j \in DOMAIN entries :
           PlatformsFromIndex(entries)[j].platform
              = IF entries[j].platform = Nothing THEN UnknownPlatform ELSE entries[j].platform[1]
    BY DEF PlatformsFromIndex
  <2> DEFINE e == entries[i]
  <2>6. e \in ToSet(entries) /\ \A x \in ToSet(entries) : \E j \in DOMAIN entries : x = entries[j]
    <3> HIDE DEF entries
    <3> QED BY DEF ToSet
  <2> HIDE DEF entries, pick, e
  <2>7. platform # UnknownPlatform
    BY <2>4, PlatformAssumption
  <2>8. e.platform = Just(platform)
    <3>1. platform = IF e.platform = Nothing THEN UnknownPlatform ELSE e.platform[1]
      BY <2>4, <2>5 DEF e
    <3> QED BY <2>3, <2>6, <2>7, <3>1
  <2>9. DigestOf(p.repo, name) = e.digest
    <3>1. name = e.digest
      BY <2>4, Options DEF e
    <3>2. p.repo \in DOMAIN world.tag
      BY WorldsAssumption DEF Real
    <3> HIDE DEF name
    <3> QED BY <2>3, <2>6, <3>1, <3>2 DEF DigestOf, Reads, IsTag
  <2>10. /\ child.u.config \in ConfigsOf(world.body[e.digest])
         /\ Tabulates(notes.rows, NotesOf(world.body[e.digest]), LabelsOf(child.u.config))
    <3>1. child.u.config \in ConfigsOf(body)
      BY <1>7, FetchedBody
    <3>2. Tabulates(AnnotationRows(child.u), NotesOf(body), LabelsOf(child.u.config))
      BY <1>7, RowsTabulate
    <3> HIDE DEF name, child, notes
    <3> QED BY <1>7, <2>9, <3>1, <3>2
  <2>11. (\E x \in ToSet(entries) : x.platform = Just(LocalPlatform)) => platform = LocalPlatform
    <3> SUFFICES ASSUME NEW x \in ToSet(entries), x.platform = Just(LocalPlatform)
                 PROVE  platform = LocalPlatform
      OBVIOUS
    <3>1. PICK j \in DOMAIN entries : x = entries[j]
      BY <2>6
    <3>2. PlatformsFromIndex(entries)[j].platform = LocalPlatform
      BY <2>5, <3>1, Options
    <3> QED BY <2>4, <3>2
  <2>12. DOMAIN NotesOf(m) = {} /\ IsIndex(m.mediaType)
    <3> HIDE DEF u, m
    <3> QED BY <1>3, <1>4, <1>7, NothingTabulated
  <2>13. p.source = Just(platform) /\ p.source[1] = platform /\ p.source # Nothing
         /\ p.annotations = notes.rows /\ p.annotations # << >>
    BY <1>1, <1>7, Options
  <2> HIDE DEF m, notes, child, platform
  <2>14. \E x \in ToSet(m.entries) :
            /\ x.platform = p.source
            /\ \E config \in ConfigsOf(world.body[x.digest]) :
                  Tabulates(p.annotations, NotesOf(world.body[x.digest]), LabelsOf(config))
    BY <2>6, <2>8, <2>10, <2>13 DEF entries
  <2> QED BY <1>2, <2>7, <2>11, <2>12, <2>13, <2>14 DEF Honest, entries
<1> QED BY <1>5, <1>6, <1>7

LEMMA BornHonest ==
    ASSUME world \in Worlds, NEW STATE p, Born(p)
    PROVE  Honest(p)
<1>1. ASSUME NEW repo, Hint(p, repo) \/ Shadow(p, repo) PROVE Honest(p)
  <2>1. \E kind, ref, asked, down : kind # "shown" /\ p = BlankPanel(kind, repo, ref, asked, down)
    BY <1>1 DEF Hint, Shadow
  <2>2. p.kind # "shown"
    BY <2>1, BlankFields
  <2> QED BY <2>2 DEF Honest
<1>2. ASSUME NEW repo \in Real, Fetched(p, repo) PROVE Honest(p)
  <2>1. PICK ref, platform, down : p = ManifestPanel(repo, ref, platform, down)
    BY <1>2 DEF Fetched
  <2>2. /\ p.repo = repo /\ p.repo \in Real
        /\ Outcome(p, FetchManifest(p.repo, p.asked, p.down, "manifest", "config"))
    BY <2>1, ManifestPanelIs
  <2> QED BY <2>2, FetchedHonest
<1>3. ASSUME NEW repo \in Real, Picked(p, repo) PROVE Honest(p)
  <2>1. PICK q, down : p = AutoPanel(FetchTags(repo, q),
                                     ManifestPanel(repo, FetchTags(repo, q)[1], Nothing, down))
    BY <1>3 DEF Picked
  <2> DEFINE tags == FetchTags(repo, q)
             m == ManifestPanel(repo, tags[1], Nothing, down)
  <2>2. /\ Whole(m) /\ m.repo = repo /\ m.repo \in Real
        /\ Outcome(m, FetchManifest(m.repo, m.asked, m.down, "manifest", "config"))
    BY ManifestPanelIs
  <2> HIDE DEF m
  <2>3. Honest(m)
    BY <2>2, FetchedHonest
  <2>4. /\ p.kind = (IF m.kind = "error" THEN "hint" ELSE m.kind)
        /\ p.found = m.found /\ p.u = m.u
        /\ p.annotations = m.annotations /\ p.source = m.source
    BY <2>1, <2>2, AutoPanelFields DEF m
  <2> QED BY <2>3, <2>4 DEF Honest, BodyOf
<1>5. ASSUME NEW repo \in Real, Torn(p, repo) PROVE Honest(p)
  <2>1. p.kind = "broken"
    BY <1>5, TornFields
  <2> QED BY <2>1 DEF Honest
<1> QED BY <1>1, <1>2, <1>3, <1>5 DEF Born

\* A panel stays true, since the registry's manifests do not change.
LEMMA HonestLasts ==
    ASSUME world' = world, NEW p, Honest(p)
    PROVE  Honest(p)'
<1>1. BodyOf(p)' = BodyOf(p)
  BY DEF BodyOf
<1>2. \A m : ConfigsOf(m)' = ConfigsOf(m)
  BY DEF ConfigsOf
<1> QED BY <1>1, <1>2 DEF Honest

HonestInv == PanelInv /\ \A p \in Panels : Honest(p)

LEMMA HonestInitInductive == Init => HonestInv
<1> SUFFICES ASSUME Init PROVE HonestInv
  OBVIOUS
<1>1. pending = {} /\ panel = BlankPanel("hint", "", "", "", {}) /\ Panels = {panel}
  BY DEF Init, Panels
<1>2. Honest(panel)
  <2>1. panel.kind = "hint"
    BY Zenon, <1>1 DEF BlankPanel
  <2> QED BY <2>1 DEF Honest
<1> QED BY <1>1, <1>2, PanelInitInductive DEF HonestInv

LEMMA HonestNextInductive == HonestInv /\ [Next]_vars => HonestInv'
<1> SUFFICES ASSUME HonestInv, [Next]_vars PROVE HonestInv'
  OBVIOUS
<1>1. Grown /\ PanelInv'
  BY PanelsGrow, PanelNextInductive DEF HonestInv, PanelInv
<1>2. world \in Worlds /\ world' = world
  BY RegistryStays DEF HonestInv, PanelInv, Places
<1>3. ASSUME NEW p \in Panels' PROVE Honest(p)
  BY <1>1, <1>2, BornHonest DEF Grown, Known, HonestInv
<1>4. (\A p \in Panels : Honest(p))'
  BY <1>2, <1>3, HonestLasts
<1> QED BY <1>1, <1>4 DEF HonestInv

\* The annotations shown are the manifest's own with its config's labels, and a
\* child's only beside the name of its platform: for an index that has none, from an
\* entry of it that is no attestation, and the host's own platform when the index
\* lists that (merge_annotations, _annotation_rows_with_fallback).
THEOREM AnnotationsOwned == Spec => []AnnotationsHonest
<1>1. HonestInv => AnnotationsHonest
  BY DEF HonestInv, Honest, AnnotationsHonest, Shown
<1> QED BY <1>1, HonestInitInductive, HonestNextInductive, PTL DEF Spec

-----------------------------------------------------------------------------
\* Layers.

\* Induction up to n, over a set.
LEMMA Upwards ==
    ASSUME NEW n \in Nat, NEW T, 0 \in T, \A i \in 1..n : i - 1 \in T => i \in T
    PROVE  0..n \subseteq T
<1> DEFINE B == (0..n) \ T
           m == Min(B)
<1>1. ASSUME B # {} PROVE FALSE
  <2>1. B \subseteq Nat
    OBVIOUS
  <2> HIDE DEF B
  <2>2. m \in B /\ \A y \in B : m <= y
    BY <1>1, <2>1, LeastNatural
  <2> HIDE DEF m
  <2>3. m \in 1..n /\ m \notin T
    BY <2>2 DEF B
  <2>4. m - 1 \in T
    BY <2>2, <2>3 DEF B
  <2> QED BY <2>3, <2>4
<1> QED BY <1>1

\* TotalSize adds the sizes up.
SumsUp(f, seq, n) ==
    f \in [0..n -> Int] /\ f[0] = 0 /\ \A i \in 1..n : f[i] = f[i - 1] + seq[i].size

LEMMA Sums ==
    ASSUME NEW seq, NEW R, seq \in Seq(R), \A i \in DOMAIN seq : seq[i].size \in Int
    PROVE  \E f : SumsUp(f, seq, Len(seq)) /\ TotalSize(seq) = f[Len(seq)]
<1> DEFINE n == Len(seq)
           T == {i \in 0..n : \E f : SumsUp(f, seq, i)}
           Step(f) == [k \in 0..n |-> IF k = 0 THEN 0 ELSE f[k - 1] + seq[k].size]
           sum == CHOOSE f : f = Step(f)
<1>1. n \in Nat /\ DOMAIN seq = 1..n
  OBVIOUS
<1> HIDE DEF n
<1>2. 0 \in T
  <2> DEFINE f == [k \in 0..0 |-> 0]
  <2>1. SumsUp(f, seq, 0)
    BY DEF SumsUp
  <2> QED BY <1>1, <2>1
<1>3. ASSUME NEW i \in 1..n, i - 1 \in T PROVE i \in T
  <2>1. PICK g : SumsUp(g, seq, i - 1)
    BY <1>3
  <2> DEFINE f == [k \in 0..i |-> IF k = i THEN g[i - 1] + seq[i].size ELSE g[k]]
  <2>2. i - 1 \in Nat /\ i \in Nat /\ seq[i].size \in Int
    BY <1>1
  <2>3. \A k \in 0..(i - 1) : g[k] \in Int
    BY <2>1 DEF SumsUp
  <2>4. f \in [0..i -> Int]
    BY <2>2, <2>3
  <2>5. f[0] = 0
    BY <2>1, <2>2 DEF SumsUp
  <2>6. ASSUME NEW k \in 1..i PROVE f[k] = f[k - 1] + seq[k].size
    <3>1. CASE k = i
      BY <2>2, <3>1
    <3>2. CASE k # i
      <4>1. k \in 1..(i - 1)
        BY <2>2, <3>2
      <4>2. g[k] = g[k - 1] + seq[k].size
        BY <2>1, <4>1 DEF SumsUp
      <4> QED BY <2>2, <3>2, <4>1, <4>2
    <3> QED BY <3>1, <3>2
  <2> HIDE DEF f
  <2>7. SumsUp(f, seq, i)
    BY <2>4, <2>5, <2>6 DEF SumsUp
  <2> QED BY <1>1, <2>7
<1> HIDE DEF T
<1>4. n \in T
  <2>1. 0..n \subseteq T
    BY <1>1, <1>2, <1>3, Upwards
  <2> QED BY <1>1, <2>1
<1>5. PICK f : SumsUp(f, seq, n)
  BY <1>4 DEF T
<1>6. f = Step(f)
  BY <1>1, <1>5 DEF SumsUp
<1>7. sum = Step(sum)
  <2> HIDE DEF Step
  <2> QED BY <1>6
<1> HIDE DEF sum
<1> DEFINE U == {i \in 0..n : sum[i] = f[i]}
<1>8. 0 \in U
  BY <1>1, <1>6, <1>7
<1>9. ASSUME NEW i \in 1..n, i - 1 \in U PROVE i \in U
  <2>1. i \in 0..n /\ i # 0
    BY <1>1
  <2>2. sum[i] = sum[i - 1] + seq[i].size
    BY <1>7, <2>1
  <2>3. f[i] = f[i - 1] + seq[i].size
    BY <1>5 DEF SumsUp
  <2> QED BY <1>9, <2>1, <2>2, <2>3
<1> HIDE DEF U
<1>10. n \in U
  <2>1. 0..n \subseteq U
    BY <1>1, <1>8, <1>9, Upwards
  <2> QED BY <1>1, <2>1
<1>11. TotalSize(seq) = sum[n]
  BY DEF TotalSize, sum, n
<1>12. TotalSize(seq) = f[n]
  BY <1>10, <1>11 DEF U
<1> QED BY <1>5, <1>12 DEF n

\* Counting members of S from 1 on.
LEMMA Counting ==
    ASSUME NEW S, NEW i \in Nat
    PROVE  /\ Cardinality(S \cap (1..i)) \in Nat
           /\ i = 0 => Cardinality(S \cap (1..i)) = 0
           /\ i # 0 => Cardinality(S \cap (1..i))
                          = Cardinality(S \cap (1..(i - 1))) + IF i \in S THEN 1 ELSE 0
<1>1. \A k \in Nat : IsFiniteSet(S \cap (1..k))
  <2> SUFFICES ASSUME NEW k \in Nat PROVE IsFiniteSet(S \cap (1..k))
    OBVIOUS
  <2>1. IsFiniteSet(1..k) /\ S \cap (1..k) \in SUBSET (1..k)
    BY FS_Interval
  <2> QED BY <2>1, FS_Subset
<1>2. Cardinality(S \cap (1..i)) \in Nat
  BY <1>1, FS_CardinalityType
<1>3. i = 0 => S \cap (1..i) = {}
  OBVIOUS
<1>4. ASSUME i # 0 PROVE Cardinality(S \cap (1..i))
                          = Cardinality(S \cap (1..(i - 1))) + IF i \in S THEN 1 ELSE 0
  <2> DEFINE X == S \cap (1..(i - 1))
  <2>1. IsFiniteSet(X) /\ i \notin X
    BY <1>1, <1>4
  <2>2. Cardinality(X) \in Nat
    BY <2>1, FS_CardinalityType
  <2>3. i \in S => S \cap (1..i) = X \cup {i}
    BY <1>4
  <2>4. i \notin S => S \cap (1..i) = X
    BY <1>4
  <2> HIDE DEF X
  <2>5. Cardinality(X \cup {i}) = Cardinality(X) + 1
    BY <2>1, FS_AddElement
  <2>6. Cardinality(S \cap (1..i)) = Cardinality(X) + IF i \in S THEN 1 ELSE 0
    <3>1. CASE i \in S
      BY <2>2, <2>3, <2>5, <3>1
    <3>2. CASE i \notin S
      <4>1. Cardinality(S \cap (1..i)) = Cardinality(X)
        BY Zenon, <2>4, <3>2
      <4> QED BY <2>2, <3>2, <4>1
    <3> QED BY <3>1, <3>2
  <2> QED BY <2>6 DEF X
<1> QED BY <1>2, <1>3, <1>4, FS_EmptySet

\* Rows that are the layers in order, with rows of no layer between them: place[i] is
\* how many layers there are up to row i.
Threads(rows, layers, place) ==
    /\ place \in [0..Len(rows) -> 0..Len(layers)]
    /\ place[0] = 0 /\ place[Len(rows)] = Len(layers)
    /\ \A i \in 1..Len(rows) :
          \/ /\ place[i] = place[i - 1] + 1
             /\ rows[i].digest = Just(layers[place[i]].digest)
             /\ rows[i].size = layers[place[i]].size
          \/ place[i] = place[i - 1] /\ rows[i].digest = Nothing /\ rows[i].size = 0

Blobs(rows) == Kept(rows, {i \in DOMAIN rows : rows[i].digest # Nothing})

LEMMA ThreadedOrder ==
    ASSUME NEW STATE L, NEW STATE layers, layers \in Seq(L),
           NEW STATE R, NEW STATE rows, rows \in Seq(R),
           NEW STATE place, Threads(rows, layers, place)
    PROVE  [i \in DOMAIN Blobs(rows) |-> Blobs(rows)[i].digest[1]]
              = [i \in DOMAIN layers |-> layers[i].digest]
<1> DEFINE n == Len(rows)
           N == Len(layers)
           S == {i \in DOMAIN rows : rows[i].digest # Nothing}
           Count(i) == Cardinality(S \cap (1..i))
           T == {i \in 0..n : Count(i) = place[i]}
           blobs == Blobs(rows)
<1>1. /\ n \in Nat /\ N \in Nat /\ DOMAIN rows = 1..n /\ DOMAIN layers = 1..N
  OBVIOUS
<1>2. /\ place \in [0..n -> 0..N] /\ place[0] = 0 /\ place[n] = N
  BY DEF Threads
<1>3. ASSUME NEW i \in 1..n
      PROVE  /\ i \in S => place[i] = place[i - 1] + 1 /\ rows[i].digest = Just(layers[place[i]].digest)
             /\ i \notin S => place[i] = place[i - 1]
  <2>1. \/ place[i] = place[i - 1] + 1 /\ rows[i].digest = Just(layers[place[i]].digest)
        \/ place[i] = place[i - 1] /\ rows[i].digest = Nothing
    BY DEF Threads
  <2>2. Just(layers[place[i]].digest) # Nothing
    BY Options
  <2>3. i \in S <=> rows[i].digest # Nothing
    BY <1>1
  <2> QED BY <2>1, <2>2, <2>3
<1>4. S \subseteq 1..n
  BY <1>1
<1> HIDE DEF n, N, S
<1>5. 0 \in T
  BY SMTT(30), <1>1, <1>2, Counting
<1>6. ASSUME NEW i \in 1..n, i - 1 \in T PROVE i \in T
  <2>1. i \in Nat /\ i # 0 /\ i \in 0..n
    BY <1>1
  <2>2. Count(i) = Count(i - 1) + IF i \in S THEN 1 ELSE 0
    BY <2>1, Counting
  <2>3. Count(i - 1) = place[i - 1] /\ place[i - 1] \in Nat
    BY <1>1, <1>2, <1>6
  <2> HIDE DEF Count
  <2> QED BY <1>3, <2>1, <2>2, <2>3
<1>7. \A i \in 0..n : Count(i) = place[i]
  <2> HIDE DEF T, Count
  <2>1. 0..n \subseteq T
    BY <1>1, <1>5, <1>6, Upwards
  <2> QED BY <2>1 DEF T
<1>8. Cardinality(S) = N
  <2>1. S \cap (1..n) = S
    BY Zenon, <1>4
  <2>2. n \in 0..n
    BY <1>1
  <2> QED BY <1>2, <1>7, <2>1, <2>2
<1>9. /\ DOMAIN blobs = 1..N
      /\ \A k \in 1..N : \E i \in S : blobs[k] = rows[i] /\ Cardinality(Below(S, i)) = k - 1
  <2>1. S \subseteq DOMAIN rows /\ rows \in Seq(R)
    BY <1>1, <1>4
  <2>2. blobs = Kept(rows, S)
    BY DEF Blobs, S
  <2> HIDE DEF blobs
  <2> QED BY <1>8, <2>1, <2>2, KeptRanks
<1> HIDE DEF blobs
<1>10. ASSUME NEW k \in 1..N PROVE blobs[k].digest[1] = layers[k].digest
  <2>1. PICK x \in S : blobs[k] = rows[x] /\ Cardinality(Below(S, x)) = k - 1
    BY <1>9
  <2>2. x \in 1..n /\ x - 1 \in 0..n
    BY <1>1, <1>4
  <2>3. Below(S, x) = S \cap (1..(x - 1))
    <3>1. \A i \in 1..n : i < x <=> i \in 1..(x - 1)
      BY <1>1, <2>2
    <3>2. \A i \in S : i \in 1..n
      BY <1>4
    <3> QED BY <3>1, <3>2 DEF Below
  <2>4. place[x - 1] = k - 1
    BY <1>7, <2>1, <2>2, <2>3
  <2>5. place[x] = k
    BY <1>1, <1>3, <2>2, <2>4
  <2>6. rows[x].digest = Just(layers[k].digest)
    BY <1>3, <2>2, <2>5
  <2>7. Just(layers[k].digest)[1] = layers[k].digest
    BY Options
  <2> QED BY <2>1, <2>6, <2>7
<1>11. [i \in DOMAIN blobs |-> blobs[i].digest[1]] = [i \in DOMAIN layers |-> layers[i].digest]
  BY <1>1, <1>9, <1>10 DEF N
<1> QED BY <1>11 DEF blobs

LEMMA ThreadedSize ==
    ASSUME NEW STATE L, NEW STATE layers, layers \in Seq(L),
           \A i \in DOMAIN layers : layers[i].size \in Int,
           NEW STATE R, NEW STATE rows, rows \in Seq(R),
           NEW STATE place, Threads(rows, layers, place)
    PROVE  TotalSize(rows) = TotalSize(layers)
<1> DEFINE n == Len(rows)
           N == Len(layers)
<1>1. /\ n \in Nat /\ N \in Nat /\ DOMAIN rows = 1..n /\ DOMAIN layers = 1..N
  OBVIOUS
<1>2. place \in [0..n -> 0..N] /\ place[0] = 0 /\ place[n] = N
  BY DEF Threads
<1>3. ASSUME NEW i \in 1..n
      PROVE  \/ place[i] = place[i - 1] + 1 /\ rows[i].size = layers[place[i]].size
             \/ place[i] = place[i - 1] /\ rows[i].size = 0
  BY DEF Threads
<1>4. ASSUME NEW i \in 1..n
      PROVE  /\ i \in 0..n /\ i - 1 \in 0..n /\ place[i] \in 0..N /\ place[i - 1] \in 0..N
             /\ place[i] = place[i - 1] + 1 => place[i] \in 1..N
  <2>1. i \in 0..n /\ i - 1 \in 0..n
    BY <1>1
  <2>2. place[i] \in 0..N /\ place[i - 1] \in 0..N
    BY <1>2, <2>1
  <2> QED BY <1>1, <2>1, <2>2
<1>5. \A i \in DOMAIN rows : rows[i].size \in Int
  <2> SUFFICES ASSUME NEW i \in 1..n PROVE rows[i].size \in Int
    BY <1>1
  <2>1. \A k \in 1..N : layers[k].size \in Int
    BY <1>1
  <2> HIDE DEF n, N
  <2>2. CASE place[i] = place[i - 1] + 1 /\ rows[i].size = layers[place[i]].size
    <3>1. place[i] \in 1..N
      BY <1>4, <2>2
    <3>2. layers[place[i]].size \in Int
      BY <2>1, <3>1
    <3> QED BY <2>2, <3>2
  <2>3. CASE rows[i].size = 0
    BY <2>3
  <2> QED BY <1>3, <2>2, <2>3
<1>6. PICK f : SumsUp(f, rows, n) /\ TotalSize(rows) = f[n]
  BY <1>5, Sums
<1>7. PICK g : SumsUp(g, layers, N) /\ TotalSize(layers) = g[N]
  BY Sums
<1> HIDE DEF n, N
<1> DEFINE T == {i \in 0..n : f[i] = g[place[i]]}
<1>8. 0 \in T
  BY <1>1, <1>2, <1>6, <1>7 DEF SumsUp
<1>9. ASSUME NEW i \in 1..n, i - 1 \in T PROVE i \in T
  <2>1. f[i] = f[i - 1] + rows[i].size /\ f[i - 1] \in Int
    BY <1>4, <1>6 DEF SumsUp
  <2>2. place[i] \in 1..N => g[place[i]] = g[place[i] - 1] + layers[place[i]].size
    BY <1>7 DEF SumsUp
  <2>3. f[i - 1] = g[place[i - 1]]
    BY <1>9
  <2>4. CASE place[i] = place[i - 1] + 1 /\ rows[i].size = layers[place[i]].size
    <3>1. place[i] - 1 = place[i - 1] /\ place[i] \in 1..N
      BY SMTT(30), <1>4, <2>4
    <3>2. f[i] = g[place[i]]
      BY <2>1, <2>2, <2>3, <2>4, <3>1
    <3> QED BY <1>4, <3>2
  <2>5. CASE place[i] = place[i - 1] /\ rows[i].size = 0
    <3>1. f[i] = g[place[i]]
      BY <2>1, <2>3, <2>5
    <3> QED BY <1>4, <3>1
  <2> QED BY <1>3, <2>4, <2>5
<1> HIDE DEF T
<1>10. 0..n \subseteq T
  BY <1>1, <1>8, <1>9, Upwards
<1>11. f[n] = g[place[n]]
  BY <1>1, <1>10 DEF T
<1> QED BY <1>2, <1>6, <1>7, <1>11

\* The rows without a layer, and the row of a layer.
LEMMA RowFields ==
    ASSUME NEW STATE layer, NEW STATE word
    PROVE  /\ RowFromLayer(layer).instruction = "" /\ RowFromLayer(layer).empty = FALSE
           /\ RowFromLayer(layer).digest = Just(layer.digest)
           /\ RowFromLayer(layer).size = layer.size
           /\ [RowFromLayer(layer) EXCEPT !.instruction = word].instruction = word
           /\ [RowFromLayer(layer) EXCEPT !.instruction = word].empty = FALSE
           /\ [RowFromLayer(layer) EXCEPT !.instruction = word].digest = Just(layer.digest)
           /\ [RowFromLayer(layer) EXCEPT !.instruction = word].size = layer.size
BY DEF RowFromLayer

\* A row per history step, of the layer it made if that is there.
NarratedRow(layers, history, i) ==
    LET l == Cardinality({j \in 1..i : ~ history[j].empty}) IN
    IF ~ history[i].empty /\ l <= Len(layers)
    THEN [RowFromLayer(layers[l]) EXCEPT !.instruction = ParseCreatedBy(history[i].by)]
    ELSE [instruction |-> ParseCreatedBy(history[i].by), empty |-> history[i].empty,
          digest |-> Nothing, size |-> 0, large |-> FALSE]

\* Where the elements of two sequences come to stand when they are joined.
Joins(A, s, t) ==
    /\ s \o t \in Seq(A) /\ Len(s \o t) = Len(s) + Len(t)
    /\ \A i \in 1..Len(s) : (s \o t)[i] = s[i]
    /\ \A i \in 1..Len(t) : (s \o t)[Len(s) + i] = t[i]

LEMMA TwoJoined == ASSUME NEW A, NEW s \in Seq(A), NEW t \in Seq(A) PROVE Joins(A, s, t)
BY DEF Joins

\* The rows as the concatenation they are, and what is at each place.
LEMMA RowsAre ==
    ASSUME NEW STATE layers, layers \in Seq(ToSet(layers)),
           NEW STATE history, history \in Seq(ToSet(history))
    PROVE  LET rows == BuildLayerRows(layers, history)
               n == Len(history)
               N == Len(layers)
               C == Cardinality({j \in 1..n : ~ history[j].empty})
               M == IF C < N THEN N - C ELSE 0
           IN  /\ C \in Nat /\ rows \in Seq(ToSet(rows)) /\ Len(rows) = n + M
               /\ \A i \in 1..n : rows[i] = NarratedRow(layers, history, i)
               /\ \A i \in 1..M : rows[n + i] = RowFromLayer(layers[C + i])
<1> DEFINE n == Len(history)
           N == Len(layers)
           X == {j \in 1..n : ~ history[j].empty}
           C == Cardinality(X)
           M == IF C < N THEN N - C ELSE 0
           told == [i \in DOMAIN history |-> NarratedRow(layers, history, i)]
           bare == [i \in DOMAIN layers |-> RowFromLayer(layers[i])]
           rest == SubSeq(bare, C + 1, N)
           A == ToSet(told) \cup ToSet(bare)
           rows == BuildLayerRows(layers, history)
<1>1. n \in Nat /\ N \in Nat /\ DOMAIN history = 1..n /\ DOMAIN layers = 1..N
  OBVIOUS
<1>2. rows = IF history = << >> THEN bare ELSE told \o rest
  BY DEF BuildLayerRows, NarratedRow
<1>3. C \in Nat
  <2>1. X = X \cap (1..n)
    OBVIOUS
  <2> HIDE DEF X
  <2> QED BY <1>1, <2>1, Counting
<1>4. X = {} => C = 0
  BY FS_EmptySet
<1>5. /\ \A i \in 1..n : told[i] = NarratedRow(layers, history, i)
      /\ \A i \in 1..N : bare[i] = RowFromLayer(layers[i])
      /\ DOMAIN told = 1..n /\ DOMAIN bare = 1..N
  BY <1>1
<1>6. n = 0 => X = {}
  BY <1>1
<1> HIDE DEF X, C, told, bare, n, N, rows
<1>7. told \in Seq(A) /\ Len(told) = n /\ bare \in Seq(A) /\ Len(bare) = N
  <2>1. \A i \in 1..n : told[i] \in A
    BY <1>5 DEF ToSet
  <2>2. \A i \in 1..N : bare[i] \in A
    BY <1>5 DEF ToSet
  <2>3. told = [i \in 1..n |-> told[i]] /\ bare = [i \in 1..N |-> bare[i]]
    BY <1>1 DEF told, bare
  <2> HIDE DEF A
  <2>4. told \in [1..n -> A] /\ bare \in [1..N -> A]
    BY <2>1, <2>2, <2>3
  <2>5. told \in Seq(A) /\ bare \in Seq(A)
    BY <1>1, <2>4, SeqDef
  <2>6. Len(told) = n
    BY <1>1, <1>5, <2>5, LenProperties
  <2>7. Len(bare) = N
    BY <1>1, <1>5, <2>5, LenProperties
  <2> QED BY <2>5, <2>6, <2>7
<1>8. rest \in Seq(A) /\ Len(rest) = M /\ \A i \in 1..M : rest[i] = bare[C + i]
  <2>1. C + 1 \in Int /\ N \in Int
    BY <1>1, <1>3
  <2>2. \A i \in (C + 1)..N : bare[i] \in A
    BY <1>1, <1>3, <1>5 DEF ToSet
  <2> HIDE DEF A
  <2>3. /\ rest \in Seq(A) /\ Len(rest) = (IF C + 1 <= N THEN N - (C + 1) + 1 ELSE 0)
        /\ \A i \in 1..(N - (C + 1) + 1) : rest[i] = bare[C + 1 + i - 1]
    BY <2>1, <2>2, SubSeqProperties
  <2>4. M = (IF C + 1 <= N THEN N - (C + 1) + 1 ELSE 0)
    BY <1>1, <1>3
  <2>5. ASSUME NEW i \in 1..M PROVE rest[i] = bare[C + i]
    <3>1. i \in 1..(N - (C + 1) + 1) /\ C + 1 + i - 1 = C + i
      BY <1>1, <1>3, <2>5
    <3>2. rest[i] = bare[C + 1 + i - 1]
      BY <2>3, <3>1
    <3> QED BY <3>1, <3>2
  <2> QED BY <2>3, <2>4, <2>5
<1> HIDE DEF rest, A
<1>9. /\ rows \in Seq(A) /\ Len(rows) = n + M
      /\ \A i \in 1..n : rows[i] = told[i]
      /\ \A i \in 1..M : rows[n + i] = bare[C + i]
  <2>1. CASE history = << >>
    <3>1. n = 0
      BY <2>1 DEF n
    <3>2. C = 0 /\ M = N
      BY <1>1, <1>4, <1>6, <3>1
    <3>3. rows = bare
      BY <1>2, <2>1
    <3>4. \A i \in 1..M : n + i = i /\ C + i = i
      BY <1>1, <3>1, <3>2
    <3> QED BY <1>1, <1>7, <3>1, <3>2, <3>3, <3>4
  <2>2. CASE history # << >>
    <3>1. rows = told \o rest
      BY <1>2, <2>2
    <3>2. M \in Nat
      BY <1>1, <1>3
    <3> HIDE DEF M
    <3>3. /\ rows \in Seq(A) /\ Len(rows) = n + M
          /\ \A i \in 1..n : rows[i] = told[i]
          /\ \A i \in 1..M : rows[n + i] = rest[i]
      <4>1. told \in Seq(A) /\ rest \in Seq(A) /\ Len(told) = n /\ Len(rest) = M
        BY <1>7, <1>8
      <4>2. Joins(A, told, rest)
        <5> HIDE DEF told
        <5> QED BY <4>1, TwoJoined
      <4> HIDE DEF told
      <4> QED BY <3>1, <4>1, <4>2 DEF Joins
    <3> QED BY <1>8, <3>3
  <2> QED BY <2>1, <2>2
<1>10. rows \in Seq(ToSet(rows))
  BY <1>9, Narrowed
<1>11. \A i \in 1..M : C + i \in 1..N
  BY <1>1, <1>3
<1>12. \A i \in 1..M : rows[n + i] = RowFromLayer(layers[C + i])
  BY <1>5, <1>9, <1>11
<1>13. \A i \in 1..n : rows[i] = NarratedRow(layers, history, i)
  BY <1>5, <1>9
<1> QED BY <1>3, <1>9, <1>10, <1>12, <1>13 DEF rows, n, N, C, X

\* Every step of the history has its row, in order, and no other row an instruction.
Narrates(rows, history) ==
    /\ Len(rows) >= Len(history)
    /\ \A i \in DOMAIN history :
          /\ rows[i].instruction = ParseCreatedBy(history[i].by)
          /\ rows[i].empty = history[i].empty
          /\ history[i].empty => rows[i].digest = Nothing
    /\ \A i \in (Len(history) + 1)..Len(rows) : rows[i].instruction = ""

\* The rows follow the layers, whatever the history narrates.
LEMMA RowsThread ==
    ASSUME NEW STATE layers, layers \in Seq(ToSet(layers)),
           NEW STATE history, history \in Seq(ToSet(history)),
           \A s \in ToSet(history) : s.empty \in BOOLEAN
    PROVE  LET rows == BuildLayerRows(layers, history) IN
           /\ rows \in Seq(ToSet(rows)) /\ Narrates(rows, history)
           /\ \E place : Threads(rows, layers, place)
<1> DEFINE n == Len(history)
           N == Len(layers)
           S == {j \in 1..n : ~ history[j].empty}
           C == Cardinality(S)
           M == IF C < N THEN N - C ELSE 0
           rows == BuildLayerRows(layers, history)
           up == [i \in 0..n |-> Cardinality(S \cap (1..i))]
           place == [i \in 0..(n + M) |-> IF i <= n THEN IF up[i] <= N THEN up[i] ELSE N
                                          ELSE C + (i - n)]
<1>1. n \in Nat /\ N \in Nat /\ DOMAIN history = 1..n /\ DOMAIN layers = 1..N
  OBVIOUS
<1>2. \A i \in 1..n : history[i].empty \in BOOLEAN
  BY <1>1 DEF ToSet
<1>3. /\ C \in Nat /\ rows \in Seq(ToSet(rows)) /\ Len(rows) = n + M
      /\ \A i \in 1..n : rows[i] = NarratedRow(layers, history, i)
      /\ \A i \in 1..M : rows[n + i] = RowFromLayer(layers[C + i])
  BY ZenonT(60), RowsAre
<1>4. ASSUME NEW i \in 1..n PROVE up[i] = Cardinality({j \in 1..i : ~ history[j].empty})
  <2>1. S \cap (1..i) = {j \in 1..i : ~ history[j].empty}
    BY <1>1
  <2>2. i \in 0..n
    BY <1>1
  <2> QED BY <2>1, <2>2
<1>5. \A i \in 1..n : i \in S <=> ~ history[i].empty
  OBVIOUS
<1> HIDE DEF rows
<1>6. up[0] = 0 /\ up[n] = C /\ \A i \in 0..n : up[i] \in Nat
  <2>1. S \cap (1..n) = S
    OBVIOUS
  <2> HIDE DEF S
  <2>2. \A i \in 0..n : i \in Nat
    BY <1>1
  <2>3. 0 \in 0..n /\ n \in 0..n
    BY <1>1
  <2> QED BY <2>1, <2>2, <2>3, Counting
<1> HIDE DEF S
<1>7. ASSUME NEW i \in 1..n PROVE up[i] = up[i - 1] + IF i \in S THEN 1 ELSE 0
  <2>1. i \in Nat /\ i # 0 /\ i \in 0..n /\ i - 1 \in 0..n
    BY <1>1
  <2> QED BY <2>1, Counting
<1> HIDE DEF up, n, N, C
<1>8. M \in Nat /\ (M = 0 => N <= C) /\ (M # 0 => C + M = N)
  BY <1>1, <1>3
<1>9. ASSUME NEW i \in 1..n
      PROVE  LET row == rows[i] IN
             /\ row.instruction = ParseCreatedBy(history[i].by)
             /\ row.empty = history[i].empty
             /\ ~ history[i].empty /\ up[i] <= N =>
                   row.digest = Just(layers[up[i]].digest) /\ row.size = layers[up[i]].size
             /\ history[i].empty \/ ~ (up[i] <= N) => row.digest = Nothing /\ row.size = 0
  <2> DEFINE l == up[i]
             row == rows[i]
             word == ParseCreatedBy(history[i].by)
             other == [instruction |-> word, empty |-> history[i].empty,
                       digest |-> Nothing, size |-> 0, large |-> FALSE]
  <2>1. row = NarratedRow(layers, history, i)
    BY <1>3
  <2>2. row = IF ~ history[i].empty /\ l <= N
              THEN [RowFromLayer(layers[l]) EXCEPT !.instruction = word]
              ELSE other
    BY <1>4, <2>1 DEF NarratedRow, N
  <2>3. /\ other.instruction = word /\ other.empty = history[i].empty
        /\ other.digest = Nothing /\ other.size = 0
    OBVIOUS
  <2>4. history[i].empty \in BOOLEAN
    BY <1>2
  <2> HIDE DEF l, row, word, other
  <2>5. CASE ~ history[i].empty /\ l <= N
    <3>1. row = [RowFromLayer(layers[l]) EXCEPT !.instruction = word]
      BY <2>2, <2>5
    <3>2. /\ row.instruction = word /\ row.empty = FALSE /\ row.digest = Just(layers[l].digest)
          /\ row.size = layers[l].size
      BY <3>1, RowFields
    <3> QED BY <2>4, <2>5, <3>2 DEF row, l, word
  <2>6. CASE ~ (~ history[i].empty /\ l <= N)
    <3>1. row = other
      BY <2>2, <2>6
    <3> QED BY <2>3, <2>6, <3>1 DEF row, l, word
  <2> QED BY <2>5, <2>6
<1>10. ASSUME NEW i \in 1..M
       PROVE  LET row == rows[n + i] IN
              /\ row.instruction = "" /\ row.digest = Just(layers[C + i].digest)
              /\ row.size = layers[C + i].size
  <2>1. rows[n + i] = RowFromLayer(layers[C + i])
    BY <1>3
  <2> QED BY <2>1, RowFields
<1> HIDE DEF M
<1>11. place \in [0..(n + M) -> 0..N]
  <2>1. ASSUME NEW i \in 0..(n + M)
        PROVE  (IF i <= n THEN IF up[i] <= N THEN up[i] ELSE N ELSE C + (i - n)) \in 0..N
    <3>1. CASE i <= n
      <4>1. up[i] \in Nat
        BY <1>1, <1>6, <1>8, <3>1
      <4> QED BY <1>1, <3>1, <4>1
    <3>2. CASE ~ (i <= n)
      <4>1. i - n \in 1..M /\ M # 0
        BY <1>1, <1>8, <3>2
      <4> QED BY <1>1, <1>3, <1>8, <3>2, <4>1
    <3> QED BY <3>1, <3>2
  <2> QED BY <2>1
<1>12. place[0] = 0 /\ place[n + M] = N
  <2>1. 0 \in 0..(n + M) /\ n + M \in 0..(n + M)
    BY <1>1, <1>8
  <2>2. place[0] = 0
    BY <1>1, <1>6, <2>1
  <2>3. CASE M = 0
    BY <1>1, <1>3, <1>6, <1>8, <2>1, <2>3
  <2>4. CASE M # 0
    BY <1>1, <1>3, <1>6, <1>8, <2>1, <2>4
  <2> QED BY <2>2, <2>3, <2>4
<1>13. ASSUME NEW i \in 1..(n + M)
       PROVE  \/ /\ place[i] = place[i - 1] + 1
                 /\ rows[i].digest = Just(layers[place[i]].digest)
                 /\ rows[i].size = layers[place[i]].size
              \/ place[i] = place[i - 1] /\ rows[i].digest = Nothing /\ rows[i].size = 0
  <2>1. i \in 0..(n + M) /\ i - 1 \in 0..(n + M)
    BY <1>1, <1>8
  <2>2. CASE i <= n
    <3>1. i \in 1..n /\ i \in 0..n /\ i - 1 \in 0..n /\ i - 1 <= n
      BY <1>1, <1>8, <2>2
    <3>2. /\ place[i] = (IF up[i] <= N THEN up[i] ELSE N)
          /\ place[i - 1] = (IF up[i - 1] <= N THEN up[i - 1] ELSE N)
      BY <2>1, <2>2, <3>1
    <3>3. up[i] \in Nat /\ up[i - 1] \in Nat
      BY <1>6, <3>1
    <3>4. CASE history[i].empty
      <4>1. up[i] = up[i - 1]
        BY <1>5, <1>7, <3>1, <3>3, <3>4
      <4> QED BY <1>9, <3>1, <3>2, <3>4, <4>1
    <3>5. CASE ~ history[i].empty
      <4>1. up[i] = up[i - 1] + 1
        BY <1>5, <1>7, <3>1, <3>3, <3>5
      <4>2. CASE up[i] <= N
        <5>1. place[i] = up[i] /\ place[i] = place[i - 1] + 1
          BY <1>1, <3>2, <3>3, <4>1, <4>2
        <5> HIDE DEF place
        <5> QED BY <1>9, <3>1, <3>5, <4>2, <5>1
      <4>3. CASE ~ (up[i] <= N)
        <5>1. place[i] = place[i - 1]
          BY <1>1, <3>2, <3>3, <4>1, <4>3
        <5> HIDE DEF place
        <5> QED BY <1>9, <3>1, <3>5, <4>3, <5>1
      <4> QED BY <4>2, <4>3
    <3> QED BY <3>4, <3>5
  <2>3. CASE ~ (i <= n)
    <3> DEFINE k == i - n
    <3>1. k \in 1..M /\ n + k = i /\ M # 0 /\ C + k <= N
      BY <1>1, <1>3, <1>8, <2>3
    <3>2. place[i] = C + k
      BY <2>1, <2>3
    <3>3. place[i - 1] = C + (k - 1)
      <4>1. CASE i - 1 = n
        <5>1. place[i - 1] = C
          BY <1>1, <1>3, <1>6, <2>1, <3>1, <4>1
        <5> QED BY <1>1, <1>3, <4>1, <5>1
      <4>2. CASE i - 1 # n
        BY <1>1, <1>3, <2>1, <2>3, <4>2
      <4> QED BY <4>1, <4>2
    <3> HIDE DEF place, k
    <3>4. place[i] = place[i - 1] + 1
      BY <1>3, <3>1, <3>2, <3>3
    <3>5. rows[i].digest = Just(layers[place[i]].digest) /\ rows[i].size = layers[place[i]].size
      BY <1>10, <3>1, <3>2
    <3> QED BY <3>4, <3>5
  <2> QED BY <2>2, <2>3
<1> HIDE DEF place
<1>14. Threads(rows, layers, place)
  BY <1>3, <1>11, <1>12, <1>13 DEF Threads, M, N
<1>15. Len(rows) >= n
  BY <1>1, <1>3, <1>8 DEF M
<1>16. ASSUME NEW i \in (n + 1)..Len(rows) PROVE rows[i].instruction = ""
  <2> DEFINE k == i - n
  <2>1. k \in 1..M /\ n + k = i
    BY <1>1, <1>3, <1>8 DEF M
  <2> HIDE DEF k
  <2> QED BY <1>10, <2>1
<1>17. ASSUME NEW i \in DOMAIN history
       PROVE  /\ rows[i].instruction = ParseCreatedBy(history[i].by)
              /\ rows[i].empty = history[i].empty
              /\ history[i].empty => rows[i].digest = Nothing
  BY <1>1, <1>9
<1>18. Narrates(rows, history)
  BY Zenon, <1>15, <1>16, <1>17 DEF Narrates, n
<1> QED BY <1>3, <1>14, <1>18 DEF rows

\* The history that a config brings.
HistoryOf(config) == IF config = Nothing THEN << >> ELSE config[1].history
Narration(history) ==
    history \in Seq(ToSet(history)) /\ \A s \in ToSet(history) : s.empty \in BOOLEAN

\* What schema 1 narrates is a list of steps that say whether they made a layer.
LEMMA V1Narrates ==
    ASSUME NEW STATE m, m.history \in Seq(ToSet(m.history)),
           \A s \in ToSet(m.history) : s.throwaway \in BOOLEAN
    PROVE  Narration(BuildV1History(m))
<1> DEFINE h == m.history
           S == {i \in DOMAIN h : h[i].decodes}
           decoded == Kept(h, S)
           Step(i) == [by |-> decoded[i].by, empty |-> decoded[i].throwaway]
           history == BuildV1History(m)
<1>1. history = [i \in DOMAIN decoded |-> Step(i)]
  BY DEF BuildV1History
<1>2. h \in Seq(ToSet(h)) /\ S \subseteq DOMAIN h
  OBVIOUS
<1>3. \A s \in ToSet(h) : s.throwaway \in BOOLEAN
  OBVIOUS
<1> HIDE DEF h, S
<1>4. decoded \in Seq(ToSet(h))
  BY <1>2, KeptMeaning
<1> HIDE DEF decoded
<1> DEFINE n == Len(decoded)
<1>5. n \in Nat /\ DOMAIN decoded = 1..n /\ \A i \in 1..n : decoded[i] \in ToSet(h)
  BY <1>4
<1> HIDE DEF n
<1>6. ASSUME NEW i \in 1..n PROVE Step(i).empty \in BOOLEAN
  <2>1. Step(i).empty = decoded[i].throwaway
    OBVIOUS
  <2> HIDE DEF Step
  <2> QED BY <1>3, <1>5, <2>1
<1> HIDE DEF Step, history
<1>7. DOMAIN history = 1..n /\ \A i \in 1..n : history[i] = Step(i)
  BY <1>1, <1>5
<1>8. ToSet(history) = {history[i] : i \in 1..n}
  BY <1>7 DEF ToSet
<1>9. history \in Seq(ToSet(history))
  <2>1. history = [i \in 1..n |-> history[i]]
    BY <1>1, <1>5, <1>7
  <2>2. history \in [1..n -> ToSet(history)]
    BY <1>8, <2>1
  <2> QED BY <1>5, <2>2, SeqDef
<1>10. \A s \in ToSet(history) : s.empty \in BOOLEAN
  BY <1>6, <1>7, <1>8
<1> QED BY <1>9, <1>10 DEF history, Narration

\* So is what any config of a manifest narrates.
LEMMA ConfigsNarrate ==
    ASSUME world \in Worlds, NEW STATE d, d \in DOMAIN world.body, NEW STATE config,
           config \in ConfigsOf(world.body[d])
    PROVE  Narration(HistoryOf(config))
<1> DEFINE m == world.body[d]
<1>1. /\ m.history \in Seq(ToSet(m.history))
      /\ \A s \in ToSet(m.history) : s.throwaway \in BOOLEAN
      /\ m.config = Nothing \/ \E c \in DOMAIN world.config : m.config = Just(c)
  BY BodiesAssumption
<1>2. \A c \in DOMAIN world.config : Narration(world.config[c].history)
  BY BodiesAssumption DEF Narration
<1>3. config \in ConfigsOf(m)
  OBVIOUS
<1> HIDE DEF m
<1>4. ASSUME NEW STATE x, config = Just(x), Narration(x.history)
      PROVE  Narration(HistoryOf(config))
  <2>1. HistoryOf(config) = x.history
    BY <1>4, Options DEF HistoryOf
  <2> QED BY <1>4, <2>1
<1> DEFINE Goal == Narration(HistoryOf(config))
<1>5. ASSUME config = Nothing PROVE Goal
  <2>1. HistoryOf(config) = << >>
    BY <1>5 DEF HistoryOf
  <2>2. Narration(<< >>)
    BY DEF Narration, ToSet
  <2> QED BY <2>1, <2>2
<1>6. ASSUME config # Nothing /\ HasConfigBlob(m.mediaType) PROVE Goal
  <2>1. m.mediaType # "docker_v1"
    BY <1>6 DEF HasConfigBlob
  <2>2. PICK k \in ToSet(m.config) : config = Just(world.config[k])
    BY <1>3, <1>6, <2>1 DEF ConfigsOf
  <2>3. k \in DOMAIN world.config
    BY <1>1, <2>2, InJust, InNothing
  <2> QED BY <1>2, <1>4, <2>2, <2>3
<1>7. ASSUME config # Nothing /\ ~ HasConfigBlob(m.mediaType) PROVE Goal
  <2>1. config = SynthesizeImageConfigFromV1(m)
    BY <1>3, <1>7 DEF ConfigsOf
  <2> DEFINE first == m.history[1]
             c == [valid |-> TRUE, labels |-> first.labels, history |-> BuildV1History(m),
                   platform |-> [architecture |-> IF first.arch = "" THEN m.arch ELSE first.arch,
                                 os |-> IF first.os = "" THEN "linux" ELSE first.os]]
  <2>2. config = Just(c)
    BY <1>7, <2>1 DEF SynthesizeImageConfigFromV1
  <2>3. c.history = BuildV1History(m)
    OBVIOUS
  <2> HIDE DEF c
  <2>4. Narration(c.history)
    BY <1>1, <2>3, V1Narrates
  <2> QED BY <1>4, <2>2, <2>4
<1> QED BY <1>5, <1>6, <1>7

\* Nothing adds up to nothing.
LEMMA NoSize ==
    ASSUME NEW STATE R, NEW STATE seq, seq \in Seq(R), \A i \in DOMAIN seq : seq[i].size = 0
    PROVE  TotalSize(seq) = 0
<1> DEFINE n == Len(seq)
<1>1. n \in Nat /\ DOMAIN seq = 1..n
  OBVIOUS
<1>2. PICK f : SumsUp(f, seq, n) /\ TotalSize(seq) = f[n]
  BY Sums
<1> HIDE DEF n
<1> DEFINE T == {i \in 0..n : f[i] = 0}
<1>3. 0 \in T
  BY <1>1, <1>2 DEF SumsUp
<1>4. ASSUME NEW i \in 1..n, i - 1 \in T PROVE i \in T
  <2>1. f[i] = f[i - 1] + seq[i].size /\ f[i - 1] = 0 /\ seq[i].size = 0
    BY <1>1, <1>2, <1>4 DEF SumsUp
  <2> QED BY <1>1, <2>1
<1> HIDE DEF T
<1>5. 0..n \subseteq T
  BY <1>1, <1>3, <1>4, Upwards
<1> QED BY <1>1, <1>2, <1>5 DEF T

\* The layers of an image that was fetched are those of its body, and its size theirs.
LEMMA FetchedLayers ==
    ASSUME world \in Worlds, NEW STATE repo, NEW STATE ref, NEW STATE down, NEW fetch,
           NEW fetchConfig, FetchManifest(repo, ref, down, fetch, fetchConfig).out = "ok",
           FetchManifest(repo, ref, down, fetch, fetchConfig).u.type = "image"
    PROVE  LET m == world.body[DigestOf(repo, ref)]
               u == FetchManifest(repo, ref, down, fetch, fetchConfig).u
           IN  /\ u.layers \in Seq(ToSet(u.layers)) /\ \A i \in DOMAIN u.layers : u.layers[i].size \in Int
               /\ [i \in DOMAIN u.layers |-> u.layers[i].digest]
                     = [i \in DOMAIN m.layers |-> m.layers[i].digest]
               /\ u.size = TotalSize(u.layers)
<1> DEFINE m == world.body[DigestOf(repo, ref)]
           digest == IF world.header THEN Just(DigestOf(repo, ref)) ELSE Nothing
           c == FetchConfig(m, fetchConfig \in down)
           u == ToUnified(m, digest, c.config)
           got == FetchManifest(repo, ref, down, fetch, fetchConfig)
           config == c.config
           layers == m.layers
           bare == [i \in DOMAIN layers |-> [digest |-> layers[i].digest, size |-> 0]]
<1>1. c.out \in {"ok", "crash"}
  BY ConfigOutcome
<1>2. got = IF fetch \in down \/ ~ Exists(repo, ref) THEN Failed("error")
            ELSE IF c.out # "ok" THEN c
            ELSE IF ClassifyMediaType(m.mediaType) = "unknown" THEN Failed("error")
            ELSE IF ~ m.valid THEN Failed("crash")
            ELSE [out |-> "ok", u |-> u]
  BY DEF FetchManifest, Parse
<1>3. Failed("error").out = "error" /\ Failed("crash").out = "crash"
  BY DEF Failed
<1>4. got.u = u /\ Exists(repo, ref)
  <2> HIDE DEF c, u, m
  <2>1. [out |-> "ok", u |-> u].u = u
    OBVIOUS
  <2>2. got.out = "ok"
    OBVIOUS
  <2> HIDE DEF got
  <2> QED BY <1>1, <1>2, <1>3, <2>1, <2>2
<1>5. layers \in Seq(ToSet(layers)) /\ \A x \in ToSet(layers) : x.size \in Int
  <2>1. DigestOf(repo, ref) \in DOMAIN world.body
    BY <1>4 DEF Exists, Has
  <2> QED BY <2>1, BodiesAssumption
<1>6. FromIndex(m, digest).type = "index"
  BY DEF FromIndex, Unified
<1>7. FromImage(m, digest, config).layers = layers /\ FromImage(m, digest, config).size = TotalSize(layers)
  BY DEF FromImage, Unified
<1>8. FromSchema1(m, digest).layers = bare /\ FromSchema1(m, digest).size = 0
  BY DEF FromSchema1, Unified
<1> HIDE DEF m, c, got, digest, config
<1>9. u.type = "image"
  BY <1>4 DEF got
<1>10. u = FromImage(m, digest, config) \/ u = FromSchema1(m, digest)
  BY <1>6, <1>9 DEF ToUnified, config
<1> HIDE DEF u, layers
<1>11. \/ u.layers = layers /\ u.size = TotalSize(layers)
       \/ u.layers = bare /\ u.size = 0
  BY <1>7, <1>8, <1>10
<1> DEFINE n == Len(layers)
<1>12. n \in Nat /\ DOMAIN layers = 1..n /\ \A i \in 1..n : layers[i].size \in Int
  BY <1>5 DEF ToSet
<1>13. \A i \in DOMAIN layers : bare[i].digest = layers[i].digest /\ bare[i].size = 0
  OBVIOUS
<1>14. DOMAIN bare = DOMAIN layers
  OBVIOUS
<1> HIDE DEF n
<1>15. bare \in Seq(ToSet(bare))
  <2>1. bare \in [1..n -> ToSet(bare)]
    BY <1>12 DEF ToSet
  <2> HIDE DEF bare
  <2> QED BY <1>12, <2>1, SeqDef
<1> HIDE DEF bare
<1>16. TotalSize(bare) = 0
  BY <1>13, <1>14, <1>15, NoSize
<1> DEFINE Goal == /\ u.layers \in Seq(ToSet(u.layers)) /\ \A i \in DOMAIN u.layers : u.layers[i].size \in Int
                   /\ [i \in DOMAIN u.layers |-> u.layers[i].digest]
                         = [i \in DOMAIN layers |-> layers[i].digest]
                   /\ u.size = TotalSize(u.layers)
<1>17. ASSUME u.layers = layers /\ u.size = TotalSize(layers) PROVE Goal
  BY <1>5, <1>12, <1>17
<1>18. ASSUME u.layers = bare /\ u.size = 0 PROVE Goal
  <2>1. \A i \in DOMAIN bare : bare[i].size \in Int
    BY <1>13, <1>14
  <2>2. [i \in DOMAIN bare |-> bare[i].digest] = [i \in DOMAIN layers |-> layers[i].digest]
    BY <1>13, <1>14
  <2> QED BY <1>15, <1>16, <1>18, <2>1, <2>2
<1>19. Goal
  BY <1>11, <1>17, <1>18
<1> QED BY <1>4, <1>19 DEF got, m, layers

\* LayersComplete, of one panel.
Complete(p) ==
    p.kind = "shown" /\ p.u[1].type = "image" =>
        LET history == HistoryOf(p.u[1].config)
        IN  /\ [i \in DOMAIN Blobs(p.layers) |-> Blobs(p.layers)[i].digest[1]]
                  = [i \in DOMAIN BodyOf(p).layers |-> BodyOf(p).layers[i].digest]
            /\ TotalSize(p.layers) = p.u[1].size
            /\ Narrates(p.layers, history)

LEMMA FetchedComplete ==
    ASSUME world \in Worlds, NEW STATE p,
           Outcome(p, FetchManifest(p.repo, p.asked, p.down, "manifest", "config"))
    PROVE  Complete(p)
<1> DEFINE got == FetchManifest(p.repo, p.asked, p.down, "manifest", "config")
           u == got.u
           m == world.body[DigestOf(p.repo, p.asked)]
           layers == u.layers
           history == HistoryOf(u.config)
           rows == BuildLayerRows(layers, history)
<1> SUFFICES ASSUME p.kind = "shown" /\ p.u[1].type = "image" PROVE Complete(p)
  BY DEF Complete
<1>1. got.out = "ok" /\ p.u = Just(u) /\ p.layers = LayerRows(u)
  BY DEF Outcome
<1>2. BodyOf(p) = m /\ p.u[1] = u
  <2>1. Exists(p.repo, p.asked)
    BY <1>1, FetchBlame
  <2>2. p.found = Reading(p.repo, p.asked)
    BY DEF Outcome
  <2> HIDE DEF u
  <2> QED BY <1>1, <2>1, <2>2, FoundBody, Options
<1>3. /\ layers \in Seq(ToSet(layers)) /\ \A i \in DOMAIN layers : layers[i].size \in Int
      /\ [i \in DOMAIN layers |-> layers[i].digest] = [i \in DOMAIN m.layers |-> m.layers[i].digest]
      /\ u.size = TotalSize(layers)
  BY <1>1, <1>2, FetchedLayers
<1>4. Narration(history)
  <2>1. DigestOf(p.repo, p.asked) \in DOMAIN world.body /\ u.config \in ConfigsOf(m)
    BY <1>1, FetchedBody
  <2> HIDE DEF u
  <2> QED BY <2>1, ConfigsNarrate
<1>5. p.layers = rows
  <2> HIDE DEF u
  <2> QED BY <1>1 DEF LayerRows, HistoryOf
<1> HIDE DEF u, m, layers, history
<1>6. /\ rows \in Seq(ToSet(rows)) /\ Narrates(rows, history)
      /\ \E place : Threads(rows, layers, place)
  BY <1>3, <1>4, RowsThread DEF Narration
<1> HIDE DEF rows
<1>7. PICK place : Threads(rows, layers, place)
  BY <1>6
<1>8. [i \in DOMAIN Blobs(rows) |-> Blobs(rows)[i].digest[1]]
         = [i \in DOMAIN layers |-> layers[i].digest]
  BY <1>3, <1>6, <1>7, ThreadedOrder
<1>9. TotalSize(rows) = TotalSize(layers)
  BY <1>3, <1>6, <1>7, ThreadedSize
<1> DEFINE h == HistoryOf(p.u[1].config)
<1>10. h = history
  BY <1>2 DEF history
<1>11. TotalSize(p.layers) = p.u[1].size /\ Narrates(p.layers, h)
  BY <1>2, <1>3, <1>5, <1>6, <1>9, <1>10
<1>12. [i \in DOMAIN Blobs(p.layers) |-> Blobs(p.layers)[i].digest[1]]
         = [i \in DOMAIN BodyOf(p).layers |-> BodyOf(p).layers[i].digest]
  BY Zenon, <1>2, <1>3, <1>5, <1>8
<1> QED BY Zenon, <1>11, <1>12 DEF Complete

LEMMA BornComplete ==
    ASSUME world \in Worlds, NEW STATE p, Born(p)
    PROVE  Complete(p)
<1>1. ASSUME NEW repo, Hint(p, repo) \/ Shadow(p, repo) PROVE Complete(p)
  <2>1. \E kind, ref, asked, down : kind # "shown" /\ p = BlankPanel(kind, repo, ref, asked, down)
    BY <1>1 DEF Hint, Shadow
  <2>2. p.kind # "shown"
    BY <2>1, BlankFields
  <2> QED BY <2>2 DEF Complete
<1>2. ASSUME NEW repo \in Real, Fetched(p, repo) PROVE Complete(p)
  <2>1. PICK ref, platform, down : p = ManifestPanel(repo, ref, platform, down)
    BY <1>2 DEF Fetched
  <2>2. Outcome(p, FetchManifest(p.repo, p.asked, p.down, "manifest", "config"))
    BY <2>1, ManifestPanelIs
  <2> QED BY <2>2, FetchedComplete
<1>3. ASSUME NEW repo \in Real, Picked(p, repo) PROVE Complete(p)
  <2>1. PICK q, down : p = AutoPanel(FetchTags(repo, q),
                                     ManifestPanel(repo, FetchTags(repo, q)[1], Nothing, down))
    BY <1>3 DEF Picked
  <2> DEFINE tags == FetchTags(repo, q)
             m == ManifestPanel(repo, tags[1], Nothing, down)
  <2>2. /\ Whole(m) /\ m.repo = repo
        /\ Outcome(m, FetchManifest(m.repo, m.asked, m.down, "manifest", "config"))
    BY ManifestPanelIs
  <2> HIDE DEF m
  <2>3. Complete(m)
    BY <2>2, FetchedComplete
  <2>4. /\ p.kind = (IF m.kind = "error" THEN "hint" ELSE m.kind)
        /\ p.found = m.found /\ p.u = m.u /\ p.layers = m.layers
    BY <2>1, <2>2, AutoPanelFields DEF m
  <2> QED BY <2>3, <2>4 DEF Complete, BodyOf
<1>5. ASSUME NEW repo \in Real, Torn(p, repo) PROVE Complete(p)
  <2>1. p.kind = "broken"
    BY <1>5, TornFields
  <2> QED BY <2>1 DEF Complete
<1> QED BY <1>1, <1>2, <1>3, <1>5 DEF Born

LEMMA CompleteLasts ==
    ASSUME world' = world, NEW p, Complete(p)
    PROVE  Complete(p)'
<1>1. BodyOf(p)' = BodyOf(p)
  BY DEF BodyOf
<1> QED BY <1>1 DEF Complete

CompleteInv == PanelInv /\ \A p \in Panels : Complete(p)

LEMMA CompleteInitInductive == Init => CompleteInv
<1> SUFFICES ASSUME Init PROVE CompleteInv
  OBVIOUS
<1>1. pending = {} /\ panel = BlankPanel("hint", "", "", "", {}) /\ Panels = {panel}
  BY DEF Init, Panels
<1>2. Complete(panel)
  <2>1. panel.kind = "hint"
    BY Zenon, <1>1 DEF BlankPanel
  <2> QED BY <2>1 DEF Complete
<1> QED BY <1>1, <1>2, PanelInitInductive DEF CompleteInv

LEMMA CompleteNextInductive == CompleteInv /\ [Next]_vars => CompleteInv'
<1> SUFFICES ASSUME CompleteInv, [Next]_vars PROVE CompleteInv'
  OBVIOUS
<1>1. Grown /\ PanelInv'
  BY PanelsGrow, PanelNextInductive DEF CompleteInv, PanelInv
<1>2. world \in Worlds /\ world' = world
  BY RegistryStays DEF CompleteInv, PanelInv, Places
<1>3. ASSUME NEW p \in Panels' PROVE Complete(p)
  BY <1>1, <1>2, BornComplete DEF Grown, Known, CompleteInv
<1>4. (\A p \in Panels : Complete(p))'
  BY <1>2, <1>3, CompleteLasts
<1> QED BY <1>1, <1>4 DEF CompleteInv

\* The Layers tab of an image has every layer of the manifest exactly once and in
\* order, whatever the history narrates; every history step in order; and sizes
\* that add up to the size in the panel's head (build_layer_rows).
THEOREM LayersListed == Spec => []LayersComplete
<1>1. CompleteInv => LayersComplete
  BY DEF CompleteInv, Complete, LayersComplete, Shown, Blobs, HistoryOf, Narrates
<1> QED BY <1>1, CompleteInitInductive, CompleteNextInductive, PTL DEF Spec

=============================================================================
