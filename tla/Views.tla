------------------------------- MODULE Views -------------------------------
(***************************************************************************)
(* What the handlers make of the registry's answers: registry/parser.py,   *)
(* layers.py, annotations.py, referrers.py, utils/version_sort.py and the  *)
(* helpers of web/routes.py that build a panel from them.  No state: these *)
(* are functions of fetched data, used by WebShell.                        *)
(*                                                                         *)
(* A value that may be missing is a sequence of length 0 or 1.  Data:      *)
(*   manifest  [mediaType, valid, config, layers, entries, annotations,    *)
(*              arch, history]: valid says whether the body fits the       *)
(*              pydantic model of its kind; fields a kind lacks are empty  *)
(*   config    [valid, platform, labels, history], history of [by, empty]  *)
(*   by        a created_by string: [shell, nop, word]                     *)
(*   entry     of an index: [platform, digest, size]                       *)
(*   v1 entry  [decodes, fits, arch, os, labels, by, throwaway]            *)
(*   platform  [architecture, os]                                          *)
(***************************************************************************)
EXTENDS Integers, SequencesExt, FiniteSets

CONSTANTS
    KnownAnnotations,  \* the org.opencontainers.image.* keys, in table order
    OtherAnnotations,  \* every other key, in alphabetical order
    Instructions,      \* _DOCKERFILE_INSTRUCTIONS
    LargeLayer,        \* LARGE_LAYER_THRESHOLD
    LocalPlatform,     \* the platform of the host LayerLoupe runs on
    VersionOf,         \* of a version-like tag: [nums, suffix], suffix 0 if none
    NamedTags,         \* every tag that is neither latest nor a version, A to Z
    KnownArtifacts     \* kind by artifact type or media type

\* The components of a version, and what stands for its suffix, are numbers.
ASSUME TagAssumption ==
    /\ NamedTags \in Seq(ToSet(NamedTags))
    /\ \A t \in DOMAIN VersionOf : VersionOf[t].nums \in Seq(Nat) /\ VersionOf[t].suffix \in Nat

\* Every key has one place in the table of annotations.
Keys == KnownAnnotations \o OtherAnnotations
ASSUME KeyAssumption ==
    /\ KnownAnnotations \in Seq(ToSet(KnownAnnotations))
    /\ OtherAnnotations \in Seq(ToSet(OtherAnnotations))
    /\ \A i, j \in DOMAIN Keys : Keys[i] = Keys[j] => i = j

Nothing == << >>
Just(x) == << x >>
TotalSize(seq) ==
    LET sum[n \in 0..Len(seq)] == IF n = 0 THEN 0 ELSE sum[n - 1] + seq[n].size
    IN  sum[Len(seq)]

\* The members of S in the order that R, a set of pairs, puts them in.
InOrder(S, R) ==
    [k \in 1..Cardinality(S) |->
        CHOOSE i \in S : Cardinality({j \in S : << j, i >> \in R}) = k - 1]

\* The elements of seq at the places in S, in their order.
Kept(seq, S) ==
    LET order == InOrder(S, {p \in S \X S : p[1] < p[2]})
    IN  [k \in DOMAIN order |-> seq[order[k]]]

-----------------------------------------------------------------------------
\* registry/manifests.py: the kind is that of the Content-Type, whatever the body.

ClassifyMediaType(type) ==
    IF type \in {"oci_index", "oci_image", "docker_list", "docker_v2", "docker_v1"}
    THEN type ELSE "unknown"

IsIndex(kind) == kind \in {"oci_index", "docker_list"}
HasConfigBlob(kind) == kind \in {"oci_image", "docker_v2"}

-----------------------------------------------------------------------------
\* registry/parser.py

UnknownPlatform == [architecture |-> "unknown", os |-> "unknown"]

\* Python's platform module names the host, or says "".
ASSUME PlatformAssumption == LocalPlatform # UnknownPlatform

PlatformsFromIndex(entries) ==
    [i \in DOMAIN entries |->
        [platform |-> IF entries[i].platform = Nothing THEN UnknownPlatform
                      ELSE entries[i].platform[1],
         digest |-> Just(entries[i].digest), size |-> entries[i].size]]

ImagePlatform(config) ==
    IF config = Nothing THEN << >>
    ELSE << [platform |-> config[1].platform, digest |-> Nothing, size |-> 0] >>

\* What all variants share; a Docker list or schema 2 manifest has no annotations
\* of its own to keep.
Unified(type, m, digest) ==
    [type |-> type, kind |-> ClassifyMediaType(m.mediaType), digest |-> digest,
     size |-> 0, platforms |-> << >>, config |-> Nothing, layers |-> << >>,
     annotations |-> IF m.mediaType \in {"oci_index", "oci_image"} THEN m.annotations
                     ELSE << >>]

FromIndex(m, digest) ==
    [Unified("index", m, digest) EXCEPT
        !.size = TotalSize(m.entries), !.platforms = PlatformsFromIndex(m.entries)]

FromImage(m, digest, config) ==
    [Unified("image", m, digest) EXCEPT
        !.size = TotalSize(m.layers), !.platforms = ImagePlatform(config),
        !.config = config, !.layers = m.layers]

\* One row per history string that decodes; the others vanish.
BuildV1History(m) ==
    LET decoded == Kept(m.history, {i \in DOMAIN m.history : m.history[i].decodes})
    IN  [i \in DOMAIN decoded |-> [by |-> decoded[i].by, empty |-> decoded[i].throwaway]]

\* The config a schema 1 manifest embeds in its first history string.
SynthesizeImageConfigFromV1(m) ==
    IF m.history = << >> \/ ~m.history[1].decodes
       \/ \E e \in ToSet(m.history) : e.decodes /\ ~e.fits
    THEN Nothing
    ELSE LET first == m.history[1] IN
         Just([valid |-> TRUE, labels |-> first.labels, history |-> BuildV1History(m),
               platform |-> [architecture |-> IF first.arch = "" THEN m.arch ELSE first.arch,
                             os |-> IF first.os = "" THEN "linux" ELSE first.os]])

FromSchema1(m, digest) ==
    LET config == SynthesizeImageConfigFromV1(m) IN
    [Unified("image", m, digest) EXCEPT
        !.config = config,
        !.platforms = << [platform |-> IF config = Nothing
                                       THEN [architecture |-> m.arch, os |-> "linux"]
                                       ELSE config[1].platform,
                          digest |-> Nothing, size |-> 0] >>,
        !.layers = [i \in DOMAIN m.layers |-> [digest |-> m.layers[i].digest, size |-> 0]]]

\* to_unified of a body that fits its model.
ToUnified(m, digest, config) ==
    LET kind == ClassifyMediaType(m.mediaType) IN
    IF IsIndex(kind) THEN FromIndex(m, digest)
    ELSE IF HasConfigBlob(kind) THEN FromImage(m, digest, config)
    ELSE FromSchema1(m, digest)

-----------------------------------------------------------------------------
\* registry/layers.py

\* The instruction behind a created_by string; "" when there is none to be sure of.
ParseCreatedBy(by) ==
    IF by.shell /\ ~by.nop THEN "RUN" ELSE IF by.word \in Instructions THEN by.word ELSE ""

RowFromLayer(layer) ==
    [instruction |-> "", empty |-> FALSE, digest |-> Just(layer.digest),
     size |-> layer.size, large |-> layer.size >= LargeLayer]

\* Mutant of BuildLayerRows: layers the history does not narrate are dropped.
BuildLayerRows_NoLeftovers(layers, history) ==
    LET Layer(i) == Cardinality({j \in 1..i : ~history[j].empty})
        Row(i) == IF ~history[i].empty /\ Layer(i) <= Len(layers)
                  THEN [RowFromLayer(layers[Layer(i)]) EXCEPT
                           !.instruction = ParseCreatedBy(history[i].by)]
                  ELSE [instruction |-> ParseCreatedBy(history[i].by),
                        empty |-> history[i].empty, digest |-> Nothing,
                        size |-> 0, large |-> FALSE]
    IN  [i \in DOMAIN history |-> Row(i)]

\* History step i takes the next layer unless it is a metadata step; layers
\* left over get rows of their own.
BuildLayerRows(layers, history) ==
    LET Layer(i) == Cardinality({j \in 1..i : ~history[j].empty})
        Row(i) == IF ~history[i].empty /\ Layer(i) <= Len(layers)
                  THEN [RowFromLayer(layers[Layer(i)]) EXCEPT
                           !.instruction = ParseCreatedBy(history[i].by)]
                  ELSE [instruction |-> ParseCreatedBy(history[i].by),
                        empty |-> history[i].empty, digest |-> Nothing,
                        size |-> 0, large |-> FALSE]
        bare == [i \in DOMAIN layers |-> RowFromLayer(layers[i])]
    IN  IF history = << >> THEN bare
        ELSE [i \in DOMAIN history |-> Row(i)]
             \o SubSeq(bare, Layer(Len(history)) + 1, Len(layers))

\* _layer_rows of web/routes.py.
LayerRows(u) == BuildLayerRows(u.layers, IF u.config = Nothing THEN << >> ELSE u.config[1].history)

-----------------------------------------------------------------------------
\* registry/annotations.py

\* Mutant of MergeAnnotations: the image's labels win over the manifest.
MergeAnnotations_LabelsWin(annotations, labels) ==
    LET merged == [k \in DOMAIN annotations \cup DOMAIN labels |->
                      IF k \in DOMAIN labels THEN labels[k] ELSE annotations[k]]
        keys == Kept(Keys, {i \in DOMAIN Keys : Keys[i] \in DOMAIN merged})
    IN  [i \in DOMAIN keys |-> [key |-> keys[i], value |-> merged[keys[i]]]]

\* The manifest wins over the image's labels; known keys first, in their own
\* order, the others alphabetically.
MergeAnnotations(annotations, labels) ==
    LET merged == [k \in DOMAIN annotations \cup DOMAIN labels |->
                      IF k \in DOMAIN annotations THEN annotations[k] ELSE labels[k]]
        keys == Kept(Keys, {i \in DOMAIN Keys : Keys[i] \in DOMAIN merged})
    IN  [i \in DOMAIN keys |-> [key |-> keys[i], value |-> merged[keys[i]]]]

\* _annotation_rows of web/routes.py.
AnnotationRows(u) ==
    MergeAnnotations(u.annotations, IF u.config = Nothing THEN << >> ELSE u.config[1].labels)

\* The child whose metadata stands in for an index that has none: the first for
\* the host's own platform, or else the first that is no attestation.
FallbackPick(platforms) ==
    LET local == SelectInSeq(platforms, LAMBDA p : p.platform = LocalPlatform)
        any == SelectInSeq(platforms, LAMBDA p : p.platform # UnknownPlatform)
        i == IF local # 0 THEN local ELSE any
    IN  IF i = 0 THEN Nothing ELSE Just(platforms[i])

\* _display_platforms of web/routes.py.
DisplayPlatforms(u) ==
    Kept(u.platforms, {i \in DOMAIN u.platforms : u.platforms[i].platform # UnknownPlatform})

-----------------------------------------------------------------------------
\* registry/referrers.py: rows [readable, digest, artifactType, mediaType];
\* a malformed row is dropped.

ClassifyArtifact(artifactType, mediaType) ==
    IF artifactType # Nothing /\ artifactType[1] \in DOMAIN KnownArtifacts
    THEN KnownArtifacts[artifactType[1]]
    ELSE IF mediaType \in DOMAIN KnownArtifacts THEN KnownArtifacts[mediaType] ELSE "other"

ParseReferrers(rows) ==
    LET good == Kept(rows, {i \in DOMAIN rows : rows[i].readable})
    IN  [i \in DOMAIN good |->
            [digest |-> good[i].digest,
             kind |-> ClassifyArtifact(good[i].artifactType, good[i].mediaType)]]

-----------------------------------------------------------------------------
\* utils/version_sort.py

IsVersion(t) == t \in DOMAIN VersionOf

\* Tuples of integers as Python compares them: a proper prefix is smaller.
TupleLess(a, b) ==
    \E i \in DOMAIN b :
        /\ \A j \in 1..(i - 1) : j <= Len(a) /\ a[j] = b[j]
        /\ i <= Len(a) => a[i] < b[i]

\* Mutant of VersionKeyLess: the release does not beat its pre-releases.
VersionKeyLess_SuffixOnly(v, w) ==
    TupleLess(v.nums, w.nums) \/ (v.nums = w.nums /\ v.suffix < w.suffix)

\* The sort key (components, suffix == "", suffix).
VersionKeyLess(v, w) ==
    \/ TupleLess(v.nums, w.nums)
    \/ v.nums = w.nums /\ v.suffix # 0 /\ (w.suffix = 0 \/ v.suffix < w.suffix)

\* latest, then the versions in descending order, then the others from A to Z.
\* Equal versions (1.0 and v1.0) keep the order they came in.
SortTags(tags) ==
    LET versions == Kept(tags, {i \in DOMAIN tags : IsVersion(tags[i])})
        Before(i, j) ==
            LET v == VersionOf[versions[i]]
                w == VersionOf[versions[j]]
            IN  VersionKeyLess(w, v) \/ (~VersionKeyLess(v, w) /\ i < j)
        places == DOMAIN versions
        order == InOrder(places, {p \in places \X places : Before(p[1], p[2])})
    IN  Kept(tags, {i \in DOMAIN tags : tags[i] = "latest"})
        \o [i \in DOMAIN order |-> versions[order[i]]]
        \o Kept(NamedTags, {i \in DOMAIN NamedTags : NamedTags[i] \in ToSet(tags)})

=============================================================================
