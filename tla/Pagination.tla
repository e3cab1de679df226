----------------------------- MODULE Pagination -----------------------------
(***************************************************************************)
(* RegistryClient._iter_paginated and its caching wrapper: listings of the *)
(* catalog (or of a repository's tags) that walk a registry page by page   *)
(* while other people add and remove names, for registries that page by    *)
(* the book and for those that do not.                                     *)
(*                                                                         *)
(* A page is one step: what the registry has when it serves it and what    *)
(* the client does with the answer, since the answer itself is what ties   *)
(* the two.  Names are numbers, in the order the registry sorts them.      *)
(***************************************************************************)
EXTENDS Integers, Sequences, FiniteSets

CONSTANTS
    Names,         \* the names the catalog may hold
    PageSize,      \* the ?n= the client asks for
    Styles,        \* how registries page: see Style
    Listers,       \* callers of iter_repositories or iter_tags
    Limits,        \* how many names a caller consumes before it breaks out
    Bounds,        \* what callers pass as max_pages: None for no bound
    MaxChanges,    \* bound on the changes of the catalog
    None

ASSUME PagingAssumption ==
    /\ Names \subseteq Nat \ {0} /\ IsFiniteSet(Names)
    /\ PageSize \in Nat \ {0} /\ Limits \subseteq Nat \ {0} /\ MaxChanges \in Nat
    /\ Bounds \subseteq (Nat \ {0}) \cup {None}

\* link: sends Link: rel="next" while there is more; cap: how many names it puts on
\* a page, which may be fewer than ?n= asks for, or more; replay: ignores where it
\* is to go on and serves the first page, or links to it, again and again.
Style == [link : BOOLEAN, cap : Nat \ {0}, replay : BOOLEAN]

ASSUME StylesAssumption == Styles \subseteq Style

VARIABLES
    style,        \* how this registry pages
    maxPages,     \* the max_pages of the callers, who all pass the same
    catalog,      \* what it has
    lister,       \* lister[l]: the state of a caller's listing
    slot,         \* the cache's item for this listing, or None
    changes

vars == << style, maxPages, catalog, lister, slot, changes >>

\* The names of S in order.
Ordered(S) ==
    [i \in 1 .. Cardinality(S) |-> CHOOSE x \in S : Cardinality({y \in S : y <= x}) = i]

NamesIn(s) == {s[i] : i \in DOMAIN s}
\* Mutant of Upto: the caller is handed everything.
Upto_All(s, n) == s
Upto(s, n) == SubSeq(s, 1, IF n < Len(s) THEN n ELSE Len(s))
LastOf(s) == s[Len(s)]

\* What the registry serves to a request to go on after name c.
Served(c) ==
    LET after == IF style.replay THEN catalog ELSE {x \in catalog : x > c}
    IN  Ordered({x \in after : Cardinality({y \in after : y <= x}) <= style.cap})

\* Whether it sends a Link along, and where that leads: to the rest, if any, or
\* in a circle.
Linked(page) ==
    /\ style.link
    /\ IF style.replay THEN page # << >>
       ELSE page # << >> /\ \E x \in catalog : x > LastOf(page)

Idle == [pc |-> "idle"]
Working == {l \in Listers : lister[l].pc = "page"}
Finished == {l \in Listers : lister[l].pc = "done"}

-----------------------------------------------------------------------------
\* A caller starts; with a cache the whole listing of an earlier caller will do.
Start(l, cached, limit) ==
    /\ lister[l].pc = "idle"
    /\ lister' = [lister EXCEPT ![l] =
          IF cached /\ slot # None
          THEN [pc |-> "done", ok |-> TRUE, limit |-> limit, items |-> Upto(slot.items, limit),
                kept |-> slot.kept, seen |-> slot.seen, clean |-> slot.clean]
          ELSE [pc |-> "page", cached |-> cached, limit |-> limit, items |-> << >>,
                cursor |-> 0, linked |-> FALSE, pages |-> 0,
                kept |-> catalog, seen |-> catalog, clean |-> TRUE]]
    /\ UNCHANGED << style, maxPages, catalog, slot, changes >>

\* The listing ends with these items; the cache gets all of them, the caller as
\* many as it wants.
Stop(l, items) ==
    LET s == lister[l] IN
    /\ lister' = [lister EXCEPT ![l] =
          [pc |-> "done", ok |-> TRUE, limit |-> s.limit, items |-> Upto(items, s.limit),
           kept |-> s.kept, seen |-> s.seen, clean |-> s.clean]]
    /\ slot' = IF s.cached
               THEN [items |-> items, kept |-> s.kept, seen |-> s.seen, clean |-> s.clean]
               ELSE slot

\* Mutant of Stagnant: no guard.
Stagnant_Never(s, page) == FALSE

\* The stagnation guard: the page ends where the cursor that was sent is.
Stagnant(s, page) ==
    ~ s.linked /\ s.cursor # 0 /\ page # << >> /\ LastOf(page) = s.cursor

\* Mutant of GoOn: max_pages is not looked at.
GoOn_Unbounded(l, items, c, linked) ==
    /\ lister' = [lister EXCEPT ![l].items = items, ![l].cursor = c,
                                ![l].linked = linked, ![l].pages = @ + 1]
    /\ UNCHANGED slot

\* Go on after name c, by a Link or by ?last=; max_pages is the head of the loop.
GoOn(l, items, c, linked) ==
    LET s == lister[l] IN
    IF maxPages # None /\ s.pages + 1 >= maxPages THEN Stop(l, items)
    ELSE /\ lister' = [lister EXCEPT ![l].items = items, ![l].cursor = c,
                                     ![l].linked = linked, ![l].pages = @ + 1]
         /\ UNCHANGED slot

\* Mutant of Page: a stagnant page is skipped and asked for again.
Page_Again(l) ==
    /\ l \in Working
    /\ LET s == lister[l]
           page == Served(s.cursor)
           items == s.items \o page
       IN  IF Stagnant(s, page) THEN UNCHANGED << lister, slot >>
           ELSE IF \/ ~ s.cached /\ Len(items) >= s.limit
                   \/ ~ Linked(page) /\ Len(page) < PageSize
                THEN Stop(l, items)
                ELSE GoOn(l, items, LastOf(page), Linked(page))
    /\ UNCHANGED << style, maxPages, catalog, changes >>

Page(l) ==
    /\ l \in Working
    /\ LET s == lister[l]
           page == Served(s.cursor)
           items == s.items \o page
       IN  IF Stagnant(s, page) THEN Stop(l, s.items)
           ELSE IF ~ s.cached /\ Len(items) >= s.limit THEN Stop(l, items)
           ELSE IF Linked(page) THEN GoOn(l, items, LastOf(page), TRUE)
           ELSE IF Len(page) < PageSize THEN Stop(l, items)
           ELSE GoOn(l, items, LastOf(page), FALSE)
    /\ UNCHANGED << style, maxPages, catalog, changes >>

\* Mutant of Fail: the cache keeps what a failed listing had got.
Fail_Cached(l) ==
    /\ l \in Working
    /\ lister' = [lister EXCEPT ![l] = [pc |-> "done", ok |-> FALSE]]
    /\ slot' = LET s == lister[l] IN
               [items |-> s.items, kept |-> s.kept, seen |-> s.seen, clean |-> s.clean]
    /\ UNCHANGED << style, maxPages, catalog, changes >>

\* An HTTP error, a timeout, or a body that is not the JSON expected.
Fail(l) ==
    /\ l \in Working
    /\ lister' = [lister EXCEPT ![l] = [pc |-> "done", ok |-> FALSE]]
    /\ UNCHANGED << style, maxPages, catalog, slot, changes >>

\* The cache's item expires or is evicted.
Expire ==
    /\ slot # None
    /\ slot' = None
    /\ UNCHANGED << style, maxPages, catalog, lister, changes >>

\* Other people add or remove a name (external).
Change(x) ==
    /\ changes < MaxChanges
    /\ changes' = changes + 1
    /\ catalog' = IF x \in catalog THEN catalog \ {x} ELSE catalog \cup {x}
    /\ lister' = [l \in Listers |->
          IF l \notin Working THEN lister[l]
          ELSE [lister[l] EXCEPT !.kept = @ \cap catalog', !.seen = @ \cup catalog',
                                 !.clean = FALSE]]
    /\ UNCHANGED << style, maxPages, slot >>

-----------------------------------------------------------------------------
\* Without max_pages a listing of a registry that links in a circle never ends:
\* that pair is left out.
Init ==
    /\ style \in Styles
    /\ maxPages \in IF style.link /\ style.replay THEN Bounds \ {None} ELSE Bounds
    /\ catalog \in SUBSET Names
    /\ lister = [l \in Listers |-> Idle]
    /\ slot = None
    /\ changes = 0

Next ==
    \/ \E l \in Listers :
          \/ \E cached \in BOOLEAN, limit \in Limits : Start(l, cached, limit)
          \/ Page(l)
          \/ Fail(l)
    \/ Expire
    \/ \E x \in Names : Change(x)

Spec == Init /\ [][Next]_vars

\* Every exchange ends, with an answer or with httpx giving up (then the listing
\* is over), and the event loop runs the listing on.
FairSpec == Spec /\ \A l \in Listers : WF_vars(Page(l))

-----------------------------------------------------------------------------
\* The fields of a listing's states and of the cached one.
TypeOK ==
    /\ catalog \subseteq Names /\ changes \in 0 .. MaxChanges
    /\ \A l \in Listers :
          \/ lister[l] = Idle
          \/ lister[l] = [pc |-> "done", ok |-> FALSE]
          \/ /\ NamesIn(lister[l].items) \subseteq Names
             /\ lister[l].kept \subseteq lister[l].seen
             /\ l \in Finished => Len(lister[l].items) <= lister[l].limit
    /\ slot # None => NamesIn(slot.items) \subseteq Names

Listed(l) == l \in Finished /\ lister[l].ok

\* The registry goes on where it is told to, and links on or puts no fewer names on
\* a page than it is asked for while it has them.
ByTheBook == ~ style.replay /\ (style.link \/ style.cap >= PageSize)

Increasing(s) == \A i, j \in DOMAIN s : i < j => s[i] < s[j]

\* A listing of a registry that pages by the book is as good as paging can be,
\* also when names come and go between two of its pages and when it is a replay
\* of another caller's from the cache: it has every name that was there all the
\* time, up to the caller's limit, and none that never was, each once and in
\* order.  In particular the cache never holds part of a listing, be it one that
\* failed in the middle or one whose caller had enough (client.py:506-513).
ListsWhatIsThere ==
    ByTheBook => \A l \in Listers : Listed(l) =>
        LET s == lister[l] IN
        /\ Len(s.items) < s.limit /\ maxPages = None => s.kept \subseteq NamesIn(s.items)
        /\ NamesIn(s.items) \subseteq s.seen
        /\ Increasing(s.items)

\* The stagnation guard: also a registry that ignores ?last= and serves the same
\* page again does not make the listing repeat a name, as long as nobody changes
\* the catalog meanwhile (client.py:595-598).  The guard is for ?last= alone: a
\* registry that sends a Link to the page it has just served is excluded here, and
\* the listing of such a one does repeat its names, as often as max_pages lets it.
NoDuplicates ==
    ~ (style.replay /\ style.link) =>
        \A l \in Listers : Listed(l) /\ lister[l].clean => Increasing(lister[l].items)

\* max_pages bounds what a listing asks of any registry, one that links in a circle
\* included: while it is under way it has fewer pages than that, and what it holds,
\* and what the cache holds of it, is no more than so many pages of this registry's.
\* It bounds pages and not names: nothing compares a page with the ?n= that was
\* asked for (client.py:554-556, 587-616).
WorkBounded ==
    maxPages # None =>
        /\ \A l \in Working : /\ lister[l].pages < maxPages
                              /\ Len(lister[l].items) <= lister[l].pages * style.cap
        /\ slot # None => Len(slot.items) <= maxPages * style.cap

\* Every listing ends: by max_pages, by the stagnation guard or, which is the
\* case of every caller in the application, without either, whatever style the
\* registry pages in, short of linking in a circle (client.py:562-598).  No style
\* makes up new names for ever: against full pages without end, each of other
\* names, only max_pages stands, and the application passes none.
Terminates == \A l \in Listers : lister[l].pc = "page" ~> lister[l].pc = "done"

=============================================================================
