-------------------------- MODULE PaginationProofs --------------------------
(***************************************************************************)
(* Proofs about the listings of _iter_paginated and their cached form, for *)
(* every catalog, page size, number of callers and of changes, and every   *)
(* way the registry may page: what a listing holds, that it repeats        *)
(* nothing, and that max_pages bounds it.                                  *)
(*                                                                         *)
(* The argument: a page is the lowest names after the cursor, in order     *)
(* (PageMeaning), so what a walk has is in order, ends at the cursor and   *)
(* has every name up to it that was there all along (Walk); a page that    *)
(* ends the walk leaves none behind it (Whole).                            *)
(***************************************************************************)
EXTENDS Pagination, SequenceTheorems, FiniteSetTheorems, TLAPS

-----------------------------------------------------------------------------
\* Sets of names in order.

\* The place of x in S, and the first n of S.
Rank(S, x) == Cardinality({y \in S : y <= x})
Lowest(S, n) == {x \in S : Rank(S, x) <= n}

\* A larger name has a higher place.
LEMMA RankGrows ==
    ASSUME NEW S \in SUBSET Nat, IsFiniteSet(S), NEW x \in S, NEW y \in S, x < y
    PROVE  Rank(S, x) < Rank(S, y)
<1> DEFINE X == {z \in S : z <= x}
           Y == {z \in S : z <= y}
<1>1. IsFiniteSet(Y) /\ Cardinality(Y) \in Nat
  <2>1. Y \in SUBSET S
    OBVIOUS
  <2>2. IsFiniteSet(Y)
    BY <2>1, FS_Subset
  <2> QED BY <2>2, FS_CardinalityType
<1>2. X \in SUBSET Y /\ y \in Y /\ y \notin X
  <2>1. x \in Nat /\ y \in Nat
    OBVIOUS
  <2>2. \A z \in S : z <= x => z <= y
    BY <2>1
  <2>3. y <= y /\ ~ (y <= x)
    BY <2>1
  <2> QED BY <2>2, <2>3
<1>3. Cardinality(X) <= Cardinality(Y) /\ Cardinality(X) # Cardinality(Y) /\ IsFiniteSet(X)
  BY <1>1, <1>2, FS_Subset
<1>4. Cardinality(X) \in Nat
  BY <1>3, FS_CardinalityType
<1> HIDE DEF X, Y
<1>5. Cardinality(X) < Cardinality(Y)
  BY <1>1, <1>3, <1>4
<1> QED BY <1>5 DEF Rank, X, Y

\* The places of the names of S are 1 to its size, each once.
LEMMA RankOnto ==
    ASSUME NEW S \in SUBSET Nat, IsFiniteSet(S)
    PROVE  /\ Cardinality(S) \in Nat
           /\ \A x \in S : Rank(S, x) \in 1 .. Cardinality(S)
           /\ \A x, y \in S : Rank(S, x) = Rank(S, y) => x = y
           /\ \A i \in 1 .. Cardinality(S) : \E x \in S : Rank(S, x) = i
<1> DEFINE n == Cardinality(S)
           f == [x \in S |-> Rank(S, x)]
<1>1. n \in Nat
  BY FS_CardinalityType
<1>2. ASSUME NEW x \in S PROVE Rank(S, x) \in 1 .. n
  <2> DEFINE X == {z \in S : z <= x}
  <2>1. X \in SUBSET S /\ x \in X
    OBVIOUS
  <2>2. IsFiniteSet(X) /\ Cardinality(X) <= n
    BY <2>1, FS_Subset
  <2>3. Cardinality(X) \in Nat /\ Cardinality(X) # 0
    BY <2>1, <2>2, FS_CardinalityType, FS_EmptySet
  <2> HIDE DEF X
  <2>4. Cardinality(X) \in 1 .. n
    BY <1>1, <2>2, <2>3
  <2> QED BY <2>4 DEF Rank, X
<1>3. ASSUME NEW x \in S, NEW y \in S, Rank(S, x) = Rank(S, y) PROVE x = y
  <2>1. Rank(S, x) \in Nat /\ Rank(S, y) \in Nat
    BY <1>1, <1>2
  <2>2. ~ (x < y) /\ ~ (y < x)
    BY <1>3, <2>1, RankGrows
  <2>3. x \in Nat /\ y \in Nat
    OBVIOUS
  <2> QED BY <2>2, <2>3
<1> HIDE DEF n
<1>4. f \in Injection(S, 1 .. n)
  BY <1>2, <1>3 DEF Injection, IsInjective
<1>5. IsFiniteSet(1 .. n) /\ Cardinality(1 .. n) = n
  BY <1>1, FS_Interval
<1>6. f \in Surjection(S, 1 .. n)
  BY <1>4, <1>5, FS_Injection DEF n
<1>7. \A i \in 1 .. n : \E x \in S : f[x] = i
  BY <1>6 DEF Surjection
<1>8. \A i \in 1 .. n : \E x \in S : Rank(S, x) = i
  BY <1>7
<1> QED BY <1>1, <1>2, <1>3, <1>8 DEF n

\* Ordered(S) is the names of S, each once and in order.
LEMMA OrderedMeaning ==
    ASSUME NEW S \in SUBSET Nat, IsFiniteSet(S)
    PROVE  /\ Ordered(S) \in Seq(S)
           /\ Len(Ordered(S)) = Cardinality(S)
           /\ Increasing(Ordered(S))
           /\ NamesIn(Ordered(S)) = S
<1> DEFINE n == Cardinality(S)
           s == Ordered(S)
<1>1. /\ n \in Nat
      /\ \A x \in S : Rank(S, x) \in 1 .. n
      /\ \A x, y \in S : Rank(S, x) = Rank(S, y) => x = y
      /\ \A i \in 1 .. n : \E x \in S : Rank(S, x) = i
  BY RankOnto
<1>2. s = [i \in 1 .. n |-> CHOOSE x \in S : Rank(S, x) = i]
  BY DEF Ordered, Rank
<1> HIDE DEF n, s
<1>3. \A i \in 1 .. n : s[i] \in S /\ Rank(S, s[i]) = i
  BY <1>1, <1>2
<1>4. s \in [1 .. n -> S]
  BY <1>2, <1>3
<1>5. s \in Seq(S) /\ Len(s) = n /\ DOMAIN s = 1 .. n
  <2>1. s \in Seq(S)
    BY <1>1, <1>4, SeqDef
  <2>2. DOMAIN s = 1 .. n
    BY <1>2
  <2>3. Len(s) \in Nat /\ DOMAIN s = 1 .. Len(s)
    BY <2>1, LenProperties
  <2> QED BY <1>1, <2>1, <2>2, <2>3
<1>6. Increasing(s)
  <2> SUFFICES ASSUME NEW i \in 1 .. n, NEW j \in 1 .. n, i < j PROVE s[i] < s[j]
    BY <1>5 DEF Increasing
  <2>1. s[i] \in S /\ s[j] \in S /\ Rank(S, s[i]) = i /\ Rank(S, s[j]) = j
    BY <1>3
  <2>2. s[j] < s[i] => j < i
    BY <2>1, RankGrows
  <2>3. i \in Nat /\ j \in Nat /\ i # j /\ ~ (j < i)
    BY <1>1
  <2>4. s[i] # s[j] /\ ~ (s[j] < s[i])
    BY <2>1, <2>2, <2>3
  <2>5. s[i] \in Nat /\ s[j] \in Nat
    BY <2>1
  <2> QED BY <2>4, <2>5
<1>7. NamesIn(s) = S
  <2>1. NamesIn(s) \subseteq S
    BY <1>3, <1>5 DEF NamesIn
  <2>2. ASSUME NEW x \in S PROVE x \in NamesIn(s)
    <3>1. Rank(S, x) \in 1 .. n
      BY <1>1
    <3>2. s[Rank(S, x)] = x
      BY <1>1, <1>3, <3>1
    <3> QED BY <1>5, <3>1, <3>2 DEF NamesIn
  <2> QED BY <2>1, <2>2
<1> QED BY <1>5, <1>6, <1>7 DEF n, s

\* The first n names of S are at most n, no other name of S lies among them, and
\* there are n unless they are all of S.
LEMMA LowestMeaning ==
    ASSUME NEW S \in SUBSET Nat, IsFiniteSet(S), NEW n \in Nat
    PROVE  /\ Lowest(S, n) \in SUBSET S
           /\ IsFiniteSet(Lowest(S, n)) /\ Cardinality(Lowest(S, n)) \in Nat
           /\ Cardinality(Lowest(S, n)) <= n
           /\ \A x \in Lowest(S, n), y \in S : y <= x => y \in Lowest(S, n)
           /\ Cardinality(Lowest(S, n)) < n => Lowest(S, n) = S
<1> DEFINE L == Lowest(S, n)
           f == [x \in L |-> Rank(S, x)]
<1>1. /\ Cardinality(S) \in Nat
      /\ \A x \in S : Rank(S, x) \in 1 .. Cardinality(S)
      /\ \A x, y \in S : Rank(S, x) = Rank(S, y) => x = y
      /\ \A i \in 1 .. Cardinality(S) : \E x \in S : Rank(S, x) = i
  BY RankOnto
<1>2. L \in SUBSET S /\ \A x \in S : x \in L <=> Rank(S, x) <= n
  BY DEF Lowest
<1> HIDE DEF L
<1>3. IsFiniteSet(L)
  BY <1>2, FS_Subset
<1>4. \A x \in L : Rank(S, x) \in 1 .. n
  BY <1>1, <1>2
<1>5. f \in Injection(L, 1 .. n)
  BY <1>1, <1>2, <1>4 DEF Injection, IsInjective
<1>6. IsFiniteSet(1 .. n) /\ Cardinality(1 .. n) = n
  BY FS_Interval
<1>7. Cardinality(L) <= n
  BY <1>5, <1>6, FS_Injection
<1>8. ASSUME NEW x \in L, NEW y \in S, y <= x PROVE y \in L
  <2>1. CASE y = x
    BY <2>1
  <2>2. CASE y < x
    <3>1. Rank(S, y) < Rank(S, x) /\ Rank(S, x) <= n
      BY <2>2, <1>2, RankGrows
    <3>2. Rank(S, y) \in Nat /\ Rank(S, x) \in Nat
      BY <1>1, <1>2
    <3>3. Rank(S, y) <= n
      BY <3>1, <3>2
    <3> QED BY <1>2, <3>3
  <2>3. x \in Nat /\ y \in Nat
    BY <1>2
  <2> QED BY <1>8, <2>1, <2>2, <2>3
<1>9. ASSUME Cardinality(L) < n PROVE L = S
  <2> SUFFICES ASSUME NEW x \in S, x \notin L PROVE FALSE
    BY <1>2
  <2>1. Rank(S, x) > n /\ n < Cardinality(S)
    BY <1>1, <1>2
  <2>2. \A i \in 1 .. n : \E z \in L : f[z] = i
    <3> SUFFICES ASSUME NEW i \in 1 .. n PROVE \E z \in L : f[z] = i
      OBVIOUS
    <3>1. PICK z \in S : Rank(S, z) = i
      BY <1>1, <2>1
    <3>2. z \in L
      BY <1>2, <3>1
    <3> QED BY <3>1, <3>2
  <2>3. f \in Surjection(L, 1 .. n)
    BY <1>4, <2>2 DEF Surjection
  <2>4. n <= Cardinality(L)
    BY <1>3, <1>6, <2>3, FS_Surjection
  <2>5. Cardinality(L) \in Nat
    BY <1>3, FS_CardinalityType
  <2> QED BY <1>9, <2>4, <2>5
<1>10. Cardinality(L) \in Nat
  BY <1>3, FS_CardinalityType
<1> QED BY <1>2, <1>3, <1>7, <1>8, <1>9, <1>10 DEF L

\* The first page of the names of A: at most n, in order, and none of A lies
\* before its last name but those on it; a page that is not full, or whose last
\* name is the last of A, has all of A.
LEMMA PageMeaning ==
    ASSUME NEW A \in SUBSET Names, NEW n \in Nat \ {0}, NEW p, p = Ordered(Lowest(A, n))
    PROVE  /\ p \in Seq(A) /\ p \in Seq(Names) /\ Len(p) <= n /\ Increasing(p)
           /\ NamesIn(p) \subseteq A
           /\ p # << >> => /\ LastOf(p) \in A
                           /\ \A i \in DOMAIN p : p[i] <= LastOf(p)
                           /\ \A x \in A : x <= LastOf(p) => x \in NamesIn(p)
           /\ Len(p) < n \/ p = << >> => NamesIn(p) = A
<1> DEFINE L == Lowest(A, n)
<1>1. A \in SUBSET Nat /\ IsFiniteSet(A) /\ A \subseteq Names
  BY PagingAssumption, FS_Subset
<1>2. /\ L \in SUBSET A /\ IsFiniteSet(L) /\ Cardinality(L) \in Nat /\ Cardinality(L) <= n
      /\ \A x \in L, y \in A : y <= x => y \in L
      /\ Cardinality(L) < n => L = A
  BY <1>1, LowestMeaning
<1> HIDE DEF L
<1>3. p \in Seq(L) /\ Len(p) = Cardinality(L) /\ Increasing(p) /\ NamesIn(p) = L
  <2>1. L \in SUBSET Nat
    BY <1>1, <1>2
  <2> QED BY <1>2, <2>1, OrderedMeaning DEF L
<1>4. DOMAIN p = 1 .. Len(p) /\ Len(p) \in Nat
  BY <1>3, LenProperties
<1>5. \A i \in 1 .. Len(p) : p[i] \in L
  BY <1>3, <1>4, ElementOfSeq
<1>6. p \in Seq(A) /\ p \in Seq(Names)
  <2>1. \A i \in 1 .. Len(p) : p[i] \in A /\ p[i] \in Names
    BY <1>1, <1>2, <1>5
  <2>2. p = [i \in 1 .. Len(p) |-> p[i]]
    BY <1>3, <1>4
  <2> QED BY <1>4, <2>1, <2>2, SeqDef
<1>7. ASSUME p # << >>
      PROVE  /\ LastOf(p) \in L
             /\ \A i \in DOMAIN p : p[i] <= LastOf(p)
             /\ \A x \in A : x <= LastOf(p) => x \in NamesIn(p)
  <2>1. Len(p) \in 1 .. Len(p)
    <3>1. Len(p) # 0
      BY <1>3, <1>7, EmptySeq
    <3> QED BY <1>4, <3>1
  <2>2. LastOf(p) = p[Len(p)] /\ LastOf(p) \in L /\ LastOf(p) \in Nat
    BY <1>1, <1>2, <1>5, <2>1 DEF LastOf
  <2>3. ASSUME NEW i \in DOMAIN p PROVE p[i] <= LastOf(p)
    <3>1. CASE i = Len(p)
      BY <2>2, <3>1
    <3>2. CASE i < Len(p)
      <4>1. p[i] < p[Len(p)]
        BY <1>3, <1>4, <2>1, <3>2 DEF Increasing
      <4>2. p[i] \in Nat
        BY <1>1, <1>2, <1>4, <1>5
      <4> QED BY <2>2, <4>1, <4>2
    <3> QED BY <1>4, <3>1, <3>2
  <2> QED BY <1>2, <1>3, <2>2, <2>3
<1>8. Len(p) < n \/ p = << >> => NamesIn(p) = A
  <2>1. p = << >> => Len(p) = 0
    BY EmptySeq
  <2> QED BY <1>2, <1>3, <2>1
<1> QED BY <1>2, <1>3, <1>6, <1>7, <1>8

-----------------------------------------------------------------------------
\* Sequences of names.

\* The names of two listings one after the other, which are in order if those of
\* the second come after those of the first.
LEMMA JoinMeaning ==
    ASSUME NEW s \in Seq(Names), NEW p \in Seq(Names)
    PROVE  /\ s \o p \in Seq(Names) /\ Len(s \o p) = Len(s) + Len(p)
           /\ Len(s) \in Nat /\ Len(p) \in Nat
           /\ NamesIn(s \o p) = NamesIn(s) \cup NamesIn(p)
           /\ Increasing(s) /\ Increasing(p) /\ (\A i \in DOMAIN s, j \in DOMAIN p : s[i] < p[j])
                 => Increasing(s \o p)
<1> DEFINE t == s \o p
<1>1. Len(s) \in Nat /\ DOMAIN s = 1 .. Len(s) /\ Len(p) \in Nat /\ DOMAIN p = 1 .. Len(p)
  BY LenProperties
<1>2. /\ t \in Seq(Names) /\ Len(t) = Len(s) + Len(p)
      /\ \A i \in 1 .. Len(s) + Len(p) : t[i] = IF i <= Len(s) THEN s[i] ELSE p[i - Len(s)]
  BY ConcatProperties
<1>3. DOMAIN t = 1 .. Len(s) + Len(p)
  BY <1>2, LenProperties
<1> HIDE DEF t
<1>4. \A i \in DOMAIN t : \/ i \in DOMAIN s /\ t[i] = s[i]
                          \/ /\ i > Len(s) /\ i - Len(s) \in DOMAIN p
                             /\ t[i] = p[i - Len(s)]
  BY <1>1, <1>2, <1>3
<1>5. \A i \in DOMAIN s : i \in DOMAIN t /\ t[i] = s[i]
  BY <1>1, <1>2, <1>3
<1>6. \A j \in DOMAIN p : Len(s) + j \in DOMAIN t /\ t[Len(s) + j] = p[j]
  BY <1>1, <1>2, <1>3
<1>7. NamesIn(t) = NamesIn(s) \cup NamesIn(p)
  BY <1>4, <1>5, <1>6 DEF NamesIn
<1>8. ASSUME Increasing(s), Increasing(p), \A i \in DOMAIN s, j \in DOMAIN p : s[i] < p[j]
      PROVE  Increasing(t)
  <2> SUFFICES ASSUME NEW i \in DOMAIN t, NEW j \in DOMAIN t, i < j PROVE t[i] < t[j]
    BY DEF Increasing
  <2>1. CASE j \in DOMAIN s /\ t[j] = s[j]
    <3>1. i \in DOMAIN s /\ t[i] = s[i]
      BY <1>1, <1>3, <1>5, <2>1
    <3> QED BY <1>8, <2>1, <3>1 DEF Increasing
  <2>2. CASE /\ j > Len(s) /\ j - Len(s) \in DOMAIN p
             /\ t[j] = p[j - Len(s)]
    <3>1. CASE i \in DOMAIN s /\ t[i] = s[i]
      BY <1>8, <2>2, <3>1
    <3>2. CASE /\ i > Len(s) /\ i - Len(s) \in DOMAIN p
               /\ t[i] = p[i - Len(s)]
      <4>1. i - Len(s) < j - Len(s)
        BY <1>1, <1>3
      <4> QED BY <1>8, <2>2, <3>2, <4>1 DEF Increasing
    <3> QED BY <1>4, <3>1, <3>2
  <2> QED BY <1>4, <2>1, <2>2
<1> QED BY <1>1, <1>2, <1>7, <1>8 DEF t

\* What a caller that wants n names is handed: at most n, and all there are unless
\* there are more.
LEMMA UptoMeaning ==
    ASSUME NEW s \in Seq(Names), NEW n \in Nat \ {0}
    PROVE  /\ Upto(s, n) \in Seq(Names) /\ Len(Upto(s, n)) <= n
           /\ NamesIn(Upto(s, n)) \subseteq NamesIn(s)
           /\ Increasing(s) => Increasing(Upto(s, n))
           /\ Len(Upto(s, n)) < n => Upto(s, n) = s
<1> DEFINE m == IF n < Len(s) THEN n ELSE Len(s)
           t == SubSeq(s, 1, m)
<1>0. Len(s) \in Nat /\ DOMAIN s = 1 .. Len(s)
  BY LenProperties
<1>1. /\ Len(s) \in Nat /\ DOMAIN s = 1 .. Len(s)
      /\ m \in Nat /\ m <= Len(s) /\ m <= n
  BY <1>0
<1>2. m < n => m = Len(s)
  <2>1. ~ (n < n)
    OBVIOUS
  <2> QED BY <2>1
<1> HIDE DEF m
<1>3. t \in Seq(Names) /\ Len(t) = m /\ \A i \in 1 .. m : t[i] = s[i]
  <2>1. \A i \in 1 .. m : s[i] \in Names
    BY <1>1, ElementOfSeq
  <2>2. t \in Seq(Names) /\ Len(t) = IF 1 <= m THEN m - 1 + 1 ELSE 0
    BY <1>1, <2>1, SubSeqProperties
  <2>3. Len(t) = m
    BY <1>1, <2>2
  <2>4. \A i \in 1 .. m - 1 + 1 : t[i] = s[1 + i - 1]
    BY <1>1, <2>1, SubSeqProperties
  <2>5. \A i \in 1 .. m : i \in 1 .. m - 1 + 1 /\ 1 + i - 1 = i
    BY <1>1
  <2> QED BY <2>2, <2>3, <2>4, <2>5
<1>4. DOMAIN t = 1 .. m
  BY <1>3, LenProperties
<1> HIDE DEF t
<1>5. \A i \in DOMAIN t : i \in DOMAIN s /\ t[i] = s[i]
  BY <1>1, <1>3, <1>4
<1>6. NamesIn(t) \subseteq NamesIn(s) /\ (Increasing(s) => Increasing(t))
  BY <1>5 DEF NamesIn, Increasing
<1>7. ASSUME m < n PROVE t = s
  <2>1. Len(t) = Len(s) /\ \A i \in 1 .. Len(s) : t[i] = s[i]
    BY <1>2, <1>3, <1>7
  <2> QED BY <1>3, <2>1, SeqEqual
<1> QED BY <1>1, <1>3, <1>6, <1>7 DEF Upto, t, m

-----------------------------------------------------------------------------
\* The inductive invariant.

\* The names a page may be taken from.
Ahead(c) == IF style.replay THEN catalog ELSE {x \in catalog : x > c}

\* A listing's items are names that were there, in order, unless the registry
\* repeats itself.
InOrder(items, seen, clean) ==
    /\ items \in Seq(Names)
    /\ ~ style.replay => Increasing(items) /\ NamesIn(items) \subseteq seen
    /\ ~ style.link /\ clean => Increasing(items)

\* A listing that no bound cut short has every name that was there all the time.
Whole(items, kept) == ByTheBook /\ maxPages = None => kept \subseteq NamesIn(items)

IsWalk(s) == {"pc", "cached", "limit", "items", "cursor", "linked", "pages",
              "kept", "seen", "clean"} \subseteq DOMAIN s

\* How far a walk has come: up to the cursor it has what there is.
UpToCursor(s) ==
    /\ Increasing(s.items) /\ NamesIn(s.items) \subseteq s.seen
    /\ \A i \in DOMAIN s.items : s.items[i] <= s.cursor
    /\ \A x \in s.kept : x <= s.cursor => x \in NamesIn(s.items)

\* The first page of a registry that serves that page only.
OnePage(s) ==
    \/ s.items = << >> /\ s.cursor = 0
    \/ /\ s.items # << >> /\ s.items = Ordered(Lowest(catalog, style.cap))
       /\ s.cursor = LastOf(s.items) /\ ~ s.linked

Walk(s) ==
    /\ IsWalk(s)
    /\ s.items \in Seq(Names) /\ s.cursor \in Nat /\ s.pages \in Nat /\ s.limit \in Limits
    /\ s.kept \subseteq catalog /\ catalog \subseteq s.seen
    /\ Len(s.items) <= s.pages * style.cap
    /\ maxPages # None => s.pages < maxPages
    /\ ~ style.replay => UpToCursor(s)
    /\ style.replay /\ ~ style.link /\ s.clean => OnePage(s)

Report(s) ==
    /\ s.ok = TRUE /\ s.limit \in Limits
    /\ s.kept \subseteq s.seen
    /\ InOrder(s.items, s.seen, s.clean)
    /\ Len(s.items) <= s.limit
    /\ Len(s.items) < s.limit => Whole(s.items, s.kept)

ListerOK(s) ==
    \/ s = Idle
    \/ s = [pc |-> "done", ok |-> FALSE]
    \/ s.pc = "done" /\ Report(s)
    \/ s.pc = "page" /\ Walk(s)

SlotOK ==
    slot # None =>
        /\ slot.kept \subseteq slot.seen
        /\ InOrder(slot.items, slot.seen, slot.clean)
        /\ Whole(slot.items, slot.kept)
        /\ maxPages # None => Len(slot.items) <= maxPages * style.cap

IInv ==
    /\ style \in Style /\ maxPages \in Bounds
    /\ catalog \subseteq Names /\ changes \in 0 .. MaxChanges
    /\ DOMAIN lister = Listers /\ \A l \in Listers : ListerOK(lister[l])
    /\ SlotOK

-----------------------------------------------------------------------------
\* The steps.

\* What a request to go on after c is answered: the first page of what lies ahead.
LEMMA ServedMeaning ==
    ASSUME style \in Style, catalog \subseteq Names, NEW c
    PROVE  /\ Served(c) = Ordered(Lowest(Ahead(c), style.cap))
           /\ Ahead(c) \in SUBSET Names
           /\ style.cap \in Nat \ {0}
<1>1. style.cap \in Nat \ {0}
  BY DEF Style
<1> QED BY <1>1 DEF Served, Lowest, Rank, Ahead

\* The invariant of one caller that walks.
LEMMA WalkFacts ==
    ASSUME IInv, NEW l \in Working
    PROVE  /\ Walk(lister[l]) /\ l \in Listers /\ DOMAIN lister = Listers
           /\ style \in Style /\ catalog \subseteq Names /\ maxPages \in Bounds
           /\ lister[l].limit \in Nat \ {0}
<1>1. l \in Listers /\ lister[l].pc = "page" /\ ListerOK(lister[l])
  BY DEF Working, IInv
<1>2. Walk(lister[l])
  BY <1>1 DEF ListerOK, Idle
<1> QED BY <1>1, <1>2, PagingAssumption DEF IInv, Walk

\* A page that follows a cursor of a registry that goes on where it is told to:
\* with it the walk has what there is up to the page's last name, or all there is.
LEMMA PageGoesOn ==
    ASSUME IInv, NEW l \in Working, ~ style.replay
    PROVE  LET s == lister[l]
               page == Served(s.cursor)
               items == s.items \o page
           IN  /\ Increasing(items) /\ NamesIn(items) \subseteq s.seen
               /\ ~ Stagnant(s, page)
               /\ page # << >> =>
                    /\ \A i \in DOMAIN items : items[i] <= LastOf(page)
                    /\ \A x \in s.kept : x <= LastOf(page) => x \in NamesIn(items)
               /\ ~ Linked(page) /\ Len(page) < PageSize => Whole(items, s.kept)
<1> DEFINE s == lister[l]
           page == Served(s.cursor)
           items == s.items \o page
           A == Ahead(s.cursor)
<1>1. /\ Walk(s) /\ style \in Style /\ catalog \subseteq Names /\ UpToCursor(s)
  BY WalkFacts DEF Walk
<1>2. /\ s.items \in Seq(Names) /\ s.cursor \in Nat
      /\ s.kept \subseteq catalog /\ catalog \subseteq s.seen
      /\ Increasing(s.items) /\ NamesIn(s.items) \subseteq s.seen
      /\ \A i \in DOMAIN s.items : s.items[i] <= s.cursor
      /\ \A x \in s.kept : x <= s.cursor => x \in NamesIn(s.items)
  BY <1>1 DEF Walk, UpToCursor
<1>3. A = {x \in catalog : x > s.cursor}
  BY DEF Ahead
<1>4. /\ page = Ordered(Lowest(A, style.cap)) /\ A \in SUBSET Names
      /\ style.cap \in Nat \ {0}
  BY <1>1, ServedMeaning
<1> HIDE DEF s, page, A
<1>5. /\ page \in Seq(A) /\ page \in Seq(Names) /\ Len(page) <= style.cap /\ Increasing(page)
      /\ NamesIn(page) \subseteq A
      /\ page # << >> => /\ LastOf(page) \in A
                         /\ \A i \in DOMAIN page : page[i] <= LastOf(page)
                         /\ \A x \in A : x <= LastOf(page) => x \in NamesIn(page)
      /\ Len(page) < style.cap \/ page = << >> => NamesIn(page) = A
  <2> DEFINE n == style.cap
  <2>1. page = Ordered(Lowest(A, n)) /\ A \in SUBSET Names /\ n \in Nat \ {0}
    BY <1>4
  <2> HIDE DEF n
  <2>2. /\ page \in Seq(A) /\ page \in Seq(Names) /\ Len(page) <= n /\ Increasing(page)
        /\ NamesIn(page) \subseteq A
        /\ page # << >> => /\ LastOf(page) \in A
                           /\ \A i \in DOMAIN page : page[i] <= LastOf(page)
                           /\ \A x \in A : x <= LastOf(page) => x \in NamesIn(page)
        /\ Len(page) < n \/ page = << >> => NamesIn(page) = A
    BY <2>1, PageMeaning
  <2> QED BY <2>2 DEF n
<1>6. \A x \in A : x \in catalog /\ x \in Nat /\ x > s.cursor
  BY <1>3, <1>4, PagingAssumption
<1>7. \A i \in DOMAIN s.items : s.items[i] \in Nat
  <2>1. \A i \in DOMAIN s.items : s.items[i] \in Names
    BY <1>2, ElementOfSeq, LenProperties
  <2> QED BY <2>1, PagingAssumption
<1>8. \A j \in DOMAIN page : page[j] \in A
  BY <1>5 DEF NamesIn
<1>9. \A i \in DOMAIN s.items, j \in DOMAIN page : s.items[i] < page[j]
  BY <1>2, <1>6, <1>7, <1>8
<1>10. /\ NamesIn(items) = NamesIn(s.items) \cup NamesIn(page)
       /\ Increasing(items)
  BY <1>2, <1>5, <1>9, JoinMeaning
<1>11. NamesIn(items) \subseteq s.seen
  BY <1>2, <1>5, <1>6, <1>10
<1> HIDE DEF items
<1>12. ~ Stagnant(s, page)
  BY <1>2, <1>5, <1>6 DEF Stagnant
<1>13. ASSUME page # << >>
       PROVE  /\ \A i \in DOMAIN items : items[i] <= LastOf(page)
              /\ \A x \in s.kept : x <= LastOf(page) => x \in NamesIn(items)
  <2>1. LastOf(page) \in A /\ LastOf(page) \in Nat /\ LastOf(page) > s.cursor
    BY <1>5, <1>6, <1>13
  <2>2. \A i \in DOMAIN s.items : s.items[i] <= LastOf(page)
    BY <1>2, <1>7, <2>1
  <2>3. \A x \in NamesIn(items) : x <= LastOf(page)
    BY <1>5, <1>10, <1>13, <2>2 DEF NamesIn
  <2>4. \A i \in DOMAIN items : items[i] <= LastOf(page)
    BY <2>3 DEF NamesIn
  <2>5. ASSUME NEW x \in s.kept, x <= LastOf(page) PROVE x \in NamesIn(items)
    <3>1. x \in catalog /\ x \in Nat
      BY <1>1, <1>2, PagingAssumption
    <3>2. CASE x <= s.cursor
      BY <1>2, <1>10, <3>2
    <3>3. CASE ~ (x <= s.cursor)
      <4>1. x \in A
        BY <1>2, <1>3, <3>1, <3>3
      <4> QED BY <1>5, <1>10, <1>13, <2>5, <4>1
    <3> QED BY <3>2, <3>3
  <2> QED BY <2>4, <2>5
<1>14. ASSUME ~ Linked(page), Len(page) < PageSize
       PROVE  Whole(items, s.kept)
  <2> SUFFICES ASSUME ByTheBook PROVE s.kept \subseteq NamesIn(items)
    BY DEF Whole
  <2>1. NamesIn(page) = A
    <3>1. CASE page = << >>
      BY <1>5, <3>1
    <3>2. CASE page # << >> /\ style.link
      <4>1. \A x \in A : ~ (x > LastOf(page))
        BY <1>6, <1>14, <3>2 DEF Linked
      <4>2. \A x \in A : x <= LastOf(page)
        BY <1>5, <1>6, <3>2, <4>1
      <4> QED BY <1>5, <3>2, <4>2
    <3>3. CASE style.cap >= PageSize
      <4>1. Len(page) \in Nat /\ PageSize \in Nat
        BY <1>5, LenProperties, PagingAssumption
      <4>2. Len(page) < style.cap
        BY <1>4, <1>14, <3>3, <4>1
      <4> QED BY <1>5, <4>2
    <3> QED BY <3>1, <3>2, <3>3 DEF ByTheBook
  <2>2. ASSUME NEW x \in s.kept PROVE x \in NamesIn(items)
    <3>1. x \in catalog /\ x \in Nat
      BY <1>1, <1>2, PagingAssumption
    <3>2. CASE x <= s.cursor
      BY <1>2, <1>10, <3>2
    <3>3. CASE ~ (x <= s.cursor)
      BY <1>2, <1>3, <1>10, <2>1, <3>1, <3>3
    <3> QED BY <3>2, <3>3
  <2> QED BY <2>2
<1> QED BY <1>10, <1>11, <1>12, <1>13, <1>14 DEF s, page, items

\* A registry that serves its first page again and again, without a Link, and with
\* nobody changing the catalog: the page is new, or there are no names, or the
\* stagnation guard sees it.
LEMMA PageRepeats ==
    ASSUME IInv, NEW l \in Working, style.replay, ~ style.link, lister[l].clean
    PROVE  LET s == lister[l]
               page == Served(s.cursor)
           IN  /\ Increasing(s.items)
               /\ \/ Stagnant(s, page)
                  \/ /\ s.items \o page = page /\ Increasing(page)
                     /\ page = Ordered(Lowest(catalog, style.cap))
<1> DEFINE s == lister[l]
           page == Served(s.cursor)
<1>1. Walk(s) /\ style \in Style /\ catalog \subseteq Names /\ OnePage(s)
  BY WalkFacts DEF Walk
<1>2. /\ page = Ordered(Lowest(catalog, style.cap)) /\ catalog \in SUBSET Names
      /\ style.cap \in Nat \ {0}
  BY <1>1, ServedMeaning DEF Ahead
<1> HIDE DEF s, page
<1>3. /\ page \in Seq(Names) /\ Increasing(page)
      /\ page # << >> => LastOf(page) \in Names
  BY <1>2, PageMeaning
<1>4. CASE s.items = << >> /\ s.cursor = 0
  <2>1. s.items \o page = page
    BY <1>3, <1>4, ConcatEmptySeq
  <2>2. Increasing(s.items)
    BY <1>4, EmptySeq DEF Increasing
  <2> QED BY <1>2, <1>3, <2>1, <2>2 DEF s, page
<1>5. CASE s.items # << >> /\ s.items = page /\ s.cursor = LastOf(s.items) /\ ~ s.linked
  <2>1. s.cursor # 0
    BY <1>3, <1>5, PagingAssumption
  <2>2. Stagnant(s, page)
    BY <1>5, <2>1 DEF Stagnant
  <2> QED BY <1>3, <1>5, <2>2 DEF s, page
<1>6. OnePage(s) <=> \/ s.items = << >> /\ s.cursor = 0
                     \/ /\ s.items # << >> /\ s.items = page
                        /\ s.cursor = LastOf(s.items) /\ ~ s.linked
  BY <1>2 DEF OnePage
<1> QED BY <1>1, <1>4, <1>5, <1>6

\* One page more, for any registry: at most style.cap names more, in order if it is
\* the only one or follows the others.
LEMMA PageAdds ==
    ASSUME IInv, NEW l \in Working
    PROVE  LET s == lister[l]
               page == Served(s.cursor)
               items == s.items \o page
           IN  /\ items \in Seq(Names) /\ Len(items) <= (s.pages + 1) * style.cap
               /\ page \in Seq(Names)
               /\ page # << >> => LastOf(page) \in Nat
               /\ ~ Stagnant(s, page) => InOrder(items, s.seen, s.clean)
               /\ Stagnant(s, page) => InOrder(s.items, s.seen, s.clean) /\ Whole(s.items, s.kept)
<1> DEFINE s == lister[l]
           page == Served(s.cursor)
           items == s.items \o page
<1>1. /\ Walk(s) /\ style \in Style /\ catalog \subseteq Names /\ s.items \in Seq(Names)
      /\ s.pages \in Nat /\ Len(s.items) <= s.pages * style.cap /\ style.cap \in Nat
  BY WalkFacts, ServedMeaning DEF Walk
<1>2. /\ page = Ordered(Lowest(Ahead(s.cursor), style.cap)) /\ Ahead(s.cursor) \in SUBSET Names
      /\ style.cap \in Nat \ {0}
  BY <1>1, ServedMeaning
<1>3. page \in Seq(Names) /\ Len(page) <= style.cap /\ (page # << >> => LastOf(page) \in Names)
  <2> DEFINE n == style.cap
             A == Ahead(s.cursor)
  <2>1. page = Ordered(Lowest(A, n)) /\ A \in SUBSET Names /\ n \in Nat \ {0}
    BY <1>2
  <2> HIDE DEF n, A, page
  <2>2. page \in Seq(Names) /\ Len(page) <= n /\ (page # << >> => LastOf(page) \in A)
    BY <2>1, PageMeaning
  <2> QED BY <2>1, <2>2 DEF n
<1>4. items \in Seq(Names) /\ Len(items) = Len(s.items) + Len(page) /\ Len(page) \in Nat
      /\ Len(s.items) \in Nat
  BY <1>1, <1>3, JoinMeaning
<1>5. Len(items) <= (s.pages + 1) * style.cap
  <2> DEFINE k == s.pages
             w == s.pages * style.cap
  <2>1. (k + 1) * style.cap = k * style.cap + style.cap
    <3> HIDE DEF k
    <3>1. k \in Nat
      BY <1>1 DEF k
    <3> QED BY <1>1, <3>1
  <2>2. w \in Nat
    <3>1. s.pages \in Nat /\ style.cap \in Nat
      BY <1>1
    <3> HIDE DEF s
    <3> QED BY <3>1
  <2>3. Len(page) <= style.cap /\ Len(s.items) <= w
    BY <1>1, <1>3
  <2> HIDE DEF w, s, page, items
  <2>4. Len(items) <= w + style.cap
    BY <1>1, <1>4, <2>2, <2>3
  <2> QED BY <2>1, <2>4 DEF w
<1>6. ~ style.replay => /\ Increasing(items) /\ NamesIn(items) \subseteq s.seen
                        /\ ~ Stagnant(s, page)
  BY PageGoesOn
<1>7. style.replay /\ ~ style.link /\ s.clean =>
         Increasing(s.items) /\ (Stagnant(s, page) \/ Increasing(items))
  BY PageRepeats
<1>8. page # << >> => LastOf(page) \in Nat
  BY <1>3, PagingAssumption
<1> HIDE DEF s, page, items
<1>9. ~ Stagnant(s, page) => InOrder(items, s.seen, s.clean)
  BY <1>4, <1>6, <1>7 DEF InOrder
<1>10. Stagnant(s, page) => InOrder(s.items, s.seen, s.clean) /\ Whole(s.items, s.kept)
  BY <1>1, <1>6, <1>7 DEF InOrder, Whole, ByTheBook
<1> QED BY <1>3, <1>4, <1>5, <1>8, <1>9, <1>10 DEF s, page, items

\* What a caller is told of a listing that ends: what it wanted of the items.
Told(s, items) ==
    [pc |-> "done", ok |-> TRUE, limit |-> s.limit, items |-> Upto(items, s.limit),
     kept |-> s.kept, seen |-> s.seen, clean |-> s.clean]

\* It reports what is there if the items do, or if they are as many as it wanted.
LEMMA ToldReport ==
    ASSUME NEW s, s.limit \in Limits, s.kept \subseteq s.seen, NEW items,
           InOrder(items, s.seen, s.clean),
           Whole(items, s.kept) \/ Len(items) >= s.limit
    PROVE  Told(s, items).pc = "done" /\ Report(Told(s, items))
<1> DEFINE t == Told(s, items)
<1>1. /\ t.pc = "done" /\ t.ok = TRUE /\ t.limit = s.limit /\ t.items = Upto(items, s.limit)
      /\ t.kept = s.kept /\ t.seen = s.seen /\ t.clean = s.clean
  BY DEF Told
<1> HIDE DEF t
<1>2. s.limit \in Nat \ {0} /\ items \in Seq(Names) /\ Len(items) \in Nat
  BY PagingAssumption, LenProperties DEF InOrder
<1>3. /\ t.items \in Seq(Names) /\ Len(t.items) <= s.limit
      /\ NamesIn(t.items) \subseteq NamesIn(items)
      /\ Increasing(items) => Increasing(t.items)
      /\ Len(t.items) < s.limit => t.items = items
  BY <1>1, <1>2, UptoMeaning
<1>4. InOrder(t.items, s.seen, s.clean)
  BY <1>3 DEF InOrder
<1>5. Len(t.items) < s.limit => Whole(t.items, s.kept)
  BY <1>2, <1>3
<1> QED BY <1>1, <1>3, <1>4, <1>5 DEF Report, t

\* A caller that is left alone, in a catalog that is.
LEMMA Spared ==
    ASSUME NEW q, ListerOK(lister[q]), lister'[q] = lister[q],
           UNCHANGED << style, maxPages, catalog >>
    PROVE  ListerOK(lister[q])'
<1>1. Walk(lister[q])' <=> Walk(lister[q])
  BY DEF Walk, IsWalk, UpToCursor, OnePage
<1>2. Report(lister[q])' <=> Report(lister[q])
  BY DEF Report, InOrder, Whole, ByTheBook
<1> QED BY <1>1, <1>2 DEF ListerOK, Idle

\* The cached listing, left alone.
LEMMA SparedSlot ==
    ASSUME SlotOK, UNCHANGED << style, maxPages, slot >>
    PROVE  SlotOK'
  BY DEF SlotOK, InOrder, Whole, ByTheBook

\* A step of one caller: it is enough to look at its new state and at the cache.
LEMMA OneLister ==
    ASSUME IInv, NEW l \in Listers, NEW STATE v, lister' = [lister EXCEPT ![l] = v],
           UNCHANGED << style, maxPages, catalog, changes >>,
           ListerOK(lister[l])', SlotOK'
    PROVE  IInv'
<1>1. DOMAIN lister' = Listers /\ \A q \in Listers \ {l} : lister'[q] = lister[q]
  BY DEF IInv
<1>2. \A q \in Listers : ListerOK(lister[q])'
  BY <1>1, Spared DEF IInv
<1> QED BY <1>1, <1>2 DEF IInv

\* The listing ends: the caller is told of it and the cache keeps it.
LEMMA StopStep ==
    ASSUME IInv, NEW l \in Working, NEW STATE items, Stop(l, items),
           UNCHANGED << style, maxPages, catalog, changes >>,
           InOrder(items, lister[l].seen, lister[l].clean),
           \/ Whole(items, lister[l].kept)
           \/ ~ lister[l].cached /\ Len(items) >= lister[l].limit,
           maxPages # None => Len(items) <= maxPages * style.cap
    PROVE  IInv'
<1> DEFINE s == lister[l]
           t == Told(s, items)
<1>1. Walk(s) /\ l \in Listers /\ DOMAIN lister = Listers
  BY WalkFacts
<1>2. s.limit \in Limits /\ s.kept \subseteq s.seen
  BY <1>1 DEF Walk
<1>3. /\ lister' = [lister EXCEPT ![l] = t]
      /\ slot' = IF s.cached
                 THEN [items |-> items, kept |-> s.kept, seen |-> s.seen, clean |-> s.clean]
                 ELSE slot
  BY DEF Stop, Told
<1> HIDE DEF s
<1>4. t.pc = "done" /\ Report(t)
  BY <1>2, ToldReport DEF s
<1>5. lister'[l] = t
  BY <1>1, <1>3
<1> HIDE DEF t
<1>6. Report(lister[l])' <=> Report(t)
  BY <1>5 DEF Report, InOrder, Whole, ByTheBook
<1>7. ListerOK(lister[l])'
  BY <1>4, <1>5, <1>6 DEF ListerOK
<1>8. SlotOK'
  <2>1. CASE s.cached
    <3>1. /\ slot'.items = items /\ slot'.kept = s.kept /\ slot'.seen = s.seen
          /\ slot'.clean = s.clean
      BY <1>3, <2>1
    <3>2. InOrder(items, s.seen, s.clean) /\ Whole(items, s.kept)
      BY <2>1 DEF s
    <3> QED BY <1>2, <3>1, <3>2 DEF SlotOK, InOrder, Whole, ByTheBook
  <2>2. CASE ~ s.cached
    BY <1>3, <2>2, SparedSlot DEF IInv
  <2> QED BY <2>1, <2>2
<1> QED BY <1>1, <1>3, <1>7, <1>8, OneLister

\* More pages hold more.
LEMMA TimesGrows ==
    ASSUME NEW a \in Nat, NEW b \in Nat, NEW c \in Nat, a <= b
    PROVE  a * c \in Nat /\ a * c <= b * c
<1>1. PICK d \in Nat : b = a + d
  <2>1. b - a \in Nat /\ b = a + (b - a)
    OBVIOUS
  <2> QED BY <2>1
<1>2. b * c = a * c + d * c
  BY <1>1
<1>3. a * c \in Nat /\ d * c \in Nat
  OBVIOUS
<1> QED BY <1>2, <1>3

\* A walk that goes on, with one page more.
Onward(s, items, c, linked) ==
    [s EXCEPT !.items = items, !.cursor = c, !.linked = linked, !.pages = @ + 1]

LEMMA OnwardFields ==
    ASSUME NEW s, IsWalk(s), NEW items, NEW c, NEW linked
    PROVE  LET t == Onward(s, items, c, linked) IN
           /\ t.items = items /\ t.cursor = c /\ t.linked = linked /\ t.pages = s.pages + 1
           /\ t.pc = s.pc /\ t.limit = s.limit /\ t.kept = s.kept /\ t.seen = s.seen
           /\ t.clean = s.clean /\ t.cached = s.cached /\ IsWalk(t)
BY Zenon DEF Onward, IsWalk

\* The walk goes on after a page that is not empty, or by a Link, unless max_pages
\* ends it.
LEMMA GoOnStep ==
    ASSUME IInv, NEW l \in Working, NEW STATE linked,
           GoOn(l, lister[l].items \o Served(lister[l].cursor),
                LastOf(Served(lister[l].cursor)), linked),
           Served(lister[l].cursor) # << >>, linked => style.link,
           ~ Stagnant(lister[l], Served(lister[l].cursor)),
           UNCHANGED << style, maxPages, catalog, changes >>
    PROVE  IInv'
<1> DEFINE s == lister[l]
           page == Served(s.cursor)
           items == s.items \o page
           c == LastOf(Served(s.cursor))
           t == Onward(s, items, c, linked)
<1>1. /\ Walk(s) /\ l \in Listers /\ DOMAIN lister = Listers
      /\ maxPages \in Bounds
  BY WalkFacts
<1>2. /\ items \in Seq(Names) /\ Len(items) <= (s.pages + 1) * style.cap
      /\ c \in Nat /\ InOrder(items, s.seen, s.clean) /\ Len(items) \in Nat
  BY PageAdds, LenProperties
<1>3. /\ s.pages \in Nat /\ (maxPages # None => s.pages < maxPages /\ maxPages \in Nat)
  BY <1>1, PagingAssumption DEF Walk
<1>4. CASE maxPages # None /\ s.pages + 1 >= maxPages
  <2>1. Stop(l, items)
    BY <1>4 DEF GoOn
  <2>2. Whole(items, s.kept)
    BY <1>4 DEF Whole
  <2>3. Len(items) <= maxPages * style.cap
    <3> DEFINE k == s.pages + 1
               n == Len(items)
    <3>1. k = maxPages /\ k \in Nat
      BY <1>3, <1>4
    <3>2. n <= k * style.cap
      BY <1>2
    <3> HIDE DEF k, n
    <3>3. n <= maxPages * style.cap
      BY <3>1, <3>2
    <3> QED BY <3>3 DEF n
  <2> HIDE DEF items
  <2>4. IInv'
    BY <1>2, <2>1, <2>2, <2>3, StopStep
  <2> QED BY <2>4
<1>5. CASE ~ (maxPages # None /\ s.pages + 1 >= maxPages)
  <2>1. lister' = [lister EXCEPT ![l] = t] /\ slot' = slot
    BY <1>1, <1>5 DEF GoOn, Onward
  <2>2. lister'[l] = t
    BY <1>1, <2>1
  <2>3. /\ t.items = items /\ t.cursor = c /\ t.linked = linked /\ t.pages = s.pages + 1
        /\ t.pc = "page" /\ t.limit = s.limit /\ t.kept = s.kept /\ t.seen = s.seen
        /\ t.clean = s.clean /\ IsWalk(t)
    <3>1. s.pc = "page" /\ IsWalk(s)
      BY <1>1 DEF Working, Walk
    <3> HIDE DEF s, items, c
    <3> QED BY <3>1, OnwardFields
  <2>4. ~ style.replay => /\ Increasing(items) /\ NamesIn(items) \subseteq s.seen
                          /\ \A i \in DOMAIN items : items[i] <= c
                          /\ \A x \in s.kept : x <= c => x \in NamesIn(items)
    BY PageGoesOn
  <2>5. style.replay /\ ~ style.link /\ s.clean =>
           /\ items = page /\ c = LastOf(items)
           /\ page = Ordered(Lowest(catalog, style.cap)) /\ ~ linked
    BY PageRepeats
  <2>6. /\ s.limit \in Limits /\ s.kept \subseteq catalog /\ catalog \subseteq s.seen
        /\ page # << >>
    BY <1>1 DEF Walk
  <2>7. maxPages # None => s.pages + 1 < maxPages
    BY <1>3, <1>5
  <2>8. s.pages + 1 \in Nat
    BY <1>3
  <2> HIDE DEF s, items, page, c
  <2>9. Walk(t)
    <3>1. t.items \in Seq(Names) /\ t.cursor \in Nat /\ t.pages \in Nat /\ t.limit \in Limits
      BY <1>2, <2>3, <2>6, <2>8
    <3>2. /\ t.kept \subseteq catalog /\ catalog \subseteq t.seen
          /\ Len(t.items) <= t.pages * style.cap
          /\ maxPages # None => t.pages < maxPages
      BY <1>2, <2>3, <2>6, <2>7
    <3>3. ~ style.replay => UpToCursor(t)
      BY <2>3, <2>4 DEF UpToCursor
    <3>4. style.replay /\ ~ style.link /\ t.clean => OnePage(t)
      <4>1. style.replay /\ ~ style.link /\ s.clean =>
               /\ t.items # << >> /\ t.items = Ordered(Lowest(catalog, style.cap))
               /\ t.cursor = LastOf(t.items) /\ ~ t.linked
        BY <2>3, <2>5, <2>6
      <4> HIDE DEF t
      <4> QED BY <2>3, <4>1 DEF OnePage
    <3> HIDE DEF t
    <3> QED BY <2>3, <3>1, <3>2, <3>3, <3>4 DEF Walk
  <2> HIDE DEF t
  <2>10. ListerOK(lister[l])'
    <3>1. Walk(lister[l])' <=> Walk(t)
      BY <2>2 DEF Walk, IsWalk, UpToCursor, OnePage
    <3> QED BY <2>2, <2>3, <2>9, <3>1 DEF ListerOK
  <2>11. SlotOK'
    BY <2>1, SparedSlot DEF IInv
  <2> QED BY <1>1, <2>1, <2>10, <2>11, OneLister
<1> QED BY <1>4, <1>5

\* One page: the guards in the order _iter_paginated tries them.
LEMMA PageStep ==
    ASSUME IInv, NEW l \in Listers, Page(l)
    PROVE  IInv'
<1> DEFINE s == lister[l]
           page == Served(s.cursor)
           items == s.items \o page
<1>1. l \in Working /\ UNCHANGED << style, maxPages, catalog, changes >>
  BY DEF Page
<1>2. /\ Walk(s) /\ maxPages \in Bounds
      /\ Len(s.items) <= s.pages * style.cap /\ s.pages \in Nat /\ s.items \in Seq(Names)
      /\ (maxPages # None => s.pages < maxPages /\ maxPages \in Nat)
      /\ PageSize \in Nat \ {0} /\ style.cap \in Nat
  BY <1>1, WalkFacts, ServedMeaning, PagingAssumption DEF Walk
<1>3. /\ items \in Seq(Names) /\ Len(items) <= (s.pages + 1) * style.cap
      /\ page \in Seq(Names)
      /\ ~ Stagnant(s, page) => InOrder(items, s.seen, s.clean)
      /\ Stagnant(s, page) => InOrder(s.items, s.seen, s.clean) /\ Whole(s.items, s.kept)
  BY <1>1, PageAdds
<1>4. maxPages # None => /\ Len(s.items) <= maxPages * style.cap
                         /\ Len(items) <= maxPages * style.cap
  <2> SUFFICES ASSUME maxPages # None
               PROVE  /\ Len(s.items) <= maxPages * style.cap
                      /\ Len(items) <= maxPages * style.cap
    OBVIOUS
  <2> DEFINE k == s.pages
  <2>1. k \in Nat /\ k + 1 \in Nat /\ maxPages \in Nat /\ style.cap \in Nat
        /\ k <= maxPages /\ k + 1 <= maxPages
    BY <1>2
  <2>2. Len(s.items) \in Nat /\ Len(items) \in Nat
    BY <1>2, <1>3, LenProperties
  <2>3. Len(s.items) <= k * style.cap /\ Len(items) <= (k + 1) * style.cap
    BY <1>2, <1>3
  <2> HIDE DEF k, s, page, items
  <2>4. /\ k * style.cap \in Nat /\ k * style.cap <= maxPages * style.cap
        /\ (k + 1) * style.cap \in Nat /\ (k + 1) * style.cap <= maxPages * style.cap
    BY <2>1, TimesGrows
  <2>5. maxPages * style.cap \in Nat
    BY <2>1
  <2> QED BY <2>2, <2>3, <2>4, <2>5
<1>5. CASE Stagnant(s, page)
  <2>1. Stop(l, s.items)
    BY <1>5 DEF Page
  <2> QED BY <1>1, <1>3, <1>4, <1>5, <2>1, StopStep
<1>6. CASE ~ Stagnant(s, page) /\ ~ s.cached /\ Len(items) >= s.limit
  <2>1. Stop(l, items)
    BY <1>6 DEF Page
  <2> HIDE DEF items
  <2> QED BY <1>1, <1>3, <1>4, <1>6, <2>1, StopStep
<1>7. CASE ~ Stagnant(s, page) /\ ~ (~ s.cached /\ Len(items) >= s.limit) /\ Linked(page)
  <2>1. GoOn(l, items, LastOf(page), TRUE)
    BY <1>7 DEF Page
  <2>2. page # << >> /\ style.link
    BY <1>7 DEF Linked
  <2> QED BY <1>1, <1>7, <2>1, <2>2, GoOnStep
<1>8. CASE /\ ~ Stagnant(s, page) /\ ~ (~ s.cached /\ Len(items) >= s.limit)
           /\ ~ Linked(page) /\ Len(page) < PageSize
  <2>1. Stop(l, items)
    BY <1>8 DEF Page
  <2>2. Whole(items, s.kept)
    <3>1. CASE style.replay
      BY <3>1 DEF Whole, ByTheBook
    <3>2. CASE ~ style.replay
      BY <1>1, <1>8, <3>2, PageGoesOn
    <3> QED BY <3>1, <3>2
  <2> HIDE DEF items
  <2> QED BY <1>1, <1>3, <1>4, <1>8, <2>1, <2>2, StopStep
<1>9. CASE /\ ~ Stagnant(s, page) /\ ~ (~ s.cached /\ Len(items) >= s.limit)
           /\ ~ Linked(page) /\ ~ (Len(page) < PageSize)
  <2>1. GoOn(l, items, LastOf(page), FALSE)
    BY <1>9 DEF Page
  <2>2. page # << >>
    BY <1>2, <1>9, EmptySeq
  <2> QED BY <1>1, <1>9, <2>1, <2>2, GoOnStep
<1> QED BY <1>5, <1>6, <1>7, <1>8, <1>9

\* An exchange fails, and the listing with it.
LEMMA FailStep ==
    ASSUME IInv, NEW l \in Listers, Fail(l)
    PROVE  IInv'
<1> DEFINE t == [pc |-> "done", ok |-> FALSE]
<1>1. /\ lister' = [lister EXCEPT ![l] = t] /\ DOMAIN lister = Listers
      /\ UNCHANGED << style, maxPages, catalog, slot, changes >>
  BY DEF Fail, IInv
<1>2. ListerOK(lister[l])'
  <2>1. lister'[l] = t
    BY <1>1
  <2> QED BY <2>1 DEF ListerOK
<1>3. SlotOK'
  BY <1>1, SparedSlot DEF IInv
<1> QED BY <1>1, <1>2, <1>3, OneLister

\* A caller starts on an empty listing of the catalog as it is.
Afresh(cached, limit) ==
    [pc |-> "page", cached |-> cached, limit |-> limit, items |-> << >>,
     cursor |-> 0, linked |-> FALSE, pages |-> 0,
     kept |-> catalog, seen |-> catalog, clean |-> TRUE]

LEMMA AfreshWalk ==
    ASSUME style \in Style, catalog \subseteq Names, maxPages \in Bounds,
           NEW cached, NEW limit \in Limits
    PROVE  Afresh(cached, limit).pc = "page" /\ Walk(Afresh(cached, limit))
<1> DEFINE t == Afresh(cached, limit)
<1>1. /\ t.pc = "page" /\ t.limit = limit /\ t.items = << >> /\ t.cursor = 0 /\ t.pages = 0
      /\ t.kept = catalog /\ t.seen = catalog /\ IsWalk(t)
  BY Zenon DEF Afresh, IsWalk
<1> HIDE DEF t
<1>2. t.items \in Seq(Names) /\ Len(t.items) = 0 /\ DOMAIN t.items = {}
  BY <1>1, EmptySeq
<1>3. 0 <= 0 * style.cap /\ (maxPages # None => 0 < maxPages)
  <2>1. style.cap \in Nat
    BY DEF Style
  <2> QED BY <2>1, PagingAssumption
<1>4. UpToCursor(t)
  <2>1. \A x \in t.kept : x \in Nat /\ x # 0 /\ t.cursor = 0
    BY <1>1, PagingAssumption
  <2>2. \A x \in t.kept : ~ (x <= t.cursor)
    BY <2>1
  <2> QED BY <1>2, <2>2 DEF UpToCursor, Increasing, NamesIn
<1>5. OnePage(t)
  BY <1>1 DEF OnePage
<1> QED BY <1>1, <1>2, <1>3, <1>4, <1>5 DEF Walk, t

\* A caller starts, on the catalog or on what the cache has of it.
LEMMA StartStep ==
    ASSUME IInv, NEW l \in Listers, NEW cached \in BOOLEAN, NEW limit \in Limits,
           Start(l, cached, limit)
    PROVE  IInv'
<1>1. /\ UNCHANGED << style, maxPages, catalog, slot, changes >> /\ DOMAIN lister = Listers
      /\ style \in Style /\ catalog \subseteq Names /\ maxPages \in Bounds /\ SlotOK
  BY DEF Start, IInv
<1>2. SlotOK'
  BY <1>1, SparedSlot
<1>3. CASE cached /\ slot # None
  <2> DEFINE s == [limit |-> limit, kept |-> slot.kept, seen |-> slot.seen, clean |-> slot.clean]
             t == Told(s, slot.items)
  <2>1. lister' = [lister EXCEPT ![l] = t]
    BY <1>3 DEF Start, Told
  <2>2. /\ slot.kept \subseteq slot.seen /\ InOrder(slot.items, slot.seen, slot.clean)
        /\ Whole(slot.items, slot.kept)
    BY <1>1, <1>3 DEF SlotOK
  <2>3. /\ s.limit = limit /\ s.kept = slot.kept /\ s.seen = slot.seen /\ s.clean = slot.clean
    OBVIOUS
  <2> HIDE DEF s
  <2>4. t.pc = "done" /\ Report(t)
    BY <2>2, <2>3, ToldReport
  <2>5. lister'[l] = t
    BY <1>1, <2>1
  <2> HIDE DEF t
  <2>6. Report(lister[l])' <=> Report(t)
    BY <1>1, <2>5 DEF Report, InOrder, Whole, ByTheBook
  <2>7. ListerOK(lister[l])'
    BY <2>4, <2>5, <2>6 DEF ListerOK
  <2> QED BY <1>1, <1>2, <2>1, <2>7, OneLister
<1>4. CASE ~ (cached /\ slot # None)
  <2> DEFINE t == Afresh(cached, limit)
  <2>1. lister' = [lister EXCEPT ![l] = t]
    BY <1>4 DEF Start, Afresh
  <2>2. t.pc = "page" /\ Walk(t)
    BY <1>1, AfreshWalk
  <2>3. lister'[l] = t
    BY <1>1, <2>1
  <2> HIDE DEF t
  <2>4. Walk(lister[l])' <=> Walk(t)
    BY <1>1, <2>3 DEF Walk, IsWalk, UpToCursor, OnePage
  <2>5. ListerOK(lister[l])'
    BY <2>2, <2>3, <2>4 DEF ListerOK
  <2> QED BY <1>1, <1>2, <2>1, <2>5, OneLister
<1> QED BY <1>3, <1>4

\* The cached listing expires.
LEMMA ExpireStep ==
    ASSUME IInv, Expire
    PROVE  IInv'
<1>1. UNCHANGED << style, maxPages, catalog, lister, changes >> /\ slot' = None
  BY DEF Expire
<1>2. SlotOK'
  BY <1>1 DEF SlotOK
<1>3. \A l \in Listers : ListerOK(lister[l])'
  BY <1>1, Spared DEF IInv
<1> QED BY <1>1, <1>2, <1>3 DEF IInv

\* A walk during which the catalog turned into cat: what was there all the time is
\* less, what was there at some time is more.
Turned(s, cat) == [s EXCEPT !.kept = @ \cap cat, !.seen = @ \cup cat, !.clean = FALSE]

LEMMA TurnedFields ==
    ASSUME NEW s, IsWalk(s), NEW cat
    PROVE  LET t == Turned(s, cat) IN
           /\ t.items = s.items /\ t.cursor = s.cursor /\ t.linked = s.linked
           /\ t.pages = s.pages /\ t.pc = s.pc /\ t.limit = s.limit
           /\ t.kept = s.kept \cap cat /\ t.seen = s.seen \cup cat /\ t.clean = FALSE
           /\ IsWalk(t)
BY Zenon DEF Turned, IsWalk

\* The catalog changes under the walks that go on.
LEMMA ChangeStep ==
    ASSUME IInv, NEW x \in Names, Change(x)
    PROVE  IInv'
<1>1. /\ UNCHANGED << style, maxPages, slot >> /\ changes < MaxChanges /\ changes' = changes + 1
      /\ catalog' = IF x \in catalog THEN catalog \ {x} ELSE catalog \cup {x}
      /\ lister' = [l \in Listers |-> IF l \notin Working THEN lister[l]
                                      ELSE Turned(lister[l], catalog')]
  BY DEF Change, Turned
<1>2. /\ style \in Style /\ maxPages \in Bounds /\ catalog \subseteq Names
      /\ changes \in 0 .. MaxChanges /\ MaxChanges \in Nat
      /\ \A l \in Listers : ListerOK(lister[l])
  BY PagingAssumption DEF IInv
<1>3. catalog' \subseteq Names /\ changes' \in 0 .. MaxChanges
  BY <1>1, <1>2
<1>4. SlotOK'
  BY <1>1, SparedSlot DEF IInv
<1>5. DOMAIN lister' = Listers
  BY <1>1
<1>6. ASSUME NEW l \in Listers PROVE ListerOK(lister[l])'
  <2>1. CASE l \notin Working
    <3>1. lister'[l] = lister[l] /\ lister[l].pc # "page"
      BY <1>1, <2>1 DEF Working
    <3>2. Report(lister[l])' <=> Report(lister[l])
      BY <1>1, <3>1 DEF Report, InOrder, Whole, ByTheBook
    <3> QED BY <1>2, <3>1, <3>2 DEF ListerOK, Idle
  <2>2. CASE l \in Working
    <3> DEFINE s == lister[l]
               t == lister'[l]
               cat == catalog'
    <3>1. t = Turned(s, cat)
      BY <1>1, <2>2
    <3>2. s.pc = "page" /\ Walk(s)
      BY <2>2, WalkFacts DEF Working
    <3>3. IsWalk(s)
      BY <3>2 DEF Walk
    <3> HIDE DEF s, t, cat
    <3>4. /\ t.items = s.items /\ t.cursor = s.cursor /\ t.linked = s.linked
          /\ t.pages = s.pages /\ t.pc = "page" /\ t.limit = s.limit
          /\ t.kept = s.kept \cap cat /\ t.seen = s.seen \cup cat /\ t.clean = FALSE
          /\ IsWalk(t)
      <4> DEFINE u == Turned(s, cat)
      <4>1. /\ u.items = s.items /\ u.cursor = s.cursor /\ u.linked = s.linked
            /\ u.pages = s.pages /\ u.pc = s.pc /\ u.limit = s.limit
            /\ u.kept = s.kept \cap cat /\ u.seen = s.seen \cup cat /\ u.clean = FALSE
            /\ IsWalk(u)
        BY <3>3, TurnedFields
      <4> QED BY <3>1, <3>2, <4>1
    <3>5. /\ t.items \in Seq(Names) /\ t.cursor \in Nat /\ t.pages \in Nat /\ t.limit \in Limits
          /\ t.kept \subseteq cat /\ cat \subseteq t.seen
          /\ Len(t.items) <= t.pages * style.cap
          /\ (maxPages # None => t.pages < maxPages)
          /\ (~ style.replay =>
                 /\ Increasing(t.items) /\ NamesIn(t.items) \subseteq t.seen
                 /\ \A i \in DOMAIN t.items : t.items[i] <= t.cursor
                 /\ \A y \in t.kept : y <= t.cursor => y \in NamesIn(t.items))
      BY <3>2, <3>4 DEF Walk, UpToCursor
    <3>6. Walk(lister[l])'
      BY <1>1, <3>4, <3>5 DEF Walk, UpToCursor, IsWalk, t, cat
    <3> QED BY <3>4, <3>6 DEF ListerOK, t
  <2> QED BY <2>1, <2>2
<1> QED BY <1>1, <1>2, <1>3, <1>4, <1>5, <1>6 DEF IInv

LEMMA InitInductive == Init => IInv
<1> SUFFICES ASSUME Init PROVE IInv
  OBVIOUS
<1>1. style \in Style /\ maxPages \in Bounds
  BY StylesAssumption DEF Init
<1>2. DOMAIN lister = Listers /\ \A l \in Listers : ListerOK(lister[l])
  BY DEF Init, ListerOK
<1>3. catalog \subseteq Names /\ changes \in 0 .. MaxChanges /\ SlotOK
  BY PagingAssumption DEF Init, SlotOK
<1> QED BY <1>1, <1>2, <1>3 DEF IInv

LEMMA NextInductive == IInv /\ [Next]_vars => IInv'
<1> SUFFICES ASSUME IInv, [Next]_vars PROVE IInv'
  OBVIOUS
<1>1. ASSUME NEW l \in Listers, NEW cached \in BOOLEAN, NEW limit \in Limits,
             Start(l, cached, limit)
      PROVE  IInv'
  BY <1>1, StartStep
<1>2. ASSUME NEW l \in Listers, Page(l) PROVE IInv'
  BY <1>2, PageStep
<1>3. ASSUME NEW l \in Listers, Fail(l) PROVE IInv'
  BY <1>3, FailStep
<1>4. CASE Expire
  BY <1>4, ExpireStep
<1>5. ASSUME NEW x \in Names, Change(x) PROVE IInv'
  BY <1>5, ChangeStep
<1>6. CASE UNCHANGED vars
  <2>1. UNCHANGED << style, maxPages, catalog, lister, slot, changes >>
    BY <1>6 DEF vars
  <2>2. \A l \in Listers : ListerOK(lister[l])'
    BY <2>1, Spared DEF IInv
  <2>3. SlotOK'
    BY <2>1, SparedSlot DEF IInv
  <2> QED BY <2>1, <2>2, <2>3 DEF IInv
<1> QED BY <1>1, <1>2, <1>3, <1>4, <1>5, <1>6 DEF Next

LEMMA Inductive == Spec => []IInv
BY InitInductive, NextInductive, PTL DEF Spec

-----------------------------------------------------------------------------
\* What the invariant says.

LEMMA NamesOf ==
    ASSUME NEW s \in Seq(Names)
    PROVE  NamesIn(s) \subseteq Names /\ Len(s) \in Nat
BY ElementOfSeq, LenProperties DEF NamesIn

\* A listing that has ended well.
LEMMA ListedReport ==
    ASSUME IInv, NEW l \in Listers, Listed(l)
    PROVE  Report(lister[l])
<1>1. lister[l].pc = "done" /\ lister[l].ok /\ ListerOK(lister[l])
  BY DEF Listed, Finished, IInv
<1>2. lister[l] # Idle /\ lister[l] # [pc |-> "done", ok |-> FALSE]
  BY <1>1 DEF Idle
<1> QED BY <1>1, <1>2 DEF ListerOK

\* A listing, ended or not, and the cached one hold names of the catalog's, and a
\* caller is handed no more of them than it consumes (client.py:501-513).
THEOREM TypeCorrect == Spec => []TypeOK
<1>1. IInv => TypeOK
  <2> SUFFICES ASSUME IInv PROVE TypeOK
    OBVIOUS
  <2>1. ASSUME NEW l \in Listers
        PROVE  \/ lister[l] = Idle
               \/ lister[l] = [pc |-> "done", ok |-> FALSE]
               \/ /\ NamesIn(lister[l].items) \subseteq Names
                  /\ lister[l].kept \subseteq lister[l].seen
                  /\ l \in Finished => Len(lister[l].items) <= lister[l].limit
    <3>1. ListerOK(lister[l])
      BY DEF IInv
    <3>2. CASE Report(lister[l])
      BY <3>2, NamesOf DEF Report, InOrder
    <3>3. CASE lister[l].pc = "page" /\ Walk(lister[l])
      <4>1. l \notin Finished
        BY <3>3 DEF Finished
      <4>2. lister[l].kept \subseteq lister[l].seen /\ lister[l].items \in Seq(Names)
        BY <3>3 DEF Walk
      <4> QED BY <4>1, <4>2, NamesOf
    <3> QED BY <3>1, <3>2, <3>3 DEF ListerOK
  <2>2. slot # None => NamesIn(slot.items) \subseteq Names
    BY NamesOf DEF IInv, SlotOK, InOrder
  <2> QED BY <2>1, <2>2 DEF TypeOK, IInv
<1> QED BY <1>1, Inductive, PTL

\* A listing of a registry that pages by the book, its own or a replay from the
\* cache, has every name that was there all the time, up to the caller's limit, and
\* none that never was, each once and in order, whatever others add and remove
\* between its pages (client.py:506-513, 552-598).
THEOREM Complete == Spec => []ListsWhatIsThere
<1>1. IInv => ListsWhatIsThere
  <2> SUFFICES ASSUME IInv, ByTheBook, NEW l \in Listers, Listed(l)
               PROVE  LET s == lister[l] IN
                      /\ Len(s.items) < s.limit /\ maxPages = None =>
                            s.kept \subseteq NamesIn(s.items)
                      /\ NamesIn(s.items) \subseteq s.seen
                      /\ Increasing(s.items)
    BY DEF ListsWhatIsThere
  <2>1. Report(lister[l])
    BY ListedReport
  <2> QED BY <2>1 DEF Report, InOrder, Whole, ByTheBook
<1> QED BY <1>1, Inductive, PTL

\* Also a registry that serves the same page again does not make a listing repeat a
\* name while nobody changes the catalog: the stagnation guard (client.py:595-598).
THEOREM NoRepeats == Spec => []NoDuplicates
<1>1. IInv => NoDuplicates
  <2> SUFFICES ASSUME IInv, ~ (style.replay /\ style.link), NEW l \in Listers, Listed(l),
                      lister[l].clean
               PROVE  Increasing(lister[l].items)
    BY DEF NoDuplicates
  <2>1. Report(lister[l])
    BY ListedReport
  <2> QED BY <2>1 DEF Report, InOrder
<1> QED BY <1>1, Inductive, PTL

\* max_pages bounds what a listing asks of any registry, one that links in a circle
\* included, and with it how many pages' worth of names it and the cache hold, be the
\* pages as long as they may (client.py:554-556, 587-616).
THEOREM Bounded == Spec => []WorkBounded
<1>1. IInv => WorkBounded
  <2> SUFFICES ASSUME IInv, maxPages # None
               PROVE  /\ \A l \in Working : /\ lister[l].pages < maxPages
                                            /\ Len(lister[l].items) <= lister[l].pages * style.cap
                      /\ slot # None => Len(slot.items) <= maxPages * style.cap
    BY DEF WorkBounded
  <2>1. ASSUME NEW l \in Working
        PROVE  /\ lister[l].pages < maxPages
               /\ Len(lister[l].items) <= lister[l].pages * style.cap
    BY WalkFacts DEF Walk
  <2> QED BY <2>1 DEF IInv, SlotOK
<1> QED BY <1>1, Inductive, PTL

=============================================================================
