---------------------------- MODULE QueryProofs ----------------------------
(***************************************************************************)
(* Proofs about the query tools, for any stores, names, requests, budgets, *)
(* exclusions, and publications and edits of files between two steps.      *)
(***************************************************************************)
EXTENDS QueryEngine, NaturalFacts, FiniteSetTheorems

-----------------------------------------------------------------------------
(* Sequences and their beginnings.                                         *)

\* What is written as a function of the places is a sequence.
LEMMA PlacesAreSequence ==
    ASSUME NEW f, NEW n \in Nat, f = [i \in 1..n |-> f[i]]
    PROVE  IsSeq(f) /\ Len(f) = n
<1> DEFINE S == {f[i] : i \in 1..n}
<1>1. \A i \in 1..n : f[i] \in S
  OBVIOUS
<1> HIDE DEF S
<1>2. f \in [1..n -> S]
  BY <1>1
<1>3. f \in Seq(S) /\ Len(f) = n
  BY <1>2
<1> QED
  BY <1>3 DEF IsSeq, S

LEMMA OverIsSeq ==
    ASSUME NEW T, NEW s \in Seq(T)
    PROVE  IsSeq(s)
<1> DEFINE S == {s[i] : i \in 1..Len(s)}
<1>1. \A i \in 1..Len(s) : s[i] \in S
  OBVIOUS
<1> HIDE DEF S
<1>2. s \in Seq(S)
  BY <1>1
<1> QED
  BY <1>2 DEF IsSeq, S

\* Sequences are equal when they are so place by place.
LEMMA SameSequence ==
    ASSUME NEW s, NEW t, IsSeq(s), IsSeq(t), Len(s) = Len(t),
           \A i \in 1..Len(s) : s[i] = t[i]
    PROVE  s = t
<1>1. s = [i \in 1..Len(s) |-> s[i]] /\ t = [i \in 1..Len(t) |-> t[i]]
  BY DEF IsSeq
<1> QED
  BY <1>1

LEMMA Joined ==
    ASSUME NEW s, NEW t, IsSeq(s), IsSeq(t)
    PROVE  /\ Len(s) \in Nat /\ Len(t) \in Nat
           /\ IsSeq(s \o t)
           /\ Len(s \o t) = Len(s) + Len(t)
           /\ \A i \in 1..Len(s) : (s \o t)[i] = s[i]
           /\ \A i \in 1..Len(t) : (s \o t)[Len(s) + i] = t[i]
<1> DEFINE S == {s[i] : i \in 1..Len(s)} \cup {t[i] : i \in 1..Len(t)}
           r == s \o t
<1>1. s \in Seq(S) /\ t \in Seq(S)
  BY DEF IsSeq
<1> HIDE DEF S
<1>2. /\ r \in Seq(S) /\ Len(r) = Len(s) + Len(t)
      /\ Len(s) \in Nat /\ Len(t) \in Nat
      /\ \A i \in 1..Len(s) : r[i] = s[i]
      /\ \A i \in 1..Len(t) : r[Len(s) + i] = t[i]
  BY <1>1
<1> HIDE DEF r
<1>3. IsSeq(r)
  BY <1>2, OverIsSeq
<1> QED
  BY <1>2, <1>3 DEF r

LEMMA Cut ==
    ASSUME NEW s, IsSeq(s), NEW m \in Nat \ {0}, NEW n \in Nat, n <= Len(s)
    PROVE  /\ IsSeq(SubSeq(s, m, n))
           /\ Len(SubSeq(s, m, n)) = IF m <= n THEN n - m + 1 ELSE 0
           /\ \A i \in 1..Len(SubSeq(s, m, n)) : SubSeq(s, m, n)[i] = s[m + i - 1]
<1> DEFINE S == {s[i] : i \in 1..Len(s)}
           r == SubSeq(s, m, n)
<1>1. s \in Seq(S)
  BY DEF IsSeq
<1> HIDE DEF S
<1>2. /\ r \in Seq(S)
      /\ Len(r) = IF m <= n THEN n - m + 1 ELSE 0
      /\ \A i \in 1..Len(r) : r[i] = s[m + i - 1]
  BY <1>1
<1> HIDE DEF r
<1>3. IsSeq(r)
  BY <1>2, OverIsSeq
<1> QED
  BY <1>2, <1>3 DEF r

\* r is what w begins with.
Begins(r, w) ==
    /\ IsSeq(r) /\ IsSeq(w)
    /\ Len(r) \in Nat /\ Len(w) \in Nat /\ Len(r) <= Len(w)
    /\ \A i \in 1..Len(r) : r[i] = w[i]

LEMMA BeginsIsPrefix ==
    ASSUME NEW r, NEW w, Begins(r, w)
    PROVE  /\ IsPrefix(r, w)
           /\ Len(r) = Len(w) => r = w
<1>1. SubSeq(r, 1, Len(r)) = SubSeq(w, 1, Len(r))
  <2>1. /\ IsSeq(SubSeq(r, 1, Len(r))) /\ IsSeq(SubSeq(w, 1, Len(r)))
        /\ Len(SubSeq(r, 1, Len(r))) = Len(SubSeq(w, 1, Len(r)))
        /\ Len(SubSeq(r, 1, Len(r))) \in Nat
    BY Cut DEF Begins
  <2>2. ASSUME NEW i \in 1..Len(SubSeq(r, 1, Len(r)))
        PROVE  SubSeq(r, 1, Len(r))[i] = SubSeq(w, 1, Len(r))[i]
    <3>1. /\ SubSeq(r, 1, Len(r))[i] = r[1 + i - 1]
          /\ SubSeq(w, 1, Len(r))[i] = w[1 + i - 1]
          /\ Len(SubSeq(r, 1, Len(r))) = Len(r)
      BY <2>1, Cut DEF Begins
    <3> QED
      BY <3>1 DEF Begins
  <2> QED
    BY <2>1, <2>2, SameSequence
<1>2. Len(r) = Len(w) => r = w
  BY SameSequence DEF Begins
<1> QED
  BY <1>1, <1>2 DEF IsPrefix, Begins

LEMMA SmallestOfTwo ==
    ASSUME NEW a \in Nat, NEW b \in Nat
    PROVE  Min({a, b}) = IF a <= b THEN a ELSE b
<1> DEFINE m == IF a <= b THEN a ELSE b
<1>1. m \in {a, b} /\ \A y \in {a, b} : m <= y
  OBVIOUS
<1>2. \A x \in {a, b} : (\A y \in {a, b} : x <= y) => x = m
  OBVIOUS
<1> QED
  BY <1>1, <1>2 DEF Min

LEMMA LargestOfTwo ==
    ASSUME NEW a \in Nat, NEW b \in Nat
    PROVE  Max({a, b}) = IF a <= b THEN b ELSE a
<1> DEFINE m == IF a <= b THEN b ELSE a
<1>1. m \in {a, b} /\ \A y \in {a, b} : m >= y
  OBVIOUS
<1>2. \A x \in {a, b} : (\A y \in {a, b} : x >= y) => x = m
  OBVIOUS
<1> QED
  BY <1>1, <1>2 DEF Max

PageOf(r, from, limit) == SubSeq(r, from + 1, Min({Len(r), from + limit}))

IsPage(page, w, r, seen, limit) ==
    /\ IsSeq(page) /\ Len(page) \in Nat
    /\ \A i \in DOMAIN page : \E k \in 1..Len(w) : page[i] = w[k]
    /\ Begins(seen \o page, w)
    /\ Len(seen \o page) = Len(seen) + Len(page)
    /\ Len(page) = IF Len(r) <= Len(seen) THEN 0
                   ELSE IF Len(r) <= Len(seen) + limit THEN Len(r) - Len(seen) ELSE limit

\* A page cut out of r behind what was seen goes on where that ended.
LEMMA PageJoins ==
    ASSUME NEW w, NEW r, NEW seen, NEW limit \in Nat, Begins(r, w), Begins(seen, w)
    PROVE  IsPage(PageOf(r, Len(seen), limit), w, r, seen, limit)
<1> DEFINE from == Len(seen)
           n == Min({Len(r), from + limit})
           page == SubSeq(r, from + 1, n)
<1>1. from \in Nat /\ Len(r) \in Nat /\ Len(w) \in Nat /\ IsSeq(r) /\ IsSeq(seen)
  BY DEF Begins
<1>2. n = IF Len(r) <= from + limit THEN Len(r) ELSE from + limit
  BY <1>1, SmallestOfTwo
<1> HIDE DEF n
<1>3. n \in Nat /\ n <= Len(r) /\ from + 1 \in Nat \ {0}
  BY <1>1, <1>2
<1>4. /\ IsSeq(page)
      /\ Len(page) = IF from + 1 <= n THEN n - (from + 1) + 1 ELSE 0
      /\ \A i \in 1..Len(page) : page[i] = r[(from + 1) + i - 1]
  BY <1>1, <1>3, Cut
<1> HIDE DEF page
<1>5. /\ Len(page) \in Nat
      /\ Len(page) = IF Len(r) <= from THEN 0
                     ELSE IF Len(r) <= from + limit THEN Len(r) - from ELSE limit
  BY <1>1, <1>2, <1>4
<1>6. /\ IsSeq(seen \o page) /\ Len(seen \o page) = from + Len(page)
      /\ \A i \in 1..from : (seen \o page)[i] = seen[i]
      /\ \A i \in 1..Len(page) : (seen \o page)[from + i] = page[i]
  <2>1. IsSeq(seen) /\ IsSeq(page)
    BY <1>1, <1>4
  <2>2. /\ IsSeq(seen \o page)
        /\ Len(seen \o page) = Len(seen) + Len(page)
        /\ \A i \in 1..Len(seen) : (seen \o page)[i] = seen[i]
        /\ \A i \in 1..Len(page) : (seen \o page)[Len(seen) + i] = page[i]
    BY <2>1, Joined
  <2> QED
    BY <2>2
<1>7. from <= Len(w) /\ Len(r) <= Len(w)
  BY DEF Begins
<1>8. from + Len(page) <= Len(w)
  BY <1>1, <1>5, <1>7
<1>9. ASSUME NEW i \in 1..(from + Len(page))
      PROVE  (seen \o page)[i] = w[i]
  <2>1. CASE i <= from
    BY <1>1, <1>6, <2>1 DEF Begins
  <2>2. CASE i > from
    <3>1. i - from \in 1..Len(page) /\ from + (i - from) = i
      BY <1>1, <1>5, <2>2
    <3>2. (seen \o page)[i] = page[i - from]
      BY <1>6, <3>1
    <3>3. page[i - from] = r[i]
      BY <1>1, <1>4, <3>1
    <3>4. i \in 1..Len(r)
      BY <1>1, <1>5, <2>2
    <3> QED
      BY <3>2, <3>3, <3>4 DEF Begins
  <2> QED
    BY <1>1, <2>1, <2>2
<1>10. Begins(seen \o page, w)
  BY <1>1, <1>5, <1>6, <1>8, <1>9 DEF Begins
<1>11. ASSUME NEW i \in DOMAIN page
       PROVE  \E k \in 1..Len(w) : page[i] = w[k]
  <2>1. i \in 1..Len(page)
    BY <1>4, <1>5 DEF IsSeq
  <2>2. page[i] = (seen \o page)[from + i] /\ (seen \o page)[from + i] = w[from + i]
    BY <1>1, <1>5, <1>6, <1>9, <2>1
  <2>3. from + i \in 1..Len(w)
    BY <1>1, <1>5, <1>8, <2>1
  <2> QED
    BY <2>2, <2>3
<1> QED
  BY <1>4, <1>5, <1>6, <1>10, <1>11 DEF page, n, PageOf, IsPage

-----------------------------------------------------------------------------
(* Sets in an order.                                                       *)

LEMMA OrderedLength ==
    ASSUME NEW S, IsFiniteSet(S), NEW R
    PROVE  /\ IsSeq(Ordered(S, R))
           /\ Len(Ordered(S, R)) = Cardinality(S)
           /\ Cardinality(S) \in Nat
<1>1. Cardinality(S) \in Nat
  BY FS_CardinalityType
<1> DEFINE at(i) == CHOOSE x \in S : Cardinality({y \in S : <<y, x>> \in R}) = i - 1
<1>2. Ordered(S, R) = [i \in 1..Cardinality(S) |-> at(i)]
  BY DEF Ordered
<1> HIDE DEF at
<1>3. Ordered(S, R) = [i \in 1..Cardinality(S) |-> Ordered(S, R)[i]]
  BY <1>2
<1> QED
  BY <1>1, <1>3, PlacesAreSequence

IsOrder(S, R) ==
    /\ \A x \in S : <<x, x>> \notin R
    /\ \A x, y, z \in S : <<x, y>> \in R /\ <<y, z>> \in R => <<x, z>> \in R
    /\ \A x, y \in S : x = y \/ <<x, y>> \in R \/ <<y, x>> \in R

\* In a strict total order every element has its place, and no two share it.
LEMMA OrderedElements ==
    ASSUME NEW S, IsFiniteSet(S), NEW R, IsOrder(S, R)
    PROVE  LET q == Ordered(S, R)
           IN  /\ \A i \in 1..Cardinality(S) : q[i] \in S
               /\ \A x \in S : \E i \in 1..Cardinality(S) : q[i] = x
               /\ \A i, j \in 1..Cardinality(S) : q[i] = q[j] => i = j
<1> DEFINE n == Cardinality(S)
           below(x) == {y \in S : <<y, x>> \in R}
           place == [x \in S |-> Cardinality(below(x))]
           q == Ordered(S, R)
<1>1. n \in Nat
  BY FS_CardinalityType
<1>2. \A x \in S : IsFiniteSet(below(x))
  <2> TAKE x \in S
  <2>1. below(x) \in SUBSET S
    OBVIOUS
  <2> QED
    BY <2>1, FS_Subset
<1>3. \A x \in S : Cardinality(below(x)) \in 0..n - 1
  <2> TAKE x \in S
  <2>1. below(x) \in SUBSET S /\ x \notin below(x)
    BY DEF IsOrder
  <2> HIDE DEF below
  <2>2. Cardinality(below(x)) \in Nat
    BY <1>2, FS_CardinalityType
  <2>3. Cardinality(below(x)) <= n /\ (n = Cardinality(below(x)) => S = below(x))
    BY <2>1, FS_Subset
  <2> QED
    BY <1>1, <2>1, <2>2, <2>3
<1>4. \A x, y \in S : <<x, y>> \in R => Cardinality(below(x)) < Cardinality(below(y))
  <2> TAKE x, y \in S
  <2> HAVE <<x, y>> \in R
  <2>1. below(x) \subseteq below(y) /\ x \in below(y) /\ x \notin below(x)
    BY DEF IsOrder
  <2>2. Cardinality(below(x)) \in Nat /\ Cardinality(below(y)) \in Nat /\ IsFiniteSet(below(y))
    BY <1>2, FS_CardinalityType
  <2> HIDE DEF below
  <2>3. /\ Cardinality(below(x)) <= Cardinality(below(y))
        /\ Cardinality(below(y)) = Cardinality(below(x)) => below(y) = below(x)
    BY <2>1, <2>2, FS_Subset
  <2> QED
    BY <2>1, <2>2, <2>3
<1> HIDE DEF below, n
<1>5. place \in [S -> 0..n - 1]
  BY <1>3
<1>6. \A x, y \in S : place[x] = place[y] => x = y
  <2> TAKE x, y \in S
  <2>1. place[x] = Cardinality(below(x)) /\ place[y] = Cardinality(below(y))
    OBVIOUS
  <2> HAVE place[x] = place[y]
  <2>2. Cardinality(below(x)) = Cardinality(below(y)) /\ Cardinality(below(x)) \in Nat
    BY <1>1, <1>3, <2>1
  <2>3. <<x, y>> \notin R /\ <<y, x>> \notin R
    BY <1>4, <2>2
  <2> QED
    BY <2>3 DEF IsOrder
<1>7. IsFiniteSet(0..n - 1) /\ Cardinality(0..n - 1) = n
  <2>1. 0 \in Int /\ n - 1 \in Int
    BY <1>1
  <2>2. /\ IsFiniteSet(0..n - 1)
        /\ Cardinality(0..n - 1) = IF 0 > n - 1 THEN 0 ELSE (n - 1) - 0 + 1
    BY <2>1, FS_Interval
  <2> QED
    BY <1>1, <2>2
<1> HIDE DEF place
<1>8. place \in Injection(S, 0..n - 1)
  BY <1>5, <1>6 DEF Injection, IsInjective
<1>9. place \in Surjection(S, 0..n - 1)
  BY <1>7, <1>8, FS_Injection DEF n
<1>10. \A k \in 0..n - 1 : \E x \in S : place[x] = k
  BY <1>9 DEF Surjection
<1>11. \A i \in 1..n : q[i] \in S /\ Cardinality(below(q[i])) = i - 1
  <2> TAKE i \in 1..n
  <2>1. \E x \in S : place[x] = i - 1
    BY <1>1, <1>10
  <2>2. \E x \in S : Cardinality(below(x)) = i - 1
    BY <2>1 DEF place
  <2>3. q[i] = CHOOSE x \in S : Cardinality(below(x)) = i - 1
    BY DEF Ordered, below, n
  <2> HIDE DEF q
  <2> QED
    BY <2>2, <2>3
<1> HIDE DEF q
<1>12. \A x \in S : \E i \in 1..n : q[i] = x
  <2> TAKE x \in S
  <2>1. Cardinality(below(x)) + 1 \in 1..n
    BY <1>1, <1>3
  <2>2. LET i == Cardinality(below(x)) + 1
        IN  q[i] \in S /\ Cardinality(below(q[i])) = Cardinality(below(x))
    BY <1>1, <1>3, <1>11, <2>1
  <2>3. q[Cardinality(below(x)) + 1] = x
    BY <1>6, <2>2 DEF place
  <2> QED
    BY <2>1, <2>3
<1>13. \A i, j \in 1..n : q[i] = q[j] => i = j
  BY <1>1, <1>11
<1> QED
  BY <1>11, <1>12, <1>13 DEF n, q

-----------------------------------------------------------------------------
(* Results are sequences, and one that a budget cut is the beginning of    *)
(* the whole.                                                              *)

LEMMA BeginsJoin ==
    ASSUME NEW s, NEW t, IsSeq(s), IsSeq(t)
    PROVE  Begins(s, s \o t) /\ IsSeq(s \o t) /\ Len(s \o t) = Len(s) + Len(t)
BY Joined DEF Begins

LEMMA BeginsItself ==
    ASSUME NEW s, IsSeq(s)
    PROVE  Begins(s, s)
BY DEF Begins, IsSeq

LEMMA BeginsOn ==
    ASSUME NEW r, NEW s, NEW t, Begins(r, s), Begins(s, t)
    PROVE  Begins(r, t)
BY DEF Begins

LEMMA NothingBegins ==
    ASSUME NEW t, IsSeq(t)
    PROVE  Begins(<<>>, t)
BY ShortSequences DEF Begins, IsSeq

Hits(d, view, s) == [i \in DOMAIN s |-> SymbolHit(d, view, s[i])]

LEMMA HitsOfSequence ==
    ASSUME NEW d, NEW view, NEW s, IsSeq(s)
    PROVE  /\ IsSeq(Hits(d, view, s)) /\ Len(Hits(d, view, s)) = Len(s) /\ Len(s) \in Nat
           /\ \A i \in 1..Len(s) : Hits(d, view, s)[i] = SymbolHit(d, view, s[i])
<1> DEFINE h == Hits(d, view, s)
<1>1. Len(s) \in Nat /\ DOMAIN s = 1..Len(s)
  BY DEF IsSeq
<1>2. h = [i \in 1..Len(s) |-> SymbolHit(d, view, s[i])]
  BY <1>1 DEF Hits
<1>3. \A i \in 1..Len(s) : h[i] = SymbolHit(d, view, s[i])
  BY <1>2
<1>4. h = [i \in 1..Len(s) |-> h[i]]
  BY <1>2
<1> HIDE DEF h
<1> QED
  BY <1>1, <1>3, <1>4, PlacesAreSequence DEF h

LEMMA HitsBegin ==
    ASSUME NEW d, NEW view, NEW r, NEW s, Begins(r, s)
    PROVE  Begins(Hits(d, view, r), Hits(d, view, s))
BY HitsOfSequence DEF Begins

LEMMA NameMatchesSequence ==
    ASSUME NEW d, WellKept(d), NEW view, NEW q
    PROVE  IsSeq(NameMatches(d, view, q)) /\ Len(NameMatches(d, view, q)) \in Nat
<1> DEFINE S == {s \in d.symbols :
                    /\ d.name[s] = Last(q.path)
                    /\ Searchable(view, s)
                    /\ IsQualified(q) => QualifiedMatches(q, Qualified(d, s))}
<1>1. IsFiniteSet(S)
  <2>1. S \in SUBSET d.symbols /\ IsFiniteSet(d.symbols)
    BY DEF WellKept
  <2> QED
    BY <2>1, FS_Subset
<1>2. NameMatches(d, view, q) = Ordered(S, {p \in S \X S : d.rank[p[1]] < d.rank[p[2]]})
  BY DEF NameMatches, InTieOrder
<1> HIDE DEF S
<1> QED
  BY <1>1, <1>2, OrderedLength

\* The parts of a search result: the exact matches, those by component, and
\* the files.
PartMatches(d, view, list, q) ==
    InTieOrder(d, ComponentMatches(d, view, list, q) \ ToSet(NameMatches(d, view, q)))
FileHits(paths) ==
    LET files == Ordered(paths, {p \in paths \X paths : p[1] < p[2]})
    IN  [i \in DOMAIN files |-> [path |-> files[i]]]
MatchingFiles(d, q) ==
    {f \in d.files : ~Hidden(d, f) /\ ContainsRun(PathComponents[f], ComponentsOf(q.path))}

LEMMA PartMatchesSequence ==
    ASSUME NEW d, WellKept(d), NEW view, NEW list, NEW q
    PROVE  IsSeq(PartMatches(d, view, list, q))
<1> DEFINE S == ComponentMatches(d, view, list, q) \ ToSet(NameMatches(d, view, q))
<1>1. IsFiniteSet(S)
  <2>1. S \in SUBSET d.symbols /\ IsFiniteSet(d.symbols)
    BY DEF WellKept, ComponentMatches
  <2> QED
    BY <2>1, FS_Subset
<1>2. PartMatches(d, view, list, q) = Ordered(S, {p \in S \X S : d.rank[p[1]] < d.rank[p[2]]})
  BY DEF PartMatches, InTieOrder
<1> HIDE DEF S
<1> QED
  BY <1>1, <1>2, OrderedLength

LEMMA FileHitsSequence ==
    ASSUME NEW P, IsFiniteSet(P)
    PROVE  IsSeq(FileHits(P)) /\ Len(FileHits(P)) = Cardinality(P)
<1> DEFINE files == Ordered(P, {p \in P \X P : p[1] < p[2]})
           h == FileHits(P)
<1>1. IsSeq(files) /\ Len(files) = Cardinality(P) /\ Cardinality(P) \in Nat
  BY OrderedLength
<1>2. h = [i \in DOMAIN files |-> [path |-> files[i]]]
  BY DEF FileHits
<1> HIDE DEF files
<1>3. DOMAIN files = 1..Cardinality(P)
  BY <1>1 DEF IsSeq
<1>4. h = [i \in 1..Cardinality(P) |-> h[i]]
  BY <1>2, <1>3
<1> HIDE DEF h
<1> QED
  BY <1>1, <1>4, PlacesAreSequence DEF h

LEMMA FindParts ==
    ASSUME NEW d, NEW view, NEW list, NEW q, NEW stop \in 1..4
    PROVE  FindResult(d, view, list, q, stop) =
              IF IsQualified(q) /\ stop < 2 THEN <<>>
              ELSE Hits(d, view, NameMatches(d, view, q)
                           \o (IF stop >= 3 THEN PartMatches(d, view, list, q) ELSE <<>>))
                   \o FileHits(IF stop < 4 THEN {} ELSE MatchingFiles(d, q))
BY DEF FindResult, Hits, PartMatches, FileHits, MatchingFiles

LEMMA FindBegins ==
    ASSUME NEW d, WellKept(d), NEW view, NEW list, NEW q, NEW stop \in 1..4
    PROVE  Begins(FindResult(d, view, list, q, stop), FindResult(d, view, list, q, 4))
<1> DEFINE exact == NameMatches(d, view, q)
           parts == PartMatches(d, view, list, q)
           no == FileHits({})
           files == FileHits(MatchingFiles(d, q))
           find(n) == FindResult(d, view, list, q, n)
<1> SUFFICES Begins(find(stop), find(4))
  OBVIOUS
<1>1. IsSeq(exact) /\ IsSeq(parts)
  BY NameMatchesSequence, PartMatchesSequence
<1>2. IsSeq(files)
  <2>1. MatchingFiles(d, q) \in SUBSET d.files /\ IsFiniteSet(d.files)
    BY DEF MatchingFiles, WellKept
  <2> QED
    BY <2>1, FS_Subset, FileHitsSequence
<1>3. IsSeq(no) /\ Len(no) = 0
  BY FS_EmptySet, FileHitsSequence
<1>4. IsSeq(<<>>) /\ Len(<<>>) = 0
  BY ShortSequences
<1>5. find(4) = Hits(d, view, exact \o parts) \o files
  BY FindParts
<1>6. /\ stop = 3 => find(stop) = Hits(d, view, exact \o parts) \o no
      /\ stop < 3 => find(stop) = IF IsQualified(q) /\ stop < 2 THEN <<>>
                                  ELSE Hits(d, view, exact \o <<>>) \o no
  BY FindParts
<1> HIDE DEF exact, parts, no, files, find
<1>7. /\ IsSeq(exact \o parts) /\ IsSeq(exact \o <<>>)
      /\ Begins(exact \o <<>>, exact \o parts)
  <2>1. IsSeq(exact \o parts) /\ Begins(exact, exact \o parts)
    BY <1>1, BeginsJoin
  <2>2. IsSeq(exact \o <<>>) /\ exact \o <<>> = exact
    <3>1. IsSeq(exact \o <<>>) /\ Begins(exact, exact \o <<>>) /\ Len(exact \o <<>>) = Len(exact) + 0
      BY <1>1, <1>4, BeginsJoin
    <3>2. Len(exact) \in Nat
      BY <1>1 DEF IsSeq
    <3> QED
      BY <3>1, <3>2, BeginsIsPrefix
  <2> QED
    BY <2>1, <2>2
<1>8. /\ IsSeq(Hits(d, view, exact \o parts)) /\ IsSeq(Hits(d, view, exact \o <<>>))
      /\ Begins(Hits(d, view, exact \o <<>>), Hits(d, view, exact \o parts))
  BY <1>7, HitsOfSequence, HitsBegin
<1>9. /\ IsSeq(find(4)) /\ Begins(Hits(d, view, exact \o parts), find(4))
  BY <1>2, <1>5, <1>8, BeginsJoin
<1>10. \A s : IsSeq(s) => s \o no = s
  <2> TAKE s
  <2> HAVE IsSeq(s)
  <2>0. Len(s) \in Nat
    BY DEF IsSeq
  <2>1. IsSeq(s) /\ IsSeq(no)
    BY <1>3
  <2>2. Begins(s, s \o no) /\ Len(s \o no) = Len(s) + Len(no)
    BY <2>1, BeginsJoin
  <2>3. Len(s) = Len(s \o no)
    BY <1>3, <2>0, <2>2
  <2> QED
    BY <2>2, <2>3, BeginsIsPrefix
<1>11. CASE stop = 4
  BY <1>9, <1>11, BeginsItself
<1>12. CASE stop = 3
  BY <1>6, <1>8, <1>9, <1>10, <1>12
<1>13. CASE stop < 3
  <2>1. CASE IsQualified(q) /\ stop < 2
    BY <1>6, <1>9, <1>13, <2>1, NothingBegins
  <2>2. CASE ~(IsQualified(q) /\ stop < 2)
    <3>1. find(stop) = Hits(d, view, exact \o <<>>)
      BY <1>6, <1>8, <1>10, <1>13, <2>2
    <3> QED
      BY <1>8, <1>9, <3>1, BeginsOn
  <2> QED
    BY <2>1, <2>2
<1> QED
  BY <1>11, <1>12, <1>13

LEMMA FileResultSequence ==
    ASSUME NEW d, WellKept(d), NEW view, NEW f
    PROVE  IsSeq(FileResult(d, view, f))
<1> DEFINE listed == {s \in d.symbols : DeclaredIn(d, s, f) # {} /\ IsPublic(view, s)}
           first(s) == Min({l.at : l \in DeclaredIn(d, s, f)})
           before(a, b) == \/ first(a) < first(b)
                           \/ first(a) = first(b) /\ d.rank[a] < d.rank[b]
           order == Ordered(listed, {p \in listed \X listed : before(p[1], p[2])})
           r == FileResult(d, view, f)
<1>1. IsFiniteSet(listed)
  <2>1. listed \in SUBSET d.symbols /\ IsFiniteSet(d.symbols)
    BY DEF WellKept
  <2> QED
    BY <2>1, FS_Subset
<1>2. r = [i \in DOMAIN order |-> FileEntry(d, view, order[i], f)]
  BY DEF FileResult
<1> HIDE DEF listed, before
<1>3. IsSeq(order) /\ Len(order) \in Nat
  BY <1>1, OrderedLength
<1> HIDE DEF order
<1>4. r = [i \in 1..Len(order) |-> r[i]]
  BY <1>2, <1>3 DEF IsSeq
<1> HIDE DEF r
<1>5. IsSeq(r)
  BY <1>3, <1>4, PlacesAreSequence
<1> QED
  BY <1>5 DEF r

-----------------------------------------------------------------------------
(* Recursion: each recursive function of the model is what its equation    *)
(* says, since functions that satisfy it up to k are there for every k.    *)

\* Sequences over T, joined.
LEMMA FlattenedStepwise ==
    ASSUME NEW seqs, NEW n \in Nat \ {0}, Len(seqs) = n
    PROVE  \E f : /\ f[1] = seqs[1]
                  /\ \A i \in 2..n : f[i] = f[i - 1] \o seqs[i]
                  /\ FlattenSeq(seqs) = f[n]
<1> DEFINE Step(i, x) == x \o seqs[i]
           Rec(g, k) == g = [i \in 1..k |-> IF i = 1 THEN seqs[i] ELSE Step(i, g[i - 1])]
           F == CHOOSE g : Rec(g, Len(seqs))
<1>1. FlattenSeq(seqs) = F[Len(seqs)]
  BY DEF FlattenSeq
<1> HIDE DEF Step
<1>2. Rec([i \in 1..0 |-> 0], 0)
  OBVIOUS
<1>3. ASSUME NEW k \in Nat, NEW g, Rec(g, k)
      PROVE  \E h : Rec(h, k + 1)
  <2> DEFINE h == [i \in 1..(k + 1) |-> IF i # k + 1 THEN g[i]
                      ELSE IF i = 1 THEN seqs[1] ELSE Step(k + 1, g[k])]
  <2>1. \A i \in 1..(k + 1) : h[i] = IF i = 1 THEN seqs[i] ELSE Step(i, h[i - 1])
    <3> TAKE i \in 1..(k + 1)
    <3>1. CASE i = k + 1
      BY <3>1
    <3>2. CASE i # k + 1
      <4>1. i \in 1..k /\ h[i] = g[i] /\ (i # 1 => i - 1 \in 1..k /\ h[i - 1] = g[i - 1])
        BY <3>2
      <4>2. g[i] = IF i = 1 THEN seqs[i] ELSE Step(i, g[i - 1])
        BY <1>3, <4>1
      <4> QED
        BY <4>1, <4>2
    <3> QED
      BY <3>1, <3>2
  <2>2. h = [i \in 1..(k + 1) |-> h[i]]
    OBVIOUS
  <2> HIDE DEF h
  <2>3. Rec(h, k + 1)
    BY <2>1, <2>2
  <2> QED
    BY <2>3
<1> DEFINE S == {k \in Nat : \E g : Rec(g, k)}
<1> HIDE DEF Rec
<1>4. 0 \in S
  BY <1>2
<1>5. \A k \in Nat : k \in S => k + 1 \in S
  BY <1>3
<1> HIDE DEF S
<1>6. \E g : Rec(g, Len(seqs))
  BY <1>4, <1>5, NaturalsBySuccessor DEF S
<1>7. Rec(F, Len(seqs))
  BY <1>6
<1> HIDE DEF F
<1>8. F[1] = seqs[1] /\ \A i \in 2..n : F[i] = Step(i, F[i - 1])
  BY <1>7 DEF Rec
<1> QED
  BY <1>1, <1>8 DEF Step

LEMMA Flattened ==
    ASSUME NEW T, NEW seqs \in Seq(Seq(T))
    PROVE  /\ FlattenSeq(seqs) \in Seq(T)
           /\ ToSet(FlattenSeq(seqs)) = UNION {ToSet(seqs[i]) : i \in 1..Len(seqs)}
<1> DEFINE n == Len(seqs)
<1>1. n \in Nat /\ \A i \in 1..n : seqs[i] \in Seq(T)
  OBVIOUS
<1>2. CASE n = 0
  <2>1. FlattenSeq(seqs) = seqs /\ seqs = <<>>
    BY <1>2 DEF FlattenSeq
  <2>2. 1..n = {} /\ DOMAIN seqs = {}
    BY <1>2
  <2> QED
    BY <2>1, <2>2 DEF ToSet
<1>3. CASE n # 0
  <2>1. n \in Nat \ {0}
    BY <1>1, <1>3
  <2>2. PICK F : /\ F[1] = seqs[1]
                 /\ \A i \in 2..n : F[i] = F[i - 1] \o seqs[i]
                 /\ FlattenSeq(seqs) = F[n]
    BY <2>1, FlattenedStepwise
  <2> HIDE DEF n
  <2> DEFINE All(k) == UNION {ToSet(seqs[i]) : i \in 1..k}
             P == {k \in Nat : 1 <= k /\ k <= n => F[k] \in Seq(T) /\ ToSet(F[k]) = All(k)}
  <2>3. All(1) = ToSet(seqs[1])
    <3>1. 1..1 = {1}
      OBVIOUS
    <3> QED
      BY <3>1
  <2>4. \A k \in Nat : All(k + 1) = All(k) \cup ToSet(seqs[k + 1])
    <3> TAKE k \in Nat
    <3>1. 1..(k + 1) = 1..k \cup {k + 1}
      OBVIOUS
    <3> QED
      BY <3>1
  <2> HIDE DEF All
  <2>5. \A a, b \in Seq(T) : a \o b \in Seq(T) /\ ToSet(a \o b) = ToSet(a) \cup ToSet(b)
    <3> TAKE a, b \in Seq(T)
    <3> DEFINE c == a \o b
    <3>1. /\ c \in Seq(T) /\ Len(c) = Len(a) + Len(b) /\ Len(a) \in Nat /\ Len(b) \in Nat
          /\ \A i \in 1..Len(c) : c[i] = IF i <= Len(a) THEN a[i] ELSE b[i - Len(a)]
          /\ DOMAIN a = 1..Len(a) /\ DOMAIN b = 1..Len(b) /\ DOMAIN c = 1..Len(c)
      OBVIOUS
    <3> HIDE DEF c
    <3>2. ASSUME NEW i \in 1..Len(c)
          PROVE  c[i] \in ToSet(a) \cup ToSet(b)
      <4>1. CASE i <= Len(a)
        <5>1. i \in 1..Len(a) /\ c[i] = a[i]
          BY <3>1, <4>1
        <5> QED
          BY <3>1, <5>1 DEF ToSet
      <4>2. CASE i > Len(a)
        <5>1. i - Len(a) \in 1..Len(b)
          BY <3>1, <4>2
        <5>2. c[i] = b[i - Len(a)]
          BY <3>1, <4>2
        <5> QED
          BY <3>1, <5>1, <5>2 DEF ToSet
      <4> QED
        BY <3>1, <4>1, <4>2
    <3>3. ASSUME NEW i \in 1..Len(a)
          PROVE  a[i] \in ToSet(c)
      <4>1. i \in 1..Len(c) /\ c[i] = a[i]
        BY <3>1
      <4> QED
        BY <3>1, <4>1 DEF ToSet
    <3>4. ASSUME NEW i \in 1..Len(b)
          PROVE  b[i] \in ToSet(c)
      <4>1. Len(a) + i \in 1..Len(c)
        BY <3>1
      <4>2. (Len(a) + i) - Len(a) = i /\ ~(Len(a) + i <= Len(a))
        BY <3>1
      <4>3. c[Len(a) + i] = b[i]
        BY <3>1, <4>1, <4>2
      <4> QED
        BY <3>1, <4>1, <4>3 DEF ToSet
    <3>5. ToSet(c) = ToSet(a) \cup ToSet(b)
      BY <3>1, <3>2, <3>3, <3>4 DEF ToSet
    <3> QED
      BY <3>1, <3>5 DEF c
  <2>6. 0 \in P
    OBVIOUS
  <2>7. \A k \in Nat : k \in P => k + 1 \in P
    <3> SUFFICES ASSUME NEW k \in Nat, k \in P, k + 1 <= n
                 PROVE  F[k + 1] \in Seq(T) /\ ToSet(F[k + 1]) = All(k + 1)
      OBVIOUS
    <3>1. k + 1 \in 1..n /\ seqs[k + 1] \in Seq(T)
      BY <1>1, <2>1
    <3>2. CASE k = 0
      BY <2>2, <2>3, <3>1, <3>2
    <3>3. CASE k # 0
      <4>1. F[k] \in Seq(T) /\ ToSet(F[k]) = All(k)
        BY <2>1, <3>1, <3>3
      <4>2. k + 1 \in 2..n /\ (k + 1) - 1 = k
        BY <2>1, <3>1, <3>3
      <4>3. F[k + 1] = F[k] \o seqs[k + 1]
        BY <2>2, <4>2
      <4>4. ToSet(F[k + 1]) = ToSet(F[k]) \cup ToSet(seqs[k + 1]) /\ F[k + 1] \in Seq(T)
        BY <2>5, <3>1, <4>1, <4>3
      <4>5. All(k + 1) = All(k) \cup ToSet(seqs[k + 1])
        BY <2>4
      <4> QED
        BY <4>1, <4>4, <4>5
    <3> QED
      BY <3>2, <3>3
  <2> HIDE DEF P
  <2>8. n \in P
    BY <2>1, <2>6, <2>7, NaturalsBySuccessor
  <2>9. FlattenSeq(seqs) \in Seq(T) /\ ToSet(FlattenSeq(seqs)) = All(n)
    BY <2>1, <2>2, <2>8 DEF P
  <2> QED
    BY <2>9 DEF All, n
<1> QED
  BY <1>2, <1>3

\* The candidates of a level, one after the other.
LEMMA OfferStepwise ==
    ASSUME NEW v, NEW budget, NEW t, NEW cs, Len(cs) \in Nat
    PROVE  \E f : /\ f[0] = t
                  /\ \A i \in 1..Len(cs) : f[i] = Discover(v, budget, f[i - 1], cs[i])
                  /\ Offer(v, budget, t, cs) = f[Len(cs)]
<1> DEFINE Base == t
           Step(i, x) == Discover(v, budget, x, cs[i])
           Rec(g, k) == g = [i \in 0..k |-> IF i = 0 THEN Base ELSE Step(i, g[i - 1])]
           F == CHOOSE g : Rec(g, Len(cs))
<1>1. Offer(v, budget, t, cs) = F[Len(cs)]
  BY DEF Offer
<1> HIDE DEF Base, Step
<1>2. Rec([i \in 0..0 |-> Base], 0)
  OBVIOUS
<1>3. ASSUME NEW k \in Nat, NEW g, Rec(g, k)
      PROVE  \E h : Rec(h, k + 1)
  <2> DEFINE h == [i \in 0..(k + 1) |-> IF i = k + 1 THEN Step(k + 1, g[k]) ELSE g[i]]
  <2>1. \A i \in 0..(k + 1) : h[i] = IF i = 0 THEN Base ELSE Step(i, h[i - 1])
    <3> TAKE i \in 0..(k + 1)
    <3>1. CASE i = k + 1
      BY <3>1
    <3>2. CASE i # k + 1
      <4>1. i \in 0..k /\ h[i] = g[i] /\ (i # 0 => i - 1 \in 0..k /\ h[i - 1] = g[i - 1])
        BY <3>2
      <4>2. g[i] = IF i = 0 THEN Base ELSE Step(i, g[i - 1])
        BY <1>3, <4>1
      <4> QED
        BY <4>1, <4>2
    <3> QED
      BY <3>1, <3>2
  <2>2. h = [i \in 0..(k + 1) |-> h[i]]
    OBVIOUS
  <2> HIDE DEF h
  <2>3. Rec(h, k + 1)
    BY <2>1, <2>2
  <2> QED
    BY <2>3
<1> DEFINE S == {k \in Nat : \E g : Rec(g, k)}
<1> HIDE DEF Rec
<1>4. 0 \in S
  BY <1>2
<1>5. \A k \in Nat : k \in S => k + 1 \in S
  BY <1>3
<1> HIDE DEF S
<1>6. \E g : Rec(g, Len(cs))
  BY <1>4, <1>5, NaturalsBySuccessor DEF S
<1>7. Rec(F, Len(cs))
  BY <1>6
<1> HIDE DEF F
<1>8. F[0] = Base /\ \A i \in 1..Len(cs) : F[i] = Step(i, F[i - 1])
  BY <1>7 DEF Rec
<1> QED
  BY <1>1, <1>8 DEF Base, Step

\* Level after level.
LEMMA TraversalStepwise ==
    ASSUME NEW v, NEW budget, v.depth \in Nat
    PROVE  \E f : /\ f[0] = Beginning(v)
                  /\ \A i \in 1..v.depth : f[i] = OneLevel(v, budget, f[i - 1], i)
                  /\ Traversal(v, budget) = f[v.depth]
<1> DEFINE Base == Beginning(v)
           Step(i, x) == OneLevel(v, budget, x, i)
           Rec(g, k) == g = [i \in 0..k |-> IF i = 0 THEN Base ELSE Step(i, g[i - 1])]
           F == CHOOSE g : Rec(g, v.depth)
<1>1. Traversal(v, budget) = F[v.depth]
  BY DEF Traversal
<1> HIDE DEF Base, Step
<1>2. Rec([i \in 0..0 |-> Base], 0)
  OBVIOUS
<1>3. ASSUME NEW k \in Nat, NEW g, Rec(g, k)
      PROVE  \E h : Rec(h, k + 1)
  <2> DEFINE h == [i \in 0..(k + 1) |-> IF i = k + 1 THEN Step(k + 1, g[k]) ELSE g[i]]
  <2>1. \A i \in 0..(k + 1) : h[i] = IF i = 0 THEN Base ELSE Step(i, h[i - 1])
    <3> TAKE i \in 0..(k + 1)
    <3>1. CASE i = k + 1
      BY <3>1
    <3>2. CASE i # k + 1
      <4>1. i \in 0..k /\ h[i] = g[i] /\ (i # 0 => i - 1 \in 0..k /\ h[i - 1] = g[i - 1])
        BY <3>2
      <4>2. g[i] = IF i = 0 THEN Base ELSE Step(i, g[i - 1])
        BY <1>3, <4>1
      <4> QED
        BY <4>1, <4>2
    <3> QED
      BY <3>1, <3>2
  <2>2. h = [i \in 0..(k + 1) |-> h[i]]
    OBVIOUS
  <2> HIDE DEF h
  <2>3. Rec(h, k + 1)
    BY <2>1, <2>2
  <2> QED
    BY <2>3
<1> DEFINE S == {k \in Nat : \E g : Rec(g, k)}
<1> HIDE DEF Rec
<1>4. 0 \in S
  BY <1>2
<1>5. \A k \in Nat : k \in S => k + 1 \in S
  BY <1>3
<1> HIDE DEF S
<1>6. \E g : Rec(g, v.depth)
  BY <1>4, <1>5, NaturalsBySuccessor DEF S
<1>7. Rec(F, v.depth)
  BY <1>6
<1> HIDE DEF F
<1>8. F[0] = Base /\ \A i \in 1..v.depth : F[i] = Step(i, F[i - 1])
  BY <1>7 DEF Rec
<1> QED
  BY <1>1, <1>8 DEF Base, Step

\* What an override closure finds, node after node.
LEMMA ClosureStepwise ==
    ASSUME NEW v, NEW node, NEW up, Cardinality(v.db.symbols) \in Nat
    PROVE  \E f : /\ f[0] = WithNeighbours(v, node, up, <<>>, node)
                  /\ \A i \in 1..Cardinality(v.db.symbols) : f[i] = (LET out == f[i - 1] IN IF i > Len(out) THEN out ELSE WithNeighbours(v, node, up, out, out[i]))
                  /\ OverrideClosure(v, node, up) = f[Cardinality(v.db.symbols)]
<1> DEFINE Base == WithNeighbours(v, node, up, <<>>, node)
           Step(i, x) == (LET out == x IN IF i > Len(out) THEN out ELSE WithNeighbours(v, node, up, out, out[i]))
           Rec(g, k) == g = [i \in 0..k |-> IF i = 0 THEN Base ELSE Step(i, g[i - 1])]
           F == CHOOSE g : Rec(g, Cardinality(v.db.symbols))
<1>1. OverrideClosure(v, node, up) = F[Cardinality(v.db.symbols)]
  BY DEF OverrideClosure
<1> HIDE DEF Base, Step
<1>2. Rec([i \in 0..0 |-> Base], 0)
  OBVIOUS
<1>3. ASSUME NEW k \in Nat, NEW g, Rec(g, k)
      PROVE  \E h : Rec(h, k + 1)
  <2> DEFINE h == [i \in 0..(k + 1) |-> IF i = k + 1 THEN Step(k + 1, g[k]) ELSE g[i]]
  <2>1. \A i \in 0..(k + 1) : h[i] = IF i = 0 THEN Base ELSE Step(i, h[i - 1])
    <3> TAKE i \in 0..(k + 1)
    <3>1. CASE i = k + 1
      BY <3>1
    <3>2. CASE i # k + 1
      <4>1. i \in 0..k /\ h[i] = g[i] /\ (i # 0 => i - 1 \in 0..k /\ h[i - 1] = g[i - 1])
        BY <3>2
      <4>2. g[i] = IF i = 0 THEN Base ELSE Step(i, g[i - 1])
        BY <1>3, <4>1
      <4> QED
        BY <4>1, <4>2
    <3> QED
      BY <3>1, <3>2
  <2>2. h = [i \in 0..(k + 1) |-> h[i]]
    OBVIOUS
  <2> HIDE DEF h
  <2>3. Rec(h, k + 1)
    BY <2>1, <2>2
  <2> QED
    BY <2>3
<1> DEFINE S == {k \in Nat : \E g : Rec(g, k)}
<1> HIDE DEF Rec
<1>4. 0 \in S
  BY <1>2
<1>5. \A k \in Nat : k \in S => k + 1 \in S
  BY <1>3
<1> HIDE DEF S
<1>6. \E g : Rec(g, Cardinality(v.db.symbols))
  BY <1>4, <1>5, NaturalsBySuccessor DEF S
<1>7. Rec(F, Cardinality(v.db.symbols))
  BY <1>6
<1> HIDE DEF F
<1>8. F[0] = Base /\ \A i \in 1..Cardinality(v.db.symbols) : F[i] = Step(i, F[i - 1])
  BY <1>7 DEF Rec
<1> QED
  BY <1>1, <1>8 DEF Base, Step

-----------------------------------------------------------------------------
(* Candidates are symbols of the profile.                                  *)

\* Some rows, each once.
LEMMA RowsInOrder ==
    ASSUME NEW d, WellKept(d), NEW S \in SUBSET d.relations
    PROVE  InRowOrder(S) \in Seq(S) /\ ToSet(InRowOrder(S)) = S
<1> DEFINE R == {p \in S \X S : p[1].row < p[2].row}
           q == InRowOrder(S)
<1>1. IsFiniteSet(S)
  BY FS_Subset DEF WellKept
<1>2. \A r \in S : r.row \in Nat
  BY DEF WellKept
<1>3. \A r, s \in S : r.row = s.row => r = s
  BY DEF WellKept
<1>4. \A x, y \in S : <<x, y>> \in R <=> x.row < y.row
  OBVIOUS
<1>5. q = Ordered(S, R)
  BY DEF InRowOrder
<1> HIDE DEF R
<1>6. IsOrder(S, R)
  <2>1. \A x \in S : <<x, x>> \notin R
    BY <1>2, <1>4
  <2>2. \A x, y, z \in S : <<x, y>> \in R /\ <<y, z>> \in R => <<x, z>> \in R
    BY <1>2, <1>4
  <2>3. \A x, y \in S : x = y \/ <<x, y>> \in R \/ <<y, x>> \in R
    <3> TAKE x, y \in S
    <3>1. x.row \in Nat /\ y.row \in Nat
      BY <1>2
    <3>2. x.row < y.row \/ x.row = y.row \/ y.row < x.row
      BY <3>1
    <3> QED
      BY <1>3, <1>4, <3>2
  <2> QED
    BY <2>1, <2>2, <2>3 DEF IsOrder
<1> HIDE DEF q
<1>7. IsSeq(q) /\ Len(q) = Cardinality(S) /\ Cardinality(S) \in Nat
  BY <1>1, <1>5, OrderedLength
<1>8. /\ \A i \in 1..Len(q) : q[i] \in S
      /\ \A x \in S : \E i \in 1..Len(q) : q[i] = x
  BY <1>1, <1>5, <1>6, <1>7, OrderedElements
<1>9. q = [i \in 1..Len(q) |-> q[i]] /\ Len(q) \in Nat
  BY <1>7 DEF IsSeq
<1>10. q \in Seq(S)
  BY <1>8, <1>9
<1>11. ToSet(q) = S
  BY <1>8, <1>9 DEF ToSet
<1> QED
  BY <1>10, <1>11 DEF q

\* An environment of a traversal.
Environment(v) ==
    /\ WellKept(v.db)
    /\ v.depth \in Nat

LEMMA WithNeighboursType ==
    ASSUME NEW v, Environment(v), NEW node, NEW up, NEW out \in Seq(v.db.symbols), NEW s
    PROVE  WithNeighbours(v, node, up, out, s) \in Seq(v.db.symbols)
<1> DEFINE fresh == FreshNeighbours(v, node, up, out, s)
           S == {r \in fresh : \A q \in fresh : Far(q, up) = Far(r, up) => r.row <= q.row}
           first == InRowOrder(S)
           more == [i \in DOMAIN first |-> Far(first[i], up)]
<1>1. WithNeighbours(v, node, up, out, s) = out \o more
  BY DEF WithNeighbours
<1>2. S \in SUBSET v.db.relations
  BY DEF FreshNeighbours, Neighbours
<1> HIDE DEF S
<1>3. first \in Seq(S)
  BY <1>2, RowsInOrder DEF Environment
<1>4. \A r \in S : Far(r, up) \in v.db.symbols
  BY <1>2 DEF Far, Environment, WellKept
<1> HIDE DEF first
<1>5. DOMAIN first = 1..Len(first) /\ Len(first) \in Nat /\ \A i \in DOMAIN first : first[i] \in S
  BY <1>3
<1>6. more \in Seq(v.db.symbols)
  <2>1. \A i \in 1..Len(first) : Far(first[i], up) \in v.db.symbols
    BY <1>4, <1>5
  <2> QED
    BY <1>5, <2>1
<1> HIDE DEF more
<1> QED
  BY <1>1, <1>6

LEMMA ClosureType ==
    ASSUME NEW v, Environment(v), NEW node, NEW up
    PROVE  OverrideClosure(v, node, up) \in Seq(v.db.symbols)
<1> DEFINE n == Cardinality(v.db.symbols)
<1>1. n \in Nat
  BY FS_CardinalityType DEF Environment, WellKept
<1>2. PICK g : /\ g[0] = WithNeighbours(v, node, up, <<>>, node)
               /\ \A i \in 1..n : g[i] = (LET out == g[i - 1]
                                          IN  IF i > Len(out) THEN out
                                              ELSE WithNeighbours(v, node, up, out, out[i]))
               /\ OverrideClosure(v, node, up) = g[n]
  BY <1>1, ClosureStepwise
<1> HIDE DEF n
<1> DEFINE P == {k \in Nat : k <= n => g[k] \in Seq(v.db.symbols)}
<1>3. 0 \in P
  <2>1. <<>> \in Seq(v.db.symbols) /\ 0 \in Nat
    OBVIOUS
  <2>2. g[0] \in Seq(v.db.symbols)
    BY <1>2, <2>1, WithNeighboursType
  <2> QED
    BY <2>1, <2>2
<1>4. \A k \in Nat : k \in P => k + 1 \in P
  <2> SUFFICES ASSUME NEW k \in Nat, k \in P, k + 1 <= n
               PROVE  g[k + 1] \in Seq(v.db.symbols)
    OBVIOUS
  <2>1. g[k] \in Seq(v.db.symbols)
    BY <1>1
  <2>2. k + 1 \in 1..n /\ (k + 1) - 1 = k
    BY <1>1
  <2>3. g[k + 1] = IF k + 1 > Len(g[k]) THEN g[k]
                   ELSE WithNeighbours(v, node, up, g[k], g[k][k + 1])
    BY <1>2, <2>2
  <2> QED
    BY <2>1, <2>3, WithNeighboursType
<1> HIDE DEF P
<1>5. n \in P
  BY <1>1, <1>3, <1>4, NaturalsBySuccessor
<1> QED
  BY <1>1, <1>2, <1>5 DEF P

LEMMA DirectionsType ==
    ASSUME NEW v, Environment(v), NEW s
    PROVE  BasesOf(v, s) \in Seq(v.db.symbols) /\ OverridersOf(v, s) \in Seq(v.db.symbols)
<1>1. /\ OverrideClosure(v, s, TRUE) \in Seq(v.db.symbols)
      /\ OverrideClosure(v, s, FALSE) \in Seq(v.db.symbols)
  BY ClosureType, Zenon
<1> QED
  BY <1>1, Zenon DEF BasesOf, OverridersOf

LEMMA CandidatesType ==
    ASSUME NEW v, Environment(v), NEW n
    PROVE  Candidates(v, n) \in Seq(v.db.symbols)
<1> DEFINE T == v.db.symbols
           bases == BasesOf(v, n)
           slots == <<n>> \o bases
           into(s) == RelationsTo(v.db, s, "calls")
           in == [i \in 1..(1 + Len(bases)) |-> [j \in DOMAIN into(slots[i]) |-> into(slots[i])[j].source]]
           from == RelationsFrom(v.db, n, "calls")
           out == [i \in DOMAIN from |-> <<from[i].target>> \o
                      (IF VirtualEvidence(v, from[i]) # {} THEN OverridersOf(v, from[i].target) ELSE <<>>)]
<1>1. bases \in Seq(T) /\ Len(bases) \in Nat
  BY DirectionsType
<1>2. Candidates(v, n) = IF v.incoming THEN FlattenSeq(in) ELSE FlattenSeq(out)
  BY DEF Candidates
<1>3. ASSUME NEW s
      PROVE  [j \in DOMAIN into(s) |-> into(s)[j].source] \in Seq(T)
  <2> DEFINE S == {r \in v.db.relations : r.target = s /\ r.kind = "calls"}
  <2>1. S \in SUBSET v.db.relations /\ into(s) = InRowOrder(S)
    BY DEF RelationsTo
  <2>2. \A r \in S : r.source \in T
    BY DEF Environment, WellKept
  <2> HIDE DEF S, into
  <2>3. into(s) \in Seq(S)
    BY <2>1, RowsInOrder DEF Environment
  <2>4. /\ DOMAIN into(s) = 1..Len(into(s)) /\ Len(into(s)) \in Nat
        /\ \A j \in 1..Len(into(s)) : into(s)[j].source \in T
    BY <2>2, <2>3
  <2> QED
    BY <2>4
<1>4. in \in Seq(Seq(T))
  <2> HIDE DEF into, slots, bases
  <2>1. \A i \in 1..(1 + Len(bases)) :
           [j \in DOMAIN into(slots[i]) |-> into(slots[i])[j].source] \in Seq(T)
    BY <1>3
  <2>2. 1 + Len(bases) \in Nat
    BY <1>1
  <2>3. \A i \in 1..(1 + Len(bases)) : in[i] \in Seq(T)
    BY <2>1
  <2>4. in = [i \in 1..(1 + Len(bases)) |-> in[i]]
    OBVIOUS
  <2> HIDE DEF in, T
  <2>5. in \in [1..(1 + Len(bases)) -> Seq(T)]
    BY <2>3, <2>4
  <2> QED
    BY <2>2, <2>5
<1>5. out \in Seq(Seq(T))
  <2> DEFINE S == {r \in v.db.relations : r.source = n /\ r.kind = "calls"}
  <2>1. S \in SUBSET v.db.relations /\ from = InRowOrder(S)
    BY DEF RelationsFrom
  <2>2. \A r \in S : r.target \in T
    BY DEF Environment, WellKept
  <2> HIDE DEF S, from
  <2>3. from \in Seq(S)
    BY <2>1, RowsInOrder DEF Environment
  <2>4. /\ DOMAIN from = 1..Len(from) /\ Len(from) \in Nat
        /\ \A j \in 1..Len(from) : from[j].target \in T
    BY <2>2, <2>3
  <2>5. \A m : OverridersOf(v, m) \in Seq(T) /\ <<>> \in Seq(T)
    BY DirectionsType
  <2>6. \A i \in DOMAIN from : <<from[i].target>> \in Seq(T)
    <3> HIDE DEF T
    <3>1. \A x \in T : <<x>> \in Seq(T)
      OBVIOUS
    <3> QED
      BY <2>4, <3>1
  <2>7. \A i \in DOMAIN from : out[i] \in Seq(T)
    <3> TAKE i \in DOMAIN from
    <3> DEFINE rest == IF VirtualEvidence(v, from[i]) # {} THEN OverridersOf(v, from[i].target) ELSE <<>>
    <3>1. rest \in Seq(T)
      BY <2>5
    <3>2. out[i] = <<from[i].target>> \o rest
      OBVIOUS
    <3> HIDE DEF rest, out
    <3> QED
      BY <2>6, <3>1, <3>2
  <2>8. DOMAIN out = 1..Len(from) /\ out = [i \in 1..Len(from) |-> out[i]]
    BY <2>4
  <2> HIDE DEF out, T
  <2>9. out \in [1..Len(from) -> Seq(T)]
    BY <2>4, <2>7, <2>8
  <2> QED
    BY <2>4, <2>9
<1>6. FlattenSeq(in) \in Seq(T) /\ FlattenSeq(out) \in Seq(T)
  <2> HIDE DEF in, out, T
  <2> QED
    BY <1>4, <1>5, Flattened
<1> QED
  BY <1>2, <1>6

-----------------------------------------------------------------------------
(* A traversal and the one without a budget go together until the budget   *)
(* stops the first; the other cannot be stopped by a budget that large.    *)

StateFields == {"records", "frontier", "level", "rejected", "confirmed", "hop", "stop"}

\* Every record is of another public symbol, and a stop for nodes has its
\* reason.
TraceState(v, budget, t) ==
    /\ DOMAIN t = StateFields
    /\ IsSeq(t.records) /\ Len(t.records) \in Nat
    /\ \A i \in 1..Len(t.records) : t.records[i].other \in v.db.symbols
    /\ \A i \in 1..Len(t.records) : IsPublic(v.view, t.records[i].other)
    /\ \A i, j \in 1..Len(t.records) : t.records[i].other = t.records[j].other => i = j
    /\ IsSeq(t.level) /\ Len(t.level) \in Nat
    /\ t.stop \in {"no", "node_budget", "time_budget"}
    /\ t.stop = "node_budget" => Len(t.records) >= budget.limit

Ample(v) == [limit |-> Cardinality(v.db.symbols), clock |-> Cardinality(v.db.symbols)]

Along(t, u) ==
    /\ u.stop = "no"
    /\ t.stop = "no" => t = u
    /\ t.stop # "no" => Begins(t.records, u.records)

LEMMA RoomForOneMore ==
    ASSUME NEW v, Environment(v), NEW budget, NEW t, TraceState(v, budget, t),
           NEW c \in v.db.symbols, ~Visited(v, t, c)
    PROVE  Len(t.records) < Cardinality(v.db.symbols)
<1> DEFINE n == Len(t.records)
           T == v.db.symbols
           f == [i \in 1..n |-> t.records[i].other]
<1>1. n \in Nat /\ DOMAIN t.records = 1..n
  BY DEF TraceState, IsSeq
<1>2. IsFiniteSet(T) /\ IsFiniteSet(T \ {c}) /\ Cardinality(T \ {c}) = Cardinality(T) - 1
  <2>1. IsFiniteSet(T)
    BY DEF Environment, WellKept
  <2> QED
    BY <2>1, FS_RemoveElement
<1>3. Cardinality(T) \in Nat
  BY <1>2, FS_CardinalityType
<1>4. \A i \in 1..n : t.records[i].other \in T \ {c}
  BY <1>1 DEF TraceState, Visited
<1>5. f \in Injection(1..n, T \ {c})
  <2>1. f \in [1..n -> T \ {c}]
    BY <1>4
  <2>2. \A i, j \in DOMAIN f : f[i] = f[j] => i = j
    BY <1>1 DEF TraceState
  <2> QED
    BY <2>1, <2>2 DEF Injection, IsInjective
<1>6. IsFiniteSet(1..n) /\ Cardinality(1..n) = n
  <2>1. 1 \in Int /\ n \in Int
    BY <1>1
  <2>2. /\ IsFiniteSet(1..n)
        /\ Cardinality(1..n) = IF 1 > n THEN 0 ELSE n - 1 + 1
    BY <2>1, FS_Interval
  <2> QED
    BY <1>1, <2>2
<1> HIDE DEF n, T, f
<1>7. Cardinality(1..n) <= Cardinality(T \ {c})
  BY <1>2, <1>5, FS_Injection
<1>8. n < Cardinality(T)
  BY <1>1, <1>2, <1>3, <1>6, <1>7
<1> QED
  BY <1>8 DEF n, T

\* What a discovery does to the records, the level and the stop.
Kept(t, u) == u.records = t.records /\ u.level = t.level
Discovery(v, budget, t, c, u) ==
    /\ DOMAIN u = StateFields
    /\ \/ Kept(t, u) /\ u.stop = t.stop
       \/ /\ Kept(t, u) /\ t.stop = "no" /\ ~Visited(v, t, c)
          /\ \/ u.stop = "node_budget" /\ Len(t.records) >= budget.limit
             \/ u.stop = "time_budget" /\ Len(t.records) >= budget.clock
       \/ /\ t.stop = "no" /\ u.stop = "no" /\ ~Visited(v, t, c)
          /\ IsPublic(v.view, c)
          /\ u.records = Append(t.records, Seal(v, t, c))
          /\ u.level = Append(t.level, c)
LEMMA DiscoverSays ==
    ASSUME NEW v, NEW budget, NEW t, DOMAIN t = StateFields, NEW c
    PROVE  Seal(v, t, c).other = c /\ Discovery(v, budget, t, c, Discover(v, budget, t, c))
<1> DEFINE u == Discover(v, budget, t, c)
           r == Seal(v, t, c)
<1>1. r.other = c
  BY DEF Seal
<1> HIDE DEF r
<1>2. u = IF t.stop # "no" \/ Visited(v, t, c) \/ c \in t.rejected THEN t
          ELSE IF Len(t.records) >= budget.limit THEN [t EXCEPT !.stop = "node_budget"]
          ELSE IF Len(t.records) >= budget.clock THEN [t EXCEPT !.stop = "time_budget"]
          ELSE IF ~IsPublic(v.view, c) \/ r.confirmed \cup r.possible = {}
               THEN [t EXCEPT !.rejected = @ \cup {c}]
          ELSE [t EXCEPT !.records = Append(@, r),
                         !.level = Append(@, c),
                         !.confirmed = IF r.path THEN @ \cup {c} ELSE @]
  BY DEF Discover, Admit, r
<1> HIDE DEF u
<1> DEFINE As(w, stop) == DOMAIN w = StateFields /\ Kept(t, w) /\ w.stop = stop
<1>3. /\ As(t, t.stop)
      /\ As([t EXCEPT !.stop = "node_budget"], "node_budget")
      /\ As([t EXCEPT !.stop = "time_budget"], "time_budget")
      /\ As([t EXCEPT !.rejected = @ \cup {c}], t.stop)
  BY DEF Kept, StateFields
<1>4. LET w == [t EXCEPT !.records = Append(@, r),
                         !.level = Append(@, c),
                         !.confirmed = IF r.path THEN @ \cup {c} ELSE @]
      IN  /\ DOMAIN w = StateFields /\ w.stop = t.stop
          /\ w.records = Append(t.records, r) /\ w.level = Append(t.level, c)
  BY DEF StateFields
<1> HIDE DEF As
<1>5. CASE t.stop # "no" \/ Visited(v, t, c) \/ c \in t.rejected
  <2>1. As(u, t.stop)
    BY <1>2, <1>3, <1>5
  <2> QED
    BY <1>1, <2>1 DEF As, u, r, Discovery
<1>6. CASE ~(t.stop # "no" \/ Visited(v, t, c) \/ c \in t.rejected)
  <2>1. CASE Len(t.records) >= budget.limit
    <3>1. As(u, "node_budget")
      BY <1>2, <1>3, <1>6, <2>1
    <3> QED
      BY <1>1, <1>6, <2>1, <3>1 DEF As, u, r, Discovery
  <2>2. CASE ~(Len(t.records) >= budget.limit) /\ Len(t.records) >= budget.clock
    <3>1. As(u, "time_budget")
      BY <1>2, <1>3, <1>6, <2>2
    <3> QED
      BY <1>1, <1>6, <2>2, <3>1 DEF As, u, r, Discovery
  <2>3. CASE ~(Len(t.records) >= budget.limit) /\ ~(Len(t.records) >= budget.clock)
    <3>1. \/ As(u, t.stop)
          \/ /\ DOMAIN u = StateFields /\ u.stop = t.stop /\ IsPublic(v.view, c)
             /\ u.records = Append(t.records, r) /\ u.level = Append(t.level, c)
      BY <1>2, <1>3, <1>4, <1>6, <2>3
    <3> QED
      BY <1>1, <1>6, <3>1 DEF As, u, r, Discovery
  <2> QED
    BY <2>1, <2>2, <2>3
<1> QED
  BY <1>5, <1>6

\* Two budgets that both leave room make no difference.
LEMMA DiscoverAlike ==
    ASSUME NEW v, NEW b, NEW w, NEW t, NEW c,
           ~(Len(t.records) >= b.limit), ~(Len(t.records) >= b.clock),
           ~(Len(t.records) >= w.limit), ~(Len(t.records) >= w.clock)
    PROVE  Discover(v, b, t, c) = Discover(v, w, t, c)
<1> DEFINE r == Seal(v, t, c)
           same == IF t.stop # "no" \/ Visited(v, t, c) \/ c \in t.rejected THEN t
                   ELSE IF ~IsPublic(v.view, c) \/ r.confirmed \cup r.possible = {}
                        THEN [t EXCEPT !.rejected = @ \cup {c}]
                   ELSE [t EXCEPT !.records = Append(@, r),
                                  !.level = Append(@, c),
                                  !.confirmed = IF r.path THEN @ \cup {c} ELSE @]
<1>1. Discover(v, b, t, c) = same
  BY DEF Discover, Admit
<1>2. Discover(v, w, t, c) = same
  BY DEF Discover, Admit
<1> QED
  BY <1>1, <1>2

LEMMA Added ==
    ASSUME NEW s, IsSeq(s), NEW e
    PROVE  /\ IsSeq(Append(s, e)) /\ Len(Append(s, e)) = Len(s) + 1 /\ Len(s) \in Nat
           /\ \A i \in 1..Len(s) : Append(s, e)[i] = s[i]
           /\ Append(s, e)[Len(s) + 1] = e
           /\ Begins(s, Append(s, e))
<1> DEFINE S == {s[i] : i \in 1..Len(s)} \cup {e}
           r == Append(s, e)
<1>1. s \in Seq(S) /\ e \in S
  BY DEF IsSeq
<1> HIDE DEF S
<1>2. /\ r \in Seq(S) /\ Len(r) = Len(s) + 1 /\ Len(s) \in Nat
      /\ \A i \in 1..Len(s) : r[i] = s[i]
      /\ r[Len(s) + 1] = e
  BY <1>1
<1> HIDE DEF r
<1>3. IsSeq(r)
  BY <1>2, OverIsSeq
<1>4. Begins(s, r)
  BY <1>2, <1>3 DEF Begins
<1> QED
  BY <1>2, <1>3, <1>4 DEF r

\* A discovery keeps what a state is.
LEMMA DiscoverStep ==
    ASSUME NEW v, Environment(v), NEW budget, NEW t, TraceState(v, budget, t),
           NEW c \in v.db.symbols
    PROVE  LET u == Discover(v, budget, t, c)
           IN  TraceState(v, budget, u) /\ Begins(t.records, u.records)
<1> DEFINE u == Discover(v, budget, t, c)
           r == Seal(v, t, c)
<1> SUFFICES TraceState(v, budget, u) /\ Begins(t.records, u.records)
  OBVIOUS
<1>1. /\ DOMAIN u = StateFields
      /\ r.other = c
      /\ \/ Kept(t, u) /\ u.stop = t.stop
         \/ /\ Kept(t, u) /\ t.stop = "no" /\ ~Visited(v, t, c)
            /\ \/ u.stop = "node_budget" /\ Len(t.records) >= budget.limit
               \/ u.stop = "time_budget" /\ Len(t.records) >= budget.clock
         \/ /\ t.stop = "no" /\ u.stop = "no" /\ ~Visited(v, t, c)
            /\ IsPublic(v.view, c)
            /\ u.records = Append(t.records, r)
            /\ u.level = Append(t.level, c)
  <2>1. DOMAIN t = StateFields
    BY DEF TraceState
  <2>2. r.other = c /\ Discovery(v, budget, t, c, u)
    BY <2>1, DiscoverSays
  <2> HIDE DEF u
  <2> QED
    BY <2>2 DEF Discovery
<1> HIDE DEF u, r
<1>2. CASE /\ Kept(t, u)
           /\ \/ u.stop = t.stop
              \/ u.stop = "time_budget"
              \/ u.stop = "node_budget" /\ Len(t.records) >= budget.limit
  <2>1. TraceState(v, budget, u)
    BY <1>1, <1>2 DEF TraceState, Kept
  <2>2. Begins(t.records, u.records)
    BY <1>2, BeginsItself DEF TraceState, Kept
  <2> QED
    BY <2>1, <2>2
<1>3. CASE /\ t.stop = "no" /\ u.stop = "no" /\ ~Visited(v, t, c)
           /\ IsPublic(v.view, c)
           /\ u.records = Append(t.records, r)
           /\ u.level = Append(t.level, c)
  <2> DEFINE n == Len(t.records)
  <2>1. /\ IsSeq(u.records) /\ Len(u.records) = n + 1 /\ n \in Nat
        /\ \A i \in 1..n : u.records[i] = t.records[i]
        /\ u.records[n + 1] = r
        /\ Begins(t.records, u.records)
    BY <1>3, Added DEF TraceState
  <2>2. IsSeq(u.level) /\ Len(u.level) \in Nat
    <3>1. IsSeq(t.level)
      BY DEF TraceState
    <3>2. IsSeq(u.level) /\ Len(u.level) = Len(t.level) + 1 /\ Len(t.level) \in Nat
      BY <1>3, <3>1, Added
    <3> QED
      BY <3>2
  <2>3. \A i \in 1..n : t.records[i].other # c /\ t.records[i].other \in v.db.symbols
    <3>1. DOMAIN t.records = 1..n
      BY DEF TraceState, IsSeq
    <3>2. \A i \in 1..n : t.records[i].other # c
      BY <1>3, <3>1 DEF Visited
    <3> QED
      BY <3>2 DEF TraceState
  <2>4. \A i \in 1..(n + 1) : u.records[i].other = IF i = n + 1 THEN c ELSE t.records[i].other
    BY <1>1, <2>1
  <2>5. \A i \in 1..(n + 1) : u.records[i].other \in v.db.symbols
    BY <2>1, <2>3, <2>4
  <2>9. \A i \in 1..(n + 1) : IsPublic(v.view, u.records[i].other)
    <3>1. \A i \in 1..n : IsPublic(v.view, t.records[i].other)
      BY DEF TraceState
    <3> QED
      BY <1>3, <2>1, <2>4, <3>1
  <2>6. \A i, j \in 1..n : t.records[i].other = t.records[j].other => i = j
    BY DEF TraceState
  <2>7. \A i, j \in 1..(n + 1) : u.records[i].other = u.records[j].other => i = j
    <3> HIDE DEF n
    <3> TAKE i, j \in 1..(n + 1)
    <3> HAVE u.records[i].other = u.records[j].other
    <3>1. i = n + 1 \/ i \in 1..n
      BY <2>1
    <3>2. j = n + 1 \/ j \in 1..n
      BY <2>1
    <3> QED
      BY <2>1, <2>3, <2>4, <2>6, <3>1, <3>2
  <2>8. TraceState(v, budget, u)
    <3> HIDE DEF n
    <3> QED
      BY <1>1, <1>3, <2>1, <2>2, <2>5, <2>7, <2>9 DEF TraceState
  <2> QED
    BY <2>1, <2>8
<1>4. CASE Kept(t, u) /\ u.stop = t.stop
  BY <1>2, <1>4
<1>5. CASE /\ Kept(t, u) /\ t.stop = "no" /\ ~Visited(v, t, c)
           /\ \/ u.stop = "node_budget" /\ Len(t.records) >= budget.limit
              \/ u.stop = "time_budget" /\ Len(t.records) >= budget.clock
  BY <1>2, <1>5
<1> QED
  BY <1>1, <1>3, <1>4, <1>5

\* A discovery under a budget, and the same one without.
LEMMA DiscoverTogether ==
    ASSUME NEW v, Environment(v), NEW b, b.limit \in Nat, b.clock \in Nat,
           NEW t, TraceState(v, b, t),
           NEW u, TraceState(v, Ample(v), u), Along(t, u), NEW c \in v.db.symbols
    PROVE  Along(Discover(v, b, t, c), Discover(v, Ample(v), u, c))
<1> DEFINE t2 == Discover(v, b, t, c)
           u2 == Discover(v, Ample(v), u, c)
<1>1. TraceState(v, b, t2) /\ TraceState(v, Ample(v), u2)
      /\ Begins(t.records, t2.records) /\ Begins(u.records, u2.records)
  BY DiscoverStep
<1>2. u2.stop = "no"
  <2>1. \/ u2.stop = u.stop
        \/ u2.stop = "no"
        \/ /\ ~Visited(v, u, c)
           /\ \/ Len(u.records) >= Ample(v).limit
              \/ Len(u.records) >= Ample(v).clock
    <3>1. DOMAIN u = StateFields
      BY DEF TraceState
    <3>2. Discovery(v, Ample(v), u, c, u2)
      BY <3>1, DiscoverSays
    <3> HIDE DEF u2
    <3> QED
      BY <3>2 DEF Discovery
  <2>2. ~Visited(v, u, c) => Len(u.records) < Cardinality(v.db.symbols)
    BY RoomForOneMore
  <2>3. Cardinality(v.db.symbols) \in Nat /\ Len(u.records) \in Nat
    BY FS_CardinalityType DEF Environment, WellKept, TraceState
  <2>4. Ample(v).limit = Cardinality(v.db.symbols) /\ Ample(v).clock = Cardinality(v.db.symbols)
    BY DEF Ample
  <2> HIDE DEF u2
  <2> QED
    BY <2>1, <2>2, <2>3, <2>4 DEF Along
<1>3. CASE t.stop # "no"
  <2>1. t2 = t
    BY <1>3 DEF Discover
  <2> HIDE DEF t2, u2
  <2>2. Begins(t.records, u2.records)
    BY <1>1, <1>3, BeginsOn DEF Along
  <2> QED
    BY <1>2, <1>3, <2>1, <2>2 DEF Along, t2, u2
<1>4. CASE t.stop = "no" /\ t2.stop = "no"
  <2>1. t = u
    BY <1>4 DEF Along
  <2>2. CASE Visited(v, t, c) \/ c \in t.rejected
    <3>1. t2 = t /\ u2 = u
      BY <2>1, <2>2 DEF Discover
    <3> QED
      BY <1>2, <2>1, <3>1 DEF Along
  <2>3. CASE ~(Visited(v, t, c) \/ c \in t.rejected)
    <3>1. ~(Len(t.records) >= b.limit) /\ ~(Len(t.records) >= b.clock)
      <4>1. Len(t.records) >= b.limit => t2 = [t EXCEPT !.stop = "node_budget"]
        BY <1>4, <2>3 DEF Discover
      <4>2. ~(Len(t.records) >= b.limit) /\ Len(t.records) >= b.clock
              => t2 = [t EXCEPT !.stop = "time_budget"]
        BY <1>4, <2>3 DEF Discover
      <4>3. "stop" \in DOMAIN t
        BY DEF TraceState, StateFields
      <4> HIDE DEF t2
      <4> QED
        BY <1>4, <4>1, <4>2, <4>3
    <3>2. Len(t.records) < Cardinality(v.db.symbols)
      BY <2>3, RoomForOneMore
    <3>3. Cardinality(v.db.symbols) \in Nat /\ Len(t.records) \in Nat
      BY FS_CardinalityType DEF Environment, WellKept, TraceState
    <3>4. ~(Len(t.records) >= Ample(v).limit) /\ ~(Len(t.records) >= Ample(v).clock)
      BY <3>2, <3>3 DEF Ample
    <3>5. t2 = u2
      BY <2>1, <3>1, <3>4, DiscoverAlike
    <3> HIDE DEF t2, u2
    <3>6. Along(t2, u2)
      BY <1>2, <3>5 DEF Along
    <3> QED
      BY <3>6 DEF t2, u2
  <2> QED
    BY <2>2, <2>3
<1>5. CASE t.stop = "no" /\ t2.stop # "no"
  <2>1. t = u
    BY <1>5 DEF Along
  <2>2. Kept(t, t2)
    <3>1. DOMAIN t = StateFields
      BY DEF TraceState
    <3>2. Discovery(v, b, t, c, t2)
      BY <3>1, DiscoverSays
    <3> HIDE DEF t2
    <3> QED
      BY <1>5, <3>2 DEF Discovery
  <2> HIDE DEF t2, u2
  <2>3. Begins(t2.records, u2.records)
    BY <1>1, <2>1, <2>2 DEF Kept
  <2> QED
    BY <1>2, <1>5, <2>3 DEF Along, t2, u2
<1> QED
  BY <1>3, <1>4, <1>5

LEMMA OfferState ==
    ASSUME NEW v, Environment(v), NEW b, NEW t, TraceState(v, b, t),
           NEW cs \in Seq(v.db.symbols)
    PROVE  LET u == Offer(v, b, t, cs)
           IN  TraceState(v, b, u) /\ Begins(t.records, u.records)
<1> DEFINE n == Len(cs)
<1>1. n \in Nat /\ \A i \in 1..n : cs[i] \in v.db.symbols
  OBVIOUS
<1>2. PICK f : /\ f[0] = t
               /\ \A i \in 1..n : f[i] = Discover(v, b, f[i - 1], cs[i])
               /\ Offer(v, b, t, cs) = f[n]
  BY <1>1, OfferStepwise
<1> HIDE DEF n
<1> DEFINE P == {k \in Nat : k <= n => TraceState(v, b, f[k]) /\ Begins(t.records, f[k].records)}
<1>3. 0 \in P
  BY <1>2, BeginsItself DEF TraceState
<1>4. \A k \in Nat : k \in P => k + 1 \in P
  <2> SUFFICES ASSUME NEW k \in Nat, k \in P, k + 1 <= n
               PROVE  TraceState(v, b, f[k + 1]) /\ Begins(t.records, f[k + 1].records)
    OBVIOUS
  <2>1. TraceState(v, b, f[k]) /\ Begins(t.records, f[k].records)
    BY <1>1
  <2>2. k + 1 \in 1..n /\ (k + 1) - 1 = k
    BY <1>1
  <2>3. f[k + 1] = Discover(v, b, f[k], cs[k + 1]) /\ cs[k + 1] \in v.db.symbols
    BY <1>1, <1>2, <2>2
  <2>4. TraceState(v, b, f[k + 1]) /\ Begins(f[k].records, f[k + 1].records)
    BY <2>1, <2>3, DiscoverStep
  <2> QED
    BY <2>1, <2>4, BeginsOn
<1> HIDE DEF P
<1>5. n \in P
  BY <1>1, <1>3, <1>4, NaturalsBySuccessor
<1> QED
  BY <1>1, <1>2, <1>5 DEF P

LEMMA OfferTogether ==
    ASSUME NEW v, Environment(v), NEW b, b.limit \in Nat, b.clock \in Nat,
           NEW t, TraceState(v, b, t),
           NEW u, TraceState(v, Ample(v), u), Along(t, u),
           NEW cs \in Seq(v.db.symbols)
    PROVE  Along(Offer(v, b, t, cs), Offer(v, Ample(v), u, cs))
<1> DEFINE n == Len(cs)
<1>1. n \in Nat /\ \A i \in 1..n : cs[i] \in v.db.symbols
  OBVIOUS
<1>2. PICK f : /\ f[0] = t
               /\ \A i \in 1..n : f[i] = Discover(v, b, f[i - 1], cs[i])
               /\ Offer(v, b, t, cs) = f[n]
  BY <1>1, OfferStepwise
<1>3. PICK g : /\ g[0] = u
               /\ \A i \in 1..n : g[i] = Discover(v, Ample(v), g[i - 1], cs[i])
               /\ Offer(v, Ample(v), u, cs) = g[n]
  BY <1>1, OfferStepwise
<1> HIDE DEF n
<1> DEFINE P == {k \in Nat : k <= n => /\ TraceState(v, b, f[k])
                                       /\ TraceState(v, Ample(v), g[k])
                                       /\ Along(f[k], g[k])}
<1>4. 0 \in P
  BY <1>2, <1>3
<1>5. \A k \in Nat : k \in P => k + 1 \in P
  <2> SUFFICES ASSUME NEW k \in Nat, k \in P, k + 1 <= n
               PROVE  /\ TraceState(v, b, f[k + 1])
                      /\ TraceState(v, Ample(v), g[k + 1])
                      /\ Along(f[k + 1], g[k + 1])
    OBVIOUS
  <2>1. TraceState(v, b, f[k]) /\ TraceState(v, Ample(v), g[k]) /\ Along(f[k], g[k])
    BY <1>1
  <2>2. k + 1 \in 1..n /\ (k + 1) - 1 = k
    BY <1>1
  <2>3. /\ f[k + 1] = Discover(v, b, f[k], cs[k + 1])
        /\ g[k + 1] = Discover(v, Ample(v), g[k], cs[k + 1])
        /\ cs[k + 1] \in v.db.symbols
    BY <1>1, <1>2, <1>3, <2>2
  <2>4. TraceState(v, b, f[k + 1]) /\ TraceState(v, Ample(v), g[k + 1])
    BY <2>1, <2>3, DiscoverStep
  <2>5. Along(f[k + 1], g[k + 1])
    BY <2>1, <2>3, DiscoverTogether
  <2> QED
    BY <2>4, <2>5
<1> HIDE DEF P
<1>6. n \in P
  BY <1>1, <1>4, <1>5, NaturalsBySuccessor
<1> QED
  BY <1>1, <1>2, <1>3, <1>6 DEF P

LEMMA LevelCandidates ==
    ASSUME NEW v, Environment(v), NEW s, IsSeq(s)
    PROVE  FlattenSeq([i \in DOMAIN s |-> Candidates(v, s[i])]) \in Seq(v.db.symbols)
<1> DEFINE T == v.db.symbols
           q == [i \in DOMAIN s |-> Candidates(v, s[i])]
<1>1. DOMAIN s = 1..Len(s) /\ Len(s) \in Nat
  BY DEF IsSeq
<1>2. \A i \in 1..Len(s) : q[i] \in Seq(T)
  BY <1>1, CandidatesType
<1>3. q = [i \in 1..Len(s) |-> q[i]]
  BY <1>1
<1> HIDE DEF q, T
<1>4. q \in [1..Len(s) -> Seq(T)]
  BY <1>2, <1>3
<1>5. q \in Seq(Seq(T))
  BY <1>1, <1>4
<1>6. FlattenSeq(q) \in Seq(T)
  BY <1>5, Flattened
<1> QED
  BY <1>6 DEF q, T

LEMMA NewLevelState ==
    ASSUME NEW v, NEW b, NEW t, TraceState(v, b, t), NEW h
    PROVE  LET w == NewLevel(t, h)
           IN  TraceState(v, b, w) /\ w.records = t.records /\ w.stop = t.stop
<1> DEFINE w == NewLevel(t, h)
<1>1. /\ DOMAIN w = StateFields /\ w.records = t.records /\ w.stop = t.stop
      /\ w.level = <<>>
  BY DEF NewLevel, TraceState, StateFields
<1> HIDE DEF w
<1>2. IsSeq(w.level) /\ Len(w.level) \in Nat
  BY <1>1, ShortSequences
<1>3. TraceState(v, b, w)
  BY <1>1, <1>2 DEF TraceState
<1> QED
  BY <1>1, <1>3 DEF w

LEMMA LevelState ==
    ASSUME NEW v, Environment(v), NEW b, NEW t, TraceState(v, b, t), NEW h
    PROVE  LET u == OneLevel(v, b, t, h)
           IN  TraceState(v, b, u) /\ Begins(t.records, u.records)
<1> DEFINE w == NewLevel(t, h)
           cs == FlattenSeq([i \in DOMAIN t.level |-> Candidates(v, t.level[i])])
           u == OneLevel(v, b, t, h)
           o == Offer(v, b, w, cs)
<1> SUFFICES TraceState(v, b, u) /\ Begins(t.records, u.records)
  OBVIOUS
<1>1. u = IF t.stop # "no" \/ t.level = <<>> THEN t ELSE o
  BY DEF OneLevel
<1>2. TraceState(v, b, w) /\ w.records = t.records
  BY NewLevelState
<1>3. cs \in Seq(v.db.symbols)
  BY LevelCandidates DEF TraceState
<1> HIDE DEF w, cs, u
<1>4. TraceState(v, b, o) /\ Begins(w.records, o.records)
  BY <1>2, <1>3, OfferState
<1>5. Begins(t.records, t.records)
  BY BeginsItself DEF TraceState
<1> QED
  BY <1>1, <1>2, <1>4, <1>5

LEMMA LevelTogether ==
    ASSUME NEW v, Environment(v), NEW b, b.limit \in Nat, b.clock \in Nat,
           NEW t, TraceState(v, b, t),
           NEW u, TraceState(v, Ample(v), u), Along(t, u), NEW h
    PROVE  Along(OneLevel(v, b, t, h), OneLevel(v, Ample(v), u, h))
<1> DEFINE A == Ample(v)
           cs == FlattenSeq([i \in DOMAIN u.level |-> Candidates(v, u.level[i])])
           w == NewLevel(u, h)
           u2 == OneLevel(v, A, u, h)
           t2 == OneLevel(v, b, t, h)
           o == Offer(v, A, w, cs)
<1>1. u2 = IF u.stop # "no" \/ u.level = <<>> THEN u ELSE o
  BY DEF OneLevel
<1>2. cs \in Seq(v.db.symbols)
  BY LevelCandidates DEF TraceState
<1>3. TraceState(v, A, w) /\ w.stop = u.stop
  BY NewLevelState
<1>4. u.stop = "no"
  BY DEF Along
<1>5. Along(w, w)
  <2> HIDE DEF w
  <2> QED
    BY <1>3, <1>4 DEF Along
<1>6. A.limit \in Nat /\ A.clock \in Nat
  BY FS_CardinalityType DEF Ample, Environment, WellKept
<1>7. u2.stop = "no"
  <2> HIDE DEF A, w, cs, u2
  <2>1. Along(o, Offer(v, Ample(v), w, cs))
    BY <1>2, <1>3, <1>5, <1>6, OfferTogether DEF A
  <2>2. o.stop = "no"
    BY <2>1 DEF Along, A
  <2> QED
    BY <1>1, <1>4, <2>2
<1>8. CASE t.stop # "no"
  <2>1. t2 = t
    BY <1>8 DEF OneLevel
  <2>2. Begins(u.records, u2.records)
    BY LevelState
  <2> HIDE DEF t2, u2
  <2>3. Begins(t.records, u2.records)
    BY <1>8, <2>2, BeginsOn DEF Along
  <2>4. Along(t2, u2)
    BY <1>7, <1>8, <2>1, <2>3 DEF Along
  <2> QED
    BY <2>4 DEF t2, u2
<1>9. CASE t.stop = "no"
  <2>1. t = u
    BY <1>9 DEF Along
  <2>2. t2 = IF t.stop # "no" \/ t.level = <<>> THEN t ELSE Offer(v, b, w, cs)
    BY <2>1 DEF OneLevel
  <2>3. TraceState(v, b, w)
    BY <2>1, NewLevelState
  <2> HIDE DEF w, cs, t2, u2, A
  <2>4. Along(Offer(v, b, w, cs), Offer(v, Ample(v), w, cs))
    BY <1>2, <1>3, <1>5, <2>3, OfferTogether DEF A
  <2>5. Along(t2, u2)
    BY <1>1, <1>9, <2>1, <2>2, <2>4 DEF Along, A
  <2> QED
    BY <2>5 DEF t2, u2, A
<1> QED
  BY <1>8, <1>9

LEMMA BeginningState ==
    ASSUME NEW v, NEW b
    PROVE  TraceState(v, b, Beginning(v)) /\ Beginning(v).stop = "no"
<1> DEFINE z == Beginning(v)
<1>1. /\ DOMAIN z = StateFields /\ z.records = <<>> /\ z.stop = "no" /\ z.level = <<v.start>>
  BY DEF Beginning, StateFields
<1>2. IsSeq(<<>>) /\ Len(<<>>) = 0 /\ IsSeq(<<v.start>>) /\ Len(<<v.start>>) = 1
  BY ShortSequences
<1> HIDE DEF z
<1>3. TraceState(v, b, z)
  BY <1>1, <1>2 DEF TraceState
<1> QED
  BY <1>1, <1>3 DEF z

\* What a traversal under a budget finds is the beginning of the whole, all
\* of it unless it was stopped, and a stop for nodes found that many.
LEMMA TraversalTogether ==
    ASSUME NEW v, Environment(v), NEW b, b.limit \in Nat, b.clock \in Nat
    PROVE  LET t == Traversal(v, b)
               whole == Traversal(v, Ample(v)).records
           IN  /\ Begins(t.records, whole)
               /\ t.stop = "no" => t.records = whole
               /\ t.stop = "node_budget" => Len(t.records) >= b.limit
<1> DEFINE n == v.depth
           t == Traversal(v, b)
           w == Traversal(v, Ample(v))
<1>1. n \in Nat
  BY DEF Environment
<1>2. PICK f : /\ f[0] = Beginning(v)
               /\ \A i \in 1..n : f[i] = OneLevel(v, b, f[i - 1], i)
               /\ t = f[n]
  BY <1>1, TraversalStepwise
<1>3. PICK g : /\ g[0] = Beginning(v)
               /\ \A i \in 1..n : g[i] = OneLevel(v, Ample(v), g[i - 1], i)
               /\ w = g[n]
  BY <1>1, TraversalStepwise
<1> HIDE DEF n, t, w
<1> DEFINE P == {k \in Nat : k <= n => /\ TraceState(v, b, f[k])
                                       /\ TraceState(v, Ample(v), g[k])
                                       /\ Along(f[k], g[k])}
<1>4. 0 \in P
  <2>1. Along(Beginning(v), Beginning(v))
    BY BeginningState DEF Along
  <2> QED
    BY <1>2, <1>3, <2>1, BeginningState
<1>5. \A k \in Nat : k \in P => k + 1 \in P
  <2> SUFFICES ASSUME NEW k \in Nat, k \in P, k + 1 <= n
               PROVE  /\ TraceState(v, b, f[k + 1])
                      /\ TraceState(v, Ample(v), g[k + 1])
                      /\ Along(f[k + 1], g[k + 1])
    OBVIOUS
  <2>1. TraceState(v, b, f[k]) /\ TraceState(v, Ample(v), g[k]) /\ Along(f[k], g[k])
    BY <1>1
  <2>2. k + 1 \in 1..n /\ (k + 1) - 1 = k
    BY <1>1
  <2>3. /\ f[k + 1] = OneLevel(v, b, f[k], k + 1)
        /\ g[k + 1] = OneLevel(v, Ample(v), g[k], k + 1)
    BY <1>2, <1>3, <2>2
  <2>4. TraceState(v, b, f[k + 1]) /\ TraceState(v, Ample(v), g[k + 1])
    BY <2>1, <2>3, LevelState
  <2>5. Along(f[k + 1], g[k + 1])
    BY <2>1, <2>3, LevelTogether
  <2> QED
    BY <2>4, <2>5
<1> HIDE DEF P
<1>6. n \in P
  BY <1>1, <1>4, <1>5, NaturalsBySuccessor
<1>7. TraceState(v, b, t) /\ TraceState(v, Ample(v), w) /\ Along(t, w)
  BY <1>1, <1>2, <1>3, <1>6 DEF P
<1>8. Begins(t.records, w.records) /\ (t.stop = "no" => t.records = w.records)
  BY <1>7, BeginsItself DEF Along, TraceState
<1>9. t.stop = "node_budget" => Len(t.records) >= b.limit
  BY <1>7 DEF TraceState
<1> QED
  BY <1>8, <1>9 DEF t, w

LEMMA TraversalState ==
    ASSUME NEW v, Environment(v), NEW b, b.limit \in Nat, b.clock \in Nat
    PROVE  TraceState(v, b, Traversal(v, b))
<1> DEFINE n == v.depth
<1>1. n \in Nat
  BY DEF Environment
<1>2. PICK f : /\ f[0] = Beginning(v)
               /\ \A i \in 1..n : f[i] = OneLevel(v, b, f[i - 1], i)
               /\ Traversal(v, b) = f[n]
  BY <1>1, TraversalStepwise
<1> HIDE DEF n
<1> DEFINE P == {k \in Nat : k <= n => TraceState(v, b, f[k])}
<1>3. 0 \in P
  BY <1>2, BeginningState
<1>4. \A k \in Nat : k \in P => k + 1 \in P
  <2> SUFFICES ASSUME NEW k \in Nat, k \in P, k + 1 <= n
               PROVE  TraceState(v, b, f[k + 1])
    OBVIOUS
  <2>1. TraceState(v, b, f[k])
    BY <1>1
  <2>2. k + 1 \in 1..n /\ (k + 1) - 1 = k
    BY <1>1
  <2>3. f[k + 1] = OneLevel(v, b, f[k], k + 1)
    BY <1>2, <2>2
  <2> QED
    BY <2>1, <2>3, LevelState
<1> HIDE DEF P
<1>5. n \in P
  BY <1>1, <1>3, <1>4, NaturalsBySuccessor
<1>6. TraceState(v, b, f[n])
  BY <1>1, <1>5 DEF P
<1> QED
  BY <1>2, <1>6

LEMMA TraversalStops ==
    ASSUME NEW v, Environment(v), NEW b, b.limit \in Nat, b.clock \in Nat
    PROVE  Traversal(v, b).stop \in {"no", "node_budget", "time_budget"}
BY TraversalState DEF TraceState

-----------------------------------------------------------------------------
(* Cursors.  A cursor is counters and what they are valid for; a client    *)
(* that holds one has seen a beginning of the result that it is bound to.  *)

NamesIn(d) == {d.name[s] : s \in d.symbols}

\* The whole result that a binding is about.
Bound(d, tool, args) ==
    CASE tool = "find_code" -> FindResult(d, Presence(d), NamesIn(d), args, 4)
      [] tool = "file_api" -> FileResult(d, Presence(d), args)
      [] tool = "trace_calls" /\ Len(args) = 2 -> Hits(d, Presence(d), NameMatches(d, Presence(d), args[2]))
      [] OTHER -> WholeTrace(d, args[1], args[2], args[3])

IsPosition(p) == p.returned \in Nat /\ p.discovered \in Nat /\ p.tiers \in Nat

Follows(cursor, seen, id) ==
    LET w == Bound(Seen(Database[id], cursor.binding.withheld),
                   cursor.binding.tool, cursor.binding.args)
    IN  /\ Begins(seen, w)
        /\ cursor.pos.returned = Len(seen)
        /\ cursor.pos.discovered <= Len(w)

HeldInv ==
    /\ held.cursor = NoCursor => held = NothingHeld
    /\ held.cursor # NoCursor =>
         /\ IsPosition(held.cursor.pos)
         /\ held.cursor.binding.generation \in Nat
         /\ held.cursor.binding.generation <= generation
         /\ held.cursor.binding.generation = generation => Follows(held.cursor, held.seen, db)

CallInv ==
    call # NoCall =>
      /\ call.db \in DOMAIN Database /\ call.req \in Requests[call.db]
      /\ call.limit \in Nat /\ call.nodes \in Nat
      /\ call.req.tool = "trace_calls" => call.nodes > 0
      /\ call.generation \in Nat \ {0} /\ call.generation <= generation
      /\ call.generation = generation => call.db = db
      /\ call.cursor = NoCursor => call.seen = <<>>
      /\ call.cursor # NoCursor =>
           /\ IsPosition(call.cursor.pos)
           /\ call.cursor.binding.generation = call.generation =>
                 Follows(call.cursor, call.seen, call.db)

NamesInv ==
    /\ names.of \in Nat /\ names.of <= generation
    /\ names.of = generation => names.list = NamesIn(Database[db])
    /\ call # NoCall /\ names.of = call.generation => names.list = NamesIn(Database[call.db])

StoreInv ==
    /\ db \in DOMAIN Database
    /\ generation \in Nat \ {0}

QueryInv == StoreInv /\ HeldInv /\ CallInv /\ NamesInv

LEMMA SeenRows ==
    ASSUME NEW rows, WellKept(rows), NEW w
    PROVE  /\ WellKept(Seen(rows, w))
           /\ Seen(rows, w).withheld = w
           /\ NamesIn(Seen(rows, w)) = NamesIn(rows)
<1> DEFINE s == Seen(rows, w)
<1>1. DOMAIN rows = RowFields
  BY DEF WellKept
<1>2. DOMAIN s = RowFields
  BY <1>1 DEF Seen
<1>3. /\ s.withheld = w
      /\ s.symbols = rows.symbols /\ s.name = rows.name /\ s.rank = rows.rank
      /\ s.owners = rows.owners
      /\ s.locations = rows.locations /\ s.linkage = rows.linkage
      /\ s.relations = rows.relations /\ s.files = rows.files
  BY <1>1 DEF Seen, RowFields
<1> HIDE DEF s
<1>4. WellKept(s)
  BY <1>2, <1>3 DEF WellKept
<1>5. NamesIn(s) = NamesIn(rows)
  BY <1>3 DEF NamesIn
<1> QED
  BY <1>3, <1>4, <1>5 DEF s

LEMMA SnapshotRows ==
    ASSUME QueryInv, call # NoCall
    PROVE  /\ WellKept(Snapshot(call))
           /\ Seen(Database[call.db], Snapshot(call).withheld) = Snapshot(call)
           /\ NamesIn(Snapshot(call)) = NamesIn(Database[call.db])
<1>1. WellKept(Database[call.db])
  BY StoresAssumption DEF QueryInv, CallInv
<1> QED
  BY <1>1, SeenRows DEF Snapshot

LEMMA AcceptSays ==
    ASSUME NEW c, NEW tool, NEW args
    PROVE  Accept(c, tool, args) \in {"ok", "invalid_cursor", "cursor_expired"}
BY DEF Accept

\* A cursor that is accepted is one for this result.
LEMMA Accepted ==
    ASSUME QueryInv, call # NoCall, NEW tool, NEW args, Accept(call, tool, args) = "ok",
           IsSeq(Bound(Snapshot(call), tool, args))
    PROVE  /\ Begins(call.seen, Bound(Snapshot(call), tool, args))
           /\ Position(call).returned = Len(call.seen)
           /\ Position(call).discovered <= Len(Bound(Snapshot(call), tool, args))
           /\ IsPosition(Position(call))
<1> DEFINE w == Bound(Snapshot(call), tool, args)
<1>1. CASE call.cursor = NoCursor
  <2>1. call.seen = <<>> /\ Position(call) = Start
    BY <1>1 DEF QueryInv, CallInv, Position
  <2>2. Begins(<<>>, w) /\ Len(<<>>) = 0 /\ Len(w) \in Nat
    BY NothingBegins DEF IsSeq
  <2> HIDE DEF w
  <2>3. Start.returned = 0 /\ Start.discovered = 0 /\ Start.tiers = 0
    BY DEF Start
  <2>4. IsPosition(Start) /\ Start.discovered <= Len(w)
    BY <2>2, <2>3 DEF IsPosition
  <2> QED
    BY <2>1, <2>2, <2>3, <2>4 DEF w
<1>2. CASE call.cursor # NoCursor
  <2>1. call.cursor.binding = Binding(call, tool, args)
    BY <1>2 DEF Accept
  <2>2. /\ call.cursor.binding.generation = call.generation
        /\ call.cursor.binding.tool = tool /\ call.cursor.binding.args = args
        /\ call.cursor.binding.withheld = Snapshot(call).withheld
    BY <2>1 DEF Binding
  <2>3. Follows(call.cursor, call.seen, call.db) /\ IsPosition(call.cursor.pos)
    BY <1>2, <2>2 DEF QueryInv, CallInv
  <2>4. Seen(Database[call.db], call.cursor.binding.withheld) = Snapshot(call)
    BY <2>2, SnapshotRows
  <2>5. /\ Begins(call.seen, w)
        /\ call.cursor.pos.returned = Len(call.seen)
        /\ call.cursor.pos.discovered <= Len(w)
    BY <2>2, <2>3, <2>4 DEF Follows
  <2>6. Position(call) = call.cursor.pos
    BY <1>2 DEF Position
  <2> QED
    BY <2>3, <2>5, <2>6
<1> QED
  BY <1>1, <1>2

\* What a page tells: where the result is, and that the client gets on.
PageCodes == {"find_code", "trace_calls", "file_api", "ambiguous_selector"}
GetsOn(r) ==
    \/ r.page # <<>>
    \/ r.pos.discovered > r.before.discovered
    \/ r.pos.tiers > r.before.tiers
Paged(c, w, r) ==
    /\ r.req = c.req /\ r.snap = c
    /\ Begins(r.seen, w)
    /\ ~r.more => r.seen = w
    /\ \A i \in DOMAIN r.page : \E k \in 1..Len(w) : r.page[i] = w[k]
    /\ r.more /\ ~(r.code = "trace_calls" /\ r.why = "time_budget") => GetsOn(r)

NewlyHeld ==
    /\ held'.cursor # NoCursor
    /\ IsPosition(held'.cursor.pos)
    /\ held'.cursor.binding.generation = call.generation
    /\ Follows(held'.cursor, held'.seen, call.db)

LEMMA Finished ==
    ASSUME QueryInv, call # NoCall, NEW tool, NEW code, NEW args, NEW result, NEW why,
           NEW pos, NEW extra, NEW noted, NEW w, w = Bound(Snapshot(call), tool, args),
           Accept(call, tool, args) = "ok", call.limit # 0,
           Begins(result, w),
           why = "no" => result = w /\ pos.discovered = Len(w),
           DOMAIN pos = {"returned", "discovered", "tiers"},
           IsPosition(pos), pos.discovered <= Len(w),
           \/ why = "no"
           \/ code = "trace_calls" /\ why = "time_budget"
           \/ pos.discovered > Position(call).discovered
           \/ pos.tiers > Position(call).tiers,
           Finish(call, tool, code, args, result, why, pos, extra, noted)
    PROVE  /\ reply'.code = code
           /\ Paged(call, w, reply')
           /\ held' = held \/ NewlyHeld
<1> DEFINE from == Position(call).returned
           page == Page(call, result)
           seen == call.seen \o page
           returned == from + Len(page)
           more == why # "no" \/ Max({pos.discovered, returned}) > returned
           next == IF more THEN Cursor(call, tool, args, [pos EXCEPT !.returned = returned])
                   ELSE NoCursor
           now == [cursor |-> next, seen |-> seen]
<1>1. /\ reply'.code = code /\ reply'.req = call.req /\ reply'.snap = call
      /\ reply'.seen = seen /\ reply'.page = page /\ reply'.more = more
      /\ reply'.why = why /\ reply'.pos = pos /\ reply'.before = Position(call)
      /\ held' \in IF more THEN {held, now} ELSE {held}
  BY DEF Finish
<1>2. IsSeq(w) /\ Len(w) \in Nat
  BY DEF Begins
<1>3. /\ Begins(call.seen, w) /\ from = Len(call.seen)
      /\ Position(call).discovered <= Len(w) /\ IsPosition(Position(call))
  BY <1>2, Accepted
<1>4. call.limit \in Nat \ {0}
  BY DEF QueryInv, CallInv
<1> HIDE DEF from
<1>5. /\ IsSeq(page) /\ Len(page) \in Nat
      /\ Begins(seen, w)
      /\ Len(seen) = from + Len(page)
      /\ Len(page) = IF Len(result) <= from THEN 0
                     ELSE IF Len(result) <= from + call.limit THEN Len(result) - from
                     ELSE call.limit
      /\ \A i \in DOMAIN page : \E k \in 1..Len(w) : page[i] = w[k]
  <2>1. page = PageOf(result, Len(call.seen), call.limit)
    BY <1>3 DEF Page, PageOf, from
  <2> HIDE DEF page
  <2>2. IsPage(page, w, result, call.seen, call.limit)
    BY <1>3, <1>4, <2>1, PageJoins
  <2> QED
    BY <1>3, <2>2 DEF IsPage
<1> HIDE DEF page, seen
<1>6. from \in Nat /\ returned \in Nat /\ pos.discovered \in Nat /\ pos.tiers \in Nat
  BY <1>3, <1>5 DEF IsPosition, from
<1>7. Max({pos.discovered, returned}) > returned <=> pos.discovered > returned
  <2> HIDE DEF returned
  <2>1. Max({pos.discovered, returned}) = IF pos.discovered <= returned THEN returned
                                          ELSE pos.discovered
    BY <1>6, LargestOfTwo
  <2> QED
    BY <1>6, <2>1
<1>8. more <=> why # "no" \/ pos.discovered > returned
  BY <1>7
<1> HIDE DEF returned, more
<1>9. ~more => seen = w
  <2> SUFFICES ASSUME ~more PROVE seen = w
    OBVIOUS
  <2>1. Len(w) <= Len(seen)
    BY <1>2, <1>5, <1>6, <1>8 DEF returned
  <2>2. Len(seen) = Len(w)
    BY <1>2, <1>5, <2>1 DEF Begins
  <2> QED
    BY <1>5, <2>2, BeginsIsPrefix
<1>10. ASSUME more, ~(code = "trace_calls" /\ why = "time_budget")
       PROVE  \/ page # <<>>
              \/ pos.discovered > Position(call).discovered
              \/ pos.tiers > Position(call).tiers
  <2>1. CASE why = "no"
    <3>1. Len(w) > from + Len(page)
      BY <1>8, <1>10, <2>1 DEF returned
    <3>2. result = w
      BY <2>1
    <3>3. Len(page) # 0
      BY <1>2, <1>4, <1>5, <1>6, <3>1, <3>2
    <3> QED
      BY <3>3
  <2> QED
    BY <1>10, <2>1
<1>11. Paged(call, w, reply')
  BY <1>1, <1>5, <1>9, <1>10 DEF Paged, GetsOn
<1>12. CASE held' = now /\ more
  <2> DEFINE p == [pos EXCEPT !.returned = returned]
  <2>1. p.returned = returned /\ p.discovered = pos.discovered /\ p.tiers = pos.tiers
    OBVIOUS
  <2> HIDE DEF p
  <2>2. held'.cursor = [binding |-> Binding(call, tool, args), pos |-> p] /\ held'.seen = seen
    BY <1>12 DEF Cursor, p
  <2>3. held'.cursor # NoCursor
    <3>1. "binding" \in DOMAIN held'.cursor
      BY <2>2
    <3>2. "binding" \notin DOMAIN NoCursor
      BY DEF NoCursor
    <3> QED
      BY <3>1, <3>2
  <2>4. held'.cursor.pos = p /\ held'.cursor.binding = Binding(call, tool, args)
    BY <2>2
  <2>5. /\ held'.cursor.binding.generation = call.generation
        /\ held'.cursor.binding.tool = tool /\ held'.cursor.binding.args = args
        /\ held'.cursor.binding.withheld = Snapshot(call).withheld
    BY <2>4 DEF Binding
  <2>6. IsPosition(held'.cursor.pos)
    BY <1>6, <2>1, <2>4 DEF IsPosition
  <2>7. Seen(Database[call.db], held'.cursor.binding.withheld) = Snapshot(call)
    BY <2>5, SnapshotRows
  <2>8. Follows(held'.cursor, held'.seen, call.db)
    BY <1>5, <2>1, <2>2, <2>4, <2>5, <2>7 DEF Follows, returned
  <2> QED
    BY <2>3, <2>5, <2>6, <2>8, <1>1, <1>11 DEF NewlyHeld
<1> QED
  BY <1>1, <1>11, <1>12

\* What a tool leaves: a page of the whole result, or no records.
Told == reply'.code \in PageCodes => Paged(call, WholeResult(Snapshot(call), call.req), reply')
HeldNext == held' = held \/ NewlyHeld

LEMMA Refused ==
    ASSUME NEW code, code \notin PageCodes, Refuse(call, code)
    PROVE  Told /\ HeldNext
<1>1. reply'.code = code /\ held' = held
  BY DEF Refuse
<1> QED
  BY <1>1 DEF Told, HeldNext

LEMMA FindOutcome ==
    ASSUME QueryInv, call # NoCall, call.req.tool = "find_code",
           FindCode(call, Snapshot(call), Presence(Snapshot(call)))
    PROVE  /\ Told /\ HeldNext
           /\ \/ names' = names
              \/ names' = [of |-> call.generation, list |-> NamesIn(Snapshot(call))]
<1> DEFINE d == Snapshot(call)
           view == Presence(d)
           q == call.req.query
           known == IF names.of = call.generation THEN names
                    ELSE [of |-> call.generation, list |-> {d.name[s] : s \in d.symbols}]
           find(stop) == FindResult(d, view, known.list, q, stop)
           w == Bound(d, "find_code", q)
           verdict == Accept(call, "find_code", q)
           pos(stop) == [returned |-> 0, discovered |-> Len(find(stop)), tiers |-> stop]
           why(stop) == IF stop = 4 THEN "no" ELSE "time_budget"
           page(stop) == NotedHits(Page(call, find(stop)))
<1>1. WellKept(d) /\ NamesIn(d) = NamesIn(Database[call.db])
  BY SnapshotRows
<1>2. /\ known.list = NamesIn(d)
      /\ known = names \/ known = [of |-> call.generation, list |-> NamesIn(d)]
  BY <1>1 DEF QueryInv, NamesInv, NamesIn
<1>3. w = FindResult(d, view, NamesIn(d), q, 4)
  BY DEF Bound
<1>4. WholeResult(d, call.req) = w
  BY <1>3 DEF WholeResult, NamesIn
<1>5. PICK stop \in 1..4 :
         /\ stop = 4 \/ stop >= Position(call).tiers + 1
         /\ IF call.limit = 0 \/ verdict # "ok"
            THEN /\ stop = 4
                 /\ Refuse(call, IF call.limit = 0 THEN "invalid_limit" ELSE verdict)
                 /\ UNCHANGED names
            ELSE /\ names' = IF stop >= 3 THEN known ELSE names
                 /\ IF Position(call).returned > Len(find(stop)) THEN Refuse(call, "invalid_cursor")
                    ELSE Finish(call, "find_code", "find_code", q, find(stop), why(stop),
                                pos(stop), {}, page(stop))
  BY DEF FindCode
<1>6. verdict \in {"ok", "invalid_cursor", "cursor_expired"}
  BY AcceptSays
<1>7. Begins(find(stop), w) /\ (stop = 4 => find(stop) = w)
  BY <1>1, <1>2, <1>3, FindBegins
<1> HIDE DEF known, find, w, verdict, page
<1>8. names' = names \/ names' = [of |-> call.generation, list |-> NamesIn(d)]
  BY <1>2, <1>5
<1>9. CASE call.limit = 0 \/ verdict # "ok"
  <2> DEFINE code == IF call.limit = 0 THEN "invalid_limit" ELSE verdict
  <2>1. Refuse(call, code)
    BY <1>5, <1>9
  <2>2. code \notin PageCodes
    BY <1>6, <1>9 DEF PageCodes
  <2> HIDE DEF code
  <2> QED
    BY <1>8, <2>1, <2>2, Refused
<1>10. CASE call.limit # 0 /\ verdict = "ok"
  <2>1. CASE Position(call).returned > Len(find(stop))
    <3>1. Refuse(call, "invalid_cursor")
      BY <1>5, <1>10, <2>1
    <3>2. "invalid_cursor" \notin PageCodes
      BY DEF PageCodes
    <3> QED
      BY <1>8, <3>1, <3>2, Refused
  <2>2. CASE ~(Position(call).returned > Len(find(stop)))
    <3>1. Finish(call, "find_code", "find_code", q, find(stop), why(stop), pos(stop), {}, page(stop))
      BY <1>5, <1>10, <2>2
    <3>2. IsSeq(w) /\ Len(w) \in Nat /\ Len(find(stop)) \in Nat /\ Len(find(stop)) <= Len(w)
      BY <1>7 DEF Begins
    <3>3. IsPosition(Position(call))
      BY <1>10, <3>2, Accepted DEF w, verdict
    <3>4. /\ DOMAIN pos(stop) = {"returned", "discovered", "tiers"}
          /\ pos(stop).returned = 0 /\ pos(stop).discovered = Len(find(stop))
          /\ pos(stop).tiers = stop
      OBVIOUS
    <3>5. IsPosition(pos(stop))
      BY <3>2, <3>4 DEF IsPosition
    <3>6. why(stop) = "no" => find(stop) = w /\ pos(stop).discovered = Len(w)
      BY <1>7, <3>4
    <3>7. why(stop) = "no" \/ pos(stop).tiers > Position(call).tiers
      BY <1>5, <3>3, <3>4 DEF IsPosition
    <3> HIDE DEF pos, why
    <3>8. w = Bound(Snapshot(call), "find_code", q) /\ Accept(call, "find_code", q) = "ok"
      BY <1>10 DEF w, verdict
    <3>9. pos(stop).discovered <= Len(w)
      BY <3>2, <3>4
    <3>10. Paged(call, w, reply') /\ HeldNext
      BY <1>7, <1>10, <3>1, <3>4, <3>5, <3>6, <3>7, <3>8, <3>9, Finished DEF HeldNext
    <3> QED
      BY <1>4, <1>8, <3>10 DEF Told
  <2> QED
    BY <2>1, <2>2
<1> QED
  BY <1>9, <1>10

LEMMA FileOutcome ==
    ASSUME QueryInv, call # NoCall, call.req.tool = "file_api",
           FileApi(call, Snapshot(call), Presence(Snapshot(call)))
    PROVE  Told /\ HeldNext /\ names' = names
<1> DEFINE d == Snapshot(call)
           view == Presence(d)
           f == call.req.file
           result == FileResult(d, view, f)
           verdict == Accept(call, "file_api", f)
           pos == [returned |-> 0, discovered |-> Len(result), tiers |-> 0]
           rows == Page(call, result)
           noted == (UNION {UnitsOf(rows[i].here) \cup UnitsOf(rows[i].symbol.primary) :
                            i \in DOMAIN rows}) \cup UnitsOf(FileIncludes(d, f))
           extra == FileIncludes(d, f)
<1>1. WellKept(d)
  BY SnapshotRows
<1>2. IsSeq(result) /\ Begins(result, result) /\ Len(result) \in Nat
  BY <1>1, FileResultSequence, BeginsItself DEF Begins
<1>3. result = Bound(d, "file_api", f)
  BY DEF Bound
<1>4. WholeResult(d, call.req) = result
  BY DEF WholeResult
<1>5. /\ names' = names
      /\ IF call.limit = 0 THEN Refuse(call, "invalid_limit")
         ELSE IF f \notin d.files \/ Hidden(d, f) THEN Refuse(call, "file_not_indexed")
         ELSE IF verdict # "ok" THEN Refuse(call, verdict)
         ELSE IF Position(call).returned > Len(result) THEN Refuse(call, "invalid_cursor")
         ELSE Finish(call, "file_api", "file_api", f, result, "no", pos, extra, noted)
  BY DEF FileApi
<1>6. verdict \in {"ok", "invalid_cursor", "cursor_expired"}
  BY AcceptSays
<1> HIDE DEF result, verdict, noted, extra, rows
<1>7. CASE \E code : code \notin PageCodes /\ Refuse(call, code)
  BY <1>5, <1>7, Refused
<1>8. CASE /\ call.limit # 0 /\ verdict = "ok"
           /\ Finish(call, "file_api", "file_api", f, result, "no", pos, extra, noted)
  <2>1. /\ DOMAIN pos = {"returned", "discovered", "tiers"}
        /\ pos.returned = 0 /\ pos.discovered = Len(result) /\ pos.tiers = 0
    OBVIOUS
  <2> HIDE DEF pos
  <2>2. IsPosition(pos) /\ pos.discovered <= Len(result)
    BY <1>2, <2>1 DEF IsPosition
  <2>3. result = Bound(Snapshot(call), "file_api", f) /\ Accept(call, "file_api", f) = "ok"
    BY <1>3, <1>8 DEF verdict
  <2>4. Paged(call, result, reply') /\ HeldNext
    BY <1>2, <1>8, <2>1, <2>2, <2>3, Finished DEF HeldNext
  <2> QED
    BY <1>4, <1>5, <2>4 DEF Told
<1>9. {"invalid_limit", "file_not_indexed", "invalid_cursor", "cursor_expired"} \cap PageCodes = {}
  BY DEF PageCodes
<1> QED
  BY <1>5, <1>6, <1>7, <1>8, <1>9

LEMMA AmbiguousOutcome ==
    ASSUME QueryInv, call # NoCall, call.limit # 0,
           NEW found, found = NameMatches(Snapshot(call), Presence(Snapshot(call)), call.req.selector),
           WholeResult(Snapshot(call), call.req) = Hits(Snapshot(call), Presence(Snapshot(call)), found),
           Ambiguous(call, Snapshot(call), Presence(Snapshot(call)), found)
    PROVE  Told /\ HeldNext
<1> DEFINE d == Snapshot(call)
           view == Presence(d)
           args == <<"ambiguous", call.req.selector>>
           result == Hits(d, view, found)
           verdict == Accept(call, "trace_calls", args)
           pos == [returned |-> 0, discovered |-> Len(found), tiers |-> 0]
           noted == NotedHits(Page(call, result))
<1>1. WellKept(d)
  BY SnapshotRows
<1>2. IsSeq(result) /\ Len(result) = Len(found) /\ Len(result) \in Nat
  BY <1>1, NameMatchesSequence, HitsOfSequence
<1>3. result = Bound(d, "trace_calls", args)
  <2>1. Len(args) = 2 /\ args[2] = call.req.selector
    OBVIOUS
  <2> HIDE DEF args
  <2> QED
    BY <2>1 DEF Bound
<1>4. IF verdict # "ok" THEN Refuse(call, verdict)
      ELSE IF Position(call).returned > Len(found) THEN Refuse(call, "invalid_cursor")
      ELSE Finish(call, "trace_calls", "ambiguous_selector", args, result, "no", pos, {}, noted)
  BY DEF Ambiguous, Hits
<1>5. verdict \in {"ok", "invalid_cursor", "cursor_expired"}
  BY AcceptSays
<1> HIDE DEF result, verdict, noted, args
<1>6. CASE \E code : code \notin PageCodes /\ Refuse(call, code)
  BY <1>6, Refused
<1>7. CASE /\ verdict = "ok"
           /\ Finish(call, "trace_calls", "ambiguous_selector", args, result, "no", pos, {}, noted)
  <2>1. /\ DOMAIN pos = {"returned", "discovered", "tiers"}
        /\ pos.returned = 0 /\ pos.discovered = Len(result) /\ pos.tiers = 0
    BY <1>2
  <2> HIDE DEF pos
  <2>2. IsPosition(pos) /\ pos.discovered <= Len(result)
    BY <1>2, <2>1 DEF IsPosition
  <2>3. /\ result = Bound(Snapshot(call), "trace_calls", args)
        /\ Accept(call, "trace_calls", args) = "ok"
    BY <1>3, <1>7 DEF verdict
  <2>4. Begins(result, result)
    BY <1>2, BeginsItself
  <2>5. Paged(call, result, reply') /\ HeldNext
    BY <1>7, <2>1, <2>2, <2>3, <2>4, Finished DEF HeldNext
  <2> QED
    BY <2>5 DEF Told, result
<1>8. {"invalid_cursor", "cursor_expired"} \cap PageCodes = {}
  BY DEF PageCodes
<1> QED
  BY <1>4, <1>5, <1>6, <1>7, <1>8

LEMMA TraceOutcome ==
    ASSUME QueryInv, call # NoCall, call.limit # 0, call.req.tool = "trace_calls", NEW start,
           WholeResult(Snapshot(call), call.req)
             = WholeTrace(Snapshot(call), start, call.req.incoming, call.req.depth),
           Trace(call, Snapshot(call), Presence(Snapshot(call)), start)
    PROVE  Told /\ HeldNext
<1> DEFINE d == Snapshot(call)
           view == Presence(d)
           args == TraceArgs(call, start)
           v == [db |-> d, view |-> view, start |-> start,
                 incoming |-> call.req.incoming, depth |-> call.req.depth]
           w == WholeTrace(d, start, call.req.incoming, call.req.depth)
           verdict == Accept(call, "trace_calls", args)
           prior == Position(call).discovered
           run(clock) == Traversal(v, [limit |-> NodeLimit(call), clock |-> clock])
           pos(clock) == [returned |-> 0, tiers |-> 0, discovered |-> Max({prior, Len(run(clock).records)})]
           finish(clock) ==
              \E extra, noted : Finish(call, "trace_calls", "trace_calls", args, run(clock).records,
                                       run(clock).stop, pos(clock), extra, noted)
<1>1. WellKept(d)
  BY SnapshotRows
<1>2. Environment(v) /\ v.db = d
  <2>1. call.req.depth \in Nat
    BY StoresAssumption DEF QueryInv, CallInv
  <2> QED
    BY <1>1, <2>1 DEF Environment
<1>3. w = Traversal(v, Ample(v)).records
  BY <1>2 DEF WholeTrace, Ample
<1>4. w = Bound(d, "trace_calls", args)
  <2>1. args = <<start, call.req.incoming, call.req.depth>>
    BY DEF TraceArgs
  <2> HIDE DEF args
  <2>2. /\ Len(args) = 3 /\ args[1] = start /\ args[2] = call.req.incoming
        /\ args[3] = call.req.depth
    BY <2>1
  <2> QED
    BY <2>2 DEF Bound
<1>5. IF verdict # "ok" THEN Refuse(call, verdict)
      ELSE \E clock \in 0..NodeLimit(call) : finish(clock)
  <2>1. CASE verdict # "ok"
    BY <2>1 DEF Trace
  <2>2. CASE verdict = "ok"
    <3>1. \E clock \in 0..NodeLimit(call) : TraceReply(call, v, args, run(clock))
      BY <2>2 DEF Trace
    <3>2. ASSUME NEW clock, TraceReply(call, v, args, run(clock))
          PROVE  finish(clock)
      <4> DEFINE t == run(clock)
      <4> HIDE DEF t
      <4> QED
        BY <3>2 DEF TraceReply, t
    <3> QED
      BY <2>2, <3>1, <3>2
  <2> QED
    BY <2>1, <2>2
<1>6. verdict \in {"ok", "invalid_cursor", "cursor_expired"}
  BY AcceptSays
<1>7. CASE verdict # "ok"
  <2>1. Refuse(call, verdict)
    BY <1>5, <1>7
  <2>2. verdict \notin PageCodes
    BY <1>6, <1>7 DEF PageCodes
  <2> HIDE DEF verdict
  <2> QED
    BY <2>1, <2>2, Refused
<1>8. CASE verdict = "ok"
  <2>1. PICK clock \in 0..NodeLimit(call) : finish(clock)
    BY <1>5, <1>8
  <2> DEFINE t == run(clock)
             b == [limit |-> NodeLimit(call), clock |-> clock]
             p == pos(clock)
  <2>2. PICK extra, noted : Finish(call, "trace_calls", "trace_calls", args, t.records, t.stop, p, extra, noted)
    BY <2>1
  <2>3. IsSeq(w)
    <3>1. Cardinality(d.symbols) \in Nat
      BY <1>1, FS_CardinalityType DEF WellKept
    <3> DEFINE a == Ample(v)
    <3>2. a.limit \in Nat /\ a.clock \in Nat
      BY <1>2, <3>1 DEF Ample
    <3> HIDE DEF v, a
    <3>3. Begins(Traversal(v, a).records, Traversal(v, Ample(v)).records)
      BY <1>2, <3>2, TraversalTogether
    <3> QED
      BY <1>3, <3>3 DEF Begins
  <2>4. /\ prior \in Nat /\ prior <= Len(w) /\ IsPosition(Position(call))
    BY <1>4, <1>8, <2>3, Accepted DEF IsPosition
  <2>5. call.nodes \in Nat /\ call.nodes > 0
    BY DEF QueryInv, CallInv
  <2>6. NodeLimit(call) = prior + call.nodes
    BY DEF NodeLimit
  <2>7. b.limit = prior + call.nodes /\ b.limit \in Nat /\ b.clock \in Nat
    BY <2>4, <2>5, <2>6
  <2>8. t = Traversal(v, b)
    OBVIOUS
  <2> HIDE DEF v, w, b, t, prior, verdict, run
  <2>9. /\ Begins(t.records, w)
        /\ t.stop = "no" => t.records = w
        /\ t.stop = "node_budget" => Len(t.records) >= prior + call.nodes
    BY <1>2, <1>3, <2>7, <2>8, TraversalTogether
  <2>10. Len(t.records) \in Nat /\ Len(w) \in Nat /\ Len(t.records) <= Len(w)
    BY <2>9 DEF Begins
  <2>11. t.stop \in {"no", "node_budget", "time_budget"}
    BY <1>2, <2>7, <2>8, TraversalStops
  <2>12. /\ DOMAIN p = {"returned", "discovered", "tiers"}
         /\ p.returned = 0 /\ p.tiers = 0
         /\ p.discovered = IF prior <= Len(t.records) THEN Len(t.records) ELSE prior
    BY <2>4, <2>10, LargestOfTwo DEF t
  <2> HIDE DEF p
  <2>13. IsPosition(p) /\ p.discovered <= Len(w)
    BY <2>4, <2>10, <2>12 DEF IsPosition
  <2>14. t.stop = "no" => t.records = w /\ p.discovered = Len(w)
    BY <2>4, <2>9, <2>10, <2>12
  <2>15. t.stop = "no" \/ t.stop = "time_budget" \/ p.discovered > prior
    BY <2>4, <2>5, <2>9, <2>10, <2>11, <2>12
  <2>16. w = Bound(Snapshot(call), "trace_calls", args) /\ Accept(call, "trace_calls", args) = "ok"
    BY <1>4, <1>8 DEF verdict
  <2> HIDE DEF args
  <2>17. Paged(call, w, reply') /\ HeldNext
    BY <2>2, <2>9, <2>12, <2>13, <2>14, <2>15, <2>16, Finished DEF HeldNext, prior
  <2> QED
    BY <2>17 DEF Told, w
<1> QED
  BY <1>7, <1>8

LEMMA TracesOutcome ==
    ASSUME QueryInv, call # NoCall, call.req.tool = "trace_calls",
           TraceCalls(call, Snapshot(call), Presence(Snapshot(call)))
    PROVE  Told /\ HeldNext /\ names' = names
<1> DEFINE d == Snapshot(call)
           view == Presence(d)
           sel == call.req.selector
           found == IF "id" \in DOMAIN sel
                    THEN (IF sel.id \in d.symbols /\ IsPublic(view, sel.id) THEN <<sel.id>> ELSE <<>>)
                    ELSE NameMatches(d, view, sel)
           whole == IF "id" \in DOMAIN sel THEN <<sel.id>> ELSE NameMatches(d, view, sel)
<1>1. /\ names' = names
      /\ IF call.limit = 0 THEN Refuse(call, "invalid_limit")
         ELSE IF found = <<>> THEN Refuse(call, "unknown_selector")
         ELSE IF Len(found) = 1 THEN Trace(call, d, view, found[1])
         ELSE Ambiguous(call, d, view, found)
  BY DEF TraceCalls
<1>2. WholeResult(d, call.req) =
        IF Len(whole) > 1 THEN Hits(d, view, whole)
        ELSE WholeTrace(d, whole[1], call.req.incoming, call.req.depth)
  BY DEF WholeResult, Hits
<1>3. "invalid_limit" \notin PageCodes /\ "unknown_selector" \notin PageCodes
  BY DEF PageCodes
<1>4. CASE call.limit = 0 \/ found = <<>>
  BY <1>1, <1>3, <1>4, Refused
<1>5. CASE call.limit # 0 /\ found # <<>>
  <2>1. whole = found
    BY <1>5
  <2>2. Len(found) \in Nat /\ Len(found) # 0
    <3>1. CASE "id" \in DOMAIN sel
      <4>1. found = <<sel.id>>
        BY <1>5, <3>1
      <4> HIDE DEF found
      <4> QED
        BY <4>1, ShortSequences
    <3>2. CASE "id" \notin DOMAIN sel
      <4>1. found = NameMatches(d, view, sel)
        BY <3>2
      <4>2. IsSeq(NameMatches(d, view, sel))
        BY SnapshotRows, NameMatchesSequence
      <4> HIDE DEF found
      <4>3. IsSeq(found)
        BY <4>1, <4>2
      <4>4. Len(found) = 0 => found = <<>>
        BY <4>3, ShortSequences, SameSequence
      <4> QED
        BY <1>5, <4>3, <4>4 DEF IsSeq
    <3> QED
      BY <3>1, <3>2
  <2>3. CASE Len(found) = 1
    <3>1. Trace(call, d, view, found[1])
      BY <1>1, <1>5, <2>3
    <3>2. WholeResult(d, call.req) = WholeTrace(d, found[1], call.req.incoming, call.req.depth)
      <4> HIDE DEF found, whole
      <4>1. ~(Len(found) > 1)
        BY <2>3
      <4> QED
        BY <1>2, <2>1, <4>1
    <3> DEFINE start == found[1]
    <3> HIDE DEF found, start
    <3>3. Told /\ HeldNext
      BY <1>5, <3>1, <3>2, TraceOutcome DEF start
    <3> QED
      BY <1>1, <3>3
  <2>4. CASE Len(found) # 1
    <3>1. Ambiguous(call, d, view, found)
      BY <1>1, <1>5, <2>4
    <3>2. WholeResult(d, call.req) = Hits(d, view, found)
      <4> HIDE DEF found, whole
      <4>1. Len(found) > 1
        <5>1. \A k \in Nat : k # 0 /\ k # 1 => k > 1
          OBVIOUS
        <5> QED
          BY <2>2, <2>4, <5>1
      <4> QED
        BY <1>2, <2>1, <4>1
    <3>3. "id" \notin DOMAIN sel
      <4>1. \A x : Len(<<x>>) = 1
        BY ShortSequences
      <4> QED
        BY <1>5, <2>4, <4>1
    <3>4. found = NameMatches(d, view, sel)
      BY <3>3
    <3> HIDE DEF found
    <3>5. Told /\ HeldNext
      BY <1>5, <3>1, <3>2, <3>4, AmbiguousOutcome
    <3> QED
      BY <1>1, <3>5
  <2> QED
    BY <2>3, <2>4
<1> QED
  BY <1>1, <1>4, <1>5

LEMMA AnswerOutcome ==
    ASSUME QueryInv, Answer
    PROVE  /\ call # NoCall /\ call' = NoCall
           /\ db' = db /\ disk' = disk /\ generation' = generation /\ excluded' = excluded
           /\ calls' = calls /\ events' = events
           /\ Told /\ HeldNext
           /\ \/ names' = names
              \/ names' = [of |-> call.generation, list |-> NamesIn(Snapshot(call))]
<1> DEFINE d == Snapshot(call)
           view == Presence(d)
<1>1. /\ call # NoCall /\ call' = NoCall
      /\ db' = db /\ disk' = disk /\ generation' = generation /\ excluded' = excluded
      /\ calls' = calls /\ events' = events
  BY DEF Answer
<1>2. /\ call.req.tool = "find_code" => FindCode(call, d, view)
      /\ call.req.tool = "trace_calls" => TraceCalls(call, d, view)
      /\ call.req.tool = "file_api" => FileApi(call, d, view)
  BY DEF Answer
<1>3. call.req.tool \in {"find_code", "trace_calls", "file_api"}
  BY <1>1, StoresAssumption DEF QueryInv, CallInv
<1>4. CASE call.req.tool = "find_code"
  BY <1>1, <1>2, <1>4, FindOutcome
<1>5. CASE call.req.tool = "trace_calls"
  BY <1>1, <1>2, <1>5, TracesOutcome
<1>6. CASE call.req.tool = "file_api"
  BY <1>1, <1>2, <1>6, FileOutcome
<1> QED
  BY <1>3, <1>4, <1>5, <1>6

LEMMA BeginStep ==
    ASSUME QueryInv, NEW req \in Requests[db], NEW limit \in Limits[db], NEW continuing \in BOOLEAN,
           NEW nodes \in IF req.tool = "trace_calls" THEN NodeBudgets ELSE {0},
           Begin(req, limit, nodes, continuing)
    PROVE  QueryInv'
<1>1. /\ db' = db /\ generation' = generation /\ names' = names /\ held' = held
      /\ call'.req = req /\ call'.limit = limit /\ call'.nodes = nodes
      /\ call'.cursor = (IF continuing THEN held.cursor ELSE NoCursor)
      /\ call'.seen = (IF continuing THEN held.seen ELSE <<>>)
      /\ call'.db = db /\ call'.generation = generation
      /\ continuing => held # NothingHeld
  BY DEF Begin
<1>2. /\ db \in DOMAIN Database /\ limit \in Nat
      /\ nodes \in Nat /\ (req.tool = "trace_calls" => nodes > 0)
  <2>1. NodeBudgets \subseteq Nat \ {0} /\ Limits[db] \subseteq Nat /\ db \in DOMAIN Database
    BY StoresAssumption DEF QueryInv, StoreInv
  <2>2. nodes \in NodeBudgets \/ (req.tool # "trace_calls" /\ nodes = 0)
    OBVIOUS
  <2> QED
    BY <2>1, <2>2
<1>3. StoreInv' /\ HeldInv'
  BY <1>1 DEF QueryInv, StoreInv, HeldInv
<1>4. generation \in Nat \ {0} /\ generation <= generation
  BY DEF QueryInv, StoreInv
<1>5. CallInv'
  <2>1. CASE ~continuing
    BY <1>1, <1>2, <1>4, <2>1 DEF CallInv
  <2>2. CASE continuing
    <3>1. held.cursor # NoCursor /\ HeldInv
      BY <1>1, <2>2 DEF QueryInv, HeldInv
    <3>2. call'.cursor = held.cursor /\ call'.seen = held.seen
      BY <1>1, <2>2
    <3>3. /\ IsPosition(held.cursor.pos)
          /\ held.cursor.binding.generation = generation => Follows(held.cursor, held.seen, db)
      BY <3>1 DEF HeldInv
    <3> QED
      BY <1>1, <1>2, <1>4, <3>1, <3>2, <3>3 DEF CallInv
  <2> QED
    BY <2>1, <2>2
<1>6. NamesInv'
  BY <1>1 DEF QueryInv, NamesInv
<1> QED
  BY <1>3, <1>5, <1>6 DEF QueryInv

LEMMA AnswerStep ==
    ASSUME QueryInv, Answer
    PROVE  QueryInv'
<1>1. /\ call # NoCall /\ call' = NoCall /\ db' = db /\ generation' = generation
      /\ HeldNext
      /\ \/ names' = names
         \/ names' = [of |-> call.generation, list |-> NamesIn(Snapshot(call))]
  BY AnswerOutcome
<1>2. /\ call.generation \in Nat \ {0} /\ call.generation <= generation
      /\ call.generation = generation => call.db = db
  BY <1>1 DEF QueryInv, CallInv
<1>3. StoreInv' /\ CallInv'
  BY <1>1 DEF QueryInv, StoreInv, CallInv
<1>4. HeldInv'
  <2>1. CASE held' = held
    BY <1>1, <2>1 DEF QueryInv, HeldInv
  <2>2. CASE NewlyHeld
    BY <1>1, <1>2, <2>2 DEF HeldInv, NewlyHeld
  <2> QED
    BY <1>1, <2>1, <2>2 DEF HeldNext
<1>5. NamesInv'
  <2>1. CASE names' = names
    BY <1>1, <2>1 DEF QueryInv, NamesInv
  <2>2. CASE names' = [of |-> call.generation, list |-> NamesIn(Snapshot(call))]
    <3>1. NamesIn(Snapshot(call)) = NamesIn(Database[call.db])
      BY <1>1, SnapshotRows
    <3>2. names'.of = call.generation /\ names'.list = NamesIn(Database[call.db])
      BY <2>2, <3>1
    <3> QED
      BY <1>1, <1>2, <3>2 DEF NamesInv
  <2> QED
    BY <1>1, <2>1, <2>2
<1> QED
  BY <1>3, <1>4, <1>5 DEF QueryInv

LEMMA PublishStep ==
    ASSUME QueryInv, NEW to \in Publications(db), Publish(to)
    PROVE  QueryInv'
<1>1. /\ db' = to /\ generation' = generation + 1
      /\ names' = names /\ call' = call /\ held' = held
  BY DEF Publish
<1>2. to \in DOMAIN Database
  BY StoresAssumption DEF QueryInv, StoreInv
<1>3. generation \in Nat \ {0}
  BY DEF QueryInv, StoreInv
<1>4. StoreInv'
  BY <1>1, <1>2, <1>3 DEF StoreInv
<1>5. HeldInv'
  BY <1>1, <1>3 DEF QueryInv, HeldInv
<1>6. CallInv'
  BY <1>1, <1>3 DEF QueryInv, CallInv
<1>7. NamesInv'
  BY <1>1, <1>3 DEF QueryInv, NamesInv
<1> QED
  BY <1>4, <1>5, <1>6, <1>7 DEF QueryInv

\* What the last page says of the result and of the client's progress.
PageInv ==
    reply.code \in PageCodes =>
        Paged(reply.snap, WholeResult(Snapshot(reply.snap), reply.req), reply)

LEMMA NoPage ==
    ASSUME reply' = NoReply
    PROVE  PageInv'
<1>1. reply'.code \notin PageCodes
  BY DEF NoReply, PageCodes
<1> QED
  BY <1>1 DEF PageInv

LEMMA QueryStep ==
    ASSUME QueryInv, PageInv, [QueryNext]_queryVars
    PROVE  QueryInv' /\ PageInv'
<1>1. CASE UNCHANGED queryVars
  BY <1>1 DEF queryVars, QueryInv, StoreInv, HeldInv, CallInv, NamesInv, PageInv, Snapshot
<1>2. ASSUME NEW req \in Requests[db], NEW limit \in Limits[db], NEW continuing \in BOOLEAN,
             NEW nodes \in IF req.tool = "trace_calls" THEN NodeBudgets ELSE {0},
             Begin(req, limit, nodes, continuing)
      PROVE  QueryInv' /\ PageInv'
  <2>1. reply' = NoReply
    BY <1>2 DEF Begin
  <2> QED
    BY <1>2, <2>1, BeginStep, NoPage
<1>3. CASE Answer
  <2>1. call # NoCall /\ Told /\ disk' = disk
    BY <1>3, AnswerOutcome
  <2>2. ASSUME reply'.code \notin PageCodes
        PROVE  PageInv'
    BY <2>2 DEF PageInv
  <2>3. ASSUME reply'.code \in PageCodes
        PROVE  PageInv'
    <3>1. Paged(call, WholeResult(Snapshot(call), call.req), reply')
      BY <2>1, <2>3 DEF Told
    <3>2. reply'.snap = call /\ reply'.req = call.req
      BY <3>1 DEF Paged
    <3>3. Snapshot(reply.snap)' = Snapshot(call)
      BY <2>1, <3>2 DEF Snapshot
    <3> QED
      BY <3>1, <3>2, <3>3 DEF PageInv
  <2>4. PageInv'
    BY <2>2, <2>3
  <2> QED
    BY <1>3, <2>4, AnswerStep
<1>4. ASSUME NEW to \in Publications(db), Publish(to)
      PROVE  QueryInv' /\ PageInv'
  <2>1. reply' = NoReply
    BY <1>4 DEF Publish
  <2> QED
    BY <1>4, <2>1, PublishStep, NoPage
<1>5. ASSUME NEW files \in Exclusions, SetExcluded(files)
      PROVE  QueryInv' /\ PageInv'
  <2>1. /\ reply' = NoReply /\ db' = db /\ generation' = generation /\ names' = names
        /\ call' = call /\ held' = held
    BY <1>5 DEF SetExcluded
  <2>2. QueryInv'
    BY <2>1 DEF QueryInv, StoreInv, HeldInv, CallInv, NamesInv
  <2> QED
    BY <2>1, <2>2, NoPage
<1>6. ASSUME NEW f \in Database[db].files, TouchFile(f)
      PROVE  QueryInv' /\ PageInv'
  <2>1. /\ reply' = NoReply /\ db' = db /\ generation' = generation /\ names' = names
        /\ call' = call /\ held' = held
    BY <1>6 DEF TouchFile
  <2>2. QueryInv'
    BY <2>1 DEF QueryInv, StoreInv, HeldInv, CallInv, NamesInv
  <2> QED
    BY <2>1, <2>2, NoPage
<1> QED
  BY <1>1, <1>2, <1>3, <1>4, <1>5, <1>6 DEF QueryNext

\* A cursor held, a call in progress and the list of names stay good for the
\* generation they are of, and every page says what it should.
THEOREM PagesInvariant == QuerySpec => [](QueryInv /\ PageInv)
<1>1. QueryInit => QueryInv /\ PageInv
  <2> SUFFICES ASSUME QueryInit PROVE QueryInv /\ PageInv
    OBVIOUS
  <2>1. /\ db \in DOMAIN Database /\ generation = 1 /\ names = [of |-> 0, list |-> {}]
        /\ call = NoCall /\ reply = NoReply /\ held = NothingHeld
    BY StoresAssumption DEF QueryInit
  <2>2. held.cursor = NoCursor
    BY <2>1 DEF NothingHeld
  <2>3. reply.code \notin PageCodes
    BY <2>1 DEF NoReply, PageCodes
  <2>4. names.of = 0
    BY <2>1
  <2> QED
    BY <2>1, <2>2, <2>3, <2>4 DEF QueryInv, StoreInv, HeldInv, CallInv, NamesInv, PageInv
<1>2. QueryInv /\ PageInv /\ [QueryNext]_queryVars => (QueryInv /\ PageInv)'
  BY QueryStep
<1> QED
  BY <1>1, <1>2, PTL DEF QuerySpec

\* Continuation is gap- and duplicate-free: what a client has seen after a
\* page is the beginning of its request's result on that page's snapshot, and
\* all of it when no cursor comes with the page.
THEOREM ContinuationIsFaithful == QuerySpec => []PagesAreTheResult
<1>1. PageInv => PagesAreTheResult
  <2> SUFFICES ASSUME PageInv, PageGiven
               PROVE  LET whole == WholeResult(Snapshot(reply.snap), reply.req)
                      IN  /\ IsPrefix(reply.seen, whole)
                          /\ ~reply.more => reply.seen = whole
    BY DEF PagesAreTheResult
  <2> DEFINE whole == WholeResult(Snapshot(reply.snap), reply.req)
  <2>1. Begins(reply.seen, whole) /\ (~reply.more => reply.seen = whole)
    BY DEF PageInv, PageGiven, PageCodes, Paged
  <2> HIDE DEF whole
  <2>2. IsPrefix(reply.seen, whole)
    BY <2>1, BeginsIsPrefix
  <2> QED
    BY <2>1, <2>2 DEF whole
<1> QED
  BY <1>1, PagesInvariant, PTL

\* A client that follows its cursors gets somewhere, whatever is published,
\* excluded or deleted between the pages.
THEOREM ContinuationProgresses == QuerySpec => []ContinuationAdvances
<1>1. PageInv => ContinuationAdvances
  BY DEF PageInv, PageGiven, PageCodes, Paged, GetsOn, ContinuationAdvances, Progress, Answered
<1> QED
  BY <1>1, PagesInvariant, PTL

LEMMA TypesStep ==
    ASSUME QueryTypeOK, QueryInv, QueryInv', [QueryNext]_queryVars
    PROVE  QueryTypeOK'
<1> DEFINE paths == UNION {Database[d].files : d \in DOMAIN Database}
<1>1. /\ db' \in DOMAIN Database /\ generation' \in Nat \ {0}
      /\ (held.cursor = NoCursor => held = NothingHeld)'
      /\ names'.of \in 0..generation'
      /\ call' # NoCall => /\ call'.req \in Requests[call'.db]
                           /\ call'.generation \in 1..generation'
  <2>1. names'.of \in Nat /\ names'.of <= generation' /\ generation' \in Nat \ {0}
    BY DEF QueryInv, StoreInv, NamesInv
  <2>2. call' # NoCall => /\ call'.req \in Requests[call'.db]
                          /\ call'.generation \in Nat \ {0} /\ call'.generation <= generation'
    BY DEF QueryInv, CallInv
  <2> QED
    BY <2>1, <2>2 DEF QueryInv, StoreInv, HeldInv
<1>2. Database[db].files \subseteq paths
  BY DEF QueryInv, StoreInv
<1> HIDE DEF paths
<1>3. /\ excluded \in Exclusions \cup {{}} /\ disk \subseteq paths /\ generation \in 1..MaxGeneration
      /\ calls \in Nat /\ events \in Nat
  BY DEF QueryTypeOK, paths
<1>4. /\ excluded' \in Exclusions \cup {{}} /\ disk' \subseteq paths
      /\ generation' <= MaxGeneration /\ calls' \in Nat /\ events' \in Nat
  <2>0. MaxGeneration \in Nat
    BY StoresAssumption
  <2>1. CASE UNCHANGED queryVars
    BY <1>3, <2>0, <2>1 DEF queryVars
  <2>2. ASSUME NEW req, NEW limit, NEW continuing, NEW nodes, Begin(req, limit, nodes, continuing)
        PROVE  /\ excluded' = excluded /\ disk' = disk /\ generation' = generation
               /\ calls' = calls + 1 /\ events' = events
    BY <2>2 DEF Begin
  <2>3. CASE Answer
    BY <1>3, <2>0, <2>3 DEF Answer
  <2>4. ASSUME NEW to, Publish(to)
        PROVE  /\ excluded' = excluded /\ disk' = disk /\ generation < MaxGeneration
               /\ generation' = generation + 1 /\ calls' = calls /\ events' = events
    BY <2>4 DEF Publish
  <2>5. ASSUME NEW files \in Exclusions, SetExcluded(files)
        PROVE  /\ excluded' = files /\ disk' = disk /\ generation' = generation
               /\ calls' = calls /\ events' = events + 1
    BY <2>5 DEF SetExcluded
  <2>6. ASSUME NEW f \in Database[db].files, TouchFile(f)
        PROVE  /\ excluded' = excluded /\ disk' \subseteq disk \cup {f} /\ generation' = generation
               /\ calls' = calls /\ events' = events + 1
    BY <2>6 DEF TouchFile
  <2>7. \/ UNCHANGED queryVars \/ Answer
        \/ \E req, limit, continuing, nodes : Begin(req, limit, nodes, continuing)
        \/ \E to : Publish(to)
        \/ \E files \in Exclusions : SetExcluded(files)
        \/ \E f \in Database[db].files : TouchFile(f)
    BY DEF QueryNext
  <2>8. CASE \E req, limit, continuing, nodes : Begin(req, limit, nodes, continuing)
    BY <1>3, <2>0, <2>2, <2>8
  <2>9. CASE \E to : Publish(to)
    BY <1>3, <2>0, <2>4, <2>9
  <2>10. CASE \E files \in Exclusions : SetExcluded(files)
    BY <1>3, <2>0, <2>5, <2>10
  <2>11. CASE \E f \in Database[db].files : TouchFile(f)
    <3>1. PICK f \in Database[db].files : TouchFile(f)
      BY <2>11
    <3>2. disk' \subseteq disk \cup {f} /\ f \in paths
      BY <1>2, <2>6, <3>1
    <3> QED
      BY <1>3, <2>0, <2>6, <3>1, <3>2
  <2> QED
    BY <2>1, <2>3, <2>7, <2>8, <2>9, <2>10, <2>11
<1>5. generation' \in 1..MaxGeneration
  BY <1>1, <1>4, StoresAssumption
<1> QED
  BY <1>1, <1>4, <1>5 DEF QueryTypeOK, paths

\* Every variable of the query tools keeps its type.
THEOREM QueryTypes == QuerySpec => []QueryTypeOK
<1>1. QueryInit => QueryTypeOK
  <2> SUFFICES ASSUME QueryInit PROVE QueryTypeOK
    OBVIOUS
  <2>1. /\ db \in DOMAIN Database /\ generation = 1 /\ names = [of |-> 0, list |-> {}]
        /\ call = NoCall /\ held = NothingHeld /\ excluded = {} /\ disk = Database[db].files
        /\ calls = 0 /\ events = 0
    BY StoresAssumption DEF QueryInit
  <2>2. names.of = 0 /\ held.cursor = NoCursor
    BY <2>1 DEF NothingHeld
  <2>3. 1 \in 1..MaxGeneration
    BY StoresAssumption
  <2> QED
    BY <2>1, <2>2, <2>3 DEF QueryTypeOK
<1>2. QueryTypeOK /\ QueryInv /\ QueryInv' /\ [QueryNext]_queryVars => QueryTypeOK'
  BY TypesStep
<1> QED
  BY <1>1, <1>2, PagesInvariant, PTL DEF QuerySpec

-----------------------------------------------------------------------------
(* What is withheld: load_facts, round after round, and PublicView, symbol *)
(* by symbol, withhold the same symbols.                                   *)

\* Sets that grow inside a finite one, until a round adds nothing, have
\* stopped after as many rounds as it has elements.
LEMMA GrowthStops ==
    ASSUME NEW T, IsFiniteSet(T), NEW n, n = Cardinality(T), NEW f,
           \A i \in 0..(n + 1) : f[i] \subseteq T,
           \A i \in 0..n : f[i] \subseteq f[i + 1],
           \A i \in 0..(n - 1) : f[i] = f[i + 1] => f[i + 1] = f[i + 2]
    PROVE  f[n] = f[n + 1]
<1> SUFFICES ASSUME f[n] # f[n + 1] PROVE FALSE
  OBVIOUS
<1>1. n \in Nat
  BY FS_CardinalityType
<1>2. \A i \in 0..n : f[i] # f[i + 1]
  <2> DEFINE P == {k \in Nat : k <= n => f[n - k] # f[(n - k) + 1]}
  <2>1. 0 \in P
    BY <1>1
  <2>2. \A k \in Nat : k \in P => k + 1 \in P
    <3> SUFFICES ASSUME NEW k \in Nat, k \in P, k + 1 <= n
                 PROVE  f[n - (k + 1)] # f[(n - (k + 1)) + 1]
      OBVIOUS
    <3> DEFINE i == n - (k + 1)
    <3>1. i \in 0..(n - 1) /\ n - k = i + 1 /\ (n - k) + 1 = i + 2
      BY <1>1
    <3>2. f[n - k] # f[(n - k) + 1]
      BY <1>1
    <3> HIDE DEF i
    <3>3. f[i + 1] # f[i + 2]
      BY <3>1, <3>2
    <3>4. f[i] # f[i + 1]
      BY <3>1, <3>3
    <3> QED
      BY <3>4 DEF i
  <2> HIDE DEF P
  <2>3. \A k \in Nat : k \in P
    BY <2>1, <2>2, NaturalsBySuccessor
  <2> TAKE i \in 0..n
  <2>4. n - i \in Nat /\ n - i <= n /\ n - (n - i) = i
    BY <1>1
  <2> QED
    BY <2>3, <2>4 DEF P
<1> DEFINE Q == {k \in Nat : k <= n + 1 => Cardinality(f[k]) >= k}
<1>3. \A i \in 0..(n + 1) : IsFiniteSet(f[i]) /\ Cardinality(f[i]) \in Nat
  <2> TAKE i \in 0..(n + 1)
  <2>1. f[i] \in SUBSET T
    OBVIOUS
  <2> QED
    BY <2>1, FS_Subset, FS_CardinalityType
<1>4. 0 \in Q
  BY <1>1, <1>3
<1>5. \A k \in Nat : k \in Q => k + 1 \in Q
  <2> SUFFICES ASSUME NEW k \in Nat, k \in Q, k + 1 <= n + 1
               PROVE  Cardinality(f[k + 1]) >= k + 1
    OBVIOUS
  <2>1. k \in 0..n /\ k \in 0..(n + 1) /\ k + 1 \in 0..(n + 1)
    BY <1>1
  <2>2. Cardinality(f[k]) >= k
    BY <1>1
  <2>3. f[k] \in SUBSET f[k + 1] /\ f[k] # f[k + 1] /\ IsFiniteSet(f[k + 1])
    BY <1>2, <1>3, <2>1
  <2>4. /\ Cardinality(f[k]) <= Cardinality(f[k + 1])
        /\ Cardinality(f[k + 1]) = Cardinality(f[k]) => f[k + 1] = f[k]
    BY <2>3, FS_Subset
  <2>5. Cardinality(f[k]) \in Nat /\ Cardinality(f[k + 1]) \in Nat
    BY <1>3, <2>1
  <2> QED
    BY <2>2, <2>3, <2>4, <2>5
<1> HIDE DEF Q
<1>6. n + 1 \in Q
  BY <1>1, <1>4, <1>5, NaturalsBySuccessor
<1>7. Cardinality(f[n + 1]) >= n + 1 /\ n + 1 \in 0..(n + 1)
  BY <1>1, <1>6 DEF Q
<1>8. f[n + 1] \in SUBSET T
  BY <1>7
<1>9. Cardinality(f[n + 1]) <= Cardinality(T)
  BY <1>8, FS_Subset
<1> QED
  BY <1>1, <1>3, <1>7, <1>9

\* The local symbols that those of S enclose.
LocalsOf(d, S) ==
    {s \in d.symbols : d.linkage[s].kind = "local" /\ d.linkage[s].scope \in S}

LEMMA WithheldStepwise ==
    ASSUME NEW d, Cardinality(d.symbols) \in Nat
    PROVE  \E f : /\ f[0] = WithheldAlone(d)
                  /\ \A i \in 1..Cardinality(d.symbols) : f[i] = f[i - 1] \cup LocalsOf(d, f[i - 1])
                  /\ WithheldSymbols(d) = f[Cardinality(d.symbols)]
<1> DEFINE Base == WithheldAlone(d)
           Step(x) == x \cup LocalsOf(d, x)
           Rec(g, k) == g = [i \in 0..k |-> IF i = 0 THEN Base ELSE Step(g[i - 1])]
           F == CHOOSE g : Rec(g, Cardinality(d.symbols))
<1>1. WithheldSymbols(d) = F[Cardinality(d.symbols)]
  BY DEF WithheldSymbols, LocalsOf
<1> HIDE DEF Base, Step
<1>2. Rec([i \in 0..0 |-> Base], 0)
  OBVIOUS
<1>3. ASSUME NEW k \in Nat, NEW g, Rec(g, k)
      PROVE  \E h : Rec(h, k + 1)
  <2> DEFINE h == [i \in 0..(k + 1) |-> IF i = k + 1 THEN Step(g[k]) ELSE g[i]]
  <2>1. \A i \in 0..(k + 1) : h[i] = IF i = 0 THEN Base ELSE Step(h[i - 1])
    <3> TAKE i \in 0..(k + 1)
    <3>1. CASE i = k + 1
      BY <3>1
    <3>2. CASE i # k + 1
      <4>1. i \in 0..k /\ h[i] = g[i] /\ (i # 0 => i - 1 \in 0..k /\ h[i - 1] = g[i - 1])
        BY <3>2
      <4>2. g[i] = IF i = 0 THEN Base ELSE Step(g[i - 1])
        BY <1>3, <4>1
      <4> QED
        BY <4>1, <4>2
    <3> QED
      BY <3>1, <3>2
  <2>2. h = [i \in 0..(k + 1) |-> h[i]]
    OBVIOUS
  <2> HIDE DEF h
  <2>3. Rec(h, k + 1)
    BY <2>1, <2>2
  <2> QED
    BY <2>3
<1> DEFINE S == {k \in Nat : \E g : Rec(g, k)}
<1> HIDE DEF Rec
<1>4. 0 \in S
  BY <1>2
<1>5. \A k \in Nat : k \in S => k + 1 \in S
  BY <1>3
<1> HIDE DEF S
<1>6. \E g : Rec(g, Cardinality(d.symbols))
  BY <1>4, <1>5, NaturalsBySuccessor DEF S
<1>7. Rec(F, Cardinality(d.symbols))
  BY <1>6
<1> HIDE DEF F
<1>8. F[0] = Base /\ \A i \in 1..Cardinality(d.symbols) : F[i] = Step(F[i - 1])
  BY <1>7 DEF Rec
<1> QED
  BY <1>1, <1>8 DEF Base, Step

\* The withheld symbols are those withheld alone and the local ones inside
\* withheld ones, and no others.
LEMMA WithheldRounds ==
    ASSUME NEW d, WellKept(d)
    PROVE  LET gone == WithheldSymbols(d)
           IN  gone \subseteq d.symbols /\ gone = WithheldAlone(d) \cup LocalsOf(d, gone)
<1> DEFINE n == Cardinality(d.symbols)
           Alone == WithheldAlone(d)
           gone == WithheldSymbols(d)
<1>1. IsFiniteSet(d.symbols) /\ n \in Nat
  BY FS_CardinalityType DEF WellKept
<1>2. PICK f : /\ f[0] = Alone
               /\ \A i \in 1..n : f[i] = f[i - 1] \cup LocalsOf(d, f[i - 1])
               /\ gone = f[n]
  BY <1>1, WithheldStepwise
<1>3. Alone \subseteq d.symbols
  BY DEF WithheldAlone
<1>4. \A S : LocalsOf(d, S) \subseteq d.symbols
  BY DEF LocalsOf
<1>5. \A R, S : R \subseteq S => LocalsOf(d, R) \subseteq LocalsOf(d, S)
  BY DEF LocalsOf
<1> HIDE DEF n, Alone, gone
<1> DEFINE P == {k \in Nat : k <= n => /\ f[k] \subseteq d.symbols /\ Alone \subseteq f[k]
                                       /\ f[k] \subseteq Alone \cup LocalsOf(d, f[k])}
<1>6. 0 \in P
  BY <1>2, <1>3
<1>7. \A k \in Nat : k \in P => k + 1 \in P
  <2> SUFFICES ASSUME NEW k \in Nat, k \in P, k + 1 <= n
               PROVE  k + 1 \in P
    OBVIOUS
  <2>1. /\ f[k] \subseteq d.symbols /\ Alone \subseteq f[k]
        /\ f[k] \subseteq Alone \cup LocalsOf(d, f[k])
    BY <1>1
  <2>2. f[k + 1] = f[k] \cup LocalsOf(d, f[k])
    <3>1. k + 1 \in 1..n /\ (k + 1) - 1 = k
      BY <1>1
    <3> QED
      BY <1>2, <3>1
  <2>3. f[k] \subseteq f[k + 1]
    BY <2>2
  <2>4. LocalsOf(d, f[k]) \subseteq LocalsOf(d, f[k + 1])
    BY <1>5, <2>3
  <2> QED
    BY <1>4, <2>1, <2>2, <2>4
<1> HIDE DEF P
<1>8. \A k \in 0..n : /\ f[k] \subseteq d.symbols /\ Alone \subseteq f[k]
                      /\ f[k] \subseteq Alone \cup LocalsOf(d, f[k])
  <2>1. \A k \in Nat : k \in P
    BY <1>6, <1>7, NaturalsBySuccessor
  <2> QED
    BY <1>1, <2>1 DEF P
<1> DEFINE g == [i \in 0..(n + 1) |-> IF i = n + 1 THEN f[n] \cup LocalsOf(d, f[n]) ELSE f[i]]
<1>9. \A i \in 0..n : g[i] = f[i] /\ g[i + 1] = g[i] \cup LocalsOf(d, g[i])
  <2> TAKE i \in 0..n
  <2>1. g[i] = f[i]
    BY <1>1
  <2>2. CASE i = n
    BY <1>1, <2>1, <2>2
  <2>3. CASE i # n
    <3>1. i + 1 \in 1..n /\ (i + 1) - 1 = i /\ i + 1 # n + 1 /\ i + 1 \in 0..(n + 1)
      BY <1>1, <2>3
    <3>2. g[i + 1] = f[i + 1]
      BY <3>1
    <3>3. f[i + 1] = f[i] \cup LocalsOf(d, f[i])
      BY <1>2, <3>1
    <3> QED
      BY <2>1, <3>2, <3>3
  <2> QED
    BY <2>2, <2>3
<1> HIDE DEF g
<1>10. \A i \in 0..(n + 1) : g[i] \subseteq d.symbols
  <2> TAKE i \in 0..(n + 1)
  <2>1. CASE i = n + 1
    <3>1. n \in 0..n
      BY <1>1
    <3> QED
      BY <1>4, <1>8, <1>9, <2>1, <3>1
  <2>2. CASE i # n + 1
    <3>1. i \in 0..n
      BY <1>1, <2>2
    <3> QED
      BY <1>8, <1>9, <3>1
  <2> QED
    BY <2>1, <2>2
<1>11. \A i \in 0..(n - 1) : g[i] = g[i + 1] => g[i + 1] = g[i + 2]
  <2> TAKE i \in 0..(n - 1)
  <2>1. i \in 0..n /\ i + 1 \in 0..n /\ (i + 1) + 1 = i + 2
    BY <1>1
  <2>2. g[i + 1] = g[i] \cup LocalsOf(d, g[i]) /\ g[i + 2] = g[i + 1] \cup LocalsOf(d, g[i + 1])
    BY <1>9, <2>1
  <2> QED
    BY <2>2
<1>12. \A i \in 0..n : g[i] \subseteq g[i + 1]
  BY <1>9
<1>13. g[n] = g[n + 1]
  BY <1>1, <1>10, <1>11, <1>12, GrowthStops DEF n
<1>14. n \in 0..n
  BY <1>1
<1>15. LocalsOf(d, gone) \subseteq gone
  BY <1>2, <1>9, <1>13, <1>14
<1>16. gone \subseteq d.symbols /\ Alone \subseteq gone /\ gone \subseteq Alone \cup LocalsOf(d, gone)
  BY <1>2, <1>8, <1>14
<1> QED
  BY <1>15, <1>16 DEF Alone, gone

\* What the visible locations and the placeholders say of a withheld symbol.
LEMMA WithheldAloneSays ==
    ASSUME NEW d, NoFile \notin d.withheld, NEW s \in d.symbols
    PROVE  s \in WithheldAlone(d) <=>
              \/ LocatedPresence(d, s) = "none"
              \/ d.linkage[s].kind = "internal" /\ d.linkage[s].scope \in d.withheld
<1> DEFINE visible == {l \in d.locations[s] : ~Hidden(d, l.file)}
           k == d.linkage[s]
<1>1. LocatedPresence(d, s) = "none" <=>
         visible = {} /\ (d.locations[s] # {} \/ ~IsPlaceholder(d, s))
  BY DEF LocatedPresence
<1>2. visible = {} <=> \A l \in d.locations[s] : Hidden(d, l.file)
  OBVIOUS
<1>3. Hidden(d, k.scope) <=> k.scope \in d.withheld
  BY DEF Hidden
<1>4. s \in WithheldAlone(d) <=>
         \/ /\ \A l \in d.locations[s] : Hidden(d, l.file)
            /\ d.locations[s] # {} \/ ~IsPlaceholder(d, s)
         \/ k.kind = "internal" /\ Hidden(d, k.scope)
  BY DEF WithheldAlone
<1> HIDE DEF visible, k
<1>5. s \in WithheldAlone(d) <=>
         \/ LocatedPresence(d, s) = "none"
         \/ k.kind = "internal" /\ k.scope \in d.withheld
  BY <1>1, <1>2, <1>3, <1>4
<1> QED
  BY <1>5 DEF k

\* The two projections withhold the same symbols.
LEMMA PresenceSays ==
    ASSUME NEW d, WellKept(d), NoFile \notin d.withheld
    PROVE  LET gone == WithheldSymbols(d)
           IN  /\ Presence(d) = [s \in d.symbols |-> IF s \in gone THEN "none" ELSE LocatedPresence(d, s)]
               /\ \A s \in d.symbols \ gone : LocatedPresence(d, s) # "none"
<1> DEFINE T == d.symbols
           gone == WithheldSymbols(d)
           own(s) == LocatedPresence(d, s)
           inside(s) == d.linkage[s].kind = "internal" /\ d.linkage[s].scope \in d.withheld
           Of(p, s) == IF \/ inside(s)
                          \/ /\ own(s) # "none"
                             /\ d.linkage[s].kind = "local"
                             /\ d.linkage[s].scope \in T
                             /\ p[d.linkage[s].scope] = "none"
                       THEN "none" ELSE own(s)
           Rec(p) == p = [s \in T |-> Of(p, s)]
           g == [s \in T |-> IF s \in gone THEN "none" ELSE own(s)]
           p == CHOOSE q : Rec(q)
<1>1. Presence(d) = p
  BY DEF Presence
<1>2. gone \subseteq T /\ gone = WithheldAlone(d) \cup LocalsOf(d, gone)
  BY WithheldRounds
<1>3. \A s \in T : s \in WithheldAlone(d) <=> own(s) = "none" \/ inside(s)
  BY WithheldAloneSays
<1>4. \A s \in T : s \in LocalsOf(d, gone) <=>
                      d.linkage[s].kind = "local" /\ d.linkage[s].scope \in gone
  BY DEF LocalsOf
<1> HIDE DEF gone, own, inside
<1>5. \A s \in T : own(s) = "none" => s \in gone
  BY <1>2, <1>3
<1>6. \A s \in T : g[s] = "none" <=> s \in gone
  BY <1>5
<1>7. ASSUME NEW s \in T
      PROVE  g[s] = Of(g, s)
  <2> DEFINE k == d.linkage[s].kind
             c == d.linkage[s].scope
  <2>1. g[s] = IF s \in gone THEN "none" ELSE own(s)
    OBVIOUS
  <2>2. s \in gone <=> own(s) = "none" \/ inside(s) \/ (k = "local" /\ c \in gone)
    BY <1>2, <1>3, <1>4
  <2>3. c \in T => (g[c] = "none" <=> c \in gone)
    BY <1>6
  <2> HIDE DEF g, k, c
  <2>4. Of(g, s) = IF inside(s) \/ (own(s) # "none" /\ k = "local" /\ c \in T /\ g[c] = "none")
                   THEN "none" ELSE own(s)
    BY DEF k, c
  <2> QED
    BY <1>2, <2>1, <2>2, <2>3, <2>4
<1>8. Rec(g)
  <2>1. g = [s \in T |-> g[s]]
    OBVIOUS
  <2> HIDE DEF g
  <2> QED
    BY <1>7, <2>1
<1>9. Rec(p)
  <2> HIDE DEF Rec
  <2> QED
    BY <1>8
<1> HIDE DEF p
<1>10. p = g
  <2> DEFINE bad == {s \in T : p[s] # g[s]}
  <2>1. bad = {}
    <3> SUFFICES ASSUME bad # {} PROVE FALSE
      OBVIOUS
    <3>1. bad \in SUBSET T
      OBVIOUS
    <3> HIDE DEF bad
    <3>2. PICK s \in bad : d.linkage[s].kind = "local" => d.linkage[s].scope \notin bad
      BY <3>1 DEF WellKept
    <3>3. s \in T
      BY <3>1
    <3>4. p[s] = Of(p, s)
      BY <1>9, <3>3
    <3>5. d.linkage[s].kind = "local" /\ d.linkage[s].scope \in T =>
             p[d.linkage[s].scope] = g[d.linkage[s].scope]
      BY <3>2 DEF bad
    <3>6. Of(p, s) = Of(g, s)
      <4> HIDE DEF g
      <4> QED
        BY <3>5
    <3>7. p[s] = g[s]
      BY <1>7, <3>3, <3>4, <3>6
    <3> QED
      BY <3>2, <3>3, <3>7 DEF bad
  <2>2. p = [s \in T |-> p[s]]
    BY <1>9
  <2>3. g = [s \in T |-> g[s]]
    OBVIOUS
  <2> HIDE DEF g
  <2>4. \A s \in T : p[s] = g[s]
    BY <2>1
  <2> QED
    BY <2>2, <2>3, <2>4
<1> QED
  BY <1>1, <1>5, <1>10 DEF gone, own

\* The two projections agree (docs/query.md, Public projection): load_facts,
\* which withholds round after round over the whole profile, keeps exactly the
\* symbols that PublicView, which decides symbol by symbol, lets through, with
\* the same presence and their visible locations.
THEOREM ProjectionsAgree ==
    ASSUME NEW d, WellKept(d), NoFile \notin d.withheld
    PROVE  LET facts == PublicFacts(d)
               view == Presence(d)
           IN  /\ DOMAIN facts.symbols = {s \in d.symbols : IsPublic(view, s)}
               /\ \A s \in d.symbols : IsPublic(view, s) =>
                     /\ facts.symbols[s] = view[s]
                     /\ facts.locations[s] = VisibleLocations(d, s)
                     /\ view[s] = LocatedPresence(d, s)
               /\ facts.includes = {i \in d.includes : \A f \in {i.includer, i.at, i.target} : ~Hidden(d, f)}
               /\ facts.sites = {u \in d.sites : ~Hidden(d, u.file) /\ u.owner \notin WithheldSymbols(d)}
<1> DEFINE gone == WithheldSymbols(d)
           view == Presence(d)
           facts == PublicFacts(d)
           visible(s) == {l \in d.locations[s] : ~Hidden(d, l.file)}
           shown(s) == CASE \E l \in visible(s) : l.role # "implicit" -> "indexed"
                         [] visible(s) # {} /\ \A l \in visible(s) : l.role = "implicit"
                              -> "implicit_hidden"
                         [] OTHER -> "external_placeholder"
<1>1. /\ facts.symbols = [s \in d.symbols \ gone |-> shown(s)]
      /\ facts.locations = [s \in d.symbols \ gone |-> visible(s)]
      /\ facts.includes = {i \in d.includes : ~Hidden(d, i.includer) /\ ~Hidden(d, i.at) /\ ~Hidden(d, i.target)}
      /\ facts.sites = {u \in d.sites : ~Hidden(d, u.file) /\ u.owner \notin gone}
  BY DEF PublicFacts
<1>2. /\ view = [s \in d.symbols |-> IF s \in gone THEN "none" ELSE LocatedPresence(d, s)]
      /\ \A s \in d.symbols \ gone : LocatedPresence(d, s) # "none"
  BY PresenceSays
<1>3. ASSUME NEW s \in d.symbols, LocatedPresence(d, s) # "none"
      PROVE  shown(s) = LocatedPresence(d, s)
  <2>1. LocatedPresence(d, s) =
           IF \E l \in visible(s) : l.role # "implicit" THEN "indexed"
           ELSE IF visible(s) # {} THEN "implicit_hidden"
           ELSE IF d.locations[s] = {} /\ IsPlaceholder(d, s) THEN "external_placeholder"
           ELSE "none"
    BY DEF LocatedPresence
  <2> DEFINE V == visible(s)
  <2> HIDE DEF V
  <2>2. LocatedPresence(d, s) =
           IF \E l \in V : l.role # "implicit" THEN "indexed"
           ELSE IF V # {} THEN "implicit_hidden" ELSE "external_placeholder"
    BY <1>3, <2>1 DEF V
  <2>3. shown(s) = CASE \E l \in V : l.role # "implicit" -> "indexed"
                     [] V # {} /\ \A l \in V : l.role = "implicit" -> "implicit_hidden"
                     [] OTHER -> "external_placeholder"
    BY DEF V
  <2> QED
    BY <2>2, <2>3
<1>4. \A s \in d.symbols : IsPublic(view, s) <=> s \notin gone
  <2> HIDE DEF view, gone
  <2> QED
    BY <1>2 DEF IsPublic
<1> HIDE DEF gone, view, facts, shown
<1>5. ASSUME NEW s \in d.symbols, IsPublic(view, s)
      PROVE  /\ facts.symbols[s] = view[s]
             /\ facts.locations[s] = VisibleLocations(d, s)
             /\ view[s] = LocatedPresence(d, s)
  <2>1. s \in d.symbols \ gone
    BY <1>4, <1>5
  <2>2. view[s] = LocatedPresence(d, s) /\ LocatedPresence(d, s) # "none"
    BY <1>2, <2>1
  <2>3. facts.symbols[s] = shown(s) /\ facts.locations[s] = visible(s)
    BY <1>1, <2>1
  <2> QED
    BY <1>3, <2>2, <2>3 DEF VisibleLocations
<1>6. DOMAIN facts.symbols = d.symbols \ gone
  BY <1>1
<1>7. DOMAIN facts.symbols = {s \in d.symbols : IsPublic(view, s)}
  BY <1>4, <1>6
<1>8. facts.includes = {i \in d.includes : \A f \in {i.includer, i.at, i.target} : ~Hidden(d, f)}
  BY <1>1
<1> QED
  BY <1>1, <1>5, <1>7, <1>8 DEF gone, view, facts

-----------------------------------------------------------------------------
(* What results list.                                                      *)

\* The sequence q has the elements of S, in whatever order.
Lists(q, S) ==
    /\ IsSeq(q) /\ Len(q) \in Nat
    /\ \A i \in 1..Len(q) : q[i] \in S
    /\ \A x \in S : \E i \in 1..Len(q) : q[i] = x

LEMMA ListsOrdered ==
    ASSUME NEW S, IsFiniteSet(S), NEW R, IsOrder(S, R)
    PROVE  Lists(Ordered(S, R), S)
<1> DEFINE q == Ordered(S, R)
<1>1. IsSeq(q) /\ Len(q) = Cardinality(S) /\ Cardinality(S) \in Nat
  BY OrderedLength
<1>2. /\ \A i \in 1..Cardinality(S) : q[i] \in S
      /\ \A x \in S : \E i \in 1..Cardinality(S) : q[i] = x
  BY OrderedElements
<1> HIDE DEF q
<1> QED
  BY <1>1, <1>2 DEF Lists, q

LEMMA ListsSet ==
    ASSUME NEW q, NEW S, Lists(q, S)
    PROVE  DOMAIN q = 1..Len(q) /\ ToSet(q) = S
<1>1. DOMAIN q = 1..Len(q)
  BY DEF Lists, IsSeq
<1> QED
  BY <1>1 DEF Lists, ToSet

LEMMA ListsJoined ==
    ASSUME NEW q, NEW S, Lists(q, S), NEW r, NEW T, Lists(r, T)
    PROVE  Lists(q \o r, S \cup T)
<1> DEFINE w == q \o r
<1>1. /\ Len(q) \in Nat /\ Len(r) \in Nat
      /\ IsSeq(w) /\ Len(w) = Len(q) + Len(r)
      /\ \A i \in 1..Len(q) : w[i] = q[i]
      /\ \A i \in 1..Len(r) : w[Len(q) + i] = r[i]
  BY Joined DEF Lists
<1> HIDE DEF w
<1>2. ASSUME NEW i \in 1..Len(w)
      PROVE  w[i] \in S \cup T
  <2>1. CASE i <= Len(q)
    BY <1>1, <2>1 DEF Lists
  <2>2. CASE i > Len(q)
    <3>1. i - Len(q) \in 1..Len(r) /\ Len(q) + (i - Len(q)) = i
      BY <1>1, <2>2
    <3>2. w[i] = r[i - Len(q)]
      BY <1>1, <3>1
    <3> QED
      BY <3>1, <3>2 DEF Lists
  <2> QED
    BY <1>1, <2>1, <2>2
<1>3. ASSUME NEW x \in S
      PROVE  \E i \in 1..Len(w) : w[i] = x
  <2>1. PICK i \in 1..Len(q) : q[i] = x
    BY DEF Lists
  <2>2. i \in 1..Len(w) /\ w[i] = q[i]
    BY <1>1
  <2> QED
    BY <2>1, <2>2
<1>4. ASSUME NEW x \in T
      PROVE  \E i \in 1..Len(w) : w[i] = x
  <2>1. PICK i \in 1..Len(r) : r[i] = x
    BY DEF Lists
  <2>2. Len(q) + i \in 1..Len(w) /\ w[Len(q) + i] = r[i]
    BY <1>1
  <2> QED
    BY <2>1, <2>2
<1>5. \A x \in S \cup T : \E i \in 1..Len(w) : w[i] = x
  BY <1>3, <1>4
<1>6. Len(w) \in Nat
  BY <1>1
<1>7. \A i \in 1..Len(w) : w[i] \in S \cup T
  BY <1>2
<1> QED
  BY <1>1, <1>5, <1>6, <1>7 DEF Lists, w

LEMMA ListsHits ==
    ASSUME NEW d, NEW view, NEW q, NEW S, Lists(q, S)
    PROVE  Lists(Hits(d, view, q), {SymbolHit(d, view, s) : s \in S})
<1> DEFINE h == Hits(d, view, q)
<1>1. /\ IsSeq(h) /\ Len(h) = Len(q) /\ Len(q) \in Nat
      /\ \A i \in 1..Len(q) : h[i] = SymbolHit(d, view, q[i])
  BY HitsOfSequence DEF Lists
<1> HIDE DEF h
<1>2. \A i \in 1..Len(h) : h[i] \in {SymbolHit(d, view, s) : s \in S}
  BY <1>1 DEF Lists
<1>3. \A x \in {SymbolHit(d, view, s) : s \in S} : \E i \in 1..Len(h) : h[i] = x
  <2> TAKE x \in {SymbolHit(d, view, s) : s \in S}
  <2>1. PICK s \in S : x = SymbolHit(d, view, s)
    OBVIOUS
  <2>2. PICK i \in 1..Len(q) : q[i] = s
    BY DEF Lists
  <2>3. h[i] = SymbolHit(d, view, q[i])
    BY <1>1
  <2> QED
    BY <1>1, <2>1, <2>2, <2>3
<1> QED
  BY <1>1, <1>2, <1>3 DEF Lists, h

\* Symbols in the order of results.
LEMMA ListsInTieOrder ==
    ASSUME NEW d, WellKept(d), NEW S \in SUBSET d.symbols
    PROVE  Lists(InTieOrder(d, S), S)
<1> DEFINE R == {p \in S \X S : d.rank[p[1]] < d.rank[p[2]]}
<1>1. IsFiniteSet(S)
  BY FS_Subset DEF WellKept
<1>2. /\ \A x \in S : d.rank[x] \in Nat
      /\ \A x, y \in S : d.rank[x] = d.rank[y] => x = y
  BY DEF WellKept
<1>3. \A x, y \in S : <<x, y>> \in R <=> d.rank[x] < d.rank[y]
  OBVIOUS
<1>4. InTieOrder(d, S) = Ordered(S, R)
  BY DEF InTieOrder
<1> HIDE DEF R
<1>5. IsOrder(S, R)
  <2>1. \A x \in S : <<x, x>> \notin R
    BY <1>2, <1>3
  <2>2. \A x, y, z \in S : <<x, y>> \in R /\ <<y, z>> \in R => <<x, z>> \in R
    BY <1>2, <1>3
  <2>3. \A x, y \in S : x = y \/ <<x, y>> \in R \/ <<y, x>> \in R
    <3> TAKE x, y \in S
    <3>1. d.rank[x] < d.rank[y] \/ d.rank[x] = d.rank[y] \/ d.rank[y] < d.rank[x]
      BY <1>2
    <3> QED
      BY <1>2, <1>3, <3>1
  <2> QED
    BY <2>1, <2>2, <2>3 DEF IsOrder
<1> QED
  BY <1>1, <1>4, <1>5, ListsOrdered

\* The symbols that a name says exactly.
Named(d, view, q) ==
    {s \in d.symbols :
        /\ d.name[s] = Last(q.path)
        /\ Searchable(view, s)
        /\ IsQualified(q) => QualifiedMatches(q, Qualified(d, s))}

LEMMA ListsNameMatches ==
    ASSUME NEW d, WellKept(d), NEW view, NEW q
    PROVE  Lists(NameMatches(d, view, q), Named(d, view, q))
<1>1. NameMatches(d, view, q) = InTieOrder(d, Named(d, view, q))
  BY DEF NameMatches, Named
<1>2. Named(d, view, q) \in SUBSET d.symbols
  BY DEF Named
<1> QED
  BY <1>1, <1>2, ListsInTieOrder

LEMMA ListsFileHits ==
    ASSUME NEW P \in SUBSET Nat, IsFiniteSet(P)
    PROVE  Lists(FileHits(P), {[path |-> f] : f \in P})
<1> DEFINE R == {p \in P \X P : p[1] < p[2]}
           files == Ordered(P, R)
           h == FileHits(P)
<1>1. IsOrder(P, R)
  <2>1. \A x, y \in P : <<x, y>> \in R <=> x < y
    OBVIOUS
  <2> HIDE DEF R
  <2> QED
    BY <2>1 DEF IsOrder
<1>2. Lists(files, P)
  BY <1>1, ListsOrdered
<1>3. h = [i \in DOMAIN files |-> [path |-> files[i]]]
  BY DEF FileHits
<1> HIDE DEF files
<1>4. DOMAIN files = 1..Len(files) /\ Len(files) \in Nat
  BY <1>2, ListsSet DEF Lists
<1>5. /\ \A i \in 1..Len(files) : h[i] = [path |-> files[i]]
      /\ h = [i \in 1..Len(files) |-> h[i]]
  BY <1>3, <1>4
<1> HIDE DEF h
<1>6. IsSeq(h) /\ Len(h) = Len(files)
  BY <1>4, <1>5, PlacesAreSequence
<1>7. \A i \in 1..Len(h) : h[i] \in {[path |-> f] : f \in P}
  BY <1>2, <1>5, <1>6 DEF Lists
<1>8. \A x \in {[path |-> f] : f \in P} : \E i \in 1..Len(h) : h[i] = x
  <2> TAKE x \in {[path |-> f] : f \in P}
  <2>1. PICK f \in P : x = [path |-> f]
    OBVIOUS
  <2>2. PICK i \in 1..Len(files) : files[i] = f
    BY <1>2 DEF Lists
  <2> QED
    BY <1>5, <1>6, <2>1, <2>2
<1> QED
  BY <1>4, <1>6, <1>7, <1>8 DEF Lists, h

\* A whole search lists the symbols the name or its components match, and
\* the files.
Found(d, view, list, q) ==
    Named(d, view, q) \cup ComponentMatches(d, view, list, q)

LEMMA ListsFindResult ==
    ASSUME NEW d, WellKept(d), NEW view, NEW list, NEW q
    PROVE  Lists(FindResult(d, view, list, q, 4),
                 {SymbolHit(d, view, s) : s \in Found(d, view, list, q)}
                 \cup {[path |-> f] : f \in MatchingFiles(d, q)})
<1> DEFINE exact == NameMatches(d, view, q)
           parts == PartMatches(d, view, list, q)
           E == Named(d, view, q)
           C == ComponentMatches(d, view, list, q)
           M == MatchingFiles(d, q)
<1>1. FindResult(d, view, list, q, 4) = Hits(d, view, exact \o parts) \o FileHits(M)
  BY FindParts
<1>2. Lists(exact, E)
  BY ListsNameMatches
<1>3. ToSet(exact) = E
  BY <1>2, ListsSet
<1>4. C \ E \in SUBSET d.symbols
  BY DEF ComponentMatches
<1>5. parts = InTieOrder(d, C \ E)
  BY <1>3 DEF PartMatches
<1>6. M \in SUBSET Nat /\ IsFiniteSet(M)
  <2>1. M \in SUBSET d.files /\ d.files \subseteq Nat /\ IsFiniteSet(d.files)
    BY DEF MatchingFiles, WellKept
  <2> QED
    BY <2>1, FS_Subset
<1> HIDE DEF exact, parts, E, C, M
<1>7. Lists(parts, C \ E)
  BY <1>4, <1>5, ListsInTieOrder
<1>8. E \cup (C \ E) = E \cup C
  OBVIOUS
<1>9. Lists(exact \o parts, E \cup (C \ E))
  BY <1>2, <1>7, ListsJoined
<1>10. Lists(Hits(d, view, exact \o parts), {SymbolHit(d, view, s) : s \in E \cup (C \ E)})
  BY <1>9, ListsHits
<1>11. Lists(FileHits(M), {[path |-> f] : f \in M})
  BY <1>6, ListsFileHits
<1>12. Lists(Hits(d, view, exact \o parts) \o FileHits(M),
             {SymbolHit(d, view, s) : s \in E \cup (C \ E)} \cup {[path |-> f] : f \in M})
  BY <1>10, <1>11, ListsJoined
<1>13. Found(d, view, list, q) = E \cup (C \ E)
  BY <1>8 DEF Found, E, C
<1> QED
  BY <1>1, <1>12, <1>13 DEF M

\* The public symbols declared in a file.
Listed(d, view, f) == {s \in d.symbols : DeclaredIn(d, s, f) # {} /\ IsPublic(view, s)}

LEMMA ListsFileResult ==
    ASSUME NEW d, WellKept(d), NEW view, NEW f
    PROVE  Lists(FileResult(d, view, f), {FileEntry(d, view, s, f) : s \in Listed(d, view, f)})
<1> DEFINE S == Listed(d, view, f)
           first(s) == Min({l.at : l \in DeclaredIn(d, s, f)})
           before(a, b) == \/ first(a) < first(b)
                           \/ first(a) = first(b) /\ d.rank[a] < d.rank[b]
           R == {p \in S \X S : before(p[1], p[2])}
           order == Ordered(S, R)
           r == FileResult(d, view, f)
<1>1. r = [i \in DOMAIN order |-> FileEntry(d, view, order[i], f)]
  BY DEF FileResult, Listed
<1>2. IsFiniteSet(S)
  <2>1. S \in SUBSET d.symbols /\ IsFiniteSet(d.symbols)
    BY DEF WellKept, Listed
  <2> QED
    BY <2>1, FS_Subset
<1>3. ASSUME NEW s \in S
      PROVE  first(s) \in Nat /\ d.rank[s] \in Nat
  <2> DEFINE A == {l.at : l \in DeclaredIn(d, s, f)}
  <2>1. s \in d.symbols /\ DeclaredIn(d, s, f) # {}
    BY DEF Listed
  <2>2. A \in SUBSET Nat /\ A # {}
    BY <2>1 DEF WellKept, DeclaredIn
  <2> HIDE DEF A
  <2>3. \E x \in A : \A y \in A : x <= y
    BY <2>2, LeastNatural
  <2>4. Min(A) \in A
    BY <2>3 DEF Min
  <2> QED
    BY <2>1, <2>2, <2>4 DEF A, WellKept
<1>4. \A x, y \in S : d.rank[x] = d.rank[y] => x = y
  BY DEF WellKept, Listed
<1> HIDE DEF S, first
<1>5. \A x, y \in S : <<x, y>> \in R <=> before(x, y)
  OBVIOUS
<1> HIDE DEF R
<1>6. IsOrder(S, R)
  <2>1. \A x \in S : <<x, x>> \notin R
    BY <1>3, <1>5
  <2>2. ASSUME NEW x \in S, NEW y \in S, NEW z \in S, <<x, y>> \in R, <<y, z>> \in R
        PROVE  <<x, z>> \in R
    <3>1. before(x, y) /\ before(y, z)
      BY <1>5, <2>2
    <3>2. /\ first(x) \in Nat /\ first(y) \in Nat /\ first(z) \in Nat
          /\ d.rank[x] \in Nat /\ d.rank[y] \in Nat /\ d.rank[z] \in Nat
      BY <1>3
    <3>3. before(x, z)
      BY <3>1, <3>2
    <3> QED
      BY <1>5, <3>3
  <2>3. ASSUME NEW x \in S, NEW y \in S
        PROVE  x = y \/ <<x, y>> \in R \/ <<y, x>> \in R
    <3>1. /\ first(x) \in Nat /\ first(y) \in Nat
          /\ d.rank[x] \in Nat /\ d.rank[y] \in Nat
      BY <1>3
    <3>2. before(x, y) \/ before(y, x) \/ d.rank[x] = d.rank[y]
      BY <3>1
    <3> QED
      BY <1>4, <1>5, <3>2
  <2>4. \A x, y, z \in S : <<x, y>> \in R /\ <<y, z>> \in R => <<x, z>> \in R
    BY <2>2
  <2>5. \A x, y \in S : x = y \/ <<x, y>> \in R \/ <<y, x>> \in R
    BY <2>3
  <2> QED
    BY <2>1, <2>4, <2>5 DEF IsOrder
<1>7. Lists(order, S)
  BY <1>2, <1>6, ListsOrdered
<1> HIDE DEF order
<1>8. DOMAIN order = 1..Len(order) /\ Len(order) \in Nat
  BY <1>7, ListsSet DEF Lists
<1>9. /\ \A i \in 1..Len(order) : r[i] = FileEntry(d, view, order[i], f)
      /\ r = [i \in 1..Len(order) |-> r[i]]
  BY <1>1, <1>8
<1> HIDE DEF r
<1>10. IsSeq(r) /\ Len(r) = Len(order)
  BY <1>8, <1>9, PlacesAreSequence
<1>11. \A i \in 1..Len(r) : r[i] \in {FileEntry(d, view, s, f) : s \in S}
  BY <1>7, <1>9, <1>10 DEF Lists
<1>12. \A x \in {FileEntry(d, view, s, f) : s \in S} : \E i \in 1..Len(r) : r[i] = x
  <2> TAKE x \in {FileEntry(d, view, s, f) : s \in S}
  <2>1. PICK s \in S : x = FileEntry(d, view, s, f)
    OBVIOUS
  <2>2. PICK i \in 1..Len(order) : order[i] = s
    BY <1>7 DEF Lists
  <2> QED
    BY <1>9, <1>10, <2>1, <2>2
<1> QED
  BY <1>8, <1>10, <1>11, <1>12 DEF Lists, r, S

-----------------------------------------------------------------------------
(* What is listed is public.                                               *)

\* Of some locations one comes first.
LEMMA SomeLocationIsPrimary ==
    ASSUME NEW d, NEW S, S # {}, \A l \in S : l.file \in Nat /\ l.at \in Nat /\ l.unit \in Nat
    PROVE  PrimaryLocation(d, S) # {}
<1>1. \A l \in S : RoleRank(l) \in Nat
  BY DEF RoleRank
<1>2. PICK a \in {RoleRank(l) : l \in S} : \A y \in {RoleRank(l) : l \in S} : a <= y
  BY <1>1, LeastNatural
<1> DEFINE A == {l \in S : RoleRank(l) = a}
<1>3. A # {} /\ A \subseteq S
  BY <1>2
<1>4. PICK b \in {l.file : l \in A} : \A y \in {l.file : l \in A} : b <= y
  <2>1. {l.file : l \in A} \in SUBSET Nat /\ {l.file : l \in A} # {}
    BY <1>3
  <2> QED
    BY <2>1, LeastNatural
<1> DEFINE B == {l \in A : l.file = b}
<1>5. B # {} /\ B \subseteq S
  BY <1>3, <1>4
<1>6. PICK c \in {l.at : l \in B} : \A y \in {l.at : l \in B} : c <= y
  <2>1. {l.at : l \in B} \in SUBSET Nat /\ {l.at : l \in B} # {}
    BY <1>5
  <2> QED
    BY <2>1, LeastNatural
<1> DEFINE C == {l \in B : l.at = c}
<1>7. C # {} /\ C \subseteq S
  BY <1>5, <1>6
<1>8. PICK e \in {l.unit : l \in C} : \A y \in {l.unit : l \in C} : e <= y
  <2>1. {l.unit : l \in C} \in SUBSET Nat /\ {l.unit : l \in C} # {}
    BY <1>7
  <2> QED
    BY <2>1, LeastNatural
<1>9. PICK l \in C : l.unit = e
  BY <1>8
<1>10. l \in S /\ RoleRank(l) = a /\ l.file = b /\ l.at = c /\ l.unit = e
  BY <1>9
<1>11. ASSUME NEW m \in S
       PROVE  LocationBefore(l, m)
  <2>1. /\ RoleRank(m) \in Nat /\ m.file \in Nat /\ m.at \in Nat /\ m.unit \in Nat
        /\ RoleRank(l) \in Nat /\ l.file \in Nat /\ l.at \in Nat /\ l.unit \in Nat
    BY <1>1, <1>10
  <2>2. a <= RoleRank(m)
    BY <1>2
  <2>3. RoleRank(m) = a => b <= m.file
    BY <1>4
  <2>4. RoleRank(m) = a /\ m.file = b => c <= m.at
    BY <1>6
  <2>5. RoleRank(m) = a /\ m.file = b /\ m.at = c => e <= m.unit
    BY <1>8
  <2> HIDE DEF A, B, C
  <2> QED
    BY <1>10, <2>1, <2>2, <2>3, <2>4, <2>5 DEF LocationBefore
<1> QED
  BY <1>10, <1>11 DEF PrimaryLocation

\* symbol_json of a public symbol.
LEMMA HitOfPublicSymbol ==
    ASSUME NEW d, WellKept(d), NoFile \notin d.withheld, NEW s \in d.symbols,
           IsPublic(Presence(d), s)
    PROVE  LET h == SymbolHit(d, Presence(d), s)
           IN  /\ HitIsPublic(d, PublicFacts(d), h)
               /\ DOMAIN h = {"symbol", "presence", "primary"} /\ h.symbol = s
<1> DEFINE view == Presence(d)
           facts == PublicFacts(d)
           V == VisibleLocations(d, s)
           h == SymbolHit(d, view, s)
<1>1. /\ s \in DOMAIN facts.symbols
      /\ facts.symbols[s] = view[s] /\ facts.locations[s] = V
      /\ view[s] = LocatedPresence(d, s)
  BY ProjectionsAgree
<1>2. view[s] # "none"
  BY DEF IsPublic
<1>3. view[s] = "external_placeholder" <=> V = {}
  <2>1. LocatedPresence(d, s) =
           IF \E l \in V : l.role # "implicit" THEN "indexed"
           ELSE IF V # {} THEN "implicit_hidden"
           ELSE IF d.locations[s] = {} /\ IsPlaceholder(d, s) THEN "external_placeholder"
           ELSE "none"
    BY DEF LocatedPresence, VisibleLocations
  <2> HIDE DEF V, view
  <2> QED
    BY <1>1, <1>2, <2>1
<1>4. PrimaryLocation(d, V) \subseteq V
  BY DEF PrimaryLocation
<1>5. V # {} => PrimaryLocation(d, V) # {}
  <2>1. \A l \in V : l.file \in Nat /\ l.at \in Nat /\ l.unit \in Nat
    BY DEF VisibleLocations, WellKept
  <2> HIDE DEF V
  <2> QED
    BY <2>1, SomeLocationIsPrimary
<1>6. /\ DOMAIN h = {"symbol", "presence", "primary"}
      /\ h.symbol = s /\ h.presence = view[s]
      /\ h.primary = IF view[s] = "external_placeholder" THEN {} ELSE PrimaryLocation(d, V)
  BY DEF SymbolHit
<1> HIDE DEF V, h, view, facts
<1>7. "path" \notin DOMAIN h
  BY <1>6
<1>8. HitIsPublic(d, facts, h)
  BY <1>1, <1>3, <1>4, <1>5, <1>6, <1>7 DEF HitIsPublic
<1> QED
  BY <1>6, <1>8 DEF h, view, facts

LEMMA HitOfVisibleFile ==
    ASSUME NEW d, WellKept(d), NEW f \in d.files, ~Hidden(d, f), NEW facts
    PROVE  /\ HitIsPublic(d, facts, [path |-> f])
           /\ DOMAIN [path |-> f] = {"path"}
<1>1. f # NoFile
  BY DEF WellKept
<1>2. f \in d.files \ d.withheld
  BY <1>1 DEF Hidden
<1> DEFINE h == [path |-> f]
<1>3. DOMAIN h = {"path"} /\ h.path = f
  OBVIOUS
<1> HIDE DEF h
<1>4. HitIsPublic(d, facts, h)
  BY <1>2, <1>3 DEF HitIsPublic
<1> QED
  BY <1>3, <1>4 DEF h

\* An entry of a file whose path is not withheld.
LEMMA EntryOfListedSymbol ==
    ASSUME NEW d, WellKept(d), NoFile \notin d.withheld, NEW f, ~Hidden(d, f),
           NEW s \in Listed(d, Presence(d), f)
    PROVE  LET e == FileEntry(d, Presence(d), s, f)
           IN  EntryIsPublic(d, PublicFacts(d), e, f) /\ e.symbol.symbol = s
<1> DEFINE view == Presence(d)
           facts == PublicFacts(d)
           h == SymbolHit(d, view, s)
           e == FileEntry(d, view, s, f)
<1>1. s \in d.symbols /\ IsPublic(view, s)
  BY DEF Listed
<1>2. HitIsPublic(d, facts, h) /\ h.symbol = s
  BY <1>1, HitOfPublicSymbol
<1>3. facts.locations[s] = VisibleLocations(d, s)
  BY <1>1, ProjectionsAgree
<1>4. /\ e.symbol = h /\ e.here = DeclaredIn(d, s, f)
      /\ e.elsewhere = {l \in VisibleLocations(d, s) : l.role # "implicit" /\ l.file # f}
  BY DEF FileEntry
<1>5. DeclaredIn(d, s, f) = {l \in VisibleLocations(d, s) : l.role # "implicit" /\ l.file = f}
  BY DEF DeclaredIn, VisibleLocations
<1> HIDE DEF h, e, facts, view
<1>6. e.here \cup e.elsewhere = {l \in facts.locations[s] : l.role # "implicit"}
  BY <1>3, <1>4, <1>5
<1>7. EntryIsPublic(d, facts, e, f)
  BY <1>2, <1>4, <1>6 DEF EntryIsPublic
<1> QED
  BY <1>2, <1>4, <1>7 DEF e, view, facts

\* A name that a query ends in is the query's last.
LEMMA MatchedNameIsLast ==
    ASSUME NEW T, NEW owners \in Seq(T), NEW name, NEW q,
           q.path \in Seq(STRING) \ {<<>>}, QualifiedMatches(q, Append(owners, name))
    PROVE  name = Last(q.path)
<1> DEFINE p == q.path
           qn == Append(owners, name)
<1>1. IsSeq(p) /\ Len(p) \in Nat /\ p # <<>>
  BY OverIsSeq
<1>2. Len(p) # 0
  <2> SUFFICES ASSUME Len(p) = 0 PROVE FALSE
    OBVIOUS
  <2>1. IsSeq(<<>>) /\ Len(<<>>) = 0
    BY ShortSequences
  <2> HIDE DEF p
  <2>2. p = <<>>
    BY <1>1, <2>1, SameSequence
  <2> QED
    BY <1>1, <2>2
<1>3. IsSeq(owners)
  BY OverIsSeq
<1>4. IsSeq(qn) /\ Len(qn) = Len(owners) + 1 /\ Len(owners) \in Nat /\ qn[Len(owners) + 1] = name
  BY <1>3, Added
<1>5. qn = p \/ IsSuffix(p, qn)
  BY DEF QualifiedMatches
<1> HIDE DEF p, qn
<1>6. CASE qn = p
  BY <1>4, <1>6 DEF Last, p
<1>7. CASE IsSuffix(p, qn)
  <2> DEFINE rp == Reverse(p)
             rq == Reverse(qn)
  <2>1. /\ rp = [i \in 1..Len(p) |-> p[(Len(p) - i) + 1]]
        /\ rq = [i \in 1..Len(qn) |-> qn[(Len(qn) - i) + 1]]
    BY DEF Reverse
  <2> HIDE DEF rp, rq
  <2>2. IsSeq(rp) /\ Len(rp) = Len(p) /\ IsSeq(rq) /\ Len(rq) = Len(qn)
    <3>1. rp = [i \in 1..Len(p) |-> rp[i]] /\ rq = [i \in 1..Len(qn) |-> rq[i]]
      BY <2>1
    <3>2. Len(p) \in Nat /\ Len(qn) \in Nat
      BY <1>1, <1>4
    <3> QED
      BY <3>1, <3>2, PlacesAreSequence
  <2>3. Len(rp) <= Len(rq) /\ SubSeq(rp, 1, Len(rp)) = SubSeq(rq, 1, Len(rp))
    BY <1>7 DEF IsSuffix, IsPrefix, rp, rq
  <2>4. Len(rp) \in Nat /\ 1 <= Len(rp)
    BY <1>1, <1>2, <2>2
  <2>5. /\ Len(SubSeq(rp, 1, Len(rp))) = Len(rp)
        /\ SubSeq(rp, 1, Len(rp))[1] = rp[1]
    <3>1. /\ Len(SubSeq(rp, 1, Len(rp))) = IF 1 <= Len(rp) THEN Len(rp) - 1 + 1 ELSE 0
          /\ \A i \in 1..Len(SubSeq(rp, 1, Len(rp))) : SubSeq(rp, 1, Len(rp))[i] = rp[1 + i - 1]
      BY <2>2, <2>4, Cut
    <3> QED
      BY <2>4, <3>1
  <2>6. SubSeq(rq, 1, Len(rp))[1] = rq[1]
    <3>1. /\ Len(SubSeq(rq, 1, Len(rp))) = IF 1 <= Len(rp) THEN Len(rp) - 1 + 1 ELSE 0
          /\ \A i \in 1..Len(SubSeq(rq, 1, Len(rp))) : SubSeq(rq, 1, Len(rp))[i] = rq[1 + i - 1]
      BY <2>2, <2>3, <2>4, Cut
    <3> QED
      BY <2>4, <3>1
  <2>7. rp[1] = rq[1]
    BY <2>3, <2>5, <2>6
  <2>8. rp[1] = p[Len(p)] /\ rq[1] = qn[Len(qn)]
    <3>1. 1 \in 1..Len(p) /\ (Len(p) - 1) + 1 = Len(p)
      BY <1>1, <1>2
    <3>2. 1 \in 1..Len(qn) /\ (Len(qn) - 1) + 1 = Len(qn)
      BY <1>4
    <3> QED
      BY <2>1, <3>1, <3>2
  <2> QED
    BY <1>4, <2>7, <2>8 DEF Last, p
<1> QED
  BY <1>5, <1>6, <1>7

\* A whole search lists every public symbol that matches.
LEMMA WholeSearchIsPublic ==
    ASSUME NEW d, WellKept(d), NoFile \notin d.withheld, NEW q,
           q.path \in Seq(STRING) \ {<<>>}, NEW seen,
           seen = FindResult(d, Presence(d), NamesIn(d), q, 4)
    PROVE  FoundIsPublic(d, PublicFacts(d), seen, q)
<1> DEFINE view == Presence(d)
           facts == PublicFacts(d)
           F == Found(d, view, NamesIn(d), q)
           hit(s) == SymbolHit(d, view, s)
           listed == {seen[i].symbol : i \in {j \in DOMAIN seen : "symbol" \in DOMAIN seen[j]}}
           exact(s) == \/ ~IsQualified(q) /\ d.name[s] = Last(q.path)
                       \/ IsQualified(q) /\ QualifiedMatches(q, Qualified(d, s))
           run(s) == ContainsRun(Components[d.name[s]], Components[Last(q.path)])
           runs(s) == ContainsRun(ComponentsOf(Qualified(d, s)), ComponentsOf(q.path))
           public == {s \in DOMAIN facts.symbols :
                        /\ facts.symbols[s] # "implicit_hidden"
                        /\ \/ /\ ~IsQualified(q)
                              /\ d.name[s] = Last(q.path) \/ run(s)
                           \/ /\ IsQualified(q)
                              /\ QualifiedMatches(q, Qualified(d, s)) \/ (run(s) /\ runs(s))}
<1>1. Lists(seen, {hit(s) : s \in F} \cup {[path |-> f] : f \in MatchingFiles(d, q)})
  BY ListsFindResult
<1>2. DOMAIN seen = 1..Len(seen) /\ Len(seen) \in Nat
  BY <1>1, ListsSet DEF Lists
<1>3. /\ \A s : hit(s).symbol = s /\ "symbol" \in DOMAIN hit(s)
      /\ \A f : "symbol" \notin DOMAIN [path |-> f]
  BY DEF SymbolHit
<1> HIDE DEF hit
<1>4. listed = F
  <2>1. ASSUME NEW i \in 1..Len(seen), "symbol" \in DOMAIN seen[i]
        PROVE  seen[i].symbol \in F
    <3>1. PICK s \in F : seen[i] = hit(s)
      BY <1>1, <1>3, <2>1 DEF Lists
    <3> QED
      BY <1>3, <3>1
  <2>2. ASSUME NEW s \in F
        PROVE  \E i \in 1..Len(seen) : "symbol" \in DOMAIN seen[i] /\ seen[i].symbol = s
    <3>1. PICK i \in 1..Len(seen) : seen[i] = hit(s)
      BY <1>1 DEF Lists
    <3> QED
      BY <1>3, <3>1
  <2> HIDE DEF F
  <2> QED
    BY <1>2, <2>1, <2>2
<1>5. \A s : s \in F <=> /\ s \in d.symbols /\ Searchable(view, s)
                         /\ \/ /\ d.name[s] = Last(q.path)
                               /\ IsQualified(q) => QualifiedMatches(q, Qualified(d, s))
                            \/ /\ run(s)
                               /\ IsQualified(q) => runs(s)
  <2>1. \A s \in d.symbols : d.name[s] \in NamesIn(d)
    BY DEF NamesIn
  <2> QED
    BY <2>1 DEF Found, Named, ComponentMatches
<1>6. \A s \in d.symbols : QualifiedMatches(q, Qualified(d, s)) => d.name[s] = Last(q.path)
  <2> TAKE s \in d.symbols
  <2> HAVE QualifiedMatches(q, Qualified(d, s))
  <2>1. d.owners[s] \in Seq(STRING)
    BY DEF WellKept
  <2>2. QualifiedMatches(q, Append(d.owners[s], d.name[s]))
    BY DEF Qualified
  <2> QED
    BY <2>1, <2>2, MatchedNameIsLast
<1>7. \A s : s \in d.symbols /\ Searchable(view, s) <=>
               s \in DOMAIN facts.symbols /\ facts.symbols[s] # "implicit_hidden"
  <2>1. /\ DOMAIN facts.symbols = {s \in d.symbols : IsPublic(view, s)}
        /\ \A s \in d.symbols : IsPublic(view, s) => facts.symbols[s] = view[s]
    BY ProjectionsAgree
  <2> HIDE DEF facts, view
  <2> QED
    BY <2>1 DEF Searchable, IsPublic
<1> HIDE DEF run, runs, facts, view, F
<1>8. \A s : s \in F <=> s \in public
  BY <1>5, <1>6, <1>7
<1> HIDE DEF listed
<1>9. listed = public
  BY <1>4, <1>8
<1> QED
  BY <1>9 DEF FoundIsPublic, listed, facts, run, runs

-----------------------------------------------------------------------------
(* What an answer shows, besides its page.                                 *)

\* The records of a whole trace are of public symbols.
LEMMA WholeTraceIsPublic ==
    ASSUME NEW d, WellKept(d), NEW start, NEW incoming, NEW depth \in Nat, NEW w,
           w = WholeTrace(d, start, incoming, depth)
    PROVE  \A i \in 1..Len(w) : w[i].other \in d.symbols /\ IsPublic(Presence(d), w[i].other)
<1> DEFINE v == [db |-> d, view |-> Presence(d), start |-> start,
                 incoming |-> incoming, depth |-> depth]
           a == Ample(v)
<1>1. Environment(v) /\ v.db = d /\ v.view = Presence(d)
  BY DEF Environment
<1>2. w = Traversal(v, a).records
  BY DEF WholeTrace, Ample
<1>3. a.limit \in Nat /\ a.clock \in Nat
  BY FS_CardinalityType DEF WellKept, Ample
<1> HIDE DEF v, a
<1>4. TraceState(v, a, Traversal(v, a))
  BY <1>1, <1>3, TraversalState
<1> QED
  BY <1>1, <1>2, <1>4 DEF TraceState

CallsInto(d, start) == {u \in d.sites : u.owner = start /\ ~Hidden(d, u.file)}

\* The symbol a trace is asked for, when there is one.
StartOf(d, req) ==
    IF "id" \in DOMAIN req.selector THEN req.selector.id
    ELSE NameMatches(d, Presence(d), req.selector)[1]

\* An answer that is a trace is one from that symbol, which is public.
TraceOfPublic(d, req, extra) ==
    \E start \in d.symbols :
        /\ start = StartOf(d, req) /\ IsPublic(Presence(d), start)
        /\ WholeResult(d, req) = WholeTrace(d, start, req.incoming, req.depth)
        /\ extra \subseteq CallsInto(d, start)

Shown(d, c, r) ==
    /\ r.code = "find_code" => c.req.tool = "find_code"
    /\ r.code = "file_api" =>
          /\ c.req.tool = "file_api" /\ ~Hidden(d, c.req.file)
          /\ r.extra = FileIncludes(d, c.req.file)
    /\ r.code = "ambiguous_selector" =>
          WholeResult(d, c.req) = Hits(d, Presence(d), NameMatches(d, Presence(d), c.req.selector))
    /\ r.code = "trace_calls" => c.req.depth \in Nat /\ TraceOfPublic(d, c.req, r.extra)

LEMMA RefusalShows ==
    ASSUME NEW code, code \notin PageCodes, Refuse(call, code), NEW d
    PROVE  Shown(d, call, reply')
<1>1. reply'.code = code
  BY DEF Refuse
<1> QED
  BY <1>1 DEF Shown, PageCodes

LEMMA FinishShows ==
    ASSUME NEW tool, NEW code, NEW args, NEW result, NEW why, NEW pos, NEW extra, NEW noted,
           Finish(call, tool, code, args, result, why, pos, extra, noted)
    PROVE  reply'.code = code /\ reply'.extra = extra
BY DEF Finish

LEMMA FindShows ==
    ASSUME NEW d, NEW view, call.req.tool = "find_code", FindCode(call, d, view)
    PROVE  Shown(d, call, reply')
<1>1. \/ \E code : code \notin PageCodes /\ Refuse(call, code)
      \/ \E args, result, why, pos, noted :
            Finish(call, "find_code", "find_code", args, result, why, pos, {}, noted)
  <2>1. {"invalid_limit", "invalid_cursor", "cursor_expired"} \cap PageCodes = {}
    BY DEF PageCodes
  <2> QED
    BY <2>1, AcceptSays DEF FindCode
<1>2. CASE \E code : code \notin PageCodes /\ Refuse(call, code)
  BY <1>2, RefusalShows
<1>3. CASE \E args, result, why, pos, noted :
              Finish(call, "find_code", "find_code", args, result, why, pos, {}, noted)
  BY <1>3, FinishShows DEF Shown
<1> QED
  BY <1>1, <1>2, <1>3

LEMMA FileShows ==
    ASSUME NEW d, NEW view, call.req.tool = "file_api", FileApi(call, d, view)
    PROVE  Shown(d, call, reply')
<1>1. \/ \E code : code \notin PageCodes /\ Refuse(call, code)
      \/ /\ ~Hidden(d, call.req.file)
         /\ \E args, result, why, pos, noted :
               Finish(call, "file_api", "file_api", args, result, why, pos,
                      FileIncludes(d, call.req.file), noted)
  <2>1. {"invalid_limit", "file_not_indexed", "invalid_cursor", "cursor_expired"} \cap PageCodes = {}
    BY DEF PageCodes
  <2> QED
    BY <2>1, AcceptSays DEF FileApi
<1>2. CASE \E code : code \notin PageCodes /\ Refuse(call, code)
  BY <1>2, RefusalShows
<1>3. CASE /\ ~Hidden(d, call.req.file)
           /\ \E args, result, why, pos, noted :
                 Finish(call, "file_api", "file_api", args, result, why, pos,
                        FileIncludes(d, call.req.file), noted)
  BY <1>3, FinishShows DEF Shown
<1> QED
  BY <1>1, <1>2, <1>3

LEMMA TraceShows ==
    ASSUME NEW d, NEW view, NEW start, Trace(call, d, view, start)
    PROVE  \/ \E code : code \notin PageCodes /\ Refuse(call, code)
           \/ reply'.code = "trace_calls" /\ reply'.extra \subseteq CallsInto(d, start)
<1>1. \/ \E code : code \notin PageCodes /\ Refuse(call, code)
      \/ \E args, result, why, pos, extra, noted :
            /\ extra \subseteq CallsInto(d, start)
            /\ Finish(call, "trace_calls", "trace_calls", args, result, why, pos, extra, noted)
  <2>1. {"invalid_cursor", "cursor_expired"} \cap PageCodes = {}
    BY DEF PageCodes
  <2> DEFINE verdict == Accept(call, "trace_calls", TraceArgs(call, start))
  <2>2. verdict \in {"ok", "invalid_cursor", "cursor_expired"}
    BY AcceptSays
  <2>3. CASE verdict # "ok"
    <3>1. Refuse(call, verdict)
      BY <2>3 DEF Trace
    <3> QED
      BY <2>1, <2>2, <2>3, <3>1
  <2>4. CASE verdict = "ok"
    <3>1. (IF ~call.req.incoming /\ Position(call).returned = 0 THEN CallsInto(d, start) ELSE {})
            \subseteq CallsInto(d, start)
      OBVIOUS
    <3> QED
      BY <2>4, <3>1 DEF Trace, TraceReply, CallsInto
  <2> QED
    BY <2>3, <2>4
<1> QED
  BY <1>1, FinishShows

LEMMA AmbiguousShows ==
    ASSUME NEW d, NEW view, NEW found, Ambiguous(call, d, view, found)
    PROVE  \/ \E code : code \notin PageCodes /\ Refuse(call, code)
           \/ reply'.code = "ambiguous_selector"
<1>1. {"invalid_cursor", "cursor_expired"} \cap PageCodes = {}
  BY DEF PageCodes
<1>2. \/ \E code : code \notin PageCodes /\ Refuse(call, code)
      \/ \E args, result, why, pos, noted :
            Finish(call, "trace_calls", "ambiguous_selector", args, result, why, pos, {}, noted)
  BY <1>1, AcceptSays DEF Ambiguous
<1> QED
  BY <1>2, FinishShows

LEMMA TracesShow ==
    ASSUME NEW d, WellKept(d), call.req.tool = "trace_calls", call.req.depth \in Nat,
           TraceCalls(call, d, Presence(d))
    PROVE  Shown(d, call, reply')
<1> DEFINE view == Presence(d)
           sel == call.req.selector
           named == NameMatches(d, view, sel)
           byId == "id" \in DOMAIN sel
           found == IF byId
                    THEN (IF sel.id \in d.symbols /\ IsPublic(view, sel.id) THEN <<sel.id>> ELSE <<>>)
                    ELSE named
           whole == IF byId THEN <<sel.id>> ELSE named
           trace(x) == WholeTrace(d, x, call.req.incoming, call.req.depth)
<1>1. \/ call.limit = 0 /\ Refuse(call, "invalid_limit")
      \/ found = <<>> /\ Refuse(call, "unknown_selector")
      \/ found # <<>> /\ Len(found) = 1 /\ Trace(call, d, view, found[1])
      \/ found # <<>> /\ Len(found) # 1 /\ Ambiguous(call, d, view, found)
  BY DEF TraceCalls
<1>2. WholeResult(d, call.req) =
        IF Len(whole) > 1 THEN Hits(d, view, whole) ELSE trace(whole[1])
  BY DEF WholeResult, Hits
<1>3. {"invalid_limit", "unknown_selector"} \cap PageCodes = {}
  BY DEF PageCodes
<1>4. Lists(named, Named(d, view, sel))
  BY ListsNameMatches
<1>5. found # <<>> => whole = found
  OBVIOUS
<1>6. \A x : Len(<<x>>) = 1 /\ <<x>>[1] = x
  BY ShortSequences
<1>7. byId /\ found # <<>> => found = <<sel.id>> /\ sel.id \in d.symbols /\ IsPublic(view, sel.id)
  OBVIOUS
<1>8. ~byId => found = named
  OBVIOUS
<1> HIDE DEF found, whole, named, byId, trace
<1>9. CASE \E code : code \notin PageCodes /\ Refuse(call, code)
  BY <1>9, RefusalShows
<1>10. CASE found # <<>> /\ Len(found) = 1 /\ Trace(call, d, view, found[1])
  <2>1. found[1] \in d.symbols /\ IsPublic(view, found[1])
    <3>1. CASE byId
      BY <1>6, <1>7, <1>10, <3>1
    <3>2. CASE ~byId
      <4>1. found[1] \in Named(d, view, sel)
        BY <1>4, <1>8, <1>10, <3>2 DEF Lists
      <4> QED
        BY <4>1 DEF Named, Searchable, IsPublic
    <3> QED
      BY <3>1, <3>2
  <2>2. WholeResult(d, call.req) = trace(found[1])
    <3>1. ~(Len(found) > 1)
      BY <1>10
    <3> QED
      BY <1>2, <1>5, <1>10, <3>1
  <2>3. CASE reply'.code = "trace_calls" /\ reply'.extra \subseteq CallsInto(d, found[1])
    <3>1. found[1] = StartOf(d, call.req)
      BY <1>6, <1>7, <1>8, <1>10 DEF StartOf, byId, named
    <3>2. TraceOfPublic(d, call.req, reply'.extra)
      BY <2>1, <2>2, <2>3, <3>1 DEF TraceOfPublic, trace
    <3> QED
      BY <2>3, <3>2 DEF Shown
  <2> QED
    BY <1>9, <1>10, <2>3, TraceShows
<1>11. CASE found # <<>> /\ Len(found) # 1 /\ Ambiguous(call, d, view, found)
  <2>1. ~byId /\ found = named
    BY <1>6, <1>7, <1>8, <1>11
  <2>2. Len(found) > 1
    <3>1. IsSeq(found) /\ Len(found) \in Nat
      BY <1>4, <2>1 DEF Lists
    <3>2. Len(found) # 0
      <4>1. IsSeq(<<>>) /\ Len(<<>>) = 0
        BY ShortSequences
      <4> QED
        BY <1>11, <3>1, <4>1, SameSequence
    <3>3. \A k \in Nat : k # 0 /\ k # 1 => k > 1
      OBVIOUS
    <3> QED
      BY <1>11, <3>1, <3>2, <3>3
  <2>3. WholeResult(d, call.req) = Hits(d, view, named)
    BY <1>2, <1>5, <1>11, <2>1, <2>2
  <2>4. CASE reply'.code = "ambiguous_selector"
    BY <2>3, <2>4 DEF Shown, named
  <2> QED
    BY <1>9, <1>11, <2>4, AmbiguousShows
<1> QED
  BY <1>1, <1>3, <1>9, <1>10, <1>11

LEMMA AnswerShows ==
    ASSUME QueryInv, Answer
    PROVE  Shown(Snapshot(call), call, reply')
<1> DEFINE d == Snapshot(call)
           view == Presence(d)
<1>1. call # NoCall /\ WellKept(d)
  BY SnapshotRows DEF Answer
<1>2. /\ call.req.tool = "find_code" => FindCode(call, d, view)
      /\ call.req.tool = "trace_calls" => TraceCalls(call, d, view)
      /\ call.req.tool = "file_api" => FileApi(call, d, view)
  BY DEF Answer
<1>3. /\ call.req.tool \in {"find_code", "trace_calls", "file_api"}
      /\ call.req.tool = "trace_calls" => call.req.depth \in Nat
  BY <1>1, StoresAssumption DEF QueryInv, CallInv
<1> HIDE DEF d
<1> QED
  BY <1>1, <1>2, <1>3, FindShows, TracesShow, FileShows DEF d

-----------------------------------------------------------------------------
(* Every page is a subset of the public projection.                        *)

PublicPage(d, r) ==
    LET facts == PublicFacts(d)
        page == r.page
    IN  CASE r.code = "find_code" ->
               /\ \A i \in DOMAIN page : HitIsPublic(d, facts, page[i])
               /\ ~r.more => FoundIsPublic(d, facts, r.seen, r.req.query)
          [] r.code = "file_api" ->
               /\ \A i \in DOMAIN page : EntryIsPublic(d, facts, page[i], r.req.file)
               /\ ~r.more => {r.seen[i].symbol.symbol : i \in DOMAIN r.seen} =
                    {s \in DOMAIN facts.symbols :
                        \E l \in facts.locations[s] : l.file = r.req.file /\ l.role # "implicit"}
               /\ r.extra = {i \in facts.includes : i.includer = r.req.file}
          [] r.code = "ambiguous_selector" ->
               \A i \in DOMAIN page : HitIsPublic(d, facts, page[i])
          [] OTHER ->
               /\ \A i \in DOMAIN page : page[i].other \in DOMAIN facts.symbols
               /\ r.extra \subseteq facts.sites

LEMMA FindPage ==
    ASSUME NEW d, WellKept(d), NoFile \notin d.withheld, NEW c, c.req.tool = "find_code",
           c.req.query.path \in Seq(STRING) \ {<<>>},
           NEW r, r.code = "find_code", Paged(c, WholeResult(d, c.req), r)
    PROVE  PublicPage(d, r)
<1> DEFINE view == Presence(d)
           facts == PublicFacts(d)
           q == c.req.query
           w == FindResult(d, view, NamesIn(d), q, 4)
           S == Found(d, view, NamesIn(d), q)
           M == MatchingFiles(d, q)
<1>1. WholeResult(d, c.req) = w
  BY DEF WholeResult, NamesIn
<1>2. /\ r.req = c.req
      /\ ~r.more => r.seen = w
      /\ \A i \in DOMAIN r.page : \E k \in 1..Len(w) : r.page[i] = w[k]
  BY <1>1 DEF Paged
<1>3. Lists(w, {SymbolHit(d, view, s) : s \in S} \cup {[path |-> f] : f \in M})
  BY ListsFindResult
<1>4. \A s \in S : s \in d.symbols /\ IsPublic(view, s)
  BY DEF Found, Named, ComponentMatches, Searchable, IsPublic
<1>5. \A f \in M : f \in d.files /\ ~Hidden(d, f)
  BY DEF MatchingFiles
<1>6. \A s \in S : HitIsPublic(d, facts, SymbolHit(d, view, s))
  BY <1>4, HitOfPublicSymbol
<1>7. \A f \in M : HitIsPublic(d, facts, [path |-> f])
  BY <1>5, HitOfVisibleFile
<1> HIDE DEF S, M, facts, view
<1>8. FoundIsPublic(d, facts, w, q)
  BY WholeSearchIsPublic DEF facts, view
<1> HIDE DEF w
<1>9. \A i \in DOMAIN r.page : HitIsPublic(d, facts, r.page[i])
  BY <1>2, <1>3, <1>6, <1>7 DEF Lists
<1>10. ~r.more => FoundIsPublic(d, facts, r.seen, r.req.query)
  BY <1>2, <1>8
<1> QED
  BY <1>9, <1>10 DEF PublicPage, facts

LEMMA FilePage ==
    ASSUME NEW d, WellKept(d), NoFile \notin d.withheld, NEW c, c.req.tool = "file_api",
           ~Hidden(d, c.req.file), NEW r, r.code = "file_api",
           r.extra = FileIncludes(d, c.req.file), Paged(c, WholeResult(d, c.req), r)
    PROVE  PublicPage(d, r)
<1> DEFINE view == Presence(d)
           facts == PublicFacts(d)
           f == c.req.file
           w == FileResult(d, view, f)
           S == Listed(d, view, f)
           entry(s) == FileEntry(d, view, s, f)
<1>1. WholeResult(d, c.req) = w
  BY DEF WholeResult
<1>2. /\ r.req = c.req
      /\ ~r.more => r.seen = w
      /\ \A i \in DOMAIN r.page : \E k \in 1..Len(w) : r.page[i] = w[k]
  BY <1>1 DEF Paged
<1>3. Lists(w, {entry(s) : s \in S})
  BY ListsFileResult
<1>4. \A s \in S : EntryIsPublic(d, facts, entry(s), f) /\ entry(s).symbol.symbol = s
  BY EntryOfListedSymbol
<1>5. S = {s \in DOMAIN facts.symbols :
             \E l \in facts.locations[s] : l.file = f /\ l.role # "implicit"}
  <2>1. /\ DOMAIN facts.symbols = {s \in d.symbols : IsPublic(view, s)}
        /\ \A s \in d.symbols : IsPublic(view, s) =>
              facts.locations[s] = {l \in d.locations[s] : ~Hidden(d, l.file)}
    BY ProjectionsAgree DEF VisibleLocations
  <2> HIDE DEF facts, view
  <2> QED
    BY <2>1 DEF Listed, DeclaredIn
<1>6. r.extra = {i \in facts.includes : i.includer = f}
  <2>1. facts.includes = {i \in d.includes : \A g \in {i.includer, i.at, i.target} : ~Hidden(d, g)}
    BY ProjectionsAgree
  <2> HIDE DEF facts
  <2> QED
    BY <2>1 DEF FileIncludes
<1> HIDE DEF S, facts, view, w, entry
<1>7. \A i \in DOMAIN r.page : EntryIsPublic(d, facts, r.page[i], f)
  BY <1>2, <1>3, <1>4 DEF Lists
<1>8. {w[i].symbol.symbol : i \in DOMAIN w} = S
  <2>1. DOMAIN w = 1..Len(w)
    BY <1>3, ListsSet
  <2>2. \A i \in 1..Len(w) : w[i].symbol.symbol \in S
    BY <1>3, <1>4 DEF Lists
  <2>3. \A s \in S : \E i \in 1..Len(w) : w[i].symbol.symbol = s
    BY <1>3, <1>4 DEF Lists
  <2> QED
    BY <2>1, <2>2, <2>3
<1> QED
  BY <1>2, <1>5, <1>6, <1>7, <1>8 DEF PublicPage, facts

LEMMA CandidatesPage ==
    ASSUME NEW d, WellKept(d), NoFile \notin d.withheld, NEW c, NEW r,
           r.code = "ambiguous_selector",
           WholeResult(d, c.req) = Hits(d, Presence(d), NameMatches(d, Presence(d), c.req.selector)),
           Paged(c, WholeResult(d, c.req), r)
    PROVE  PublicPage(d, r)
<1> DEFINE view == Presence(d)
           facts == PublicFacts(d)
           named == NameMatches(d, view, c.req.selector)
           w == Hits(d, view, named)
           S == Named(d, view, c.req.selector)
<1>1. \A i \in DOMAIN r.page : \E k \in 1..Len(w) : r.page[i] = w[k]
  BY DEF Paged
<1>2. Lists(w, {SymbolHit(d, view, s) : s \in S})
  BY ListsNameMatches, ListsHits
<1>3. \A s \in S : s \in d.symbols /\ IsPublic(view, s)
  BY DEF Named, Searchable, IsPublic
<1>4. \A s \in S : HitIsPublic(d, facts, SymbolHit(d, view, s))
  BY <1>3, HitOfPublicSymbol
<1> HIDE DEF S, facts, view, w
<1>5. \A i \in DOMAIN r.page : HitIsPublic(d, facts, r.page[i])
  BY <1>1, <1>2, <1>4 DEF Lists
<1> QED
  BY <1>5 DEF PublicPage, facts

LEMMA TracePage ==
    ASSUME NEW d, WellKept(d), NoFile \notin d.withheld, NEW c, c.req.depth \in Nat, NEW r,
           r.code = "trace_calls", TraceOfPublic(d, c.req, r.extra),
           Paged(c, WholeResult(d, c.req), r)
    PROVE  PublicPage(d, r)
<1> DEFINE view == Presence(d)
           facts == PublicFacts(d)
<1>1. PICK start \in d.symbols :
         /\ IsPublic(view, start)
         /\ WholeResult(d, c.req) = WholeTrace(d, start, c.req.incoming, c.req.depth)
         /\ r.extra \subseteq CallsInto(d, start)
  BY DEF TraceOfPublic
<1> DEFINE w == WholeTrace(d, start, c.req.incoming, c.req.depth)
<1>2. \A i \in DOMAIN r.page : \E k \in 1..Len(w) : r.page[i] = w[k]
  BY <1>1 DEF Paged
<1>3. \A k \in 1..Len(w) : w[k].other \in d.symbols /\ IsPublic(view, w[k].other)
  BY WholeTraceIsPublic
<1>4. /\ DOMAIN facts.symbols = {s \in d.symbols : IsPublic(view, s)}
      /\ facts.sites = {u \in d.sites : ~Hidden(d, u.file) /\ u.owner \notin WithheldSymbols(d)}
  BY ProjectionsAgree
<1>5. start \notin WithheldSymbols(d)
  <2>1. view = [s \in d.symbols |-> IF s \in WithheldSymbols(d) THEN "none" ELSE LocatedPresence(d, s)]
    BY PresenceSays
  <2> HIDE DEF view
  <2> QED
    BY <1>1, <2>1 DEF IsPublic
<1> HIDE DEF w, facts, view
<1>6. \A i \in DOMAIN r.page : r.page[i].other \in DOMAIN facts.symbols
  BY <1>2, <1>3, <1>4
<1>7. r.extra \subseteq facts.sites
  BY <1>1, <1>4, <1>5 DEF CallsInto
<1> QED
  BY <1>6, <1>7 DEF PublicPage, facts

\* What is excluded are paths, and a location outside the workspace is none.
PathsInv ==
    /\ NoFile \notin excluded
    /\ call # NoCall => NoFile \notin call.excluded

LEMMA PathsStep ==
    ASSUME PathsInv, [QueryNext]_queryVars
    PROVE  PathsInv'
<1>1. CASE UNCHANGED queryVars
  BY <1>1 DEF queryVars, PathsInv
<1>2. ASSUME NEW req, NEW limit, NEW continuing, NEW nodes, Begin(req, limit, nodes, continuing)
      PROVE  PathsInv'
  <2>1. excluded' = excluded /\ call'.excluded = excluded
    BY <1>2 DEF Begin
  <2> QED
    BY <2>1 DEF PathsInv
<1>3. CASE Answer
  BY <1>3 DEF Answer, PathsInv
<1>4. ASSUME NEW to, Publish(to)
      PROVE  PathsInv'
  BY <1>4 DEF Publish, PathsInv
<1>5. ASSUME NEW files \in Exclusions, SetExcluded(files)
      PROVE  PathsInv'
  <2>1. NoFile \notin files
    BY StoresAssumption
  <2> QED
    BY <1>5, <2>1 DEF SetExcluded, PathsInv
<1>6. ASSUME NEW f, TouchFile(f)
      PROVE  PathsInv'
  BY <1>6 DEF TouchFile, PathsInv
<1> QED
  BY <1>1, <1>2, <1>3, <1>4, <1>5, <1>6 DEF QueryNext

LEMMA SnapshotPaths ==
    ASSUME QueryInv, PathsInv, call # NoCall
    PROVE  NoFile \notin Snapshot(call).withheld
<1>1. call.db \in DOMAIN Database /\ WellKept(Database[call.db])
  BY StoresAssumption DEF QueryInv, CallInv
<1>2. Snapshot(call).withheld = Withheld(Database[call.db], call.excluded, disk)
  BY <1>1, SeenRows DEF Snapshot
<1>3. Database[call.db].files \subseteq Nat \ {NoFile}
  BY <1>1 DEF WellKept
<1> QED
  BY <1>2, <1>3 DEF Withheld, PathsInv

PublicInv == reply.code \in PageCodes => PublicPage(Snapshot(reply.snap), reply)

LEMMA PublicStep ==
    ASSUME QueryInv, PathsInv, PublicInv, [QueryNext]_queryVars
    PROVE  PublicInv'
<1>1. CASE UNCHANGED queryVars
  BY <1>1 DEF queryVars, PublicInv, Snapshot
<1>2. CASE reply' = NoReply
  <2>1. reply'.code \notin PageCodes
    BY <1>2 DEF NoReply, PageCodes
  <2> QED
    BY <2>1 DEF PublicInv
<1>3. CASE Answer
  <2> SUFFICES ASSUME reply'.code \in PageCodes
               PROVE  PublicInv'
    BY DEF PublicInv
  <2> DEFINE d == Snapshot(call)
             w == WholeResult(d, call.req)
  <2>1. call # NoCall /\ Told /\ disk' = disk
    BY <1>3, AnswerOutcome
  <2>2. Paged(call, w, reply') /\ reply'.snap = call
    BY <2>1 DEF Told, Paged
  <2>3. Snapshot(reply.snap)' = d
    BY <2>1, <2>2 DEF Snapshot
  <2>4. WellKept(d) /\ NoFile \notin d.withheld
    BY <2>1, SnapshotRows, SnapshotPaths
  <2>5. Shown(d, call, reply')
    BY <1>3, AnswerShows
  <2>6. call.req.tool = "find_code" => call.req.query.path \in Seq(STRING) \ {<<>>}
    BY <2>1, StoresAssumption DEF QueryInv, CallInv
  <2> HIDE DEF d
  <2>7. PublicPage(d, reply')
    <3>1. CASE reply'.code = "find_code"
      BY <2>2, <2>4, <2>5, <2>6, <3>1, FindPage DEF Shown
    <3>2. CASE reply'.code = "file_api"
      BY <2>2, <2>4, <2>5, <3>2, FilePage DEF Shown
    <3>3. CASE reply'.code = "ambiguous_selector"
      BY <2>2, <2>4, <2>5, <3>3, CandidatesPage DEF Shown
    <3>4. CASE reply'.code = "trace_calls"
      BY <2>2, <2>4, <2>5, <3>4, TracePage DEF Shown
    <3> QED
      BY <3>1, <3>2, <3>3, <3>4 DEF PageCodes
  <2> QED
    BY <2>3, <2>7 DEF PublicInv
<1>4. \/ UNCHANGED queryVars \/ Answer \/ reply' = NoReply
  BY DEF QueryNext, Begin, Publish, SetExcluded, TouchFile
<1> QED
  BY <1>1, <1>2, <1>3, <1>4

\* Every result equals the corresponding subset of the public projection for
\* its snapshot and the files on disk: no record names a withheld symbol,
\* location, file or include, and a whole search or listing has them all.
THEOREM ResultsArePublicInvariant == QuerySpec => []ResultsArePublic
<1>1. QueryInit => PathsInv /\ PublicInv
  BY DEF QueryInit, PathsInv, PublicInv, NoReply, PageCodes
<1>2. QueryInv /\ PathsInv /\ PublicInv /\ [QueryNext]_queryVars => (PathsInv /\ PublicInv)'
  BY PathsStep, PublicStep
<1>3. PublicInv => ResultsArePublic
  <2> SUFFICES ASSUME PublicInv, PageGiven
               PROVE  ResultsArePublic
    BY DEF ResultsArePublic
  <2>1. PublicPage(Snapshot(reply.snap), reply)
    BY DEF PublicInv, PageGiven, PageCodes
  <2> QED
    BY <2>1 DEF ResultsArePublic, PublicPage, Answered
<1> QED
  BY <1>1, <1>2, <1>3, PagesInvariant, PTL DEF QuerySpec



-----------------------------------------------------------------------------
(* The override relation.  AllBases is the least set that the public       *)
(* override relations lead to, and override_closure finds it.              *)

Over(facts, S) == {r.target : r \in {q \in PublicOf(facts, "overrides") : q.source \in S}}

OverSteps(facts, s, n, f) ==
    /\ f[0] = Over(facts, {s})
    /\ \A i \in 1..n : f[i] = f[i - 1] \cup Over(facts, f[i - 1])
    /\ AllBases(facts, s) = f[n] \ {s}

LEMMA BasesStepwise ==
    ASSUME NEW facts, NEW s, NEW n, n = Cardinality(PublicOf(facts, "overrides")), n \in Nat
    PROVE  \E f : OverSteps(facts, s, n, f)
<1> DEFINE Base == Over(facts, {s})
           Step(x) == x \cup Over(facts, x)
           Rec(g, k) == g = [i \in 0..k |-> IF i = 0 THEN Base ELSE Step(g[i - 1])]
           F == CHOOSE g : Rec(g, n)
<1>1. AllBases(facts, s) = F[n] \ {s}
  BY DEF AllBases, Over
<1> HIDE DEF Base, Step
<1>2. Rec([i \in 0..0 |-> Base], 0)
  OBVIOUS
<1>3. ASSUME NEW k \in Nat, NEW g, Rec(g, k)
      PROVE  \E h : Rec(h, k + 1)
  <2> DEFINE h == [i \in 0..(k + 1) |-> IF i = k + 1 THEN Step(g[k]) ELSE g[i]]
  <2>1. \A i \in 0..(k + 1) : h[i] = IF i = 0 THEN Base ELSE Step(h[i - 1])
    <3> TAKE i \in 0..(k + 1)
    <3>1. CASE i = k + 1
      BY <3>1
    <3>2. CASE i # k + 1
      <4>1. i \in 0..k /\ h[i] = g[i] /\ (i # 0 => i - 1 \in 0..k /\ h[i - 1] = g[i - 1])
        BY <3>2
      <4>2. g[i] = IF i = 0 THEN Base ELSE Step(g[i - 1])
        BY <1>3, <4>1
      <4> QED
        BY <4>1, <4>2
    <3> QED
      BY <3>1, <3>2
  <2>2. h = [i \in 0..(k + 1) |-> h[i]]
    OBVIOUS
  <2> HIDE DEF h
  <2>3. Rec(h, k + 1)
    BY <2>1, <2>2
  <2> QED
    BY <2>3
<1> DEFINE S == {k \in Nat : \E g : Rec(g, k)}
<1> HIDE DEF Rec
<1>4. 0 \in S
  BY <1>2
<1>5. \A k \in Nat : k \in S => k + 1 \in S
  BY <1>3
<1> HIDE DEF S
<1>6. \E g : Rec(g, n)
  BY <1>4, <1>5, NaturalsBySuccessor DEF S
<1>7. Rec(F, n)
  BY <1>6
<1> HIDE DEF F
<1>8. F[0] = Base /\ \A i \in 1..n : F[i] = Step(F[i - 1])
  BY <1>7 DEF Rec
<1>9. OverSteps(facts, s, n, F)
  BY <1>1, <1>8 DEF Base, Step, OverSteps
<1> QED
  BY <1>9

\* What the base relation leads to, and nothing that need not be.
LeastOver(facts, s, X) ==
    /\ Over(facts, {s}) \subseteq X
    /\ Over(facts, X) \subseteq X
    /\ \A C : Over(facts, {s}) \subseteq C /\ Over(facts, C) \subseteq C => X \subseteq C

LEMMA BasesAreLeast ==
    ASSUME NEW facts, IsFiniteSet(PublicOf(facts, "overrides")), NEW s
    PROVE  \E X : AllBases(facts, s) = X \ {s} /\ LeastOver(facts, s, X)
<1> DEFINE O == PublicOf(facts, "overrides")
           n == Cardinality(O)
<1>1. n \in Nat
  BY FS_CardinalityType
<1>2. \E f : OverSteps(facts, s, n, f)
  BY <1>1, BasesStepwise
<1>2a. PICK f : /\ f[0] = Over(facts, {s})
                /\ \A i \in 1..n : f[i] = f[i - 1] \cup Over(facts, f[i - 1])
                /\ AllBases(facts, s) = f[n] \ {s}
  BY <1>2 DEF OverSteps
<1>2b. IsFiniteSet(O)
  OBVIOUS
<1> DEFINE T == {q.target : q \in O}
<1>3. \A S : Over(facts, S) \subseteq T
  BY DEF Over
<1>4. \A R, S : R \subseteq S => Over(facts, R) \subseteq Over(facts, S)
  BY DEF Over
<1> HIDE DEF n
<1> DEFINE Small(S) == /\ S \subseteq T /\ Over(facts, {s}) \subseteq S
                       /\ \A C : Over(facts, {s}) \subseteq C /\ Over(facts, C) \subseteq C => S \subseteq C
           P == {k \in Nat : k <= n => Small(f[k])}
<1>4a. Small(f[0])
  BY <1>2a, <1>3
<1> HIDE DEF Small
<1>5. 0 \in P
  BY <1>4a
<1>6. \A k \in Nat : k \in P => k + 1 \in P
  <2> SUFFICES ASSUME NEW k \in Nat, k \in P, k + 1 <= n
               PROVE  Small(f[k + 1])
    OBVIOUS
  <2>1. Small(f[k])
    BY <1>1
  <2>2. f[k + 1] = f[k] \cup Over(facts, f[k])
    <3>1. k + 1 \in 1..n /\ (k + 1) - 1 = k
      BY <1>1
    <3> QED
      BY <1>2a, <3>1
  <2>3. ASSUME NEW C, Over(facts, {s}) \subseteq C, Over(facts, C) \subseteq C
        PROVE  f[k + 1] \subseteq C
    <3>1. f[k] \subseteq C
      BY <2>1, <2>3 DEF Small
    <3>2. Over(facts, f[k]) \subseteq Over(facts, C)
      BY <1>4, <3>1
    <3> QED
      BY <2>2, <2>3, <3>1, <3>2
  <2> HIDE DEF T
  <2> QED
    BY <1>3, <2>1, <2>2, <2>3 DEF Small
<1> HIDE DEF P
<1>7. \A k \in 0..n : Small(f[k])
  <2>1. \A k \in Nat : k \in P
    BY <1>5, <1>6, NaturalsBySuccessor
  <2> QED
    BY <1>1, <2>1 DEF P
<1> DEFINE h == [i \in 0..(n + 1) |-> IF i = n + 1 THEN f[n] \cup Over(facts, f[n]) ELSE f[i]]
<1>8. \A i \in 0..n : h[i] = f[i] /\ h[i + 1] = h[i] \cup Over(facts, h[i])
  <2> TAKE i \in 0..n
  <2>1. h[i] = f[i]
    BY <1>1
  <2>2. CASE i = n
    BY <1>1, <2>1, <2>2
  <2>3. CASE i # n
    <3>1. i + 1 \in 1..n /\ (i + 1) - 1 = i /\ i + 1 # n + 1 /\ i + 1 \in 0..(n + 1)
      BY <1>1, <2>3
    <3>2. h[i + 1] = f[i + 1]
      BY <3>1
    <3>3. f[i + 1] = f[i] \cup Over(facts, f[i])
      BY <1>2a, <3>1
    <3> QED
      BY <2>1, <3>2, <3>3
  <2> QED
    BY <2>2, <2>3
<1> HIDE DEF h
<1>9. \A i \in 0..(n + 1) : h[i] \subseteq T
  <2> TAKE i \in 0..(n + 1)
  <2>1. CASE i = n + 1
    <3>1. n \in 0..n
      BY <1>1
    <3>2. h[n + 1] = f[n] \cup Over(facts, f[n]) /\ f[n] \subseteq T
      BY <1>7, <1>8, <3>1 DEF Small
    <3> QED
      BY <1>3, <2>1, <3>2
  <2>2. CASE i # n + 1
    <3>1. i \in 0..n
      BY <1>1, <2>2
    <3> QED
      BY <1>7, <1>8, <3>1 DEF Small
  <2> QED
    BY <2>1, <2>2
<1> DEFINE g == [i \in 0..(n + 1) |-> {q \in O : q.target \in h[i]}]
<1>10. \A i \in 0..(n + 1) : g[i] = {q \in O : q.target \in h[i]}
  OBVIOUS
<1> HIDE DEF g
<1>11. \A i, j \in 0..(n + 1) : g[i] = g[j] => h[i] = h[j]
  <2> TAKE i, j \in 0..(n + 1)
  <2> HAVE g[i] = g[j]
  <2>1. h[i] \subseteq T /\ h[j] \subseteq T
    BY <1>9
  <2>2. {q \in O : q.target \in h[i]} = {q \in O : q.target \in h[j]}
    BY <1>10
  <2>3. \A x \in T : x \in h[i] <=> x \in h[j]
    <3> TAKE x \in T
    <3>1. PICK q \in O : x = q.target
      OBVIOUS
    <3>2. q \in {p \in O : p.target \in h[i]} <=> q \in {p \in O : p.target \in h[j]}
      BY <2>2
    <3> HIDE DEF O
    <3> QED
      BY <3>1, <3>2
  <2> HIDE DEF T
  <2> QED
    BY <2>1, <2>3
<1>12. \A i \in 0..(n + 1) : g[i] \subseteq O
  BY <1>10
<1>13. \A i \in 0..n : g[i] \subseteq g[i + 1]
  <2> TAKE i \in 0..n
  <2>1. i \in 0..(n + 1) /\ i + 1 \in 0..(n + 1)
    BY <1>1
  <2>2. h[i] \subseteq h[i + 1]
    BY <1>8
  <2> QED
    BY <1>10, <2>1, <2>2
<1>14. \A i \in 0..(n - 1) : g[i] = g[i + 1] => g[i + 1] = g[i + 2]
  <2> TAKE i \in 0..(n - 1)
  <2> HAVE g[i] = g[i + 1]
  <2>1. /\ i \in 0..n /\ i + 1 \in 0..n /\ (i + 1) + 1 = i + 2
        /\ i \in 0..(n + 1) /\ i + 1 \in 0..(n + 1) /\ i + 2 \in 0..(n + 1)
    BY <1>1
  <2>2. h[i] = h[i + 1]
    BY <1>11, <2>1
  <2>3. h[i + 1] = h[i] \cup Over(facts, h[i]) /\ h[i + 2] = h[i + 1] \cup Over(facts, h[i + 1])
    BY <1>8, <2>1
  <2>4. h[i + 2] = h[i + 1]
    BY <2>2, <2>3
  <2> QED
    BY <1>10, <2>1, <2>4
<1>15. g[n] = g[n + 1]
  <2> HIDE DEF O
  <2> QED
    BY <1>2b, <1>12, <1>13, <1>14, GrowthStops DEF n
<1>16. Over(facts, f[n]) \subseteq f[n]
  <2>1. n \in 0..n /\ n \in 0..(n + 1) /\ n + 1 \in 0..(n + 1)
    BY <1>1
  <2>2. h[n] = h[n + 1]
    BY <1>11, <1>15, <2>1
  <2> QED
    BY <1>8, <2>1, <2>2
<1>17. Small(f[n])
  BY <1>1, <1>7
<1>18. LeastOver(facts, s, f[n])
  BY <1>16, <1>17 DEF LeastOver, Small
<1> QED
  BY <1>2a, <1>18

-----------------------------------------------------------------------------
(* The environment of a public trace.                                      *)

PublicEnvironment(v) ==
    /\ Environment(v)
    /\ v.view = Presence(v.db)
    /\ NoFile \notin v.db.withheld
    /\ v.start \in v.db.symbols /\ IsPublic(v.view, v.start)

PublicRows(v) ==
    {r \in v.db.relations : /\ IsPublic(v.view, r.source) /\ IsPublic(v.view, r.target)
                            /\ VisibleEvidence(v, r) # {}}
AsFact(v, r) ==
    [source |-> r.source, target |-> r.target, kind |-> r.kind,
     confidence |-> r.confidence, evidence |-> VisibleEvidence(v, r)]

LEMMA RelationsSay ==
    ASSUME NEW v, PublicEnvironment(v)
    PROVE  LET facts == PublicFacts(v.db)
           IN  /\ facts.relations = {AsFact(v, r) : r \in PublicRows(v)}
               /\ IsFiniteSet(facts.relations)
               /\ DOMAIN facts.symbols = {s \in v.db.symbols : IsPublic(v.view, s)}
<1> DEFINE d == v.db
           facts == PublicFacts(d)
           gone == WithheldSymbols(d)
           visible(r) == {e \in r.evidence : ~Hidden(d, e.file)}
           kept == {r \in d.relations : /\ r.source \notin gone /\ r.target \notin gone
                                        /\ \E e \in r.evidence : ~Hidden(d, e.file)}
<1>1. WellKept(d) /\ NoFile \notin d.withheld /\ v.view = Presence(d)
  BY DEF PublicEnvironment, Environment
<1>2. \A s \in d.symbols : s \notin gone <=> IsPublic(v.view, s)
  <2>1. /\ v.view = [s \in d.symbols |-> IF s \in gone THEN "none" ELSE LocatedPresence(d, s)]
        /\ \A s \in d.symbols \ gone : LocatedPresence(d, s) # "none"
    BY <1>1, PresenceSays
  <2> HIDE DEF gone
  <2> QED
    BY <2>1 DEF IsPublic
<1>3. facts.relations = {[source |-> r.source, target |-> r.target, kind |-> r.kind,
                          confidence |-> r.confidence, evidence |-> visible(r)] : r \in kept}
  BY DEF PublicFacts
<1>4. \A r \in d.relations : r.source \in d.symbols /\ r.target \in d.symbols
  BY <1>1 DEF WellKept
<1>5. kept = PublicRows(v)
  <2>1. \A r : (\E e \in r.evidence : ~Hidden(d, e.file)) <=> VisibleEvidence(v, r) # {}
    BY DEF VisibleEvidence
  <2> HIDE DEF gone
  <2> QED
    BY <1>2, <1>4, <2>1 DEF PublicRows
<1>6. facts.relations = {AsFact(v, r) : r \in PublicRows(v)}
  <2> HIDE DEF facts, kept
  <2> QED
    BY <1>3, <1>5 DEF AsFact, VisibleEvidence
<1>7. IsFiniteSet(facts.relations)
  <2> DEFINE S == PublicRows(v)
             T == {AsFact(v, r) : r \in S}
             f == [r \in S |-> AsFact(v, r)]
  <2>1. IsFiniteSet(S)
    <3>1. S \in SUBSET d.relations /\ IsFiniteSet(d.relations)
      BY <1>1 DEF PublicRows, WellKept
    <3> QED
      BY <3>1, FS_Subset
  <2> HIDE DEF S
  <2>2. f \in Surjection(S, T)
    BY DEF Surjection
  <2> HIDE DEF T, f
  <2>3. IsFiniteSet(T)
    BY <2>1, <2>2, FS_Surjection
  <2> QED
    BY <1>6, <2>3 DEF T, S
<1>8. DOMAIN facts.symbols = {s \in d.symbols : IsPublic(v.view, s)}
  BY <1>1, ProjectionsAgree
<1> QED
  BY <1>6, <1>7, <1>8

LEMMA OverSays ==
    ASSUME NEW v, PublicEnvironment(v), NEW S
    PROVE  LET facts == PublicFacts(v.db)
           IN  /\ IsFiniteSet(PublicOf(facts, "overrides"))
               /\ Over(facts, S) = {r.target : r \in {q \in PublicRows(v) :
                                       q.kind = "overrides" /\ q.source \in S}}
<1> DEFINE facts == PublicFacts(v.db)
<1>1. facts.relations = {AsFact(v, r) : r \in PublicRows(v)} /\ IsFiniteSet(facts.relations)
  BY RelationsSay
<1> HIDE DEF facts
<1>2. IsFiniteSet(PublicOf(facts, "overrides"))
  BY <1>1, FS_Subset DEF PublicOf
<1>3. \A r : /\ AsFact(v, r).source = r.source /\ AsFact(v, r).target = r.target
             /\ AsFact(v, r).kind = r.kind
  BY DEF AsFact
<1>4. Over(facts, S) = {r.target : r \in {q \in PublicRows(v) : q.kind = "overrides" /\ q.source \in S}}
  BY <1>1, <1>3 DEF Over, PublicOf
<1> QED
  BY <1>2, <1>4 DEF facts

-----------------------------------------------------------------------------
(* override_closure.                                                       *)

\* The public symbols one override away.
Near(v, s, up) ==
    {Far(r, up) : r \in {q \in Neighbours(v, s, up) :
                            IsPublic(v.view, Far(q, up)) /\ VisibleEvidence(v, q) # {}}}

Distinct(s) == \A i, j \in 1..Len(s) : s[i] = s[j] => i = j

\* A sequence extended by the neighbours of s that were missing.
Extended(v, node, up, out, s, w) ==
    /\ Begins(out, w)
    /\ \A i \in 1..Len(w) : i > Len(out) => w[i] \in Near(v, s, up) \ {node}
    /\ \A x \in Near(v, s, up) : x = node \/ \E i \in 1..Len(w) : w[i] = x
    /\ Distinct(out) => Distinct(w)

LEMMA WithNeighboursSays ==
    ASSUME NEW v, Environment(v), NEW node, NEW up, NEW out \in Seq(v.db.symbols), NEW s
    PROVE  Extended(v, node, up, out, s, WithNeighbours(v, node, up, out, s))
<1> DEFINE w == WithNeighbours(v, node, up, out, s)
<1> DEFINE fresh == FreshNeighbours(v, node, up, out, s)
           S == {r \in fresh : \A q \in fresh : Far(q, up) = Far(r, up) => r.row <= q.row}
           first == InRowOrder(S)
           more == [i \in DOMAIN first |-> Far(first[i], up)]
<1>1. w = out \o more
  BY DEF WithNeighbours
<1> HIDE DEF w
<1>2. /\ fresh \subseteq v.db.relations
      /\ \A r \in v.db.relations : r.row \in Nat
      /\ \A r, q \in v.db.relations : r.row = q.row => r = q
  BY DEF FreshNeighbours, Neighbours, Environment, WellKept
<1>3. \A r \in fresh : /\ Far(r, up) \in Near(v, s, up) /\ Far(r, up) # node
                       /\ ~Contains(out, Far(r, up))
  BY DEF FreshNeighbours, Near
<1>4. \A x \in Near(v, s, up) : x = node \/ Contains(out, x) \/ \E r \in fresh : Far(r, up) = x
  BY DEF FreshNeighbours, Near
<1>5. IsSeq(out) /\ Len(out) \in Nat
  BY OverIsSeq
<1> HIDE DEF fresh
<1>6. \A r \in fresh : \E q \in S : Far(q, up) = Far(r, up)
  <2> TAKE r \in fresh
  <2> DEFINE R == {q.row : q \in {p \in fresh : Far(p, up) = Far(r, up)}}
  <2>1. R \subseteq Nat /\ R # {}
    BY <1>2
  <2>2. PICK x \in R : \A y \in R : x <= y
    BY <2>1, LeastNatural
  <2>3. PICK q \in fresh : Far(q, up) = Far(r, up) /\ q.row = x
    BY <2>2
  <2>4. \A p \in fresh : Far(p, up) = Far(q, up) => q.row <= p.row
    BY <2>2, <2>3
  <2>5. q \in S
    BY <2>3, <2>4
  <2> HIDE DEF S
  <2> QED
    BY <2>3, <2>5
<1>7. \A r, q \in S : Far(r, up) = Far(q, up) => r = q
  <2> TAKE r, q \in S
  <2> HAVE Far(r, up) = Far(q, up)
  <2>1. r \in fresh /\ q \in fresh /\ r.row <= q.row /\ q.row <= r.row
    OBVIOUS
  <2>2. r.row \in Nat /\ q.row \in Nat
    BY <1>2, <2>1
  <2>3. r.row = q.row
    BY <2>1, <2>2
  <2> QED
    BY <1>2, <2>1, <2>3
<1>8. S \in SUBSET v.db.relations /\ S \subseteq fresh
  BY <1>2
<1> HIDE DEF S
<1>9. IsSeq(first) /\ Len(first) \in Nat /\ (\A i \in 1..Len(first) : first[i] \in S)
      /\ (\A r \in S : \E i \in 1..Len(first) : first[i] = r)
      /\ Distinct(first)
  <2> DEFINE R == {p \in S \X S : p[1].row < p[2].row}
  <2>1. IsFiniteSet(S)
    BY <1>8, FS_Subset DEF Environment, WellKept
  <2>2. \A x, y \in S : <<x, y>> \in R <=> x.row < y.row
    OBVIOUS
  <2>3. first = Ordered(S, R)
    BY DEF InRowOrder
  <2>4. \A x \in S : x.row \in Nat
    BY <1>2, <1>8
  <2> HIDE DEF R, first
  <2>5. IsOrder(S, R)
    <3>1. \A x \in S : <<x, x>> \notin R
      BY <2>2, <2>4
    <3>2. \A x, y, z \in S : <<x, y>> \in R /\ <<y, z>> \in R => <<x, z>> \in R
      BY <2>2, <2>4
    <3>3. \A x, y \in S : x = y \/ <<x, y>> \in R \/ <<y, x>> \in R
      <4> TAKE x, y \in S
      <4>1. x.row < y.row \/ x.row = y.row \/ y.row < x.row
        BY <2>4
      <4> QED
        BY <1>2, <1>8, <2>2, <4>1
    <3> QED
      BY <3>1, <3>2, <3>3 DEF IsOrder
  <2>6. IsSeq(first) /\ Len(first) = Cardinality(S) /\ Cardinality(S) \in Nat
    BY <2>1, <2>3, OrderedLength
  <2>7. /\ \A i \in 1..Cardinality(S) : first[i] \in S
        /\ \A x \in S : \E i \in 1..Cardinality(S) : first[i] = x
        /\ \A i, j \in 1..Cardinality(S) : first[i] = first[j] => i = j
    BY <2>1, <2>3, <2>5, OrderedElements
  <2> QED
    BY <2>6, <2>7 DEF Distinct
<1> DEFINE n == Len(first)
<1>10. n \in Nat /\ DOMAIN first = 1..n
  BY <1>9 DEF IsSeq
<1>11. more = [i \in 1..n |-> more[i]] /\ \A i \in 1..n : more[i] = Far(first[i], up)
  BY <1>10
<1>12. IsSeq(more) /\ Len(more) = n
  BY <1>10, <1>11, PlacesAreSequence
<1> HIDE DEF n, more, first
<1>13. /\ IsSeq(w) /\ Len(w) = Len(out) + n
       /\ \A i \in 1..Len(out) : w[i] = out[i]
       /\ \A i \in 1..n : w[Len(out) + i] = more[i]
  <2>1. /\ IsSeq(out \o more) /\ Len(out \o more) = Len(out) + Len(more)
        /\ \A i \in 1..Len(out) : (out \o more)[i] = out[i]
        /\ \A i \in 1..Len(more) : (out \o more)[Len(out) + i] = more[i]
    BY <1>5, <1>12, Joined
  <2> QED
    BY <1>1, <1>12, <2>1
<1>14. \A i \in 1..Len(w) : i > Len(out) =>
          \E r \in S : first[i - Len(out)] = r /\ w[i] = Far(r, up) /\ i - Len(out) \in 1..n
  <2> TAKE i \in 1..Len(w)
  <2> HAVE i > Len(out)
  <2>1. i - Len(out) \in 1..n /\ Len(out) + (i - Len(out)) = i
    BY <1>5, <1>10, <1>13
  <2>2. w[i] = more[i - Len(out)] /\ more[i - Len(out)] = Far(first[i - Len(out)], up)
    BY <1>11, <1>13, <2>1
  <2>3. first[i - Len(out)] \in S
    BY <1>9, <2>1 DEF n
  <2> QED
    BY <2>1, <2>2, <2>3
<1>15. Begins(out, w)
  <2>1. Len(out) <= Len(w) /\ Len(w) \in Nat
    BY <1>5, <1>10, <1>13
  <2> QED
    BY <1>5, <1>13, <2>1 DEF Begins
<1>16. \A i \in 1..Len(w) : i > Len(out) => w[i] \in Near(v, s, up) \ {node}
  BY <1>3, <1>8, <1>14
<1>17. ASSUME NEW x \in Near(v, s, up), x # node
       PROVE  \E i \in 1..Len(w) : w[i] = x
  <2>1. CASE Contains(out, x)
    <3>1. PICK i \in 1..Len(out) : out[i] = x
      BY <2>1 DEF Contains
    <3>2. i \in 1..Len(w)
      BY <1>5, <1>10, <1>13
    <3> QED
      BY <1>13, <3>1, <3>2
  <2>2. CASE \E r \in fresh : Far(r, up) = x
    <3>1. PICK q \in S : Far(q, up) = x
      BY <1>6, <2>2
    <3>2. PICK i \in 1..n : first[i] = q
      BY <1>9 DEF n
    <3>3. Len(out) + i \in 1..Len(w)
      BY <1>5, <1>10, <1>13
    <3>4. w[Len(out) + i] = x
      BY <1>11, <1>13, <3>1, <3>2
    <3> QED
      BY <3>3, <3>4
  <2> QED
    BY <1>4, <1>17, <2>1, <2>2
<1>18. ASSUME Distinct(out)
       PROVE  Distinct(w)
  <2> SUFFICES ASSUME NEW i \in 1..Len(w), NEW j \in 1..Len(w), w[i] = w[j]
               PROVE  i = j
    BY DEF Distinct
  <2>0. \A k \in 1..Len(w) : k > Len(out) \/ k \in 1..Len(out)
    BY <1>5, <1>10, <1>13
  <2>1. ASSUME NEW k \in 1..Len(w), k > Len(out), NEW m \in 1..Len(out)
        PROVE  w[k] # w[m]
    <3>1. ~Contains(out, w[k])
      BY <1>3, <1>8, <1>14, <2>1
    <3> QED
      BY <1>13, <3>1 DEF Contains
  <2>2. CASE i \in 1..Len(out) /\ j \in 1..Len(out)
    BY <1>13, <1>18, <2>2 DEF Distinct
  <2>3. CASE i > Len(out) /\ j > Len(out)
    <3>1. PICK r \in S : first[i - Len(out)] = r /\ w[i] = Far(r, up) /\ i - Len(out) \in 1..n
      BY <1>14, <2>3
    <3>2. PICK q \in S : first[j - Len(out)] = q /\ w[j] = Far(q, up) /\ j - Len(out) \in 1..n
      BY <1>14, <2>3
    <3>3. r = q
      BY <1>7, <3>1, <3>2
    <3>4. i - Len(out) = j - Len(out)
      BY <1>9, <3>1, <3>2, <3>3 DEF Distinct, n
    <3> QED
      BY <1>5, <1>10, <1>13, <3>4
  <2> QED
    BY <2>0, <2>1, <2>2, <2>3
<1>19. Extended(v, node, up, out, s, w)
  BY <1>15, <1>16, <1>17, <1>18 DEF Extended
<1> QED
  BY <1>19 DEF w


Public(v) == {s \in v.db.symbols : IsPublic(v.view, s)}

\* What the closure of a node has to contain, and what it is the least of.
Closed(v, node, up, C) ==
    /\ Near(v, node, up) \subseteq C
    /\ \A x \in C : Near(v, x, up) \subseteq C

LEMMA NearType ==
    ASSUME NEW v, Environment(v), NEW s, NEW up
    PROVE  Near(v, s, up) \subseteq Public(v)
<1>1. \A r \in v.db.relations : Far(r, up) \in v.db.symbols
  BY DEF Far, Environment, WellKept
<1> QED
  BY <1>1 DEF Near, Neighbours, Public

\* A sequence without repetition is no longer than what it is made of.
LEMMA NoLongerThanItsSet ==
    ASSUME NEW T, IsFiniteSet(T), NEW s \in Seq(T), Distinct(s)
    PROVE  Len(s) \in Nat /\ Len(s) <= Cardinality(T)
<1> DEFINE n == Len(s)
<1>1. n \in Nat /\ \A i \in 1..n : s[i] \in T
  OBVIOUS
<1> DEFINE f == [i \in 1..n |-> s[i]]
<1>2. f \in Injection(1..n, T)
  <2>1. f \in [1..n -> T]
    BY <1>1
  <2>2. \A i, j \in DOMAIN f : f[i] = f[j] => i = j
    BY DEF Distinct
  <2> QED
    BY <2>1, <2>2 DEF Injection, IsInjective
<1>3. IsFiniteSet(1..n) /\ Cardinality(1..n) = n
  <2>1. 1 \in Int /\ n \in Int
    BY <1>1
  <2>2. IsFiniteSet(1..n) /\ Cardinality(1..n) = IF 1 > n THEN 0 ELSE n - 1 + 1
    BY <2>1, FS_Interval
  <2> QED
    BY <1>1, <2>2
<1> HIDE DEF n, f
<1>4. Cardinality(1..n) <= Cardinality(T)
  BY <1>2, <1>3, FS_Injection
<1> QED
  BY <1>1, <1>3, <1>4 DEF n

\* Part of the way through override_closure, k nodes have been looked at.
Growing(v, node, up, k, q) ==
    /\ q \in Seq(v.db.symbols) /\ Distinct(q)
    /\ \A i \in 1..Len(q) : q[i] # node /\ q[i] \in Public(v)
    /\ \A x \in Near(v, node, up) : x = node \/ \E i \in 1..Len(q) : q[i] = x
    /\ \A j \in 1..Len(q) : j <= k =>
          \A x \in Near(v, q[j], up) : x = node \/ \E i \in 1..Len(q) : q[i] = x
    /\ \A C : Closed(v, node, up, C) => \A i \in 1..Len(q) : q[i] \in C

LEMMA GrowingStarts ==
    ASSUME NEW v, Environment(v), NEW node, NEW up
    PROVE  Growing(v, node, up, 0, WithNeighbours(v, node, up, <<>>, node))
<1> DEFINE w == WithNeighbours(v, node, up, <<>>, node)
<1>1. <<>> \in Seq(v.db.symbols) /\ Len(<<>>) = 0 /\ Distinct(<<>>)
  BY DEF Distinct
<1>2. w \in Seq(v.db.symbols)
  BY <1>1, WithNeighboursType
<1>2a. Extended(v, node, up, <<>>, node, w)
  BY <1>1, WithNeighboursSays
<1> HIDE DEF w
<1>3. /\ \A i \in 1..Len(w) : i > Len(<<>>) => w[i] \in Near(v, node, up) \ {node}
      /\ \A x \in Near(v, node, up) : x = node \/ \E i \in 1..Len(w) : w[i] = x
      /\ Distinct(<<>>) => Distinct(w)
  BY <1>2a DEF Extended
<1>4. Len(w) \in Nat
  BY <1>2
<1>5. \A i \in 1..Len(w) : w[i] \in Near(v, node, up) /\ w[i] # node
  BY <1>1, <1>3, <1>4
<1>6. \A i \in 1..Len(w) : w[i] \in Public(v)
  BY <1>5, NearType
<1>7. \A C : Closed(v, node, up, C) => \A i \in 1..Len(w) : w[i] \in C
  BY <1>5 DEF Closed
<1>8. \A j \in 1..Len(w) : ~(j <= 0)
  BY <1>4
<1>9. Growing(v, node, up, 0, w)
  BY <1>1, <1>2, <1>3, <1>5, <1>6, <1>7, <1>8 DEF Growing
<1> QED
  BY <1>9 DEF w

LEMMA GrowingStep ==
    ASSUME NEW v, Environment(v), NEW node, NEW up, NEW k \in Nat, NEW q,
           Growing(v, node, up, k, q), k + 1 <= Len(q)
    PROVE  Growing(v, node, up, k + 1, WithNeighbours(v, node, up, q, q[k + 1]))
<1> DEFINE s == q[k + 1]
           w == WithNeighbours(v, node, up, q, s)
<1>1. q \in Seq(v.db.symbols) /\ Distinct(q) /\ Len(q) \in Nat /\ k + 1 \in 1..Len(q)
  BY DEF Growing
<1>2. w \in Seq(v.db.symbols)
  BY <1>1, WithNeighboursType
<1>2a. Extended(v, node, up, q, s, w)
  BY <1>1, WithNeighboursSays
<1> HIDE DEF w
<1>3. /\ Begins(q, w)
      /\ \A i \in 1..Len(w) : i > Len(q) => w[i] \in Near(v, s, up) \ {node}
      /\ \A x \in Near(v, s, up) : x = node \/ \E i \in 1..Len(w) : w[i] = x
      /\ Distinct(q) => Distinct(w)
  BY <1>2a DEF Extended
<1>4. /\ Len(w) \in Nat /\ Len(q) <= Len(w)
      /\ \A i \in 1..Len(q) : i \in 1..Len(w) /\ w[i] = q[i]
  BY <1>1, <1>2, <1>3 DEF Begins
<1>5. \A i \in 1..Len(w) : i \in 1..Len(q) \/ i > Len(q)
  BY <1>1, <1>4
<1>6. \A i \in 1..Len(q) : q[i] # node /\ q[i] \in Public(v)
  BY DEF Growing
<1>7. \A i \in 1..Len(w) : w[i] # node /\ w[i] \in Public(v)
  <2> TAKE i \in 1..Len(w)
  <2>1. CASE i \in 1..Len(q)
    BY <1>4, <1>6, <2>1
  <2>2. CASE i > Len(q)
    <3>1. Near(v, s, up) \subseteq Public(v)
      BY NearType
    <3> QED
      BY <1>3, <2>2, <3>1
  <2> QED
    BY <1>5, <2>1, <2>2
<1>8. \A x : (\E i \in 1..Len(q) : q[i] = x) => \E i \in 1..Len(w) : w[i] = x
  BY <1>4
<1>9. \A x \in Near(v, node, up) : x = node \/ \E i \in 1..Len(w) : w[i] = x
  BY <1>8 DEF Growing
<1>10. ASSUME NEW j \in 1..Len(w), j <= k + 1
       PROVE  \A x \in Near(v, w[j], up) : x = node \/ \E i \in 1..Len(w) : w[i] = x
  <2>1. j \in 1..Len(q) /\ w[j] = q[j]
    <3>1. j \in 1..Len(q)
      BY <1>1, <1>4, <1>10
    <3> QED
      BY <1>4, <3>1
  <2>2. CASE j = k + 1
    BY <1>3, <2>1, <2>2
  <2>3. CASE j <= k
    BY <1>8, <2>1, <2>3 DEF Growing
  <2> QED
    BY <1>10, <2>2, <2>3
<1>11. ASSUME NEW C, Closed(v, node, up, C)
       PROVE  \A i \in 1..Len(w) : w[i] \in C
  <2>1. \A i \in 1..Len(q) : q[i] \in C
    BY <1>11 DEF Growing
  <2>2. Near(v, s, up) \subseteq C
    BY <1>1, <1>11, <2>1 DEF Closed
  <2> TAKE i \in 1..Len(w)
  <2>3. CASE i \in 1..Len(q)
    BY <1>4, <2>1, <2>3
  <2>4. CASE i > Len(q)
    BY <1>3, <2>2, <2>4
  <2> QED
    BY <1>5, <2>3, <2>4
<1>12. Distinct(w)
  BY <1>1, <1>3
<1>13. Growing(v, node, up, k + 1, w)
  BY <1>2, <1>7, <1>9, <1>10, <1>11, <1>12 DEF Growing
<1> QED
  BY <1>13 DEF w

\* A node that is not there needs no looking at.
LEMMA GrowingRests ==
    ASSUME NEW v, NEW node, NEW up, NEW k \in Nat, NEW q,
           Growing(v, node, up, k, q), k + 1 > Len(q)
    PROVE  Growing(v, node, up, k + 1, q)
<1>1. Len(q) \in Nat
  BY DEF Growing
<1>2. \A j \in 1..Len(q) : j <= k
  BY <1>1
<1>3. \A j \in 1..Len(q) : \A x \in Near(v, q[j], up) : x = node \/ \E i \in 1..Len(q) : q[i] = x
  BY <1>2 DEF Growing
<1> QED
  BY <1>3 DEF Growing

ClosureOf(v, node, up) == ToSet(OverrideClosure(v, node, up))

LEMMA ClosureSays ==
    ASSUME NEW v, Environment(v), NEW node, NEW up
    PROVE  LET K == ClosureOf(v, node, up)
           IN  /\ K \subseteq Public(v) /\ node \notin K
               /\ \A x \in K \cup {node} : Near(v, x, up) \subseteq K \cup {node}
               /\ \A C : Closed(v, node, up, C) => K \subseteq C
<1> DEFINE n == Cardinality(v.db.symbols)
           G(k, q) == Growing(v, node, up, k, q)
<1>1. n \in Nat /\ IsFiniteSet(v.db.symbols)
  BY FS_CardinalityType DEF Environment, WellKept
<1>2. PICK g : /\ g[0] = WithNeighbours(v, node, up, <<>>, node)
               /\ \A i \in 1..n : g[i] = (LET out == g[i - 1]
                                          IN  IF i > Len(out) THEN out
                                              ELSE WithNeighbours(v, node, up, out, out[i]))
               /\ OverrideClosure(v, node, up) = g[n]
  BY <1>1, ClosureStepwise
<1> HIDE DEF n
<1> DEFINE P == {k \in Nat : k <= n => G(k, g[k])}
<1>3. 0 \in P
  <2>1. G(0, g[0])
    BY <1>2, GrowingStarts
  <2> HIDE DEF G
  <2> QED
    BY <2>1
<1>4. \A k \in Nat : k \in P => k + 1 \in P
  <2> SUFFICES ASSUME NEW k \in Nat, k \in P, k + 1 <= n
               PROVE  G(k + 1, g[k + 1])
    OBVIOUS
  <2>1. G(k, g[k])
    BY <1>1
  <2>2. k + 1 \in 1..n /\ (k + 1) - 1 = k
    BY <1>1
  <2>3. g[k + 1] = IF k + 1 > Len(g[k]) THEN g[k]
                   ELSE WithNeighbours(v, node, up, g[k], g[k][k + 1])
    BY <1>2, <2>2
  <2>4. Len(g[k]) \in Nat
    BY <2>1 DEF Growing
  <2>5. CASE k + 1 > Len(g[k])
    BY <2>1, <2>3, <2>5, GrowingRests
  <2>6. CASE k + 1 <= Len(g[k])
    <3>1. G(k + 1, WithNeighbours(v, node, up, g[k], g[k][k + 1]))
      BY <2>1, <2>6, GrowingStep
    <3> QED
      BY <2>3, <2>4, <2>6, <3>1
  <2> QED
    BY <2>4, <2>5, <2>6
<1> HIDE DEF P
<1>5. n \in P
  BY <1>1, <1>3, <1>4, NaturalsBySuccessor
<1> DEFINE q == g[n]
           K == ClosureOf(v, node, up)
<1>6. Growing(v, node, up, n, q)
  BY <1>1, <1>5 DEF P
<1>7. q = OverrideClosure(v, node, up)
  BY <1>2
<1> HIDE DEF q
<1>8. q \in Seq(v.db.symbols) /\ Distinct(q)
  BY <1>6 DEF Growing
<1>9. Len(q) \in Nat /\ Len(q) <= n
  BY <1>1, <1>8, NoLongerThanItsSet DEF n
<1>10. K = {q[i] : i \in 1..Len(q)}
  BY <1>7, <1>8 DEF ClosureOf, ToSet
<1> HIDE DEF K
<1>11. \A j \in 1..Len(q) : j <= n
  BY <1>1, <1>9
<1>12. \A i \in 1..Len(q) : q[i] # node /\ q[i] \in Public(v)
  BY <1>6 DEF Growing
<1>13. \A x \in Near(v, node, up) : x = node \/ \E i \in 1..Len(q) : q[i] = x
  BY <1>6 DEF Growing
<1>14. \A j \in 1..Len(q) : \A x \in Near(v, q[j], up) : x = node \/ \E i \in 1..Len(q) : q[i] = x
  BY <1>6, <1>11 DEF Growing
<1>15. \A C : Closed(v, node, up, C) => \A i \in 1..Len(q) : q[i] \in C
  BY <1>6 DEF Growing
<1>16. K \subseteq Public(v) /\ node \notin K
  BY <1>10, <1>12
<1>17. \A x \in K \cup {node} : Near(v, x, up) \subseteq K \cup {node}
  BY <1>10, <1>13, <1>14
<1>18. \A C : Closed(v, node, up, C) => K \subseteq C
  BY <1>10, <1>15
<1> QED
  BY <1>16, <1>17, <1>18 DEF K

-----------------------------------------------------------------------------
(* Both directions of override_closure find what AllBases says.            *)

LEMMA NearIsOver ==
    ASSUME NEW v, PublicEnvironment(v)
    PROVE  LET facts == PublicFacts(v.db)
           IN  /\ \A S, y : y \in Over(facts, S) <=> \E s \in S : s \in Public(v) /\ y \in Near(v, s, TRUE)
               /\ \A s, t \in Public(v) : t \in Near(v, s, TRUE) <=> s \in Near(v, t, FALSE)
<1> DEFINE facts == PublicFacts(v.db)
           rows == {q \in PublicRows(v) : q.kind = "overrides"}
<1>1. \A S : Over(facts, S) = {r.target : r \in {q \in PublicRows(v) : q.kind = "overrides" /\ q.source \in S}}
  BY OverSays
<1>2. \A r \in v.db.relations : r.source \in v.db.symbols /\ r.target \in v.db.symbols
  BY DEF PublicEnvironment, Environment, WellKept
<1>3. \A s \in Public(v) : \A y : y \in Near(v, s, TRUE) <=> \E r \in rows : r.source = s /\ r.target = y
  <2> TAKE s \in Public(v)
  <2> TAKE y
  <2>1. y \in Near(v, s, TRUE) => \E r \in rows : r.source = s /\ r.target = y
    BY DEF Near, Neighbours, Far, PublicRows, Public
  <2>2. (\E r \in rows : r.source = s /\ r.target = y) => y \in Near(v, s, TRUE)
    BY DEF Near, Neighbours, Far, PublicRows, Public
  <2> QED
    BY <2>1, <2>2
<1>4. \A t \in Public(v) : \A y : y \in Near(v, t, FALSE) <=> \E r \in rows : r.target = t /\ r.source = y
  <2> TAKE t \in Public(v)
  <2> TAKE y
  <2>1. y \in Near(v, t, FALSE) => \E r \in rows : r.target = t /\ r.source = y
    BY DEF Near, Neighbours, Far, PublicRows, Public
  <2>2. (\E r \in rows : r.target = t /\ r.source = y) => y \in Near(v, t, FALSE)
    BY DEF Near, Neighbours, Far, PublicRows, Public
  <2> QED
    BY <2>1, <2>2
<1>5. \A r \in rows : r.source \in Public(v) /\ r.target \in Public(v)
  BY <1>2 DEF PublicRows, Public
<1>6. \A S, y : y \in Over(facts, S) <=> \E r \in rows : r.source \in S /\ r.target = y
  <2> TAKE S, y
  <2>1. Over(facts, S) = {r.target : r \in {q \in rows : q.source \in S}}
    BY <1>1
  <2> HIDE DEF facts, rows
  <2> QED
    BY <2>1
<1> HIDE DEF facts, rows
<1>7. \A S, y : y \in Over(facts, S) <=> \E s \in S : s \in Public(v) /\ y \in Near(v, s, TRUE)
  <2> TAKE S, y
  <2>1. ASSUME y \in Over(facts, S)
        PROVE  \E s \in S : s \in Public(v) /\ y \in Near(v, s, TRUE)
    <3>1. PICK r \in rows : r.source \in S /\ r.target = y
      BY <1>6, <2>1
    <3>2. r.source \in Public(v) /\ y \in Near(v, r.source, TRUE)
      BY <1>3, <1>5, <3>1
    <3> QED
      BY <3>1, <3>2
  <2>2. ASSUME NEW s \in S, s \in Public(v), y \in Near(v, s, TRUE)
        PROVE  y \in Over(facts, S)
    <3>1. PICK r \in rows : r.source = s /\ r.target = y
      BY <1>3, <2>2
    <3> QED
      BY <1>6, <2>2, <3>1
  <2> QED
    BY <2>1, <2>2
<1>8. \A s, t \in Public(v) : t \in Near(v, s, TRUE) <=> s \in Near(v, t, FALSE)
  <2> TAKE s, t \in Public(v)
  <2>1. t \in Near(v, s, TRUE) <=> \E r \in rows : r.source = s /\ r.target = t
    BY <1>3
  <2>2. s \in Near(v, t, FALSE) <=> \E r \in rows : r.target = t /\ r.source = s
    BY <1>4
  <2> QED
    BY <2>1, <2>2
<1> QED
  BY <1>7, <1>8 DEF facts

\* Upwards it finds the bases.
LEMMA BasesFound ==
    ASSUME NEW v, PublicEnvironment(v), NEW m \in Public(v)
    PROVE  ToSet(BasesOf(v, m)) = AllBases(PublicFacts(v.db), m)
<1> DEFINE facts == PublicFacts(v.db)
           K == ClosureOf(v, m, TRUE)
<1>1. IsFiniteSet(PublicOf(facts, "overrides"))
  BY OverSays
<1>2. PICK X : AllBases(facts, m) = X \ {m} /\ LeastOver(facts, m, X)
  BY <1>1, BasesAreLeast
<1>3. \A S, y : y \in Over(facts, S) <=> \E s \in S : s \in Public(v) /\ y \in Near(v, s, TRUE)
  BY NearIsOver
<1>4. Environment(v)
  BY DEF PublicEnvironment
<1>5. /\ K \subseteq Public(v) /\ m \notin K
      /\ \A x \in K \cup {m} : Near(v, x, TRUE) \subseteq K \cup {m}
      /\ \A C : Closed(v, m, TRUE, C) => K \subseteq C
  BY <1>4, ClosureSays
<1>6. K = ToSet(BasesOf(v, m))
  BY DEF ClosureOf, BasesOf
<1> HIDE DEF facts, K
<1>7. /\ Over(facts, {m}) \subseteq X /\ Over(facts, X) \subseteq X
      /\ \A C : Over(facts, {m}) \subseteq C /\ Over(facts, C) \subseteq C => X \subseteq C
  BY <1>2 DEF LeastOver
<1>8. Over(facts, {m}) = Near(v, m, TRUE)
  <2>1. \A y : y \in Over(facts, {m}) <=> y \in Near(v, m, TRUE)
    <3> TAKE y
    <3> DEFINE S == {m}
    <3>1. (\E s \in S : s \in Public(v) /\ y \in Near(v, s, TRUE)) <=> y \in Near(v, m, TRUE)
      OBVIOUS
    <3> HIDE DEF S
    <3>2. y \in Over(facts, S) <=> \E s \in S : s \in Public(v) /\ y \in Near(v, s, TRUE)
      BY <1>3
    <3> QED
      BY <3>1, <3>2 DEF S
  <2> QED
    BY <2>1
<1>9. \A S : Over(facts, S) \subseteq Public(v)
  <2>1. \A x : Near(v, x, TRUE) \subseteq Public(v)
    BY <1>4, NearType
  <2> QED
    BY <1>3, <2>1
<1>10. X \subseteq Public(v)
  BY <1>7, <1>9
<1>11. K \subseteq X
  <2>1. \A x \in X : Near(v, x, TRUE) \subseteq X
    BY <1>3, <1>7, <1>10
  <2>2. Closed(v, m, TRUE, X)
    BY <1>7, <1>8, <2>1 DEF Closed
  <2> QED
    BY <1>5, <2>2
<1>12. X \subseteq K \cup {m}
  <2> DEFINE C == K \cup {m}
  <2>1. Over(facts, {m}) \subseteq C
    BY <1>5, <1>8
  <2>2. Over(facts, C) \subseteq C
    <3>1. \A x \in C : Near(v, x, TRUE) \subseteq C
      BY <1>5
    <3> HIDE DEF C
    <3> QED
      BY <1>3, <3>1
  <2> HIDE DEF C
  <2>3. X \subseteq C
    BY <1>7, <2>1, <2>2
  <2> QED
    BY <2>3 DEF C
<1>13. K = X \ {m}
  BY <1>5, <1>11, <1>12
<1> QED
  BY <1>2, <1>6, <1>13 DEF facts

\* Downwards it finds whatever has the node among its bases.
LEMMA OverridersFound ==
    ASSUME NEW v, PublicEnvironment(v), NEW m \in Public(v),
           NEW t \in AllBases(PublicFacts(v.db), m)
    PROVE  t \in Public(v) /\ m \in ToSet(OverridersOf(v, t))
<1> DEFINE facts == PublicFacts(v.db)
           K == ClosureOf(v, t, FALSE)
           C == {x \in Public(v) : x \notin K \cup {t}}
<1>1. IsFiniteSet(PublicOf(facts, "overrides"))
  BY OverSays
<1>2. PICK X : AllBases(facts, m) = X \ {m} /\ LeastOver(facts, m, X)
  BY <1>1, BasesAreLeast
<1>3. /\ \A S, y : y \in Over(facts, S) <=> \E s \in S : s \in Public(v) /\ y \in Near(v, s, TRUE)
      /\ \A x, y \in Public(v) : y \in Near(v, x, TRUE) <=> x \in Near(v, y, FALSE)
  BY NearIsOver
<1>4. Environment(v)
  BY DEF PublicEnvironment
<1>5. \A x \in K \cup {t} : Near(v, x, FALSE) \subseteq K \cup {t}
  BY <1>4, ClosureSays
<1>6. K = ToSet(OverridersOf(v, t))
  BY DEF ClosureOf, OverridersOf
<1> HIDE DEF facts, K
<1>7. \A D : Over(facts, {m}) \subseteq D /\ Over(facts, D) \subseteq D => X \subseteq D
  BY <1>2 DEF LeastOver
<1>8. \A S : Over(facts, S) \subseteq Public(v)
  <2>1. \A x : Near(v, x, TRUE) \subseteq Public(v)
    BY <1>4, NearType
  <2> QED
    BY <1>3, <2>1
<1>9. t \in X /\ t # m
  BY <1>2 DEF facts
<1>10. X \subseteq Public(v)
  BY <1>7, <1>8
<1>11. ASSUME m \notin K
       PROVE  FALSE
  <2>1. \A x \in Public(v) : x \notin K \cup {t} => Near(v, x, TRUE) \cap (K \cup {t}) = {}
    <3> SUFFICES ASSUME NEW x \in Public(v), x \notin K \cup {t},
                        NEW y \in Near(v, x, TRUE), y \in K \cup {t}
                 PROVE  FALSE
      OBVIOUS
    <3>1. y \in Public(v)
      BY <1>4, NearType
    <3>2. x \in Near(v, y, FALSE)
      BY <1>3, <3>1
    <3> QED
      BY <1>5, <3>2
  <2>2. \A x \in C : Near(v, x, TRUE) \subseteq C
    <3>1. \A x \in C : Near(v, x, TRUE) \subseteq Public(v)
      BY <1>4, NearType
    <3> QED
      BY <2>1, <3>1
  <2>3. m \in C
    BY <1>9, <1>11
  <2> HIDE DEF C
  <2>4. ASSUME NEW S, S \subseteq C
        PROVE  Over(facts, S) \subseteq C
    <3> SUFFICES ASSUME NEW y \in Over(facts, S)
                 PROVE  y \in C
      OBVIOUS
    <3>1. PICK x \in S : x \in Public(v) /\ y \in Near(v, x, TRUE)
      BY <1>3
    <3> QED
      BY <2>2, <2>4, <3>1
  <2>5. X \subseteq C
    <3>1. {m} \subseteq C
      BY <2>3
    <3> QED
      BY <1>7, <2>4, <3>1
  <2> QED
    BY <1>9, <2>5 DEF C
<1> QED
  BY <1>6, <1>9, <1>10, <1>11


-----------------------------------------------------------------------------
(* The ways that public calls may go, and what seal makes of them.         *)

CallRows(v) == {r \in PublicRows(v) : r.kind = "calls"}
AsWay(r, n, sure) == [caller |-> r.source, entered |-> n, slot |-> r.target, sure |-> sure]
Straight(v) == {AsWay(r, r.target, r.confidence # "possible") : r \in CallRows(v)}
Dispatched(v) ==
    UNION {{AsWay(r, n, FALSE) : n \in {m \in Public(v) : r.target \in ToSet(BasesOf(v, m))}} :
           r \in {q \in CallRows(v) : VirtualEvidence(v, q) # {}}}

LEMMA WaysSay ==
    ASSUME NEW v, PublicEnvironment(v)
    PROVE  Ways(PublicFacts(v.db)) = Straight(v) \cup Dispatched(v)
<1> DEFINE facts == PublicFacts(v.db)
           callRows == PublicOf(facts, "calls")
           virtual == {q \in callRows : \E e \in q.evidence : e.dispatch = "virtual"}
           to(r) == {m \in DOMAIN facts.symbols : r.target \in AllBases(facts, m)}
<1>1. /\ facts.relations = {AsFact(v, r) : r \in PublicRows(v)}
      /\ DOMAIN facts.symbols = {s \in v.db.symbols : IsPublic(v.view, s)}
  BY RelationsSay
<1>2. Ways(facts) =
         {AsWay(r, r.target, r.confidence # "possible") : r \in callRows}
         \cup (UNION {{AsWay(r, n, FALSE) : n \in to(r)} : r \in virtual})
  BY DEF Ways, AsWay
<1>3. \A m \in Public(v) : ToSet(BasesOf(v, m)) = AllBases(facts, m)
  BY BasesFound
<1> HIDE DEF facts
<1>4. \A r : /\ AsFact(v, r).source = r.source /\ AsFact(v, r).target = r.target
             /\ AsFact(v, r).kind = r.kind /\ AsFact(v, r).confidence = r.confidence
             /\ AsFact(v, r).evidence = VisibleEvidence(v, r)
  BY DEF AsFact
<1>5. callRows = {AsFact(v, r) : r \in CallRows(v)}
  BY <1>1, <1>4 DEF PublicOf, CallRows
<1>6. virtual = {AsFact(v, r) : r \in {q \in CallRows(v) : VirtualEvidence(v, q) # {}}}
  <2>1. \A r : (\E e \in AsFact(v, r).evidence : e.dispatch = "virtual") <=> VirtualEvidence(v, r) # {}
    BY <1>4 DEF VirtualEvidence
  <2> HIDE DEF callRows
  <2> QED
    BY <1>5, <2>1
<1>7. \A r : to(r) = {m \in Public(v) : r.target \in ToSet(BasesOf(v, m))}
  BY <1>1, <1>3 DEF Public
<1> HIDE DEF callRows, virtual, to
<1>8. \A r, n, s : AsWay(AsFact(v, r), n, s) = AsWay(r, n, s)
  BY <1>4 DEF AsWay
<1>9. {AsWay(r, r.target, r.confidence # "possible") : r \in callRows} = Straight(v)
  BY <1>4, <1>5, <1>8 DEF Straight
<1>10. \A r : to(AsFact(v, r)) = {m \in Public(v) : r.target \in ToSet(BasesOf(v, m))}
  BY <1>4, <1>7
<1>11. UNION {{AsWay(r, n, FALSE) : n \in to(r)} : r \in virtual} = Dispatched(v)
  <2> DEFINE dispatching == {q \in CallRows(v) : VirtualEvidence(v, q) # {}}
             part(r) == {AsWay(r, n, FALSE) : n \in to(r)}
             own(r) == {AsWay(r, n, FALSE) : n \in {m \in Public(v) : r.target \in ToSet(BasesOf(v, m))}}
  <2>1. \A r : part(AsFact(v, r)) = own(r)
    BY <1>8, <1>10
  <2>2. virtual = {AsFact(v, r) : r \in dispatching}
    BY <1>6
  <2>3. Dispatched(v) = UNION {own(r) : r \in dispatching}
    BY DEF Dispatched
  <2> HIDE DEF part, own, dispatching
  <2>4. UNION {part(r) : r \in virtual} = Dispatched(v)
    BY <2>1, <2>2, <2>3
  <2> QED
    BY <2>4 DEF part
<1> QED
  BY <1>2, <1>9, <1>11 DEF facts

(* The ways between m and the symbols of S, and where the ways from S lead.*)
Entering(W, incoming, m, S) ==
    {x \in W : IF incoming THEN x.caller = m /\ x.entered \in S
                           ELSE x.entered = m /\ x.caller \in S}
Begun(x, incoming) == IF incoming THEN x.entered ELSE x.caller
Led(x, incoming) == IF incoming THEN x.caller ELSE x.entered
LedTo(W, incoming, S, sure) ==
    {Led(x, incoming) : x \in {w \in W : Begun(w, incoming) \in S /\ (sure => w.sure)}}
SiteOf(x) == [caller |-> x.caller, slot |-> x.slot]

LEMMA LedToSays ==
    ASSUME NEW W, NEW incoming, NEW m, NEW S
    PROVE  /\ m \in LedTo(W, incoming, S, FALSE) <=> Entering(W, incoming, m, S) # {}
           /\ \A C : m \in LedTo(W, incoming, S \cap C, TRUE) <=>
                        \E x \in Entering(W, incoming, m, S) : x.sure /\ Begun(x, incoming) \in C
<1>1. CASE incoming
  BY <1>1 DEF LedTo, Entering, Led, Begun
<1>2. CASE ~incoming
  BY <1>2 DEF LedTo, Entering, Led, Begun
<1> QED
  BY <1>1, <1>2

\* Every way is between public symbols.
LEMMA WaysArePublic ==
    ASSUME NEW v, PublicEnvironment(v), NEW x \in Ways(PublicFacts(v.db))
    PROVE  x.caller \in Public(v) /\ x.entered \in Public(v)
<1>1. \A r \in CallRows(v) : r.source \in Public(v) /\ r.target \in Public(v)
  BY DEF CallRows, PublicRows, Public, PublicEnvironment, Environment, WellKept
<1>2. x \in Straight(v) \cup Dispatched(v)
  BY WaysSay
<1>3. CASE x \in Straight(v)
  BY <1>1, <1>3 DEF Straight, AsWay
<1>4. CASE x \in Dispatched(v)
  BY <1>1, <1>4 DEF Dispatched, AsWay
<1> QED
  BY <1>2, <1>3, <1>4

Pair(r) == [caller |-> r.source, slot |-> r.target]

LEMMA SealSays ==
    ASSUME NEW v, PublicEnvironment(v), NEW t, ToSet(t.frontier) \subseteq Public(v),
           NEW m \in Public(v)
    PROVE  LET r == Seal(v, t, m)
               S == ToSet(t.frontier)
               W == Ways(PublicFacts(v.db))
           IN  /\ r.other = m /\ r.hop = t.hop
               /\ {SiteOf(s) : s \in r.confirmed \cup r.possible}
                    = {SiteOf(x) : x \in Entering(W, v.incoming, m, S)}
               /\ r.path = (m \in LedTo(W, v.incoming, S \cap t.confirmed, TRUE))
<1> DEFINE S == ToSet(t.frontier)
           W == Ways(PublicFacts(v.db))
           callRows == Calls(v.db)
           own == {r \in callRows : IF v.incoming THEN r.source = m /\ r.target \in S
                                               ELSE r.target = m /\ r.source \in S}
           slots == IF v.incoming THEN UNION {ToSet(BasesOf(v, n)) : n \in S}
                                  ELSE ToSet(BasesOf(v, m))
           through == {r \in callRows : /\ r.target \in slots
                                     /\ IF v.incoming THEN r.source = m ELSE r.source \in S}
           sure == {r \in own : r.confidence # "possible"}
           before(r) == IF v.incoming THEN r.target ELSE r.source
           r0 == Seal(v, t, m)
<1>1. /\ r0.other = m /\ r0.hop = t.hop
      /\ r0.path = (\E r \in sure : VisibleEvidence(v, r) # {} /\ before(r) \in t.confirmed)
      /\ r0.confirmed = UNION {SitesOf(r, r.target, VisibleEvidence(v, r)) : r \in sure}
      /\ r0.possible = (UNION {SitesOf(r, r.target, VisibleEvidence(v, r)) : r \in own \ sure})
                       \cup (UNION {SitesOf(r, r.target, VirtualEvidence(v, r)) : r \in through})
  BY DEF Seal
<1>2. W = Straight(v) \cup Dispatched(v)
  BY WaysSay
<1>3. \A n \in Public(v) : ToSet(BasesOf(v, n)) \subseteq Public(v)
  <2>1. Environment(v)
    BY DEF PublicEnvironment
  <2> QED
    BY <2>1, ClosureSays DEF ClosureOf, BasesOf
<1>4. \A r \in callRows : r \in CallRows(v) <=> /\ r.source \in Public(v) /\ r.target \in Public(v)
                                             /\ VisibleEvidence(v, r) # {}
  BY DEF Calls, CallRows, PublicRows, Public, PublicEnvironment, Environment, WellKept
<1>5. CallRows(v) \subseteq callRows
  BY DEF Calls, CallRows, PublicRows
<1>6. \A r : VirtualEvidence(v, r) # {} => VisibleEvidence(v, r) # {}
  BY DEF VirtualEvidence
<1>7. {SiteOf(s) : s \in r0.confirmed \cup r0.possible}
        = {Pair(r) : r \in {q \in own : VisibleEvidence(v, q) # {}}}
          \cup {Pair(r) : r \in {q \in through : VirtualEvidence(v, q) # {}}}
  <2> HIDE DEF r0, own, through, sure
  <2>1. sure \subseteq own
    BY DEF sure
  <2> DEFINE A == UNION {SitesOf(r, r.target, VisibleEvidence(v, r)) : r \in own}
             B == UNION {SitesOf(r, r.target, VirtualEvidence(v, r)) : r \in through}
  <2>2. r0.confirmed \cup r0.possible = A \cup B
    <3> DEFINE at(r) == SitesOf(r, r.target, VisibleEvidence(v, r))
               by(r) == SitesOf(r, r.target, VirtualEvidence(v, r))
    <3>1. \A x : x \in A <=> \E r \in own : x \in at(r)
      OBVIOUS
    <3>2. \A x : x \in B <=> \E r \in through : x \in by(r)
      OBVIOUS
    <3>3. \A x : x \in r0.confirmed <=> \E r \in sure : x \in at(r)
      BY <1>1
    <3>4. \A x : x \in r0.possible <=> \/ \E r \in own \ sure : x \in at(r)
                                       \/ \E r \in through : x \in by(r)
      BY <1>1
    <3> HIDE DEF A, B, at, by
    <3> QED
      BY <2>1, <3>1, <3>2, <3>3, <3>4
  <2>3. {SiteOf(s) : s \in UNION {SitesOf(r, r.target, VisibleEvidence(v, r)) : r \in own}}
          = {Pair(r) : r \in {q \in own : VisibleEvidence(v, q) # {}}}
    <3>1. \A r \in own : \A s \in SitesOf(r, r.target, VisibleEvidence(v, r)) : SiteOf(s) = Pair(r)
      BY DEF SitesOf, SiteOf, Pair
    <3>2. \A r \in own : SitesOf(r, r.target, VisibleEvidence(v, r)) # {} <=> VisibleEvidence(v, r) # {}
      BY DEF SitesOf
    <3> QED
      BY <3>1, <3>2
  <2>4. {SiteOf(s) : s \in UNION {SitesOf(r, r.target, VirtualEvidence(v, r)) : r \in through}}
          = {Pair(r) : r \in {q \in through : VirtualEvidence(v, q) # {}}}
    <3>1. \A r \in through : \A s \in SitesOf(r, r.target, VirtualEvidence(v, r)) : SiteOf(s) = Pair(r)
      BY DEF SitesOf, SiteOf, Pair
    <3>2. \A r \in through : SitesOf(r, r.target, VirtualEvidence(v, r)) # {} <=> VirtualEvidence(v, r) # {}
      BY DEF SitesOf
    <3> QED
      BY <3>1, <3>2
  <2> HIDE DEF A, B
  <2>6. {SiteOf(s) : s \in r0.confirmed \cup r0.possible} = {SiteOf(s) : s \in A} \cup {SiteOf(s) : s \in B}
    BY <2>2
  <2> QED
    BY <2>3, <2>4, <2>6 DEF A, B
<1> DEFINE E == Entering(W, v.incoming, m, S)
           E1 == Entering(Straight(v), v.incoming, m, S)
           E2 == Entering(Dispatched(v), v.incoming, m, S)
<1>8. E = E1 \cup E2
  BY <1>2 DEF Entering
<1>9. \A r \in own : r \in CallRows(v) <=> VisibleEvidence(v, r) # {}
  BY <1>4
<1> HIDE DEF callRows
<1>10. {Pair(r) : r \in {q \in own : VisibleEvidence(v, q) # {}}} = {SiteOf(x) : x \in E1}
  <2>1. E1 = {AsWay(r, r.target, r.confidence # "possible") : r \in {q \in own : VisibleEvidence(v, q) # {}}}
    <3>1. {q \in own : VisibleEvidence(v, q) # {}}
            = {q \in CallRows(v) : IF v.incoming THEN q.source = m /\ q.target \in S
                                                 ELSE q.target = m /\ q.source \in S}
      BY <1>5, <1>9
    <3> HIDE DEF own
    <3> QED
      BY <3>1 DEF Entering, Straight, AsWay
  <2>2. \A r : SiteOf(AsWay(r, r.target, r.confidence # "possible")) = Pair(r)
    BY DEF SiteOf, AsWay, Pair
  <2> DEFINE R == {q \in own : VisibleEvidence(v, q) # {}}
             w(r) == AsWay(r, r.target, r.confidence # "possible")
  <2>3. E1 = {w(r) : r \in R} /\ \A r : SiteOf(w(r)) = Pair(r)
    BY <2>1, <2>2
  <2> HIDE DEF E1, R, w
  <2>4. {Pair(r) : r \in R} = {SiteOf(x) : x \in E1}
    BY <2>3
  <2> QED
    BY <2>4 DEF R
<1>11. {Pair(r) : r \in {q \in through : VirtualEvidence(v, q) # {}}} = {SiteOf(x) : x \in E2}
  <2>1. \A r, n : SiteOf(AsWay(r, n, FALSE)) = Pair(r)
    BY DEF SiteOf, AsWay, Pair
  <2> DEFINE D == {q \in CallRows(v) : VirtualEvidence(v, q) # {}}
             Fits(r, n) == r.target \in ToSet(BasesOf(v, n))
             Ends(r, n) == IF v.incoming THEN r.source = m /\ n \in S ELSE n = m /\ r.source \in S
  <2>2. E2 = UNION {{AsWay(r, n, FALSE) : n \in {k \in Public(v) : Fits(r, k) /\ Ends(r, k)}} : r \in D}
    BY DEF Entering, Dispatched, AsWay
  <2>3. \A r \in through : VirtualEvidence(v, r) # {} =>
           r \in D /\ \E n \in Public(v) : Fits(r, n) /\ Ends(r, n)
    <3> TAKE r \in through
    <3> HAVE VirtualEvidence(v, r) # {}
    <3>1. \E n \in Public(v) : Fits(r, n) /\ Ends(r, n)
      <4>1. CASE v.incoming
        BY <4>1
      <4>2. CASE ~v.incoming
        BY <4>2
      <4> QED
        BY <4>1, <4>2
    <3>2. r.target \in Public(v)
      BY <1>3, <3>1
    <3>3. r.source \in Public(v) /\ r \in callRows
      <4>1. CASE v.incoming
        BY <4>1
      <4>2. CASE ~v.incoming
        BY <4>2
      <4> QED
        BY <4>1, <4>2
    <3> QED
      BY <1>4, <1>6, <3>1, <3>2, <3>3
  <2>4. \A r \in D : \A n \in Public(v) : Fits(r, n) /\ Ends(r, n) => r \in through
    <3> TAKE r \in D
    <3> TAKE n \in Public(v)
    <3> HAVE Fits(r, n) /\ Ends(r, n)
    <3>1. r \in callRows
      BY <1>5
    <3>2. CASE v.incoming
      BY <3>1, <3>2
    <3>3. CASE ~v.incoming
      BY <3>1, <3>3
    <3> QED
      BY <3>2, <3>3
  <2>5. \A r \in D : VirtualEvidence(v, r) # {}
    OBVIOUS
  <2> HIDE DEF E2, D, Fits, Ends, through
  <2>6. \A x \in E2 : \E r \in through : VirtualEvidence(v, r) # {} /\ SiteOf(x) = Pair(r)
    <3> TAKE x \in E2
    <3>1. PICK r \in D, n \in Public(v) : Fits(r, n) /\ Ends(r, n) /\ x = AsWay(r, n, FALSE)
      BY <2>2
    <3> QED
      BY <2>1, <2>4, <2>5, <3>1
  <2>7. \A r \in through : VirtualEvidence(v, r) # {} => \E x \in E2 : SiteOf(x) = Pair(r)
    <3> TAKE r \in through
    <3> HAVE VirtualEvidence(v, r) # {}
    <3>1. PICK n \in Public(v) : r \in D /\ Fits(r, n) /\ Ends(r, n)
      BY <2>3
    <3>2. n \in {k \in Public(v) : Fits(r, k) /\ Ends(r, k)}
      BY <3>1
    <3>3. AsWay(r, n, FALSE) \in {AsWay(r, j, FALSE) : j \in {k \in Public(v) : Fits(r, k) /\ Ends(r, k)}}
      BY <3>2
    <3>4. AsWay(r, n, FALSE) \in E2
      BY <2>2, <3>1, <3>3
    <3> QED
      BY <2>1, <3>4
  <2> QED
    BY <2>6, <2>7
<1>12. {SiteOf(s) : s \in r0.confirmed \cup r0.possible} = {SiteOf(x) : x \in E}
  <2> HIDE DEF r0, E, E1, E2, own, through
  <2> QED
    BY <1>7, <1>8, <1>10, <1>11
<1>13. (\E r \in sure : VisibleEvidence(v, r) # {} /\ before(r) \in t.confirmed)
          <=> m \in LedTo(W, v.incoming, S \cap t.confirmed, TRUE)
  <2>1. m \in LedTo(W, v.incoming, S \cap t.confirmed, TRUE)
          <=> \E x \in E : x.sure /\ Begun(x, v.incoming) \in t.confirmed
    BY LedToSays
  <2>2. \A x \in E2 : ~x.sure
    BY DEF Entering, Dispatched, AsWay
  <2>3. \A x \in E1 : x.sure /\ Begun(x, v.incoming) \in t.confirmed =>
           \E r \in sure : VisibleEvidence(v, r) # {} /\ before(r) \in t.confirmed
    <3> TAKE x \in E1
    <3> HAVE x.sure /\ Begun(x, v.incoming) \in t.confirmed
    <3>1. PICK r \in CallRows(v) : x = AsWay(r, r.target, r.confidence # "possible")
      BY DEF Entering, Straight
    <3>2. /\ x.caller = r.source /\ x.entered = r.target /\ r.confidence # "possible"
      BY <3>1 DEF AsWay
    <3>3. r \in own
      BY <1>5, <3>2 DEF Entering
    <3>4. VisibleEvidence(v, r) # {}
      BY <1>9, <3>3
    <3>5. before(r) = Begun(x, v.incoming)
      BY <3>2 DEF Begun
    <3> QED
      BY <3>2, <3>3, <3>4, <3>5
  <2>4. \A r \in sure : VisibleEvidence(v, r) # {} /\ before(r) \in t.confirmed =>
           \E x \in E1 : x.sure /\ Begun(x, v.incoming) \in t.confirmed
    <3> TAKE r \in sure
    <3> HAVE VisibleEvidence(v, r) # {} /\ before(r) \in t.confirmed
    <3> DEFINE x == AsWay(r, r.target, r.confidence # "possible")
    <3>1. r \in own /\ r \in CallRows(v)
      BY <1>9
    <3>2. x \in Straight(v)
      BY <3>1 DEF Straight
    <3>3. x.caller = r.source /\ x.entered = r.target /\ x.sure
      BY DEF AsWay
    <3>4. x \in E1
      BY <3>1, <3>2, <3>3 DEF Entering
    <3>5. Begun(x, v.incoming) = before(r)
      BY <3>3 DEF Begun
    <3> HIDE DEF x
    <3> QED
      BY <3>3, <3>4, <3>5
  <2> HIDE DEF r0, E, E1, E2, own, through, sure, before
  <2> QED
    BY <1>8, <2>1, <2>2, <2>3, <2>4
<1>14. r0.path = (m \in LedTo(W, v.incoming, S \cap t.confirmed, TRUE))
  <2> DEFINE p == \E r \in sure : VisibleEvidence(v, r) # {} /\ before(r) \in t.confirmed
             q == m \in LedTo(W, v.incoming, S \cap t.confirmed, TRUE)
  <2>1. r0.path = p
    BY <1>1
  <2>2. p <=> q
    BY <1>13
  <2>3. p \in BOOLEAN /\ q \in BOOLEAN
    OBVIOUS
  <2> HIDE DEF r0, p, q
  <2>4. r0.path = q
    BY <2>1, <2>2, <2>3
  <2> QED
    BY <2>4 DEF q
<1> QED
  BY <1>1, <1>12, <1>14 DEF r0, E, W, S

-----------------------------------------------------------------------------
(* The candidates of a node include whatever a way from it leads to.       *)

LEMMA Prefixed ==
    ASSUME NEW T, NEW a \in T, NEW s \in Seq(T)
    PROVE  <<a>> \o s \in Seq(T) /\ ToSet(<<a>> \o s) = {a} \cup ToSet(s)
<1> DEFINE one == <<a>>
           r == one \o s
<1>1. one \in Seq(T) /\ Len(one) = 1 /\ one[1] = a
  OBVIOUS
<1> HIDE DEF one
<1>2. /\ r \in Seq(T) /\ Len(r) = 1 + Len(s) /\ Len(s) \in Nat
      /\ r[1] = a /\ \A i \in 1..Len(s) : r[1 + i] = s[i]
  <2>1. r \in Seq(T) /\ IsSeq(s) /\ IsSeq(one)
    BY <1>1, OverIsSeq
  <2>2. /\ Len(s) \in Nat /\ Len(r) = Len(one) + Len(s)
        /\ \A i \in 1..Len(one) : r[i] = one[i]
        /\ \A i \in 1..Len(s) : r[Len(one) + i] = s[i]
    BY <2>1, Joined
  <2>3. r[1] = a
    BY <1>1, <2>2
  <2> HIDE DEF r
  <2> QED
    BY <1>1, <2>1, <2>2, <2>3
<1> HIDE DEF r
<1>3. \A i \in 1..Len(r) : i = 1 \/ \E j \in 1..Len(s) : i = 1 + j
  <2> TAKE i \in 1..Len(r)
  <2>1. i # 1 => i - 1 \in 1..Len(s) /\ i = 1 + (i - 1)
    BY <1>2
  <2> QED
    BY <2>1
<1>4. \A j \in 1..Len(s) : 1 + j \in 1..Len(r)
  BY <1>2
<1>5. 1 \in 1..Len(r)
  BY <1>2
<1>6. ToSet(r) = {r[i] : i \in 1..Len(r)} /\ ToSet(s) = {s[i] : i \in 1..Len(s)}
  BY <1>2 DEF ToSet
<1>7. ToSet(r) = {a} \cup ToSet(s)
  <2>1. \A x \in ToSet(r) : x \in {a} \cup ToSet(s)
    <3> TAKE x \in ToSet(r)
    <3>1. PICK i \in 1..Len(r) : x = r[i]
      BY <1>6
    <3>2. CASE i = 1
      BY <1>2, <3>1, <3>2
    <3>3. CASE i # 1
      <4>1. PICK j \in 1..Len(s) : i = 1 + j
        BY <1>3, <3>3
      <4>2. x = s[j]
        BY <1>2, <3>1, <4>1
      <4> QED
        BY <1>6, <4>2
    <3> QED
      BY <3>2, <3>3
  <2>2. a \in ToSet(r)
    BY <1>2, <1>5, <1>6
  <2>3. \A x \in ToSet(s) : x \in ToSet(r)
    <3> TAKE x \in ToSet(s)
    <3>1. PICK j \in 1..Len(s) : x = s[j]
      BY <1>6
    <3>2. 1 + j \in 1..Len(r) /\ r[1 + j] = x
      BY <1>2, <1>4, <3>1
    <3> QED
      BY <1>6, <3>2
  <2> QED
    BY <2>1, <2>2, <2>3
<1> QED
  BY <1>2, <1>7 DEF r, one

LEMMA CandidatesFound ==
    ASSUME NEW v, PublicEnvironment(v), NEW n \in Public(v),
           NEW x \in Ways(PublicFacts(v.db)), Begun(x, v.incoming) = n
    PROVE  Led(x, v.incoming) \in ToSet(Candidates(v, n))
<1> DEFINE T == v.db.symbols
           bases == BasesOf(v, n)
           slots == <<n>> \o bases
           into(s) == RelationsTo(v.db, s, "calls")
           callers(s) == [j \in DOMAIN into(s) |-> into(s)[j].source]
           in == [i \in 1..(1 + Len(bases)) |-> callers(slots[i])]
           from == RelationsFrom(v.db, n, "calls")
           part(r) == <<r.target>> \o
                      (IF VirtualEvidence(v, r) # {} THEN OverridersOf(v, r.target) ELSE <<>>)
           out == [i \in DOMAIN from |-> part(from[i])]
<1>1. Environment(v) /\ WellKept(v.db)
  BY DEF PublicEnvironment, Environment
<1>2. bases \in Seq(T) /\ Len(bases) \in Nat /\ n \in T
  BY <1>1, DirectionsType DEF Public
<1>3. Candidates(v, n) = IF v.incoming THEN FlattenSeq(in) ELSE FlattenSeq(out)
  BY DEF Candidates
<1>4. PICK r \in CallRows(v) :
        /\ x.caller = r.source
        /\ \/ x.entered = r.target
           \/ /\ VirtualEvidence(v, r) # {} /\ x.entered \in Public(v)
              /\ r.target \in ToSet(BasesOf(v, x.entered))
  <2>1. x \in Straight(v) \cup Dispatched(v)
    BY WaysSay
  <2>2. CASE x \in Straight(v)
    BY <2>2 DEF Straight, AsWay
  <2>3. CASE x \in Dispatched(v)
    <3>1. PICK q \in CallRows(v), k \in Public(v) :
            VirtualEvidence(v, q) # {} /\ q.target \in ToSet(BasesOf(v, k)) /\ x = AsWay(q, k, FALSE)
      BY <2>3 DEF Dispatched
    <3>2. x.caller = q.source /\ x.entered = k
      BY <3>1 DEF AsWay
    <3> QED
      BY <3>1, <3>2
  <2> QED
    BY <2>1, <2>2, <2>3
<1>5. r \in v.db.relations /\ r.kind = "calls"
  BY DEF CallRows, PublicRows
<1>6. CASE v.incoming
  <2>1. x.entered = n /\ Led(x, v.incoming) = r.source
    BY <1>4, <1>6 DEF Begun, Led
  <2>2. PICK i \in 1..(1 + Len(bases)) : slots[i] = r.target
    <3>1. IsSeq(<<n>>) /\ Len(<<n>>) = 1 /\ <<n>>[1] = n /\ IsSeq(bases)
      BY <1>2, OverIsSeq, ShortSequences
    <3> HIDE DEF bases
    <3>2. /\ \A i \in 1..1 : slots[i] = <<n>>[i]
          /\ \A i \in 1..Len(bases) : slots[1 + i] = bases[i]
      BY <3>1, Joined
    <3>3. CASE r.target = n
      <4>1. 1 \in 1..(1 + Len(bases)) /\ slots[1] = n
        BY <1>2, <3>1, <3>2
      <4> QED
        BY <3>3, <4>1
    <3>4. CASE r.target \in ToSet(bases)
      <4>1. PICK i \in 1..Len(bases) : bases[i] = r.target
        BY <1>2, <3>4 DEF ToSet
      <4>2. 1 + i \in 1..(1 + Len(bases)) /\ slots[1 + i] = r.target
        BY <1>2, <3>2, <4>1
      <4> QED
        BY <4>2
    <3> QED
      BY <1>4, <2>1, <3>3, <3>4 DEF bases
  <2>3. ASSUME NEW s
        PROVE  /\ callers(s) \in Seq(T)
               /\ \A q \in v.db.relations : q.target = s /\ q.kind = "calls" => q.source \in ToSet(callers(s))
    <3> DEFINE S == {q \in v.db.relations : q.target = s /\ q.kind = "calls"}
    <3>1. S \in SUBSET v.db.relations /\ into(s) = InRowOrder(S)
      BY DEF RelationsTo
    <3>2. \A q \in S : q.source \in T
      BY <1>1 DEF WellKept
    <3>3. \A q \in v.db.relations : q.target = s /\ q.kind = "calls" => q \in S
      OBVIOUS
    <3> HIDE DEF S, into
    <3>4. into(s) \in Seq(S) /\ ToSet(into(s)) = S
      BY <1>1, <3>1, RowsInOrder
    <3>5. /\ DOMAIN into(s) = 1..Len(into(s)) /\ Len(into(s)) \in Nat
          /\ \A j \in 1..Len(into(s)) : into(s)[j].source \in T
      BY <3>2, <3>4
    <3>6. \A q \in S : \E j \in DOMAIN into(s) : into(s)[j] = q
      BY <3>4 DEF ToSet
    <3>7. callers(s) \in Seq(T)
      BY <3>5
    <3>8. \A q \in S : q.source \in ToSet(callers(s))
      BY <3>6 DEF ToSet
    <3> QED
      BY <3>3, <3>7, <3>8
  <2> HIDE DEF callers, slots, bases
  <2>4. in = [j \in 1..(1 + Len(bases)) |-> in[j]] /\ \A j \in 1..(1 + Len(bases)) : in[j] = callers(slots[j])
    OBVIOUS
  <2>5. 1 + Len(bases) \in Nat
    BY <1>2
  <2> HIDE DEF in, T
  <2>6. in \in Seq(Seq(T)) /\ Len(in) = 1 + Len(bases)
    <3>1. in \in [1..(1 + Len(bases)) -> Seq(T)]
      BY <2>3, <2>4
    <3> QED
      BY <2>5, <3>1
  <2>7. ToSet(FlattenSeq(in)) = UNION {ToSet(in[j]) : j \in 1..Len(in)}
    BY <2>6, Flattened
  <2>8. r.source \in ToSet(in[i])
    BY <1>5, <2>2, <2>3, <2>4
  <2>9. r.source \in ToSet(FlattenSeq(in))
    BY <2>2, <2>6, <2>7, <2>8
  <2> QED
    BY <1>3, <1>6, <2>1, <2>9
<1>7. CASE ~v.incoming
  <2>1. r.source = n /\ Led(x, v.incoming) = x.entered
    BY <1>4, <1>7 DEF Begun, Led
  <2> DEFINE S == {q \in v.db.relations : q.source = n /\ q.kind = "calls"}
  <2>2. S \in SUBSET v.db.relations /\ from = InRowOrder(S) /\ r \in S
    BY <1>5, <2>1 DEF RelationsFrom
  <2>3. \A q \in S : q.target \in T
    BY <1>1 DEF WellKept
  <2> HIDE DEF S, from, T
  <2>4. from \in Seq(S) /\ ToSet(from) = S
    BY <1>1, <2>2, RowsInOrder
  <2>5. DOMAIN from = 1..Len(from) /\ Len(from) \in Nat /\ \A i \in 1..Len(from) : from[i] \in S
    BY <2>4
  <2>6. PICK i \in 1..Len(from) : from[i] = r
    BY <2>2, <2>4, <2>5 DEF ToSet
  <2>7. \A m : OverridersOf(v, m) \in Seq(T) /\ <<>> \in Seq(T)
    BY <1>1, DirectionsType DEF T
  <2>8. ASSUME NEW q \in S
        PROVE  /\ part(q) \in Seq(T)
               /\ q.target \in ToSet(part(q))
               /\ VirtualEvidence(v, q) # {} => ToSet(OverridersOf(v, q.target)) \subseteq ToSet(part(q))
    <3> DEFINE rest == IF VirtualEvidence(v, q) # {} THEN OverridersOf(v, q.target) ELSE <<>>
    <3>1. rest \in Seq(T) /\ q.target \in T
      BY <2>3, <2>7
    <3>2. part(q) = <<q.target>> \o rest
      OBVIOUS
    <3>3. VirtualEvidence(v, q) # {} => rest = OverridersOf(v, q.target)
      OBVIOUS
    <3> HIDE DEF rest, part
    <3>4. part(q) \in Seq(T) /\ ToSet(part(q)) = {q.target} \cup ToSet(rest)
      BY <3>1, <3>2, Prefixed
    <3> QED
      BY <3>3, <3>4
  <2> HIDE DEF part
  <2>9. out = [j \in 1..Len(from) |-> out[j]] /\ \A j \in 1..Len(from) : out[j] = part(from[j])
    BY <2>5
  <2> HIDE DEF out
  <2>10. out \in Seq(Seq(T)) /\ Len(out) = Len(from)
    <3>1. out \in [1..Len(from) -> Seq(T)]
      BY <2>5, <2>8, <2>9
    <3> QED
      BY <2>5, <3>1
  <2>11. ToSet(FlattenSeq(out)) = UNION {ToSet(out[j]) : j \in 1..Len(out)}
    BY <2>10, Flattened
  <2>12. x.entered \in ToSet(part(r))
    <3>1. CASE x.entered = r.target
      BY <2>2, <2>8, <3>1
    <3>2. CASE /\ VirtualEvidence(v, r) # {} /\ x.entered \in Public(v)
               /\ r.target \in ToSet(BasesOf(v, x.entered))
      <4>1. r.target \in AllBases(PublicFacts(v.db), x.entered)
        BY <3>2, BasesFound
      <4>2. x.entered \in ToSet(OverridersOf(v, r.target))
        BY <3>2, <4>1, OverridersFound
      <4> QED
        BY <2>2, <2>8, <3>2, <4>2
    <3> QED
      BY <1>4, <3>1, <3>2
  <2>13. x.entered \in ToSet(FlattenSeq(out))
    BY <2>6, <2>9, <2>10, <2>11, <2>12
  <2> QED
    BY <1>3, <1>7, <2>1, <2>13
<1> QED
  BY <1>6, <1>7


-----------------------------------------------------------------------------
(* The rings of symbols around the start.                                  *)

KnownIn(q, h) == UNION {q[i].all : i \in 1..h}
NextRing(W, incoming, q, h) ==
    [all |-> LedTo(W, incoming, q[h].all, FALSE) \ KnownIn(q, h),
     sure |-> LedTo(W, incoming, q[h].sure, TRUE) \ KnownIn(q, h)]
FirstRing(start) == [all |-> {start}, sure |-> {start}]
AreRings(W, start, incoming, n, q) ==
    /\ IsSeq(q) /\ Len(q) = n + 1
    /\ q[1] = FirstRing(start)
    /\ \A h \in 1..n : q[h + 1] = NextRing(W, incoming, q, h)

RingSteps(W, start, incoming, n, f) ==
    /\ f[0] = <<FirstRing(start)>>
    /\ \A h \in 1..n : f[h] = Append(f[h - 1], NextRing(W, incoming, f[h - 1], h))
    /\ Rings(W, start, incoming, n) = f[n]

LEMMA RingsStepwise ==
    ASSUME NEW W, NEW start, NEW incoming, NEW n \in Nat
    PROVE  \E f : RingSteps(W, start, incoming, n, f)
<1> DEFINE Base == <<FirstRing(start)>>
           Step(h, x) == Append(x, NextRing(W, incoming, x, h))
           Rec(g, k) == g = [h \in 0..k |-> IF h = 0 THEN Base ELSE Step(h, g[h - 1])]
           F == CHOOSE g : Rec(g, n)
<1>1. Rings(W, start, incoming, n) = F[n]
  BY DEF Rings, FirstRing, NextRing, KnownIn, LedTo, Led, Begun
<1> HIDE DEF Base, Step
<1>2. Rec([i \in 0..0 |-> Base], 0)
  OBVIOUS
<1>3. ASSUME NEW k \in Nat, NEW g, Rec(g, k)
      PROVE  \E h : Rec(h, k + 1)
  <2> DEFINE h == [i \in 0..(k + 1) |-> IF i = k + 1 THEN Step(k + 1, g[k]) ELSE g[i]]
  <2>1. \A i \in 0..(k + 1) : h[i] = IF i = 0 THEN Base ELSE Step(i, h[i - 1])
    <3> TAKE i \in 0..(k + 1)
    <3>1. CASE i = k + 1
      BY <3>1
    <3>2. CASE i # k + 1
      <4>1. i \in 0..k /\ h[i] = g[i] /\ (i # 0 => i - 1 \in 0..k /\ h[i - 1] = g[i - 1])
        BY <3>2
      <4>2. g[i] = IF i = 0 THEN Base ELSE Step(i, g[i - 1])
        BY <1>3, <4>1
      <4> QED
        BY <4>1, <4>2
    <3> QED
      BY <3>1, <3>2
  <2>2. h = [i \in 0..(k + 1) |-> h[i]]
    OBVIOUS
  <2> HIDE DEF h
  <2>3. Rec(h, k + 1)
    BY <2>1, <2>2
  <2> QED
    BY <2>3
<1> DEFINE S == {k \in Nat : \E g : Rec(g, k)}
<1> HIDE DEF Rec
<1>4. 0 \in S
  BY <1>2
<1>5. \A k \in Nat : k \in S => k + 1 \in S
  BY <1>3
<1> HIDE DEF S
<1>6. \E g : Rec(g, n)
  BY <1>4, <1>5, NaturalsBySuccessor DEF S
<1>7. Rec(F, n)
  BY <1>6
<1> HIDE DEF F
<1>8. F[0] = Base /\ \A i \in 1..n : F[i] = Step(i, F[i - 1])
  BY <1>7 DEF Rec
<1>9. RingSteps(W, start, incoming, n, F)
  BY <1>1, <1>8 DEF Base, Step, RingSteps
<1> QED
  BY <1>9

LEMMA RingAdded ==
    ASSUME NEW W, NEW start, NEW incoming, NEW k \in Nat, NEW q,
           AreRings(W, start, incoming, k, q)
    PROVE  AreRings(W, start, incoming, k + 1, Append(q, NextRing(W, incoming, q, k + 1)))
<1> DEFINE e == NextRing(W, incoming, q, k + 1)
           r == Append(q, e)
<1>1. IsSeq(q) /\ Len(q) = k + 1 /\ q[1] = FirstRing(start)
      /\ \A h \in 1..k : q[h + 1] = NextRing(W, incoming, q, h)
  BY DEF AreRings
<1>2. /\ IsSeq(r) /\ Len(r) = (k + 1) + 1
      /\ \A i \in 1..(k + 1) : r[i] = q[i]
      /\ r[(k + 1) + 1] = e
  <2> HIDE DEF e
  <2>1. /\ IsSeq(r) /\ Len(r) = Len(q) + 1
        /\ \A i \in 1..Len(q) : r[i] = q[i]
        /\ r[Len(q) + 1] = e
    BY <1>1, Added
  <2> HIDE DEF r
  <2> QED
    BY <1>1, <2>1
<1> HIDE DEF r, e
<1>3. \A h \in 1..(k + 1) : KnownIn(r, h) = KnownIn(q, h) /\ r[h] = q[h]
  <2> TAKE h \in 1..(k + 1)
  <2>1. \A i \in 1..h : i \in 1..(k + 1)
    OBVIOUS
  <2>2. \A i \in 1..h : r[i] = q[i]
    BY <1>2, <2>1
  <2> QED
    BY <1>2, <2>2 DEF KnownIn
<1>4. \A h \in 1..(k + 1) : NextRing(W, incoming, r, h) = NextRing(W, incoming, q, h)
  BY <1>3 DEF NextRing
<1>5. \A h \in 1..(k + 1) : r[h + 1] = NextRing(W, incoming, r, h)
  <2> TAKE h \in 1..(k + 1)
  <2>1. CASE h = k + 1
    BY <1>2, <1>4, <2>1 DEF e
  <2>2. CASE h # k + 1
    <3>1. h \in 1..k /\ h + 1 \in 1..(k + 1)
      BY <2>2
    <3> QED
      BY <1>1, <1>2, <1>4, <3>1
  <2> QED
    BY <2>1, <2>2
<1>6. r[1] = FirstRing(start)
  BY <1>1, <1>2
<1>7. AreRings(W, start, incoming, k + 1, r)
  BY <1>2, <1>5, <1>6 DEF AreRings
<1> QED
  BY <1>7 DEF r, e

LEMMA RingsSay ==
    ASSUME NEW W, NEW start, NEW incoming, NEW n \in Nat
    PROVE  AreRings(W, start, incoming, n, Rings(W, start, incoming, n))
<1>1. PICK f : RingSteps(W, start, incoming, n, f)
  BY RingsStepwise
<1>2. /\ f[0] = <<FirstRing(start)>>
      /\ \A h \in 1..n : f[h] = Append(f[h - 1], NextRing(W, incoming, f[h - 1], h))
      /\ Rings(W, start, incoming, n) = f[n]
  BY <1>1 DEF RingSteps
<1> DEFINE P == {k \in Nat : k <= n => AreRings(W, start, incoming, k, f[k])}
<1>3. 0 \in P
  <2>1. IsSeq(f[0]) /\ Len(f[0]) = 1 /\ f[0][1] = FirstRing(start)
    BY <1>2, ShortSequences
  <2>2. AreRings(W, start, incoming, 0, f[0])
    BY <2>1 DEF AreRings
  <2> QED
    BY <2>2
<1>4. \A k \in Nat : k \in P => k + 1 \in P
  <2> SUFFICES ASSUME NEW k \in Nat, k \in P, k + 1 <= n
               PROVE  AreRings(W, start, incoming, k + 1, f[k + 1])
    OBVIOUS
  <2>1. AreRings(W, start, incoming, k, f[k])
    OBVIOUS
  <2>2. k + 1 \in 1..n /\ (k + 1) - 1 = k
    OBVIOUS
  <2>3. f[k + 1] = Append(f[k], NextRing(W, incoming, f[k], k + 1))
    BY <1>2, <2>2
  <2> QED
    BY <2>1, <2>3, RingAdded
<1> HIDE DEF P
<1>5. n \in P
  BY <1>3, <1>4, NaturalsBySuccessor
<1>6. AreRings(W, start, incoming, n, f[n])
  BY <1>5 DEF P
<1> QED
  BY <1>2, <1>6

\* What rings say of each other.
RingFrom(W, incoming, R, h) ==
    /\ R[h + 1].all = LedTo(W, incoming, R[h].all, FALSE) \ KnownIn(R, h)
    /\ R[h + 1].sure = LedTo(W, incoming, R[h].sure, TRUE) \ KnownIn(R, h)
    /\ KnownIn(R, h + 1) = KnownIn(R, h) \cup R[h + 1].all
    /\ R[h].all \subseteq KnownIn(R, h)

LEMMA RingsGrow ==
    ASSUME NEW W, NEW start, NEW incoming, NEW n \in Nat, NEW R,
           AreRings(W, start, incoming, n, R), NEW h \in 1..n
    PROVE  RingFrom(W, incoming, R, h)
<1>1. R[h + 1] = NextRing(W, incoming, R, h)
  BY DEF AreRings
<1>2. 1..(h + 1) = 1..h \cup {h + 1} /\ h \in 1..h
  OBVIOUS
<1>3. KnownIn(R, h + 1) = KnownIn(R, h) \cup R[h + 1].all
  BY <1>2 DEF KnownIn
<1>4. R[h].all \subseteq KnownIn(R, h)
  BY <1>2 DEF KnownIn
<1>5. /\ NextRing(W, incoming, R, h).all = LedTo(W, incoming, R[h].all, FALSE) \ KnownIn(R, h)
      /\ NextRing(W, incoming, R, h).sure = LedTo(W, incoming, R[h].sure, TRUE) \ KnownIn(R, h)
  BY DEF NextRing
<1> QED
  BY <1>1, <1>3, <1>4, <1>5, Zenon DEF RingFrom


-----------------------------------------------------------------------------
(* One level of the traversal that no budget stops.                        *)

Others(t) == {t.records[i].other : i \in 1..Len(t.records)}
Met(v, t) == {v.start} \cup Others(t)

LEMMA VisitedIsMet ==
    ASSUME NEW v, NEW t, IsSeq(t.records), NEW s
    PROVE  Visited(v, t, s) <=> s \in Met(v, t)
<1>1. DOMAIN t.records = 1..Len(t.records)
  BY DEF IsSeq
<1> QED
  BY <1>1 DEF Visited, Met, Others

\* A record says how its symbol is reached from the previous level.
SitesIn(r) == {SiteOf(s) : s \in r.confirmed \cup r.possible}
SitesFrom(v, t0, m) ==
    {SiteOf(x) : x \in Entering(Ways(PublicFacts(v.db)), v.incoming, m, ToSet(t0.frontier))}
Reached(v, t0) == LedTo(Ways(PublicFacts(v.db)), v.incoming, ToSet(t0.frontier), FALSE)
SurelyReached(v, t0) ==
    LedTo(Ways(PublicFacts(v.db)), v.incoming, ToSet(t0.frontier) \cap t0.confirmed, TRUE)
TrueRecord(v, t0, u, r) ==
    /\ r.other \in Reached(v, t0) \ Met(v, t0)
    /\ r.hop = t0.hop
    /\ SitesIn(r) = SitesFrom(v, t0, r.other)
    /\ r.path = (r.other \in SurelyReached(v, t0))
    /\ r.other \in u.confirmed <=> r.other \in SurelyReached(v, t0)

\* The beginning of a level: the frontier is the level before.
AtLevel(v, t0) ==
    /\ TraceState(v, Ample(v), t0) /\ t0.stop = "no"
    /\ t0.level = <<>> /\ t0.rejected = {}
    /\ ToSet(t0.frontier) \subseteq Met(v, t0) \cap Public(v)
    /\ t0.confirmed \subseteq Met(v, t0)

\* Part of the way through it, k candidates have been looked at.
SoFar(v, t0, u, cs, k) ==
    /\ TraceState(v, Ample(v), u) /\ u.stop = "no"
    /\ u.frontier = t0.frontier /\ u.hop = t0.hop
    /\ Begins(t0.records, u.records)
    /\ \A i \in 1..Len(u.records) : i > Len(t0.records) => TrueRecord(v, t0, u, u.records[i])
    /\ Met(v, u) = Met(v, t0) \cup ToSet(u.level)
    /\ ToSet(u.level) \cap Met(v, t0) = {}
    /\ t0.confirmed \subseteq u.confirmed
    /\ u.confirmed \subseteq Met(v, u)
    /\ u.confirmed \cap Met(v, t0) = t0.confirmed
    /\ u.rejected \cap Reached(v, t0) = {}
    /\ \A j \in 1..Len(cs) : j <= k /\ cs[j] \in Reached(v, t0) => cs[j] \in Met(v, u)

LEMMA SoFarStarts ==
    ASSUME NEW v, NEW t0, AtLevel(v, t0), NEW cs, Len(cs) \in Nat
    PROVE  SoFar(v, t0, t0, cs, 0)
<1>1. /\ TraceState(v, Ample(v), t0) /\ t0.stop = "no" /\ t0.level = <<>> /\ t0.rejected = {}
      /\ t0.confirmed \subseteq Met(v, t0)
  BY DEF AtLevel
<1>2. IsSeq(t0.records) /\ Len(t0.records) \in Nat
  BY <1>1 DEF TraceState
<1>3. Begins(t0.records, t0.records)
  BY <1>2, BeginsItself
<1>4. ToSet(t0.level) = {}
  BY <1>1 DEF ToSet
<1>5. \A i \in 1..Len(t0.records) : ~(i > Len(t0.records))
  BY <1>2
<1>6. \A j \in 1..Len(cs) : ~(j <= 0)
  OBVIOUS
<1> QED
  BY <1>1, <1>3, <1>4, <1>5, <1>6 DEF SoFar

\* With room for every symbol, a candidate that is new is looked at.
LEMMA LooksAt ==
    ASSUME NEW v, Environment(v), NEW u, TraceState(v, Ample(v), u), u.stop = "no",
           NEW c \in v.db.symbols
    PROVE  Discover(v, Ample(v), u, c) =
               IF c \in Met(v, u) \/ c \in u.rejected THEN u ELSE Admit(v, u, c, Seal(v, u, c))
<1> DEFINE n == Cardinality(v.db.symbols)
<1>1. Ample(v).limit = n /\ Ample(v).clock = n
  BY DEF Ample
<1>2. Visited(v, u, c) <=> c \in Met(v, u)
  BY VisitedIsMet DEF TraceState
<1>3. Len(u.records) \in Nat /\ n \in Nat
  BY FS_CardinalityType DEF TraceState, Environment, WellKept
<1>4. ~Visited(v, u, c) => Len(u.records) < n
  BY RoomForOneMore
<1> HIDE DEF n
<1>5. ~Visited(v, u, c) => ~(Len(u.records) >= n)
  BY <1>3, <1>4
<1> QED
  BY <1>1, <1>2, <1>5 DEF Discover

\* An admitted candidate is one that a way from the frontier leads to.
Admission(v, t0, u, c, r, w) ==
    \/ /\ c \notin Reached(v, t0)
       /\ w = [u EXCEPT !.rejected = @ \cup {c}]
    \/ /\ r.other = c /\ r.hop = t0.hop /\ c \in Reached(v, t0)
       /\ SitesIn(r) = SitesFrom(v, t0, c)
       /\ r.path = (c \in SurelyReached(v, t0))
       /\ w = [u EXCEPT !.records = Append(@, r),
                        !.level = Append(@, c),
                        !.confirmed = IF r.path THEN @ \cup {c} ELSE @]

LEMMA AdmitSays ==
    ASSUME NEW v, PublicEnvironment(v), NEW t0, AtLevel(v, t0), NEW cs, NEW k,
           NEW u, SoFar(v, t0, u, cs, k), NEW c \in v.db.symbols, c \notin Met(v, u)
    PROVE  Admission(v, t0, u, c, Seal(v, u, c), Admit(v, u, c, Seal(v, u, c)))
<1> DEFINE r == Seal(v, u, c)
           w == Admit(v, u, c, r)
           W == Ways(PublicFacts(v.db))
           F == ToSet(t0.frontier)
<1>1. /\ u.frontier = t0.frontier /\ u.hop = t0.hop
      /\ u.confirmed \cap Met(v, t0) = t0.confirmed
      /\ F \subseteq Met(v, t0) /\ F \subseteq Public(v)
  BY DEF SoFar, AtLevel
<1>2. F \cap u.confirmed = F \cap t0.confirmed
  <2>1. t0.confirmed \subseteq u.confirmed
    BY DEF SoFar
  <2> HIDE DEF F
  <2> QED
    BY <1>1, <2>1
<1>3. w = IF c \notin Public(v) \/ r.confirmed \cup r.possible = {}
          THEN [u EXCEPT !.rejected = @ \cup {c}]
          ELSE [u EXCEPT !.records = Append(@, r),
                         !.level = Append(@, c),
                         !.confirmed = IF r.path THEN @ \cup {c} ELSE @]
  BY DEF Admit, Public
<1> HIDE DEF w
<1>4. CASE c \notin Public(v)
  <2>1. \A x \in W : Led(x, v.incoming) \in Public(v)
    BY WaysArePublic DEF Led
  <2>2. c \notin Reached(v, t0)
    BY <1>4, <2>1 DEF Reached, LedTo
  <2> HIDE DEF r
  <2>3. Admission(v, t0, u, c, r, w)
    BY <1>3, <1>4, <2>2 DEF Admission
  <2> QED
    BY <2>3 DEF w, r
<1>5. CASE c \in Public(v)
  <2>1. /\ r.other = c /\ r.hop = u.hop
        /\ SitesIn(r) = {SiteOf(x) : x \in Entering(W, v.incoming, c, F)}
        /\ r.path = (c \in LedTo(W, v.incoming, F \cap u.confirmed, TRUE))
    <3> DEFINE G == ToSet(u.frontier)
    <3>1. G = F
      BY <1>1
    <3>2. G \subseteq Public(v)
      BY <1>1, <3>1
    <3>3. /\ r.other = c /\ r.hop = u.hop
          /\ {SiteOf(s) : s \in r.confirmed \cup r.possible}
                = {SiteOf(x) : x \in Entering(W, v.incoming, c, G)}
          /\ r.path = (c \in LedTo(W, v.incoming, G \cap u.confirmed, TRUE))
      BY <1>5, <3>2, SealSays
    <3> HIDE DEF r, W, F, G
    <3> QED
      BY <3>1, <3>3 DEF SitesIn
  <2> HIDE DEF r, W, F
  <2>2. r.confirmed \cup r.possible = {} <=> Entering(W, v.incoming, c, F) = {}
    BY <2>1 DEF SitesIn
  <2>3. c \in LedTo(W, v.incoming, F, FALSE) <=> Entering(W, v.incoming, c, F) # {}
    BY LedToSays
  <2>4. c \in Reached(v, t0) <=> r.confirmed \cup r.possible # {}
    BY <2>2, <2>3 DEF Reached, W, F
  <2>5. SitesIn(r) = SitesFrom(v, t0, c)
    BY <2>1 DEF SitesFrom, W, F
  <2>6. r.path = (c \in SurelyReached(v, t0))
    BY <1>2, <2>1, Zenon DEF SurelyReached, W, F
  <2>7. Admission(v, t0, u, c, r, w)
    BY <1>1, <1>3, <1>5, <2>1, <2>4, <2>5, <2>6 DEF Admission
  <2> QED
    BY <2>7 DEF w, r
<1> QED
  BY <1>4, <1>5


LEMMA OneMore ==
    ASSUME NEW s, IsSeq(s), NEW e
    PROVE  ToSet(Append(s, e)) = ToSet(s) \cup {e}
<1> DEFINE r == Append(s, e)
<1>1. /\ IsSeq(r) /\ Len(r) = Len(s) + 1 /\ Len(s) \in Nat
      /\ \A i \in 1..Len(s) : r[i] = s[i]
      /\ r[Len(s) + 1] = e
  BY Added
<1> HIDE DEF r
<1>2. ToSet(r) = {r[i] : i \in 1..Len(r)} /\ ToSet(s) = {s[i] : i \in 1..Len(s)}
  BY <1>1 DEF ToSet, IsSeq
<1>3. 1..Len(r) = 1..Len(s) \cup {Len(s) + 1}
  BY <1>1
<1> QED
  BY <1>1, <1>2, <1>3 DEF r

\* A candidate that was met or rejected before changes nothing.
LEMMA SoFarRests ==
    ASSUME NEW v, NEW t0, NEW cs, Len(cs) \in Nat, NEW k \in Nat, NEW u, SoFar(v, t0, u, cs, k),
           cs[k + 1] \in Met(v, u) \/ cs[k + 1] \notin Reached(v, t0)
    PROVE  SoFar(v, t0, u, cs, k + 1)
<1>1. \A j \in 1..Len(cs) : j <= k + 1 => j <= k \/ j = k + 1
  OBVIOUS
<1>2. \A j \in 1..Len(cs) : j <= k /\ cs[j] \in Reached(v, t0) => cs[j] \in Met(v, u)
  BY DEF SoFar
<1>3. \A j \in 1..Len(cs) : j <= k + 1 /\ cs[j] \in Reached(v, t0) => cs[j] \in Met(v, u)
  BY <1>1, <1>2
<1> QED
  BY <1>3 DEF SoFar

\* One that is rejected is not reached.
LEMMA SoFarRejects ==
    ASSUME NEW v, NEW t0, NEW cs, NEW k \in Nat, NEW u, SoFar(v, t0, u, cs, k),
           NEW c, c \notin Reached(v, t0), NEW w, w = [u EXCEPT !.rejected = @ \cup {c}],
           TraceState(v, Ample(v), w)
    PROVE  SoFar(v, t0, w, cs, k)
<1>1. DOMAIN u = StateFields
  BY DEF SoFar, TraceState
<1>2. /\ w.records = u.records /\ w.level = u.level /\ w.stop = u.stop
      /\ w.frontier = u.frontier /\ w.hop = u.hop /\ w.confirmed = u.confirmed
      /\ w.rejected = u.rejected \cup {c}
  BY <1>1 DEF StateFields
<1>3. Met(v, w) = Met(v, u)
  BY <1>2 DEF Met, Others
<1>4. \A r : TrueRecord(v, t0, w, r) <=> TrueRecord(v, t0, u, r)
  BY <1>2 DEF TrueRecord
<1>5. u.rejected \cap Reached(v, t0) = {}
  BY DEF SoFar
<1>6. w.rejected \cap Reached(v, t0) = {}
  BY <1>2, <1>5
<1> QED
  BY <1>2, <1>3, <1>4, <1>6 DEF SoFar

\* One that is admitted has its record.
LEMMA SoFarAdmits ==
    ASSUME NEW v, NEW t0, AtLevel(v, t0), NEW cs, NEW k \in Nat, NEW u, SoFar(v, t0, u, cs, k),
           NEW c, c \notin Met(v, u), c \in Reached(v, t0),
           NEW r, r.other = c, r.hop = t0.hop, SitesIn(r) = SitesFrom(v, t0, c),
           r.path = (c \in SurelyReached(v, t0)),
           NEW w, w = [u EXCEPT !.records = Append(@, r),
                                !.level = Append(@, c),
                                !.confirmed = IF r.path THEN @ \cup {c} ELSE @],
           TraceState(v, Ample(v), w)
    PROVE  SoFar(v, t0, w, cs, k) /\ c \in Met(v, w)
<1> DEFINE n == Len(u.records)
           n0 == Len(t0.records)
<1>1. DOMAIN u = StateFields /\ IsSeq(u.records) /\ IsSeq(u.level)
  BY DEF SoFar, TraceState
<1>2. /\ w.records = Append(u.records, r) /\ w.level = Append(u.level, c) /\ w.stop = u.stop
      /\ w.frontier = u.frontier /\ w.hop = u.hop /\ w.rejected = u.rejected
      /\ w.confirmed = IF r.path THEN u.confirmed \cup {c} ELSE u.confirmed
  BY <1>1 DEF StateFields
<1>3. /\ Len(w.records) = n + 1 /\ n \in Nat
      /\ \A i \in 1..n : w.records[i] = u.records[i]
      /\ w.records[n + 1] = r
      /\ Begins(u.records, w.records)
  BY <1>1, <1>2, Added
<1>4. ToSet(w.level) = ToSet(u.level) \cup {c}
  BY <1>1, <1>2, OneMore
<1>5. /\ Begins(t0.records, u.records) /\ n0 \in Nat /\ n0 <= n
      /\ \A i \in 1..n : i > n0 => TrueRecord(v, t0, u, u.records[i])
      /\ Met(v, u) = Met(v, t0) \cup ToSet(u.level) /\ ToSet(u.level) \cap Met(v, t0) = {}
      /\ t0.confirmed \subseteq u.confirmed /\ u.confirmed \subseteq Met(v, u)
      /\ u.confirmed \cap Met(v, t0) = t0.confirmed
      /\ u.rejected \cap Reached(v, t0) = {}
      /\ \A j \in 1..Len(cs) : j <= k /\ cs[j] \in Reached(v, t0) => cs[j] \in Met(v, u)
      /\ u.stop = "no" /\ u.frontier = t0.frontier /\ u.hop = t0.hop
  BY DEF SoFar, Begins
<1>6. r.path <=> c \in SurelyReached(v, t0)
  OBVIOUS
<1>7. Met(v, w) = Met(v, u) \cup {c}
  <2>1. 1..(n + 1) = 1..n \cup {n + 1}
    BY <1>3
  <2>2. \A i \in 1..n : w.records[i].other = u.records[i].other
    BY <1>3
  <2>3. Others(w) = Others(u) \cup {c}
    <3> HIDE DEF n
    <3>1. Others(w) = {w.records[i].other : i \in 1..n \cup {n + 1}}
      BY <1>3, <2>1 DEF Others
    <3>2. Others(u) = {u.records[i].other : i \in 1..n}
      BY DEF Others, n
    <3> QED
      BY <1>3, <2>2, <3>1, <3>2
  <2> QED
    BY <2>3 DEF Met
<1>8. c \notin u.confirmed /\ c \notin Met(v, t0)
  BY <1>5
<1>9. \A x : x # c => (x \in w.confirmed <=> x \in u.confirmed)
  BY <1>2
<1>10. c \in w.confirmed <=> c \in SurelyReached(v, t0)
  BY <1>2, <1>6, <1>8
<1>11. \A i \in 1..Len(w.records) : i > n0 => TrueRecord(v, t0, w, w.records[i])
  <2> TAKE i \in 1..Len(w.records)
  <2> HAVE i > n0
  <2>1. CASE i = n + 1
    <3>1. r.other \in Reached(v, t0) \ Met(v, t0)
      BY <1>8
    <3>2. TrueRecord(v, t0, w, r)
      BY <1>10, <3>1 DEF TrueRecord
    <3> QED
      BY <1>3, <2>1, <3>2
  <2>2. CASE i # n + 1
    <3>1. i \in 1..n
      BY <1>3, <2>2
    <3>2. TrueRecord(v, t0, u, u.records[i]) /\ w.records[i] = u.records[i]
      BY <1>3, <1>5, <3>1
    <3>3. u.records[i].other # c
      BY <3>1 DEF Met, Others
    <3> HIDE DEF n, n0
    <3>4. TrueRecord(v, t0, w, u.records[i])
      BY <1>9, <3>2, <3>3 DEF TrueRecord
    <3> QED
      BY <3>2, <3>4
  <2> QED
    BY <2>1, <2>2
<1>12. Begins(t0.records, w.records)
  BY <1>3, <1>5, BeginsOn
<1>13. Met(v, w) = Met(v, t0) \cup ToSet(w.level) /\ ToSet(w.level) \cap Met(v, t0) = {}
  BY <1>4, <1>5, <1>7, <1>8
<1>14. /\ t0.confirmed \subseteq w.confirmed /\ w.confirmed \subseteq Met(v, w)
       /\ w.confirmed \cap Met(v, t0) = t0.confirmed
  <2>1. w.confirmed \subseteq u.confirmed \cup {c} /\ u.confirmed \subseteq w.confirmed
    BY <1>2
  <2> QED
    BY <1>5, <1>7, <1>8, <2>1
<1>15. \A j \in 1..Len(cs) : j <= k /\ cs[j] \in Reached(v, t0) => cs[j] \in Met(v, w)
  BY <1>5, <1>7
<1>16. SoFar(v, t0, w, cs, k)
  <2> HIDE DEF n
  <2> QED
    BY <1>2, <1>5, <1>11, <1>12, <1>13, <1>14, <1>15 DEF SoFar, n0
<1> QED
  BY <1>7, <1>16

LEMMA SoFarStep ==
    ASSUME NEW v, PublicEnvironment(v), NEW t0, AtLevel(v, t0), NEW cs \in Seq(v.db.symbols),
           NEW k \in Nat, k + 1 <= Len(cs), NEW u, SoFar(v, t0, u, cs, k)
    PROVE  SoFar(v, t0, Discover(v, Ample(v), u, cs[k + 1]), cs, k + 1)
<1> DEFINE c == cs[k + 1]
           w == Discover(v, Ample(v), u, c)
           r == Seal(v, u, c)
<1>1. Len(cs) \in Nat /\ c \in v.db.symbols
  OBVIOUS
<1>2. Environment(v) /\ TraceState(v, Ample(v), u) /\ u.stop = "no"
      /\ u.rejected \cap Reached(v, t0) = {}
  BY DEF PublicEnvironment, SoFar
<1>3. TraceState(v, Ample(v), w)
  BY <1>1, <1>2, DiscoverStep
<1>4. w = IF c \in Met(v, u) \/ c \in u.rejected THEN u ELSE Admit(v, u, c, r)
  BY <1>1, <1>2, LooksAt
<1>5. CASE c \in Met(v, u) \/ c \in u.rejected
  <2>1. c \in Met(v, u) \/ c \notin Reached(v, t0)
    BY <1>2, <1>5
  <2> HIDE DEF w
  <2>2. w = u
    BY <1>4, <1>5
  <2> QED
    BY <1>1, <2>1, <2>2, SoFarRests DEF w
<1>6. CASE ~(c \in Met(v, u) \/ c \in u.rejected)
  <2>1. \/ /\ c \notin Reached(v, t0)
           /\ w = [u EXCEPT !.rejected = @ \cup {c}]
        \/ /\ r.other = c /\ r.hop = t0.hop /\ c \in Reached(v, t0)
           /\ SitesIn(r) = SitesFrom(v, t0, c)
           /\ r.path = (c \in SurelyReached(v, t0))
           /\ w = [u EXCEPT !.records = Append(@, r),
                            !.level = Append(@, c),
                            !.confirmed = IF r.path THEN @ \cup {c} ELSE @]
    <3>1. w = Admit(v, u, c, r)
      BY <1>4, <1>6
    <3>2. Admission(v, t0, u, c, r, Admit(v, u, c, r))
      BY <1>1, <1>6, AdmitSays
    <3> HIDE DEF w, r
    <3>3. Admission(v, t0, u, c, r, w)
      BY <3>1, <3>2
    <3> QED
      BY <3>3 DEF Admission
  <2> HIDE DEF w, r
  <2>2. CASE /\ c \notin Reached(v, t0)
             /\ w = [u EXCEPT !.rejected = @ \cup {c}]
    <3>1. SoFar(v, t0, w, cs, k)
      BY <1>3, <2>2, SoFarRejects
    <3>2. SoFar(v, t0, w, cs, k + 1)
      BY <1>1, <2>2, <3>1, SoFarRests
    <3> QED
      BY <3>2 DEF w
  <2>3. CASE /\ r.other = c /\ r.hop = t0.hop /\ c \in Reached(v, t0)
             /\ SitesIn(r) = SitesFrom(v, t0, c)
             /\ r.path = (c \in SurelyReached(v, t0))
             /\ w = [u EXCEPT !.records = Append(@, r),
                              !.level = Append(@, c),
                              !.confirmed = IF r.path THEN @ \cup {c} ELSE @]
    <3>1. SoFar(v, t0, w, cs, k) /\ c \in Met(v, w)
      BY <1>3, <1>6, <2>3, SoFarAdmits
    <3>2. SoFar(v, t0, w, cs, k + 1)
      BY <1>1, <3>1, SoFarRests
    <3> QED
      BY <3>2 DEF w
  <2> QED
    BY <2>1, <2>2, <2>3
<1> QED
  BY <1>5, <1>6

LEMMA LevelSoFar ==
    ASSUME NEW v, PublicEnvironment(v), NEW t0, AtLevel(v, t0), NEW cs \in Seq(v.db.symbols)
    PROVE  SoFar(v, t0, Offer(v, Ample(v), t0, cs), cs, Len(cs))
<1> DEFINE n == Len(cs)
<1>1. n \in Nat
  OBVIOUS
<1>2. PICK f : /\ f[0] = t0
               /\ \A i \in 1..n : f[i] = Discover(v, Ample(v), f[i - 1], cs[i])
               /\ Offer(v, Ample(v), t0, cs) = f[n]
  BY <1>1, OfferStepwise
<1> DEFINE P == {k \in Nat : k <= n => SoFar(v, t0, f[k], cs, k)}
<1>3. 0 \in P
  BY <1>1, <1>2, SoFarStarts
<1>4. \A k \in Nat : k \in P => k + 1 \in P
  <2> SUFFICES ASSUME NEW k \in Nat, k \in P, k + 1 <= n
               PROVE  SoFar(v, t0, f[k + 1], cs, k + 1)
    OBVIOUS
  <2>1. SoFar(v, t0, f[k], cs, k)
    BY <1>1
  <2>2. k + 1 \in 1..n /\ (k + 1) - 1 = k
    BY <1>1
  <2>3. f[k + 1] = Discover(v, Ample(v), f[k], cs[k + 1])
    BY <1>2, <2>2
  <2> QED
    BY <2>1, <2>3, SoFarStep
<1> HIDE DEF P
<1>5. n \in P
  BY <1>1, <1>3, <1>4, NaturalsBySuccessor
<1>6. SoFar(v, t0, f[n], cs, n)
  BY <1>1, <1>5 DEF P
<1> HIDE DEF n
<1> QED
  BY <1>2, <1>6 DEF n


\* A whole level: what it discovers is what the ways from the frontier newly
\* lead to, each with its record.
Complete(v, t0, u) ==
    /\ TraceState(v, Ample(v), u) /\ u.stop = "no"
    /\ Begins(t0.records, u.records)
    /\ \A i \in 1..Len(u.records) : i > Len(t0.records) => TrueRecord(v, t0, u, u.records[i])
    /\ Met(v, u) = Met(v, t0) \cup ToSet(u.level)
    /\ u.confirmed \subseteq Met(v, u)
    /\ ToSet(u.level) = Reached(v, t0) \ Met(v, t0)
    /\ \A x \in ToSet(u.level) :
          \E i \in 1..Len(u.records) : i > Len(t0.records) /\ u.records[i].other = x

LEMMA LevelCompletes ==
    ASSUME NEW v, PublicEnvironment(v), NEW t0, AtLevel(v, t0), IsSeq(t0.frontier), NEW cs,
           cs = FlattenSeq([i \in DOMAIN t0.frontier |-> Candidates(v, t0.frontier[i])])
    PROVE  Complete(v, t0, Offer(v, Ample(v), t0, cs))
<1> DEFINE u == Offer(v, Ample(v), t0, cs)
           n0 == Len(t0.records)
           level == t0.frontier
           parts == [i \in DOMAIN level |-> Candidates(v, level[i])]
<1>1. Environment(v)
  BY DEF PublicEnvironment
<1>2. cs \in Seq(v.db.symbols)
  BY <1>1, LevelCandidates
<1>3. SoFar(v, t0, u, cs, Len(cs))
  BY <1>2, LevelSoFar
<1> HIDE DEF u
<1>4. /\ TraceState(v, Ample(v), u) /\ u.stop = "no"
      /\ Begins(t0.records, u.records)
      /\ \A i \in 1..Len(u.records) : i > n0 => TrueRecord(v, t0, u, u.records[i])
      /\ Met(v, u) = Met(v, t0) \cup ToSet(u.level)
      /\ ToSet(u.level) \cap Met(v, t0) = {}
      /\ u.confirmed \subseteq Met(v, u)
      /\ \A j \in 1..Len(cs) : j <= Len(cs) /\ cs[j] \in Reached(v, t0) => cs[j] \in Met(v, u)
  BY <1>3 DEF SoFar
<1>5. /\ Len(u.records) \in Nat /\ n0 \in Nat
      /\ \A i \in 1..n0 : u.records[i] = t0.records[i]
  BY <1>4 DEF Begins
<1>6. \A x \in ToSet(u.level) : \E i \in 1..Len(u.records) : i > n0 /\ u.records[i].other = x
  <2> TAKE x \in ToSet(u.level)
  <2>1. x \in Met(v, u) /\ x \notin Met(v, t0)
    BY <1>4
  <2>2. PICK i \in 1..Len(u.records) : u.records[i].other = x
    BY <2>1 DEF Met, Others
  <2>3. i \notin 1..n0
    BY <1>5, <2>1, <2>2 DEF Met, Others
  <2>4. i > n0
    BY <1>5, <2>3
  <2> QED
    BY <2>2, <2>4
<1>7. ToSet(u.level) \subseteq Reached(v, t0) \ Met(v, t0)
  BY <1>4, <1>6 DEF TrueRecord
<1>8. ASSUME NEW x \in Reached(v, t0), x \notin Met(v, t0)
      PROVE  x \in ToSet(u.level)
  <2>1. PICK w \in Ways(PublicFacts(v.db)) : /\ Begun(w, v.incoming) \in ToSet(level)
                                             /\ x = Led(w, v.incoming)
    BY <1>8 DEF Reached, LedTo
  <2>2. Begun(w, v.incoming) \in Public(v)
    BY <2>1 DEF AtLevel
  <2>3. x \in ToSet(Candidates(v, Begun(w, v.incoming)))
    BY <2>1, <2>2, CandidatesFound
  <2>4. DOMAIN level = 1..Len(level) /\ Len(level) \in Nat
    BY DEF IsSeq
  <2>5. PICK i \in 1..Len(level) : level[i] = Begun(w, v.incoming)
    BY <2>1, <2>4 DEF ToSet
  <2>6. parts \in Seq(Seq(v.db.symbols)) /\ Len(parts) = Len(level)
    <3>1. \A j \in 1..Len(level) : parts[j] \in Seq(v.db.symbols)
      BY <1>1, <2>4, CandidatesType
    <3>2. parts = [j \in 1..Len(level) |-> parts[j]]
      BY <2>4
    <3> HIDE DEF parts, level
    <3> DEFINE T == Seq(v.db.symbols)
    <3> HIDE DEF T
    <3>3. parts \in [1..Len(level) -> T]
      BY <3>1, <3>2 DEF T
    <3>4. parts \in Seq(T) /\ Len(parts) = Len(level)
      BY <2>4, <3>3
    <3> QED
      BY <3>4 DEF T
  <2>7. parts[i] = Candidates(v, Begun(w, v.incoming))
    BY <2>4, <2>5
  <2>8. cs = FlattenSeq(parts)
    OBVIOUS
  <2> HIDE DEF parts, level
  <2>9. ToSet(cs) = UNION {ToSet(parts[j]) : j \in 1..Len(parts)}
    BY <2>6, <2>8, Flattened
  <2>10. x \in ToSet(cs)
    BY <2>3, <2>5, <2>6, <2>7, <2>9
  <2>11. PICK j \in 1..Len(cs) : cs[j] = x
    <3>1. IsSeq(cs)
      BY <1>2, OverIsSeq
    <3>2. DOMAIN cs = 1..Len(cs)
      BY <3>1 DEF IsSeq
    <3> QED
      BY <2>10, <3>2 DEF ToSet
  <2>12. j <= Len(cs)
    BY <1>2
  <2>13. x \in Met(v, u)
    BY <1>4, <1>8, <2>11, <2>12
  <2> QED
    BY <1>4, <1>8, <2>13
<1>9. ToSet(u.level) = Reached(v, t0) \ Met(v, t0)
  BY <1>7, <1>8
<1>10. Complete(v, t0, u)
  BY <1>4, <1>6, <1>9 DEF Complete
<1> QED
  BY <1>10 DEF u

-----------------------------------------------------------------------------
(* The levels of the traversal are the rings.                              *)

AsMeant(r) == [other |-> r.other, hop |-> r.hop, path |-> r.path, sites |-> SitesIn(r)]
MeantOf(v, R, h, m) ==
    [other |-> m, hop |-> h, path |-> m \in R[h + 1].sure,
     sites |-> {SiteOf(x) : x \in Entering(Ways(PublicFacts(v.db)), v.incoming, m, R[h].all)}]
MeantIn(v, R, h) == {MeantOf(v, R, h, m) : m \in R[h + 1].all}

AtRing(v, R, h, t) ==
    /\ TraceState(v, Ample(v), t) /\ t.stop = "no"
    /\ ToSet(t.level) = R[h + 1].all
    /\ Met(v, t) = KnownIn(R, h + 1)
    /\ t.confirmed \subseteq Met(v, t)
    /\ R[h + 1].sure = R[h + 1].all \cap t.confirmed
    /\ \A i \in 1..Len(t.records) : t.records[i].hop \in 1..h
    /\ \A i, j \in 1..Len(t.records) : i <= j => t.records[i].hop <= t.records[j].hop
    /\ {AsMeant(t.records[i]) : i \in 1..Len(t.records)} = UNION {MeantIn(v, R, j) : j \in 1..h}

\* An empty level is followed by empty rings.
LEMMA EmptyRing ==
    ASSUME NEW v, NEW n \in Nat, NEW R,
           AreRings(Ways(PublicFacts(v.db)), v.start, v.incoming, n, R),
           NEW h \in Nat, h + 1 <= n, NEW t, AtRing(v, R, h, t), t.level = <<>>
    PROVE  AtRing(v, R, h + 1, t)
<1> DEFINE W == Ways(PublicFacts(v.db))
<1>1. /\ ToSet(t.level) = R[h + 1].all /\ Met(v, t) = KnownIn(R, h + 1)
      /\ t.confirmed \subseteq Met(v, t) /\ R[h + 1].sure = R[h + 1].all \cap t.confirmed
      /\ TraceState(v, Ample(v), t) /\ t.stop = "no"
      /\ \A i \in 1..Len(t.records) : t.records[i].hop \in 1..h
      /\ \A i, j \in 1..Len(t.records) : i <= j => t.records[i].hop <= t.records[j].hop
      /\ {AsMeant(t.records[i]) : i \in 1..Len(t.records)} = UNION {MeantIn(v, R, j) : j \in 1..h}
  BY DEF AtRing
<1>2. ToSet(t.level) = {}
  BY DEF ToSet
<1>3. R[h + 1].all = {} /\ R[h + 1].sure = {}
  BY <1>1, <1>2
<1> DEFINE k == h + 1
<1>4. k \in 1..n
  OBVIOUS
<1>4a. AreRings(W, v.start, v.incoming, n, R)
  OBVIOUS
<1> HIDE DEF W, k
<1>5. /\ R[k + 1].all = LedTo(W, v.incoming, R[k].all, FALSE) \ KnownIn(R, k)
      /\ R[k + 1].sure = LedTo(W, v.incoming, R[k].sure, TRUE) \ KnownIn(R, k)
      /\ KnownIn(R, k + 1) = KnownIn(R, k) \cup R[k + 1].all
  <2>1. RingFrom(W, v.incoming, R, k)
    BY <1>4, <1>4a, RingsGrow
  <2> QED
    BY <2>1 DEF RingFrom
<1>6. LedTo(W, v.incoming, {}, FALSE) = {} /\ LedTo(W, v.incoming, {}, TRUE) = {}
  BY DEF LedTo
<1>7. R[k + 1].all = {} /\ R[k + 1].sure = {} /\ KnownIn(R, k + 1) = KnownIn(R, k)
  BY <1>3, <1>5, <1>6 DEF k
<1>8. UNION {MeantIn(v, R, j) : j \in 1..k} = UNION {MeantIn(v, R, j) : j \in 1..h}
  <2>1. MeantIn(v, R, k) = {}
    BY <1>7 DEF MeantIn
  <2>2. 1..k = 1..h \cup {k}
    BY DEF k
  <2> QED
    BY <2>1, <2>2
<1>9. \A i \in 1..Len(t.records) : t.records[i].hop \in 1..k
  BY <1>1 DEF k
<1>10. AtRing(v, R, k, t)
  <2>1. Met(v, t) = KnownIn(R, k)
    BY <1>1 DEF k
  <2> QED
    BY <1>1, <1>2, <1>7, <1>8, <1>9, <2>1 DEF AtRing
<1> QED
  BY <1>10 DEF k

\* Otherwise the next level is the next ring.
LEMMA NextLevelIsRing ==
    ASSUME NEW v, PublicEnvironment(v), NEW n \in Nat, NEW R,
           AreRings(Ways(PublicFacts(v.db)), v.start, v.incoming, n, R),
           NEW h \in Nat, h + 1 <= n, NEW t, AtRing(v, R, h, t), t.level # <<>>
    PROVE  AtRing(v, R, h + 1, OneLevel(v, Ample(v), t, h + 1))
<1> DEFINE W == Ways(PublicFacts(v.db))
           k == h + 1
           t0 == NewLevel(t, k)
           cs == FlattenSeq([i \in DOMAIN t.level |-> Candidates(v, t.level[i])])
           u == Offer(v, Ample(v), t0, cs)
           n0 == Len(t.records)
<1>1. /\ TraceState(v, Ample(v), t) /\ t.stop = "no"
      /\ ToSet(t.level) = R[k].all /\ Met(v, t) = KnownIn(R, k)
      /\ t.confirmed \subseteq Met(v, t) /\ R[k].sure = R[k].all \cap t.confirmed
      /\ \A i \in 1..n0 : t.records[i].hop \in 1..h
      /\ \A i, j \in 1..n0 : i <= j => t.records[i].hop <= t.records[j].hop
      /\ {AsMeant(t.records[i]) : i \in 1..n0} = UNION {MeantIn(v, R, j) : j \in 1..h}
  BY DEF AtRing
<1>2. OneLevel(v, Ample(v), t, k) = u
  BY <1>1 DEF OneLevel
<1>3. /\ TraceState(v, Ample(v), t0) /\ t0.stop = "no" /\ t0.records = t.records
      /\ t0.level = <<>> /\ t0.rejected = {} /\ t0.frontier = t.level
      /\ t0.confirmed = t.confirmed /\ t0.hop = k
  <2>1. DOMAIN t = StateFields
    BY <1>1 DEF TraceState
  <2>2. /\ t0.level = <<>> /\ t0.rejected = {} /\ t0.frontier = t.level
        /\ t0.confirmed = t.confirmed /\ t0.hop = k
    BY <2>1 DEF NewLevel, StateFields
  <2> QED
    BY <1>1, <2>2, NewLevelState
<1>4. k \in 1..n /\ AreRings(W, v.start, v.incoming, n, R)
  OBVIOUS
<1>5. cs = FlattenSeq([i \in DOMAIN t0.frontier |-> Candidates(v, t0.frontier[i])])
  BY <1>3
<1> HIDE DEF W, t0, cs
<1>6. /\ R[k + 1].all = LedTo(W, v.incoming, R[k].all, FALSE) \ KnownIn(R, k)
      /\ R[k + 1].sure = LedTo(W, v.incoming, R[k].sure, TRUE) \ KnownIn(R, k)
      /\ KnownIn(R, k + 1) = KnownIn(R, k) \cup R[k + 1].all
      /\ R[k].all \subseteq KnownIn(R, k)
  <2> HIDE DEF k
  <2>1. RingFrom(W, v.incoming, R, k)
    BY <1>4, RingsGrow
  <2> QED
    BY <2>1 DEF RingFrom
<1>7. Met(v, t0) = Met(v, t)
  BY <1>3 DEF Met, Others
<1>8. Met(v, t) \subseteq Public(v)
  BY <1>1 DEF Met, Others, TraceState, Public, PublicEnvironment
<1>9. AtLevel(v, t0)
  BY <1>1, <1>3, <1>6, <1>7, <1>8 DEF AtLevel
<1>10. Complete(v, t0, u)
  <2>1. IsSeq(t0.frontier)
    BY <1>1, <1>3 DEF TraceState
  <2> QED
    BY <1>5, <1>9, <2>1, LevelCompletes
<1> HIDE DEF u, k
<1>11. /\ TraceState(v, Ample(v), u) /\ u.stop = "no"
       /\ Begins(t.records, u.records)
       /\ \A i \in 1..Len(u.records) : i > n0 => TrueRecord(v, t0, u, u.records[i])
       /\ Met(v, u) = Met(v, t) \cup ToSet(u.level)
       /\ u.confirmed \subseteq Met(v, u)
       /\ ToSet(u.level) = Reached(v, t0) \ Met(v, t)
       /\ \A x \in ToSet(u.level) :
             \E i \in 1..Len(u.records) : i > n0 /\ u.records[i].other = x
  BY <1>3, <1>7, <1>10 DEF Complete
<1>12. /\ Reached(v, t0) = LedTo(W, v.incoming, R[k].all, FALSE)
       /\ SurelyReached(v, t0) = LedTo(W, v.incoming, R[k].sure, TRUE)
  BY <1>1, <1>3 DEF Reached, SurelyReached, W
<1>13. ToSet(u.level) = R[k + 1].all /\ Met(v, u) = KnownIn(R, k + 1)
  BY <1>1, <1>6, <1>11, <1>12
<1>14. SurelyReached(v, t0) \subseteq Reached(v, t0)
  BY DEF SurelyReached, Reached, LedTo
<1>15. R[k + 1].sure = SurelyReached(v, t0) \ Met(v, t) /\ R[k + 1].all = Reached(v, t0) \ Met(v, t)
  BY <1>1, <1>6, <1>12
<1>16. \A i \in 1..Len(u.records) : i > n0 =>
          /\ u.records[i].other \in R[k + 1].all
          /\ u.records[i].hop = k
          /\ SitesIn(u.records[i]) = SitesFrom(v, t0, u.records[i].other)
          /\ u.records[i].path = (u.records[i].other \in SurelyReached(v, t0))
          /\ u.records[i].other \in u.confirmed <=> u.records[i].other \in R[k + 1].sure
  <2> TAKE i \in 1..Len(u.records)
  <2> HAVE i > n0
  <2> DEFINE r == u.records[i]
  <2>1. TrueRecord(v, t0, u, r)
    BY <1>11
  <2> HIDE DEF r
  <2>2. /\ r.other \in Reached(v, t0) \ Met(v, t) /\ r.hop = k
        /\ SitesIn(r) = SitesFrom(v, t0, r.other)
        /\ r.path = (r.other \in SurelyReached(v, t0))
        /\ r.other \in u.confirmed <=> r.other \in SurelyReached(v, t0)
    BY <1>3, <1>7, <2>1 DEF TrueRecord
  <2>3. /\ r.other \in R[k + 1].all
        /\ r.other \in u.confirmed <=> r.other \in R[k + 1].sure
    BY <1>15, <2>2
  <2> QED
    BY <2>2, <2>3 DEF r
<1>17. R[k + 1].sure = R[k + 1].all \cap u.confirmed
  <2>1. \A x \in R[k + 1].all : x \in u.confirmed <=> x \in R[k + 1].sure
    <3> TAKE x \in R[k + 1].all
    <3>1. PICK i \in 1..Len(u.records) : i > n0 /\ u.records[i].other = x
      BY <1>11, <1>13
    <3> QED
      BY <1>16, <3>1
  <2>2. R[k + 1].sure \subseteq R[k + 1].all
    BY <1>14, <1>15
  <2> QED
    BY <2>1, <2>2
<1>18. /\ Len(u.records) \in Nat /\ n0 \in Nat /\ n0 <= Len(u.records)
       /\ \A i \in 1..n0 : u.records[i] = t.records[i]
  BY <1>11 DEF Begins
<1>19. \A i \in 1..Len(u.records) : i \in 1..n0 \/ i > n0
  BY <1>18
<1>20. \A i \in 1..Len(u.records) : u.records[i].hop \in 1..k
  <2>1. k \in Nat /\ k \in 1..k /\ \A x \in 1..h : x \in 1..k
    BY DEF k
  <2> QED
    BY <1>1, <1>16, <1>18, <1>19, <2>1
<1>21. \A i, j \in 1..Len(u.records) : i <= j => u.records[i].hop <= u.records[j].hop
  <2> TAKE i, j \in 1..Len(u.records)
  <2> HAVE i <= j
  <2>1. CASE j \in 1..n0
    <3>1. i \in 1..n0
      BY <1>18, <2>1
    <3> QED
      BY <1>1, <1>18, <2>1, <3>1
  <2>2. CASE j > n0
    <3>1. u.records[j].hop = k
      BY <1>16, <2>2
    <3>2. u.records[i].hop \in 1..k
      BY <1>20
    <3>3. k \in Nat
      BY DEF k
    <3> QED
      BY <3>1, <3>2, <3>3
  <2> QED
    BY <1>19, <2>1, <2>2
<1>22. \A i \in 1..Len(u.records) : i > n0 =>
          AsMeant(u.records[i]) = MeantOf(v, R, k, u.records[i].other)
  <2> TAKE i \in 1..Len(u.records)
  <2> HAVE i > n0
  <2> DEFINE r == u.records[i]
             m == r.other
             p == m \in SurelyReached(v, t0)
             q == m \in R[k + 1].sure
  <2>1. /\ m \in R[k + 1].all /\ r.hop = k /\ SitesIn(r) = SitesFrom(v, t0, m)
        /\ r.path = p
    BY <1>16
  <2>2. m \notin Met(v, t)
    BY <1>15, <2>1
  <2>3. p <=> q
    BY <1>15, <2>2
  <2>4. p \in BOOLEAN /\ q \in BOOLEAN
    OBVIOUS
  <2>5. SitesFrom(v, t0, m) = {SiteOf(x) : x \in Entering(W, v.incoming, m, R[k].all)}
    BY <1>1, <1>3 DEF SitesFrom, W
  <2> HIDE DEF r, p, q
  <2>6. r.path = q
    BY <2>1, <2>3, <2>4
  <2>7. AsMeant(r) = [other |-> m, hop |-> k, path |-> q, sites |-> SitesFrom(v, t0, m)]
    BY <2>1, <2>6 DEF AsMeant
  <2>8. MeantOf(v, R, k, m) = [other |-> m, hop |-> k, path |-> q, sites |-> SitesFrom(v, t0, m)]
    BY <2>5 DEF MeantOf, q, W
  <2> QED
    BY <2>7, <2>8 DEF r
<1>23. {AsMeant(u.records[i]) : i \in 1..Len(u.records)} = UNION {MeantIn(v, R, j) : j \in 1..k}
  <2> DEFINE told(i) == AsMeant(u.records[i])
             before == {AsMeant(t.records[i]) : i \in 1..n0}
  <2>1. before = {told(i) : i \in 1..n0}
    BY <1>18
  <2>2. \A x \in MeantIn(v, R, k) : \E i \in 1..Len(u.records) : i > n0 /\ x = told(i)
    <3> TAKE x \in MeantIn(v, R, k)
    <3>1. PICK m \in R[k + 1].all : x = MeantOf(v, R, k, m)
      BY DEF MeantIn
    <3>2. PICK i \in 1..Len(u.records) : i > n0 /\ u.records[i].other = m
      BY <1>11, <1>13
    <3> QED
      BY <1>22, <3>1, <3>2
  <2>3. \A i \in 1..Len(u.records) : i > n0 => told(i) \in MeantIn(v, R, k)
    BY <1>16, <1>22 DEF MeantIn
  <2>4. \A i \in 1..n0 : i \in 1..Len(u.records)
    BY <1>18
  <2> HIDE DEF told
  <2>5. {told(i) : i \in 1..Len(u.records)} = before \cup MeantIn(v, R, k)
    <3>1. \A i \in 1..Len(u.records) : told(i) \in before \cup MeantIn(v, R, k)
      BY <1>19, <2>1, <2>3
    <3>2. \A x \in before : x \in {told(i) : i \in 1..Len(u.records)}
      BY <2>1, <2>4
    <3>3. \A x \in MeantIn(v, R, k) : x \in {told(i) : i \in 1..Len(u.records)}
      BY <2>2
    <3> HIDE DEF before
    <3> QED
      BY <3>1, <3>2, <3>3
  <2>6. UNION {MeantIn(v, R, j) : j \in 1..k} = before \cup MeantIn(v, R, k)
    <3>1. 1..k = 1..h \cup {k}
      BY DEF k
    <3>2. before = UNION {MeantIn(v, R, j) : j \in 1..h}
      BY <1>1
    <3> HIDE DEF before
    <3> QED
      BY <3>1, <3>2
  <2> QED
    BY <2>5, <2>6 DEF told
<1>24. AtRing(v, R, k, u)
  <2> HIDE DEF n0
  <2> QED
    BY <1>11, <1>13, <1>17, <1>20, <1>21, <1>23 DEF AtRing
<1> QED
  BY <1>2, <1>24 DEF k


LEMMA BeginningIsRing ==
    ASSUME NEW v, NEW n \in Nat, NEW R,
           AreRings(Ways(PublicFacts(v.db)), v.start, v.incoming, n, R)
    PROVE  AtRing(v, R, 0, Beginning(v))
<1> DEFINE z == Beginning(v)
<1>1. TraceState(v, Ample(v), z) /\ z.stop = "no"
  BY BeginningState
<1>2. z.records = <<>> /\ z.level = <<v.start>> /\ z.confirmed = {v.start}
  BY DEF Beginning
<1>3. R[1].all = {v.start} /\ R[1].sure = {v.start}
  BY DEF AreRings, FirstRing
<1> HIDE DEF z
<1>4. 0 + 1 = 1 /\ 1..1 = {1} /\ 1..0 = {}
  OBVIOUS
<1>5. Len(z.records) = 0 /\ 1..Len(z.records) = {}
  BY <1>2, ShortSequences
<1>6. ToSet(z.level) = {v.start}
  <2> DEFINE s == <<v.start>>
  <2>1. IsSeq(s) /\ Len(s) = 1 /\ s[1] = v.start
    BY ShortSequences
  <2> HIDE DEF s
  <2>2. DOMAIN s = {1}
    BY <1>4, <2>1 DEF IsSeq
  <2>3. ToSet(s) = {v.start}
    BY <2>1, <2>2 DEF ToSet
  <2> QED
    BY <1>2, <2>3 DEF s
<1>7. Met(v, z) = {v.start}
  BY <1>5 DEF Met, Others
<1>8. KnownIn(R, 1) = {v.start}
  BY <1>3, <1>4 DEF KnownIn
<1>9. UNION {MeantIn(v, R, j) : j \in 1..0} = {}
  BY <1>4
<1>10. {AsMeant(z.records[i]) : i \in 1..Len(z.records)} = {}
  BY <1>5
<1>11. AtRing(v, R, 0, z)
  BY <1>1, <1>2, <1>3, <1>4, <1>5, <1>6, <1>7, <1>8, <1>9, <1>10 DEF AtRing
<1> QED
  BY <1>11 DEF z

LEMMA TraversalIsRings ==
    ASSUME NEW v, PublicEnvironment(v), NEW R,
           AreRings(Ways(PublicFacts(v.db)), v.start, v.incoming, v.depth, R)
    PROVE  AtRing(v, R, v.depth, Traversal(v, Ample(v)))
<1> DEFINE n == v.depth
<1>1. n \in Nat
  BY DEF PublicEnvironment, Environment
<1>2. PICK f : /\ f[0] = Beginning(v)
               /\ \A i \in 1..n : f[i] = OneLevel(v, Ample(v), f[i - 1], i)
               /\ Traversal(v, Ample(v)) = f[n]
  BY <1>1, TraversalStepwise
<1>3. AreRings(Ways(PublicFacts(v.db)), v.start, v.incoming, n, R)
  OBVIOUS
<1> HIDE DEF n
<1> DEFINE P == {k \in Nat : k <= n => AtRing(v, R, k, f[k])}
<1>4. 0 \in P
  BY <1>1, <1>2, <1>3, BeginningIsRing
<1>5. \A k \in Nat : k \in P => k + 1 \in P
  <2> SUFFICES ASSUME NEW k \in Nat, k \in P, k + 1 <= n
               PROVE  AtRing(v, R, k + 1, f[k + 1])
    OBVIOUS
  <2>1. AtRing(v, R, k, f[k])
    BY <1>1
  <2>2. k + 1 \in 1..n /\ (k + 1) - 1 = k
    BY <1>1
  <2>3. f[k + 1] = OneLevel(v, Ample(v), f[k], k + 1)
    BY <1>2, <2>2
  <2>4. CASE f[k].level = <<>>
    <3>1. f[k + 1] = f[k]
      BY <2>3, <2>4 DEF OneLevel
    <3>2. AtRing(v, R, k + 1, f[k])
      BY <1>1, <1>3, <2>1, <2>4, EmptyRing
    <3> QED
      BY <3>1, <3>2
  <2>5. CASE f[k].level # <<>>
    <3>1. AtRing(v, R, k + 1, OneLevel(v, Ample(v), f[k], k + 1))
      BY <1>1, <1>3, <2>1, <2>5, NextLevelIsRing
    <3> QED
      BY <2>3, <3>1
  <2> QED
    BY <2>4, <2>5
<1> HIDE DEF P
<1>6. n \in P
  BY <1>1, <1>4, <1>5, NaturalsBySuccessor
<1>7. AtRing(v, R, n, f[n])
  BY <1>1, <1>6 DEF P
<1> QED
  BY <1>2, <1>7 DEF n

LEMMA MeantSays ==
    ASSUME NEW v
    PROVE  MeantRecords(PublicFacts(v.db), v.start, v.incoming, v.depth) =
             UNION {MeantIn(v, Rings(Ways(PublicFacts(v.db)), v.start, v.incoming, v.depth), h) :
                    h \in 1..v.depth}
BY DEF MeantRecords, MeantIn, MeantOf, Entering, SiteOf

\* The whole trace from a public symbol.
AllMeant(w, meant) ==
    /\ IsSeq(w)
    /\ {AsMeant(w[i]) : i \in 1..Len(w)} = meant
    /\ \A i, j \in 1..Len(w) : i <= j => w[i].hop <= w[j].hop
    /\ \A i \in 1..Len(w) : w[i].hop \in Nat

LEMMA WholeTraceIsMeant ==
    ASSUME NEW d, WellKept(d), NoFile \notin d.withheld, NEW start \in d.symbols,
           IsPublic(Presence(d), start), NEW incoming, NEW depth \in Nat
    PROVE  AllMeant(WholeTrace(d, start, incoming, depth),
                    MeantRecords(PublicFacts(d), start, incoming, depth))
<1> DEFINE v == [db |-> d, view |-> Presence(d), start |-> start,
                 incoming |-> incoming, depth |-> depth]
           R == Rings(Ways(PublicFacts(d)), start, incoming, depth)
           t == Traversal(v, Ample(v))
           w == WholeTrace(d, start, incoming, depth)
<1>1. /\ v.db = d /\ v.view = Presence(d) /\ v.start = start
      /\ v.incoming = incoming /\ v.depth = depth
  OBVIOUS
<1>2. PublicEnvironment(v)
  BY DEF PublicEnvironment, Environment
<1>3. w = t.records
  BY DEF WholeTrace, Ample
<1> HIDE DEF v, w
<1>4. AreRings(Ways(PublicFacts(v.db)), v.start, v.incoming, v.depth, R)
  BY <1>1, RingsSay
<1>5. AtRing(v, R, depth, t)
  <2> HIDE DEF R, t
  <2>1. AtRing(v, R, v.depth, Traversal(v, Ample(v)))
    BY <1>2, <1>4, TraversalIsRings
  <2> QED
    BY <1>1, <2>1 DEF t
<1>6. MeantRecords(PublicFacts(d), start, incoming, depth) = UNION {MeantIn(v, R, h) : h \in 1..depth}
  <2>1. MeantRecords(PublicFacts(v.db), v.start, v.incoming, v.depth) =
          UNION {MeantIn(v, Rings(Ways(PublicFacts(v.db)), v.start, v.incoming, v.depth), h) :
                 h \in 1..v.depth}
    BY MeantSays
  <2> QED
    BY <1>1, <2>1
<1> DEFINE meant == MeantRecords(PublicFacts(d), start, incoming, depth)
<1> HIDE DEF R, t, meant
<1>7. /\ IsSeq(w)
      /\ {AsMeant(w[i]) : i \in 1..Len(w)} = UNION {MeantIn(v, R, h) : h \in 1..depth}
      /\ \A i, j \in 1..Len(w) : i <= j => w[i].hop <= w[j].hop
      /\ \A i \in 1..Len(w) : w[i].hop \in 1..depth
  BY <1>3, <1>5 DEF AtRing, TraceState
<1>8. \A i \in 1..Len(w) : w[i].hop \in Nat
  BY <1>7
<1>9. AllMeant(w, meant)
  BY <1>6, <1>7, <1>8 DEF AllMeant, meant
<1> QED
  BY <1>9 DEF w, meant

\* What a page of a trace means.
Meant(d, c, r) ==
    LET meant == MeantRecords(PublicFacts(d), StartOf(d, c.req), c.req.incoming, c.req.depth)
        got == {AsMeant(x) : x \in ToSet(r.seen)}
    IN  /\ got \subseteq meant
        /\ ~r.more => got = meant
        /\ \A x \in got, m \in meant : m.hop < x.hop => m \in got

LEMMA TraceIsMeant ==
    ASSUME NEW d, WellKept(d), NoFile \notin d.withheld, NEW c, c.req.depth \in Nat, NEW r,
           TraceOfPublic(d, c.req, r.extra), Paged(c, WholeResult(d, c.req), r)
    PROVE  Meant(d, c, r)
<1>1. PICK start \in d.symbols :
         /\ start = StartOf(d, c.req) /\ IsPublic(Presence(d), start)
         /\ WholeResult(d, c.req) = WholeTrace(d, start, c.req.incoming, c.req.depth)
  BY DEF TraceOfPublic
<1> DEFINE w == WholeTrace(d, start, c.req.incoming, c.req.depth)
           meant == MeantRecords(PublicFacts(d), start, c.req.incoming, c.req.depth)
           got == {AsMeant(x) : x \in ToSet(r.seen)}
<1>2. AllMeant(w, meant)
  BY <1>1, WholeTraceIsMeant
<1>3. Begins(r.seen, w) /\ (~r.more => r.seen = w)
  BY <1>1 DEF Paged
<1> HIDE DEF w, meant
<1>4. /\ IsSeq(w)
      /\ meant = {AsMeant(w[i]) : i \in 1..Len(w)}
      /\ \A i, j \in 1..Len(w) : i <= j => w[i].hop <= w[j].hop
      /\ \A i \in 1..Len(w) : w[i].hop \in Nat
  BY <1>2 DEF AllMeant
<1>5. /\ IsSeq(r.seen) /\ Len(r.seen) \in Nat /\ Len(w) \in Nat /\ Len(r.seen) <= Len(w)
      /\ \A i \in 1..Len(r.seen) : r.seen[i] = w[i]
  BY <1>3 DEF Begins
<1>6. \A i \in 1..Len(r.seen) : i \in 1..Len(w)
  BY <1>5
<1>7. got = {AsMeant(w[i]) : i \in 1..Len(r.seen)}
  <2>1. ToSet(r.seen) = {r.seen[i] : i \in 1..Len(r.seen)}
    BY <1>5 DEF ToSet, IsSeq
  <2> QED
    BY <1>5, <2>1
<1> HIDE DEF got
<1>8. got \subseteq meant
  BY <1>4, <1>6, <1>7
<1>9. ~r.more => got = meant
  BY <1>3, <1>4, <1>7
<1>10. ASSUME NEW x \in got, NEW m \in meant, m.hop < x.hop
       PROVE  m \in got
  <2>1. PICK i \in 1..Len(r.seen) : x = AsMeant(w[i])
    BY <1>7
  <2>2. PICK j \in 1..Len(w) : m = AsMeant(w[j])
    BY <1>4
  <2>3. x.hop = w[i].hop /\ m.hop = w[j].hop
    BY <2>1, <2>2 DEF AsMeant
  <2>4. i \in 1..Len(w) /\ w[i].hop \in Nat /\ w[j].hop \in Nat
    BY <1>4, <1>6
  <2>5. ~(i <= j)
    BY <1>4, <1>10, <2>3, <2>4
  <2>6. j \in 1..Len(r.seen)
    BY <1>5, <2>5
  <2> QED
    BY <1>7, <2>2, <2>6
<1> QED
  BY <1>1, <1>8, <1>9, <1>10 DEF Meant, meant, got

MeaningInv == reply.code = "trace_calls" => Meant(Snapshot(reply.snap), reply.snap, reply)

LEMMA MeaningStep ==
    ASSUME QueryInv, PathsInv, MeaningInv, [QueryNext]_queryVars
    PROVE  MeaningInv'
<1>1. CASE UNCHANGED queryVars
  BY <1>1 DEF queryVars, MeaningInv, Snapshot
<1>2. CASE reply' = NoReply
  <2>1. reply'.code # "trace_calls"
    BY <1>2 DEF NoReply
  <2> QED
    BY <2>1 DEF MeaningInv
<1>3. CASE Answer
  <2> SUFFICES ASSUME reply'.code = "trace_calls"
               PROVE  MeaningInv'
    BY DEF MeaningInv
  <2> DEFINE d == Snapshot(call)
             w == WholeResult(d, call.req)
  <2>0. reply'.code \in PageCodes
    BY DEF PageCodes
  <2>1. call # NoCall /\ Told /\ disk' = disk
    BY <1>3, AnswerOutcome
  <2>2. Paged(call, w, reply') /\ reply'.snap = call
    BY <2>0, <2>1 DEF Told, Paged
  <2>3. Snapshot(reply.snap)' = d
    BY <2>1, <2>2 DEF Snapshot
  <2>4. WellKept(d) /\ NoFile \notin d.withheld
    BY <2>1, SnapshotRows, SnapshotPaths
  <2>5. call.req.depth \in Nat /\ TraceOfPublic(d, call.req, reply'.extra)
    <3>1. Shown(d, call, reply')
      BY <1>3, AnswerShows
    <3> HIDE DEF d
    <3> QED
      BY <3>1 DEF Shown
  <2> HIDE DEF d
  <2>6. Meant(d, call, reply')
    BY <2>2, <2>4, <2>5, TraceIsMeant
  <2> QED
    BY <2>2, <2>3, <2>6 DEF MeaningInv
<1>4. \/ UNCHANGED queryVars \/ Answer \/ reply' = NoReply
  BY DEF QueryNext, Begin, Publish, SetExcluded, TouchFile
<1> QED
  BY <1>1, <1>2, <1>3, <1>4

\* What a trace reports is what it says: each symbol some public call path
\* reaches within the depth, at its shortest distance, `confirmed` exactly
\* when confirmed calls alone make such a path, with exactly the public
\* callsites into the previous ring; a page that more follow has every record
\* of the rings before the last it shows.
THEOREM TraceMeansReachableInvariant == QuerySpec => []TraceMeansReachable
<1>1. QueryInit => PathsInv /\ MeaningInv
  BY DEF QueryInit, PathsInv, MeaningInv, NoReply
<1>2. QueryInv /\ PathsInv /\ MeaningInv /\ [QueryNext]_queryVars => (PathsInv /\ MeaningInv)'
  BY PathsStep, MeaningStep
<1>3. MeaningInv => TraceMeansReachable
  BY DEF MeaningInv, Meant, TraceMeansReachable, Answered, StartOf, AsMeant, SitesIn, SiteOf
<1> QED
  BY <1>1, <1>2, <1>3, PagesInvariant, PTL DEF QuerySpec

=============================================================================
