------------------------- MODULE UnitAnalysisProofs -------------------------
(***************************************************************************)
(* What an analysis with a replayed header rests on, for any threads,      *)
(* files, texts, commands, edits and interleaving.                         *)
(***************************************************************************)
EXTENDS UnitAnalysis, NaturalFacts

-----------------------------------------------------------------------------
(* The snapshot. A path is known once an open or a driver's question has   *)
(* settled what it answers for good.                                       *)

SnapshotFields ==
    {"canonical", "text", "byIdentity", "failed", "queried", "sealed", "order"}

Sound(s) ==
    /\ DOMAIN s = SnapshotFields
    /\ DOMAIN s.text \subseteq DOMAIN s.canonical
    /\ \A p \in DOMAIN s.canonical : s.canonical[p] \in DOMAIN s.text
    /\ \A i \in DOMAIN s.byIdentity : s.byIdentity[i] \in DOMAIN s.text

Known(s, p) == Frozen(s, p) \/ RecordedAbsent(s, p) \/ p \in s.failed

Texts(s) == {s.text[p] : p \in DOMAIN s.text}

\* r answers every path known to s as s does, and keeps the texts of s.
Grown(s, r) ==
    /\ Sound(r)
    /\ \A p : Known(s, p) => Known(r, p) /\ AnswerOf(r, p) = AnswerOf(s, p)
    /\ Texts(s) \subseteq Texts(r)

LEMMA FreshSnapshot == Sound(NewSnapshot)
BY DEF Sound, NewSnapshot, SnapshotFields, Nothing

LEMMA GrownItself ==
    ASSUME NEW s, Sound(s)
    PROVE  Grown(s, s)
BY DEF Grown

\* What an open answers is a text of the snapshot, or nothing.
LEMMA AnswersAreTexts ==
    ASSUME NEW s, Sound(s), NEW p, AnswerOf(s, p) # Absent
    PROVE  Known(s, p) /\ AnswerOf(s, p) \in Texts(s)
BY DEF Sound, AnswerOf, TextOf, Texts, Frozen, Known

\* A path under its own name, with a text of its own.
LEMMA FreezeGrown ==
    ASSUME NEW s, Sound(s), NEW p, ~Known(s, p), NEW text
    PROVE  Grown(s, Freeze(s, p, text)) /\ Known(Freeze(s, p, text), p)
<1> DEFINE r == Freeze(s, p, text)
<1>1. /\ DOMAIN r = SnapshotFields
      /\ r.canonical = With(s.canonical, p, p)
      /\ r.text = With(s.text, p, text)
      /\ r.byIdentity = s.byIdentity
      /\ r.failed = s.failed /\ r.queried = s.queried
  BY DEF Freeze, Sound, SnapshotFields
<1> HIDE DEF r
<1>2. /\ DOMAIN r.canonical = DOMAIN s.canonical \cup {p}
      /\ DOMAIN r.text = DOMAIN s.text \cup {p}
      /\ r.canonical[p] = p /\ r.text[p] = text
      /\ \A q \in DOMAIN s.canonical \ {p} : r.canonical[q] = s.canonical[q]
      /\ \A q \in DOMAIN s.text \ {p} : r.text[q] = s.text[q]
  BY <1>1 DEF With
<1>3. p \notin DOMAIN s.canonical /\ p \notin DOMAIN s.text
  BY DEF Sound, Known, Frozen
<1>4. Sound(r)
  BY <1>1, <1>2, <1>3 DEF Sound
<1>5. ASSUME NEW q, Known(s, q)
      PROVE  Known(r, q) /\ AnswerOf(r, q) = AnswerOf(s, q)
  <2>1. q # p
    BY <1>5
  <2>2. Known(r, q)
    BY <1>1, <1>2, <1>5 DEF Known, Frozen, RecordedAbsent
  <2>3. CASE Frozen(s, q)
    <3>1. q \in DOMAIN s.canonical /\ s.canonical[q] \in DOMAIN s.text
      BY <2>3 DEF Sound, Frozen
    <3>2. r.canonical[q] = s.canonical[q] /\ q \in DOMAIN r.canonical
      BY <1>2, <2>1, <3>1
    <3>3. r.text[r.canonical[q]] = s.text[s.canonical[q]]
      BY <1>2, <1>3, <3>1, <3>2
    <3> QED
      BY <2>2, <3>1, <3>2, <3>3 DEF AnswerOf, TextOf, Frozen
  <2>4. CASE ~Frozen(s, q)
    <3>1. ~Frozen(r, q)
      BY <1>2, <2>1, <2>4 DEF Frozen
    <3> QED
      BY <2>2, <2>4, <3>1 DEF AnswerOf
  <2> QED
    BY <2>2, <2>3, <2>4
<1>6. Texts(s) \subseteq Texts(r)
  BY <1>2, <1>3 DEF Texts
<1>7. Known(r, p)
  BY <1>2 DEF Known, Frozen
<1> QED
  BY <1>4, <1>5, <1>6, <1>7 DEF Grown, r

\* One more name, or one more identity, of a path that is frozen.
LEMMA ReadOnceGrown ==
    ASSUME NEW s, Sound(s), NEW p, ~Known(s, p), NEW file
    PROVE  Grown(s, ReadOnce(s, p, file)) /\ Known(ReadOnce(s, p, file), p)
<1> DEFINE r == ReadOnce(s, p, file)
<1>1. CASE file.id \in DOMAIN s.byIdentity
  <2>1. /\ DOMAIN r = SnapshotFields
        /\ r.canonical = With(s.canonical, p, s.byIdentity[file.id])
        /\ r.text = s.text /\ r.byIdentity = s.byIdentity
        /\ r.failed = s.failed /\ r.queried = s.queried
    BY <1>1 DEF ReadOnce, Sound, SnapshotFields
  <2> HIDE DEF r
  <2>2. /\ DOMAIN r.canonical = DOMAIN s.canonical \cup {p}
        /\ r.canonical[p] = s.byIdentity[file.id]
        /\ \A q \in DOMAIN s.canonical \ {p} : r.canonical[q] = s.canonical[q]
    BY <2>1 DEF With
  <2>3. Sound(r)
    BY <1>1, <2>1, <2>2 DEF Sound
  <2>4. ASSUME NEW q, Known(s, q)
        PROVE  Known(r, q) /\ AnswerOf(r, q) = AnswerOf(s, q)
    BY <2>1, <2>2, <2>4
       DEF Known, Frozen, RecordedAbsent, AnswerOf, TextOf
  <2>5. Texts(s) = Texts(r) /\ Known(r, p)
    BY <2>1, <2>2 DEF Texts, Known, Frozen
  <2> QED
    BY <2>3, <2>4, <2>5 DEF Grown, r
<1>2. CASE file.id \notin DOMAIN s.byIdentity
  <2> DEFINE f == Freeze(s, p, file.text)
  <2>1. Grown(s, f) /\ Known(f, p)
    BY FreezeGrown
  <2>2. Sound(f) /\ p \in DOMAIN f.text /\ f.byIdentity = s.byIdentity
    BY <2>1 DEF Grown, Freeze, With, Sound, SnapshotFields
  <2> HIDE DEF f
  <2>3. /\ DOMAIN r = SnapshotFields
        /\ r.canonical = f.canonical /\ r.text = f.text
        /\ r.byIdentity = With(f.byIdentity, file.id, p)
        /\ r.failed = f.failed /\ r.queried = f.queried
    BY <1>2, <2>2 DEF ReadOnce, Sound, SnapshotFields, f
  <2> HIDE DEF r
  <2>4. Sound(r)
    BY <2>2, <2>3 DEF Sound, With
  <2>5. \A q : (Known(r, q) <=> Known(f, q)) /\ AnswerOf(r, q) = AnswerOf(f, q)
    BY <2>3 DEF Known, Frozen, RecordedAbsent, AnswerOf, TextOf
  <2>6. Texts(r) = Texts(f)
    BY <2>3 DEF Texts
  <2> QED
    BY <2>1, <2>4, <2>5, <2>6 DEF Grown, r
<1> QED
  BY <1>1, <1>2

\* openFileForRead(): the path is known afterwards.
LEMMA OpenGrown ==
    ASSUME NEW s, Sound(s), NEW d, NEW p
    PROVE  Grown(s, Open(s, d, p)) /\ Known(Open(s, d, p), p)
<1>1. CASE Known(s, p)
  <2>1. Open(s, d, p) = s
    BY <1>1 DEF Open, Known
  <2> QED
    BY <1>1, <2>1, GrownItself
<1>2. CASE ~Known(s, p) /\ d[p] = Absent
  <2> DEFINE r == Missed(s, p)
  <2>1. Open(s, d, p) = r
    BY <1>2 DEF Open, Known
  <2>2. /\ DOMAIN r = SnapshotFields /\ r.failed = s.failed \cup {p}
        /\ r.canonical = s.canonical /\ r.text = s.text
        /\ r.byIdentity = s.byIdentity /\ r.queried = s.queried
    BY DEF Missed, Sound, SnapshotFields
  <2> HIDE DEF r
  <2>3. Sound(r) /\ Known(r, p) /\ Texts(r) = Texts(s)
    BY <2>2 DEF Sound, Known, Texts
  <2>4. \A q : Known(s, q) => Known(r, q) /\ AnswerOf(r, q) = AnswerOf(s, q)
    BY <2>2 DEF Known, Frozen, RecordedAbsent, AnswerOf, TextOf
  <2> QED
    BY <2>1, <2>3, <2>4 DEF Grown
<1>3. CASE ~Known(s, p) /\ d[p] # Absent
  <2>1. Open(s, d, p) = ReadOnce(s, p, d[p])
    BY <1>3 DEF Open, Known
  <2> QED
    BY <1>3, <2>1, ReadOnceGrown
<1> QED
  BY <1>1, <1>2, <1>3

\* status(): an answer that a file is not there is never taken back.
LEMMA StatusGrown ==
    ASSUME NEW s, Sound(s), NEW d, NEW p
    PROVE  Grown(s, Status(s, d, p).view)
<1> DEFINE r == Remember(s, p, d[p] # Absent)
<1>1. CASE Frozen(s, p) \/ RecordedAbsent(s, p)
  <2>1. Status(s, d, p).view = s
    BY <1>1 DEF Status
  <2> QED
    BY <2>1, GrownItself
<1>2. CASE ~Frozen(s, p) /\ ~RecordedAbsent(s, p)
  <2>1. Status(s, d, p).view = r
    BY <1>2 DEF Status
  <2>2. CASE s.sealed
    BY <2>1, <2>2, GrownItself DEF Remember
  <2>3. CASE ~s.sealed
    <3>1. /\ DOMAIN r = SnapshotFields /\ r.failed = s.failed
          /\ r.canonical = s.canonical /\ r.text = s.text
          /\ r.byIdentity = s.byIdentity
          /\ r.queried = With(s.queried, p, d[p] # Absent)
      BY <2>3 DEF Remember, Sound, SnapshotFields
    <3> HIDE DEF r
    <3>2. Sound(r) /\ Texts(r) = Texts(s)
      BY <3>1 DEF Sound, Texts
    <3>3. \A q : RecordedAbsent(s, q) => RecordedAbsent(r, q)
      BY <1>2, <3>1 DEF RecordedAbsent, With
    <3>4. \A q : Known(s, q) => Known(r, q) /\ AnswerOf(r, q) = AnswerOf(s, q)
      BY <3>1, <3>3 DEF Known, Frozen, AnswerOf, TextOf
    <3> QED
      BY <2>1, <3>2, <3>4 DEF Grown
  <2> QED
    BY <2>2, <2>3
<1> QED
  BY <1>1, <1>2

LEMMA SealGrown ==
    ASSUME NEW s, Sound(s)
    PROVE  Grown(s, Seal(s))
<1> DEFINE r == Seal(s)
<1>1. /\ DOMAIN r = SnapshotFields /\ r.failed = s.failed
      /\ r.canonical = s.canonical /\ r.text = s.text
      /\ r.byIdentity = s.byIdentity /\ r.queried = s.queried
  BY DEF Seal, Sound, SnapshotFields
<1> HIDE DEF r
<1>2. Sound(r) /\ Texts(r) = Texts(s)
  BY <1>1 DEF Sound, Texts
<1>3. \A q : Known(s, q) => Known(r, q) /\ AnswerOf(r, q) = AnswerOf(s, q)
  BY <1>1 DEF Known, Frozen, RecordedAbsent, AnswerOf, TextOf
<1> QED
  BY <1>2, <1>3 DEF Grown, r

LEMMA GuardSound ==
    ASSUME NEW s, Sound(s), NEW p, NEW text
    PROVE  Sound(AddVirtualFile(s, p, text))
<1>1. CASE Frozen(s, p)
  BY <1>1 DEF AddVirtualFile
<1>2. CASE ~Frozen(s, p)
  <2> DEFINE r == Freeze(s, p, text)
  <2>1. /\ DOMAIN r = SnapshotFields
        /\ r.canonical = With(s.canonical, p, p)
        /\ r.text = With(s.text, p, text)
        /\ r.byIdentity = s.byIdentity
    BY DEF Freeze, Sound, SnapshotFields
  <2> HIDE DEF r
  <2>2. Sound(r)
    BY <2>1 DEF Sound, With
  <2> QED
    BY <1>2, <2>2 DEF AddVirtualFile, r
<1> QED
  BY <1>1, <1>2

-----------------------------------------------------------------------------
(* A search, place by place, of which nothing can come out differently any *)
(* more: the k-th place has the file, or none has. A place before the k-th *)
(* was not the last one, since the search went on.                         *)

Missing(s, p) == Known(s, p) /\ AnswerOf(s, p) = Absent

Hit(s, places, k) ==
    /\ k \in Nat \ {0}
    /\ AnswerOf(s, places[k]) # Absent
    /\ \A j \in 1..(k - 1) : Missing(s, places[j])
    /\ \A j \in 0..(k - 1) : j # Len(places)

Nowhere(s, places) ==
    /\ Len(places) \in Nat
    /\ \A j \in 1..Len(places) : Missing(s, places[j])

FoundAs(s, places, text) ==
    \E k : Hit(s, places, k) /\ text = AnswerOf(s, places[k])

FoundIn(s, places, p) == \E k : Hit(s, places, k) /\ p = places[k]

LEMMA HitStays ==
    ASSUME NEW s, NEW r, Sound(s), Grown(s, r),
           NEW places, NEW k, Hit(s, places, k)
    PROVE  /\ Hit(r, places, k)
           /\ AnswerOf(r, places[k]) = AnswerOf(s, places[k])
<1>1. Known(s, places[k])
  BY AnswersAreTexts DEF Hit
<1>2. AnswerOf(r, places[k]) = AnswerOf(s, places[k])
  BY <1>1 DEF Grown
<1>3. \A j \in 1..(k - 1) : Missing(r, places[j])
  BY DEF Hit, Missing, Grown
<1> QED
  BY <1>2, <1>3 DEF Hit

LEMMA NowhereStays ==
    ASSUME NEW s, NEW r, Grown(s, r), NEW places, Nowhere(s, places)
    PROVE  Nowhere(r, places)
BY DEF Nowhere, Missing, Grown

\* A search has one outcome.
LEMMA OneHit ==
    ASSUME NEW s, NEW places,
           NEW k, Hit(s, places, k), NEW l, Hit(s, places, l)
    PROVE  k = l
<1>1. k \in Nat \ {0} /\ l \in Nat \ {0}
  BY DEF Hit
<1>2. ~(k < l)
  BY <1>1 DEF Hit, Missing
<1>3. ~(l < k)
  BY <1>1 DEF Hit, Missing
<1> QED
  BY <1>1, <1>2, <1>3

LEMMA HitOrNowhere ==
    ASSUME NEW s, NEW places, Nowhere(s, places), NEW k, Hit(s, places, k)
    PROVE  FALSE
<1>1. k \in Nat \ {0} /\ Len(places) \in Nat
  BY DEF Hit, Nowhere
<1>2. ~(k <= Len(places))
  BY <1>1 DEF Hit, Nowhere, Missing
<1>3. ~(Len(places) < k)
  BY <1>1 DEF Hit
<1> QED
  BY <1>1, <1>2, <1>3

-----------------------------------------------------------------------------
(* What a run of the consumer reads before the wrapper, at it, and for     *)
(* what its text asks, as the snapshot answers it now.                     *)

Named(c) == c.forced \o c.includes

Defining(macros, text) ==
    IF Meaning[text].kind = "defines" THEN Append(macros, text) ELSE macros

\* macros are what c begins with and the texts before say, one by one.
MacrosAfter(c, before, macros) ==
    \E h : /\ h[0] = c.macros
           /\ \A i \in 1..Len(before) : h[i] = Defining(h[i - 1], before[i])
           /\ macros = h[Len(before)]

ReadBefore(s, c, m) ==
    /\ IsSeq(m.before)
    /\ Len(m.before) <= Len(Named(c))
    /\ \A i \in 1..Len(m.before) :
            FoundAs(s, c.search[Named(c)[i]], m.before[i])
    /\ MacrosAfter(c, m.before, m.macros)

ReadWrapper(s, c, w, m) ==
    /\ Len(m.before) < Len(Named(c))
    /\ FoundIn(s, c.search[Named(c)[Len(m.before) + 1]], w)

Wants(s, w) == Meaning[AnswerOf(s, w)]

Wanted(s, c, w) == c.search[Wants(s, w).name]

Answer(s, c, w, looked, texts) ==
    \/ /\ Wants(s, w).kind \notin {"search", "probe"}
       /\ looked = <<>> /\ texts = <<AnswerOf(s, w)>>
    \/ /\ Wants(s, w).kind = "search"
       /\ \E k : /\ Hit(s, Wanted(s, c, w), k)
                 /\ looked = <<Wanted(s, c, w)[k]>>
                 /\ texts = <<AnswerOf(s, w), AnswerOf(s, Wanted(s, c, w)[k])>>
    \/ /\ Wants(s, w).kind = "probe"
       /\ \E k : /\ Hit(s, Wanted(s, c, w), k)
                 /\ looked = <<Wanted(s, c, w)[k]>>
                 /\ texts = <<AnswerOf(s, w)>>
    \/ /\ Wants(s, w).kind = "probe"
       /\ Nowhere(s, Wanted(s, c, w))
       /\ looked = <<Absent>> /\ texts = <<AnswerOf(s, w)>>

Unanswered(s, c, w) ==
    Wants(s, w).kind = "search" /\ Nowhere(s, Wanted(s, c, w))

\* Each of these stays true while the snapshot grows.
LEMMA ReadBeforeStays ==
    ASSUME NEW s, NEW r, Sound(s), Grown(s, r), NEW c, NEW m, ReadBefore(s, c, m)
    PROVE  ReadBefore(r, c, m)
<1>1. ASSUME NEW places, NEW text, FoundAs(s, places, text)
      PROVE  FoundAs(r, places, text)
  <2>1. PICK k : Hit(s, places, k) /\ text = AnswerOf(s, places[k])
    BY <1>1 DEF FoundAs
  <2> QED
    BY <2>1, HitStays DEF FoundAs
<1> QED
  BY <1>1 DEF ReadBefore

LEMMA ReadWrapperStays ==
    ASSUME NEW s, NEW r, Sound(s), Grown(s, r),
           NEW c, NEW w, NEW m, ReadWrapper(s, c, w, m)
    PROVE  ReadWrapper(r, c, w, m) /\ AnswerOf(r, w) = AnswerOf(s, w)
<1> DEFINE places == c.search[Named(c)[Len(m.before) + 1]]
<1>1. PICK k : Hit(s, places, k) /\ w = places[k]
  BY DEF ReadWrapper, FoundIn
<1>2. Hit(r, places, k) /\ AnswerOf(r, places[k]) = AnswerOf(s, places[k])
  BY <1>1, HitStays
<1>3. FoundIn(r, places, w)
  BY <1>1, <1>2 DEF FoundIn
<1> QED
  BY <1>1, <1>2, <1>3 DEF ReadWrapper

LEMMA AnswerStays ==
    ASSUME NEW s, NEW r, Sound(s), Grown(s, r), NEW c, NEW w,
           AnswerOf(r, w) = AnswerOf(s, w),
           NEW looked, NEW texts, Answer(s, c, w, looked, texts)
    PROVE  Answer(r, c, w, looked, texts)
<1>1. Wants(r, w) = Wants(s, w) /\ Wanted(r, c, w) = Wanted(s, c, w)
  BY DEF Wants, Wanted
<1>2. \A k : Hit(s, Wanted(s, c, w), k) =>
                /\ Hit(r, Wanted(s, c, w), k)
                /\ AnswerOf(r, Wanted(s, c, w)[k])
                        = AnswerOf(s, Wanted(s, c, w)[k])
  BY HitStays
<1>3. Nowhere(s, Wanted(s, c, w)) => Nowhere(r, Wanted(s, c, w))
  BY NowhereStays
<1>4. CASE Wants(s, w).kind \notin {"search", "probe"}
  BY <1>1, <1>4 DEF Answer
<1>5. CASE Wants(s, w).kind = "search"
  BY <1>1, <1>2, <1>5 DEF Answer
<1>6. CASE Wants(s, w).kind = "probe"
  BY <1>1, <1>2, <1>3, <1>6 DEF Answer
<1> QED
  BY <1>4, <1>5, <1>6

LEMMA UnansweredStays ==
    ASSUME NEW s, NEW r, Grown(s, r), NEW c, NEW w,
           AnswerOf(r, w) = AnswerOf(s, w), Unanswered(s, c, w)
    PROVE  Unanswered(r, c, w)
BY NowhereStays DEF Unanswered, Wants, Wanted

\* One text, one snapshot: one answer.
LEMMA OneAnswer ==
    ASSUME NEW s, NEW c, NEW w,
           NEW l1, NEW t1, Answer(s, c, w, l1, t1),
           NEW l2, NEW t2, Answer(s, c, w, l2, t2)
    PROVE  l1 = l2 /\ t1 = t2
<1>1. \A k, l : Hit(s, Wanted(s, c, w), k) /\ Hit(s, Wanted(s, c, w), l)
                    => k = l
  BY OneHit
<1>2. \A k : ~(Hit(s, Wanted(s, c, w), k) /\ Nowhere(s, Wanted(s, c, w)))
  BY HitOrNowhere
<1>3. CASE Wants(s, w).kind \notin {"search", "probe"}
  BY <1>3 DEF Answer
<1>4. CASE Wants(s, w).kind = "search"
  <2>1. PICK k : /\ Hit(s, Wanted(s, c, w), k)
                 /\ l1 = <<Wanted(s, c, w)[k]>>
                 /\ t1 = <<AnswerOf(s, w), AnswerOf(s, Wanted(s, c, w)[k])>>
    BY <1>4 DEF Answer
  <2>2. PICK l : /\ Hit(s, Wanted(s, c, w), l)
                 /\ l2 = <<Wanted(s, c, w)[l]>>
                 /\ t2 = <<AnswerOf(s, w), AnswerOf(s, Wanted(s, c, w)[l])>>
    BY <1>4 DEF Answer
  <2> QED
    BY <1>1, <2>1, <2>2
<1>5. CASE Wants(s, w).kind = "probe"
  <2>1. t1 = <<AnswerOf(s, w)>> /\ t2 = <<AnswerOf(s, w)>>
    BY <1>5 DEF Answer
  <2>2. CASE Nowhere(s, Wanted(s, c, w))
    <3>1. l1 = <<Absent>> /\ l2 = <<Absent>>
      BY <1>2, <1>5, <2>2 DEF Answer
    <3> QED
      BY <2>1, <3>1
  <2>3. CASE ~Nowhere(s, Wanted(s, c, w))
    <3>1. PICK k : /\ Hit(s, Wanted(s, c, w), k)
                   /\ l1 = <<Wanted(s, c, w)[k]>>
      BY <1>5, <2>3 DEF Answer
    <3>2. PICK l : /\ Hit(s, Wanted(s, c, w), l)
                   /\ l2 = <<Wanted(s, c, w)[l]>>
      BY <1>5, <2>3 DEF Answer
    <3> QED
      BY <1>1, <2>1, <3>1, <3>2
  <2> QED
    BY <2>2, <2>3
<1> QED
  BY <1>3, <1>4, <1>5

LEMMA AnswerOrUnanswered ==
    ASSUME NEW s, NEW c, NEW w, Unanswered(s, c, w),
           NEW looked, NEW texts, Answer(s, c, w, looked, texts)
    PROVE  FALSE
<1>1. \A k : ~(Hit(s, Wanted(s, c, w), k) /\ Nowhere(s, Wanted(s, c, w)))
  BY HitOrNowhere
<1>2. Wants(s, w).kind = "search" /\ Nowhere(s, Wanted(s, c, w))
  BY DEF Unanswered
<1>3. PICK k : Hit(s, Wanted(s, c, w), k)
  BY <1>2 DEF Answer
<1> QED
  BY <1>1, <1>2, <1>3

\* The same texts from the same macros give the same macros.
LEMMA OneMacros ==
    ASSUME NEW c, NEW b1, NEW b2, Len(b1) \in Nat, Len(b2) = Len(b1),
           \A i \in 1..Len(b1) : b1[i] = b2[i],
           NEW m1, MacrosAfter(c, b1, m1), NEW m2, MacrosAfter(c, b2, m2)
    PROVE  m1 = m2
<1>1. PICK h : /\ h[0] = c.macros
               /\ \A i \in 1..Len(b1) : h[i] = Defining(h[i - 1], b1[i])
               /\ m1 = h[Len(b1)]
  BY DEF MacrosAfter
<1>2. PICK g : /\ g[0] = c.macros
               /\ \A i \in 1..Len(b2) : g[i] = Defining(g[i - 1], b2[i])
               /\ m2 = g[Len(b2)]
  BY DEF MacrosAfter
<1> DEFINE S == {n \in Nat : n <= Len(b1) => h[n] = g[n]}
<1>3. 0 \in S
  BY <1>1, <1>2
<1>4. ASSUME NEW n \in Nat, n \in S
      PROVE  n + 1 \in S
  <2>1. CASE n + 1 <= Len(b1)
    <3>1. h[n] = g[n] /\ n + 1 \in 1..Len(b1) /\ (n + 1) - 1 = n
      BY <1>4, <2>1
    <3>2. h[n + 1] = Defining(h[n], b1[n + 1])
      BY <1>1, <3>1
    <3>3. g[n + 1] = Defining(g[n], b2[n + 1])
      BY <1>2, <3>1
    <3> QED
      BY <3>1, <3>2, <3>3
  <2>2. CASE ~(n + 1 <= Len(b1))
    BY <2>2
  <2> QED
    BY <2>1, <2>2
<1> HIDE DEF S
<1>5. Nat \subseteq S
  BY <1>3, <1>4, NaturalsBySuccessor
<1>6. h[Len(b1)] = g[Len(b1)]
  BY <1>5 DEF S
<1> QED
  BY <1>1, <1>2, <1>6

LEMMA MacrosBegin ==
    ASSUME NEW c
    PROVE  MacrosAfter(c, <<>>, c.macros)
<1> DEFINE h == [i \in {0} |-> c.macros]
<1>1. h[0] = c.macros /\ Len(<<>>) = 0 /\ 1..0 = {}
  OBVIOUS
<1> HIDE DEF h
<1> QED
  BY <1>1 DEF MacrosAfter

LEMMA MacrosGoOn ==
    ASSUME NEW c, NEW b, IsSeq(b), NEW m, MacrosAfter(c, b, m), NEW text
    PROVE  MacrosAfter(c, Append(b, text), Defining(m, text))
<1>1. PICK h : /\ h[0] = c.macros
               /\ \A i \in 1..Len(b) : h[i] = Defining(h[i - 1], b[i])
               /\ m = h[Len(b)]
  BY DEF MacrosAfter
<1> DEFINE n == Len(b)
           r == Append(b, text)
           g == [i \in 0..(n + 1) |-> IF i <= n THEN h[i] ELSE Defining(m, text)]
<1>2. /\ n \in Nat /\ Len(r) = n + 1 /\ r[n + 1] = text
      /\ \A i \in 1..n : r[i] = b[i]
  BY Appended
<1>3. /\ \A i \in 0..n : g[i] = h[i]
      /\ g[n + 1] = Defining(m, text)
  BY <1>2
<1> HIDE DEF g, r
<1>4. ASSUME NEW i \in 1..Len(r)
      PROVE  g[i] = Defining(g[i - 1], r[i])
  <2>1. CASE i <= n
    <3>1. i \in 1..n /\ i \in 0..n /\ i - 1 \in 0..n
      BY <1>2, <1>4, <2>1
    <3> QED
      BY <1>1, <1>2, <1>3, <3>1
  <2>2. CASE ~(i <= n)
    <3>1. i = n + 1 /\ n \in 0..n /\ i - 1 = n
      BY <1>2, <1>4, <2>2
    <3>2. g[i - 1] = m
      BY <1>1, <1>3, <3>1
    <3> QED
      BY <1>2, <1>3, <3>1, <3>2
  <2> QED
    BY <2>1, <2>2
<1>5. g[0] = c.macros /\ Defining(m, text) = g[Len(r)]
  BY <1>1, <1>2, <1>3
<1>6. MacrosAfter(c, r, Defining(m, text))
  BY <1>4, <1>5 DEF MacrosAfter
<1> QED
  BY <1>6 DEF r

LEMMA NamedTyped ==
    ASSUME NEW c, Searchable(c)
    PROVE  Named(c) \in Seq(DOMAIN c.search)
<1> DEFINE D == DOMAIN c.search
<1>1. c.forced \in Seq(D) /\ c.includes \in Seq(D)
  BY DEF Searchable
<1> HIDE DEF D
<1>2. c.forced \o c.includes \in Seq(D)
  BY <1>1
<1> QED
  BY <1>2 DEF Named, D

\* With one header that can be the wrapper, both runs reach it the same way.
LEMMA OneWay ==
    ASSUME NEW s, NEW c, Searchable(c), Len(c.uses) = 1, NamedOnce(c),
           NEW w, \E k \in 1..Len(c.search[c.uses[1]]) :
                        w = c.search[c.uses[1]][k],
           NEW m, ReadBefore(s, c, m), ReadWrapper(s, c, w, m),
           NEW n, ReadBefore(s, c, n), ReadWrapper(s, c, w, n)
    PROVE  m.macros = n.macros
<1> DEFINE Places(name) == {c.search[name][k] : k \in DOMAIN c.search[name]}
           Wrapper(i) == Places(Named(c)[i]) \cap Places(c.uses[1]) # {}
<1>1. /\ Named(c) \in Seq(DOMAIN c.search)
      /\ c.uses \in Seq(DOMAIN c.search)
      /\ \A name \in DOMAIN c.search : c.search[name] \in Seq(Path)
  BY NamedTyped DEF Searchable
<1>2. c.uses[1] \in DOMAIN c.search
  BY <1>1
<1>3. w \in Places(c.uses[1])
  BY <1>1, <1>2
<1>4. \A i, j \in DOMAIN Named(c) : Wrapper(i) /\ Wrapper(j) => i = j
  BY Zenon DEF NamedOnce, Named
<1>5. ASSUME NEW x, ReadBefore(s, c, x), ReadWrapper(s, c, w, x)
      PROVE  /\ Len(x.before) \in Nat
             /\ Len(x.before) + 1 \in DOMAIN Named(c)
             /\ Wrapper(Len(x.before) + 1)
  <2> DEFINE i == Len(x.before) + 1
             name == Named(c)[i]
  <2>1. Len(x.before) \in Nat /\ i \in DOMAIN Named(c)
    BY <1>1, <1>5, Appended DEF ReadBefore, ReadWrapper
  <2>2. name \in DOMAIN c.search /\ c.search[name] \in Seq(Path)
    BY <1>1, <2>1
  <2>3. PICK k : Hit(s, c.search[name], k) /\ w = c.search[name][k]
    BY <1>5 DEF ReadWrapper, FoundIn
  <2>4. k \in DOMAIN c.search[name]
    <3>1. k \in Nat \ {0} /\ Len(c.search[name]) \in Nat
      BY <2>2, <2>3 DEF Hit
    <3>2. ~(Len(c.search[name]) < k)
      BY <2>3, <3>1 DEF Hit
    <3> QED
      BY <2>2, <3>1, <3>2
  <2>5. w \in Places(name)
    BY <2>3, <2>4
  <2> QED
    BY <1>3, <2>1, <2>5
<1> HIDE DEF Wrapper, Places
<1>6. Len(m.before) + 1 = Len(n.before) + 1
  BY <1>4, <1>5
<1>7. Len(m.before) = Len(n.before) /\ Len(m.before) \in Nat
  BY <1>5, <1>6
<1>8. ASSUME NEW i \in 1..Len(m.before)
      PROVE  m.before[i] = n.before[i]
  <2> DEFINE places == c.search[Named(c)[i]]
  <2>1. PICK k : Hit(s, places, k) /\ m.before[i] = AnswerOf(s, places[k])
    BY <1>8 DEF ReadBefore, FoundAs
  <2>2. PICK l : Hit(s, places, l) /\ n.before[i] = AnswerOf(s, places[l])
    BY <1>7, <1>8 DEF ReadBefore, FoundAs
  <2>3. k = l
    BY <2>1, <2>2, OneHit
  <2> QED
    BY <2>1, <2>2, <2>3
<1> QED
  BY <1>7, <1>8, OneMacros DEF ReadBefore

-----------------------------------------------------------------------------
(* A measured run, and the parse that measures it.                         *)

MeasureIsTrue(s, c, w, m, parsing) ==
    /\ m.entered \/ parsing => ReadBefore(s, c, m)
    /\ m.entered => ReadWrapper(s, c, w, m)
    /\ m.entered /\ m.boundary => Answer(s, c, w, m.looked, m.texts)
    /\ m.entered /\ ~m.boundary => Unanswered(s, c, w) \/ parsing

\* The places of the header asked for that were looked at had nothing.
Searching(s, c, asks, tried) ==
    asks # <<>> =>
        /\ \A j \in 1..tried : Missing(s, c.search[Head(asks)][j])
        /\ \A j \in 0..(tried - 1) : j # Len(c.search[Head(asks)])

\* What is still to be looked up: the rest of what the parse begins with, or
\* what the wrapper asks for.
FrontEnd(s, c, w, m, asks, tried) ==
    /\ tried \in Nat
    /\ ~m.boundary /\ m.looked = <<>>
    /\ m.entered =>
        /\ Wants(s, w).kind \in {"search", "probe"}
        /\ m.texts = <<AnswerOf(s, w)>>
        /\ asks = <<Wants(s, w).name>>
    /\ ~m.entered =>
        /\ asks \in Seq(DOMAIN c.search)
        /\ Len(asks) = Len(Named(c)) - Len(m.before)
        /\ \A i \in 1..Len(asks) : asks[i] = Named(c)[Len(m.before) + i]
    /\ Searching(s, c, asks, tried)

LEMMA MeasureStays ==
    ASSUME NEW s, NEW r, Sound(s), Grown(s, r), NEW c, NEW w, NEW m,
           NEW parsing, MeasureIsTrue(s, c, w, m, parsing)
    PROVE  MeasureIsTrue(r, c, w, m, parsing)
<1>1. m.entered \/ parsing => ReadBefore(r, c, m)
  BY ReadBeforeStays DEF MeasureIsTrue
<1>2. m.entered => ReadWrapper(r, c, w, m) /\ AnswerOf(r, w) = AnswerOf(s, w)
  BY ReadWrapperStays DEF MeasureIsTrue
<1>3. m.entered /\ m.boundary => Answer(r, c, w, m.looked, m.texts)
  BY <1>2, AnswerStays DEF MeasureIsTrue
<1>4. m.entered /\ ~m.boundary => Unanswered(r, c, w) \/ parsing
  BY <1>2, UnansweredStays DEF MeasureIsTrue
<1> QED
  BY <1>1, <1>2, <1>3, <1>4 DEF MeasureIsTrue

LEMMA FrontEndStays ==
    ASSUME NEW s, NEW r, Sound(s), Grown(s, r), NEW c, NEW w, NEW m,
           NEW asks, NEW tried, FrontEnd(s, c, w, m, asks, tried),
           m.entered => ReadWrapper(s, c, w, m)
    PROVE  FrontEnd(r, c, w, m, asks, tried)
<1>1. m.entered => AnswerOf(r, w) = AnswerOf(s, w) /\ Wants(r, w) = Wants(s, w)
  BY ReadWrapperStays DEF Wants
<1>2. Searching(r, c, asks, tried)
  BY DEF FrontEnd, Searching, Missing, Grown
<1> QED
  BY <1>1, <1>2 DEF FrontEnd

\* A run that entered the wrapper and is over meets what another such run met,
\* if that one closed its window.
LEMMA MetAgain ==
    ASSUME NEW s, NEW c, NEW w,
           NEW m, MeasureIsTrue(s, c, w, m, FALSE), m.entered, m.boundary,
           NEW n, MeasureIsTrue(s, c, w, n, FALSE), n.entered
    PROVE  n.boundary /\ m.looked = n.looked /\ m.texts = n.texts
<1>1. Answer(s, c, w, m.looked, m.texts)
  BY DEF MeasureIsTrue
<1>2. ~Unanswered(s, c, w)
  BY <1>1, AnswerOrUnanswered
<1>3. n.boundary
  BY <1>2 DEF MeasureIsTrue
<1>4. Answer(s, c, w, n.looked, n.texts)
  BY <1>3 DEF MeasureIsTrue
<1> QED
  BY <1>1, <1>3, <1>4, OneAnswer

-----------------------------------------------------------------------------
(* The inductive invariant of one analysis.                                *)

UnitFields ==
    {"request", "at", "run", "wrapper", "view", "replayed", "asks", "tried",
     "measured", "status", "why"}

MeasureFields ==
    {"entered", "boundary", "errors", "looked", "texts", "macros", "before",
     "top"}

Shape(u) ==
    /\ DOMAIN u = UnitFields
    /\ u.run \in Runs
    /\ DOMAIN u.measured = Runs
    /\ \A x \in Runs : DOMAIN u.measured[x] = MeasureFields
    /\ Sound(u.view)

CommandIsProper(c) == c # NoCommand => Searchable(c)

Asked(u) ==
    /\ u.request # NoRequest =>
            CommandIsProper(Consumer(u)) /\ CommandIsProper(Producer(u))
    /\ u.at # "done" \/ u.replayed => u.request # NoRequest
    /\ u.at \notin {"gate", "done"} \/ u.replayed => Consumer(u) # NoCommand

\* What the ladder established of the two commands, and of the wrapper.
Laddered(c, p) ==
    /\ p # NoCommand
    /\ c.compiler = p.compiler /\ c.directory = p.directory
    /\ c.artifacts = p.artifacts
    /\ p.forced = <<>> /\ p.disables = FALSE
    /\ Len(c.uses) = 1

SearchedFor(c, w) ==
    \E k \in 1..Len(c.search[c.uses[1]]) : w = c.search[c.uses[1]][k]

Preflight == {"wrapper", "layout", "creates", "source", "include"}

Climbed(u) == u.at \in Preflight \/ u.run # "final" \/ u.replayed

Verified(u) ==
    /\ Climbed(u) => Laddered(Consumer(u), Producer(u))
    /\ Climbed(u) /\ u.at # "wrapper" => SearchedFor(Consumer(u), u.wrapper)

\* No run before the ladder is climbed, no final run before the comparison.
Early(u) ==
    /\ u.at \in {"gate", "ladder"} \cup Preflight =>
        /\ u.run = "final" /\ ~u.replayed
        /\ \A x \in Runs : u.measured[x] = NoMeasure
    /\ u.at = "admit" \/ u.run # "final" => u.measured["final"] = NoMeasure

Compared(u) ==
    u.replayed =>
        /\ u.run = "final"
        /\ Captured(u.measured["consumer"])
        /\ SameAxes(u.measured["producer"], u.measured["consumer"])

Finished(u) ==
    LET proven == u.measured["consumer"]
        actual == u.measured["final"]
    IN  u.at = "done" /\ u.replayed =>
            /\ u.status # "rejected" => SameAxes(proven, actual)
            /\ actual.entered =>
                /\ actual.boundary
                /\ actual.looked = proven.looked
                /\ actual.texts = proven.texts
                /\ NamedOnce(Consumer(u)) => u.status # "rejected"

Control(u) ==
    Asked(u) /\ Verified(u) /\ Early(u) /\ Compared(u) /\ Finished(u)

\* The texts a run entered are the snapshot's.
TextsKept(s, m) ==
    /\ IsSeq(m.texts)
    /\ \A i \in 1..Len(m.texts) : m.texts[i] \in Texts(s)

Parsing(u, x) == u.at = "parse" /\ u.run = x

RunIsTrue(u, x) ==
    MeasureIsTrue(u.view, Consumer(u), u.wrapper, u.measured[x], Parsing(u, x))

ParseIsTrue(u, x) ==
    Parsing(u, x) => FrontEnd(u.view, Consumer(u), u.wrapper, u.measured[x],
                              u.asks, u.tried)

UnitInv(u) ==
    /\ Shape(u)
    /\ Control(u)
    /\ \A x \in Runs : TextsKept(u.view, u.measured[x])
    /\ \A x \in {"consumer", "final"} : RunIsTrue(u, x) /\ ParseIsTrue(u, x)

-----------------------------------------------------------------------------
(* Steps outside a parse: nothing measured changes.                        *)

LEMMA NothingMeasured ==
    /\ DOMAIN NoMeasure = MeasureFields
    /\ ~NoMeasure.entered /\ ~NoMeasure.boundary /\ NoMeasure.looked = <<>>
    /\ NoMeasure.before = <<>> /\ NoMeasure.texts = <<>>
    /\ \A s : TextsKept(s, NoMeasure)
    /\ \A s, c, w : MeasureIsTrue(s, c, w, NoMeasure, FALSE)
<1>1. /\ DOMAIN NoMeasure = MeasureFields
      /\ ~NoMeasure.entered /\ ~NoMeasure.boundary /\ NoMeasure.looked = <<>>
      /\ NoMeasure.before = <<>> /\ NoMeasure.texts = <<>>
  BY DEF NoMeasure, MeasureFields
<1>2. \A s : TextsKept(s, NoMeasure)
  BY <1>1, ShortSequences DEF TextsKept
<1>3. \A s, c, w : MeasureIsTrue(s, c, w, NoMeasure, FALSE)
  BY <1>1 DEF MeasureIsTrue
<1> QED
  BY <1>1, <1>2, <1>3

LEMMA TextsStay ==
    ASSUME NEW s, NEW r, Grown(s, r), NEW m, TextsKept(s, m)
    PROVE  TextsKept(r, m)
BY DEF TextsKept, Grown

LEMMA Quiet ==
    ASSUME NEW u, UnitInv(u), u.at # "parse",
           NEW v, Shape(v), v.at # "parse", Control(v),
           v.request = u.request, v.measured = u.measured,
           \/ Grown(u.view, v.view) /\ v.wrapper = u.wrapper
           \/ \A x \in Runs : u.measured[x] = NoMeasure
    PROVE  UnitInv(v)
<1>1. Consumer(v) = Consumer(u) /\ {"consumer", "final"} \subseteq Runs
  BY DEF Consumer, Runs
<1>2. \A x : Parsing(u, x) = FALSE /\ Parsing(v, x) = FALSE
  BY DEF Parsing
<1>3. CASE Grown(u.view, v.view) /\ v.wrapper = u.wrapper
  <2>1. ASSUME NEW x \in Runs
        PROVE  TextsKept(v.view, v.measured[x])
    BY <1>3, TextsStay DEF UnitInv
  <2>2. ASSUME NEW x \in {"consumer", "final"}
        PROVE  RunIsTrue(v, x) /\ ParseIsTrue(v, x)
    <3>1. MeasureIsTrue(u.view, Consumer(u), u.wrapper, u.measured[x], FALSE)
      BY <1>2 DEF UnitInv, RunIsTrue
    <3>2. MeasureIsTrue(v.view, Consumer(u), u.wrapper, u.measured[x], FALSE)
      BY <1>3, <3>1, MeasureStays DEF UnitInv, Shape
    <3> QED
      BY <1>1, <1>2, <1>3, <3>2 DEF RunIsTrue, ParseIsTrue
  <2> QED
    BY <2>1, <2>2 DEF UnitInv
<1>4. CASE \A x \in Runs : u.measured[x] = NoMeasure
  BY <1>1, <1>2, <1>4, NothingMeasured DEF UnitInv, RunIsTrue, ParseIsTrue
<1> QED
  BY <1>3, <1>4

\* A rejection ends the analysis; only the final comparison calls it drift.
LEMMA RejectedKeeps ==
    ASSUME NEW u, UnitInv(u), u.at \notin {"done", "parse"},
           NEW why, ~u.replayed \/ u.at = "admit"
    PROVE  UnitInv(Rejected(u, why))
<1> DEFINE v == Rejected(u, why)
<1>1. /\ DOMAIN v = UnitFields /\ v.at = "done" /\ v.status = "rejected"
      /\ v.request = u.request /\ v.run = u.run /\ v.wrapper = u.wrapper
      /\ v.view = u.view /\ v.replayed = u.replayed
      /\ v.measured = u.measured
  BY DEF UnitInv, Shape, UnitFields, Rejected
<1> HIDE DEF v
<1>2. Consumer(v) = Consumer(u) /\ Producer(v) = Producer(u)
  BY <1>1 DEF Consumer, Producer
<1>3. Shape(v) /\ Grown(u.view, v.view)
  BY <1>1, GrownItself DEF UnitInv, Shape
<1>4. Asked(v) /\ Early(v) /\ Compared(v)
  BY <1>1, <1>2 DEF UnitInv, Control, Asked, Early, Preflight, Compared
<1>5. Verified(v)
  BY <1>1, <1>2 DEF UnitInv, Control, Verified, Climbed, Preflight, Early
<1>6. Finished(v)
  BY <1>1, NothingMeasured DEF UnitInv, Control, Finished, Early
<1>7. UnitInv(v)
  BY <1>1, <1>3, <1>4, <1>5, <1>6, Quiet DEF Control
<1> QED
  BY <1>7 DEF v

\* v is u, gone on to next.
GoneOn(u, v, next) ==
    /\ DOMAIN v = UnitFields /\ v.at = next
    /\ v.request = u.request /\ v.run = u.run /\ v.wrapper = u.wrapper
    /\ v.view = u.view /\ v.replayed = u.replayed /\ v.measured = u.measured
    /\ Consumer(v) = Consumer(u) /\ Producer(v) = Producer(u)

LEMMA GoesOn ==
    ASSUME NEW u, Shape(u), NEW next
    PROVE  GoneOn(u, [u EXCEPT !.at = next], next)
BY DEF GoneOn, Shape, UnitFields, Consumer, Producer

LEMMA MovesOn ==
    ASSUME NEW u, UnitInv(u), u.at # "parse",
           NEW v, NEW next, GoneOn(u, v, next), next \notin {"parse", "done"},
           Asked(v), Verified(v), Early(v)
    PROVE  UnitInv(v)
<1>1. Shape(v) /\ Grown(u.view, v.view)
  BY GrownItself DEF UnitInv, Shape, GoneOn
<1>2. Compared(v) /\ Finished(v)
  BY DEF UnitInv, Control, Compared, Finished, GoneOn
<1> QED
  BY <1>1, <1>2, Quiet DEF Control, GoneOn

\* A thread's unit becomes one that keeps the invariant.
Becomes(t) == \E v : UnitInv(v) /\ unit' = [unit EXCEPT ![t] = v]

LEMMA GateKeeps ==
    ASSUME NEW t \in Thread, UnitInv(unit[t]), Gate(t)
    PROVE  Becomes(t)
<1> DEFINE u == unit[t]
           c == Consumer(u)
<1>1. u.at = "gate" /\ u.run = "final" /\ ~u.replayed /\ ~Climbed(u)
  BY DEF Gate, UnitInv, Control, Early, Climbed, Preflight
<1>2. ASSUME NEW next \in {"admit", "ladder"}, AcceptedCommand(c)
      PROVE  UnitInv([u EXCEPT !.at = next])
  <2> DEFINE v == [u EXCEPT !.at = next]
  <2>1. GoneOn(u, v, next)
    BY GoesOn DEF UnitInv
  <2> HIDE DEF v
  <2>2. Asked(v)
    BY <1>1, <1>2, <2>1 DEF UnitInv, Control, Asked, GoneOn, AcceptedCommand
  <2>3. Verified(v) /\ Early(v)
    BY <1>1, <2>1
       DEF UnitInv, Control, Verified, Climbed, Preflight, Early, GoneOn, Runs
  <2>4. UnitInv(v)
    BY <1>1, <2>1, <2>2, <2>3, MovesOn
  <2> QED
    BY <2>4 DEF v
<1>3. UnitInv(Rejected(u, "gate")) /\ UnitInv(Rejected(u, "degraded"))
  BY <1>1, RejectedKeeps
<1>4. CASE ~AcceptedCommand(c)
  <2>1. unit' = [unit EXCEPT ![t] = Rejected(u, "gate")]
    BY <1>4 DEF Gate, Step
  <2> QED
    BY <1>3, <2>1 DEF Becomes
<1>5. CASE AcceptedCommand(c) /\ ~Degraded(c)
  <2>1. unit' = [unit EXCEPT ![t] = [u EXCEPT !.at = "admit"]]
    BY <1>5 DEF Gate, Step
  <2> QED
    BY <1>2, <1>5, <2>1 DEF Becomes
<1>6. CASE AcceptedCommand(c) /\ Degraded(c) /\ DegradedOnlyByPch(c)
  <2>1. unit' = [unit EXCEPT ![t] = [u EXCEPT !.at = "ladder"]]
    BY <1>6 DEF Gate, Step
  <2> QED
    BY <1>2, <1>6, <2>1 DEF Becomes
<1>7. CASE AcceptedCommand(c) /\ Degraded(c) /\ ~DegradedOnlyByPch(c)
  <2>1. unit' = [unit EXCEPT ![t] = Rejected(u, "degraded")]
    BY <1>7 DEF Gate, Step
  <2> QED
    BY <1>3, <2>1 DEF Becomes
<1> QED
  BY <1>4, <1>5, <1>6, <1>7

LEMMA AdmitKeeps ==
    ASSUME NEW t \in Thread, UnitInv(unit[t]), Admit(t)
    PROVE  Becomes(t)
<1> DEFINE u == unit[t]
           v == [u EXCEPT !.at = "waiting"]
<1>1. /\ u.at = "admit"
      /\ \/ unit' = [unit EXCEPT ![t] = v]
         \/ unit' = [unit EXCEPT ![t] = Rejected(u, "admit")]
  BY DEF Admit, Check, Step
<1>2. GoneOn(u, v, "waiting")
  BY GoesOn DEF UnitInv
<1> HIDE DEF v
<1>3. Asked(v) /\ Verified(v) /\ Early(v)
  BY <1>1, <1>2
     DEF UnitInv, Control, Asked, Verified, Climbed, Preflight, Early, GoneOn
<1>4. UnitInv(v) /\ UnitInv(Rejected(u, "admit"))
  BY <1>1, <1>2, <1>3, MovesOn, RejectedKeeps
<1> QED
  BY <1>1, <1>4 DEF Becomes

LEMMA LadderKeeps ==
    ASSUME NEW t \in Thread, UnitInv(unit[t]), Ladder(t)
    PROVE  Becomes(t)
<1> DEFINE u == unit[t]
           c == Consumer(u)
           p == Producer(u)
           v == [u EXCEPT !.at = "wrapper"]
           holds == /\ Supplied(p) /\ SameBuild(c, p) /\ c.safe /\ p.safe
                    /\ UniqueOptions(c, p) /\ c.artifacts = p.artifacts
<1>1. /\ u.at = "ladder"
      /\ \/ holds /\ unit' = [unit EXCEPT ![t] = v]
         \/ unit' = [unit EXCEPT ![t] = Rejected(u, "ladder")]
  BY DEF Ladder, Check, Step
<1>2. GoneOn(u, v, "wrapper")
  BY GoesOn DEF UnitInv
<1>3. u.run = "final" /\ ~u.replayed
  BY <1>1 DEF UnitInv, Control, Early
<1>4. ASSUME holds
      PROVE  UnitInv(v)
  <2>1. p # NoCommand /\ p.disables \in BOOLEAN
    BY <1>1, <1>4
       DEF Supplied, UnitInv, Control, Asked, CommandIsProper, Searchable
  <2>2. Laddered(c, p)
    BY <1>4, <2>1 DEF SameBuild, UniqueOptions, Laddered
  <2> HIDE DEF v
  <2>3. Asked(v) /\ Early(v)
    BY <1>1, <1>2, <1>3
       DEF UnitInv, Control, Asked, Preflight, Early, GoneOn
  <2>4. Verified(v)
    BY <1>2, <2>2 DEF Verified, GoneOn
  <2> QED
    BY <1>1, <1>2, <2>3, <2>4, MovesOn
<1>5. UnitInv(Rejected(u, "ladder"))
  BY <1>1, <1>3, RejectedKeeps
<1> HIDE DEF holds, v
<1> QED
  BY <1>1, <1>4, <1>5 DEF Becomes

\* The smallest of some places is one of them.
LEMMA FirstPlace ==
    ASSUME NEW n \in Nat, NEW S \in SUBSET (1..n), S # {}
    PROVE  Min(S) \in S
<1>1. \E x \in S : \A y \in S : x <= y
  BY LeastNatural
<1> QED
  BY <1>1 DEF Min

LEMMA ResolvedIsSearchedFor ==
    ASSUME NEW d, NEW c, Searchable(c), Len(c.uses) = 1,
           Resolve(d, c, c.uses[1]) # Absent
    PROVE  SearchedFor(c, Resolve(d, c, c.uses[1]))
<1> DEFINE places == c.search[c.uses[1]]
           hits == {i \in DOMAIN places : d[places[i]] # Absent}
<1>1. c.uses \in Seq(DOMAIN c.search)
  BY DEF Searchable
<1>2. c.uses[1] \in DOMAIN c.search
  BY <1>1
<1>3. places \in Seq(Path)
  BY <1>2 DEF Searchable
<1>4. Len(places) \in Nat /\ DOMAIN places = 1..Len(places)
  BY <1>3
<1>5. hits # {} /\ Resolve(d, c, c.uses[1]) = places[Min(hits)]
  BY DEF Resolve
<1> HIDE DEF places
<1>6. Min(hits) \in 1..Len(places)
  BY <1>4, <1>5, FirstPlace
<1> QED
  BY <1>5, <1>6 DEF SearchedFor, places

LEMMA ResolveWrapperKeeps ==
    ASSUME NEW t \in Thread, UnitInv(unit[t]), ResolveWrapper(t)
    PROVE  Becomes(t)
<1> DEFINE u == unit[t]
           c == Consumer(u)
           w == Resolve(disk, c, c.uses[1])
           v == [u EXCEPT !.at = "layout", !.wrapper = w]
<1>1. /\ u.at = "wrapper"
      /\ \/ w # Absent /\ unit' = [unit EXCEPT ![t] = v]
         \/ unit' = [unit EXCEPT ![t] = Rejected(u, "wrapper")]
  BY DEF ResolveWrapper, Step
<1>2. /\ u.run = "final" /\ ~u.replayed /\ Climbed(u)
      /\ \A x \in Runs : u.measured[x] = NoMeasure
  BY <1>1 DEF UnitInv, Control, Early, Preflight, Climbed
<1>3. ASSUME w # Absent
      PROVE  UnitInv(v)
  <2>1. /\ DOMAIN v = UnitFields /\ v.at = "layout" /\ v.wrapper = w
        /\ v.request = u.request /\ v.run = u.run
        /\ v.view = u.view /\ v.replayed = u.replayed
        /\ v.measured = u.measured
        /\ Consumer(v) = c /\ Producer(v) = Producer(u)
    BY DEF UnitInv, Shape, UnitFields, Consumer, Producer
  <2>2. Searchable(c) /\ Laddered(c, Producer(u))
    BY <1>1, <1>2
       DEF UnitInv, Control, Asked, CommandIsProper, Verified
  <2>3. SearchedFor(c, w)
    BY <1>3, <2>2, ResolvedIsSearchedFor DEF Laddered
  <2> HIDE DEF v, w
  <2>4. Shape(v) /\ Asked(v) /\ Early(v)
    BY <1>1, <1>2, <2>1 DEF UnitInv, Shape, Control, Asked, Early, Preflight
  <2>5. Verified(v)
    BY <2>1, <2>2, <2>3 DEF Verified
  <2>6. Compared(v) /\ Finished(v)
    BY <1>2, <2>1 DEF Compared, Finished
  <2> QED
    BY <1>1, <1>2, <2>1, <2>4, <2>5, <2>6, Quiet DEF Control
<1>4. UnitInv(Rejected(u, "wrapper"))
  BY <1>1, <1>2, RejectedKeeps
<1> HIDE DEF v, w
<1> QED
  BY <1>1, <1>3, <1>4 DEF Becomes

\* From one check of the ladder to the next one.
LEMMA PreflightGoesOn ==
    ASSUME NEW u, UnitInv(u), u.at \in Preflight \ {"wrapper"},
           NEW next \in Preflight \ {"wrapper"}
    PROVE  /\ UnitInv([u EXCEPT !.at = next])
           /\ \A why : UnitInv(Rejected(u, why))
<1> DEFINE v == [u EXCEPT !.at = next]
<1>1. GoneOn(u, v, next)
  BY GoesOn DEF UnitInv
<1>2. /\ u.run = "final" /\ ~u.replayed /\ Climbed(u)
      /\ \A x \in Runs : u.measured[x] = NoMeasure
  BY DEF UnitInv, Control, Early, Climbed
<1> HIDE DEF v
<1>3. Asked(v) /\ Verified(v) /\ Early(v)
  BY <1>1, <1>2
     DEF UnitInv, Control, Asked, Verified, Preflight, Early, GoneOn
<1>4. UnitInv(v)
  BY <1>1, <1>3, MovesOn DEF Preflight
<1>5. \A why : UnitInv(Rejected(u, why))
  BY <1>2, RejectedKeeps DEF Preflight
<1> QED
  BY <1>4, <1>5 DEF v

LEMMA CheckLayoutKeeps ==
    ASSUME NEW t \in Thread, UnitInv(unit[t]), CheckLayout(t)
    PROVE  Becomes(t)
<1> DEFINE u == unit[t]
<1>1. /\ u.at = "layout"
      /\ \/ unit' = [unit EXCEPT ![t] = [u EXCEPT !.at = "creates"]]
         \/ unit' = [unit EXCEPT ![t] = Rejected(u, "layout")]
  BY DEF CheckLayout, Check, Step
<1>2. UnitInv([u EXCEPT !.at = "creates"]) /\ UnitInv(Rejected(u, "layout"))
  BY <1>1, PreflightGoesOn DEF Preflight
<1> QED
  BY <1>1, <1>2 DEF Becomes

LEMMA CheckCreatesKeeps ==
    ASSUME NEW t \in Thread, UnitInv(unit[t]), CheckCreates(t)
    PROVE  Becomes(t)
<1> DEFINE u == unit[t]
<1>1. /\ u.at = "creates"
      /\ \/ unit' = [unit EXCEPT ![t] = [u EXCEPT !.at = "source"]]
         \/ unit' = [unit EXCEPT ![t] = Rejected(u, "creates")]
  BY DEF CheckCreates, Check, Step
<1>2. UnitInv([u EXCEPT !.at = "source"]) /\ UnitInv(Rejected(u, "creates"))
  BY <1>1, PreflightGoesOn DEF Preflight
<1> QED
  BY <1>1, <1>2 DEF Becomes

\* Before any run, whatever the snapshot holds.
LEMMA AnotherView ==
    ASSUME NEW u, UnitInv(u), u.at \in Preflight \ {"wrapper"},
           NEW view, Sound(view)
    PROVE  /\ UnitInv([u EXCEPT !.view = view])
           /\ [u EXCEPT !.view = view].at = u.at
<1> DEFINE v == [u EXCEPT !.view = view]
<1>1. /\ DOMAIN v = UnitFields /\ v.at = u.at /\ v.wrapper = u.wrapper
      /\ v.request = u.request /\ v.run = u.run /\ v.view = view
      /\ v.replayed = u.replayed /\ v.measured = u.measured
      /\ Consumer(v) = Consumer(u) /\ Producer(v) = Producer(u)
  BY DEF UnitInv, Shape, UnitFields, Consumer, Producer
<1>2. /\ ~u.replayed /\ Climbed(u) /\ u.at \notin {"parse", "done"}
      /\ \A x \in Runs : u.measured[x] = NoMeasure
  BY DEF UnitInv, Control, Early, Climbed, Preflight
<1> HIDE DEF v
<1>3. Shape(v) /\ Asked(v) /\ Verified(v) /\ Early(v) /\ Compared(v) /\ Finished(v)
  BY <1>1, <1>2 DEF UnitInv, Shape, Control, Asked, Verified, Climbed,
                    Early, Compared, Finished
<1>4. UnitInv(v)
  BY <1>1, <1>2, <1>3, Quiet DEF Control
<1> QED
  BY <1>1, <1>4 DEF v

LEMMA FreezeSourceKeeps ==
    ASSUME NEW t \in Thread, UnitInv(unit[t]), FreezeSource(t)
    PROVE  Becomes(t)
<1> DEFINE u == unit[t]
           p == Producer(u)
           guarded == AddVirtualFile(u.view, Guard, EmptyText)
           view == Open(guarded, disk, p.source)
           v == [u EXCEPT !.view = view]
<1>1. /\ u.at = "source"
      /\ \/ unit' = [unit EXCEPT ![t] = [u EXCEPT !.at = "include", !.view = view]]
         \/ unit' = [unit EXCEPT ![t] = Rejected([u EXCEPT !.view = view], "source")]
  BY DEF FreezeSource, Step
<1>2. Sound(guarded)
  BY GuardSound DEF UnitInv, Shape
<1>3. Sound(view)
  BY <1>2, OpenGrown DEF Grown
<1>4. [u EXCEPT !.at = "include", !.view = view] = [v EXCEPT !.at = "include"]
  <2> HIDE DEF view
  <2> QED
    BY DEF UnitInv, Shape, UnitFields
<1> HIDE DEF view
<1>5. UnitInv(v) /\ v.at = "source"
  BY <1>1, <1>3, AnotherView DEF Preflight
<1> HIDE DEF v
<1>6. UnitInv([v EXCEPT !.at = "include"]) /\ UnitInv(Rejected(v, "source"))
  BY <1>5, PreflightGoesOn DEF Preflight
<1>7. \/ unit' = [unit EXCEPT ![t] = [v EXCEPT !.at = "include"]]
      \/ unit' = [unit EXCEPT ![t] = Rejected(v, "source")]
  BY <1>1, <1>4 DEF v
<1> QED
  BY <1>6, <1>7 DEF Becomes

LEMMA CheckIncludeKeeps ==
    ASSUME NEW t \in Thread, UnitInv(unit[t]), CheckInclude(t)
    PROVE  Becomes(t)
<1> DEFINE u == unit[t]
           v == [u EXCEPT !.at = "waiting", !.run = "producer"]
<1>1. /\ u.at = "include"
      /\ \/ unit' = [unit EXCEPT ![t] = v]
         \/ unit' = [unit EXCEPT ![t] = Rejected(u, "include")]
  BY DEF CheckInclude, Step
<1>2. /\ DOMAIN v = UnitFields /\ v.at = "waiting" /\ v.run = "producer"
      /\ v.request = u.request /\ v.wrapper = u.wrapper /\ v.view = u.view
      /\ v.replayed = u.replayed /\ v.measured = u.measured
      /\ Consumer(v) = Consumer(u) /\ Producer(v) = Producer(u)
  BY DEF UnitInv, Shape, UnitFields, Consumer, Producer
<1>3. /\ ~u.replayed /\ Climbed(u)
      /\ \A x \in Runs : u.measured[x] = NoMeasure
  BY <1>1 DEF UnitInv, Control, Early, Climbed, Preflight
<1> HIDE DEF v
<1>4. Shape(v) /\ Asked(v) /\ Verified(v) /\ Early(v) /\ Compared(v) /\ Finished(v)
  BY <1>1, <1>2, <1>3
     DEF UnitInv, Shape, Runs, Control, Asked, Verified, Early, Preflight,
         Compared, Finished
<1>5. UnitInv(v)
  BY <1>1, <1>2, <1>3, <1>4, Quiet DEF Control
<1>6. UnitInv(Rejected(u, "include"))
  BY <1>1, PreflightGoesOn DEF Preflight
<1> QED
  BY <1>1, <1>5, <1>6 DEF Becomes

-----------------------------------------------------------------------------
(* The driver phase.                                                       *)

LEMMA TakeDriverKeeps ==
    ASSUME NEW t \in Thread, UnitInv(unit[t]), TakeDriver(t)
    PROVE  Becomes(t)
<1> DEFINE u == unit[t]
           v == [u EXCEPT !.at = "driver"]
<1>1. u.at = "waiting" /\ unit' = [unit EXCEPT ![t] = v]
  BY DEF TakeDriver, Step
<1>2. GoneOn(u, v, "driver")
  BY GoesOn DEF UnitInv
<1> HIDE DEF v
<1>3. Asked(v) /\ Verified(v) /\ Early(v)
  BY <1>1, <1>2
     DEF UnitInv, Control, Asked, Verified, Climbed, Preflight, Early, GoneOn
<1>4. UnitInv(v)
  BY <1>1, <1>2, <1>3, MovesOn
<1> QED
  BY <1>1, <1>4 DEF Becomes

\* The snapshot grows at any time.
LEMMA ViewGrows ==
    ASSUME NEW u, UnitInv(u), NEW view, Grown(u.view, view)
    PROVE  UnitInv([u EXCEPT !.view = view])
<1> DEFINE v == [u EXCEPT !.view = view]
<1>1. /\ DOMAIN v = UnitFields /\ v.at = u.at /\ v.run = u.run
      /\ v.request = u.request /\ v.wrapper = u.wrapper /\ v.view = view
      /\ v.replayed = u.replayed /\ v.measured = u.measured
      /\ v.asks = u.asks /\ v.tried = u.tried
      /\ v.status = u.status /\ v.why = u.why
      /\ Consumer(v) = Consumer(u) /\ Producer(v) = Producer(u)
  BY DEF UnitInv, Shape, UnitFields, Consumer, Producer
<1> HIDE DEF v
<1>2. Shape(v)
  BY <1>1 DEF UnitInv, Shape, Grown
<1>3. Control(v)
  <2>1. Asked(v) /\ Verified(v)
    BY <1>1 DEF UnitInv, Control, Asked, Verified, Climbed
  <2>2. Early(v) /\ Compared(v)
    BY <1>1 DEF UnitInv, Control, Early, Compared
  <2>3. Finished(v)
    BY <1>1 DEF UnitInv, Control, Finished
  <2> QED
    BY <2>1, <2>2, <2>3 DEF Control
<1>4. \A x \in Runs : TextsKept(v.view, v.measured[x])
  BY <1>1, TextsStay DEF UnitInv
<1>5. ASSUME NEW x \in {"consumer", "final"}
      PROVE  RunIsTrue(v, x) /\ ParseIsTrue(v, x)
  <2>1. Parsing(v, x) = Parsing(u, x)
    BY <1>1 DEF Parsing
  <2>2. RunIsTrue(u, x) /\ ParseIsTrue(u, x) /\ Sound(u.view)
    BY DEF UnitInv, Shape
  <2>3. RunIsTrue(v, x)
    BY <1>1, <2>1, <2>2, MeasureStays DEF RunIsTrue
  <2>4. ParseIsTrue(v, x)
    BY <1>1, <2>1, <2>2, FrontEndStays DEF ParseIsTrue, RunIsTrue, MeasureIsTrue
  <2> QED
    BY <2>3, <2>4
<1>6. UnitInv(v)
  BY <1>2, <1>3, <1>4, <1>5 DEF UnitInv
<1> QED
  BY <1>6 DEF v

LEMMA ProbeKeeps ==
    ASSUME NEW t \in Thread, UnitInv(unit[t]), Probe(t)
    PROVE  Becomes(t)
<1> DEFINE u == unit[t]
<1>1. PICK p \in Probed :
        unit' = [unit EXCEPT ![t] = [u EXCEPT !.view = Status(u.view, disk, p).view]]
  BY DEF Probe, Step
<1> DEFINE view == Status(u.view, disk, p).view
<1>2. Grown(u.view, view)
  BY StatusGrown DEF UnitInv, Shape
<1> HIDE DEF view
<1>3. UnitInv([u EXCEPT !.view = view])
  BY <1>2, ViewGrows
<1> QED
  BY <1>1, <1>3 DEF Becomes, view

\* A run is measured anew: the others stay as they were.
Remeasured(u, v, m) ==
    /\ DOMAIN v = UnitFields /\ DOMAIN v.measured = Runs
    /\ v.request = u.request /\ v.run = u.run /\ v.wrapper = u.wrapper
    /\ v.view = u.view /\ v.replayed = u.replayed
    /\ v.measured[u.run] = m
    /\ \A x \in Runs \ {u.run} : v.measured[x] = u.measured[x]
    /\ Consumer(v) = Consumer(u) /\ Producer(v) = Producer(u)

\* While a run goes on nothing else of the unit's control changes.
LEMMA MeasuringKeepsControl ==
    ASSUME NEW u, UnitInv(u), u.at \in {"driver", "parse"},
           NEW v, NEW m, Remeasured(u, v, m), DOMAIN m = MeasureFields,
           v.at \in {"parse", "ran"}
    PROVE  Shape(v) /\ Control(v)
<1>1. Shape(v)
  BY DEF UnitInv, Shape, Remeasured
<1>2. Asked(v) /\ Verified(v)
  BY DEF UnitInv, Control, Asked, Verified, Climbed, Preflight, Remeasured
<1>3. Early(v)
  BY DEF UnitInv, Shape, Control, Early, Preflight, Remeasured, Runs
<1>4. Compared(v)
  BY DEF UnitInv, Shape, Control, Compared, Remeasured, Runs
<1>5. Finished(v)
  BY DEF Finished
<1> QED
  BY <1>1, <1>2, <1>3, <1>4, <1>5 DEF Control

LEMMA RunStep ==
    ASSUME NEW u, UnitInv(u), u.at \in {"driver", "parse"},
           NEW v, NEW m, Remeasured(u, v, m), DOMAIN m = MeasureFields,
           v.at \in {"parse", "ran"},
           TextsKept(u.view, m),
           u.run # "producer" =>
                /\ MeasureIsTrue(u.view, Consumer(u), u.wrapper, m, v.at = "parse")
                /\ v.at = "parse" => FrontEnd(u.view, Consumer(u), u.wrapper, m,
                                              v.asks, v.tried)
    PROVE  UnitInv(v)
<1>1. Shape(v) /\ Control(v)
  BY MeasuringKeepsControl
<1>2. ASSUME NEW x \in Runs
      PROVE  TextsKept(v.view, v.measured[x])
  BY DEF Remeasured, UnitInv
<1>3. ASSUME NEW x \in {"consumer", "final"}
      PROVE  RunIsTrue(v, x) /\ ParseIsTrue(v, x)
  <2>1. CASE x = u.run
    BY <2>1 DEF Remeasured, RunIsTrue, ParseIsTrue, Parsing
  <2>2. CASE x # u.run
    <3>1. Parsing(u, x) = FALSE /\ Parsing(v, x) = FALSE
      BY <2>2 DEF Parsing, Remeasured
    <3>2. v.measured[x] = u.measured[x]
      BY <2>2 DEF Remeasured, Runs
    <3> QED
      BY <3>1, <3>2 DEF UnitInv, Remeasured, RunIsTrue, ParseIsTrue
  <2> QED
    BY <2>1, <2>2
<1> QED
  BY <1>1, <1>2, <1>3 DEF UnitInv

LEMMA DriverFailsKeeps ==
    ASSUME NEW t \in Thread, UnitInv(unit[t]), DriverFails(t)
    PROVE  Becomes(t)
<1> DEFINE u == unit[t]
           m == [NoMeasure EXCEPT !.errors = TRUE]
           v == [u EXCEPT !.at = "ran", !.measured[u.run] = m]
<1>1. u.at = "driver" /\ unit' = [unit EXCEPT ![t] = v]
  BY DEF DriverFails, Step
<1>2. /\ DOMAIN m = MeasureFields /\ ~m.entered /\ m.texts = <<>>
  BY DEF NoMeasure, MeasureFields
<1> HIDE DEF m
<1>3. Remeasured(u, v, m) /\ v.at = "ran"
  BY DEF UnitInv, Shape, UnitFields, Remeasured, Consumer, Producer
<1> HIDE DEF v
<1>4. TextsKept(u.view, m)
  BY <1>2, ShortSequences DEF TextsKept
<1>5. MeasureIsTrue(u.view, Consumer(u), u.wrapper, m, v.at = "parse")
  BY <1>2, <1>3 DEF MeasureIsTrue
<1>6. UnitInv(v)
  BY <1>1, <1>2, <1>3, <1>4, <1>5, RunStep
<1> QED
  BY <1>1, <1>6 DEF Becomes

LEMMA ReachActionKeeps ==
    ASSUME NEW t \in Thread, UnitInv(unit[t]), ReachAction(t)
    PROVE  Becomes(t)
<1> DEFINE u == unit[t]
           c == Consumer(u)
           m == [NoMeasure EXCEPT !.macros = CommandOf(u).macros]
           v == [u EXCEPT !.at = "parse", !.asks = Entries(u), !.tried = 0,
                          !.measured[u.run] = m]
           f == [u EXCEPT !.at = "finish"]
<1>1. /\ u.at = "driver"
      /\ unit' = [unit EXCEPT ![t] = IF Replays(u) THEN v ELSE f]
  BY DEF ReachAction, Step
<1>2. UnitInv(f)
  <2>1. GoneOn(u, f, "finish")
    BY GoesOn DEF UnitInv
  <2> HIDE DEF f
  <2>2. Asked(f) /\ Verified(f) /\ Early(f)
    BY <1>1, <2>1
       DEF UnitInv, Control, Asked, Verified, Climbed, Preflight, Early, GoneOn
  <2> QED
    BY <1>1, <2>1, <2>2, MovesOn
<1> HIDE DEF f
<1>3. UnitInv(v)
  <2>1. /\ DOMAIN m = MeasureFields /\ ~m.entered /\ m.texts = <<>>
        /\ ~m.boundary /\ m.looked = <<>> /\ m.before = <<>>
        /\ m.macros = CommandOf(u).macros
    BY DEF NoMeasure, MeasureFields
  <2> HIDE DEF m
  <2>2. /\ Remeasured(u, v, m) /\ v.at = "parse"
        /\ v.asks = Entries(u) /\ v.tried = 0
    BY DEF UnitInv, Shape, UnitFields, Remeasured, Consumer, Producer
  <2> HIDE DEF v
  <2>3. TextsKept(u.view, m)
    BY <2>1, ShortSequences DEF TextsKept
  <2>4. ASSUME u.run # "producer"
        PROVE  /\ MeasureIsTrue(u.view, c, u.wrapper, m, v.at = "parse")
               /\ FrontEnd(u.view, c, u.wrapper, m, v.asks, v.tried)
    <3>1. v.asks = Named(c) /\ m.macros = c.macros
      BY <2>1, <2>2, <2>4 DEF Entries, CommandOf, Named
    <3>2. Named(c) \in Seq(DOMAIN c.search)
      BY <1>1, NamedTyped DEF UnitInv, Control, Asked, CommandIsProper
    <3>3. Len(Named(c)) \in Nat /\ Len(m.before) = 0 /\ 1..0 = {} /\ 0..(0-1) = {}
      BY <2>1, <3>2, ShortSequences
    <3>4. ReadBefore(u.view, c, m)
      BY <2>1, <3>1, <3>3, ShortSequences, MacrosBegin DEF ReadBefore
    <3>5. Searching(u.view, c, v.asks, v.tried)
      BY <2>2, <3>3 DEF Searching
    <3>6. FrontEnd(u.view, c, u.wrapper, m, v.asks, v.tried)
      BY <2>1, <2>2, <3>1, <3>2, <3>3, <3>5 DEF FrontEnd
    <3>7. MeasureIsTrue(u.view, c, u.wrapper, m, v.at = "parse")
      BY <2>1, <3>4 DEF MeasureIsTrue
    <3> QED
      BY <3>6, <3>7
  <2> QED
    BY <1>1, <2>1, <2>2, <2>3, <2>4, RunStep
<1> HIDE DEF v
<1> QED
  BY <1>1, <1>2, <1>3 DEF Becomes

-----------------------------------------------------------------------------
(* The parse, one place at a time.                                         *)

\* Nothing is left to look up, and the wrapper was not entered.
LEMMA ParseEnds ==
    ASSUME NEW u, UnitInv(u), u.at = "parse", u.asks = <<>>
    PROVE  UnitInv([u EXCEPT !.at = "ran"])
<1> DEFINE v == [u EXCEPT !.at = "ran"]
           m == u.measured[u.run]
<1>1. Remeasured(u, v, m) /\ v.at = "ran"
  BY DEF UnitInv, Shape, UnitFields, Remeasured, Consumer, Producer
<1> HIDE DEF v
<1>2. DOMAIN m = MeasureFields /\ TextsKept(u.view, m)
  BY DEF UnitInv, Shape
<1>3. ASSUME u.run # "producer"
      PROVE  MeasureIsTrue(u.view, Consumer(u), u.wrapper, m, v.at = "parse")
  <2>1. u.run \in {"consumer", "final"} /\ Parsing(u, u.run)
    BY <1>3 DEF UnitInv, Shape, Runs, Parsing
  <2>2. FrontEnd(u.view, Consumer(u), u.wrapper, m, u.asks, u.tried)
    BY <2>1 DEF UnitInv, ParseIsTrue
  <2>3. \A x : <<x>> # <<>>
    BY ShortSequences
  <2>4. ~m.entered
    BY <2>2, <2>3 DEF FrontEnd
  <2> QED
    BY <1>1, <2>4 DEF MeasureIsTrue
<1>4. UnitInv(v)
  BY <1>1, <1>2, <1>3, RunStep
<1> QED
  BY <1>4 DEF v

\* What the invariant says of a parse of the consumer.
LEMMA InParse ==
    ASSUME NEW u, UnitInv(u), u.at = "parse", u.run # "producer"
    PROVE  LET m == u.measured[u.run]
               c == Consumer(u)
           IN  /\ ReadBefore(u.view, c, m)
               /\ m.entered => ReadWrapper(u.view, c, u.wrapper, m)
               /\ FrontEnd(u.view, c, u.wrapper, m, u.asks, u.tried)
               /\ Searchable(c)
<1>1. u.run \in {"consumer", "final"} /\ Parsing(u, u.run)
  BY DEF UnitInv, Shape, Runs, Parsing
<1>2. Searchable(Consumer(u))
  BY DEF UnitInv, Control, Asked, CommandIsProper
<1> QED
  BY <1>1, <1>2 DEF UnitInv, RunIsTrue, ParseIsTrue, MeasureIsTrue

\* No place has the header: an error, or the answer the wrapper asked for.
LEMMA FoundNowhereKeeps ==
    ASSUME NEW u, UnitInv(u), u.at = "parse", u.asks # <<>>,
           u.tried = Len(CommandOf(u).search[Head(u.asks)])
    PROVE  UnitInv(FoundNowhere(u))
<1> DEFINE m == u.measured[u.run]
           c == Consumer(u)
           asked == m.entered /\ Meaning[m.texts[1]].kind = "probe"
           n == [m EXCEPT !.errors = ~asked, !.boundary = asked,
                          !.looked = Append(@, Absent)]
           v == FoundNowhere(u)
<1>1. DOMAIN m = MeasureFields /\ TextsKept(u.view, m)
  BY DEF UnitInv, Shape
<1> HIDE DEF m
<1>2. /\ DOMAIN n = MeasureFields /\ n.entered = m.entered
      /\ n.before = m.before /\ n.macros = m.macros /\ n.texts = m.texts
      /\ n.boundary = asked /\ n.looked = Append(m.looked, Absent)
  BY <1>1 DEF MeasureFields
<1>3. v = Note(u, n, "ran")
  BY DEF FoundNowhere, m
<1> HIDE DEF v, n, asked
<1>4. Remeasured(u, v, n) /\ v.at = "ran"
  BY <1>3 DEF Note, UnitInv, Shape, UnitFields, Remeasured, Consumer, Producer
<1>5. TextsKept(u.view, n)
  BY <1>1, <1>2 DEF TextsKept
<1>6. ASSUME u.run # "producer"
      PROVE  MeasureIsTrue(u.view, c, u.wrapper, n, FALSE)
  <2>1. /\ m.entered => ReadBefore(u.view, c, m)
        /\ m.entered => ReadWrapper(u.view, c, u.wrapper, m)
        /\ FrontEnd(u.view, c, u.wrapper, m, u.asks, u.tried)
    BY <1>6, InParse DEF m
  <2>2. CASE ~m.entered
    BY <1>2, <2>2 DEF MeasureIsTrue
  <2>3. CASE m.entered
    <3> DEFINE s == u.view
               w == u.wrapper
    <3>1. /\ Wants(s, w).kind \in {"search", "probe"}
          /\ m.texts = <<AnswerOf(s, w)>> /\ u.asks = <<Wants(s, w).name>>
          /\ m.looked = <<>>
      BY <2>1, <2>3 DEF FrontEnd
    <3>2. Head(u.asks) = Wants(s, w).name /\ m.texts[1] = AnswerOf(s, w)
      BY <3>1
    <3>3. u.tried = Len(Wanted(s, c, w))
      BY <1>6, <3>2 DEF CommandOf, Wanted
    <3>4. Nowhere(s, Wanted(s, c, w))
      BY <2>1, <3>2, <3>3 DEF FrontEnd, Searching, Nowhere, Wanted
    <3>5. asked = (Wants(s, w).kind = "probe")
      BY <2>3, <3>2 DEF asked, Wants
    <3>6. n.looked = <<Absent>>
      BY <1>2, <3>1
    <3>7. ReadBefore(s, c, n) /\ ReadWrapper(s, c, w, n)
      BY <1>2, <2>1, <2>3 DEF ReadBefore, ReadWrapper
    <3>8. CASE Wants(s, w).kind = "probe"
      <4>1. n.boundary /\ Answer(s, c, w, n.looked, n.texts)
        BY <1>2, <3>1, <3>4, <3>5, <3>6, <3>8 DEF Answer
      <4> QED
        BY <3>7, <4>1 DEF MeasureIsTrue
    <3>9. CASE Wants(s, w).kind = "search"
      <4>1. ~n.boundary /\ Unanswered(s, c, w)
        BY <1>2, <3>4, <3>5, <3>9 DEF Unanswered
      <4> QED
        BY <3>7, <4>1 DEF MeasureIsTrue
    <3> QED
      BY <3>1, <3>8, <3>9
  <2> QED
    BY <2>2, <2>3
<1>7. UnitInv(v)
  BY <1>2, <1>4, <1>5, <1>6, RunStep DEF MeasureIsTrue
<1> QED
  BY <1>7 DEF v

\* The place looked at next, and what the snapshot answers of it.
At(u, p) ==
    LET places == CommandOf(u).search[Head(u.asks)]
    IN  /\ u.at = "parse" /\ u.asks # <<>>
        /\ p = places[u.tried + 1]
        /\ u.tried # Len(places)
        /\ Known(u.view, p)

LEMMA NotThere ==
    ASSUME NEW u, UnitInv(u), NEW p, At(u, p), AnswerOf(u.view, p) = Absent
    PROVE  UnitInv([u EXCEPT !.tried = u.tried + 1])
<1> DEFINE v == [u EXCEPT !.tried = u.tried + 1]
           m == u.measured[u.run]
           c == Consumer(u)
<1>1. /\ Remeasured(u, v, m) /\ v.at = "parse" /\ v.asks = u.asks
      /\ v.tried = u.tried + 1
  BY DEF At, UnitInv, Shape, UnitFields, Remeasured, Consumer, Producer
<1> HIDE DEF v
<1>2. DOMAIN m = MeasureFields /\ TextsKept(u.view, m)
  BY DEF UnitInv, Shape
<1>3. ASSUME u.run # "producer"
      PROVE  /\ MeasureIsTrue(u.view, c, u.wrapper, m, TRUE)
             /\ FrontEnd(u.view, c, u.wrapper, m, v.asks, v.tried)
  <2>1. /\ ReadBefore(u.view, c, m)
        /\ m.entered => ReadWrapper(u.view, c, u.wrapper, m)
        /\ FrontEnd(u.view, c, u.wrapper, m, u.asks, u.tried)
    BY <1>3, InParse DEF At
  <2> DEFINE places == c.search[Head(u.asks)]
  <2>2. /\ u.tried \in Nat
        /\ \A j \in 1..u.tried : Missing(u.view, places[j])
        /\ \A j \in 0..(u.tried - 1) : j # Len(places)
    BY <2>1 DEF FrontEnd, Searching, At
  <2>3. p = places[u.tried + 1] /\ u.tried # Len(places)
    BY <1>3 DEF At, CommandOf
  <2> HIDE DEF places
  <2>4. Missing(u.view, p)
    BY DEF Missing, At
  <2>5. \A j \in 1..(u.tried + 1) : j \in 1..u.tried \/ j = u.tried + 1
    BY <2>2
  <2>6. \A j \in 1..v.tried : Missing(u.view, places[j])
    BY <1>1, <2>2, <2>3, <2>4, <2>5
  <2>7. \A j \in 0..(v.tried - 1) : j # Len(places)
    BY <1>1, <2>2, <2>3
  <2>8. Searching(u.view, c, v.asks, v.tried)
    BY <1>1, <2>6, <2>7 DEF Searching, places
  <2>9. FrontEnd(u.view, c, u.wrapper, m, v.asks, v.tried)
    <3> HIDE DEF m, c
    <3>1. v.tried \in Nat
      BY <1>1, <2>2
    <3> QED
      BY <1>1, <2>1, <2>8, <3>1 DEF FrontEnd
  <2>10. ~m.boundary
    BY <2>1 DEF FrontEnd
  <2> QED
    BY <2>1, <2>9, <2>10 DEF MeasureIsTrue
<1>4. UnitInv(v)
  BY <1>1, <1>2, <1>3, RunStep DEF MeasureIsTrue, At
<1> QED
  BY <1>4 DEF v

LEMMA SearchHits ==
    ASSUME NEW u, UnitInv(u), NEW p, At(u, p), AnswerOf(u.view, p) # Absent,
           u.run # "producer"
    PROVE  Hit(u.view, Consumer(u).search[Head(u.asks)], u.tried + 1)
<1> DEFINE places == Consumer(u).search[Head(u.asks)]
<1>1. FrontEnd(u.view, Consumer(u), u.wrapper, u.measured[u.run], u.asks, u.tried)
  BY InParse DEF At
<1>2. /\ u.tried \in Nat
      /\ \A j \in 1..u.tried : Missing(u.view, places[j])
      /\ \A j \in 0..(u.tried - 1) : j # Len(places)
  BY <1>1 DEF FrontEnd, Searching, At
<1>3. p = places[u.tried + 1] /\ u.tried # Len(places)
  BY DEF At, CommandOf
<1> HIDE DEF places
<1>4. \A j \in 0..((u.tried + 1) - 1) : j # Len(places)
  BY <1>2, <1>3
<1>5. (u.tried + 1) - 1 = u.tried /\ u.tried + 1 \in Nat \ {0}
  BY <1>2
<1> QED
  BY <1>2, <1>3, <1>4, <1>5 DEF Hit, places

\* A header before the wrapper: only its text's macros are kept.
LEMMA PassedKeeps ==
    ASSUME NEW u, UnitInv(u), NEW p, At(u, p), AnswerOf(u.view, p) # Absent,
           ~u.measured[u.run].entered
    PROVE  UnitInv(Passed([u EXCEPT !.tried = u.tried + 1],
                          [u.measured[u.run] EXCEPT !.top = Append(@, p)],
                          AnswerOf(u.view, p)))
<1> DEFINE m == u.measured[u.run]
           c == Consumer(u)
           s == u.view
           text == AnswerOf(u.view, p)
           seen == [m EXCEPT !.top = Append(@, p)]
           n == [seen EXCEPT !.before = Append(@, text),
                     !.macros = IF Meaning[text].kind = "defines"
                                THEN Append(@, text) ELSE @]
           w == [u EXCEPT !.tried = u.tried + 1]
           v == Passed(w, seen, text)
<1>1. DOMAIN m = MeasureFields /\ TextsKept(u.view, m)
  BY DEF UnitInv, Shape
<1> HIDE DEF m, text
<1>2. /\ DOMAIN n = MeasureFields /\ n.entered = m.entered
      /\ n.before = Append(m.before, text)
      /\ n.macros = Defining(m.macros, text)
      /\ n.texts = m.texts /\ n.boundary = m.boundary /\ n.looked = m.looked
  BY <1>1 DEF MeasureFields, Defining
<1>3. v = [Note(w, n, "parse") EXCEPT !.asks = Tail(@), !.tried = 0]
  BY DEF Passed
<1> HIDE DEF v, n, seen
<1>4. /\ Remeasured(u, v, n) /\ v.at = "parse"
      /\ v.asks = Tail(u.asks) /\ v.tried = 0
  BY <1>3 DEF Note, UnitInv, Shape, UnitFields, Remeasured, Consumer, Producer
<1> HIDE DEF w
<1>5. TextsKept(s, n)
  BY <1>1, <1>2 DEF TextsKept
<1>6. ASSUME u.run # "producer"
      PROVE  /\ MeasureIsTrue(s, c, u.wrapper, n, TRUE)
             /\ FrontEnd(s, c, u.wrapper, n, v.asks, v.tried)
  <2>1. /\ ReadBefore(s, c, m) /\ Searchable(c)
        /\ FrontEnd(s, c, u.wrapper, m, u.asks, u.tried)
    BY <1>6, InParse DEF At, m
  <2>2. Hit(s, c.search[Head(u.asks)], u.tried + 1)
    BY <1>6, SearchHits
  <2>3. p = c.search[Head(u.asks)][u.tried + 1] /\ u.asks # <<>>
    BY <1>6 DEF At, CommandOf
  <2> HIDE DEF c, s
  <2> DEFINE k == Len(m.before)
             D == DOMAIN c.search
  <2>4. /\ k \in Nat /\ k <= Len(Named(c)) /\ IsSeq(m.before)
        /\ Len(n.before) = k + 1 /\ n.before[k + 1] = text /\ IsSeq(n.before)
        /\ \A i \in 1..k : n.before[i] = m.before[i]
    BY <1>2, <2>1, Appended DEF ReadBefore
  <2>5. /\ u.asks \in Seq(D) /\ Len(u.asks) = Len(Named(c)) - k
        /\ \A i \in 1..Len(u.asks) : u.asks[i] = Named(c)[k + i]
        /\ ~m.entered /\ ~m.boundary /\ m.looked = <<>>
    BY <2>1 DEF FrontEnd, m
  <2>6. Named(c) \in Seq(D)
    BY <2>1, NamedTyped
  <2> HIDE DEF k, D
  <2>7. /\ Len(Named(c)) \in Nat /\ Len(u.asks) \in Nat \ {0}
        /\ k + 1 <= Len(Named(c))
        /\ Head(u.asks) = Named(c)[k + 1]
    BY <2>3, <2>4, <2>5, <2>6
  <2>8. text = AnswerOf(s, p)
    BY DEF text, s
  <2>9. FoundAs(s, c.search[Named(c)[k + 1]], text)
    BY <2>2, <2>3, <2>7, <2>8 DEF FoundAs
  <2>10. \A i \in 1..(k + 1) : i \in 1..k \/ i = k + 1
    BY <2>4
  <2>11. \A i \in 1..k : FoundAs(s, c.search[Named(c)[i]], m.before[i])
    BY <2>1 DEF ReadBefore, k
  <2>12. \A i \in 1..(k + 1) : FoundAs(s, c.search[Named(c)[i]], n.before[i])
    BY <2>4, <2>9, <2>10, <2>11
  <2>13. MacrosAfter(c, n.before, n.macros)
    BY <1>2, <2>1, MacrosGoOn DEF ReadBefore
  <2>14. ReadBefore(s, c, n)
    BY <2>4, <2>7, <2>12, <2>13 DEF ReadBefore
  <2>15. /\ Tail(u.asks) \in Seq(D)
         /\ Len(Tail(u.asks)) = Len(Named(c)) - (k + 1)
         /\ \A i \in 1..Len(Tail(u.asks)) :
                Tail(u.asks)[i] = Named(c)[(k + 1) + i]
    <3>1. /\ Tail(u.asks) \in Seq(D) /\ Len(Tail(u.asks)) = Len(u.asks) - 1
          /\ \A i \in 1..(Len(u.asks) - 1) : Tail(u.asks)[i] = u.asks[i + 1]
      BY <2>3, <2>5
    <3>2. Len(Tail(u.asks)) = Len(Named(c)) - (k + 1)
      BY <2>4, <2>5, <2>7, <3>1
    <3>3. ASSUME NEW i \in 1..(Len(u.asks) - 1)
          PROVE  Tail(u.asks)[i] = Named(c)[(k + 1) + i]
      <4>1. i + 1 \in 1..Len(u.asks) /\ k + (i + 1) = (k + 1) + i
        BY <2>4, <2>7
      <4> QED
        BY <2>5, <3>1, <4>1
    <3> QED
      BY <3>1, <3>2, <3>3
  <2>16. Searching(s, c, v.asks, v.tried)
    BY <1>4 DEF Searching
  <2>17. FrontEnd(s, c, u.wrapper, n, v.asks, v.tried)
    BY <1>2, <1>4, <2>4, <2>5, <2>15, <2>16 DEF FrontEnd, D
  <2> QED
    BY <1>2, <2>5, <2>14, <2>17 DEF MeasureIsTrue
<1>7. UnitInv(v)
  BY <1>2, <1>4, <1>5, <1>6, RunStep DEF At
<1> QED
  BY <1>7 DEF v, w, seen, m, text

\* The wrapper: what it reads from here on is compared.
LEMMA EnteredKeeps ==
    ASSUME NEW u, UnitInv(u), NEW p, At(u, p), AnswerOf(u.view, p) # Absent,
           ~u.measured[u.run].entered, p = u.wrapper
    PROVE  UnitInv(Entered([u EXCEPT !.tried = u.tried + 1],
                           [u.measured[u.run] EXCEPT !.top = Append(@, p)],
                           AnswerOf(u.view, p)))
<1> DEFINE m == u.measured[u.run]
           c == Consumer(u)
           s == u.view
           text == AnswerOf(u.view, p)
           seen == [m EXCEPT !.top = Append(@, p)]
           in == [seen EXCEPT !.entered = TRUE, !.texts = <<text>>]
           closed == [in EXCEPT !.boundary = TRUE]
           w == [u EXCEPT !.tried = u.tried + 1]
           more == Meaning[text].kind \in {"search", "probe"}
           opens == [Note(w, in, "parse") EXCEPT
                        !.asks = <<Meaning[text].name>>, !.tried = 0]
           closes == Note(w, closed, "ran")
           v == Entered(w, seen, text)
<1>1. DOMAIN m = MeasureFields /\ TextsKept(u.view, m)
  BY DEF UnitInv, Shape
<1>2. text \in Texts(s)
  BY AnswersAreTexts DEF UnitInv, Shape
<1> HIDE DEF m, text
<1>3. /\ DOMAIN in = MeasureFields /\ in.entered /\ in.texts = <<text>>
      /\ in.before = m.before /\ in.macros = m.macros
      /\ in.boundary = m.boundary /\ in.looked = m.looked
  BY <1>1 DEF MeasureFields
<1> HIDE DEF in, seen
<1>4. /\ DOMAIN closed = MeasureFields /\ closed.entered /\ closed.boundary
      /\ closed.texts = <<text>>
      /\ closed.before = m.before /\ closed.macros = m.macros
      /\ closed.looked = m.looked
  BY <1>3 DEF MeasureFields
<1> HIDE DEF closed
<1>5. /\ Remeasured(u, opens, in) /\ opens.at = "parse"
      /\ opens.asks = <<Meaning[text].name>> /\ opens.tried = 0
  BY DEF Note, UnitInv, Shape, UnitFields, Remeasured, Consumer, Producer
<1>6. Remeasured(u, closes, closed) /\ closes.at = "ran"
  BY DEF Note, UnitInv, Shape, UnitFields, Remeasured, Consumer, Producer
<1>7. v = IF more THEN opens ELSE closes
  BY DEF Entered, closed, in
<1> HIDE DEF opens, closes, v, w
<1>8. TextsKept(s, in) /\ TextsKept(s, closed)
  <2>1. \A i \in 1..Len(<<text>>) : <<text>>[i] = text
    OBVIOUS
  <2> QED
    BY <1>2, <1>3, <1>4, <2>1, ShortSequences DEF TextsKept
<1>9. ASSUME u.run # "producer"
      PROVE  /\ \A x \in {in, closed} :
                    ReadBefore(s, c, x) /\ ReadWrapper(s, c, u.wrapper, x)
             /\ ~m.boundary /\ m.looked = <<>>
             /\ text = AnswerOf(s, u.wrapper)
  <2>1. /\ ReadBefore(s, c, m) /\ Searchable(c)
        /\ FrontEnd(s, c, u.wrapper, m, u.asks, u.tried)
    BY <1>9, InParse DEF At, m
  <2>2. Hit(s, c.search[Head(u.asks)], u.tried + 1)
    BY <1>9, SearchHits
  <2>3. p = c.search[Head(u.asks)][u.tried + 1] /\ u.asks # <<>>
    BY <1>9 DEF At, CommandOf
  <2>4. text = AnswerOf(s, u.wrapper)
    BY DEF text, s
  <2> HIDE DEF c, s
  <2> DEFINE k == Len(m.before)
             D == DOMAIN c.search
  <2>5. /\ u.asks \in Seq(D) /\ Len(u.asks) = Len(Named(c)) - k
        /\ \A i \in 1..Len(u.asks) : u.asks[i] = Named(c)[k + i]
        /\ ~m.boundary /\ m.looked = <<>>
    BY <2>1 DEF FrontEnd, m
  <2>6. Named(c) \in Seq(D) /\ k \in Nat
    BY <2>1, NamedTyped, Appended DEF ReadBefore
  <2> HIDE DEF k, D
  <2>7. k < Len(Named(c)) /\ Head(u.asks) = Named(c)[k + 1]
    BY <2>3, <2>5, <2>6
  <2>8. FoundIn(s, c.search[Named(c)[k + 1]], u.wrapper)
    BY <2>2, <2>3, <2>7 DEF FoundIn
  <2>9. ASSUME NEW x, x.before = m.before, x.macros = m.macros
        PROVE  ReadBefore(s, c, x) /\ ReadWrapper(s, c, u.wrapper, x)
    BY <2>1, <2>7, <2>8, <2>9 DEF ReadBefore, ReadWrapper, k
  <2> QED
    BY <1>3, <1>4, <2>4, <2>5, <2>9
<1>10. ASSUME more
       PROVE  UnitInv(opens)
  <2>1. ASSUME u.run # "producer"
        PROVE  /\ MeasureIsTrue(s, c, u.wrapper, in, TRUE)
               /\ FrontEnd(s, c, u.wrapper, in, opens.asks, opens.tried)
    <3>1. MeasureIsTrue(s, c, u.wrapper, in, TRUE)
      BY <1>3, <1>9, <2>1 DEF MeasureIsTrue
    <3>2. Searching(s, c, opens.asks, opens.tried)
      BY <1>5 DEF Searching
    <3>3. Wants(s, u.wrapper) = Meaning[text]
      BY <1>9, <2>1 DEF Wants
    <3>4. FrontEnd(s, c, u.wrapper, in, opens.asks, opens.tried)
      BY <1>3, <1>5, <1>9, <1>10, <2>1, <3>2, <3>3 DEF FrontEnd
    <3> QED
      BY <3>1, <3>4
  <2> QED
    BY <1>3, <1>5, <1>8, <2>1, RunStep DEF At
<1>11. ASSUME ~more
       PROVE  UnitInv(closes)
  <2>1. ASSUME u.run # "producer"
        PROVE  MeasureIsTrue(s, c, u.wrapper, closed, FALSE)
    <3>1. Wants(s, u.wrapper) = Meaning[text]
      BY <1>9, <2>1 DEF Wants
    <3>2. Answer(s, c, u.wrapper, closed.looked, closed.texts)
      BY <1>4, <1>9, <1>11, <2>1, <3>1 DEF Answer
    <3> QED
      BY <1>4, <1>9, <2>1, <3>2 DEF MeasureIsTrue
  <2> QED
    BY <1>4, <1>6, <1>8, <2>1, RunStep DEF At, MeasureIsTrue
<1>12. UnitInv(v)
  BY <1>7, <1>10, <1>11
<1> QED
  BY <1>12 DEF v, w, seen, m, text

\* What the wrapper asks for is there.
LEMMA AnsweredKeeps ==
    ASSUME NEW u, UnitInv(u), NEW p, At(u, p), AnswerOf(u.view, p) # Absent,
           u.measured[u.run].entered
    PROVE  UnitInv(Answered([u EXCEPT !.tried = u.tried + 1],
                            u.measured[u.run], p, AnswerOf(u.view, p)))
<1> DEFINE m == u.measured[u.run]
           c == Consumer(u)
           s == u.view
           text == AnswerOf(u.view, p)
           enters == Meaning[m.texts[1]].kind = "search"
           n == [m EXCEPT !.boundary = TRUE, !.looked = Append(@, p),
                          !.texts = IF enters THEN Append(@, text) ELSE @]
           w == [u EXCEPT !.tried = u.tried + 1]
           v == Answered(w, m, p, text)
<1>1. DOMAIN m = MeasureFields /\ TextsKept(s, m)
  BY DEF UnitInv, Shape
<1>2. text \in Texts(s)
  BY AnswersAreTexts DEF UnitInv, Shape
<1> HIDE DEF m, text, enters
<1>3. /\ DOMAIN n = MeasureFields /\ n.entered = m.entered /\ n.boundary
      /\ n.looked = Append(m.looked, p)
      /\ n.texts = IF enters THEN Append(m.texts, text) ELSE m.texts
      /\ n.before = m.before /\ n.macros = m.macros
  BY <1>1 DEF MeasureFields
<1>4. v = Note(w, n, "ran")
  BY DEF Answered, enters
<1> HIDE DEF v, n
<1>5. Remeasured(u, v, n) /\ v.at = "ran"
  BY <1>4 DEF Note, UnitInv, Shape, UnitFields, Remeasured, Consumer, Producer
<1> HIDE DEF w
<1>6. TextsKept(s, n)
  <2>1. CASE enters
    <3> DEFINE k == Len(m.texts)
    <3>1. /\ k \in Nat /\ Len(n.texts) = k + 1 /\ IsSeq(n.texts)
          /\ n.texts[k + 1] = text
          /\ \A i \in 1..k : n.texts[i] = m.texts[i]
      BY <1>1, <1>3, <2>1, Appended DEF TextsKept
    <3>2. \A i \in 1..k : m.texts[i] \in Texts(s)
      BY <1>1 DEF TextsKept
    <3> HIDE DEF k
    <3>3. \A i \in 1..(k + 1) : i \in 1..k \/ i = k + 1
      BY <3>1
    <3> HIDE DEF s
    <3> QED
      BY <1>2, <3>1, <3>2, <3>3 DEF TextsKept
  <2>2. CASE ~enters
    BY <1>1, <1>3, <2>2 DEF TextsKept
  <2> QED
    BY <2>1, <2>2
<1>7. ASSUME u.run # "producer"
      PROVE  MeasureIsTrue(s, c, u.wrapper, n, FALSE)
  <2> DEFINE x == u.wrapper
             k == u.tried + 1
  <2>1. /\ ReadBefore(s, c, m) /\ ReadWrapper(s, c, x, m)
        /\ FrontEnd(s, c, x, m, u.asks, u.tried)
    BY <1>7, InParse DEF At, m
  <2>2. Hit(s, c.search[Head(u.asks)], k) /\ p = c.search[Head(u.asks)][k]
    BY <1>7, SearchHits DEF At, CommandOf
  <2>3. text = AnswerOf(s, p)
    BY DEF text
  <2> HIDE DEF c, s, x, k
  <2>4. /\ Wants(s, x).kind \in {"search", "probe"} /\ m.looked = <<>>
        /\ m.texts = <<AnswerOf(s, x)>> /\ u.asks = <<Wants(s, x).name>>
    BY <2>1 DEF FrontEnd, m
  <2>5. Head(u.asks) = Wants(s, x).name /\ m.texts[1] = AnswerOf(s, x)
    BY <2>4
  <2>6. Hit(s, Wanted(s, c, x), k) /\ p = Wanted(s, c, x)[k]
    BY <2>2, <2>5 DEF Wanted
  <2>7. enters = (Wants(s, x).kind = "search")
    BY <2>5 DEF enters, Wants
  <2>8. n.looked = <<p>>
    BY <1>3, <2>4
  <2>9. Answer(s, c, x, n.looked, n.texts)
    <3>1. CASE Wants(s, x).kind = "search"
      <4>1. n.texts = Append(<<AnswerOf(s, x)>>, text)
        BY <1>3, <2>4, <2>7, <3>1
      <4>3. n.texts = <<AnswerOf(s, x), text>>
        BY <4>1, Paired
      <4> QED
        BY <2>3, <2>6, <2>8, <3>1, <4>3 DEF Answer
    <3>2. CASE Wants(s, x).kind = "probe"
      <4>1. n.texts = <<AnswerOf(s, x)>>
        BY <1>3, <2>4, <2>7, <3>2
      <4> QED
        BY <2>6, <2>8, <3>2, <4>1 DEF Answer
    <3> QED
      BY <2>4, <3>1, <3>2
  <2>10. ReadBefore(s, c, n) /\ ReadWrapper(s, c, x, n)
    BY <1>3, <2>1 DEF ReadBefore, ReadWrapper
  <2>11. MeasureIsTrue(s, c, x, n, FALSE)
    BY <1>3, <2>9, <2>10 DEF MeasureIsTrue
  <2> QED
    BY <2>11 DEF c, s, x
<1>8. UnitInv(v)
  BY <1>3, <1>5, <1>6, <1>7, RunStep DEF At, MeasureIsTrue
<1> QED
  BY <1>8 DEF v, w, m, text

\* One look at one place: the snapshot grows, and then the parse goes on.
LEMMA LookUpKeeps ==
    ASSUME NEW t \in Thread, UnitInv(unit[t]), LookUp(t)
    PROVE  Becomes(t)
<1> DEFINE u == unit[t]
           places == CommandOf(u).search[Head(u.asks)]
           p == places[u.tried + 1]
           view == Open(u.view, disk, p)
           text == AnswerOf(view, p)
           g == [u EXCEPT !.view = view]
           w == [u EXCEPT !.view = view, !.tried = @ + 1]
           m == u.measured[u.run]
           seen == [m EXCEPT !.top = Append(@, p)]
<1>1. u.at = "parse"
  BY DEF LookUp
<1>2. CASE u.asks = <<>>
  <2>1. unit' = [unit EXCEPT ![t] = [u EXCEPT !.at = "ran"]]
    BY <1>2 DEF LookUp, Step
  <2>2. UnitInv([u EXCEPT !.at = "ran"])
    BY <1>1, <1>2, ParseEnds
  <2> QED
    BY <2>1, <2>2 DEF Becomes
<1>3. CASE u.asks # <<>> /\ u.tried = Len(places)
  <2>1. unit' = [unit EXCEPT ![t] = FoundNowhere(u)]
    BY <1>3 DEF LookUp, Step
  <2>2. UnitInv(FoundNowhere(u))
    BY <1>1, <1>3, FoundNowhereKeeps
  <2> QED
    BY <2>1, <2>2 DEF Becomes
<1>4. CASE u.asks # <<>> /\ u.tried # Len(places)
  <2>1. unit' = [unit EXCEPT ![t] = IF text = Absent THEN w ELSE FoundAt(w, p, text)]
    BY <1>4 DEF LookUp, Step
  <2>2. Grown(u.view, view) /\ Known(view, p)
    BY OpenGrown DEF UnitInv, Shape
  <2> HIDE DEF view
  <2>3. UnitInv(g)
    BY <2>2, ViewGrows
  <2>4. /\ g.view = view /\ g.at = u.at /\ g.asks = u.asks /\ g.tried = u.tried
        /\ g.run = u.run /\ g.measured = u.measured /\ g.wrapper = u.wrapper
        /\ CommandOf(g) = CommandOf(u)
        /\ w = [g EXCEPT !.tried = g.tried + 1]
        /\ w.measured = u.measured /\ w.run = u.run /\ w.wrapper = u.wrapper
    BY DEF UnitInv, Shape, UnitFields, CommandOf, Consumer, Producer
  <2> HIDE DEF g, w
  <2>5. At(g, p)
    BY <1>1, <1>4, <2>2, <2>4 DEF At
  <2>6. AnswerOf(g.view, p) = text
    BY <2>4
  <2> HIDE DEF text, p
  <2>7. CASE text = Absent
    <3>1. UnitInv(w)
      BY <2>3, <2>4, <2>5, <2>6, <2>7, NotThere
    <3> QED
      BY <2>1, <2>7, <3>1 DEF Becomes
  <2>8. CASE text # Absent
    <3>1. unit' = [unit EXCEPT ![t] = FoundAt(w, p, text)]
      BY <2>1, <2>8
    <3>2. CASE m.entered
      <4>1. FoundAt(w, p, text) = Answered(w, m, p, text)
        BY <2>4, <3>2 DEF FoundAt
      <4>2. UnitInv(Answered(w, m, p, text))
        BY <2>3, <2>4, <2>5, <2>6, <2>8, <3>2, AnsweredKeeps
      <4> QED
        BY <3>1, <4>1, <4>2 DEF Becomes
    <3>3. CASE ~m.entered /\ p = u.wrapper /\ disk[p] # Absent
      <4>1. FoundAt(w, p, text) = Entered(w, seen, text)
        BY <2>4, <3>3 DEF FoundAt
      <4>2. UnitInv(Entered(w, seen, text))
        BY <2>3, <2>4, <2>5, <2>6, <2>8, <3>3, EnteredKeeps
      <4> QED
        BY <3>1, <4>1, <4>2 DEF Becomes
    <3>4. CASE ~m.entered /\ ~(p = u.wrapper /\ disk[p] # Absent)
      <4>1. FoundAt(w, p, text) = Passed(w, seen, text)
        BY <2>4, <3>4 DEF FoundAt
      <4>2. UnitInv(Passed(w, seen, text))
        BY <2>3, <2>4, <2>5, <2>6, <2>8, <3>4, PassedKeeps
      <4> QED
        BY <3>1, <4>1, <4>2 DEF Becomes
    <3> QED
      BY <3>2, <3>3, <3>4
  <2> QED
    BY <2>7, <2>8
<1> QED
  BY <1>2, <1>3, <1>4

-----------------------------------------------------------------------------
(* Between the runs, and the end.                                          *)

\* After the producer's run comes the consumer's.
LEMMA ConsumerIsNext ==
    ASSUME NEW u, UnitInv(u), u.at = "ran", u.run = "producer"
    PROVE  UnitInv([u EXCEPT !.at = "waiting", !.run = "consumer"])
<1> DEFINE v == [u EXCEPT !.at = "waiting", !.run = "consumer"]
<1>1. /\ DOMAIN v = UnitFields /\ v.at = "waiting" /\ v.run = "consumer"
      /\ v.request = u.request /\ v.wrapper = u.wrapper /\ v.view = u.view
      /\ v.replayed = u.replayed /\ v.measured = u.measured
      /\ Consumer(v) = Consumer(u) /\ Producer(v) = Producer(u)
  BY DEF UnitInv, Shape, UnitFields, Consumer, Producer
<1> HIDE DEF v
<1>2. ~u.replayed /\ Climbed(u)
  BY DEF UnitInv, Control, Compared, Climbed
<1>3. Shape(v) /\ Grown(u.view, v.view)
  BY <1>1, GrownItself DEF UnitInv, Shape, Runs
<1>4. Asked(v) /\ Verified(v) /\ Early(v) /\ Compared(v) /\ Finished(v)
  BY <1>1, <1>2 DEF UnitInv, Control, Asked, Verified, Early, Preflight,
                    Compared, Finished
<1>5. UnitInv(v)
  BY <1>1, <1>3, <1>4, Quiet DEF Control
<1> QED
  BY <1>5 DEF v

\* After an accepted comparison the final run replays, on the sealed snapshot.
LEMMA ReplayIsNext ==
    ASSUME NEW u, UnitInv(u), u.at = "ran", u.run = "consumer", Equivalent(u)
    PROVE  UnitInv([u EXCEPT !.at = "admit", !.run = "final",
                             !.replayed = TRUE, !.view = Seal(@)])
<1> DEFINE v == [u EXCEPT !.at = "admit", !.run = "final",
                          !.replayed = TRUE, !.view = Seal(@)]
           sealed == Seal(u.view)
<1>1. Grown(u.view, sealed)
  BY SealGrown DEF UnitInv, Shape
<1> HIDE DEF sealed
<1>2. /\ DOMAIN v = UnitFields /\ v.at = "admit" /\ v.run = "final"
      /\ v.request = u.request /\ v.wrapper = u.wrapper /\ v.view = sealed
      /\ v.replayed /\ v.measured = u.measured
      /\ Consumer(v) = Consumer(u) /\ Producer(v) = Producer(u)
  BY DEF UnitInv, Shape, UnitFields, Consumer, Producer, sealed
<1> HIDE DEF v
<1>3. ~u.replayed /\ Climbed(u)
  BY DEF UnitInv, Control, Compared, Climbed
<1>4. Shape(v)
  BY <1>1, <1>2 DEF UnitInv, Shape, Runs, Grown
<1>5. Asked(v) /\ Verified(v)
  BY <1>2, <1>3 DEF UnitInv, Control, Asked, Verified
<1>6. Early(v)
  BY <1>2 DEF UnitInv, Control, Early, Preflight
<1>7. Compared(v) /\ Finished(v)
  BY <1>2 DEF Compared, Finished, Equivalent
<1>8. UnitInv(v)
  BY <1>1, <1>2, <1>4, <1>5, <1>6, <1>7, Quiet DEF Control
<1> QED
  BY <1>8 DEF v

LEMMA RunEndsKeeps ==
    ASSUME NEW t \in Thread, UnitInv(unit[t]), RunEnds(t)
    PROVE  Becomes(t)
<1> DEFINE u == unit[t]
<1>1. u.at = "ran" /\ u.run \in Runs
  BY DEF RunEnds, UnitInv, Shape
<1>2. CASE u.run = "producer"
  <2>1. unit' = [unit EXCEPT ![t] =
                    [u EXCEPT !.at = "waiting", !.run = "consumer"]]
    BY <1>2 DEF RunEnds, Step
  <2> QED
    BY <1>1, <1>2, <2>1, ConsumerIsNext DEF Becomes
<1>3. CASE u.run = "consumer" /\ Equivalent(u)
  <2>1. unit' = [unit EXCEPT ![t] =
                    [u EXCEPT !.at = "admit", !.run = "final",
                              !.replayed = TRUE, !.view = Seal(@)]]
    BY <1>3 DEF RunEnds, Step
  <2> QED
    BY <1>1, <1>3, <2>1, ReplayIsNext DEF Becomes
<1>4. CASE u.run = "consumer" /\ ~Equivalent(u)
  <2>1. unit' = [unit EXCEPT ![t] = Rejected(u, "prefix")]
    BY <1>4 DEF RunEnds, Step
  <2>2. ~u.replayed
    BY <1>4 DEF UnitInv, Control, Compared
  <2>3. UnitInv(Rejected(u, "prefix"))
    BY <1>1, <2>2, RejectedKeeps
  <2> QED
    BY <2>1, <2>3 DEF Becomes
<1>5. CASE u.run = "final"
  <2> DEFINE v == [u EXCEPT !.at = "finish"]
  <2>1. unit' = [unit EXCEPT ![t] = v]
    BY <1>5 DEF RunEnds, Step
  <2>2. GoneOn(u, v, "finish")
    BY GoesOn DEF UnitInv
  <2> HIDE DEF v
  <2>3. Asked(v) /\ Verified(v) /\ Early(v)
    BY <1>1, <2>2
       DEF UnitInv, Control, Asked, Verified, Climbed, Preflight, Early, GoneOn
  <2>4. UnitInv(v)
    BY <1>1, <2>2, <2>3, MovesOn
  <2> QED
    BY <2>1, <2>4 DEF Becomes
<1> QED
  BY <1>1, <1>2, <1>3, <1>4, <1>5 DEF Runs

\* What the final run of a proven prefix met, once it entered the wrapper.
LEMMA FinalRunMeetsTheProof ==
    ASSUME NEW u, UnitInv(u), u.at = "finish", u.replayed,
           u.measured["final"].entered
    PROVE  LET proven == u.measured["consumer"]
               actual == u.measured["final"]
           IN  /\ actual.boundary
               /\ actual.looked = proven.looked
               /\ actual.texts = proven.texts
               /\ NamedOnce(Consumer(u)) => actual.macros = proven.macros
<1> DEFINE proven == u.measured["consumer"]
           actual == u.measured["final"]
           c == Consumer(u)
           s == u.view
           w == u.wrapper
<1>1. \A x : Parsing(u, x) = FALSE
  BY DEF Parsing
<1>2. MeasureIsTrue(s, c, w, proven, FALSE) /\ MeasureIsTrue(s, c, w, actual, FALSE)
  BY <1>1 DEF UnitInv, RunIsTrue
<1>3. proven.entered /\ proven.boundary /\ actual.entered
  BY DEF UnitInv, Control, Compared, Captured
<1>4. Searchable(c) /\ Len(c.uses) = 1 /\ SearchedFor(c, w)
  BY DEF UnitInv, Control, Asked, CommandIsProper, Verified, Climbed, Laddered
<1> HIDE DEF proven, actual, c, s, w
<1>5. /\ actual.boundary /\ proven.looked = actual.looked
      /\ proven.texts = actual.texts
  BY <1>2, <1>3, MetAgain
<1>6. ASSUME NamedOnce(c)
      PROVE  proven.macros = actual.macros
  <2>1. /\ ReadBefore(s, c, proven) /\ ReadWrapper(s, c, w, proven)
        /\ ReadBefore(s, c, actual) /\ ReadWrapper(s, c, w, actual)
    BY <1>2, <1>3 DEF MeasureIsTrue
  <2> QED
    BY <1>4, <1>6, <2>1, OneWay DEF SearchedFor
<1> QED
  BY <1>5, <1>6 DEF proven, actual, c

LEMMA FinishKeeps ==
    ASSUME NEW t \in Thread, UnitInv(unit[t]), Finish(t)
    PROVE  Becomes(t)
<1> DEFINE u == unit[t]
<1>1. u.at = "finish"
  BY DEF Finish
<1>2. PICK v : /\ unit' = [unit EXCEPT ![t] = v]
               /\ \/ Drifted(u) /\ v = Rejected(u, "drift")
                  \/ /\ ~Drifted(u)
                     /\ \E st \in {"ok", "completed_with_errors"} :
                            v = [u EXCEPT !.at = "done", !.status = st]
  BY DEF Finish, Step
<1>3. /\ DOMAIN v = UnitFields /\ v.at = "done"
      /\ v.request = u.request /\ v.run = u.run /\ v.wrapper = u.wrapper
      /\ v.view = u.view /\ v.replayed = u.replayed
      /\ v.measured = u.measured
      /\ Consumer(v) = Consumer(u) /\ Producer(v) = Producer(u)
  BY <1>2 DEF UnitInv, Shape, UnitFields, Rejected, Consumer, Producer
<1>4. \/ Drifted(u)
      \/ ~Drifted(u) /\ v.status # "rejected"
  BY <1>2 DEF UnitInv, Shape, UnitFields
<1>5. Drifted(u) => v.status = "rejected"
  BY <1>2 DEF UnitInv, Shape, UnitFields, Rejected
<1>6. Shape(v) /\ Grown(u.view, v.view)
  BY <1>3, GrownItself DEF UnitInv, Shape
<1>7. Asked(v) /\ Verified(v) /\ Early(v) /\ Compared(v)
  BY <1>1, <1>3 DEF UnitInv, Control, Asked, Verified, Climbed, Early,
                    Preflight, Compared
<1>8. Finished(v)
  BY <1>1, <1>3, <1>4, <1>5, FinalRunMeetsTheProof
     DEF Finished, Drifted, SameAxes
<1>9. UnitInv(v)
  BY <1>1, <1>3, <1>6, <1>7, <1>8, Quiet DEF Control
<1> QED
  BY <1>2, <1>9 DEF Becomes

-----------------------------------------------------------------------------
(* The analyses together.                                                  *)

AnalysisInv ==
    /\ DOMAIN unit = Thread
    /\ \A t \in Thread : UnitInv(unit[t])

LEMMA BecomingKeeps ==
    ASSUME AnalysisInv, NEW t \in Thread, Becomes(t)
    PROVE  AnalysisInv'
<1>1. PICK v : UnitInv(v) /\ unit' = [unit EXCEPT ![t] = v]
  BY DEF Becomes
<1>2. DOMAIN unit' = Thread /\ unit'[t] = v
  BY <1>1 DEF AnalysisInv
<1>3. \A x \in Thread \ {t} : unit'[x] = unit[x]
  BY <1>1 DEF AnalysisInv
<1>4. \A x \in Thread : UnitInv(unit'[x])
  BY <1>1, <1>2, <1>3 DEF AnalysisInv
<1> QED
  BY <1>2, <1>4 DEF AnalysisInv

\* A request that was made names commands whose headers are looked for.
LEMMA RequestIsProper ==
    ASSUME NEW w \in Workloads, NEW t \in Thread, w.requests[t] # NoRequest
    PROVE  /\ CommandIsProper(w.requests[t].consumer)
           /\ CommandIsProper(w.requests[t].producer)
BY WorkloadAssumption DEF CommandIsProper

LEMMA NewUnitKeeps ==
    ASSUME NEW w \in Workloads, NEW t \in Thread
    PROVE  UnitInv(NewUnit(w.requests[t]))
<1> DEFINE r == w.requests[t]
           u == NewUnit(r)
<1>1. /\ DOMAIN u = UnitFields
      /\ u.request = r /\ u.at = IF r = NoRequest THEN "done" ELSE "gate"
      /\ u.run = "final" /\ u.view = NewSnapshot /\ ~u.replayed
      /\ u.measured = [x \in Runs |-> NoMeasure]
      /\ Consumer(u) = r.consumer /\ Producer(u) = r.producer
  BY DEF NewUnit, UnitFields, Consumer, Producer
<1>2. r # NoRequest => CommandIsProper(r.consumer) /\ CommandIsProper(r.producer)
  BY RequestIsProper
<1> HIDE DEF u, r
<1>3. DOMAIN u.measured = Runs /\ \A x \in Runs : u.measured[x] = NoMeasure
  BY <1>1
<1>4. Shape(u)
  BY <1>1, <1>3, NothingMeasured, FreshSnapshot DEF Shape, Runs
<1>5. Asked(u) /\ Verified(u) /\ Compared(u) /\ Finished(u)
  BY <1>1, <1>2 DEF Asked, Verified, Climbed, Preflight, Compared, Finished
<1>6. Early(u)
  BY <1>1, <1>3 DEF Early, Runs
<1>7. ~Parsing(u, "consumer") /\ ~Parsing(u, "final")
  BY <1>1 DEF Parsing
<1>8. \A x \in {"consumer", "final"} : RunIsTrue(u, x) /\ ParseIsTrue(u, x)
  <2>1. \A x \in {"consumer", "final"} : Parsing(u, x) = FALSE
    BY <1>7 DEF Parsing
  <2> QED
    BY <1>3, <2>1, NothingMeasured DEF RunIsTrue, ParseIsTrue, Runs
<1>9. \A x \in Runs : TextsKept(u.view, u.measured[x])
  BY <1>3, NothingMeasured
<1>10. UnitInv(u)
  BY <1>4, <1>5, <1>6, <1>8, <1>9 DEF UnitInv, Control
<1> QED
  BY <1>10 DEF u, r

LEMMA AnalysisBegins ==
    ASSUME UnitInit
    PROVE  AnalysisInv
<1>1. PICK w \in Workloads : unit = [t \in Thread |-> NewUnit(w.requests[t])]
  BY DEF UnitInit
<1>2. \A t \in Thread : UnitInv(NewUnit(w.requests[t]))
  BY NewUnitKeeps
<1> QED
  BY <1>1, <1>2 DEF AnalysisInv

LEMMA AnalysisGoesOn ==
    ASSUME AnalysisInv, [UnitNext]_unitVars
    PROVE  AnalysisInv'
<1>1. CASE UNCHANGED unitVars
  BY <1>1 DEF unitVars, AnalysisInv
<1>2. CASE Edit
  BY <1>2 DEF Edit, AnalysisInv
<1>3. ASSUME NEW t \in Thread, AnalysisStep(t) \/ Probe(t)
      PROVE  AnalysisInv'
  <2>1. UnitInv(unit[t])
    BY DEF AnalysisInv
  <2>2. CASE Gate(t)
    BY <2>1, <2>2, GateKeeps, BecomingKeeps
  <2>3. CASE Admit(t)
    BY <2>1, <2>3, AdmitKeeps, BecomingKeeps
  <2>4. CASE Ladder(t)
    BY <2>1, <2>4, LadderKeeps, BecomingKeeps
  <2>5. CASE ResolveWrapper(t)
    BY <2>1, <2>5, ResolveWrapperKeeps, BecomingKeeps
  <2>6. CASE CheckLayout(t)
    BY <2>1, <2>6, CheckLayoutKeeps, BecomingKeeps
  <2>7. CASE CheckCreates(t)
    BY <2>1, <2>7, CheckCreatesKeeps, BecomingKeeps
  <2>8. CASE FreezeSource(t)
    BY <2>1, <2>8, FreezeSourceKeeps, BecomingKeeps
  <2>9. CASE CheckInclude(t)
    BY <2>1, <2>9, CheckIncludeKeeps, BecomingKeeps
  <2>10. CASE TakeDriver(t)
    BY <2>1, <2>10, TakeDriverKeeps, BecomingKeeps
  <2>11. CASE ReachAction(t)
    BY <2>1, <2>11, ReachActionKeeps, BecomingKeeps
  <2>12. CASE DriverFails(t)
    BY <2>1, <2>12, DriverFailsKeeps, BecomingKeeps
  <2>13. CASE LookUp(t)
    BY <2>1, <2>13, LookUpKeeps, BecomingKeeps
  <2>14. CASE RunEnds(t)
    BY <2>1, <2>14, RunEndsKeeps, BecomingKeeps
  <2>15. CASE Finish(t)
    BY <2>1, <2>15, FinishKeeps, BecomingKeeps
  <2>16. CASE Probe(t)
    BY <2>1, <2>16, ProbeKeeps, BecomingKeeps
  <2> QED
    BY <1>3, <2>2, <2>3, <2>4, <2>5, <2>6, <2>7, <2>8, <2>9, <2>10, <2>11,
       <2>12, <2>13, <2>14, <2>15, <2>16 DEF AnalysisStep
<1> QED
  BY <1>1, <1>2, <1>3 DEF UnitNext

-----------------------------------------------------------------------------
(* What the analyses promise.                                              *)

\* Every analysis, at every moment: what its runs read before the wrapper, at
\* it and for it is what the snapshot answers now; nothing runs before the
\* ladder is climbed, and no final run is a replay before the comparison.
THEOREM AnalysisInvariant == UnitSpec => []AnalysisInv
<1>1. UnitInit => AnalysisInv
  BY AnalysisBegins
<1>2. AnalysisInv /\ [UnitNext]_unitVars => AnalysisInv'
  BY AnalysisGoesOn
<1> QED
  BY <1>1, <1>2, PTL DEF UnitSpec

\* A unit accepted with a replayed header had, at the end of its prefix, the
\* state the producer's compiler writes to the header the consumer names, from
\* texts of the one snapshot.
THEOREM ReplayIsThePchInvariant == UnitSpec => []ReplayIsThePch
<1>1. ASSUME AnalysisInv
      PROVE  ReplayIsThePch
  <2>1. ASSUME NEW t \in Thread,
               unit[t].at = "done", unit[t].replayed, unit[t].status # "rejected"
        PROVE  /\ ReplayOf(Consumer(unit[t]), unit[t].measured["final"])
                    = PchOf(Producer(unit[t]), unit[t].measured["producer"])
               /\ \A i \in DOMAIN unit[t].measured["final"].texts :
                    unit[t].measured["final"].texts[i]
                        \in {unit[t].view.text[p] : p \in DOMAIN unit[t].view.text}
    <3> DEFINE u == unit[t]
               final == u.measured["final"]
    <3>1. UnitInv(u)
      BY <1>1 DEF AnalysisInv
    <3>2. SameAxes(u.measured["producer"], final)
      BY <2>1, <3>1 DEF UnitInv, Control, Compared, Finished, SameAxes
    <3>3. Laddered(Consumer(u), Producer(u))
      BY <2>1, <3>1 DEF UnitInv, Control, Verified, Climbed
    <3>4. ReplayOf(Consumer(u), final) = PchOf(Producer(u), u.measured["producer"])
      BY <3>2, <3>3 DEF ReplayOf, PchOf, SameAxes, Laddered
    <3>5. TextsKept(u.view, final)
      BY <3>1 DEF UnitInv, Runs
    <3> HIDE DEF final
    <3>6. DOMAIN final.texts = 1..Len(final.texts)
      BY <3>5 DEF TextsKept, IsSeq
    <3>7. \A i \in DOMAIN final.texts : final.texts[i] \in Texts(u.view)
      BY <3>5, <3>6 DEF TextsKept
    <3> QED
      BY <3>4, <3>7 DEF Texts, final
  <2> QED
    BY <2>1 DEF ReplayIsThePch
<1> QED
  BY <1>1, AnalysisInvariant, PTL

\* Once the final run enters the wrapper it meets what the captures met, and,
\* when one header alone can be the wrapper, is not rejected any more.
THEOREM ProvenPrefixCannotDriftInvariant == UnitSpec => []ProvenPrefixCannotDrift
<1>1. ASSUME AnalysisInv
      PROVE  ProvenPrefixCannotDrift
  <2>1. \A t \in Thread : Finished(unit[t])
    BY <1>1 DEF AnalysisInv, UnitInv, Control
  <2> QED
    BY <2>1 DEF ProvenPrefixCannotDrift, Finished
<1> QED
  BY <1>1, AnalysisInvariant, PTL

-----------------------------------------------------------------------------
(* No answer is taken back.                                                *)

BeforeTheSnapshot == {"gate", "ladder", "wrapper", "layout", "creates", "source"}

\* Nothing is read through the snapshot before the producer's source.
Unopened(u) == u.at \in BeforeTheSnapshot => u.view = NewSnapshot

UnopenedInv == AnalysisInv /\ \A t \in Thread : Unopened(unit[t])

\* The thread's next unit, whose snapshot has grown.
Grows(t) ==
    \E v : /\ unit' = [unit EXCEPT ![t] = v]
           /\ Grown(unit[t].view, v.view)
           /\ Unopened(v)

LEMMA SnapshotUntouched ==
    ASSUME UnopenedInv, NEW t \in Thread,
           NEW v, unit' = [unit EXCEPT ![t] = v], v.view = unit[t].view,
           unit[t].at \in BeforeTheSnapshot \/ v.at \notin BeforeTheSnapshot
    PROVE  Grows(t)
<1>1. Sound(unit[t].view) /\ Unopened(unit[t])
  BY DEF UnopenedInv, AnalysisInv, UnitInv, Shape
<1>2. Grown(unit[t].view, v.view) /\ Unopened(v)
  BY <1>1, GrownItself DEF Unopened
<1> QED
  BY <1>2 DEF Grows

LEMMA SnapshotGrows ==
    ASSUME UnopenedInv, NEW t \in Thread,
           NEW v, unit' = [unit EXCEPT ![t] = v], Grown(unit[t].view, v.view),
           v.at \notin BeforeTheSnapshot
    PROVE  Grows(t)
BY DEF Grows, Unopened

LEMMA ChecksGrow ==
    ASSUME UnopenedInv, NEW t \in Thread,
           \/ Gate(t) \/ Admit(t) \/ Ladder(t) \/ ResolveWrapper(t)
           \/ CheckLayout(t) \/ CheckCreates(t) \/ CheckInclude(t)
    PROVE  Grows(t)
<1> DEFINE u == unit[t]
<1>1. DOMAIN u = UnitFields
  BY DEF UnopenedInv, AnalysisInv, UnitInv, Shape
<1>2. ASSUME NEW at, NEW holds, NEW next, Check(t, at, holds, next),
             at \in BeforeTheSnapshot \/ next \notin BeforeTheSnapshot
      PROVE  Grows(t)
  <2>1. PICK v : /\ unit' = [unit EXCEPT ![t] = v] /\ u.at = at
                 /\ v = [u EXCEPT !.at = next] \/ v = Rejected(u, at)
    BY <1>2 DEF Check, Step
  <2>2. v.view = u.view /\ v.at \in {next, "done"}
    BY <1>1, <2>1 DEF UnitFields, Rejected
  <2> QED
    BY <1>2, <2>1, <2>2, SnapshotUntouched DEF BeforeTheSnapshot
<1>3. CASE Admit(t) \/ Ladder(t) \/ CheckLayout(t) \/ CheckCreates(t)
  BY <1>2, <1>3 DEF Admit, Ladder, CheckLayout, CheckCreates, BeforeTheSnapshot
<1>4. CASE Gate(t)
  <2>1. PICK v : /\ unit' = [unit EXCEPT ![t] = v] /\ u.at = "gate"
                 /\ \/ \E next : v = [u EXCEPT !.at = next]
                    \/ \E why : v = Rejected(u, why)
    BY <1>4 DEF Gate, Step
  <2>2. v.view = u.view
    BY <1>1, <2>1 DEF UnitFields, Rejected
  <2> QED
    BY <2>1, <2>2, SnapshotUntouched DEF BeforeTheSnapshot
<1>5. CASE ResolveWrapper(t)
  <2>1. PICK v : /\ unit' = [unit EXCEPT ![t] = v] /\ u.at = "wrapper"
                 /\ \/ \E w : v = [u EXCEPT !.at = "layout", !.wrapper = w]
                    \/ v = Rejected(u, "wrapper")
    BY <1>5 DEF ResolveWrapper, Step
  <2>2. v.view = u.view
    BY <1>1, <2>1 DEF UnitFields, Rejected
  <2> QED
    BY <2>1, <2>2, SnapshotUntouched DEF BeforeTheSnapshot
<1>6. CASE CheckInclude(t)
  <2>1. PICK v : /\ unit' = [unit EXCEPT ![t] = v]
                 /\ \/ v = [u EXCEPT !.at = "waiting", !.run = "producer"]
                    \/ v = Rejected(u, "include")
    BY <1>6 DEF CheckInclude, Step
  <2>2. v.view = u.view /\ v.at \in {"waiting", "done"}
    BY <1>1, <2>1 DEF UnitFields, Rejected
  <2> QED
    BY <2>1, <2>2, SnapshotUntouched DEF BeforeTheSnapshot
<1> QED
  BY <1>3, <1>4, <1>5, <1>6

LEMMA SourceGrows ==
    ASSUME UnopenedInv, NEW t \in Thread, FreezeSource(t)
    PROVE  Grows(t)
<1> DEFINE u == unit[t]
           guarded == AddVirtualFile(u.view, Guard, EmptyText)
           view == Open(guarded, disk, Producer(u).source)
<1>1. /\ DOMAIN u = UnitFields /\ u.at = "source" /\ Sound(u.view)
      /\ u.view = NewSnapshot
  BY DEF UnopenedInv, AnalysisInv, UnitInv, Shape, FreezeSource, Unopened,
         BeforeTheSnapshot
<1>2. Sound(view)
  BY <1>1, GuardSound, OpenGrown DEF Grown
<1>3. \A p : ~Known(u.view, p)
  BY <1>1 DEF Known, Frozen, RecordedAbsent, NewSnapshot, Nothing
<1>4. Texts(u.view) = {}
  BY <1>1 DEF Texts, NewSnapshot, Nothing
<1>5. PICK v : /\ unit' = [unit EXCEPT ![t] = v]
               /\ \/ v = [u EXCEPT !.at = "include", !.view = view]
                  \/ v = Rejected([u EXCEPT !.view = view], "source")
  BY DEF FreezeSource, Step
<1> HIDE DEF view
<1>6. v.view = view /\ v.at \in {"include", "done"}
  BY <1>1, <1>5 DEF UnitFields, Rejected
<1>7. Grown(u.view, v.view)
  BY <1>2, <1>3, <1>4, <1>6 DEF Grown
<1> QED
  BY <1>5, <1>6, <1>7, SnapshotGrows DEF BeforeTheSnapshot

LEMMA RunsGrow ==
    ASSUME UnopenedInv, NEW t \in Thread,
           \/ TakeDriver(t) \/ ReachAction(t) \/ DriverFails(t) \/ Probe(t)
           \/ RunEnds(t) \/ Finish(t)
    PROVE  Grows(t)
<1> DEFINE u == unit[t]
<1>1. DOMAIN u = UnitFields /\ Sound(u.view)
  BY DEF UnopenedInv, AnalysisInv, UnitInv, Shape
<1>2. ASSUME NEW v, unit' = [unit EXCEPT ![t] = v], v.view = u.view,
             v.at \in {"driver", "finish", "parse", "ran"}
      PROVE  Grows(t)
  BY <1>2, SnapshotUntouched DEF BeforeTheSnapshot
<1>3. CASE TakeDriver(t)
  <2>1. unit' = [unit EXCEPT ![t] = [u EXCEPT !.at = "driver"]]
    BY <1>3 DEF TakeDriver, Step
  <2> QED
    BY <1>1, <1>2, <2>1 DEF UnitFields
<1>4. CASE DriverFails(t)
  <2> DEFINE m == [NoMeasure EXCEPT !.errors = TRUE]
             v == [u EXCEPT !.at = "ran", !.measured[u.run] = m]
  <2>1. unit' = [unit EXCEPT ![t] = v]
    BY <1>4 DEF DriverFails, Step
  <2> HIDE DEF m
  <2>2. v.view = u.view /\ v.at = "ran"
    BY <1>1 DEF UnitFields
  <2> HIDE DEF v
  <2> QED
    BY <1>2, <2>1, <2>2
<1>5. CASE ReachAction(t)
  <2> DEFINE m == [NoMeasure EXCEPT !.macros = CommandOf(u).macros]
             v == [u EXCEPT !.at = "parse", !.asks = Entries(u), !.tried = 0,
                            !.measured[u.run] = m]
             f == [u EXCEPT !.at = "finish"]
  <2>1. unit' = [unit EXCEPT ![t] = IF Replays(u) THEN v ELSE f]
    BY <1>5 DEF ReachAction, Step
  <2> HIDE DEF m
  <2>2. v.view = u.view /\ v.at = "parse" /\ f.view = u.view /\ f.at = "finish"
    BY <1>1 DEF UnitFields
  <2> HIDE DEF v, f
  <2> QED
    BY <1>2, <2>1, <2>2
<1>6. CASE Probe(t)
  <2>1. PICK p \in Probed : /\ u.at = "driver"
                            /\ unit' = [unit EXCEPT ![t] =
                                [u EXCEPT !.view = Status(u.view, disk, p).view]]
    BY <1>6 DEF Probe, Step
  <2> DEFINE view == Status(u.view, disk, p).view
             v == [u EXCEPT !.view = view]
  <2>2. Grown(u.view, view)
    BY <1>1, StatusGrown
  <2> HIDE DEF view
  <2>3. v.view = view /\ v.at = "driver"
    BY <1>1, <2>1 DEF UnitFields
  <2>4. unit' = [unit EXCEPT ![t] = v]
    BY <2>1 DEF view
  <2> HIDE DEF v
  <2> QED
    BY <2>2, <2>3, <2>4, SnapshotGrows DEF BeforeTheSnapshot
<1>7. CASE RunEnds(t)
  <2>1. PICK v : /\ unit' = [unit EXCEPT ![t] = v]
                 /\ \/ v = [u EXCEPT !.at = "waiting", !.run = "consumer"]
                    \/ v = [u EXCEPT !.at = "admit", !.run = "final",
                                     !.replayed = TRUE, !.view = Seal(@)]
                    \/ v = Rejected(u, "prefix")
                    \/ v = [u EXCEPT !.at = "finish"]
    <3>1. u.run \in Runs
      BY DEF UnopenedInv, AnalysisInv, UnitInv, Shape
    <3> QED
      BY <1>7, <3>1 DEF RunEnds, Step, Runs
  <2> DEFINE sealed == Seal(u.view)
  <2>2. Grown(u.view, u.view) /\ Grown(u.view, sealed)
    BY <1>1, GrownItself, SealGrown
  <2> HIDE DEF sealed
  <2>3. /\ v.view \in {u.view, sealed}
        /\ v.at \in {"waiting", "admit", "done", "finish"}
    BY <1>1, <2>1 DEF UnitFields, Rejected, sealed
  <2> QED
    BY <2>1, <2>2, <2>3, SnapshotGrows DEF BeforeTheSnapshot
<1>8. CASE Finish(t)
  <2>1. PICK v : /\ unit' = [unit EXCEPT ![t] = v]
                 /\ \/ v = Rejected(u, "drift")
                    \/ \E st : v = [u EXCEPT !.at = "done", !.status = st]
    BY <1>8 DEF Finish, Step
  <2>2. v.view = u.view /\ v.at = "done"
    BY <1>1, <2>1 DEF UnitFields, Rejected
  <2> QED
    BY <2>1, <2>2, SnapshotUntouched DEF BeforeTheSnapshot
<1> QED
  BY <1>3, <1>4, <1>5, <1>6, <1>7, <1>8

LEMMA LookUpGrows ==
    ASSUME UnopenedInv, NEW t \in Thread, LookUp(t)
    PROVE  Grows(t)
<1> DEFINE u == unit[t]
           p == CommandOf(u).search[Head(u.asks)][u.tried + 1]
           view == Open(u.view, disk, p)
           text == AnswerOf(view, p)
           w == [u EXCEPT !.view = view, !.tried = @ + 1]
<1>1. DOMAIN u = UnitFields /\ Sound(u.view) /\ u.at = "parse"
  BY DEF UnopenedInv, AnalysisInv, UnitInv, Shape, LookUp
<1>2. Grown(u.view, u.view) /\ Grown(u.view, view)
  BY <1>1, GrownItself, OpenGrown
<1> HIDE DEF view
<1>3. DOMAIN w = UnitFields /\ w.view = view /\ w.at = "parse"
  BY <1>1 DEF UnitFields
<1>4. PICK v : /\ unit' = [unit EXCEPT ![t] = v]
               /\ \/ v = [u EXCEPT !.at = "ran"]
                  \/ v = FoundNowhere(u)
                  \/ v = w
                  \/ v = FoundAt(w, p, text)
  BY DEF LookUp, Step, view
<1> HIDE DEF w, text, p
<1>5. ASSUME NEW x, DOMAIN x = UnitFields, NEW m, NEW at
      PROVE  /\ Note(x, m, at).view = x.view /\ Note(x, m, at).at = at
             /\ DOMAIN Note(x, m, at) = UnitFields
  BY <1>5 DEF Note, UnitFields
<1>6. FoundNowhere(u).view = u.view /\ FoundNowhere(u).at = "ran"
  <2>1. PICK m : FoundNowhere(u) = Note(u, m, "ran")
    BY DEF FoundNowhere
  <2> QED
    BY <1>1, <1>5, <2>1
<1>7. FoundAt(w, p, text).view = view /\ FoundAt(w, p, text).at \in {"ran", "parse"}
  <2>1. \A m : Answered(w, m, p, text).view = view
                /\ Answered(w, m, p, text).at = "ran"
    BY <1>3, <1>5 DEF Answered
  <2>2. ASSUME NEW x, DOMAIN x = UnitFields, NEW asks
        PROVE  LET y == [x EXCEPT !.asks = asks, !.tried = 0]
               IN  y.view = x.view /\ y.at = x.at
    BY <2>2 DEF UnitFields
  <2>3. \A m : Passed(w, m, text).view = view /\ Passed(w, m, text).at = "parse"
    BY <1>3, <1>5 DEF Passed, UnitFields
  <2>4. \A m : Entered(w, m, text).view = view
                /\ Entered(w, m, text).at \in {"ran", "parse"}
    BY <1>3, <1>5, <2>2 DEF Entered
  <2> QED
    BY <2>1, <2>3, <2>4 DEF FoundAt
<1>8. v.view \in {u.view, view} /\ v.at \in {"ran", "parse"}
  BY <1>1, <1>3, <1>4, <1>6, <1>7 DEF UnitFields
<1> QED
  BY <1>2, <1>4, <1>8, SnapshotGrows DEF BeforeTheSnapshot

\* Each step leaves each analysis' snapshot as it is or grown.
LEMMA SnapshotsGrow ==
    ASSUME UnopenedInv, [UnitNext]_unitVars
    PROVE  /\ UnopenedInv'
           /\ \A t \in Thread : Grown(unit[t].view, unit'[t].view)
<1>1. AnalysisInv'
  BY AnalysisGoesOn DEF UnopenedInv
<1>2. \A t \in Thread : Sound(unit[t].view) /\ Unopened(unit[t])
  BY DEF UnopenedInv, AnalysisInv, UnitInv, Shape
<1>3. CASE unit' = unit
  BY <1>1, <1>2, <1>3, GrownItself DEF UnopenedInv
<1>4. ASSUME NEW t \in Thread, Grows(t)
      PROVE  \A x \in Thread : Grown(unit[x].view, unit'[x].view)
                                    /\ Unopened(unit'[x])
  <2>1. PICK v : /\ unit' = [unit EXCEPT ![t] = v]
                 /\ Grown(unit[t].view, v.view) /\ Unopened(v)
    BY <1>4 DEF Grows
  <2>2. unit'[t] = v /\ \A x \in Thread \ {t} : unit'[x] = unit[x]
    BY <2>1 DEF UnopenedInv, AnalysisInv
  <2> QED
    BY <1>2, <2>1, <2>2, GrownItself
<1>5. ASSUME NEW t \in Thread, AnalysisStep(t) \/ Probe(t)
      PROVE  Grows(t)
  BY <1>5, ChecksGrow, SourceGrows, RunsGrow, LookUpGrows DEF AnalysisStep
<1>6. unit' = unit \/ \E t \in Thread : Grows(t)
  BY <1>5 DEF UnitNext, Edit, unitVars
<1> QED
  BY <1>1, <1>3, <1>4, <1>6 DEF UnopenedInv

\* No edit takes back what an analysis was told: a path its snapshot answered
\* for, with a text or with an absence, is answered the same from then on.
THEOREM AnswersAreKept ==
    UnitSpec =>
        [][\A t \in Thread : \A p \in Path :
                Known(unit[t].view, p) =>
                    /\ Known(unit'[t].view, p)
                    /\ AnswerOf(unit'[t].view, p) = AnswerOf(unit[t].view, p)]_unitVars
<1>1. UnitInit => UnopenedInv
  <2>1. ASSUME UnitInit
        PROVE  \A t \in Thread : Unopened(unit[t])
    BY <2>1 DEF UnitInit, NewUnit, Unopened
  <2> QED
    BY <2>1, AnalysisBegins DEF UnopenedInv
<1>2. UnopenedInv /\ [UnitNext]_unitVars => UnopenedInv'
  BY SnapshotsGrow
<1>3. UnopenedInv /\ [UnitNext]_unitVars =>
        [\A t \in Thread : \A p \in Path :
                Known(unit[t].view, p) =>
                    /\ Known(unit'[t].view, p)
                    /\ AnswerOf(unit'[t].view, p) = AnswerOf(unit[t].view, p)]_unitVars
  BY SnapshotsGrow DEF Grown
<1> QED
  BY <1>1, <1>2, <1>3, PTL DEF UnitSpec
=============================================================================
