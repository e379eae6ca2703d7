------------------------ MODULE StoreFreshnessProofs ------------------------
(***************************************************************************)
(* Proofs about StoreFreshness, for any number of inspections, profiles,   *)
(* slots, files and contents, any inputs and any bound on publications.    *)
(***************************************************************************)
EXTENDS StoreFreshness, NaturalFacts

----------------------------------------------------------------------------
\* The inductive invariant.

\* The lock protects what an inspection does with it, and a read-only
\* inspection never gets near it.
LockInv ==
    /\ \A i \in Inspector :
          pc[i] \in {"locked", "second", "concluding"} => lock = i
    /\ \A i \in Inspector : pc[i] # "checked"
    /\ \A i \in ReadOnly : pc[i] \in {"idle", "first", "second", "checked"}

\* A plan is of a generation its profile has had and, if it still has it, of
\* the profile's present units; every planned unit is the profile's.
IsPlan(p) ==
    /\ p \in Plan
    /\ p.gen <= gen[p.profile]
    /\ p.gen = gen[p.profile] => p.rows = Snapshot(p.profile)
    /\ \A r \in Row : p.rows[r] # NoUnit => p.rows[r].profile = p.profile

PlanInv == \A i \in Process : pc[i] # "idle" => IsPlan(plan[i])

\* Past its check under the lock an inspection's generation is the present
\* one, and what its second pass has hashed was on the disk under the lock.
SecondPassInv ==
    /\ lock # NoProc => \A f \in File : disk[f] \in held[f]
    /\ \A i \in Process :
          pc[i] \in {"idle", "first", "locking", "locked"} =>
              second[i] = NoProbe
    /\ \A i \in Inspector : pc[i] \in {"second", "concluding"} =>
          /\ plan[i].gen = gen[plan[i].profile]
          /\ \A f \in DOMAIN second[i] : second[i][f] \in held[f]
    /\ \A i \in Inspector : pc[i] = "concluding" =>
          Distinct(plan[i]) \subseteq DOMAIN second[i]

\* The inductive invariant of the inspections.
FreshnessInv ==
    /\ TypeOK
    /\ LockInv
    /\ PlanInv
    /\ SecondPassInv
    /\ VerdictsAreOfLiveUnits

----------------------------------------------------------------------------
\* Types of what the actions are built from.

LEMMA ProbeParts ==
    ASSUME NEW a \in Probe
    PROVE  /\ DOMAIN a \subseteq File
           /\ \A f \in DOMAIN a : a[f] \in Content \cup {Absent}
<1>1. PICK S \in SUBSET File : a \in [S -> Content \cup {Absent}]
  BY DEF Probe
<1> QED
  BY <1>1

LEMMA NoProbeType == NoProbe \in Probe /\ DOMAIN NoProbe = {}
<1>1. NoProbe \in [{} -> Content \cup {Absent}] /\ {} \in SUBSET File
  BY DEF NoProbe
<1> QED
  BY <1>1 DEF Probe, NoProbe

\* One more file hashed.
LEMMA OneMoreProbe ==
    ASSUME NEW a \in Probe, NEW f \in File, NEW c \in Content \cup {Absent}
    PROVE  [g \in DOMAIN a \cup {f} |-> IF g = f THEN c ELSE a[g]] \in Probe
<1> DEFINE S == DOMAIN a \cup {f}
<1>1. S \in SUBSET File
  BY ProbeParts
<1>2. [g \in S |-> IF g = f THEN c ELSE a[g]] \in [S -> Content \cup {Absent}]
  BY ProbeParts
<1> HIDE DEF S
<1>3. [g \in S |-> IF g = f THEN c ELSE a[g]] \in Probe
  BY <1>1, <1>2 DEF Probe
<1> QED
  BY <1>3 DEF S

LEMMA SnapshotType ==
    ASSUME TypeOK, NEW q
    PROVE  /\ Snapshot(q) \in [Row -> Unit \cup {NoUnit}]
           /\ \A r \in Row : Snapshot(q)[r] # NoUnit =>
                 Snapshot(q)[r] = unit[r] /\ unit[r].profile = q
BY DEF TypeOK, Snapshot, RowsOf

LEMMA UnitVerdictType ==
    ASSUME NEW u, NEW a, NEW b, NEW one
    PROVE  /\ UnitVerdict(u, a, b, one) \in Verdict
           /\ UnitVerdict(u, a, b, one) # NoVerdict
<1>1. UnitVerdict(u, a, b, one) \in Verdict
  BY DEF UnitVerdict, Verdict, Freshness
<1> QED
  BY <1>1, AbsentValuesAssumption

LEMMA ConcludeType ==
    ASSUME NEW p, NEW a, NEW b, NEW one
    PROVE  Conclude(p, a, b, one) \in [Row -> Verdict \cup {NoVerdict}]
BY UnitVerdictType DEF Conclude

LEMMA LoweredType ==
    ASSUME NEW v \in Verdict
    PROVE  /\ Lowered(v) \in Verdict /\ Lowered(v) # NoVerdict
           /\ Lowered(v).semantic # "fresh" /\ Lowered(v).context # "fresh"
           /\ Lowered(v).semantic = "stale" <=> v.semantic = "stale"
<1>1. Lowered(v) \in Verdict
  BY DEF Lowered, Verdict, Freshness
<1> QED
  BY <1>1, AbsentValuesAssumption DEF Lowered

----------------------------------------------------------------------------
\* What a fresh and a stale verdict are evidence of.

TwoPassVerdict(u, a, b) == UnitVerdict(u, a, b, FALSE)

FirstPassVerdict(u, a) == UnitVerdict(u, a, NoProbe, TRUE)

LEMMA FreshVerdict ==
    ASSUME NEW u, NEW a, NEW b, NEW v, v = TwoPassVerdict(u, a, b),
           v.semantic = "fresh" \/ v.context = "fresh"
    PROVE  /\ u.verified
           /\ v.semantic = "fresh" =>
                 /\ v.context = "fresh"
                 /\ \A f \in InputsOf(u) : b[f] = u.inputs[f]
BY DEF TwoPassVerdict, UnitVerdict, Changed

LEMMA FirstPassIsNeverFresh ==
    ASSUME NEW u, NEW a, NEW v, v = FirstPassVerdict(u, a)
    PROVE  v.semantic # "fresh" /\ v.context # "fresh"
BY DEF FirstPassVerdict, UnitVerdict

LEMMA StaleAfterOnePass ==
    ASSUME NEW u, NEW a, NEW v, v = FirstPassVerdict(u, a),
           v.semantic = "stale"
    PROVE  \E f \in InputsOf(u) \cap DOMAIN a : a[f] # u.inputs[f]
BY DEF FirstPassVerdict, UnitVerdict, Changed

LEMMA StaleAfterTwoPasses ==
    ASSUME NEW u, NEW a, NEW b, NEW v, v = TwoPassVerdict(u, a, b),
           v.semantic = "stale"
    PROVE  \E f \in InputsOf(u) \cap DOMAIN a :
              a[f] # u.inputs[f] \/ b[f] # a[f]
BY DEF TwoPassVerdict, UnitVerdict, Changed

----------------------------------------------------------------------------
\* What a publication does to the rows.

\* The next row id belongs to no unit.
LEMMA NextRowIsFree ==
    ASSUME NEW units, NEW r \in Row, units[r] # NoUnit
    PROVE  NextRow(units) # r
<1> DEFINE S == {t \in Row : units[t] # NoUnit} \cup {0}
<1>1. S \subseteq Nat /\ S # {} /\ r \in S /\ \A x \in S : x <= MaxGen
  BY ParametersAssumption DEF Row
<1>2. MaxGen \in Nat
  BY ParametersAssumption
<1> HIDE DEF S
<1>3. r <= Max(S) /\ Max(S) \in Nat /\ r \in Nat
  BY <1>1, <1>2, MaxOfNaturals
<1>4. NextRow(units) = 1 + Max(S)
  BY DEF NextRow, S
<1> QED
  BY <1>3, <1>4

\* Publishing profile q's slot s, as a contribution or as a retirement.
Publishes(q, s) ==
    \/ Retire(q, s)
    \/ \E inputs \in Inputs, verified \in BOOLEAN :
          Install(q, s, inputs, verified)

\* The profile's generation advances, no other profile's rows change, and a
\* verdict that is left is of a row whose unit is left.
LEMMA PublicationEffect ==
    ASSUME TypeOK, NEW q \in Profile, NEW s \in Slot, Publishes(q, s)
    PROVE  /\ lock = Publisher
           /\ gen' = [gen EXCEPT ![q] = @ + 1]
           /\ unit' \in [Row -> Unit \cup {NoUnit}]
           /\ verdict' \in [Row -> Verdict \cup {NoVerdict}]
           /\ \A o \in Profile : o # q => Snapshot(o)' = Snapshot(o)
           /\ (\A r \in Row : verdict[r] # NoVerdict => unit[r] # NoUnit)
              => \A r \in Row : verdict'[r] # NoVerdict =>
                    verdict'[r] = verdict[r] /\ unit'[r] = unit[r]
           /\ UNCHANGED <<disk, lock, inspection, held>>
<1> DEFINE left == Without(unit, q, s, NoUnit)
           gone == {r \in Row : /\ unit[r] # NoUnit /\ unit[r].profile = q
                                /\ unit[r].slot = s}
<1>1. left \in [Row -> Unit \cup {NoUnit}]
  BY DEF TypeOK, Without
<1>2. \A r \in Row : left[r] = IF r \in gone THEN NoUnit ELSE unit[r]
  BY DEF Without
<1>3. /\ verdict' = Without(verdict, q, s, NoVerdict) /\ lock = Publisher
      /\ gen' = [gen EXCEPT ![q] = @ + 1]
      /\ UNCHANGED <<disk, lock, inspection, held>>
  BY DEF Publishes, Install, Retire
<1>4. \A r \in Row : verdict'[r] = IF r \in gone THEN NoVerdict ELSE verdict[r]
  BY <1>3 DEF Without
<1>5. verdict' \in [Row -> Verdict \cup {NoVerdict}]
  BY <1>3 DEF Without, TypeOK
<1> HIDE DEF left
<1>6. PICK u \in Unit \cup {NoUnit} :
         /\ unit' = [left EXCEPT ![NextRow(left)] = u] \/ unit' = left
         /\ u # NoUnit => u.profile = q
  <2>1. CASE Retire(q, s)
    BY <2>1 DEF Retire, left
  <2>2. ASSUME NEW inputs \in Inputs, NEW verified \in BOOLEAN,
               Install(q, s, inputs, verified)
        PROVE  \E u \in Unit \cup {NoUnit} :
                  /\ unit' = [left EXCEPT ![NextRow(left)] = u] \/ unit' = left
                  /\ u # NoUnit => u.profile = q
    <3> DEFINE u == [profile |-> q, slot |-> s, inputs |-> inputs,
                     verified |-> verified]
    <3>1. u \in Unit /\ u.profile = q
      BY DEF Unit
    <3>2. unit' = [left EXCEPT ![NextRow(left)] = u]
      BY <2>2 DEF Install, left
    <3> QED
      BY <3>1, <3>2
  <2> QED
    BY <2>1, <2>2 DEF Publishes
<1>7. unit' \in [Row -> Unit \cup {NoUnit}]
  BY <1>1, <1>6
<1>8. \A r \in Row : \/ unit'[r] = left[r]
                     \/ left[r] = NoUnit /\ (unit'[r] # NoUnit => unit'[r].profile = q)
  BY <1>1, <1>6, NextRowIsFree
<1>9. ASSUME NEW o \in Profile, o # q
      PROVE  Snapshot(o)' = Snapshot(o)
  <2>1. \A r \in Row : unit'[r] # unit[r] =>
           /\ unit[r] # NoUnit => unit[r].profile = q
           /\ unit'[r] # NoUnit => unit'[r].profile = q
    BY <1>2, <1>8
  <2> QED
    BY <1>9, <2>1 DEF Snapshot, RowsOf
<1>10. ASSUME \A r \in Row : verdict[r] # NoVerdict => unit[r] # NoUnit,
              NEW r \in Row, verdict'[r] # NoVerdict
       PROVE  verdict'[r] = verdict[r] /\ unit'[r] = unit[r]
  BY <1>2, <1>4, <1>8, <1>10
<1> QED
  BY <1>3, <1>5, <1>7, <1>9, <1>10

----------------------------------------------------------------------------
\* Types are kept.

LEMMA ReturnType ==
    ASSUME TypeOK, NEW i \in Process, NEW outcome \in InspectionOutcome,
           NEW published \in BOOLEAN, NEW downgraded \in BOOLEAN,
           NEW units \in [Row -> Verdict \cup {NoVerdict}],
           Return(i, outcome, published, downgraded, units)
    PROVE  /\ pc' \in [Process -> {"idle", "first", "locking", "locked",
                                   "second", "concluding", "checked",
                                   "incomplete"}]
           /\ plan' \in [Process -> Plan \cup {NoPlan}]
           /\ first' \in [Process -> Probe]
           /\ second' \in [Process -> Probe]
           /\ cause' \in [Process -> InspectionOutcome]
           /\ report' \in [Process -> Report \cup {NoReport}]
<1>1. [outcome |-> outcome, published |-> published,
       downgraded |-> downgraded, units |-> units] \in Report
  BY DEF Report
<1> HIDE DEF Report
<1> QED
  BY <1>1, NoProbeType DEF TypeOK, Return, InspectionOutcome

LEMMA LockType ==
    ASSUME TypeOK, NEW p \in Inspector \cup {Publisher}, Lock(p)
    PROVE  /\ lock' \in Inspector \cup {Publisher, NoProc}
           /\ held' \in [File -> SUBSET (Content \cup {Absent})]
BY DEF TypeOK, Lock

LEMMA UnlockType ==
    ASSUME Unlock
    PROVE  /\ lock' \in Inspector \cup {Publisher, NoProc}
           /\ held' \in [File -> SUBSET (Content \cup {Absent})]
BY DEF Unlock

\* The world's steps leave the inspections alone.
LEMMA WorldType ==
    ASSUME TypeOK, World
    PROVE  TypeOK'
<1>1. CASE \E f \in File, c \in Content \cup {Absent} : Edit(f, c)
  <2>1. PICK f \in File, c \in Content \cup {Absent} : Edit(f, c)
    BY <1>1
  <2>2. disk' \in [File -> Content \cup {Absent}]
    BY <2>1 DEF TypeOK, Edit
  <2>3. held' \in [File -> SUBSET (Content \cup {Absent})]
    BY <2>1 DEF TypeOK, Edit
  <2> QED
    BY <2>1, <2>2, <2>3 DEF TypeOK, Edit, inspection
<1>2. CASE PublisherLocks
  BY <1>2, LockType DEF TypeOK, PublisherLocks, inspection
<1>3. CASE PublisherUnlocks
  BY <1>3, UnlockType DEF TypeOK, PublisherUnlocks, inspection
<1>4. ASSUME NEW q \in Profile, NEW s \in Slot, Publishes(q, s)
      PROVE  TypeOK'
  <2>1. gen' \in [Profile -> Nat]
    BY <1>4, PublicationEffect DEF TypeOK
  <2> QED
    BY <1>4, <2>1, PublicationEffect DEF TypeOK, inspection
<1> QED
  BY <1>1, <1>2, <1>3, <1>4 DEF World, Publishes

LEMMA LoadType ==
    ASSUME TypeOK, NEW i \in Process, NEW q \in Profile, Load(i, q)
    PROVE  TypeOK'
<1>1. [profile |-> q, gen |-> gen[q], rows |-> Snapshot(q)] \in Plan
  BY SnapshotType DEF TypeOK, Plan
<1> HIDE DEF Plan
<1>2. plan' \in [Process -> Plan \cup {NoPlan}]
  BY <1>1 DEF TypeOK, Load
<1> QED
  BY <1>2 DEF TypeOK, Load

LEMMA PassesType ==
    ASSUME TypeOK, NEW i \in Process, Passes(i)
    PROVE  TypeOK'
<1>1. PICK f \in File : ProbeFirst(i, f) \/ ProbeSecond(i, f)
  BY DEF Passes
<1>2. /\ [g \in DOMAIN first[i] \cup {f} |->
             IF g = f THEN disk[f] ELSE first[i][g]] \in Probe
      /\ [g \in DOMAIN second[i] \cup {f} |->
             IF g = f THEN disk[f] ELSE second[i][g]] \in Probe
  <2>1. first[i] \in Probe /\ second[i] \in Probe
    BY DEF TypeOK
  <2>2. disk[f] \in Content \cup {Absent}
    BY DEF TypeOK
  <2> QED
    BY <2>1, <2>2, OneMoreProbe
<1> QED
  BY <1>1, <1>2 DEF TypeOK, ProbeFirst, ProbeSecond

LEMMA AbortType ==
    ASSUME TypeOK, NEW i \in Process, Abort(i)
    PROVE  TypeOK'
BY NoProbeType DEF TypeOK, Abort, Unlock, InspectionOutcome

LEMMA InspectType ==
    ASSUME TypeOK, NEW i \in Inspector, Inspect(i)
    PROVE  TypeOK'
<1>1. i \in Process /\ cause[i] \in InspectionOutcome
  BY DEF TypeOK, Process
<1>2. CASE Passes(i)
  BY <1>1, <1>2, PassesType
<1>3. CASE \/ FirstPassDone(i) \/ BudgetEnds(i) \/ LockBusy(i)
           \/ CheckGeneration(i) \/ SecondPassDone(i)
  BY <1>1, <1>3
     DEF TypeOK, FirstPassDone, BudgetEnds, LockBusy, CheckGeneration,
         SecondPassDone, Goto, Incomplete, InspectionOutcome
<1>4. CASE TakeLock(i)
  <2>1. Lock(i)
    BY <1>4 DEF TakeLock
  <2> QED
    BY <1>1, <1>4, <2>1, LockType DEF TypeOK, TakeLock, Goto
<1>5. CASE IncompleteTakesLock(i)
  BY <1>1, <1>5, LockType DEF TypeOK, IncompleteTakesLock, inspection
<1>6. CASE IncompleteBusy(i)
  <2>1. Conclude(plan[i], first[i], NoProbe, TRUE) \in
           [Row -> Verdict \cup {NoVerdict}]
    BY ConcludeType
  <2> QED
    BY <1>1, <1>6, <2>1, ReturnType DEF TypeOK, IncompleteBusy
<1>7. CASE Persist(i)
  <2> DEFINE units == Conclude(plan[i], first[i], second[i], FALSE)
  <2>1. units \in [Row -> Verdict \cup {NoVerdict}]
    BY ConcludeType
  <2>2. /\ verdict' = [r \in Row |-> IF units[r] = NoVerdict THEN verdict[r]
                                     ELSE units[r]]
        /\ Unlock
        /\ Return(i, "complete", TRUE, FALSE, units)
        /\ UNCHANGED <<disk, gen, unit>>
    BY <1>7 DEF Persist
  <2> HIDE DEF units
  <2>3. verdict' \in [Row -> Verdict \cup {NoVerdict}]
    BY <2>1, <2>2 DEF TypeOK
  <2> QED
    BY <1>1, <2>1, <2>2, <2>3, ReturnType, UnlockType
       DEF TypeOK, InspectionOutcome
<1>8. CASE IncompletePersist(i)
  <2> DEFINE units == Conclude(plan[i], first[i], NoProbe, TRUE)
             current == gen[plan[i].profile] = plan[i].gen
             stale == [r \in {t \in Row : current /\ units[t] # NoVerdict
                                          /\ units[t].semantic = "stale"}
                          |-> units[r]]
  <2>1. units \in [Row -> Verdict \cup {NoVerdict}]
    BY ConcludeType
  <2>2. /\ verdict' = Downgraded(plan[i], unit, verdict, stale)
        /\ Unlock
        /\ Return(i, cause[i], FALSE, TRUE, units)
        /\ UNCHANGED <<disk, gen, unit>>
    BY <1>8 DEF IncompletePersist
  <2>3. \A r \in DOMAIN stale : stale[r] \in Verdict \cup {NoVerdict}
    BY <2>1
  <2> HIDE DEF units, stale
  <2>4. verdict' \in [Row -> Verdict \cup {NoVerdict}]
    BY <2>2, <2>3, LoweredType DEF TypeOK, Downgraded
  <2> QED
    BY <1>1, <2>1, <2>2, <2>4, ReturnType, UnlockType DEF TypeOK
<1> QED
  BY <1>2, <1>3, <1>4, <1>5, <1>6, <1>7, <1>8 DEF Inspect

LEMMA ReadInspectType ==
    ASSUME TypeOK, NEW i \in ReadOnly, ReadInspect(i)
    PROVE  TypeOK'
<1>1. i \in Process
  BY DEF Process
<1>2. CASE Passes(i)
  BY <1>1, <1>2, PassesType
<1>3. \A b, one : Conclude(plan[i], first[i], b, one) \in
                     [Row -> Verdict \cup {NoVerdict}]
  BY ConcludeType
<1>4. CASE /\ Goto(i, "second") \/ Goto(i, "checked")
           /\ UNCHANGED <<disk, lock, gen, unit, verdict, held>>
  BY <1>1, <1>4 DEF TypeOK, Goto
<1>5. ASSUME NEW outcome \in InspectionOutcome, NEW b, NEW one,
             Return(i, outcome, FALSE, FALSE,
                    Conclude(plan[i], first[i], b, one)),
             UNCHANGED <<disk, lock, gen, unit, verdict, held>>
      PROVE  TypeOK'
  BY <1>1, <1>3, <1>5, ReturnType DEF TypeOK
<1> QED
  BY <1>1, <1>2, <1>4, <1>5
     DEF TypeOK, ReadInspect, ReadFirstPassDone, ReadBudgetEnds,
         ReadCheckGeneration, ReadComplete, InspectionOutcome

LEMMA TypeStep ==
    ASSUME TypeOK, [Next]_vars
    PROVE  TypeOK'
<1>1. CASE UNCHANGED vars
  BY <1>1 DEF TypeOK, vars, inspection
<1> QED
  BY <1>1, WorldType, LoadType, InspectType, ReadInspectType, AbortType
     DEF Next

----------------------------------------------------------------------------
\* The lock is kept.

LEMMA WorldControl ==
    ASSUME TypeOK, World
    PROVE  /\ UNCHANGED <<pc, plan, first, second, cause, report>>
           /\ lock' = lock \/ (lock \in {Publisher, NoProc}
                               /\ lock' \in {Publisher, NoProc})
BY PublicationEffect
   DEF World, Publishes, Edit, PublisherLocks, PublisherUnlocks, Lock, Unlock,
       inspection

LEMMA LockInvStep ==
    ASSUME TypeOK, LockInv, [Next]_vars
    PROVE  LockInv'
<1>0. /\ \A i \in Inspector : i \in Process /\ i \notin ReadOnly
                              /\ i # Publisher /\ i # NoProc
      /\ \A i \in ReadOnly : i \in Process /\ i \notin Inspector
      /\ pc \in [Process -> {"idle", "first", "locking", "locked", "second",
                             "concluding", "checked", "incomplete"}]
  BY ParametersAssumption, AbsentValuesAssumption DEF Process, TypeOK
<1>1. CASE UNCHANGED vars
  BY <1>1 DEF LockInv, vars, inspection
<1>2. CASE World
  BY <1>0, <1>2, WorldControl DEF LockInv
<1>3. CASE \E i \in Process, q \in Profile : Load(i, q)
  BY <1>0, <1>3 DEF LockInv, Load
<1>4. CASE \E i \in Inspector : Inspect(i)
  <2>1. PICK i \in Inspector : Inspect(i)
    BY <1>4
  <2>2. \A j \in Process : j # i => pc'[j] = pc[j]
    BY <1>0, <2>1
       DEF Inspect, Passes, ProbeFirst, ProbeSecond, FirstPassDone,
           BudgetEnds, TakeLock, LockBusy, CheckGeneration, SecondPassDone,
           Persist, IncompleteTakesLock, IncompleteBusy, IncompletePersist,
           Goto, Incomplete, Return, inspection
  <2>3. lock' = lock \/ lock \in {NoProc, i}
    BY <1>0, <2>1
       DEF LockInv, Inspect, Passes, ProbeFirst, ProbeSecond, FirstPassDone,
           BudgetEnds, TakeLock, LockBusy, CheckGeneration, SecondPassDone,
           Persist, IncompleteTakesLock, IncompleteBusy, IncompletePersist,
           Lock
  <2>4. /\ pc'[i] # "checked"
        /\ pc'[i] \in {"locked", "second", "concluding"} => lock' = i
    BY <1>0, <2>1
       DEF LockInv, Inspect, Passes, ProbeFirst, ProbeSecond, FirstPassDone,
           BudgetEnds, TakeLock, LockBusy, CheckGeneration, SecondPassDone,
           Persist, IncompleteTakesLock, IncompleteBusy, IncompletePersist,
           Goto, Incomplete, Return, inspection, Lock
  <2> QED
    BY <1>0, <2>2, <2>3, <2>4 DEF LockInv
<1>5. CASE \E i \in ReadOnly : ReadInspect(i)
  BY <1>0, <1>5
     DEF LockInv, ReadInspect, Passes, ProbeFirst, ProbeSecond,
         ReadFirstPassDone, ReadBudgetEnds, ReadCheckGeneration,
         ReadComplete, Goto, Return
<1>6. CASE \E i \in Process : Abort(i)
  BY <1>0, <1>6 DEF LockInv, Abort, Unlock
<1> QED
  BY <1>1, <1>2, <1>3, <1>4, <1>5, <1>6 DEF Next

----------------------------------------------------------------------------
\* A plan is of the profile's present units unless the generation moved on.

\* After any step, an inspection under way has the plan it had.
LEMMA PlanKept ==
    ASSUME TypeOK, [Next]_vars, NEW i \in Process, pc'[i] # "idle",
           ~\E q \in Profile : Load(i, q)
    PROVE  pc[i] # "idle" /\ plan'[i] = plan[i]
<1>0. /\ Inspector \subseteq Process /\ ReadOnly \subseteq Process
      /\ DOMAIN pc = Process /\ DOMAIN plan = Process
  BY DEF Process, TypeOK
<1>1. CASE UNCHANGED vars
  BY <1>1 DEF vars, inspection
<1>2. CASE World
  BY <1>2, WorldControl
<1>3. CASE \E j \in Process, q \in Profile : Load(j, q)
  BY <1>0, <1>3 DEF Load
<1>4. CASE \E j \in Inspector : Inspect(j)
  BY <1>0, <1>4
     DEF Inspect, Passes, ProbeFirst, ProbeSecond, FirstPassDone, BudgetEnds,
         TakeLock, LockBusy, CheckGeneration, SecondPassDone, Persist,
         IncompleteTakesLock, IncompleteBusy, IncompletePersist, Goto,
         Incomplete, Return, inspection, AtDeadlineCheck
<1>5. CASE \E j \in ReadOnly : ReadInspect(j)
  BY <1>0, <1>5
     DEF ReadInspect, Passes, ProbeFirst, ProbeSecond, ReadFirstPassDone,
         ReadBudgetEnds, ReadCheckGeneration, ReadComplete, Goto, Return
<1>6. CASE \E j \in Process : Abort(j)
  BY <1>0, <1>6 DEF Abort
<1> QED
  BY <1>1, <1>2, <1>3, <1>4, <1>5, <1>6 DEF Next

\* Only a publication touches the rows.
LEMMA RowsKept ==
    ASSUME [Next]_vars
    PROVE  \/ UNCHANGED <<gen, unit>>
           \/ \E q \in Profile, s \in Slot : Publishes(q, s)
BY DEF Next, vars, World, Publishes, Edit, PublisherLocks, PublisherUnlocks,
       Load, Inspect, ReadInspect, Passes, ProbeFirst, ProbeSecond,
       FirstPassDone, BudgetEnds, TakeLock, LockBusy, CheckGeneration,
       SecondPassDone, Persist, IncompleteTakesLock, IncompleteBusy,
       IncompletePersist, ReadFirstPassDone, ReadBudgetEnds,
       ReadCheckGeneration, ReadComplete, Abort

LEMMA NewPlan ==
    ASSUME TypeOK, NEW q \in Profile
    PROVE  IsPlan([profile |-> q, gen |-> gen[q], rows |-> Snapshot(q)])
<1>1. gen[q] \in Nat /\ Snapshot(q) \in [Row -> Unit \cup {NoUnit}]
  BY SnapshotType DEF TypeOK
<1>2. [profile |-> q, gen |-> gen[q], rows |-> Snapshot(q)] \in Plan
  BY <1>1 DEF Plan
<1>3. \A r \in Row : Snapshot(q)[r] # NoUnit => Snapshot(q)[r].profile = q
  BY SnapshotType
<1> QED
  BY <1>1, <1>2, <1>3 DEF IsPlan

LEMMA IsPlanKept ==
    ASSUME TypeOK, [Next]_vars, NEW p, IsPlan(p)
    PROVE  IsPlan(p)'
<1>1. p.profile \in Profile /\ p.gen \in Nat /\ gen[p.profile] \in Nat
  BY DEF IsPlan, Plan, TypeOK
<1>2. CASE UNCHANGED <<gen, unit>>
  <2>1. Snapshot(p.profile)' = Snapshot(p.profile)
    BY <1>2 DEF Snapshot, RowsOf
  <2> QED
    BY <1>2, <2>1 DEF IsPlan
<1>3. ASSUME NEW q \in Profile, NEW s \in Slot, Publishes(q, s)
      PROVE  IsPlan(p)'
  <2>1. /\ gen' = [gen EXCEPT ![q] = @ + 1]
        /\ \A o \in Profile : o # q => Snapshot(o)' = Snapshot(o)
    BY <1>3, PublicationEffect
  <2>2. CASE p.profile = q
    <3>1. gen'[p.profile] = gen[p.profile] + 1
      BY <1>1, <2>1, <2>2 DEF TypeOK
    <3> QED
      BY <1>1, <3>1 DEF IsPlan
  <2>3. CASE p.profile # q
    <3>1. gen'[p.profile] = gen[p.profile]
      BY <1>1, <2>1, <2>3 DEF TypeOK
    <3>2. Snapshot(p.profile)' = Snapshot(p.profile)
      BY <1>1, <2>1, <2>3
    <3> QED
      BY <3>1, <3>2 DEF IsPlan
  <2> QED
    BY <2>2, <2>3
<1> QED
  BY <1>2, <1>3, RowsKept

LEMMA PlanInvStep ==
    ASSUME TypeOK, PlanInv, [Next]_vars
    PROVE  PlanInv'
<1> SUFFICES ASSUME NEW i \in Process, pc'[i] # "idle"
             PROVE  IsPlan(plan[i])'
  BY DEF PlanInv
<1>1. CASE \E q \in Profile : Load(i, q)
  <2>1. PICK q \in Profile : Load(i, q)
    BY <1>1
  <2>2. PICK p : p = [profile |-> q, gen |-> gen[q], rows |-> Snapshot(q)]
    OBVIOUS
  <2>3. plan'[i] = p
    BY <2>1, <2>2 DEF Load, TypeOK
  <2>4. IsPlan(p)
    BY <2>2, NewPlan
  <2>5. IsPlan(p)'
    BY <2>4, IsPlanKept
  <2> QED
    BY <2>3, <2>5 DEF IsPlan
<1>2. CASE ~\E q \in Profile : Load(i, q)
  <2>1. pc[i] # "idle" /\ plan'[i] = plan[i]
    BY <1>2, PlanKept
  <2>2. PICK p : p = plan[i]
    OBVIOUS
  <2>3. IsPlan(p)'
    BY <2>1, <2>2, IsPlanKept DEF PlanInv
  <2> QED
    BY <2>1, <2>2, <2>3 DEF IsPlan
<1> QED
  BY <1>1, <1>2

----------------------------------------------------------------------------
\* What the second pass has hashed was there under the lock.

LEMMA SecondPassInvStep ==
    ASSUME TypeOK, LockInv, SecondPassInv, [Next]_vars
    PROVE  SecondPassInv'
<1>0. /\ \A i \in Inspector : i \in Process /\ i \notin ReadOnly
                              /\ i # Publisher /\ i # NoProc
      /\ \A i \in ReadOnly : i \in Process /\ i \notin Inspector
      /\ TypeOK /\ Publisher # NoProc
  BY ParametersAssumption, AbsentValuesAssumption DEF Process
<1>1. CASE UNCHANGED vars
  BY <1>1 DEF SecondPassInv, vars, inspection
<1>2. CASE World
  <2>1. CASE \E f \in File, c \in Content \cup {Absent} : Edit(f, c)
    <3>1. PICK f \in File, c \in Content \cup {Absent} : Edit(f, c)
      BY <2>1
    <3>2. \A g \in File : held[g] \subseteq held'[g]
      BY <3>1 DEF Edit, TypeOK
    <3>3. lock' # NoProc => \A g \in File : disk'[g] \in held'[g]
      BY <3>1 DEF Edit, TypeOK, SecondPassInv
    <3>4. \A i \in Inspector : DOMAIN second[i] \subseteq File
      BY <1>0, ProbeParts DEF TypeOK
    <3> QED
      BY <3>1, <3>2, <3>3, <3>4 DEF SecondPassInv, Edit, inspection
  <2>2. CASE PublisherLocks \/ PublisherUnlocks
    <3>1. \A i \in Inspector : pc[i] \notin {"second", "concluding"}
      BY <1>0, <2>2 DEF LockInv, PublisherLocks, PublisherUnlocks, Lock
    <3>2. lock' # NoProc => \A f \in File : disk'[f] \in held'[f]
      BY <2>2 DEF PublisherLocks, PublisherUnlocks, Lock, Unlock
    <3> QED
      BY <2>2, <3>1, <3>2
         DEF SecondPassInv, PublisherLocks, PublisherUnlocks, inspection
  <2>3. ASSUME NEW q \in Profile, NEW s \in Slot, Publishes(q, s)
        PROVE  SecondPassInv'
    <3>1. lock = Publisher /\ UNCHANGED <<disk, lock, inspection, held>>
      BY <2>3, PublicationEffect
    <3>2. \A i \in Inspector : pc[i] \notin {"second", "concluding"}
      BY <1>0, <3>1 DEF LockInv
    <3> QED
      BY <3>1, <3>2 DEF SecondPassInv, inspection
  <2> QED
    BY <1>2, <2>1, <2>2, <2>3 DEF World, Publishes
<1>3. CASE \E i \in Process, q \in Profile : Load(i, q)
  BY <1>0, <1>3 DEF SecondPassInv, Load, TypeOK
<1>4. CASE \E i \in Inspector : Inspect(i)
  <2>1. PICK i \in Inspector : Inspect(i)
    BY <1>4
  <2>2. CASE Passes(i)
    <3>1. PICK f \in File : ProbeFirst(i, f) \/ ProbeSecond(i, f)
      BY <2>2 DEF Passes
    <3>2. CASE ProbeFirst(i, f)
      BY <3>2 DEF SecondPassInv, ProbeFirst
    <3>3. CASE ProbeSecond(i, f)
      <4>1. /\ pc[i] = "second" /\ lock = i
            /\ second' = [second EXCEPT ![i] =
                  [g \in DOMAIN @ \cup {f} |-> IF g = f THEN disk[f] ELSE @[g]]]
            /\ UNCHANGED <<disk, lock, gen, pc, plan, held>>
        BY <3>3 DEF ProbeSecond, LockInv
      <4>2. \A j \in Process : j # i => second'[j] = second[j]
        BY <1>0, <4>1 DEF TypeOK
      <4>3. \A g \in DOMAIN second'[i] : second'[i][g] \in held[g]
        BY <1>0, <4>1 DEF TypeOK, SecondPassInv
      <4> QED
        BY <1>0, <4>1, <4>2, <4>3 DEF SecondPassInv
    <3> QED
      BY <3>1, <3>2, <3>3
  <2>3. CASE TakeLock(i) \/ IncompleteTakesLock(i)
    <3>1. /\ lock = NoProc /\ lock' = i /\ held' = [f \in File |-> {disk[f]}]
          /\ UNCHANGED <<disk, gen, plan, second>>
          /\ pc' = pc \/ pc' = [pc EXCEPT ![i] = "locked"]
          /\ pc' # pc => pc[i] = "locking"
      BY <2>3 DEF TakeLock, IncompleteTakesLock, Lock, Goto, inspection
    <3>2. \A j \in Inspector : pc[j] \notin {"second", "concluding"}
      BY <1>0, <3>1 DEF LockInv
    <3> QED
      BY <1>0, <3>1, <3>2 DEF SecondPassInv, TypeOK
  <2>4. CASE \/ FirstPassDone(i) \/ BudgetEnds(i) \/ LockBusy(i)
             \/ CheckGeneration(i) \/ SecondPassDone(i)
    <3>1. /\ UNCHANGED <<disk, lock, gen, held, plan, second>>
          /\ \A j \in Process : j # i => pc'[j] = pc[j]
      BY <1>0, <2>4
         DEF FirstPassDone, BudgetEnds, LockBusy, CheckGeneration,
             SecondPassDone, Goto, Incomplete, TypeOK
    <3>2. CASE FirstPassDone(i) \/ BudgetEnds(i) \/ LockBusy(i)
      BY <1>0, <3>1, <3>2
         DEF FirstPassDone, BudgetEnds, LockBusy, Goto, Incomplete, TypeOK,
             SecondPassInv
    <3>3. CASE CheckGeneration(i)
      <4>1. /\ pc[i] = "locked"
            /\ pc'[i] \in {"second", "incomplete"}
            /\ pc'[i] = "second" => plan[i].gen = gen[plan[i].profile]
        BY <1>0, <3>3 DEF CheckGeneration, Goto, Incomplete, TypeOK
      <4>2. second[i] = NoProbe /\ DOMAIN NoProbe = {}
        BY <1>0, <4>1, NoProbeType DEF SecondPassInv
      <4> QED
        BY <1>0, <3>1, <4>1, <4>2 DEF SecondPassInv
    <3>4. CASE SecondPassDone(i)
      BY <1>0, <3>1, <3>4
         DEF SecondPassDone, Unprobed, Goto, TypeOK, SecondPassInv
    <3> QED
      BY <2>4, <3>2, <3>3, <3>4
  <2>5. CASE Persist(i) \/ IncompleteBusy(i) \/ IncompletePersist(i)
    <3>1. /\ UNCHANGED <<disk, gen>>
          /\ pc'[i] = "idle" /\ second'[i] = NoProbe
          /\ \A j \in Process : j # i =>
                pc'[j] = pc[j] /\ second'[j] = second[j] /\ plan'[j] = plan[j]
      BY <1>0, <2>5
         DEF Persist, IncompleteBusy, IncompletePersist, Return, TypeOK
    <3>2. \/ UNCHANGED <<lock, held>>
          \/ lock = i /\ lock' = NoProc
      BY <2>5 DEF Persist, IncompleteBusy, IncompletePersist, Unlock, LockInv
    <3>3. lock = i => \A j \in Inspector : j # i =>
                         pc[j] \notin {"second", "concluding"}
      BY DEF LockInv
    <3> QED
      BY <1>0, <3>1, <3>2, <3>3 DEF SecondPassInv
  <2> QED
    BY <2>1, <2>2, <2>3, <2>4, <2>5 DEF Inspect
<1>5. CASE \E i \in ReadOnly : ReadInspect(i)
  <2>1. PICK i \in ReadOnly : ReadInspect(i)
    BY <1>5
  <2>2. /\ UNCHANGED <<disk, lock, gen, held>>
        /\ \A j \in Process : j # i =>
              pc'[j] = pc[j] /\ second'[j] = second[j] /\ plan'[j] = plan[j]
    BY <1>0, <2>1
       DEF TypeOK, ReadInspect, Passes, ProbeFirst, ProbeSecond,
           ReadFirstPassDone, ReadBudgetEnds, ReadCheckGeneration,
           ReadComplete, Goto, Return
  <2>3. pc'[i] \in {"idle", "first", "locking", "locked"} =>
           second'[i] = NoProbe
    BY <1>0, <2>1
       DEF TypeOK, SecondPassInv, ReadInspect, Passes, ProbeFirst,
           ProbeSecond, ReadFirstPassDone, ReadBudgetEnds,
           ReadCheckGeneration, ReadComplete, Goto, Return
  <2> QED
    BY <1>0, <2>1, <2>2, <2>3 DEF SecondPassInv
<1>6. CASE \E i \in Process : Abort(i)
  BY <1>0, <1>6 DEF TypeOK, SecondPassInv, LockInv, Abort, Unlock
<1> QED
  BY <1>1, <1>2, <1>3, <1>4, <1>5, <1>6 DEF Next

----------------------------------------------------------------------------
\* The steps that write verdicts.

\* Persisting writes each present unit of the profile the verdict of its own
\* inputs.
LEMMA PersistEffect ==
    ASSUME TypeOK, PlanInv, SecondPassInv, NEW i \in Inspector, Persist(i)
    PROVE  /\ plan[i].rows = Snapshot(plan[i].profile)
           /\ UNCHANGED unit
           /\ \A r \in Row :
                 \/ verdict'[r] = verdict[r]
                 \/ /\ unit[r] # NoUnit /\ plan[i].rows[r] = unit[r]
                    /\ unit[r].profile = plan[i].profile
                    /\ verdict'[r] =
                          TwoPassVerdict(unit[r], first[i], second[i])
<1>1. i \in Process /\ pc[i] = "concluding" /\ IsPlan(plan[i])
  BY DEF Persist, Process, PlanInv
<1>2. plan[i].rows = Snapshot(plan[i].profile)
  BY <1>1 DEF SecondPassInv, IsPlan
<1>3. ASSUME NEW r \in Row, plan[i].rows[r] # NoUnit
      PROVE  plan[i].rows[r] = unit[r] /\ unit[r].profile = plan[i].profile
  BY <1>2, <1>3, SnapshotType
<1>4. UNCHANGED unit
  BY DEF Persist
<1>5. ASSUME NEW r \in Row
      PROVE  verdict'[r] = IF plan[i].rows[r] = NoUnit THEN verdict[r]
                           ELSE TwoPassVerdict(plan[i].rows[r], first[i],
                                               second[i])
  BY UnitVerdictType DEF Persist, Conclude, TwoPassVerdict
<1> QED
  BY <1>2, <1>3, <1>4, <1>5

\* An incomplete inspection lowers the profile's verdicts, and calls stale
\* only present units that its first pass found changed.
LEMMA IncompletePersistEffect ==
    ASSUME TypeOK, PlanInv, NEW i \in Inspector, IncompletePersist(i)
    PROVE  /\ UNCHANGED unit
           /\ \A r \in Row :
                 \/ /\ verdict'[r] = verdict[r]
                    /\ verdict[r] = NoVerdict
                       \/ r \notin RowsOf(unit, plan[i].profile)
                 \/ /\ verdict[r] # NoVerdict
                    /\ verdict'[r] = Lowered(verdict[r])
                 \/ /\ unit[r] # NoUnit
                    /\ verdict'[r] =
                          FirstPassVerdict(unit[r], first[i])
                    /\ verdict'[r].semantic = "stale"
<1> DEFINE units == Conclude(plan[i], first[i], NoProbe, TRUE)
           current == gen[plan[i].profile] = plan[i].gen
           stale == [r \in {t \in Row : current /\ units[t] # NoVerdict
                                        /\ units[t].semantic = "stale"}
                        |-> units[r]]
<1>1. i \in Process /\ pc[i] = "incomplete" /\ IsPlan(plan[i])
  BY DEF IncompletePersist, Process, PlanInv
<1>2. verdict' = Downgraded(plan[i], unit, verdict, stale) /\ UNCHANGED unit
  BY DEF IncompletePersist
<1>3. ASSUME NEW r \in Row, current, units[r] # NoVerdict
      PROVE  /\ unit[r] # NoUnit
             /\ units[r] = FirstPassVerdict(unit[r], first[i])
  <2>1. plan[i].rows = Snapshot(plan[i].profile)
    BY <1>1, <1>3 DEF IsPlan
  <2>2. plan[i].rows[r] # NoUnit
    BY <1>3 DEF Conclude
  <2>3. plan[i].rows[r] = unit[r]
    BY <2>1, <2>2, SnapshotType
  <2> QED
    BY <2>2, <2>3 DEF Conclude, FirstPassVerdict
<1>4. ASSUME NEW r \in DOMAIN stale
      PROVE  /\ r \in Row /\ unit[r] # NoUnit
             /\ stale[r] = FirstPassVerdict(unit[r], first[i])
             /\ stale[r].semantic = "stale"
  BY <1>3, <1>4
<1> HIDE DEF stale
<1> QED
  BY <1>2, <1>4 DEF Downgraded

\* Every step's effect on the verdicts.
LEMMA VerdictSteps ==
    ASSUME [Next]_vars
    PROVE  \/ UNCHANGED <<unit, verdict>>
           \/ \E q \in Profile, s \in Slot : Publishes(q, s)
           \/ \E i \in Inspector : Persist(i) \/ IncompletePersist(i)
BY DEF Next, vars, World, Publishes, Edit, PublisherLocks, PublisherUnlocks,
       Load, Inspect, ReadInspect, Passes, ProbeFirst, ProbeSecond,
       FirstPassDone, BudgetEnds, TakeLock, LockBusy, CheckGeneration,
       SecondPassDone, IncompleteTakesLock, IncompleteBusy,
       ReadFirstPassDone, ReadBudgetEnds, ReadCheckGeneration,
       ReadComplete, Abort

LEMMA VerdictsAreOfLiveUnitsStep ==
    ASSUME FreshnessInv, [Next]_vars
    PROVE  VerdictsAreOfLiveUnits'
<1>0. TypeOK /\ PlanInv /\ SecondPassInv /\ VerdictsAreOfLiveUnits
  BY DEF FreshnessInv
<1> DEFINE Good(v, u) ==
              /\ u # NoUnit
              /\ "fresh" \in {v.semantic, v.context} => u.verified
              /\ v.semantic = "fresh" => v.context = "fresh"
<1>1. \A r \in Row : verdict[r] # NoVerdict => Good(verdict[r], unit[r])
  BY <1>0 DEF VerdictsAreOfLiveUnits
<1> SUFFICES ASSUME NEW r \in Row, verdict'[r] # NoVerdict
             PROVE  Good(verdict'[r], unit'[r])
  BY DEF VerdictsAreOfLiveUnits
<1>2. CASE UNCHANGED <<unit, verdict>>
  BY <1>1, <1>2
<1>3. ASSUME NEW q \in Profile, NEW s \in Slot, Publishes(q, s)
      PROVE  Good(verdict'[r], unit'[r])
  <2>1. verdict'[r] = verdict[r] /\ unit'[r] = unit[r]
    BY <1>0, <1>1, <1>3, PublicationEffect
  <2> QED
    BY <1>1, <2>1
<1>4. ASSUME NEW i \in Inspector, Persist(i)
      PROVE  Good(verdict'[r], unit'[r])
  <2>1. unit'[r] = unit[r]
    BY <1>0, <1>4, PersistEffect
  <2>2. CASE verdict'[r] = verdict[r]
    BY <1>1, <2>1, <2>2
  <2>3. CASE /\ unit[r] # NoUnit
             /\ verdict'[r] = TwoPassVerdict(unit[r], first[i], second[i])
    <3>1. PICK v : v = verdict'[r]
      OBVIOUS
    <3>2. v = TwoPassVerdict(unit[r], first[i], second[i])
      BY <2>3, <3>1
    <3>3. v.semantic = "fresh" \/ v.context = "fresh" =>
             unit[r].verified /\ (v.semantic = "fresh" => v.context = "fresh")
      BY <3>2, FreshVerdict
    <3> QED
      BY <2>1, <2>3, <3>1, <3>3
  <2> QED
    BY <1>0, <1>4, <2>2, <2>3, PersistEffect
<1>5. ASSUME NEW i \in Inspector, IncompletePersist(i)
      PROVE  Good(verdict'[r], unit'[r])
  <2>1. unit'[r] = unit[r]
    BY <1>0, <1>5, IncompletePersistEffect
  <2>2. CASE verdict'[r] = verdict[r]
    BY <1>1, <2>1, <2>2
  <2>3. CASE verdict[r] # NoVerdict /\ verdict'[r] = Lowered(verdict[r])
    <3>1. verdict[r] \in Verdict
      BY <1>0, <2>3 DEF TypeOK
    <3> QED
      BY <1>1, <2>1, <2>3, <3>1, LoweredType
  <2>4. CASE /\ unit[r] # NoUnit
             /\ verdict'[r] = FirstPassVerdict(unit[r], first[i])
    <3>1. "fresh" \notin {verdict'[r].semantic, verdict'[r].context}
      BY <2>4, FirstPassIsNeverFresh
    <3> QED
      BY <2>1, <2>4, <3>1
  <2> QED
    BY <1>0, <1>5, <2>2, <2>3, <2>4, IncompletePersistEffect
<1> QED
  BY <1>2, <1>3, <1>4, <1>5, VerdictSteps

----------------------------------------------------------------------------
LEMMA InitFreshnessInv ==
    ASSUME Init
    PROVE  FreshnessInv
<1>1. TypeOK
  BY NoProbeType DEF Init, TypeOK, InspectionOutcome
<1>2. LockInv /\ PlanInv /\ SecondPassInv
  BY DEF Init, LockInv, PlanInv, SecondPassInv, Process
<1>3. VerdictsAreOfLiveUnits
  BY DEF Init, VerdictsAreOfLiveUnits
<1> QED
  BY <1>1, <1>2, <1>3 DEF FreshnessInv

LEMMA FreshnessInvStep ==
    ASSUME FreshnessInv, [Next]_vars
    PROVE  FreshnessInv'
<1>1. TypeOK /\ LockInv /\ PlanInv /\ SecondPassInv
  BY DEF FreshnessInv
<1> QED
  BY <1>1, TypeStep, LockInvStep, PlanInvStep, SecondPassInvStep,
     VerdictsAreOfLiveUnitsStep
     DEF FreshnessInv

\* The inductive invariant of the inspections.
THEOREM FreshnessInvariant == Spec => []FreshnessInv
<1>1. Init => FreshnessInv
  BY InitFreshnessInv
<1>2. FreshnessInv /\ [Next]_vars => FreshnessInv'
  BY FreshnessInvStep
<1> QED
  BY <1>1, <1>2, PTL DEF Spec

\* Every variable of the inspections keeps its type.
THEOREM FreshnessTypeInvariant == Spec => []TypeOK
<1>1. FreshnessInv => TypeOK
  BY DEF FreshnessInv
<1> QED
  BY <1>1, FreshnessInvariant, PTL

\* A verdict is a live unit's, and a unit is called fresh only with its
\* compile context fresh and its build action verified: the unit_freshness
\* rows against the unit rows, after any interleaving of inspections,
\* publications and edits.
THEOREM VerdictsAreOfLiveUnitsInvariant == Spec => []VerdictsAreOfLiveUnits
<1>1. FreshnessInv => VerdictsAreOfLiveUnits
  BY DEF FreshnessInv
<1> QED
  BY <1>1, FreshnessInvariant, PTL

----------------------------------------------------------------------------
\* What a step may write.

LEMMA FreshStepIsWitnessed ==
    ASSUME FreshnessInv, [Next]_vars, NEW r \in Row,
           IsFresh(verdict'[r]), verdict'[r] # verdict[r]
    PROVE  /\ unit'[r] # NoUnit
           /\ unit'[r].verified
           /\ \A f \in InputsOf(unit'[r]) : unit'[r].inputs[f] \in held[f]
<1>0. TypeOK /\ PlanInv /\ SecondPassInv /\ VerdictsAreOfLiveUnits
  BY DEF FreshnessInv
<1>1. \A t \in Row : verdict[t] # NoVerdict => unit[t] # NoUnit
  BY <1>0 DEF VerdictsAreOfLiveUnits
<1>2. PICK i \in Inspector : Persist(i) \/ IncompletePersist(i)
  BY <1>0, <1>1, VerdictSteps, PublicationEffect DEF IsFresh
<1>3. CASE Persist(i)
  <2>1. /\ unit'[r] = unit[r] /\ unit[r] # NoUnit
        /\ plan[i].rows[r] = unit[r] /\ unit[r].profile = plan[i].profile
        /\ verdict'[r] = TwoPassVerdict(unit[r], first[i], second[i])
    BY <1>0, <1>3, PersistEffect
  <2>2. /\ unit[r].verified
        /\ \A f \in InputsOf(unit[r]) : second[i][f] = unit[r].inputs[f]
    BY <2>1, FreshVerdict DEF IsFresh
  <2>3. InputsOf(unit[r]) \subseteq Distinct(plan[i])
    BY <2>1 DEF Distinct, RowsOf
  <2>4. Distinct(plan[i]) \subseteq DOMAIN second[i]
    BY <1>0, <1>3 DEF SecondPassInv, Persist
  <2>5. \A f \in DOMAIN second[i] : second[i][f] \in held[f]
    BY <1>0, <1>3 DEF SecondPassInv, Persist
  <2>6. \A f \in InputsOf(unit[r]) : unit[r].inputs[f] \in held[f]
    BY <2>2, <2>3, <2>4, <2>5
  <2> QED
    BY <2>1, <2>2, <2>6
<1>4. CASE IncompletePersist(i)
  <2>1. verdict[r] # NoVerdict => verdict[r] \in Verdict
    BY <1>0 DEF TypeOK
  <2> QED
    BY <1>0, <1>4, <2>1, IncompletePersistEffect, LoweredType DEF IsFresh
<1> QED
  BY <1>2, <1>3, <1>4

LEMMA StaleStepIsWitnessed ==
    ASSUME FreshnessInv, [Next]_vars, NEW r \in Row,
           IsStale(verdict'[r]), ~IsStale(verdict[r])
    PROVE  \E i \in Inspector, f \in File :
              /\ lock = i
              /\ f \in InputsOf(unit'[r]) \cap DOMAIN first[i]
              /\ \/ first[i][f] # unit'[r].inputs[f]
                 \/ f \in DOMAIN second[i] /\ second[i][f] # first[i][f]
<1>0. TypeOK /\ LockInv /\ PlanInv /\ SecondPassInv /\ VerdictsAreOfLiveUnits
  BY DEF FreshnessInv
<1>1. \A t \in Row : verdict[t] # NoVerdict => unit[t] # NoUnit
  BY <1>0 DEF VerdictsAreOfLiveUnits
<1>2. PICK i \in Inspector : Persist(i) \/ IncompletePersist(i)
  BY <1>0, <1>1, VerdictSteps, PublicationEffect DEF IsStale
<1>3. CASE Persist(i)
  <2>1. /\ unit'[r] = unit[r] /\ unit[r] # NoUnit
        /\ plan[i].rows[r] = unit[r] /\ unit[r].profile = plan[i].profile
        /\ verdict'[r] = TwoPassVerdict(unit[r], first[i], second[i])
    BY <1>0, <1>3, PersistEffect
  <2>2. lock = i
    BY <1>0, <1>3 DEF LockInv, Persist
  <2>3. PICK f \in InputsOf(unit[r]) \cap DOMAIN first[i] :
           first[i][f] # unit[r].inputs[f] \/ second[i][f] # first[i][f]
    BY <2>1, StaleAfterTwoPasses DEF IsStale
  <2>4. f \in File /\ f \in DOMAIN second[i]
    BY <1>0, <1>3, <2>1, <2>3
       DEF Distinct, RowsOf, InputsOf, SecondPassInv, Persist
  <2> QED
    BY <2>1, <2>2, <2>3, <2>4
<1>4. CASE IncompletePersist(i)
  <2>1. verdict[r] # NoVerdict => verdict[r] \in Verdict
    BY <1>0 DEF TypeOK
  <2>2. /\ unit'[r] = unit[r]
        /\ verdict'[r] = FirstPassVerdict(unit[r], first[i])
        /\ verdict'[r].semantic = "stale"
    BY <1>0, <1>4, <2>1, IncompletePersistEffect, LoweredType DEF IsStale
  <2>3. lock = i
    BY <1>4 DEF IncompletePersist
  <2>4. PICK f \in InputsOf(unit[r]) \cap DOMAIN first[i] :
           first[i][f] # unit[r].inputs[f]
    BY <2>2, StaleAfterOnePass
  <2> QED
    BY <2>2, <2>3, <2>4 DEF InputsOf
<1> QED
  BY <1>2, <1>3, <1>4

\* "fresh" has a witness for every input, taken under the lock: no edit, no
\* publication and no reuse of a row id between the snapshot and the commit
\* makes a verdict speak of what was not hashed.
THEOREM FreshIsWitnessedTheorem == Spec => FreshIsWitnessed
<1>1. FreshnessInv /\ [Next]_vars =>
         [\A r \in Row : IsFresh(verdict'[r]) /\ verdict'[r] # verdict[r] =>
             /\ unit'[r] # NoUnit
             /\ unit'[r].verified
             /\ \A f \in InputsOf(unit'[r]) : unit'[r].inputs[f] \in held[f]
         ]_vars
  BY FreshStepIsWitnessed
<1> QED
  BY <1>1, FreshnessInvariant, PTL DEF Spec, FreshIsWitnessed

\* "stale" has a witness too: a changed input of that very unit.
THEOREM StaleIsWitnessedTheorem == Spec => StaleIsWitnessed
<1>1. FreshnessInv /\ [Next]_vars =>
         [\A r \in Row : IsStale(verdict'[r]) /\ ~IsStale(verdict[r]) =>
             \E i \in Inspector, f \in File :
                /\ lock = i
                /\ f \in InputsOf(unit'[r]) \cap DOMAIN first[i]
                /\ \/ first[i][f] # unit'[r].inputs[f]
                   \/ f \in DOMAIN second[i] /\ second[i][f] # first[i][f]
         ]_vars
  BY StaleStepIsWitnessed
<1> QED
  BY <1>1, FreshnessInvariant, PTL DEF Spec, StaleIsWitnessed

----------------------------------------------------------------------------
\* What an inspection returns.

\* A store's inspection reports anew only as it returns, in one of three ways.
LEMMA ReportSteps ==
    ASSUME TypeOK, [Next]_vars, NEW i \in Inspector,
           report'[i] # report[i], report'[i] # NoReport
    PROVE  \/ Persist(i)
           \/ /\ IncompletePersist(i) /\ ~report'[i].published
              /\ report'[i].downgraded
           \/ /\ IncompleteBusy(i) /\ ~report'[i].published
              /\ ~report'[i].downgraded
<1>0. /\ i \in Process /\ i \notin ReadOnly /\ DOMAIN report = Process
      /\ Inspector \subseteq Process /\ ReadOnly \subseteq Process
  BY ParametersAssumption DEF Process, TypeOK
<1>1. CASE UNCHANGED vars
  BY <1>1 DEF vars, inspection
<1>2. CASE World
  BY <1>2, WorldControl
<1>3. CASE \E j \in Process, q \in Profile : Load(j, q)
  BY <1>0, <1>3 DEF Load
<1>4. ASSUME NEW j \in Inspector, Inspect(j)
      PROVE  \/ Persist(i)
             \/ /\ IncompletePersist(i) /\ ~report'[i].published
                /\ report'[i].downgraded
             \/ /\ IncompleteBusy(i) /\ ~report'[i].published
                /\ ~report'[i].downgraded
  <2>1. j = i
    BY <1>0, <1>4
       DEF Inspect, Passes, ProbeFirst, ProbeSecond, FirstPassDone,
           BudgetEnds, TakeLock, LockBusy, CheckGeneration, SecondPassDone,
           Persist, IncompleteTakesLock, IncompleteBusy, IncompletePersist,
           Goto, Incomplete, Return, inspection
  <2>2. Persist(i) \/ IncompleteBusy(i) \/ IncompletePersist(i)
    BY <1>4, <2>1
       DEF Inspect, Passes, ProbeFirst, ProbeSecond, FirstPassDone,
           BudgetEnds, TakeLock, LockBusy, CheckGeneration, SecondPassDone,
           IncompleteTakesLock, Goto, Incomplete, inspection
  <2>3. IncompleteBusy(i) =>
           ~report'[i].published /\ ~report'[i].downgraded
    BY <1>0 DEF IncompleteBusy, Return
  <2>4. IncompletePersist(i) =>
           ~report'[i].published /\ report'[i].downgraded
    BY <1>0 DEF IncompletePersist, Return
  <2> QED
    BY <2>2, <2>3, <2>4
<1>5. CASE \E j \in ReadOnly : ReadInspect(j)
  BY <1>0, <1>5
     DEF ReadInspect, Passes, ProbeFirst, ProbeSecond, ReadFirstPassDone,
         ReadBudgetEnds, ReadCheckGeneration, ReadComplete, Goto, Return
<1>6. CASE \E j \in Process : Abort(j)
  BY <1>6 DEF Abort
<1> QED
  BY <1>1, <1>2, <1>3, <1>4, <1>5, <1>6 DEF Next

LEMMA IncompleteStepLeavesNothingFresh ==
    ASSUME FreshnessInv, [Next]_vars, NEW i \in Inspector,
           report'[i] # report[i], report'[i] # NoReport
    PROVE  \/ report'[i].published
           \/ /\ report'[i].downgraded
              /\ \A r \in RowsOf(unit', plan[i].profile) :
                    verdict'[r] = NoVerdict
                    \/ "fresh" \notin {verdict'[r].semantic,
                                       verdict'[r].context}
           \/ ~report'[i].downgraded /\ UNCHANGED verdict
<1>0. TypeOK /\ PlanInv /\ i \in Process
  BY DEF FreshnessInv, Process
<1>1. CASE Persist(i)
  BY <1>0, <1>1 DEF Persist, Return, TypeOK
<1>2. CASE IncompleteBusy(i) /\ ~report'[i].downgraded
  BY <1>2 DEF IncompleteBusy
<1>3. CASE IncompletePersist(i) /\ report'[i].downgraded
  <2>1. ASSUME NEW r \in RowsOf(unit', plan[i].profile),
               verdict'[r] # NoVerdict
        PROVE  "fresh" \notin {verdict'[r].semantic, verdict'[r].context}
    <3>1. UNCHANGED unit /\ r \in Row /\ r \in RowsOf(unit, plan[i].profile)
      BY <1>0, <1>3, <2>1, IncompletePersistEffect DEF RowsOf
    <3>2. CASE verdict[r] # NoVerdict /\ verdict'[r] = Lowered(verdict[r])
      <4>1. verdict[r] \in Verdict
        BY <1>0, <3>1, <3>2 DEF TypeOK
      <4> QED
        BY <3>2, <4>1, LoweredType
    <3>3. CASE verdict'[r] = FirstPassVerdict(unit[r], first[i])
      BY <3>3, FirstPassIsNeverFresh
    <3> QED
      BY <1>0, <1>3, <2>1, <3>1, <3>2, <3>3, IncompletePersistEffect
  <2> QED
    BY <1>3, <2>1
<1> QED
  BY <1>0, <1>1, <1>2, <1>3, ReportSteps

\* An inspection that returns incomplete leaves no unit of its profile looking
\* verified, or says that it could not write (store.cpp:1972).
THEOREM IncompleteLeavesNothingFreshTheorem ==
    Spec => IncompleteLeavesNothingFresh
<1>1. FreshnessInv /\ [Next]_vars =>
         [\A i \in Inspector :
             report'[i] # report[i] /\ report'[i] # NoReport =>
                \/ report'[i].published
                \/ /\ report'[i].downgraded
                   /\ \A r \in RowsOf(unit', plan[i].profile) :
                         verdict'[r] = NoVerdict
                         \/ "fresh" \notin {verdict'[r].semantic,
                                            verdict'[r].context}
                \/ ~report'[i].downgraded /\ UNCHANGED verdict
         ]_vars
  BY IncompleteStepLeavesNothingFresh
<1> QED
  BY <1>1, FreshnessInvariant, PTL DEF Spec, IncompleteLeavesNothingFresh

\* Only the read-only inspection's second look at the generation makes it one
\* whose result is complete.
LEMMA CheckedSteps ==
    ASSUME TypeOK, [Next]_vars, NEW i \in ReadOnly,
           pc[i] = "second", pc'[i] = "checked"
    PROVE  gen[plan[i].profile] = plan[i].gen
<1>0. /\ i \in Process /\ i \notin Inspector /\ DOMAIN pc = Process
      /\ Inspector \subseteq Process /\ ReadOnly \subseteq Process
  BY ParametersAssumption DEF Process, TypeOK
<1>1. CASE UNCHANGED vars
  BY <1>1 DEF vars, inspection
<1>2. CASE World
  BY <1>2, WorldControl
<1>3. CASE \E j \in Process, q \in Profile : Load(j, q)
  BY <1>0, <1>3 DEF Load
<1>4. CASE \E j \in Inspector : Inspect(j)
  BY <1>0, <1>4
     DEF Inspect, Passes, ProbeFirst, ProbeSecond, FirstPassDone, BudgetEnds,
         TakeLock, LockBusy, CheckGeneration, SecondPassDone, Persist,
         IncompleteTakesLock, IncompleteBusy, IncompletePersist, Goto,
         Incomplete, Return, inspection
<1>5. CASE \E j \in ReadOnly : ReadInspect(j)
  BY <1>0, <1>5
     DEF ReadInspect, Passes, ProbeFirst, ProbeSecond, ReadFirstPassDone,
         ReadBudgetEnds, ReadCheckGeneration, ReadComplete, Goto, Return
<1>6. CASE \E j \in Process : Abort(j)
  BY <1>0, <1>6 DEF Abort
<1> QED
  BY <1>1, <1>2, <1>3, <1>4, <1>5, <1>6 DEF Next

LEMMA CompleteStepMeansCurrent ==
    ASSUME FreshnessInv, [Next]_vars, NEW i \in Process,
           \/ i \in Inspector /\ report'[i] # report[i]
              /\ report'[i] # NoReport /\ report'[i].published
           \/ i \in ReadOnly /\ pc[i] = "second" /\ pc'[i] = "checked"
    PROVE  plan[i].rows = Snapshot(plan[i].profile)
<1>0. TypeOK /\ PlanInv /\ SecondPassInv
  BY DEF FreshnessInv
<1>1. CASE /\ i \in Inspector /\ report'[i] # report[i]
           /\ report'[i] # NoReport /\ report'[i].published
  <2>1. Persist(i)
    BY <1>0, <1>1, ReportSteps
  <2> QED
    BY <1>0, <1>1, <2>1, PersistEffect
<1>2. CASE i \in ReadOnly /\ pc[i] = "second" /\ pc'[i] = "checked"
  <2>1. IsPlan(plan[i])
    BY <1>0, <1>2 DEF PlanInv
  <2> QED
    BY <1>0, <1>2, <2>1, CheckedSteps DEF IsPlan
<1> QED
  BY <1>1, <1>2

\* A complete inspection, of a store or of a read-only store, is of units that
\* are, row for row, the profile's when it decides so.
THEOREM CompleteMeansCurrentTheorem == Spec => CompleteMeansCurrent
<1>1. FreshnessInv /\ [Next]_vars =>
         [\A i \in Process :
             \/ i \in Inspector /\ report'[i] # report[i]
                /\ report'[i] # NoReport /\ report'[i].published
             \/ i \in ReadOnly /\ pc[i] = "second" /\ pc'[i] = "checked"
             => plan[i].rows = Snapshot(plan[i].profile)
         ]_vars
  BY CompleteStepMeansCurrent
<1> QED
  BY <1>1, FreshnessInvariant, PTL DEF Spec, CompleteMeansCurrent
=============================================================================
