------------------------- MODULE ProfileIndexProofs -------------------------
(***************************************************************************)
(* Proofs about ProfileIndex, for any number of runs and workers, any      *)
(* slots, files and requests.                                              *)
(***************************************************************************)
EXTENDS ProfileIndex, NaturalFacts, FiniteSetTheorems, TLAPS

----------------------------------------------------------------------------
\* Where a run holds the writer lock, and where it has a snapshot it relies
\* on.
Holding == {"locked", "revalidating", "ensuring", "publishing", "published",
            "recording"}

Checked == {"revalidating", "ensuring", "publishing"}

Relying == {"planning", "analysing", "locking", "locked"} \cup Checked

Shape ==
    /\ DOMAIN pc = Run
    /\ DOMAIN seen = Run
    /\ gen \in Nat

\* A run past the lock holds it.
LockDiscipline == \A r \in Run : pc[r] \in Holding => lock = r

\* A snapshot is older than the store, or of its generation and then equal.
SnapshotsArePast ==
    \A r \in Run : pc[r] \in Relying =>
        /\ seen[r].gen \in Nat
        /\ seen[r].gen <= gen
        /\ seen[r].gen = gen => seen[r].units = unit

IndexInvariant ==
    /\ Shape
    /\ LockDiscipline
    /\ SnapshotsArePast
    /\ PlanIsCurrent

----------------------------------------------------------------------------
LEMMA InitIndex == Init => IndexInvariant
BY DEF Init, IndexInvariant, Shape, LockDiscipline, SnapshotsArePast,
       PlanIsCurrent, Holding, Relying, Checked

\* A step of run r that leaves the store's facts, r's snapshot and the other
\* runs alone, keeps the lock as it moves into or out of a holding phase, and
\* does not come to rely on a snapshot it did not rely on.
LEMMA QuietStep ==
    ASSUME IndexInvariant, NEW r \in Run, NEW l,
           gen' = gen, unit' = unit,
           pc' = [pc EXCEPT ![r] = l],
           DOMAIN seen' = Run,
           \A s \in Run \ {r} : seen'[s] = seen[s],
           l \in Relying => pc[r] \in Relying /\ seen'[r] = seen[r],
           l \in Holding => lock' = r,
           lock' = lock \/ lock = r \/ lock = NoRun,
           l \in Checked =>
               pc[r] \in Checked
               \/ (pc[r] = "locked" /\ seen[r].gen = gen)
    PROVE  IndexInvariant'
<1>1. \A s \in Run \ {r} : pc'[s] = pc[s]
  BY DEF IndexInvariant, Shape
<1>2. pc'[r] = l
  BY DEF IndexInvariant, Shape
<1>3. Shape'
  BY DEF IndexInvariant, Shape
<1>4. \A s \in Run \ {r} : pc[s] \in Holding => lock' = s
  BY AbsentValuesAssumption DEF IndexInvariant, LockDiscipline
<1>5. LockDiscipline'
  BY <1>1, <1>2, <1>4 DEF LockDiscipline
<1>6. SnapshotsArePast'
  BY <1>1, <1>2 DEF IndexInvariant, SnapshotsArePast
<1>7. Checked \subseteq Holding /\ "locked" \in Holding /\ Checked \subseteq Relying
  BY DEF Checked, Holding, Relying
<1>8. l \in Checked => lock' = r /\ seen'[r].gen = gen' /\ seen'[r].units = unit'
  BY <1>7 DEF IndexInvariant, SnapshotsArePast, PlanIsCurrent, Checked
<1>9. \A s \in Run \ {r} : pc[s] \in Checked =>
          lock' = s /\ seen'[s].gen = gen' /\ seen'[s].units = unit'
  BY <1>4, <1>7 DEF IndexInvariant, PlanIsCurrent, Checked
<1> QED
  BY <1>1, <1>2, <1>3, <1>5, <1>6, <1>8, <1>9
     DEF IndexInvariant, PlanIsCurrent, Checked

\* A step that leaves all the invariant speaks of alone.
LEMMA StutterStep ==
    ASSUME IndexInvariant, UNCHANGED <<pc, seen, gen, unit, lock>>
    PROVE  IndexInvariant'
BY DEF IndexInvariant, Shape, LockDiscipline, SnapshotsArePast, PlanIsCurrent

\* Taking a free lock.
LEMMA LockStep ==
    ASSUME IndexInvariant, lock = NoRun, UNCHANGED <<pc, seen, gen, unit>>
    PROVE  IndexInvariant'
<1>1. \A s \in Run : pc[s] \notin Holding
  BY AbsentValuesAssumption DEF IndexInvariant, LockDiscipline
<1>2. \A s \in Run : pc[s] \notin {"revalidating", "ensuring", "publishing"}
  BY <1>1 DEF Holding
<1> QED
  BY <1>1, <1>2
     DEF IndexInvariant, Shape, LockDiscipline, SnapshotsArePast, PlanIsCurrent

\* A run that ends, whatever it returns.
LEMMA EndStep ==
    ASSUME IndexInvariant, NEW r \in Run, Forget(r),
           Unlock(r) \/ UNCHANGED lock, UNCHANGED <<gen, unit>>
    PROVE  IndexInvariant'
<1>1. "idle" \notin Holding /\ "idle" \notin Relying /\ "idle" \notin Checked
  BY DEF Holding, Relying, Checked
<1>2. pc' = [pc EXCEPT ![r] = "idle"] /\ seen' = [seen EXCEPT ![r] = NoView]
  BY DEF Forget
<1>3. lock' = lock \/ lock = r
  BY DEF Unlock
<1>4. DOMAIN seen' = Run /\ \A s \in Run \ {r} : seen'[s] = seen[s]
  BY <1>2 DEF IndexInvariant, Shape
<1> QED
  BY <1>1, <1>2, <1>3, <1>4, QuietStep

\* A run that fails keeps what it holds.
LEMMA FailingStep ==
    ASSUME IndexInvariant, NEW r \in Run, NEW o, Failing(r, o),
           UNCHANGED <<seen, gen, unit, lock>>
    PROVE  IndexInvariant'
<1>1. "failing" \notin Holding /\ "failing" \notin Relying
      /\ "failing" \notin Checked
  BY DEF Holding, Relying, Checked
<1>2. pc' = [pc EXCEPT ![r] = "failing"]
  BY DEF Failing
<1>3. DOMAIN seen' = Run /\ \A s \in Run \ {r} : seen'[s] = seen[s]
  BY DEF IndexInvariant, Shape
<1> QED
  BY <1>1, <1>2, <1>3, QuietStep

\* A run that goes on to another phase with the store untouched.
LEMMA GotoStep ==
    ASSUME IndexInvariant, NEW r \in Run, NEW l, Goto(r, l),
           UNCHANGED <<seen, gen, unit, lock>>,
           l \in Relying => pc[r] \in Relying,
           l \in Holding => pc[r] \in Holding \/ lock = r,
           l \in Checked =>
               pc[r] \in Checked
               \/ (pc[r] = "locked" /\ seen[r].gen = gen)
    PROVE  IndexInvariant'
<1>1. DOMAIN seen' = Run /\ \A s \in Run : seen'[s] = seen[s]
  BY DEF IndexInvariant, Shape
<1>2. l \in Holding => lock' = r
  BY DEF IndexInvariant, LockDiscipline
<1>3. pc' = [pc EXCEPT ![r] = l]
  BY DEF Goto
<1> QED
  BY <1>1, <1>2, <1>3, QuietStep

----------------------------------------------------------------------------
LEMMA ReadCommittedStep ==
    ASSUME IndexInvariant, NEW r \in Run, ReadCommitted(r)
    PROVE  IndexInvariant'
<1>1. seen'[r].gen = gen /\ seen'[r].units = unit
      /\ DOMAIN seen' = Run /\ \A s \in Run \ {r} : seen'[s] = seen[s]
  BY DEF ReadCommitted, IndexInvariant, Shape
<1>2. UNCHANGED <<gen, unit, lock>>
  BY DEF ReadCommitted, store
<1>3. PICK l \in {"failing", "planning"} : pc' = [pc EXCEPT ![r] = l]
  BY DEF ReadCommitted, Failing, Goto
<1>4. l \notin Holding /\ l \notin {"revalidating", "ensuring", "publishing"}
  BY <1>3 DEF Holding
<1>5. pc'[r] = l /\ \A s \in Run \ {r} : pc'[s] = pc[s]
  BY <1>3 DEF IndexInvariant, Shape
<1>6. Shape'
  BY <1>1, <1>2, <1>3 DEF IndexInvariant, Shape
<1>7. LockDiscipline'
  BY <1>2, <1>4, <1>5 DEF IndexInvariant, LockDiscipline
<1>8. SnapshotsArePast'
  BY <1>1, <1>2, <1>5 DEF IndexInvariant, SnapshotsArePast, Shape
<1>9. PlanIsCurrent'
  BY <1>1, <1>2, <1>4, <1>5 DEF IndexInvariant, PlanIsCurrent
<1> QED
  BY <1>6, <1>7, <1>8, <1>9 DEF IndexInvariant

LEMMA TakeLockStep ==
    ASSUME IndexInvariant, NEW r \in Run, TakeLock(r)
    PROVE  IndexInvariant'
<1>1. pc[r] = "locking" /\ lock = NoRun /\ lock' = r
      /\ UNCHANGED <<seen, gen, unit>> /\ pc' = [pc EXCEPT ![r] = "locked"]
  BY DEF TakeLock, Lock, Goto
<1>2. pc[r] \in Relying /\ "locked" \notin Checked
  BY <1>1 DEF Relying, Checked
<1>3. DOMAIN seen' = Run /\ \A s \in Run : seen'[s] = seen[s]
  BY <1>1 DEF IndexInvariant, Shape
<1> QED
  BY <1>1, <1>2, <1>3, QuietStep

\* The one step that changes what is committed: no other run past the check
\* can be there, and every older snapshot becomes one of a past generation.
LEMMA PublishStep ==
    ASSUME IndexInvariant, NEW r \in Run, Publish(r)
    PROVE  IndexInvariant'
<1>1. /\ pc[r] = "publishing" /\ pc' = [pc EXCEPT ![r] = "published"]
      /\ gen' = gen + 1 /\ lock' = lock /\ seen' = seen
  BY DEF Publish, Goto
<1>2. lock = r
  BY <1>1 DEF IndexInvariant, PlanIsCurrent
<1>3. pc'[r] = "published" /\ \A s \in Run \ {r} : pc'[s] = pc[s]
  BY <1>1 DEF IndexInvariant, Shape
<1>4. \A s \in Run \ {r} : pc[s] \notin Holding
  BY <1>2 DEF IndexInvariant, LockDiscipline
<1>5. Shape'
  BY <1>1 DEF IndexInvariant, Shape
<1>6. LockDiscipline'
  BY <1>1, <1>2, <1>3, <1>4 DEF LockDiscipline
<1>7. "published" \notin Relying
  BY DEF Relying, Checked
<1>8. SnapshotsArePast'
  <2>1. \A s \in Run \ {r} : pc'[s] \in Relying =>
            seen'[s].gen \in Nat /\ seen'[s].gen <= gen
    BY <1>1, <1>3 DEF IndexInvariant, SnapshotsArePast
  <2>2. gen \in Nat
    BY DEF IndexInvariant, Shape
  <2> QED
    BY <1>1, <1>3, <1>7, <2>1, <2>2 DEF SnapshotsArePast
<1>9. PlanIsCurrent'
  BY <1>3, <1>4 DEF PlanIsCurrent, Holding
<1> QED
  BY <1>5, <1>6, <1>8, <1>9 DEF IndexInvariant

----------------------------------------------------------------------------
\* Every step of a run.

LEMMA WorkStep ==
    ASSUME IndexInvariant, NEW r \in Run, NEW w \in Worker, Work(r, w)
    PROVE  IndexInvariant'
<1> SUFFICES UNCHANGED <<pc, seen, gen, unit, lock>>
  BY StutterStep
<1>1. CASE CheckStop(r, w)
  BY <1>1 DEF CheckStop, store
<1>2. CASE Fetch(r, w)
  BY <1>2 DEF Fetch, store
<1>3. CASE \E f \in File : ReadInput(r, w, f)
  BY <1>3 DEF ReadInput, store
<1>4. CASE AnalysisSucceeds(r, w)
  BY <1>4 DEF AnalysisSucceeds, store
<1>5. CASE AnalysisFails(r, w)
  BY <1>5 DEF AnalysisFails, store
<1>6. CASE AnalysisThrows(r, w)
  BY <1>6 DEF AnalysisThrows, store
<1> QED
  BY <1>1, <1>2, <1>3, <1>4, <1>5, <1>6 DEF Work

LEMMA ReadStep ==
    ASSUME IndexInvariant, NEW r \in Run, NEW f \in File,
           Capture(r, f) \/ HashPlanned(r, f) \/ HashLocked(r, f)
    PROVE  IndexInvariant'
<1> SUFFICES UNCHANGED <<pc, seen, gen, unit, lock>>
  BY StutterStep
<1> QED
  BY DEF Capture, HashPlanned, HashLocked, store

LEMMA DecideStep ==
    ASSUME IndexInvariant, NEW r \in Run, Decide(r)
    PROVE  IndexInvariant'
<1>1. pc[r] = "planning" /\ Goto(r, "analysing")
      /\ UNCHANGED <<seen, gen, unit, lock>>
  BY DEF Decide, store
<1>2. /\ "planning" \in Relying
      /\ "analysing" \notin Holding /\ "analysing" \notin Checked
  BY DEF Relying, Holding, Checked
<1> QED
  BY <1>1, <1>2, GotoStep

LEMMA JoinStep ==
    ASSUME IndexInvariant, NEW r \in Run, Join(r)
    PROVE  IndexInvariant'
<1>1. pc[r] = "analysing" /\ UNCHANGED <<gen, unit, lock>>
  BY DEF Join, store
<1>2. CASE Forget(r)
  BY <1>1, <1>2, EndStep
<1>3. CASE Failing(r, "failed") /\ UNCHANGED seen
  BY <1>1, <1>3, FailingStep
<1>4. CASE Goto(r, "locking") /\ UNCHANGED seen
  <2>1. /\ "analysing" \in Relying
        /\ "locking" \notin Holding /\ "locking" \notin Checked
    BY DEF Relying, Holding, Checked
  <2> QED
    BY <1>1, <1>4, <2>1, GotoStep
<1> QED
  BY <1>2, <1>3, <1>4 DEF Join

LEMMA CheckPlanStep ==
    ASSUME IndexInvariant, NEW r \in Run, CheckPlan(r)
    PROVE  IndexInvariant'
<1>1. pc[r] = "locked" /\ UNCHANGED <<seen, gen, unit, lock>>
  BY DEF CheckPlan, store
<1>2. CASE Goto(r, "revalidating") /\ gen = seen[r].gen
  <2>1. "locked" \in Relying /\ "locked" \in Holding
    BY DEF Relying, Holding
  <2> QED
    BY <1>1, <1>2, <2>1, GotoStep
<1>3. CASE Failing(r, "failed")
  BY <1>1, <1>3, FailingStep
<1> QED
  BY <1>2, <1>3 DEF CheckPlan

LEMMA CheckedStep ==
    ASSUME IndexInvariant, NEW r \in Run,
           Revalidate(r) \/ EnsureFails(r) \/ Ensure(r)
    PROVE  IndexInvariant'
<1>1. UNCHANGED <<seen, gen, unit, lock>>
      /\ pc[r] \in {"revalidating", "ensuring"}
  BY DEF Revalidate, EnsureFails, Ensure, store
<1>2. CASE Failing(r, "failed")
  BY <1>1, <1>2, FailingStep
<1>3. CASE \E l \in {"ensuring", "publishing"} : Goto(r, l)
  <2>1. PICK l \in {"ensuring", "publishing"} : Goto(r, l)
    BY <1>3
  <2>2. pc[r] \in Checked /\ pc[r] \in Relying /\ pc[r] \in Holding
    BY <1>1 DEF Checked, Relying, Holding
  <2> QED
    BY <1>1, <2>1, <2>2, GotoStep
<1> QED
  BY <1>2, <1>3 DEF Revalidate, EnsureFails, Ensure

LEMMA ReturnStep ==
    ASSUME IndexInvariant, NEW r \in Run,
           \/ Busy(r) \/ ReturnUnchanged(r) \/ ReturnCommitted(r)
           \/ PublishFails(r) \/ FailureUnrecorded(r) \/ RecordFailure(r)
           \/ RecordFails(r) \/ Abort(r)
    PROVE  IndexInvariant'
<1>1. Forget(r) /\ Unlock(r) /\ UNCHANGED <<gen, unit>>
  BY DEF Busy, ReturnUnchanged, ReturnCommitted, PublishFails,
         FailureUnrecorded, RecordFailure, RecordFails, Abort, Return
<1> QED
  BY <1>1, EndStep

LEMMA CreateForFailureStep ==
    ASSUME IndexInvariant, NEW r \in Run, CreateForFailure(r)
    PROVE  IndexInvariant'
<1>1. pc[r] = "failing" /\ lock = r /\ Goto(r, "recording")
      /\ UNCHANGED <<seen, gen, unit, lock>>
  BY DEF CreateForFailure
<1>2. "recording" \notin Relying /\ "recording" \notin Checked
  BY DEF Relying, Checked
<1> QED
  BY <1>1, <1>2, GotoStep

LEMMA StartStep ==
    ASSUME IndexInvariant, NEW r \in Run, NEW q, Start(r, q)
    PROVE  IndexInvariant'
<1>1. Goto(r, "capturing") /\ UNCHANGED <<seen, gen, unit, lock>>
  BY DEF Start, store
<1>2. /\ "capturing" \notin Relying /\ "capturing" \notin Holding
      /\ "capturing" \notin Checked
  BY DEF Relying, Holding, Checked
<1> QED
  BY <1>1, <1>2, GotoStep

LEMMA NextIndex ==
    ASSUME IndexInvariant, [Next]_vars
    PROVE  IndexInvariant'
<1>1. CASE \E f \in File, c \in FileContent \cup {Absent} : Edit(f, c)
  <2>1. UNCHANGED <<pc, seen, gen, unit, lock>>
    BY <1>1 DEF Edit, locals
  <2> QED
    BY <2>1, StutterStep
<1>2. CASE \E r \in Run : \E q \in Requests : Start(r, q)
  BY <1>2, StartStep
<1>3. CASE \E r \in Run : Index(r)
  <2> PICK r \in Run : Index(r)
    BY <1>3
  <2>1. CASE FailureTakesLock(r)
    <3>1. lock = NoRun /\ UNCHANGED <<pc, seen, gen, unit>>
      BY <2>1 DEF FailureTakesLock, Lock, locals
    <3> QED
      BY <3>1, LockStep
  <2> QED
    BY <2>1, ReadStep, WorkStep, ReadCommittedStep, DecideStep, JoinStep,
       TakeLockStep, CheckPlanStep, CheckedStep, ReturnStep, PublishStep,
       CreateForFailureStep
       DEF Index
<1>4. CASE \E r \in Run : Abort(r)
  BY <1>4, ReturnStep
<1>5. CASE UNCHANGED vars
  <2>1. UNCHANGED <<pc, seen, gen, unit, lock>>
    BY <1>5 DEF vars, store, locals
  <2> QED
    BY <2>1, StutterStep
<1> QED
  BY <1>1, <1>2, <1>3, <1>4, <1>5 DEF Next

----------------------------------------------------------------------------
\* In every reachable state the writer lock is with the run that is past it,
\* and a snapshot a run relies on is of the present generation and equal to
\* what is committed, or of a past one.
THEOREM IndexInvariantHolds == Spec => []IndexInvariant
<1>1. Init => IndexInvariant
  BY InitIndex
<1>2. IndexInvariant /\ [Next]_vars => IndexInvariant'
  BY NextIndex
<1> QED
  BY <1>1, <1>2, PTL DEF Spec

\* The plan a run revalidates, ensures and publishes by is the committed
\* state it was made from, for any number of runs (index_profile's check of
\* the generation under the lock).
THEOREM PlanIsCurrentInvariant == Spec => []PlanIsCurrent
<1>1. IndexInvariant => PlanIsCurrent
  BY DEF IndexInvariant
<1> QED
  BY <1>1, IndexInvariantHolds, PTL
----------------------------------------------------------------------------
\* What a run's own variables say of one another, phase by phase. Accepted is
\* where the request passed, Planned where there is a plan, Analysed where
\* every planned slot has its contribution, Ending where the run will report
\* its failure.
Accepted == Relying \cup {"published"}

Planned == Accepted \ {"planning"}

Contributed == Planned \ {"analysing"}

Ending == {"failing", "recording"}

Phase == {"idle", "capturing"} \cup Accepted \cup Ending

Outcomes == [good : BOOLEAN, read : Read(FileContent)]

WorkerState == [at : {"check", "fetch", "run", "done"}, n : Nat,
                read : Read(FileContent)]

\* The types of one run's variables.
RunTypes(r) ==
    /\ pc[r] \in Phase
    /\ req[r] \in Requests \cup {NoRequest}
    /\ captured[r] \in Read(FileContent \cup {Absent})
    /\ seen[r] \in View \cup {NoView}
    /\ hashed[r] \in Read(FileContent \cup {Absent})
    /\ plan[r] \in Seq(Slot)
    /\ next[r] \in Nat \ {0}
    /\ stop[r] \in BOOLEAN
    /\ thrown[r] \in BOOLEAN
    /\ DOMAIN analysed[r] \subseteq DOMAIN plan[r]
    /\ \A n \in DOMAIN analysed[r] : analysed[r][n] \in Outcomes
    /\ worker[r] \in [Worker -> WorkerState]
    /\ ending[r] \in {"committed", "rejected", "failed"}

\* Until it decides, a run has no plan, no outcomes and an untouched pool.
NothingPlanned(r) ==
    pc[r] \notin Planned \cup Ending =>
        /\ plan[r] = <<>>
        /\ analysed[r] = <<>>
        /\ next[r] = 1
        /\ ~stop[r]
        /\ ~thrown[r]

\* What ReadCommitted accepted.
RequestAccepted(r) ==
    pc[r] \in Accepted =>
        /\ IsInjective(req[r].actions)
        /\ DOMAIN captured[r] = Context
        /\ \A f \in Context : captured[r][f] \in FileContent
        /\ \A s \in Selected(req[r]) : CommandFor(r, s) \in Command
        /\ seen[r] \in View

\* The plan is selected slots, each once, in selection order.
PlanInOrder(r) ==
    plan[r] # <<>> =>
        /\ req[r] \in Requests
        /\ IsInjective(req[r].actions)
        /\ IsInjective(plan[r])
        /\ ToSet(plan[r]) \subseteq Selected(req[r])
        /\ \A m, n \in DOMAIN plan[r], i, j \in DOMAIN req[r].actions :
              /\ plan[r][m] = req[r].actions[i]
              /\ plan[r][n] = req[r].actions[j]
              /\ i < j
              => m < n

\* A selected slot that is not planned has a unit that says what the run
\* would have made.
UnitMatches(r, s) ==
    LET u == seen[r].units[s]
    IN  /\ u # NoUnit
        /\ u.command = CommandFor(r, s)
        /\ u.settings = req[r].settings
        /\ \A f \in Context \ {Database} : u.inputs[f] = captured[r][f]

OthersMatch(r) ==
    pc[r] \in Planned => \A s \in UnchangedSlots(r) : UnitMatches(r, s)

\* The pool: an entry that was fetched is with one worker, or has its outcome,
\* or its analysis threw; and workers are not done before the entries are,
\* unless one failed.
PoolInv(r) ==
    pc[r] = "analysing" =>
        /\ \A w \in Worker : worker[r][w].at = "run" =>
              /\ worker[r][w].n \in DOMAIN plan[r] \ DOMAIN analysed[r]
              /\ worker[r][w].n < next[r]
        /\ \A v, w \in Worker :
              /\ worker[r][v].at = "run"
              /\ worker[r][w].at = "run"
              /\ worker[r][v].n = worker[r][w].n
              => v = w
        /\ \A n \in DOMAIN analysed[r] : n < next[r]
        /\ \A n \in DOMAIN plan[r] : n < next[r] =>
              \/ n \in DOMAIN analysed[r]
              \/ \E w \in Worker : worker[r][w].at = "run" /\ worker[r][w].n = n
              \/ thrown[r]
        /\ worker[r][1].at = "done" => stop[r] \/ next[r] > Len(plan[r])
        /\ stop[r] => thrown[r] \/ Failures(r) # {}

AllContributed(r) ==
    pc[r] \in Contributed =>
        DOMAIN analysed[r] = DOMAIN plan[r] /\ Failures(r) = {}

\* A run that failed has an outcome for every entry before a failure.
EarlierAnalysed(r) ==
    pc[r] \in Ending =>
        /\ ending[r] \in {"rejected", "failed"}
        /\ ending[r] = "rejected" => Failures(r) = {}
        /\ \A n \in Failures(r), m \in DOMAIN plan[r] :
              m < n => m \in DOMAIN analysed[r]

\* A pass under the lock begins with no hash of the pass before it.
NothingHashed(r) ==
    pc[r] \in {"analysing", "locking", "locked"} => hashed[r] = NoFiles

RunLocal(r) ==
    /\ RunTypes(r)
    /\ pc[r] # "idle" => req[r] \in Requests
    /\ NothingPlanned(r)
    /\ RequestAccepted(r)
    /\ PlanInOrder(r)
    /\ OthersMatch(r)
    /\ PoolInv(r)
    /\ AllContributed(r)
    /\ EarlierAnalysed(r)
    /\ NothingHashed(r)

----------------------------------------------------------------------------
\* What the holder of the lock knows of the files and of the profile.

\* Everything the run will publish, or leave, was on the disk under its lock.
InputsHeld(r) ==
    /\ \A f \in Context : captured[r][f] \in held[f]
    /\ \A n \in DOMAIN analysed[r] : \A f \in DOMAIN analysed[r][n].read :
          analysed[r][n].read[f] \in held[f]
    /\ \A s \in UnchangedSlots(r) : \A f \in Tracked(seen[r].units[s]) :
          seen[r].units[s].inputs[f] \in held[f]

\* A unit that says what the run was asked for, from what was on the disk.
Fits(r, s, u) ==
    /\ u # NoUnit
    /\ u.settings = req[r].settings
    /\ u.command = CommandFor(r, s)
    /\ \A f \in Recorded(u) \ {Database} : u.inputs[f] \in held[f]

RunShared(r) ==
    /\ pc[r] = "revalidating" =>
          \A f \in DOMAIN hashed[r] : hashed[r][f] \in held[f]
    /\ pc[r] \in {"ensuring", "publishing", "published"} => InputsHeld(r)
    /\ pc[r] \in {"publishing", "published"} => kind = req[r].kind
    /\ pc[r] = "published" =>
          /\ Live(unit) = Selected(req[r])
          /\ \A s \in Selected(req[r]) : Fits(r, s, unit[s])

----------------------------------------------------------------------------
\* Every variable of the runs is a function of the run.
RunFunctions ==
    /\ pc = [r \in Run |-> pc[r]]
    /\ req = [r \in Run |-> req[r]]
    /\ captured = [r \in Run |-> captured[r]]
    /\ seen = [r \in Run |-> seen[r]]
    /\ hashed = [r \in Run |-> hashed[r]]
    /\ plan = [r \in Run |-> plan[r]]
    /\ next = [r \in Run |-> next[r]]
    /\ stop = [r \in Run |-> stop[r]]
    /\ thrown = [r \in Run |-> thrown[r]]
    /\ analysed = [r \in Run |-> analysed[r]]
    /\ worker = [r \in Run |-> worker[r]]
    /\ ending = [r \in Run |-> ending[r]]
    /\ report = [r \in Run |-> report[r]]

\* The types of the files and the store; the history of what files held under
\* the lock includes what they hold.
StoreTypes ==
    /\ disk \in [File -> FileContent \cup {Absent}]
    /\ lock \in Run \cup {NoRun}
    /\ kind \in Kind
    /\ gen \in Nat
    /\ unit \in [Slot -> Unit \cup {NoUnit}]
    /\ held \in [File -> SUBSET (FileContent \cup {Absent})]
    /\ lock # NoRun => \A f \in File : disk[f] \in held[f]

\* A report that was returned is one.
ReportsTyped == \A r \in Run : report[r] # NoReport => report[r] \in Report

\* The inductive invariant of the indexing runs.
RunInv ==
    /\ IndexInvariant
    /\ RunFunctions
    /\ StoreTypes
    /\ \A r \in Run : RunLocal(r)
    /\ \A r \in Run : RunShared(r)
    /\ ReportsTyped
    /\ ReportIsSequential

----------------------------------------------------------------------------
\* A run's variables are its own.

Same(s) ==
    /\ pc'[s] = pc[s]
    /\ req'[s] = req[s]
    /\ captured'[s] = captured[s]
    /\ seen'[s] = seen[s]
    /\ hashed'[s] = hashed[s]
    /\ plan'[s] = plan[s]
    /\ next'[s] = next[s]
    /\ stop'[s] = stop[s]
    /\ thrown'[s] = thrown[s]
    /\ analysed'[s] = analysed[s]
    /\ worker'[s] = worker[s]
    /\ ending'[s] = ending[s]

OnlyOf(r) ==
    /\ RunFunctions'
    /\ \A s \in Run \ {r} : Same(s) /\ report'[s] = report[s]

LEMMA AnalysisIsOwn ==
    ASSUME RunFunctions, NEW r \in Run, NEW w \in Worker, Work(r, w)
    PROVE  OnlyOf(r) /\ report' = report
<1>1. CASE CheckStop(r, w)
  BY <1>1 DEF CheckStop, At, OnlyOf, Same, RunFunctions
<1>2. CASE Fetch(r, w)
  BY <1>2 DEF Fetch, At, OnlyOf, Same, RunFunctions
<1>3. CASE \E f \in File : ReadInput(r, w, f)
  BY <1>3 DEF ReadInput, OnlyOf, Same, RunFunctions
<1>4. CASE AnalysisSucceeds(r, w)
  BY <1>4 DEF AnalysisSucceeds, Analysed, OnlyOf, Same, RunFunctions
<1>5. CASE AnalysisFails(r, w)
  BY <1>5 DEF AnalysisFails, Analysed, OnlyOf, Same, RunFunctions
<1>6. CASE AnalysisThrows(r, w)
  BY <1>6 DEF AnalysisThrows, OnlyOf, Same, RunFunctions
<1> QED
  BY <1>1, <1>2, <1>3, <1>4, <1>5, <1>6 DEF Work

LEMMA ForgetIsOwn ==
    ASSUME RunFunctions, NEW r \in Run, Forget(r),
           report' = report \/ \E x : report' = [report EXCEPT ![r] = x]
    PROVE  OnlyOf(r)
BY DEF Forget, OnlyOf, Same, RunFunctions

LEMMA ReturnIsOwn ==
    ASSUME RunFunctions, NEW r \in Run,
           \/ Busy(r) \/ ReturnUnchanged(r) \/ ReturnCommitted(r)
           \/ PublishFails(r) \/ FailureUnrecorded(r) \/ RecordFailure(r)
           \/ RecordFails(r) \/ Abort(r)
    PROVE  OnlyOf(r)
<1>1. Forget(r) /\ (report' = report \/ \E x : report' = [report EXCEPT ![r] = x])
  BY DEF Busy, ReturnUnchanged, ReturnCommitted, PublishFails,
         FailureUnrecorded, RecordFailure, RecordFails, Abort, Return
<1> QED
  BY <1>1, ForgetIsOwn

LEMMA PhaseIsOwn ==
    ASSUME RunFunctions, NEW r \in Run,
           \/ Join(r) \/ TakeLock(r) \/ CheckPlan(r) \/ Revalidate(r)
           \/ Ensure(r) \/ EnsureFails(r) \/ Publish(r) \/ CreateForFailure(r)
           \/ FailureTakesLock(r) \/ ReadCommitted(r)
    PROVE  OnlyOf(r) /\ report' = report
<1>1. CASE Join(r) /\ thrown[r]
  BY <1>1, ForgetIsOwn DEF Join
<1>2. CASE Join(r) /\ ~thrown[r]
  BY <1>2 DEF Join, pool, Failing, Goto, OnlyOf, Same, RunFunctions
<1>3. CASE TakeLock(r) \/ CheckPlan(r) \/ Revalidate(r)
  BY <1>3 DEF TakeLock, CheckPlan, Revalidate, pool, Failing, Goto, OnlyOf,
              Same, RunFunctions
<1>4. CASE Ensure(r) \/ EnsureFails(r) \/ Publish(r)
  BY <1>4 DEF Ensure, EnsureFails, Publish, pool, Failing, Goto, OnlyOf, Same,
              RunFunctions
<1>5. CASE CreateForFailure(r) \/ FailureTakesLock(r) \/ ReadCommitted(r)
  BY <1>5 DEF CreateForFailure, FailureTakesLock, ReadCommitted, locals, pool,
              Failing, Goto, OnlyOf, Same, RunFunctions
<1> QED
  BY <1>1, <1>2, <1>3, <1>4, <1>5

LEMMA NoteIsOwn ==
    ASSUME RunFunctions, NEW r \in Run, NEW f \in File,
           Capture(r, f) \/ HashPlanned(r, f) \/ HashLocked(r, f)
    PROVE  OnlyOf(r) /\ report' = report
BY DEF Capture, HashPlanned, HashLocked, Hash, pool, OnlyOf, Same, RunFunctions

LEMMA StartIsOwn ==
    ASSUME RunFunctions, NEW r \in Run, NEW q, Start(r, q)
    PROVE  OnlyOf(r)
BY DEF Start, Goto, pool, OnlyOf, Same, RunFunctions

LEMMA DecideIsOwn ==
    ASSUME RunFunctions, NEW r \in Run, Decide(r)
    PROVE  OnlyOf(r) /\ report' = report
<1>1. /\ \E x : plan' = [plan EXCEPT ![r] = x]
      /\ \E x : worker' = [worker EXCEPT ![r] = x]
      /\ hashed' = [hashed EXCEPT ![r] = NoFiles]
      /\ pc' = [pc EXCEPT ![r] = "analysing"]
      /\ UNCHANGED <<req, captured, seen, next, stop, thrown, analysed,
                     ending, report>>
  BY DEF Decide, Goto
<1> QED
  BY <1>1 DEF OnlyOf, Same, RunFunctions

\* What a run holds in its variables does not change with another's step.
LEMMA LocalKept ==
    ASSUME NEW s \in Run, RunLocal(s), Same(s)
    PROVE  RunLocal(s)'
<1> USE DEF Same
<1>1. RunTypes(s)' /\ (pc[s] # "idle" => req[s] \in Requests)'
  BY DEF RunLocal, RunTypes
<1>2. NothingPlanned(s)' /\ NothingHashed(s)'
  BY DEF RunLocal, NothingPlanned, NothingHashed
<1>3. RequestAccepted(s)'
  BY DEF RunLocal, RequestAccepted, Selected, CommandFor
<1>4. PlanInOrder(s)'
  BY DEF RunLocal, PlanInOrder, Selected
<1>5. OthersMatch(s)'
  BY DEF RunLocal, OthersMatch, UnchangedSlots, UnitMatches, Selected,
         CommandFor
<1>6. PoolInv(s)' /\ AllContributed(s)' /\ EarlierAnalysed(s)'
  BY DEF RunLocal, PoolInv, AllContributed, EarlierAnalysed, Failures
<1> QED
  BY <1>1, <1>2, <1>3, <1>4, <1>5, <1>6 DEF RunLocal

\* Nor does what it knows of the store, if it holds the lock and the step does
\* not replace or retire what the store holds.
LEMMA SharedKept ==
    ASSUME NEW s \in Run, RunShared(s), Same(s),
           UNCHANGED <<kind, unit>>, \A f \in File : held[f] \subseteq held'[f],
           RunTypes(s), seen[s] \in View \/ pc[s] \notin Accepted
    PROVE  RunShared(s)'
<1> USE DEF Same
<1>1. (pc[s] = "revalidating" =>
          \A f \in DOMAIN hashed[s] : hashed[s][f] \in held[f])'
  BY DEF RunShared, RunTypes, Read
<1>2. (pc[s] \in {"publishing", "published"} => kind = req[s].kind)'
  BY DEF RunShared
<1>3. (pc[s] \in {"ensuring", "publishing", "published"} => InputsHeld(s))'
  <2> SUFFICES ASSUME pc[s] \in {"ensuring", "publishing", "published"},
                      InputsHeld(s)
               PROVE  InputsHeld(s)'
    BY DEF RunShared
  <2>1. \A f \in Context : captured'[s][f] \in held'[f]
    BY ParametersAssumption DEF InputsHeld
  <2>2. \A n \in DOMAIN analysed'[s] : \A f \in DOMAIN analysed'[s][n].read :
           analysed'[s][n].read[f] \in held'[f]
    <3> SUFFICES ASSUME NEW n \in DOMAIN analysed[s],
                        NEW f \in DOMAIN analysed[s][n].read
                 PROVE  analysed[s][n].read[f] \in held'[f]
      OBVIOUS
    <3>1. DOMAIN analysed[s][n].read \subseteq File
      BY DEF RunTypes, Outcomes, Read
    <3> QED
      BY <3>1 DEF InputsHeld
  <2>3. (\A x \in UnchangedSlots(s) : \A f \in Tracked(seen[s].units[x]) :
           seen[s].units[x].inputs[f] \in held[f])'
    BY DEF InputsHeld, UnchangedSlots, Tracked, Recorded, Selected
  <2> QED
    BY <2>1, <2>2, <2>3 DEF InputsHeld
<1>4. (pc[s] = "published" =>
          /\ Live(unit) = Selected(req[s])
          /\ \A x \in Selected(req[s]) : Fits(s, x, unit[x]))'
  BY DEF RunShared, Fits, Recorded, CommandFor, Selected, Live
<1> QED
  BY <1>1, <1>2, <1>3, <1>4 DEF RunShared

\* A run that holds nothing knows nothing.
LEMMA SharedVacuous ==
    ASSUME NEW s \in Run, pc'[s] \notin {"revalidating", "ensuring",
                                         "publishing", "published"}
    PROVE  RunShared(s)'
BY DEF RunShared

\* The step of run r changes what the store holds only when no other run holds
\* the lock.
LEMMA OthersKept ==
    ASSUME RunInv, NEW r \in Run, OnlyOf(r),
           UNCHANGED <<kind, unit, held>> \/ lock \in {NoRun, r}
    PROVE  \A s \in Run \ {r} : RunLocal(s)' /\ RunShared(s)'
<1> SUFFICES ASSUME NEW s \in Run \ {r}
             PROVE  RunLocal(s)' /\ RunShared(s)'
  OBVIOUS
<1>1. RunLocal(s) /\ RunShared(s) /\ Same(s) /\ LockDiscipline
  BY DEF RunInv, OnlyOf, IndexInvariant
<1>2. RunLocal(s)'
  BY <1>1, LocalKept
<1>3. CASE UNCHANGED <<kind, unit, held>>
  <2>1. RunTypes(s) /\ (seen[s] \in View \/ pc[s] \notin Accepted)
    BY <1>1 DEF RunLocal, RequestAccepted
  <2> QED
    BY <1>1, <1>2, <1>3, <2>1, SharedKept
<1>4. CASE lock \in {NoRun, r}
  <2>1. lock # s
    BY <1>4, AbsentValuesAssumption
  <2>2. pc[s] \notin Holding
    BY <1>1, <2>1 DEF LockDiscipline
  <2>3. pc'[s] \notin {"revalidating", "ensuring", "publishing", "published"}
    BY <1>1, <2>2 DEF Same, Holding
  <2> QED
    BY <1>2, <2>3, SharedVacuous
<1> QED
  BY <1>3, <1>4

LEMMA NoFilesIsRead == \A S : NoFiles \in Read(S)
BY DEF NoFiles, Read

\* A run that has nothing keeps to everything.
Nothing(r) ==
    /\ pc[r] = "idle" /\ req[r] = NoRequest /\ captured[r] = NoFiles
    /\ seen[r] = NoView /\ hashed[r] = NoFiles /\ plan[r] = <<>>
    /\ next[r] = 1 /\ stop[r] = FALSE /\ thrown[r] = FALSE
    /\ analysed[r] = <<>> /\ worker[r] = [w \in Worker |-> IdleWorker]
    /\ ending[r] = "committed"

LEMMA NothingIsLocal == \A r \in Run : Nothing(r) => RunLocal(r)
<1> SUFFICES ASSUME NEW r \in Run, Nothing(r)
             PROVE  RunLocal(r)
  OBVIOUS
<1> USE DEF Nothing
<1>1. IdleWorker \in WorkerState
  BY NoFilesIsRead DEF IdleWorker, WorkerState
<1>2. RunTypes(r)
  <2>1. <<>> \in Seq(Slot) /\ DOMAIN <<>> = {}
    OBVIOUS
  <2>2. worker[r] \in [Worker -> WorkerState]
    BY <1>1
  <2>3. \A n \in DOMAIN analysed[r] : analysed[r][n] \in Outcomes
    BY <2>1
  <2>4. DOMAIN analysed[r] \subseteq DOMAIN plan[r] /\ plan[r] \in Seq(Slot)
    BY <2>1
  <2>5. captured[r] \in Read(FileContent \cup {Absent})
        /\ hashed[r] \in Read(FileContent \cup {Absent})
    BY NoFilesIsRead
  <2>6. /\ pc[r] \in Phase /\ req[r] \in Requests \cup {NoRequest}
        /\ seen[r] \in View \cup {NoView}
    BY DEF Phase
  <2>7. next[r] \in Nat \ {0} /\ ending[r] \in {"committed", "rejected", "failed"}
    OBVIOUS
  <2>8. stop[r] \in BOOLEAN /\ thrown[r] \in BOOLEAN
    BY Zenon
  <2> QED
    BY <2>2, <2>3, <2>4, <2>5, <2>6, <2>7, <2>8 DEF RunTypes
<1>3. "idle" \notin Accepted \cup Ending
  BY DEF Accepted, Relying, Checked, Ending
<1>4. NothingPlanned(r) /\ RequestAccepted(r) /\ PlanInOrder(r)
      /\ OthersMatch(r) /\ AllContributed(r) /\ EarlierAnalysed(r)
  BY <1>3 DEF NothingPlanned, RequestAccepted, PlanInOrder, OthersMatch,
     AllContributed, EarlierAnalysed, Planned, Contributed
<1>5. PoolInv(r) /\ NothingHashed(r)
  BY DEF PoolInv, NothingHashed
<1> QED
  BY <1>2, <1>4, <1>5 DEF RunLocal

LEMMA NothingStaysLocal == (\A r \in Run : Nothing(r) => RunLocal(r))'
BY NothingIsLocal, PTL

\* A run that ends has nothing left.
LEMMA ForgetLocal ==
    ASSUME RunFunctions, NEW r \in Run, Forget(r)
    PROVE  RunLocal(r)' /\ RunShared(r)'
<1>1. Nothing(r)'
  BY DEF Forget, RunFunctions, Nothing
<1>2. RunLocal(r)'
  BY <1>1, NothingStaysLocal
<1> QED
  BY <1>1, <1>2, SharedVacuous DEF Nothing


----------------------------------------------------------------------------
\* Steps that only move a run on.

KeepsWork(r) ==
    /\ req'[r] = req[r]
    /\ captured'[r] = captured[r]
    /\ seen'[r] = seen[r]
    /\ hashed'[r] = hashed[r]
    /\ plan'[r] = plan[r]
    /\ next'[r] = next[r]
    /\ stop'[r] = stop[r]
    /\ thrown'[r] = thrown[r]
    /\ analysed'[r] = analysed[r]
    /\ worker'[r] = worker[r]

LEMMA PhaseLocal ==
    ASSUME NEW r \in Run, RunLocal(r), KeepsWork(r), pc[r] # "idle",
           pc'[r] \in Phase \ {"idle", "analysing"},
           ending'[r] \in {"committed", "rejected", "failed"},
           pc'[r] \in Planned \cup Ending \/ pc[r] \notin Planned \cup Ending,
           pc'[r] \in Accepted => pc[r] \in Accepted,
           pc'[r] \in Planned => pc[r] \in Planned,
           pc'[r] \in {"locking", "locked"} =>
               pc[r] \in {"analysing", "locking"},
           pc'[r] \in Contributed =>
               DOMAIN analysed[r] = DOMAIN plan[r] /\ Failures(r) = {},
           pc'[r] \in Ending =>
               /\ ending'[r] \in {"rejected", "failed"}
               /\ ending'[r] = "rejected" => Failures(r) = {}
               /\ \A n \in Failures(r), m \in DOMAIN plan[r] :
                     m < n => m \in DOMAIN analysed[r]
    PROVE  RunLocal(r)'
<1> USE DEF KeepsWork
<1>1. RunTypes(r)' /\ (pc[r] # "idle" => req[r] \in Requests)'
  BY DEF RunLocal, RunTypes
<1>2. NothingPlanned(r)' /\ NothingHashed(r)' /\ PoolInv(r)'
  BY DEF RunLocal, NothingPlanned, NothingHashed, PoolInv
<1>3. RequestAccepted(r)'
  BY DEF RunLocal, RequestAccepted, Selected, CommandFor
<1>4. PlanInOrder(r)'
  BY DEF RunLocal, PlanInOrder, Selected
<1>5. OthersMatch(r)'
  BY DEF RunLocal, OthersMatch, UnchangedSlots, UnitMatches, Selected,
         CommandFor
<1>6. AllContributed(r)' /\ EarlierAnalysed(r)'
  BY DEF RunLocal, AllContributed, EarlierAnalysed, Failures
<1> QED
  BY <1>1, <1>2, <1>3, <1>4, <1>5, <1>6 DEF RunLocal

\* Where each phase is.
LEMMA Phases ==
    /\ Accepted = {"planning", "analysing", "locking", "locked",
                   "revalidating", "ensuring", "publishing", "published"}
    /\ Planned = {"analysing", "locking", "locked", "revalidating",
                  "ensuring", "publishing", "published"}
    /\ Contributed = {"locking", "locked", "revalidating", "ensuring",
                      "publishing", "published"}
    /\ Phase = {"idle", "capturing", "planning", "analysing", "locking",
                "locked", "revalidating", "ensuring", "publishing",
                "published", "failing", "recording"}
BY DEF Accepted, Planned, Contributed, Phase, Relying, Checked, Ending

\* A run with all its contributions goes on, or fails.
LEMMA ContributedLocal ==
    ASSUME NEW r \in Run, RunLocal(r), KeepsWork(r), pc[r] \in Contributed,
           \/ pc'[r] \in Contributed \ {"locking", "locked"}
              /\ ending'[r] = ending[r]
           \/ pc[r] = "locking" /\ pc'[r] = "locked"
              /\ ending'[r] = ending[r]
           \/ pc'[r] = "failing" /\ ending'[r] = "failed"
    PROVE  RunLocal(r)'
<1>1. DOMAIN analysed[r] = DOMAIN plan[r] /\ Failures(r) = {}
      /\ ending[r] \in {"committed", "rejected", "failed"}
  BY DEF RunLocal, AllContributed, RunTypes
<1> QED
  BY <1>1, Phases, PhaseLocal DEF Ending

\* A failing run goes on recording.
LEMMA EndingLocal ==
    ASSUME NEW r \in Run, RunLocal(r), KeepsWork(r), pc[r] \in Ending,
           pc'[r] \in Ending, ending'[r] = ending[r]
    PROVE  RunLocal(r)'
<1>1. /\ ending[r] \in {"rejected", "failed"}
      /\ ending[r] = "rejected" => Failures(r) = {}
      /\ \A n \in Failures(r), m \in DOMAIN plan[r] :
            m < n => m \in DOMAIN analysed[r]
  BY DEF RunLocal, EarlierAnalysed
<1> QED
  BY <1>1, Phases, PhaseLocal DEF Ending

LEMMA LockedPhasesLocal ==
    ASSUME RunInv, NEW r \in Run,
           \/ TakeLock(r) \/ CheckPlan(r) \/ Revalidate(r) \/ Ensure(r)
           \/ EnsureFails(r) \/ Publish(r) \/ CreateForFailure(r)
    PROVE  RunLocal(r)'
<1>1. RunLocal(r) /\ RunFunctions
  BY DEF RunInv
<1>2. KeepsWork(r)
  <2>1. CASE TakeLock(r) \/ CheckPlan(r) \/ Revalidate(r)
    BY <1>1, <2>1
       DEF TakeLock, CheckPlan, Revalidate, pool, KeepsWork, RunFunctions
  <2>2. CASE Ensure(r) \/ EnsureFails(r) \/ Publish(r) \/ CreateForFailure(r)
    BY <1>1, <2>2
       DEF Ensure, EnsureFails, Publish, CreateForFailure, pool, KeepsWork,
           RunFunctions
  <2> QED
    BY <2>1, <2>2
<1>3. CASE TakeLock(r)
  <2>1. pc[r] = "locking" /\ pc'[r] = "locked" /\ ending'[r] = ending[r]
    BY <1>1, <1>3 DEF TakeLock, Goto, RunFunctions
  <2> QED
    BY <1>1, <1>2, <2>1, Phases, ContributedLocal
<1>4. CASE CheckPlan(r) \/ Revalidate(r)
  <2>1. /\ pc[r] \in {"locked", "revalidating"}
        /\ \/ pc'[r] \in {"revalidating", "ensuring", "publishing"}
              /\ ending'[r] = ending[r]
           \/ pc'[r] = "failing" /\ ending'[r] = "failed"
    BY <1>1, <1>4 DEF CheckPlan, Revalidate, Goto, Failing, RunFunctions
  <2> QED
    BY <1>1, <1>2, <2>1, Phases, ContributedLocal
<1>5. CASE Ensure(r) \/ EnsureFails(r) \/ Publish(r)
  <2>1. /\ pc[r] \in {"ensuring", "publishing"}
        /\ \/ pc'[r] \in {"publishing", "published"}
              /\ ending'[r] = ending[r]
           \/ pc'[r] = "failing" /\ ending'[r] = "failed"
    BY <1>1, <1>5 DEF Ensure, EnsureFails, Publish, Goto, Failing, RunFunctions
  <2> QED
    BY <1>1, <1>2, <2>1, Phases, ContributedLocal
<1>6. CASE CreateForFailure(r)
  <2>1. pc[r] = "failing" /\ pc'[r] = "recording" /\ ending'[r] = ending[r]
    BY <1>1, <1>6 DEF CreateForFailure, Goto, RunFunctions
  <2> QED
    BY <1>1, <1>2, <2>1, EndingLocal DEF Ending
<1> QED
  BY <1>3, <1>4, <1>5, <1>6

----------------------------------------------------------------------------
\* The steps before the workers.

LEMMA StartLocal ==
    ASSUME RunInv, NEW r \in Run, NEW q \in Requests, Start(r, q)
    PROVE  RunLocal(r)'
<1>1. RunLocal(r) /\ RunFunctions
  BY DEF RunInv
<1>2. /\ pc[r] = "idle" /\ pc'[r] = "capturing" /\ req'[r] = q
      /\ captured'[r] = captured[r] /\ seen'[r] = seen[r]
      /\ hashed'[r] = hashed[r] /\ plan'[r] = plan[r] /\ next'[r] = next[r]
      /\ stop'[r] = stop[r] /\ thrown'[r] = thrown[r]
      /\ analysed'[r] = analysed[r] /\ worker'[r] = worker[r]
      /\ ending'[r] = ending[r]
  BY <1>1 DEF Start, Goto, pool, RunFunctions
<1>3. pc[r] \notin Planned \cup Ending
  BY <1>2, Phases DEF Ending
<1>4. plan[r] = <<>> /\ analysed[r] = <<>> /\ next[r] = 1 /\ ~stop[r]
      /\ ~thrown[r]
  BY <1>1, <1>3 DEF RunLocal, NothingPlanned
<1>5. RunTypes(r)'
  BY <1>1, <1>2, Phases DEF RunLocal, RunTypes
<1>6. "capturing" \notin Accepted \cup Ending
  BY Phases DEF Ending
<1>7. NothingPlanned(r)' /\ RequestAccepted(r)' /\ PlanInOrder(r)'
      /\ OthersMatch(r)' /\ AllContributed(r)' /\ EarlierAnalysed(r)'
  BY <1>2, <1>4, <1>6 DEF NothingPlanned, RequestAccepted, PlanInOrder,
     OthersMatch, AllContributed, EarlierAnalysed, Planned, Contributed
<1>8. PoolInv(r)' /\ NothingHashed(r)'
  BY <1>2 DEF PoolInv, NothingHashed
<1> QED
  BY <1>2, <1>5, <1>7, <1>8 DEF RunLocal

\* Notes on files with one more file.
LEMMA ReadOneMore ==
    ASSUME NEW S, NEW h \in Read(S), NEW f \in File, NEW x \in S
    PROVE  Noting(h, f, x) \in Read(S)
<1>1. DOMAIN h \in SUBSET File /\ h \in [DOMAIN h -> S]
  BY DEF Read
<1>2. Noting(h, f, x) \in [DOMAIN h \cup {f} -> S]
  BY <1>1 DEF Noting
<1> QED
  BY <1>1, <1>2 DEF Read

LEMMA CaptureLocal ==
    ASSUME RunInv, NEW r \in Run, NEW f \in File, Capture(r, f)
    PROVE  RunLocal(r)'
<1>1. RunLocal(r) /\ RunFunctions /\ disk[f] \in FileContent \cup {Absent}
  BY DEF RunInv, StoreTypes
<1>2. /\ pc[r] = "capturing" /\ pc'[r] = "capturing" /\ req'[r] = req[r]
      /\ captured'[r] = Noting(captured[r], f, disk[f]) /\ seen'[r] = seen[r]
      /\ hashed'[r] = hashed[r] /\ plan'[r] = plan[r] /\ next'[r] = next[r]
      /\ stop'[r] = stop[r] /\ thrown'[r] = thrown[r]
      /\ analysed'[r] = analysed[r] /\ worker'[r] = worker[r]
      /\ ending'[r] = ending[r]
  BY <1>1 DEF Capture, pool, RunFunctions
<1>3. captured'[r] \in Read(FileContent \cup {Absent})
  BY <1>1, <1>2, ReadOneMore DEF RunLocal, RunTypes
<1>4. RunTypes(r)'
  BY <1>1, <1>2, <1>3 DEF RunLocal, RunTypes
<1>5. "capturing" \notin Accepted \cup Ending
  BY Phases DEF Ending
<1>6. NothingPlanned(r)' /\ RequestAccepted(r)' /\ PlanInOrder(r)'
      /\ OthersMatch(r)' /\ AllContributed(r)' /\ EarlierAnalysed(r)'
  BY <1>1, <1>2, <1>5 DEF RunLocal, NothingPlanned, RequestAccepted,
     PlanInOrder, OthersMatch, AllContributed, EarlierAnalysed, Planned,
     Contributed
<1>7. PoolInv(r)' /\ NothingHashed(r)'
  BY <1>2 DEF PoolInv, NothingHashed
<1> QED
  BY <1>1, <1>2, <1>4, <1>6, <1>7 DEF RunLocal

\* A hash taken in planning or under the lock.
LEMMA HashLocal ==
    ASSUME RunInv, NEW r \in Run, NEW f \in File,
           HashPlanned(r, f) \/ HashLocked(r, f)
    PROVE  RunLocal(r)'
<1>1. RunLocal(r) /\ RunFunctions /\ disk[f] \in FileContent \cup {Absent}
  BY DEF RunInv, StoreTypes
<1>2. /\ pc[r] \in {"planning", "revalidating"} /\ pc'[r] = pc[r]
      /\ req'[r] = req[r] /\ captured'[r] = captured[r] /\ seen'[r] = seen[r]
      /\ hashed'[r] = Noting(hashed[r], f, disk[f])
      /\ plan'[r] = plan[r] /\ next'[r] = next[r]
      /\ stop'[r] = stop[r] /\ thrown'[r] = thrown[r]
      /\ analysed'[r] = analysed[r] /\ worker'[r] = worker[r]
      /\ ending'[r] = ending[r]
  BY <1>1 DEF HashPlanned, HashLocked, Hash, pool, RunFunctions
<1>3. hashed'[r] \in Read(FileContent \cup {Absent})
  BY <1>1, <1>2, ReadOneMore DEF RunLocal, RunTypes
<1>4. RunTypes(r)'
  BY <1>1, <1>2, <1>3 DEF RunLocal, RunTypes
<1>5. NothingPlanned(r)' /\ AllContributed(r)' /\ EarlierAnalysed(r)'
  BY <1>1, <1>2
     DEF RunLocal, NothingPlanned, AllContributed, EarlierAnalysed, Failures
<1>6. RequestAccepted(r)' /\ PlanInOrder(r)'
  BY <1>1, <1>2
     DEF RunLocal, RequestAccepted, PlanInOrder, Selected, CommandFor
<1>7. OthersMatch(r)'
  BY <1>1, <1>2 DEF RunLocal, OthersMatch, UnchangedSlots, UnitMatches,
     Selected, CommandFor
<1>8. PoolInv(r)' /\ NothingHashed(r)'
  BY <1>2 DEF PoolInv, NothingHashed
<1> QED
  BY <1>1, <1>2, <1>4, <1>5, <1>6, <1>7, <1>8 DEF RunLocal

LEMMA ReadCommittedLocal ==
    ASSUME RunInv, NEW r \in Run, ReadCommitted(r)
    PROVE  RunLocal(r)'
<1>1. RunLocal(r) /\ RunFunctions
  BY DEF RunInv
<1>2. /\ pc[r] = "capturing" /\ DOMAIN captured[r] = Context
      /\ req'[r] = req[r] /\ captured'[r] = captured[r]
      /\ seen'[r] = [kind |-> kind, gen |-> gen, units |-> unit]
      /\ hashed'[r] = hashed[r] /\ plan'[r] = plan[r] /\ next'[r] = next[r]
      /\ stop'[r] = stop[r] /\ thrown'[r] = thrown[r]
      /\ analysed'[r] = analysed[r] /\ worker'[r] = worker[r]
  BY <1>1 DEF ReadCommitted, pool, RunFunctions
<1>3. \/ pc'[r] = "failing" /\ ending'[r] = "rejected"
      \/ /\ pc'[r] = "planning" /\ ending'[r] = ending[r]
         /\ ~Errors(r, kind)
  BY <1>1 DEF ReadCommitted, Failing, Goto, RunFunctions
<1>4. seen'[r] \in View
  BY <1>2 DEF RunInv, StoreTypes, View
<1>5. pc[r] \notin Planned \cup Ending
  BY <1>2, Phases DEF Ending
<1>6. plan[r] = <<>> /\ analysed[r] = <<>> /\ next[r] = 1 /\ ~stop[r]
      /\ ~thrown[r] /\ req[r] \in Requests
  BY <1>1, <1>2, <1>5 DEF RunLocal, NothingPlanned
<1>7. Failures(r)' = {}
  BY <1>2, <1>6 DEF Failures
<1>8. RunTypes(r)'
  BY <1>1, <1>2, <1>3, <1>4, Phases DEF RunLocal, RunTypes
<1>9. RequestAccepted(r)'
  <2> SUFFICES ASSUME pc'[r] = "planning"
               PROVE  /\ IsInjective(req[r].actions)
                      /\ \A f \in Context : captured[r][f] \in FileContent
                      /\ \A s \in Selected(req[r]) : CommandFor(r, s) \in Command
    BY <1>2, <1>3, <1>4, Phases DEF RequestAccepted, CommandFor, Selected
  <2>1. ~Errors(r, kind)
    BY <1>3
  <2>2. IsInjective(req[r].actions)
    BY <2>1 DEF Errors
  <2>3. ASSUME NEW f \in Context
        PROVE  captured[r][f] \in FileContent
    <3>1. captured[r][f] # Absent
      BY <2>1 DEF Errors
    <3>2. captured[r] \in Read(FileContent \cup {Absent})
      BY <1>1 DEF RunLocal, RunTypes
    <3> QED
      BY <1>2, <3>1, <3>2 DEF Read
  <2>4. ASSUME NEW s \in Selected(req[r])
        PROVE  CommandFor(r, s) \in Command
    <3>1. captured[r][Database] \in FileContent
      BY <2>3, ParametersAssumption
    <3>2. CommandFor(r, s) # NoCommand
      BY <2>1, <3>1, AbsentValuesAssumption DEF Errors
    <3>3. req[r].actions \in Seq(Slot)
      BY <1>6, ParametersAssumption DEF Request
    <3>4. s \in Slot
      BY <3>3 DEF Selected, ToSet
    <3> QED
      BY <3>1, <3>2, <3>4, ParametersAssumption DEF CommandFor
  <2> QED
    BY <2>2, <2>3, <2>4
<1>10. NothingPlanned(r)' /\ PlanInOrder(r)'
  BY <1>2, <1>6 DEF NothingPlanned, PlanInOrder
<1>11. "planning" \notin Planned /\ "failing" \notin Planned
       /\ "planning" \notin Ending /\ "planning" \notin Contributed
       /\ "failing" \notin Contributed
  BY Phases DEF Ending
<1>12. OthersMatch(r)' /\ AllContributed(r)' /\ PoolInv(r)' /\ NothingHashed(r)'
  BY <1>3, <1>11
     DEF OthersMatch, AllContributed, PoolInv, NothingHashed
<1>13. EarlierAnalysed(r)'
  BY <1>3, <1>7, <1>11 DEF EarlierAnalysed
<1> QED
  BY <1>2, <1>6, <1>8, <1>9, <1>10, <1>12, <1>13 DEF RunLocal

\* An ascending enumeration of a finite set of numbers has all of them, each
\* once.
LEMMA AscendingIsOnto ==
    ASSUME NEW S \in SUBSET Nat, IsFiniteSet(S), NEW at \in Ascending(S)
    PROVE  /\ Cardinality(S) \in Nat
           /\ at \in [1 .. Cardinality(S) -> S]
           /\ \A m, n \in DOMAIN at : at[m] < at[n] => m < n
           /\ \A m, n \in DOMAIN at : at[m] = at[n] => m = n
           /\ \A x \in S : \E n \in DOMAIN at : at[n] = x
<1> DEFINE N == 1 .. Cardinality(S)
<1>1. Cardinality(S) \in Nat
  BY FS_CardinalityType
<1>2. at \in [N -> S] /\ \A m, n \in N : m < n => at[m] < at[n]
  BY DEF Ascending
<1>3. \A m \in N : m \in Nat /\ at[m] \in Nat
  <2>1. \A m \in N : m \in Nat
    BY <1>1
  <2> HIDE DEF N
  <2>2. \A m \in N : at[m] \in S
    BY <1>2
  <2> QED
    BY <2>1, <2>2
<1>4. \A m, n \in N : at[m] < at[n] => m < n
  BY <1>2, <1>3
<1>5. \A m, n \in N : at[m] = at[n] => m = n
  BY <1>2, <1>3
<1>6. at \in Injection(N, S)
  BY <1>2, <1>5 DEF Injection, IsInjective
<1>7. Cardinality(N) = Cardinality(S)
  BY <1>1, FS_Interval
<1>8. at \in Surjection(N, S)
  BY <1>6, <1>7, FS_Injection
<1>9. \A x \in S : \E n \in N : at[n] = x
  BY <1>8 DEF Surjection
<1> QED
  BY <1>1, <1>2, <1>4, <1>5, <1>9

LEMMA DecideLocal ==
    ASSUME RunInv, NEW r \in Run, Decide(r)
    PROVE  RunLocal(r)'
<1> DEFINE acts == req[r].actions
           I == {i \in DOMAIN acts : ~Unchanged(r, acts[i])}
           Works(p, w) == w \in DOMAIN p /\ (w = 1 \/ w <= req[r].jobs)
<1>1. RunLocal(r) /\ RunFunctions
  BY DEF RunInv
<1>2. /\ pc[r] = "planning" /\ pc'[r] = "analysing"
      /\ req'[r] = req[r] /\ captured'[r] = captured[r]
      /\ seen'[r] = seen[r] /\ hashed'[r] = NoFiles /\ next'[r] = next[r]
      /\ stop'[r] = stop[r] /\ thrown'[r] = thrown[r]
      /\ analysed'[r] = analysed[r] /\ ending'[r] = ending[r]
  BY <1>1 DEF Decide, Goto, RunFunctions
<1>3. PICK p \in Ascending(I) :
         /\ plan'[r] = [n \in DOMAIN p |-> acts[p[n]]]
         /\ worker'[r] = [w \in Worker |->
               IF Works(p, w) THEN [IdleWorker EXCEPT !.at = "check"]
               ELSE IdleWorker]
  BY <1>1 DEF Decide, RunFunctions
<1>4. "planning" \in Accepted /\ "planning" \notin Planned \cup Ending
      /\ "analysing" \in Phase /\ "analysing" \notin Contributed \cup Ending
  BY Phases DEF Ending
<1>5. /\ req[r] \in Requests
      /\ analysed[r] = <<>> /\ next[r] = 1 /\ ~stop[r] /\ ~thrown[r]
      /\ IsInjective(acts)
  BY <1>1, <1>2, <1>4 DEF RunLocal, NothingPlanned, RequestAccepted
<1>6. acts \in Seq(Slot)
  BY <1>5, ParametersAssumption DEF Request
<1>7. I \in SUBSET Nat /\ IsFiniteSet(I)
  <2>1. DOMAIN acts = 1 .. Len(acts) /\ Len(acts) \in Nat
    BY <1>6
  <2>2. IsFiniteSet(1 .. Len(acts))
    BY <2>1, FS_Interval
  <2> QED
    BY <2>1, <2>2, FS_Subset
<1> HIDE DEF I
<1>8. /\ Cardinality(I) \in Nat
      /\ p \in [1 .. Cardinality(I) -> I]
      /\ \A m, n \in DOMAIN p : p[m] < p[n] => m < n
      /\ \A m, n \in DOMAIN p : p[m] = p[n] => m = n
      /\ \A x \in I : \E n \in DOMAIN p : p[n] = x
  BY <1>3, <1>7, AscendingIsOnto
<1>9. \A i \in I : i \in DOMAIN acts /\ ~Unchanged(r, acts[i])
  BY DEF I
<1>10. \A i \in DOMAIN acts : i \in I \/ Unchanged(r, acts[i])
  BY DEF I
<1>11. /\ DOMAIN p = 1 .. Cardinality(I)
       /\ \A n \in DOMAIN p : p[n] \in DOMAIN acts
  BY <1>8, <1>9
<1>12. /\ DOMAIN plan'[r] = DOMAIN p
       /\ \A n \in DOMAIN p : plan'[r][n] = acts[p[n]]
  BY <1>3
<1>13. plan'[r] \in Seq(Slot) /\ Len(plan'[r]) = Cardinality(I)
  <2>1. \A n \in 1 .. Cardinality(I) : acts[p[n]] \in Slot
    BY <1>6, <1>11
  <2>2. plan'[r] \in [1 .. Cardinality(I) -> Slot]
    BY <1>3, <1>11, <2>1
  <2> QED
    BY <1>8, <2>2
<1>14. PlanInOrder(r)'
  <2>1. \A i, j \in DOMAIN acts : acts[i] = acts[j] => i = j
    BY <1>5 DEF IsInjective
  <2>2. IsInjective(plan'[r])
    BY <1>8, <1>11, <1>12, <2>1 DEF IsInjective
  <2>3. ToSet(plan'[r]) \subseteq ToSet(acts)
    BY <1>11, <1>12 DEF ToSet
  <2>4. ASSUME NEW m \in DOMAIN plan'[r], NEW n \in DOMAIN plan'[r],
               NEW i \in DOMAIN acts, NEW j \in DOMAIN acts,
               plan'[r][m] = acts[i], plan'[r][n] = acts[j], i < j
        PROVE  m < n
    <3>1. p[m] = i /\ p[n] = j
      BY <1>11, <1>12, <2>1, <2>4
    <3> QED
      BY <1>8, <1>12, <2>4, <3>1
  <2> QED
    BY <1>2, <1>5, <2>2, <2>3, <2>4 DEF PlanInOrder, Selected
<1>15. OthersMatch(r)'
  <2> SUFFICES ASSUME NEW s \in ToSet(acts) \ ToSet(plan'[r])
               PROVE  UnitMatches(r, s)'
    BY <1>2 DEF OthersMatch, UnchangedSlots, Selected
  <2>1. PICK i \in DOMAIN acts : acts[i] = s
    BY DEF ToSet
  <2>2. i \notin I
    BY <1>8, <1>12, <2>1 DEF ToSet
  <2>3. Unchanged(r, s)
    BY <1>10, <2>1, <2>2
  <2> QED
    BY <1>2, <2>3 DEF Unchanged, UnitMatches, CommandFor
<1>16. \A w \in Worker : worker'[r][w] \in WorkerState
                        /\ worker'[r][w].at \in {"check", "done"}
                        /\ (worker'[r][w].at = "done" => ~Works(p, w))
  <2>1. NoFiles \in Read(FileContent)
    BY NoFilesIsRead
  <2>2. IdleWorker \in WorkerState /\ IdleWorker.at = "done"
        /\ [IdleWorker EXCEPT !.at = "check"] \in WorkerState
        /\ [IdleWorker EXCEPT !.at = "check"].at = "check"
    BY <2>1 DEF IdleWorker, WorkerState
  <2> HIDE DEF Works
  <2>3. \A w \in Worker : worker'[r][w] =
            IF Works(p, w) THEN [IdleWorker EXCEPT !.at = "check"]
            ELSE IdleWorker
    BY <1>3
  <2>4. ASSUME NEW w \in Worker
        PROVE  /\ worker'[r][w] \in WorkerState
               /\ worker'[r][w].at \in {"check", "done"}
               /\ (worker'[r][w].at = "done" => ~Works(p, w))
    <3>1. CASE Works(p, w)
      BY <2>2, <2>3, <3>1
    <3>2. CASE ~Works(p, w)
      BY <2>2, <2>3, <3>2
    <3> QED
      BY <3>1, <3>2
  <2> QED
    BY <2>4
<1>17. RunTypes(r)'
  <2>1. worker'[r] \in [Worker -> WorkerState]
    BY <1>3, <1>16
  <2>2. hashed'[r] \in Read(FileContent \cup {Absent})
    BY <1>2, NoFilesIsRead
  <2>3. DOMAIN analysed'[r] = {}
    BY <1>2, <1>5
  <2> QED
    BY <1>1, <1>2, <1>4, <1>13, <2>1, <2>2, <2>3 DEF RunLocal, RunTypes
<1>18. PoolInv(r)'
  <2>1. \A w \in Worker : worker'[r][w].at # "run"
    BY <1>16
  <2>2. DOMAIN analysed'[r] = {} /\ next'[r] = 1 /\ ~stop'[r]
    BY <1>2, <1>5
  <2>3. \A n \in DOMAIN plan'[r] : ~(n < next'[r])
    BY <1>8, <1>11, <1>12, <2>2
  <2>4. worker'[r][1].at = "done" => next'[r] > Len(plan'[r])
    <3>1. 1 \in Worker
      BY ParametersAssumption DEF Worker
    <3>2. worker'[r][1].at = "done" => 1 \notin DOMAIN p
      BY <1>16, <3>1
    <3> QED
      BY <1>8, <1>11, <1>13, <2>2, <3>2
  <2> QED
    BY <2>1, <2>2, <2>3, <2>4 DEF PoolInv
<1>19. RequestAccepted(r)'
  BY <1>1, <1>2, <1>4
     DEF RunLocal, RequestAccepted, Selected, CommandFor
<1>20. NothingPlanned(r)' /\ AllContributed(r)' /\ EarlierAnalysed(r)'
       /\ NothingHashed(r)'
  BY <1>2, <1>4, Phases
     DEF NothingPlanned, AllContributed, EarlierAnalysed, NothingHashed
<1> QED
  BY <1>2, <1>5, <1>14, <1>15, <1>17, <1>18, <1>19, <1>20 DEF RunLocal

----------------------------------------------------------------------------
\* The workers.

KeepsPlan(r) ==
    /\ pc'[r] = pc[r]
    /\ req'[r] = req[r]
    /\ captured'[r] = captured[r]
    /\ seen'[r] = seen[r]
    /\ hashed'[r] = hashed[r]
    /\ plan'[r] = plan[r]
    /\ ending'[r] = ending[r]

LEMMA PoolLocal ==
    ASSUME NEW r \in Run, RunLocal(r), KeepsPlan(r), pc[r] = "analysing",
           next'[r] \in Nat \ {0},
           stop'[r] \in BOOLEAN,
           thrown'[r] \in BOOLEAN,
           DOMAIN analysed'[r] \subseteq DOMAIN plan[r],
           \A n \in DOMAIN analysed'[r] : analysed'[r][n] \in Outcomes,
           worker'[r] \in [Worker -> WorkerState],
           PoolInv(r)'
    PROVE  RunLocal(r)'
<1> USE DEF KeepsPlan
<1>1. RunTypes(r)' /\ (pc[r] # "idle" => req[r] \in Requests)'
  BY DEF RunLocal, RunTypes
<1>2. NothingHashed(r)'
  BY DEF RunLocal, NothingHashed
<1>3. RequestAccepted(r)' /\ PlanInOrder(r)'
  BY DEF RunLocal, RequestAccepted, PlanInOrder, Selected, CommandFor
<1>4. OthersMatch(r)'
  BY DEF RunLocal, OthersMatch, UnchangedSlots, UnitMatches, Selected,
         CommandFor
<1>5. NothingPlanned(r)' /\ AllContributed(r)' /\ EarlierAnalysed(r)'
  BY Phases DEF NothingPlanned, AllContributed, EarlierAnalysed, Ending
<1> QED
  BY <1>1, <1>2, <1>3, <1>4, <1>5 DEF RunLocal

\* What a step of worker w leaves alone.
WorkerStep(r, w, x) ==
    /\ worker'[r][w] = x
    /\ \A v \in Worker \ {w} : worker'[r][v] = worker[r][v]
    /\ worker'[r] \in [Worker -> WorkerState]

LEMMA OneWorker ==
    ASSUME RunFunctions, NEW r \in Run, RunLocal(r), NEW w \in Worker,
           NEW x \in WorkerState, worker' = [worker EXCEPT ![r][w] = x]
    PROVE  WorkerStep(r, w, x)
<1>1. worker[r] \in [Worker -> WorkerState]
  BY DEF RunLocal, RunTypes
<1>2. worker'[r] = [worker[r] EXCEPT ![w] = x]
  BY DEF RunFunctions
<1> QED
  BY <1>1, <1>2 DEF WorkerStep

LEMMA IdleStates ==
    /\ [IdleWorker EXCEPT !.at = "check"] \in WorkerState
    /\ [IdleWorker EXCEPT !.at = "check"].at = "check"
BY NoFilesIsRead DEF IdleWorker, WorkerState

LEMMA CheckStopLocal ==
    ASSUME RunInv, NEW r \in Run, NEW w \in Worker, CheckStop(r, w)
    PROVE  RunLocal(r)'
<1>1. RunLocal(r) /\ RunFunctions /\ worker[r] \in [Worker -> WorkerState]
      /\ PoolInv(r)
  BY DEF RunInv, RunLocal, RunTypes
<1>2. /\ KeepsPlan(r) /\ pc[r] = "analysing" /\ next'[r] = next[r]
      /\ stop'[r] = stop[r] /\ thrown'[r] = thrown[r]
      /\ analysed'[r] = analysed[r]
      /\ worker[r][w].at = "check"
  BY <1>1 DEF CheckStop, Working, KeepsPlan, RunFunctions
<1>3. PICK l \in {"done", "fetch"} :
         /\ worker' = [worker EXCEPT ![r][w].at = l]
         /\ l = "done" => stop[r]
  <2>1. CASE stop[r]
    BY <2>1 DEF CheckStop, At
  <2>2. CASE ~stop[r]
    BY <2>2 DEF CheckStop, At
  <2> QED
    BY <2>1, <2>2
<1>4. [worker[r][w] EXCEPT !.at = l] \in WorkerState
      /\ [worker[r][w] EXCEPT !.at = l].at = l
  BY <1>1 DEF WorkerState
<1>5. worker' = [worker EXCEPT ![r][w] = [worker[r][w] EXCEPT !.at = l]]
  BY <1>1, <1>3 DEF RunFunctions
<1>6. WorkerStep(r, w, [worker[r][w] EXCEPT !.at = l])
  BY <1>1, <1>4, <1>5, OneWorker
<1>7. \A v \in Worker : worker'[r][v].at = "run" <=> worker[r][v].at = "run"
  BY <1>2, <1>4, <1>6 DEF WorkerStep
<1>8. \A v \in Worker : worker[r][v].at = "run" =>
         worker'[r][v] = worker[r][v]
  BY <1>2, <1>6 DEF WorkerStep
<1>9. 1 \in Worker /\ (worker'[r][1].at = "done" =>
                          worker[r][1].at = "done" \/ stop[r])
  BY <1>3, <1>4, <1>6, ParametersAssumption DEF WorkerStep, Worker
<1>10. PoolInv(r)'
  <2> SUFFICES
        /\ \A v \in Worker : worker'[r][v].at = "run" =>
              /\ worker'[r][v].n \in DOMAIN plan[r] \ DOMAIN analysed[r]
              /\ worker'[r][v].n < next[r]
        /\ \A u, v \in Worker :
              /\ worker'[r][u].at = "run"
              /\ worker'[r][v].at = "run"
              /\ worker'[r][u].n = worker'[r][v].n
              => u = v
        /\ \A n \in DOMAIN analysed[r] : n < next[r]
        /\ \A n \in DOMAIN plan[r] : n < next[r] =>
              \/ n \in DOMAIN analysed[r]
              \/ \E v \in Worker : worker'[r][v].at = "run"
                                   /\ worker'[r][v].n = n
              \/ thrown[r]
        /\ worker'[r][1].at = "done" => stop[r] \/ next[r] > Len(plan[r])
        /\ stop[r] => thrown[r] \/ Failures(r) # {}
    BY <1>2 DEF PoolInv, KeepsPlan, Failures
  <2> QED
    BY <1>1, <1>2, <1>7, <1>8, <1>9 DEF PoolInv
<1>11. worker'[r] \in [Worker -> WorkerState]
  BY <1>6 DEF WorkerStep
<1> QED
  BY <1>1, <1>2, <1>10, <1>11, PoolLocal DEF RunLocal, RunTypes

LEMMA FetchLocal ==
    ASSUME RunInv, NEW r \in Run, NEW w \in Worker, Fetch(r, w)
    PROVE  RunLocal(r)'
<1>1. RunLocal(r) /\ RunFunctions /\ worker[r] \in [Worker -> WorkerState]
      /\ PoolInv(r) /\ plan[r] \in Seq(Slot) /\ next[r] \in Nat \ {0}
  BY DEF RunInv, RunLocal, RunTypes
<1>2. /\ KeepsPlan(r) /\ pc[r] = "analysing" /\ next'[r] = next[r] + 1
      /\ stop'[r] = stop[r] /\ thrown'[r] = thrown[r]
      /\ analysed'[r] = analysed[r]
      /\ worker[r][w].at = "fetch"
  BY <1>1 DEF Fetch, Working, KeepsPlan, RunFunctions
<1>3. DOMAIN plan[r] = 1 .. Len(plan[r]) /\ Len(plan[r]) \in Nat
  BY <1>1
<1>4. /\ \A n \in DOMAIN analysed[r] : n < next[r]
      /\ DOMAIN analysed[r] \subseteq DOMAIN plan[r]
      /\ next[r] \notin DOMAIN analysed[r]
  <2>1. \A n \in DOMAIN analysed[r] : n < next[r]
    BY <1>1, <1>2 DEF PoolInv
  <2> QED
    BY <1>1, <2>1 DEF RunLocal, RunTypes
<1>5. CASE next[r] > Len(plan[r])
  <2> DEFINE x == [worker[r][w] EXCEPT !.at = "done"]
  <2>1. worker' = [worker EXCEPT ![r][w] = x]
    BY <1>1, <1>5 DEF Fetch, At, RunFunctions
  <2>2. x \in WorkerState /\ x.at = "done"
    BY <1>1 DEF WorkerState
  <2> HIDE DEF x
  <2>3. WorkerStep(r, w, x)
    BY <1>1, <2>1, <2>2, OneWorker
  <2>4. \A v \in Worker :
           /\ worker'[r][v].at = "run" <=> worker[r][v].at = "run"
           /\ worker[r][v].at = "run" => worker'[r][v] = worker[r][v]
    BY <1>2, <2>2, <2>3 DEF WorkerStep
  <2>5. PoolInv(r)'
    <3> SUFFICES
          /\ \A v \in Worker : worker'[r][v].at = "run" =>
                /\ worker'[r][v].n \in DOMAIN plan[r] \ DOMAIN analysed[r]
                /\ worker'[r][v].n < next'[r]
          /\ \A u, v \in Worker :
                /\ worker'[r][u].at = "run"
                /\ worker'[r][v].at = "run"
                /\ worker'[r][u].n = worker'[r][v].n
                => u = v
          /\ \A n \in DOMAIN analysed[r] : n < next'[r]
          /\ \A n \in DOMAIN plan[r] : n < next'[r] =>
                \/ n \in DOMAIN analysed[r]
                \/ \E v \in Worker : worker'[r][v].at = "run"
                                     /\ worker'[r][v].n = n
                \/ thrown[r]
          /\ next'[r] > Len(plan[r])
          /\ stop[r] => thrown[r] \/ Failures(r) # {}
      BY <1>2 DEF PoolInv, KeepsPlan, Failures
    <3>1. \A n \in DOMAIN plan[r] : n < next[r]
      BY <1>1, <1>3, <1>5
    <3>2. \A v \in Worker : worker[r][v].at = "run" =>
             /\ worker[r][v].n \in DOMAIN plan[r] \ DOMAIN analysed[r]
             /\ worker[r][v].n < next[r] + 1
      BY <1>1, <1>2, <1>3 DEF PoolInv
    <3>3. \A n \in DOMAIN analysed[r] : n < next[r] + 1
      BY <1>1, <1>3, <1>4
    <3> QED
      BY <1>1, <1>2, <1>3, <1>5, <2>4, <3>1, <3>2, <3>3 DEF PoolInv
  <2>6. worker'[r] \in [Worker -> WorkerState] /\ next'[r] \in Nat \ {0}
    BY <1>1, <1>2, <2>3 DEF WorkerStep
  <2> QED
    BY <1>1, <1>2, <2>5, <2>6, PoolLocal DEF RunLocal, RunTypes
<1>6. CASE ~(next[r] > Len(plan[r]))
  <2> DEFINE x == [at |-> "run", n |-> next[r], read |-> NoFiles]
  <2>1. worker' = [worker EXCEPT ![r][w] = x]
    BY <1>6 DEF Fetch
  <2>2. x \in WorkerState /\ x.at = "run" /\ x.n = next[r]
    BY <1>1, NoFilesIsRead DEF WorkerState
  <2> HIDE DEF x
  <2>3. WorkerStep(r, w, x)
    BY <1>1, <2>1, <2>2, OneWorker
  <2>4. next[r] \in DOMAIN plan[r]
    BY <1>1, <1>3, <1>6
  <2>5. /\ worker'[r][w].at = "run" /\ worker'[r][w].n = next[r]
        /\ \A v \in Worker \ {w} : worker'[r][v] = worker[r][v]
    BY <2>2, <2>3 DEF WorkerStep
  <2>6. \A v \in Worker : worker[r][v].at = "run" =>
           /\ v # w
           /\ worker[r][v].n \in DOMAIN plan[r] \ DOMAIN analysed[r]
           /\ worker[r][v].n < next[r]
           /\ worker[r][v].n < next[r] + 1
           /\ worker[r][v].n # next[r]
    BY <1>1, <1>2, <1>3 DEF PoolInv
  <2>7. PoolInv(r)'
    <3> SUFFICES
          /\ \A v \in Worker : worker'[r][v].at = "run" =>
                /\ worker'[r][v].n \in DOMAIN plan[r] \ DOMAIN analysed[r]
                /\ worker'[r][v].n < next[r] + 1
          /\ \A u, v \in Worker :
                /\ worker'[r][u].at = "run"
                /\ worker'[r][v].at = "run"
                /\ worker'[r][u].n = worker'[r][v].n
                => u = v
          /\ \A n \in DOMAIN analysed[r] : n < next[r] + 1
          /\ \A n \in DOMAIN plan[r] : n < next[r] + 1 =>
                \/ n \in DOMAIN analysed[r]
                \/ \E v \in Worker : worker'[r][v].at = "run"
                                     /\ worker'[r][v].n = n
                \/ thrown[r]
          /\ worker'[r][1].at = "done" => stop[r] \/ next[r] + 1 > Len(plan[r])
          /\ stop[r] => thrown[r] \/ Failures(r) # {}
      BY <1>2 DEF PoolInv, KeepsPlan, Failures
    <3>1. \A v \in Worker : worker'[r][v].at = "run" =>
             /\ worker'[r][v].n \in DOMAIN plan[r] \ DOMAIN analysed[r]
             /\ worker'[r][v].n < next[r] + 1
      BY <1>1, <1>4, <2>4, <2>5, <2>6
    <3>2. \A u, v \in Worker :
             /\ worker'[r][u].at = "run"
             /\ worker'[r][v].at = "run"
             /\ worker'[r][u].n = worker'[r][v].n
             => u = v
      BY <1>1, <1>2, <2>5, <2>6 DEF PoolInv
    <3>3. \A n \in DOMAIN analysed[r] : n < next[r] + 1
      BY <1>1, <1>3, <1>4
    <3>4. ASSUME NEW n \in DOMAIN plan[r], n < next[r] + 1
          PROVE  \/ n \in DOMAIN analysed[r]
                 \/ \E v \in Worker : worker'[r][v].at = "run"
                                      /\ worker'[r][v].n = n
                 \/ thrown[r]
      <4>1. n = next[r] \/ n < next[r]
        BY <1>1, <1>3, <3>4
      <4>2. CASE n < next[r]
        BY <1>1, <1>2, <2>5, <2>6, <4>2 DEF PoolInv
      <4>3. CASE n = next[r]
        BY <2>5, <4>3
      <4> QED
        BY <4>1, <4>2, <4>3
    <3>5. 1 \in Worker
      BY ParametersAssumption DEF Worker
    <3>6. worker'[r][1].at = "done" => worker[r][1].at = "done"
      BY <2>5, <3>5
    <3>7. worker[r][1].at = "done" => stop[r]
      BY <1>1, <1>2, <1>6 DEF PoolInv
    <3>8. stop[r] => thrown[r] \/ Failures(r) # {}
      BY <1>1, <1>2 DEF PoolInv
    <3> QED
      BY <3>1, <3>2, <3>3, <3>4, <3>6, <3>7, <3>8
  <2>8. worker'[r] \in [Worker -> WorkerState] /\ next'[r] \in Nat \ {0}
    BY <1>1, <1>2, <2>3 DEF WorkerStep
  <2> QED
    BY <1>1, <1>2, <2>7, <2>8, PoolLocal DEF RunLocal, RunTypes
<1> QED
  BY <1>5, <1>6

LEMMA ReadInputLocal ==
    ASSUME RunInv, NEW r \in Run, NEW w \in Worker, NEW f \in File,
           ReadInput(r, w, f)
    PROVE  RunLocal(r)'
<1>1. RunLocal(r) /\ RunFunctions /\ worker[r] \in [Worker -> WorkerState]
      /\ PoolInv(r) /\ disk[f] \in FileContent \cup {Absent}
  BY DEF RunInv, RunLocal, RunTypes, StoreTypes
<1>2. /\ KeepsPlan(r) /\ pc[r] = "analysing" /\ next'[r] = next[r]
      /\ stop'[r] = stop[r] /\ thrown'[r] = thrown[r]
      /\ analysed'[r] = analysed[r]
      /\ worker[r][w].at = "run" /\ disk[f] # Absent
  BY <1>1 DEF ReadInput, Working, KeepsPlan, RunFunctions
<1> DEFINE x == [worker[r][w] EXCEPT
                    !.read = Noting(worker[r][w].read, f, disk[f])]
<1>3. worker' = [worker EXCEPT ![r][w] = x]
  BY <1>1 DEF ReadInput, RunFunctions
<1>4. x \in WorkerState /\ x.at = "run" /\ x.n = worker[r][w].n
  <2>1. worker[r][w] \in WorkerState
    BY <1>1
  <2>2. worker[r][w].read \in Read(FileContent)
    BY <2>1 DEF WorkerState
  <2>3. Noting(worker[r][w].read, f, disk[f]) \in Read(FileContent)
    BY <1>1, <1>2, <2>2, ReadOneMore
  <2> QED
    BY <1>2, <2>1, <2>3 DEF WorkerState
<1> HIDE DEF x
<1>5. WorkerStep(r, w, x)
  BY <1>1, <1>3, <1>4, OneWorker
<1>6. \A v \in Worker : worker'[r][v].at = worker[r][v].at
                       /\ worker'[r][v].n = worker[r][v].n
  BY <1>2, <1>4, <1>5 DEF WorkerStep
<1>7. 1 \in Worker
  BY ParametersAssumption DEF Worker
<1>8. PoolInv(r)'
  BY <1>1, <1>2, <1>6, <1>7 DEF PoolInv, KeepsPlan, Failures
<1>9. worker'[r] \in [Worker -> WorkerState]
  BY <1>5 DEF WorkerStep
<1> QED
  BY <1>1, <1>2, <1>8, <1>9, PoolLocal DEF RunLocal, RunTypes

\* An analysis ends with an outcome: one that is not good stops the pool.
LEMMA OutcomeLocal ==
    ASSUME RunInv, NEW r \in Run, NEW w \in Worker, NEW o \in Outcomes,
           KeepsPlan(r), Working(r, w, "run"),
           analysed' = [analysed EXCEPT ![r] = Noting(@, worker[r][w].n, o)],
           worker' = [worker EXCEPT ![r][w] = [IdleWorker EXCEPT !.at = "check"]],
           next'[r] = next[r], thrown'[r] = thrown[r],
           stop'[r] \in BOOLEAN,
           (o.good /\ stop'[r] = stop[r]) \/ (~o.good /\ stop'[r])
    PROVE  RunLocal(r)'
<1> DEFINE n0 == worker[r][w].n
<1>1. RunLocal(r) /\ RunFunctions /\ worker[r] \in [Worker -> WorkerState]
      /\ PoolInv(r) /\ next[r] \in Nat \ {0}
      /\ DOMAIN analysed[r] \subseteq DOMAIN plan[r]
  BY DEF RunInv, RunLocal, RunTypes
<1>2. pc[r] = "analysing" /\ worker[r][w].at = "run"
  BY DEF Working
<1>3. n0 \in DOMAIN plan[r] \ DOMAIN analysed[r] /\ n0 < next[r]
  BY <1>1, <1>2 DEF PoolInv
<1>4. analysed'[r] = Noting(analysed[r], n0, o)
  BY <1>1 DEF RunFunctions
<1>5. WorkerStep(r, w, [IdleWorker EXCEPT !.at = "check"])
  BY <1>1, IdleStates, OneWorker
<1>6. worker'[r][w].at = "check" /\ worker'[r] \in [Worker -> WorkerState]
      /\ \A v \in Worker \ {w} : worker'[r][v] = worker[r][v]
  BY <1>5, IdleStates DEF WorkerStep
<1>7. \A v \in Worker : worker[r][v].at = "run" /\ v # w =>
         /\ worker[r][v].n # n0
         /\ worker[r][v].n \in DOMAIN plan[r] \ DOMAIN analysed[r]
         /\ worker[r][v].n < next[r]
  BY <1>1, <1>2 DEF PoolInv
<1> HIDE DEF n0
<1>8. /\ DOMAIN analysed'[r] = DOMAIN analysed[r] \cup {n0}
      /\ analysed'[r][n0] = o
      /\ \A n \in DOMAIN analysed[r] : analysed'[r][n] = analysed[r][n]
  BY <1>3, <1>4 DEF Noting
<1>9. Failures(r)' = Failures(r) \cup (IF o.good THEN {} ELSE {n0})
  BY <1>3, <1>8 DEF Failures
<1>10. PoolInv(r)'
  <2> SUFFICES
        /\ \A v \in Worker : worker'[r][v].at = "run" =>
              /\ worker'[r][v].n \in DOMAIN plan[r] \ DOMAIN analysed'[r]
              /\ worker'[r][v].n < next[r]
        /\ \A u, v \in Worker :
              /\ worker'[r][u].at = "run"
              /\ worker'[r][v].at = "run"
              /\ worker'[r][u].n = worker'[r][v].n
              => u = v
        /\ \A n \in DOMAIN analysed'[r] : n < next[r]
        /\ \A n \in DOMAIN plan[r] : n < next[r] =>
              \/ n \in DOMAIN analysed'[r]
              \/ \E v \in Worker : worker'[r][v].at = "run"
                                   /\ worker'[r][v].n = n
              \/ thrown[r]
        /\ worker'[r][1].at = "done" => stop'[r] \/ next[r] > Len(plan[r])
        /\ stop'[r] => thrown[r] \/ Failures(r)' # {}
    BY DEF PoolInv, KeepsPlan
  <2>1. \A v \in Worker : worker'[r][v].at = "run" =>
           /\ worker'[r][v].n \in DOMAIN plan[r] \ DOMAIN analysed'[r]
           /\ worker'[r][v].n < next[r]
    BY <1>6, <1>7, <1>8
  <2>2. \A u, v \in Worker :
           /\ worker'[r][u].at = "run"
           /\ worker'[r][v].at = "run"
           /\ worker'[r][u].n = worker'[r][v].n
           => u = v
    BY <1>1, <1>2, <1>6 DEF PoolInv
  <2>3. \A n \in DOMAIN analysed'[r] : n < next[r]
    BY <1>1, <1>2, <1>3, <1>8 DEF PoolInv
  <2>4. ASSUME NEW n \in DOMAIN plan[r], n < next[r]
        PROVE  \/ n \in DOMAIN analysed'[r]
               \/ \E v \in Worker : worker'[r][v].at = "run"
                                    /\ worker'[r][v].n = n
               \/ thrown[r]
    <3>1. CASE n \in DOMAIN analysed[r] \/ n = n0 \/ thrown[r]
      BY <1>8, <3>1
    <3>2. CASE \E v \in Worker : worker[r][v].at = "run" /\ worker[r][v].n = n
      BY <1>6, <1>8, <3>2 DEF n0
    <3> QED
      BY <1>1, <1>2, <2>4, <3>1, <3>2 DEF PoolInv
  <2>5. 1 \in Worker
    BY ParametersAssumption DEF Worker
  <2>6. worker'[r][1].at = "done" => stop[r] \/ next[r] > Len(plan[r])
    BY <1>1, <1>2, <1>6, <2>5 DEF PoolInv
  <2>7. stop[r] => stop'[r]
    OBVIOUS
  <2>8. stop'[r] => thrown[r] \/ Failures(r)' # {}
    <3>1. CASE o.good
      BY <1>1, <1>2, <1>9, <3>1 DEF PoolInv
    <3>2. CASE ~o.good
      BY <1>9, <3>2
    <3> QED
      BY <3>1, <3>2
  <2> QED
    BY <2>1, <2>2, <2>3, <2>4, <2>6, <2>7, <2>8
<1>11. /\ DOMAIN analysed'[r] \subseteq DOMAIN plan[r]
       /\ \A n \in DOMAIN analysed'[r] : analysed'[r][n] \in Outcomes
  <2>1. \A n \in DOMAIN analysed[r] : analysed[r][n] \in Outcomes
    BY <1>1 DEF RunLocal, RunTypes
  <2> QED
    BY <1>1, <1>3, <1>8, <2>1
<1>12. next'[r] \in Nat \ {0} /\ thrown'[r] \in BOOLEAN
  BY <1>1 DEF RunLocal, RunTypes
<1> QED
  BY <1>1, <1>2, <1>6, <1>10, <1>11, <1>12, PoolLocal

LEMMA AnalysisEndsLocal ==
    ASSUME RunInv, NEW r \in Run, NEW w \in Worker,
           AnalysisSucceeds(r, w) \/ AnalysisFails(r, w)
    PROVE  RunLocal(r)'
<1>1. RunFunctions /\ RunLocal(r)
  BY DEF RunInv
<1>2. worker[r][w].read \in Read(FileContent)
  <2>1. worker[r] \in [Worker -> WorkerState]
    BY <1>1 DEF RunLocal, RunTypes
  <2> QED
    BY <2>1 DEF WorkerState
<1>3. KeepsPlan(r) /\ Working(r, w, "run")
      /\ worker' = [worker EXCEPT ![r][w] = [IdleWorker EXCEPT !.at = "check"]]
      /\ next'[r] = next[r]
  BY <1>1 DEF AnalysisSucceeds, AnalysisFails, KeepsPlan, RunFunctions
<1>4. CASE AnalysisSucceeds(r, w)
  <2> DEFINE o == [good |-> TRUE, read |-> worker[r][w].read]
  <2>1. o \in Outcomes /\ o.good
    BY <1>2 DEF Outcomes
  <2>2. analysed' = [analysed EXCEPT ![r] = Noting(@, worker[r][w].n, o)]
        /\ stop' = stop /\ thrown' = thrown
    BY <1>4 DEF AnalysisSucceeds, Analysed
  <2>3. stop'[r] \in BOOLEAN
    BY <1>1, <2>2 DEF RunLocal, RunTypes
  <2> HIDE DEF o
  <2> QED
    BY <1>3, <2>1, <2>2, <2>3, OutcomeLocal
<1>5. CASE AnalysisFails(r, w)
  <2> DEFINE o == [good |-> FALSE, read |-> worker[r][w].read]
  <2>1. o \in Outcomes /\ ~o.good
    BY <1>2 DEF Outcomes
  <2>2. analysed' = [analysed EXCEPT ![r] = Noting(@, worker[r][w].n, o)]
        /\ stop'[r] = TRUE /\ thrown' = thrown
    BY <1>1, <1>5 DEF AnalysisFails, Analysed, RunFunctions
  <2>3. stop'[r] \in BOOLEAN
    BY <2>2, Zenon
  <2> HIDE DEF o
  <2> QED
    BY <1>3, <2>1, <2>2, <2>3, OutcomeLocal
<1> QED
  BY <1>4, <1>5

LEMMA AnalysisThrowsLocal ==
    ASSUME RunInv, NEW r \in Run, NEW w \in Worker, AnalysisThrows(r, w)
    PROVE  RunLocal(r)'
<1>1. RunLocal(r) /\ RunFunctions /\ worker[r] \in [Worker -> WorkerState]
      /\ PoolInv(r)
  BY DEF RunInv, RunLocal, RunTypes
<1>2. /\ KeepsPlan(r) /\ pc[r] = "analysing" /\ next'[r] = next[r]
      /\ stop'[r] = TRUE /\ thrown'[r] = TRUE /\ analysed'[r] = analysed[r]
      /\ worker' = [worker EXCEPT ![r][w] = [IdleWorker EXCEPT !.at = "check"]]
      /\ worker[r][w].at = "run"
  BY <1>1 DEF AnalysisThrows, Working, KeepsPlan, RunFunctions
<1>3. WorkerStep(r, w, [IdleWorker EXCEPT !.at = "check"])
  BY <1>1, <1>2, IdleStates, OneWorker
<1>4. worker'[r][w].at = "check" /\ worker'[r] \in [Worker -> WorkerState]
      /\ \A v \in Worker \ {w} : worker'[r][v] = worker[r][v]
  BY <1>3, IdleStates DEF WorkerStep
<1>5. stop'[r] \in BOOLEAN /\ thrown'[r] \in BOOLEAN
  BY <1>2, Zenon
<1>6. stop'[r] /\ thrown'[r]
  BY <1>2
<1>7. PoolInv(r)'
  BY <1>1, <1>2, <1>4, <1>6 DEF PoolInv, KeepsPlan, Failures
<1> QED
  BY <1>1, <1>2, <1>4, <1>5, <1>7, PoolLocal DEF RunLocal, RunTypes

LEMMA WorkLocal ==
    ASSUME RunInv, NEW r \in Run, NEW w \in Worker, Work(r, w)
    PROVE  RunLocal(r)'
BY CheckStopLocal, FetchLocal, ReadInputLocal, AnalysisEndsLocal,
   AnalysisThrowsLocal DEF Work

\* When every worker is done and nothing was thrown, every entry up to a
\* failure has its outcome, and without a failure every entry has.
LEMMA JoinLocal ==
    ASSUME RunInv, NEW r \in Run, Join(r)
    PROVE  RunLocal(r)'
<1>1. RunLocal(r) /\ RunFunctions /\ PoolInv(r)
      /\ plan[r] \in Seq(Slot) /\ next[r] \in Nat
      /\ DOMAIN analysed[r] \subseteq DOMAIN plan[r]
  BY DEF RunInv, RunLocal, RunTypes
<1>2. pc[r] = "analysing" /\ \A w \in Worker : worker[r][w].at = "done"
  BY DEF Join
<1>3. CASE thrown[r]
  BY <1>1, <1>3, ForgetLocal DEF Join
<1>4. CASE ~thrown[r]
  <2>1. KeepsWork(r)
    BY <1>1, <1>4 DEF Join, pool, KeepsWork, RunFunctions
  <2>2. \/ Failures(r) # {} /\ pc'[r] = "failing" /\ ending'[r] = "failed"
        \/ Failures(r) = {} /\ pc'[r] = "locking" /\ ending'[r] = ending[r]
    BY <1>1, <1>4 DEF Join, Failing, Goto, RunFunctions
  <2>3. \A n \in DOMAIN plan[r] : n < next[r] => n \in DOMAIN analysed[r]
    BY <1>1, <1>2, <1>4 DEF PoolInv
  <2>4. DOMAIN plan[r] = 1 .. Len(plan[r]) /\ Len(plan[r]) \in Nat
    BY <1>1
  <2>5. \A n \in DOMAIN analysed[r] : n < next[r]
    BY <1>1, <1>2 DEF PoolInv
  <2>6. \A n \in Failures(r), m \in DOMAIN plan[r] :
           m < n => m \in DOMAIN analysed[r]
    <3> SUFFICES ASSUME NEW n \in Failures(r), NEW m \in DOMAIN plan[r], m < n
                 PROVE  m \in DOMAIN analysed[r]
      OBVIOUS
    <3>1. n \in DOMAIN plan[r] /\ n < next[r]
      BY <1>1, <2>5 DEF Failures
    <3>2. m < next[r]
      BY <1>1, <2>4, <3>1
    <3> QED
      BY <2>3, <3>2
  <2>7. Failures(r) = {} => DOMAIN analysed[r] = DOMAIN plan[r]
    <3> SUFFICES ASSUME Failures(r) = {}
                 PROVE  \A n \in DOMAIN plan[r] : n < next[r]
      BY <1>1, <2>3
    <3>1. 1 \in Worker
      BY ParametersAssumption DEF Worker
    <3>2. next[r] > Len(plan[r])
      BY <1>1, <1>2, <1>4, <3>1 DEF PoolInv
    <3> QED
      BY <1>1, <2>4, <3>2
  <2>8. ending'[r] \in {"committed", "rejected", "failed"}
    BY <1>1, <2>2 DEF RunLocal, RunTypes
  <2>9. CASE Failures(r) # {}
    BY <1>1, <1>2, <2>1, <2>2, <2>6, <2>8, <2>9, Phases, PhaseLocal DEF Ending
  <2>10. CASE Failures(r) = {}
    BY <1>1, <1>2, <2>1, <2>2, <2>7, <2>8, <2>10, Phases, PhaseLocal
       DEF Ending
  <2> QED
    BY <2>9, <2>10
<1> QED
  BY <1>3, <1>4

----------------------------------------------------------------------------
\* What the holder of the lock knows.

LEMMA HashShared ==
    ASSUME RunInv, NEW r \in Run, NEW f \in File, HashLocked(r, f)
    PROVE  RunShared(r)'
<1>1. /\ RunFunctions /\ RunShared(r) /\ pc[r] = "revalidating"
      /\ \A g \in DOMAIN hashed[r] : hashed[r][g] \in held[g]
  BY DEF RunInv, HashLocked, RunShared
<1>2. hashed'[r] = Noting(hashed[r], f, disk[f]) /\ pc'[r] = "revalidating"
      /\ held' = held
  BY <1>1 DEF HashLocked, Hash, RunFunctions, store
<1>3. lock = r
  BY <1>1 DEF RunInv, IndexInvariant, LockDiscipline, Holding
<1>4. disk[f] \in held[f]
  BY <1>3, AbsentValuesAssumption DEF RunInv, StoreTypes
<1>5. \A g \in DOMAIN hashed'[r] : hashed'[r][g] \in held'[g]
  BY <1>1, <1>2, <1>4 DEF Noting
<1> QED
  BY <1>2, <1>5 DEF RunShared

LEMMA CheckPlanShared ==
    ASSUME RunInv, NEW r \in Run, CheckPlan(r)
    PROVE  RunShared(r)'
<1>1. RunFunctions /\ pc[r] = "locked" /\ hashed'[r] = hashed[r]
      /\ pc'[r] \in {"revalidating", "failing"}
  BY DEF RunInv, CheckPlan, Goto, Failing, RunFunctions
<1>2. hashed[r] = NoFiles
  BY <1>1 DEF RunInv, RunLocal, NothingHashed
<1>3. DOMAIN hashed'[r] = {}
  BY <1>1, <1>2 DEF NoFiles
<1> QED
  BY <1>1, <1>3 DEF RunShared

LEMMA RevalidateShared ==
    ASSUME RunInv, NEW r \in Run, Revalidate(r)
    PROVE  RunShared(r)'
<1>1. /\ RunFunctions /\ pc[r] = "revalidating" /\ RunShared(r)
      /\ ToRevalidate(r) \subseteq DOMAIN hashed[r]
      /\ \A f \in DOMAIN hashed[r] : hashed[r][f] \in held[f]
  BY DEF RunInv, Revalidate, RunShared
<1>2. held' = held /\ KeepsWork(r)
  BY <1>1 DEF Revalidate, store, pool, KeepsWork, RunFunctions
<1>3. \/ pc'[r] = "failing"
      \/ /\ pc'[r] = "ensuring"
         /\ ContextHolds(r) /\ AnalysesHold(r) /\ UnchangedHold(r)
  BY <1>1 DEF Revalidate, Goto, Failing, RunFunctions
<1>4. CASE pc'[r] = "failing"
  BY <1>4 DEF RunShared
<1>5. CASE /\ pc'[r] = "ensuring"
           /\ ContextHolds(r) /\ AnalysesHold(r) /\ UnchangedHold(r)
  <2>1. \A f \in Context : captured[r][f] \in held[f]
    BY <1>1, <1>5 DEF ContextHolds, ToRevalidate
  <2>2. \A n \in DOMAIN analysed[r] : \A f \in DOMAIN analysed[r][n].read :
           analysed[r][n].read[f] \in held[f]
    <3> SUFFICES ASSUME NEW n \in DOMAIN analysed[r],
                        NEW f \in DOMAIN analysed[r][n].read
                 PROVE  analysed[r][n].read[f] \in held[f]
      OBVIOUS
    <3>1. f \in ToRevalidate(r)
      BY DEF ToRevalidate
    <3> QED
      BY <1>1, <1>5, <3>1 DEF AnalysesHold
  <2>3. \A s \in UnchangedSlots(r) : \A f \in Tracked(seen[r].units[s]) :
           seen[r].units[s].inputs[f] \in held[f]
    <3> SUFFICES ASSUME NEW s \in UnchangedSlots(r),
                        NEW f \in Tracked(seen[r].units[s])
                 PROVE  seen[r].units[s].inputs[f] \in held[f]
      OBVIOUS
    <3>1. f \in ToRevalidate(r)
      BY DEF ToRevalidate
    <3> QED
      BY <1>1, <1>5, <3>1 DEF UnchangedHold
  <2>4. InputsHeld(r)
    BY <2>1, <2>2, <2>3 DEF InputsHeld
  <2>5. InputsHeld(r)'
    BY <1>2, <2>4
       DEF InputsHeld, KeepsWork, UnchangedSlots, Tracked, Recorded, Selected
  <2> QED
    BY <1>5, <2>5 DEF RunShared
<1> QED
  BY <1>3, <1>4, <1>5

LEMMA EnsureShared ==
    ASSUME RunInv, NEW r \in Run, Ensure(r)
    PROVE  RunShared(r)'
<1>1. /\ RunFunctions /\ pc[r] = "ensuring" /\ pc'[r] = "publishing"
      /\ InputsHeld(r) /\ held' = held /\ kind' = req[r].kind
  BY DEF RunInv, RunShared, Ensure, Goto, RunFunctions
<1>2. KeepsWork(r)
  BY <1>1 DEF Ensure, pool, KeepsWork, RunFunctions
<1>3. InputsHeld(r)'
  BY <1>1, <1>2
     DEF InputsHeld, KeepsWork, UnchangedSlots, Tracked, Recorded, Selected
<1> QED
  BY <1>1, <1>2, <1>3 DEF RunShared, KeepsWork

\* What a run that has revalidated has at hand.
LEMMA AtHand ==
    ASSUME RunInv, NEW r \in Run, pc[r] \in {"ensuring", "publishing"}
    PROVE  /\ seen[r].units = unit
           /\ InputsHeld(r)
           /\ req[r] \in Request
           /\ Selected(req[r]) \subseteq Slot
           /\ ToSet(plan[r]) \subseteq Selected(req[r])
           /\ \A s \in Selected(req[r]) : CommandFor(r, s) \in Command
           /\ \A f \in Context : captured[r][f] \in FileContent
           /\ DOMAIN analysed[r] = DOMAIN plan[r]
           /\ \A n \in DOMAIN analysed[r] : analysed[r][n] \in Outcomes
           /\ \A s \in UnchangedSlots(r) : UnitMatches(r, s)
<1>1. RunLocal(r) /\ RunShared(r) /\ PlanIsCurrent
  BY DEF RunInv, IndexInvariant
<1>2. pc[r] \in Accepted /\ pc[r] \in Planned /\ pc[r] \in Contributed
  BY Phases
<1>3. seen[r].units = unit /\ InputsHeld(r)
  BY <1>1 DEF PlanIsCurrent, RunShared
<1>4. req[r] \in Requests
  BY <1>1 DEF RunLocal
<1>5. req[r] \in Request
  BY <1>4, ParametersAssumption
<1>6. Selected(req[r]) \subseteq Slot
  BY <1>5 DEF Request, Selected, ToSet
<1>7. ToSet(plan[r]) \subseteq Selected(req[r])
  <2>1. CASE plan[r] = <<>>
    BY <2>1 DEF ToSet
  <2>2. CASE plan[r] # <<>>
    BY <1>1, <2>2 DEF RunLocal, PlanInOrder
  <2> QED
    BY <2>1, <2>2
<1>8. /\ \A s \in Selected(req[r]) : CommandFor(r, s) \in Command
      /\ \A f \in Context : captured[r][f] \in FileContent
  BY <1>1, <1>2 DEF RunLocal, RequestAccepted
<1>9. /\ DOMAIN analysed[r] = DOMAIN plan[r]
      /\ \A n \in DOMAIN analysed[r] : analysed[r][n] \in Outcomes
  BY <1>1, <1>2 DEF RunLocal, RunTypes, AllContributed
<1>10. \A s \in UnchangedSlots(r) : UnitMatches(r, s)
  BY <1>1, <1>2 DEF RunLocal, OthersMatch
<1> QED
  BY <1>3, <1>5, <1>6, <1>7, <1>8, <1>9, <1>10

\* What is left as it is fits the request.
LEMMA UnchangedFits ==
    ASSUME RunInv, NEW r \in Run, pc[r] \in {"ensuring", "publishing"},
           NEW s \in UnchangedSlots(r)
    PROVE  Fits(r, s, unit[s])
<1> DEFINE u == unit[s]
<1>1. /\ u # NoUnit /\ u.command = CommandFor(r, s)
      /\ u.settings = req[r].settings
      /\ \A f \in Context \ {Database} : u.inputs[f] = captured[r][f]
  BY AtHand DEF UnitMatches
<1>2. /\ \A f \in Context : captured[r][f] \in held[f]
      /\ \A f \in Tracked(u) : u.inputs[f] \in held[f]
  BY AtHand DEF InputsHeld
<1>3. \A f \in Recorded(u) \ {Database} : u.inputs[f] \in held[f]
  BY <1>1, <1>2 DEF Tracked
<1> QED
  BY <1>1, <1>3 DEF Fits

\* So does what is new.
LEMMA NewFits ==
    ASSUME RunInv, NEW r \in Run, pc[r] \in {"ensuring", "publishing"},
           NEW n \in DOMAIN plan[r]
    PROVE  /\ NewUnit(r, n) \in Unit
           /\ Fits(r, plan[r][n], NewUnit(r, n))
<1> DEFINE u == NewUnit(r, n)
           o == analysed[r][n]
<1>1. o \in Outcomes /\ plan[r][n] \in Selected(req[r])
  BY AtHand DEF ToSet
<1>2. \A f \in DOMAIN o.read : o.read[f] \in FileContent /\ o.read[f] \in held[f]
  BY <1>1, AtHand DEF InputsHeld, Outcomes, Read
<1>3. \A f \in Context : captured[r][f] \in FileContent
                        /\ captured[r][f] \in held[f]
  BY AtHand DEF InputsHeld
<1>4. /\ u.command = CommandFor(r, plan[r][n])
      /\ u.settings = req[r].settings
      /\ u.inputs = [f \in File |->
            IF f \in Context THEN captured[r][f]
            ELSE IF f \in DOMAIN o.read THEN o.read[f] ELSE NoInput]
      /\ u = [command |-> u.command, settings |-> u.settings,
              inputs |-> u.inputs]
  BY DEF NewUnit
<1>5. u.command \in Command /\ u.settings \in Setting
  BY <1>1, <1>4, AtHand DEF Request
<1>6. u.inputs \in Inputs
  BY <1>2, <1>3, <1>4 DEF Inputs
<1> HIDE DEF u, o
<1>7. u \in Unit
  BY <1>4, <1>5, <1>6 DEF Unit
<1>8. \A f \in Recorded(u) : u.inputs[f] \in held[f]
  BY <1>2, <1>3, <1>4 DEF Recorded
<1>9. u # NoUnit
  BY <1>7, AbsentValuesAssumption
<1>10. Fits(r, plan[r][n], u)
  BY <1>4, <1>8, <1>9 DEF Fits
<1> QED
  BY <1>7, <1>10 DEF u

\* Where the published units come from.
LEMMA PublishedUnits ==
    ASSUME RunInv, NEW r \in Run, Publish(r)
    PROVE  /\ unit' \in [Slot -> Unit \cup {NoUnit}]
           /\ Live(unit') = Selected(req[r])
           /\ \A s \in Selected(req[r]) : Fits(r, s, unit'[s])
<1> DEFINE Place(s) == CHOOSE n \in DOMAIN plan[r] : plan[r][n] = s
<1>1. pc[r] = "publishing" /\ unit \in [Slot -> Unit \cup {NoUnit}]
  BY DEF Publish, RunInv, StoreTypes
<1>2. /\ unit' = [s \in Slot |-> unit'[s]]
      /\ \A s \in Slot : unit'[s] =
            IF s \in ToSet(plan[r]) THEN NewUnit(r, Place(s))
            ELSE IF s \in Retired(r) THEN NoUnit ELSE unit[s]
  BY DEF Publish
<1>3. \A s \in ToSet(plan[r]) : Place(s) \in DOMAIN plan[r]
                               /\ plan[r][Place(s)] = s
  BY DEF ToSet
<1> HIDE DEF Place
<1>4. \A s \in ToSet(plan[r]) :
         unit'[s] \in Unit /\ Fits(r, s, unit'[s])
  <2> SUFFICES ASSUME NEW s \in ToSet(plan[r])
               PROVE  unit'[s] \in Unit /\ Fits(r, s, unit'[s])
    OBVIOUS
  <2>1. s \in Slot
    BY <1>1, AtHand
  <2>2. PICK n \in DOMAIN plan[r] : n = Place(s) /\ plan[r][n] = s
    BY <1>3
  <2>3. unit'[s] = NewUnit(r, n)
    BY <1>2, <2>1, <2>2
  <2> QED
    BY <1>1, <2>2, <2>3, NewFits
<1>5. \A s \in Selected(req[r]) \ ToSet(plan[r]) :
         unit'[s] = unit[s] /\ Fits(r, s, unit'[s])
  <2> SUFFICES ASSUME NEW s \in Selected(req[r]) \ ToSet(plan[r])
               PROVE  unit'[s] = unit[s] /\ Fits(r, s, unit'[s])
    OBVIOUS
  <2>1. s \in Slot /\ s \in UnchangedSlots(r) /\ s \notin Retired(r)
    BY <1>1, AtHand DEF UnchangedSlots, Retired
  <2>2. unit'[s] = unit[s]
    BY <1>2, <2>1
  <2> QED
    BY <1>1, <2>1, <2>2, UnchangedFits
<1>6. \A s \in Slot \ Selected(req[r]) : unit'[s] = NoUnit
  <2> SUFFICES ASSUME NEW s \in Slot \ Selected(req[r])
               PROVE  unit'[s] = NoUnit
    OBVIOUS
  <2>1. s \notin ToSet(plan[r])
    BY <1>1, AtHand
  <2>2. s \in Retired(r) \/ unit[s] = NoUnit
    BY <1>1, AtHand DEF Retired, Live
  <2> QED
    BY <1>2, <2>1, <2>2
<1>7. \A s \in Selected(req[r]) : s \in Slot /\ Fits(r, s, unit'[s])
  BY <1>1, <1>4, <1>5, AtHand
<1>8. Live(unit') = Selected(req[r])
  BY <1>6, <1>7 DEF Live, Fits
<1>9. \A s \in Slot : unit'[s] \in Unit \cup {NoUnit}
  BY <1>1, <1>4, <1>5, <1>6
<1> QED
  BY <1>2, <1>7, <1>8, <1>9

LEMMA PublishShared ==
    ASSUME RunInv, NEW r \in Run, Publish(r)
    PROVE  RunShared(r)'
<1>1. /\ RunFunctions /\ pc[r] = "publishing" /\ pc'[r] = "published"
      /\ InputsHeld(r) /\ kind = req[r].kind
      /\ held' = held /\ kind' = kind
  BY DEF RunInv, RunShared, Publish, Goto, RunFunctions
<1>2. KeepsWork(r)
  BY <1>1 DEF Publish, pool, KeepsWork, RunFunctions
<1>3. InputsHeld(r)'
  BY <1>1, <1>2
     DEF InputsHeld, KeepsWork, UnchangedSlots, Tracked, Recorded, Selected
<1>4. (Live(unit) = Selected(req[r]))'
  BY <1>2, PublishedUnits DEF KeepsWork, Selected, Live
<1>5. (\A s \in Selected(req[r]) : Fits(r, s, unit[s]))'
  BY <1>1, <1>2, PublishedUnits
     DEF KeepsWork, Selected, Fits, CommandFor, Recorded
<1> QED
  BY <1>1, <1>2, <1>3, <1>4, <1>5 DEF RunShared, KeepsWork

----------------------------------------------------------------------------
\* What a run reports.

\* The least failure is the one named.
LEMMA FirstFailureIsLeast ==
    ASSUME NEW r \in Run, RunLocal(r), Failures(r) # {}
    PROVE  \E n \in Failures(r) :
              /\ n \in DOMAIN plan[r]
              /\ FirstFailure(r) = plan[r][n]
              /\ \A m \in Failures(r) : n <= m
<1>1. Failures(r) \subseteq DOMAIN plan[r] /\ plan[r] \in Seq(Slot)
  BY DEF RunLocal, RunTypes, Failures
<1>2. Failures(r) \in SUBSET Nat
  BY <1>1
<1>3. \E n \in Failures(r) : \A m \in Failures(r) : n <= m
  BY <1>2, LeastNatural
<1> DEFINE first == CHOOSE n \in Failures(r) : \A m \in Failures(r) : n <= m
<1>4. first \in Failures(r) /\ \A m \in Failures(r) : first <= m
  BY <1>3
<1>5. FirstFailure(r) = plan[r][first]
  BY DEF FirstFailure
<1> HIDE DEF first
<1> QED
  BY <1>1, <1>4, <1>5

ReportOf(r, o, b) ==
    [outcome |-> o, recorded |-> b, jobs |-> req[r].jobs,
     planned |-> Len(plan[r]), slots |-> SlotReports(r, o),
     retired |-> IF o = "committed" THEN Retired(r) ELSE {},
     named |-> FirstFailure(r)]

LEMMA SlotReportsType ==
    ASSUME NEW r \in Run, RunLocal(r), req[r] \in Requests, NEW o
    PROVE  SlotReports(r, o) \in Seq([slot : Slot, result : SlotResult])
<1> DEFINE acts == req[r].actions
           ResultOf(s) ==
               IF s \in ToSet(plan[r])
               THEN Result(r, CHOOSE n \in DOMAIN plan[r] : plan[r][n] = s, o)
               ELSE "unchanged"
<1>1. acts \in Seq(Slot)
  BY ParametersAssumption DEF Request
<1>2. \A n : Result(r, n, o) \in SlotResult
  BY DEF Result, SlotResult
<1>3. \A s : ResultOf(s) \in SlotResult
  BY <1>2 DEF SlotResult
<1>4. SlotReports(r, o) = IF o = "rejected" THEN <<>>
                          ELSE [i \in DOMAIN acts |->
                                   [slot |-> acts[i],
                                    result |-> ResultOf(acts[i])]]
  BY DEF SlotReports
<1> HIDE DEF ResultOf
<1>5. Len(acts) \in Nat /\ DOMAIN acts = 1 .. Len(acts)
      /\ \A i \in 1 .. Len(acts) : acts[i] \in Slot
  BY <1>1
<1> HIDE DEF acts
<1>6. [i \in DOMAIN acts |-> [slot |-> acts[i], result |-> ResultOf(acts[i])]]
         \in [1 .. Len(acts) -> [slot : Slot, result : SlotResult]]
  BY <1>3, <1>5
<1>7. [i \in DOMAIN acts |-> [slot |-> acts[i], result |-> ResultOf(acts[i])]]
         \in Seq([slot : Slot, result : SlotResult])
  BY <1>5, <1>6
<1> QED
  BY <1>4, <1>7

LEMMA ReportTyped ==
    ASSUME NEW r \in Run, RunLocal(r), req[r] \in Requests,
           NEW o \in Outcome, NEW b \in BOOLEAN
    PROVE  ReportOf(r, o, b) \in Report
<1>1. req[r].jobs \in Nat
  BY ParametersAssumption DEF Request
<1>2. plan[r] \in Seq(Slot)
  BY DEF RunLocal, RunTypes
<1>3. Len(plan[r]) \in Nat
  BY <1>2
<1>4. SlotReports(r, o) \in Seq([slot : Slot, result : SlotResult])
  BY SlotReportsType
<1>5. (IF o = "committed" THEN Retired(r) ELSE {}) \in SUBSET Slot
  BY DEF Retired, Live
<1>6. FirstFailure(r) \in Slot \cup {NoSlot}
  <2>1. CASE Failures(r) = {}
    BY <2>1 DEF FirstFailure
  <2>2. CASE Failures(r) # {}
    BY <1>2, <2>2, FirstFailureIsLeast
  <2> QED
    BY <2>1, <2>2
<1> QED
  BY <1>1, <1>3, <1>4, <1>5, <1>6 DEF ReportOf, Report

\* What ReportIsSequential says of one report.
Sequential(x) ==
    x # NoReport /\ x.named # NoSlot =>
        LET slots == x.slots
            first == CHOOSE i \in DOMAIN slots : slots[i].slot = x.named
        IN  /\ slots[first].result = "failed"
            /\ \A i \in DOMAIN slots :
                  i < first => slots[i].result \in {"unchanged", "not_published"}

LEMMA FailureReported ==
    ASSUME NEW r \in Run, RunLocal(r), pc[r] \in Ending, NEW b
    PROVE  Sequential(ReportOf(r, ending[r], b))
<1> DEFINE acts == req[r].actions
           o == ending[r]
           Place(s) == CHOOSE n \in DOMAIN plan[r] : plan[r][n] = s
           x == ReportOf(r, o, b)
<1>1. /\ o \in {"rejected", "failed"}
      /\ o = "rejected" => Failures(r) = {}
      /\ \A n \in Failures(r), m \in DOMAIN plan[r] :
            m < n => m \in DOMAIN analysed[r]
  BY DEF RunLocal, EarlierAnalysed
<1>2. x.named = FirstFailure(r) /\ x.slots = SlotReports(r, o)
  BY DEF ReportOf
<1>3. CASE Failures(r) = {}
  BY <1>2, <1>3 DEF FirstFailure, Sequential
<1>4. CASE Failures(r) # {}
  <2>1. PICK n0 \in Failures(r) :
           /\ n0 \in DOMAIN plan[r]
           /\ FirstFailure(r) = plan[r][n0]
           /\ \A m \in Failures(r) : n0 <= m
    BY <1>4, FirstFailureIsLeast
  <2>2. plan[r] \in Seq(Slot) /\ plan[r] # <<>>
    BY <2>1 DEF RunLocal, RunTypes
  <2>3. /\ req[r] \in Requests
        /\ \A i, j \in DOMAIN acts : acts[i] = acts[j] => i = j
        /\ \A m, n \in DOMAIN plan[r] : plan[r][m] = plan[r][n] => m = n
        /\ ToSet(plan[r]) \subseteq ToSet(acts)
        /\ \A m, n \in DOMAIN plan[r], i, j \in DOMAIN acts :
              plan[r][m] = acts[i] /\ plan[r][n] = acts[j] /\ i < j => m < n
    BY <2>2 DEF RunLocal, PlanInOrder, IsInjective, Selected
  <2>4. acts \in Seq(Slot)
    BY <2>3, ParametersAssumption DEF Request
  <2>5. \A n \in DOMAIN plan[r] : Place(plan[r][n]) = n
    BY <2>3
  <2>6. o = "failed"
    BY <1>1, <1>4
  <2>7. /\ DOMAIN x.slots = DOMAIN acts
        /\ \A i \in DOMAIN acts :
              /\ x.slots[i].slot = acts[i]
              /\ x.slots[i].result =
                    IF acts[i] \in ToSet(plan[r])
                    THEN Result(r, Place(acts[i]), o) ELSE "unchanged"
    BY <1>2, <2>6 DEF SlotReports
  <2> HIDE DEF acts, o, x, Place
  <2>8. PICK i0 \in DOMAIN acts : acts[i0] = plan[r][n0]
    BY <2>1, <2>3 DEF ToSet
  <2>9. (CHOOSE i \in DOMAIN x.slots : x.slots[i].slot = x.named) = i0
    <3>1. \A i \in DOMAIN x.slots : x.slots[i].slot = x.named <=> i = i0
      BY <1>2, <2>1, <2>3, <2>7, <2>8
    <3>2. i0 \in DOMAIN x.slots
      BY <2>7
    <3> QED
      BY <3>1, <3>2
  <2>10. \A n \in DOMAIN plan[r] : plan[r][n] \in ToSet(plan[r])
    BY DEF ToSet
  <2>11. x.slots[i0].result = "failed"
    <3>1. x.slots[i0].result = Result(r, n0, o)
      BY <2>1, <2>5, <2>7, <2>8, <2>10
    <3>2. n0 \in DOMAIN analysed[r]
      BY <2>1 DEF Failures
    <3> QED
      BY <2>1, <3>1, <3>2 DEF Result
  <2>12. ASSUME NEW i \in DOMAIN x.slots, i < i0
         PROVE  x.slots[i].result \in {"unchanged", "not_published"}
    <3>1. CASE acts[i] \notin ToSet(plan[r])
      BY <2>7, <3>1
    <3>2. CASE acts[i] \in ToSet(plan[r])
      <4>1. PICK m \in DOMAIN plan[r] : plan[r][m] = acts[i]
        BY <3>2 DEF ToSet
      <4>2. m < n0
        BY <2>1, <2>3, <2>7, <2>8, <2>12, <4>1
      <4>3. m \in DOMAIN analysed[r]
        BY <1>1, <2>1, <4>2
      <4>4. m \notin Failures(r)
        <5>1. m \in Nat /\ n0 \in Nat
          BY <2>1, <2>2
        <5> QED
          BY <2>1, <4>2, <5>1
      <4>5. x.slots[i].result = Result(r, m, o)
        BY <2>5, <2>7, <3>2, <4>1
      <4> QED
        BY <2>6, <4>3, <4>4, <4>5 DEF Result
    <3> QED
      BY <3>1, <3>2
  <2> QED
    BY <2>9, <2>11, <2>12 DEF Sequential, x, o
<1> QED
  BY <1>3, <1>4

LEMMA NoFailureReported ==
    ASSUME NEW r \in Run, Failures(r) = {}, NEW o, NEW b
    PROVE  Sequential(ReportOf(r, o, b))
BY DEF Sequential, ReportOf, FirstFailure

\* One run returns, the others' reports stay.
LEMMA Reported ==
    ASSUME RunInv, NEW r \in Run, NEW o \in Outcome, NEW b \in BOOLEAN,
           report' = [report EXCEPT ![r] = ReportOf(r, o, b)],
           \/ pc[r] \in Contributed
           \/ pc[r] \in Ending /\ o = ending[r]
    PROVE  ReportsTyped' /\ ReportIsSequential'
<1>1. RunLocal(r) /\ RunFunctions
  BY DEF RunInv
<1>2. pc[r] # "idle"
  BY Phases DEF Ending
<1>3. req[r] \in Requests
  BY <1>1, <1>2 DEF RunLocal
<1>4. ReportOf(r, o, b) \in Report
  BY <1>1, <1>3, ReportTyped
<1>5. Sequential(ReportOf(r, o, b))
  <2>1. CASE pc[r] \in Contributed
    BY <1>1, <2>1, NoFailureReported DEF RunLocal, AllContributed
  <2>2. CASE pc[r] \in Ending /\ o = ending[r]
    BY <1>1, <2>2, FailureReported
  <2> QED
    BY <2>1, <2>2
<1>6. /\ report'[r] = ReportOf(r, o, b)
      /\ \A s \in Run \ {r} : report'[s] = report[s]
  BY <1>1 DEF RunFunctions
<1>7. \A s \in Run : Sequential(report[s])
  BY DEF RunInv, ReportIsSequential, Sequential
<1>8. \A s \in Run : Sequential(report'[s])
  BY <1>5, <1>6, <1>7
<1>9. ReportIsSequential'
  BY <1>8 DEF ReportIsSequential, Sequential
<1>10. ReportsTyped'
  BY <1>4, <1>6 DEF RunInv, ReportsTyped
<1> QED
  BY <1>9, <1>10

----------------------------------------------------------------------------
\* Every step keeps the whole invariant.

LEMMA StepKeeps ==
    ASSUME RunInv, IndexInvariant', NEW r \in Run, OnlyOf(r),
           UNCHANGED <<kind, unit, held>> \/ lock \in {NoRun, r},
           RunLocal(r)', RunShared(r)', StoreTypes',
           ReportsTyped', ReportIsSequential'
    PROVE  RunInv'
<1>1. \A s \in Run \ {r} : RunLocal(s)' /\ RunShared(s)'
  BY OthersKept
<1>2. RunFunctions'
  BY DEF OnlyOf
<1>3. \A s \in Run : RunLocal(s)' /\ RunShared(s)'
  BY <1>1
<1> QED
  BY <1>2, <1>3 DEF RunInv

LEMMA ReportsKept ==
    ASSUME RunInv, NEW r \in Run, OnlyOf(r),
           report' = report \/ report'[r] = NoReport
    PROVE  ReportsTyped' /\ ReportIsSequential'
<1>1. ReportsTyped /\ ReportIsSequential
  BY DEF RunInv
<1>2. \A s \in Run : report'[s] = report[s] \/ report'[s] = NoReport
  BY DEF OnlyOf
<1>3. ReportsTyped'
  BY <1>1, <1>2 DEF ReportsTyped
<1>4. \A s \in Run : Sequential(report[s])
  BY <1>1 DEF ReportIsSequential, Sequential
<1>5. \A s \in Run : Sequential(report'[s])
  <2>1. Sequential(NoReport)
    BY DEF Sequential
  <2> QED
    BY <1>2, <1>4, <2>1
<1> QED
  BY <1>3, <1>5 DEF ReportIsSequential, Sequential

LEMMA StoreKept ==
    ASSUME StoreTypes, UNCHANGED store
    PROVE  StoreTypes' /\ UNCHANGED <<kind, unit, held>>
BY DEF StoreTypes, store

LEMMA UnlockTypes ==
    ASSUME StoreTypes, NEW r \in Run, Unlock(r),
           UNCHANGED <<disk, kind, gen, unit>>
    PROVE  StoreTypes' /\ (UNCHANGED <<kind, unit, held>> \/ lock \in {NoRun, r})
BY DEF StoreTypes, Unlock

LEMMA LockTypes ==
    ASSUME StoreTypes, NEW r \in Run, Lock(r),
           UNCHANGED <<disk, kind, gen, unit>>
    PROVE  StoreTypes' /\ lock \in {NoRun, r}
BY DEF StoreTypes, Lock

\* The steps that leave the store alone.
LEMMA StillKeeps ==
    ASSUME RunInv, IndexInvariant', NEW r \in Run,
           \/ \E f \in File : Capture(r, f) \/ HashPlanned(r, f)
                                \/ HashLocked(r, f)
           \/ ReadCommitted(r) \/ Decide(r) \/ \E w \in Worker : Work(r, w)
           \/ Join(r) \/ CheckPlan(r) \/ Revalidate(r) \/ EnsureFails(r)
    PROVE  RunInv'
<1>1. RunFunctions /\ StoreTypes
  BY DEF RunInv
<1>2. CASE \E f \in File : Capture(r, f) \/ HashPlanned(r, f)
  <2> PICK f \in File : Capture(r, f) \/ HashPlanned(r, f)
    BY <1>2
  <2>1. OnlyOf(r) /\ report' = report
    BY <1>1, NoteIsOwn
  <2>2. UNCHANGED store /\ pc'[r] \in {"capturing", "planning"}
    BY DEF Capture, HashPlanned
  <2>3. RunLocal(r)' /\ RunShared(r)'
    BY <2>2, CaptureLocal, HashLocal, SharedVacuous
  <2> QED
    BY <1>1, <2>1, <2>2, <2>3, StoreKept, ReportsKept, StepKeeps
<1>3. CASE \E f \in File : HashLocked(r, f)
  <2> PICK f \in File : HashLocked(r, f)
    BY <1>3
  <2>1. OnlyOf(r) /\ report' = report
    BY <1>1, NoteIsOwn
  <2>2. UNCHANGED store
    BY DEF HashLocked
  <2>3. RunLocal(r)' /\ RunShared(r)'
    BY HashLocal, HashShared
  <2> QED
    BY <1>1, <2>1, <2>2, <2>3, StoreKept, ReportsKept, StepKeeps
<1>4. CASE ReadCommitted(r) \/ Join(r) \/ EnsureFails(r)
  <2>1. OnlyOf(r) /\ report' = report
    BY <1>1, <1>4, PhaseIsOwn
  <2>2. UNCHANGED store
    BY <1>4 DEF ReadCommitted, Join, EnsureFails
  <2>3. pc'[r] \in {"idle", "planning", "locking", "failing"}
    BY <1>1, <1>4 DEF ReadCommitted, Join, EnsureFails, Failing, Goto, Forget,
                      RunFunctions
  <2>4. RunLocal(r)' /\ RunShared(r)'
    BY <1>4, <2>3, ReadCommittedLocal, JoinLocal, LockedPhasesLocal,
       SharedVacuous
  <2> QED
    BY <1>1, <2>1, <2>2, <2>4, StoreKept, ReportsKept, StepKeeps
<1>5. CASE CheckPlan(r) \/ Revalidate(r)
  <2>1. OnlyOf(r) /\ report' = report
    BY <1>1, <1>5, PhaseIsOwn
  <2>2. UNCHANGED store
    BY <1>5 DEF CheckPlan, Revalidate
  <2>3. RunLocal(r)' /\ RunShared(r)'
    BY <1>5, LockedPhasesLocal, CheckPlanShared, RevalidateShared
  <2> QED
    BY <1>1, <2>1, <2>2, <2>3, StoreKept, ReportsKept, StepKeeps
<1>6. CASE Decide(r)
  <2>1. OnlyOf(r) /\ report' = report
    BY <1>1, <1>6, DecideIsOwn
  <2>2. UNCHANGED store /\ pc'[r] = "analysing"
    BY <1>1, <1>6 DEF Decide, Goto, RunFunctions
  <2>3. RunLocal(r)' /\ RunShared(r)'
    BY <1>6, <2>2, DecideLocal, SharedVacuous
  <2> QED
    BY <1>1, <2>1, <2>2, <2>3, StoreKept, ReportsKept, StepKeeps
<1>7. CASE \E w \in Worker : Work(r, w)
  <2> PICK w \in Worker : Work(r, w)
    BY <1>7
  <2>1. OnlyOf(r) /\ report' = report
    BY <1>1, AnalysisIsOwn
  <2>2. UNCHANGED store /\ pc'[r] = "analysing"
    BY DEF Work, CheckStop, Fetch, ReadInput, AnalysisSucceeds, AnalysisFails,
           AnalysisThrows, Working
  <2>3. RunLocal(r)' /\ RunShared(r)'
    BY <2>2, WorkLocal, SharedVacuous
  <2> QED
    BY <1>1, <2>1, <2>2, <2>3, StoreKept, ReportsKept, StepKeeps
<1> QED
  BY <1>2, <1>3, <1>4, <1>5, <1>6, <1>7

LEMMA StartKeeps ==
    ASSUME RunInv, IndexInvariant', NEW r \in Run, NEW q \in Requests,
           Start(r, q)
    PROVE  RunInv'
<1>1. RunFunctions /\ StoreTypes
  BY DEF RunInv
<1>2. OnlyOf(r) /\ UNCHANGED store
  BY <1>1, StartIsOwn DEF Start
<1>3. pc'[r] = "capturing" /\ report'[r] = NoReport
  BY <1>1 DEF Start, Goto, RunFunctions
<1>4. RunLocal(r)' /\ RunShared(r)'
  BY <1>3, StartLocal, SharedVacuous
<1> QED
  BY <1>1, <1>2, <1>3, <1>4, StoreKept, ReportsKept, StepKeeps

\* The steps that take the lock or write the store.
LEMMA LockedKeeps ==
    ASSUME RunInv, IndexInvariant', NEW r \in Run,
           \/ TakeLock(r) \/ FailureTakesLock(r) \/ Ensure(r)
           \/ CreateForFailure(r) \/ Publish(r)
    PROVE  RunInv'
<1>1. /\ RunFunctions /\ StoreTypes /\ RunLocal(r)
      /\ LockDiscipline
  BY DEF RunInv, IndexInvariant
<1>2. OnlyOf(r) /\ report' = report
  BY <1>1, PhaseIsOwn
<1>3. CASE TakeLock(r)
  <2>1. pc'[r] = "locked" /\ Lock(r) /\ UNCHANGED <<disk, kind, gen, unit>>
    BY <1>1, <1>3 DEF TakeLock, Goto, RunFunctions
  <2>2. RunLocal(r)' /\ RunShared(r)'
    BY <1>3, <2>1, LockedPhasesLocal, SharedVacuous
  <2> QED
    BY <1>1, <1>2, <2>1, <2>2, LockTypes, ReportsKept, StepKeeps
<1>4. CASE FailureTakesLock(r)
  <2>1. /\ pc'[r] = "failing" /\ Lock(r) /\ UNCHANGED <<disk, kind, gen, unit>>
        /\ Same(r)
    BY <1>1, <1>4 DEF FailureTakesLock, locals, pool, Same
  <2>2. RunLocal(r)' /\ RunShared(r)'
    BY <1>1, <2>1, LocalKept, SharedVacuous
  <2> QED
    BY <1>1, <1>2, <2>1, <2>2, LockTypes, ReportsKept, StepKeeps
<1>5. CASE Ensure(r) \/ CreateForFailure(r)
  <2>1. pc[r] \in {"ensuring", "failing"} /\ pc[r] # "idle"
    BY <1>5 DEF Ensure, CreateForFailure
  <2>2. req[r].kind \in Kind
    <3>1. req[r] \in Request
      BY <1>1, <2>1, ParametersAssumption DEF RunLocal
    <3> QED
      BY <3>1 DEF Request
  <2>3. /\ kind' \in Kind /\ UNCHANGED <<disk, gen, unit, held, lock>>
        /\ lock = r
    BY <1>1, <1>5, <2>2
       DEF Ensure, CreateForFailure, StoreTypes, LockDiscipline, Holding
  <2>4. StoreTypes'
    BY <1>1, <2>3 DEF StoreTypes
  <2>5. RunLocal(r)'
    BY <1>5, LockedPhasesLocal
  <2>6. RunShared(r)'
    <3>1. CASE Ensure(r)
      BY <3>1, EnsureShared
    <3>2. CASE CreateForFailure(r)
      <4>1. pc'[r] = "recording"
        BY <1>1, <3>2 DEF CreateForFailure, Goto, RunFunctions
      <4> QED
        BY <4>1, SharedVacuous
    <3> QED
      BY <1>5, <3>1, <3>2
  <2> QED
    BY <1>2, <2>3, <2>4, <2>5, <2>6, ReportsKept, StepKeeps
<1>6. CASE Publish(r)
  <2>1. /\ unit' \in [Slot -> Unit \cup {NoUnit}] /\ gen' = gen + 1
        /\ UNCHANGED <<disk, kind, held, lock>> /\ pc[r] = "publishing"
    BY <1>6, PublishedUnits DEF Publish
  <2>2. StoreTypes' /\ lock = r
    BY <1>1, <2>1 DEF StoreTypes, LockDiscipline, Holding
  <2>3. RunLocal(r)' /\ RunShared(r)'
    BY <1>6, LockedPhasesLocal, PublishShared
  <2> QED
    BY <1>2, <2>2, <2>3, ReportsKept, StepKeeps
<1> QED
  BY <1>3, <1>4, <1>5, <1>6

\* The outcome of a run that returns.
LEMMA ReturnOutcome ==
    ASSUME RunInv, NEW r \in Run,
           \/ Busy(r) \/ ReturnUnchanged(r) \/ ReturnCommitted(r)
           \/ PublishFails(r) \/ FailureUnrecorded(r) \/ RecordFailure(r)
           \/ RecordFails(r)
    PROVE  \E o \in Outcome, b \in BOOLEAN :
              /\ Return(r, o, b)
              /\ \/ pc[r] \in Contributed
                 \/ pc[r] \in Ending /\ o = ending[r]
              /\ o = "unchanged" => ReturnUnchanged(r)
              /\ o = "committed" => ReturnCommitted(r)
<1>1. RunLocal(r)
  BY DEF RunInv
<1>2. {"busy", "unchanged", "committed", "failed", "rejected"} \subseteq Outcome
  BY DEF Outcome
<1>3. CASE Busy(r)
  <2>1. Return(r, "busy", FALSE) /\ pc[r] \in Contributed
    BY <1>3, Phases DEF Busy
  <2> QED
    BY <1>2, <2>1, Zenon
<1>4. CASE ReturnUnchanged(r)
  <2>1. Return(r, "unchanged", FALSE) /\ pc[r] \in Contributed
    BY <1>4, Phases DEF ReturnUnchanged
  <2> QED
    BY <1>2, <1>4, <2>1, Zenon
<1>5. CASE ReturnCommitted(r)
  <2>1. Return(r, "committed", TRUE) /\ pc[r] \in Contributed
    BY <1>5, Phases DEF ReturnCommitted
  <2> QED
    BY <1>2, <1>5, <2>1, Zenon
<1>6. CASE PublishFails(r)
  <2>1. PICK b \in BOOLEAN : Return(r, "failed", b)
    BY <1>6 DEF PublishFails
  <2>2. pc[r] \in Contributed
    BY <1>6, Phases DEF PublishFails
  <2> QED
    BY <1>2, <2>1, <2>2, Zenon
<1>7. CASE FailureUnrecorded(r) \/ RecordFailure(r) \/ RecordFails(r)
  <2>1. PICK b \in BOOLEAN : Return(r, ending[r], b)
    <3>1. Return(r, ending[r], FALSE) \/ Return(r, ending[r], TRUE)
      BY <1>7 DEF FailureUnrecorded, RecordFailure, RecordFails
    <3> QED
      BY <3>1, Zenon
  <2>2. pc[r] \in Ending
    BY <1>7 DEF FailureUnrecorded, RecordFailure, RecordFails, Ending
  <2>3. ending[r] \in {"rejected", "failed"}
    BY <1>1, <2>2 DEF RunLocal, EarlierAnalysed
  <2>4. ending[r] \in Outcome /\ ending[r] # "unchanged"
        /\ ending[r] # "committed"
    BY <2>3 DEF Outcome
  <2> QED
    BY <2>1, <2>2, <2>4, Zenon
<1> QED
  BY <1>3, <1>4, <1>5, <1>6, <1>7

LEMMA ReturnKeeps ==
    ASSUME RunInv, IndexInvariant', NEW r \in Run,
           \/ Busy(r) \/ ReturnUnchanged(r) \/ ReturnCommitted(r)
           \/ PublishFails(r) \/ FailureUnrecorded(r) \/ RecordFailure(r)
           \/ RecordFails(r) \/ Abort(r)
    PROVE  RunInv'
<1>1. RunFunctions /\ StoreTypes
  BY DEF RunInv
<1>2. OnlyOf(r)
  BY <1>1, ReturnIsOwn
<1>3. Forget(r) /\ Unlock(r) /\ UNCHANGED <<disk, kind, gen, unit>>
  BY DEF Busy, ReturnUnchanged, ReturnCommitted, PublishFails,
         FailureUnrecorded, RecordFailure, RecordFails, Abort, Return
<1>4. RunLocal(r)' /\ RunShared(r)'
  BY <1>1, <1>3, ForgetLocal
<1>5. ReportsTyped' /\ ReportIsSequential'
  <2>1. CASE Abort(r)
    BY <1>2, <2>1, ReportsKept DEF Abort
  <2>2. CASE ~Abort(r)
    <3>1. PICK o \in Outcome, b \in BOOLEAN :
             /\ Return(r, o, b)
             /\ \/ pc[r] \in Contributed
                \/ pc[r] \in Ending /\ o = ending[r]
      BY <2>2, ReturnOutcome
    <3>2. report' = [report EXCEPT ![r] = ReportOf(r, o, b)]
      BY <3>1 DEF Return, ReportOf
    <3> QED
      BY <3>1, <3>2, Reported
  <2> QED
    BY <2>1, <2>2
<1> QED
  BY <1>1, <1>2, <1>3, <1>4, <1>5, UnlockTypes, StepKeeps

LEMMA EditKeeps ==
    ASSUME RunInv, IndexInvariant', NEW f \in File,
           NEW c \in FileContent \cup {Absent}, Edit(f, c)
    PROVE  RunInv'
<1>1. /\ RunFunctions /\ StoreTypes
      /\ UNCHANGED <<lock, kind, gen, unit, report>>
      /\ disk' = [disk EXCEPT ![f] = c]
      /\ held' = IF lock = NoRun THEN held ELSE [held EXCEPT ![f] = @ \cup {c}]
  BY DEF RunInv, Edit
<1>2. RunFunctions' /\ \A s \in Run : Same(s)
  BY <1>1 DEF Edit, locals, pool, RunFunctions, Same
<1>3. \A g \in File : held[g] \subseteq held'[g]
  BY <1>1 DEF StoreTypes
<1>4. StoreTypes'
  <2>1. CASE lock = NoRun
    BY <1>1, <2>1 DEF StoreTypes
  <2>2. CASE lock # NoRun
    <3>1. held' = [held EXCEPT ![f] = held[f] \cup {c}]
      BY <1>1, <2>2
    <3>2. \A g \in File : disk'[g] \in held'[g]
      BY <1>1, <2>2, <3>1 DEF StoreTypes
    <3>3. held' \in [File -> SUBSET (FileContent \cup {Absent})]
      BY <1>1, <3>1 DEF StoreTypes
    <3> QED
      BY <1>1, <3>2, <3>3 DEF StoreTypes
  <2> QED
    BY <2>1, <2>2
<1>5. ASSUME NEW s \in Run
      PROVE  RunLocal(s)' /\ RunShared(s)'
  <2>1. RunLocal(s) /\ RunShared(s) /\ Same(s)
    BY <1>2 DEF RunInv
  <2>2. RunTypes(s) /\ (seen[s] \in View \/ pc[s] \notin Accepted)
    BY <2>1 DEF RunLocal, RequestAccepted
  <2>3. RunLocal(s)'
    BY <2>1, LocalKept
  <2>4. RunShared(s)'
    BY <1>1, <1>3, <2>1, <2>2, SharedKept
  <2> QED
    BY <2>3, <2>4
<1>6. ReportsTyped' /\ ReportIsSequential'
  BY <1>1 DEF RunInv, ReportsTyped, ReportIsSequential
<1> QED
  BY <1>2, <1>4, <1>5, <1>6 DEF RunInv

LEMMA StutterKeeps ==
    ASSUME RunInv, IndexInvariant', UNCHANGED vars
    PROVE  RunInv'
<1>1. UNCHANGED store /\ UNCHANGED report /\ \A s \in Run : Same(s)
  BY DEF vars, locals, pool, Same
<1>2. RunFunctions'
  BY DEF vars, locals, pool, RunInv, RunFunctions
<1>3. StoreTypes' /\ UNCHANGED <<kind, unit, held>>
  BY <1>1, StoreKept DEF RunInv
<1>4. ASSUME NEW s \in Run
      PROVE  RunLocal(s)' /\ RunShared(s)'
  <2>1. RunLocal(s) /\ RunShared(s) /\ Same(s)
    BY <1>1 DEF RunInv
  <2>2. RunTypes(s) /\ (seen[s] \in View \/ pc[s] \notin Accepted)
    BY <2>1 DEF RunLocal, RequestAccepted
  <2> QED
    BY <1>3, <2>1, <2>2, LocalKept, SharedKept
<1>5. ReportsTyped' /\ ReportIsSequential'
  BY <1>1 DEF RunInv, ReportsTyped, ReportIsSequential
<1> QED
  BY <1>2, <1>3, <1>4, <1>5 DEF RunInv

LEMMA RunInvStep ==
    ASSUME RunInv, [Next]_vars
    PROVE  RunInv'
<1>1. IndexInvariant'
  BY NextIndex DEF RunInv
<1>2. CASE \E f \in File, c \in FileContent \cup {Absent} : Edit(f, c)
  BY <1>1, <1>2, EditKeeps
<1>3. CASE \E r \in Run : \E q \in Requests : Start(r, q)
  BY <1>1, <1>3, StartKeeps
<1>4. CASE \E r \in Run : Index(r)
  <2> PICK r \in Run : Index(r)
    BY <1>4
  <2> QED
    BY <1>1, StillKeeps, LockedKeeps, ReturnKeeps DEF Index
<1>5. CASE \E r \in Run : Abort(r)
  BY <1>1, <1>5, ReturnKeeps
<1>6. CASE UNCHANGED vars
  BY <1>1, <1>6, StutterKeeps
<1> QED
  BY <1>2, <1>3, <1>4, <1>5, <1>6 DEF Next

LEMMA InitRuns ==
    ASSUME Init
    PROVE  RunInv
<1>1. IndexInvariant
  BY InitIndex
<1>2. RunFunctions
  BY DEF Init, RunFunctions
<1>3. StoreTypes
  BY DEF Init, StoreTypes, Kind
<1>4. ASSUME NEW r \in Run
      PROVE  RunLocal(r) /\ RunShared(r)
  <2>1. Nothing(r)
    BY DEF Init, Nothing
  <2>2. RunLocal(r)
    BY <2>1, NothingIsLocal
  <2> QED
    BY <2>1, <2>2 DEF RunShared, Nothing
<1>5. ReportsTyped /\ ReportIsSequential
  BY DEF Init, ReportsTyped, ReportIsSequential
<1> QED
  BY <1>1, <1>2, <1>3, <1>4, <1>5 DEF RunInv

----------------------------------------------------------------------------
\* What a run's variables, the pool of its workers, the files and the store
\* say of one another holds in every reachable state.
THEOREM RunInvariantHolds == Spec => []RunInv
<1>1. Init => RunInv
  BY InitRuns
<1>2. RunInv /\ [Next]_vars => RunInv'
  BY RunInvStep
<1> QED
  BY <1>1, <1>2, PTL DEF Spec

\* Every variable keeps its type (the locals of index_profile).
THEOREM IndexTypeInvariant == Spec => []TypeOK
<1>1. RunInv => TypeOK
  <2> SUFFICES ASSUME RunInv PROVE TypeOK
    OBVIOUS
  <2>1. RunFunctions /\ StoreTypes /\ ReportsTyped
        /\ \A r \in Run : RunTypes(r)
    BY DEF RunInv, RunLocal
  <2>2. /\ disk \in [File -> FileContent \cup {Absent}]
        /\ lock \in Run \cup {NoRun}
        /\ kind \in Kind
        /\ gen \in Nat
        /\ unit \in [Slot -> Unit \cup {NoUnit}]
        /\ held \in [File -> SUBSET (FileContent \cup {Absent})]
    BY <2>1 DEF StoreTypes
  <2>3. \A r \in Run :
           pc[r] \in {"idle", "capturing", "planning", "analysing",
                      "locking", "locked", "revalidating", "ensuring",
                      "publishing", "published", "failing", "recording"}
    BY <2>1, Phases DEF RunTypes, Phase, Ending
  <2>4. pc \in [Run -> {"idle", "capturing", "planning", "analysing",
                        "locking", "locked", "revalidating", "ensuring",
                        "publishing", "published", "failing", "recording"}]
    BY <2>1, <2>3 DEF RunFunctions
  <2>5. /\ req \in [Run -> Requests \cup {NoRequest}]
        /\ captured \in [Run -> Read(FileContent \cup {Absent})]
        /\ seen \in [Run -> View \cup {NoView}]
        /\ hashed \in [Run -> Read(FileContent \cup {Absent})]
        /\ ending \in [Run -> {"committed", "rejected", "failed"}]
    BY <2>1 DEF RunFunctions, RunTypes
  <2>6. /\ next \in [Run -> Nat]
        /\ stop \in [Run -> BOOLEAN]
        /\ thrown \in [Run -> BOOLEAN]
    BY <2>1 DEF RunFunctions, RunTypes
  <2>7. worker \in [Run -> [Worker ->
           [at : {"check", "fetch", "run", "done"}, n : Nat,
            read : Read(FileContent)]]]
    BY <2>1 DEF RunFunctions, RunTypes, WorkerState
  <2>8. \A r \in Run :
           /\ plan[r] \in Seq(Slot)
           /\ DOMAIN analysed[r] \subseteq DOMAIN plan[r]
           /\ \A n \in DOMAIN analysed[r] :
                 analysed[r][n] \in [good : BOOLEAN, read : Read(FileContent)]
           /\ report[r] # NoReport => report[r] \in Report
    BY <2>1 DEF RunTypes, ReportsTyped, Outcomes
  <2> QED
    BY <2>2, <2>4, <2>5, <2>6, <2>7, <2>8 DEF TypeOK
<1> QED
  BY <1>1, RunInvariantHolds, PTL

\* However many workers a run has and however they interleave, it reports the
\* failure a run with one worker would meet first (the least failed entry of
\* the plan, every entry before it analysed and good).
THEOREM ReportIsSequentialInvariant == Spec => []ReportIsSequential
<1>1. RunInv => ReportIsSequential
  BY DEF RunInv
<1> QED
  BY <1>1, RunInvariantHolds, PTL

----------------------------------------------------------------------------
\* What a run leaves when it says it succeeded.

LEMMA ReturnsFromReport ==
    ASSUME RunInv, [Next]_vars, NEW r \in Run, Returns(r)
    PROVE  \/ Busy(r) \/ ReturnUnchanged(r) \/ ReturnCommitted(r)
           \/ PublishFails(r) \/ FailureUnrecorded(r) \/ RecordFailure(r)
           \/ RecordFails(r)
<1>1. RunFunctions /\ report'[r] # report[r] /\ report'[r] # NoReport
  BY DEF RunInv, Returns
<1>2. CASE \E f \in File, c \in FileContent \cup {Absent} : Edit(f, c)
  BY <1>1, <1>2 DEF Edit
<1>3. CASE \E s \in Run : \E q \in Requests : Start(s, q)
  <2> PICK s \in Run, q \in Requests : Start(s, q)
    BY <1>3
  <2>1. report' = [report EXCEPT ![s] = NoReport]
    BY DEF Start
  <2> QED
    BY <1>1, <2>1 DEF RunFunctions
<1>4. CASE \E s \in Run : Index(s)
  <2> PICK s \in Run : Index(s)
    BY <1>4
  <2>1. OnlyOf(s)
    BY <1>1, NoteIsOwn, DecideIsOwn, PhaseIsOwn, AnalysisIsOwn, ReturnIsOwn
       DEF Index
  <2>2. s = r
    BY <1>1, <2>1 DEF OnlyOf
  <2> QED
    BY <1>1, <2>2, NoteIsOwn, DecideIsOwn, PhaseIsOwn, AnalysisIsOwn DEF Index
<1>5. CASE \E s \in Run : Abort(s)
  BY <1>1, <1>5 DEF Abort
<1>6. CASE UNCHANGED vars
  BY <1>1, <1>6 DEF vars
<1> QED
  BY <1>2, <1>3, <1>4, <1>5, <1>6 DEF Next

\* The units of run r's selection, and no others, are committed and fit.
Current(r) ==
    /\ kind = req[r].kind
    /\ Live(unit) = Selected(req[r])
    /\ \A s \in Selected(req[r]) : Fits(r, s, unit[s])

LEMMA NothingToPublishIsCurrent ==
    ASSUME RunInv, NEW r \in Run, ReturnUnchanged(r)
    PROVE  Current(r)
<1>1. pc[r] = "publishing" /\ plan[r] = <<>> /\ Retired(r) = {}
  BY DEF ReturnUnchanged, NothingToPublish
<1>2. UnchangedSlots(r) = Selected(req[r])
  BY <1>1 DEF UnchangedSlots, ToSet
<1>3. \A s \in Selected(req[r]) : Fits(r, s, unit[s])
  BY <1>1, <1>2, UnchangedFits
<1>4. kind = req[r].kind
  BY <1>1 DEF RunInv, RunShared
<1>5. Live(unit) \subseteq Selected(req[r])
  BY <1>1, AtHand DEF Retired
<1>6. Selected(req[r]) \subseteq Live(unit)
  BY <1>1, <1>3, AtHand DEF Live, Fits
<1> QED
  BY <1>3, <1>4, <1>5, <1>6 DEF Current

LEMMA SuccessIsCurrent ==
    ASSUME RunInv, NEW r \in Run, ReturnUnchanged(r) \/ ReturnCommitted(r)
    PROVE  Current(r) /\ UNCHANGED <<kind, unit>>
<1>1. UNCHANGED <<kind, unit>>
  BY DEF ReturnUnchanged, ReturnCommitted
<1>2. CASE ReturnUnchanged(r)
  BY <1>1, <1>2, NothingToPublishIsCurrent
<1>3. CASE ReturnCommitted(r)
  <2>1. pc[r] = "published" /\ RunShared(r)
    BY <1>3 DEF ReturnCommitted, RunInv
  <2> QED
    BY <1>1, <2>1 DEF RunShared, Current
<1> QED
  BY <1>2, <1>3

\* The database the run captured was there while it held the lock.
LEMMA CapturedDatabaseHeld ==
    ASSUME RunInv, NEW r \in Run, pc[r] \in {"publishing", "published"}
    PROVE  captured[r][Database] \in held[Database] \cap FileContent
<1>1. RunLocal(r) /\ RunShared(r) /\ Database \in Context
  BY ParametersAssumption DEF RunInv
<1>2. captured[r][Database] \in held[Database]
  BY <1>1 DEF RunShared, InputsHeld
<1>3. pc[r] \in Accepted
  BY Phases
<1>4. captured[r][Database] \in FileContent
  BY <1>1, <1>3 DEF RunLocal, RequestAccepted
<1> QED
  BY <1>2, <1>4

LEMMA ReturnedSuccess ==
    ASSUME RunInv, [Next]_vars, NEW r \in Run, Returns(r),
           report'[r].outcome \in {"committed", "unchanged"}
    PROVE  /\ kind' = req[r].kind
           /\ Live(unit') = Selected(req[r])
           /\ \A s \in Live(unit') :
                 /\ unit'[s].settings = req[r].settings
                 /\ \A f \in Recorded(unit'[s]) \ {Database} :
                       unit'[s].inputs[f] \in held[f]
           /\ \E c \in held[Database] \cap FileContent :
                 \A s \in Live(unit') : unit'[s].command = CommandOf[c][s]
<1>1. PICK o \in Outcome, b \in BOOLEAN :
         /\ Return(r, o, b)
         /\ o = "unchanged" => ReturnUnchanged(r)
         /\ o = "committed" => ReturnCommitted(r)
  BY ReturnsFromReport, ReturnOutcome
<1>2. report'[r].outcome = o
  BY <1>1 DEF Return, RunInv, RunFunctions
<1>3. ReturnUnchanged(r) \/ ReturnCommitted(r)
  BY <1>1, <1>2
<1>4. Current(r) /\ kind' = kind /\ unit' = unit
  BY <1>3, SuccessIsCurrent
<1>5. captured[r][Database] \in held[Database] \cap FileContent
  BY <1>3, CapturedDatabaseHeld DEF ReturnUnchanged, ReturnCommitted
<1>6. \A s \in Live(unit') :
         /\ unit'[s].settings = req[r].settings
         /\ unit'[s].command = CommandOf[captured[r][Database]][s]
         /\ \A f \in Recorded(unit'[s]) \ {Database} :
               unit'[s].inputs[f] \in held[f]
  BY <1>4 DEF Current, Fits, CommandFor
<1> QED
  BY <1>4, <1>5, <1>6 DEF Current

\* A run that says committed or unchanged leaves the store current as of a
\* moment at which it held the lock (index_profile's revalidation and its one
\* publication), for any number of runs, workers, files and edits.
THEOREM SuccessMeansCurrentTheorem == Spec => SuccessMeansCurrent
<1>1. RunInv /\ [Next]_vars =>
         [\A r \in Run :
            Returns(r) /\ report'[r].outcome \in {"committed", "unchanged"} =>
               /\ kind' = req[r].kind
               /\ Live(unit') = Selected(req[r])
               /\ \A s \in Live(unit') :
                     /\ unit'[s].settings = req[r].settings
                     /\ \A f \in Recorded(unit'[s]) \ {Database} :
                           unit'[s].inputs[f] \in held[f]
               /\ \E c \in held[Database] \cap FileContent :
                     \A s \in Live(unit') : unit'[s].command = CommandOf[c][s]
         ]_vars
  BY ReturnedSuccess
<1> QED
  BY <1>1, RunInvariantHolds, PTL DEF Spec, SuccessMeansCurrent

----------------------------------------------------------------------------
\* What the runs do to the store is what the store's contract allows.

\* The contract's view of what is committed.
FactsOf(units) ==
    [s \in Slot |-> IF units[s] = NoUnit THEN NoUnit
                    ELSE [label |-> s, facts |-> units[s].command]]

LEMMA InitUsesContract == Init => Contract!Init
<1> SUFFICES ASSUME Init PROVE Contract!Init
  OBVIOUS
<1>1. [q \in TheProfile |-> [s \in Slot |->
          IF unit[s] = NoUnit THEN NoUnit
          ELSE [label |-> s, facts |-> unit[s].command]]]
        = [q \in TheProfile |-> [s \in Slot |-> NoUnit]]
  BY DEF Init
<1> QED
  BY <1>1 DEF Init, Contract!Init

LEMMA HiddenFromContract ==
    ASSUME UNCHANGED <<lock, kind, gen, unit>>
    PROVE  UNCHANGED Contract!vars
BY DEF Contract!vars

\* The lock is taken, or given back, or stays.
LEMMA LockUsesContract ==
    ASSUME NEW r \in Run, UNCHANGED <<kind, gen, unit>>,
           Lock(r) \/ Unlock(r)
    PROVE  Contract!Take(r) \/ Contract!Drop(r) \/ UNCHANGED Contract!vars
<1>1. CASE Lock(r)
  BY <1>1 DEF Lock, Contract!Take
<1>2. CASE Unlock(r) /\ lock = r
  BY <1>2 DEF Unlock, Contract!Drop
<1>3. CASE Unlock(r) /\ lock # r
  BY <1>3, HiddenFromContract DEF Unlock
<1> QED
  BY <1>1, <1>2, <1>3

LEMMA EnsureUsesContract ==
    ASSUME RunInv, NEW r \in Run, Ensure(r) \/ CreateForFailure(r)
    PROVE  Contract!CreateProfile(r, "profile") \/ UNCHANGED Contract!vars
<1>1. /\ RunLocal(r) /\ LockDiscipline
      /\ pc[r] \in {"ensuring", "failing"} /\ UNCHANGED <<lock, gen, unit>>
  BY DEF RunInv, IndexInvariant, Ensure, CreateForFailure
<1>2. lock = r
  BY <1>1 DEF Ensure, CreateForFailure, LockDiscipline, Holding
<1>3. req[r].kind \in Kind \ {"absent"}
  <2>1. req[r] \in Request
    BY <1>1, ParametersAssumption DEF RunLocal
  <2> QED
    BY <2>1 DEF Request
<1>4. \/ kind = "absent" /\ kind' = req[r].kind
      \/ kind' = kind
  BY DEF Ensure, CreateForFailure
<1>5. CASE kind' = kind
  BY <1>1, <1>5, HiddenFromContract
<1>6. CASE kind = "absent" /\ kind' = req[r].kind
  <2>1. [q \in TheProfile |-> kind'] =
           [[q \in TheProfile |-> kind] EXCEPT !["profile"] = req[r].kind]
    BY <1>6 DEF TheProfile
  <2>2. req[r].kind \in Contract!Kind \ {"absent"}
    BY <1>3 DEF Kind, Contract!Kind
  <2> QED
    BY <1>1, <1>2, <1>6, <2>1, <2>2 DEF Contract!CreateProfile, TheProfile
<1> QED
  BY <1>4, <1>5, <1>6

LEMMA FactsAreContent ==
    ASSUME NEW units \in [Slot -> Unit \cup {NoUnit}]
    PROVE  FactsOf(units) \in Contract!Content
<1> DEFINE c == FactsOf(units)
<1>1. c = [s \in Slot |-> c[s]]
      /\ \A s \in Slot : c[s] = IF units[s] = NoUnit THEN NoUnit
                                ELSE [label |-> s, facts |-> units[s].command]
  BY DEF FactsOf
<1>2. \A s \in Slot : units[s] # NoUnit => units[s].command \in Command
  BY DEF Unit
<1> HIDE DEF c
<1>3. \A s \in Slot : c[s] \in Contract!Published
  BY <1>1, <1>2 DEF Contract!Published
<1>4. Contract!UniqueLabels(c)
  <2> SUFFICES ASSUME NEW s \in Slot, NEW t \in Slot, c[s] # NoUnit,
                      c[t] # NoUnit, c[s].label = c[t].label
               PROVE  s = t
    BY DEF Contract!UniqueLabels
  <2> QED
    BY <1>1
<1>5. c \in [Slot -> Contract!Published]
  BY <1>1, <1>3
<1> QED
  BY <1>4, <1>5 DEF Contract!Content, c

LEMMA PublishUsesContract ==
    ASSUME RunInv, NEW r \in Run, Publish(r)
    PROVE  Contract!Publish(r, "profile")
<1>1. /\ pc[r] = "publishing" /\ gen' = gen + 1 /\ UNCHANGED <<lock, kind>>
      /\ LockDiscipline /\ RunShared(r)
  BY DEF RunInv, IndexInvariant, Publish
<1>2. lock = r /\ kind = req[r].kind
  BY <1>1 DEF LockDiscipline, Holding, RunShared
<1>3. kind # "absent"
  BY <1>1, <1>2, AtHand DEF Request
<1>4. FactsOf(unit') \in Contract!Content
  BY PublishedUnits, FactsAreContent
<1>5. [q \in TheProfile |-> FactsOf(unit')] =
         [[q \in TheProfile |-> FactsOf(unit)] EXCEPT !["profile"] = FactsOf(unit')]
  BY DEF TheProfile
<1>6. [q \in TheProfile |-> gen'] =
         [[q \in TheProfile |-> gen] EXCEPT !["profile"] = @ + 1]
  BY <1>1 DEF TheProfile
<1> QED
  BY <1>1, <1>2, <1>3, <1>4, <1>5, <1>6 DEF Contract!Publish, FactsOf, TheProfile

LEMMA StepUsesContract ==
    ASSUME RunInv, [Next]_vars
    PROVE  [Contract!Next]_(Contract!vars)
<1>1. "profile" \in TheProfile
  BY DEF TheProfile
<1>2. ASSUME NEW r \in Run,
             \/ Contract!Take(r) \/ Contract!Drop(r)
             \/ Contract!CreateProfile(r, "profile")
             \/ Contract!Publish(r, "profile")
      PROVE  Contract!Next
  BY <1>1, <1>2 DEF Contract!Next
<1>3. CASE \E f \in File, c \in FileContent \cup {Absent} : Edit(f, c)
  BY <1>3, HiddenFromContract DEF Edit
<1>4. CASE \E r \in Run : \E q \in Requests : Start(r, q)
  BY <1>4, HiddenFromContract DEF Start, store
<1>5. CASE \E r \in Run : Index(r)
  <2> PICK r \in Run : Index(r)
    BY <1>5
  <2>1. CASE Ensure(r) \/ CreateForFailure(r)
    BY <1>2, <2>1, EnsureUsesContract
  <2>2. CASE Publish(r)
    BY <1>2, <2>2, PublishUsesContract
  <2>3. CASE TakeLock(r) \/ FailureTakesLock(r)
    <3>1. Lock(r) /\ UNCHANGED <<kind, gen, unit>>
      BY <2>3 DEF TakeLock, FailureTakesLock
    <3> QED
      BY <1>2, <3>1, LockUsesContract
  <2>4. CASE \/ Busy(r) \/ ReturnUnchanged(r) \/ ReturnCommitted(r)
             \/ PublishFails(r) \/ FailureUnrecorded(r) \/ RecordFailure(r)
             \/ RecordFails(r)
    <3>1. Unlock(r) /\ UNCHANGED <<kind, gen, unit>>
      BY <2>4 DEF Busy, ReturnUnchanged, ReturnCommitted, PublishFails,
                  FailureUnrecorded, RecordFailure, RecordFails, Return
    <3> QED
      BY <1>2, <3>1, LockUsesContract
  <2>5. CASE \/ \E f \in File : Capture(r, f) \/ HashPlanned(r, f)
                                  \/ HashLocked(r, f)
             \/ ReadCommitted(r) \/ Decide(r) \/ Join(r) \/ CheckPlan(r)
             \/ Revalidate(r) \/ EnsureFails(r)
    BY <2>5, HiddenFromContract
       DEF Capture, HashPlanned, HashLocked, ReadCommitted, Decide, Join,
           CheckPlan, Revalidate, EnsureFails, store
  <2>6. CASE \E w \in Worker : Work(r, w)
    BY <2>6, HiddenFromContract
       DEF Work, CheckStop, Fetch, ReadInput, AnalysisSucceeds, AnalysisFails,
           AnalysisThrows, store
  <2> QED
    BY <2>1, <2>2, <2>3, <2>4, <2>5, <2>6 DEF Index
<1>6. CASE \E r \in Run : Abort(r)
  <2> PICK r \in Run : Abort(r)
    BY <1>6
  <2>1. Unlock(r) /\ UNCHANGED <<kind, gen, unit>>
    BY DEF Abort
  <2> QED
    BY <1>2, <2>1, LockUsesContract
<1>7. CASE UNCHANGED vars
  BY <1>7, HiddenFromContract DEF vars, store
<1> QED
  BY <1>3, <1>4, <1>5, <1>6, <1>7 DEF Next

\* The runs use the store as its contract says: one writer, a profile created
\* once and of one kind, its content replaced by the holder of the lock only
\* and together with the generation. StorePublish promises that contract to
\* many profiles at once (StoreImplementsContract).
THEOREM IndexUsesContract == Spec => UsesContract
<1>1. Init => Contract!Init
  BY InitUsesContract
<1>2. RunInv /\ [Next]_vars => [Contract!Next]_(Contract!vars)
  BY StepUsesContract
<1> QED
  BY <1>1, <1>2, RunInvariantHolds, PTL DEF Spec, UsesContract, Contract!Spec
====
