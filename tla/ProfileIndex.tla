---------------------------- MODULE ProfileIndex ----------------------------
(***************************************************************************)
(* One profile's indexing runs (index_profile,                             *)
(* src/lcm/analyzer/profile_index.cpp): a run captures the context files,  *)
(* plans against the committed units, analyses what changed with several   *)
(* workers and no lock, then takes the writer lock, revalidates everything *)
(* it relied on, and publishes once. Files are edited all the while, and   *)
(* other runs index the same profile.                                      *)
(*                                                                         *)
(* The store is its contract: a publication is one step, which StorePublish*)
(* shows it to be, and attempts are left to that module. The front end is  *)
(* external: an analysis reads some of its slot's files, in any order and  *)
(* at any time, and succeeds, fails or throws.                             *)
(***************************************************************************)
EXTENDS Integers, Sequences, FiniteSets, SequencesExt

CONSTANTS Run,         \* indexing runs, each on its own Store object
          MaxWorkers,  \* bound: worker threads of one run
          Slot, File, FileContent, Setting, Command,
          Context,     \* the files a run captures; the others are read
          Database,    \* the one of them that is the compile database
          CommandOf,   \* database content -> slot -> command, or NoCommand
          Reads,       \* the files an analysis of a slot may read
          SourceOf,    \* the one of them that is the slot's source
          Requests,    \* what runs are asked for
          MayHold,     \* bound: what each file is ever edited to
          MaxGen,      \* bound: publications
          NoRun, Absent, NoInput, NoUnit, NoCommand, NoSlot, NoRequest,
          NoView, NoReport

VARIABLES disk,    \* what each file holds now, or Absent
          lock,    \* the holder of the writer lock, or NoRun
          kind,    \* the profile: "absent", or whether UHT applies to it
          gen,     \* its fact generation
          unit,    \* slot -> committed unit, or NoUnit
          held     \* history: what each file has held since the lock was taken

\* Per run, the locals of index_profile.
VARIABLES pc,        \* where it is
          req,       \* its request
          captured,  \* context file -> content, read before anything else
          seen,      \* the committed state it plans against
          hashed,    \* file -> content, of the pass it is in
          plan,      \* the slots to analyse, in selection order
          next, stop, thrown,  \* what the workers share
          analysed,  \* index into plan -> outcome of its analysis
          worker,    \* where each worker is
          ending,    \* how a failing run will end
          report     \* what it last returned, or NoReport

store == <<disk, kind, gen, unit, held, lock>>
pool == <<next, stop, thrown, analysed, worker>>
locals == <<pc, req, captured, seen, hashed, plan, pool, ending>>
vars == <<store, locals, report>>

----------------------------------------------------------------------------
Kind == {"absent", "cpp", "unreal"}

Outcome == {"committed", "unchanged", "rejected", "failed", "busy"}

SlotResult == {"installed", "unchanged", "failed", "not_published",
               "not_analyzed"}

Inputs == [File -> FileContent \cup {NoInput}]

Unit == [command : Command, settings : Setting, inputs : Inputs]

Request == [actions : Seq(Slot), settings : Setting,
            kind : Kind \ {"absent"}, valid : BOOLEAN, intended : BOOLEAN,
            jobs : Nat]

View == [kind : Kind, gen : Nat, units : [Slot -> Unit \cup {NoUnit}]]

Report == [outcome : Outcome, recorded : BOOLEAN, jobs : Nat,
           planned : Nat, slots : Seq([slot : Slot, result : SlotResult]),
           retired : SUBSET Slot, named : Slot \cup {NoSlot}]

Worker == 1 .. MaxWorkers

NoFiles == [f \in {} |-> Absent]

\* Notes with one more entry, of a file or a plan entry.
Noting(notes, f, x) ==
    [g \in DOMAIN notes \cup {f} |-> IF g = f THEN x ELSE notes[g]]

IdleWorker == [at |-> "done", n |-> 0, read |-> NoFiles]

ASSUME ParametersAssumption ==
    /\ MaxWorkers \in Nat \ {0}
    /\ \A q \in Requests : q.jobs <= MaxWorkers
    /\ Context \subseteq File
    /\ Database \in Context
    /\ CommandOf \in [FileContent -> [Slot -> Command \cup {NoCommand}]]
    /\ Reads \in [Slot -> SUBSET (File \ Context)]
    /\ \A s \in Slot : SourceOf[s] \in Reads[s]
    /\ Requests \subseteq Request
    /\ MayHold \in [File -> SUBSET (FileContent \cup {Absent})]
    /\ MaxGen \in Nat

ASSUME AbsentValuesAssumption ==
    /\ NoRun \notin Run
    /\ Absent \notin FileContent
    /\ NoInput \notin FileContent
    /\ NoUnit \notin Unit
    /\ NoCommand \notin Command
    /\ NoSlot \notin Slot
    /\ NoReport \notin Report

----------------------------------------------------------------------------
\* Units and requests.

Selected(q) == ToSet(q.actions)

Live(units) == {s \in Slot : units[s] # NoUnit}

Recorded(u) == {f \in File : u.inputs[f] # NoInput}

\* tracked_by_rehash: captured context is compared as such.
Tracked(u) == Recorded(u) \ Context

Retired(r) == Live(seen[r].units) \ Selected(req[r])

CommandFor(r, s) == CommandOf[captured[r][Database]][s]

\* The request, database and selection errors that reject a run: a slot
\* selected more than once is one of them.
Errors(r, k) ==
    \/ ~req[r].valid
    \/ ~IsInjective(req[r].actions)
    \/ \E f \in Context : captured[r][f] = Absent
    \/ /\ captured[r][Database] # Absent
       /\ \E s \in Selected(req[r]) : CommandFor(r, s) = NoCommand
    \/ (req[r].actions = <<>>) # req[r].intended
    \/ k \notin {"absent", req[r].kind}

\* change_reasons finds none: the committed unit still describes the selected
\* action. The database counts through the slot's own command only.
Unchanged(r, s) ==
    LET u == seen[r].units[s]
    IN  /\ u # NoUnit
        /\ u.command = CommandFor(r, s)
        /\ u.settings = req[r].settings
        /\ \A f \in Context \ {Database} : u.inputs[f] = captured[r][f]
        /\ \A f \in Tracked(u) : hashed[r][f] = u.inputs[f]

\* The contribution of plan entry n.
NewUnit(r, n) ==
    [command |-> CommandFor(r, plan[r][n]), settings |-> req[r].settings,
     inputs |-> [f \in File |->
        IF f \in Context THEN captured[r][f]
        ELSE IF f \in DOMAIN analysed[r][n].read THEN analysed[r][n].read[f]
        ELSE NoInput]]

Failures(r) == {n \in DOMAIN analysed[r] : ~analysed[r][n].good}

----------------------------------------------------------------------------
\* The lock and the ways a run ends.

Lock(r) ==
    /\ lock = NoRun
    /\ lock' = r
    /\ held' = [f \in File |-> {disk[f]}]

\* The lock goes with whoever held it.
Unlock(r) ==
    IF lock = r
    THEN lock' = NoRun /\ held' = [f \in File |-> {}]
    ELSE UNCHANGED <<lock, held>>

Goto(r, label) == pc' = [pc EXCEPT ![r] = label]

\* The locals are gone.
Forget(r) ==
    /\ pc' = [pc EXCEPT ![r] = "idle"]
    /\ req' = [req EXCEPT ![r] = NoRequest]
    /\ captured' = [captured EXCEPT ![r] = NoFiles]
    /\ seen' = [seen EXCEPT ![r] = NoView]
    /\ hashed' = [hashed EXCEPT ![r] = NoFiles]
    /\ plan' = [plan EXCEPT ![r] = <<>>]
    /\ next' = [next EXCEPT ![r] = 1]
    /\ stop' = [stop EXCEPT ![r] = FALSE]
    /\ thrown' = [thrown EXCEPT ![r] = FALSE]
    /\ analysed' = [analysed EXCEPT ![r] = <<>>]
    /\ worker' = [worker EXCEPT ![r] = [w \in Worker |-> IdleWorker]]
    /\ ending' = [ending EXCEPT ![r] = "committed"]

\* A planned slot's result, in a run that ends with outcome o.
Result(r, n, o) ==
    CASE n \notin DOMAIN analysed[r] -> "not_analyzed"
      [] n \in Failures(r) -> "failed"
      [] OTHER -> IF o = "committed" THEN "installed" ELSE "not_published"

\* The reports of the selected slots, in selection order. A rejected run has
\* none.
SlotReports(r, o) ==
    LET ResultOf(s) ==
            IF s \in ToSet(plan[r])
            THEN Result(r, CHOOSE n \in DOMAIN plan[r] : plan[r][n] = s, o)
            ELSE "unchanged"
    IN  IF o = "rejected" THEN <<>>
        ELSE [i \in DOMAIN req[r].actions |->
                 [slot |-> req[r].actions[i],
                  result |-> ResultOf(req[r].actions[i])]]

\* The slot a failed run's message names.
FirstFailure(r) ==
    IF Failures(r) = {} THEN NoSlot
    ELSE plan[r][CHOOSE n \in Failures(r) : \A m \in Failures(r) : n <= m]

Return(r, outcome, recorded) ==
    /\ report' = [report EXCEPT ![r] =
            [outcome |-> outcome, recorded |-> recorded, jobs |-> req[r].jobs,
             planned |-> Len(plan[r]), slots |-> SlotReports(r, outcome),
             retired |-> IF outcome = "committed" THEN Retired(r) ELSE {},
             named |-> FirstFailure(r)]]
    /\ Forget(r)
    /\ Unlock(r)

\* The run will record a failed attempt and end.
Failing(r, outcome) ==
    /\ pc' = [pc EXCEPT ![r] = "failing"]
    /\ ending' = [ending EXCEPT ![r] = outcome]

----------------------------------------------------------------------------
Init ==
    /\ disk \in [File -> FileContent \cup {Absent}]
    /\ \A f \in File : disk[f] \in MayHold[f]
    /\ lock = NoRun
    /\ kind = "absent"
    /\ gen = 0
    /\ unit = [s \in Slot |-> NoUnit]
    /\ held = [f \in File |-> {}]
    /\ pc = [r \in Run |-> "idle"]
    /\ req = [r \in Run |-> NoRequest]
    /\ captured = [r \in Run |-> NoFiles]
    /\ seen = [r \in Run |-> NoView]
    /\ hashed = [r \in Run |-> NoFiles]
    /\ plan = [r \in Run |-> <<>>]
    /\ next = [r \in Run |-> 1]
    /\ stop = [r \in Run |-> FALSE]
    /\ thrown = [r \in Run |-> FALSE]
    /\ analysed = [r \in Run |-> <<>>]
    /\ worker = [r \in Run |-> [w \in Worker |-> IdleWorker]]
    /\ ending = [r \in Run |-> "committed"]
    /\ report = [r \in Run |-> NoReport]

Edit(f, c) ==
    /\ c \in MayHold[f] \ {disk[f]}
    /\ disk' = [disk EXCEPT ![f] = c]
    /\ held' = IF lock = NoRun THEN held ELSE [held EXCEPT ![f] = @ \cup {c}]
    /\ UNCHANGED <<lock, kind, gen, unit, locals, report>>

----------------------------------------------------------------------------
\* Steps 1 to 4: capture, selection, plan.

Start(r, q) ==
    /\ pc[r] = "idle"
    /\ Goto(r, "capturing")
    /\ req' = [req EXCEPT ![r] = q]
    /\ report' = [report EXCEPT ![r] = NoReport]
    /\ UNCHANGED <<store, captured, seen, hashed, plan, pool, ending>>

\* One context file is read; the order of the files does not matter.
Capture(r, f) ==
    /\ pc[r] = "capturing"
    /\ f \in Context \ DOMAIN captured[r]
    /\ captured' = [captured EXCEPT ![r] = Noting(@, f, disk[f])]
    /\ UNCHANGED <<store, pc, req, seen, hashed, plan, pool, ending, report>>

\* The snapshot of the profile, and the verdict on the whole request.
ReadCommitted(r) ==
    /\ pc[r] = "capturing"
    /\ DOMAIN captured[r] = Context
    /\ seen' = [seen EXCEPT ![r] =
            [kind |-> kind, gen |-> gen, units |-> unit]]
    /\ IF Errors(r, kind) THEN Failing(r, "rejected")
       ELSE Goto(r, "planning") /\ UNCHANGED ending
    /\ UNCHANGED <<store, req, captured, hashed, plan, pool, report>>

\* FileHashes: each distinct file once per pass.
Hash(r, f) == hashed' = [hashed EXCEPT ![r] = Noting(@, f, disk[f])]

ToPlan(r) == UNION {Tracked(seen[r].units[s]) : s \in Live(seen[r].units)}

HashPlanned(r, f) ==
    /\ pc[r] = "planning"
    /\ f \in ToPlan(r) \ DOMAIN hashed[r]
    /\ Hash(r, f)
    /\ UNCHANGED <<store, pc, req, captured, seen, plan, pool, ending, report>>

\* The enumeration of a finite set of numbers in ascending order.
Ascending(S) ==
    {at \in [1 .. Cardinality(S) -> S] :
        \A m, n \in DOMAIN at : m < n => at[m] < at[n]}

\* The selected actions that changed, by their places in the selection. jobs
\* is at least one and at most the analyses planned; with one job the loop of
\* the code and the loop of a single worker are the same.
Decide(r) ==
    /\ pc[r] = "planning"
    /\ ToPlan(r) \subseteq DOMAIN hashed[r]
    /\ \E planned \in Ascending({i \in DOMAIN req[r].actions :
                                    ~Unchanged(r, req[r].actions[i])}) :
           LET Works(w) ==
                   w \in DOMAIN planned /\ (w = 1 \/ w <= req[r].jobs)
           IN
           /\ plan' = [plan EXCEPT ![r] =
                 [n \in DOMAIN planned |-> req[r].actions[planned[n]]]]
           /\ worker' = [worker EXCEPT ![r] = [w \in Worker |->
                 IF Works(w) THEN [IdleWorker EXCEPT !.at = "check"]
                 ELSE IdleWorker]]
    /\ hashed' = [hashed EXCEPT ![r] = NoFiles]
    /\ Goto(r, "analysing")
    /\ UNCHANGED <<store, req, captured, seen, next, stop, thrown, analysed,
                   ending, report>>

----------------------------------------------------------------------------
\* Step 5: the workers, which share next and stop and write each only the
\* outcome of the entry it fetched.

At(r, w, label) == worker' = [worker EXCEPT ![r][w].at = label]

Working(r, w, label) ==
    /\ pc[r] = "analysing"
    /\ worker[r][w].at = label

CheckStop(r, w) ==
    /\ Working(r, w, "check")
    /\ At(r, w, IF stop[r] THEN "done" ELSE "fetch")
    /\ UNCHANGED <<store, pc, req, captured, seen, hashed, plan, next, stop,
                   thrown, analysed, ending, report>>

\* fetch_add, and the analysis begins if there is one.
Fetch(r, w) ==
    /\ Working(r, w, "fetch")
    /\ next' = [next EXCEPT ![r] = @ + 1]
    /\ IF next[r] > Len(plan[r])
       THEN At(r, w, "done")
       ELSE worker' = [worker EXCEPT ![r][w] =
                [at |-> "run", n |-> next[r], read |-> NoFiles]]
    /\ UNCHANGED <<store, pc, req, captured, seen, hashed, plan, stop, thrown,
                   analysed, ending, report>>

\* The front end reads a file that is there; an absent one is not recorded.
ReadInput(r, w, f) ==
    /\ Working(r, w, "run")
    /\ f \in Reads[plan[r][worker[r][w].n]] \ DOMAIN worker[r][w].read
    /\ disk[f] # Absent
    /\ worker' = [worker EXCEPT ![r][w].read = Noting(@, f, disk[f])]
    /\ UNCHANGED <<store, pc, req, captured, seen, hashed, plan, next, stop,
                   thrown, analysed, ending, report>>

Analysed(r, w, good) ==
    analysed' = [analysed EXCEPT ![r] = Noting(@, worker[r][w].n,
        [good |-> good, read |-> worker[r][w].read])]

AnalysisSucceeds(r, w) ==
    /\ Working(r, w, "run")
    /\ SourceOf[plan[r][worker[r][w].n]] \in DOMAIN worker[r][w].read
    /\ Analysed(r, w, TRUE)
    /\ worker' = [worker EXCEPT ![r][w] = [IdleWorker EXCEPT !.at = "check"]]
    /\ UNCHANGED <<store, pc, req, captured, seen, hashed, plan, next, stop,
                   thrown, ending, report>>

\* The front end, the conversion, the unity check or the spool refuses. The
\* outcome is read only when all workers are done, so setting it and the stop
\* flag can be one step.
AnalysisFails(r, w) ==
    /\ Working(r, w, "run")
    /\ Analysed(r, w, FALSE)
    /\ stop' = [stop EXCEPT ![r] = TRUE]
    /\ worker' = [worker EXCEPT ![r][w] = [IdleWorker EXCEPT !.at = "check"]]
    /\ UNCHANGED <<store, pc, req, captured, seen, hashed, plan, next, thrown,
                   ending, report>>

AnalysisThrows(r, w) ==
    /\ Working(r, w, "run")
    /\ thrown' = [thrown EXCEPT ![r] = TRUE]
    /\ stop' = [stop EXCEPT ![r] = TRUE]
    /\ worker' = [worker EXCEPT ![r][w] = [IdleWorker EXCEPT !.at = "check"]]
    /\ UNCHANGED <<store, pc, req, captured, seen, hashed, plan, next,
                   analysed, ending, report>>

\* Mutant: once the flag is set, running analyses are not waited for.
Join_NotAfterStop(r) ==
    /\ pc[r] = "analysing"
    /\ stop[r] \/ \A w \in Worker : worker[r][w].at = "done"
    /\ IF thrown[r] THEN Forget(r)
       ELSE IF Failures(r) # {}
       THEN /\ Failing(r, "failed")
            /\ UNCHANGED <<req, captured, seen, hashed, plan, pool>>
       ELSE /\ Goto(r, "locking")
            /\ UNCHANGED <<req, captured, seen, hashed, plan, pool, ending>>
    /\ UNCHANGED <<store, report>>

\* Every thread is joined, then an exception goes to the caller; a failure
\* ends the run, and without one it asks for the lock.
Join(r) ==
    /\ pc[r] = "analysing"
    /\ \A w \in Worker : worker[r][w].at = "done"
    /\ IF thrown[r] THEN Forget(r)
       ELSE IF Failures(r) # {}
       THEN /\ Failing(r, "failed")
            /\ UNCHANGED <<req, captured, seen, hashed, plan, pool>>
       ELSE /\ Goto(r, "locking")
            /\ UNCHANGED <<req, captured, seen, hashed, plan, pool, ending>>
    /\ UNCHANGED <<store, report>>

----------------------------------------------------------------------------
\* Step 6: revalidation under the lock, and one publication.

TakeLock(r) ==
    /\ pc[r] = "locking"
    /\ Lock(r)
    /\ Goto(r, "locked")
    /\ UNCHANGED <<disk, kind, gen, unit, req, captured, seen, hashed, plan,
                   pool, ending, report>>

\* Mutant: the lock is waited for without a limit.
Busy_Waits(r) ==
    /\ pc[r] = "locking"
    /\ lock = r
    /\ Return(r, "busy", FALSE)
    /\ UNCHANGED <<disk, kind, gen, unit>>

\* The last poll within the wait still finds the lock taken.
Busy(r) ==
    /\ pc[r] = "locking"
    /\ lock # NoRun
    /\ Return(r, "busy", FALSE)
    /\ UNCHANGED <<disk, kind, gen, unit>>

\* Mutant: only the profile's existence is compared.
CheckPlan_ExistenceOnly(r) ==
    /\ pc[r] = "locked"
    /\ IF (kind = "absent") = (seen[r].kind = "absent")
       THEN Goto(r, "revalidating") /\ UNCHANGED ending
       ELSE Failing(r, "failed")
    /\ UNCHANGED <<store, req, captured, seen, hashed, plan, pool, report>>

CheckPlan(r) ==
    /\ pc[r] = "locked"
    /\ IF /\ (kind = "absent") = (seen[r].kind = "absent")
          /\ gen = seen[r].gen
       THEN Goto(r, "revalidating") /\ UNCHANGED ending
       ELSE Failing(r, "failed")
    /\ UNCHANGED <<store, req, captured, seen, hashed, plan, pool, report>>

UnchangedSlots(r) == Selected(req[r]) \ ToSet(plan[r])

ToRevalidate(r) ==
    Context
        \cup (UNION {DOMAIN analysed[r][n].read : n \in DOMAIN analysed[r]})
        \cup (UNION {Tracked(seen[r].units[s]) : s \in UnchangedSlots(r)})

HashLocked(r, f) ==
    /\ pc[r] = "revalidating"
    /\ f \in ToRevalidate(r) \ DOMAIN hashed[r]
    /\ Hash(r, f)
    /\ UNCHANGED <<store, pc, req, captured, seen, plan, pool, ending, report>>

ContextHolds(r) == \A f \in Context : hashed[r][f] = captured[r][f]

AnalysesHold(r) ==
    \A n \in DOMAIN analysed[r] : \A f \in DOMAIN analysed[r][n].read :
        hashed[r][f] = analysed[r][n].read[f]

UnchangedHold(r) ==
    \A s \in UnchangedSlots(r) : \A f \in Tracked(seen[r].units[s]) :
        hashed[r][f] = seen[r].units[s].inputs[f]

\* Mutant: an unchanged slot is left at what planning found.
Revalidate_NewOnly(r) ==
    /\ pc[r] = "revalidating"
    /\ ToRevalidate(r) \subseteq DOMAIN hashed[r]
    /\ IF ContextHolds(r) /\ AnalysesHold(r)
       THEN Goto(r, "ensuring") /\ UNCHANGED ending
       ELSE Failing(r, "failed")
    /\ UNCHANGED <<store, req, captured, seen, hashed, plan, pool, report>>

\* The code hashes what it can in advance and stops at the first difference;
\* whichever it is, nothing is published.
Revalidate(r) ==
    /\ pc[r] = "revalidating"
    /\ ToRevalidate(r) \subseteq DOMAIN hashed[r]
    /\ IF ContextHolds(r) /\ AnalysesHold(r) /\ UnchangedHold(r)
       THEN Goto(r, "ensuring") /\ UNCHANGED ending
       ELSE Failing(r, "failed")
    /\ UNCHANGED <<store, req, captured, seen, hashed, plan, pool, report>>

EnsureFails(r) ==
    /\ pc[r] = "ensuring"
    /\ Failing(r, "failed")
    /\ UNCHANGED <<store, req, captured, seen, hashed, plan, pool, report>>

\* ensure_profile, which refuses to switch the kind.
Ensure(r) ==
    /\ pc[r] = "ensuring"
    /\ kind \in {"absent", req[r].kind}
    /\ kind' = req[r].kind
    /\ Goto(r, "publishing")
    /\ UNCHANGED <<disk, gen, unit, held, lock, req, captured, seen, hashed,
                   plan, pool, ending, report>>

NothingToPublish(r) == plan[r] = <<>> /\ Retired(r) = {}

ReturnUnchanged(r) ==
    /\ pc[r] = "publishing"
    /\ NothingToPublish(r)
    /\ Return(r, "unchanged", FALSE)
    /\ UNCHANGED <<disk, kind, gen, unit>>

\* One batch: what was analysed is installed, what is not selected retired.
Publish(r) ==
    /\ pc[r] = "publishing"
    /\ ~NothingToPublish(r)
    /\ gen < MaxGen
    /\ unit' = [s \in Slot |->
            IF s \in ToSet(plan[r])
            THEN NewUnit(r, CHOOSE n \in DOMAIN plan[r] : plan[r][n] = s)
            ELSE IF s \in Retired(r) THEN NoUnit ELSE unit[s]]
    /\ gen' = gen + 1
    /\ Goto(r, "published")
    /\ UNCHANGED <<disk, kind, held, lock, req, captured, seen, hashed, plan,
                   pool, ending, report>>

ReturnCommitted(r) ==
    /\ pc[r] = "published"
    /\ Return(r, "committed", TRUE)
    /\ UNCHANGED <<disk, kind, gen, unit>>

\* PublishOutcome::failed or rejected, with or without an attempt.
PublishFails(r) ==
    /\ pc[r] = "publishing"
    /\ ~NothingToPublish(r)
    /\ \E recorded \in BOOLEAN : Return(r, "failed", recorded)
    /\ UNCHANGED <<disk, kind, gen, unit>>

----------------------------------------------------------------------------
\* record_failure: under the lock the run holds, or under one it now takes.

FailureTakesLock(r) ==
    /\ pc[r] = "failing"
    /\ Lock(r)
    /\ UNCHANGED <<disk, kind, gen, unit, locals, report>>

FailureUnrecorded(r) ==
    /\ pc[r] = "failing"
    /\ lock \notin {NoRun, r}
    /\ Return(r, ending[r], FALSE)
    /\ UNCHANGED <<disk, kind, gen, unit>>

\* Mutant: a failing run creates the profile as it would have had it,
\* whatever has become of the profile since it planned.
CreateForFailure_AsPlanned(r) ==
    /\ pc[r] = "failing"
    /\ lock = r
    /\ kind' = IF seen[r].kind = "absent" THEN req[r].kind ELSE kind
    /\ Goto(r, "recording")
    /\ UNCHANGED <<disk, gen, unit, held, lock, req, captured, seen, hashed,
                   plan, pool, ending, report>>

\* A profile that does not exist is created, empty, to hold the attempt.
CreateForFailure(r) ==
    /\ pc[r] = "failing"
    /\ lock = r
    /\ kind' = IF kind = "absent" THEN req[r].kind ELSE kind
    /\ Goto(r, "recording")
    /\ UNCHANGED <<disk, gen, unit, held, lock, req, captured, seen, hashed,
                   plan, pool, ending, report>>

RecordFailure(r) ==
    /\ pc[r] = "recording"
    /\ Return(r, ending[r], TRUE)
    /\ UNCHANGED <<disk, kind, gen, unit>>

\* The store refuses one or the other.
RecordFails(r) ==
    /\ pc[r] \in {"failing", "recording"}
    /\ lock = r
    /\ Return(r, ending[r], FALSE)
    /\ UNCHANGED <<disk, kind, gen, unit>>

\* An exception no handler of the run takes, or the death of the process.
Abort(r) ==
    /\ pc[r] # "idle"
    /\ Forget(r)
    /\ Unlock(r)
    /\ UNCHANGED <<disk, kind, gen, unit, report>>

----------------------------------------------------------------------------
Work(r, w) ==
    \/ CheckStop(r, w)
    \/ Fetch(r, w)
    \/ \E f \in File : ReadInput(r, w, f)
    \/ AnalysisSucceeds(r, w)
    \/ AnalysisFails(r, w)
    \/ AnalysisThrows(r, w)

\* One step of the code of a run that has begun.
Index(r) ==
    \/ \E f \in File : Capture(r, f) \/ HashPlanned(r, f) \/ HashLocked(r, f)
    \/ ReadCommitted(r)
    \/ Decide(r)
    \/ \E w \in Worker : Work(r, w)
    \/ Join(r)
    \/ TakeLock(r)
    \/ Busy(r)
    \/ CheckPlan(r)
    \/ Revalidate(r)
    \/ Ensure(r)
    \/ EnsureFails(r)
    \/ ReturnUnchanged(r)
    \/ Publish(r)
    \/ ReturnCommitted(r)
    \/ PublishFails(r)
    \/ FailureTakesLock(r)
    \/ FailureUnrecorded(r)
    \/ CreateForFailure(r)
    \/ RecordFailure(r)
    \/ RecordFails(r)

Next ==
    \/ \E f \in File, c \in FileContent \cup {Absent} : Edit(f, c)
    \/ \E r \in Run :
          \/ \E q \in Requests : Start(r, q)
          \/ Index(r)
          \/ Abort(r)

Spec == Init /\ [][Next]_vars

\* A run that has begun goes on; nobody has to give the lock back, to start,
\* or to stop editing.
FairSpec == Spec /\ \A r \in Run : WF_vars(Index(r))

----------------------------------------------------------------------------
\* Properties.

Read(S) == UNION {[D -> S] : D \in SUBSET File}

\* Every variable keeps its type, and what a run notes of the files it
\* captured, hashed and analysed is what files can hold.
TypeOK ==
    /\ disk \in [File -> FileContent \cup {Absent}]
    /\ lock \in Run \cup {NoRun}
    /\ kind \in Kind
    /\ gen \in Nat
    /\ unit \in [Slot -> Unit \cup {NoUnit}]
    /\ held \in [File -> SUBSET (FileContent \cup {Absent})]
    /\ pc \in [Run -> {"idle", "capturing", "planning", "analysing",
                       "locking", "locked", "revalidating", "ensuring",
                       "publishing", "published", "failing", "recording"}]
    /\ req \in [Run -> Requests \cup {NoRequest}]
    /\ captured \in [Run -> Read(FileContent \cup {Absent})]
    /\ seen \in [Run -> View \cup {NoView}]
    /\ hashed \in [Run -> Read(FileContent \cup {Absent})]
    /\ \A r \in Run :
          /\ plan[r] \in Seq(Slot)
          /\ DOMAIN analysed[r] \subseteq DOMAIN plan[r]
          /\ \A n \in DOMAIN analysed[r] :
                analysed[r][n] \in [good : BOOLEAN, read : Read(FileContent)]
          /\ report[r] # NoReport => report[r] \in Report
    /\ next \in [Run -> Nat]
    /\ stop \in [Run -> BOOLEAN]
    /\ thrown \in [Run -> BOOLEAN]
    /\ worker \in [Run -> [Worker ->
          [at : {"check", "fetch", "run", "done"}, n : Nat,
           read : Read(FileContent)]]]
    /\ ending \in [Run -> {"committed", "rejected", "failed"}]

\* From the check under the lock on, what the run planned against is what is
\* committed, however many other runs published or failed since its snapshot.
PlanIsCurrent ==
    \A r \in Run :
        pc[r] \in {"revalidating", "ensuring", "publishing"} =>
            lock = r /\ seen[r].gen = gen /\ seen[r].units = unit

Returns(r) == report'[r] # report[r] /\ report'[r] # NoReport

\* A run that says committed or unchanged leaves exactly the selected slots
\* with a unit, new and old ones alike from the requested settings, from the
\* command some database gave the slot that was there while the run held the
\* lock, and from inputs each of which was, as recorded, on the disk while it
\* held the lock; and the profile is of the requested kind.
SuccessMeansCurrent ==
    [][\A r \in Run :
          Returns(r) /\ report'[r].outcome \in {"committed", "unchanged"} =>
             /\ kind' = req[r].kind
             /\ Live(unit') = Selected(req[r])
             /\ \A s \in Live(unit') :
                   /\ unit'[s].settings = req[r].settings
                   /\ \A f \in Recorded(unit'[s]) \ {Database} :
                         unit'[s].inputs[f] \in held[f]
             /\ \E c \in held[Database] \cap FileContent :
                   \A s \in Live(unit') : unit'[s].command = CommandOf[c][s]
      ]_vars

\* However the workers interleave, a failed run names the slot a run with one
\* worker would: every selected slot before it was analysed and is good, and
\* a slot that was not analysed comes after a slot that failed.
ReportIsSequential ==
    \A r \in Run :
        report[r] # NoReport /\ report[r].named # NoSlot =>
            LET slots == report[r].slots
                first == CHOOSE i \in DOMAIN slots :
                            slots[i].slot = report[r].named
            IN  /\ slots[first].result = "failed"
                /\ \A i \in DOMAIN slots :
                      i < first =>
                          slots[i].result \in {"unchanged", "not_published"}

\* What the runs do to the store is what the store's contract allows: one
\* writer at a time, a profile created once and of one kind, content replaced
\* by its holder only and together with the generation. Facts are reduced to
\* the command they came from.
TheProfile == {"profile"}

Contract == INSTANCE StoreContract WITH
    Proc <- Run, Reader <- {}, Profile <- TheProfile, Label <- Slot,
    Facts <- Command, NoProc <- NoRun, writer <- lock,
    kind <- [q \in TheProfile |-> kind],
    gen <- [q \in TheProfile |-> gen],
    content <- [q \in TheProfile |-> [s \in Slot |->
        IF unit[s] = NoUnit THEN NoUnit
        ELSE [label |-> s, facts |-> unit[s].command]]],
    view <- [q \in {} |-> NoView]

UsesContract == Contract!Spec

\* Every run returns, whoever holds the lock and for how long.
RunEnds == \A r \in Run : pc[r] # "idle" ~> pc[r] = "idle"

----------------------------------------------------------------------------
\* What the documentation says of a run and the code does not keep.

\* "With at least as many jobs as planned analyses every planned slot is
\* analysed and reported" (docs/profile-index.md:107).
EnoughJobsAnalyseAll ==
    \A r \in Run :
        report[r] # NoReport /\ report[r].jobs >= report[r].planned =>
            \A i \in DOMAIN report[r].slots :
                report[r].slots[i].result # "not_analyzed"
=============================================================================
