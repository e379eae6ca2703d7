---------------------------- MODULE StoreFreshness ----------------------------
(***************************************************************************)
(* Freshness inspection (Store::inspect_freshness and its read-only form,  *)
(* src/lcm/store/store.cpp): an inspection plans from one snapshot, hashes *)
(* every recorded input once without the writer lock and once with it, and *)
(* persists one verdict per unit, while files are edited and units are     *)
(* published around it. A publication is one step here: StorePublish shows *)
(* that is what its callers see.                                           *)
(*                                                                         *)
(* Units are rows with reused row ids, and verdicts are keyed by row id:   *)
(* an inspection must not persist what it learned of one unit for another  *)
(* unit that got the same id meanwhile.                                    *)
(***************************************************************************)
EXTENDS Integers, FiniteSets, FiniteSetsExt, Functions

CONSTANTS Inspector,   \* inspections through a Store, which persist
          ReadOnly,    \* inspections through a ReadOnlyStore, which do not
          Publisher,   \* whoever publishes
          Profile, Slot,
          UhtProfile,  \* the profiles UHT applies to
          File, Content,
          RoleOf,      \* the role each file has as an input
          Inputs,      \* what contributions record of the files they read
          MaxGen,      \* bound: publications, over all profiles
          NoProc, Absent, NoInput, NoUnit, NoVerdict, NoPlan, NoReport

VARIABLES disk,    \* what each file holds now, or Absent
          lock,    \* the holder of the writer lock, or NoProc
          gen,     \* profile -> fact generation
          unit,    \* row id -> unit, or NoUnit
          verdict, \* row id -> persisted verdict (unit_freshness), or NoVerdict
          pc,      \* where each inspection is
          plan,    \* the snapshot each inspection works from, or NoPlan
          first, second,  \* what each pass has hashed so far: file -> content
          cause,   \* why an inspection ends incomplete
          report,  \* what the last inspection returned, or NoReport
          held     \* history: what each file has held since the lock was taken

inspection == <<pc, plan, first, second, cause, report>>
vars == <<disk, lock, gen, unit, verdict, inspection, held>>

----------------------------------------------------------------------------
Process == Inspector \cup ReadOnly

Row == 1 .. MaxGen

\* is_context_input, reflected headers, and every other input.
Role == {"context", "reflected", "other"}

Freshness == {"unknown", "stale", "fresh"}

InspectionOutcome ==
    {"complete", "budget_exhausted", "lock_busy", "generation_changed"}

Unit == [profile : Profile, slot : Slot, inputs : Inputs, verified : BOOLEAN]

Verdict == [semantic : Freshness, context : Freshness,
            uht : Freshness \cup {"not_applicable"}]

Plan == [profile : Profile, gen : Nat, rows : [Row -> Unit \cup {NoUnit}]]

Probe == UNION {[S -> Content \cup {Absent}] : S \in SUBSET File}

NoProbe == [f \in {} |-> Absent]

Report == [outcome : InspectionOutcome, published : BOOLEAN,
           downgraded : BOOLEAN, units : [Row -> Verdict \cup {NoVerdict}]]

ASSUME ParametersAssumption ==
    /\ Inputs \subseteq [File -> Content \cup {NoInput}]
    /\ RoleOf \in [File -> Role]
    /\ UhtProfile \subseteq Profile
    /\ MaxGen \in Nat
    /\ Inspector \cap ReadOnly = {}
    /\ Publisher \notin Process

ASSUME AbsentValuesAssumption ==
    /\ NoProc \notin Process \cup {Publisher}
    /\ Absent \notin Content
    /\ NoInput \notin Content \cup {Absent}
    /\ NoUnit \notin Unit
    /\ NoVerdict \notin Verdict
    /\ NoPlan \notin Plan
    /\ NoReport \notin Report

----------------------------------------------------------------------------
\* Rows.

InputsOf(u) == {f \in File : u.inputs[f] # NoInput}

\* The rows of profile q, in a row table.
RowsOf(units, q) == {r \in Row : units[r] # NoUnit /\ units[r].profile = q}

\* The units of one profile, as an inspection's snapshot holds them.
Snapshot(q) ==
    [r \in Row |-> IF r \in RowsOf(unit, q) THEN unit[r] ELSE NoUnit]

\* SQLite's next id of an INTEGER PRIMARY KEY: one more than the largest.
NextRow(units) == 1 + Max({r \in Row : units[r] # NoUnit} \cup {0})

\* Every file some unit of the plan recorded.
Distinct(p) == UNION {InputsOf(p.rows[r]) : r \in RowsOf(p.rows, p.profile)}

----------------------------------------------------------------------------
\* conclude_inspection: the verdict on unit u from what was hashed. Without a
\* second pass (one = TRUE) nothing can be fresh.

Changed(u, a, b, one) ==
    {f \in InputsOf(u) \cap DOMAIN a :
        IF one THEN a[f] # u.inputs[f]
        ELSE b[f] # u.inputs[f] \/ a[f] # b[f]}

UnitVerdict(u, a, b, one) ==
    LET changed == Changed(u, a, b, one)
        verified == ~one /\ InputsOf(u) \subseteq DOMAIN a /\ u.verified
    IN  [semantic |-> IF changed # {} THEN "stale"
                      ELSE IF verified THEN "fresh" ELSE "unknown",
         context |-> IF \E f \in changed : RoleOf[f] = "context" THEN "stale"
                     ELSE IF verified THEN "fresh" ELSE "unknown",
         uht |-> IF u.profile \notin UhtProfile THEN "not_applicable"
                 ELSE IF \E f \in changed : RoleOf[f] = "reflected"
                 THEN "stale" ELSE "unknown"]

Conclude(p, a, b, one) ==
    [r \in Row |-> IF p.rows[r] = NoUnit THEN NoVerdict
                   ELSE UnitVerdict(p.rows[r], a, b, one)]

\* What a verdict no inspection may vouch for any more becomes.
Lowered(v) ==
    LET Down(x) == IF x = "fresh" THEN "unknown" ELSE x
    IN  [semantic |-> Down(v.semantic), context |-> Down(v.context),
         uht |-> Down(v.uht)]

\* Mutant: only what was found stale is written; the rest is left alone.
Downgraded_StaleOnly(p, units, verdicts, stale) ==
    [r \in Row |-> IF r \in DOMAIN stale THEN stale[r] ELSE verdicts[r]]

\* An incomplete inspection's write: every verdict of the profile's present
\* units is lowered, then the stale ones it detected are recorded.
Downgraded(p, units, verdicts, stale) ==
    [r \in Row |->
        IF r \in DOMAIN stale THEN stale[r]
        ELSE IF verdicts[r] # NoVerdict /\ r \in RowsOf(units, p.profile)
        THEN Lowered(verdicts[r]) ELSE verdicts[r]]

----------------------------------------------------------------------------
Init ==
    /\ disk \in [File -> Content]
    /\ lock = NoProc
    /\ gen = [q \in Profile |-> 0]
    /\ unit = [r \in Row |-> NoUnit]
    /\ verdict = [r \in Row |-> NoVerdict]
    /\ pc = [i \in Process |-> "idle"]
    /\ plan = [i \in Process |-> NoPlan]
    /\ first = [i \in Process |-> NoProbe]
    /\ second = [i \in Process |-> NoProbe]
    /\ cause = [i \in Process |-> "complete"]
    /\ report = [i \in Process |-> NoReport]
    /\ held = [f \in File |-> {}]

Lock(p) ==
    /\ lock = NoProc
    /\ lock' = p
    /\ held' = [f \in File |-> {disk[f]}]

Unlock ==
    /\ lock' = NoProc
    /\ held' = [f \in File |-> {}]

\* Inspection i leaves its present state for another and touches nothing else
\* of itself.
Goto(i, label) ==
    /\ pc' = [pc EXCEPT ![i] = label]
    /\ UNCHANGED <<plan, first, second, cause, report>>

Incomplete(i, why) ==
    /\ pc' = [pc EXCEPT ![i] = "incomplete"]
    /\ cause' = [cause EXCEPT ![i] = why]
    /\ UNCHANGED <<plan, first, second, report>>

\* Inspection i returns, leaving only its report behind.
Return(i, outcome, published, downgraded, units) ==
    /\ report' = [report EXCEPT ![i] =
            [outcome |-> outcome, published |-> published,
             downgraded |-> downgraded, units |-> units]]
    /\ pc' = [pc EXCEPT ![i] = "idle"]
    /\ plan' = [plan EXCEPT ![i] = NoPlan]
    /\ first' = [first EXCEPT ![i] = NoProbe]
    /\ second' = [second EXCEPT ![i] = NoProbe]
    /\ cause' = [cause EXCEPT ![i] = "complete"]

----------------------------------------------------------------------------
\* The world around an inspection.

Edit(f, c) ==
    /\ disk[f] # c
    /\ disk' = [disk EXCEPT ![f] = c]
    /\ held' = IF lock = NoProc THEN held
               ELSE [held EXCEPT ![f] = @ \cup {c}]
    /\ UNCHANGED <<lock, gen, unit, verdict, inspection>>

PublisherLocks ==
    /\ Lock(Publisher)
    /\ UNCHANGED <<disk, gen, unit, verdict, inspection>>

PublisherUnlocks ==
    /\ lock = Publisher
    /\ Unlock
    /\ UNCHANGED <<disk, gen, unit, verdict, inspection>>

\* The slot's unit row goes, and its verdict with it (ON DELETE CASCADE).
Without(table, q, s, none) ==
    [r \in Row |-> IF unit[r] # NoUnit /\ unit[r].profile = q /\ unit[r].slot = s
                   THEN none ELSE table[r]]

RoomForPublication == FoldFunction(+, 0, gen) < MaxGen

\* Mutant: the verdict of the replaced unit stays behind with its row id.
Install_VerdictStays(q, s, inputs, verified) ==
    LET left == Without(unit, q, s, NoUnit)
    IN  /\ lock = Publisher
        /\ RoomForPublication
        /\ unit' = [left EXCEPT ![NextRow(left)] =
                      [profile |-> q, slot |-> s, inputs |-> inputs,
                       verified |-> verified]]
        /\ gen' = [gen EXCEPT ![q] = @ + 1]
        /\ UNCHANGED <<disk, lock, verdict, inspection, held>>

\* A committed publication of one contribution. The callers of the store
\* publish several in one batch: for a verdict what counts is which rows the
\* batch leaves, and any of those arises here one generation at a time.
Install(q, s, inputs, verified) ==
    LET left == Without(unit, q, s, NoUnit)
    IN  /\ lock = Publisher
        /\ RoomForPublication
        /\ unit' = [left EXCEPT ![NextRow(left)] =
                      [profile |-> q, slot |-> s, inputs |-> inputs,
                       verified |-> verified]]
        /\ verdict' = Without(verdict, q, s, NoVerdict)
        /\ gen' = [gen EXCEPT ![q] = @ + 1]
        /\ UNCHANGED <<disk, lock, inspection, held>>

Retire(q, s) ==
    /\ lock = Publisher
    /\ RoomForPublication
    /\ \E r \in RowsOf(unit, q) : unit[r].slot = s
    /\ unit' = Without(unit, q, s, NoUnit)
    /\ verdict' = Without(verdict, q, s, NoVerdict)
    /\ gen' = [gen EXCEPT ![q] = @ + 1]
    /\ UNCHANGED <<disk, lock, inspection, held>>

----------------------------------------------------------------------------
\* The common part of both inspections: the plan and the two passes.

Load(i, q) ==
    /\ pc[i] = "idle"
    /\ pc' = [pc EXCEPT ![i] = "first"]
    /\ plan' = [plan EXCEPT ![i] =
            [profile |-> q, gen |-> gen[q], rows |-> Snapshot(q)]]
    /\ report' = [report EXCEPT ![i] = NoReport]
    /\ UNCHANGED <<disk, lock, gen, unit, verdict, first, second, cause, held>>

Unprobed(i, probe) == Distinct(plan[i]) \ DOMAIN probe

\* probe_file of one input; the order of the files does not matter.
ProbeFirst(i, f) ==
    /\ pc[i] = "first"
    /\ f \in Unprobed(i, first[i])
    /\ first' = [first EXCEPT ![i] =
            [g \in DOMAIN @ \cup {f} |-> IF g = f THEN disk[f] ELSE @[g]]]
    /\ UNCHANGED <<disk, lock, gen, unit, verdict, pc, plan, second, cause,
                   report, held>>

ProbeSecond(i, f) ==
    /\ pc[i] = "second"
    /\ f \in Unprobed(i, second[i])
    /\ second' = [second EXCEPT ![i] =
            [g \in DOMAIN @ \cup {f} |-> IF g = f THEN disk[f] ELSE @[g]]]
    /\ UNCHANGED <<disk, lock, gen, unit, verdict, pc, plan, first, cause,
                   report, held>>

\* The deadline has passed where the code looks: on entry, at every file of
\* a pass, and after both.
AtDeadlineCheck(i) ==
    \/ pc[i] = "first" /\ (first[i] = NoProbe \/ Unprobed(i, first[i]) # {})
    \/ pc[i] = "second" /\ Unprobed(i, second[i]) # {}
    \/ pc[i] \in {"concluding", "checked"}

\* An exception (a store error, a lost file) or the death of the process: the
\* lock is given back and nothing is persisted.
Abort(i) ==
    /\ pc[i] # "idle"
    /\ pc' = [pc EXCEPT ![i] = "idle"]
    /\ plan' = [plan EXCEPT ![i] = NoPlan]
    /\ first' = [first EXCEPT ![i] = NoProbe]
    /\ second' = [second EXCEPT ![i] = NoProbe]
    /\ cause' = [cause EXCEPT ![i] = "complete"]
    /\ IF lock = i THEN Unlock ELSE UNCHANGED <<lock, held>>
    /\ UNCHANGED <<disk, gen, unit, verdict, report>>

----------------------------------------------------------------------------
\* Store::inspect_freshness.

FirstPassDone(i) ==
    /\ pc[i] = "first"
    /\ Unprobed(i, first[i]) = {}
    /\ Goto(i, "locking")
    /\ UNCHANGED <<disk, lock, gen, unit, verdict, held>>

BudgetEnds(i) ==
    /\ AtDeadlineCheck(i)
    /\ Incomplete(i, "budget_exhausted")
    /\ UNCHANGED <<disk, lock, gen, unit, verdict, held>>

TakeLock(i) ==
    /\ pc[i] = "locking"
    /\ Lock(i)
    /\ Goto(i, "locked")
    /\ UNCHANGED <<disk, gen, unit, verdict>>

\* Mutant: the lock is waited for without a limit.
LockBusy_Waits(i) ==
    /\ pc[i] = "locking"
    /\ lock \notin {NoProc, Publisher}
    /\ Incomplete(i, "lock_busy")
    /\ UNCHANGED <<disk, lock, gen, unit, verdict, held>>

\* The last poll within the wait still finds the lock taken.
LockBusy(i) ==
    /\ pc[i] = "locking"
    /\ lock # NoProc
    /\ Incomplete(i, "lock_busy")
    /\ UNCHANGED <<disk, lock, gen, unit, verdict, held>>

CheckGeneration(i) ==
    /\ pc[i] = "locked"
    /\ IF gen[plan[i].profile] = plan[i].gen
       THEN Goto(i, "second")
       ELSE Incomplete(i, "generation_changed")
    /\ UNCHANGED <<disk, lock, gen, unit, verdict, held>>

SecondPassDone(i) ==
    /\ pc[i] = "second"
    /\ Unprobed(i, second[i]) = {}
    /\ Goto(i, "concluding")
    /\ UNCHANGED <<disk, lock, gen, unit, verdict, held>>

\* Mutant: the second pass is concluded from the first.
Persist_FirstPassOnly(i) ==
    LET units == Conclude(plan[i], first[i], first[i], FALSE)
    IN  /\ pc[i] = "concluding"
        /\ verdict' = [r \in Row |-> IF units[r] = NoVerdict THEN verdict[r]
                                     ELSE units[r]]
        /\ Unlock
        /\ Return(i, "complete", TRUE, FALSE, units)
        /\ UNCHANGED <<disk, gen, unit>>

\* The transaction that writes every unit's verdict; the lock goes with the
\* return.
Persist(i) ==
    LET units == Conclude(plan[i], first[i], second[i], FALSE)
    IN  /\ pc[i] = "concluding"
        /\ verdict' = [r \in Row |-> IF units[r] = NoVerdict THEN verdict[r]
                                     ELSE units[r]]
        /\ Unlock
        /\ Return(i, "complete", TRUE, FALSE, units)
        /\ UNCHANGED <<disk, gen, unit>>

\* An inspection that has not got the lock yet tries once.
IncompleteTakesLock(i) ==
    /\ pc[i] = "incomplete"
    /\ Lock(i)
    /\ UNCHANGED <<disk, gen, unit, verdict, inspection>>

IncompleteBusy(i) ==
    /\ pc[i] = "incomplete"
    /\ lock \notin {NoProc, i}
    /\ Return(i, cause[i], FALSE, FALSE,
              Conclude(plan[i], first[i], NoProbe, TRUE))
    /\ UNCHANGED <<disk, lock, gen, unit, verdict, held>>

\* Mutant: stale verdicts are recorded whatever was published meanwhile.
IncompletePersist_AnyGeneration(i) ==
    LET units == Conclude(plan[i], first[i], NoProbe, TRUE)
        stale == [r \in {t \in Row : units[t] # NoVerdict
                                     /\ units[t].semantic = "stale"
                                     /\ unit[t] # NoUnit} |-> units[r]]
    IN  /\ pc[i] = "incomplete"
        /\ lock = i
        /\ verdict' = Downgraded(plan[i], unit, verdict, stale)
        /\ Unlock
        /\ Return(i, cause[i], FALSE, TRUE, units)
        /\ UNCHANGED <<disk, gen, unit>>

\* Nothing older is left looking verified; what is stale is recorded as long
\* as the plan's rows are still the profile's.
IncompletePersist(i) ==
    LET units == Conclude(plan[i], first[i], NoProbe, TRUE)
        current == gen[plan[i].profile] = plan[i].gen
        stale == [r \in {t \in Row : current /\ units[t] # NoVerdict
                                     /\ units[t].semantic = "stale"}
                     |-> units[r]]
    IN  /\ pc[i] = "incomplete"
        /\ lock = i
        /\ verdict' = Downgraded(plan[i], unit, verdict, stale)
        /\ Unlock
        /\ Return(i, cause[i], FALSE, TRUE, units)
        /\ UNCHANGED <<disk, gen, unit>>

----------------------------------------------------------------------------
\* ReadOnlyStore::inspect_freshness: no lock, nothing persisted, and the
\* generation compared after both passes, in a second snapshot.

ReadFirstPassDone(i) ==
    /\ pc[i] = "first"
    /\ Unprobed(i, first[i]) = {}
    /\ Goto(i, "second")
    /\ UNCHANGED <<disk, lock, gen, unit, verdict, held>>

ReadBudgetEnds(i) ==
    /\ AtDeadlineCheck(i)
    /\ Return(i, "budget_exhausted", FALSE, FALSE,
              Conclude(plan[i], first[i], NoProbe, TRUE))
    /\ UNCHANGED <<disk, lock, gen, unit, verdict, held>>

\* Mutant: no second look at the generation.
ReadCheckGeneration_Skipped(i) ==
    /\ pc[i] = "second"
    /\ Unprobed(i, second[i]) = {}
    /\ Goto(i, "checked")
    /\ UNCHANGED <<disk, lock, gen, unit, verdict, held>>

ReadCheckGeneration(i) ==
    /\ pc[i] = "second"
    /\ Unprobed(i, second[i]) = {}
    /\ IF gen[plan[i].profile] = plan[i].gen
       THEN Goto(i, "checked")
       ELSE Return(i, "generation_changed", FALSE, FALSE,
                   Conclude(plan[i], first[i], NoProbe, TRUE))
    /\ UNCHANGED <<disk, lock, gen, unit, verdict, held>>

ReadComplete(i) ==
    /\ pc[i] = "checked"
    /\ Return(i, "complete", FALSE, FALSE,
              Conclude(plan[i], first[i], second[i], FALSE))
    /\ UNCHANGED <<disk, lock, gen, unit, verdict, held>>

----------------------------------------------------------------------------
Passes(i) == \E f \in File : ProbeFirst(i, f) \/ ProbeSecond(i, f)

\* One step of an inspection through a Store.
Inspect(i) ==
    \/ Passes(i)
    \/ FirstPassDone(i)
    \/ BudgetEnds(i)
    \/ TakeLock(i)
    \/ LockBusy(i)
    \/ CheckGeneration(i)
    \/ SecondPassDone(i)
    \/ Persist(i)
    \/ IncompleteTakesLock(i)
    \/ IncompleteBusy(i)
    \/ IncompletePersist(i)

\* One step of an inspection through a ReadOnlyStore.
ReadInspect(i) ==
    \/ Passes(i)
    \/ ReadFirstPassDone(i)
    \/ ReadBudgetEnds(i)
    \/ ReadCheckGeneration(i)
    \/ ReadComplete(i)

World ==
    \/ \E f \in File, c \in Content \cup {Absent} : Edit(f, c)
    \/ PublisherLocks
    \/ PublisherUnlocks
    \/ \E q \in Profile, s \in Slot :
          \/ Retire(q, s)
          \/ \E inputs \in Inputs, verified \in BOOLEAN :
                Install(q, s, inputs, verified)

Next ==
    \/ World
    \/ \E i \in Process, q \in Profile : Load(i, q)
    \/ \E i \in Inspector : Inspect(i)
    \/ \E i \in ReadOnly : ReadInspect(i)
    \/ \E i \in Process : Abort(i)

Spec == Init /\ [][Next]_vars

\* An inspection that has begun runs on until it returns, without having to
\* fail; nothing obliges anybody to give the lock back, to stop editing or to
\* stop publishing.
FairSpec ==
    /\ Spec
    /\ \A i \in Inspector : WF_vars(Inspect(i))
    /\ \A i \in ReadOnly : WF_vars(ReadInspect(i))

----------------------------------------------------------------------------
\* Properties.

\* Every variable keeps its type.
TypeOK ==
    /\ disk \in [File -> Content \cup {Absent}]
    /\ lock \in Inspector \cup {Publisher, NoProc}
    /\ gen \in [Profile -> Nat]
    /\ unit \in [Row -> Unit \cup {NoUnit}]
    /\ verdict \in [Row -> Verdict \cup {NoVerdict}]
    /\ pc \in [Process -> {"idle", "first", "locking", "locked", "second",
                           "concluding", "checked", "incomplete"}]
    /\ plan \in [Process -> Plan \cup {NoPlan}]
    /\ first \in [Process -> Probe]
    /\ second \in [Process -> Probe]
    /\ cause \in [Process -> InspectionOutcome]
    /\ report \in [Process -> Report \cup {NoReport}]
    /\ held \in [File -> SUBSET (Content \cup {Absent})]

IsFresh(v) == v # NoVerdict /\ v.semantic = "fresh"
IsStale(v) == v # NoVerdict /\ v.semantic = "stale"

\* The verdict table and the unit table agree: a verdict is a live unit's,
\* and a unit is called fresh only with its compile context fresh and its
\* build action verified by the caller.
VerdictsAreOfLiveUnits ==
    \A r \in Row : verdict[r] # NoVerdict =>
        /\ unit[r] # NoUnit
        /\ "fresh" \in {verdict[r].semantic, verdict[r].context} =>
              unit[r].verified
        /\ verdict[r].semantic = "fresh" => verdict[r].context = "fresh"

\* A unit is persisted fresh only if its build action was verified, and each
\* input that unit itself records was on the disk, as recorded, at a moment
\* when the writer lock was already held: whatever was edited or published
\* between the snapshot, the first pass and the lock, and whichever row the
\* id belonged to when the inspection planned.
FreshIsWitnessed ==
    [][\A r \in Row : IsFresh(verdict'[r]) /\ verdict'[r] # verdict[r] =>
          /\ unit'[r] # NoUnit
          /\ unit'[r].verified
          /\ \A f \in InputsOf(unit'[r]) : unit'[r].inputs[f] \in held[f]
      ]_vars

\* A unit is persisted stale only on evidence about its own inputs: the
\* inspection hashed one of them and found it changed.
StaleIsWitnessed ==
    [][\A r \in Row : IsStale(verdict'[r]) /\ ~IsStale(verdict[r]) =>
          \E i \in Inspector, f \in File :
             /\ lock = i
             /\ f \in InputsOf(unit'[r]) \cap DOMAIN first[i]
             /\ \/ first[i][f] # unit'[r].inputs[f]
                \/ f \in DOMAIN second[i] /\ second[i][f] # first[i][f]
      ]_vars

\* "An inspection that does not complete never leaves an older verification
\* looking current" (store.cpp:1972): one that returns incomplete and could
\* write leaves no unit of the profile fresh, not even one published and
\* verified by others meanwhile; one that could not write changes nothing.
IncompleteLeavesNothingFresh ==
    [][\A i \in Inspector :
          report'[i] # report[i] /\ report'[i] # NoReport =>
             \/ report'[i].published
             \/ /\ report'[i].downgraded
                /\ \A r \in RowsOf(unit', plan[i].profile) :
                      verdict'[r] = NoVerdict
                      \/ "fresh" \notin {verdict'[r].semantic,
                                         verdict'[r].context}
             \/ ~report'[i].downgraded /\ UNCHANGED verdict
      ]_vars

\* An inspection is complete only if the units it planned are, when it
\* decides so, still the profile's units, row for row: under the lock for a
\* store, in the second snapshot for a read-only store, which decides one
\* step before it returns.
CompleteMeansCurrent ==
    [][\A i \in Process :
          \/ i \in Inspector /\ report'[i] # report[i]
             /\ report'[i] # NoReport /\ report'[i].published
          \/ i \in ReadOnly /\ pc[i] = "second" /\ pc'[i] = "checked"
          => plan[i].rows = Snapshot(plan[i].profile)
      ]_vars

\* Inspections do not lock each other or publishers out for ever, and a busy
\* lock never hangs one: whoever holds it, each inspection returns.
InspectionEnds ==
    \A i \in Inspector : pc[i] # "idle" ~> pc[i] = "idle"
=============================================================================
