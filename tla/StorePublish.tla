---------------------------- MODULE StorePublish ----------------------------
(***************************************************************************)
(* The write side of the fact store (src/lcm/store/store.cpp): the         *)
(* advisory writer lock and the recovery its acquisition performs, the     *)
(* attempt log, and publication of a batch as                              *)
(*                                                                         *)
(*   validate, record the attempt durably, BEGIN IMMEDIATE, remove the old *)
(*   units, insert the new ones, advance the generation and finish the     *)
(*   attempt, COMMIT                                                       *)
(*                                                                         *)
(* with a failure possible at every SQL step, a crash possible between any *)
(* two steps, and readers that pin the committed state they were opened    *)
(* on. A short transaction (BEGIN .. COMMIT of bookkeeping rows only) is   *)
(* one step: nobody sees its inside, and dying inside it leaves nothing.   *)
(***************************************************************************)
EXTENDS Integers, Sequences, FiniteSets

CONSTANTS Proc,         \* writing processes, each with its own Store
          Reader,       \* read connections
          Profile, Slot, Label, Facts,
          Batches,      \* the batches callers publish
          Wal,          \* TRUE: WAL journal, FALSE: rollback journal
          MaxAttempts,  \* bound: attempts ever recorded
          NoProc, NoUnit, NoTx, NoSnap, NoOp, NoResult

VARIABLES lock,    \* the process that holds the writer lock, or NoProc
          pc,      \* where each process is
          op,      \* the publication each process is performing, or NoOp
          result,  \* what publish() last returned to the process, or NoResult
          db,      \* the committed database
          tx,      \* the open write transaction, or NoTx
          snap,    \* the state each read connection is pinned to, or NoSnap
          mark     \* history: attempts recorded when the holder recovered

vars == <<lock, pc, op, result, db, tx, snap, mark>>

----------------------------------------------------------------------------
Kind == {"absent", "cpp", "unreal"}

Layer == {"semantic_graph", "retrieval", "deep"}

AttemptState == {"in_progress", "succeeded", "failed", "interrupted"}

Action == {"none", "install", "retire", "rejected"}

PublishOutcome == {"committed", "no_op", "rejected", "failed"}

\* A contribution, reduced to what publication tells apart.
Entry == [slot : Slot, label : Label, facts : Facts]

\* install stands for Batch::install followed by the spooled entries;
\* wellFormed for the checks on a contribution's own data
\* (validate_contribution, empty slots, unknown spool entries).
Batch == [profile : Profile, install : Seq(Entry), retire : Seq(Slot),
          wellFormed : BOOLEAN]

Unit == [label : Label, facts : Facts, gen : Nat, attempt : Nat]

AttemptRow == [profile : Profile, layer : Layer, state : AttemptState,
               slots : [Slot -> Action], finished : BOOLEAN]

\* An attempt in progress, or found dead by recovery, has no completion time.
Attempt ==
    {a \in AttemptRow : a.finished <=> a.state \in {"succeeded", "failed"}}

Database == [kind : [Profile -> Kind], gen : [Profile -> Nat],
             units : [Profile -> [Slot -> Unit \cup {NoUnit}]],
             attempts : Seq(Attempt)]

Operation == [batch : Batches, base : Nat, attempt : Nat, next : Nat]

Result == [outcome : PublishOutcome, profile : Profile, gen : Nat,
           attempt : Nat]

Transaction == [owner : Proc, db : Database]

\* What the contract shows of a database.
View == [kind : [Profile -> Kind], gen : [Profile -> Nat],
         content : [Profile -> [Slot -> [label : Label, facts : Facts]
                                        \cup {NoUnit}]]]

ASSUME ParametersAssumption ==
    /\ Batches \subseteq Batch
    /\ Wal \in BOOLEAN
    /\ MaxAttempts \in Nat

ASSUME AbsentValuesAssumption ==
    /\ NoProc \notin Proc
    /\ NoUnit \notin Unit
    /\ NoUnit \notin [label : Label, facts : Facts]
    /\ NoTx \notin Transaction
    /\ NoSnap \notin Database
    /\ NoSnap \notin View
    /\ NoOp \notin Operation
    /\ NoResult \notin Result

----------------------------------------------------------------------------
\* What publish() derives from a batch and from the committed units.

InstallSlots(b) == {b.install[i].slot : i \in DOMAIN b.install}

RetireSlots(b) == {b.retire[i] : i \in DOMAIN b.retire}

BatchSlots(b) == InstallSlots(b) \cup RetireSlots(b)

\* validate_batch: a slot at most once, a label for one slot.
ValidBatch(b) ==
    /\ b.wellFormed
    /\ \A i, j \in DOMAIN b.install :
          i # j => /\ b.install[i].slot # b.install[j].slot
                   /\ b.install[i].label # b.install[j].label
    /\ \A i, j \in DOMAIN b.retire : i # j => b.retire[i] # b.retire[j]
    /\ InstallSlots(b) \cap RetireSlots(b) = {}

\* A label to install is owned by a live slot the batch does not touch.
LabelConflict(units, b) ==
    \E i \in DOMAIN b.install, s \in Slot \ BatchSlots(b) :
        units[s] # NoUnit /\ units[s].label = b.install[i].label

Accepted(d, b) ==
    ValidBatch(b) /\ ~LabelConflict(d.units[b.profile], b)

NothingToDo(d, b) ==
    /\ b.install = <<>>
    /\ \A s \in RetireSlots(b) : d.units[b.profile][s] = NoUnit

BatchActions(b) ==
    [s \in Slot |-> IF s \in InstallSlots(b) THEN "install"
                    ELSE IF s \in RetireSlots(b) THEN "retire" ELSE "none"]

RejectedActions(slots) ==
    [s \in Slot |-> IF s \in slots THEN "rejected" ELSE "none"]

\* record_attempt: every state but in_progress has a completion time.
NewAttempt(q, layer, state, slots) ==
    [profile |-> q, layer |-> layer, state |-> state, slots |-> slots,
     finished |-> state # "in_progress"]

WithAttempt(d, a) == [d EXCEPT !.attempts = Append(@, a)]

\* finish_attempt
Finished(a, state) == [a EXCEPT !.state = state, !.finished = TRUE]

WithFinished(d, i, state) ==
    [d EXCEPT !.attempts[i] = Finished(@, state)]

InProgress(d) ==
    {i \in DOMAIN d.attempts : d.attempts[i].state = "in_progress"}

\* recover_interrupted: no completion time is made up.
Interrupted(a) ==
    IF a.state = "in_progress" THEN [a EXCEPT !.state = "interrupted"] ELSE a

\* Mutant: recovery looks at the newest attempt only.
WithRecovered_NewestOnly(d) ==
    [d EXCEPT !.attempts = [i \in DOMAIN @ |->
        IF i = Len(@) THEN Interrupted(@[i]) ELSE @[i]]]

WithRecovered(d) ==
    [d EXCEPT !.attempts = [i \in DOMAIN @ |-> Interrupted(@[i])]]

\* Mutant: retired slots are left in place.
WithRemoved_InstallsOnly(d, b) ==
    [d EXCEPT !.units[b.profile] =
        [s \in Slot |-> IF s \in InstallSlots(b) THEN NoUnit ELSE @[s]]]

\* remove_unit of every slot of the batch, installs before retires.
WithRemoved(d, b) ==
    [d EXCEPT !.units[b.profile] =
        [s \in Slot |-> IF s \in BatchSlots(b) THEN NoUnit ELSE @[s]]]

\* insert_unit refuses a label that is live; UNIQUE(profile_id, slot)
\* refuses a slot that is.
Collides(units, e) ==
    \/ units[e.slot] # NoUnit
    \/ \E s \in Slot : units[s] # NoUnit /\ units[s].label = e.label

NewUnit(e, generation, attempt) ==
    [label |-> e.label, facts |-> e.facts, gen |-> generation,
     attempt |-> attempt]

WithUnit(d, q, e, u) == [d EXCEPT !.units[q][e.slot] = u]

----------------------------------------------------------------------------
EmptyDatabase ==
    [kind |-> [q \in Profile |-> "absent"],
     gen |-> [q \in Profile |-> 0],
     units |-> [q \in Profile |-> [s \in Slot |-> NoUnit]],
     attempts |-> <<>>]

Init ==
    /\ lock = NoProc
    /\ pc = [p \in Proc |-> "idle"]
    /\ op = [p \in Proc |-> NoOp]
    /\ result = [p \in Proc |-> NoResult]
    /\ db = EmptyDatabase
    /\ tx = NoTx
    /\ snap = [r \in Reader |-> NoSnap]
    /\ mark = 0

\* A rollback-journal commit must exclude every reader; a WAL commit none.
CanCommit == Wal \/ \A r \in Reader : snap[r] = NoSnap

\* A short write transaction or an autocommitted statement succeeds.
CanWrite == tx = NoTx /\ CanCommit

\* The open transaction once process p has rolled back its own.
Abandoned(p) == IF tx # NoTx /\ tx.owner = p THEN NoTx ELSE tx

RoomForAttempt == Len(db.attempts) < MaxAttempts

Return(p, outcome, q, generation, attempt) ==
    result' = [result EXCEPT ![p] = [outcome |-> outcome, profile |-> q,
                                     gen |-> generation, attempt |-> attempt]]

----------------------------------------------------------------------------
\* The writer lock.

\* Mutant: the lock is not exclusive.
Acquire_NotExclusive(p) ==
    /\ pc[p] = "idle"
    /\ lock' = p
    /\ pc' = [pc EXCEPT ![p] = "recovering"]
    /\ UNCHANGED <<op, result, db, tx, snap, mark>>

\* One successful try_lock_file. A waiter polls; giving up changes nothing.
Acquire(p) ==
    /\ pc[p] = "idle"
    /\ lock = NoProc
    /\ lock' = p
    /\ pc' = [pc EXCEPT ![p] = "recovering"]
    /\ UNCHANGED <<op, result, db, tx, snap, mark>>

\* Attempts still in progress belong to writers that died. With none, the
\* database is not written.
Recover(p) ==
    /\ pc[p] = "recovering"
    /\ InProgress(db) # {} => CanWrite
    /\ db' = WithRecovered(db)
    /\ mark' = Len(db.attempts)
    /\ pc' = [pc EXCEPT ![p] = "holding"]
    /\ UNCHANGED <<lock, op, result, tx, snap>>

\* An exception out of recovery gives the lock back.
RecoverFails(p) ==
    /\ pc[p] = "recovering"
    /\ lock' = NoProc
    /\ pc' = [pc EXCEPT ![p] = "idle"]
    /\ UNCHANGED <<op, result, db, tx, snap, mark>>

Release(p) ==
    /\ pc[p] = "holding"
    /\ lock' = NoProc
    /\ pc' = [pc EXCEPT ![p] = "idle"]
    /\ result' = [result EXCEPT ![p] = NoResult]
    /\ UNCHANGED <<op, db, tx, snap, mark>>

\* The process dies: the system drops its lock and its transaction.
Crash(p) ==
    /\ pc[p] # "idle"
    /\ lock' = IF lock = p THEN NoProc ELSE lock
    /\ tx' = Abandoned(p)
    /\ pc' = [pc EXCEPT ![p] = "idle"]
    /\ op' = [op EXCEPT ![p] = NoOp]
    /\ result' = [result EXCEPT ![p] = NoResult]
    /\ UNCHANGED <<db, snap, mark>>

----------------------------------------------------------------------------
\* Operations of a lock holder, each in one short transaction.

\* Mutant: an existing profile takes the kind asked for.
EnsureProfile_Overwrites(p, q, k) ==
    /\ pc[p] = "holding"
    /\ CanWrite
    /\ db' = [db EXCEPT !.kind[q] = k]
    /\ UNCHANGED <<lock, pc, op, result, tx, snap, mark>>

\* An existing profile is left alone: same kind returns, another throws.
EnsureProfile(p, q, k) ==
    /\ pc[p] = "holding"
    /\ db.kind[q] = "absent"
    /\ CanWrite
    /\ db' = [db EXCEPT !.kind[q] = k]
    /\ UNCHANGED <<lock, pc, op, result, tx, snap, mark>>

RecordRejected(p, q, slots) ==
    /\ pc[p] = "holding"
    /\ db.kind[q] # "absent"
    /\ CanWrite
    /\ RoomForAttempt
    /\ db' = WithAttempt(db, NewAttempt(q, "semantic_graph", "failed",
                                        RejectedActions(slots)))
    /\ UNCHANGED <<lock, pc, op, result, tx, snap, mark>>

RecordAuxiliaryFailure(p, q, layer) ==
    /\ pc[p] = "holding"
    /\ db.kind[q] # "absent"
    /\ CanWrite
    /\ RoomForAttempt
    /\ db' = WithAttempt(db, NewAttempt(q, layer, "failed",
                                        RejectedActions({})))
    /\ UNCHANGED <<lock, pc, op, result, tx, snap, mark>>

----------------------------------------------------------------------------
\* publish(), from its entry to the durable attempt.

PublishRejected(p, b) ==
    /\ pc[p] = "holding"
    /\ db.kind[b.profile] # "absent"
    /\ ~Accepted(db, b)
    /\ CanWrite
    /\ RoomForAttempt
    /\ db' = WithAttempt(db, NewAttempt(b.profile, "semantic_graph", "failed",
                                        RejectedActions(BatchSlots(b))))
    /\ Return(p, "rejected", b.profile, db.gen[b.profile],
              Len(db.attempts) + 1)
    /\ UNCHANGED <<lock, pc, op, tx, snap, mark>>

PublishNoOp(p, b) ==
    /\ pc[p] = "holding"
    /\ db.kind[b.profile] # "absent"
    /\ Accepted(db, b)
    /\ NothingToDo(db, b)
    /\ Return(p, "no_op", b.profile, db.gen[b.profile], 0)
    /\ UNCHANGED <<lock, pc, op, db, tx, snap, mark>>

\* A batch that will be attempted.
Attemptable(p, b) ==
    /\ pc[p] = "holding"
    /\ db.kind[b.profile] # "absent"
    /\ Accepted(db, b)
    /\ ~NothingToDo(db, b)

PublishRecord(p, b) ==
    /\ Attemptable(p, b)
    /\ CanWrite
    /\ RoomForAttempt
    /\ db' = WithAttempt(db, NewAttempt(b.profile, "semantic_graph",
                                        "in_progress", BatchActions(b)))
    /\ op' = [op EXCEPT ![p] = [batch |-> b, base |-> db.gen[b.profile],
                                attempt |-> Len(db.attempts) + 1,
                                next |-> 1]]
    /\ pc' = [pc EXCEPT ![p] = "recorded"]
    /\ result' = [result EXCEPT ![p] = NoResult]
    /\ UNCHANGED <<lock, tx, snap, mark>>

\* Recording fails: publish returns failed and nothing was written.
PublishRecordFails(p, b) ==
    /\ Attemptable(p, b)
    /\ Return(p, "failed", b.profile, db.gen[b.profile], 0)
    /\ UNCHANGED <<lock, pc, op, db, tx, snap, mark>>

----------------------------------------------------------------------------
\* publish(), the transaction that replaces the units.

\* BEGIN IMMEDIATE, then remove_unit of every slot the batch names.
RemoveOld(p) ==
    /\ pc[p] = "recorded"
    /\ tx = NoTx
    /\ tx' = [owner |-> p, db |-> WithRemoved(db, op[p].batch)]
    /\ pc' = [pc EXCEPT ![p] = "replacing"]
    /\ UNCHANGED <<lock, op, result, db, snap, mark>>

\* Mutant: a unit is stamped with the generation it replaces.
InsertUnit_OldGeneration(p) ==
    LET o == op[p]
        q == o.batch.profile
        e == o.batch.install[o.next]
    IN  /\ pc[p] = "replacing"
        /\ o.next <= Len(o.batch.install)
        /\ ~Collides(tx.db.units[q], e)
        /\ tx' = [tx EXCEPT !.db =
                    WithUnit(@, q, e, NewUnit(e, o.base, o.attempt))]
        /\ op' = [op EXCEPT ![p].next = @ + 1]
        /\ UNCHANGED <<lock, pc, result, db, snap, mark>>

\* insert_unit of the next contribution.
InsertUnit(p) ==
    LET o == op[p]
        q == o.batch.profile
        e == o.batch.install[o.next]
    IN  /\ pc[p] = "replacing"
        /\ o.next <= Len(o.batch.install)
        /\ ~Collides(tx.db.units[q], e)
        /\ tx' = [tx EXCEPT !.db =
                    WithUnit(@, q, e, NewUnit(e, o.base + 1, o.attempt))]
        /\ op' = [op EXCEPT ![p].next = @ + 1]
        /\ UNCHANGED <<lock, pc, result, db, snap, mark>>

\* Mutant: the last contribution is skipped.
FinishReplacement_OneShort(p) ==
    LET o == op[p]
    IN  /\ pc[p] = "replacing"
        /\ o.next >= Len(o.batch.install)
        /\ tx' = [tx EXCEPT !.db =
                    WithFinished([@ EXCEPT !.gen[o.batch.profile] = o.base + 1],
                                 o.attempt, "succeeded")]
        /\ pc' = [pc EXCEPT ![p] = "finished"]
        /\ UNCHANGED <<lock, op, result, db, snap, mark>>

\* Mutant: retiring alone does not advance the generation.
FinishReplacement_RetireKeepsGeneration(p) ==
    LET o == op[p]
        next == IF o.batch.install = <<>> THEN o.base ELSE o.base + 1
    IN  /\ pc[p] = "replacing"
        /\ o.next > Len(o.batch.install)
        /\ tx' = [tx EXCEPT !.db =
                    WithFinished([@ EXCEPT !.gen[o.batch.profile] = next],
                                 o.attempt, "succeeded")]
        /\ pc' = [pc EXCEPT ![p] = "finished"]
        /\ UNCHANGED <<lock, op, result, db, snap, mark>>

\* The generation and the attempt change inside the transaction.
FinishReplacement(p) ==
    LET o == op[p]
    IN  /\ pc[p] = "replacing"
        /\ o.next > Len(o.batch.install)
        /\ tx' = [tx EXCEPT !.db =
                    WithFinished([@ EXCEPT !.gen[o.batch.profile] = o.base + 1],
                                 o.attempt, "succeeded")]
        /\ pc' = [pc EXCEPT ![p] = "finished"]
        /\ UNCHANGED <<lock, op, result, db, snap, mark>>

Commit(p) ==
    LET o == op[p]
    IN  /\ pc[p] = "finished"
        /\ CanCommit
        /\ db' = tx.db
        /\ tx' = NoTx
        /\ Return(p, "committed", o.batch.profile, o.base + 1, o.attempt)
        /\ op' = [op EXCEPT ![p] = NoOp]
        /\ pc' = [pc EXCEPT ![p] = "holding"]
        /\ UNCHANGED <<lock, snap, mark>>

\* Mutant: a commit kept busy is waited for without a timeout.
Fail_NotAtCommit(p) ==
    /\ pc[p] \in {"recorded", "replacing"}
    /\ tx' = Abandoned(p)
    /\ pc' = [pc EXCEPT ![p] = "failing"]
    /\ UNCHANGED <<lock, op, result, db, snap, mark>>

\* An exception at any point (a refused insertion, a spool entry that does
\* not load, a full disk, a commit kept busy by readers) rolls back.
Fail(p) ==
    /\ pc[p] \in {"recorded", "replacing", "finished"}
    /\ tx' = Abandoned(p)
    /\ pc' = [pc EXCEPT ![p] = "failing"]
    /\ UNCHANGED <<lock, op, result, db, snap, mark>>

\* Mutant: a failed publication reports the generation it aimed at.
ReturnFailed_NextGeneration(p) ==
    LET o == op[p]
    IN  /\ pc[p] = "failing"
        /\ Return(p, "failed", o.batch.profile, o.base + 1, o.attempt)
        /\ op' = [op EXCEPT ![p] = NoOp]
        /\ pc' = [pc EXCEPT ![p] = "holding"]
        /\ UNCHANGED <<lock, tx, snap, mark>>

ReturnFailed(p) ==
    LET o == op[p]
    IN  /\ pc[p] = "failing"
        /\ Return(p, "failed", o.batch.profile, db.gen[o.batch.profile],
                  o.attempt)
        /\ op' = [op EXCEPT ![p] = NoOp]
        /\ pc' = [pc EXCEPT ![p] = "holding"]
        /\ UNCHANGED <<lock, tx, snap, mark>>

MarkFailed(p) ==
    /\ ReturnFailed(p)
    /\ CanWrite
    /\ db' = WithFinished(db, op[p].attempt, "failed")

\* Marking fails too: the attempt stays in progress for the next recovery.
MarkFailedFails(p) ==
    /\ ReturnFailed(p)
    /\ UNCHANGED db

----------------------------------------------------------------------------
\* Readers.

OpenSnapshot(r) ==
    /\ snap[r] = NoSnap
    /\ snap' = [snap EXCEPT ![r] = db]
    /\ UNCHANGED <<lock, pc, op, result, db, tx, mark>>

CloseSnapshot(r) ==
    /\ snap[r] # NoSnap
    /\ snap' = [snap EXCEPT ![r] = NoSnap]
    /\ UNCHANGED <<lock, pc, op, result, db, tx, mark>>

----------------------------------------------------------------------------
\* One step of a publication that has recorded its attempt.
Advance(p) ==
    \/ RemoveOld(p)
    \/ InsertUnit(p)
    \/ FinishReplacement(p)
    \/ Commit(p)
    \/ Fail(p)
    \/ MarkFailed(p)
    \/ MarkFailedFails(p)

ProcNext(p) ==
    \/ Acquire(p)
    \/ Recover(p)
    \/ RecoverFails(p)
    \/ Release(p)
    \/ Crash(p)
    \/ \E q \in Profile :
          \/ \E k \in Kind \ {"absent"} : EnsureProfile(p, q, k)
          \/ \E slots \in SUBSET Slot : RecordRejected(p, q, slots)
          \/ \E layer \in {"retrieval", "deep"} :
                RecordAuxiliaryFailure(p, q, layer)
    \/ \E b \in Batches :
          \/ PublishRejected(p, b)
          \/ PublishNoOp(p, b)
          \/ PublishRecord(p, b)
          \/ PublishRecordFails(p, b)
    \/ Advance(p)

Next ==
    \/ \E p \in Proc : ProcNext(p)
    \/ \E r \in Reader : OpenSnapshot(r) \/ CloseSnapshot(r)

Spec == Init /\ [][Next]_vars

\* publish() runs to its return unless its process dies; nothing obliges a
\* reader to close, a waiter to get the lock or a holder to publish.
FairSpec == Spec /\ \A p \in Proc : WF_vars(Advance(p))

----------------------------------------------------------------------------
\* Properties.

\* A publication has recorded its attempt and not returned.
Active == {"recorded", "replacing", "finished", "failing"}

\* Every variable keeps its type; the bound on attempts is respected.
TypeOK ==
    /\ lock \in Proc \cup {NoProc}
    /\ pc \in [Proc -> {"idle", "recovering", "holding", "recorded",
                        "replacing", "finished", "failing"}]
    /\ op \in [Proc -> Operation \cup {NoOp}]
    /\ result \in [Proc -> Result \cup {NoResult}]
    /\ db \in Database
    /\ tx \in Transaction \cup {NoTx}
    /\ snap \in [Reader -> Database \cup {NoSnap}]
    /\ mark \in Nat

\* The publications of profile q that committed, in a database state.
Successes(d, q) ==
    {i \in DOMAIN d.attempts : /\ d.attempts[i].profile = q
                               /\ d.attempts[i].state = "succeeded"}

\* The committed units of d are exactly what its succeeded attempts, applied
\* in order, leave: a live unit was installed by a succeeded attempt after
\* which none touched its slot, and a slot without a unit was last retired.
\* Nothing an attempt that failed, was refused or was interrupted asked for
\* is there, and nothing that succeeded is lost.
Replayed(d) ==
    \A q \in Profile, s \in Slot :
        LET u == d.units[q][s]
            Touching == {i \in Successes(d, q) :
                            d.attempts[i].slots[s] # "none"}
        IN  IF u = NoUnit
            THEN \A i \in Touching : d.attempts[i].slots[s] = "install" =>
                    \E j \in Touching :
                        j > i /\ d.attempts[j].slots[s] = "retire"
            ELSE /\ u.attempt \in Touching
                 /\ d.attempts[u.attempt].slots[s] = "install"
                 /\ \A j \in Touching : j <= u.attempt

\* Committed units, and the units any reader sees, are the replay of the
\* succeeded attempts of the same state (publish, remove_unit, insert_unit).
UnitsAreReplay ==
    /\ Replayed(db)
    /\ \A r \in Reader : snap[r] # NoSnap => Replayed(snap[r])

Counted(d) ==
    \A q \in Profile :
        /\ d.gen[q] = Cardinality(Successes(d, q))
        /\ \A s \in Slot : d.units[q][s] # NoUnit =>
              d.units[q][s].gen =
                 Cardinality({i \in Successes(d, q) :
                                 i <= d.units[q][s].attempt})

\* A profile's generation counts its succeeded publications, and a unit's
\* committed_generation is the count when it was installed, for the
\* committed state and for every pinned one: no publication is counted
\* twice or not at all although base + 1 is computed long before COMMIT.
GenerationCountsSuccesses ==
    /\ Counted(db)
    /\ \A r \in Reader : snap[r] # NoSnap => Counted(snap[r])

UniqueLabels(units) ==
    \A q \in Profile : \A s, t \in Slot :
        /\ units[q][s] # NoUnit
        /\ units[q][t] # NoUnit
        /\ units[q][s].label = units[q][t].label
        => s = t

\* Within a profile a fact label names one live slot, inside the open
\* transaction too, where old and new units coexist. Validation and insertion
\* each guarantee it alone, so no single fault breaks it.
LabelsUnique ==
    UniqueLabels(db.units) /\ (tx # NoTx => UniqueLabels(tx.db.units))

\* Units new are units old with operation o's batch applied as far as o.next:
\* what the batch does not name is as before, its retired slots and those
\* still to install are empty.
UnitsReplaced(old, new, o) ==
    LET b == o.batch
    IN  /\ \A q \in Profile, s \in Slot :
              q # b.profile \/ s \notin BatchSlots(b) => new[q][s] = old[q][s]
        /\ \A s \in RetireSlots(b) : new[b.profile][s] = NoUnit
        /\ \A i \in DOMAIN b.install :
              new[b.profile][b.install[i].slot] =
                  IF i < o.next
                  THEN NewUnit(b.install[i], o.base + 1, o.attempt)
                  ELSE NoUnit

\* The open transaction is the committed database with the batch applied as
\* far as the publication has come, and nothing else; the log and the
\* generation change last, together.
TransactionIsReplacement ==
    \A p \in Proc : pc[p] \in {"replacing", "finished"} =>
        /\ tx # NoTx
        /\ tx.db.kind = db.kind
        /\ UnitsReplaced(db.units, tx.db.units, op[p])
        /\ op[p].next \in 1 .. Len(op[p].batch.install) + 1
        /\ pc[p] = "replacing" =>
              tx.db.gen = db.gen /\ tx.db.attempts = db.attempts
        /\ pc[p] = "finished" =>
              /\ op[p].next = Len(op[p].batch.install) + 1
              /\ tx.db.gen = [db.gen EXCEPT ![op[p].batch.profile] =
                                  op[p].base + 1]
              /\ tx.db.attempts = [db.attempts EXCEPT ![op[p].attempt] =
                                       Finished(@, "succeeded")]

\* The writer lock alone keeps writers apart: a write transaction is open
\* only for the holder that is replacing units, so a writer about to write
\* never meets another one's and no begin waits for busy_timeout.
WritersNeverCollide ==
    /\ \A p \in Proc : pc[p] # "idle" => lock = p
    /\ tx # NoTx => /\ lock = tx.owner
                    /\ pc[lock] \in {"replacing", "finished"}

\* Past recovery, an attempt still in progress was recorded by the present
\* holder: what the writers before it left is all marked interrupted.
RecoveryIsComplete ==
    lock # NoProc /\ pc[lock] # "recovering" =>
        \A i \in InProgress(db) : i > mark

\* A publication under way owns the newest attempt, still in progress, and
\* its base is still the generation: recovery by another process never takes
\* a live attempt for a dead one.
LiveAttemptIsOpen ==
    \A p \in Proc :
        pc[p] \in Active =>
            /\ op[p].attempt \in DOMAIN db.attempts
            /\ op[p].attempt = Len(db.attempts)
            /\ db.attempts[op[p].attempt].state = "in_progress"
            /\ db.attempts[op[p].attempt].profile = op[p].batch.profile
            /\ db.attempts[op[p].attempt].slots = BatchActions(op[p].batch)
            /\ op[p].base = db.gen[op[p].batch.profile]
            /\ pc[p] = "recorded" => op[p].next = 1

\* What validation read stays true until the publication ends: the profile
\* exists and no untouched slot has come to own one of the batch's labels,
\* although validation, the attempt and the replacement are three steps.
OperationStaysAccepted ==
    \A p \in Proc : pc[p] \in Active =>
        /\ op[p] # NoOp
        /\ db.kind[op[p].batch.profile] # "absent"
        /\ Accepted(db, op[p].batch)

\* The inductive invariant of the control of a publication.
PublicationInv ==
    /\ TypeOK
    /\ WritersNeverCollide
    /\ OperationStaysAccepted
    /\ LiveAttemptIsOpen
    /\ TransactionIsReplacement

\* The outcome publish() returned agrees with the log for as long as the
\* caller can act on it: committed means the attempt succeeded and its
\* generation is the one counted for it; otherwise no publication of that
\* call ever succeeds, and the generation returned excludes it.
ResultIsHonest ==
    \A p \in Proc : result[p] # NoResult =>
        LET r == result[p]
        IN  /\ r.outcome = "committed" =>
                  /\ db.attempts[r.attempt].state = "succeeded"
                  /\ r.gen = Cardinality({i \in Successes(db, r.profile) :
                                             i <= r.attempt})
            /\ r.outcome = "rejected" =>
                  db.attempts[r.attempt].state = "failed"
            /\ r.outcome = "failed" /\ r.attempt # 0 =>
                  db.attempts[r.attempt].state \in {"failed", "in_progress"}
            /\ r.gen = db.gen[r.profile]

\* The generation names the content: a pinned state and the committed one
\* that agree on a profile's generation agree on its units. This is what
\* lets index_profile and inspect_freshness compare generations instead of
\* contents after they waited for the lock.
GenerationNamesContent ==
    \A r \in Reader : snap[r] # NoSnap =>
        \A q \in Profile :
            /\ snap[r].gen[q] <= db.gen[q]
            /\ snap[r].gen[q] = db.gen[q] => snap[r].units[q] = db.units[q]

\* The committed units only change from one state to the state with a whole
\* batch applied: every install in, every retire out, all else as committed
\* before, and no other profile touched.
BatchApplied(d, b, c) ==
    \A q \in Profile, s \in Slot :
        IF q = b.profile /\ s \in BatchSlots(b)
        THEN IF s \in InstallSlots(b)
             THEN \E i \in DOMAIN b.install :
                     /\ b.install[i].slot = s
                     /\ c.units[q][s] # NoUnit
                     /\ c.units[q][s].label = b.install[i].label
                     /\ c.units[q][s].facts = b.install[i].facts
             ELSE c.units[q][s] = NoUnit
        ELSE c.units[q][s] = d.units[q][s]

ReplacementStep ==
    db'.units # db.units =>
        \E p \in Proc : pc[p] = "finished" /\ BatchApplied(db, op[p].batch, db')

ReplacementIsAtomic == [][ReplacementStep]_vars

\* A publication that recorded its attempt ends, in publish() returning or in
\* the death of its process, even when a reader that never closes keeps a
\* rollback-journal commit from ever succeeding.
PublicationConcludes ==
    \A p \in Proc :
        pc[p] \in Active ~> pc[p] \in {"idle", "holding"}

\* What store.hpp says of PublishOutcome::failed: "mutation failed and was
\* rolled back; failed attempt recorded".
FailedMeansFailedAttempt ==
    \A p \in Proc :
        result[p] # NoResult /\ result[p].outcome = "failed" =>
            /\ result[p].attempt # 0
            /\ db.attempts[result[p].attempt].state = "failed"

----------------------------------------------------------------------------
\* The store implements its contract: the lock is the writer, the committed
\* database is the content, a pinned state is a view.

ContentOf(units) ==
    [q \in Profile |-> [s \in Slot |->
        IF units[q][s] = NoUnit THEN NoUnit
        ELSE [label |-> units[q][s].label, facts |-> units[q][s].facts]]]

ViewOf(d) ==
    IF d = NoSnap THEN NoSnap
    ELSE [kind |-> d.kind, gen |-> d.gen, content |-> ContentOf(d.units)]

Contract == INSTANCE StoreContract WITH
    NoView <- NoSnap,
    writer <- lock,
    kind <- db.kind,
    gen <- db.gen,
    content <- ContentOf(db.units),
    view <- [r \in Reader |-> ViewOf(snap[r])]

\* Every step of the store is a step its contract allows, or none at all.
ImplementsContract == Contract!Spec
=============================================================================
