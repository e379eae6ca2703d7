------------------------- MODULE StorePublishProofs -------------------------
(***************************************************************************)
(* Proofs about StorePublish, for any number of processes, readers,        *)
(* profiles, slots and labels, any set of batches and either journal mode: *)
(* the inductive invariant of publication and what rests on it, and, in    *)
(* the second half, what the attempt log and the results of publish() say: *)
(* the log is never rewritten, recovery is complete, a returned result     *)
(* agrees with the log for as long as its caller can act on it, and labels *)
(* are unique inside an open transaction too.                              *)
(***************************************************************************)
EXTENDS StorePublish, FiniteSetTheorems, TLAPS

----------------------------------------------------------------------------
\* Types of the operators the actions are built from.

LEMMA BatchParts ==
    ASSUME NEW b \in Batch
    PROVE  /\ b.profile \in Profile
           /\ b.install \in Seq(Entry)
           /\ Len(b.install) \in Nat
           /\ DOMAIN b.install = 1 .. Len(b.install)
           /\ \A i \in DOMAIN b.install :
                 /\ b.install[i] \in Entry
                 /\ b.install[i].slot \in Slot
                 /\ b.install[i].slot \in InstallSlots(b)
                 /\ b.install[i].slot \in BatchSlots(b)
           /\ BatchSlots(b) \subseteq Slot
           /\ RetireSlots(b) \subseteq BatchSlots(b)
<1>1. b.install \in Seq(Entry) /\ b.retire \in Seq(Slot) /\ b.profile \in Profile
  BY DEF Batch
<1>2. \A i \in DOMAIN b.install : b.install[i] \in Entry
  BY <1>1
<1>3. \A i \in DOMAIN b.retire : b.retire[i] \in Slot
  BY <1>1
<1>4. \A i \in DOMAIN b.install : b.install[i].slot \in Slot
  BY <1>2 DEF Entry
<1> QED
  BY <1>1, <1>2, <1>3, <1>4 DEF InstallSlots, RetireSlots, BatchSlots

\* Replacing the log of a database state replaces nothing else.
LEMMA LogReplaced ==
    ASSUME NEW d \in Database, NEW s \in Seq(Attempt)
    PROVE  /\ [d EXCEPT !.attempts = s] \in Database
           /\ [d EXCEPT !.attempts = s].kind = d.kind
           /\ [d EXCEPT !.attempts = s].gen = d.gen
           /\ [d EXCEPT !.attempts = s].units = d.units
           /\ [d EXCEPT !.attempts = s].attempts = s
BY DEF Database

LEMMA GenerationReplaced ==
    ASSUME NEW d \in Database, NEW q \in Profile, NEW g \in Nat
    PROVE  /\ [d EXCEPT !.gen[q] = g] \in Database
           /\ [d EXCEPT !.gen[q] = g].kind = d.kind
           /\ [d EXCEPT !.gen[q] = g].units = d.units
           /\ [d EXCEPT !.gen[q] = g].attempts = d.attempts
           /\ [d EXCEPT !.gen[q] = g].gen = [d.gen EXCEPT ![q] = g]
BY DEF Database

LEMMA NewAttemptType ==
    ASSUME NEW q \in Profile, NEW layer \in Layer, NEW state \in AttemptState,
           state # "interrupted", NEW slots \in [Slot -> Action]
    PROVE  NewAttempt(q, layer, state, slots) \in Attempt
BY DEF NewAttempt, Attempt, AttemptRow, AttemptState

LEMMA ActionsType ==
    /\ \A b : BatchActions(b) \in [Slot -> Action]
    /\ \A slots : RejectedActions(slots) \in [Slot -> Action]
BY DEF BatchActions, RejectedActions, Action

LEMMA WithAttemptType ==
    ASSUME NEW d \in Database, NEW a \in Attempt
    PROVE  /\ WithAttempt(d, a) \in Database
           /\ WithAttempt(d, a).kind = d.kind
           /\ WithAttempt(d, a).gen = d.gen
           /\ WithAttempt(d, a).units = d.units
           /\ WithAttempt(d, a).attempts = Append(d.attempts, a)
<1>1. Append(d.attempts, a) \in Seq(Attempt)
  BY DEF Database
<1> QED
  BY <1>1, LogReplaced DEF WithAttempt

LEMMA WithFinishedType ==
    ASSUME NEW d \in Database, NEW i \in 1 .. Len(d.attempts),
           NEW state \in {"succeeded", "failed"}
    PROVE  /\ WithFinished(d, i, state) \in Database
           /\ WithFinished(d, i, state).kind = d.kind
           /\ WithFinished(d, i, state).gen = d.gen
           /\ WithFinished(d, i, state).units = d.units
           /\ WithFinished(d, i, state).attempts =
                 [d.attempts EXCEPT ![i] = Finished(@, state)]
<1>1. d.attempts[i] \in Attempt
  BY DEF Database
<1>2. Finished(d.attempts[i], state) \in Attempt
  BY <1>1 DEF Finished, Attempt, AttemptRow, AttemptState
<1>3. [d.attempts EXCEPT ![i] = Finished(@, state)] \in Seq(Attempt)
  BY <1>2 DEF Database
<1> QED
  BY <1>3, LogReplaced DEF WithFinished

LEMMA InterruptedType ==
    ASSUME NEW a \in Attempt
    PROVE  Interrupted(a) \in Attempt
<1>1. CASE a.state = "in_progress"
  <2>1. a.finished = FALSE
    BY <1>1 DEF Attempt, AttemptRow
  <2>2. [a EXCEPT !.state = "interrupted"] \in Attempt
    BY <2>1 DEF Attempt, AttemptRow, AttemptState
  <2> QED
    BY <1>1, <2>2 DEF Interrupted
<1>2. CASE a.state # "in_progress"
  BY <1>2 DEF Interrupted
<1> QED
  BY <1>1, <1>2

LEMMA WithRecoveredType ==
    ASSUME NEW d \in Database
    PROVE  /\ WithRecovered(d) \in Database
           /\ WithRecovered(d).kind = d.kind
           /\ WithRecovered(d).gen = d.gen
           /\ WithRecovered(d).units = d.units
           /\ Len(WithRecovered(d).attempts) = Len(d.attempts)
           /\ \A i \in 1 .. Len(d.attempts) :
                 WithRecovered(d).attempts[i] = Interrupted(d.attempts[i])
<1> DEFINE log == [i \in DOMAIN d.attempts |-> Interrupted(d.attempts[i])]
<1>1. \A i \in DOMAIN d.attempts : Interrupted(d.attempts[i]) \in Attempt
  BY InterruptedType DEF Database
<1>2. /\ d.attempts \in Seq(Attempt)
      /\ DOMAIN d.attempts = 1 .. Len(d.attempts)
      /\ Len(d.attempts) \in Nat
  BY DEF Database
<1>3. log \in Seq(Attempt) /\ Len(log) = Len(d.attempts)
  BY <1>1, <1>2
<1>4. WithRecovered(d) = [d EXCEPT !.attempts = log]
  BY DEF WithRecovered
<1> QED
  <2>1. \A i \in 1 .. Len(d.attempts) : log[i] = Interrupted(d.attempts[i])
    BY <1>2
  <2> HIDE DEF log
  <2> QED
    BY <1>3, <1>4, <2>1, LogReplaced

LEMMA WithRemovedType ==
    ASSUME NEW d \in Database, NEW b \in Batch
    PROVE  /\ WithRemoved(d, b) \in Database
           /\ WithRemoved(d, b).kind = d.kind
           /\ WithRemoved(d, b).gen = d.gen
           /\ WithRemoved(d, b).attempts = d.attempts
           /\ \A q \in Profile, s \in Slot :
                 WithRemoved(d, b).units[q][s] =
                    IF q = b.profile /\ s \in BatchSlots(b) THEN NoUnit
                    ELSE d.units[q][s]
BY DEF WithRemoved, Database, Batch

LEMMA WithUnitType ==
    ASSUME NEW d \in Database, NEW q \in Profile, NEW e \in Entry,
           NEW u \in Unit
    PROVE  /\ WithUnit(d, q, e, u) \in Database
           /\ WithUnit(d, q, e, u).kind = d.kind
           /\ WithUnit(d, q, e, u).gen = d.gen
           /\ WithUnit(d, q, e, u).attempts = d.attempts
           /\ \A r \in Profile, s \in Slot :
                 WithUnit(d, q, e, u).units[r][s] =
                    IF r = q /\ s = e.slot THEN u ELSE d.units[r][s]
BY DEF WithUnit, Database, Entry

----------------------------------------------------------------------------
\* The inductive invariant of a publication's control.

LEMMA InitPublicationInv == Init => PublicationInv
<1> SUFFICES ASSUME Init PROVE PublicationInv
  OBVIOUS
<1>1. EmptyDatabase \in Database
  <2>1. <<>> \in Seq(Attempt)
    OBVIOUS
  <2> QED
    BY <2>1 DEF EmptyDatabase, Database, Kind
<1>2. TypeOK
  BY <1>1 DEF Init, TypeOK
<1>3. tx = NoTx /\ \A p \in Proc : pc[p] = "idle"
  BY DEF Init
<1>4. /\ WritersNeverCollide
      /\ OperationStaysAccepted
      /\ LiveAttemptIsOpen
      /\ TransactionIsReplacement
  BY <1>3 DEF WritersNeverCollide, OperationStaysAccepted,
              LiveAttemptIsOpen, TransactionIsReplacement, Active
<1> QED
  BY <1>2, <1>4 DEF PublicationInv

\* Past the lock a process is alone: everyone else is idle, and an open
\* transaction is its own.
LEMMA HolderIsAlone ==
    ASSUME PublicationInv, NEW p \in Proc, pc[p] # "idle"
    PROVE  /\ lock = p
           /\ \A o \in Proc : o # p => pc[o] = "idle"
           /\ tx # NoTx => tx.owner = p /\ pc[p] \in {"replacing", "finished"}
           /\ pc[p] \in {"replacing", "finished"} =>
                 tx \in Transaction /\ tx.db \in Database
<1>1. TypeOK /\ WritersNeverCollide /\ TransactionIsReplacement
  BY DEF PublicationInv
<1>2. lock = p /\ \A o \in Proc : o # p => pc[o] = "idle"
  BY <1>1 DEF WritersNeverCollide
<1>3. tx # NoTx => tx.owner = p /\ pc[p] \in {"replacing", "finished"}
  BY <1>1, <1>2 DEF WritersNeverCollide
<1>4. pc[p] \in {"replacing", "finished"} => tx # NoTx
  BY <1>1 DEF TransactionIsReplacement
<1>5. tx # NoTx => tx \in Transaction /\ tx.db \in Database
  BY <1>1 DEF TypeOK, Transaction
<1> QED
  BY <1>2, <1>3, <1>4, <1>5

\* With the lock free nobody is past it and no transaction is open.
LEMMA FreeMeansIdle ==
    ASSUME PublicationInv, lock = NoProc
    PROVE  tx = NoTx /\ \A o \in Proc : pc[o] = "idle"
<1>1. TypeOK /\ WritersNeverCollide
  BY DEF PublicationInv
<1>2. tx # NoTx => tx.owner \in Proc
  BY <1>1 DEF TypeOK, Transaction
<1> QED
  BY <1>1, <1>2, AbsentValuesAssumption DEF WritersNeverCollide

\* A publication under way has an operation of the right type.
LEMMA ActiveOperation ==
    ASSUME PublicationInv, NEW p \in Proc, pc[p] \in Active
    PROVE  /\ op[p] \in Operation
           /\ op[p].batch \in Batch
           /\ op[p].batch \in Batches
           /\ op[p].batch.profile \in Profile
           /\ op[p].base \in Nat /\ op[p].attempt \in Nat
           /\ op[p].next \in Nat
<1>1. op[p] \in Operation
  BY DEF PublicationInv, TypeOK, OperationStaysAccepted
<1> QED
  BY <1>1, ParametersAssumption DEF Operation, Batch

\* After a step that leaves no publication under way the invariant is its
\* first two conjuncts.
LEMMA NobodyActive ==
    ASSUME TypeOK', WritersNeverCollide', \A o \in Proc : pc'[o] \notin Active
    PROVE  PublicationInv'
BY DEF PublicationInv, OperationStaysAccepted, LiveAttemptIsOpen,
       TransactionIsReplacement, Active

\* A step that only touches snapshots, results or the history variable.
LEMMA ControlUnchanged ==
    ASSUME PublicationInv, TypeOK', UNCHANGED <<lock, pc, op, db, tx>>
    PROVE  PublicationInv'
<1>1. WritersNeverCollide'
  BY DEF PublicationInv, WritersNeverCollide
<1>2. OperationStaysAccepted'
  BY DEF PublicationInv, OperationStaysAccepted
<1>3. LiveAttemptIsOpen'
  BY DEF PublicationInv, LiveAttemptIsOpen
<1>4. TransactionIsReplacement'
  BY DEF PublicationInv, TransactionIsReplacement
<1> QED
  BY <1>1, <1>2, <1>3, <1>4 DEF PublicationInv


----------------------------------------------------------------------------
\* The steps, one lemma for each kind.

LEMMA AcquireStep ==
    ASSUME PublicationInv, NEW p \in Proc, Acquire(p)
    PROVE  PublicationInv'
<1>1. tx = NoTx /\ \A o \in Proc : pc[o] = "idle"
  BY FreeMeansIdle DEF Acquire
<1>2. TypeOK'
  BY DEF PublicationInv, TypeOK, Acquire
<1>3. \A o \in Proc : pc'[o] = IF o = p THEN "recovering" ELSE "idle"
  BY <1>1 DEF Acquire, PublicationInv, TypeOK
<1>4. WritersNeverCollide'
  BY <1>1, <1>3 DEF Acquire, WritersNeverCollide
<1> QED
  BY <1>2, <1>3, <1>4, NobodyActive DEF Active

\* Steps after which the process holds the lock and no publication, with no
\* transaction open.
LEMMA HoldingAfter ==
    ASSUME PublicationInv, NEW p \in Proc, pc[p] # "idle",
           TypeOK', lock' = lock, tx' = NoTx,
           pc' = [pc EXCEPT ![p] = "holding"]
    PROVE  PublicationInv'
<1>1. lock = p /\ \A o \in Proc : o # p => pc[o] = "idle"
  BY HolderIsAlone
<1>2. \A o \in Proc : pc'[o] = IF o = p THEN "holding" ELSE "idle"
  BY <1>1 DEF PublicationInv, TypeOK
<1>3. WritersNeverCollide'
  BY <1>1, <1>2 DEF WritersNeverCollide
<1> QED
  BY <1>2, <1>3, NobodyActive DEF Active

\* Steps after which the process is idle and its lock and transaction are gone.
LEMMA IdleAfter ==
    ASSUME PublicationInv, NEW p \in Proc, pc[p] # "idle",
           TypeOK', lock' = NoProc, tx' = NoTx,
           pc' = [pc EXCEPT ![p] = "idle"]
    PROVE  PublicationInv'
<1>1. \A o \in Proc : o # p => pc[o] = "idle"
  BY HolderIsAlone
<1>2. \A o \in Proc : pc'[o] = "idle"
  BY <1>1 DEF PublicationInv, TypeOK
<1>3. WritersNeverCollide'
  BY <1>2 DEF WritersNeverCollide
<1> QED
  BY <1>2, <1>3, NobodyActive DEF Active

LEMMA LockSteps ==
    ASSUME PublicationInv, NEW p \in Proc,
           Recover(p) \/ RecoverFails(p) \/ Release(p) \/ Crash(p)
    PROVE  PublicationInv'
<1> USE DEF PublicationInv
<1>1. pc[p] # "idle"
  BY DEF Recover, RecoverFails, Release, Crash
<1>2. /\ lock = p
      /\ tx # NoTx => tx.owner = p /\ pc[p] \in {"replacing", "finished"}
  BY <1>1, HolderIsAlone
<1>3. CASE Recover(p)
  <2>0. db \in Database
    BY DEF TypeOK
  <2>1. WithRecovered(db) \in Database
    BY <2>0, WithRecoveredType
  <2>2. Len(db.attempts) \in Nat
    BY <2>0 DEF Database
  <2>3. TypeOK'
    BY <1>3, <2>1, <2>2 DEF TypeOK, Recover
  <2> QED
    BY <1>1, <1>2, <1>3, <2>3, HoldingAfter DEF Recover, TypeOK
<1>4. CASE RecoverFails(p)
  <2>1. TypeOK'
    BY <1>4 DEF TypeOK, RecoverFails
  <2> QED
    BY <1>1, <1>2, <1>4, <2>1, IdleAfter DEF RecoverFails
<1>5. CASE Release(p)
  <2>1. TypeOK'
    BY <1>5 DEF TypeOK, Release
  <2> QED
    BY <1>1, <1>2, <1>5, <2>1, IdleAfter DEF Release
<1>6. CASE Crash(p)
  <2>1. lock' = NoProc /\ tx' = NoTx
    BY <1>2, <1>6 DEF Crash, Abandoned
  <2>2. TypeOK'
    BY <1>6, <2>1 DEF TypeOK, Crash
  <2> QED
    BY <1>1, <1>6, <2>1, <2>2, IdleAfter DEF Crash
<1> QED
  BY <1>3, <1>4, <1>5, <1>6

\* What publish() returns to the process has the type of a result.
LEMMA ReturnType ==
    ASSUME TypeOK, NEW p \in Proc, NEW outcome \in PublishOutcome,
           NEW q \in Profile, NEW generation \in Nat, NEW attempt \in Nat,
           Return(p, outcome, q, generation, attempt)
    PROVE  result' \in [Proc -> Result \cup {NoResult}]
BY DEF TypeOK, Return, Result

\* A failed attempt added to the log by a holder.
LEMMA FailedAttemptType ==
    ASSUME TypeOK, NEW q \in Profile, NEW layer \in Layer, NEW slots
    PROVE  WithAttempt(db, NewAttempt(q, layer, "failed",
                                      RejectedActions(slots))) \in Database
<1>1. RejectedActions(slots) \in [Slot -> Action]
  BY ActionsType
<1>2. NewAttempt(q, layer, "failed", RejectedActions(slots)) \in Attempt
  BY <1>1, NewAttemptType DEF AttemptState
<1> QED
  BY <1>2, WithAttemptType DEF TypeOK

LEMMA HolderSteps ==
    ASSUME PublicationInv, NEW p \in Proc,
           \/ \E q \in Profile :
                 \/ \E k \in Kind \ {"absent"} : EnsureProfile(p, q, k)
                 \/ \E slots \in SUBSET Slot : RecordRejected(p, q, slots)
                 \/ \E layer \in {"retrieval", "deep"} :
                       RecordAuxiliaryFailure(p, q, layer)
           \/ \E b \in Batches : \/ PublishRejected(p, b)
                                 \/ PublishNoOp(p, b)
                                 \/ PublishRecordFails(p, b)
    PROVE  PublicationInv'
<1>1. pc[p] = "holding" /\ UNCHANGED <<lock, pc, op, tx, snap, mark>>
  BY DEF EnsureProfile, RecordRejected, RecordAuxiliaryFailure,
         PublishRejected, PublishNoOp, PublishRecordFails, Attemptable
<1>2. TypeOK /\ tx = NoTx /\ db \in Database
  BY <1>1, HolderIsAlone DEF PublicationInv, TypeOK
<1>3. Len(db.attempts) + 1 \in Nat /\ \A q \in Profile : db.gen[q] \in Nat
  BY <1>2 DEF Database
<1>4. SUFFICES db' \in Database /\ result' \in [Proc -> Result \cup {NoResult}]
  <2>1. TypeOK'
    BY <1>1, <1>2, <1>4 DEF TypeOK
  <2>2. pc' = [pc EXCEPT ![p] = "holding"]
    BY <1>1, <1>2 DEF TypeOK
  <2> QED
    BY <1>1, <1>2, <2>1, <2>2, HoldingAfter
<1>5. CASE \E q \in Profile, k \in Kind \ {"absent"} : EnsureProfile(p, q, k)
  <2>1. PICK q \in Profile, k \in Kind \ {"absent"} : EnsureProfile(p, q, k)
    BY <1>5
  <2> QED
    BY <1>2, <2>1 DEF EnsureProfile, Database, TypeOK
<1>6. CASE \E q \in Profile, slots \in SUBSET Slot : RecordRejected(p, q, slots)
  <2> QED
    BY <1>2, <1>6, FailedAttemptType DEF RecordRejected, Layer, TypeOK
<1>7. CASE \E q \in Profile, layer \in {"retrieval", "deep"} :
              RecordAuxiliaryFailure(p, q, layer)
  <2> QED
    BY <1>2, <1>7, FailedAttemptType DEF RecordAuxiliaryFailure, Layer, TypeOK
<1>8. CASE \E b \in Batches : PublishRejected(p, b)
  <2>1. PICK b \in Batches : PublishRejected(p, b)
    BY <1>8
  <2>2. b.profile \in Profile
    BY ParametersAssumption DEF Batch
  <2>3. db' \in Database
    BY <1>2, <2>1, <2>2, FailedAttemptType DEF PublishRejected, Layer
  <2>4. result' \in [Proc -> Result \cup {NoResult}]
    BY <1>2, <1>3, <2>1, <2>2, ReturnType DEF PublishRejected, PublishOutcome
  <2> QED
    BY <2>3, <2>4
<1>9. CASE \E b \in Batches : PublishNoOp(p, b) \/ PublishRecordFails(p, b)
  <2>1. PICK b \in Batches : PublishNoOp(p, b) \/ PublishRecordFails(p, b)
    BY <1>9
  <2>2. b.profile \in Profile
    BY ParametersAssumption DEF Batch
  <2>3. db' = db
    BY <2>1 DEF PublishNoOp, PublishRecordFails
  <2>4. result' \in [Proc -> Result \cup {NoResult}]
    BY <1>2, <1>3, <2>1, <2>2, ReturnType
       DEF PublishNoOp, PublishRecordFails, PublishOutcome
  <2> QED
    BY <1>2, <2>3, <2>4
<1> QED
  BY <1>5, <1>6, <1>7, <1>8, <1>9

\* An active process that stays one keeps the writers apart.
LEMMA StillAlone ==
    ASSUME PublicationInv, NEW p \in Proc, pc[p] # "idle", lock' = lock,
           NEW at, pc' = [pc EXCEPT ![p] = at],
           tx' # NoTx => tx'.owner = p /\ at \in {"replacing", "finished"}
    PROVE  /\ WritersNeverCollide'
           /\ \A o \in Proc : pc'[o] = IF o = p THEN at ELSE "idle"
<1>1. lock = p /\ \A o \in Proc : o # p => pc[o] = "idle"
  BY HolderIsAlone
<1>2. \A o \in Proc : pc'[o] = IF o = p THEN at ELSE "idle"
  BY <1>1 DEF PublicationInv, TypeOK
<1> QED
  BY <1>1, <1>2 DEF WritersNeverCollide

LEMMA PublishRecordStep ==
    ASSUME PublicationInv, NEW p \in Proc, NEW b \in Batches,
           PublishRecord(p, b)
    PROVE  PublicationInv'
<1> DEFINE a == NewAttempt(b.profile, "semantic_graph", "in_progress",
                           BatchActions(b))
           o == [batch |-> b, base |-> db.gen[b.profile],
                 attempt |-> Len(db.attempts) + 1, next |-> 1]
<1>1. /\ pc[p] = "holding" /\ tx = NoTx /\ tx' = tx /\ lock' = lock
      /\ db' = WithAttempt(db, a)
      /\ op' = [op EXCEPT ![p] = o]
      /\ pc' = [pc EXCEPT ![p] = "recorded"]
      /\ db.kind[b.profile] # "absent" /\ Accepted(db, b)
  BY DEF PublishRecord, Attemptable, CanWrite
<1>2. TypeOK /\ db \in Database /\ b.profile \in Profile
  BY ParametersAssumption DEF PublicationInv, TypeOK, Batch
<1>3. a \in Attempt
  BY <1>2, NewAttemptType, ActionsType DEF Layer, AttemptState
<1>4. /\ db' \in Database /\ db'.kind = db.kind /\ db'.gen = db.gen
      /\ db'.units = db.units /\ db'.attempts = Append(db.attempts, a)
  BY <1>1, <1>2, <1>3, WithAttemptType
<1>5. db.attempts \in Seq(Attempt) /\ db.gen[b.profile] \in Nat
  BY <1>2 DEF Database
<1>6. o \in Operation
  BY <1>5 DEF Operation
<1>7. TypeOK'
  <2> HIDE DEF o, a
  <2> QED
    BY <1>1, <1>2, <1>4, <1>6 DEF PublishRecord, TypeOK
<1>8. /\ WritersNeverCollide'
      /\ \A x \in Proc : pc'[x] = IF x = p THEN "recorded" ELSE "idle"
  BY <1>1, StillAlone
<1>9. op'[p] = o
  BY <1>1, <1>2 DEF TypeOK
<1>10. OperationStaysAccepted'
  <2>1. o # NoOp
    BY <1>6, AbsentValuesAssumption
  <2>2. Accepted(db', b)
    BY <1>1, <1>4 DEF Accepted
  <2> QED
    BY <1>1, <1>4, <1>8, <1>9, <2>1, <2>2 DEF OperationStaysAccepted, Active
<1>11. LiveAttemptIsOpen'
  <2>1. /\ Len(db'.attempts) = Len(db.attempts) + 1
        /\ db'.attempts[Len(db.attempts) + 1] = a
        /\ Len(db.attempts) + 1 \in DOMAIN db'.attempts
    BY <1>3, <1>4, <1>5
  <2>2. /\ a.state = "in_progress" /\ a.profile = b.profile
        /\ a.slots = BatchActions(b)
    BY DEF NewAttempt
  <2> QED
    BY <1>4, <1>8, <1>9, <2>1, <2>2 DEF LiveAttemptIsOpen, Active
<1>12. TransactionIsReplacement'
  BY <1>8 DEF TransactionIsReplacement
<1> QED
  BY <1>7, <1>8, <1>10, <1>11, <1>12 DEF PublicationInv

LEMMA RemoveOldStep ==
    ASSUME PublicationInv, NEW p \in Proc, RemoveOld(p)
    PROVE  PublicationInv'
<1> DEFINE o == op[p]
           b == op[p].batch
           d == WithRemoved(db, b)
<1>1. /\ pc[p] = "recorded" /\ tx = NoTx /\ UNCHANGED <<lock, op, db>>
      /\ tx' = [owner |-> p, db |-> d]
      /\ pc' = [pc EXCEPT ![p] = "replacing"]
  BY DEF RemoveOld
<1>2. /\ o \in Operation /\ b \in Batch /\ b.profile \in Profile
      /\ TypeOK /\ db \in Database
  BY <1>1, ActiveOperation DEF Active, PublicationInv, TypeOK
<1>3. /\ d \in Database /\ d.kind = db.kind /\ d.gen = db.gen
      /\ d.attempts = db.attempts
      /\ \A q \in Profile, s \in Slot :
            d.units[q][s] = IF q = b.profile /\ s \in BatchSlots(b)
                            THEN NoUnit ELSE db.units[q][s]
  BY <1>2, WithRemovedType
<1>4. tx' \in Transaction /\ tx' # NoTx /\ tx'.owner = p /\ tx'.db = d
  BY <1>1, <1>3, AbsentValuesAssumption DEF Transaction
<1>5. TypeOK'
  BY <1>1, <1>2, <1>4 DEF RemoveOld, TypeOK
<1>6. /\ WritersNeverCollide'
      /\ \A x \in Proc : pc'[x] = IF x = p THEN "replacing" ELSE "idle"
  BY <1>1, <1>4, StillAlone
<1>7. OperationStaysAccepted' /\ LiveAttemptIsOpen'
  BY <1>1, <1>6 DEF PublicationInv, OperationStaysAccepted,
                    LiveAttemptIsOpen, Active
<1>8. TransactionIsReplacement'
  <2>1. o.next = 1
    BY <1>1 DEF PublicationInv, LiveAttemptIsOpen, Active
  <2>2. UnitsReplaced(db.units, d.units, o)
    BY <1>2, <1>3, <2>1, BatchParts, SMTT(40) DEF UnitsReplaced
  <2>3. 1 \in 1 .. Len(b.install) + 1
    BY <1>2, BatchParts
  <2> QED
    BY <1>1, <1>3, <1>4, <1>6, <2>1, <2>2, <2>3 DEF TransactionIsReplacement
<1> QED
  BY <1>5, <1>6, <1>7, <1>8 DEF PublicationInv

\* One more insertion carries the replacement one contribution further.
LEMMA OneMoreUnit ==
    ASSUME NEW old, NEW d \in Database, NEW o, NEW n,
           o.batch \in Batch, ValidBatch(o.batch),
           o.next \in DOMAIN o.batch.install,
           o.base \in Nat, o.attempt \in Nat,
           n.batch = o.batch, n.base = o.base, n.attempt = o.attempt,
           n.next = o.next + 1,
           UnitsReplaced(old, d.units, o)
    PROVE  LET e == o.batch.install[o.next]
               u == NewUnit(e, o.base + 1, o.attempt)
           IN  UnitsReplaced(old,
                             WithUnit(d, o.batch.profile, e, u).units, n)
<1> DEFINE b == o.batch
           e == b.install[o.next]
           u == NewUnit(e, o.base + 1, o.attempt)
           new == WithUnit(d, b.profile, e, u).units
<1>1. /\ b.profile \in Profile /\ e \in Entry /\ e.slot \in Slot
      /\ e.slot \in InstallSlots(b) /\ e.slot \in BatchSlots(b)
      /\ RetireSlots(b) \subseteq Slot
  BY BatchParts
<1>2. u \in Unit
  BY <1>1 DEF NewUnit, Unit, Entry
<1>3. \A r \in Profile, s \in Slot :
         new[r][s] = IF r = b.profile /\ s = e.slot THEN u ELSE d.units[r][s]
  <2> HIDE DEF e, u
  <2> QED
    BY <1>1, <1>2, WithUnitType
<1>4. e.slot \notin RetireSlots(b)
  BY <1>1 DEF ValidBatch
<1>5. \A i \in DOMAIN b.install : i # o.next => b.install[i].slot # e.slot
  BY DEF ValidBatch
<1>6. \A q \in Profile, s \in Slot :
         q # b.profile \/ s \notin BatchSlots(b) => new[q][s] = old[q][s]
  <2> HIDE DEF new, e
  <2> QED
    BY <1>1, <1>3 DEF UnitsReplaced
<1>7. \A s \in RetireSlots(b) : new[b.profile][s] = NoUnit
  <2> HIDE DEF new, e
  <2> QED
    BY <1>1, <1>3, <1>4 DEF UnitsReplaced
<1>8. ASSUME NEW i \in DOMAIN b.install
      PROVE  new[b.profile][b.install[i].slot] =
                IF i < n.next
                THEN NewUnit(b.install[i], o.base + 1, o.attempt) ELSE NoUnit
  <2>1. b.install[i].slot \in Slot /\ i \in Nat /\ o.next \in Nat
    BY BatchParts
  <2>2. i < n.next <=> i < o.next \/ i = o.next
    BY <2>1
  <2>3. CASE i = o.next
    <3>1. new[b.profile][b.install[i].slot] = u
      <4> HIDE DEF new, u
      <4> QED
        BY <1>1, <1>3, <2>3
    <3> QED
      BY <2>2, <2>3, <3>1
  <2>4. CASE i # o.next
    <3>1. new[b.profile][b.install[i].slot] = d.units[b.profile][b.install[i].slot]
      <4> HIDE DEF new, u, e
      <4> QED
        BY <1>1, <1>3, <1>5, <2>1, <2>4
    <3>2. d.units[b.profile][b.install[i].slot] =
             IF i < o.next THEN NewUnit(b.install[i], o.base + 1, o.attempt)
             ELSE NoUnit
      BY DEF UnitsReplaced
    <3> QED
      BY <2>2, <2>4, <3>1, <3>2
  <2> QED
    BY <2>3, <2>4
<1> QED
  <2> HIDE DEF new
  <2>1. UnitsReplaced(old, new, n)
    BY <1>6, <1>7, <1>8 DEF UnitsReplaced
  <2> QED
    BY <2>1 DEF new

LEMMA InsertUnitStep ==
    ASSUME PublicationInv, NEW p \in Proc, InsertUnit(p)
    PROVE  PublicationInv'
<1> DEFINE o == op[p]
           b == op[p].batch
           e == b.install[o.next]
           u == NewUnit(e, o.base + 1, o.attempt)
           d == WithUnit(tx.db, b.profile, e, u)
           n == [o EXCEPT !.next = @ + 1]
<1>1. /\ pc[p] = "replacing" /\ UNCHANGED <<lock, pc, db>>
      /\ o.next <= Len(b.install)
      /\ tx' = [tx EXCEPT !.db = d]
      /\ op' = [op EXCEPT ![p] = n]
  BY DEF InsertUnit
<1>2. /\ o \in Operation /\ b \in Batch /\ TypeOK
      /\ o.base \in Nat /\ o.attempt \in Nat /\ o.next \in Nat
  BY <1>1, ActiveOperation DEF Active, PublicationInv
<1>3. /\ tx \in Transaction /\ tx.db \in Database /\ tx.owner = p
      /\ tx # NoTx /\ tx.db.kind = db.kind
      /\ tx.db.gen = db.gen /\ tx.db.attempts = db.attempts
      /\ UnitsReplaced(db.units, tx.db.units, o)
      /\ o.next \in 1 .. Len(b.install) + 1
  BY <1>1, HolderIsAlone DEF PublicationInv, TransactionIsReplacement
<1>4. /\ e \in Entry /\ b.profile \in Profile
      /\ o.next \in DOMAIN b.install /\ Len(b.install) \in Nat
  BY <1>1, <1>2, <1>3, BatchParts
<1>5. u \in Unit
  BY <1>2, <1>4 DEF NewUnit, Unit, Entry
<1>6. /\ d \in Database /\ d.kind = tx.db.kind /\ d.gen = tx.db.gen
      /\ d.attempts = tx.db.attempts
  <2> HIDE DEF e, u
  <2> QED
    BY <1>3, <1>4, <1>5, WithUnitType
<1>7. tx' \in Transaction /\ tx' # NoTx /\ tx'.owner = p /\ tx'.db = d
  <2> HIDE DEF d
  <2> QED
    BY <1>1, <1>3, <1>6, AbsentValuesAssumption DEF Transaction
<1>8. /\ n \in Operation /\ n.batch = b /\ n.next = o.next + 1
      /\ n.base = o.base /\ n.attempt = o.attempt
  BY <1>2 DEF Operation
<1>9. op'[p] = n
  BY <1>1, <1>2 DEF TypeOK
<1>10. UnitsReplaced(db.units, d.units, n)
  <2>1. ValidBatch(b)
    BY <1>1 DEF PublicationInv, OperationStaysAccepted, Accepted, Active
  <2>2. /\ o.batch \in Batch /\ ValidBatch(o.batch)
        /\ o.next \in DOMAIN o.batch.install
        /\ n.batch = o.batch
    BY <1>2, <1>4, <1>8, <2>1
  <2> HIDE DEF n, o
  <2>3. UnitsReplaced(db.units,
            WithUnit(tx.db, o.batch.profile, o.batch.install[o.next],
                     NewUnit(o.batch.install[o.next], o.base + 1,
                             o.attempt)).units, n)
    BY <1>2, <1>3, <1>8, <2>2, OneMoreUnit
  <2> QED
    BY <2>3 DEF o
<1> HIDE DEF d, n, u
<1>11. TypeOK'
  BY <1>1, <1>2, <1>7, <1>8 DEF InsertUnit, TypeOK
<1>12. /\ WritersNeverCollide'
       /\ \A x \in Proc : pc'[x] = IF x = p THEN "replacing" ELSE "idle"
  <2>1. lock = p /\ \A x \in Proc : x # p => pc[x] = "idle"
    BY <1>1, HolderIsAlone
  <2> QED
    BY <1>1, <1>7, <2>1 DEF WritersNeverCollide
<1>13. OperationStaysAccepted' /\ LiveAttemptIsOpen'
  <2>1. n # NoOp
    BY <1>8, AbsentValuesAssumption
  <2> QED
    BY <1>1, <1>8, <1>9, <1>12, <2>1
       DEF PublicationInv, OperationStaysAccepted, LiveAttemptIsOpen, Active
<1>14. TransactionIsReplacement'
  <2>1. n.next \in 1 .. Len(n.batch.install) + 1
    BY <1>1, <1>2, <1>4, <1>8
  <2> QED
    BY <1>1, <1>3, <1>6, <1>7, <1>9, <1>10, <1>12, <2>1
       DEF TransactionIsReplacement
<1> QED
  BY <1>11, <1>12, <1>13, <1>14 DEF PublicationInv

LEMMA FinishReplacementStep ==
    ASSUME PublicationInv, NEW p \in Proc, FinishReplacement(p)
    PROVE  PublicationInv'
<1> DEFINE o == op[p]
           b == op[p].batch
           g == [tx.db EXCEPT !.gen[b.profile] = o.base + 1]
           d == WithFinished(g, o.attempt, "succeeded")
<1>1. /\ pc[p] = "replacing" /\ UNCHANGED <<lock, op, db>>
      /\ o.next > Len(b.install)
      /\ tx' = [tx EXCEPT !.db = d]
      /\ pc' = [pc EXCEPT ![p] = "finished"]
  BY DEF FinishReplacement
<1>2. /\ o \in Operation /\ b \in Batch /\ TypeOK /\ db \in Database
      /\ o.base \in Nat /\ o.attempt \in Nat /\ b.profile \in Profile
      /\ o.next \in Nat
  BY <1>1, ActiveOperation DEF Active, PublicationInv, TypeOK
<1>3. /\ tx \in Transaction /\ tx.db \in Database /\ tx.owner = p
      /\ tx # NoTx /\ tx.db.kind = db.kind
      /\ tx.db.gen = db.gen /\ tx.db.attempts = db.attempts
      /\ UnitsReplaced(db.units, tx.db.units, o)
      /\ o.next \in 1 .. Len(b.install) + 1
  BY <1>1, HolderIsAlone DEF PublicationInv, TransactionIsReplacement
<1>4. o.attempt \in 1 .. Len(db.attempts)
  <2>1. o.attempt \in DOMAIN db.attempts
    BY <1>1 DEF PublicationInv, LiveAttemptIsOpen, Active
  <2>2. db.attempts \in Seq(Attempt)
    BY <1>2 DEF Database
  <2> QED
    BY <2>1, <2>2
<1>5. /\ g \in Database /\ g.kind = db.kind /\ g.units = tx.db.units
      /\ g.gen = [db.gen EXCEPT ![b.profile] = o.base + 1]
      /\ g.attempts = db.attempts
  <2>1. o.base + 1 \in Nat
    BY <1>2
  <2> QED
    BY <1>2, <1>3, <2>1, GenerationReplaced
<1> HIDE DEF g
<1>6. /\ d \in Database /\ d.kind = db.kind /\ d.units = tx.db.units
      /\ d.gen = [db.gen EXCEPT ![b.profile] = o.base + 1]
      /\ d.attempts = [db.attempts EXCEPT ![o.attempt] =
                          Finished(@, "succeeded")]
  <2>1. o.attempt \in 1 .. Len(g.attempts)
    BY <1>4, <1>5
  <2>2. /\ d \in Database /\ d.kind = g.kind /\ d.gen = g.gen
        /\ d.units = g.units
        /\ d.attempts = [g.attempts EXCEPT ![o.attempt] =
                            Finished(@, "succeeded")]
    <3> HIDE DEF o
    <3> QED
      BY <1>5, <2>1, WithFinishedType
  <2> HIDE DEF d, o
  <2> QED
    BY <1>5, <2>2
<1> HIDE DEF d
<1>7. tx' \in Transaction /\ tx' # NoTx /\ tx'.owner = p /\ tx'.db = d
  BY <1>1, <1>3, <1>6, AbsentValuesAssumption DEF Transaction
<1>8. TypeOK'
  BY <1>1, <1>2, <1>7 DEF FinishReplacement, TypeOK
<1>9. /\ WritersNeverCollide'
      /\ \A x \in Proc : pc'[x] = IF x = p THEN "finished" ELSE "idle"
  BY <1>1, <1>7, StillAlone
<1>10. OperationStaysAccepted' /\ LiveAttemptIsOpen'
  BY <1>1, <1>9 DEF PublicationInv, OperationStaysAccepted,
                    LiveAttemptIsOpen, Active
<1>11. TransactionIsReplacement'
  <2>1. Len(b.install) \in Nat
    BY <1>2, BatchParts
  <2>2. o.next = Len(b.install) + 1
    BY <1>1, <1>2, <1>3, <2>1
  <2> QED
    BY <1>1, <1>3, <1>6, <1>7, <1>9, <2>2 DEF TransactionIsReplacement
<1> QED
  BY <1>8, <1>9, <1>10, <1>11 DEF PublicationInv

LEMMA FailStep ==
    ASSUME PublicationInv, NEW p \in Proc, Fail(p)
    PROVE  PublicationInv'
<1>1. /\ pc[p] \in {"recorded", "replacing", "finished"}
      /\ UNCHANGED <<lock, op, db>>
      /\ pc' = [pc EXCEPT ![p] = "failing"]
  BY DEF Fail
<1>2. tx' = NoTx
  BY <1>1, HolderIsAlone DEF Fail, Abandoned
<1>3. TypeOK'
  BY <1>1, <1>2 DEF PublicationInv, TypeOK, Fail
<1>4. /\ WritersNeverCollide'
      /\ \A x \in Proc : pc'[x] = IF x = p THEN "failing" ELSE "idle"
  BY <1>1, <1>2, StillAlone
<1>5. OperationStaysAccepted' /\ LiveAttemptIsOpen'
  BY <1>1, <1>4 DEF PublicationInv, OperationStaysAccepted,
                    LiveAttemptIsOpen, Active
<1>6. TransactionIsReplacement'
  BY <1>4 DEF TransactionIsReplacement
<1> QED
  BY <1>3, <1>4, <1>5, <1>6 DEF PublicationInv

\* The three ways a publication returns after its attempt was recorded.
LEMMA ReturnSteps ==
    ASSUME PublicationInv, NEW p \in Proc,
           Commit(p) \/ MarkFailed(p) \/ MarkFailedFails(p)
    PROVE  PublicationInv'
<1>1. pc[p] \in Active /\ pc[p] # "idle"
  BY DEF Commit, MarkFailed, MarkFailedFails, ReturnFailed, Active
<1>2. /\ op[p] \in Operation /\ op[p].batch \in Batch
      /\ op[p].batch.profile \in Profile
      /\ op[p].base \in Nat /\ op[p].attempt \in Nat
      /\ TypeOK /\ db \in Database
  BY <1>1, ActiveOperation DEF PublicationInv, TypeOK
<1>3. CASE Commit(p)
  <2>1. tx.db \in Database
    BY <1>3, HolderIsAlone DEF Commit
  <2>2. result' \in [Proc -> Result \cup {NoResult}]
    BY <1>2, <1>3, ReturnType DEF Commit, PublishOutcome
  <2>3. TypeOK'
    BY <1>2, <1>3, <2>1, <2>2 DEF Commit, TypeOK
  <2> QED
    BY <1>1, <1>3, <2>3, HoldingAfter DEF Commit
<1>4. CASE MarkFailed(p) \/ MarkFailedFails(p)
  <2>1. /\ pc[p] = "failing" /\ lock' = lock /\ tx' = tx
        /\ pc' = [pc EXCEPT ![p] = "holding"]
    BY <1>4 DEF MarkFailed, MarkFailedFails, ReturnFailed
  <2>2. tx' = NoTx
    BY <2>1, HolderIsAlone
  <2>3. op[p].attempt \in 1 .. Len(db.attempts)
    <3>1. op[p].attempt \in DOMAIN db.attempts
      BY <1>1 DEF PublicationInv, LiveAttemptIsOpen
    <3>2. db.attempts \in Seq(Attempt)
      BY <1>2 DEF Database
    <3> QED
      BY <3>1, <3>2
  <2>4. db' \in Database
    BY <1>2, <1>4, <2>3, WithFinishedType DEF MarkFailed, MarkFailedFails
  <2>5. db.gen[op[p].batch.profile] \in Nat
    BY <1>2 DEF Database
  <2>6. result' \in [Proc -> Result \cup {NoResult}]
    BY <1>2, <1>4, <2>5, ReturnType
       DEF MarkFailed, MarkFailedFails, ReturnFailed, PublishOutcome
  <2>7. TypeOK'
    BY <1>2, <1>4, <2>4, <2>6
       DEF MarkFailed, MarkFailedFails, ReturnFailed, TypeOK
  <2> QED
    BY <1>1, <2>1, <2>2, <2>7, HoldingAfter
<1> QED
  BY <1>3, <1>4

LEMMA ReaderSteps ==
    ASSUME PublicationInv, NEW r \in Reader,
           OpenSnapshot(r) \/ CloseSnapshot(r)
    PROVE  PublicationInv'
<1>1. TypeOK'
  BY DEF PublicationInv, TypeOK, OpenSnapshot, CloseSnapshot
<1> QED
  BY <1>1, ControlUnchanged DEF OpenSnapshot, CloseSnapshot

LEMMA PublicationInvStep ==
    ASSUME PublicationInv, [Next]_vars
    PROVE  PublicationInv'
<1>1. CASE UNCHANGED vars
  <2>1. TypeOK'
    BY <1>1 DEF PublicationInv, TypeOK, vars
  <2> QED
    BY <1>1, <2>1, ControlUnchanged DEF vars
<1>2. CASE \E p \in Proc : ProcNext(p)
  <2>1. PICK p \in Proc : ProcNext(p)
    BY <1>2
  <2> QED
    BY <2>1, AcquireStep, LockSteps, HolderSteps, PublishRecordStep,
       RemoveOldStep, InsertUnitStep, FinishReplacementStep, FailStep,
       ReturnSteps
       DEF ProcNext, Advance
<1>3. CASE \E r \in Reader : OpenSnapshot(r) \/ CloseSnapshot(r)
  BY <1>3, ReaderSteps
<1> QED
  BY <1>1, <1>2, <1>3 DEF Next

\* The control of publication, for every value of the parameters: types, one
\* writer at a time, validation that stays true, a live attempt that stays
\* open, and a transaction that is exactly the batch applied so far.
THEOREM PublicationInvariant == Spec => []PublicationInv
BY InitPublicationInv, PublicationInvStep, PTL DEF Spec

----------------------------------------------------------------------------
\* What a step can do to the committed database.

\* Nothing committed changes and no attempt comes to be a success.
Quiet(old, new) ==
    /\ new.units = old.units
    /\ new.gen = old.gen
    /\ \A q \in Profile : Successes(new, q) = Successes(old, q)
    /\ \A q \in Profile : \A i \in Successes(old, q) :
          new.attempts[i].slots = old.attempts[i].slots

LEMMA QuietWithAttempt ==
    ASSUME NEW d \in Database, NEW a \in Attempt, a.state # "succeeded"
    PROVE  Quiet(d, WithAttempt(d, a))
<1>1. /\ WithAttempt(d, a).gen = d.gen /\ WithAttempt(d, a).units = d.units
      /\ WithAttempt(d, a).attempts = Append(d.attempts, a)
  BY WithAttemptType
<1>2. d.attempts \in Seq(Attempt) /\ Len(d.attempts) \in Nat
  BY DEF Database
<1>3. /\ DOMAIN Append(d.attempts, a) = DOMAIN d.attempts \cup {Len(d.attempts) + 1}
      /\ Append(d.attempts, a)[Len(d.attempts) + 1] = a
      /\ \A i \in DOMAIN d.attempts : Append(d.attempts, a)[i] = d.attempts[i]
  BY <1>2
<1> QED
  BY <1>1, <1>3 DEF Quiet, Successes

LEMMA QuietWithFailed ==
    ASSUME NEW d \in Database, NEW i \in 1 .. Len(d.attempts),
           d.attempts[i].state = "in_progress"
    PROVE  Quiet(d, WithFinished(d, i, "failed"))
<1> DEFINE new == WithFinished(d, i, "failed")
<1>1. /\ new.gen = d.gen /\ new.units = d.units
      /\ new.attempts = [d.attempts EXCEPT ![i] = Finished(@, "failed")]
  BY WithFinishedType
<1>2. d.attempts \in Seq(Attempt) /\ i \in DOMAIN d.attempts
  BY DEF Database
<1>3. d.attempts[i] \in Attempt
  BY <1>2
<1>4. Finished(d.attempts[i], "failed").state = "failed"
  BY <1>3 DEF Finished, Attempt, AttemptRow
<1>5. /\ DOMAIN new.attempts = DOMAIN d.attempts
      /\ \A j \in DOMAIN d.attempts : j # i => new.attempts[j] = d.attempts[j]
      /\ new.attempts[i].state = "failed"
  BY <1>1, <1>2, <1>4
<1> HIDE DEF new
<1>6. \A q \in Profile : Successes(new, q) = Successes(d, q)
  BY <1>5 DEF Successes
<1>7. \A q \in Profile : \A j \in Successes(d, q) :
         new.attempts[j].slots = d.attempts[j].slots
  BY <1>5 DEF Successes
<1> QED
  BY <1>1, <1>6, <1>7 DEF Quiet, new

LEMMA QuietWithRecovered ==
    ASSUME NEW d \in Database
    PROVE  Quiet(d, WithRecovered(d))
<1> DEFINE new == WithRecovered(d)
<1>1. /\ new \in Database /\ new.gen = d.gen /\ new.units = d.units
      /\ Len(new.attempts) = Len(d.attempts)
      /\ \A i \in 1 .. Len(d.attempts) :
            new.attempts[i] = Interrupted(d.attempts[i])
  BY WithRecoveredType
<1>2. /\ DOMAIN d.attempts = 1 .. Len(d.attempts)
      /\ \A i \in DOMAIN d.attempts : d.attempts[i] \in Attempt
  BY DEF Database
<1>3. DOMAIN new.attempts = 1 .. Len(new.attempts)
  BY <1>1 DEF Database
<1>4. ASSUME NEW a \in Attempt
      PROVE  /\ Interrupted(a).profile = a.profile
             /\ Interrupted(a).slots = a.slots
             /\ Interrupted(a).state = "succeeded" <=> a.state = "succeeded"
  BY DEF Interrupted, Attempt, AttemptRow
<1> HIDE DEF new
<1>5. \A q \in Profile : Successes(new, q) = Successes(d, q)
  BY <1>1, <1>2, <1>3, <1>4 DEF Successes
<1>6. \A q \in Profile : \A j \in Successes(d, q) :
         new.attempts[j].slots = d.attempts[j].slots
  BY <1>1, <1>2, <1>3, <1>4 DEF Successes
<1> QED
  BY <1>1, <1>5, <1>6 DEF Quiet, new

\* What a commit does: the whole batch is applied to the committed units, the
\* generation of its profile advances by one, its attempt succeeds.
LEMMA CommitEffect ==
    ASSUME PublicationInv, NEW p \in Proc, Commit(p)
    PROVE  /\ op[p].batch \in Batch
           /\ Accepted(db, op[p].batch)
           /\ db.kind[op[p].batch.profile] # "absent"
           /\ db'.kind = db.kind
           /\ UnitsReplaced(db.units, db'.units, op[p])
           /\ op[p].next = Len(op[p].batch.install) + 1
           /\ op[p].base = db.gen[op[p].batch.profile]
           /\ db'.gen = [db.gen EXCEPT ![op[p].batch.profile] = @ + 1]
           /\ op[p].attempt = Len(db.attempts)
           /\ op[p].attempt \in DOMAIN db.attempts
           /\ db.attempts[op[p].attempt].state = "in_progress"
           /\ db.attempts[op[p].attempt].profile = op[p].batch.profile
           /\ db.attempts[op[p].attempt].slots = BatchActions(op[p].batch)
           /\ db'.attempts = [db.attempts EXCEPT ![op[p].attempt] =
                                  Finished(@, "succeeded")]
<1>1. pc[p] = "finished" /\ db' = tx.db
  BY DEF Commit
<1>2. op[p].batch \in Batch
  BY <1>1, ActiveOperation DEF Active
<1>3. /\ OperationStaysAccepted /\ LiveAttemptIsOpen /\ TransactionIsReplacement
  BY DEF PublicationInv
<1>4. /\ Accepted(db, op[p].batch)
      /\ db.kind[op[p].batch.profile] # "absent"
  BY <1>1, <1>3 DEF OperationStaysAccepted, Active
<1>5. /\ op[p].base = db.gen[op[p].batch.profile]
      /\ op[p].attempt = Len(db.attempts)
      /\ op[p].attempt \in DOMAIN db.attempts
      /\ db.attempts[op[p].attempt].state = "in_progress"
      /\ db.attempts[op[p].attempt].profile = op[p].batch.profile
      /\ db.attempts[op[p].attempt].slots = BatchActions(op[p].batch)
  BY <1>1, <1>3 DEF LiveAttemptIsOpen, Active
<1> QED
  BY <1>1, <1>2, <1>3, <1>4, <1>5 DEF TransactionIsReplacement

LEMMA DatabaseStep ==
    ASSUME PublicationInv, [Next]_vars
    PROVE  Quiet(db, db') \/ \E p \in Proc : Commit(p)
<1>1. db \in Database
  BY DEF PublicationInv, TypeOK
<1>2. db' = db => Quiet(db, db')
  BY DEF Quiet
<1>3. ASSUME NEW p \in Proc, ProcNext(p), ~Commit(p), db' # db
      PROVE  Quiet(db, db')
  <2>1. CASE Recover(p)
    BY <1>1, <2>1, QuietWithRecovered DEF Recover
  <2>2. CASE \E q \in Profile, k \in Kind \ {"absent"} : EnsureProfile(p, q, k)
    <3>1. PICK q \in Profile, k \in Kind : db' = [db EXCEPT !.kind[q] = k]
      BY <2>2 DEF EnsureProfile
    <3>2. /\ db'.units = db.units /\ db'.gen = db.gen
          /\ db'.attempts = db.attempts
      BY <1>1, <3>1 DEF Database
    <3> QED
      BY <3>2 DEF Quiet, Successes
  <2>3. ASSUME NEW q \in Profile, NEW layer \in Layer, NEW state \in AttemptState,
               state \notin {"interrupted", "succeeded"},
               NEW slots \in [Slot -> Action],
               db' = WithAttempt(db, NewAttempt(q, layer, state, slots))
        PROVE  Quiet(db, db')
    <3>1. /\ NewAttempt(q, layer, state, slots) \in Attempt
          /\ NewAttempt(q, layer, state, slots).state # "succeeded"
      BY <2>3, NewAttemptType DEF NewAttempt
    <3> QED
      BY <1>1, <2>3, <3>1, QuietWithAttempt
  <2>4. CASE \E q \in Profile :
                \/ \E slots \in SUBSET Slot : RecordRejected(p, q, slots)
                \/ \E layer \in {"retrieval", "deep"} :
                      RecordAuxiliaryFailure(p, q, layer)
    BY <2>3, <2>4, ActionsType
       DEF RecordRejected, RecordAuxiliaryFailure, Layer, AttemptState
  <2>5. CASE \E b \in Batches : PublishRejected(p, b) \/ PublishRecord(p, b)
    <3>1. PICK b \in Batches : PublishRejected(p, b) \/ PublishRecord(p, b)
      BY <2>5
    <3>2. b.profile \in Profile
      BY ParametersAssumption DEF Batch
    <3> QED
      BY <2>3, <3>1, <3>2, ActionsType
         DEF PublishRejected, PublishRecord, Layer, AttemptState
  <2>6. CASE MarkFailed(p)
    <3>1. pc[p] \in Active /\ db' = WithFinished(db, op[p].attempt, "failed")
      BY <2>6 DEF MarkFailed, ReturnFailed, Active
    <3>2. /\ op[p].attempt \in DOMAIN db.attempts
          /\ db.attempts[op[p].attempt].state = "in_progress"
      BY <3>1 DEF PublicationInv, LiveAttemptIsOpen
    <3>3. op[p].attempt \in 1 .. Len(db.attempts)
      BY <1>1, <3>2 DEF Database
    <3> QED
      BY <1>1, <3>1, <3>2, <3>3, QuietWithFailed
  <2> QED
    BY <1>3, <2>1, <2>2, <2>4, <2>5, <2>6
       DEF ProcNext, Advance, Acquire, RecoverFails, Release, Crash,
           PublishNoOp, PublishRecordFails, RemoveOld, InsertUnit,
           FinishReplacement, Fail, MarkFailedFails
<1>4. CASE \E p \in Proc : ProcNext(p)
  BY <1>2, <1>3, <1>4
<1>5. CASE UNCHANGED vars \/ \E r \in Reader : OpenSnapshot(r) \/ CloseSnapshot(r)
  BY <1>2, <1>5 DEF vars, OpenSnapshot, CloseSnapshot
<1> QED
  BY <1>4, <1>5 DEF Next

----------------------------------------------------------------------------
\* Publication replaces whole batches.

LEMMA CommitIsAtomic ==
    ASSUME PublicationInv, NEW p \in Proc, Commit(p)
    PROVE  pc[p] = "finished" /\ BatchApplied(db, op[p].batch, db')
<1> DEFINE o == op[p]
           b == op[p].batch
<1>1. /\ b \in Batch /\ UnitsReplaced(db.units, db'.units, o)
      /\ o.next = Len(b.install) + 1 /\ ValidBatch(b)
      /\ db.gen[b.profile] \in Nat /\ o.base = db.gen[b.profile]
      /\ o.attempt \in Nat
  <2>1. o.attempt \in Nat /\ o.base \in Nat
    BY ActiveOperation DEF Commit, Active
  <2> QED
    BY <2>1, CommitEffect DEF Accepted
<1>2. /\ Len(b.install) \in Nat /\ DOMAIN b.install = 1 .. Len(b.install)
      /\ \A i \in DOMAIN b.install : b.install[i] \in Entry
  BY <1>1, BatchParts
<1>3. ASSUME NEW s \in InstallSlots(b)
      PROVE  \E i \in DOMAIN b.install :
                /\ b.install[i].slot = s
                /\ db'.units[b.profile][s] # NoUnit
                /\ db'.units[b.profile][s].label = b.install[i].label
                /\ db'.units[b.profile][s].facts = b.install[i].facts
  <2>1. PICK i \in DOMAIN b.install : b.install[i].slot = s
    BY DEF InstallSlots
  <2>2. db'.units[b.profile][s] =
           NewUnit(b.install[i], o.base + 1, o.attempt)
    BY <1>1, <1>2, <2>1, SMTT(40) DEF UnitsReplaced
  <2>3. NewUnit(b.install[i], o.base + 1, o.attempt) \in Unit
    BY <1>1, <1>2 DEF NewUnit, Unit, Entry
  <2> QED
    BY <2>1, <2>2, <2>3, AbsentValuesAssumption, SMTT(40) DEF NewUnit
<1>4. \A s \in RetireSlots(b) : db'.units[b.profile][s] = NoUnit
  BY <1>1 DEF UnitsReplaced
<1>5. \A q \in Profile, s \in Slot :
         q # b.profile \/ s \notin BatchSlots(b) =>
            db'.units[q][s] = db.units[q][s]
  BY <1>1 DEF UnitsReplaced
<1>6. pc[p] = "finished"
  BY DEF Commit
<1> QED
  BY <1>3, <1>4, <1>5, <1>6 DEF BatchApplied, BatchSlots

\* Whatever processes do, and wherever they die, the committed units only
\* ever move from one state to that state with a whole batch applied.
THEOREM PublicationIsAtomic == Spec => ReplacementIsAtomic
<1>1. PublicationInv /\ [Next]_vars => [ReplacementStep]_vars
  BY DatabaseStep, CommitIsAtomic DEF Quiet, ReplacementStep
<1> QED
  BY <1>1, PublicationInvariant, PTL DEF Spec, ReplacementIsAtomic

----------------------------------------------------------------------------
\* The generation names the content.

LEMMA GenerationStep ==
    ASSUME PublicationInv, [Next]_vars, NEW q \in Profile
    PROVE  \/ db'.gen[q] = db.gen[q] /\ db'.units[q] = db.units[q]
           \/ db'.gen[q] = db.gen[q] + 1
<1>1. CASE Quiet(db, db')
  BY <1>1 DEF Quiet
<1>2. CASE \E p \in Proc : Commit(p)
  <2>1. PICK p \in Proc : Commit(p)
    BY <1>2
  <2>2. /\ UnitsReplaced(db.units, db'.units, op[p])
        /\ db'.gen = [db.gen EXCEPT ![op[p].batch.profile] = @ + 1]
    BY <2>1, CommitEffect
  <2>3. db \in Database /\ db' \in Database
    BY <2>1, HolderIsAlone DEF PublicationInv, TypeOK, Commit
  <2>4. CASE q = op[p].batch.profile
    BY <2>2, <2>3, <2>4 DEF Database
  <2>5. CASE q # op[p].batch.profile
    <3>1. \A s \in Slot : db'.units[q][s] = db.units[q][s]
      BY <2>2, <2>5 DEF UnitsReplaced
    <3>2. db'.units[q] = db.units[q]
      BY <2>3, <3>1 DEF Database
    <3> QED
      BY <2>2, <2>3, <2>5, <3>2 DEF Database
  <2> QED
    BY <2>4, <2>5
<1> QED
  BY <1>1, <1>2, DatabaseStep

LEMMA SnapshotStep ==
    ASSUME PublicationInv, [Next]_vars, NEW r \in Reader, snap'[r] # NoSnap
    PROVE  snap'[r] = snap[r] \/ (snap'[r] = db /\ db' = db)
<1>1. snap \in [Reader -> Database \cup {NoSnap}]
  BY DEF PublicationInv, TypeOK
<1>2. \/ snap' = snap
      \/ \E x \in Reader : \/ snap' = [snap EXCEPT ![x] = db] /\ db' = db
                           \/ snap' = [snap EXCEPT ![x] = NoSnap]
  BY DEF Next, ProcNext, Advance, vars, Acquire, Recover, RecoverFails,
         Release, Crash, EnsureProfile, RecordRejected,
         RecordAuxiliaryFailure, PublishRejected, PublishNoOp, PublishRecord,
         PublishRecordFails, RemoveOld, InsertUnit, FinishReplacement, Commit,
         Fail, MarkFailed, MarkFailedFails, ReturnFailed, OpenSnapshot,
         CloseSnapshot
<1> QED
  BY <1>1, <1>2

LEMMA GenerationNamesContentStep ==
    ASSUME PublicationInv, PublicationInv', GenerationNamesContent, [Next]_vars
    PROVE  GenerationNamesContent'
<1> SUFFICES ASSUME NEW r \in Reader, snap'[r] # NoSnap, NEW q \in Profile
             PROVE  /\ snap'[r].gen[q] <= db'.gen[q]
                    /\ snap'[r].gen[q] = db'.gen[q] =>
                          snap'[r].units[q] = db'.units[q]
  BY DEF GenerationNamesContent
<1>1. /\ db \in Database /\ db' \in Database
      /\ snap \in [Reader -> Database \cup {NoSnap}]
  BY DEF PublicationInv, TypeOK
<1>2. CASE snap[r] # NoSnap /\ snap'[r] = snap[r]
  <2>1. /\ snap[r].gen[q] <= db.gen[q]
        /\ snap[r].gen[q] = db.gen[q] => snap[r].units[q] = db.units[q]
    BY <1>2 DEF GenerationNamesContent
  <2>2. snap[r].gen[q] \in Nat /\ db.gen[q] \in Nat
    BY <1>1, <1>2 DEF Database
  <2> QED
    BY <1>2, <2>1, <2>2, GenerationStep
<1>3. CASE snap'[r] = db /\ db' = db
  <2>1. db.gen[q] \in Nat
    BY <1>1 DEF Database
  <2> QED
    BY <1>3, <2>1
<1>4. snap'[r] = snap[r] \/ (snap'[r] = db /\ db' = db)
  BY SnapshotStep
<1> QED
  BY <1>2, <1>3, <1>4

\* For any readers pinned to any states: a generation that has not moved
\* means units that have not changed.
THEOREM GenerationNamesContentInvariant == Spec => []GenerationNamesContent
<1>1. Init => GenerationNamesContent
  BY DEF Init, GenerationNamesContent
<1>2. /\ PublicationInv /\ PublicationInv' /\ [Next]_vars
      /\ GenerationNamesContent
      => GenerationNamesContent'
  BY GenerationNamesContentStep
<1> QED
  BY <1>1, <1>2, PublicationInvariant, PTL DEF Spec

----------------------------------------------------------------------------
\* The committed units are the replay of the succeeded attempts.

LEMMA SuccessesAfterCommit ==
    ASSUME PublicationInv, NEW p \in Proc, Commit(p), NEW q \in Profile
    PROVE  LET k == op[p].attempt
           IN  /\ k \in Nat /\ k \notin Successes(db, q)
               /\ \A i \in Successes(db, q) : i \in Nat /\ i < k
               /\ Successes(db', q) =
                     IF q = op[p].batch.profile
                     THEN Successes(db, q) \cup {k} ELSE Successes(db, q)
               /\ \A i \in Successes(db, q) :
                     db'.attempts[i] = db.attempts[i]
               /\ db'.attempts[k].slots = BatchActions(op[p].batch)
<1> DEFINE k == op[p].attempt
<1>1. /\ k = Len(db.attempts) /\ k \in DOMAIN db.attempts
      /\ db.attempts[k].state = "in_progress"
      /\ db.attempts[k].profile = op[p].batch.profile
      /\ db.attempts[k].slots = BatchActions(op[p].batch)
      /\ db'.attempts = [db.attempts EXCEPT ![k] = Finished(@, "succeeded")]
  BY CommitEffect
<1>2. db.attempts \in Seq(Attempt)
  BY DEF PublicationInv, TypeOK, Database
<1>3. db.attempts[k] \in Attempt
  BY <1>1, <1>2
<1>4. /\ Finished(db.attempts[k], "succeeded").state = "succeeded"
      /\ Finished(db.attempts[k], "succeeded").profile = op[p].batch.profile
      /\ Finished(db.attempts[k], "succeeded").slots = BatchActions(op[p].batch)
  BY <1>1, <1>3 DEF Finished, Attempt, AttemptRow
<1> HIDE DEF k
<1>5. /\ DOMAIN db.attempts = 1 .. k /\ k \in Nat
      /\ DOMAIN db'.attempts = DOMAIN db.attempts
      /\ \A i \in DOMAIN db.attempts : i # k => db'.attempts[i] = db.attempts[i]
      /\ db'.attempts[k] = Finished(db.attempts[k], "succeeded")
  BY <1>1, <1>2
<1>6. k \notin Successes(db, q)
  BY <1>1 DEF Successes
<1>7. \A i \in Successes(db, q) : i \in Nat /\ i < k
  BY <1>5, <1>6 DEF Successes
<1>8. Successes(db', q) = IF q = op[p].batch.profile
                          THEN Successes(db, q) \cup {k} ELSE Successes(db, q)
  BY <1>1, <1>4, <1>5, <1>6 DEF Successes
<1>9. \A i \in Successes(db, q) : db'.attempts[i] = db.attempts[i]
  BY <1>5, <1>6 DEF Successes
<1> QED
  BY <1>4, <1>5, <1>6, <1>7, <1>8, <1>9 DEF k

LEMMA ReplayedAfterCommit ==
    ASSUME PublicationInv, Replayed(db), NEW p \in Proc, Commit(p)
    PROVE  Replayed(db')
<1> DEFINE o == op[p]
           b == op[p].batch
           k == op[p].attempt
           Before(q, s) == {i \in Successes(db, q) :
                               db.attempts[i].slots[s] # "none"}
           After(q, s) == {i \in Successes(db', q) :
                               db'.attempts[i].slots[s] # "none"}
<1>1. /\ b \in Batch /\ UnitsReplaced(db.units, db'.units, o)
      /\ o.next = Len(b.install) + 1 /\ ValidBatch(b)
  BY CommitEffect DEF Accepted
<1>2. /\ Len(b.install) \in Nat /\ DOMAIN b.install = 1 .. Len(b.install)
      /\ \A i \in DOMAIN b.install : b.install[i] \in Entry
  BY <1>1, BatchParts
<1>3. o.base \in Nat /\ o.attempt \in Nat
  BY ActiveOperation DEF Commit, Active
<1>4. SUFFICES ASSUME NEW q \in Profile, NEW s \in Slot
               PROVE  LET u == db'.units[q][s]
                      IN  IF u = NoUnit
                          THEN \A i \in After(q, s) :
                                  db'.attempts[i].slots[s] = "install" =>
                                     \E j \in After(q, s) :
                                        /\ j > i
                                        /\ db'.attempts[j].slots[s] = "retire"
                          ELSE /\ u.attempt \in After(q, s)
                               /\ db'.attempts[u.attempt].slots[s] = "install"
                               /\ \A j \in After(q, s) : j <= u.attempt
  BY DEF Replayed
<1>5. /\ k \in Nat /\ k \notin Successes(db, q)
      /\ \A i \in Successes(db, q) : i \in Nat /\ i < k
      /\ Successes(db', q) = IF q = b.profile THEN Successes(db, q) \cup {k}
                             ELSE Successes(db, q)
      /\ \A i \in Successes(db, q) : db'.attempts[i] = db.attempts[i]
      /\ db'.attempts[k].slots[s] =
            IF s \in InstallSlots(b) THEN "install"
            ELSE IF s \in RetireSlots(b) THEN "retire" ELSE "none"
  <2>1. /\ k \in Nat /\ k \notin Successes(db, q)
        /\ \A i \in Successes(db, q) : i \in Nat /\ i < k
        /\ Successes(db', q) = IF q = b.profile THEN Successes(db, q) \cup {k}
                               ELSE Successes(db, q)
        /\ \A i \in Successes(db, q) : db'.attempts[i] = db.attempts[i]
        /\ db'.attempts[k].slots = BatchActions(b)
    BY SuccessesAfterCommit
  <2>2. BatchActions(b)[s] =
           IF s \in InstallSlots(b) THEN "install"
           ELSE IF s \in RetireSlots(b) THEN "retire" ELSE "none"
    BY DEF BatchActions
  <2> HIDE DEF k, b
  <2> QED
    BY <2>1, <2>2
<1>6. LET u == db.units[q][s]
      IN  IF u = NoUnit
          THEN \A i \in Before(q, s) :
                  db.attempts[i].slots[s] = "install" =>
                     \E j \in Before(q, s) :
                        j > i /\ db.attempts[j].slots[s] = "retire"
          ELSE /\ u.attempt \in Before(q, s)
               /\ db.attempts[u.attempt].slots[s] = "install"
               /\ \A j \in Before(q, s) : j <= u.attempt
  BY DEF Replayed
<1>7. CASE q # b.profile \/ s \notin BatchSlots(b)
  <2>1. db'.units[q][s] = db.units[q][s]
    BY <1>1, <1>7 DEF UnitsReplaced
  <2>2. After(q, s) = Before(q, s)
    BY <1>5, <1>7 DEF BatchSlots
  <2>3. \A i \in Before(q, s) : db'.attempts[i] = db.attempts[i]
    BY <1>5
  <2> HIDE DEF Before, After
  <2> QED
    BY <1>6, <2>1, <2>2, <2>3
<1>8. CASE q = b.profile /\ s \in InstallSlots(b)
  <2>1. PICK i \in DOMAIN b.install : b.install[i].slot = s
    BY <1>8 DEF InstallSlots
  <2>2. db'.units[q][s] = NewUnit(b.install[i], o.base + 1, k)
    BY <1>1, <1>2, <1>8, <2>1 DEF UnitsReplaced
  <2>3. /\ NewUnit(b.install[i], o.base + 1, k) \in Unit
        /\ NewUnit(b.install[i], o.base + 1, k).attempt = k
    BY <1>2, <1>3 DEF NewUnit, Unit, Entry
  <2>4. db'.units[q][s] # NoUnit /\ db'.units[q][s].attempt = k
    BY <2>2, <2>3, AbsentValuesAssumption
  <2>5. /\ k \in After(q, s) /\ db'.attempts[k].slots[s] = "install"
        /\ \A j \in After(q, s) : j <= k
    BY <1>5, <1>8
  <2> QED
    BY <2>4, <2>5
<1>9. CASE q = b.profile /\ s \in RetireSlots(b)
  <2>1. db'.units[q][s] = NoUnit
    BY <1>1, <1>9 DEF UnitsReplaced
  <2>2. s \notin InstallSlots(b)
    BY <1>1, <1>9 DEF ValidBatch
  <2>3. /\ k \in After(q, s) /\ db'.attempts[k].slots[s] = "retire"
        /\ \A i \in After(q, s) : i # k => k > i
    BY <1>5, <1>9, <2>2
  <2> QED
    BY <2>1, <2>3
<1> QED
  BY <1>7, <1>8, <1>9 DEF BatchSlots

LEMMA ReplayedAfterQuiet ==
    ASSUME NEW d, NEW e, Quiet(d, e), Replayed(d)
    PROVE  Replayed(e)
<1> SUFFICES ASSUME NEW q \in Profile, NEW s \in Slot
             PROVE  LET u == e.units[q][s]
                        T == {i \in Successes(e, q) :
                                 e.attempts[i].slots[s] # "none"}
                    IN  IF u = NoUnit
                        THEN \A i \in T : e.attempts[i].slots[s] = "install" =>
                                \E j \in T : /\ j > i
                                             /\ e.attempts[j].slots[s] = "retire"
                        ELSE /\ u.attempt \in T
                             /\ e.attempts[u.attempt].slots[s] = "install"
                             /\ \A j \in T : j <= u.attempt
  BY DEF Replayed
<1>1. /\ e.units = d.units /\ Successes(e, q) = Successes(d, q)
      /\ \A i \in Successes(d, q) : e.attempts[i].slots = d.attempts[i].slots
  BY DEF Quiet
<1>2. {i \in Successes(e, q) : e.attempts[i].slots[s] # "none"} =
         {i \in Successes(d, q) : d.attempts[i].slots[s] # "none"}
  BY <1>1
<1> QED
  BY <1>1, <1>2 DEF Replayed

LEMMA UnitsAreReplayStep ==
    ASSUME PublicationInv, UnitsAreReplay, [Next]_vars
    PROVE  UnitsAreReplay'
<1>1. Replayed(db)'
  BY DatabaseStep, ReplayedAfterCommit, ReplayedAfterQuiet DEF UnitsAreReplay
<1>2. ASSUME NEW r \in Reader, snap'[r] # NoSnap
      PROVE  Replayed(snap[r])'
  BY <1>2, SnapshotStep DEF UnitsAreReplay
<1> QED
  BY <1>1, <1>2 DEF UnitsAreReplay

\* Nothing that failed, was refused or was interrupted is visible, and nothing
\* that succeeded is lost: in the committed database and to every reader, the
\* units are what the succeeded attempts leave, in order.
THEOREM UnitsAreReplayInvariant == Spec => []UnitsAreReplay
<1>1. Init => UnitsAreReplay
  BY DEF Init, EmptyDatabase, UnitsAreReplay, Replayed, Successes
<1>2. PublicationInv /\ UnitsAreReplay /\ [Next]_vars => UnitsAreReplay'
  BY UnitsAreReplayStep
<1> QED
  BY <1>1, <1>2, PublicationInvariant, PTL DEF Spec

----------------------------------------------------------------------------
\* The generation counts the succeeded publications.

LEMMA CountedAfterQuiet ==
    ASSUME NEW d, NEW e, Quiet(d, e), Counted(d)
    PROVE  Counted(e)
BY DEF Quiet, Counted

LEMMA CountedAfterCommit ==
    ASSUME PublicationInv, Replayed(db), Counted(db), NEW p \in Proc, Commit(p)
    PROVE  Counted(db')
<1> DEFINE o == op[p]
           b == op[p].batch
           k == op[p].attempt
           Upto(n, S) == {i \in S : i <= n}
<1>1. /\ b \in Batch /\ UnitsReplaced(db.units, db'.units, o)
      /\ o.next = Len(b.install) + 1
      /\ o.base = db.gen[b.profile]
      /\ db'.gen = [db.gen EXCEPT ![b.profile] = @ + 1]
  BY CommitEffect
<1>2. /\ DOMAIN b.install = 1 .. Len(b.install) /\ Len(b.install) \in Nat
      /\ \A i \in DOMAIN b.install : b.install[i] \in Entry
  BY <1>1, BatchParts
<1>3. o.base \in Nat /\ o.attempt \in Nat /\ db \in Database
  BY ActiveOperation DEF Commit, Active, PublicationInv, TypeOK
<1>4. SUFFICES ASSUME NEW q \in Profile
               PROVE  /\ db'.gen[q] = Cardinality(Successes(db', q))
                      /\ \A s \in Slot : db'.units[q][s] # NoUnit =>
                            db'.units[q][s].gen =
                               Cardinality({i \in Successes(db', q) :
                                               i <= db'.units[q][s].attempt})
  BY DEF Counted
<1>5. /\ k \in Nat /\ k \notin Successes(db, q)
      /\ \A i \in Successes(db, q) : i \in Nat /\ i < k
      /\ Successes(db', q) = IF q = b.profile THEN Successes(db, q) \cup {k}
                             ELSE Successes(db, q)
  BY SuccessesAfterCommit
<1>6. IsFiniteSet(Successes(db, q))
  <2>1. Successes(db, q) \subseteq 0 .. k
    BY <1>5
  <2>2. IsFiniteSet(0 .. k)
    <3>1. 0 \in Int /\ k \in Int
      BY <1>5
    <3> HIDE DEF k
    <3> QED
      BY <3>1, FS_Interval
  <2> HIDE DEF k
  <2> QED
    BY <2>1, <2>2, FS_Subset
<1>7. db.gen[q] = Cardinality(Successes(db, q)) /\ db.gen[q] \in Nat
  BY <1>3 DEF Counted, Database
<1>8. q = b.profile => Cardinality(Successes(db', q)) = db.gen[q] + 1
  <2>1. Cardinality(Successes(db, q) \cup {k}) = db.gen[q] + 1
    <3> HIDE DEF k
    <3> QED
      BY <1>5, <1>6, <1>7, FS_AddElement
  <2> QED
    BY <1>5, <2>1
<1>9. db'.gen[q] = Cardinality(Successes(db', q))
  BY <1>1, <1>3, <1>5, <1>7, <1>8 DEF Database
<1>10. ASSUME NEW s \in Slot, db'.units[q][s] # NoUnit
       PROVE  db'.units[q][s].gen =
                 Cardinality({i \in Successes(db', q) :
                                 i <= db'.units[q][s].attempt})
  <2>1. CASE q # b.profile \/ s \notin BatchSlots(b)
    <3>1. db'.units[q][s] = db.units[q][s]
      BY <1>1, <2>1 DEF UnitsReplaced
    <3>2. db.units[q][s].attempt \in Successes(db, q)
      BY <1>10, <3>1 DEF Replayed
    <3>3. {i \in Successes(db', q) : i <= db.units[q][s].attempt} =
             {i \in Successes(db, q) : i <= db.units[q][s].attempt}
      BY <1>5, <3>2
    <3> QED
      BY <1>10, <3>1, <3>3 DEF Counted
  <2>2. CASE q = b.profile /\ s \in RetireSlots(b)
    BY <1>1, <1>10, <2>2 DEF UnitsReplaced
  <2>3. CASE q = b.profile /\ s \in InstallSlots(b)
    <3>1. PICK i \in DOMAIN b.install : b.install[i].slot = s
      BY <2>3 DEF InstallSlots
    <3>2. db'.units[q][s] = NewUnit(b.install[i], o.base + 1, k)
      <4>1. \A j \in DOMAIN b.install :
               db'.units[b.profile][b.install[j].slot] =
                  IF j < o.next THEN NewUnit(b.install[j], o.base + 1, k)
                  ELSE NoUnit
        BY <1>1 DEF UnitsReplaced
      <4>2. i < o.next
        BY <1>1, <1>2, <3>1
      <4> QED
        BY <2>3, <3>1, <4>1, <4>2
    <3>3. db'.units[q][s].gen = db.gen[q] + 1 /\ db'.units[q][s].attempt = k
      BY <1>1, <2>3, <3>2 DEF NewUnit
    <3>4. {j \in Successes(db', q) : j <= k} = Successes(db', q)
      BY <1>5, <2>3
    <3> QED
      BY <1>8, <2>3, <3>3, <3>4
  <2> QED
    BY <2>1, <2>2, <2>3 DEF BatchSlots
<1> QED
  BY <1>9, <1>10

\* A profile's generation is the number of its succeeded publications, for the
\* committed database and for every pinned state.
THEOREM GenerationCountsSuccessesInvariant ==
    Spec => []GenerationCountsSuccesses
<1>1. Init => GenerationCountsSuccesses
  <2> SUFFICES ASSUME Init PROVE GenerationCountsSuccesses
    OBVIOUS
  <2>1. \A q \in Profile : Successes(db, q) = {}
    BY DEF Init, EmptyDatabase, Successes
  <2> QED
    BY <2>1, FS_EmptySet
       DEF Init, EmptyDatabase, GenerationCountsSuccesses, Counted
<1>2. /\ PublicationInv /\ UnitsAreReplay /\ [Next]_vars
      /\ GenerationCountsSuccesses
      => GenerationCountsSuccesses'
  <2> SUFFICES ASSUME PublicationInv, UnitsAreReplay, [Next]_vars,
                      GenerationCountsSuccesses
               PROVE  GenerationCountsSuccesses'
    OBVIOUS
  <2>1. Counted(db)'
    BY DatabaseStep, CountedAfterCommit, CountedAfterQuiet
       DEF UnitsAreReplay, GenerationCountsSuccesses
  <2>2. ASSUME NEW r \in Reader, snap'[r] # NoSnap
        PROVE  Counted(snap[r])'
    BY <2>2, SnapshotStep DEF GenerationCountsSuccesses
  <2> QED
    BY <2>1, <2>2 DEF GenerationCountsSuccesses
<1> QED
  BY <1>1, <1>2, PublicationInvariant, UnitsAreReplayInvariant, PTL DEF Spec

----------------------------------------------------------------------------
\* The store implements its contract.

\* The whole batch replaced: labels stay unique.
LEMMA LabelsUniqueAfterCommit ==
    ASSUME PublicationInv, UniqueLabels(db.units), NEW p \in Proc, Commit(p)
    PROVE  UniqueLabels(db'.units)
<1> DEFINE o == op[p]
           b == op[p].batch
           Installed(s, i) == /\ i \in DOMAIN b.install
                              /\ b.install[i].slot = s
                              /\ db'.units[b.profile][s].label = b.install[i].label
<1>1. /\ b \in Batch /\ UnitsReplaced(db.units, db'.units, o)
      /\ ValidBatch(b) /\ ~LabelConflict(db.units[b.profile], b)
  BY CommitEffect DEF Accepted
<1>2. BatchApplied(db, b, db')
  BY CommitIsAtomic
<1>3. SUFFICES ASSUME NEW q \in Profile, NEW s \in Slot, NEW t \in Slot,
                      db'.units[q][s] # NoUnit, db'.units[q][t] # NoUnit,
                      db'.units[q][s].label = db'.units[q][t].label
               PROVE  s = t
  BY DEF UniqueLabels
<1>4. ASSUME NEW x \in Slot, db'.units[q][x] # NoUnit
      PROVE  \/ db'.units[q][x] = db.units[q][x] /\ (q = b.profile => x \notin BatchSlots(b))
             \/ q = b.profile /\ \E i \in DOMAIN b.install : Installed(x, i)
  BY <1>2, <1>4 DEF BatchApplied
<1>5. CASE q # b.profile
  BY <1>3, <1>4, <1>5 DEF UniqueLabels
<1>6. CASE q = b.profile
  <2>1. CASE (\E i \in DOMAIN b.install : Installed(s, i))
             /\ (\E j \in DOMAIN b.install : Installed(t, j))
    BY <1>1, <1>3, <1>6, <2>1 DEF ValidBatch
  <2>2. ASSUME NEW x \in Slot \ BatchSlots(b), db.units[q][x] # NoUnit,
               NEW i \in DOMAIN b.install,
               db.units[q][x].label = b.install[i].label
        PROVE  FALSE
    BY <1>1, <1>6, <2>2 DEF LabelConflict
  <2>3. CASE /\ db'.units[q][s] = db.units[q][s] /\ s \notin BatchSlots(b)
             /\ db'.units[q][t] = db.units[q][t] /\ t \notin BatchSlots(b)
    BY <1>3, <2>3 DEF UniqueLabels
  <2>4. CASE /\ db'.units[q][s] = db.units[q][s] /\ s \notin BatchSlots(b)
             /\ \E i \in DOMAIN b.install : Installed(t, i)
    <3>1. PICK i \in DOMAIN b.install : Installed(t, i)
      BY <2>4
    <3> QED
      BY <1>3, <1>6, <2>2, <2>4, <3>1
  <2>5. CASE /\ db'.units[q][t] = db.units[q][t] /\ t \notin BatchSlots(b)
             /\ \E i \in DOMAIN b.install : Installed(s, i)
    <3>1. PICK i \in DOMAIN b.install : Installed(s, i)
      BY <2>5
    <3> QED
      BY <1>3, <1>6, <2>2, <2>5, <3>1
  <2> HIDE DEF Installed
  <2> QED
    BY <1>3, <1>4, <1>6, <2>1, <2>3, <2>4, <2>5
<1> QED
  BY <1>5, <1>6

\* Within a profile a fact label never names two live slots.
THEOREM UniqueLabelsInvariant == Spec => []UniqueLabels(db.units)
<1>1. Init => UniqueLabels(db.units)
  BY DEF Init, EmptyDatabase, UniqueLabels
<1>2. PublicationInv /\ UniqueLabels(db.units) /\ [Next]_vars
      => UniqueLabels(db.units)'
  BY DatabaseStep, LabelsUniqueAfterCommit DEF Quiet
<1> QED
  BY <1>1, <1>2, PublicationInvariant, PTL DEF Spec

LEMMA ContentIsContent ==
    ASSUME NEW d \in Database, UniqueLabels(d.units), NEW q \in Profile
    PROVE  ContentOf(d.units)[q] \in Contract!Content
<1> DEFINE c == ContentOf(d.units)[q]
<1>1. \A s \in Slot : d.units[q][s] \in Unit \cup {NoUnit}
  BY DEF Database
<1>2. \A s \in Slot : c[s] = IF d.units[q][s] = NoUnit THEN NoUnit
                             ELSE [label |-> d.units[q][s].label,
                                   facts |-> d.units[q][s].facts]
  BY DEF ContentOf
<1> HIDE DEF c
<1>3. ASSUME NEW s \in Slot, d.units[q][s] # NoUnit
      PROVE  /\ c[s] \in [label : Label, facts : Facts]
             /\ c[s].label = d.units[q][s].label
  <2>1. d.units[q][s].label \in Label /\ d.units[q][s].facts \in Facts
    BY <1>1, <1>3 DEF Unit
  <2>2. c[s] = [label |-> d.units[q][s].label, facts |-> d.units[q][s].facts]
    BY <1>2, <1>3
  <2> QED
    BY <2>1, <2>2
<1>4. c \in [Slot -> Contract!Published]
  <2>1. c = [s \in Slot |-> c[s]]
    BY DEF ContentOf, c
  <2>2. \A s \in Slot : c[s] \in Contract!Published
    BY <1>2, <1>3 DEF Contract!Published
  <2> QED
    BY <2>1, <2>2
<1>5. Contract!UniqueLabels(c)
  <2> SUFFICES ASSUME NEW s \in Slot, NEW t \in Slot, c[s] # NoUnit,
                      c[t] # NoUnit, c[s].label = c[t].label
               PROVE  s = t
    BY DEF Contract!UniqueLabels
  <2>1. d.units[q][s] # NoUnit /\ d.units[q][t] # NoUnit
    BY <1>2
  <2>2. d.units[q][s].label = d.units[q][t].label
    BY <1>3, <2>1
  <2> QED
    BY <2>1, <2>2 DEF UniqueLabels
<1> QED
  BY <1>4, <1>5 DEF Contract!Content, c

LEMMA InitRefines == Init => Contract!Init
<1> SUFFICES ASSUME Init PROVE Contract!Init
  OBVIOUS
<1>1. ContentOf(db.units) = [q \in Profile |-> [s \in Slot |-> NoUnit]]
  BY DEF Init, EmptyDatabase, ContentOf
<1>2. [r \in Reader |-> ViewOf(snap[r])] = [r \in Reader |-> NoSnap]
  BY DEF Init, ViewOf
<1> QED
  BY <1>1, <1>2 DEF Init, EmptyDatabase, Contract!Init

\* Steps the contract does not see.
LEMMA HiddenStep ==
    ASSUME lock' = lock, snap' = snap, db'.kind = db.kind, db'.gen = db.gen,
           db'.units = db.units
    PROVE  UNCHANGED Contract!vars
BY DEF Contract!vars, ContentOf, ViewOf

LEMMA LockStepsRefine ==
    ASSUME PublicationInv, NEW p \in Proc,
           Acquire(p) \/ RecoverFails(p) \/ Release(p) \/ Crash(p)
    PROVE  Contract!Take(p) \/ Contract!Drop(p)
<1>1. ContentOf(db.units)' = ContentOf(db.units) /\ db' = db
  BY DEF Acquire, RecoverFails, Release, Crash, ContentOf
<1>2. [r \in Reader |-> ViewOf(snap[r])]' = [r \in Reader |-> ViewOf(snap[r])]
  <2>1. snap' = snap
    BY DEF Acquire, RecoverFails, Release, Crash
  <2> QED
    BY <2>1 DEF ViewOf, ContentOf
<1>3. CASE Acquire(p)
  BY <1>1, <1>2, <1>3 DEF Acquire, Contract!Take
<1>4. CASE RecoverFails(p) \/ Release(p) \/ Crash(p)
  <2>1. lock = p
    BY <1>4, HolderIsAlone DEF RecoverFails, Release, Crash
  <2> QED
    BY <1>1, <1>2, <1>4, <2>1 DEF RecoverFails, Release, Crash, Contract!Drop
<1> QED
  BY <1>3, <1>4

LEMMA EnsureProfileRefines ==
    ASSUME PublicationInv, NEW p \in Proc, NEW q \in Profile,
           NEW k \in Kind \ {"absent"}, EnsureProfile(p, q, k)
    PROVE  Contract!CreateProfile(p, q)
<1>1. lock = p
  BY HolderIsAlone DEF EnsureProfile
<1>2. db \in Database /\ lock' = lock /\ snap' = snap
      /\ db.kind[q] = "absent" /\ db' = [db EXCEPT !.kind[q] = k]
  BY DEF EnsureProfile, PublicationInv, TypeOK
<1>3. /\ db'.kind = [db.kind EXCEPT ![q] = k]
      /\ db'.gen = db.gen /\ db'.units = db.units
  BY <1>2 DEF Database
<1>4. ContentOf(db.units)' = ContentOf(db.units)
  BY <1>3 DEF ContentOf
<1>5. [r \in Reader |-> ViewOf(snap[r])]' = [r \in Reader |-> ViewOf(snap[r])]
  BY <1>2 DEF ViewOf, ContentOf
<1> QED
  BY <1>1, <1>2, <1>3, <1>4, <1>5 DEF Contract!CreateProfile, Contract!Kind, Kind

LEMMA CommitRefines ==
    ASSUME PublicationInv, PublicationInv', UniqueLabels(db'.units),
           NEW p \in Proc, Commit(p)
    PROVE  Contract!Publish(p, op[p].batch.profile)
<1> DEFINE q == op[p].batch.profile
<1>1. /\ op[p].batch \in Batch /\ db.kind[q] # "absent" /\ db'.kind = db.kind
      /\ UnitsReplaced(db.units, db'.units, op[p])
      /\ db'.gen = [db.gen EXCEPT ![q] = @ + 1]
  BY CommitEffect
<1>2. lock = p /\ lock' = lock /\ snap' = snap
  BY HolderIsAlone DEF Commit
<1>3. q \in Profile /\ db \in Database /\ db' \in Database
  BY <1>1, BatchParts DEF PublicationInv, TypeOK
<1>4. ContentOf(db'.units)[q] \in Contract!Content
  BY <1>3, ContentIsContent
<1>5. ContentOf(db'.units) =
         [ContentOf(db.units) EXCEPT ![q] = ContentOf(db'.units)[q]]
  <2>1. ASSUME NEW x \in Profile, x # q
        PROVE  ContentOf(db'.units)[x] = ContentOf(db.units)[x]
    <3>1. \A s \in Slot : db'.units[x][s] = db.units[x][s]
      BY <1>1, <2>1 DEF UnitsReplaced
    <3> QED
      BY <3>1 DEF ContentOf
  <2>2. /\ ContentOf(db'.units) = [x \in Profile |-> ContentOf(db'.units)[x]]
        /\ ContentOf(db.units) = [x \in Profile |-> ContentOf(db.units)[x]]
    BY DEF ContentOf
  <2> HIDE DEF q
  <2> QED
    BY <1>3, <2>1, <2>2
<1>6. [r \in Reader |-> ViewOf(snap[r])]' = [r \in Reader |-> ViewOf(snap[r])]
  BY <1>2 DEF ViewOf, ContentOf
<1>7. ContentOf(db.units)' = ContentOf(db'.units)
  BY DEF ContentOf
<1> HIDE DEF q
<1>8. Contract!Publish(p, q)
  BY <1>1, <1>2, <1>4, <1>5, <1>6, <1>7 DEF Contract!Publish
<1> QED
  BY <1>8 DEF q

LEMMA ViewType ==
    ASSUME NEW d \in Database
    PROVE  /\ [kind |-> d.kind, gen |-> d.gen, content |-> ContentOf(d.units)]
                 \in View
           /\ [kind |-> d.kind, gen |-> d.gen, content |-> ContentOf(d.units)]
                 # NoSnap
<1>1. /\ d.kind \in [Profile -> Kind] /\ d.gen \in [Profile -> Nat]
      /\ \A q \in Profile, s \in Slot : d.units[q][s] \in Unit \cup {NoUnit}
  BY DEF Database
<1>2. \A q \in Profile, s \in Slot :
         (IF d.units[q][s] = NoUnit THEN NoUnit
          ELSE [label |-> d.units[q][s].label, facts |-> d.units[q][s].facts])
            \in [label : Label, facts : Facts] \cup {NoUnit}
  BY <1>1 DEF Unit
<1>3. ContentOf(d.units) \in
         [Profile -> [Slot -> [label : Label, facts : Facts] \cup {NoUnit}]]
  BY <1>2 DEF ContentOf
<1> QED
  BY <1>1, <1>3, AbsentValuesAssumption DEF View

LEMMA ReaderStepsRefine ==
    ASSUME PublicationInv, NEW r \in Reader,
           OpenSnapshot(r) \/ CloseSnapshot(r)
    PROVE  Contract!OpenView(r) \/ Contract!CloseView(r)
<1> DEFINE seen == [x \in Reader |-> ViewOf(snap[x])]
<1>1. /\ lock' = lock /\ db' = db
      /\ ContentOf(db.units)' = ContentOf(db.units)
  BY DEF OpenSnapshot, CloseSnapshot, ContentOf
<1>2. db \in Database /\ db # NoSnap
      /\ snap \in [Reader -> Database \cup {NoSnap}]
  BY AbsentValuesAssumption DEF PublicationInv, TypeOK
<1>3. ASSUME NEW d
      PROVE  [x \in Reader |-> ViewOf([snap EXCEPT ![r] = d][x])] =
                [seen EXCEPT ![r] = ViewOf(d)]
  BY <1>2
<1>4. seen' = [x \in Reader |-> ViewOf(snap'[x])]
  BY DEF ViewOf, ContentOf
<1>5. CASE OpenSnapshot(r)
  <2>1. snap[r] = NoSnap /\ snap' = [snap EXCEPT ![r] = db]
    BY <1>5 DEF OpenSnapshot
  <2>2. seen[r] = NoSnap /\ seen' = [seen EXCEPT ![r] = ViewOf(db)]
    BY <1>3, <1>4, <2>1 DEF ViewOf
  <2>3. ViewOf(db) = [kind |-> db.kind, gen |-> db.gen,
                      content |-> ContentOf(db.units)]
    BY <1>2 DEF ViewOf
  <2> HIDE DEF seen
  <2>4. Contract!OpenView(r)
    BY <1>1, <2>2, <2>3 DEF Contract!OpenView, Contract!Committed, seen
  <2> QED
    BY <2>4
<1>6. CASE CloseSnapshot(r)
  <2>1. snap[r] # NoSnap /\ snap' = [snap EXCEPT ![r] = NoSnap]
    BY <1>6 DEF CloseSnapshot
  <2>2. seen' = [seen EXCEPT ![r] = NoSnap]
    BY <1>3, <1>4, <2>1 DEF ViewOf
  <2>3. seen[r] # NoSnap
    BY <1>2, <2>1, ViewType DEF ViewOf
  <2>4. Contract!CloseView(r)
    BY <1>1, <2>2, <2>3 DEF Contract!CloseView, seen
  <2> QED
    BY <2>4
<1> QED
  BY <1>5, <1>6

\* The steps that are neither the lock's, nor a profile's creation, nor a
\* commit leave everything the contract shows.
LEMMA OtherStepsHidden ==
    ASSUME PublicationInv, NEW p \in Proc, ProcNext(p),
           ~(Acquire(p) \/ RecoverFails(p) \/ Release(p) \/ Crash(p)),
           ~Commit(p),
           ~\E q \in Profile, k \in Kind \ {"absent"} : EnsureProfile(p, q, k)
    PROVE  UNCHANGED Contract!vars
<1>1. db \in Database
  BY DEF PublicationInv, TypeOK
<1>2. lock' = lock /\ snap' = snap
  BY DEF ProcNext, Advance, Recover, RecordRejected, RecordAuxiliaryFailure,
         PublishRejected, PublishNoOp, PublishRecord, PublishRecordFails,
         RemoveOld, InsertUnit, FinishReplacement, Fail, MarkFailed,
         MarkFailedFails, ReturnFailed
<1>3. ASSUME NEW a
      PROVE  /\ WithAttempt(db, a).kind = db.kind
             /\ WithAttempt(db, a).gen = db.gen
             /\ WithAttempt(db, a).units = db.units
  BY <1>1 DEF WithAttempt, Database
<1>4. ASSUME NEW i
      PROVE  /\ WithFinished(db, i, "failed").kind = db.kind
             /\ WithFinished(db, i, "failed").gen = db.gen
             /\ WithFinished(db, i, "failed").units = db.units
  BY <1>1 DEF WithFinished, Database
<1>5. /\ WithRecovered(db).kind = db.kind
      /\ WithRecovered(db).gen = db.gen
      /\ WithRecovered(db).units = db.units
  BY <1>1, WithRecoveredType
<1>6. \/ db' = db
      \/ \E a : db' = WithAttempt(db, a)
      \/ \E i : db' = WithFinished(db, i, "failed")
      \/ db' = WithRecovered(db)
  BY DEF ProcNext, Advance, Recover, RecordRejected, RecordAuxiliaryFailure,
         PublishRejected, PublishNoOp, PublishRecord, PublishRecordFails,
         RemoveOld, InsertUnit, FinishReplacement, Fail, MarkFailed,
         MarkFailedFails, ReturnFailed
<1>7. db'.kind = db.kind /\ db'.gen = db.gen /\ db'.units = db.units
  BY <1>3, <1>4, <1>5, <1>6
<1> QED
  BY <1>2, <1>7, HiddenStep

LEMMA StepRefines ==
    ASSUME PublicationInv, PublicationInv', UniqueLabels(db.units)',
           [Next]_vars
    PROVE  [Contract!Next]_(Contract!vars)
<1>1. UniqueLabels(db'.units)
  BY DEF UniqueLabels
<1>2. CASE \E p \in Proc : ProcNext(p)
  <2>1. PICK p \in Proc : ProcNext(p)
    BY <1>2
  <2>2. CASE Acquire(p) \/ RecoverFails(p) \/ Release(p) \/ Crash(p)
    BY <2>2, LockStepsRefine DEF Contract!Next
  <2>3. CASE \E q \in Profile, k \in Kind \ {"absent"} : EnsureProfile(p, q, k)
    BY <2>3, EnsureProfileRefines DEF Contract!Next
  <2>4. CASE Commit(p)
    <3>1. op[p].batch.profile \in Profile
      BY <2>4, ActiveOperation DEF Commit, Active
    <3> QED
      BY <1>1, <2>4, <3>1, CommitRefines DEF Contract!Next
  <2> QED
    BY <2>1, <2>2, <2>3, <2>4, OtherStepsHidden
<1>3. CASE \E r \in Reader : OpenSnapshot(r) \/ CloseSnapshot(r)
  BY <1>3, ReaderStepsRefine DEF Contract!Next
<1>4. CASE UNCHANGED vars
  BY <1>4, HiddenStep DEF vars
<1> QED
  BY <1>2, <1>3, <1>4 DEF Next

\* Locks, attempts, transactions, failures and crashes together are invisible:
\* every behaviour of the store is one its contract allows.
THEOREM StoreImplementsContract == Spec => ImplementsContract
<1>1. Init => Contract!Init
  BY InitRefines
<1>2. /\ PublicationInv /\ PublicationInv' /\ UniqueLabels(db.units)'
      /\ [Next]_vars
      => [Contract!Next]_(Contract!vars)
  BY StepRefines
<1> QED
  BY <1>1, <1>2, PublicationInvariant, UniqueLabelsInvariant, PTL
     DEF Spec, ImplementsContract, Contract!Spec

----------------------------------------------------------------------------
\* The writer lock is enough: a write transaction is only ever open for the
\* process that holds the lock and is replacing units.
THEOREM WritersNeverCollideInvariant == Spec => []WritersNeverCollide
<1>1. PublicationInv => WritersNeverCollide
  BY DEF PublicationInv
<1> QED
  BY <1>1, PublicationInvariant, PTL

\* What validation accepted is still acceptable when the batch is committed.
THEOREM OperationStaysAcceptedInvariant == Spec => []OperationStaysAccepted
<1>1. PublicationInv => OperationStaysAccepted
  BY DEF PublicationInv
<1> QED
  BY <1>1, PublicationInvariant, PTL
----------------------------------------------------------------------------
\* The log of attempts.

\* An attempt that ended stays as it is, and none comes to be in progress
\* but a new one.
LogKept(old, new) ==
    /\ Len(old) <= Len(new)
    /\ DOMAIN old \subseteq DOMAIN new
    /\ \A i \in DOMAIN old : old[i].state # "in_progress" => new[i] = old[i]
    /\ \A i \in DOMAIN new : new[i].state = "in_progress" =>
          i > Len(old) \/ (i \in DOMAIN old /\ old[i].state = "in_progress")

LEMMA LogKeptSame ==
    ASSUME NEW d \in Database
    PROVE  LogKept(d.attempts, d.attempts)
<1>1. Len(d.attempts) \in Nat
  BY DEF Database
<1> QED
  BY <1>1 DEF LogKept

LEMMA LogKeptAppend ==
    ASSUME NEW d \in Database, NEW a \in Attempt
    PROVE  /\ LogKept(d.attempts, WithAttempt(d, a).attempts)
           /\ \A i \in DOMAIN d.attempts :
                 WithAttempt(d, a).attempts[i] = d.attempts[i]
           /\ WithAttempt(d, a).attempts[Len(d.attempts) + 1] = a
           /\ DOMAIN WithAttempt(d, a).attempts =
                 DOMAIN d.attempts \cup {Len(d.attempts) + 1}
<1>1. WithAttempt(d, a).attempts = Append(d.attempts, a)
  BY WithAttemptType
<1>2. /\ d.attempts \in Seq(Attempt) /\ Len(d.attempts) \in Nat
      /\ DOMAIN d.attempts = 1 .. Len(d.attempts)
  BY DEF Database
<1>3. /\ DOMAIN Append(d.attempts, a) = DOMAIN d.attempts \cup {Len(d.attempts) + 1}
      /\ Len(Append(d.attempts, a)) = Len(d.attempts) + 1
      /\ Append(d.attempts, a)[Len(d.attempts) + 1] = a
      /\ \A i \in DOMAIN d.attempts : Append(d.attempts, a)[i] = d.attempts[i]
  BY <1>2
<1> QED
  BY <1>1, <1>2, <1>3 DEF LogKept

\* One attempt in progress finishes.
LEMMA LogKeptFinished ==
    ASSUME NEW s \in Seq(Attempt), NEW i \in DOMAIN s,
           s[i].state = "in_progress", NEW state \in {"succeeded", "failed"}
    PROVE  /\ LogKept(s, [s EXCEPT ![i] = Finished(@, state)])
           /\ [s EXCEPT ![i] = Finished(@, state)][i].state = state
<1> DEFINE t == [s EXCEPT ![i] = Finished(@, state)]
<1>1. s[i] \in Attempt
  OBVIOUS
<1>2. Finished(s[i], state) \in Attempt /\ Finished(s[i], state).state = state
  BY <1>1 DEF Finished, Attempt, AttemptRow, AttemptState
<1>3. /\ DOMAIN t = DOMAIN s /\ Len(t) = Len(s) /\ Len(s) \in Nat
      /\ t[i] = Finished(s[i], state)
      /\ \A j \in DOMAIN s : j # i => t[j] = s[j]
  BY <1>2
<1> HIDE DEF t
<1> QED
  BY <1>2, <1>3 DEF LogKept, t

LEMMA LogKeptRecovered ==
    ASSUME NEW d \in Database
    PROVE  /\ LogKept(d.attempts, WithRecovered(d).attempts)
           /\ InProgress(WithRecovered(d)) = {}
<1> DEFINE e == WithRecovered(d)
<1>1. /\ e \in Database /\ Len(e.attempts) = Len(d.attempts)
      /\ \A i \in 1 .. Len(d.attempts) :
            e.attempts[i] = Interrupted(d.attempts[i])
  BY WithRecoveredType
<1>2. /\ Len(d.attempts) \in Nat /\ DOMAIN d.attempts = 1 .. Len(d.attempts)
      /\ \A i \in DOMAIN d.attempts : d.attempts[i] \in Attempt
  BY DEF Database
<1>3. DOMAIN e.attempts = 1 .. Len(e.attempts)
  BY <1>1 DEF Database
<1>4. ASSUME NEW a \in Attempt
      PROVE  /\ Interrupted(a).state # "in_progress"
             /\ a.state # "in_progress" => Interrupted(a) = a
  BY DEF Interrupted, Attempt, AttemptRow
<1> HIDE DEF e
<1> QED
  BY <1>1, <1>2, <1>3, <1>4 DEF LogKept, InProgress, e

\* Every step keeps the log, one of a process that holds the lock without
\* publishing leaves every attempt it found as it is.
LEMMA LogStep ==
    ASSUME PublicationInv, [Next]_vars
    PROVE  /\ LogKept(db.attempts, db'.attempts)
           /\ \A p \in Proc : pc[p] = "holding" =>
                 \A i \in DOMAIN db.attempts : db'.attempts[i] = db.attempts[i]
<1>1. TypeOK /\ db \in Database
  BY DEF PublicationInv, TypeOK
<1>2. CASE db' = db
  BY <1>1, <1>2, LogKeptSame
<1>3. ASSUME NEW q \in Profile, NEW layer \in Layer, NEW state \in AttemptState,
             state # "interrupted", NEW slots \in [Slot -> Action],
             db' = WithAttempt(db, NewAttempt(q, layer, state, slots))
      PROVE  /\ LogKept(db.attempts, db'.attempts)
             /\ \A i \in DOMAIN db.attempts : db'.attempts[i] = db.attempts[i]
  BY <1>1, <1>3, NewAttemptType, LogKeptAppend
<1>4. ASSUME NEW p \in Proc, ProcNext(p), db' # db
      PROVE  /\ LogKept(db.attempts, db'.attempts)
             /\ \A o \in Proc : pc[o] = "holding" =>
                   \A i \in DOMAIN db.attempts : db'.attempts[i] = db.attempts[i]
  <2>1. CASE Recover(p)
    <3>1. \A o \in Proc : pc[o] # "holding"
      BY <2>1, HolderIsAlone DEF Recover
    <3> QED
      BY <1>1, <2>1, <3>1, LogKeptRecovered DEF Recover
  <2>2. CASE \E q \in Profile, k \in Kind \ {"absent"} : EnsureProfile(p, q, k)
    <3>1. PICK q \in Profile, k \in Kind : db' = [db EXCEPT !.kind[q] = k]
      BY <2>2 DEF EnsureProfile
    <3>2. db'.attempts = db.attempts
      BY <1>1, <3>1 DEF Database
    <3> QED
      BY <1>1, <3>2, LogKeptSame
  <2>3. CASE \E q \in Profile :
                \/ \E slots \in SUBSET Slot : RecordRejected(p, q, slots)
                \/ \E layer \in {"retrieval", "deep"} :
                      RecordAuxiliaryFailure(p, q, layer)
    BY <1>3, <2>3, ActionsType
       DEF RecordRejected, RecordAuxiliaryFailure, Layer, AttemptState
  <2>4. CASE \E b \in Batches : PublishRejected(p, b) \/ PublishRecord(p, b)
    <3>1. PICK b \in Batches : PublishRejected(p, b) \/ PublishRecord(p, b)
      BY <2>4
    <3>2. b.profile \in Profile
      BY ParametersAssumption DEF Batch
    <3> QED
      BY <1>3, <3>1, <3>2, ActionsType
         DEF PublishRejected, PublishRecord, Layer, AttemptState
  <2>5. CASE MarkFailed(p)
    <3>1. /\ pc[p] = "failing" /\ pc[p] \in Active
          /\ db' = WithFinished(db, op[p].attempt, "failed")
      BY <2>5 DEF MarkFailed, ReturnFailed, Active
    <3>2. /\ op[p].attempt \in DOMAIN db.attempts
          /\ db.attempts[op[p].attempt].state = "in_progress"
      BY <3>1 DEF PublicationInv, LiveAttemptIsOpen
    <3>3. op[p].attempt \in 1 .. Len(db.attempts) /\ db.attempts \in Seq(Attempt)
      BY <1>1, <3>2 DEF Database
    <3>4. \A o \in Proc : pc[o] # "holding"
      BY <3>1, HolderIsAlone
    <3>5. LogKept(db.attempts, [db.attempts EXCEPT ![op[p].attempt] =
                                    Finished(@, "failed")])
      BY <3>2, <3>3, LogKeptFinished
    <3>6. db'.attempts = [db.attempts EXCEPT ![op[p].attempt] =
                              Finished(@, "failed")]
      BY <1>1, <3>1, <3>3, WithFinishedType
    <3> QED
      BY <3>4, <3>5, <3>6
  <2>6. CASE Commit(p)
    <3>1. /\ op[p].attempt \in DOMAIN db.attempts
          /\ db.attempts[op[p].attempt].state = "in_progress"
          /\ db'.attempts = [db.attempts EXCEPT ![op[p].attempt] =
                                 Finished(@, "succeeded")]
      BY <2>6, CommitEffect
    <3>2. db.attempts \in Seq(Attempt)
      BY <1>1 DEF Database
    <3>3. \A o \in Proc : pc[o] # "holding"
      BY <2>6, HolderIsAlone DEF Commit
    <3>4. LogKept(db.attempts, [db.attempts EXCEPT ![op[p].attempt] =
                                    Finished(@, "succeeded")])
      BY <3>1, <3>2, LogKeptFinished
    <3> QED
      BY <3>1, <3>3, <3>4
  <2> QED
    BY <1>4, <2>1, <2>2, <2>3, <2>4, <2>5, <2>6
       DEF ProcNext, Advance, Acquire, RecoverFails, Release, Crash,
           PublishNoOp, PublishRecordFails, RemoveOld, InsertUnit,
           FinishReplacement, Fail, MarkFailedFails
<1>5. CASE UNCHANGED vars \/ \E r \in Reader : OpenSnapshot(r) \/ CloseSnapshot(r)
  BY <1>2, <1>5 DEF vars, OpenSnapshot, CloseSnapshot
<1> QED
  BY <1>2, <1>4, <1>5 DEF Next

\* Whatever happens, the death of a writer and the recovery after it
\* included, what the log says of an attempt that ended is never rewritten.
THEOREM LogIsKept == Spec => [][LogKept(db.attempts, db'.attempts)]_vars
<1>1. PublicationInv /\ [Next]_vars => [LogKept(db.attempts, db'.attempts)]_vars
  BY LogStep
<1> QED
  BY <1>1, PublicationInvariant, PTL DEF Spec

----------------------------------------------------------------------------
\* Recovery is complete.

\* RecoveryIsComplete, with what keeps it: nothing is taken from the log.
RecoveryInv ==
    lock # NoProc /\ pc[lock] # "recovering" =>
        /\ mark <= Len(db.attempts)
        /\ \A i \in InProgress(db) : i > mark

LEMMA RecoveryInvStep ==
    ASSUME PublicationInv, PublicationInv', RecoveryInv, [Next]_vars
    PROVE  RecoveryInv'
<1> SUFFICES ASSUME lock' # NoProc, pc'[lock'] # "recovering"
             PROVE  /\ mark' <= Len(db'.attempts)
                    /\ \A i \in InProgress(db') : i > mark'
  BY DEF RecoveryInv
<1>1. /\ TypeOK /\ db \in Database /\ db' \in Database
      /\ mark \in Nat /\ Len(db.attempts) \in Nat /\ Len(db'.attempts) \in Nat
  BY DEF PublicationInv, TypeOK, Database
<1>2. CASE \E p \in Proc : Recover(p)
  <2>1. db' = WithRecovered(db) /\ mark' = Len(db.attempts)
    BY <1>2 DEF Recover
  <2>2. InProgress(db') = {}
    BY <1>1, <2>1, LogKeptRecovered
  <2> QED
    BY <1>1, <2>1, <2>2, LogStep DEF LogKept
<1>3. CASE ~\E p \in Proc : Recover(p)
  <2>1. mark' = mark /\ lock # NoProc /\ pc[lock] # "recovering"
    <3>1. CASE \E p \in Proc : ProcNext(p)
      <4>1. PICK p \in Proc : ProcNext(p)
        BY <3>1
      <4>2. ~(Acquire(p) \/ RecoverFails(p) \/ Release(p) \/ Crash(p))
        <5>1. pc[p] # "idle" => lock = p
          BY HolderIsAlone
        <5> QED
          BY <1>1, <5>1 DEF TypeOK, Acquire, RecoverFails, Release, Crash
      <4>3. pc[p] \notin {"idle", "recovering"} /\ mark' = mark
        BY <1>3, <4>1, <4>2
           DEF ProcNext, Advance, EnsureProfile, RecordRejected,
               RecordAuxiliaryFailure, PublishRejected, PublishNoOp,
               PublishRecord, PublishRecordFails, Attemptable, RemoveOld,
               InsertUnit, FinishReplacement, Commit, Fail, MarkFailed,
               MarkFailedFails, ReturnFailed
      <4>4. lock = p /\ lock # NoProc
        BY <4>3, HolderIsAlone, AbsentValuesAssumption
      <4> QED
        BY <4>3, <4>4
    <3>2. CASE UNCHANGED vars \/ \E r \in Reader : OpenSnapshot(r) \/ CloseSnapshot(r)
      BY <3>2 DEF vars, OpenSnapshot, CloseSnapshot
    <3> QED
      BY <3>1, <3>2 DEF Next
  <2>2. /\ mark <= Len(db.attempts)
        /\ \A i \in InProgress(db) : i > mark
    BY <2>1 DEF RecoveryInv
  <2>3. LogKept(db.attempts, db'.attempts)
    BY LogStep
  <2>4. mark' <= Len(db'.attempts)
    BY <1>1, <2>1, <2>2, <2>3 DEF LogKept
  <2>5. ASSUME NEW i \in InProgress(db')
        PROVE  i > mark'
    <3>1. i \in DOMAIN db'.attempts /\ db'.attempts[i].state = "in_progress"
      BY DEF InProgress
    <3>2. i \in Nat
      BY <1>1, <3>1 DEF Database
    <3>3. i > Len(db.attempts) \/ i \in InProgress(db)
      BY <2>3, <3>1 DEF LogKept, InProgress
    <3> QED
      BY <1>1, <2>1, <2>2, <3>2, <3>3
  <2> QED
    BY <2>4, <2>5
<1> QED
  BY <1>2, <1>3

\* For any number of writers dying anywhere: once a process is past recovery,
\* an attempt still in progress is one it recorded itself.
THEOREM RecoveryIsCompleteInvariant == Spec => []RecoveryIsComplete
<1>1. Init => RecoveryInv
  BY DEF Init, RecoveryInv
<1>2. PublicationInv /\ PublicationInv' /\ RecoveryInv /\ [Next]_vars
      => RecoveryInv'
  BY RecoveryInvStep
<1>3. RecoveryInv => RecoveryIsComplete
  BY DEF RecoveryInv, RecoveryIsComplete
<1> QED
  BY <1>1, <1>2, <1>3, PublicationInvariant, PTL DEF Spec

----------------------------------------------------------------------------
\* A returned result agrees with the log.

\* What database state d says of result r.
Honest(r, d) ==
    /\ r.profile \in Profile
    /\ r.outcome # "no_op" /\ r.attempt # 0 => r.attempt \in DOMAIN d.attempts
    /\ r.outcome \in {"committed", "rejected"} => r.attempt # 0
    /\ r.outcome = "committed" =>
          /\ d.attempts[r.attempt].state = "succeeded"
          /\ r.gen = Cardinality({i \in Successes(d, r.profile) :
                                     i <= r.attempt})
    /\ r.outcome = "rejected" => d.attempts[r.attempt].state = "failed"
    /\ r.outcome = "failed" /\ r.attempt # 0 =>
          d.attempts[r.attempt].state \in {"failed", "in_progress"}
    /\ r.gen = d.gen[r.profile]

\* ResultIsHonest, with what keeps it: a result is kept by a process that
\* holds the lock and is publishing nothing.
ResultInv ==
    \A p \in Proc : result[p] # NoResult =>
        pc[p] = "holding" /\ Honest(result[p], db)

LEMMA HonestKept ==
    ASSUME NEW d, NEW e, NEW r, Honest(r, d), Quiet(d, e),
           LogKept(d.attempts, e.attempts),
           \A i \in DOMAIN d.attempts : e.attempts[i] = d.attempts[i]
    PROVE  Honest(r, e)
<1>1. Successes(e, r.profile) = Successes(d, r.profile)
  BY DEF Quiet, Honest
<1>2. e.gen = d.gen /\ DOMAIN d.attempts \subseteq DOMAIN e.attempts
  BY DEF Quiet, LogKept
<1> QED
  BY <1>1, <1>2 DEF Honest

\* The four ways publish() returns a new result.
LEMMA CommittedIsHonest ==
    ASSUME PublicationInv, UnitsAreReplay, GenerationCountsSuccesses,
           NEW p \in Proc, Commit(p)
    PROVE  Honest(result'[p], db')
<1> DEFINE o == op[p]
           q == op[p].batch.profile
           k == op[p].attempt
<1>1. /\ q \in Profile /\ k \in Nat /\ o.base \in Nat
      /\ result \in [Proc -> Result \cup {NoResult}] /\ db \in Database
  BY ActiveOperation DEF Commit, Active, PublicationInv, TypeOK
<1>2. result'[p] = [outcome |-> "committed", profile |-> q,
                    gen |-> o.base + 1, attempt |-> k]
  BY <1>1 DEF Commit, Return
<1>3. /\ o.base = db.gen[q] /\ k \in DOMAIN db.attempts
      /\ db'.gen = [db.gen EXCEPT ![q] = @ + 1]
      /\ db.attempts[k].state = "in_progress"
      /\ db'.attempts = [db.attempts EXCEPT ![k] = Finished(@, "succeeded")]
  BY CommitEffect
<1>4. db'.gen[q] = o.base + 1
  BY <1>1, <1>3 DEF Database
<1>5. Counted(db')
  BY CountedAfterCommit DEF UnitsAreReplay, GenerationCountsSuccesses
<1>6. /\ \A i \in Successes(db, q) : i \in Nat /\ i < k
      /\ Successes(db', q) = Successes(db, q) \cup {k}
  BY <1>1, SuccessesAfterCommit
<1>7. {i \in Successes(db', q) : i <= k} = Successes(db', q)
  BY <1>1, <1>6
<1>8. o.base + 1 = Cardinality({i \in Successes(db', q) : i <= k})
  BY <1>1, <1>4, <1>5, <1>7 DEF Counted
<1>9. db'.attempts[k].state = "succeeded" /\ k \in DOMAIN db'.attempts
  BY <1>6 DEF Successes
<1>10. k # 0
  BY <1>1, <1>3 DEF Database
<1> HIDE DEF k, q, o
<1> QED
  BY <1>1, <1>2, <1>4, <1>8, <1>9, <1>10 DEF Honest

LEMMA ReturnIsHonest ==
    ASSUME PublicationInv, NEW p \in Proc,
           \/ \E b \in Batches : \/ PublishRejected(p, b)
                                 \/ PublishNoOp(p, b)
                                 \/ PublishRecordFails(p, b)
           \/ MarkFailed(p)
           \/ MarkFailedFails(p)
    PROVE  Honest(result'[p], db')
<1>1. /\ TypeOK /\ db \in Database /\ Len(db.attempts) \in Nat
      /\ \A q \in Profile : db.gen[q] \in Nat
      /\ result \in [Proc -> Result \cup {NoResult}]
  BY DEF PublicationInv, TypeOK, Database
<1>2. \A b \in Batches : b.profile \in Profile
  BY ParametersAssumption DEF Batch
<1>3. CASE \E b \in Batches : PublishNoOp(p, b) \/ PublishRecordFails(p, b)
  <2>1. PICK b \in Batches : PublishNoOp(p, b) \/ PublishRecordFails(p, b)
    BY <1>3
  <2>2. PICK outcome \in {"no_op", "failed"} :
           result'[p] = [outcome |-> outcome, profile |-> b.profile,
                         gen |-> db.gen[b.profile], attempt |-> 0]
    BY <1>1, <2>1 DEF PublishNoOp, PublishRecordFails, Return
  <2>3. db' = db
    BY <2>1 DEF PublishNoOp, PublishRecordFails
  <2> QED
    BY <1>2, <2>2, <2>3 DEF Honest
<1>4. CASE \E b \in Batches : PublishRejected(p, b)
  <2>1. PICK b \in Batches : PublishRejected(p, b)
    BY <1>4
  <2> DEFINE n == Len(db.attempts) + 1
             a == NewAttempt(b.profile, "semantic_graph", "failed",
                             RejectedActions(BatchSlots(b)))
  <2>2. /\ result'[p] = [outcome |-> "rejected", profile |-> b.profile,
                         gen |-> db.gen[b.profile], attempt |-> n]
        /\ db' = WithAttempt(db, a)
    BY <1>1, <2>1 DEF PublishRejected, Return
  <2>3. a \in Attempt
    BY <1>2, NewAttemptType, ActionsType DEF Layer, AttemptState
  <2>4. a.state = "failed"
    BY DEF NewAttempt
  <2> HIDE DEF a
  <2>5. /\ db'.gen = db.gen /\ db'.attempts[n] = a
        /\ n \in DOMAIN db'.attempts
    BY <1>1, <2>2, <2>3, WithAttemptType, LogKeptAppend
  <2>6. n # 0
    BY <1>1
  <2> HIDE DEF n
  <2> QED
    BY <1>2, <2>2, <2>4, <2>5, <2>6 DEF Honest
<1>5. CASE MarkFailed(p) \/ MarkFailedFails(p)
  <2> DEFINE q == op[p].batch.profile
             k == op[p].attempt
  <2>1. /\ pc[p] \in Active /\ q \in Profile
        /\ result'[p] = [outcome |-> "failed", profile |-> q,
                         gen |-> db.gen[q], attempt |-> k]
    BY <1>1, <1>5, ActiveOperation
       DEF MarkFailed, MarkFailedFails, ReturnFailed, Return, Active
  <2>2. /\ k \in DOMAIN db.attempts /\ k \in 1 .. Len(db.attempts)
        /\ db.attempts[k].state = "in_progress"
        /\ db.attempts \in Seq(Attempt)
    BY <1>1, <2>1 DEF PublicationInv, LiveAttemptIsOpen, Database
  <2>3. db' = db \/ db' = WithFinished(db, k, "failed")
    BY <1>5 DEF MarkFailed, MarkFailedFails
  <2> HIDE DEF k, q
  <2>4. CASE db' = db
    BY <2>1, <2>2, <2>4 DEF Honest
  <2>5. CASE db' = WithFinished(db, k, "failed")
    <3>1. /\ db'.gen = db.gen
          /\ db'.attempts = [db.attempts EXCEPT ![k] = Finished(@, "failed")]
      BY <1>1, <2>2, <2>5, WithFinishedType
    <3>2. [db.attempts EXCEPT ![k] = Finished(@, "failed")][k].state = "failed"
      BY <2>2, LogKeptFinished
    <3>3. /\ DOMAIN db'.attempts = DOMAIN db.attempts
          /\ db'.attempts[k].state = "failed"
      BY <2>2, <3>1, <3>2
    <3> QED
      BY <2>1, <2>2, <3>1, <3>3 DEF Honest
  <2> QED
    BY <2>3, <2>4, <2>5
<1> QED
  BY <1>3, <1>4, <1>5

LEMMA ResultInvStep ==
    ASSUME PublicationInv, UnitsAreReplay, GenerationCountsSuccesses,
           ResultInv, [Next]_vars
    PROVE  ResultInv'
<1> SUFFICES ASSUME NEW o \in Proc, result'[o] # NoResult
             PROVE  pc'[o] = "holding" /\ Honest(result'[o], db')
  BY DEF ResultInv
<1>1. TypeOK /\ db \in Database /\ result \in [Proc -> Result \cup {NoResult}]
      /\ DOMAIN pc = Proc
  BY DEF PublicationInv, TypeOK
<1>2. CASE result'[o] = result[o] /\ pc'[o] = pc[o]
  <2>1. pc[o] = "holding" /\ Honest(result[o], db)
    BY <1>2 DEF ResultInv
  <2>2. ~\E p \in Proc : Commit(p)
    BY <2>1, HolderIsAlone DEF Commit
  <2>3. Quiet(db, db')
    BY <2>2, DatabaseStep
  <2> QED
    BY <1>2, <2>1, <2>3, LogStep, HonestKept
<1>3. CASE ~(result'[o] = result[o] /\ pc'[o] = pc[o])
  <2>1. PICK p \in Proc : ProcNext(p)
    BY <1>3 DEF Next, vars, OpenSnapshot, CloseSnapshot
  <2>2. /\ ~(UNCHANGED pc /\ UNCHANGED result)
        /\ o = p
    BY <1>1, <1>3, <2>1
       DEF ProcNext, Advance, Acquire, Recover, RecoverFails, Release, Crash,
           EnsureProfile, RecordRejected, RecordAuxiliaryFailure,
           PublishRejected, PublishNoOp, PublishRecord, PublishRecordFails,
           RemoveOld, InsertUnit, FinishReplacement, Commit, Fail, MarkFailed,
           MarkFailedFails, ReturnFailed, Return
  <2>3. pc[p] = "holding" \/ result[p] = NoResult
    BY DEF ResultInv
  <2>4. CASE Commit(p)
    BY <1>1, <2>2, <2>4, CommittedIsHonest DEF Commit
  <2>5. CASE \/ \E b \in Batches : \/ PublishRejected(p, b)
                                   \/ PublishNoOp(p, b)
                                   \/ PublishRecordFails(p, b)
             \/ MarkFailed(p)
             \/ MarkFailedFails(p)
    <3>1. Honest(result'[p], db')
      BY <2>5, ReturnIsHonest
    <3>2. pc'[p] = "holding"
      BY <1>1, <2>5 DEF PublishRejected, PublishNoOp, PublishRecordFails,
                        Attemptable, MarkFailed, MarkFailedFails, ReturnFailed
    <3> QED
      BY <2>2, <3>1, <3>2
  <2>6. CASE \/ Release(p) \/ Crash(p)
             \/ \E b \in Batches : PublishRecord(p, b)
    BY <1>1, <2>2, <2>6 DEF Release, Crash, PublishRecord
  <2>7. CASE \/ Acquire(p) \/ Recover(p) \/ RecoverFails(p) \/ RemoveOld(p)
             \/ InsertUnit(p) \/ FinishReplacement(p) \/ Fail(p)
    BY <1>1, <2>2, <2>3, <2>7
       DEF Acquire, Recover, RecoverFails, RemoveOld, InsertUnit,
           FinishReplacement, Fail
  <2> QED
    BY <2>1, <2>2, <2>4, <2>5, <2>6, <2>7
       DEF ProcNext, Advance, EnsureProfile, RecordRejected,
           RecordAuxiliaryFailure
<1> QED
  BY <1>2, <1>3

\* What publish() returned stays true of the log for as long as the caller
\* holds the lock: a committed publication succeeded and its generation is
\* the count up to it; of any other nothing was ever committed.
THEOREM ResultIsHonestInvariant == Spec => []ResultIsHonest
<1>1. Init => ResultInv
  BY DEF Init, ResultInv
<1>2. /\ PublicationInv /\ UnitsAreReplay /\ GenerationCountsSuccesses
      /\ ResultInv /\ [Next]_vars
      => ResultInv'
  BY ResultInvStep
<1>3. ResultInv => ResultIsHonest
  BY DEF ResultInv, ResultIsHonest, Honest
<1> QED
  BY <1>1, <1>2, <1>3, PublicationInvariant, UnitsAreReplayInvariant,
     GenerationCountsSuccessesInvariant, PTL DEF Spec
----------------------------------------------------------------------------
\* Labels are unique inside the open transaction too.

LEMMA TransactionLabelsStep ==
    ASSUME PublicationInv, LabelsUnique, [Next]_vars, tx' # NoTx
    PROVE  UniqueLabels(tx'.db.units)
<1>1. TypeOK /\ db \in Database /\ UniqueLabels(db.units)
  BY DEF PublicationInv, TypeOK, LabelsUnique
<1>2. CASE tx' = tx
  BY <1>2 DEF LabelsUnique
<1>3. ASSUME NEW p \in Proc, RemoveOld(p)
      PROVE  UniqueLabels(tx'.db.units)
  <2>1. tx'.db = WithRemoved(db, op[p].batch) /\ pc[p] \in Active
    BY <1>3 DEF RemoveOld, Active
  <2>2. \A q \in Profile, s \in Slot :
           tx'.db.units[q][s] \in {NoUnit, db.units[q][s]}
    BY <1>1, <2>1, ActiveOperation, WithRemovedType
  <2> QED
    BY <1>1, <2>2 DEF UniqueLabels
<1>4. ASSUME NEW p \in Proc, InsertUnit(p)
      PROVE  UniqueLabels(tx'.db.units)
  <2> DEFINE o == op[p]
             e == op[p].batch.install[op[p].next]
             q == op[p].batch.profile
             u == NewUnit(e, o.base + 1, o.attempt)
  <2>1. /\ pc[p] = "replacing" /\ o.next <= Len(o.batch.install)
        /\ ~Collides(tx.db.units[q], e)
        /\ tx' = [tx EXCEPT !.db = WithUnit(@, q, e, u)]
    BY <1>4 DEF InsertUnit
  <2>2. /\ tx \in Transaction /\ tx.db \in Database /\ tx # NoTx
        /\ o.batch \in Batch /\ q \in Profile
        /\ o.next \in 1 .. Len(o.batch.install) + 1
        /\ o.base \in Nat /\ o.attempt \in Nat
    BY <2>1, HolderIsAlone, ActiveOperation
       DEF Active, PublicationInv, TransactionIsReplacement
  <2>3. o.next \in DOMAIN o.batch.install /\ e \in Entry
    BY <2>1, <2>2, BatchParts
  <2>4. u \in Unit /\ u.label = e.label
    BY <2>2, <2>3 DEF NewUnit, Unit, Entry
  <2>5. UniqueLabels(tx.db.units)
    BY <2>2 DEF LabelsUnique
  <2> HIDE DEF e, u, q, o
  <2>6. tx'.db = WithUnit(tx.db, q, e, u)
    BY <2>1, <2>2 DEF Transaction
  <2>7. \A r \in Profile, s \in Slot :
           tx'.db.units[r][s] = IF r = q /\ s = e.slot THEN u
                                ELSE tx.db.units[r][s]
    BY <2>2, <2>3, <2>4, <2>6, WithUnitType
  <2>8. \A s \in Slot : tx.db.units[q][s] # NoUnit =>
           tx.db.units[q][s].label # u.label
    BY <2>1, <2>4 DEF Collides
  <2>9. ASSUME NEW r \in Profile, NEW s \in Slot, NEW t \in Slot,
               tx'.db.units[r][s] # NoUnit, tx'.db.units[r][t] # NoUnit,
               tx'.db.units[r][s].label = tx'.db.units[r][t].label
        PROVE  s = t
    <3>1. CASE r # q \/ (s # e.slot /\ t # e.slot)
      BY <2>5, <2>7, <2>9, <3>1 DEF UniqueLabels
    <3>2. CASE r = q /\ s = e.slot
      BY <2>7, <2>8, <2>9, <3>2
    <3>3. CASE r = q /\ t = e.slot
      BY <2>7, <2>8, <2>9, <3>3
    <3> QED
      BY <3>1, <3>2, <3>3
  <2> QED
    BY <2>9 DEF UniqueLabels
<1>5. ASSUME NEW p \in Proc, FinishReplacement(p)
      PROVE  UniqueLabels(tx'.db.units)
  <2> DEFINE k == op[p].attempt
             q == op[p].batch.profile
             g == [tx.db EXCEPT !.gen[q] = op[p].base + 1]
  <2>1. /\ pc[p] = "replacing" /\ pc[p] \in Active
        /\ tx' = [tx EXCEPT !.db = WithFinished(g, k, "succeeded")]
    BY <1>5 DEF FinishReplacement, Active
  <2>2. /\ tx \in Transaction /\ tx.db \in Database
        /\ q \in Profile /\ op[p].base + 1 \in Nat
        /\ k \in DOMAIN db.attempts
        /\ tx # NoTx /\ tx.db.attempts = db.attempts
    <3>1. tx \in Transaction /\ tx.db \in Database
      BY <2>1, HolderIsAlone
    <3>2. q \in Profile /\ op[p].base \in Nat
      BY <2>1, ActiveOperation
    <3>3. k \in DOMAIN db.attempts
      BY <2>1 DEF PublicationInv, LiveAttemptIsOpen
    <3>4. tx # NoTx /\ tx.db.attempts = db.attempts
      BY <2>1 DEF PublicationInv, TransactionIsReplacement
    <3> QED
      BY <3>1, <3>2, <3>3, <3>4
  <2>3. /\ g \in Database /\ g.units = tx.db.units
        /\ g.attempts = db.attempts
    BY <2>2, GenerationReplaced
  <2>4. k \in 1 .. Len(g.attempts)
    BY <1>1, <2>2, <2>3 DEF Database
  <2> HIDE DEF g, k
  <2>5. WithFinished(g, k, "succeeded").units = tx.db.units
    BY <2>3, <2>4, WithFinishedType
  <2>6. tx'.db.units = tx.db.units
    BY <2>1, <2>2, <2>5 DEF Transaction
  <2> QED
    BY <2>2, <2>6 DEF LabelsUnique
<1>6. ASSUME NEW p \in Proc, ProcNext(p), tx' # tx
      PROVE  RemoveOld(p) \/ InsertUnit(p) \/ FinishReplacement(p)
  BY <1>6
     DEF ProcNext, Advance, Acquire, Recover, RecoverFails, Release, Crash,
         EnsureProfile, RecordRejected, RecordAuxiliaryFailure,
         PublishRejected, PublishNoOp, PublishRecord, PublishRecordFails,
         Commit, Fail, MarkFailed, MarkFailedFails, ReturnFailed, Abandoned
<1> QED
  BY <1>2, <1>3, <1>4, <1>5, <1>6 DEF Next, vars, OpenSnapshot, CloseSnapshot

\* A fact label names one live slot of its profile, in the committed database
\* and between any two steps of a replacement.
THEOREM LabelsUniqueInvariant == Spec => []LabelsUnique
<1>1. Init => LabelsUnique
  BY DEF Init, EmptyDatabase, LabelsUnique, UniqueLabels
<1>2. PublicationInv /\ LabelsUnique /\ [Next]_vars => LabelsUnique'
  BY DatabaseStep, LabelsUniqueAfterCommit, TransactionLabelsStep
     DEF LabelsUnique, Quiet
<1> QED
  BY <1>1, <1>2, PublicationInvariant, PTL DEF Spec
=============================================================================
