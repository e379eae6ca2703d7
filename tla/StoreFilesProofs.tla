-------------------------- MODULE StoreFilesProofs --------------------------
(***************************************************************************)
(* Proofs about StoreOpen and Spool, for any processes, roots, names and   *)
(* contributions.                                                          *)
(***************************************************************************)
EXTENDS StoreOpen, Spool, SequenceTheorems, TLAPS

----------------------------------------------------------------------------
(***************************************************************************)
(* Opening a file                                                          *)
(***************************************************************************)

\* One process at a time creates, and it is connected while it does.
CreatorInv ==
    /\ \A p \in Opener :
          /\ opening[p] \in {"again", "commit"} => creator = p
          /\ opening[p] \notin {"closed", "refused"} => p \in connected
    /\ creator # NoProc => creator \in Opener /\ opening[creator] \in {"again", "commit"}

\* Past its check of the root an opener is at a store of its own root, a reader past its check of
\* the file is at a file, and an open reader's verification still holds.
OwnFileInv ==
    /\ \A p \in Opener : opening[p] \in {"journal", "open"} => file = RootOf[p]
    /\ \A r \in Reader :
          /\ opening[r] \notin {"closed", "refused"} => file # Absent
          /\ opening[r] = "open" => IdentityFailure(r) = "none"

\* The inductive invariant of opening.
OpenInv ==
    /\ OpenTypeOK
    /\ opening \in [OpenProcess -> WriterSteps \cup ReaderSteps]
    /\ CreatorInv
    /\ OwnFileInv

(***************************************************************************)
(* Spools                                                                  *)
(***************************************************************************)

\* A name leads to the spool of its owner only until the owner unlinks it, and whoever holds a
\* lock either owns the file or is about to remove a leftover.
NamesInv ==
    /\ \A n \in SpoolName : linked[n] \in SpoolProcess =>
          mine[linked[n]] = n /\ spooling[linked[n]] \in {"lock", "unlink"}
    /\ \A n \in SpoolName : flocked[n] # NoOwner =>
          \/ spooling[flocked[n]] = "locked" /\ looking[flocked[n]] = n
          \/ spooling[flocked[n]] \in {"unlink", "ready"} /\ mine[flocked[n]] = n
    /\ \A p \in SpoolProcess : mine[p] # NoName => linked[mine[p]] \in {p, NoOwner}
    /\ \A n \in unused : linked[n] = NoOwner /\ \A p \in SpoolProcess : mine[p] # n

Walking(p) == spooling[p] \in {"walk", "opened", "locked"}

\* A walk nobody disturbed still has every leftover it listed before it, or has removed it.
WalkInv ==
    /\ \A p \in SpoolProcess : spooling[p] \notin {"walk", "opened", "locked", "create"} => witnessed[p] = {}
    /\ \A p, q \in SpoolProcess : Walking(p) /\ witnessed[p] # {} /\ Walking(q) => p = q
    /\ \A p \in SpoolProcess : \A n \in witnessed[p] :
          linked[n] = Orphan => \/ Walking(p) /\ n \in todo[p]
                                \/ spooling[p] \in {"opened", "locked"} /\ n = looking[p]

\* Entry e of p's spool lies before the end, and its chunks are its contribution's.
Holds(p, e) ==
    /\ e \in Nat \X Item
    /\ e[1] + ItemSize[e[2]] <= end[p]
    /\ \A k \in 1 .. ItemSize[e[2]] : data[p][e[1] + k] = <<e[2], k>>

DataInv ==
    \A p \in SpoolProcess :
        /\ data[p] \in Seq(Item \X Nat)
        /\ end[p] \in Nat /\ end[p] <= Len(data[p])
        /\ entries[p] \in Seq(Nat \X Item)
        /\ \A i \in DOMAIN entries[p] : Holds(p, entries[p][i])

SpoolFunctions ==
    /\ todo \in [SpoolProcess -> SUBSET SpoolName]
    /\ looking \in [SpoolProcess -> SpoolName \cup {NoName}]
    /\ mine \in [SpoolProcess -> SpoolName \cup {NoName}]
    /\ DOMAIN data = SpoolProcess /\ DOMAIN end = SpoolProcess /\ DOMAIN entries = SpoolProcess
    /\ witnessed \in [SpoolProcess -> SUBSET SpoolName]
    /\ \A p \in SpoolProcess :
          /\ spooling[p] \in {"opened", "locked"} => looking[p] \in SpoolName
          /\ spooling[p] \in {"lock", "unlink", "ready"} => mine[p] \in SpoolName

\* The inductive invariant of spools.
SpoolInv ==
    /\ SpoolTypeOK
    /\ SpoolFunctions
    /\ NamesInv
    /\ WalkInv
    /\ DataInv

----------------------------------------------------------------------------
(***************************************************************************)
(* Opening: proofs                                                         *)
(***************************************************************************)

LEMMA OpenInitInv ==
    ASSUME OpenInit
    PROVE  OpenInv
<1>1. /\ wal \in {"absent", "empty", "frames"} /\ shm \in BOOLEAN
      /\ journal \in {"delete", "wal"}
  <2>1. PICK left \in {"absent", "frames", "empty"} \X BOOLEAN :
           wal = left[1] /\ shm = left[2]
    BY DEF OpenInit
  <2>2. journal \in {"delete", "wal"}
    BY DEF OpenInit
  <2>3. left[1] \in {"absent", "frames", "empty"} /\ left[2] \in BOOLEAN
    OBVIOUS
  <2> QED
    BY <2>1, <2>2, <2>3
<1>2. OpenTypeOK
  BY <1>1, OpenAssumption DEF OpenInit, OpenTypeOK, WriterSteps, ReaderSteps, OpenProcess
<1>3. opening \in [OpenProcess -> WriterSteps \cup ReaderSteps]
  BY DEF OpenInit, WriterSteps
<1>4. CreatorInv /\ OwnFileInv
  BY DEF OpenInit, CreatorInv, OwnFileInv, OpenProcess
<1> QED
  BY <1>2, <1>3, <1>4 DEF OpenInv

\* Processes other than the one that acts stay where they are.
OpenerStep(p) ==
    \/ Connect(p) \/ ReadApplicationId(p) \/ ReadUserVersion(p) \/ CountObjects(p)
    \/ BeginImmediate(p) \/ BeginBusy(p) \/ CheckAgain(p) \/ CommitCreation(p) \/ CreationFails(p)
    \/ CheckRoot(p) \/ ChooseJournal(p) \/ WriteFrames(p) \/ CloseStore(p) \/ OpenerDies(p)

ReaderStep(r) ==
    \/ CheckFile(r) \/ LookForFrames(r) \/ ReadHeader(r) \/ LookForSidecars(r) \/ Probe(r)
    \/ ConnectReadOnly(r) \/ Verify(r) \/ CloseReader(r)

LEMMA OpenSteps ==
    ASSUME [OpenNext]_openVars
    PROVE  \/ UNCHANGED openVars
           \/ \E p \in Opener : OpenerStep(p)
           \/ \E r \in Reader : ReaderStep(r)
           \/ \E p \in OpenProcess : Retry(p)
           \/ ForeignCreates
BY DEF OpenNext, OpenerStep, ReaderStep

\* What a file is, and whether it is there, only ever goes from nothing to something.
LEMMA FileStep ==
    ASSUME OpenTypeOK, [OpenNext]_openVars
    PROVE  /\ file' \in Root \cup {Absent, Empty, Foreign, Newer}
           /\ file \notin {Absent, Empty} => file' = file
           /\ file # Absent => file' # Absent
<1>1. CASE UNCHANGED openVars
  BY <1>1 DEF OpenTypeOK, openVars
<1>2. ASSUME NEW p \in Opener, OpenerStep(p), ~Connect(p), ~CommitCreation(p)
      PROVE  file' = file
  BY <1>2
     DEF OpenerStep, ReadApplicationId, ReadUserVersion, CountObjects, BeginImmediate, BeginBusy,
         CheckAgain, CreationFails, CheckRoot, ChooseJournal, WriteFrames, CloseStore, OpenerDies,
         fileVars
<1>3. ASSUME NEW p \in Opener, Connect(p)
      PROVE  file' = file \/ (file = Absent /\ file' = Empty)
  BY <1>3 DEF Connect
<1>4. ASSUME NEW p \in Opener, CommitCreation(p)
      PROVE  file' = file \/ (file \in {Absent, Empty} /\ file' \in Root)
  BY <1>4, OpenAssumption DEF CommitCreation, IdentityInTransaction, IdentityOf, Identity, HasObjects
<1>5. ASSUME NEW r \in Reader, ReaderStep(r)
      PROVE  file' = file
  BY <1>5
     DEF ReaderStep, CheckFile, LookForFrames, ReadHeader, LookForSidecars, Probe, ConnectReadOnly,
         Verify, CloseReader, fileVars
<1>6. ASSUME NEW p \in OpenProcess, Retry(p)
      PROVE  file' = file
  BY <1>6 DEF Retry, fileVars
<1>7. CASE ForeignCreates
  BY <1>7, OpenAssumption DEF ForeignCreates
<1> QED
  BY <1>1, <1>2, <1>3, <1>4, <1>5, <1>6, <1>7, OpenSteps, OpenAssumption DEF OpenTypeOK

\* Opening finds a store, a foreign database or another version, and leaves it as it was: also when
\* it appears between the check and the creation.

LEMMA OpenTypeStep ==
    ASSUME OpenInv, [OpenNext]_openVars
    PROVE  /\ OpenTypeOK'
           /\ opening' \in [OpenProcess -> WriterSteps \cup ReaderSteps]
           /\ CreatorInv'
<1> DEFINE Kept == /\ journal' \in {"delete", "wal"}
                   /\ wal' \in {"absent", "empty", "frames"}
                   /\ shm' \in BOOLEAN
                   /\ connected' \subseteq OpenProcess
                   /\ made' \subseteq Reader
                   /\ opening' \in [OpenProcess -> WriterSteps \cup ReaderSteps]
                   /\ \A o \in Opener : opening'[o] \in WriterSteps
                   /\ \A r \in Reader : opening'[r] \in ReaderSteps
                   /\ creator' \in Opener \cup {NoProc}
                   /\ CreatorInv'
<1>0. /\ OpenTypeOK /\ CreatorInv
      /\ opening \in [OpenProcess -> WriterSteps \cup ReaderSteps]
      /\ \A p \in Opener : p \in OpenProcess /\ p \notin Reader /\ p # NoProc
      /\ \A r \in Reader : r \in OpenProcess /\ r \notin Opener /\ r # NoProc
      /\ OpenProcess = Opener \cup Reader
  BY OpenAssumption DEF OpenInv, OpenProcess
<1>1. CASE UNCHANGED openVars
  BY <1>0, <1>1 DEF openVars, OpenTypeOK, CreatorInv
<1>2. ASSUME NEW p \in Opener, OpenerStep(p)
      PROVE  Kept
  <2>1. CASE \/ Connect(p) \/ ReadApplicationId(p) \/ ReadUserVersion(p) \/ WriteFrames(p)
             \/ ChooseJournal(p)
    BY <1>0, <2>1
       DEF OpenTypeOK, CreatorInv, WriterSteps, ReaderSteps, Start, Goto, TouchSidecars, fileVars,
           Connect, ReadApplicationId, ReadUserVersion, WriteFrames, ChooseJournal
  <2>2. CASE CountObjects(p) \/ CheckRoot(p)
    <3>1. /\ opening[p] \in {"sqlite_schema", "root"}
          /\ UNCHANGED <<journal, creator, made>>
          /\ \/ /\ \E step \in {"begin", "root", "journal"} : Goto(p, step)
                /\ UNCHANGED <<wal, shm, connected>>
             \/ Goto(p, "refused") /\ Disconnect(p)
      <4>1. CASE CountObjects(p)
        <5>1. PICK identity : identity = Identity(seen[p].app, seen[p].version, HasObjects(file))
          OBVIOUS
        <5> QED
          BY <4>1, <5>1 DEF CountObjects, Refuse
      <4>2. CASE CheckRoot(p)
        BY <4>2 DEF CheckRoot, Refuse
      <4> QED
        BY <2>2, <4>1, <4>2
    <3> QED
      BY <1>0, <3>1
         DEF OpenTypeOK, CreatorInv, WriterSteps, ReaderSteps, Goto, Disconnect
  <2>3. CASE BeginImmediate(p) \/ BeginBusy(p)
    BY <1>0, <2>3
       DEF OpenTypeOK, CreatorInv, WriterSteps, ReaderSteps, Goto, Refuse, Disconnect, fileVars,
           BeginImmediate, BeginBusy
  <2>4. CASE CheckAgain(p) \/ CommitCreation(p) \/ CreationFails(p)
    BY <1>0, <2>4
       DEF OpenTypeOK, CreatorInv, WriterSteps, ReaderSteps, Goto, Refuse, Disconnect,
           CheckAgain, CommitCreation, CreationFails
  <2>5. CASE CloseStore(p) \/ OpenerDies(p)
    BY <1>0, <2>5
       DEF OpenTypeOK, CreatorInv, WriterSteps, ReaderSteps, Goto, Disconnect, fileVars,
           CloseStore, OpenerDies
  <2> QED
    BY <1>2, <2>1, <2>2, <2>3, <2>4, <2>5 DEF OpenerStep
<1>3. ASSUME NEW r \in Reader, ReaderStep(r)
      PROVE  Kept
  <2>1. CASE CheckFile(r) \/ LookForFrames(r) \/ ReadHeader(r) \/ LookForSidecars(r) \/ Probe(r)
    <3>1. /\ UNCHANGED <<journal, wal, shm, creator, connected>>
          /\ made' \subseteq made
          /\ \E step \in ReaderSteps : Goto(r, step)
      BY <2>1
         DEF ReaderSteps, Start, Refuse, fileVars, CheckFile, LookForFrames, ReadHeader,
             LookForSidecars, Probe
    <3> QED
      BY <1>0, <3>1 DEF OpenTypeOK, CreatorInv, Goto, ReaderSteps, WriterSteps
  <2>2. CASE ConnectReadOnly(r) \/ Verify(r) \/ CloseReader(r)
    BY <1>0, <2>2
       DEF OpenTypeOK, CreatorInv, WriterSteps, ReaderSteps, Goto, Refuse, Disconnect,
           TouchSidecars, ConnectReadOnly, Verify, CloseReader
  <2> QED
    BY <1>3, <2>1, <2>2 DEF ReaderStep
<1>4. ASSUME NEW p \in OpenProcess, Retry(p)
      PROVE  Kept
  BY <1>0, <1>4 DEF OpenTypeOK, CreatorInv, WriterSteps, ReaderSteps, Goto, fileVars, Retry
<1>5. CASE ForeignCreates
  BY <1>0, <1>5 DEF OpenTypeOK, CreatorInv, ForeignCreates
<1>6. CASE Kept
  <2>1. file' \in Root \cup {Absent, Empty, Foreign, Newer}
    BY <1>0, FileStep
  <2> QED
    BY <1>6, <2>1 DEF OpenTypeOK, CreatorInv
<1> HIDE DEF Kept
<1> QED
  BY <1>1, <1>2, <1>3, <1>4, <1>5, <1>6, OpenSteps

LEMMA OwnFileStep ==
    ASSUME OpenInv, [OpenNext]_openVars
    PROVE  OwnFileInv'
<1>0. /\ OpenTypeOK /\ OwnFileInv
      /\ opening \in [OpenProcess -> WriterSteps \cup ReaderSteps]
      /\ \A p \in Opener : p \in OpenProcess /\ p \notin Reader /\ RootOf[p] \in Root
      /\ \A r \in Reader : r \in OpenProcess /\ r \notin Opener
      /\ file \notin {Absent, Empty} => file' = file
      /\ file # Absent => file' # Absent
      /\ Root \cap {Absent, Empty, Foreign, Newer} = {}
  BY OpenAssumption, FileStep DEF OpenInv, OpenProcess
<1>1. ASSUME NEW r \in Reader, IdentityFailure(r) = "none", file # Absent
      PROVE  file \in Root /\ IdentityFailure(r)' = "none"
  BY <1>0, <1>1 DEF IdentityFailure, OpenTypeOK
<1>2. ASSUME NEW p \in Opener, opening'[p] \in {"journal", "open"}
      PROVE  file' = RootOf[p]
  <2>1. \/ opening[p] \in {"journal", "open"}
        \/ opening[p] = "root" /\ file = RootOf[p]
    <3>1. CASE UNCHANGED openVars
      BY <1>2, <3>1 DEF openVars
    <3>2. ASSUME NEW o \in Opener, OpenerStep(o)
          PROVE  \/ opening[p] \in {"journal", "open"}
                 \/ opening[p] = "root" /\ file = RootOf[p]
      BY <1>0, <1>2, <3>2
         DEF OpenerStep, Start, Goto, Refuse, Connect, ReadApplicationId, ReadUserVersion,
             CountObjects, BeginImmediate, BeginBusy, CheckAgain, CommitCreation, CreationFails,
             CheckRoot, ChooseJournal, WriteFrames, CloseStore, OpenerDies
    <3>3. ASSUME NEW r \in Reader, ReaderStep(r)
          PROVE  opening[p] \in {"journal", "open"}
      BY <1>0, <1>2, <3>3
         DEF ReaderStep, Start, Goto, Refuse, CheckFile, LookForFrames, ReadHeader,
             LookForSidecars, Probe, ConnectReadOnly, Verify, CloseReader
    <3>4. ASSUME NEW o \in OpenProcess, Retry(o)
          PROVE  opening[p] \in {"journal", "open"}
      BY <1>0, <1>2, <3>4 DEF Goto, Retry
    <3>5. CASE ForeignCreates
      BY <1>2, <3>5 DEF ForeignCreates
    <3> QED
      BY <3>1, <3>2, <3>3, <3>4, <3>5, OpenSteps
  <2>2. file = RootOf[p]
    BY <1>0, <2>1 DEF OwnFileInv
  <2> QED
    BY <1>0, <2>2
<1>3. ASSUME NEW r \in Reader, opening'[r] \notin {"closed", "refused"}
      PROVE  /\ file # Absent
             /\ opening'[r] = "open" => IdentityFailure(r) = "none"
  <2>1. CASE UNCHANGED openVars
    BY <1>0, <1>3, <2>1 DEF openVars, OwnFileInv
  <2>2. ASSUME NEW o \in Opener, OpenerStep(o)
        PROVE  opening'[r] = opening[r]
    BY <1>0, <2>2
       DEF OpenerStep, Start, Goto, Refuse, Connect, ReadApplicationId, ReadUserVersion,
           CountObjects, BeginImmediate, BeginBusy, CheckAgain, CommitCreation, CreationFails,
           CheckRoot, ChooseJournal, WriteFrames, CloseStore, OpenerDies
  <2>3. ASSUME NEW o \in Reader, ReaderStep(o)
        PROVE  /\ file # Absent
               /\ opening'[r] = "open" => IdentityFailure(r) = "none"
    BY <1>0, <1>3, <2>3
       DEF OwnFileInv, ReaderStep, Start, Goto, Refuse, CheckFile, LookForFrames, ReadHeader,
           LookForSidecars, Probe, ConnectReadOnly, Verify, CloseReader
  <2>4. ASSUME NEW o \in OpenProcess, Retry(o)
        PROVE  opening'[r] = opening[r]
    BY <1>0, <1>3, <2>4 DEF Goto, Retry
  <2>5. CASE ForeignCreates
    BY <1>0, <1>3, <2>5 DEF ForeignCreates, OwnFileInv
  <2> QED
    BY <1>0, <1>3, <2>1, <2>2, <2>3, <2>4, <2>5, OpenSteps DEF OwnFileInv
<1>4. ASSUME NEW r \in Reader, opening'[r] \notin {"closed", "refused"}
      PROVE  /\ file' # Absent
             /\ opening'[r] = "open" => IdentityFailure(r)' = "none"
  BY <1>0, <1>1, <1>3, <1>4
<1> QED
  BY <1>2, <1>4 DEF OwnFileInv

\* The inductive invariant of opening.
THEOREM OpenInvariant == OpenSpec => []OpenInv
<1>1. OpenInit => OpenInv
  BY OpenInitInv
<1>2. OpenInv /\ [OpenNext]_openVars => OpenInv'
  BY OpenTypeStep, OwnFileStep DEF OpenInv
<1> QED
  BY <1>1, <1>2, PTL DEF OpenSpec

\* Whoever has the database open, for writing or read-only, has a store of the root it asked for,
\* however many open, create, die and close around it.
THEOREM OpenMeansOwnInvariant == OpenSpec => []OpenMeansOwn
<1>1. OpenInv => OpenMeansOwn
  <2> SUFFICES ASSUME OpenInv, NEW p \in OpenProcess, opening[p] = "open"
               PROVE  file \in Root /\ RootOf[p] \in {AnyRoot, file}
    BY DEF OpenMeansOwn
  <2>1. CASE p \in Opener
    BY <2>1, OpenAssumption DEF OpenInv, OwnFileInv
  <2>2. CASE p \in Reader
    BY <2>2 DEF OpenInv, OwnFileInv, OpenTypeOK, IdentityFailure
  <2> QED
    BY <2>1, <2>2 DEF OpenProcess
<1> QED
  BY <1>1, OpenInvariant, PTL

\* What opening finds, a foreign database, a store of another version or of another root, is left
\* as it was, also when it appears between the check and the creation.
THEOREM FoundIsKeptTheorem == OpenSpec => FoundIsKept
<1>1. OpenInv /\ [OpenNext]_openVars => [file \notin {Absent, Empty} => file' = file]_file
  BY FileStep DEF OpenInv
<1> QED
  BY <1>1, OpenInvariant, PTL DEF OpenSpec, FoundIsKept

----------------------------------------------------------------------------
(***************************************************************************)
(* Spools: proofs                                                          *)
(***************************************************************************)

LEMMA SpoolInitInv ==
    ASSUME SpoolInit
    PROVE  SpoolInv
<1>1. SpoolTypeOK
  BY SpoolAssumption DEF SpoolInit, SpoolTypeOK, SpoolSteps
<1>2. SpoolFunctions
  BY DEF SpoolInit, SpoolFunctions
<1>3. NamesInv
  BY SpoolAssumption DEF SpoolInit, NamesInv
<1>4. WalkInv
  BY DEF SpoolInit, WalkInv
<1>5. DataInv
  BY DEF SpoolInit, DataInv
<1> QED
  BY <1>1, <1>2, <1>3, <1>4, <1>5 DEF SpoolInv

\* A write at an offset within the file keeps what is before the offset and puts the encoding there.
LEMMA WrittenChunks ==
    ASSUME NEW d \in Seq(Item \X Nat), NEW offset \in Nat, offset <= Len(d),
           NEW c \in Item, NEW count \in 0 .. ItemSize[c]
    PROVE  /\ Written(d, offset, c, count) \in Seq(Item \X Nat)
           /\ Len(d) <= Len(Written(d, offset, c, count))
           /\ offset + count <= Len(Written(d, offset, c, count))
           /\ \A k \in 1 .. offset : Written(d, offset, c, count)[k] = d[k]
           /\ \A k \in 1 .. count : Written(d, offset, c, count)[offset + k] = <<c, k>>
<1> DEFINE n == IF offset + count > Len(d) THEN offset + count ELSE Len(d)
           w == Written(d, offset, c, count)
<1>0. count \in Nat /\ Len(d) \in Nat
  BY SpoolAssumption
<1>1. n \in Nat /\ offset + count <= n /\ Len(d) <= n
  BY <1>0
<1>2. w = [k \in 1 .. n |-> IF k > offset /\ k <= offset + count THEN <<c, k - offset>> ELSE d[k]]
  BY DEF Written
<1>3. n # Len(d) => n = offset + count
  OBVIOUS
<1>4. \A k \in 1 .. n : w[k] \in Item \X Nat
  <2> SUFFICES ASSUME NEW k \in 1 .. n
               PROVE  w[k] \in Item \X Nat
    OBVIOUS
  <2>1. CASE k > offset /\ k <= offset + count
    BY <1>0, <1>1, <1>2, <2>1
  <2>2. CASE ~(k > offset /\ k <= offset + count)
    <3>1. k \in 1 .. Len(d)
      BY <1>0, <1>1, <1>3, <2>2
    <3>2. w[k] = d[k]
      BY <1>2, <2>2
    <3> QED
      BY <3>1, <3>2
  <2> QED
    BY <2>1, <2>2
<1> HIDE DEF n
<1>5. w \in [1 .. n -> Item \X Nat]
  BY <1>2, <1>4
<1> HIDE DEF w
<1>6. w \in Seq(Item \X Nat) /\ Len(w) = n
  BY <1>1, <1>5
<1>7. \A k \in 1 .. offset : w[k] = d[k]
  BY <1>0, <1>1, <1>2
<1>8. ASSUME NEW k \in 1 .. count
      PROVE  w[offset + k] = <<c, k>>
  <2>1. offset + k \in 1 .. n /\ offset + k > offset /\ offset + k <= offset + count
        /\ (offset + k) - offset = k
    BY <1>0, <1>1
  <2> QED
    BY <1>2, <2>1
<1> QED
  BY <1>1, <1>6, <1>7, <1>8 DEF w

\* add() leaves the chunks of every other entry alone, whether it succeeds or not.
LEMMA AddKeepsEntries ==
    ASSUME SpoolInv, NEW p \in SpoolProcess, NEW c \in Item, NEW count \in 0 .. ItemSize[c],
           data' = [data EXCEPT ![p] = Written(@, end[p], c, count)],
           end'[p] \in Nat, end[p] <= end'[p], end'[p] <= end[p] + count
    PROVE  /\ data'[p] \in Seq(Item \X Nat)
           /\ end'[p] <= Len(data'[p])
           /\ \A e : Holds(p, e) => Holds(p, e)'
           /\ \A k \in 1 .. count : data'[p][end[p] + k] = <<c, k>>
<1> DEFINE d == data[p]
           w == Written(data[p], end[p], c, count)
<1>1. d \in Seq(Item \X Nat) /\ end[p] \in Nat /\ end[p] <= Len(d) /\ count \in Nat
  BY SpoolAssumption DEF SpoolInv, DataInv
<1>2. data'[p] = w
  BY DEF SpoolInv, SpoolFunctions
<1>3. /\ w \in Seq(Item \X Nat)
      /\ end[p] + count <= Len(w)
      /\ \A k \in 1 .. end[p] : w[k] = d[k]
      /\ \A k \in 1 .. count : w[end[p] + k] = <<c, k>>
  BY <1>1, WrittenChunks
<1> HIDE DEF w
<1>4. end'[p] <= Len(w)
  BY <1>1, <1>3
<1>5. ASSUME NEW e, Holds(p, e)
      PROVE  Holds(p, e)'
  <2>1. /\ e \in Nat \X Item /\ ItemSize[e[2]] \in Nat /\ e[1] \in Nat
        /\ e[1] + ItemSize[e[2]] <= end[p]
        /\ \A k \in 1 .. ItemSize[e[2]] : d[e[1] + k] = <<e[2], k>>
    BY <1>5, SpoolAssumption DEF Holds
  <2>2. ASSUME NEW k \in 1 .. ItemSize[e[2]]
        PROVE  data'[p][e[1] + k] = <<e[2], k>>
    <3>1. e[1] + k \in 1 .. end[p]
      BY <1>1, <2>1, SMTT(40)
    <3> QED
      BY <1>2, <1>3, <2>1, <3>1
  <2>3. e[1] + ItemSize[e[2]] <= end'[p]
    BY <1>1, <2>1
  <2> QED
    BY <2>1, <2>2, <2>3 DEF Holds
<1> QED
  BY <1>2, <1>3, <1>4, <1>5

\* A spool's data is its owner's: only its own steps touch it.
SpoolDataKept(p) == data'[p] = data[p] /\ end'[p] = end[p] /\ entries'[p] = entries[p]

SpoolDataGone(p) == data'[p] = <<>> /\ end'[p] = 0 /\ entries'[p] = <<>>

DataOk(p) ==
    /\ data[p] \in Seq(Item \X Nat)
    /\ end[p] \in Nat /\ end[p] <= Len(data[p])
    /\ entries[p] \in Seq(Nat \X Item)
    /\ \A i \in DOMAIN entries[p] : Holds(p, entries[p][i])

LEMMA AddStep ==
    ASSUME SpoolInv, NEW p \in SpoolProcess, NEW c \in Item, AddEntry(p, c)
    PROVE  DataOk(p)'
<1>1. /\ data' = [data EXCEPT ![p] = Written(@, end[p], c, ItemSize[c])]
      /\ entries'[p] = Append(entries[p], <<end[p], c>>)
      /\ end'[p] = end[p] + ItemSize[c]
  BY DEF AddEntry, SpoolInv, SpoolFunctions
<1>2. /\ ItemSize[c] \in Nat /\ ItemSize[c] \in 0 .. ItemSize[c]
      /\ end[p] \in Nat /\ entries[p] \in Seq(Nat \X Item)
      /\ \A i \in DOMAIN entries[p] : Holds(p, entries[p][i])
  BY SpoolAssumption DEF SpoolInv, DataInv
<1>3. /\ data'[p] \in Seq(Item \X Nat)
      /\ end'[p] \in Nat /\ end'[p] <= Len(data'[p])
      /\ \A e : Holds(p, e) => Holds(p, e)'
      /\ \A k \in 1 .. ItemSize[c] : data'[p][end[p] + k] = <<c, k>>
  <2>1. PICK count \in 0 .. ItemSize[c] : count = ItemSize[c]
    BY <1>2
  <2>2. data' = [data EXCEPT ![p] = Written(@, end[p], c, count)]
    BY <1>1, <2>1
  <2>3. end'[p] \in Nat /\ end[p] <= end'[p] /\ end'[p] <= end[p] + count
    BY <1>1, <1>2, <2>1
  <2>4. /\ data'[p] \in Seq(Item \X Nat)
        /\ end'[p] <= Len(data'[p])
        /\ \A e : Holds(p, e) => Holds(p, e)'
        /\ \A k \in 1 .. count : data'[p][end[p] + k] = <<c, k>>
    BY <2>2, <2>3, AddKeepsEntries
  <2> QED
    BY <2>1, <2>3, <2>4
<1>4. PICK new : new = <<end[p], c>>
  OBVIOUS
<1>5. new \in Nat \X Item /\ new[1] = end[p] /\ new[2] = c
  BY <1>2, <1>4
<1>6. Holds(p, new)'
  BY <1>1, <1>2, <1>3, <1>5 DEF Holds
<1>7. PICK old : old = entries[p]
  OBVIOUS
<1>8. /\ old \in Seq(Nat \X Item) /\ entries'[p] = Append(old, new)
      /\ \A i \in DOMAIN old : Holds(p, old[i])'
  BY <1>1, <1>2, <1>3, <1>4, <1>7
<1>9. /\ Append(old, new) \in Seq(Nat \X Item)
      /\ \A i \in DOMAIN Append(old, new) :
            Append(old, new)[i] = new \/ (i \in DOMAIN old /\ Append(old, new)[i] = old[i])
  BY <1>5, <1>8
<1>10. \A i \in DOMAIN Append(old, new) : Holds(p, Append(old, new)[i])'
  BY <1>6, <1>8, <1>9
<1> QED
  BY <1>3, <1>8, <1>9, <1>10 DEF DataOk

LEMMA AddFailsStep ==
    ASSUME SpoolInv, NEW p \in SpoolProcess, NEW c \in Item, AddFails(p, c)
    PROVE  DataOk(p)'
<1>1. PICK count \in 0 .. ItemSize[c] : data' = [data EXCEPT ![p] = Written(@, end[p], c, count)]
  <2>1. ItemSize[c] \in Nat
    BY SpoolAssumption
  <2>2. PICK count \in 0 .. ItemSize[c] - 1 :
           data' = [data EXCEPT ![p] = Written(@, end[p], c, count)]
    BY DEF AddFails
  <2>3. count \in 0 .. ItemSize[c]
    BY <2>1
  <2> QED
    BY <2>2, <2>3
<1>2. /\ end'[p] = end[p] /\ entries'[p] = entries[p]
      /\ end[p] \in Nat /\ entries[p] \in Seq(Nat \X Item) /\ count \in Nat
      /\ \A i \in DOMAIN entries[p] : Holds(p, entries[p][i])
  BY SpoolAssumption DEF SpoolInv, DataInv, AddFails
<1>3. end'[p] \in Nat /\ end[p] <= end'[p] /\ end'[p] <= end[p] + count
  BY <1>2
<1>6. /\ data'[p] \in Seq(Item \X Nat)
      /\ end'[p] <= Len(data'[p])
      /\ \A e : Holds(p, e) => Holds(p, e)'
  BY <1>1, <1>3, AddKeepsEntries
<1>4. PICK old : old = entries[p]
  OBVIOUS
<1>5. \A i \in DOMAIN old : Holds(p, old[i])'
  BY <1>2, <1>6, <1>4
<1> QED
  BY <1>2, <1>6, <1>4, <1>5 DEF DataOk

LEMMA DataInvStep ==
    ASSUME SpoolInv, [SpoolNext]_spoolVars
    PROVE  DataInv'
<1>0. DOMAIN data = SpoolProcess /\ DOMAIN end = SpoolProcess /\ DOMAIN entries = SpoolProcess
  BY DEF SpoolInv, SpoolFunctions
<1> SUFFICES ASSUME NEW q \in SpoolProcess
             PROVE  DataOk(q)'
  BY DEF DataInv, DataOk
<1>1. CASE SpoolDataKept(q)
  <2>1. DataOk(q)
    BY DEF SpoolInv, DataInv, DataOk
  <2>2. \A e : Holds(q, e) => Holds(q, e)'
    BY <1>1 DEF Holds, SpoolDataKept
  <2>3. PICK old : old = entries[q]
    OBVIOUS
  <2>4. \A i \in DOMAIN old : Holds(q, old[i])'
    BY <2>1, <2>2, <2>3 DEF DataOk
  <2> QED
    BY <1>1, <2>1, <2>3, <2>4 DEF DataOk, SpoolDataKept
<1>2. CASE SpoolDataGone(q)
  BY <1>2 DEF DataOk, SpoolDataGone
<1>3. CASE \E c \in Item : AddEntry(q, c) \/ AddFails(q, c)
  BY <1>3, AddStep, AddFailsStep
<1>4. CASE UNCHANGED spoolVars
  BY <1>1, <1>4 DEF spoolVars, SpoolDataKept
<1>5. ASSUME NEW p \in SpoolProcess,
             \/ StartWalk(p) \/ OpenLeftover(p) \/ TryLock(p) \/ UnlinkLeftover(p) \/ EndWalk(p)
             \/ RecoveryDone(p) \/ CreateSpool(p) \/ LockSpool(p) \/ UnlinkSpool(p)
      PROVE  SpoolDataKept(q)
  BY <1>5
     DEF SpoolDataKept, StartWalk, OpenLeftover, TryLock, UnlinkLeftover, EndWalk, RecoveryDone,
         CreateSpool, LockSpool, UnlinkSpool
<1>6. ASSUME NEW p \in SpoolProcess, CloseSpool(p) \/ SpoolOwnerDies(p)
      PROVE  SpoolDataKept(q) \/ SpoolDataGone(q)
  BY <1>0, <1>6 DEF SpoolDataKept, SpoolDataGone, CloseSpool, SpoolOwnerDies, Vanish
<1>7. ASSUME NEW p \in SpoolProcess, NEW c \in Item, AddEntry(p, c) \/ AddFails(p, c), p # q
      PROVE  SpoolDataKept(q)
  BY <1>0, <1>7 DEF SpoolDataKept, AddEntry, AddFails
<1> QED
  BY <1>1, <1>2, <1>3, <1>4, <1>5, <1>6, <1>7 DEF SpoolNext

\* SpoolTypeOK, but for the bound on the entries.
SpoolControl ==
    /\ linked \in [SpoolName -> SpoolProcess \cup {NoOwner, Orphan}]
    /\ flocked \in [SpoolName -> SpoolProcess \cup {NoOwner}]
    /\ unused \subseteq SpoolName
    /\ spooling \in [SpoolProcess -> SpoolSteps]

LEMMA SpoolFunctionsStep ==
    ASSUME SpoolInv, [SpoolNext]_spoolVars
    PROVE  SpoolFunctions'
<1>0. /\ SpoolTypeOK /\ SpoolFunctions /\ NamesInv
      /\ NoName \notin SpoolName /\ NoOwner \notin SpoolProcess /\ Orphan \notin SpoolProcess
  BY SpoolAssumption DEF SpoolInv
<1>1. CASE UNCHANGED spoolVars
  BY <1>0, <1>1 DEF spoolVars, SpoolFunctions, SpoolTypeOK
<1>2. ASSUME NEW p \in SpoolProcess, StartWalk(p)
      PROVE  SpoolFunctions'
  BY <1>0, <1>2 DEF StartWalk, SpoolGoto, SpoolSteps, SpoolFunctions, SpoolTypeOK
<1>3. ASSUME NEW p \in SpoolProcess, OpenLeftover(p)
      PROVE  SpoolFunctions'
  <2>1. PICK n \in todo[p] :
           /\ spooling[p] = "walk"
           /\ todo' = [todo EXCEPT ![p] = @ \ {n}]
           /\ UNCHANGED <<linked, flocked, unused, mine, data, end, entries, witnessed>>
           /\ \/ spooling' = spooling /\ looking' = looking
              \/ SpoolGoto(p, "opened") /\ looking' = [looking EXCEPT ![p] = n]
    BY <1>3 DEF OpenLeftover
  <2>2. n \in SpoolName
    BY <1>0 DEF SpoolFunctions
  <2>3. CASE spooling' = spooling /\ looking' = looking
    BY <1>0, <2>1, <2>2, <2>3 DEF SpoolFunctions, SpoolTypeOK
  <2>4. CASE SpoolGoto(p, "opened") /\ looking' = [looking EXCEPT ![p] = n]
    BY <1>0, <2>1, <2>2, <2>4 DEF SpoolGoto, SpoolSteps, SpoolFunctions, SpoolTypeOK
  <2> QED
    BY <2>1, <2>3, <2>4
<1>4. ASSUME NEW p \in SpoolProcess, TryLock(p)
      PROVE  SpoolFunctions'
  <2>1. spooling[p] = "opened" /\ UNCHANGED <<linked, unused, todo, mine, data, end, entries, witnessed>>
    BY <1>4 DEF TryLock
  <2>2. CASE /\ flocked[looking[p]] = NoOwner
             /\ flocked' = [flocked EXCEPT ![looking[p]] = p]
             /\ SpoolGoto(p, "locked") /\ looking' = looking
    BY <1>0, <2>1, <2>2 DEF SpoolGoto, SpoolSteps, SpoolFunctions, SpoolTypeOK
  <2>3. CASE /\ flocked' = flocked
             /\ SpoolGoto(p, "walk") /\ looking' = [looking EXCEPT ![p] = NoName]
    BY <1>0, <2>1, <2>3 DEF SpoolGoto, SpoolSteps, SpoolFunctions, SpoolTypeOK
  <2> QED
    BY <1>4, <2>2, <2>3 DEF TryLock, Reclaimable
<1>5. ASSUME NEW p \in SpoolProcess, UnlinkLeftover(p)
      PROVE  SpoolFunctions'
  BY <1>0, <1>5 DEF UnlinkLeftover, SpoolGoto, SpoolSteps, SpoolFunctions, SpoolTypeOK
<1>6. ASSUME NEW p \in SpoolProcess, EndWalk(p)
      PROVE  SpoolFunctions'
  BY <1>0, <1>6 DEF EndWalk, SpoolGoto, SpoolSteps, SpoolFunctions, SpoolTypeOK
<1>7. ASSUME NEW p \in SpoolProcess, RecoveryDone(p)
      PROVE  SpoolFunctions'
  BY <1>0, <1>7 DEF RecoveryDone, SpoolGoto, SpoolSteps, SpoolFunctions, SpoolTypeOK
<1>8. ASSUME NEW p \in SpoolProcess, CreateSpool(p)
      PROVE  SpoolFunctions'
  BY <1>0, <1>8 DEF CreateSpool, SpoolGoto, SpoolSteps, SpoolFunctions, SpoolTypeOK
<1>9. ASSUME NEW p \in SpoolProcess, LockSpool(p)
      PROVE  SpoolFunctions'
  BY <1>0, <1>9 DEF LockSpool, SpoolGoto, SpoolSteps, SpoolFunctions, SpoolTypeOK
<1>10. ASSUME NEW p \in SpoolProcess, UnlinkSpool(p)
       PROVE  SpoolFunctions'
  BY <1>0, <1>10 DEF UnlinkSpool, SpoolGoto, SpoolSteps, SpoolFunctions, SpoolTypeOK
<1>11. ASSUME NEW p \in SpoolProcess, CloseSpool(p) \/ SpoolOwnerDies(p)
       PROVE  SpoolFunctions'
  <2>1. Vanish(p) /\ witnessed' \in [SpoolProcess -> SUBSET SpoolName]
    BY <1>0, <1>11 DEF CloseSpool, SpoolOwnerDies, SpoolFunctions
  <2>2. /\ linked' = [n \in SpoolName |-> IF linked[n] = p THEN Orphan ELSE linked[n]]
        /\ flocked' = [n \in SpoolName |-> IF flocked[n] = p THEN NoOwner ELSE flocked[n]]
        /\ spooling' = [spooling EXCEPT ![p] = "idle"]
        /\ todo' = [todo EXCEPT ![p] = {}]
        /\ looking' = [looking EXCEPT ![p] = NoName]
        /\ mine' = [mine EXCEPT ![p] = NoName]
        /\ UNCHANGED unused
        /\ DOMAIN data' = SpoolProcess /\ DOMAIN end' = SpoolProcess
        /\ DOMAIN entries' = SpoolProcess
    BY <1>0, <2>1 DEF Vanish, SpoolGoto, SpoolFunctions
  <2> QED
    BY <1>0, <2>1, <2>2 DEF SpoolSteps, SpoolFunctions, SpoolTypeOK
<1>12. ASSUME NEW p \in SpoolProcess, NEW c \in Item, AddEntry(p, c) \/ AddFails(p, c)
       PROVE  SpoolFunctions'
  BY <1>0, <1>12 DEF AddEntry, AddFails, SpoolFunctions, SpoolTypeOK
<1> QED
  BY <1>1, <1>2, <1>3, <1>4, <1>5, <1>6, <1>7, <1>8, <1>9, <1>10, <1>11, <1>12 DEF SpoolNext

LEMMA NamesInvStep ==
    ASSUME SpoolInv, [SpoolNext]_spoolVars
    PROVE  NamesInv'
<1>0. /\ SpoolTypeOK /\ SpoolFunctions /\ NamesInv
      /\ NoName \notin SpoolName /\ NoOwner \notin SpoolProcess /\ Orphan \notin SpoolProcess
  BY SpoolAssumption DEF SpoolInv
<1>1. CASE UNCHANGED spoolVars
  BY <1>0, <1>1 DEF spoolVars, NamesInv, SpoolFunctions, SpoolTypeOK
<1>2. ASSUME NEW p \in SpoolProcess, StartWalk(p)
      PROVE  NamesInv'
  BY <1>0, <1>2 DEF StartWalk, SpoolGoto, SpoolSteps, NamesInv, SpoolFunctions, SpoolTypeOK
<1>3. ASSUME NEW p \in SpoolProcess, OpenLeftover(p)
      PROVE  NamesInv'
  <2>1. PICK n \in todo[p] :
           /\ spooling[p] = "walk"
           /\ todo' = [todo EXCEPT ![p] = @ \ {n}]
           /\ UNCHANGED <<linked, flocked, unused, mine, data, end, entries, witnessed>>
           /\ \/ spooling' = spooling /\ looking' = looking
              \/ SpoolGoto(p, "opened") /\ looking' = [looking EXCEPT ![p] = n]
    BY <1>3 DEF OpenLeftover
  <2>2. n \in SpoolName
    BY <1>0 DEF SpoolFunctions
  <2>3. CASE spooling' = spooling /\ looking' = looking
    BY <1>0, <2>1, <2>2, <2>3 DEF NamesInv, SpoolFunctions, SpoolTypeOK
  <2>4. CASE SpoolGoto(p, "opened") /\ looking' = [looking EXCEPT ![p] = n]
    BY <1>0, <2>1, <2>2, <2>4 DEF SpoolGoto, SpoolSteps, NamesInv, SpoolFunctions, SpoolTypeOK
  <2> QED
    BY <2>1, <2>3, <2>4
<1>4. ASSUME NEW p \in SpoolProcess, TryLock(p)
      PROVE  NamesInv'
  <2>1. spooling[p] = "opened" /\ UNCHANGED <<linked, unused, todo, mine, data, end, entries, witnessed>>
    BY <1>4 DEF TryLock
  <2>2. CASE /\ flocked[looking[p]] = NoOwner
             /\ flocked' = [flocked EXCEPT ![looking[p]] = p]
             /\ SpoolGoto(p, "locked") /\ looking' = looking
    BY <1>0, <2>1, <2>2 DEF SpoolGoto, SpoolSteps, NamesInv, SpoolFunctions, SpoolTypeOK
  <2>3. CASE /\ flocked' = flocked
             /\ SpoolGoto(p, "walk") /\ looking' = [looking EXCEPT ![p] = NoName]
    BY <1>0, <2>1, <2>3 DEF SpoolGoto, SpoolSteps, NamesInv, SpoolFunctions, SpoolTypeOK
  <2> QED
    BY <1>4, <2>2, <2>3 DEF TryLock, Reclaimable
<1>5. ASSUME NEW p \in SpoolProcess, UnlinkLeftover(p)
      PROVE  NamesInv'
  BY <1>0, <1>5 DEF UnlinkLeftover, SpoolGoto, SpoolSteps, NamesInv, SpoolFunctions, SpoolTypeOK
<1>6. ASSUME NEW p \in SpoolProcess, EndWalk(p)
      PROVE  NamesInv'
  BY <1>0, <1>6 DEF EndWalk, SpoolGoto, SpoolSteps, NamesInv, SpoolFunctions, SpoolTypeOK
<1>7. ASSUME NEW p \in SpoolProcess, RecoveryDone(p)
      PROVE  NamesInv'
  BY <1>0, <1>7 DEF RecoveryDone, SpoolGoto, SpoolSteps, NamesInv, SpoolFunctions, SpoolTypeOK
<1>8. ASSUME NEW p \in SpoolProcess, CreateSpool(p)
      PROVE  NamesInv'
  BY <1>0, <1>8 DEF CreateSpool, SpoolGoto, SpoolSteps, NamesInv, SpoolFunctions, SpoolTypeOK
<1>9. ASSUME NEW p \in SpoolProcess, LockSpool(p)
      PROVE  NamesInv'
  BY <1>0, <1>9 DEF LockSpool, SpoolGoto, SpoolSteps, NamesInv, SpoolFunctions, SpoolTypeOK
<1>10. ASSUME NEW p \in SpoolProcess, UnlinkSpool(p)
       PROVE  NamesInv'
  BY <1>0, <1>10 DEF UnlinkSpool, SpoolGoto, SpoolSteps, NamesInv, SpoolFunctions, SpoolTypeOK
<1>11. ASSUME NEW p \in SpoolProcess, CloseSpool(p) \/ SpoolOwnerDies(p)
       PROVE  NamesInv'
  <2>1. Vanish(p) /\ witnessed' \in [SpoolProcess -> SUBSET SpoolName]
    BY <1>0, <1>11 DEF CloseSpool, SpoolOwnerDies, SpoolFunctions
  <2>2. /\ linked' = [n \in SpoolName |-> IF linked[n] = p THEN Orphan ELSE linked[n]]
        /\ flocked' = [n \in SpoolName |-> IF flocked[n] = p THEN NoOwner ELSE flocked[n]]
        /\ spooling' = [spooling EXCEPT ![p] = "idle"]
        /\ todo' = [todo EXCEPT ![p] = {}]
        /\ looking' = [looking EXCEPT ![p] = NoName]
        /\ mine' = [mine EXCEPT ![p] = NoName]
        /\ UNCHANGED unused
        /\ DOMAIN data' = SpoolProcess /\ DOMAIN end' = SpoolProcess
        /\ DOMAIN entries' = SpoolProcess
    BY <1>0, <2>1 DEF Vanish, SpoolGoto, SpoolFunctions
  <2> QED
    BY <1>0, <2>1, <2>2 DEF SpoolSteps, NamesInv, SpoolFunctions, SpoolTypeOK
<1>12. ASSUME NEW p \in SpoolProcess, NEW c \in Item, AddEntry(p, c) \/ AddFails(p, c)
       PROVE  NamesInv'
  BY <1>0, <1>12 DEF AddEntry, AddFails, NamesInv, SpoolFunctions, SpoolTypeOK
<1> QED
  BY <1>1, <1>2, <1>3, <1>4, <1>5, <1>6, <1>7, <1>8, <1>9, <1>10, <1>11, <1>12 DEF SpoolNext

LEMMA SpoolControlStep ==
    ASSUME SpoolInv, [SpoolNext]_spoolVars
    PROVE  SpoolControl'
<1>0. /\ SpoolTypeOK /\ SpoolFunctions /\ NamesInv
      /\ NoName \notin SpoolName /\ NoOwner \notin SpoolProcess /\ Orphan \notin SpoolProcess
  BY SpoolAssumption DEF SpoolInv
<1>1. CASE UNCHANGED spoolVars
  BY <1>0, <1>1 DEF spoolVars, SpoolControl, SpoolTypeOK, SpoolFunctions
<1>2. ASSUME NEW p \in SpoolProcess, StartWalk(p)
      PROVE  SpoolControl'
  BY <1>0, <1>2 DEF StartWalk, SpoolGoto, SpoolSteps, SpoolControl, SpoolTypeOK, SpoolFunctions
<1>3. ASSUME NEW p \in SpoolProcess, OpenLeftover(p)
      PROVE  SpoolControl'
  <2>1. PICK n \in todo[p] :
           /\ spooling[p] = "walk"
           /\ todo' = [todo EXCEPT ![p] = @ \ {n}]
           /\ UNCHANGED <<linked, flocked, unused, mine, data, end, entries, witnessed>>
           /\ \/ spooling' = spooling /\ looking' = looking
              \/ SpoolGoto(p, "opened") /\ looking' = [looking EXCEPT ![p] = n]
    BY <1>3 DEF OpenLeftover
  <2>2. n \in SpoolName
    BY <1>0 DEF SpoolFunctions
  <2>3. CASE spooling' = spooling /\ looking' = looking
    BY <1>0, <2>1, <2>2, <2>3 DEF SpoolControl, SpoolTypeOK, SpoolFunctions
  <2>4. CASE SpoolGoto(p, "opened") /\ looking' = [looking EXCEPT ![p] = n]
    BY <1>0, <2>1, <2>2, <2>4 DEF SpoolGoto, SpoolSteps, SpoolControl, SpoolTypeOK, SpoolFunctions
  <2> QED
    BY <2>1, <2>3, <2>4
<1>4. ASSUME NEW p \in SpoolProcess, TryLock(p)
      PROVE  SpoolControl'
  <2>1. spooling[p] = "opened" /\ UNCHANGED <<linked, unused, todo, mine, data, end, entries, witnessed>>
    BY <1>4 DEF TryLock
  <2>2. CASE /\ flocked[looking[p]] = NoOwner
             /\ flocked' = [flocked EXCEPT ![looking[p]] = p]
             /\ SpoolGoto(p, "locked") /\ looking' = looking
    BY <1>0, <2>1, <2>2 DEF SpoolGoto, SpoolSteps, SpoolControl, SpoolTypeOK, SpoolFunctions
  <2>3. CASE /\ flocked' = flocked
             /\ SpoolGoto(p, "walk") /\ looking' = [looking EXCEPT ![p] = NoName]
    BY <1>0, <2>1, <2>3 DEF SpoolGoto, SpoolSteps, SpoolControl, SpoolTypeOK, SpoolFunctions
  <2> QED
    BY <1>4, <2>2, <2>3 DEF TryLock, Reclaimable
<1>5. ASSUME NEW p \in SpoolProcess, UnlinkLeftover(p)
      PROVE  SpoolControl'
  BY <1>0, <1>5 DEF UnlinkLeftover, SpoolGoto, SpoolSteps, SpoolControl, SpoolTypeOK, SpoolFunctions
<1>6. ASSUME NEW p \in SpoolProcess, EndWalk(p)
      PROVE  SpoolControl'
  BY <1>0, <1>6 DEF EndWalk, SpoolGoto, SpoolSteps, SpoolControl, SpoolTypeOK, SpoolFunctions
<1>7. ASSUME NEW p \in SpoolProcess, RecoveryDone(p)
      PROVE  SpoolControl'
  BY <1>0, <1>7 DEF RecoveryDone, SpoolGoto, SpoolSteps, SpoolControl, SpoolTypeOK, SpoolFunctions
<1>8. ASSUME NEW p \in SpoolProcess, CreateSpool(p)
      PROVE  SpoolControl'
  BY <1>0, <1>8 DEF CreateSpool, SpoolGoto, SpoolSteps, SpoolControl, SpoolTypeOK, SpoolFunctions
<1>9. ASSUME NEW p \in SpoolProcess, LockSpool(p)
      PROVE  SpoolControl'
  BY <1>0, <1>9 DEF LockSpool, SpoolGoto, SpoolSteps, SpoolControl, SpoolTypeOK, SpoolFunctions
<1>10. ASSUME NEW p \in SpoolProcess, UnlinkSpool(p)
       PROVE  SpoolControl'
  BY <1>0, <1>10 DEF UnlinkSpool, SpoolGoto, SpoolSteps, SpoolControl, SpoolTypeOK, SpoolFunctions
<1>11. ASSUME NEW p \in SpoolProcess, CloseSpool(p) \/ SpoolOwnerDies(p)
       PROVE  SpoolControl'
  <2>1. Vanish(p) /\ witnessed' \in [SpoolProcess -> SUBSET SpoolName]
    BY <1>0, <1>11 DEF CloseSpool, SpoolOwnerDies, SpoolFunctions
  <2>2. /\ linked' = [n \in SpoolName |-> IF linked[n] = p THEN Orphan ELSE linked[n]]
        /\ flocked' = [n \in SpoolName |-> IF flocked[n] = p THEN NoOwner ELSE flocked[n]]
        /\ spooling' = [spooling EXCEPT ![p] = "idle"]
        /\ todo' = [todo EXCEPT ![p] = {}]
        /\ looking' = [looking EXCEPT ![p] = NoName]
        /\ mine' = [mine EXCEPT ![p] = NoName]
        /\ UNCHANGED unused
        /\ DOMAIN data' = SpoolProcess /\ DOMAIN end' = SpoolProcess
        /\ DOMAIN entries' = SpoolProcess
    BY <1>0, <2>1 DEF Vanish, SpoolGoto, SpoolFunctions
  <2> QED
    BY <1>0, <2>1, <2>2 DEF SpoolSteps, SpoolControl, SpoolTypeOK, SpoolFunctions
<1>12. ASSUME NEW p \in SpoolProcess, NEW c \in Item, AddEntry(p, c) \/ AddFails(p, c)
       PROVE  SpoolControl'
  BY <1>0, <1>12 DEF AddEntry, AddFails, SpoolControl, SpoolTypeOK, SpoolFunctions
<1> QED
  BY <1>1, <1>2, <1>3, <1>4, <1>5, <1>6, <1>7, <1>8, <1>9, <1>10, <1>11, <1>12 DEF SpoolNext

LEMMA WalkInvStep ==
    ASSUME SpoolInv, [SpoolNext]_spoolVars
    PROVE  WalkInv'
<1>0. /\ SpoolTypeOK /\ SpoolFunctions /\ NamesInv /\ WalkInv
      /\ NoName \notin SpoolName /\ NoOwner \notin SpoolProcess /\ Orphan \notin SpoolProcess
      /\ NoOwner # Orphan
      /\ spooling \in [SpoolProcess -> SpoolSteps]
  BY SpoolAssumption DEF SpoolInv, SpoolTypeOK
<1>1. CASE \E p \in SpoolProcess : SpoolOwnerDies(p)
  <2>1. \A q \in SpoolProcess : witnessed'[q] = {}
    BY <1>1 DEF SpoolOwnerDies
  <2> QED
    BY <2>1 DEF WalkInv
<1>2. CASE UNCHANGED spoolVars
  BY <1>0, <1>2 DEF spoolVars, WalkInv, Walking
<1>3. ASSUME NEW p \in SpoolProcess, StartWalk(p)
      PROVE  WalkInv'
  <2>1. /\ spooling[p] = "idle" /\ linked' = linked /\ looking' = looking
        /\ spooling' = [spooling EXCEPT ![p] = "walk"]
        /\ todo'[p] = {n \in SpoolName : linked[n] # NoOwner}
        /\ \A q \in SpoolProcess : q # p => witnessed'[q] = {}
        /\ \/ witnessed'[p] = {}
           \/ /\ \A o \in SpoolProcess \ {p} : ~Walking(o)
              /\ witnessed'[p] = {n \in SpoolName : linked[n] = Orphan}
    BY <1>0, <1>3 DEF StartWalk, SpoolGoto, SpoolFunctions, Walking
  <2> QED
    BY <1>0, <2>1 DEF WalkInv, Walking
<1>4. ASSUME NEW p \in SpoolProcess, OpenLeftover(p)
      PROVE  WalkInv'
  <2>1. PICK n \in todo[p] :
           /\ spooling[p] = "walk"
           /\ todo' = [todo EXCEPT ![p] = @ \ {n}]
           /\ linked' = linked /\ witnessed' = witnessed
           /\ \/ linked[n] = NoOwner /\ spooling' = spooling /\ looking' = looking
              \/ SpoolGoto(p, "opened") /\ looking' = [looking EXCEPT ![p] = n]
    BY <1>4 DEF OpenLeftover
  <2>2. CASE linked[n] = NoOwner /\ spooling' = spooling /\ looking' = looking
    BY <1>0, <2>1, <2>2 DEF WalkInv, Walking, SpoolFunctions
  <2>3. CASE SpoolGoto(p, "opened") /\ looking' = [looking EXCEPT ![p] = n]
    BY <1>0, <2>1, <2>3 DEF SpoolGoto, WalkInv, Walking, SpoolFunctions
  <2> QED
    BY <2>1, <2>2, <2>3
<1>5. ASSUME NEW p \in SpoolProcess, TryLock(p)
      PROVE  WalkInv'
  <2>1. spooling[p] = "opened" /\ UNCHANGED <<linked, todo, witnessed>>
    BY <1>5 DEF TryLock
  <2>2. CASE SpoolGoto(p, "locked") /\ looking' = looking
    BY <1>0, <2>1, <2>2 DEF SpoolGoto, WalkInv, Walking
  <2>3. CASE /\ flocked[looking[p]] # NoOwner
             /\ SpoolGoto(p, "walk") /\ looking' = [looking EXCEPT ![p] = NoName]
    <3>1. PICK n \in SpoolName : n = looking[p]
      BY <1>0, <2>1 DEF SpoolFunctions
    <3>2. PICK q \in SpoolProcess : q = flocked[n]
      BY <1>0, <2>3, <3>1 DEF SpoolTypeOK
    <3>3. witnessed[p] # {} => linked[n] # Orphan
      <4>1. CASE spooling[q] = "locked"
        BY <1>0, <2>1, <4>1 DEF WalkInv, Walking
      <4>2. CASE mine[q] = n
        BY <1>0, <3>1, <4>2 DEF NamesInv
      <4> QED
        BY <1>0, <2>3, <3>1, <3>2, <4>1, <4>2 DEF NamesInv
    <3>4. /\ \A o \in SpoolProcess : spooling'[o] = IF o = p THEN "walk" ELSE spooling[o]
          /\ \A o \in SpoolProcess : o # p => looking'[o] = looking[o]
      BY <1>0, <2>3 DEF SpoolGoto, SpoolFunctions
    <3> QED
      BY <1>0, <2>1, <3>1, <3>3, <3>4 DEF WalkInv, Walking
  <2> QED
    BY <1>5, <2>2, <2>3 DEF TryLock, Reclaimable
<1>6. ASSUME NEW p \in SpoolProcess, UnlinkLeftover(p)
      PROVE  WalkInv'
  <2>1. /\ spooling[p] = "locked" /\ looking[p] \in SpoolName
        /\ linked' = [linked EXCEPT ![looking[p]] = NoOwner]
        /\ looking' = [looking EXCEPT ![p] = NoName]
        /\ spooling' = [spooling EXCEPT ![p] = "walk"]
        /\ UNCHANGED <<todo, witnessed>>
    BY <1>0, <1>6 DEF UnlinkLeftover, SpoolGoto, SpoolFunctions
  <2>2. /\ linked'[looking[p]] = NoOwner
        /\ \A n \in SpoolName : linked'[n] = Orphan => linked[n] = Orphan
    BY <1>0, <2>1 DEF SpoolTypeOK
  <2> QED
    BY <1>0, <2>1, <2>2 DEF WalkInv, Walking, SpoolFunctions
<1>7. ASSUME NEW p \in SpoolProcess, EndWalk(p)
      PROVE  WalkInv'
  BY <1>0, <1>7 DEF EndWalk, SpoolGoto, WalkInv, Walking
<1>8. ASSUME NEW p \in SpoolProcess, RecoveryDone(p)
      PROVE  WalkInv'
  BY <1>0, <1>8 DEF RecoveryDone, SpoolGoto, WalkInv, Walking, SpoolFunctions
<1>9. ASSUME NEW p \in SpoolProcess, CreateSpool(p)
      PROVE  WalkInv'
  <2>1. /\ spooling[p] = "create"
        /\ spooling' = [spooling EXCEPT ![p] = "lock"]
        /\ witnessed' = [witnessed EXCEPT ![p] = {}]
        /\ UNCHANGED <<todo, looking>>
    BY <1>9 DEF CreateSpool, SpoolGoto
  <2>2. \A n \in SpoolName : linked'[n] = Orphan => linked[n] = Orphan
    BY <1>0, <1>9 DEF CreateSpool, SpoolTypeOK
  <2> QED
    BY <1>0, <2>1, <2>2 DEF WalkInv, Walking, SpoolFunctions
<1>10. ASSUME NEW p \in SpoolProcess, LockSpool(p) \/ UnlinkSpool(p) \/ CloseSpool(p)
       PROVE  WalkInv'
  <2>1. /\ spooling[p] \in {"lock", "unlink", "ready"}
        /\ \E step \in {"unlink", "ready", "idle"} : spooling' = [spooling EXCEPT ![p] = step]
        /\ \A o \in SpoolProcess : o # p => todo'[o] = todo[o] /\ looking'[o] = looking[o]
        /\ witnessed' = witnessed
    BY <1>0, <1>10 DEF LockSpool, UnlinkSpool, CloseSpool, Vanish, SpoolGoto, SpoolFunctions
  <2>2. \A n \in SpoolName : linked'[n] = Orphan => linked[n] = Orphan
    BY <1>0, <1>10 DEF LockSpool, UnlinkSpool, CloseSpool, Vanish, SpoolTypeOK, NamesInv
  <2> QED
    BY <1>0, <2>1, <2>2 DEF WalkInv, Walking, SpoolFunctions
<1>11. ASSUME NEW p \in SpoolProcess, NEW c \in Item, AddEntry(p, c) \/ AddFails(p, c)
       PROVE  WalkInv'
  BY <1>0, <1>11 DEF AddEntry, AddFails, WalkInv, Walking
<1> QED
  BY <1>1, <1>2, <1>3, <1>4, <1>5, <1>6, <1>7, <1>8, <1>9, <1>10, <1>11 DEF SpoolNext

\* The bound on the entries, and that only those concerned with a file hold its lock.
LEMMA SpoolBoundStep ==
    ASSUME SpoolInv, [SpoolNext]_spoolVars, SpoolFunctions', NamesInv', DataInv', SpoolControl'
    PROVE  SpoolTypeOK'
<1>1. ASSUME NEW q \in SpoolProcess
      PROVE  Len(entries'[q]) <= MaxEntries
  <2>0. /\ DOMAIN entries = SpoolProcess /\ Len(entries[q]) <= MaxEntries
        /\ entries[q] \in Seq(Nat \X Item) /\ MaxEntries \in Nat
    BY SpoolAssumption DEF SpoolInv, SpoolFunctions, SpoolTypeOK, DataInv
  <2>1. CASE entries'[q] = entries[q] \/ entries'[q] = <<>>
    BY <2>0, <2>1
  <2>2. ASSUME NEW c \in Item, AddEntry(q, c)
        PROVE  Len(entries'[q]) <= MaxEntries
    <3>1. entries'[q] = Append(entries[q], <<end[q], c>>) /\ Len(entries[q]) < MaxEntries
      BY <2>0, <2>2 DEF AddEntry
    <3>2. <<end[q], c>> \in Nat \X Item
      BY DEF SpoolInv, DataInv
    <3>3. Len(entries'[q]) = Len(entries[q]) + 1 /\ Len(entries[q]) \in Nat
      BY <2>0, <3>1, <3>2
    <3> QED
      BY <2>0, <3>1, <3>3
  <2>3. ASSUME NEW p \in SpoolProcess, CloseSpool(p) \/ SpoolOwnerDies(p)
        PROVE  entries'[q] = entries[q] \/ entries'[q] = <<>>
    BY <2>0, <2>3 DEF CloseSpool, SpoolOwnerDies, Vanish
  <2>4. ASSUME NEW p \in SpoolProcess, NEW c \in Item, AddEntry(p, c), p # q
        PROVE  entries'[q] = entries[q]
    BY <2>0, <2>4 DEF AddEntry
  <2> QED
    BY <2>1, <2>2, <2>3, <2>4
       DEF SpoolNext, spoolVars, StartWalk, OpenLeftover, TryLock, UnlinkLeftover, EndWalk,
           RecoveryDone, CreateSpool, LockSpool, UnlinkSpool, AddFails
<1>2. \A n \in SpoolName : flocked'[n] # NoOwner => n \in {mine'[flocked'[n]], looking'[flocked'[n]]}
  BY DEF NamesInv
<1>3. \A p \in SpoolProcess : todo'[p] \subseteq SpoolName
  BY DEF SpoolFunctions
<1> QED
  BY <1>1, <1>2, <1>3 DEF SpoolTypeOK, SpoolControl

LEMMA SpoolInvStep ==
    ASSUME SpoolInv, [SpoolNext]_spoolVars
    PROVE  SpoolInv'
<1>1. SpoolFunctions' /\ NamesInv' /\ WalkInv' /\ DataInv' /\ SpoolControl'
  BY SpoolFunctionsStep, NamesInvStep, WalkInvStep, DataInvStep, SpoolControlStep
<1> QED
  BY <1>1, SpoolBoundStep DEF SpoolInv

\* The inductive invariant of spools.
THEOREM SpoolInvariant == SpoolSpec => []SpoolInv
<1>1. SpoolInit => SpoolInv
  BY SpoolInitInv
<1>2. SpoolInv /\ [SpoolNext]_spoolVars => SpoolInv'
  BY SpoolInvStep
<1> QED
  BY <1>1, <1>2, PTL DEF SpoolSpec

\* load() gets the bytes of every entry that were added for it, whichever add() failed half-way
\* before or after, for contributions of any size and any number of entries.
THEOREM SpoolHoldsEntriesInvariant == SpoolSpec => []SpoolHoldsEntries
<1>1. SpoolInv => SpoolHoldsEntries
  <2> SUFFICES ASSUME SpoolInv, NEW p \in SpoolProcess, NEW i \in DOMAIN entries[p]
               PROVE  LoadedBytes(p, entries[p][i]) = Encoding(entries[p][i][2])
    BY DEF SpoolHoldsEntries
  <2>1. PICK e : e = entries[p][i]
    OBVIOUS
  <2>2. Holds(p, e)
    BY <2>1 DEF SpoolInv, DataInv
  <2>3. PICK n : n = ItemSize[e[2]]
    OBVIOUS
  <2>4. /\ e[1] \in Nat /\ n \in Nat /\ end[p] \in Nat /\ end[p] <= Len(data[p])
        /\ data[p] \in Seq(Item \X Nat) /\ e[1] + n <= end[p]
        /\ \A k \in 1 .. n : data[p][e[1] + k] = <<e[2], k>>
    BY <2>2, <2>3, SpoolAssumption DEF Holds, SpoolInv, DataInv
  <2>5. \A k \in e[1] + 1 .. e[1] + n : data[p][k] \in Item \X Nat
    BY <2>4
  <2> DEFINE loaded == SubSeq(data[p], e[1] + 1, e[1] + n)
  <2>6. /\ loaded \in Seq(Item \X Nat)
        /\ Len(loaded) = IF e[1] + 1 <= e[1] + n THEN (e[1] + n) - (e[1] + 1) + 1 ELSE 0
        /\ \A k \in 1 .. (e[1] + n) - (e[1] + 1) + 1 : loaded[k] = data[p][(e[1] + 1) + k - 1]
    <3>1. e[1] + 1 \in Int /\ e[1] + n \in Int
      BY <2>4
    <3> QED
      BY <2>5, <3>1, SubSeqProperties
  <2> HIDE DEF loaded
  <2>7. Len(loaded) = n
    BY <2>4, <2>6
  <2>8. \A k \in 1 .. n : loaded[k] = <<e[2], k>>
    <3> SUFFICES ASSUME NEW k \in 1 .. n
                 PROVE  loaded[k] = <<e[2], k>>
      OBVIOUS
    <3>1. k \in 1 .. (e[1] + n) - (e[1] + 1) + 1 /\ (e[1] + 1) + k - 1 = e[1] + k
      BY <2>4
    <3> QED
      BY <2>4, <2>6, <3>1
  <2>9. loaded = [k \in 1 .. n |-> <<e[2], k>>]
    BY <2>6, <2>7, <2>8
  <2> QED
    BY <2>1, <2>3, <2>9 DEF loaded, LoadedBytes, Encoding
<1> QED
  BY <1>1, SpoolInvariant, PTL

\* A walk over the leftovers that no other walk or death disturbed removes every one it listed.
THEOREM LeftoversGoInvariant == SpoolSpec => []LeftoversGo
<1>1. SpoolInv => LeftoversGo
  BY DEF SpoolInv, WalkInv, Walking, LeftoversGo
<1> QED
  BY <1>1, SpoolInvariant, PTL
=============================================================================
