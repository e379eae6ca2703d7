------------------------------ MODULE StoreOpen ------------------------------
(***************************************************************************)
(* Opening one database file: Store::open, which creates the schema when   *)
(* the file holds nothing, and ReadOnlyStore::open, which looks at the     *)
(* file and its WAL sidecars before SQLite does. Several processes open    *)
(* and close the same path, writers die, and another program may put a     *)
(* database of its own there first.                                        *)
(*                                                                         *)
(* What a file is, is what its identity reads say: a store of a root, a    *)
(* store of another schema version, something foreign, or nothing yet.     *)
(* SQLite is modelled by what the code relies on: one write transaction    *)
(* at a time, WAL sidecars created by the first access and removed with    *)
(* the last writing connection.                                            *)
(***************************************************************************)
EXTENDS Naturals, FiniteSets

CONSTANTS
    Opener,     \* processes that call Store::open
    Reader,     \* processes that call ReadOnlyStore::open
    Root,       \* workspace roots
    RootOf,     \* the root each process passes, or AnyRoot for a reader without --root
    AnyRoot,
    Absent, Empty, Foreign, Newer,  \* what a path can be besides a store of a root
    NoProc

OpenProcess == Opener \cup Reader

ASSUME OpenAssumption ==
    /\ Opener \cap Reader = {}
    /\ NoProc \notin OpenProcess
    /\ AnyRoot \notin Root
    /\ Root \cap {Absent, Empty, Foreign, Newer} = {}
    /\ Absent \notin {Empty, Foreign, Newer}
    /\ RootOf \in [OpenProcess -> Root \cup {AnyRoot}]
    /\ \A p \in Opener : RootOf[p] \in Root

VARIABLES
    file,       \* what is committed at the path
    journal,    \* the journal mode in the file's header
    wal,        \* <db>-wal: absent, empty or with frames
    shm,        \* <db>-shm exists
    creator,    \* who holds the write transaction, or NoProc
    opening,    \* where each process is
    seen,       \* what check_identity has read so far
    refusal,    \* why the last open of a process was refused, or "none"
    connected,  \* processes with a connection that SQLite may write sidecars for
    made        \* readers whose connection created a sidecar

fileVars == <<file, journal, wal, shm>>
openVars == <<file, journal, wal, shm, creator, opening, seen, refusal, connected, made>>

WriterSteps == {"closed", "application_id", "user_version", "sqlite_schema", "begin", "again", "commit",
                "root", "journal", "open", "refused"}
ReaderSteps == {"closed", "wal", "header", "sidecars", "probe", "connect", "verify", "open", "refused"}

OpenTypeOK ==
    /\ file \in Root \cup {Absent, Empty, Foreign, Newer}
    /\ journal \in {"delete", "wal"}
    /\ wal \in {"absent", "empty", "frames"}
    /\ shm \in BOOLEAN
    /\ creator \in Opener \cup {NoProc}
    /\ creator # NoProc => opening[creator] \in {"again", "commit"} /\ creator \in connected
    /\ \A p \in Opener : opening[p] \in WriterSteps
    /\ \A r \in Reader : opening[r] \in ReaderSteps
    /\ connected \subseteq OpenProcess
    /\ made \subseteq Reader

(***************************************************************************)
(* Identity                                                                *)
(***************************************************************************)

ApplicationId(f) == IF f \in Root \cup {Newer} THEN "LCMS" ELSE "zero"

UserVersion(f) == IF f \in Root THEN "current" ELSE IF f = Newer THEN "other" ELSE "zero"

HasObjects(f) == f \notin {Absent, Empty}

\* check_identity's conclusion from its three reads.
Identity(app, version, objects) ==
    IF app = "zero" /\ version = "zero" /\ ~objects THEN "uninitialized"
    ELSE IF app # "LCMS" THEN "application id"
    ELSE IF version # "current" THEN "schema version"
    ELSE "ours"

IdentityOf(f) == Identity(ApplicationId(f), UserVersion(f), HasObjects(f))

(***************************************************************************)
(* SQLite: sidecars, and leaving a file                                    *)
(***************************************************************************)

\* The first access of a connection to a WAL-mode file creates what is missing.
TouchSidecars ==
    IF journal = "wal"
    THEN /\ wal' = IF wal = "absent" THEN "empty" ELSE wal
         /\ shm' = TRUE
    ELSE UNCHANGED <<wal, shm>>

\* The last writing connection checkpoints and removes the sidecars; a reader leaves them.
Disconnect(p) ==
    /\ connected' = connected \ {p}
    /\ IF p \in Opener /\ connected = {p}
       THEN wal' = "absent" /\ shm' = FALSE
       ELSE UNCHANGED <<wal, shm>>

Goto(p, step) == opening' = [opening EXCEPT ![p] = step]

Refuse(p, why) ==
    /\ Goto(p, "refused")
    /\ refusal' = [refusal EXCEPT ![p] = why]

Start(p, step) ==
    /\ opening[p] = "closed"
    /\ Goto(p, step)
    /\ refusal' = [refusal EXCEPT ![p] = "none"]
    /\ made' = made \ {p}

(***************************************************************************)
(* Store::open                                                             *)
(***************************************************************************)

Connect(p) ==
    /\ Start(p, "application_id")
    /\ file' = IF file = Absent THEN Empty ELSE file
    /\ connected' = connected \cup {p}
    /\ seen' = [seen EXCEPT ![p] = [app |-> "zero", version |-> "zero"]]
    /\ UNCHANGED <<journal, wal, shm, creator>>

\* Each of the three reads is a statement, and so a transaction, of its own.
ReadApplicationId(p) ==
    /\ opening[p] = "application_id"
    /\ seen' = [seen EXCEPT ![p].app = ApplicationId(file)]
    /\ TouchSidecars
    /\ Goto(p, "user_version")
    /\ UNCHANGED <<file, journal, creator, refusal, connected, made>>

ReadUserVersion(p) ==
    /\ opening[p] = "user_version"
    /\ seen' = [seen EXCEPT ![p].version = UserVersion(file)]
    /\ Goto(p, "sqlite_schema")
    /\ UNCHANGED <<fileVars, creator, refusal, connected, made>>

CountObjects(p) ==
    /\ opening[p] = "sqlite_schema"
    /\ LET identity == Identity(seen[p].app, seen[p].version, HasObjects(file)) IN
       CASE identity = "uninitialized" -> Goto(p, "begin") /\ UNCHANGED <<wal, shm, refusal, connected>>
         [] identity = "ours"          -> Goto(p, "root") /\ UNCHANGED <<wal, shm, refusal, connected>>
         [] OTHER                      -> Refuse(p, identity) /\ Disconnect(p)
    /\ UNCHANGED <<file, journal, creator, seen, made>>

BeginImmediate(p) ==
    /\ opening[p] = "begin"
    /\ creator = NoProc
    /\ creator' = p
    /\ Goto(p, "again")
    /\ UNCHANGED <<fileVars, seen, refusal, connected, made>>

\* The busy timeout ends while another process holds the write transaction.
BeginBusy(p) ==
    /\ opening[p] = "begin"
    /\ creator # NoProc
    /\ Refuse(p, "busy")
    /\ Disconnect(p)
    /\ UNCHANGED <<file, journal, creator, seen, made>>

\* Mutant: the transaction relies on the check made before it.
IdentityInTransaction_Remembered(p) == "uninitialized"

\* The second check reads inside the transaction; what it refuses is rolled back.
IdentityInTransaction(p) == IdentityOf(file)

CheckAgain(p) ==
    /\ opening[p] = "again"
    /\ LET identity == IdentityInTransaction(p) IN
       IF identity \in {"uninitialized", "ours"}
       THEN Goto(p, "commit") /\ UNCHANGED <<wal, shm, creator, refusal, connected>>
       ELSE Refuse(p, identity) /\ Disconnect(p) /\ creator' = NoProc
    /\ UNCHANGED <<file, journal, seen, made>>

CommitCreation(p) ==
    /\ opening[p] = "commit"
    /\ file' = IF IdentityInTransaction(p) = "uninitialized" THEN RootOf[p] ELSE file
    /\ creator' = NoProc
    /\ Goto(p, "root")
    /\ UNCHANGED <<journal, wal, shm, seen, refusal, connected, made>>

\* A commit that fails is rolled back: nothing of the schema stays.
CreationFails(p) ==
    /\ opening[p] = "commit"
    /\ creator' = NoProc
    /\ Refuse(p, "failed")
    /\ Disconnect(p)
    /\ UNCHANGED <<file, journal, seen, made>>

CheckRoot(p) ==
    /\ opening[p] = "root"
    /\ IF file = RootOf[p]
       THEN Goto(p, "journal") /\ UNCHANGED <<wal, shm, refusal, connected>>
       ELSE Refuse(p, "workspace root") /\ Disconnect(p)
    /\ UNCHANGED <<file, journal, creator, seen, made>>

\* WAL when asked for and granted, otherwise the rollback journal unless others keep it WAL.
ChooseJournal(p) ==
    /\ opening[p] = "journal"
    /\ \/ /\ journal' = "wal"
          /\ wal' = IF wal = "absent" THEN "empty" ELSE wal
          /\ shm' = TRUE
       \/ /\ journal = "wal" => connected = {p}
          /\ journal' = "delete"
          /\ wal' = "absent"
          /\ shm' = FALSE
       \/ journal = "wal" /\ connected # {p} /\ UNCHANGED <<journal, wal, shm>>
    /\ Goto(p, "open")
    /\ UNCHANGED <<file, creator, seen, refusal, connected, made>>

\* What an open store commits goes to the WAL first.
WriteFrames(p) ==
    /\ opening[p] = "open"
    /\ journal = "wal"
    /\ wal' = "frames"
    /\ UNCHANGED <<file, journal, shm, creator, opening, seen, refusal, connected, made>>

CloseStore(p) ==
    /\ opening[p] = "open"
    /\ Goto(p, "closed")
    /\ Disconnect(p)
    /\ UNCHANGED <<file, journal, creator, seen, refusal, made>>

\* A process that dies takes its transaction with it and leaves the sidecars.
OpenerDies(p) ==
    /\ opening[p] \notin {"closed", "refused"}
    /\ Goto(p, "closed")
    /\ creator' = IF creator = p THEN NoProc ELSE creator
    /\ connected' = connected \ {p}
    /\ UNCHANGED <<fileVars, seen, refusal, made>>

(***************************************************************************)
(* ReadOnlyStore::open                                                     *)
(***************************************************************************)

CheckFile(r) ==
    \/ /\ file # Absent
       /\ Start(r, "wal")
       /\ UNCHANGED <<fileVars, creator, seen, connected>>
    \/ /\ file = Absent
       /\ opening[r] = "closed"
       /\ Refuse(r, "missing")
       /\ made' = made \ {r}
       /\ UNCHANGED <<fileVars, creator, seen, connected>>

\* With frames in the WAL the main file's header need not be the last word: it is not looked at.
LookForFrames(r) ==
    /\ opening[r] = "wal"
    /\ Goto(r, IF wal = "frames" THEN "connect" ELSE "header")
    /\ UNCHANGED <<fileVars, creator, seen, refusal, connected, made>>

ReadHeader(r) ==
    /\ opening[r] = "header"
    /\ \/ /\ file \in Root
          /\ Goto(r, IF journal = "wal" THEN "sidecars" ELSE "connect")
          /\ UNCHANGED refusal
       \/ file \in {Empty, Foreign} /\ Refuse(r, "foreign")
       \/ file = Newer /\ Refuse(r, "schema version")
    /\ UNCHANGED <<fileVars, creator, seen, connected, made>>

LookForSidecars(r) ==
    /\ opening[r] = "sidecars"
    /\ Goto(r, IF wal = "absent" \/ ~shm THEN "probe" ELSE "connect")
    /\ UNCHANGED <<fileVars, creator, seen, refusal, connected, made>>

\* verify_identity's failure on the file as it is, or "none".
IdentityFailure(r) ==
    CASE file \in {Empty, Foreign} -> "foreign"
      [] file = Newer              -> "schema version"
      [] OTHER                     -> IF RootOf[r] \in {AnyRoot, file} THEN "none" ELSE "workspace root"

\* The immutable connection creates nothing and is closed whatever it finds.
Probe(r) ==
    /\ opening[r] = "probe"
    /\ IF IdentityFailure(r) = "none"
       THEN Goto(r, "connect") /\ UNCHANGED refusal
       ELSE Refuse(r, IdentityFailure(r))
    /\ UNCHANGED <<fileVars, creator, seen, connected, made>>

ConnectReadOnly(r) ==
    /\ opening[r] = "connect"
    /\ connected' = connected \cup {r}
    /\ TouchSidecars
    /\ made' = IF <<wal, shm>>' # <<wal, shm>> THEN made \cup {r} ELSE made
    /\ Goto(r, "verify")
    /\ UNCHANGED <<file, journal, creator, seen, refusal>>

\* Mutant: trusts what was looked at before the connection.
Verify_Trusting(r) ==
    /\ opening[r] = "verify"
    /\ Goto(r, "open")
    /\ UNCHANGED <<fileVars, creator, seen, refusal, connected, made>>

\* The connection that will be used is verified itself, whatever was looked at before.
Verify(r) ==
    /\ opening[r] = "verify"
    /\ IF IdentityFailure(r) = "none"
       THEN Goto(r, "open") /\ UNCHANGED <<wal, shm, refusal, connected>>
       ELSE Refuse(r, IdentityFailure(r)) /\ Disconnect(r)
    /\ UNCHANGED <<file, journal, creator, seen, made>>

CloseReader(r) ==
    /\ opening[r] = "open"
    /\ Goto(r, "closed")
    /\ Disconnect(r)
    /\ UNCHANGED <<file, journal, creator, seen, refusal, made>>

Retry(p) ==
    /\ opening[p] = "refused"
    /\ Goto(p, "closed")
    /\ UNCHANGED <<fileVars, creator, seen, refusal, connected, made>>

\* Another program makes a database of its own of a path that holds none yet.
ForeignCreates ==
    /\ file \in {Absent, Empty}
    /\ creator = NoProc
    /\ file' = Foreign
    /\ UNCHANGED <<journal, wal, shm, creator, opening, seen, refusal, connected, made>>

OpenInit ==
    /\ file \in Root \cup {Absent, Empty, Foreign, Newer}
    /\ journal \in IF file \in Root \cup {Foreign} THEN {"delete", "wal"} ELSE {"delete"}
    /\ \E left \in {<<"absent", FALSE>>} \cup (IF journal = "wal" THEN {<<"frames", TRUE>>, <<"empty", TRUE>>} ELSE {}) :
          wal = left[1] /\ shm = left[2]
    /\ creator = NoProc
    /\ opening = [p \in OpenProcess |-> "closed"]
    /\ seen = [p \in Opener |-> [app |-> "zero", version |-> "zero"]]
    /\ refusal = [p \in OpenProcess |-> "none"]
    /\ connected = {}
    /\ made = {}

OpenNext ==
    \/ \E p \in Opener :
          \/ Connect(p) \/ ReadApplicationId(p) \/ ReadUserVersion(p) \/ CountObjects(p)
          \/ BeginImmediate(p) \/ BeginBusy(p) \/ CheckAgain(p) \/ CommitCreation(p) \/ CreationFails(p)
          \/ CheckRoot(p) \/ ChooseJournal(p) \/ WriteFrames(p) \/ CloseStore(p) \/ OpenerDies(p)
    \/ \E r \in Reader :
          \/ CheckFile(r) \/ LookForFrames(r) \/ ReadHeader(r) \/ LookForSidecars(r) \/ Probe(r)
          \/ ConnectReadOnly(r) \/ Verify(r) \/ CloseReader(r)
    \/ \E p \in OpenProcess : Retry(p)
    \/ ForeignCreates

OpenSpec == OpenInit /\ [][OpenNext]_openVars

(***************************************************************************)
(* Properties                                                              *)
(***************************************************************************)

\* An open store, read-only or not, is a store of the root its opener asked for (Store::open's
\* meta check, ReadOnlyStore::open's verification of the very connection it keeps), and stays so
\* while others open, create, die and close around it.
OpenMeansOwn ==
    \A p \in OpenProcess : opening[p] = "open" => file \in Root /\ RootOf[p] \in {AnyRoot, file}

\* What opening finds is left as it was: a foreign database, a store of another version and a store
\* of another root, also when they appear between the check and the creation (the second
\* check_identity, inside the transaction).
FoundIsKept == [][file \notin {Absent, Empty} => file' = file]_file

\* store.hpp: a foreign or other-version file and a root mismatch are refused before any connection
\* that could create files is opened; so a refused read-only open has created no sidecar.
RefusedCreatesNothing == \A r \in Reader : opening[r] = "refused" => r \notin made
==============================================================================
