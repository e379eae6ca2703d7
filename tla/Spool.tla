-------------------------------- MODULE Spool --------------------------------
(***************************************************************************)
(* ContributionSpool and reclaim_orphan_spools, as POSIX builds do it: a   *)
(* spool is created under a fresh name, locked and unlinked at once, so    *)
(* its data lives as long as its owner's descriptor; whoever creates a     *)
(* spool or takes the writer lock first removes the names that owners      *)
(* killed in between left behind, telling them from live ones by the lock. *)
(***************************************************************************)
EXTENDS Naturals, Sequences, FiniteSets

CONSTANTS
    SpoolProcess,   \* processes that create spools and reclaim
    SpoolName,      \* file names a spool can get; each is used once
    Item,           \* contributions
    ItemSize,       \* chunks the encoding of a contribution takes
    MaxEntries,     \* bound on the entries of one spool
    NoName, NoOwner, Orphan

ASSUME SpoolAssumption ==
    /\ ItemSize \in [Item -> Nat \ {0}]
    /\ MaxEntries \in Nat
    /\ NoName \notin SpoolName
    /\ {NoOwner, Orphan} \cap SpoolProcess = {}
    /\ NoOwner # Orphan

VARIABLES
    linked,     \* per name: the owner of the file it leads to, Orphan, or NoOwner for no file
    flocked,    \* per name: who holds the lock of that file
    unused,     \* names no spool was given yet
    spooling,   \* where each process is
    todo,       \* names its directory walk still has to look at
    looking,    \* the name it has opened in that walk
    mine,       \* the name of its own spool
    data,       \* its spool's chunks: <<contribution, chunk>> at each offset written
    end,        \* the offset after its last entry
    entries,    \* <<offset, contribution>> of each entry
    witnessed   \* orphans it listed, while no other process walked or died during its walk

spoolVars == <<linked, flocked, unused, spooling, todo, looking, mine, data, end, entries, witnessed>>

SpoolSteps == {"idle", "walk", "opened", "locked", "create", "lock", "unlink", "ready"}

SpoolTypeOK ==
    /\ linked \in [SpoolName -> SpoolProcess \cup {NoOwner, Orphan}]
    /\ flocked \in [SpoolName -> SpoolProcess \cup {NoOwner}]
    /\ unused \subseteq SpoolName
    /\ spooling \in [SpoolProcess -> SpoolSteps]
    /\ \A n \in SpoolName : flocked[n] # NoOwner => n \in {mine[flocked[n]], looking[flocked[n]]}
    /\ \A p \in SpoolProcess : todo[p] \subseteq SpoolName /\ Len(entries[p]) <= MaxEntries

SpoolGoto(p, step) == spooling' = [spooling EXCEPT ![p] = step]

(***************************************************************************)
(* reclaim_orphan_spools                                                   *)
(***************************************************************************)

StartWalk(p) ==
    /\ spooling[p] = "idle"
    /\ SpoolGoto(p, "walk")
    /\ todo' = [todo EXCEPT ![p] = {n \in SpoolName : linked[n] # NoOwner}]
    /\ witnessed' = [q \in SpoolProcess |->
                        IF q # p THEN {}
                        ELSE IF \A o \in SpoolProcess \ {p} : spooling[o] \notin {"walk", "opened", "locked"}
                        THEN {n \in SpoolName : linked[n] = Orphan} ELSE {}]
    /\ UNCHANGED <<linked, flocked, unused, looking, mine, data, end, entries>>

\* Mutant: the walk ends at a name that cannot be opened.
OpenLeftover_StopsAtMissing(p) ==
    /\ spooling[p] = "walk"
    /\ \E n \in todo[p] :
          /\ todo' = [todo EXCEPT ![p] = IF linked[n] = NoOwner THEN {} ELSE @ \ {n}]
          /\ IF linked[n] = NoOwner
             THEN UNCHANGED <<spooling, looking>>
             ELSE SpoolGoto(p, "opened") /\ looking' = [looking EXCEPT ![p] = n]
    /\ UNCHANGED <<linked, flocked, unused, mine, data, end, entries, witnessed>>

\* A name that went away meanwhile cannot be opened any more.
OpenLeftover(p) ==
    /\ spooling[p] = "walk"
    /\ \E n \in todo[p] :
          /\ todo' = [todo EXCEPT ![p] = @ \ {n}]
          /\ IF linked[n] = NoOwner
             THEN UNCHANGED <<spooling, looking>>
             ELSE SpoolGoto(p, "opened") /\ looking' = [looking EXCEPT ![p] = n]
    /\ UNCHANGED <<linked, flocked, unused, mine, data, end, entries, witnessed>>

\* Only a lock that can be had at once proves the owner gone.
Reclaimable(p, n) == flocked[n] = NoOwner

TryLock(p) ==
    /\ spooling[p] = "opened"
    /\ LET n == looking[p] IN
       IF Reclaimable(p, n)
       THEN flocked' = [flocked EXCEPT ![n] = p] /\ SpoolGoto(p, "locked") /\ UNCHANGED looking
       ELSE UNCHANGED flocked /\ SpoolGoto(p, "walk") /\ looking' = [looking EXCEPT ![p] = NoName]
    /\ UNCHANGED <<linked, unused, todo, mine, data, end, entries, witnessed>>

\* unlink and close: the lock goes with the descriptor.
UnlinkLeftover(p) ==
    /\ spooling[p] = "locked"
    /\ linked' = [linked EXCEPT ![looking[p]] = NoOwner]
    /\ flocked' = [flocked EXCEPT ![looking[p]] = NoOwner]
    /\ looking' = [looking EXCEPT ![p] = NoName]
    /\ SpoolGoto(p, "walk")
    /\ UNCHANGED <<unused, todo, mine, data, end, entries, witnessed>>

\* The walk ends: writer recovery is done, a constructor goes on to create its spool.
EndWalk(p) ==
    /\ spooling[p] = "walk"
    /\ todo[p] = {}
    /\ SpoolGoto(p, "create")
    /\ UNCHANGED <<linked, flocked, unused, todo, looking, mine, data, end, entries, witnessed>>

RecoveryDone(p) ==
    /\ spooling[p] = "create"
    /\ SpoolGoto(p, "idle")
    /\ witnessed' = [witnessed EXCEPT ![p] = {}]
    /\ UNCHANGED <<linked, flocked, unused, todo, looking, mine, data, end, entries>>

(***************************************************************************)
(* The constructor and the destructor                                      *)
(***************************************************************************)

CreateSpool(p) ==
    /\ spooling[p] = "create"
    /\ \E n \in unused :
          /\ unused' = unused \ {n}
          /\ linked' = [linked EXCEPT ![n] = p]
          /\ mine' = [mine EXCEPT ![p] = n]
    /\ SpoolGoto(p, "lock")
    /\ witnessed' = [witnessed EXCEPT ![p] = {}]
    /\ UNCHANGED <<flocked, todo, looking, data, end, entries>>

\* A reclaimer that opened the file before may hold its lock for a moment: flock waits.
LockSpool(p) ==
    /\ spooling[p] = "lock"
    /\ flocked[mine[p]] = NoOwner
    /\ flocked' = [flocked EXCEPT ![mine[p]] = p]
    /\ SpoolGoto(p, "unlink")
    /\ UNCHANGED <<linked, unused, todo, looking, mine, data, end, entries, witnessed>>

UnlinkSpool(p) ==
    /\ spooling[p] = "unlink"
    /\ linked' = [linked EXCEPT ![mine[p]] = NoOwner]
    /\ SpoolGoto(p, "ready")
    /\ UNCHANGED <<flocked, unused, todo, looking, mine, data, end, entries, witnessed>>

\* What a process leaves when its descriptors close, by the destructor, an exit or a kill.
Vanish(p) ==
    /\ linked' = [n \in SpoolName |-> IF linked[n] = p THEN Orphan ELSE linked[n]]
    /\ flocked' = [n \in SpoolName |-> IF flocked[n] = p THEN NoOwner ELSE flocked[n]]
    /\ SpoolGoto(p, "idle")
    /\ todo' = [todo EXCEPT ![p] = {}]
    /\ looking' = [looking EXCEPT ![p] = NoName]
    /\ mine' = [mine EXCEPT ![p] = NoName]
    /\ data' = [data EXCEPT ![p] = <<>>]
    /\ end' = [end EXCEPT ![p] = 0]
    /\ entries' = [entries EXCEPT ![p] = <<>>]
    /\ UNCHANGED unused

CloseSpool(p) == spooling[p] = "ready" /\ Vanish(p) /\ UNCHANGED witnessed

SpoolOwnerDies(p) ==
    /\ spooling[p] # "idle"
    /\ Vanish(p)
    /\ witnessed' = [q \in SpoolProcess |-> {}]

(***************************************************************************)
(* add and load                                                            *)
(***************************************************************************)

\* The encoding of c written at an offset, up to its first `count` chunks.
Written(d, offset, c, count) ==
    [k \in 1 .. (IF offset + count > Len(d) THEN offset + count ELSE Len(d)) |->
        IF k > offset /\ k <= offset + count THEN <<c, k - offset>> ELSE d[k]]

\* Mutant: appends to the file instead of writing at the end of the entries.
AddEntry_Appends(p, c) ==
    /\ spooling[p] = "ready"
    /\ Len(entries[p]) < MaxEntries
    /\ data' = [data EXCEPT ![p] = Written(@, Len(@), c, ItemSize[c])]
    /\ entries' = [entries EXCEPT ![p] = Append(@, <<end[p], c>>)]
    /\ end' = [end EXCEPT ![p] = @ + ItemSize[c]]
    /\ UNCHANGED <<linked, flocked, unused, spooling, todo, looking, mine, witnessed>>

AddEntry(p, c) ==
    /\ spooling[p] = "ready"
    /\ Len(entries[p]) < MaxEntries
    /\ data' = [data EXCEPT ![p] = Written(@, end[p], c, ItemSize[c])]
    /\ entries' = [entries EXCEPT ![p] = Append(@, <<end[p], c>>)]
    /\ end' = [end EXCEPT ![p] = @ + ItemSize[c]]
    /\ UNCHANGED <<linked, flocked, unused, spooling, todo, looking, mine, witnessed>>

\* A write that fails part of the way throws: the chunks before the failure stay in the file.
AddFails(p, c) ==
    /\ spooling[p] = "ready"
    /\ Len(entries[p]) < MaxEntries
    /\ \E count \in 0 .. ItemSize[c] - 1 : data' = [data EXCEPT ![p] = Written(@, end[p], c, count)]
    /\ UNCHANGED <<linked, flocked, unused, spooling, todo, looking, mine, end, entries, witnessed>>

\* What load reads for an entry, before it compares the digest and decodes.
LoadedBytes(p, e) == SubSeq(data[p], e[1] + 1, e[1] + ItemSize[e[2]])

Encoding(c) == [k \in 1 .. ItemSize[c] |-> <<c, k>>]

SpoolInit ==
    /\ linked \in [SpoolName -> {NoOwner, Orphan}]
    /\ unused = {n \in SpoolName : linked[n] = NoOwner}
    /\ flocked = [n \in SpoolName |-> NoOwner]
    /\ spooling = [p \in SpoolProcess |-> "idle"]
    /\ todo = [p \in SpoolProcess |-> {}]
    /\ looking = [p \in SpoolProcess |-> NoName]
    /\ mine = [p \in SpoolProcess |-> NoName]
    /\ data = [p \in SpoolProcess |-> <<>>]
    /\ end = [p \in SpoolProcess |-> 0]
    /\ entries = [p \in SpoolProcess |-> <<>>]
    /\ witnessed = [p \in SpoolProcess |-> {}]

SpoolNext ==
    \E p \in SpoolProcess :
       \/ StartWalk(p) \/ OpenLeftover(p) \/ TryLock(p) \/ UnlinkLeftover(p) \/ EndWalk(p) \/ RecoveryDone(p)
       \/ CreateSpool(p) \/ LockSpool(p) \/ UnlinkSpool(p) \/ CloseSpool(p) \/ SpoolOwnerDies(p)
       \/ \E c \in Item : AddEntry(p, c) \/ AddFails(p, c)

SpoolSpec == SpoolInit /\ [][SpoolNext]_spoolVars

(***************************************************************************)
(* Properties                                                              *)
(***************************************************************************)

\* Whatever add() failed half-way before or after, load() gets for every entry the bytes that were
\* added for it, so its digest check passes (ContributionSpool::add and load).
SpoolHoldsEntries ==
    \A p \in SpoolProcess : spooling[p] = "ready" =>
        \A i \in DOMAIN entries[p] : LoadedBytes(p, entries[p][i]) = Encoding(entries[p][i][2])

\* A walk that no other walk or death disturbed removes every leftover it listed
\* (reclaim_orphan_spools), however live owners create and close theirs meanwhile.
LeftoversGo ==
    \A p \in SpoolProcess : spooling[p] = "create" => \A n \in witnessed[p] : linked[n] # Orphan

==============================================================================
