--------------------------- MODULE StoreContract ---------------------------
(***************************************************************************)
(* What the fact store promises its callers, with none of the machinery    *)
(* (transactions, attempts, recovery, journals) that makes it true:        *)
(*                                                                         *)
(*   - one writer at a time holds the store's lock (store.hpp WriterLock); *)
(*   - a profile is created once, with its kind, and keeps it;             *)
(*   - the holder replaces a profile's committed units in one indivisible  *)
(*     step, which advances that profile's generation by exactly one and   *)
(*     leaves every other profile alone (store.hpp Store::publish);        *)
(*   - within a profile a fact label names at most one live slot;          *)
(*   - an open read view keeps showing the committed state it was opened   *)
(*     on, whatever is published meanwhile (store.hpp ReadSnapshot).       *)
(*                                                                         *)
(* StorePublish is shown to implement this module.                         *)
(***************************************************************************)
EXTENDS Integers

CONSTANTS Proc,      \* processes (or Store objects) that write
          Reader,    \* read connections
          Profile, Slot, Label, Facts,
          NoProc, NoUnit, NoView

VARIABLES writer,    \* the holder of the writer lock, or NoProc
          kind,      \* profile -> "absent", or whether UHT applies to it
          gen,       \* profile -> fact generation
          content,   \* profile -> slot -> committed label and facts, or NoUnit
          view       \* reader -> committed state the reader sees, or NoView

vars == <<writer, kind, gen, content, view>>

Kind == {"absent", "cpp", "unreal"}

Published == [label : Label, facts : Facts] \cup {NoUnit}

UniqueLabels(c) ==
    \A s, t \in Slot :
        c[s] # NoUnit /\ c[t] # NoUnit /\ c[s].label = c[t].label => s = t

\* What a profile may have committed.
Content == {c \in [Slot -> Published] : UniqueLabels(c)}

Committed == [kind |-> kind, gen |-> gen, content |-> content]

----------------------------------------------------------------------------
Init ==
    /\ writer = NoProc
    /\ kind = [q \in Profile |-> "absent"]
    /\ gen = [q \in Profile |-> 0]
    /\ content = [q \in Profile |-> [s \in Slot |-> NoUnit]]
    /\ view = [r \in Reader |-> NoView]

Take(p) ==
    /\ writer = NoProc
    /\ writer' = p
    /\ UNCHANGED <<kind, gen, content, view>>

\* The lock is given back, or its holder dies.
Drop(p) ==
    /\ writer = p
    /\ writer' = NoProc
    /\ UNCHANGED <<kind, gen, content, view>>

CreateProfile(p, q) ==
    /\ writer = p
    /\ kind[q] = "absent"
    /\ \E k \in Kind \ {"absent"} : kind' = [kind EXCEPT ![q] = k]
    /\ UNCHANGED <<writer, gen, content, view>>

Publish(p, q) ==
    /\ writer = p
    /\ kind[q] # "absent"
    /\ \E c \in Content : content' = [content EXCEPT ![q] = c]
    /\ gen' = [gen EXCEPT ![q] = @ + 1]
    /\ UNCHANGED <<writer, kind, view>>

OpenView(r) ==
    /\ view[r] = NoView
    /\ view' = [view EXCEPT ![r] = Committed]
    /\ UNCHANGED <<writer, kind, gen, content>>

CloseView(r) ==
    /\ view[r] # NoView
    /\ view' = [view EXCEPT ![r] = NoView]
    /\ UNCHANGED <<writer, kind, gen, content>>

Next ==
    \/ \E p \in Proc :
          \/ Take(p)
          \/ Drop(p)
          \/ \E q \in Profile : CreateProfile(p, q) \/ Publish(p, q)
    \/ \E r \in Reader : OpenView(r) \/ CloseView(r)

Spec == Init /\ [][Next]_vars
=============================================================================
