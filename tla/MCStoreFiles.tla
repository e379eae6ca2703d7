----------------------------- MODULE MCStoreFiles -----------------------------
(***************************************************************************)
(* The files of a store on small instances: two openers of different roots *)
(* and two readers around one database path; two processes around one      *)
(* directory of spools; or the shared rows of the open database's tables.  *)
(* The three share no state, so a behaviour is of one of them.             *)
(*                                                                         *)
(* Of the three contributions, which overlap in every table, two share a   *)
(* symbol, two a dependency and a file version, all the file, one uses a   *)
(* version only as evidence, one has a location outside any file of the    *)
(* repository, and a symbol's stable id collides with another's.           *)
(***************************************************************************)
EXTENDS StoreOpen, Spool, SharedRows, TLC

CONSTANTS w1, w2, rd1, rd2, ra, rb, i1, i2

CONSTANTS a, b, b2, f, v1, v2, h

VARIABLE part

RootsOfProcesses == [p \in {w1, w2, rd1, rd2} |-> IF p = rd2 THEN AnyRoot ELSE IF p = w1 THEN ra ELSE IF p = w2 THEN rb ELSE ra]

SizesOfItems == [c \in {i1, i2} |-> IF c = i1 THEN 1 ELSE 2]

Ids == [y \in Symbol |-> IF y = b2 THEN b ELSE y]

In(p, d) == [path |-> p, digest |-> d]

Three ==
    {[inputs |-> {h}, symbols |-> {a},
      locations |-> {[symbol |-> a, at |-> In(f, v1)]}, evidence |-> {}],
     [inputs |-> {}, symbols |-> {a, b},
      locations |-> {[symbol |-> b, at |-> In(NoPath, v1)]},
      evidence |-> {[source |-> a, target |-> b, at |-> In(f, v2)]}],
     [inputs |-> {h}, symbols |-> {b2}, locations |-> {},
      evidence |-> {[source |-> b2, target |-> b2, at |-> In(f, v1)]}]}

vars == <<part, openVars, spoolVars, rowVars>>

Init ==
    /\ part \in {"open", "spool", "rows"}
    /\ OpenInit
    /\ SpoolInit
    /\ RowsInit
    /\ part # "open" => file = Absent
    /\ part # "spool" => \A n \in SpoolName : linked[n] = NoOwner

Next ==
    \/ part = "open" /\ OpenNext /\ UNCHANGED <<part, spoolVars, rowVars>>
    \/ part = "spool" /\ SpoolNext /\ UNCHANGED <<part, openVars, rowVars>>
    \/ part = "rows" /\ RowsNext /\ UNCHANGED <<part, openVars, spoolVars>>

Spec == Init /\ [][Next]_vars

TypeOK == OpenTypeOK /\ SpoolTypeOK /\ RowsTypeOK

SpoolSymmetry == Permutations(SpoolProcess) \cup Permutations(SpoolName)
===============================================================================
