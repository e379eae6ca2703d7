--------------------------- MODULE MCProfileIndex ---------------------------
(***************************************************************************)
(* ProfileIndex on small instances: the workers of one run over three      *)
(* slots, or two runs over one, and the files they read.                   *)
(***************************************************************************)
EXTENDS ProfileIndex

CONSTANTS s1, s2, s3, d, a, b, k1, k2, v1, v2, set1

Ask(slots, k, n) ==
    [actions |-> slots, settings |-> set1, kind |-> k, valid |-> TRUE,
     intended |-> slots = <<>>, jobs |-> n]

\* Under v1 each slot has a command; under v2 s1 has another, the others none.
TwoDatabases ==
    [x \in FileContent |-> [s \in Slot |->
        IF x = v1 THEN k1 ELSE IF s = s1 THEN k2 ELSE NoCommand]]

OwnSource == [s \in Slot |-> IF s = s1 THEN a ELSE b]

OneFile == [s \in Slot |-> a]

OnlySource == [s \in Slot |-> {SourceOf[s]}]

\* Each file comes and goes.
Presence == [f \in File |-> {v1, Absent}]

Static == [f \in File |-> {v1}]

\* Files d and a change; b comes and goes.
SomeEdits == [f \in File |-> IF f = b THEN {v1, Absent} ELSE {v1, v2}]

\* A pool of two over three slots, one over two, a slot, none, an invalid one,
\* a slot twice.
PoolRequests ==
    {Ask(<<s1, s2, s3>>, "cpp", 2), Ask(<<s2, s1>>, "cpp", 0),
     Ask(<<s1>>, "cpp", 1),
     Ask(<<>>, "cpp", 1), [Ask(<<s1>>, "cpp", 1) EXCEPT !.valid = FALSE],
     Ask(<<s1, s1>>, "cpp", 1)}

KindRequests ==
    {Ask(<<s1>>, k, 1) : k \in {"cpp", "unreal"}} \cup {Ask(<<>>, "cpp", 1)}

WorkerRequests == {Ask(<<s1, s2, s3>>, "cpp", n) : n \in 0 .. 3}

RunSymmetry == Permutations(Run)
=============================================================================
