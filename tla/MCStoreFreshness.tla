--------------------------- MODULE MCStoreFreshness ---------------------------
(***************************************************************************)
(* StoreFreshness on small instances: a compile-context file and a plain   *)
(* one, and contributions that recorded the first or both, so a unit published      *)
(* meanwhile under a reused row id differs from the planned one in what it *)
(* read. An edit removes a file or restores it: what matters to a verdict  *)
(* is whether a pass finds the recorded content.                           *)
(***************************************************************************)
EXTENDS StoreFreshness, TLC

CONSTANTS fa, fb, c1

RolesOfFiles == [f \in File |-> IF f = fa THEN "context" ELSE "reflected"]

Reads(S) == [f \in File |-> IF f \in S THEN c1 ELSE NoInput]

TwoInputs == {Reads({fa}), Reads({fa, fb} \cap File)}

SlotSymmetry == Permutations(Slot)

ProcessSymmetry == Permutations(Slot) \cup Permutations(Inspector)
===============================================================================
