--------------------------- MODULE MCStorePublish ---------------------------
(***************************************************************************)
(* StorePublish on small instances: every batch of at most two installs    *)
(* and one retirement over two slots and two labels (so every collision of *)
(* slots and labels inside a batch, and between a batch and live units,    *)
(* occurs), and a few batches for the instances with several profiles or   *)
(* with liveness, which TLC checks without symmetry.                       *)
(***************************************************************************)
EXTENDS StorePublish, SequencesExt, TLC

BoundedBatches ==
    [profile : Profile, install : BoundedSeq(Entry, 2),
     retire : BoundedSeq(Slot, 1), wellFormed : {TRUE}]

OneFact == CHOOSE f \in Facts : TRUE

\* One batch that installs any slot under any label, one that swaps all,
\* one that retires a slot.
FewBatches ==
    LET Install(s, l) == [slot |-> s, label |-> l, facts |-> OneFact]
        B(q, i, r) == [profile |-> q, install |-> i, retire |-> r,
                       wellFormed |-> TRUE]
    IN  {B(q, <<Install(s, l)>>, <<>>) :
            q \in Profile, s \in Slot, l \in Label}
        \cup {B(q, <<>>, <<s>>) : q \in Profile, s \in Slot}
        \cup {[profile |-> q, install |-> <<>>, retire |-> <<>>,
               wellFormed |-> FALSE] : q \in Profile}

\* Every bounded batch in one profile, one installation in the others.
MostBatches ==
    LET First == CHOOSE q \in Profile : TRUE
        Just == [slot |-> CHOOSE s \in Slot : TRUE,
                 label |-> CHOOSE l \in Label : TRUE, facts |-> OneFact]
    IN  {b \in BoundedBatches :
            b.profile = First \/ (b.install = <<Just>> /\ b.retire = <<>>)}

ProcSymmetry == Permutations(Proc)

ValueSymmetry ==
    Permutations(Proc) \cup Permutations(Slot) \cup Permutations(Label)
        \cup Permutations(Reader) \cup Permutations(Profile)
=============================================================================
