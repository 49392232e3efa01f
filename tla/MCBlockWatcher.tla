--------------------------- MODULE MCBlockWatcher ---------------------------
(***************************************************************************)
(* Two branches that part after block 2, up to height 5: reorgs of depth   *)
(* one to three, in the middle of a sync of up to three blocks.            *)
(***************************************************************************)
EXTENDS BlockWatcher

CONSTANTS a1, a2, a3, a4, a5, b3, b4, b5, genesis

MCBlock == {a1, a2, a3, a4, a5, b3, b4, b5}
BranchA == <<a1, a2, a3, a4, a5>>
BranchB == <<a1, a2, b3, b4, b5>>
MCChains == {SubSeq(c, 1, n) : c \in {BranchA, BranchB}, n \in 1..5}
At(b, c) == CHOOSE n \in 1..5 : c[n] = b
BranchOf(b) == IF \E n \in 1..5 : BranchA[n] = b THEN BranchA ELSE BranchB
MCNumber == [b \in MCBlock |-> At(b, BranchOf(b))]
MCParent == [b \in MCBlock |->
    IF b = a1 THEN genesis ELSE BranchOf(b)[At(b, BranchOf(b)) - 1]]
=============================================================================
