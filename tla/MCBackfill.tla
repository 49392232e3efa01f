----------------------------- MODULE MCBackfill -----------------------------
(***************************************************************************)
(* Two branches that part after block 2, up to height 7.  Block a4 has     *)
(* more logs than one query may return; the other blocks with logs exceed  *)
(* the limit two at a time.                                                *)
(***************************************************************************)
EXTENDS Backfill

CONSTANTS a1, a2, a3, a4, a5, a6, a7, b3, b4, b5, b6, b7, genesis

BranchA == <<a1, a2, a3, a4, a5, a6, a7>>
BranchB == <<a1, a2, b3, b4, b5, b6, b7>>
MCBlock == Range(BranchA) \cup Range(BranchB)
MCChains == {BranchA, BranchB, SubSeq(BranchA, 1, 1), SubSeq(BranchA, 1, 4)}
BranchOf(b) == IF b \in Range(BranchA) THEN BranchA ELSE BranchB
MCNumber == [b \in MCBlock |-> CHOOSE n \in 1..7 : BranchOf(b)[n] = b]
MCParent == [b \in MCBlock |->
    IF b = a1 THEN genesis ELSE BranchOf(b)[MCNumber[b] - 1]]
MCLogsIn == [b \in MCBlock |->
    IF b = a4 THEN 2 ELSE IF b \in {a1, a5, b5} THEN 0 ELSE 1]
=============================================================================
