--------------------------- MODULE MCOrderWatcher ---------------------------
(***************************************************************************)
(* Two branches after block g, with timestamps that cross: g 0, a1 2, a2 3 *)
(* and b1 1, b2 3.  Orders expire at 2 and 3, so every reorg between the   *)
(* branches expires or unexpires one of them.                              *)
(***************************************************************************)
EXTENDS OrderWatcher

CONSTANTS g, a1, a2, b1, b2, o1, o2

TwoBranches == {g, a1, a2, b1, b2}
Fork == {g, a1, b1}
OneBlock == {g}
MCParent == [b \in Block |->
    CASE b = g -> NoBlock [] b \in {a1, b1} -> g [] b = a2 -> a1 [] b = b2 -> b1]
MCNumber == [b \in Block |->
    CASE b = g -> 1 [] b \in {a1, b1} -> 2 [] b \in {a2, b2} -> 3]
MCTime == [b \in Block |->
    CASE b = g -> 0 [] b = a1 -> 2 [] b = b1 -> 1 [] b \in {a2, b2} -> 3]
MCExp == [o \in Order |-> CASE o = o1 -> 2 [] o = o2 -> 3]
=============================================================================
