--------------------------- MODULE MCTransactions ---------------------------
(***************************************************************************)
(* An instance of Transactions: two collections, two models in each, two   *)
(* goroutines.  Either one goroutine nests two transactions, as            *)
(* handleBlockEvents does, while the other opens one, or one of them       *)
(* opens a transaction on everything.                                      *)
(***************************************************************************)
EXTENDS Transactions, TLC

CONSTANTS headers, orders, p1, p2

MCRoles == {p1 :> <<headers, orders>> @@ p2 :> <<orders>>,
            p1 :> <<>> @@ p2 :> <<orders>>}

MCModel == {<<headers, 1, 0>>, <<orders, 1, 0>>, <<orders, 1, 1>>, <<orders, 2, 0>>}

MCFilter == {<<orders, 0>>}
=============================================================================
