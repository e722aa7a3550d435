---------------------------- MODULE MCMasterData ----------------------------
(* Instances of MasterData for TLC: one row of each table, and a second    *)
(* category for the goods to move to.                                      *)
EXTENDS MasterData, TLC

CONSTANTS w1, w2, c1, c2, g1, k1, s1, h1, order, shelf, bound, lent

MCKind ==
  (c1 :> "category") @@ (c2 :> "category") @@ (g1 :> "goods") @@ (k1 :> "container")
    @@ (s1 :> "store") @@ (h1 :> "warehouse") @@ (order :> "document")
    @@ (shelf :> "stock") @@ (bound :> "binding") @@ (lent :> "tracking")

\* The masters each row names, in the order its trigger locks them.
MCNamed ==
  (g1 :> <<c1>>) @@ (order :> <<s1, g1>>) @@ (shelf :> <<h1, g1>>)
    @@ (bound :> <<k1, g1>>) @@ (lent :> <<s1, k1>>) @@ [r \in Rows |-> <<>>]

\* One category is there; the rest is still to be created.
MCOpening == (c1 :> "in") @@ [r \in Rows |-> "absent"]

\* One worker archives and restores, the other does anything.
MCOps ==
  (w1 :> {"archive", "restore"}) @@ (w2 :> {"archive", "restore", "edit", "refer"})
=============================================================================
