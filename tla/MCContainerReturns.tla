------------------------- MODULE MCContainerReturns -------------------------
(* Instances of ContainerReturns for TLC: two containers, two shipments and *)
(* two requests of one store; the requests together ask for all that the   *)
(* shipments together lend.                                                *)
EXTENDS ContainerReturns, TLC

CONSTANTS k1, k2, q1, q2, t1, t2

MCAsked == (q1 :> (k1 :> 1 @@ k2 :> 0)) @@ (q2 :> (k1 :> 2 @@ k2 :> 1))
MCLent  == (t1 :> (k1 :> 2 @@ k2 :> 1)) @@ (t2 :> (k1 :> 1 @@ k2 :> 0))

AllOps == {"lend", "submit", "complete", "reject", "cancel", "revocation"}

WorkerSymmetry == Permutations(Workers)
=============================================================================
