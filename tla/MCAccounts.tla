----------------------------- MODULE MCAccounts -----------------------------
(* Instances of Accounts for TLC: a super administrator and an account that *)
(* may be created.                                                         *)
EXTENDS Accounts

CONSTANTS w1, w2, ua, ub, p1, p2

\* The forms an administrator submits: the status alone, the roles alone, or
\* a new password with the roles.
MCChanges ==
  {[NoChange EXCEPT !.active = TRUE], [NoChange EXCEPT !.active = FALSE],
   [NoChange EXCEPT !.super = TRUE], [NoChange EXCEPT !.super = FALSE, !.pw = p2]}

AdminOps  == {"update", "deleteById", "changePassword"}
EveryOp == AdminOps \cup {"create", "setRoles", "removeRole", "addRole", "restoreById"}

\* One worker runs every operation, the others those the pages offer.
MCOps == [w \in Workers |-> IF w = w1 THEN EveryOp ELSE AdminOps]
=============================================================================
