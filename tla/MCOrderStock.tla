---------------------------- MODULE MCOrderStock ----------------------------
(* Instances of OrderStock for TLC: three submissions of two stores, two   *)
(* goods, two warehouses of which the first cannot serve everybody.        *)
EXTENDS OrderStock, TLC

CONSTANTS o1, o2, o3, s1, s2, g1, g2, d1, d2

\* o1 and o2 are submissions of the same store, o3 of another.
MCStoreOf == [o \in Orders |-> IF o = o3 THEN s2 ELSE s1]
MCDemand ==
  [o \in Orders |-> [g \in Goods |-> IF o = o1 \/ g = g1 THEN 1 ELSE 0]]
MCBoxes == [o \in Orders |-> IF o = o3 THEN 0 ELSE 1]
MCOpening == [r \in InvRows |-> IF r = <<2, g2>> THEN 0 ELSE 1]
MCReceipt ==
  (d1 :> [wh |-> 1, qty |-> (g1 :> 1 @@ g2 :> 1)]) @@ (d2 :> [wh |-> 1, qty |-> (g1 :> 2 @@ g2 :> 0)])

OrderOps == {"create", "approve", "reject", "revoke", "delete", "complete", "cancel",
             "confirmReceipt"}
AllOrderOps == OrderOps \cup {"revocation"}
WriterOps   == {"create", "approve", "complete", "stockIn", "adjustStock"}
LostOps     == {"create", "stockIn"}
AdjustOps   == {"create", "adjustStock"}

WorkerSymmetry == Permutations(Workers)
=============================================================================
