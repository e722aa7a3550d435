----------------------------- MODULE MCStockIns -----------------------------
(* Instances of StockIns for TLC, in half units: goods 1 are on the shelf  *)
(* at one cent a unit with a total cost that was right before some were    *)
(* shipped; of goods 2 there is no inventory row; the forms name them in   *)
(* both orders, and one of them a quantity that was too small to keep.     *)
EXTENDS StockIns

CONSTANTS w1, w2, d1, d2

Descending ==
  [wh |-> 1, lines |-> <<[goods |-> 2, qty |-> 1, price |-> 1], [goods |-> 1, qty |-> 2, price |-> 2]>>]
Ascending ==
  [wh |-> 1, lines |-> <<[goods |-> 1, qty |-> 2, price |-> 5], [goods |-> 2, qty |-> 0, price |-> 2]>>]

MCForms == {Descending, Ascending}

\* The first document is edited, the second keeps what it says.
MCDrafts == [d \in Docs |-> IF d = d1 THEN MCForms ELSE {Ascending}]

\* The second day has one number left.
MCIssued == [day \in Days |-> day - 1]

\* The pairs that meet: an edit or a cancellation with an approval or a
\* receipt, two receipts, two creations.
MCOps ==
  [w \in Workers |->
     IF w = w1 THEN {"create", "update", "reject", "cancel", "delete", "complete"}
     ELSE {"create", "update", "approve", "complete"}]

MCOpening ==
  [k \in Keys |-> IF k[2] = 1 THEN [qty |-> 1, avail |-> 0, cost |-> 1, total |-> 2] ELSE NoRow]
=============================================================================
