---------------------------- MODULE StockReceipt ----------------------------
(***************************************************************************)
(* What stock-in documents promise, one atomic step per promise: a         *)
(* document may change until it is approved; what was approved is put into *)
(* stock once and completely, or not at all.                               *)
(***************************************************************************)
EXTENDS Integers, Sequences, FiniteSets

CONSTANTS Docs, Forms, Keys, OnHand, NoForm

VARIABLES
  state,     \* "none", "draft", "approved", "received" or "closed"
  form,      \* what the document says
  stock      \* quantity of each goods in each warehouse

vars == <<state, form, stock>>

\* The quantity form f brings to key k: the units of its lines for that key,
\* counted.
Brought(f, k) ==
  Cardinality(UNION {{i} \X (1 .. f.lines[i].qty) :
    i \in {j \in 1 .. Len(f.lines) : <<f.wh, f.lines[j].goods>> = k}})

Init ==
  /\ state = [d \in Docs |-> "none"]
  /\ form = [d \in Docs |-> NoForm]
  /\ stock = OnHand

Draft(d) ==
  /\ state[d] \in {"none", "draft"}
  /\ state' = [state EXCEPT ![d] = "draft"]
  /\ \E f \in Forms : form' = [form EXCEPT ![d] = f]
  /\ UNCHANGED stock

Approve(d) ==
  /\ state[d] = "draft"
  /\ state' = [state EXCEPT ![d] = "approved"]
  /\ UNCHANGED <<form, stock>>

Close(d) ==
  /\ state[d] \in {"draft", "approved"}
  /\ state' = [state EXCEPT ![d] = "closed"]
  /\ UNCHANGED <<form, stock>>

Receive(d) ==
  /\ state[d] = "approved"
  /\ state' = [state EXCEPT ![d] = "received"]
  /\ stock' = [k \in Keys |-> stock[k] + Brought(form[d], k)]
  /\ UNCHANGED form

Next == \E d \in Docs : Draft(d) \/ Approve(d) \/ Close(d) \/ Receive(d)

Spec == Init /\ [][Next]_vars

=============================================================================
