------------------------------ MODULE StockIns ------------------------------
(***************************************************************************)
(* Stock-in documents as StockInService handles them: numbering, editing,  *)
(* approval, refusal, cancellation, deletion, and the receipt that raises  *)
(* the stock and averages its cost.  Every request is a transaction at     *)
(* READ COMMITTED, one action per statement whose place among the          *)
(* statements of others matters; what a transaction has written is seen by *)
(* others when it commits, and a row it has written is locked until then.  *)
(***************************************************************************)
EXTENDS Integers, SequencesExt

CONSTANTS
  Workers,      \* requests being served at the same time
  Docs,         \* documents that may be created
  Days,         \* business dates in Shanghai
  Goods,        \* identifiers of goods: integers, their order matters
  Warehouses,
  Forms,        \* what a form may say: a warehouse and lines of distinct goods
  Drafts,       \* Drafts[d]: the forms document d may be given
  Opening,      \* inventory rows at the start, NoRow where there is none
  Ops,          \* Ops[w]: operations worker w may run
  Issued,       \* Issued[day]: numbers drawn before
  MaxSequence,  \* MAX_DAILY_SEQUENCE, 99999 in the code
  Scale,        \* quantities count 1/Scale of a unit, 1/1000 in the code
  MaxEdits,     \* bound of the edits of a document
  NoForm, NoRow, NoDoc, NoNumber

Keys == Warehouses \X Goods

\* An item as its columns keep it, quantity to the 1/Scale and price to the
\* cent: a positive quantity of less than half of 1/Scale is kept as 0.
Line == [goods : Goods, qty : Nat, price : Nat]
Row  == [qty : Nat, avail : Int, cost : Nat, total : Nat]

ASSUME StockInsAssumption ==
  /\ Goods \subseteq Nat /\ IsFiniteSet(Goods)
  /\ \A f \in Forms :
       /\ f.wh \in Warehouses
       /\ f.lines \in Seq(Line) /\ f.lines # << >>
       /\ \A i, j \in 1 .. Len(f.lines) : f.lines[i].goods = f.lines[j].goods => i = j
  /\ Drafts \in [Docs -> SUBSET Forms]
  /\ Opening \in [Keys -> Row \cup {NoRow}]
  /\ Issued \in [Days -> 0 .. MaxSequence]
  /\ MaxSequence \in Nat /\ MaxEdits \in Nat /\ Scale \in Nat \ {0}
  /\ NoForm \notin Forms /\ NoRow \notin Row /\ NoDoc \notin Docs /\ NoNumber \notin Days \X Nat

VARIABLES
  docs,       \* stock_ins with their items
  sequence,   \* document_sequences of type STOCK_IN
  inventory,  \* rows of the inventory table
  history,    \* cost_history of each key
  tx          \* the transaction of each worker

vars == <<docs, sequence, inventory, history, tx>>

-----------------------------------------------------------------------------
Statuses == {"none", "PENDING", "APPROVED", "REJECTED", "COMPLETED", "CANCELLED"}
Number == Days \X Nat
Doc ==
  [status : Statuses, deleted : BOOLEAN, edits : Nat, form : Forms \cup {NoForm},
   number : Number \cup {NoNumber}]
NewDoc == [status |-> "none", deleted |-> FALSE, edits |-> 0, form |-> NoForm, number |-> NoNumber]

Entry ==
  [beforeQty : Nat, afterQty : Nat, beforeCost : Nat, afterCost : Nat, inQty : Nat, inPrice : Nat]

OpNames == {"idle", "create", "update", "approve", "reject", "cancel", "delete", "complete"}

\* What a receipt has written for a line: the inventory row of the key, and
\* the cost_history row.
Written == [key : Keys, row : Row, entry : Entry]

\* at is the step the transaction has reached; doc and seen the document and
\* the row read of it; number the number drawn; form the items read; locks
\* the advisory locks held; row the inventory row just read.
Transaction ==
  [op : OpNames, at : {"idle", "items", "read", "claimed", "write"},
   doc : Docs \cup {NoDoc}, seen : Doc, number : Number \cup {NoNumber},
   form : Forms \cup {NoForm}, locks : SUBSET Keys, row : Row \cup {NoRow},
   written : Seq(Written)]

Idle ==
  [op |-> "idle", at |-> "idle", doc |-> NoDoc, seen |-> NewDoc, number |-> NoNumber,
   form |-> NoForm, locks |-> {}, row |-> NoRow, written |-> << >>]

\* No other transaction has written the row of document d.
DocFree(w, d) == \A v \in Workers \ {w} : tx[v].doc = d => tx[v].at \in {"idle", "read", "items"}

\* Worker w ends its transaction without a trace.
Ends(w) == tx' = [tx EXCEPT ![w] = Idle]

-----------------------------------------------------------------------------
(* Creation.                                                               *)

\* Bound of the documents: there is one left for every creation under way.
Room ==
  Cardinality({w \in Workers : tx[w].op = "create"}) < Cardinality({d \in Docs : docs[d] = NewDoc})

\* Fault: the number is read, and counted without holding the row.
DrawNumberUnlocked(w, day) ==
  /\ "create" \in Ops[w]
  /\ tx[w] = Idle
  /\ sequence[day] = MaxSequence \/ Room
  /\ tx' = [tx EXCEPT ![w] =
       [Idle EXCEPT !.op = "create", !.at = "claimed", !.number = <<day, sequence[day] + 1>>]]
  /\ UNCHANGED <<docs, sequence, inventory, history>>

\* DocumentNumberService.next: INSERT ... ON CONFLICT DO UPDATE ... RETURNING
\* waits for the transaction that has counted before, and holds the row of
\* the day until its own transaction ends.
DrawNumber(w, day) ==
  /\ "create" \in Ops[w]
  /\ tx[w] = Idle
  /\ sequence[day] = MaxSequence \/ Room
  /\ \A v \in Workers : tx[v].number # NoNumber => tx[v].number[1] # day
  /\ tx' = [tx EXCEPT ![w] =
       [Idle EXCEPT !.op = "create", !.at = "claimed", !.number = <<day, sequence[day] + 1>>]]
  /\ UNCHANGED <<docs, sequence, inventory, history>>

\* Fault: the limit is compared before the number is counted.
CreateCommitPastLimit(w, d) ==
  /\ tx[w].op = "create" /\ tx[w].number[2] - 1 <= MaxSequence
  /\ docs[d] = NewDoc
  /\ \E f \in Drafts[d] :
       docs' = [docs EXCEPT ![d] =
         [NewDoc EXCEPT !.status = "PENDING", !.form = f, !.number = tx[w].number]]
  /\ sequence' = [sequence EXCEPT ![tx[w].number[1]] = tx[w].number[2]]
  /\ Ends(w)
  /\ UNCHANGED <<inventory, history>>

\* The document with its items, and COMMIT.
CreateCommit(w, d) ==
  /\ tx[w].op = "create" /\ tx[w].number[2] <= MaxSequence
  /\ docs[d] = NewDoc
  /\ \E f \in Drafts[d] :
       docs' = [docs EXCEPT ![d] =
         [NewDoc EXCEPT !.status = "PENDING", !.form = f, !.number = tx[w].number]]
  /\ sequence' = [sequence EXCEPT ![tx[w].number[1]] = tx[w].number[2]]
  /\ Ends(w)
  /\ UNCHANGED <<inventory, history>>

\* The sequence of the day is used up: the transaction, and the count with
\* it, is rolled back.
NumbersExhausted(w) ==
  /\ tx[w].op = "create" /\ tx[w].number[2] > MaxSequence
  /\ Ends(w)
  /\ UNCHANGED <<docs, sequence, inventory, history>>

-----------------------------------------------------------------------------
(* Editing, approval, refusal, cancellation and deletion: the document is  *)
(* read, checked, and written by an UPDATE that repeats the check.         *)

\* The statuses an operation accepts.
Accepted(op) ==
  CASE op = "complete" -> {"APPROVED"}
    [] op = "cancel"   -> {"PENDING", "APPROVED", "REJECTED"}
    [] op = "delete"   -> {"PENDING", "REJECTED", "CANCELLED"}
    [] OTHER           -> {"PENDING"}

Read(w, op, d) ==
  /\ op \in Ops[w] \ {"create"}
  /\ tx[w] = Idle
  /\ docs[d].status \in Accepted(op) /\ ~docs[d].deleted
  /\ op = "update" => docs[d].edits < MaxEdits
  /\ tx' = [tx EXCEPT ![w] = [Idle EXCEPT !.op = op, !.doc = d, !.seen = docs[d],
                                          !.at = IF op = "complete" THEN "items" ELSE "read"]]
  /\ UNCHANGED <<docs, sequence, inventory, history>>

\* Fault: the UPDATE does not repeat the status that was checked.
UnchangedSinceUnchecked(w) == ~docs[tx[w].doc].deleted

\* What the WHERE of the UPDATE repeats: the status, and for an edit
\* updatedAt, which every edit moves.
UnchangedSince(w) ==
  LET d == docs[tx[w].doc]  seen == tx[w].seen
  IN  /\ d.status = seen.status /\ ~d.deleted
      /\ tx[w].op = "update" => d.edits = seen.edits

Decided(x, op) ==
  CASE op = "approve" -> [x EXCEPT !.status = "APPROVED"]
    [] op = "reject"  -> [x EXCEPT !.status = "REJECTED"]
    [] op = "cancel"  -> [x EXCEPT !.status = "CANCELLED"]
    [] op = "delete"  -> [x EXCEPT !.deleted = TRUE]

\* The UPDATE of an approval, refusal, cancellation or deletion, and COMMIT:
\* between them only the log is written.
Decide(w) ==
  LET d == tx[w].doc
  IN  /\ tx[w].at = "read" /\ tx[w].op \in {"approve", "reject", "cancel", "delete"}
      /\ DocFree(w, d) /\ UnchangedSince(w)
      /\ docs' = [docs EXCEPT ![d] = Decided(@, tx[w].op)]
      /\ Ends(w)
      /\ UNCHANGED <<sequence, inventory, history>>

\* The UPDATE of an edit or of a receipt (status PROCESSING): it locks the
\* document.
Claim(w) ==
  /\ tx[w].at = "read" /\ tx[w].op \in {"update", "complete"}
  /\ DocFree(w, tx[w].doc) /\ UnchangedSince(w)
  /\ tx' = [tx EXCEPT ![w].at = "claimed"]
  /\ UNCHANGED <<docs, sequence, inventory, history>>

\* The UPDATE finds no row: the request is refused.
Refuse(w) ==
  /\ tx[w].at = "read"
  /\ DocFree(w, tx[w].doc) /\ ~UnchangedSince(w)
  /\ Ends(w)
  /\ UNCHANGED <<docs, sequence, inventory, history>>

\* The items are replaced; COMMIT.
UpdateCommit(w) ==
  /\ tx[w].op = "update" /\ tx[w].at = "claimed"
  /\ \E f \in Drafts[tx[w].doc] :
       docs' = [docs EXCEPT ![tx[w].doc].form = f, ![tx[w].doc].edits = @ + 1]
  /\ Ends(w)
  /\ UNCHANGED <<sequence, inventory, history>>

-----------------------------------------------------------------------------
(* Receipt.                                                                *)

\* The items come from a statement of their own, before the document is
\* claimed.
ReadItems(w) ==
  /\ tx[w].at = "items"
  /\ tx' = [tx EXCEPT ![w].at = "read", ![w].form = docs[tx[w].doc].form]
  /\ UNCHANGED <<docs, sequence, inventory, history>>

FormKeys(w) == {<<tx[w].seen.form.wh, l.goods>> : l \in Range(tx[w].form.lines)}

\* Fault: the locks are taken in the order of the lines.
NextKeyOfLines(w) ==
  LET lines == tx[w].form.lines
      i == CHOOSE i \in 1 .. Len(lines) :
             /\ <<tx[w].seen.form.wh, lines[i].goods>> \notin tx[w].locks
             /\ \A j \in 1 .. i - 1 : <<tx[w].seen.form.wh, lines[j].goods>> \in tx[w].locks
  IN  <<tx[w].seen.form.wh, lines[i].goods>>

\* The keys are locked in the order of the goods.
NextKey(w) ==
  CHOOSE k \in FormKeys(w) \ tx[w].locks : \A l \in FormKeys(w) \ tx[w].locks : k[2] <= l[2]

\* pg_advisory_xact_lock: held until the transaction ends.
TakeLock(w) ==
  /\ tx[w].op = "complete" /\ tx[w].at = "claimed"
  /\ FormKeys(w) \ tx[w].locks # {}
  /\ \A v \in Workers \ {w} : NextKey(w) \notin tx[v].locks
  /\ tx' = [tx EXCEPT ![w].locks = @ \cup {NextKey(w)}]
  /\ UNCHANGED <<docs, sequence, inventory, history>>

LineOf(w) == tx[w].form.lines[Len(tx[w].written) + 1]
KeyOf(w)  == <<tx[w].seen.form.wh, LineOf(w).goods>>

ReadRow(w) ==
  /\ tx[w].op = "complete" /\ tx[w].at = "claimed"
  /\ FormKeys(w) = tx[w].locks
  /\ Len(tx[w].written) < Len(tx[w].form.lines)
  /\ tx' = [tx EXCEPT ![w].at = "write", ![w].row = inventory[KeyOf(w)]]
  /\ UNCHANGED <<docs, sequence, inventory, history>>

\* Fault: the quotient is cut off instead of rounded.
NearestBelow(n, d) == {n \div d}

\* n / d to the nearest cent.  A tie may go either way: what is rounded was
\* computed in binary floating point.
Nearest(n, d) == {m \in {n \div d, n \div d + 1} : 2 * m * d - 2 * n \in -d .. d}

\* Fault: the quantity received counts twice in the weight of the old cost.
AverageCostsHeavy(qty, cost, inQty, inPrice) ==
  IF qty = 0 THEN {inPrice}
  ELSE Nearest((qty + inQty) * cost + inQty * inPrice, qty + inQty)

\* calculateWeightedAvgCost.
AverageCosts(qty, cost, inQty, inPrice) ==
  IF qty = 0 THEN {inPrice} ELSE Nearest(qty * cost + inQty * inPrice, qty + inQty)

\* newQty * newCost as total_cost, a DECIMAL(10, 2), keeps it.
TotalCosts(qty, cost) == Nearest(qty * cost, Scale)

\* The row after line l: UPDATE with values computed from the row read.
Raised(row, l, cost, total) ==
  [qty |-> row.qty + l.qty, avail |-> row.avail + l.qty, cost |-> cost, total |-> total]

NoStock == [qty |-> 0, avail |-> 0, cost |-> 0, total |-> 0]

\* UPDATE of the row, or INSERT where there was none, with its cost_history.
WriteRow(w) ==
  LET l == LineOf(w)  k == KeyOf(w)
      before == IF tx[w].row = NoRow THEN NoStock ELSE tx[w].row
  IN  /\ tx[w].at = "write"
      /\ \A v \in Workers \ {w} : \A i \in 1 .. Len(tx[v].written) : tx[v].written[i].key # k
      /\ tx[w].row = NoRow => inventory[k] = NoRow
      /\ \E cost \in AverageCosts(before.qty, before.cost, l.qty, l.price) :
           \E total \in TotalCosts(before.qty + l.qty, cost) :
             tx' = [tx EXCEPT ![w].at = "claimed", ![w].row = NoRow,
               ![w].written = Append(@,
                 [key |-> k, row |-> Raised(before, l, cost, total),
                  entry |-> [beforeQty |-> before.qty, afterQty |-> before.qty + l.qty,
                             beforeCost |-> before.cost, afterCost |-> cost,
                             inQty |-> l.qty, inPrice |-> l.price]])]
      /\ UNCHANGED <<docs, sequence, inventory, history>>

\* What w has written for key k, at most once as the lines are distinct.
WrittenFor(w, k) == {x \in Range(tx[w].written) : x.key = k}
TheWritten(w, k) == CHOOSE x \in WrittenFor(w, k) : TRUE

\* The document is COMPLETED; COMMIT.
CompleteCommit(w) ==
  LET d == tx[w].doc
  IN  /\ tx[w].op = "complete" /\ tx[w].at = "claimed"
      /\ FormKeys(w) = tx[w].locks
      /\ Len(tx[w].written) = Len(tx[w].form.lines)
      /\ docs' = [docs EXCEPT ![d].status = "COMPLETED"]
      /\ inventory' = [k \in Keys |->
            IF WrittenFor(w, k) = {} THEN inventory[k] ELSE TheWritten(w, k).row]
      /\ history' = [k \in Keys |->
            history[k] \o [i \in 1 .. Cardinality(WrittenFor(w, k)) |-> TheWritten(w, k).entry]]
      /\ Ends(w)
      /\ UNCHANGED sequence

\* An exception, a timeout or a lost connection: nothing was written.
Rollback(w) ==
  /\ tx[w] # Idle
  /\ Ends(w)
  /\ UNCHANGED <<docs, sequence, inventory, history>>

-----------------------------------------------------------------------------
Init ==
  /\ docs = [d \in Docs |-> NewDoc]
  /\ sequence = Issued
  /\ inventory = Opening
  /\ history = [k \in Keys |-> << >>]
  /\ tx = [w \in Workers |-> Idle]

Begin(w) ==
  \/ \E day \in Days : DrawNumber(w, day)
  \/ \E op \in OpNames \ {"idle"}, d \in Docs : Read(w, op, d)

\* What a transaction does once it has begun, up to its end.
Proceed(w) ==
  \/ \E d \in Docs : CreateCommit(w, d)
  \/ NumbersExhausted(w) \/ Decide(w) \/ Claim(w) \/ Refuse(w) \/ UpdateCommit(w)
  \/ ReadItems(w) \/ TakeLock(w) \/ ReadRow(w) \/ WriteRow(w) \/ CompleteCommit(w)

Next == \E w \in Workers : Begin(w) \/ Proceed(w) \/ Rollback(w)

Spec == Init /\ [][Next]_vars

\* The process runs on, and PostgreSQL serves those who wait for a lock in
\* the order they came: a step that is possible again and again is taken.
FairSpec == Spec /\ \A w \in Workers : SF_vars(Proceed(w))

-----------------------------------------------------------------------------
(* Properties.                                                             *)

\* Documents, numbers, inventory, cost history and transactions have the
\* shape the code gives them; no number passes the limit of a day.
TypeOK ==
  /\ docs \in [Docs -> Doc]
  /\ sequence \in [Days -> 0 .. MaxSequence]
  /\ inventory \in [Keys -> Row \cup {NoRow}]
  /\ history \in [Keys -> Seq(Entry)]
  /\ tx \in [Workers -> Transaction]

DocsOf(day) == {d \in Docs : docs[d].number # NoNumber /\ docs[d].number[1] = day}

\* The documents of a day are numbered 1, 2, 3, ... without a gap and without
\* a repetition, whatever creations overlap, fail, or meet the limit, and the
\* sequence counts them (DocumentNumberService.next inside the transaction of
\* the document).
NumbersConsecutive ==
  \A day \in Days :
    /\ {docs[d].number[2] : d \in DocsOf(day)} = Issued[day] + 1 .. sequence[day]
    /\ Cardinality(DocsOf(day)) = sequence[day] - Issued[day]

PricesOf(k) ==
  {e.inPrice : e \in Range(history[k])} \cup (IF Opening[k] = NoRow THEN {} ELSE {Opening[k].cost})

\* However receipts overlap and however often the average is rounded, the
\* average cost of goods stays between the lowest and the highest price ever
\* paid for them (calculateWeightedAvgCost).
CostWithinPrices ==
  \A k \in Keys : inventory[k] # NoRow =>
    \E p, q \in PricesOf(k) : p <= inventory[k].cost /\ inventory[k].cost <= q

\* Quantity times cost, in 1/Scale of a cent.
Worth(row) == IF row = NoRow THEN 0 ELSE row.qty * row.cost

\* The numbers of a sequence together: their units, counted.
Summed(q) == Cardinality(UNION {{i} \X (1 .. q[i]) : i \in DOMAIN q})

Paid(k) ==
  Worth(Opening[k])
    + Summed([i \in DOMAIN history[k] |-> history[k][i].inQty * history[k][i].inPrice])

\* The quantities for which an average was rounded: a receipt that found
\* nothing took its own price.
Averaged(k) ==
  Summed([i \in DOMAIN history[k] |->
    IF history[k][i].beforeQty = 0 THEN 0 ELSE history[k][i].afterQty])

\* An average is rounded to the cent and may misjudge the stock by half a cent
\* a unit, every time anew; the total cost is rounded to the cent once more,
\* when it is stored, and that error does not add up.  Once a receipt has come
\* the total cost of the row, whatever it said before, differs from what was
\* paid for the stock by at most half a cent, and half a cent for every unit
\* that each averaging receipt left (calculateWeightedAvgCost,
\* StockInService.complete).
ValueWithinRounding ==
  \A k \in Keys : history[k] # << >> =>
    /\ inventory[k] # NoRow
    /\ 2 * (Scale * inventory[k].total - Paid(k)) \in
         -(Averaged(k) + Scale) .. Averaged(k) + Scale

Promise(d) ==
  CASE d.status = "none" -> "none"
    [] d.status = "APPROVED" -> "approved"
    [] d.status = "COMPLETED" -> "received"
    [] d.status = "PENDING" /\ ~d.deleted -> "draft"
    [] OTHER -> "closed"

Receipt ==
  INSTANCE StockReceipt WITH
    OnHand <- [k \in Keys |-> IF Opening[k] = NoRow THEN 0 ELSE Opening[k].qty],
    state  <- [d \in Docs |-> Promise(docs[d])],
    form   <- [d \in Docs |-> docs[d].form],
    stock  <- [k \in Keys |-> IF inventory[k] = NoRow THEN 0 ELSE inventory[k].qty]

\* The handlers implement StockReceipt: an edit cannot slip in between the
\* approval and the receipt, nor between the two statements that read the
\* document and its items; what was approved is received once and completely,
\* beside whatever other receipt of the same goods.
ReceivesApproved == Receipt!Spec

\* Every request ends although it waits for documents and keys that others
\* have locked: no two of them wait for each other (the keys are locked in the
\* order of the goods).
RequestsEnd == \A w \in Workers : tx[w] # Idle ~> tx[w] = Idle

=============================================================================
