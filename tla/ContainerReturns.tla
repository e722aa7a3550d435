-------------------------- MODULE ContainerReturns --------------------------
(***************************************************************************)
(* The ledger of the reusable containers a store has on loan, and the      *)
(* requests with which it returns them.  Shipments lend, return requests   *)
(* reserve what the store wants to give back, the warehouse receives all,  *)
(* some or none of it, refuses it, or the store withdraws; the revocation  *)
(* of an order takes back what its shipment lent.                          *)
(*                                                                         *)
(* As in OrderStock a handler is one transaction, cut into statements:     *)
(* box, request and shipment are the committed rows; tx[w].post are the    *)
(* ledger rows that the transaction of worker w has written, and thereby   *)
(* locked; tx[w].holds says that it has locked its document's row.         *)
(***************************************************************************)
EXTENDS Integers, FiniteSets

CONSTANTS
  Workers,      \* requests being served at the same time
  Rows,         \* container_tracking rows of a store, one for each container
  Requests,     \* return requests that may be submitted
  Shipments,    \* orders that may be shipped
  Asked,        \* Asked[q][k]: containers of row k request q gives back
  Lent,         \* Lent[s][k]: containers of row k shipped with s
  Ops,          \* handlers that are enabled in an instance
  NoDoc, NoRow, Untouched

ASSUME ContainerReturnsAssumption ==
  /\ Asked \in [Requests -> [Rows -> Nat]]
  /\ Lent \in [Shipments -> [Rows -> Nat]]
  /\ Requests \cap Shipments = {}
  /\ NoDoc \notin Requests \cup Shipments
  /\ NoRow \notin Rows
  /\ Untouched \notin [borrowed : Int, returned : Int, current : Int, pending : Int]
  /\ IsFiniteSet(Requests) /\ IsFiniteSet(Shipments)

VARIABLES
  box,         \* container_tracking: borrowed, returned, current, pending
  request,     \* container_returns: status, and what was received of each row
  shipment,    \* "waiting", "sent" with its BORROW logs, or "revoked"
  tx

vars == <<box, request, shipment, tx>>

-----------------------------------------------------------------------------
BoxRec == [borrowed : Int, returned : Int, current : Int, pending : Int]

RequestStatus == {"NONE", "PENDING", "COMPLETED", "REJECTED", "CANCELLED"}

\* Fault: the status of an approved document, which a return request has not.
OutcomeOfDocuments == [complete |-> "APPROVED", reject |-> "REJECTED", cancel |-> "CANCELLED"]

\* The status each way of settling a request ends in.
Outcome == [complete |-> "COMPLETED", reject |-> "REJECTED", cancel |-> "CANCELLED"]

Nothing == [k \in Rows |-> 0]

\* The rows a document has a quantity of.
Positive(quantity) == {k \in Rows : quantity[k] > 0}

\* The CHECK constraint container_tracking_balance_check.
Allowed(b) ==
  /\ b.borrowed >= 0 /\ b.returned >= 0 /\ b.current >= 0
  /\ b.pending >= 0 /\ b.pending <= b.current

-----------------------------------------------------------------------------
(* Transactions.                                                           *)

NoWrites == [k \in Rows |-> Untouched]

Idle == [op |-> "idle", pc |-> "idle", doc |-> NoDoc, holds |-> FALSE, todo |-> {},
         item |-> NoRow, got |-> Nothing, post |-> NoWrites]

Begin(w, op, pc, doc, holds, todo) ==
  /\ op \in Ops
  /\ tx[w] = Idle
  /\ tx' = [tx EXCEPT ![w] = [Idle EXCEPT !.op = op, !.pc = pc, !.doc = doc,
                                          !.holds = holds, !.todo = todo]]

\* No other transaction has the row of document d locked.
Free(w, d) == \A v \in Workers \ {w} : ~(tx[v].doc = d /\ tx[v].holds)

Seen(w, k) == IF tx[w].post[k] = Untouched THEN box[k] ELSE tx[w].post[k]

\* w updates ledger row k to b, having received n of what was asked for.
WriteRow(w, k, b, n) ==
  /\ \A v \in Workers \ {w} : tx[v].post[k] = Untouched
  /\ Allowed(b)
  /\ tx' = [tx EXCEPT ![w].post[k] = b, ![w].todo = @ \ {k}, ![w].item = NoRow,
                      ![w].got[k] = n]

\* The last statement of w and its COMMIT.
Commit(w) ==
  /\ tx[w].todo = {} /\ tx[w].holds
  /\ box' = [k \in Rows |-> Seen(w, k)]
  /\ tx' = [tx EXCEPT ![w] = Idle]

Rollback(w) ==
  /\ tx[w] # Idle
  /\ tx' = [tx EXCEPT ![w] = Idle]
  /\ UNCHANGED <<box, request, shipment>>

-----------------------------------------------------------------------------
(* borrowContainers, called by StockOutService.complete.                   *)

\* The stock-out has been claimed.
LendBegin(w, s) ==
  /\ shipment[s] = "waiting"
  /\ Free(w, s)
  /\ Begin(w, "lend", "items", s, TRUE, Positive(Lent[s]))
  /\ UNCHANGED <<box, request, shipment>>

\* Upsert of the ledger row.
LendItem(w) ==
  /\ tx[w].op = "lend"
  /\ \E k \in tx[w].todo :
       LET n == Lent[tx[w].doc][k]
       IN  WriteRow(w, k, [Seen(w, k) EXCEPT !.borrowed = @ + n, !.current = @ + n], 0)
  /\ UNCHANGED <<box, request, shipment>>

LendCommit(w) ==
  /\ tx[w].op = "lend"
  /\ Commit(w)
  /\ shipment' = [shipment EXCEPT ![tx[w].doc] = "sent"]
  /\ UNCHANGED request

-----------------------------------------------------------------------------
(* submitReturnRequest                                                     *)

SubmitBegin(w, q) ==
  /\ request[q].status = "NONE"
  /\ Free(w, q)
  /\ Begin(w, "submit", "items", q, TRUE, Positive(Asked[q]))
  /\ UNCHANGED <<box, request, shipment>>

\* UPDATE container_tracking SET pending + n WHERE current - pending >= n.
SubmitItem(w) ==
  /\ tx[w].op = "submit"
  /\ \E k \in tx[w].todo :
       LET b == Seen(w, k)  n == Asked[tx[w].doc][k]
       IN  /\ b.current - b.pending >= n
           /\ WriteRow(w, k, [b EXCEPT !.pending = @ + n], 0)
  /\ UNCHANGED <<box, request, shipment>>

SubmitCommit(w) ==
  /\ tx[w].op = "submit"
  /\ Commit(w)
  /\ request' = [request EXCEPT ![tx[w].doc].status = "PENDING"]
  /\ UNCHANGED shipment

-----------------------------------------------------------------------------
(* completeReturnRequest, rejectReturnRequest, cancelReturnRequest.        *)

\* Fault: the request is read without waiting for its lock.
SettleBeginUnlocked(w, q, op) ==
  /\ request[q].status = "PENDING"
  /\ op \in DOMAIN Outcome
  /\ Begin(w, op, "items", q, TRUE, Positive(Asked[q]))
  /\ UNCHANGED <<box, request, shipment>>

\* SELECT id FROM container_returns ... FOR UPDATE, then the request is read.
SettleBegin(w, q, op) ==
  /\ Free(w, q)
  /\ request[q].status = "PENDING"
  /\ op \in DOMAIN Outcome
  /\ Begin(w, op, "items", q, TRUE, Positive(Asked[q]))
  /\ UNCHANGED <<box, request, shipment>>

\* Fault: the whole of what was asked for counts as returned.
ReceiveItemWhole(w) ==
  /\ tx[w].op = "complete"
  /\ \E k \in tx[w].todo :
       LET b == Seen(w, k)  asked == Asked[tx[w].doc][k]
       IN  \E n \in 0 .. asked :
             /\ b.pending >= asked /\ b.current >= n
             /\ WriteRow(w, k, [b EXCEPT !.pending = @ - asked, !.returned = @ + asked,
                                         !.current = @ - asked], n)
  /\ UNCHANGED <<box, request, shipment>>

\* Fault: what was asked for leaves the loan, whatever was received.
ReceiveItemAsked(w) ==
  /\ tx[w].op = "complete"
  /\ \E k \in tx[w].todo :
       LET b == Seen(w, k)  asked == Asked[tx[w].doc][k]
       IN  \E n \in 0 .. asked :
             /\ b.pending >= asked /\ b.current >= n
             /\ WriteRow(w, k, [b EXCEPT !.pending = @ - asked, !.returned = @ + n,
                                         !.current = @ - asked], n)
  /\ UNCHANGED <<box, request, shipment>>

\* SELECT ... FOR UPDATE of the ledger row, the check and the update: n of
\* the containers asked for have arrived.
ReceiveItem(w) ==
  /\ tx[w].op = "complete"
  /\ \E k \in tx[w].todo :
       LET b == Seen(w, k)  asked == Asked[tx[w].doc][k]
       IN  \E n \in 0 .. asked :
             /\ b.pending >= asked /\ b.current >= n
             /\ WriteRow(w, k, [b EXCEPT !.pending = @ - asked, !.returned = @ + n,
                                         !.current = @ - n], n)
  /\ UNCHANGED <<box, request, shipment>>

\* UPDATE container_tracking SET pending - n WHERE pending >= n.
DeclineItem(w) ==
  /\ tx[w].op \in {"reject", "cancel"}
  /\ \E k \in tx[w].todo :
       LET b == Seen(w, k)  asked == Asked[tx[w].doc][k]
       IN  /\ b.pending >= asked
           /\ WriteRow(w, k, [b EXCEPT !.pending = @ - asked], 0)
  /\ UNCHANGED <<box, request, shipment>>

SettleCommit(w) ==
  /\ tx[w].op \in DOMAIN Outcome
  /\ Commit(w)
  /\ request' = [request EXCEPT ![tx[w].doc] = [status |-> Outcome[tx[w].op], got |-> tx[w].got]]
  /\ UNCHANGED shipment

-----------------------------------------------------------------------------
(* The automatic return in OrderRevocationService.revokeOrder.             *)

UndoRead(w, s) ==
  /\ shipment[s] = "sent"
  /\ Begin(w, "revocation", "update", s, FALSE, {})
  /\ UNCHANGED <<box, request, shipment>>

\* The order and its stock-out are updated by id.
UndoUpdate(w) ==
  /\ tx[w].op = "revocation" /\ tx[w].pc = "update"
  /\ Free(w, tx[w].doc)
  /\ tx' = [tx EXCEPT ![w].pc = "items", ![w].holds = TRUE,
                      ![w].todo = Positive(Lent[tx[w].doc])]
  /\ UNCHANGED <<box, request, shipment>>

\* SELECT of a ledger row: enough is on loan and not on its way back.
UndoCheckItem(w) ==
  /\ tx[w].op = "revocation" /\ tx[w].item = NoRow
  /\ \E k \in tx[w].todo :
       /\ Seen(w, k).current - Seen(w, k).pending >= Lent[tx[w].doc][k]
       /\ tx' = [tx EXCEPT ![w].item = k]
  /\ UNCHANGED <<box, request, shipment>>

\* Fault: the table has no constraint on what is on its way back.
UndoItemUnconstrained(w) ==
  LET k == tx[w].item  n == Lent[tx[w].doc][k]
  IN  /\ tx[w].op = "revocation" /\ k # NoRow
      /\ Seen(w, k).current >= n
      /\ \A v \in Workers \ {w} : tx[v].post[k] = Untouched
      /\ tx' = [tx EXCEPT ![w].post[k] = [Seen(w, k) EXCEPT !.returned = @ + n, !.current = @ - n],
                          ![w].todo = @ \ {k}, ![w].item = NoRow]
      /\ UNCHANGED <<box, request, shipment>>

\* UPDATE container_tracking SET returned + n, current - n WHERE current >= n:
\* what was read about pending returns is left to the table's constraint.
UndoItem(w) ==
  LET k == tx[w].item  n == Lent[tx[w].doc][k]
  IN  /\ tx[w].op = "revocation" /\ k # NoRow
      /\ Seen(w, k).current >= n
      /\ WriteRow(w, k, [Seen(w, k) EXCEPT !.returned = @ + n, !.current = @ - n], 0)
      /\ UNCHANGED <<box, request, shipment>>

UndoCommit(w) ==
  /\ tx[w].op = "revocation"
  /\ Commit(w)
  /\ shipment' = [shipment EXCEPT ![tx[w].doc] = "revoked"]
  /\ UNCHANGED request

-----------------------------------------------------------------------------
Init ==
  /\ box = [k \in Rows |-> [borrowed |-> 0, returned |-> 0, current |-> 0, pending |-> 0]]
  /\ request = [q \in Requests |-> [status |-> "NONE", got |-> Nothing]]
  /\ shipment = [s \in Shipments |-> "waiting"]
  /\ tx = [w \in Workers |-> Idle]

Lend(w)   == (\E s \in Shipments : LendBegin(w, s)) \/ LendItem(w) \/ LendCommit(w)
Submit(w) == (\E q \in Requests : SubmitBegin(w, q)) \/ SubmitItem(w) \/ SubmitCommit(w)
Settle(w) == (\E q \in Requests, op \in DOMAIN Outcome : SettleBegin(w, q, op))
               \/ ReceiveItem(w) \/ DeclineItem(w) \/ SettleCommit(w)
Undo(w)   == (\E s \in Shipments : UndoRead(w, s)) \/ UndoUpdate(w) \/ UndoCheckItem(w)
               \/ UndoItem(w) \/ UndoCommit(w)

Next == \E w \in Workers : Lend(w) \/ Submit(w) \/ Settle(w) \/ Undo(w) \/ Rollback(w)

Spec == Init /\ [][Next]_vars

-----------------------------------------------------------------------------
(* Properties.                                                             *)

OpNames == {"idle", "lend", "submit", "revocation"} \cup DOMAIN Outcome

Transaction ==
  [op : OpNames, pc : {"idle", "update", "items"}, doc : Requests \cup Shipments \cup {NoDoc},
   holds : BOOLEAN, todo : SUBSET Rows, item : Rows \cup {NoRow}, got : [Rows -> Nat],
   post : [Rows -> BoxRec \cup {Untouched}]]

\* The ledger, the requests, the shipments and the open transactions have the
\* shape that schema.prisma and the handlers of container-tracking.service.ts
\* give them; a request has one of the statuses of ContainerReturnStatus.
TypeOK ==
  /\ box \in [Rows -> BoxRec]
  /\ request \in [Requests -> [status : RequestStatus, got : [Rows -> Nat]]]
  /\ shipment \in [Shipments -> {"waiting", "sent", "revoked"}]
  /\ tx \in [Workers -> Transaction]

Units(d, n) == {d} \X (1 .. n)

\* What a row says to be on its way back is what the open requests ask for:
\* no request is settled twice, and a failed one leaves nothing behind.
PendingMatchesRequests ==
  \A k \in Rows :
    box[k].pending =
      Cardinality(UNION {Units(q, Asked[q][k]) : q \in {p \in Requests : request[p].status = "PENDING"}})

\* Every open request can be received in full: the check of
\* completeReturnRequest that reports an inconsistent ledger never fires, even
\* when shipments are revoked while requests are open.
RequestsReceivable ==
  \A q \in Requests : request[q].status = "PENDING" =>
    \A k \in Rows : box[k].pending >= Asked[q][k] /\ box[k].current >= Asked[q][k]

\* A row has borrowed what the shipments lent, and the store still has what it
\* borrowed and did not return.
LedgerBalanced ==
  \A k \in Rows :
    /\ box[k].current = box[k].borrowed - box[k].returned
    /\ box[k].borrowed =
         Cardinality(UNION {Units(s, Lent[s][k]) : s \in {p \in Shipments : shipment[p] # "waiting"}})

\* Until a revocation takes containers back, a row has returned what the
\* warehouse received on the completed requests, each counted once: not what
\* was asked for, and nothing for a request that was refused or withdrawn.
ReturnsCounted ==
  (\A s \in Shipments : shipment[s] # "revoked") =>
    \A k \in Rows :
      box[k].returned = Cardinality(UNION {Units(q, request[q].got[k]) : q \in Requests})

\* A return request is settled once, and what was received of it stays.
RequestMoves(q) ==
  request'[q] # request[q] =>
    \/ request[q].status = "NONE" /\ request'[q].status = "PENDING"
    \/ request[q].status = "PENDING" /\ request'[q].status \in {"COMPLETED", "REJECTED", "CANCELLED"}

\* No handler settles a request twice: the loser of complete, reject and
\* cancel finds it settled, and nobody changes what was received.
RequestLifeCycle == [][\A q \in Requests : RequestMoves(q)]_vars

=============================================================================
