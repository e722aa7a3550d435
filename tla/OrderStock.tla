----------------------------- MODULE OrderStock -----------------------------
(***************************************************************************)
(* Orders, their stock-out documents, the warehouse inventory and the      *)
(* container ledger, as the service layer of ReplenOps changes them: every *)
(* handler is one PostgreSQL transaction at READ COMMITTED, cut into the   *)
(* statements whose interleaving other transactions can observe.           *)
(*                                                                         *)
(*   - The variables order, out, inv, box and received are the COMMITTED   *)
(*     rows.  A plain SELECT reads them and never waits.                   *)
(*   - tx[w] is the transaction request worker w has open: the handler, the*)
(*     statement it is at, the values it read, the row locks it holds, and *)
(*     the inventory rows it wrote but has not committed.                  *)
(*   - An UPDATE ... WHERE waits while another transaction has the row     *)
(*     locked, then tests its WHERE on the newest committed version, and   *)
(*     keeps the row locked up to the end of its transaction.              *)
(*   - The last action of a handler is its remaining writes and COMMIT.    *)
(*     Rollback is every way of not getting there: an exception, a lost    *)
(*     connection, the interactive-transaction timeout, a deadlock victim. *)
(*                                                                         *)
(* An order or stock-out row a transaction has locked is written at the    *)
(* COMMIT: nobody else can see the row in between, so the intermediate     *)
(* status PROCESSING that approve, reject and complete write to claim a    *)
(* row is the lock itself.                                                 *)
(***************************************************************************)
EXTENDS Integers, FiniteSets

CONSTANTS
  Workers,      \* requests being served at the same time
  Stores,
  Orders,       \* submissions that may become orders
  Warehouses,   \* warehouse ids, numbers: the first that fits is chosen
  Goods,
  StockIns,     \* approved stock-in documents
  StoreOf,      \* the store of each order
  Demand,       \* Demand[o][g]: quantity of g in order o, 0 if not an item
  Boxes,        \* Boxes[o]: containers shipped with order o
  Migrated,     \* orders imported as PENDING with no warehouse locked
  Opening,      \* Opening[r]: stock of inventory row r at the start
  Receipt,      \* Receipt[d]: warehouse and quantities of a stock-in
  AdjustTo,     \* quantities an operator may type into an adjustment
  Ops,          \* handlers that are enabled in an instance
  NoOrder, NoWarehouse, NoGoods, Untouched

InvRows == Warehouses \X Goods

ASSUME OrderStockAssumption ==
  /\ Warehouses \subseteq Nat
  /\ StoreOf \in [Orders -> Stores]
  /\ Demand \in [Orders -> [Goods -> Nat]]
  /\ Boxes \in [Orders -> Nat]
  /\ Migrated \subseteq Orders
  /\ \A o, p \in Migrated : StoreOf[o] = StoreOf[p] => o = p
  /\ Opening \in [InvRows -> Nat]
  /\ Receipt \in [StockIns -> [wh : Warehouses, qty : [Goods -> Nat]]]
  /\ AdjustTo \subseteq Nat
  /\ NoOrder \notin Orders
  /\ NoWarehouse \notin Warehouses
  /\ NoGoods \notin Goods
  /\ Untouched \notin [qty : Int, locked : Int, avail : Int]
  /\ Orders \cap StockIns = {}
  /\ IsFiniteSet(Orders)

VARIABLES
  order,      \* orders: status, isDeleted, lockedWarehouseId
  out,        \* stock_outs, at most one for an order: status, warehouseId
  inv,        \* inventories: quantity, lockedQuantity, availableQuantity
  box,        \* container_tracking of a store: borrowed, returned, current, pending
  received,   \* stock-in documents that are COMPLETED
  tx

rows == <<order, out, inv, box, received>>
vars == <<order, out, inv, box, received, tx>>

-----------------------------------------------------------------------------
(* The schema.                                                             *)

OrderStatus ==
  {"NONE", "PENDING", "APPROVED", "PROCESSING", "COMPLETED", "REJECTED", "CANCELLED"}

ACTIVE_ORDER_STATUSES == {"PENDING", "APPROVED", "PROCESSING"}

OutStatus == {"NONE", "PENDING", "COMPLETED", "CANCELLED"}

StoreRow(s)   == <<"store", s>>
OrderRow(o)   == <<"order", o>>
OutRow(o)     == <<"stockOut", o>>
BoxRow(s)     == <<"tracking", s>>
InRow(d)      == <<"stockIn", d>>
KeyLock(h, g) == <<"advisory", h, g>>    \* pg_advisory_xact_lock(h, g)

LockNames ==
  {StoreRow(s) : s \in Stores} \cup {OrderRow(o) : o \in Orders}
    \cup {OutRow(o) : o \in Orders} \cup {BoxRow(s) : s \in Stores}
    \cup {InRow(d) : d \in StockIns} \cup {KeyLock(r[1], r[2]) : r \in InvRows}

OpNames == {"idle", "create", "approve", "reject", "revoke", "delete", "complete",
            "cancel", "confirmReceipt", "revocation", "adjustStock", "stockIn"}

PcNames == {"idle", "lockStore", "check", "choose", "lock", "claim", "assert", "release",
            "ship", "readOut", "restore", "boxes", "keys", "receive"}

OrderRec == [status : OrderStatus, deleted : BOOLEAN, wh : Warehouses \cup {NoWarehouse}]
OutRec   == [status : OutStatus, wh : Warehouses \cup {NoWarehouse}]
InvRec   == [qty : Int, locked : Int, avail : Int]
BoxRec   == [borrowed : Int, returned : Int, current : Int, pending : Int]

Transaction ==
  [op : OpNames, pc : PcNames, doc : Orders \cup StockIns \cup {NoOrder},
   seen : OrderStatus, wh : Warehouses \cup {NoWarehouse},
   todo : SUBSET Goods, item : Goods \cup {NoGoods},
   plan : InvRec \cup {Untouched}, locks : SUBSET LockNames,
   post : [InvRows -> InvRec \cup {Untouched}]]

Items(o) == {g \in Goods : Demand[o][g] > 0}

Active(o) == order[o].status \in ACTIVE_ORDER_STATUSES /\ ~order[o].deleted

-----------------------------------------------------------------------------
(* Transactions.                                                           *)

NoWrites == [r \in InvRows |-> Untouched]

Idle == [op |-> "idle", pc |-> "idle", doc |-> NoOrder, seen |-> "NONE",
         wh |-> NoWarehouse, todo |-> {}, item |-> NoGoods,
         plan |-> Untouched, locks |-> {}, post |-> NoWrites]

\* Worker w runs handler op and is at statement pc.
At(w, op, pc) == tx[w].op = op /\ tx[w].pc = pc

\* From here on the transaction of w is t.
Continue(w, t) == tx' = [tx EXCEPT ![w] = t]

\* Handler op of worker w is past its first reads: its next statement is pc.
Begin(w, op, pc, doc, seen, wh) ==
  /\ op \in Ops
  /\ tx[w] = Idle
  /\ Continue(w, [Idle EXCEPT !.op = op, !.pc = pc, !.doc = doc, !.seen = seen, !.wh = wh])

\* No other transaction has the lock: a statement of w that needs it runs.
Free(w, lock) == \A v \in Workers \ {w} : lock \notin tx[v].locks

FreeInv(w, r) == \A v \in Workers \ {w} : tx[v].post[r] = Untouched

\* What a statement of w sees in inventory row r: its own write, or the
\* committed row.
Seen(w, r) == IF tx[w].post[r] = Untouched THEN inv[r] ELSE tx[w].post[r]

\* The inventory once the writes of w are committed.
Published(w) == [r \in InvRows |-> Seen(w, r)]

\* w updates inventory row r to value and has dealt with item g.
WriteItem(w, g, r, value) ==
  /\ FreeInv(w, r)
  /\ Continue(w, [tx[w] EXCEPT !.post[r] = value, !.todo = @ \ {g},
                               !.item = NoGoods, !.plan = Untouched])

End(w) == Continue(w, Idle)

SetOrder(o, status, deleted, wh) ==
  order' = [order EXCEPT ![o] = [status |-> status, deleted |-> deleted, wh |-> wh]]

Rollback(w) ==
  /\ tx[w] # Idle
  /\ End(w)
  /\ UNCHANGED rows

-----------------------------------------------------------------------------
(* What one update of q units does to an inventory row x.                  *)

Reserving(x, q) == [x EXCEPT !.locked = @ + q, !.avail = @ - q]
Releasing(x, q) == [x EXCEPT !.locked = @ - q, !.avail = @ + q]
Shipping(x, q)  == [x EXCEPT !.qty = @ - q, !.locked = @ - q]
Adding(x, q)    == [x EXCEPT !.qty = @ + q, !.avail = @ + q]

-----------------------------------------------------------------------------
(* Inventory locks of an order (inventory-lock.service.ts).                *)

\* A warehouse can serve the whole order from its available stock.
Serves(w, h) ==
  \A g \in Items(tx[w].doc) : Seen(w, <<h, g>>).avail >= Demand[tx[w].doc][g]

\* The first warehouse, by id, that can serve the whole order.
ChooseWarehouse(w) ==
  /\ tx[w].pc = "choose"
  /\ \E h \in Warehouses :
       /\ Serves(w, h)
       /\ \A k \in Warehouses : Serves(w, k) => h <= k
       /\ Continue(w, [tx[w] EXCEPT !.pc = "lock", !.wh = h,
                                    !.todo = Items(tx[w].doc)])
  /\ UNCHANGED rows

\* Fault: the UPDATE trusts the stock read by ChooseWarehouse.
LockItemUnguarded(w) ==
  /\ tx[w].pc = "lock"
  /\ \E g \in tx[w].todo :
       LET r == <<tx[w].wh, g>>  q == Demand[tx[w].doc][g]
       IN  WriteItem(w, g, r, Reserving(Seen(w, r), q))
  /\ UNCHANGED rows

\* UPDATE inventories SET locked + q, available - q WHERE available >= q.
LockItem(w) ==
  /\ tx[w].pc = "lock"
  /\ \E g \in tx[w].todo :
       LET r == <<tx[w].wh, g>>  q == Demand[tx[w].doc][g]
       IN  /\ Seen(w, r).avail >= q
           /\ WriteItem(w, g, r, Reserving(Seen(w, r), q))
  /\ UNCHANGED rows

\* SELECT of assertOrderInventoryLocked: the order's quantity is still locked.
AssertItem(w) ==
  /\ tx[w].pc = "assert"
  /\ \E g \in tx[w].todo :
       /\ Seen(w, <<tx[w].wh, g>>).locked >= Demand[tx[w].doc][g]
       /\ Continue(w, [tx[w] EXCEPT !.todo = @ \ {g}])
  /\ UNCHANGED rows

\* UPDATE inventories SET locked - q, available + q WHERE locked >= q.
ReleaseItem(w) ==
  /\ tx[w].pc = "release"
  /\ \E g \in tx[w].todo :
       LET r == <<tx[w].wh, g>>  q == Demand[tx[w].doc][g]
       IN  /\ Seen(w, r).locked >= q
           /\ WriteItem(w, g, r, Releasing(Seen(w, r), q))
  /\ UNCHANGED rows

-----------------------------------------------------------------------------
(* OrderService.create                                                     *)

CreateBegin(w, o) ==
  /\ order[o].status = "NONE"
  /\ \A v \in Workers : ~(tx[v].op = "create" /\ tx[v].doc = o)
  /\ Begin(w, "create", "lockStore", o, "NONE", NoWarehouse)
  /\ UNCHANGED rows

\* Fault: the store row is read but not locked.
CreateSkipStoreLock(w) ==
  /\ At(w, "create", "lockStore")
  /\ Continue(w, [tx[w] EXCEPT !.pc = "check"])
  /\ UNCHANGED rows

\* SELECT id FROM stores ... FOR UPDATE
CreateLockStore(w) ==
  LET row == StoreRow(StoreOf[tx[w].doc])
  IN  /\ At(w, "create", "lockStore")
      /\ Free(w, row)
      /\ Continue(w, [tx[w] EXCEPT !.pc = "check", !.locks = @ \cup {row}])
      /\ UNCHANGED rows

\* The store has no order that is still under way.
CreateCheck(w) ==
  /\ At(w, "create", "check")
  /\ \A p \in Orders : StoreOf[p] = StoreOf[tx[w].doc] => ~Active(p)
  /\ Continue(w, [tx[w] EXCEPT !.pc = "choose"])
  /\ UNCHANGED rows

CreateCommit(w) ==
  /\ At(w, "create", "lock")
  /\ tx[w].todo = {}
  /\ SetOrder(tx[w].doc, "PENDING", FALSE, tx[w].wh)
  /\ inv' = Published(w)
  /\ End(w)
  /\ UNCHANGED <<out, box, received>>

-----------------------------------------------------------------------------
(* OrderApprovalService.approve                                            *)

ApproveRead(w, o) ==
  /\ order[o].status = "PENDING" /\ ~order[o].deleted
  /\ Begin(w, "approve", "claim", o, "PENDING", order[o].wh)
  /\ UNCHANGED rows

\* UPDATE orders ... WHERE status = 'PENDING' AND NOT is_deleted; then the
\* locks of an order created with none are taken, the others are verified.
ApproveClaim(w) ==
  LET o == tx[w].doc
  IN  /\ At(w, "approve", "claim")
      /\ Free(w, OrderRow(o))
      /\ order[o].status = "PENDING" /\ ~order[o].deleted
      /\ Continue(w, [tx[w] EXCEPT !.locks = @ \cup {OrderRow(o)}, !.todo = Items(o),
                                   !.pc = IF tx[w].wh = NoWarehouse THEN "choose" ELSE "assert"])
      /\ UNCHANGED rows

\* The order becomes APPROVED and createFromOrder inserts its stock-out.
ApproveCommit(w) ==
  LET o == tx[w].doc
  IN  /\ At(w, "approve", "lock") \/ At(w, "approve", "assert")
      /\ tx[w].todo = {}
      /\ out[o].status = "NONE"                 \* stock_outs.order_id is unique
      /\ SetOrder(o, "APPROVED", FALSE, tx[w].wh)
      /\ out' = [out EXCEPT ![o] = [status |-> "PENDING", wh |-> tx[w].wh]]
      /\ inv' = Published(w)
      /\ End(w)
      /\ UNCHANGED <<box, received>>

-----------------------------------------------------------------------------
(* OrderApprovalService.reject, OrderService.revokeOrder (the store takes  *)
(* the order back) and OrderService.delete: claim the order in the status  *)
(* that was read, give its locks back, close it.                           *)

RejectRead(w, o) ==
  /\ order[o].status = "PENDING" /\ ~order[o].deleted
  /\ Begin(w, "reject", "claim", o, "PENDING", order[o].wh)
  /\ UNCHANGED rows

\* Read before the transaction is opened.
RevokeRead(w, o) ==
  /\ order[o].status \in {"PENDING", "REJECTED"} /\ ~order[o].deleted
  /\ Begin(w, "revoke", "claim", o, order[o].status, order[o].wh)
  /\ UNCHANGED rows

\* Read before the transaction is opened.
DeleteRead(w, o) ==
  /\ order[o].status = "REJECTED" /\ ~order[o].deleted
  /\ Begin(w, "delete", "claim", o, "REJECTED", order[o].wh)
  /\ UNCHANGED rows

\* Fault: the claim does not compare the status with the one that was read.
CloseClaimUnchecked(w) ==
  LET o == tx[w].doc
  IN  /\ tx[w].op \in {"reject", "revoke", "delete"} /\ tx[w].pc = "claim"
      /\ Free(w, OrderRow(o))
      /\ ~order[o].deleted
      /\ Continue(w, [tx[w] EXCEPT !.locks = @ \cup {OrderRow(o)}, !.pc = "release",
                                   !.todo = IF tx[w].wh = NoWarehouse THEN {} ELSE Items(o)])
      /\ UNCHANGED rows

\* UPDATE orders ... WHERE status = <the status read> AND NOT is_deleted.
CloseClaim(w) ==
  LET o == tx[w].doc
  IN  /\ tx[w].op \in {"reject", "revoke", "delete"} /\ tx[w].pc = "claim"
      /\ Free(w, OrderRow(o))
      /\ order[o].status = tx[w].seen /\ ~order[o].deleted
      /\ Continue(w, [tx[w] EXCEPT !.locks = @ \cup {OrderRow(o)}, !.pc = "release",
                                   !.todo = IF tx[w].wh = NoWarehouse THEN {} ELSE Items(o)])
      /\ UNCHANGED rows

RejectCommit(w) ==
  /\ At(w, "reject", "release")
  /\ tx[w].todo = {}
  /\ SetOrder(tx[w].doc, "REJECTED", FALSE, NoWarehouse)
  /\ inv' = Published(w)
  /\ End(w)
  /\ UNCHANGED <<out, box, received>>

\* Fault: the order keeps lockedWarehouseId after its locks were released.
DeleteCommitKeepsLock(w) ==
  LET o == tx[w].doc
  IN  /\ At(w, "revoke", "release") \/ At(w, "delete", "release")
      /\ tx[w].todo = {}
      /\ SetOrder(o, order[o].status, TRUE, order[o].wh)
      /\ inv' = Published(w)
      /\ End(w)
      /\ UNCHANGED <<out, box, received>>

\* revokeOrder and delete end alike: a soft delete that keeps the status.
DeleteCommit(w) ==
  LET o == tx[w].doc
  IN  /\ At(w, "revoke", "release") \/ At(w, "delete", "release")
      /\ tx[w].todo = {}
      /\ SetOrder(o, order[o].status, TRUE, NoWarehouse)
      /\ inv' = Published(w)
      /\ End(w)
      /\ UNCHANGED <<out, box, received>>

-----------------------------------------------------------------------------
(* StockOutService.complete: the warehouse ships the order.                *)

ShipRead(w, o) ==
  /\ out[o].status = "PENDING"
  /\ order[o].status = "APPROVED"
  /\ Begin(w, "complete", "claim", o, "PENDING", out[o].wh)
  /\ UNCHANGED rows

\* Fault: the stock-out is not claimed, only read.
ShipClaimUnlocked(w) ==
  LET o == tx[w].doc
  IN  /\ At(w, "complete", "claim")
      /\ out[o].status = "PENDING"
      /\ Continue(w, [tx[w] EXCEPT !.todo = Items(o), !.pc = "ship"])
      /\ UNCHANGED rows

\* UPDATE stock_outs ... WHERE status = 'PENDING'.
ShipClaim(w) ==
  LET o == tx[w].doc
  IN  /\ At(w, "complete", "claim")
      /\ Free(w, OutRow(o))
      /\ out[o].status = "PENDING"
      /\ Continue(w, [tx[w] EXCEPT !.locks = @ \cup {OutRow(o)}, !.todo = Items(o),
                                   !.pc = "ship"])
      /\ UNCHANGED rows

\* SELECT of the inventory row: enough of it is locked.
ShipCheckItem(w) ==
  /\ At(w, "complete", "ship")
  /\ tx[w].item = NoGoods
  /\ \E g \in tx[w].todo :
       /\ Seen(w, <<tx[w].wh, g>>).locked >= Demand[tx[w].doc][g]
       /\ Continue(w, [tx[w] EXCEPT !.item = g])
  /\ UNCHANGED rows

\* Fault: shipping lowers the stock and leaves the lock.
ShipItemKeepsLock(w) ==
  LET g == tx[w].item  r == <<tx[w].wh, g>>  q == Demand[tx[w].doc][g]
  IN  /\ At(w, "complete", "ship")
      /\ g # NoGoods
      /\ WriteItem(w, g, r, [Seen(w, r) EXCEPT !.qty = @ - q])
      /\ UNCHANGED rows

\* UPDATE inventories SET quantity - q, locked - q, with no condition.
ShipItem(w) ==
  LET g == tx[w].item  r == <<tx[w].wh, g>>  q == Demand[tx[w].doc][g]
  IN  /\ At(w, "complete", "ship")
      /\ g # NoGoods
      /\ WriteItem(w, g, r, Shipping(Seen(w, r), q))
      /\ UNCHANGED rows

\* borrowContainers: the store owes n more containers.
Borrow(s, n) ==
  box' = [box EXCEPT ![s].borrowed = @ + n, ![s].current = @ + n]

\* Fault: the stock-out keeps the status its claim wrote.
ShipCommitLeavesClaim(w) ==
  LET o == tx[w].doc  s == StoreOf[o]
  IN  /\ At(w, "complete", "ship")
      /\ tx[w].todo = {}
      /\ out' = [out EXCEPT ![o].status = "PROCESSING"]
      /\ order' = [order EXCEPT ![o].status = "PROCESSING", ![o].wh = NoWarehouse]
      /\ Borrow(s, Boxes[o])
      /\ inv' = Published(w)
      /\ End(w)
      /\ UNCHANGED received

ShipCommit(w) ==
  LET o == tx[w].doc  s == StoreOf[o]
  IN  /\ At(w, "complete", "ship")
      /\ tx[w].todo = {}
      /\ Free(w, OrderRow(o))
      /\ Boxes[o] > 0 => Free(w, BoxRow(s))
      /\ out' = [out EXCEPT ![o].status = "COMPLETED"]
      /\ order' = [order EXCEPT ![o].status = "PROCESSING", ![o].wh = NoWarehouse]
      /\ Borrow(s, Boxes[o])
      /\ inv' = Published(w)
      /\ End(w)
      /\ UNCHANGED received

-----------------------------------------------------------------------------
(* StockOutService.cancel                                                  *)

CancelRead(w, o) ==
  /\ out[o].status = "PENDING"
  /\ order[o].status = "APPROVED"
  /\ order[o].wh = out[o].wh
  /\ Begin(w, "cancel", "claim", o, "PENDING", out[o].wh)
  /\ UNCHANGED rows

\* UPDATE stock_outs ... WHERE status = 'PENDING'.
CancelClaim(w) ==
  LET o == tx[w].doc
  IN  /\ At(w, "cancel", "claim")
      /\ Free(w, OutRow(o))
      /\ out[o].status = "PENDING"
      /\ Continue(w, [tx[w] EXCEPT !.locks = @ \cup {OutRow(o)}, !.todo = Items(o),
                                   !.pc = "release"])
      /\ UNCHANGED rows

\* Fault: the order is not cancelled with its stock-out.
CancelCommitOutOnly(w) ==
  LET o == tx[w].doc
  IN  /\ At(w, "cancel", "release")
      /\ tx[w].todo = {}
      /\ out' = [out EXCEPT ![o].status = "CANCELLED"]
      /\ inv' = Published(w)
      /\ End(w)
      /\ UNCHANGED <<order, box, received>>

CancelCommit(w) ==
  LET o == tx[w].doc
  IN  /\ At(w, "cancel", "release")
      /\ tx[w].todo = {}
      /\ Free(w, OrderRow(o))
      /\ order[o].status = "APPROVED" /\ ~order[o].deleted
      /\ out' = [out EXCEPT ![o].status = "CANCELLED"]
      /\ SetOrder(o, "CANCELLED", FALSE, NoWarehouse)
      /\ inv' = Published(w)
      /\ End(w)
      /\ UNCHANGED <<box, received>>

-----------------------------------------------------------------------------
(* OrderService.confirmReceipt: the store has the goods.                   *)

ConfirmRead(w, o) ==
  /\ order[o].status = "PROCESSING" /\ ~order[o].deleted
  /\ out[o].status = "COMPLETED"
  /\ Begin(w, "confirmReceipt", "claim", o, "PROCESSING", NoWarehouse)
  /\ UNCHANGED rows

\* Fault: the WHERE of the update has no status.
ConfirmCommitUnchecked(w) ==
  LET o == tx[w].doc
  IN  /\ At(w, "confirmReceipt", "claim")
      /\ Free(w, OrderRow(o))
      /\ order' = [order EXCEPT ![o].status = "COMPLETED"]
      /\ End(w)
      /\ UNCHANGED <<out, inv, box, received>>

ConfirmCommit(w) ==
  LET o == tx[w].doc
  IN  /\ At(w, "confirmReceipt", "claim")
      /\ Free(w, OrderRow(o))
      /\ order[o].status = "PROCESSING" /\ ~order[o].deleted
      /\ out[o].status = "COMPLETED"
      /\ order' = [order EXCEPT ![o].status = "COMPLETED"]
      /\ End(w)
      /\ UNCHANGED <<out, inv, box, received>>

-----------------------------------------------------------------------------
(* OrderRevocationService.revokeOrder: an administrator takes a completed  *)
(* order back into stock.  Neither row is claimed: both are read, then     *)
(* updated by id.                                                          *)

UndoRead(w, o) ==
  /\ order[o].status = "COMPLETED" /\ ~order[o].deleted
  /\ Begin(w, "revocation", "readOut", o, "COMPLETED", NoWarehouse)
  /\ UNCHANGED rows

UndoReadOut(w) ==
  LET o == tx[w].doc
  IN  /\ At(w, "revocation", "readOut")
      /\ out[o].status = "COMPLETED"
      /\ Continue(w, [tx[w] EXCEPT !.pc = "claim", !.wh = out[o].wh])
      /\ UNCHANGED rows

\* UPDATE orders WHERE id; UPDATE stock_outs WHERE id.
UndoUpdate(w) ==
  LET o == tx[w].doc
  IN  /\ At(w, "revocation", "claim")
      /\ Free(w, OrderRow(o)) /\ Free(w, OutRow(o))
      /\ Continue(w, [tx[w] EXCEPT !.locks = @ \cup {OrderRow(o), OutRow(o)},
                                   !.todo = Items(o), !.pc = "restore"])
      /\ UNCHANGED rows

\* Fault: the goods come back into stock and cannot be ordered again.
UndoItemNotAvailable(w) ==
  /\ At(w, "revocation", "restore")
  /\ \E g \in tx[w].todo :
       LET r == <<tx[w].wh, g>>  q == Demand[tx[w].doc][g]
       IN  WriteItem(w, g, r, [Seen(w, r) EXCEPT !.qty = @ + q])
  /\ UNCHANGED rows

\* UPDATE inventories SET quantity + q, available + q.
UndoItem(w) ==
  /\ At(w, "revocation", "restore")
  /\ \E g \in tx[w].todo :
       LET r == <<tx[w].wh, g>>  q == Demand[tx[w].doc][g]
       IN  WriteItem(w, g, r, Adding(Seen(w, r), q))
  /\ UNCHANGED rows

\* SELECT of the store's containers: enough are out and not being returned.
UndoCheckBoxes(w) ==
  LET o == tx[w].doc  b == box[StoreOf[o]]
  IN  /\ At(w, "revocation", "restore")
      /\ tx[w].todo = {}
      /\ Boxes[o] > 0 => b.current - b.pending >= Boxes[o]
      /\ Continue(w, [tx[w] EXCEPT !.pc = "boxes"])
      /\ UNCHANGED rows

\* UPDATE container_tracking ... WHERE current_borrowed >= n, under the CHECK
\* constraint container_tracking_balance.
UndoCommit(w) ==
  LET o == tx[w].doc  s == StoreOf[o]  n == Boxes[o]
  IN  /\ At(w, "revocation", "boxes")
      /\ n > 0 => /\ Free(w, BoxRow(s))
                  /\ box[s].current >= n
                  /\ box[s].pending <= box[s].current - n
      /\ box' = [box EXCEPT ![s].returned = @ + n, ![s].current = @ - n]
      /\ order' = [order EXCEPT ![o].status = "CANCELLED"]
      /\ out' = [out EXCEPT ![o].status = "CANCELLED"]
      /\ inv' = Published(w)
      /\ End(w)
      /\ UNCHANGED received

-----------------------------------------------------------------------------
(* InventoryService.adjustStock: the new quantity and the new available    *)
(* quantity are computed from a row that was only read, and written as     *)
(* values.                                                                 *)

AdjustRead(w, r, n) ==
  LET avail == inv[r].avail + n - inv[r].qty
  IN  /\ n # inv[r].qty
      /\ avail >= 0
      /\ "adjustStock" \in Ops
      /\ tx[w] = Idle
      /\ Continue(w, [Idle EXCEPT !.op = "adjustStock", !.pc = "claim", !.wh = r[1], !.item = r[2],
                                   !.plan = [inv[r] EXCEPT !.qty = n, !.avail = avail]])
      /\ UNCHANGED rows

\* What an UPDATE of quantity and available_quantity alone leaves in row r.
Overwrite(w, r) ==
  [Seen(w, r) EXCEPT !.qty = tx[w].plan.qty, !.avail = tx[w].plan.avail]

\* Fault: the locked quantity that was read is written back too.
AdjustCommitWholeRow(w) ==
  LET r == <<tx[w].wh, tx[w].item>>
  IN  /\ At(w, "adjustStock", "claim")
      /\ FreeInv(w, r)
      /\ inv' = [inv EXCEPT ![r] = tx[w].plan]
      /\ End(w)
      /\ UNCHANGED <<order, out, box, received>>

AdjustCommit(w) ==
  LET r == <<tx[w].wh, tx[w].item>>
  IN  /\ At(w, "adjustStock", "claim")
      /\ FreeInv(w, r)
      /\ inv' = [inv EXCEPT ![r] = Overwrite(w, r)]
      /\ End(w)
      /\ UNCHANGED <<order, out, box, received>>

-----------------------------------------------------------------------------
(* StockInService.complete: claim the document, take the advisory locks of *)
(* its inventory keys, then read and overwrite each row.  A row that does  *)
(* not exist yet stands in the model with zero quantities.                 *)

Received(d) == {g \in Goods : Receipt[d].qty[g] > 0}

StockInRead(w, d) ==
  /\ d \notin received
  /\ Begin(w, "stockIn", "claim", d, "APPROVED", Receipt[d].wh)
  /\ UNCHANGED rows

\* UPDATE stock_ins ... WHERE status = 'APPROVED'.
StockInClaim(w) ==
  LET d == tx[w].doc
  IN  /\ At(w, "stockIn", "claim")
      /\ Free(w, InRow(d))
      /\ d \notin received
      /\ Continue(w, [tx[w] EXCEPT !.locks = @ \cup {InRow(d)}, !.pc = "keys"])
      /\ UNCHANGED rows

\* Fault: no advisory lock.
StockInNoKeys(w) ==
  /\ At(w, "stockIn", "keys")
  /\ Continue(w, [tx[w] EXCEPT !.todo = Received(tx[w].doc), !.pc = "receive"])
  /\ UNCHANGED rows

\* pg_advisory_xact_lock of every key, in one order for all documents, so
\* that waiting for each in turn is waiting for all of them.
StockInKeys(w) ==
  LET keys == {KeyLock(tx[w].wh, g) : g \in Received(tx[w].doc)}
  IN  /\ At(w, "stockIn", "keys")
      /\ \A k \in keys : Free(w, k)
      /\ Continue(w, [tx[w] EXCEPT !.locks = @ \cup keys, !.todo = Received(tx[w].doc),
                                   !.pc = "receive"])
      /\ UNCHANGED rows

\* SELECT of the inventory row and the values computed from it.
StockInReadItem(w) ==
  /\ At(w, "stockIn", "receive")
  /\ tx[w].item = NoGoods
  /\ \E g \in tx[w].todo :
       LET r == <<tx[w].wh, g>>  q == Receipt[tx[w].doc].qty[g]
       IN  Continue(w, [tx[w] EXCEPT !.item = g, !.plan = Adding(Seen(w, r), q)])
  /\ UNCHANGED rows

StockInWriteItem(w) ==
  LET g == tx[w].item  r == <<tx[w].wh, g>>
  IN  /\ At(w, "stockIn", "receive")
      /\ g # NoGoods
      /\ WriteItem(w, g, r, Overwrite(w, r))
      /\ UNCHANGED rows

StockInCommit(w) ==
  /\ At(w, "stockIn", "receive")
  /\ tx[w].todo = {}
  /\ received' = received \cup {tx[w].doc}
  /\ inv' = Published(w)
  /\ End(w)
  /\ UNCHANGED <<order, out, box>>

-----------------------------------------------------------------------------
Init ==
  /\ order = [o \in Orders |->
       [status |-> IF o \in Migrated THEN "PENDING" ELSE "NONE",
        deleted |-> FALSE, wh |-> NoWarehouse]]
  /\ out = [o \in Orders |-> [status |-> "NONE", wh |-> NoWarehouse]]
  /\ inv = [r \in InvRows |-> [qty |-> Opening[r], locked |-> 0, avail |-> Opening[r]]]
  /\ box = [s \in Stores |-> [borrowed |-> 0, returned |-> 0, current |-> 0, pending |-> 0]]
  /\ received = {}
  /\ tx = [w \in Workers |-> Idle]

InventoryLock(w) ==
  ChooseWarehouse(w) \/ LockItem(w) \/ AssertItem(w) \/ ReleaseItem(w)

Create(w)  == (\E o \in Orders : CreateBegin(w, o)) \/ CreateLockStore(w)
                \/ CreateCheck(w) \/ CreateCommit(w)
Approve(w) == (\E o \in Orders : ApproveRead(w, o)) \/ ApproveClaim(w) \/ ApproveCommit(w)
Close(w)   == (\E o \in Orders : RejectRead(w, o) \/ RevokeRead(w, o) \/ DeleteRead(w, o))
                \/ CloseClaim(w) \/ RejectCommit(w) \/ DeleteCommit(w)
Ship(w)    == (\E o \in Orders : ShipRead(w, o)) \/ ShipClaim(w) \/ ShipCheckItem(w)
                \/ ShipItem(w) \/ ShipCommit(w)
Cancel(w)  == (\E o \in Orders : CancelRead(w, o)) \/ CancelClaim(w) \/ CancelCommit(w)
Confirm(w) == (\E o \in Orders : ConfirmRead(w, o)) \/ ConfirmCommit(w)
Undo(w)    == (\E o \in Orders : UndoRead(w, o)) \/ UndoReadOut(w) \/ UndoUpdate(w)
                \/ UndoItem(w) \/ UndoCheckBoxes(w) \/ UndoCommit(w)
Adjust(w)  == (\E r \in InvRows, n \in AdjustTo : AdjustRead(w, r, n)) \/ AdjustCommit(w)
StockIn(w) == (\E d \in StockIns : StockInRead(w, d)) \/ StockInClaim(w) \/ StockInKeys(w)
                \/ StockInReadItem(w) \/ StockInWriteItem(w) \/ StockInCommit(w)

Step(w) ==
  \/ InventoryLock(w) \/ Create(w) \/ Approve(w) \/ Close(w) \/ Ship(w)
  \/ Cancel(w) \/ Confirm(w) \/ Undo(w) \/ Adjust(w) \/ StockIn(w) \/ Rollback(w)

Next == \E w \in Workers : Step(w)

Spec == Init /\ [][Next]_vars

-----------------------------------------------------------------------------
(* Properties.                                                             *)

\* Rows and open transactions have the shape the schema and the handlers
\* give them.
TypeOK ==
  /\ order \in [Orders -> OrderRec]
  /\ out \in [Orders -> OutRec]
  /\ inv \in [InvRows -> InvRec]
  /\ box \in [Stores -> BoxRec]
  /\ received \subseteq StockIns
  /\ tx \in [Workers -> Transaction]

\* A store never has two orders under way, whatever submissions, approvals,
\* closings and shipments run at the same time (the rule the FOR UPDATE on
\* the store row in OrderService.create is there for).
OneActiveOrderPerStore ==
  \A o, p \in Orders :
    o # p /\ StoreOf[o] = StoreOf[p] => ~(Active(o) /\ Active(p))

\* The units of goods r[2] that orders hold locked in warehouse r[1].
Units(o, g) == {o} \X (1 .. Demand[o][g])
Held(r) == UNION {Units(o, r[2]) : o \in {p \in Orders : order[p].wh = r[1]}}

\* The locked quantity of an inventory row is exactly what the orders with a
\* warehouse locked have in it: no lock is leaked by a failed or concurrent
\* handler, and none is given back twice.
LockedMatchesHolders ==
  \A r \in InvRows : inv[r].locked = Cardinality(Held(r))

HolderIsOpen(o) ==
  /\ order[o].wh # NoWarehouse =>
       order[o].status \in {"PENDING", "APPROVED"} /\ ~order[o].deleted
  /\ order[o].status = "PENDING" /\ ~order[o].deleted /\ o \notin Migrated =>
       order[o].wh # NoWarehouse
  /\ order[o].status = "APPROVED" =>
       order[o].wh # NoWarehouse /\ order[o].wh = out[o].wh

\* An order reserves stock as long as, and only as long as, it waits for the
\* approval or for the shipment, and the shipment leaves from that warehouse.
HoldersAreOpen == \A o \in Orders : HolderIsOpen(o)

StockOutStatusOf(status) ==
  CASE status \in {"NONE", "PENDING", "REJECTED"} -> "NONE"
    [] status = "APPROVED"                        -> "PENDING"
    [] status \in {"PROCESSING", "COMPLETED"}     -> "COMPLETED"
    [] status = "CANCELLED"                       -> "CANCELLED"

\* The status of an order and the status of its stock-out document always
\* tell the same story, although approve, complete, cancel, confirmReceipt
\* and the revocation write them in different statements and only some of
\* these check both.
OrderMatchesStockOut ==
  \A o \in Orders : out[o].status = StockOutStatusOf(order[o].status)

\* The available quantity never goes below zero: the stock is never oversold.
AvailableNeverNegative == \A r \in InvRows : inv[r].avail >= 0

\* quantity = locked + available in every row.
Balanced == \A r \in InvRows : inv[r].qty = inv[r].locked + inv[r].avail

\* Orders never hold more of a row than there is (adjustStock: "after the
\* adjustment the available quantity must not be negative").
NeverOversold == \A r \in InvRows : inv[r].locked <= inv[r].qty

\* The units of r that stock-out documents have shipped and nobody took back.
ShippedUnits(r) ==
  UNION {Units(o, r[2]) : o \in {p \in Orders : out[p].status = "COMPLETED" /\ out[p].wh = r[1]}}
ReceivedUnits(r) ==
  UNION {{d} \X (1 .. Receipt[d].qty[r[2]]) : d \in {e \in received : Receipt[e].wh = r[1]}}

\* The quantity on hand is what was there, plus what stock-ins brought, minus
\* what shipments took: no concurrent handler makes goods appear or vanish.
StockConserved ==
  \A r \in InvRows :
    inv[r].qty + Cardinality(ShippedUnits(r)) = Opening[r] + Cardinality(ReceivedUnits(r))

LegalMoves ==
  {<<"NONE", "PENDING">>, <<"PENDING", "APPROVED">>, <<"PENDING", "REJECTED">>,
   <<"APPROVED", "PROCESSING">>, <<"APPROVED", "CANCELLED">>,
   <<"PROCESSING", "COMPLETED">>, <<"COMPLETED", "CANCELLED">>}

MovesLegally(o) ==
  /\ order[o].status # order'[o].status =>
       <<order[o].status, order'[o].status>> \in LegalMoves /\ ~order[o].deleted
  /\ order[o].deleted => order'[o].deleted

\* No step moves an order otherwise than along its life cycle, brings a
\* deleted order back, or changes the status of one, however the handlers
\* that read it before are interleaved.
OrderLifeCycle == [][\A o \in Orders : MovesLegally(o)]_vars

\* The handlers of one order implement the atomic promises of
\* StockReservation: the checks and the guarded updates of the statements,
\* interleaved with those of other transactions, never reserve stock that is
\* not there, and never serve an order twice.
Reservation == INSTANCE StockReservation WITH
  onHand <- [r \in InvRows |-> inv[r].qty],
  state  <- [o \in Orders |->
              IF order[o].wh # NoWarehouse THEN "held"
              ELSE IF order[o].deleted \/ order[o].status \in {"REJECTED", "CANCELLED"} THEN "closed"
              ELSE IF order[o].status \in {"NONE", "PENDING"} THEN "new" ELSE "shipped"],
  heldIn <- [o \in Orders |-> order[o].wh]

ReservesStock == Reservation!Spec

-----------------------------------------------------------------------------
(* The inductive invariant of the orders: what the locks and the rows of a *)
(* handler's statement say, for every handler that is under way.           *)

OrderHandlers == {"create", "approve", "reject", "revoke", "delete", "complete",
                  "cancel", "confirmReceipt", "revocation"}
Closers  == {"reject", "revoke", "delete"}
Shippers == {"complete", "cancel"}

\* A handler works on a document of its kind, and on a warehouse by the time
\* it touches the inventory.
WellFormed(t) ==
  /\ t.op \in OrderHandlers => t.doc \in Orders
  /\ t.op = "stockIn" => t.doc \in StockIns /\ t.wh \in Warehouses
  /\ t.op \in Shippers => t.wh \in Warehouses
  /\ t.op = "revocation" /\ t.pc # "readOut" => t.wh \in Warehouses
  /\ t.op = "adjustStock" => t.wh \in Warehouses /\ t.item \in Goods /\ t.plan \in InvRec
  /\ t.op = "stockIn" /\ t.item # NoGoods => t.plan \in InvRec
  /\ t.pc \in {"choose", "lock", "assert", "release"} => t.op \in OrderHandlers
  /\ t.pc \in {"lock", "assert"} => t.wh \in Warehouses
  /\ t.pc = "release" => t.wh \in Warehouses \/ t.todo = {}

\* Two transactions never hold the same lock.
LocksExclusive ==
  \A v, w \in Workers : v # w => tx[v].locks \cap tx[w].locks = {}

\* A handler past its claim holds the lock of the row it claimed.
HoldsClaim(t) ==
  /\ t.op = "create" /\ t.pc # "lockStore" => StoreRow(StoreOf[t.doc]) \in t.locks
  /\ t.op \in Closers \cup {"approve"} /\ t.pc # "claim" => OrderRow(t.doc) \in t.locks
  /\ t.op \in Shippers /\ t.pc # "claim" => OutRow(t.doc) \in t.locks
  /\ t.op = "revocation" /\ t.pc \in {"restore", "boxes"} =>
       OrderRow(t.doc) \in t.locks /\ OutRow(t.doc) \in t.locks

\* What a handler found out about its order is still true.
ClaimStillTrue(t) ==
  /\ t.op = "create" => order[t.doc].status = "NONE"
  /\ t.op = "create" /\ t.pc \in {"choose", "lock"} =>
       \A p \in Orders : StoreOf[p] = StoreOf[t.doc] => ~Active(p)
  /\ t.op = "approve" /\ t.pc # "claim" =>
       order[t.doc].status = "PENDING" /\ ~order[t.doc].deleted
  /\ t.op \in Closers => t.seen \in {"PENDING", "REJECTED"}
  /\ t.op = "reject" => t.seen = "PENDING"
  /\ t.op \in Closers /\ t.pc # "claim" =>
       order[t.doc].status = t.seen /\ ~order[t.doc].deleted
  /\ t.op \in Shippers /\ t.pc # "claim" => out[t.doc].status = "PENDING"
  /\ t.op = "revocation" => order[t.doc].status \in {"COMPLETED", "CANCELLED"}

OneCreator ==
  \A v, w \in Workers :
    v # w /\ tx[v].op = "create" /\ tx[w].op = "create" => tx[v].doc # tx[w].doc

\* Only an order nobody has approved is deleted; a stock-out has a warehouse.
RowConsistent(o) ==
  /\ order[o].deleted => order[o].status \in {"PENDING", "REJECTED"}
  /\ out[o].status # "NONE" => out[o].wh \in Warehouses

OrderInv ==
  /\ TypeOK
  /\ LocksExclusive
  /\ OneCreator
  /\ \A w \in Workers : WellFormed(tx[w]) /\ HoldsClaim(tx[w]) /\ ClaimStillTrue(tx[w])
  /\ \A o \in Orders : RowConsistent(o)
  /\ OneActiveOrderPerStore
  /\ OrderMatchesStockOut
  /\ HoldersAreOpen

=============================================================================
