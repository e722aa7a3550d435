------------------------- MODULE OrderStock_proofs -------------------------
(***************************************************************************)
(* What OrderStock says of the orders, proved for every number of workers, *)
(* stores, orders, warehouses, goods and stock-in documents and for every  *)
(* demand.  OrderInv is inductive: each handler's lemma shows that its     *)
(* statements keep it, through StatementStep when nothing is committed to  *)
(* an order or a stock-out, and through CommitStep when it is.  StockInv   *)
(* adds the quantities: what an open transaction has written is its        *)
(* order's part of the committed rows, and the locked quantities are what  *)
(* the orders hold.  From it follow the totals, and that the handlers of an*)
(* order implement StockReservation.                                       *)
(***************************************************************************)
EXTENDS OrderStock, UnitCounting

\* A worker that serves no request has a well-typed transaction record.
LEMMA IdleType == Idle \in Transaction
  BY OrderStockAssumption DEF Idle, Transaction, OpNames, PcNames, OrderStatus, NoWrites

\* Continue changes the transaction of its worker and of nobody else.
LEMMA ContinueType ==
  ASSUME TypeOK, NEW w \in Workers, NEW t \in Transaction, Continue(w, t)
  PROVE  /\ tx' \in [Workers -> Transaction]
         /\ \A v \in Workers \ {w} : tx'[v] = tx[v]
         /\ tx'[w] = t
  BY DEF TypeOK, Continue

\* A statement that changes neither an order nor a stock-out keeps the
\* invariant if what its worker continues with is in order.
LEMMA StatementStep ==
  ASSUME OrderInv, NEW w \in Workers, NEW t \in Transaction, Continue(w, t),
         WellFormed(t), HoldsClaim(t), ClaimStillTrue(t),
         \A lock \in t.locks : lock \in tx[w].locks \/ Free(w, lock),
         t.op = "create" =>
           \A v \in Workers \ {w} : tx[v].op = "create" => tx[v].doc # t.doc,
         UNCHANGED <<order, out, box>>,
         inv' \in [InvRows -> InvRec], received' \subseteq StockIns
  PROVE  OrderInv'
  <1>1. /\ tx' \in [Workers -> Transaction]
        /\ \A v \in Workers \ {w} : tx'[v] = tx[v]
        /\ tx'[w] = t
    BY ContinueType DEF OrderInv
  <1>2. TypeOK'
    BY <1>1 DEF OrderInv, TypeOK
  <1>3. LocksExclusive'
    <2> SUFFICES ASSUME NEW u \in Workers, NEW v \in Workers, u # v
                 PROVE  tx'[u].locks \cap tx'[v].locks = {}
      BY DEF LocksExclusive
    <2>1. CASE u # w /\ v # w
      BY <2>1, <1>1 DEF OrderInv, LocksExclusive
    <2>2. \A lock \in t.locks, x \in Workers \ {w} : lock \notin tx[x].locks
      BY DEF OrderInv, LocksExclusive, Free
    <2> QED
      BY <2>1, <2>2, <1>1
  <1>4. OneCreator'
    BY <1>1 DEF OrderInv, OneCreator
  <1>5. \A v \in Workers : WellFormed(tx'[v]) /\ HoldsClaim(tx'[v])
    BY <1>1 DEF OrderInv
  <1>6. \A v \in Workers : ClaimStillTrue(tx[v])
    BY DEF OrderInv
  <1>7. \A v \in Workers : ClaimStillTrue(tx'[v])
    BY <1>1, <1>6
  <1>8. (\A v \in Workers : ClaimStillTrue(tx[v]))'
    BY <1>7 DEF ClaimStillTrue, Active
  <1>9. (\A v \in Workers : WellFormed(tx[v]) /\ HoldsClaim(tx[v]))'
    BY <1>5 DEF WellFormed, HoldsClaim
  <1>10. /\ (\A o \in Orders : RowConsistent(o))'
         /\ OneActiveOrderPerStore' /\ OrderMatchesStockOut' /\ HoldersAreOpen'
    BY DEF OrderInv, RowConsistent, OneActiveOrderPerStore, OrderMatchesStockOut, HoldersAreOpen,
           HolderIsOpen, Active
  <1> QED
    BY <1>2, <1>3, <1>4, <1>8, <1>9, <1>10 DEF OrderInv

\* A COMMIT that gives order o the value n and its stock-out the value m.
LEMMA CommitStep ==
  ASSUME OrderInv, NEW w \in Workers, End(w),
         NEW o \in Orders, NEW n \in OrderRec, NEW m \in OutRec,
         order' = [order EXCEPT ![o] = n], out' = [out EXCEPT ![o] = m],
         inv' \in [InvRows -> InvRec], box' \in [Stores -> BoxRec], received' = received,
         Free(w, OrderRow(o)) \/ order[o].status = "NONE",
         Free(w, OutRow(o)) \/ out[o].status # "PENDING",
         order[o].status = "NONE" => tx[w].op = "create" /\ tx[w].doc = o,
         order[o].status \in {"COMPLETED", "CANCELLED"} => n.status \in {"COMPLETED", "CANCELLED"},
         n.status \in ACTIVE_ORDER_STATUSES /\ ~n.deleted /\ ~Active(o) =>
           /\ StoreRow(StoreOf[o]) \in tx[w].locks
           /\ \A p \in Orders : StoreOf[p] = StoreOf[o] => ~Active(p),
         HolderIsOpen(o)', RowConsistent(o)', m.status = StockOutStatusOf(n.status)
  PROVE  OrderInv'
  <1>1. /\ tx' \in [Workers -> Transaction]
        /\ \A v \in Workers \ {w} : tx'[v] = tx[v]
        /\ tx'[w] = Idle
    BY ContinueType, IdleType DEF OrderInv, End
  <1>2. TypeOK'
    BY <1>1 DEF OrderInv, TypeOK
  <1>3. /\ order'[o] = n /\ out'[o] = m
        /\ \A p \in Orders \ {o} : order'[p] = order[p] /\ out'[p] = out[p]
    BY DEF OrderInv, TypeOK
  <1>4. LocksExclusive' /\ OneCreator'
    BY <1>1 DEF OrderInv, LocksExclusive, OneCreator, Idle
  <1>5. (\A p \in Orders : RowConsistent(p))' /\ HoldersAreOpen'
    BY <1>3 DEF OrderInv, RowConsistent, HoldersAreOpen, HolderIsOpen
  <1>6. OrderMatchesStockOut'
    <2> SUFFICES ASSUME NEW p \in Orders
                 PROVE  out'[p].status = StockOutStatusOf(order'[p].status)
      BY DEF OrderMatchesStockOut, StockOutStatusOf
    <2> QED
      BY <1>3 DEF OrderInv, OrderMatchesStockOut
  <1>7. \A p \in Orders : Active(p)' <=> IF p = o THEN n.status \in ACTIVE_ORDER_STATUSES /\ ~n.deleted
                                                ELSE Active(p)
    BY <1>3 DEF Active
  <1>8. OneActiveOrderPerStore'
    <2> SUFFICES ASSUME NEW p \in Orders, NEW q \in Orders, p # q, StoreOf[p] = StoreOf[q],
                        Active(p)', Active(q)'
                 PROVE  FALSE
      BY DEF OneActiveOrderPerStore
    <2> QED
      BY <1>7 DEF OrderInv, OneActiveOrderPerStore
  <1>9. (\A v \in Workers : WellFormed(tx[v]) /\ HoldsClaim(tx[v]))'
    <2>1. WellFormed(Idle) /\ HoldsClaim(Idle)
      BY DEF WellFormed, HoldsClaim, Idle, OrderHandlers, Shippers, Closers
    <2>2. \A v \in Workers : WellFormed(tx'[v]) /\ HoldsClaim(tx'[v])
      BY <2>1, <1>1 DEF OrderInv
    <2> QED
      BY <2>2 DEF WellFormed, HoldsClaim
  <1>10. \A v \in Workers \ {w} : ClaimStillTrue(tx[v])'
    <2> SUFFICES ASSUME NEW v \in Workers \ {w}
                 PROVE  ClaimStillTrue(tx[v])'
      OBVIOUS
    <2> DEFINE t == tx[v]
    <2>1. tx'[v] = t /\ ClaimStillTrue(t) /\ HoldsClaim(t) /\ WellFormed(t) /\ t \in Transaction
      BY <1>1 DEF OrderInv, TypeOK
    <2>2. t.op = "create" => order'[t.doc].status = "NONE"
      BY <2>1, <1>3 DEF OrderInv, OneCreator, ClaimStillTrue, WellFormed, OrderHandlers
    <2>3. t.op = "create" /\ t.pc \in {"choose", "lock"} =>
            \A p \in Orders : StoreOf[p] = StoreOf[t.doc] => ~Active(p)'
      <3> SUFFICES ASSUME t.op = "create", t.pc \in {"choose", "lock"},
                          NEW p \in Orders, StoreOf[p] = StoreOf[t.doc], Active(p)'
                   PROVE  FALSE
        OBVIOUS
      <3>1. ~Active(p) /\ StoreRow(StoreOf[t.doc]) \in t.locks
        BY <2>1 DEF ClaimStillTrue, HoldsClaim
      <3>2. p = o /\ StoreRow(StoreOf[o]) \in tx[w].locks
        BY <3>1, <1>7
      <3> QED
        BY <3>1, <3>2 DEF OrderInv, LocksExclusive
    <2>4. t.op \in Closers \cup {"approve"} /\ t.pc # "claim" /\ t.doc = o =>
            order[o].status = "NONE"
      BY <2>1 DEF HoldsClaim, Free
    <2>5. t.op = "approve" /\ t.pc # "claim" =>
            order'[t.doc].status = "PENDING" /\ ~order'[t.doc].deleted
      BY <2>1, <2>4, <1>3 DEF ClaimStillTrue, WellFormed, OrderHandlers
    <2>6. /\ t.op \in Closers => t.seen \in {"PENDING", "REJECTED"}
          /\ t.op \in Closers /\ t.pc # "claim" =>
               order'[t.doc].status = t.seen /\ ~order'[t.doc].deleted
      BY <2>1, <2>4, <1>3 DEF ClaimStillTrue, WellFormed, OrderHandlers, Closers
    <2>7. t.op \in Shippers /\ t.pc # "claim" => out'[t.doc].status = "PENDING"
      BY <2>1, <1>3 DEF ClaimStillTrue, HoldsClaim, Free, WellFormed, OrderHandlers, Shippers
    <2>8. t.op = "revocation" => order'[t.doc].status \in {"COMPLETED", "CANCELLED"}
      BY <2>1, <1>3 DEF ClaimStillTrue, WellFormed, OrderHandlers
    <2>9. t.op = "reject" => t.seen = "PENDING"
      BY <2>1 DEF ClaimStillTrue
    <2> QED
      BY <2>1, <2>2, <2>3, <2>5, <2>6, <2>7, <2>8, <2>9 DEF ClaimStillTrue
  <1>11. ClaimStillTrue(tx[w])'
    BY <1>1 DEF ClaimStillTrue, Idle, Closers, Shippers
  <1> QED
    BY <1>2, <1>4, <1>5, <1>6, <1>8, <1>9, <1>10, <1>11 DEF OrderInv

\* The database as it is opened and workers that are idle satisfy OrderInv.
LEMMA InitInv == Init => OrderInv
  <1> SUFFICES ASSUME Init PROVE OrderInv
    OBVIOUS
  <1>1. TypeOK
    BY OrderStockAssumption, IdleType
    DEF Init, TypeOK, OrderRec, OutRec, InvRec, BoxRec, OrderStatus, OutStatus
  <1>2. LocksExclusive /\ OneCreator
    BY DEF Init, LocksExclusive, OneCreator, Idle
  <1>3. \A w \in Workers : WellFormed(tx[w]) /\ HoldsClaim(tx[w]) /\ ClaimStillTrue(tx[w])
    BY DEF Init, WellFormed, HoldsClaim, ClaimStillTrue, Idle, OrderHandlers, Shippers, Closers
  <1>4. \A o \in Orders : RowConsistent(o) /\ HolderIsOpen(o)
    BY DEF Init, RowConsistent, HolderIsOpen
  <1>5. OneActiveOrderPerStore
    BY OrderStockAssumption DEF Init, OneActiveOrderPerStore, Active, ACTIVE_ORDER_STATUSES
  <1>6. OrderMatchesStockOut
    BY DEF Init, OrderMatchesStockOut, StockOutStatusOf
  <1> QED
    BY <1>1, <1>2, <1>3, <1>4, <1>5, <1>6 DEF OrderInv, HoldersAreOpen

\* A transaction sees a well-typed inventory row, its own write or another's.
LEMMA SeenType ==
  ASSUME TypeOK, NEW w \in Workers, NEW r \in InvRows
  PROVE  Seen(w, r) \in InvRec
  BY DEF TypeOK, Seen, Transaction

\* The inventory a COMMIT publishes is well typed.
LEMMA PublishedType ==
  ASSUME TypeOK, NEW w \in Workers
  PROVE  Published(w) \in [InvRows -> InvRec]
  BY SeenType DEF Published

\* Writing an inventory row leaves the rest of the transaction as it was.
LEMMA WriteItemStep ==
  ASSUME OrderInv, NEW w \in Workers, NEW g \in Goods, NEW r \in InvRows,
         NEW value \in InvRec, WriteItem(w, g, r, value), UNCHANGED rows,
         tx[w].op # "adjustStock"
  PROVE  OrderInv'
  <1> DEFINE p == [tx[w].post EXCEPT ![r] = value]
             t == [tx[w] EXCEPT !.post = p, !.todo = @ \ {g}, !.item = NoGoods, !.plan = Untouched]
  <1>1. tx[w] \in Transaction
    BY DEF OrderInv, TypeOK
  <1>2. p \in [InvRows -> InvRec \cup {Untouched}]
    BY <1>1 DEF Transaction
  <1>3. t \in Transaction /\ Continue(w, t)
    <2> HIDE DEF p
    <2>1. t \in Transaction
      BY <1>1, <1>2 DEF Transaction
    <2>2. Continue(w, t)
      BY DEF WriteItem, p
    <2> QED
      BY <2>1, <2>2
  <1>4. /\ t.op = tx[w].op /\ t.pc = tx[w].pc /\ t.doc = tx[w].doc /\ t.seen = tx[w].seen
        /\ t.wh = tx[w].wh /\ t.locks = tx[w].locks
        /\ t.item = NoGoods /\ t.todo \subseteq tx[w].todo
    BY <1>1 DEF Transaction
  <1> QED
    <2> HIDE DEF t
    <2>1. WellFormed(tx[w]) /\ HoldsClaim(tx[w]) /\ ClaimStillTrue(tx[w])
      BY DEF OrderInv
    <2>2. WellFormed(t)
      BY <1>4, <2>1 DEF WellFormed
    <2>3. HoldsClaim(t) /\ ClaimStillTrue(t)
      BY <1>4, <2>1 DEF HoldsClaim, ClaimStillTrue
    <2> QED
      BY <1>3, <1>4, <2>2, <2>3, StatementStep DEF rows, OrderInv, TypeOK, OneCreator

\* A statement that writes nothing committed.
LEMMA ReadStep ==
  ASSUME OrderInv, NEW w \in Workers, NEW t \in Transaction, Continue(w, t), UNCHANGED rows,
         WellFormed(t), HoldsClaim(t), ClaimStillTrue(t),
         \A lock \in t.locks : lock \in tx[w].locks \/ Free(w, lock),
         t.op = "create" => tx[w].op = "create" /\ tx[w].doc = t.doc
  PROVE  OrderInv'
  BY StatementStep DEF rows, OrderInv, TypeOK, OneCreator

\* What the invariant says about one worker.
LEMMA WorkerFacts ==
  ASSUME OrderInv, NEW w \in Workers
  PROVE  /\ TypeOK
         /\ tx[w] \in Transaction
         /\ WellFormed(tx[w]) /\ HoldsClaim(tx[w]) /\ ClaimStillTrue(tx[w])
  BY DEF OrderInv, TypeOK

\* The items of an order are goods.
LEMMA ItemsType == \A o \in Orders : Items(o) \subseteq Goods
  BY DEF Items

\* The quantity of an item is a natural number.
LEMMA DemandType == \A o \in Orders, g \in Goods : Demand[o][g] \in Nat
  BY OrderStockAssumption

\* A stock-in document brings natural quantities to a warehouse.
LEMMA ReceiptType ==
  \A d \in StockIns : Receipt[d].wh \in Warehouses /\ \A g \in Goods : Receipt[d].qty[g] \in Nat
  <1> SUFFICES ASSUME NEW d \in StockIns
               PROVE  Receipt[d].wh \in Warehouses /\ \A g \in Goods : Receipt[d].qty[g] \in Nat
    OBVIOUS
  <1>1. Receipt[d] \in [wh : Warehouses, qty : [Goods -> Nat]]
    BY OrderStockAssumption
  <1> QED
    BY <1>1

\* A warehouse and a goods name an inventory row.
LEMMA InvRowType == \A h \in Warehouses, g \in Goods : <<h, g>> \in InvRows
  BY DEF InvRows

\* The four updates of an inventory row keep it well typed.
LEMMA UpdateTypes ==
  ASSUME NEW x \in InvRec, NEW q \in Int
  PROVE  /\ Reserving(x, q) \in InvRec /\ Releasing(x, q) \in InvRec
         /\ Shipping(x, q) \in InvRec /\ Adding(x, q) \in InvRec
  <1> DEFINE moreQty == x.qty + q        lessQty == x.qty - q
             moreLocked == x.locked + q  lessLocked == x.locked - q
             moreAvail == x.avail + q    lessAvail == x.avail - q
  <1>1. {moreQty, lessQty, moreLocked, lessLocked, moreAvail, lessAvail} \subseteq Int
    BY DEF InvRec
  <1> HIDE DEF moreQty, lessQty, moreLocked, lessLocked, moreAvail, lessAvail
  <1>2. /\ [x EXCEPT !.locked = moreLocked, !.avail = lessAvail] \in InvRec
        /\ [x EXCEPT !.locked = lessLocked, !.avail = moreAvail] \in InvRec
        /\ [x EXCEPT !.qty = lessQty, !.locked = lessLocked] \in InvRec
        /\ [x EXCEPT !.qty = moreQty, !.avail = moreAvail] \in InvRec
    BY <1>1 DEF InvRec
  <1> QED
    BY <1>2 DEF Reserving, Releasing, Shipping, Adding,
                moreQty, lessQty, moreLocked, lessLocked, moreAvail, lessAvail

\* lockOrderInventory, assertOrderInventoryLocked and
\* releaseOrderInventory keep the invariant, in whatever handler they run.
LEMMA InventoryLockStep ==
  ASSUME OrderInv, NEW w \in Workers, InventoryLock(w)
  PROVE  OrderInv'
  <1>0. /\ TypeOK /\ tx[w] \in Transaction
        /\ WellFormed(tx[w]) /\ HoldsClaim(tx[w]) /\ ClaimStillTrue(tx[w])
    BY WorkerFacts
  <1>1. CASE ChooseWarehouse(w)
    <2>1. PICK h \in Warehouses :
            Continue(w, [tx[w] EXCEPT !.pc = "lock", !.wh = h, !.todo = Items(tx[w].doc)])
      BY <1>1 DEF ChooseWarehouse
    <2> DEFINE t == [tx[w] EXCEPT !.pc = "lock", !.wh = h, !.todo = Items(tx[w].doc)]
    <2>2. tx[w].doc \in Orders /\ tx[w].pc = "choose"
      BY <1>0, <1>1 DEF ChooseWarehouse, WellFormed
    <2>3. t \in Transaction
      BY <1>0, <2>2, ItemsType DEF Transaction, PcNames
    <2>4. WellFormed(t) /\ HoldsClaim(t) /\ ClaimStillTrue(t)
      BY <1>0, <2>2 DEF Transaction, WellFormed, HoldsClaim, ClaimStillTrue
    <2> QED
      BY <1>0, <1>1, <2>1, <2>2, <2>3, <2>4, ReadStep DEF ChooseWarehouse, Transaction
  <1>2. CASE LockItem(w)
    <2>1. PICK g \in tx[w].todo :
            LET r == <<tx[w].wh, g>>  q == Demand[tx[w].doc][g]
            IN  WriteItem(w, g, r, Reserving(Seen(w, r), q))
      BY <1>2 DEF LockItem
    <2> DEFINE r == <<tx[w].wh, g>>
               q == Demand[tx[w].doc][g]
               value == Reserving(Seen(w, r), q)
    <2>2. g \in Goods /\ r \in InvRows /\ q \in Nat /\ tx[w].op # "adjustStock"
      BY <1>0, <1>2, InvRowType, DemandType DEF LockItem, WellFormed, Transaction, OrderHandlers
    <2>3. WriteItem(w, g, r, value)
      BY <2>1
    <2> HIDE DEF r, q
    <2>4. Seen(w, r) \in InvRec
      BY <1>0, <2>2, SeenType
    <2>5. value \in InvRec
      BY <2>2, <2>4, UpdateTypes
    <2>6. UNCHANGED rows
      BY <1>2 DEF LockItem
    <2> QED
      BY <2>2, <2>3, <2>5, <2>6, WriteItemStep
  <1>3. CASE AssertItem(w)
    <2>1. PICK g \in tx[w].todo : Continue(w, [tx[w] EXCEPT !.todo = @ \ {g}])
      BY <1>3 DEF AssertItem
    <2> DEFINE t == [tx[w] EXCEPT !.todo = @ \ {g}]
    <2>2. t \in Transaction
      BY <1>0 DEF Transaction
    <2>3. WellFormed(t) /\ HoldsClaim(t) /\ ClaimStillTrue(t)
      BY <1>0, <1>3 DEF AssertItem, Transaction, WellFormed, HoldsClaim, ClaimStillTrue
    <2> QED
      BY <1>0, <1>3, <2>1, <2>2, <2>3, ReadStep DEF AssertItem, Transaction
  <1>4. CASE ReleaseItem(w)
    <2>1. PICK g \in tx[w].todo :
            LET r == <<tx[w].wh, g>>  q == Demand[tx[w].doc][g]
            IN  WriteItem(w, g, r, Releasing(Seen(w, r), q))
      BY <1>4 DEF ReleaseItem
    <2> DEFINE r == <<tx[w].wh, g>>
               q == Demand[tx[w].doc][g]
               value == Releasing(Seen(w, r), q)
    <2>2. g \in Goods /\ r \in InvRows /\ q \in Nat /\ tx[w].op # "adjustStock"
      BY <1>0, <1>4, InvRowType, DemandType DEF ReleaseItem, WellFormed, Transaction, OrderHandlers
    <2>3. WriteItem(w, g, r, value)
      BY <2>1
    <2> HIDE DEF r, q
    <2>4. Seen(w, r) \in InvRec
      BY <1>0, <2>2, SeenType
    <2>5. value \in InvRec
      BY <2>2, <2>4, UpdateTypes
    <2>6. UNCHANGED rows
      BY <1>4 DEF ReleaseItem
    <2> QED
      BY <2>2, <2>3, <2>5, <2>6, WriteItemStep
  <1> QED
    BY <1>1, <1>2, <1>3, <1>4 DEF InventoryLock

\* A handler begins on document doc with nothing locked yet.
LEMMA BeginStep ==
  ASSUME OrderInv, NEW w \in Workers,
         NEW op \in OrderHandlers \cup {"stockIn"}, NEW pc \in {"lockStore", "claim", "readOut"},
         NEW doc \in Orders \cup StockIns, NEW seen \in OrderStatus,
         NEW wh \in Warehouses \cup {NoWarehouse},
         Begin(w, op, pc, doc, seen, wh), UNCHANGED rows,
         op \in OrderHandlers => doc \in Orders,
         op = "stockIn" => doc \in StockIns /\ wh \in Warehouses,
         op \in Shippers => wh \in Warehouses,
         op = "revocation" => pc = "readOut" /\ order[doc].status \in {"COMPLETED", "CANCELLED"},
         op = "create" =>
           /\ pc = "lockStore" /\ order[doc].status = "NONE"
           /\ \A v \in Workers : ~(tx[v].op = "create" /\ tx[v].doc = doc),
         op # "create" /\ op # "revocation" => pc = "claim",
         op \in Closers => seen \in {"PENDING", "REJECTED"},
         op = "reject" => seen = "PENDING"
  PROVE  OrderInv'
  <1> DEFINE t == [Idle EXCEPT !.op = op, !.pc = pc, !.doc = doc, !.seen = seen, !.wh = wh]
  <1>1. op \in OpNames /\ pc \in PcNames
    BY DEF OpNames, PcNames, OrderHandlers
  <1>2. t \in Transaction
    BY <1>1, IdleType DEF Transaction
  <1>3. /\ t.op = op /\ t.pc = pc /\ t.doc = doc /\ t.seen = seen /\ t.wh = wh
        /\ t.locks = {} /\ t.item = NoGoods
    BY DEF Idle
  <1>4. Continue(w, t)
    BY DEF Begin
  <1> HIDE DEF t
  <1>5. WellFormed(t)
    BY <1>3 DEF WellFormed, OrderHandlers, Shippers
  <1>6. HoldsClaim(t)
    BY <1>3 DEF HoldsClaim, Shippers, Closers
  <1>7. ClaimStillTrue(t)
    BY <1>3 DEF ClaimStillTrue, Shippers, Closers
  <1> QED
    BY <1>2, <1>3, <1>4, <1>5, <1>6, <1>7, StatementStep DEF rows, OrderInv, TypeOK

\* OrderService.create keeps the invariant: the FOR UPDATE on the store
\* makes what CreateCheck found still true at the COMMIT.
LEMMA CreateStep ==
  ASSUME OrderInv, NEW w \in Workers, Create(w)
  PROVE  OrderInv'
  <1>0. /\ TypeOK /\ tx[w] \in Transaction
        /\ WellFormed(tx[w]) /\ HoldsClaim(tx[w]) /\ ClaimStillTrue(tx[w])
    BY WorkerFacts
  <1>1. ASSUME NEW o \in Orders, CreateBegin(w, o)
        PROVE  OrderInv'
    BY <1>1, BeginStep DEF CreateBegin, OrderHandlers, OrderStatus, Shippers, Closers
  <1>2. CASE CreateLockStore(w)
    <2> DEFINE row == StoreRow(StoreOf[tx[w].doc])
               t == [tx[w] EXCEPT !.pc = "check", !.locks = @ \cup {row}]
    <2>1. Continue(w, t) /\ UNCHANGED rows /\ Free(w, row) /\ tx[w].op = "create"
      BY <1>2 DEF CreateLockStore, At
    <2>2. row \in LockNames
      BY <1>0, <2>1, OrderStockAssumption DEF WellFormed, OrderHandlers, LockNames
    <2> HIDE DEF row
    <2>3. t \in Transaction /\ \A lock \in t.locks : lock \in tx[w].locks \/ lock = row
      BY <1>0, <2>2 DEF Transaction, PcNames
    <2>4. WellFormed(t) /\ HoldsClaim(t) /\ ClaimStillTrue(t)
      BY <1>0, <2>1 DEF Transaction, WellFormed, HoldsClaim, ClaimStillTrue, Shippers, Closers, row
    <2> QED
      BY <1>0, <2>1, <2>3, <2>4, ReadStep DEF Transaction
  <1>3. CASE CreateCheck(w)
    <2> DEFINE t == [tx[w] EXCEPT !.pc = "choose"]
    <2>1. Continue(w, t) /\ UNCHANGED rows /\ At(w, "create", "check")
      BY <1>3 DEF CreateCheck
    <2>2. t \in Transaction
      BY <1>0 DEF Transaction, PcNames
    <2>3. WellFormed(t) /\ HoldsClaim(t)
      BY <1>0, <2>1 DEF At, Transaction, WellFormed, HoldsClaim, Shippers, Closers, OrderHandlers
    <2>4. ClaimStillTrue(t)
      BY <1>0, <1>3 DEF CreateCheck, At, Transaction, ClaimStillTrue, Shippers, Closers
    <2>5. /\ t.op = "create" => tx[w].op = "create" /\ tx[w].doc = t.doc
          /\ \A lock \in t.locks : lock \in tx[w].locks \/ Free(w, lock)
      BY <1>0 DEF Transaction
    <2>6. Continue(w, t) /\ UNCHANGED rows
      BY <2>1
    <2> HIDE DEF t
    <2> QED
      BY <2>2, <2>3, <2>4, <2>5, <2>6, ReadStep
  <1>4. CASE CreateCommit(w)
    <2>1. /\ tx[w].op = "create" /\ tx[w].pc = "lock"
          /\ End(w) /\ inv' = Published(w)
          /\ UNCHANGED <<out, box, received>>
      BY <1>4 DEF CreateCommit, At
    <2>2. PICK o \in Orders : o = tx[w].doc
      BY <1>0, <2>1 DEF WellFormed, OrderHandlers
    <2> DEFINE n == [status |-> "PENDING", deleted |-> FALSE, wh |-> tx[w].wh]
    <2>3. tx[w].wh \in Warehouses /\ order[o].status = "NONE" /\ out[o].status = "NONE"
      BY <1>0, <2>1, <2>2 DEF WellFormed, ClaimStillTrue, OrderInv, OrderMatchesStockOut,
                              StockOutStatusOf
    <2>4. /\ n \in OrderRec /\ out[o] \in OutRec
          /\ order' = [order EXCEPT ![o] = n] /\ out' = [out EXCEPT ![o] = out[o]]
      BY <1>0, <1>4, <2>2, <2>3 DEF TypeOK, OrderRec, OrderStatus, CreateCommit, SetOrder
    <2>5. inv' \in [InvRows -> InvRec] /\ box' \in [Stores -> BoxRec]
      BY <1>0, <2>1, PublishedType DEF TypeOK
    <2>6. /\ StoreRow(StoreOf[o]) \in tx[w].locks
          /\ \A p \in Orders : StoreOf[p] = StoreOf[o] => ~Active(p)
      BY <1>0, <2>1, <2>2 DEF HoldsClaim, ClaimStillTrue
    <2>7. order'[o] = n /\ out'[o] = out[o]
      BY <1>0, <2>4 DEF TypeOK
    <2>8. HolderIsOpen(o)' /\ RowConsistent(o)' /\ out[o].status = StockOutStatusOf(n.status)
      BY <2>3, <2>7, OrderStockAssumption DEF HolderIsOpen, RowConsistent, StockOutStatusOf
    <2>9. /\ n.status \in ACTIVE_ORDER_STATUSES /\ ~n.deleted /\ ~Active(o) =>
               /\ StoreRow(StoreOf[o]) \in tx[w].locks
               /\ \A p \in Orders : StoreOf[p] = StoreOf[o] => ~Active(p)
          /\ order[o].status \in {"COMPLETED", "CANCELLED"} => n.status \in {"COMPLETED", "CANCELLED"}
          /\ order[o].status = "NONE" => tx[w].op = "create" /\ tx[w].doc = o
          /\ received' = received
      BY <2>1, <2>2, <2>3, <2>6
    <2> HIDE DEF n
    <2> QED
      BY <2>1, <2>3, <2>4, <2>5, <2>8, <2>9, CommitStep
  <1> QED
    BY <1>1, <1>2, <1>3, <1>4 DEF Create

\* A lock that one worker holds is free for it.
LEMMA HeldIsFree ==
  ASSUME OrderInv, NEW w \in Workers, NEW lock \in tx[w].locks
  PROVE  Free(w, lock)
  BY DEF OrderInv, LocksExclusive, Free

\* CommitStep for a handler that does not make an order active.
LEMMA MoveStep ==
  ASSUME OrderInv, NEW w \in Workers, End(w),
         NEW o \in Orders, NEW n \in OrderRec, NEW m \in OutRec,
         order' = [order EXCEPT ![o] = n], out' = [out EXCEPT ![o] = m],
         inv' \in [InvRows -> InvRec], box' \in [Stores -> BoxRec], received' = received,
         Free(w, OrderRow(o)), Free(w, OutRow(o)) \/ out[o].status # "PENDING",
         order[o].status # "NONE",
         order[o].status \in {"COMPLETED", "CANCELLED"} => n.status \in {"COMPLETED", "CANCELLED"},
         n.status \in ACTIVE_ORDER_STATUSES /\ ~n.deleted => Active(o),
         HolderIsOpen(o)', RowConsistent(o)', m.status = StockOutStatusOf(n.status)
  PROVE  OrderInv'
  BY CommitStep

\* OrderApprovalService.approve keeps the invariant.
LEMMA ApproveStep ==
  ASSUME OrderInv, NEW w \in Workers, Approve(w)
  PROVE  OrderInv'
  <1>0. /\ TypeOK /\ tx[w] \in Transaction
        /\ WellFormed(tx[w]) /\ HoldsClaim(tx[w]) /\ ClaimStillTrue(tx[w])
    BY WorkerFacts
  <1>1. ASSUME NEW o \in Orders, ApproveRead(w, o)
        PROVE  OrderInv'
    <2>1. order[o].wh \in Warehouses \cup {NoWarehouse}
      BY <1>0 DEF TypeOK, OrderRec
    <2> QED
      BY <1>1, <2>1, BeginStep DEF ApproveRead, OrderHandlers, OrderStatus, Shippers, Closers
  <1>2. CASE ApproveClaim(w)
    <2>1. PICK o \in Orders : o = tx[w].doc
      BY <1>0, <1>2 DEF ApproveClaim, At, WellFormed, OrderHandlers
    <2> DEFINE t == [tx[w] EXCEPT !.locks = @ \cup {OrderRow(o)}, !.todo = Items(o),
                                  !.pc = IF tx[w].wh = NoWarehouse THEN "choose" ELSE "assert"]
    <2>2. /\ Continue(w, t) /\ UNCHANGED rows /\ Free(w, OrderRow(o)) /\ tx[w].op = "approve"
          /\ order[o].status = "PENDING" /\ ~order[o].deleted
      BY <1>2, <2>1 DEF ApproveClaim, At
    <2>3. /\ t \in Transaction
          /\ \A lock \in t.locks : lock \in tx[w].locks \/ lock = OrderRow(o)
          /\ OrderRow(o) \in t.locks /\ t.op = tx[w].op /\ t.doc = o /\ t.wh = tx[w].wh
          /\ t.pc = IF tx[w].wh = NoWarehouse THEN "choose" ELSE "assert"
      BY <1>0, <2>1, ItemsType DEF Transaction, PcNames, LockNames
    <2> HIDE DEF t
    <2>4. WellFormed(t)
      BY <1>0, <2>2, <2>3 DEF Transaction, WellFormed, OrderHandlers, Shippers
    <2>5. HoldsClaim(t) /\ ClaimStillTrue(t)
      BY <2>2, <2>3 DEF HoldsClaim, ClaimStillTrue, Shippers, Closers
    <2> QED
      BY <2>2, <2>3, <2>4, <2>5, ReadStep
  <1>3. CASE ApproveCommit(w)
    <2>1. /\ tx[w].op = "approve" /\ tx[w].pc \in {"lock", "assert"}
          /\ End(w) /\ inv' = Published(w) /\ UNCHANGED <<box, received>>
      BY <1>3 DEF ApproveCommit, At
    <2>2. PICK o \in Orders : o = tx[w].doc
      BY <1>0, <2>1 DEF WellFormed, OrderHandlers
    <2> DEFINE n == [status |-> "APPROVED", deleted |-> FALSE, wh |-> tx[w].wh]
               m == [status |-> "PENDING", wh |-> tx[w].wh]
    <2>3. /\ tx[w].wh \in Warehouses
          /\ order[o].status = "PENDING" /\ ~order[o].deleted /\ out[o].status = "NONE"
          /\ OrderRow(o) \in tx[w].locks
      BY <1>0, <1>3, <2>1, <2>2 DEF WellFormed, ClaimStillTrue, HoldsClaim, ApproveCommit
    <2>4. /\ n \in OrderRec /\ m \in OutRec
          /\ order' = [order EXCEPT ![o] = n] /\ out' = [out EXCEPT ![o] = m]
      BY <1>3, <2>2, <2>3 DEF OrderRec, OrderStatus, OutRec, OutStatus, ApproveCommit, SetOrder
    <2>5. inv' \in [InvRows -> InvRec] /\ box' \in [Stores -> BoxRec] /\ received' = received
      BY <1>0, <2>1, PublishedType DEF TypeOK
    <2>6. order'[o] = n /\ out'[o] = m
      BY <1>0, <2>4 DEF TypeOK
    <2>7. HolderIsOpen(o)' /\ RowConsistent(o)' /\ m.status = StockOutStatusOf(n.status)
      BY <2>3, <2>6, OrderStockAssumption DEF HolderIsOpen, RowConsistent, StockOutStatusOf
    <2>8. Active(o)
      BY <2>3 DEF Active, ACTIVE_ORDER_STATUSES
    <2> HIDE DEF n, m
    <2> QED
      BY <2>1, <2>3, <2>4, <2>5, <2>7, <2>8, HeldIsFree, MoveStep
  <1> QED
    BY <1>1, <1>2, <1>3 DEF Approve

\* Rejection, the store's revocation and the deletion keep the invariant.
LEMMA CloseStep ==
  ASSUME OrderInv, NEW w \in Workers, Close(w)
  PROVE  OrderInv'
  <1>0. /\ TypeOK /\ tx[w] \in Transaction
        /\ WellFormed(tx[w]) /\ HoldsClaim(tx[w]) /\ ClaimStillTrue(tx[w])
    BY WorkerFacts
  <1>1. ASSUME NEW o \in Orders, RejectRead(w, o) \/ RevokeRead(w, o) \/ DeleteRead(w, o)
        PROVE  OrderInv'
    <2>1. order[o].wh \in Warehouses \cup {NoWarehouse}
      BY <1>0 DEF TypeOK, OrderRec
    <2>2. CASE RejectRead(w, o)
      BY <2>1, <2>2, BeginStep DEF RejectRead, OrderHandlers, OrderStatus, Shippers, Closers
    <2>3. CASE RevokeRead(w, o)
      BY <2>1, <2>3, BeginStep DEF RevokeRead, OrderHandlers, OrderStatus, Shippers, Closers
    <2>4. CASE DeleteRead(w, o)
      BY <2>1, <2>4, BeginStep DEF DeleteRead, OrderHandlers, OrderStatus, Shippers, Closers
    <2> QED
      BY <1>1, <2>2, <2>3, <2>4
  <1>2. CASE CloseClaim(w)
    <2>1. PICK o \in Orders : o = tx[w].doc
      BY <1>0, <1>2 DEF CloseClaim, WellFormed, OrderHandlers
    <2> DEFINE t == [tx[w] EXCEPT !.locks = @ \cup {OrderRow(o)}, !.pc = "release",
                                  !.todo = IF tx[w].wh = NoWarehouse THEN {} ELSE Items(o)]
    <2>2. /\ Continue(w, t) /\ UNCHANGED rows /\ Free(w, OrderRow(o)) /\ tx[w].op \in Closers
          /\ order[o].status = tx[w].seen /\ ~order[o].deleted
      BY <1>2, <2>1 DEF CloseClaim, Closers
    <2>3. /\ t \in Transaction
          /\ \A lock \in t.locks : lock \in tx[w].locks \/ lock = OrderRow(o)
          /\ OrderRow(o) \in t.locks /\ t.op = tx[w].op /\ t.doc = o /\ t.wh = tx[w].wh
          /\ t.seen = tx[w].seen /\ t.pc = "release"
          /\ t.wh \in Warehouses \/ t.todo = {}
      BY <1>0, <2>1, ItemsType DEF Transaction, PcNames, LockNames
    <2> HIDE DEF t
    <2>4. WellFormed(t)
      BY <1>0, <2>2, <2>3 DEF WellFormed, OrderHandlers, Shippers, Closers
    <2>5. HoldsClaim(t) /\ ClaimStillTrue(t)
      BY <1>0, <2>2, <2>3 DEF HoldsClaim, ClaimStillTrue, Shippers, Closers
    <2> QED
      BY <2>2, <2>3, <2>4, <2>5, ReadStep DEF Closers
  <1>3. ASSUME NEW o \in Orders, o = tx[w].doc,
               tx[w].op \in Closers, tx[w].pc = "release", NEW n \in OrderRec,
               order' = [order EXCEPT ![o] = n],
               n = [status |-> "REJECTED", deleted |-> FALSE, wh |-> NoWarehouse]
                 \/ n = [status |-> order[o].status, deleted |-> TRUE, wh |-> NoWarehouse],
               inv' = Published(w), End(w), UNCHANGED <<out, box, received>>
        PROVE  OrderInv'
    <2>1. /\ order[o].status \in {"PENDING", "REJECTED"} /\ ~order[o].deleted
          /\ OrderRow(o) \in tx[w].locks
      BY <1>0, <1>3 DEF ClaimStillTrue, HoldsClaim
    <2>2. out[o].status = "NONE" /\ out[o] \in OutRec /\ out' = [out EXCEPT ![o] = out[o]]
      BY <1>0, <1>3, <2>1 DEF TypeOK, OrderInv, OrderMatchesStockOut, StockOutStatusOf
    <2>3. inv' \in [InvRows -> InvRec] /\ box' \in [Stores -> BoxRec] /\ received' = received
      BY <1>0, <1>3, PublishedType DEF TypeOK
    <2>4. order'[o] = n /\ out'[o] = out[o]
      BY <1>0, <1>3, <2>2 DEF TypeOK
    <2>5. HolderIsOpen(o)' /\ RowConsistent(o)' /\ out[o].status = StockOutStatusOf(n.status)
      BY <1>3, <2>1, <2>2, <2>4 DEF HolderIsOpen, RowConsistent, StockOutStatusOf
    <2>6. ~(n.status \in ACTIVE_ORDER_STATUSES /\ ~n.deleted)
      BY <1>3 DEF ACTIVE_ORDER_STATUSES
    <2> QED
      BY <1>3, <2>1, <2>2, <2>3, <2>5, <2>6, HeldIsFree, MoveStep
  <1>4. CASE RejectCommit(w)
    <2>1. tx[w].op = "reject" /\ tx[w].doc \in Orders
      BY <1>0, <1>4 DEF RejectCommit, At, WellFormed, OrderHandlers
    <2>2. [status |-> "REJECTED", deleted |-> FALSE, wh |-> NoWarehouse] \in OrderRec
      BY DEF OrderRec, OrderStatus
    <2> QED
      BY <1>3, <1>4, <2>1, <2>2 DEF RejectCommit, At, SetOrder, Closers
  <1>5. CASE DeleteCommit(w)
    <2>1. tx[w].op \in {"revoke", "delete"} /\ tx[w].pc = "release"
      BY <1>5 DEF DeleteCommit, At
    <2>2. PICK o \in Orders : o = tx[w].doc
      BY <1>0, <2>1 DEF WellFormed, OrderHandlers
    <2>3. [status |-> order[o].status, deleted |-> TRUE, wh |-> NoWarehouse] \in OrderRec
      BY <1>0 DEF TypeOK, OrderRec
    <2> QED
      BY <1>3, <1>5, <2>1, <2>2, <2>3 DEF DeleteCommit, SetOrder, Closers
  <1> QED
    BY <1>1, <1>2, <1>4, <1>5 DEF Close

\* The warehouse of a stock-out document that exists.
LEMMA StockOutWarehouse ==
  ASSUME OrderInv, NEW o \in Orders, out[o].status # "NONE"
  PROVE  out[o].wh \in Warehouses
  BY DEF OrderInv, RowConsistent

\* The claim of a stock-out that complete and cancel begin with.
LEMMA ClaimStockOut ==
  ASSUME OrderInv, NEW w \in Workers, NEW o \in Orders, o = tx[w].doc,
         tx[w].op \in Shippers, NEW pc \in {"ship", "release"},
         Continue(w, [tx[w] EXCEPT !.locks = @ \cup {OutRow(o)}, !.todo = Items(o), !.pc = pc]),
         UNCHANGED rows, Free(w, OutRow(o)), out[o].status = "PENDING"
  PROVE  OrderInv'
  <1>0. /\ TypeOK /\ tx[w] \in Transaction
        /\ WellFormed(tx[w]) /\ HoldsClaim(tx[w]) /\ ClaimStillTrue(tx[w])
    BY WorkerFacts
  <1> DEFINE t == [tx[w] EXCEPT !.locks = @ \cup {OutRow(o)}, !.todo = Items(o), !.pc = pc]
  <1>1. /\ t \in Transaction
        /\ \A lock \in t.locks : lock \in tx[w].locks \/ lock = OutRow(o)
        /\ OutRow(o) \in t.locks /\ t.op = tx[w].op /\ t.doc = o /\ t.wh = tx[w].wh /\ t.pc = pc
    BY <1>0, ItemsType DEF Transaction, PcNames, LockNames
  <1>2. Continue(w, t)
    OBVIOUS
  <1> HIDE DEF t
  <1>3. WellFormed(t)
    BY <1>0, <1>1 DEF WellFormed, OrderHandlers, Shippers
  <1>4. HoldsClaim(t) /\ ClaimStillTrue(t)
    BY <1>1 DEF HoldsClaim, ClaimStillTrue, Shippers, Closers
  <1> QED
    BY <1>1, <1>2, <1>3, <1>4, ReadStep DEF Shippers

\* StockOutService.complete keeps the invariant: it does not check the
\* order again, its claim of the stock-out stands for that.
LEMMA ShipStep ==
  ASSUME OrderInv, NEW w \in Workers, Ship(w)
  PROVE  OrderInv'
  <1>0. /\ TypeOK /\ tx[w] \in Transaction
        /\ WellFormed(tx[w]) /\ HoldsClaim(tx[w]) /\ ClaimStillTrue(tx[w])
    BY WorkerFacts
  <1>1. ASSUME NEW o \in Orders, ShipRead(w, o)
        PROVE  OrderInv'
    <2>1. out[o].wh \in Warehouses
      BY <1>1, StockOutWarehouse DEF ShipRead
    <2> QED
      BY <1>1, <2>1, BeginStep DEF ShipRead, OrderHandlers, OrderStatus, Shippers, Closers
  <1>2. CASE ShipClaim(w)
    <2>1. tx[w].op = "complete" /\ tx[w].doc \in Orders
      BY <1>0, <1>2 DEF ShipClaim, At, WellFormed, OrderHandlers
    <2> QED
      BY <1>2, <2>1, ClaimStockOut DEF ShipClaim, Shippers
  <1>3. CASE ShipCheckItem(w)
    <2>1. PICK g \in tx[w].todo : Continue(w, [tx[w] EXCEPT !.item = g])
      BY <1>3 DEF ShipCheckItem
    <2> DEFINE t == [tx[w] EXCEPT !.item = g]
    <2>2. /\ t \in Transaction
          /\ t.op = tx[w].op /\ t.pc = tx[w].pc /\ t.doc = tx[w].doc /\ t.seen = tx[w].seen
          /\ t.wh = tx[w].wh /\ t.locks = tx[w].locks /\ t.todo = tx[w].todo
      BY <1>0 DEF Transaction
    <2>3. tx[w].op = "complete" /\ UNCHANGED rows /\ Continue(w, t)
      BY <1>3, <2>1 DEF ShipCheckItem, At
    <2> HIDE DEF t
    <2>4. WellFormed(t) /\ HoldsClaim(t) /\ ClaimStillTrue(t)
      BY <1>0, <2>2, <2>3 DEF WellFormed, HoldsClaim, ClaimStillTrue
    <2> QED
      BY <2>2, <2>3, <2>4, ReadStep
  <1>4. CASE ShipItem(w)
    <2> DEFINE g == tx[w].item
               r == <<tx[w].wh, g>>
               q == Demand[tx[w].doc][g]
               value == Shipping(Seen(w, r), q)
    <2>1. tx[w].op = "complete" /\ g \in Goods
      BY <1>0, <1>4 DEF ShipItem, At, Transaction
    <2>2. r \in InvRows /\ q \in Nat
      BY <1>0, <2>1, InvRowType, DemandType DEF WellFormed, OrderHandlers, Shippers
    <2>3. WriteItem(w, g, r, value) /\ UNCHANGED rows
      BY <1>4 DEF ShipItem
    <2> HIDE DEF g, r, q
    <2>4. Seen(w, r) \in InvRec
      BY <1>0, <2>2, SeenType
    <2>5. value \in InvRec
      BY <2>2, <2>4, UpdateTypes
    <2> QED
      BY <2>1, <2>2, <2>3, <2>5, WriteItemStep
  <1>5. CASE ShipCommit(w)
    <2>1. /\ tx[w].op = "complete" /\ tx[w].pc = "ship"
          /\ End(w) /\ inv' = Published(w) /\ received' = received
      BY <1>5 DEF ShipCommit, At
    <2>2. PICK o \in Orders : o = tx[w].doc
      BY <1>0, <2>1 DEF WellFormed, OrderHandlers
    <2> DEFINE n == [order[o] EXCEPT !.status = "PROCESSING", !.wh = NoWarehouse]
               m == [out[o] EXCEPT !.status = "COMPLETED"]
    <2>3. /\ Free(w, OrderRow(o)) /\ OutRow(o) \in tx[w].locks
          /\ out[o].status = "PENDING"
          /\ order' = [order EXCEPT ![o] = n] /\ out' = [out EXCEPT ![o] = m]
      BY <1>0, <1>5, <2>1, <2>2 DEF HoldsClaim, ClaimStillTrue, Shippers, ShipCommit
    <2>4. order[o].status = "APPROVED" /\ ~order[o].deleted
      BY <1>0, <2>3 DEF OrderInv, OrderMatchesStockOut, StockOutStatusOf, TypeOK, OrderRec,
                        OrderStatus, RowConsistent
    <2>5. /\ n \in OrderRec /\ n.status = "PROCESSING" /\ n.wh = NoWarehouse /\ ~n.deleted
          /\ m \in OutRec /\ m.status = "COMPLETED" /\ m.wh \in Warehouses
      BY <1>0, <2>3, <2>4, StockOutWarehouse DEF TypeOK, OrderRec, OrderStatus, OutRec, OutStatus
    <2>6. inv' \in [InvRows -> InvRec]
      BY <1>0, <2>1, PublishedType
    <2>7. box' \in [Stores -> BoxRec]
      <3> DEFINE s == StoreOf[o]
                 b == [box[s] EXCEPT !.borrowed = @ + Boxes[o], !.current = @ + Boxes[o]]
                 borrowed == box[s].borrowed + Boxes[o]
                 current == box[s].current + Boxes[o]
      <3>1. s \in Stores /\ Boxes[o] \in Nat /\ box[s] \in BoxRec
        BY <1>0, OrderStockAssumption DEF TypeOK
      <3>2. borrowed \in Int /\ current \in Int
        BY <3>1 DEF BoxRec
      <3>3. b = [box[s] EXCEPT !.borrowed = borrowed, !.current = current]
        OBVIOUS
      <3>4. box' = [box EXCEPT ![s] = b]
        BY <1>5, <2>2 DEF ShipCommit, Borrow
      <3> HIDE DEF s, b, borrowed, current
      <3>5. b \in BoxRec
        BY <3>1, <3>2, <3>3 DEF BoxRec
      <3> QED
        BY <1>0, <3>1, <3>4, <3>5 DEF TypeOK
    <2> HIDE DEF n, m
    <2>8. order'[o] = n /\ out'[o] = m
      BY <1>0, <2>3 DEF TypeOK
    <2>9. HolderIsOpen(o)' /\ RowConsistent(o)' /\ m.status = StockOutStatusOf(n.status)
      BY <2>5, <2>8, OrderStockAssumption DEF HolderIsOpen, RowConsistent, StockOutStatusOf
    <2>10. Active(o)
      BY <2>4 DEF Active, ACTIVE_ORDER_STATUSES
    <2> QED
      BY <2>1, <2>3, <2>4, <2>5, <2>6, <2>7, <2>9, <2>10, HeldIsFree, MoveStep
  <1> QED
    BY <1>1, <1>2, <1>3, <1>4, <1>5 DEF Ship

\* StockOutService.cancel keeps the invariant.
LEMMA CancelStep ==
  ASSUME OrderInv, NEW w \in Workers, Cancel(w)
  PROVE  OrderInv'
  <1>0. /\ TypeOK /\ tx[w] \in Transaction
        /\ WellFormed(tx[w]) /\ HoldsClaim(tx[w]) /\ ClaimStillTrue(tx[w])
    BY WorkerFacts
  <1>1. ASSUME NEW o \in Orders, CancelRead(w, o)
        PROVE  OrderInv'
    <2>1. out[o].wh \in Warehouses
      BY <1>1, StockOutWarehouse DEF CancelRead
    <2> QED
      BY <1>1, <2>1, BeginStep DEF CancelRead, OrderHandlers, OrderStatus, Shippers, Closers
  <1>2. CASE CancelClaim(w)
    <2>1. tx[w].op = "cancel" /\ tx[w].doc \in Orders
      BY <1>0, <1>2 DEF CancelClaim, At, WellFormed, OrderHandlers
    <2> QED
      BY <1>2, <2>1, ClaimStockOut DEF CancelClaim, Shippers
  <1>3. CASE CancelCommit(w)
    <2>1. /\ tx[w].op = "cancel" /\ tx[w].pc = "release"
          /\ End(w) /\ inv' = Published(w) /\ UNCHANGED <<box, received>>
      BY <1>3 DEF CancelCommit, At
    <2>2. PICK o \in Orders : o = tx[w].doc
      BY <1>0, <2>1 DEF WellFormed, OrderHandlers
    <2> DEFINE n == [status |-> "CANCELLED", deleted |-> FALSE, wh |-> NoWarehouse]
               m == [out[o] EXCEPT !.status = "CANCELLED"]
    <2>3. /\ Free(w, OrderRow(o)) /\ OutRow(o) \in tx[w].locks
          /\ out[o].status = "PENDING" /\ order[o].status = "APPROVED"
          /\ order' = [order EXCEPT ![o] = n] /\ out' = [out EXCEPT ![o] = m]
      BY <1>0, <1>3, <2>1, <2>2 DEF HoldsClaim, ClaimStillTrue, Shippers, CancelCommit, SetOrder
    <2>4. /\ n \in OrderRec
          /\ m \in OutRec /\ m.status = "CANCELLED" /\ m.wh \in Warehouses
      BY <1>0, <2>3, StockOutWarehouse DEF TypeOK, OrderRec, OrderStatus, OutRec, OutStatus
    <2>5. inv' \in [InvRows -> InvRec] /\ box' \in [Stores -> BoxRec] /\ received' = received
      BY <1>0, <2>1, PublishedType DEF TypeOK
    <2> HIDE DEF m
    <2>6. order'[o] = n /\ out'[o] = m
      BY <1>0, <2>3 DEF TypeOK
    <2>7. HolderIsOpen(o)' /\ RowConsistent(o)' /\ m.status = StockOutStatusOf(n.status)
      BY <2>4, <2>6 DEF HolderIsOpen, RowConsistent, StockOutStatusOf
    <2>8. ~(n.status \in ACTIVE_ORDER_STATUSES)
      BY DEF ACTIVE_ORDER_STATUSES
    <2> QED
      BY <2>1, <2>3, <2>4, <2>5, <2>7, <2>8, HeldIsFree, MoveStep
  <1> QED
    BY <1>1, <1>2, <1>3 DEF Cancel

\* OrderService.confirmReceipt keeps the invariant.
LEMMA ConfirmStep ==
  ASSUME OrderInv, NEW w \in Workers, Confirm(w)
  PROVE  OrderInv'
  <1>0. /\ TypeOK /\ tx[w] \in Transaction
        /\ WellFormed(tx[w]) /\ HoldsClaim(tx[w]) /\ ClaimStillTrue(tx[w])
    BY WorkerFacts
  <1>1. ASSUME NEW o \in Orders, ConfirmRead(w, o)
        PROVE  OrderInv'
    BY <1>1, BeginStep DEF ConfirmRead, OrderHandlers, OrderStatus, Shippers, Closers
  <1>2. CASE ConfirmCommit(w)
    <2>1. tx[w].op = "confirmReceipt" /\ End(w) /\ UNCHANGED <<out, inv, box, received>>
      BY <1>2 DEF ConfirmCommit, At
    <2>2. PICK o \in Orders : o = tx[w].doc
      BY <1>0, <2>1 DEF WellFormed, OrderHandlers
    <2> DEFINE n == [order[o] EXCEPT !.status = "COMPLETED"]
    <2>3. /\ Free(w, OrderRow(o)) /\ out[o].status = "COMPLETED"
          /\ order[o].status = "PROCESSING" /\ ~order[o].deleted
          /\ order' = [order EXCEPT ![o] = n]
      BY <1>2, <2>2 DEF ConfirmCommit
    <2>4. out[o] \in OutRec /\ out' = [out EXCEPT ![o] = out[o]] /\ out[o].wh \in Warehouses
      BY <1>0, <2>1, <2>3, StockOutWarehouse DEF TypeOK
    <2>5. order[o].wh = NoWarehouse
      BY <2>3 DEF OrderInv, HoldersAreOpen, HolderIsOpen
    <2>6. n \in OrderRec /\ n.status = "COMPLETED" /\ n.wh = NoWarehouse /\ ~n.deleted
      BY <1>0, <2>3, <2>5 DEF TypeOK, OrderRec, OrderStatus
    <2>7. inv' \in [InvRows -> InvRec] /\ box' \in [Stores -> BoxRec] /\ received' = received
      BY <1>0, <2>1 DEF TypeOK
    <2> HIDE DEF n
    <2>8. order'[o] = n /\ out'[o] = out[o]
      BY <1>0, <2>3, <2>4 DEF TypeOK
    <2>9. HolderIsOpen(o)' /\ RowConsistent(o)' /\ out[o].status = StockOutStatusOf(n.status)
      BY <2>3, <2>4, <2>6, <2>8 DEF HolderIsOpen, RowConsistent, StockOutStatusOf
    <2>10. ~(n.status \in ACTIVE_ORDER_STATUSES)
      BY <2>6 DEF ACTIVE_ORDER_STATUSES
    <2> QED
      BY <2>1, <2>3, <2>4, <2>6, <2>7, <2>9, <2>10, MoveStep
  <1> QED
    BY <1>1, <1>2 DEF Confirm

\* OrderRevocationService.revokeOrder keeps the invariant, although it
\* claims neither row: a second revocation finds both cancelled already.
LEMMA UndoStep ==
  ASSUME OrderInv, NEW w \in Workers, Undo(w)
  PROVE  OrderInv'
  <1>0. /\ TypeOK /\ tx[w] \in Transaction
        /\ WellFormed(tx[w]) /\ HoldsClaim(tx[w]) /\ ClaimStillTrue(tx[w])
    BY WorkerFacts
  <1>1. ASSUME NEW o \in Orders, UndoRead(w, o)
        PROVE  OrderInv'
    BY <1>1, BeginStep DEF UndoRead, OrderHandlers, OrderStatus, Shippers, Closers
  <1>2. CASE UndoReadOut(w)
    <2>1. PICK o \in Orders : o = tx[w].doc
      BY <1>0, <1>2 DEF UndoReadOut, At, WellFormed, OrderHandlers
    <2> DEFINE t == [tx[w] EXCEPT !.pc = "claim", !.wh = out[o].wh]
    <2>2. /\ Continue(w, t) /\ UNCHANGED rows
          /\ tx[w].op = "revocation" /\ out[o].wh \in Warehouses
      BY <1>2, <2>1, StockOutWarehouse DEF UndoReadOut, At
    <2>3. /\ t \in Transaction
          /\ t.op = tx[w].op /\ t.doc = o /\ t.locks = tx[w].locks /\ t.pc = "claim"
          /\ t.wh \in Warehouses
      BY <1>0, <2>1, <2>2 DEF Transaction, PcNames
    <2> HIDE DEF t
    <2>4. WellFormed(t) /\ HoldsClaim(t) /\ ClaimStillTrue(t)
      BY <1>0, <2>1, <2>2, <2>3
      DEF WellFormed, HoldsClaim, ClaimStillTrue, OrderHandlers, Shippers, Closers
    <2> QED
      BY <2>2, <2>3, <2>4, ReadStep
  <1>3. CASE UndoUpdate(w)
    <2>1. PICK o \in Orders : o = tx[w].doc
      BY <1>0, <1>3 DEF UndoUpdate, At, WellFormed, OrderHandlers
    <2> DEFINE t == [tx[w] EXCEPT !.locks = @ \cup {OrderRow(o), OutRow(o)},
                                  !.todo = Items(o), !.pc = "restore"]
    <2>2. /\ Continue(w, t) /\ UNCHANGED rows /\ Free(w, OrderRow(o)) /\ Free(w, OutRow(o))
          /\ tx[w].op = "revocation" /\ tx[w].pc = "claim"
      BY <1>3, <2>1 DEF UndoUpdate, At
    <2>3. /\ t \in Transaction
          /\ \A lock \in t.locks : lock \in tx[w].locks \/ lock = OrderRow(o) \/ lock = OutRow(o)
          /\ OrderRow(o) \in t.locks /\ OutRow(o) \in t.locks
          /\ t.op = tx[w].op /\ t.doc = o /\ t.wh = tx[w].wh /\ t.pc = "restore"
      BY <1>0, <2>1, ItemsType DEF Transaction, PcNames, LockNames
    <2> HIDE DEF t
    <2>4. WellFormed(t) /\ HoldsClaim(t) /\ ClaimStillTrue(t)
      BY <1>0, <2>1, <2>2, <2>3
      DEF WellFormed, HoldsClaim, ClaimStillTrue, OrderHandlers, Shippers, Closers
    <2> QED
      BY <2>2, <2>3, <2>4, ReadStep
  <1>4. CASE UndoItem(w)
    <2>1. PICK g \in tx[w].todo :
            LET r == <<tx[w].wh, g>>  q == Demand[tx[w].doc][g]
            IN  WriteItem(w, g, r, Adding(Seen(w, r), q))
      BY <1>4 DEF UndoItem
    <2> DEFINE r == <<tx[w].wh, g>>
               q == Demand[tx[w].doc][g]
               value == Adding(Seen(w, r), q)
    <2>2. g \in Goods /\ r \in InvRows /\ q \in Nat /\ tx[w].op # "adjustStock"
      BY <1>0, <1>4, InvRowType, DemandType DEF UndoItem, At, WellFormed, Transaction, OrderHandlers
    <2>3. WriteItem(w, g, r, value)
      BY <2>1
    <2> HIDE DEF r, q
    <2>4. Seen(w, r) \in InvRec
      BY <1>0, <2>2, SeenType
    <2>5. value \in InvRec
      BY <2>2, <2>4, UpdateTypes
    <2>6. UNCHANGED rows
      BY <1>4 DEF UndoItem
    <2> QED
      BY <2>2, <2>3, <2>5, <2>6, WriteItemStep
  <1>5. CASE UndoCheckBoxes(w)
    <2> DEFINE t == [tx[w] EXCEPT !.pc = "boxes"]
    <2>1. Continue(w, t) /\ UNCHANGED rows /\ tx[w].op = "revocation" /\ tx[w].pc = "restore"
      BY <1>5 DEF UndoCheckBoxes, At
    <2>2. /\ t \in Transaction
          /\ t.op = tx[w].op /\ t.doc = tx[w].doc /\ t.locks = tx[w].locks /\ t.pc = "boxes"
          /\ t.wh = tx[w].wh
      BY <1>0 DEF Transaction, PcNames
    <2> HIDE DEF t
    <2>3. WellFormed(t) /\ HoldsClaim(t) /\ ClaimStillTrue(t)
      BY <1>0, <2>1, <2>2
      DEF WellFormed, HoldsClaim, ClaimStillTrue, OrderHandlers, Shippers, Closers
    <2> QED
      BY <2>1, <2>2, <2>3, ReadStep
  <1>6. CASE UndoCommit(w)
    <2>1. /\ tx[w].op = "revocation" /\ tx[w].pc = "boxes"
          /\ End(w) /\ inv' = Published(w) /\ received' = received
      BY <1>6 DEF UndoCommit, At
    <2>2. PICK o \in Orders : o = tx[w].doc
      BY <1>0, <2>1 DEF WellFormed, OrderHandlers
    <2> DEFINE n == [order[o] EXCEPT !.status = "CANCELLED"]
               m == [out[o] EXCEPT !.status = "CANCELLED"]
    <2>3. /\ OrderRow(o) \in tx[w].locks /\ OutRow(o) \in tx[w].locks
          /\ order[o].status \in {"COMPLETED", "CANCELLED"}
          /\ order' = [order EXCEPT ![o] = n] /\ out' = [out EXCEPT ![o] = m]
      BY <1>0, <1>6, <2>1, <2>2 DEF HoldsClaim, ClaimStillTrue, UndoCommit
    <2>4. /\ order[o].wh = NoWarehouse /\ ~order[o].deleted
          /\ out[o].status # "NONE" /\ out[o].status # "PENDING"
      BY <2>3 DEF OrderInv, HoldersAreOpen, HolderIsOpen, RowConsistent, OrderMatchesStockOut,
                  StockOutStatusOf
    <2>5. /\ n \in OrderRec /\ n.status = "CANCELLED" /\ n.wh = NoWarehouse /\ ~n.deleted
          /\ m \in OutRec /\ m.status = "CANCELLED" /\ m.wh \in Warehouses
      BY <1>0, <2>4, StockOutWarehouse DEF TypeOK, OrderRec, OrderStatus, OutRec, OutStatus
    <2>6. inv' \in [InvRows -> InvRec]
      BY <1>0, <2>1, PublishedType
    <2>7. box' \in [Stores -> BoxRec]
      <3> DEFINE s == StoreOf[o]
                 b == [box[s] EXCEPT !.returned = @ + Boxes[o], !.current = @ - Boxes[o]]
                 returned == box[s].returned + Boxes[o]
                 current == box[s].current - Boxes[o]
      <3>1. s \in Stores /\ Boxes[o] \in Nat /\ box[s] \in BoxRec
        BY <1>0, OrderStockAssumption DEF TypeOK
      <3>2. returned \in Int /\ current \in Int
        BY <3>1 DEF BoxRec
      <3>3. b = [box[s] EXCEPT !.returned = returned, !.current = current]
        OBVIOUS
      <3>4. box' = [box EXCEPT ![s] = b]
        BY <1>6, <2>2 DEF UndoCommit
      <3> HIDE DEF s, b, returned, current
      <3>5. b \in BoxRec
        BY <3>1, <3>2, <3>3 DEF BoxRec
      <3> QED
        BY <1>0, <3>1, <3>4, <3>5 DEF TypeOK
    <2> HIDE DEF n, m
    <2>8. order'[o] = n /\ out'[o] = m
      BY <1>0, <2>3 DEF TypeOK
    <2>9. HolderIsOpen(o)' /\ RowConsistent(o)' /\ m.status = StockOutStatusOf(n.status)
      BY <2>5, <2>8 DEF HolderIsOpen, RowConsistent, StockOutStatusOf
    <2>10. ~(n.status \in ACTIVE_ORDER_STATUSES)
      BY <2>5 DEF ACTIVE_ORDER_STATUSES
    <2> QED
      BY <2>1, <2>3, <2>4, <2>5, <2>6, <2>7, <2>9, <2>10, HeldIsFree, MoveStep
  <1> QED
    BY <1>1, <1>2, <1>3, <1>4, <1>5, <1>6 DEF Undo

\* The end of a transaction that wrote neither an order nor a stock-out.
LEMMA EndStep ==
  ASSUME OrderInv, NEW w \in Workers, End(w), UNCHANGED <<order, out, box>>,
         inv' \in [InvRows -> InvRec], received' \subseteq StockIns
  PROVE  OrderInv'
  <1>1. WellFormed(Idle) /\ HoldsClaim(Idle) /\ ClaimStillTrue(Idle)
    BY DEF WellFormed, HoldsClaim, ClaimStillTrue, Idle, OrderHandlers, Shippers, Closers
  <1>2. Idle.locks = {} /\ Idle.op = "idle"
    BY DEF Idle
  <1> QED
    BY <1>1, <1>2, IdleType, StatementStep DEF End

\* InventoryService.adjustStock keeps the invariant of the orders.
LEMMA AdjustStep ==
  ASSUME OrderInv, NEW w \in Workers, Adjust(w)
  PROVE  OrderInv'
  <1>0. /\ TypeOK /\ tx[w] \in Transaction
        /\ WellFormed(tx[w]) /\ HoldsClaim(tx[w]) /\ ClaimStillTrue(tx[w])
    BY WorkerFacts
  <1>1. ASSUME NEW r \in InvRows, NEW n \in AdjustTo, AdjustRead(w, r, n)
        PROVE  OrderInv'
    <2> DEFINE a == inv[r].avail + n - inv[r].qty
               plan == [inv[r] EXCEPT !.qty = n, !.avail = a]
               t == [Idle EXCEPT !.op = "adjustStock", !.pc = "claim", !.wh = r[1], !.item = r[2],
                                 !.plan = plan]
    <2>1. r[1] \in Warehouses /\ r[2] \in Goods /\ inv[r] \in InvRec /\ n \in Int
      BY <1>0, OrderStockAssumption DEF InvRows, TypeOK
    <2>2. a \in Int
      BY <2>1 DEF InvRec
    <2>3. Continue(w, t) /\ UNCHANGED rows
      BY <1>1 DEF AdjustRead
    <2> HIDE DEF a
    <2>4. plan \in InvRec
      BY <2>1, <2>2 DEF InvRec
    <2> HIDE DEF plan
    <2>5. /\ t \in Transaction
          /\ t.op = "adjustStock" /\ t.pc = "claim" /\ t.wh = r[1] /\ t.item = r[2]
          /\ t.plan = plan /\ t.locks = {}
      BY <2>1, <2>4, IdleType DEF Transaction, OpNames, PcNames, Idle
    <2> HIDE DEF t
    <2>6. WellFormed(t) /\ HoldsClaim(t) /\ ClaimStillTrue(t)
      BY <2>1, <2>4, <2>5
      DEF WellFormed, HoldsClaim, ClaimStillTrue, OrderHandlers, Shippers, Closers
    <2> QED
      BY <2>3, <2>5, <2>6, ReadStep
  <1>2. CASE AdjustCommit(w)
    <2> DEFINE r == <<tx[w].wh, tx[w].item>>
               plan == tx[w].plan
               x == Seen(w, r)
               value == [x EXCEPT !.qty = plan.qty, !.avail = plan.avail]
    <2>1. /\ tx[w].op = "adjustStock" /\ End(w) /\ UNCHANGED <<order, out, box, received>>
          /\ inv' = [inv EXCEPT ![r] = value]
      BY <1>2 DEF AdjustCommit, At, Overwrite
    <2>2. r \in InvRows /\ plan \in InvRec
      BY <1>0, <2>1, InvRowType DEF WellFormed
    <2> HIDE DEF r, plan
    <2>3. x \in InvRec
      BY <1>0, <2>2, SeenType
    <2> HIDE DEF x
    <2>4. value \in InvRec
      BY <2>2, <2>3 DEF InvRec
    <2> HIDE DEF value
    <2>5. inv' \in [InvRows -> InvRec] /\ received' \subseteq StockIns
      BY <1>0, <2>1, <2>2, <2>4 DEF TypeOK
    <2> QED
      BY <2>1, <2>5, EndStep
  <1> QED
    BY <1>1, <1>2 DEF Adjust

\* An advisory key is a lock.
LEMMA KeyLockType == \A h \in Warehouses, g \in Goods : KeyLock(h, g) \in LockNames
  <1> SUFFICES ASSUME NEW h \in Warehouses, NEW g \in Goods
               PROVE  KeyLock(h, g) \in LockNames
    OBVIOUS
  <1>1. KeyLock(h, g) = KeyLock(<<h, g>>[1], <<h, g>>[2])
    OBVIOUS
  <1> QED
    BY <1>1, InvRowType DEF LockNames

\* StockInService.complete keeps the invariant of the orders.
LEMMA StockInStep ==
  ASSUME OrderInv, NEW w \in Workers, StockIn(w)
  PROVE  OrderInv'
  <1>0. /\ TypeOK /\ tx[w] \in Transaction
        /\ WellFormed(tx[w]) /\ HoldsClaim(tx[w]) /\ ClaimStillTrue(tx[w])
    BY WorkerFacts
  <1>1. ASSUME NEW d \in StockIns, StockInRead(w, d)
        PROVE  OrderInv'
    <2>1. Receipt[d].wh \in Warehouses
      BY ReceiptType
    <2>2. "APPROVED" \in OrderStatus
      BY DEF OrderStatus
    <2>3. Begin(w, "stockIn", "claim", d, "APPROVED", Receipt[d].wh) /\ UNCHANGED rows
      BY <1>1 DEF StockInRead
    <2> QED
      BY <2>1, <2>2, <2>3, BeginStep DEF OrderHandlers, Shippers, Closers
  <1>2. CASE StockInClaim(w)
    <2> DEFINE row == InRow(tx[w].doc)
               t == [tx[w] EXCEPT !.locks = @ \cup {row}, !.pc = "keys"]
    <2>1. tx[w].op = "stockIn" /\ Continue(w, t) /\ UNCHANGED rows /\ Free(w, row)
      BY <1>2 DEF StockInClaim, At
    <2>2. row \in LockNames
      BY <1>0, <2>1 DEF WellFormed, LockNames
    <2> HIDE DEF row
    <2>3. /\ t \in Transaction /\ \A lock \in t.locks : lock \in tx[w].locks \/ lock = row
          /\ t.op = tx[w].op /\ t.doc = tx[w].doc /\ t.wh = tx[w].wh /\ t.item = tx[w].item
          /\ t.plan = tx[w].plan /\ t.pc = "keys"
      BY <1>0, <2>2 DEF Transaction, PcNames
    <2> HIDE DEF t
    <2>4. WellFormed(t) /\ HoldsClaim(t) /\ ClaimStillTrue(t)
      BY <1>0, <2>1, <2>3
      DEF WellFormed, HoldsClaim, ClaimStillTrue, OrderHandlers, Shippers, Closers
    <2> QED
      BY <2>1, <2>3, <2>4, ReadStep
  <1>3. CASE StockInKeys(w)
    <2> DEFINE keys == {KeyLock(tx[w].wh, g) : g \in Received(tx[w].doc)}
               t == [tx[w] EXCEPT !.locks = @ \cup keys, !.todo = Received(tx[w].doc),
                                  !.pc = "receive"]
    <2>1. /\ tx[w].op = "stockIn" /\ Continue(w, t) /\ UNCHANGED rows
          /\ \A k \in keys : Free(w, k)
      BY <1>3 DEF StockInKeys, At
    <2>2. keys \subseteq LockNames /\ Received(tx[w].doc) \subseteq Goods
      BY <1>0, <2>1, KeyLockType DEF WellFormed, Received
    <2> HIDE DEF keys
    <2>3. /\ t \in Transaction /\ \A lock \in t.locks : lock \in tx[w].locks \/ lock \in keys
          /\ t.op = tx[w].op /\ t.doc = tx[w].doc /\ t.wh = tx[w].wh /\ t.item = tx[w].item
          /\ t.plan = tx[w].plan /\ t.pc = "receive"
      BY <1>0, <2>2 DEF Transaction, PcNames
    <2> HIDE DEF t
    <2>4. WellFormed(t) /\ HoldsClaim(t) /\ ClaimStillTrue(t)
      BY <1>0, <2>1, <2>3
      DEF WellFormed, HoldsClaim, ClaimStillTrue, OrderHandlers, Shippers, Closers
    <2> QED
      BY <2>1, <2>3, <2>4, ReadStep
  <1>4. CASE StockInReadItem(w)
    <2>1. PICK g \in tx[w].todo :
            LET r == <<tx[w].wh, g>>  q == Receipt[tx[w].doc].qty[g]
            IN  Continue(w, [tx[w] EXCEPT !.item = g, !.plan = Adding(Seen(w, r), q)])
      BY <1>4 DEF StockInReadItem
    <2> DEFINE r == <<tx[w].wh, g>>
               q == Receipt[tx[w].doc].qty[g]
               plan == Adding(Seen(w, r), q)
               t == [tx[w] EXCEPT !.item = g, !.plan = plan]
    <2>2. Continue(w, t)
      BY <2>1
    <2>3. tx[w].op = "stockIn" /\ tx[w].pc = "receive" /\ UNCHANGED rows
      BY <1>4 DEF StockInReadItem, At
    <2>4. g \in Goods /\ r \in InvRows /\ q \in Nat
      BY <1>0, <2>3, InvRowType, ReceiptType DEF WellFormed, Transaction
    <2> HIDE DEF r, q
    <2>5. Seen(w, r) \in InvRec
      BY <1>0, <2>4, SeenType
    <2>6. plan \in InvRec
      BY <2>4, <2>5, UpdateTypes
    <2> HIDE DEF plan
    <2>7. /\ t \in Transaction
          /\ t.op = tx[w].op /\ t.doc = tx[w].doc /\ t.wh = tx[w].wh /\ t.locks = tx[w].locks
          /\ t.plan = plan /\ t.pc = tx[w].pc
      BY <1>0, <2>4, <2>6 DEF Transaction
    <2> HIDE DEF t
    <2>8. WellFormed(t) /\ HoldsClaim(t) /\ ClaimStillTrue(t)
      BY <1>0, <2>3, <2>6, <2>7
      DEF WellFormed, HoldsClaim, ClaimStillTrue, OrderHandlers, Shippers, Closers
    <2> QED
      BY <2>2, <2>3, <2>7, <2>8, ReadStep
  <1>5. CASE StockInWriteItem(w)
    <2> DEFINE g == tx[w].item
               r == <<tx[w].wh, g>>
               plan == tx[w].plan
               x == Seen(w, r)
               value == [x EXCEPT !.qty = plan.qty, !.avail = plan.avail]
    <2>1. tx[w].op = "stockIn" /\ g # NoGoods /\ WriteItem(w, g, r, value) /\ UNCHANGED rows
      BY <1>5 DEF StockInWriteItem, At, Overwrite
    <2>2. g \in Goods /\ r \in InvRows /\ plan \in InvRec
      BY <1>0, <2>1, InvRowType DEF WellFormed, Transaction
    <2> HIDE DEF g, r, plan
    <2>3. x \in InvRec
      BY <1>0, <2>2, SeenType
    <2> HIDE DEF x
    <2>4. value \in InvRec
      BY <2>2, <2>3 DEF InvRec
    <2> QED
      BY <2>1, <2>2, <2>4, WriteItemStep
  <1>6. CASE StockInCommit(w)
    <2>1. /\ tx[w].op = "stockIn" /\ End(w) /\ inv' = Published(w) /\ UNCHANGED <<order, out, box>>
          /\ received' = received \cup {tx[w].doc}
      BY <1>6 DEF StockInCommit, At
    <2>2. inv' \in [InvRows -> InvRec] /\ received' \subseteq StockIns
      BY <1>0, <2>1, PublishedType DEF TypeOK, WellFormed
    <2> QED
      BY <2>1, <2>2, EndStep
  <1> QED
    BY <1>1, <1>2, <1>3, <1>4, <1>5, <1>6 DEF StockIn

\* A transaction that is rolled back keeps the invariant.
LEMMA RollbackStep ==
  ASSUME OrderInv, NEW w \in Workers, Rollback(w)
  PROVE  OrderInv'
  BY EndStep DEF Rollback, rows, OrderInv, TypeOK

\* Every step of every worker keeps the invariant.
LEMMA NextInv == OrderInv /\ [Next]_vars => OrderInv'
  <1> SUFFICES ASSUME OrderInv, [Next]_vars PROVE OrderInv'
    OBVIOUS
  <1>1. CASE Next
    <2>1. PICK w \in Workers : Step(w)
      BY <1>1 DEF Next
    <2>2. CASE InventoryLock(w)
      BY <2>2, InventoryLockStep
    <2>3. CASE Create(w)
      BY <2>3, CreateStep
    <2>4. CASE Approve(w)
      BY <2>4, ApproveStep
    <2>5. CASE Close(w)
      BY <2>5, CloseStep
    <2>6. CASE Ship(w)
      BY <2>6, ShipStep
    <2>7. CASE Cancel(w)
      BY <2>7, CancelStep
    <2>8. CASE Confirm(w)
      BY <2>8, ConfirmStep
    <2>9. CASE Undo(w)
      BY <2>9, UndoStep
    <2>10. CASE Adjust(w)
      BY <2>10, AdjustStep
    <2>11. CASE StockIn(w)
      BY <2>11, StockInStep
    <2>12. CASE Rollback(w)
      BY <2>12, RollbackStep
    <2> QED
      BY <2>1, <2>2, <2>3, <2>4, <2>5, <2>6, <2>7, <2>8, <2>9, <2>10, <2>11, <2>12 DEF Step
  <1>2. CASE UNCHANGED vars
    <2> USE <1>2 DEF vars
    <2>1. TypeOK' /\ LocksExclusive' /\ OneCreator'
      BY DEF OrderInv, TypeOK, LocksExclusive, OneCreator
    <2>2. (\A w \in Workers : WellFormed(tx[w]) /\ HoldsClaim(tx[w]) /\ ClaimStillTrue(tx[w]))'
      BY DEF OrderInv, WellFormed, HoldsClaim, ClaimStillTrue, Active
    <2>3. /\ (\A o \in Orders : RowConsistent(o))' /\ OneActiveOrderPerStore'
          /\ OrderMatchesStockOut' /\ HoldersAreOpen'
      BY DEF OrderInv, RowConsistent, OneActiveOrderPerStore, Active, OrderMatchesStockOut,
             HoldersAreOpen, HolderIsOpen
    <2> QED
      BY <2>1, <2>2, <2>3 DEF OrderInv
  <1> QED
    BY <1>1, <1>2

\* A step that gives one order a status its life cycle allows.
LEMMA OneMove ==
  ASSUME OrderInv, NEW o \in Orders, NEW n \in OrderRec, order' = [order EXCEPT ![o] = n],
         order[o].status # n.status =>
           <<order[o].status, n.status>> \in LegalMoves /\ ~order[o].deleted,
         order[o].deleted => n.deleted
  PROVE  \A p \in Orders : MovesLegally(p)
  <1>1. order'[o] = n /\ \A p \in Orders \ {o} : order'[p] = order[p]
    BY DEF OrderInv, TypeOK
  <1> QED
    BY <1>1 DEF MovesLegally

\* Every step moves every order along its life cycle.
LEMMA NextLegal ==
  OrderInv /\ [Next]_vars => [\A o \in Orders : MovesLegally(o)]_vars
  <1> SUFFICES ASSUME OrderInv, NEW w \in Workers, Step(w)
               PROVE  \A o \in Orders : MovesLegally(o)
    BY DEF Next
  <1>0. /\ TypeOK /\ tx[w] \in Transaction
        /\ WellFormed(tx[w]) /\ HoldsClaim(tx[w]) /\ ClaimStillTrue(tx[w])
    BY WorkerFacts
  <1>1. CASE UNCHANGED order
    BY <1>1 DEF MovesLegally
  <1>2. CASE CreateCommit(w)
    <2>1. PICK o \in Orders : o = tx[w].doc
      BY <1>0, <1>2 DEF CreateCommit, At, WellFormed, OrderHandlers
    <2> DEFINE n == [status |-> "PENDING", deleted |-> FALSE, wh |-> tx[w].wh]
    <2>2. /\ n \in OrderRec /\ order' = [order EXCEPT ![o] = n]
          /\ order[o].status = "NONE" /\ ~order[o].deleted
      BY <1>0, <1>2, <2>1
      DEF CreateCommit, At, SetOrder, Transaction, OrderRec, OrderStatus, ClaimStillTrue,
          OrderInv, RowConsistent
    <2> QED
      BY <2>2, OneMove DEF LegalMoves
  <1>3. CASE ApproveCommit(w)
    <2>1. PICK o \in Orders : o = tx[w].doc
      BY <1>0, <1>3 DEF ApproveCommit, At, WellFormed, OrderHandlers
    <2> DEFINE n == [status |-> "APPROVED", deleted |-> FALSE, wh |-> tx[w].wh]
    <2>2. /\ n \in OrderRec /\ order' = [order EXCEPT ![o] = n]
          /\ order[o].status = "PENDING" /\ ~order[o].deleted
      BY <1>0, <1>3, <2>1
      DEF ApproveCommit, At, SetOrder, Transaction, OrderRec, OrderStatus, ClaimStillTrue
    <2> QED
      BY <2>2, OneMove DEF LegalMoves
  <1>4. CASE RejectCommit(w)
    <2>1. PICK o \in Orders : o = tx[w].doc
      BY <1>0, <1>4 DEF RejectCommit, At, WellFormed, OrderHandlers
    <2> DEFINE n == [status |-> "REJECTED", deleted |-> FALSE, wh |-> NoWarehouse]
    <2>2. /\ n \in OrderRec /\ order' = [order EXCEPT ![o] = n]
          /\ order[o].status = "PENDING" /\ ~order[o].deleted
      BY <1>0, <1>4, <2>1
      DEF RejectCommit, At, SetOrder, OrderRec, OrderStatus, ClaimStillTrue, Closers
    <2> QED
      BY <2>2, OneMove DEF LegalMoves
  <1>5. CASE DeleteCommit(w)
    <2>1. PICK o \in Orders : o = tx[w].doc
      BY <1>0, <1>5 DEF DeleteCommit, At, WellFormed, OrderHandlers
    <2> DEFINE n == [status |-> order[o].status, deleted |-> TRUE, wh |-> NoWarehouse]
    <2>2. n \in OrderRec /\ order' = [order EXCEPT ![o] = n]
      BY <1>0, <1>5, <2>1 DEF DeleteCommit, SetOrder, OrderRec, TypeOK
    <2> QED
      BY <2>2, OneMove
  <1>6. CASE ShipCommit(w)
    <2>1. PICK o \in Orders : o = tx[w].doc
      BY <1>0, <1>6 DEF ShipCommit, At, WellFormed, OrderHandlers
    <2> DEFINE n == [order[o] EXCEPT !.status = "PROCESSING", !.wh = NoWarehouse]
    <2>2. order' = [order EXCEPT ![o] = n] /\ out[o].status = "PENDING"
      BY <1>0, <1>6, <2>1 DEF ShipCommit, At, ClaimStillTrue, Shippers
    <2>3. order[o].status = "APPROVED" /\ ~order[o].deleted
      BY <1>0, <2>2 DEF OrderInv, OrderMatchesStockOut, StockOutStatusOf, TypeOK, OrderRec,
                        OrderStatus, RowConsistent
    <2>4. n \in OrderRec /\ n.status = "PROCESSING"
      BY <1>0 DEF TypeOK, OrderRec, OrderStatus
    <2> HIDE DEF n
    <2> QED
      BY <2>2, <2>3, <2>4, OneMove DEF LegalMoves
  <1>7. CASE CancelCommit(w)
    <2>1. PICK o \in Orders : o = tx[w].doc
      BY <1>0, <1>7 DEF CancelCommit, At, WellFormed, OrderHandlers
    <2> DEFINE n == [status |-> "CANCELLED", deleted |-> FALSE, wh |-> NoWarehouse]
    <2>2. /\ n \in OrderRec /\ order' = [order EXCEPT ![o] = n]
          /\ order[o].status = "APPROVED" /\ ~order[o].deleted
      BY <1>7, <2>1 DEF CancelCommit, SetOrder, OrderRec, OrderStatus
    <2> QED
      BY <2>2, OneMove DEF LegalMoves
  <1>8. CASE ConfirmCommit(w)
    <2>1. PICK o \in Orders : o = tx[w].doc
      BY <1>0, <1>8 DEF ConfirmCommit, At, WellFormed, OrderHandlers
    <2> DEFINE n == [order[o] EXCEPT !.status = "COMPLETED"]
    <2>2. /\ order' = [order EXCEPT ![o] = n]
          /\ order[o].status = "PROCESSING" /\ ~order[o].deleted
      BY <1>8, <2>1 DEF ConfirmCommit
    <2>3. n \in OrderRec /\ n.status = "COMPLETED"
      BY <1>0 DEF TypeOK, OrderRec, OrderStatus
    <2> HIDE DEF n
    <2> QED
      BY <2>2, <2>3, OneMove DEF LegalMoves
  <1>9. CASE UndoCommit(w)
    <2>1. PICK o \in Orders : o = tx[w].doc
      BY <1>0, <1>9 DEF UndoCommit, At, WellFormed, OrderHandlers
    <2> DEFINE n == [order[o] EXCEPT !.status = "CANCELLED"]
    <2>2. /\ order' = [order EXCEPT ![o] = n]
          /\ order[o].status \in {"COMPLETED", "CANCELLED"} /\ ~order[o].deleted
      BY <1>0, <1>9, <2>1 DEF UndoCommit, At, ClaimStillTrue, OrderInv, RowConsistent
    <2>3. n \in OrderRec /\ n.status = "CANCELLED"
      BY <1>0 DEF TypeOK, OrderRec, OrderStatus
    <2> HIDE DEF n
    <2> QED
      BY <2>2, <2>3, OneMove DEF LegalMoves
  <1>10. \/ UNCHANGED order
         \/ CreateCommit(w) \/ ApproveCommit(w) \/ RejectCommit(w) \/ DeleteCommit(w)
         \/ ShipCommit(w) \/ CancelCommit(w) \/ ConfirmCommit(w) \/ UndoCommit(w)
    <2>1. InventoryLock(w) \/ Adjust(w) \/ StockIn(w) \/ Rollback(w) => UNCHANGED order
      BY DEF InventoryLock, ChooseWarehouse, LockItem, AssertItem, ReleaseItem, Adjust, AdjustRead,
             AdjustCommit, StockIn, StockInRead, StockInClaim, StockInKeys, StockInReadItem,
             StockInWriteItem, StockInCommit, Rollback, rows
    <2>2. Create(w) \/ Approve(w) \/ Close(w) =>
            UNCHANGED order \/ CreateCommit(w) \/ ApproveCommit(w) \/ RejectCommit(w) \/ DeleteCommit(w)
      BY DEF Create, CreateBegin, CreateLockStore, CreateCheck, Approve, ApproveRead, ApproveClaim,
             Close, RejectRead, RevokeRead, DeleteRead, CloseClaim, rows
    <2>3. Ship(w) \/ Cancel(w) \/ Confirm(w) \/ Undo(w) =>
            UNCHANGED order \/ ShipCommit(w) \/ CancelCommit(w) \/ ConfirmCommit(w) \/ UndoCommit(w)
      BY DEF Ship, ShipRead, ShipClaim, ShipCheckItem, ShipItem, Cancel, CancelRead, CancelClaim,
             Confirm, ConfirmRead, Undo, UndoRead, UndoReadOut, UndoUpdate, UndoItem,
             UndoCheckBoxes, rows
    <2> QED
      BY <2>1, <2>2, <2>3 DEF Step
  <1> QED
    BY <1>1, <1>2, <1>3, <1>4, <1>5, <1>6, <1>7, <1>8, <1>9, <1>10

\* OrderInv is an invariant: the locks that the handlers of orders hold, what
\* they found out when they claimed a row, and the rows agree in every
\* reachable state, whatever requests interleave or fail.
THEOREM OrderInvariant == Spec => []OrderInv
  BY InitInv, NextInv, PTL DEF Spec

\* Every handler leaves the rows and its transaction well typed.
THEOREM TypeCorrect == Spec => []TypeOK
  <1>1. OrderInv => TypeOK
    BY DEF OrderInv
  <1> QED
    BY <1>1, OrderInvariant, PTL

\* A store never has two orders under way: concurrent submissions through
\* OrderService.create are serialised by the FOR UPDATE on the store row.
THEOREM OneActiveOrder == Spec => []OneActiveOrderPerStore
  <1>1. OrderInv => OneActiveOrderPerStore
    BY DEF OrderInv
  <1> QED
    BY <1>1, OrderInvariant, PTL

\* The status of an order and the one of its stock-out document always agree,
\* although approve, complete, cancel, confirmReceipt and the revocation
\* write the two rows in different statements.
THEOREM StockOutFollowsOrder == Spec => []OrderMatchesStockOut
  <1>1. OrderInv => OrderMatchesStockOut
    BY DEF OrderInv
  <1> QED
    BY <1>1, OrderInvariant, PTL

\* An order has a locked warehouse exactly while it waits for its approval or
\* its shipment, and it is the warehouse the stock-out document ships from.
THEOREM HoldersOpen == Spec => []HoldersAreOpen
  <1>1. OrderInv => HoldersAreOpen
    BY DEF OrderInv
  <1> QED
    BY <1>1, OrderInvariant, PTL

\* No handler moves an order otherwise than along its life cycle, and none
\* changes the status of a deleted order or brings it back.
THEOREM LifeCycle == Spec => OrderLifeCycle
  BY OrderInvariant, NextLegal, PTL DEF Spec, OrderLifeCycle

-----------------------------------------------------------------------------
(* The inductive invariant of the quantities: what each open transaction   *)
(* has written to the inventory, in terms of the committed rows.           *)

\* Only handlers are enabled that add to and subtract from the committed row;
\* only those that carry an order from its submission to its receipt.
Relative == Ops \cap {"adjustStock", "stockIn"} = {}
Forward  == Relative /\ "revocation" \notin Ops

\* The statements of an order's handler that write the inventory.
Writing(t) == t.pc \in {"lock", "release", "ship", "restore", "boxes"}

\* What the update of statement pc makes of a row x, for quantity q.
Moved(pc, x, q) ==
  CASE pc = "lock"    -> Reserving(x, q)
    [] pc = "release" -> Releasing(x, q)
    [] pc = "ship"    -> Shipping(x, q)
    [] OTHER          -> Adding(x, q)

\* Handlers run what is enabled, and a statement works on the items it has not
\* dealt with yet.
TodoOK(t) ==
  /\ t.op \in Ops \cup {"idle"}
  /\ Writing(t) => t.doc \in Orders /\ t.op # "stockIn" /\ t.todo \subseteq Items(t.doc)
  /\ t.pc \in {"choose", "lock"} => t.op \in {"create", "approve"}
  /\ t.item # NoGoods => t.op \in {"adjustStock", "stockIn"} \/ (t.pc = "ship" /\ t.item \in t.todo)
  /\ t.op \in {"adjustStock", "stockIn"} /\ t.plan # Untouched => t.plan.avail >= 0

\* A transaction has written the rows of the items it has dealt with, once,
\* from the committed row; a stock-in leaves the locked quantity.
PostOK(t, I) ==
  \A r \in InvRows :
    IF Writing(t) /\ r[1] = t.wh /\ r[2] \in Items(t.doc) \ t.todo
    THEN t.post[r] = Moved(t.pc, I[r], Demand[t.doc][r[2]])
    ELSE t.post[r] # Untouched => t.op = "stockIn" /\ t.post[r].locked = I[r].locked

\* No row oversold, and in balance as long as nobody writes absolute values.
RowOK(x) == x.avail >= 0 /\ (Relative => x.qty = x.locked + x.avail)

\* The warehouse a handler works on is the one that holds its order's goods.
WarehouseOK(t, ord, ou) ==
  /\ t.op \in Closers \cup {"approve"} =>
       /\ ord[t.doc].status # "NONE"
       /\ t.seen = "REJECTED" => t.wh = NoWarehouse
       /\ ord[t.doc].status = "PENDING" /\ ~ord[t.doc].deleted /\ t.seen = "PENDING" =>
            ord[t.doc].wh = IF t.pc \in {"choose", "lock"} THEN NoWarehouse ELSE t.wh
  /\ t.op = "approve" => t.seen = "PENDING"
  /\ t.op \in Shippers => ou[t.doc].status # "NONE" /\ t.wh = ou[t.doc].wh

\* A row written by a transaction is locked.
WritersExclusive ==
  \A v, w \in Workers : v # w =>
    \A r \in InvRows : tx[v].post[r] = Untouched \/ tx[w].post[r] = Untouched

WorkersOK ==
  /\ \A w \in Workers : TodoOK(tx[w]) /\ PostOK(tx[w], inv) /\ WarehouseOK(tx[w], order, out)
  /\ \A w \in Workers, r \in InvRows : tx[w].post[r] # Untouched => RowOK(tx[w].post[r])
  /\ WritersExclusive

RowsOK == \A r \in InvRows : RowOK(inv[r])

StockInv ==
  /\ OrderInv /\ WorkersOK /\ RowsOK
  /\ LockedMatchesHolders
  /\ Forward => received = {} /\ StockConserved

\* An inventory row in fields.
LEMMA RowFields ==
  ASSUME NEW x \in InvRec
  PROVE  x.qty \in Int /\ x.locked \in Int /\ x.avail \in Int
  BY DEF InvRec

\* The updates in fields.
LEMMA MovedFields ==
  ASSUME NEW x \in InvRec, NEW q \in Int
  PROVE  /\ Reserving(x, q).qty = x.qty /\ Reserving(x, q).locked = x.locked + q
         /\ Reserving(x, q).avail = x.avail - q
         /\ Releasing(x, q).qty = x.qty /\ Releasing(x, q).locked = x.locked - q
         /\ Releasing(x, q).avail = x.avail + q
         /\ Shipping(x, q).qty = x.qty - q /\ Shipping(x, q).locked = x.locked - q
         /\ Shipping(x, q).avail = x.avail
         /\ Adding(x, q).qty = x.qty + q /\ Adding(x, q).locked = x.locked
         /\ Adding(x, q).avail = x.avail + q
  BY DEF InvRec, Reserving, Releasing, Shipping, Adding

\* A statement that commits nothing keeps the invariant if what its worker
\* continues with is in order, and it wrote only rows nobody else has written.
LEMMA QuietStep ==
  ASSUME StockInv, OrderInv', NEW w \in Workers, NEW t \in Transaction, Continue(w, t),
         UNCHANGED rows, TodoOK(t), PostOK(t, inv), WarehouseOK(t, order, out),
         \A r \in InvRows : t.post[r] # Untouched => RowOK(t.post[r]),
         \A r \in InvRows : t.post[r] \in {tx[w].post[r], Untouched} \/ FreeInv(w, r)
  PROVE  StockInv'
  <1>1. /\ tx' \in [Workers -> Transaction]
        /\ \A v \in Workers \ {w} : tx'[v] = tx[v]
        /\ tx'[w] = t
    BY ContinueType DEF OrderInv, StockInv
  <1>2. order' = order /\ out' = out /\ inv' = inv /\ received' = received
    BY DEF rows
  <1>3. \A v \in Workers : TodoOK(tx'[v]) /\ PostOK(tx'[v], inv') /\ WarehouseOK(tx'[v], order', out')
    BY <1>1, <1>2 DEF StockInv, WorkersOK
  <1>4. (\A v \in Workers : TodoOK(tx[v]) /\ PostOK(tx[v], inv) /\ WarehouseOK(tx[v], order, out))'
    BY <1>3 DEF TodoOK, PostOK, WarehouseOK
  <1>5. (\A v \in Workers, r \in InvRows : tx[v].post[r] # Untouched => RowOK(tx[v].post[r]))'
    BY <1>1 DEF StockInv, WorkersOK, RowOK
  <1>6. WritersExclusive'
    <2> SUFFICES ASSUME NEW u \in Workers, NEW v \in Workers, u # v, NEW r \in InvRows
                 PROVE  tx'[u].post[r] = Untouched \/ tx'[v].post[r] = Untouched
      BY DEF WritersExclusive
    <2>1. tx[u].post[r] = Untouched \/ tx[v].post[r] = Untouched
      BY DEF StockInv, WorkersOK, WritersExclusive
    <2>2. t.post[r] \in {tx[w].post[r], Untouched} \/ \A x \in Workers \ {w} : tx[x].post[r] = Untouched
      BY DEF FreeInv
    <2>3. QED
      BY <2>1, <2>2, <1>1
  <1>7. RowsOK' /\ LockedMatchesHolders'
    BY <1>2 DEF StockInv, RowsOK, RowOK, LockedMatchesHolders, Held, Units
  <1>8. (Forward => received = {} /\ StockConserved)'
    BY <1>2 DEF StockInv, Forward, Relative, StockConserved, ShippedUnits, ReceivedUnits, Units
  <1>9. QED
    BY <1>4, <1>5, <1>6, <1>7, <1>8 DEF StockInv, WorkersOK

\* A worker that serves no request has written nothing.
LEMMA IdleQuiet == \A I, ord, ou : TodoOK(Idle) /\ PostOK(Idle, I) /\ WarehouseOK(Idle, ord, ou)
  <1>1. \A r \in InvRows : Idle.post[r] = Untouched
    BY DEF Idle, NoWrites
  <1>2. ~Writing(Idle) /\ Idle.op = "idle" /\ Idle.pc = "idle" /\ Idle.item = NoGoods
    BY DEF Idle, Writing
  <1>3. QED
    BY <1>1, <1>2 DEF TodoOK, PostOK, WarehouseOK, Closers, Shippers

\* A row of the inventory is of a warehouse and of goods.
LEMMA RowOf == \A r \in InvRows : r = <<r[1], r[2]>> /\ r[1] \in Warehouses /\ r[2] \in Goods
  BY DEF InvRows

\* What an update writes is a row.
LEMMA MovedType ==
  ASSUME NEW pc, NEW x \in InvRec, NEW q \in Int
  PROVE  Moved(pc, x, q) \in InvRec /\ Moved(pc, x, q) # Untouched
  <1>1. Moved(pc, x, q) \in InvRec
    BY UpdateTypes DEF Moved
  <1>2. QED
    BY <1>1, OrderStockAssumption DEF InvRec

\* A COMMIT, or a rollback, keeps the invariant if it leaves alone what the
\* other transactions stand on, and the totals come out right.
LEMMA EndingStep ==
  ASSUME StockInv, OrderInv', NEW w \in Workers, End(w),
         \A o \in Orders :
           order'[o] = order[o]
             \/ /\ order'[o].status # "NONE"
                /\ order'[o].status = "PENDING" /\ ~order'[o].deleted => order[o].status = "NONE",
         \A o \in Orders :
           out[o].status # "NONE" => out'[o].wh = out[o].wh /\ out'[o].status # "NONE",
         \A v \in Workers \ {w}, r \in InvRows : tx[v].post[r] # Untouched => inv'[r] = inv[r],
         RowsOK', LockedMatchesHolders', Forward => received' = {} /\ StockConserved'
  PROVE  StockInv'
  <1>1. /\ tx' \in [Workers -> Transaction]
        /\ \A v \in Workers \ {w} : tx'[v] = tx[v]
        /\ tx'[w] = Idle
    BY ContinueType, IdleType DEF OrderInv, StockInv, End
  <1>2. ASSUME NEW v \in Workers \ {w}
        PROVE  TodoOK(tx[v]) /\ PostOK(tx[v], inv') /\ WarehouseOK(tx[v], order', out')
    <2> DEFINE t == tx[v]
    <2>1. /\ TodoOK(t) /\ PostOK(t, inv) /\ WarehouseOK(t, order, out)
          /\ WellFormed(t) /\ TypeOK
      BY WorkerFacts DEF StockInv, WorkersOK
    <2>2. \A r \in InvRows : t.post[r] # Untouched => inv'[r] = inv[r]
      OBVIOUS
    <2> HIDE DEF t
    <2>3. PostOK(t, inv')
      <3> SUFFICES ASSUME NEW r \in InvRows
                   PROVE  IF Writing(t) /\ r[1] = t.wh /\ r[2] \in Items(t.doc) \ t.todo
                          THEN t.post[r] = Moved(t.pc, inv'[r], Demand[t.doc][r[2]])
                          ELSE t.post[r] # Untouched =>
                                 t.op = "stockIn" /\ t.post[r].locked = inv'[r].locked
        BY DEF PostOK
      <3>1. CASE Writing(t) /\ r[1] = t.wh /\ r[2] \in Items(t.doc) \ t.todo
        <4>1. t.post[r] = Moved(t.pc, inv[r], Demand[t.doc][r[2]])
          BY <2>1, <3>1 DEF PostOK
        <4>2. inv[r] \in InvRec /\ Demand[t.doc][r[2]] \in Int
          BY <2>1, <3>1, RowOf, DemandType DEF TypeOK, TodoOK
        <4>3. QED
          BY <2>2, <3>1, <4>1, <4>2, MovedType
      <3>2. CASE ~(Writing(t) /\ r[1] = t.wh /\ r[2] \in Items(t.doc) \ t.todo)
        BY <2>1, <2>2, <3>2 DEF PostOK
      <3>3. QED
        BY <3>1, <3>2
    <2>4. WarehouseOK(t, order', out')
      <3>1. t.op \in Closers \cup {"approve"} \cup Shippers => t.doc \in Orders
        BY <2>1 DEF WellFormed, OrderHandlers, Closers, Shippers
      <3>2. QED
        BY <2>1, <3>1 DEF WarehouseOK
    <2>5. QED
      BY <2>1, <2>3, <2>4 DEF t
  <1>3. \A v \in Workers : TodoOK(tx'[v]) /\ PostOK(tx'[v], inv') /\ WarehouseOK(tx'[v], order', out')
    BY <1>1, <1>2, IdleQuiet
  <1>4. (\A v \in Workers : TodoOK(tx[v]) /\ PostOK(tx[v], inv) /\ WarehouseOK(tx[v], order, out))'
    BY <1>3 DEF TodoOK, PostOK, WarehouseOK
  <1>5. (\A v \in Workers, r \in InvRows : tx[v].post[r] # Untouched => RowOK(tx[v].post[r]))'
    BY <1>1 DEF StockInv, WorkersOK, RowOK, Idle, NoWrites
  <1>6. WritersExclusive'
    <2> SUFFICES ASSUME NEW u \in Workers, NEW v \in Workers, u # v, NEW r \in InvRows
                 PROVE  tx'[u].post[r] = Untouched \/ tx'[v].post[r] = Untouched
      BY DEF WritersExclusive
    <2>1. tx[u].post[r] = Untouched \/ tx[v].post[r] = Untouched
      BY DEF StockInv, WorkersOK, WritersExclusive
    <2>2. Idle.post[r] = Untouched
      BY DEF Idle, NoWrites
    <2>3. QED
      BY <2>1, <2>2, <1>1
  <1>7. QED
    BY <1>4, <1>5, <1>6 DEF StockInv, WorkersOK, Forward, Relative

\* A COMMIT publishes rows nobody else has written.
LEMMA PublishedApart ==
  ASSUME StockInv, NEW w \in Workers, NEW v \in Workers \ {w}, NEW r \in InvRows,
         tx[v].post[r] # Untouched
  PROVE  Published(w)[r] = inv[r]
  BY DEF StockInv, WorkersOK, WritersExclusive, Published, Seen

\* The published rows are in order.
LEMMA PublishedRows ==
  ASSUME StockInv, NEW w \in Workers, NEW r \in InvRows
  PROVE  RowOK(Published(w)[r])
  BY DEF StockInv, WorkersOK, RowsOK, Published, Seen

-----------------------------------------------------------------------------
(* Totals over orders.                                                     *)

Wanted(g) == [o \in Orders |-> Demand[o][g]]

\* What the orders in S want of row r's goods.
WantedOf(S, r) == Total(S, Wanted(r[2]))

Holders(ord, h) == {p \in Orders : ord[p].wh = h}
Shipped(ou, h)  == {p \in Orders : ou[p].status = "COMPLETED" /\ ou[p].wh = h}

\* What order o takes from row r if warehouse h serves it.
Portion(o, h, r) == IF r[1] = h THEN Demand[o][r[2]] ELSE 0

\* Totals over orders are natural numbers, and one order more adds its part.
LEMMA WantedMore ==
  ASSUME NEW S \in SUBSET Orders, NEW o \in Orders, NEW r \in InvRows
  PROVE  /\ WantedOf(S, r) \in Nat
         /\ o \notin S => WantedOf(S \union {o}, r) = WantedOf(S, r) + Demand[o][r[2]]
  <1>1. IsFiniteSet(S)
    BY OrderStockAssumption, FS_Subset
  <1>2. \A p \in Orders : Wanted(r[2])[p] = Demand[p][r[2]] /\ Demand[p][r[2]] \in Nat
    BY RowOf, DemandType DEF Wanted
  <1> DEFINE f == Wanted(r[2])
  <1>3. \A p \in Orders : f[p] \in Nat
    BY <1>2
  <1>4. f[o] = Demand[o][r[2]]
    BY <1>2
  <1> HIDE DEF f
  <1>5. Total(S, f) \in Nat
    BY <1>1, <1>3, TotalType
  <1>6. o \notin S => Total(S \union {o}, f) = Total(S, f) + f[o]
    BY <1>1, <1>3, TotalAdd
  <1>7. QED
    BY <1>4, <1>5, <1>6 DEF WantedOf, f

\* If S' has o in warehouse h and is S otherwise.
LEMMA WantedTake ==
  ASSUME NEW A, NEW B, NEW o \in Orders, NEW h, NEW r \in InvRows,
         A \subseteq Orders, o \notin A, B = IF r[1] = h THEN A \union {o} ELSE A
  PROVE  WantedOf(B, r) = WantedOf(A, r) + Portion(o, h, r) /\ WantedOf(A, r) \in Nat
  <1>1. WantedOf(A, r) \in Nat
    BY WantedMore
  <1>2. QED
    BY <1>1, WantedMore DEF Portion

\* Units held are counted order by order, before a step and after it.
LEMMA HeldCount ==
  ASSUME NEW r \in InvRows
  PROVE  /\ Cardinality(Held(r)) = WantedOf(Holders(order, r[1]), r)
         /\ Cardinality(Held(r)') = WantedOf(Holders(order', r[1]), r)
  <1>1. Held(r) = UnitsOf(Holders(order, r[1]), Wanted(r[2]))
    BY DEF Held, Units, UnitsOf, Holders, Wanted
  <1>2. Held(r)' = UnitsOf(Holders(order', r[1]), Wanted(r[2]))
    BY DEF Held, Units, UnitsOf, Holders, Wanted
  <1>3. QED
    BY <1>1, <1>2 DEF WantedOf, Total

\* So are units shipped.
LEMMA ShippedCount ==
  ASSUME NEW r \in InvRows
  PROVE  /\ Cardinality(ShippedUnits(r)) = WantedOf(Shipped(out, r[1]), r)
         /\ Cardinality(ShippedUnits(r)') = WantedOf(Shipped(out', r[1]), r)
  <1>1. ShippedUnits(r) = UnitsOf(Shipped(out, r[1]), Wanted(r[2]))
    BY DEF ShippedUnits, Units, UnitsOf, Shipped, Wanted
  <1>2. ShippedUnits(r)' = UnitsOf(Shipped(out', r[1]), Wanted(r[2]))
    BY DEF ShippedUnits, Units, UnitsOf, Shipped, Wanted
  <1>3. QED
    BY <1>1, <1>2 DEF WantedOf, Total

\* As long as nothing is received, the quantity is what was there and is not
\* shipped.
LEMMA ConservedIs ==
  ASSUME received = {}
  PROVE  StockConserved <=>
           \A r \in InvRows : inv[r].qty + WantedOf(Shipped(out, r[1]), r) = Opening[r]
  <1>1. \A r \in InvRows : ReceivedUnits(r) = {}
    BY DEF ReceivedUnits
  <1>2. \A r \in InvRows : Opening[r] + 0 = Opening[r]
    BY OrderStockAssumption
  <1>3. QED
    BY <1>1, <1>2, ShippedCount, FS_EmptySet DEF StockConserved

LEMMA ConservedThen ==
  ASSUME received' = {}
  PROVE  StockConserved' <=>
           \A r \in InvRows : inv'[r].qty + WantedOf(Shipped(out', r[1]), r) = Opening[r]
  <1>1. \A r \in InvRows : ReceivedUnits(r)' = {}
    BY DEF ReceivedUnits
  <1>2. \A r \in InvRows : Opening[r] + 0 = Opening[r]
    BY OrderStockAssumption
  <1>3. QED
    BY <1>1, <1>2, ShippedCount, FS_EmptySet DEF StockConserved

-----------------------------------------------------------------------------
(* What a COMMIT publishes.                                                *)

\* A handler that has dealt with every item has moved each row of its
\* warehouse by what its order wants, and no other row.
LEMMA PublishedIs ==
  ASSUME StockInv, NEW w \in Workers, Writing(tx[w]), tx[w].todo = {}, NEW r \in InvRows,
         NEW q, q = Portion(tx[w].doc, tx[w].wh, r)
  PROVE  /\ q \in Nat /\ inv[r] \in InvRec
         /\ \/ Published(w)[r] = Moved(tx[w].pc, inv[r], q)
            \/ Published(w)[r] = inv[r] /\ q = 0
  <1>1. /\ tx[w].doc \in Orders /\ tx[w].op # "stockIn" /\ PostOK(tx[w], inv)
        /\ inv[r] \in InvRec
    BY DEF StockInv, WorkersOK, TodoOK, OrderInv, TypeOK
  <1>2. r[1] \in Warehouses /\ r[2] \in Goods /\ Demand[tx[w].doc][r[2]] \in Nat
    BY <1>1, RowOf, DemandType
  <1>3. q \in Nat
    BY <1>2 DEF Portion
  <1>4. CASE r[1] = tx[w].wh /\ r[2] \in Items(tx[w].doc)
    <2>1. tx[w].post[r] = Moved(tx[w].pc, inv[r], q)
      BY <1>1, <1>4 DEF PostOK, Portion
    <2>2. tx[w].post[r] # Untouched
      BY <1>1, <1>3, <2>1, MovedType
    <2>3. QED
      BY <1>1, <1>3, <2>1, <2>2 DEF Published, Seen
  <1>5. CASE ~(r[1] = tx[w].wh /\ r[2] \in Items(tx[w].doc))
    <2>1. tx[w].post[r] = Untouched
      BY <1>1, <1>5 DEF PostOK
    <2>2. q = 0
      BY <1>2, <1>5 DEF Portion, Items
    <2>3. QED
      BY <1>1, <1>3, <2>1, <2>2 DEF Published, Seen
  <1>6. QED
    BY <1>4, <1>5

\* The fields of a published row.
LEMMA PublishedFields ==
  ASSUME StockInv, NEW w \in Workers, Writing(tx[w]), tx[w].todo = {}, NEW r \in InvRows,
         NEW q, q = Portion(tx[w].doc, tx[w].wh, r)
  PROVE  /\ q \in Nat /\ inv[r].qty \in Int /\ inv[r].locked \in Int
         /\ tx[w].pc = "lock" => /\ Published(w)[r].qty = inv[r].qty
                                 /\ Published(w)[r].locked = inv[r].locked + q
         /\ tx[w].pc = "release" => /\ Published(w)[r].qty = inv[r].qty
                                    /\ Published(w)[r].locked = inv[r].locked - q
         /\ tx[w].pc = "ship" => /\ Published(w)[r].qty = inv[r].qty - q
                                 /\ Published(w)[r].locked = inv[r].locked - q
         /\ tx[w].pc \in {"restore", "boxes"} => Published(w)[r].locked = inv[r].locked
  <1>1. /\ q \in Nat /\ inv[r] \in InvRec
        /\ \/ Published(w)[r] = Moved(tx[w].pc, inv[r], q)
           \/ Published(w)[r] = inv[r] /\ q = 0
    BY PublishedIs
  <1>2. inv[r].qty \in Int /\ inv[r].locked \in Int
    BY <1>1, RowFields
  <1>3. CASE Published(w)[r] = inv[r] /\ q = 0
    BY <1>2, <1>3
  <1>4. CASE Published(w)[r] = Moved(tx[w].pc, inv[r], q)
    <2>1. CASE tx[w].pc = "lock"
      BY <1>1, <1>2, <1>4, <2>1, MovedFields DEF Moved
    <2>2. CASE tx[w].pc = "release"
      BY <1>1, <1>2, <1>4, <2>2, MovedFields DEF Moved
    <2>3. CASE tx[w].pc = "ship"
      BY <1>1, <1>2, <1>4, <2>3, MovedFields DEF Moved
    <2>4. CASE tx[w].pc \in {"restore", "boxes"}
      BY <1>1, <1>2, <1>4, <2>4, MovedFields DEF Moved
    <2>5. QED
      BY <1>1, <1>2, <2>1, <2>2, <2>3, <2>4 DEF Writing
  <1>5. QED
    BY <1>1, <1>3, <1>4

\* A handler that has written nothing publishes what is there.
LEMMA PublishedSame ==
  ASSUME StockInv, NEW w \in Workers, ~Writing(tx[w]), tx[w].op # "stockIn", NEW r \in InvRows
  PROVE  Published(w)[r] = inv[r]
  BY DEF StockInv, WorkersOK, PostOK, Published, Seen

\* The COMMIT of a handler on order o keeps the invariant if the totals of
\* what is held and what is shipped follow the rows.
LEMMA StockCommit ==
  ASSUME StockInv, OrderInv', NEW w \in Workers, End(w),
         inv' = Published(w), received' = received,
         NEW o \in Orders, NEW n \in OrderRec, NEW m \in OutRec,
         order' = [order EXCEPT ![o] = n], out' = [out EXCEPT ![o] = m],
         n.status # "NONE", n.status = "PENDING" /\ ~n.deleted => order[o].status = "NONE",
         out[o].status # "NONE" => m.wh = out[o].wh /\ m.status # "NONE",
         \A r \in InvRows :
           /\ inv'[r].locked = WantedOf(Holders(order', r[1]), r)
           /\ Forward => inv'[r].qty + WantedOf(Shipped(out', r[1]), r) =
                           inv[r].qty + WantedOf(Shipped(out, r[1]), r)
  PROVE  StockInv'
  <1>1. order \in [Orders -> OrderRec] /\ out \in [Orders -> OutRec]
    BY DEF StockInv, OrderInv, TypeOK
  <1>2. \A p \in Orders : /\ order'[p] = IF p = o THEN n ELSE order[p]
                          /\ out'[p] = IF p = o THEN m ELSE out[p]
    BY <1>1
  <1>3. RowsOK'
    BY PublishedRows DEF RowsOK, RowOK
  <1>4. LockedMatchesHolders'
    BY HeldCount DEF LockedMatchesHolders
  <1>5. Forward => received' = {} /\ StockConserved'
    BY ConservedIs, ConservedThen DEF StockInv
  <1>6. \A v \in Workers \ {w}, r \in InvRows : tx[v].post[r] # Untouched => inv'[r] = inv[r]
    BY PublishedApart
  <1>7. QED
    BY <1>2, <1>3, <1>4, <1>5, <1>6, EndingStep

\* An order that gets a warehouse adds its part to what is held there.
LEMMA HoldersTake ==
  ASSUME TypeOK, NEW o \in Orders, NEW n, order' = [order EXCEPT ![o] = n],
         NEW h \in Warehouses, order[o].wh = NoWarehouse, n.wh = h, NEW r \in InvRows
  PROVE  /\ WantedOf(Holders(order, r[1]), r) \in Nat
         /\ WantedOf(Holders(order', r[1]), r) =
              WantedOf(Holders(order, r[1]), r) + Portion(o, h, r)
  <1> DEFINE A == Holders(order, r[1])
             B == Holders(order', r[1])
  <1>1. \A p \in Orders : order'[p] = IF p = o THEN n ELSE order[p]
    BY DEF TypeOK
  <1>2. r[1] \in Warehouses /\ NoWarehouse \notin Warehouses
    BY RowOf, OrderStockAssumption
  <1>3. A \subseteq Orders /\ o \notin A
    BY <1>2 DEF Holders
  <1>4. B = IF r[1] = h THEN A \union {o} ELSE A
    BY <1>1, <1>2 DEF Holders
  <1> HIDE DEF A, B
  <1>5. WantedOf(B, r) = WantedOf(A, r) + Portion(o, h, r) /\ WantedOf(A, r) \in Nat
    BY <1>3, <1>4, WantedTake
  <1>6. QED
    BY <1>5 DEF A, B

\* An order that gives its warehouse up takes its part away.
LEMMA HoldersGive ==
  ASSUME TypeOK, NEW o \in Orders, NEW n, order' = [order EXCEPT ![o] = n],
         NEW h, order[o].wh = h, n.wh = NoWarehouse, NEW r \in InvRows
  PROVE  /\ WantedOf(Holders(order', r[1]), r) \in Nat
         /\ WantedOf(Holders(order, r[1]), r) =
              WantedOf(Holders(order', r[1]), r) + Portion(o, h, r)
  <1> DEFINE A == Holders(order', r[1])
             B == Holders(order, r[1])
  <1>1. \A p \in Orders : order'[p] = IF p = o THEN n ELSE order[p]
    BY DEF TypeOK
  <1>2. r[1] \in Warehouses /\ NoWarehouse \notin Warehouses
    BY RowOf, OrderStockAssumption
  <1>3. A \subseteq Orders /\ o \notin A
    BY <1>1, <1>2 DEF Holders
  <1>4. B = IF r[1] = h THEN A \union {o} ELSE A
    BY <1>1, <1>2 DEF Holders
  <1> HIDE DEF A, B
  <1>5. WantedOf(B, r) = WantedOf(A, r) + Portion(o, h, r) /\ WantedOf(A, r) \in Nat
    BY <1>3, <1>4, WantedTake
  <1>6. QED
    BY <1>5 DEF A, B

\* An order that keeps its warehouse changes nothing.
LEMMA HoldersSame ==
  ASSUME TypeOK, NEW o \in Orders, NEW n, order' = [order EXCEPT ![o] = n],
         n.wh = order[o].wh, NEW r \in InvRows
  PROVE  WantedOf(Holders(order', r[1]), r) = WantedOf(Holders(order, r[1]), r)
  <1>1. \A p \in Orders : order'[p] = IF p = o THEN n ELSE order[p]
    BY DEF TypeOK
  <1>2. Holders(order', r[1]) = Holders(order, r[1])
    BY <1>1 DEF Holders
  <1>3. QED
    BY <1>2

\* A stock-out that is shipped adds its order's part to what is shipped.
LEMMA ShippedTake ==
  ASSUME TypeOK, NEW o \in Orders, NEW m, out' = [out EXCEPT ![o] = m],
         NEW h, out[o].status # "COMPLETED", m.status = "COMPLETED", m.wh = h, NEW r \in InvRows
  PROVE  /\ WantedOf(Shipped(out, r[1]), r) \in Nat
         /\ WantedOf(Shipped(out', r[1]), r) =
              WantedOf(Shipped(out, r[1]), r) + Portion(o, h, r)
  <1> DEFINE A == Shipped(out, r[1])
             B == Shipped(out', r[1])
  <1>1. \A p \in Orders : out'[p] = IF p = o THEN m ELSE out[p]
    BY DEF TypeOK
  <1>2. A \subseteq Orders /\ o \notin A
    BY DEF Shipped
  <1>3. B = IF r[1] = h THEN A \union {o} ELSE A
    BY <1>1 DEF Shipped
  <1> HIDE DEF A, B
  <1>4. WantedOf(B, r) = WantedOf(A, r) + Portion(o, h, r) /\ WantedOf(A, r) \in Nat
    BY <1>2, <1>3, WantedTake
  <1>5. QED
    BY <1>4 DEF A, B

\* One that is neither shipped before nor after changes nothing.
LEMMA ShippedSame ==
  ASSUME TypeOK, NEW o \in Orders, NEW m, out' = [out EXCEPT ![o] = m],
         m = out[o] \/ (out[o].status # "COMPLETED" /\ m.status # "COMPLETED"), NEW r \in InvRows
  PROVE  WantedOf(Shipped(out', r[1]), r) = WantedOf(Shipped(out, r[1]), r)
  <1>1. \A p \in Orders : out'[p] = IF p = o THEN m ELSE out[p]
    BY DEF TypeOK
  <1>2. Shipped(out', r[1]) = Shipped(out, r[1])
    BY <1>1 DEF Shipped
  <1>3. QED
    BY <1>2

-----------------------------------------------------------------------------
(* Statements.                                                             *)

\* What the invariant says about one worker.
LEMMA StockFacts ==
  ASSUME StockInv, NEW w \in Workers
  PROVE  /\ TypeOK /\ tx[w] \in Transaction
         /\ WellFormed(tx[w]) /\ HoldsClaim(tx[w]) /\ ClaimStillTrue(tx[w])
         /\ TodoOK(tx[w]) /\ PostOK(tx[w], inv) /\ WarehouseOK(tx[w], order, out)
         /\ \A r \in InvRows : tx[w].post[r] # Untouched => RowOK(tx[w].post[r])
  <1>1. OrderInv
    BY DEF StockInv
  <1>2. QED
    BY <1>1, WorkerFacts DEF StockInv, WorkersOK

\* A statement that writes no row: it goes on with the same items, or turns
\* to the items of its order before it has written anything.
LEMMA SamePost ==
  ASSUME StockInv, NEW w \in Workers, NEW t, t.post = tx[w].post,
         t.op = tx[w].op, t.doc = tx[w].doc,
         \/ ~Writing(t) /\ ~Writing(tx[w])
         \/ /\ Writing(t) /\ ~Writing(tx[w]) /\ t.op # "stockIn"
            /\ t.todo = Items(t.doc) \/ t.wh = NoWarehouse
         \/ /\ Writing(tx[w]) /\ t.todo = tx[w].todo /\ t.wh = tx[w].wh
            /\ t.pc = tx[w].pc \/ {t.pc, tx[w].pc} \subseteq {"restore", "boxes"}
  PROVE  /\ PostOK(t, inv)
         /\ \A r \in InvRows : t.post[r] # Untouched => RowOK(t.post[r])
         /\ \A r \in InvRows : t.post[r] \in {tx[w].post[r], Untouched} \/ FreeInv(w, r)
  <1>1. PostOK(tx[w], inv) /\ \A r \in InvRows : tx[w].post[r] # Untouched => RowOK(tx[w].post[r])
    BY StockFacts
  <1>2. PostOK(t, inv)
    <2> SUFFICES ASSUME NEW r \in InvRows
                 PROVE  IF Writing(t) /\ r[1] = t.wh /\ r[2] \in Items(t.doc) \ t.todo
                        THEN t.post[r] = Moved(t.pc, inv[r], Demand[t.doc][r[2]])
                        ELSE t.post[r] # Untouched =>
                               t.op = "stockIn" /\ t.post[r].locked = inv[r].locked
      BY DEF PostOK
    <2>1. IF Writing(tx[w]) /\ r[1] = tx[w].wh /\ r[2] \in Items(t.doc) \ tx[w].todo
          THEN t.post[r] = Moved(tx[w].pc, inv[r], Demand[t.doc][r[2]])
          ELSE t.post[r] # Untouched => t.op = "stockIn" /\ t.post[r].locked = inv[r].locked
      BY <1>1 DEF PostOK
    <2>2. r[1] # NoWarehouse
      BY RowOf, OrderStockAssumption
    <2>3. CASE ~Writing(tx[w])
      BY <2>1, <2>2, <2>3
    <2>4. CASE Writing(tx[w])
      BY <2>1, <2>4 DEF Writing, Moved
    <2>5. QED
      BY <2>3, <2>4
  <1>3. QED
    BY <1>1, <1>2

\* A statement writes the row of an item it has not dealt with yet, from the
\* committed row.
LEMMA SeesCommitted ==
  ASSUME StockInv, NEW w \in Workers, Writing(tx[w]), NEW g \in tx[w].todo,
         NEW r \in InvRows, r = <<tx[w].wh, g>>
  PROVE  tx[w].post[r] = Untouched /\ Seen(w, r) = inv[r]
  <1>1. PostOK(tx[w], inv) /\ tx[w].op # "stockIn"
    BY StockFacts DEF TodoOK
  <1>2. tx[w].post[r] = Untouched
    BY <1>1 DEF PostOK
  <1>3. QED
    BY <1>2 DEF Seen

LEMMA WriteStep ==
  ASSUME StockInv, OrderInv', NEW w \in Workers, Writing(tx[w]), NEW g \in tx[w].todo,
         NEW r \in InvRows, r = <<tx[w].wh, g>>,
         NEW x, x = Moved(tx[w].pc, inv[r], Demand[tx[w].doc][g]), RowOK(x),
         WriteItem(w, g, r, x), UNCHANGED rows
  PROVE  StockInv'
  <1> DEFINE p == [tx[w].post EXCEPT ![r] = x]
             t == [tx[w] EXCEPT !.post = p, !.todo = @ \ {g}, !.item = NoGoods, !.plan = Untouched]
  <1>1. /\ TypeOK /\ tx[w] \in Transaction /\ TodoOK(tx[w]) /\ PostOK(tx[w], inv)
        /\ WarehouseOK(tx[w], order, out) /\ WellFormed(tx[w])
        /\ \A s \in InvRows : tx[w].post[s] # Untouched => RowOK(tx[w].post[s])
    BY StockFacts
  <1>2. tx[w].doc \in Orders /\ tx[w].op # "stockIn" /\ g \in Goods /\ g \in Items(tx[w].doc)
    BY <1>1 DEF TodoOK, Items
  <1>3. inv[r] \in InvRec /\ Demand[tx[w].doc][g] \in Int
    BY <1>1, <1>2, DemandType DEF TypeOK
  <1>4. x \in InvRec
    BY <1>3, MovedType
  <1>5. /\ p \in [InvRows -> InvRec \cup {Untouched}]
        /\ p[r] = x /\ \A s \in InvRows : s # r => p[s] = tx[w].post[s]
    BY <1>1, <1>4 DEF Transaction
  <1>6. Continue(w, t) /\ FreeInv(w, r)
    BY DEF WriteItem
  <1> HIDE DEF p
  <1>7. /\ t \in Transaction
        /\ t.op = tx[w].op /\ t.pc = tx[w].pc /\ t.doc = tx[w].doc /\ t.seen = tx[w].seen
        /\ t.wh = tx[w].wh /\ t.todo = tx[w].todo \ {g} /\ t.item = NoGoods
        /\ t.plan = Untouched /\ t.post = p
    BY <1>1, <1>5 DEF Transaction
  <1> HIDE DEF t
  <1>8. TodoOK(t) /\ WarehouseOK(t, order, out)
    BY <1>1, <1>7 DEF TodoOK, WarehouseOK, Writing
  <1>9. PostOK(t, inv)
    <2> SUFFICES ASSUME NEW s \in InvRows
                 PROVE  IF Writing(t) /\ s[1] = t.wh /\ s[2] \in Items(t.doc) \ t.todo
                        THEN t.post[s] = Moved(t.pc, inv[s], Demand[t.doc][s[2]])
                        ELSE t.post[s] # Untouched =>
                               t.op = "stockIn" /\ t.post[s].locked = inv[s].locked
      BY DEF PostOK
    <2>1. s = <<s[1], s[2]>>
      BY RowOf
    <2>2. CASE s = r
      BY <1>2, <1>5, <1>7, <2>2 DEF Writing
    <2>3. CASE s # r
      <3>1. t.post[s] = tx[w].post[s]
        BY <1>5, <1>7, <2>3
      <3>2. s[1] = t.wh => s[2] # g
        BY <1>7, <2>1, <2>3
      <3>3. QED
        BY <1>1, <1>7, <3>1, <3>2 DEF PostOK, Writing
    <2>4. QED
      BY <2>2, <2>3
  <1>10. \A s \in InvRows : t.post[s] # Untouched => RowOK(t.post[s])
    BY <1>1, <1>5, <1>7
  <1>11. \A s \in InvRows : t.post[s] \in {tx[w].post[s], Untouched} \/ FreeInv(w, s)
    BY <1>5, <1>6, <1>7
  <1>12. QED
    BY <1>6, <1>7, <1>8, <1>9, <1>10, <1>11, QuietStep

\* A request begins with nothing written.
LEMMA BeginQuiet ==
  ASSUME StockInv, OrderInv', NEW w \in Workers,
         NEW op \in OrderHandlers \cup {"stockIn"}, NEW pc \in {"lockStore", "claim", "readOut"},
         NEW doc, NEW seen, NEW wh,
         Begin(w, op, pc, doc, seen, wh), UNCHANGED rows,
         op \in Closers \cup {"approve"} =>
           /\ order[doc].status # "NONE"
           /\ seen = "REJECTED" => wh = NoWarehouse
           /\ order[doc].status = "PENDING" /\ ~order[doc].deleted /\ seen = "PENDING" =>
                order[doc].wh = wh,
         op = "approve" => seen = "PENDING",
         op \in Shippers => out[doc].status # "NONE" /\ wh = out[doc].wh
  PROVE  StockInv'
  <1> DEFINE t == [Idle EXCEPT !.op = op, !.pc = pc, !.doc = doc, !.seen = seen, !.wh = wh]
  <1>1. Continue(w, t) /\ tx[w] = Idle /\ op \in Ops
    BY DEF Begin
  <1>2. /\ t.op = op /\ t.pc = pc /\ t.doc = doc /\ t.seen = seen /\ t.wh = wh
        /\ t.item = NoGoods /\ t.plan = Untouched
        /\ \A r \in InvRows : t.post[r] = Untouched
    BY DEF Idle, NoWrites
  <1>3. t \in Transaction
    <2>1. tx' \in [Workers -> Transaction] /\ tx'[w] = t
      BY <1>1 DEF Continue, OrderInv, TypeOK, StockInv
    <2>2. QED
      BY <2>1
  <1> HIDE DEF t
  <1>4. TodoOK(t) /\ PostOK(t, inv)
    BY <1>1, <1>2 DEF TodoOK, PostOK, Writing
  <1>5. WarehouseOK(t, order, out)
    BY <1>2 DEF WarehouseOK
  <1>6. QED
    BY <1>1, <1>2, <1>3, <1>4, <1>5, QuietStep

\* A statement of a handler that writes no row.
LEMMA NoWriteStep ==
  ASSUME StockInv, OrderInv', NEW w \in Workers, NEW t \in Transaction, Continue(w, t),
         UNCHANGED rows, t.post = tx[w].post, t.op = tx[w].op, t.doc = tx[w].doc,
         \/ ~Writing(t) /\ ~Writing(tx[w])
         \/ /\ Writing(t) /\ ~Writing(tx[w]) /\ t.op # "stockIn"
            /\ t.todo = Items(t.doc) \/ t.wh = NoWarehouse
         \/ /\ Writing(tx[w]) /\ t.todo = tx[w].todo /\ t.wh = tx[w].wh
            /\ t.pc = tx[w].pc \/ {t.pc, tx[w].pc} \subseteq {"restore", "boxes"},
         TodoOK(t), WarehouseOK(t, order, out)
  PROVE  StockInv'
  BY SamePost, QuietStep

\* The updates keep a row in order; a reservation needs what it takes.
LEMMA MovedOK ==
  ASSUME NEW x \in InvRec, RowOK(x), NEW q \in Nat
  PROVE  /\ x.avail >= q => RowOK(Reserving(x, q))
         /\ RowOK(Releasing(x, q)) /\ RowOK(Shipping(x, q)) /\ RowOK(Adding(x, q))
  <1>1. /\ x.qty \in Int /\ x.locked \in Int /\ x.avail \in Int /\ q \in Int
        /\ x.avail >= 0 /\ (Relative => x.qty = x.locked + x.avail)
    BY RowFields DEF RowOK
  <1>2. ASSUME x.avail >= q
        PROVE  RowOK(Reserving(x, q))
    <2> DEFINE y == Reserving(x, q)
    <2>1. y.qty = x.qty /\ y.locked = x.locked + q /\ y.avail = x.avail - q
      BY <1>1, MovedFields
    <2> HIDE DEF y
    <2>2. RowOK(y)
      BY <1>1, <1>2, <2>1 DEF RowOK
    <2>3. QED
      BY <2>2 DEF y
  <1>3. RowOK(Releasing(x, q))
    <2> DEFINE y == Releasing(x, q)
    <2>1. y.qty = x.qty /\ y.locked = x.locked - q /\ y.avail = x.avail + q
      BY <1>1, MovedFields
    <2> HIDE DEF y
    <2>2. RowOK(y)
      BY <1>1, <2>1 DEF RowOK
    <2>3. QED
      BY <2>2 DEF y
  <1>4. RowOK(Shipping(x, q))
    <2> DEFINE y == Shipping(x, q)
    <2>1. y.qty = x.qty - q /\ y.locked = x.locked - q /\ y.avail = x.avail
      BY <1>1, MovedFields
    <2> HIDE DEF y
    <2>2. RowOK(y)
      BY <1>1, <2>1 DEF RowOK
    <2>3. QED
      BY <2>2 DEF y
  <1>5. RowOK(Adding(x, q))
    <2> DEFINE y == Adding(x, q)
    <2>1. y.qty = x.qty + q /\ y.locked = x.locked /\ y.avail = x.avail + q
      BY <1>1, MovedFields
    <2> HIDE DEF y
    <2>2. RowOK(y)
      BY <1>1, <2>1 DEF RowOK
    <2>3. QED
      BY <2>2 DEF y
  <1>6. QED
    BY <1>2, <1>3, <1>4, <1>5

\* lockOrderInventory, assertOrderInventoryLocked and releaseOrderInventory.
LEMMA InventoryLockKeeps ==
  ASSUME StockInv, OrderInv', NEW w \in Workers, InventoryLock(w)
  PROVE  StockInv'
  <1>0. /\ TypeOK /\ tx[w] \in Transaction /\ WellFormed(tx[w])
        /\ TodoOK(tx[w]) /\ WarehouseOK(tx[w], order, out)
    BY StockFacts
  <1>1. CASE ChooseWarehouse(w)
    <2>1. PICK h \in Warehouses :
            Continue(w, [tx[w] EXCEPT !.pc = "lock", !.wh = h, !.todo = Items(tx[w].doc)])
      BY <1>1 DEF ChooseWarehouse
    <2> DEFINE t == [tx[w] EXCEPT !.pc = "lock", !.wh = h, !.todo = Items(tx[w].doc)]
    <2>2. tx[w].doc \in Orders /\ tx[w].pc = "choose" /\ UNCHANGED rows /\ Continue(w, t)
      BY <1>0, <1>1, <2>1 DEF ChooseWarehouse, WellFormed
    <2>3. /\ t \in Transaction
          /\ t.op = tx[w].op /\ t.pc = "lock" /\ t.doc = tx[w].doc /\ t.seen = tx[w].seen
          /\ t.wh = h /\ t.todo = Items(t.doc) /\ t.item = tx[w].item /\ t.plan = tx[w].plan
          /\ t.post = tx[w].post
      BY <1>0, <2>2, ItemsType DEF Transaction, PcNames
    <2> HIDE DEF t
    <2>4. tx[w].op \in {"create", "approve"} /\ tx[w].item = NoGoods
      BY <1>0, <2>2 DEF TodoOK
    <2>5. TodoOK(t) /\ WarehouseOK(t, order, out)
      BY <1>0, <2>2, <2>3, <2>4 DEF TodoOK, WarehouseOK, Closers, Shippers
    <2>6. Writing(t) /\ ~Writing(tx[w])
      BY <2>2, <2>3 DEF Writing
    <2>7. QED
      BY <2>2, <2>3, <2>4, <2>5, <2>6, NoWriteStep
  <1>2. CASE LockItem(w)
    <2>1. PICK g \in tx[w].todo :
            LET r == <<tx[w].wh, g>>  q == Demand[tx[w].doc][g]
            IN  /\ Seen(w, r).avail >= q
                /\ WriteItem(w, g, r, Reserving(Seen(w, r), q))
      BY <1>2 DEF LockItem
    <2>2. PICK r \in InvRows : r = <<tx[w].wh, g>>
      BY <1>0, <1>2, InvRowType DEF LockItem, WellFormed, Transaction
    <2>3. PICK q \in Nat : q = Demand[tx[w].doc][g]
      BY <1>0, <1>2, DemandType DEF LockItem, WellFormed, Transaction, OrderHandlers
    <2>4. Writing(tx[w]) /\ tx[w].pc = "lock" /\ UNCHANGED rows
      BY <1>2 DEF LockItem, Writing
    <2>5. Seen(w, r) = inv[r] /\ inv[r] \in InvRec /\ RowOK(inv[r])
      BY <1>0, <2>2, <2>4, SeesCommitted DEF TypeOK, StockInv, RowsOK
    <2> DEFINE x == Reserving(inv[r], q)
    <2>6. inv[r].avail >= q /\ WriteItem(w, g, r, x)
      BY <2>1, <2>2, <2>3, <2>5
    <2>7. x = Moved(tx[w].pc, inv[r], Demand[tx[w].doc][g])
      BY <2>3, <2>4 DEF Moved
    <2>8. RowOK(x)
      BY <2>5, <2>6, MovedOK
    <2> HIDE DEF x
    <2>9. QED
      BY <2>2, <2>4, <2>6, <2>7, <2>8, WriteStep
  <1>3. CASE AssertItem(w)
    <2>1. PICK g \in tx[w].todo : Continue(w, [tx[w] EXCEPT !.todo = @ \ {g}])
      BY <1>3 DEF AssertItem
    <2> DEFINE t == [tx[w] EXCEPT !.todo = @ \ {g}]
    <2>2. tx[w].pc = "assert" /\ UNCHANGED rows /\ Continue(w, t)
      BY <1>3, <2>1 DEF AssertItem
    <2>3. /\ t \in Transaction
          /\ t.op = tx[w].op /\ t.pc = tx[w].pc /\ t.doc = tx[w].doc /\ t.seen = tx[w].seen
          /\ t.wh = tx[w].wh /\ t.item = tx[w].item /\ t.plan = tx[w].plan
          /\ t.post = tx[w].post
      BY <1>0 DEF Transaction
    <2> HIDE DEF t
    <2>4. TodoOK(t) /\ WarehouseOK(t, order, out) /\ ~Writing(t) /\ ~Writing(tx[w])
      BY <1>0, <2>2, <2>3 DEF TodoOK, WarehouseOK, Writing
    <2>5. QED
      BY <2>2, <2>3, <2>4, NoWriteStep
  <1>4. CASE ReleaseItem(w)
    <2>1. PICK g \in tx[w].todo :
            LET r == <<tx[w].wh, g>>  q == Demand[tx[w].doc][g]
            IN  WriteItem(w, g, r, Releasing(Seen(w, r), q))
      BY <1>4 DEF ReleaseItem
    <2>2. PICK r \in InvRows : r = <<tx[w].wh, g>>
      BY <1>0, <1>4, InvRowType DEF ReleaseItem, WellFormed, Transaction
    <2>3. PICK q \in Nat : q = Demand[tx[w].doc][g]
      BY <1>0, <1>4, DemandType DEF ReleaseItem, WellFormed, Transaction, OrderHandlers
    <2>4. Writing(tx[w]) /\ tx[w].pc = "release" /\ UNCHANGED rows
      BY <1>4 DEF ReleaseItem, Writing
    <2>5. Seen(w, r) = inv[r] /\ inv[r] \in InvRec /\ RowOK(inv[r])
      BY <1>0, <2>2, <2>4, SeesCommitted DEF TypeOK, StockInv, RowsOK
    <2> DEFINE x == Releasing(inv[r], q)
    <2>6. WriteItem(w, g, r, x)
      BY <2>1, <2>2, <2>3, <2>5
    <2>7. x = Moved(tx[w].pc, inv[r], Demand[tx[w].doc][g])
      BY <2>3, <2>4 DEF Moved
    <2>8. RowOK(x)
      BY <2>5, MovedOK
    <2> HIDE DEF x
    <2>9. QED
      BY <2>2, <2>4, <2>6, <2>7, <2>8, WriteStep
  <1>5. QED
    BY <1>1, <1>2, <1>3, <1>4 DEF InventoryLock

-----------------------------------------------------------------------------
(* Commits.                                                                *)

\* A handler that reserved stock gives its order the warehouse.
LEMMA TakeCommit ==
  ASSUME StockInv, OrderInv', NEW w \in Workers, End(w),
         inv' = Published(w), received' = received,
         NEW o \in Orders, NEW n \in OrderRec, NEW m \in OutRec,
         order' = [order EXCEPT ![o] = n], out' = [out EXCEPT ![o] = m],
         n.status # "NONE", n.status = "PENDING" /\ ~n.deleted => order[o].status = "NONE",
         out[o].status # "NONE" => m.wh = out[o].wh /\ m.status # "NONE",
         o = tx[w].doc, tx[w].pc = "lock", tx[w].todo = {},
         order[o].wh = NoWarehouse, n.wh = tx[w].wh,
         m = out[o] \/ (out[o].status # "COMPLETED" /\ m.status # "COMPLETED")
  PROVE  StockInv'
  <1>1. TypeOK /\ WellFormed(tx[w]) /\ Writing(tx[w]) /\ LockedMatchesHolders
    BY StockFacts DEF Writing, StockInv
  <1>2. tx[w].wh \in Warehouses
    BY <1>1 DEF WellFormed
  <1>3. ASSUME NEW r \in InvRows
        PROVE  /\ inv'[r].locked = WantedOf(Holders(order', r[1]), r)
               /\ Forward => inv'[r].qty + WantedOf(Shipped(out', r[1]), r) =
                               inv[r].qty + WantedOf(Shipped(out, r[1]), r)
    <2>1. PICK q : q = Portion(o, tx[w].wh, r)
      OBVIOUS
    <2>2. q \in Nat /\ inv'[r].qty = inv[r].qty /\ inv'[r].locked = inv[r].locked + q
      BY <1>1, <2>1, PublishedFields
    <2>3. WantedOf(Holders(order', r[1]), r) = WantedOf(Holders(order, r[1]), r) + q
      BY <1>1, <1>2, <2>1, HoldersTake
    <2>4. inv[r].locked = WantedOf(Holders(order, r[1]), r)
      BY <1>1, HeldCount DEF LockedMatchesHolders
    <2>5. WantedOf(Shipped(out', r[1]), r) = WantedOf(Shipped(out, r[1]), r)
      BY <1>1, ShippedSame
    <2>6. QED
      BY <2>2, <2>3, <2>4, <2>5
  <1>4. QED
    BY <1>3, StockCommit

\* A handler that gave the reserved stock back takes the warehouse from its
\* order.
LEMMA GiveCommit ==
  ASSUME StockInv, OrderInv', NEW w \in Workers, End(w),
         inv' = Published(w), received' = received,
         NEW o \in Orders, NEW n \in OrderRec, NEW m \in OutRec,
         order' = [order EXCEPT ![o] = n], out' = [out EXCEPT ![o] = m],
         n.status # "NONE", n.status = "PENDING" /\ ~n.deleted => order[o].status = "NONE",
         out[o].status # "NONE" => m.wh = out[o].wh /\ m.status # "NONE",
         o = tx[w].doc, tx[w].pc = "release", tx[w].todo = {},
         order[o].wh = tx[w].wh, n.wh = NoWarehouse,
         m = out[o] \/ (out[o].status # "COMPLETED" /\ m.status # "COMPLETED")
  PROVE  StockInv'
  <1>1. TypeOK /\ Writing(tx[w]) /\ LockedMatchesHolders
    BY StockFacts DEF Writing, StockInv
  <1>2. ASSUME NEW r \in InvRows
        PROVE  /\ inv'[r].locked = WantedOf(Holders(order', r[1]), r)
               /\ Forward => inv'[r].qty + WantedOf(Shipped(out', r[1]), r) =
                               inv[r].qty + WantedOf(Shipped(out, r[1]), r)
    <2>0. PICK h : h = tx[w].wh
      OBVIOUS
    <2>1. PICK q : q = Portion(o, h, r)
      OBVIOUS
    <2>2. /\ q \in Nat /\ inv[r].locked \in Int
          /\ inv'[r].qty = inv[r].qty /\ inv'[r].locked = inv[r].locked - q
      BY <1>1, <2>0, <2>1, PublishedFields
    <2>3. /\ WantedOf(Holders(order, r[1]), r) = WantedOf(Holders(order', r[1]), r) + q
          /\ WantedOf(Holders(order', r[1]), r) \in Nat
      <3>1. order[o].wh = h
        BY <2>0
      <3>2. QED
        BY <1>1, <2>1, <3>1, HoldersGive
    <2>4. inv[r].locked = WantedOf(Holders(order, r[1]), r)
      BY <1>1, HeldCount DEF LockedMatchesHolders
    <2>5. WantedOf(Shipped(out', r[1]), r) = WantedOf(Shipped(out, r[1]), r)
      BY <1>1, ShippedSame
    <2>6. inv'[r].locked = WantedOf(Holders(order', r[1]), r)
      BY ONLY <2>2, <2>3, <2>4
    <2>7. QED
      BY <2>2, <2>5, <2>6
  <1>3. QED
    BY <1>2, StockCommit

\* A handler that changed no locked quantity leaves its order's warehouse
\* alone, and changes what is shipped only if it takes an order back.
LEMMA SameCommit ==
  ASSUME StockInv, OrderInv', NEW w \in Workers, End(w),
         inv' = Published(w), received' = received,
         NEW o \in Orders, NEW n \in OrderRec, NEW m \in OutRec,
         order' = [order EXCEPT ![o] = n], out' = [out EXCEPT ![o] = m],
         n.status # "NONE", n.status = "PENDING" /\ ~n.deleted => order[o].status = "NONE",
         out[o].status # "NONE" => m.wh = out[o].wh /\ m.status # "NONE",
         \A r \in InvRows : inv'[r].locked = inv[r].locked,
         n.wh = order[o].wh,
         ~Forward \/ /\ \A r \in InvRows : inv'[r] = inv[r]
                     /\ m = out[o] \/ (out[o].status # "COMPLETED" /\ m.status # "COMPLETED")
  PROVE  StockInv'
  <1>1. TypeOK /\ LockedMatchesHolders
    BY DEF StockInv, OrderInv
  <1>2. ASSUME NEW r \in InvRows
        PROVE  /\ inv'[r].locked = WantedOf(Holders(order', r[1]), r)
               /\ Forward => inv'[r].qty + WantedOf(Shipped(out', r[1]), r) =
                               inv[r].qty + WantedOf(Shipped(out, r[1]), r)
    <2>1. WantedOf(Holders(order', r[1]), r) = WantedOf(Holders(order, r[1]), r)
      BY <1>1, HoldersSame
    <2>2. inv[r].locked = WantedOf(Holders(order, r[1]), r)
      BY <1>1, HeldCount DEF LockedMatchesHolders
    <2>3. Forward => WantedOf(Shipped(out', r[1]), r) = WantedOf(Shipped(out, r[1]), r)
      BY <1>1, ShippedSame
    <2>4. QED
      BY <2>1, <2>2, <2>3
  <1>3. QED
    BY <1>2, StockCommit

-----------------------------------------------------------------------------
(* The handlers.                                                           *)

\* OrderService.create keeps the invariant.
LEMMA CreateKeeps ==
  ASSUME StockInv, OrderInv', NEW w \in Workers, Create(w)
  PROVE  StockInv'
  <1>0. /\ TypeOK /\ tx[w] \in Transaction /\ WellFormed(tx[w]) /\ ClaimStillTrue(tx[w])
        /\ TodoOK(tx[w]) /\ WarehouseOK(tx[w], order, out)
    BY StockFacts
  <1>1. ASSUME NEW o \in Orders, CreateBegin(w, o)
        PROVE  StockInv'
    BY <1>1, BeginQuiet DEF CreateBegin, OrderHandlers, Shippers, Closers
  <1>2. CASE CreateLockStore(w)
    <2> DEFINE row == StoreRow(StoreOf[tx[w].doc])
               t == [tx[w] EXCEPT !.pc = "check", !.locks = @ \cup {row}]
    <2>1. Continue(w, t) /\ UNCHANGED rows /\ tx[w].op = "create" /\ tx[w].pc = "lockStore"
      BY <1>2 DEF CreateLockStore, At
    <2>2. row \in LockNames
      BY <1>0, <2>1, OrderStockAssumption DEF WellFormed, OrderHandlers, LockNames
    <2> HIDE DEF row
    <2>3. /\ t \in Transaction
          /\ t.op = tx[w].op /\ t.pc = "check" /\ t.doc = tx[w].doc /\ t.item = tx[w].item
          /\ t.plan = tx[w].plan /\ t.post = tx[w].post
      BY <1>0, <2>2 DEF Transaction, PcNames
    <2> HIDE DEF t
    <2>4. TodoOK(t) /\ WarehouseOK(t, order, out) /\ ~Writing(t) /\ ~Writing(tx[w])
      BY <1>0, <2>1, <2>3 DEF TodoOK, WarehouseOK, Writing, Closers, Shippers
    <2>5. QED
      BY <2>1, <2>3, <2>4, NoWriteStep
  <1>3. CASE CreateCheck(w)
    <2> DEFINE t == [tx[w] EXCEPT !.pc = "choose"]
    <2>1. Continue(w, t) /\ UNCHANGED rows /\ tx[w].op = "create" /\ tx[w].pc = "check"
      BY <1>3 DEF CreateCheck, At
    <2>2. /\ t \in Transaction
          /\ t.op = tx[w].op /\ t.pc = "choose" /\ t.doc = tx[w].doc /\ t.item = tx[w].item
          /\ t.plan = tx[w].plan /\ t.post = tx[w].post
      BY <1>0 DEF Transaction, PcNames
    <2> HIDE DEF t
    <2>3. TodoOK(t) /\ WarehouseOK(t, order, out) /\ ~Writing(t) /\ ~Writing(tx[w])
      BY <1>0, <2>1, <2>2 DEF TodoOK, WarehouseOK, Writing, Closers, Shippers
    <2>4. QED
      BY <2>1, <2>2, <2>3, NoWriteStep
  <1>4. CASE CreateCommit(w)
    <2>1. /\ tx[w].op = "create" /\ tx[w].pc = "lock" /\ tx[w].todo = {} /\ End(w)
          /\ inv' = Published(w) /\ UNCHANGED <<out, box, received>>
      BY <1>4 DEF CreateCommit, At
    <2>2. PICK o \in Orders : o = tx[w].doc
      BY <1>0, <2>1 DEF WellFormed, OrderHandlers
    <2>3. order[o].status = "NONE" /\ order[o].wh = NoWarehouse
      BY <1>0, <2>1, <2>2 DEF ClaimStillTrue, StockInv, OrderInv, HoldersAreOpen, HolderIsOpen
    <2>4. [status |-> "PENDING", deleted |-> FALSE, wh |-> tx[w].wh] \in OrderRec
      BY <1>0 DEF OrderRec, OrderStatus, Transaction
    <2>5. PICK n \in OrderRec : n = [status |-> "PENDING", deleted |-> FALSE, wh |-> tx[w].wh]
      BY <2>4
    <2>6. order' = [order EXCEPT ![o] = n]
      BY <1>4, <2>2, <2>5 DEF CreateCommit, SetOrder
    <2>7. PICK m \in OutRec : m = out[o]
      BY <1>0 DEF TypeOK
    <2>8. out' = [out EXCEPT ![o] = m] /\ received' = received
      BY <1>0, <2>1, <2>7 DEF TypeOK
    <2>9. n.status = "PENDING" /\ n.wh = tx[w].wh
      BY <2>5
    <2>10. n.status # "NONE"
      BY <2>9
    <2>11. n.status = "PENDING" /\ ~n.deleted => order[o].status = "NONE"
      BY <2>3
    <2>12. out[o].status # "NONE" => m.wh = out[o].wh /\ m.status # "NONE"
      BY <2>7
    <2>13. m = out[o] \/ (out[o].status # "COMPLETED" /\ m.status # "COMPLETED")
      BY <2>7
    <2>14. tx[w].pc = "lock" /\ tx[w].todo = {} /\ End(w) /\ inv' = Published(w)
      BY <2>1
    <2>15. order[o].wh = NoWarehouse
      BY <2>3
    <2>16. n.wh = tx[w].wh
      BY <2>9
    <2>17. QED
      BY <2>2, <2>6, <2>8, <2>10, <2>11, <2>12, <2>13, <2>14, <2>15, <2>16, TakeCommit
  <1>5. QED
    BY <1>1, <1>2, <1>3, <1>4 DEF Create

\* OrderApprovalService.approve keeps the invariant: an order without a
\* warehouse gets one, the others keep theirs.
LEMMA ApproveKeeps ==
  ASSUME StockInv, OrderInv', NEW w \in Workers, Approve(w)
  PROVE  StockInv'
  <1>0. /\ TypeOK /\ tx[w] \in Transaction /\ WellFormed(tx[w]) /\ ClaimStillTrue(tx[w])
        /\ TodoOK(tx[w]) /\ WarehouseOK(tx[w], order, out)
    BY StockFacts
  <1>1. ASSUME NEW o \in Orders, ApproveRead(w, o)
        PROVE  StockInv'
    BY <1>1, BeginQuiet DEF ApproveRead, OrderHandlers, Shippers, Closers
  <1>2. CASE ApproveClaim(w)
    <2>1. PICK o \in Orders : o = tx[w].doc
      BY <1>0, <1>2 DEF ApproveClaim, At, WellFormed, OrderHandlers
    <2> DEFINE t == [tx[w] EXCEPT !.locks = @ \cup {OrderRow(o)}, !.todo = Items(o),
                                  !.pc = IF tx[w].wh = NoWarehouse THEN "choose" ELSE "assert"]
    <2>2. /\ Continue(w, t) /\ UNCHANGED rows /\ tx[w].op = "approve" /\ tx[w].pc = "claim"
          /\ order[o].status = "PENDING" /\ ~order[o].deleted
      BY <1>2, <2>1 DEF ApproveClaim, At
    <2>3. /\ t \in Transaction
          /\ t.op = tx[w].op /\ t.doc = o /\ t.wh = tx[w].wh /\ t.seen = tx[w].seen
          /\ t.pc = IF tx[w].wh = NoWarehouse THEN "choose" ELSE "assert"
          /\ t.item = tx[w].item /\ t.plan = tx[w].plan /\ t.post = tx[w].post
      BY <1>0, <2>1, ItemsType DEF Transaction, PcNames, LockNames
    <2> HIDE DEF t
    <2>4. TodoOK(t) /\ ~Writing(t) /\ ~Writing(tx[w])
      BY <1>0, <2>2, <2>3 DEF TodoOK, Writing
    <2>5. WarehouseOK(t, order, out)
      BY <1>0, <2>1, <2>2, <2>3 DEF WarehouseOK, Closers, Shippers
    <2>6. QED
      BY <2>1, <2>2, <2>3, <2>4, <2>5, NoWriteStep
  <1>3. CASE ApproveCommit(w)
    <2>1. /\ tx[w].op = "approve" /\ tx[w].pc \in {"lock", "assert"} /\ tx[w].todo = {}
          /\ End(w) /\ inv' = Published(w) /\ received' = received
      BY <1>3 DEF ApproveCommit, At
    <2>2. PICK o \in Orders : o = tx[w].doc
      BY <1>0, <2>1 DEF WellFormed, OrderHandlers
    <2> DEFINE n == [status |-> "APPROVED", deleted |-> FALSE, wh |-> tx[w].wh]
               m == [status |-> "PENDING", wh |-> tx[w].wh]
    <2>3. /\ order[o].status = "PENDING" /\ ~order[o].deleted /\ out[o].status = "NONE"
          /\ order[o].wh = IF tx[w].pc = "lock" THEN NoWarehouse ELSE tx[w].wh
      BY <1>0, <1>3, <2>1, <2>2 DEF ClaimStillTrue, ApproveCommit, WarehouseOK
    <2>4. /\ n \in OrderRec /\ n.status = "APPROVED" /\ n.wh = tx[w].wh
          /\ m \in OutRec /\ m.status = "PENDING"
          /\ order' = [order EXCEPT ![o] = n] /\ out' = [out EXCEPT ![o] = m]
      BY <1>0, <1>3, <2>2
      DEF OrderRec, OrderStatus, OutRec, OutStatus, ApproveCommit, SetOrder, Transaction
    <2> HIDE DEF n, m
    <2>5. CASE tx[w].pc = "lock"
      BY <2>1, <2>2, <2>3, <2>4, <2>5, TakeCommit
    <2>6. CASE tx[w].pc = "assert"
      <3>1. \A r \in InvRows : inv'[r] = inv[r]
        BY <2>1, <2>6, PublishedSame DEF Writing
      <3>2. QED
        BY <2>1, <2>2, <2>3, <2>4, <2>6, <3>1, SameCommit
    <2>7. QED
      BY <2>1, <2>5, <2>6
  <1>4. QED
    BY <1>1, <1>2, <1>3 DEF Approve

\* Rejection, the store's revocation and the deletion keep the invariant:
\* they give back exactly what the order holds.
LEMMA CloseKeeps ==
  ASSUME StockInv, OrderInv', NEW w \in Workers, Close(w)
  PROVE  StockInv'
  <1>0. /\ TypeOK /\ tx[w] \in Transaction /\ WellFormed(tx[w]) /\ ClaimStillTrue(tx[w])
        /\ TodoOK(tx[w]) /\ WarehouseOK(tx[w], order, out)
    BY StockFacts
  <1>1. ASSUME NEW o \in Orders, RejectRead(w, o) \/ RevokeRead(w, o) \/ DeleteRead(w, o)
        PROVE  StockInv'
    <2>1. order[o].status = "REJECTED" => order[o].wh = NoWarehouse
      BY DEF StockInv, OrderInv, HoldersAreOpen, HolderIsOpen
    <2>2. CASE RejectRead(w, o)
      BY <2>2, BeginQuiet DEF RejectRead, OrderHandlers, Shippers, Closers
    <2>3. CASE RevokeRead(w, o)
      BY <2>1, <2>3, BeginQuiet DEF RevokeRead, OrderHandlers, Shippers, Closers
    <2>4. CASE DeleteRead(w, o)
      BY <2>1, <2>4, BeginQuiet DEF DeleteRead, OrderHandlers, Shippers, Closers
    <2>5. QED
      BY <1>1, <2>2, <2>3, <2>4
  <1>2. CASE CloseClaim(w)
    <2>1. PICK o \in Orders : o = tx[w].doc
      BY <1>0, <1>2 DEF CloseClaim, WellFormed, OrderHandlers
    <2> DEFINE t == [tx[w] EXCEPT !.locks = @ \cup {OrderRow(o)}, !.pc = "release",
                                  !.todo = IF tx[w].wh = NoWarehouse THEN {} ELSE Items(o)]
    <2>2. /\ Continue(w, t) /\ UNCHANGED rows /\ tx[w].op \in Closers /\ tx[w].pc = "claim"
          /\ order[o].status = tx[w].seen /\ ~order[o].deleted
      BY <1>2, <2>1 DEF CloseClaim, Closers
    <2>3. /\ t \in Transaction
          /\ t.op = tx[w].op /\ t.doc = o /\ t.wh = tx[w].wh /\ t.seen = tx[w].seen
          /\ t.pc = "release" /\ t.todo = (IF tx[w].wh = NoWarehouse THEN {} ELSE Items(o))
          /\ t.item = tx[w].item /\ t.plan = tx[w].plan /\ t.post = tx[w].post
      BY <1>0, <2>1, ItemsType DEF Transaction, PcNames, LockNames
    <2> HIDE DEF t
    <2>4. TodoOK(t) /\ Writing(t) /\ ~Writing(tx[w])
      BY <1>0, <2>2, <2>3 DEF TodoOK, Writing, Closers
    <2>5. WarehouseOK(t, order, out)
      BY <1>0, <2>1, <2>2, <2>3 DEF WarehouseOK, Closers, Shippers
    <2>6. t.op # "stockIn" /\ (t.todo = Items(t.doc) \/ t.wh = NoWarehouse)
      BY <2>2, <2>3 DEF Closers
    <2>7. QED
      BY <2>1, <2>2, <2>3, <2>4, <2>5, <2>6, NoWriteStep
  <1>3. ASSUME NEW o \in Orders, o = tx[w].doc,
               tx[w].op \in Closers, tx[w].pc = "release", tx[w].todo = {}, NEW n \in OrderRec,
               order' = [order EXCEPT ![o] = n],
               n = [status |-> "REJECTED", deleted |-> FALSE, wh |-> NoWarehouse]
                 \/ n = [status |-> order[o].status, deleted |-> TRUE, wh |-> NoWarehouse],
               inv' = Published(w), End(w), out' = out, received' = received
        PROVE  StockInv'
    <2>1. order[o].status = tx[w].seen /\ ~order[o].deleted /\ tx[w].seen \in {"PENDING", "REJECTED"}
      BY <1>0, <1>3 DEF ClaimStillTrue
    <2>2. order[o].wh = tx[w].wh
      <3>1. CASE tx[w].seen = "PENDING"
        BY <1>0, <1>3, <2>1, <3>1 DEF WarehouseOK
      <3>2. CASE tx[w].seen = "REJECTED"
        <4>1. order[o].wh = NoWarehouse
          BY <2>1, <3>2 DEF StockInv, OrderInv, HoldersAreOpen, HolderIsOpen
        <4>2. QED
          BY <1>0, <1>3, <3>2, <4>1 DEF WarehouseOK
      <3>3. QED
        BY <2>1, <3>1, <3>2
    <2>3. PICK m \in OutRec : m = out[o]
      BY <1>0 DEF TypeOK
    <2>4. out' = [out EXCEPT ![o] = m]
      BY <1>0, <1>3, <2>3 DEF TypeOK
    <2>5. n.status # "NONE" /\ n.wh = NoWarehouse
      BY <1>3, <2>1
    <2>6. n.status = "PENDING" /\ ~n.deleted => order[o].status = "NONE"
      BY <1>3
    <2>7. out[o].status # "NONE" => m.wh = out[o].wh /\ m.status # "NONE"
      BY <2>3
    <2>8. /\ o = tx[w].doc /\ tx[w].pc = "release" /\ tx[w].todo = {} /\ End(w)
          /\ order' = [order EXCEPT ![o] = n] /\ inv' = Published(w) /\ received' = received
      BY <1>3
    <2>9. m = out[o] \/ (out[o].status # "COMPLETED" /\ m.status # "COMPLETED")
      BY <2>3
    <2>10. QED
      BY <2>2, <2>4, <2>5, <2>6, <2>7, <2>8, <2>9, GiveCommit
  <1>4. CASE RejectCommit(w)
    <2>1. tx[w].op = "reject" /\ tx[w].doc \in Orders
      BY <1>0, <1>4 DEF RejectCommit, At, WellFormed, OrderHandlers
    <2>2. [status |-> "REJECTED", deleted |-> FALSE, wh |-> NoWarehouse] \in OrderRec
      BY DEF OrderRec, OrderStatus
    <2>3. QED
      BY <1>3, <1>4, <2>1, <2>2 DEF RejectCommit, At, SetOrder, Closers
  <1>5. CASE DeleteCommit(w)
    <2>1. tx[w].op \in {"revoke", "delete"} /\ tx[w].pc = "release"
      BY <1>5 DEF DeleteCommit, At
    <2>2. PICK o \in Orders : o = tx[w].doc
      BY <1>0, <2>1 DEF WellFormed, OrderHandlers
    <2>3. [status |-> order[o].status, deleted |-> TRUE, wh |-> NoWarehouse] \in OrderRec
      BY <1>0 DEF TypeOK, OrderRec
    <2>4. QED
      BY <1>3, <1>5, <2>1, <2>2, <2>3 DEF DeleteCommit, SetOrder, Closers
  <1>6. QED
    BY <1>1, <1>2, <1>4, <1>5 DEF Close

\* An order whose stock-out is pending is approved, and holds its stock in the
\* warehouse of the stock-out.
LEMMA PendingHolds ==
  ASSUME StockInv, NEW o \in Orders, out[o].status = "PENDING"
  PROVE  order[o].status = "APPROVED" /\ ~order[o].deleted /\ order[o].wh = out[o].wh
  <1>1. order[o].status = "APPROVED"
    BY DEF StockInv, OrderInv, OrderMatchesStockOut, StockOutStatusOf, TypeOK, OrderRec, OrderStatus
  <1>2. QED
    BY <1>1 DEF StockInv, OrderInv, HoldersAreOpen, HolderIsOpen, RowConsistent

\* The claim of a stock-out that complete and cancel begin with.
LEMMA ClaimKeeps ==
  ASSUME StockInv, OrderInv', NEW w \in Workers, NEW o \in Orders, o = tx[w].doc,
         tx[w].op \in Shippers, tx[w].pc = "claim", NEW pc \in {"ship", "release"},
         Continue(w, [tx[w] EXCEPT !.locks = @ \cup {OutRow(o)}, !.todo = Items(o), !.pc = pc]),
         UNCHANGED rows
  PROVE  StockInv'
  <1>0. /\ TypeOK /\ tx[w] \in Transaction
        /\ TodoOK(tx[w]) /\ WarehouseOK(tx[w], order, out)
    BY StockFacts
  <1> DEFINE t == [tx[w] EXCEPT !.locks = @ \cup {OutRow(o)}, !.todo = Items(o), !.pc = pc]
  <1>1. /\ t \in Transaction
        /\ t.op = tx[w].op /\ t.doc = o /\ t.wh = tx[w].wh /\ t.pc = pc /\ t.todo = Items(o)
        /\ t.item = tx[w].item /\ t.plan = tx[w].plan /\ t.post = tx[w].post
    BY <1>0, ItemsType DEF Transaction, PcNames, LockNames
  <1>2. Continue(w, t)
    OBVIOUS
  <1> HIDE DEF t
  <1>3. TodoOK(t) /\ Writing(t) /\ ~Writing(tx[w]) /\ t.op # "stockIn"
    BY <1>0, <1>1 DEF TodoOK, Writing, Shippers
  <1>4. WarehouseOK(t, order, out)
    BY <1>0, <1>1 DEF WarehouseOK, Closers, Shippers
  <1>5. QED
    BY <1>1, <1>2, <1>3, <1>4, NoWriteStep

\* StockOutService.complete keeps the invariant: it ships exactly what the
\* order holds.
LEMMA ShipKeeps ==
  ASSUME StockInv, OrderInv', NEW w \in Workers, Ship(w)
  PROVE  StockInv'
  <1>0. /\ TypeOK /\ tx[w] \in Transaction /\ WellFormed(tx[w]) /\ ClaimStillTrue(tx[w])
        /\ TodoOK(tx[w]) /\ WarehouseOK(tx[w], order, out)
    BY StockFacts
  <1>1. ASSUME NEW o \in Orders, ShipRead(w, o)
        PROVE  StockInv'
    BY <1>1, BeginQuiet DEF ShipRead, OrderHandlers, Shippers, Closers
  <1>2. CASE ShipClaim(w)
    <2>1. tx[w].op = "complete" /\ tx[w].doc \in Orders
      BY <1>0, <1>2 DEF ShipClaim, At, WellFormed, OrderHandlers
    <2>2. QED
      BY <1>2, <2>1, ClaimKeeps DEF ShipClaim, At, Shippers
  <1>3. CASE ShipCheckItem(w)
    <2>1. PICK g \in tx[w].todo : Continue(w, [tx[w] EXCEPT !.item = g])
      BY <1>3 DEF ShipCheckItem
    <2> DEFINE t == [tx[w] EXCEPT !.item = g]
    <2>2. /\ t \in Transaction
          /\ t.op = tx[w].op /\ t.pc = tx[w].pc /\ t.doc = tx[w].doc /\ t.seen = tx[w].seen
          /\ t.wh = tx[w].wh /\ t.todo = tx[w].todo /\ t.item = g /\ t.plan = tx[w].plan
          /\ t.post = tx[w].post
      BY <1>0 DEF Transaction
    <2>3. /\ tx[w].op = "complete" /\ tx[w].pc = "ship" /\ UNCHANGED rows /\ Continue(w, t)
      BY <1>3, <2>1 DEF ShipCheckItem, At
    <2> HIDE DEF t
    <2>4. TodoOK(t) /\ WarehouseOK(t, order, out) /\ Writing(tx[w])
      BY <1>0, <2>2, <2>3 DEF TodoOK, WarehouseOK, Writing
    <2>5. QED
      BY <2>2, <2>3, <2>4, NoWriteStep
  <1>4. CASE ShipItem(w)
    <2>1. /\ tx[w].op = "complete" /\ tx[w].pc = "ship" /\ tx[w].item # NoGoods /\ UNCHANGED rows
          /\ LET g == tx[w].item  r == <<tx[w].wh, g>>  q == Demand[tx[w].doc][g]
             IN  WriteItem(w, g, r, Shipping(Seen(w, r), q))
      BY <1>4 DEF ShipItem, At
    <2>2. PICK g \in tx[w].todo : g = tx[w].item
      BY <1>0, <2>1 DEF TodoOK
    <2>3. PICK r \in InvRows : r = <<tx[w].wh, g>>
      BY <1>0, <2>1, InvRowType DEF WellFormed, Transaction, Shippers
    <2>4. PICK q \in Nat : q = Demand[tx[w].doc][g]
      BY <1>0, <2>1, DemandType DEF WellFormed, Transaction, OrderHandlers
    <2>5. Writing(tx[w])
      BY <2>1 DEF Writing
    <2>6. Seen(w, r) = inv[r] /\ inv[r] \in InvRec /\ RowOK(inv[r])
      BY <1>0, <2>3, <2>5, SeesCommitted DEF TypeOK, StockInv, RowsOK
    <2> DEFINE x == Shipping(inv[r], q)
    <2>7. WriteItem(w, g, r, x)
      BY <2>1, <2>2, <2>3, <2>4, <2>6
    <2>8. x = Moved(tx[w].pc, inv[r], Demand[tx[w].doc][g])
      BY <2>1, <2>4 DEF Moved
    <2>9. RowOK(x)
      BY <2>6, MovedOK
    <2> HIDE DEF x
    <2>10. QED
      BY <2>1, <2>3, <2>5, <2>7, <2>8, <2>9, WriteStep
  <1>5. CASE ShipCommit(w)
    <2>1. /\ tx[w].op = "complete" /\ tx[w].pc = "ship" /\ tx[w].todo = {}
          /\ End(w) /\ inv' = Published(w) /\ received' = received
      BY <1>5 DEF ShipCommit, At
    <2>2. PICK o \in Orders : o = tx[w].doc
      BY <1>0, <2>1 DEF WellFormed, OrderHandlers
    <2>3. PICK h : h = tx[w].wh
      OBVIOUS
    <2>4. out[o].status = "PENDING" /\ out[o].wh = h
      BY <1>0, <2>1, <2>2, <2>3 DEF ClaimStillTrue, WarehouseOK, Shippers
    <2>5. order[o].status = "APPROVED" /\ order[o].wh = h
      BY <2>4, PendingHolds
    <2> DEFINE n == [order[o] EXCEPT !.status = "PROCESSING", !.wh = NoWarehouse]
               m == [out[o] EXCEPT !.status = "COMPLETED"]
    <2>6. order' = [order EXCEPT ![o] = n] /\ out' = [out EXCEPT ![o] = m]
      BY <1>5, <2>2 DEF ShipCommit
    <2>7. /\ n \in OrderRec /\ n.status = "PROCESSING" /\ n.wh = NoWarehouse
          /\ m \in OutRec /\ m.status = "COMPLETED" /\ m.wh = h
      BY <1>0, <2>4 DEF TypeOK, OrderRec, OrderStatus, OutRec, OutStatus
    <2> HIDE DEF n, m
    <2>8. ASSUME NEW r \in InvRows
          PROVE  /\ inv'[r].locked = WantedOf(Holders(order', r[1]), r)
                 /\ Forward => inv'[r].qty + WantedOf(Shipped(out', r[1]), r) =
                                 inv[r].qty + WantedOf(Shipped(out, r[1]), r)
      <3>1. PICK q : q = Portion(o, h, r)
        OBVIOUS
      <3>2. Writing(tx[w]) /\ LockedMatchesHolders
        BY <2>1 DEF Writing, StockInv
      <3>3. /\ q \in Nat /\ inv[r].qty \in Int /\ inv[r].locked \in Int
            /\ inv'[r].qty = inv[r].qty - q /\ inv'[r].locked = inv[r].locked - q
        BY <2>1, <2>2, <2>3, <3>1, <3>2, PublishedFields
      <3>4. /\ WantedOf(Holders(order, r[1]), r) = WantedOf(Holders(order', r[1]), r) + q
            /\ WantedOf(Holders(order', r[1]), r) \in Nat
        BY <1>0, <2>5, <2>6, <2>7, <3>1, HoldersGive
      <3>5. inv[r].locked = WantedOf(Holders(order, r[1]), r)
        BY <3>2, HeldCount DEF LockedMatchesHolders
      <3>6. /\ WantedOf(Shipped(out', r[1]), r) = WantedOf(Shipped(out, r[1]), r) + q
            /\ WantedOf(Shipped(out, r[1]), r) \in Nat
        BY <1>0, <2>4, <2>6, <2>7, <3>1, ShippedTake
      <3>7. inv'[r].locked = WantedOf(Holders(order', r[1]), r)
        BY ONLY <3>3, <3>4, <3>5
      <3>8. inv'[r].qty + WantedOf(Shipped(out', r[1]), r) =
              inv[r].qty + WantedOf(Shipped(out, r[1]), r)
        BY ONLY <3>3, <3>6
      <3>9. QED
        BY <3>7, <3>8
    <2>9. n.status # "NONE" /\ (n.status = "PENDING" /\ ~n.deleted => order[o].status = "NONE")
      BY <2>7
    <2>10. out[o].status # "NONE" => m.wh = out[o].wh /\ m.status # "NONE"
      BY <2>4, <2>7
    <2>11. n \in OrderRec /\ m \in OutRec
      BY <2>7
    <2>12. QED
      BY <2>1, <2>6, <2>8, <2>9, <2>10, <2>11, StockCommit
  <1>6. QED
    BY <1>1, <1>2, <1>3, <1>4, <1>5 DEF Ship

\* StockOutService.cancel keeps the invariant: it gives back exactly what the
\* order holds.
LEMMA CancelKeeps ==
  ASSUME StockInv, OrderInv', NEW w \in Workers, Cancel(w)
  PROVE  StockInv'
  <1>0. /\ TypeOK /\ tx[w] \in Transaction /\ WellFormed(tx[w]) /\ ClaimStillTrue(tx[w])
        /\ TodoOK(tx[w]) /\ WarehouseOK(tx[w], order, out)
    BY StockFacts
  <1>1. ASSUME NEW o \in Orders, CancelRead(w, o)
        PROVE  StockInv'
    BY <1>1, BeginQuiet DEF CancelRead, OrderHandlers, Shippers, Closers
  <1>2. CASE CancelClaim(w)
    <2>1. tx[w].op = "cancel" /\ tx[w].doc \in Orders
      BY <1>0, <1>2 DEF CancelClaim, At, WellFormed, OrderHandlers
    <2>2. QED
      BY <1>2, <2>1, ClaimKeeps DEF CancelClaim, At, Shippers
  <1>3. CASE CancelCommit(w)
    <2>1. /\ tx[w].op = "cancel" /\ tx[w].pc = "release" /\ tx[w].todo = {}
          /\ End(w) /\ inv' = Published(w) /\ received' = received
      BY <1>3 DEF CancelCommit, At
    <2>2. PICK o \in Orders : o = tx[w].doc
      BY <1>0, <2>1 DEF WellFormed, OrderHandlers
    <2>3. out[o].status = "PENDING" /\ out[o].wh = tx[w].wh
      BY <1>0, <2>1, <2>2 DEF ClaimStillTrue, WarehouseOK, Shippers
    <2>4. order[o].wh = tx[w].wh
      BY <2>3, PendingHolds
    <2> DEFINE n == [status |-> "CANCELLED", deleted |-> FALSE, wh |-> NoWarehouse]
               m == [out[o] EXCEPT !.status = "CANCELLED"]
    <2>5. order' = [order EXCEPT ![o] = n] /\ out' = [out EXCEPT ![o] = m]
      BY <1>3, <2>2 DEF CancelCommit, SetOrder
    <2>6. /\ n \in OrderRec /\ n.status = "CANCELLED" /\ n.wh = NoWarehouse
          /\ m \in OutRec /\ m.status = "CANCELLED" /\ m.wh = out[o].wh
      BY <1>0 DEF TypeOK, OrderRec, OrderStatus, OutRec, OutStatus
    <2> HIDE DEF n, m
    <2>7. n.status # "NONE" /\ (n.status = "PENDING" /\ ~n.deleted => order[o].status = "NONE")
      BY <2>6
    <2>8. /\ out[o].status # "NONE" => m.wh = out[o].wh /\ m.status # "NONE"
          /\ m = out[o] \/ (out[o].status # "COMPLETED" /\ m.status # "COMPLETED")
      BY <2>3, <2>6
    <2>9. n \in OrderRec /\ m \in OutRec /\ n.wh = NoWarehouse
      BY <2>6
    <2>10. QED
      BY <2>1, <2>2, <2>4, <2>5, <2>7, <2>8, <2>9, GiveCommit
  <1>4. QED
    BY <1>1, <1>2, <1>3 DEF Cancel

\* OrderService.confirmReceipt keeps the invariant: it moves no stock.
LEMMA ConfirmKeeps ==
  ASSUME StockInv, OrderInv', NEW w \in Workers, Confirm(w)
  PROVE  StockInv'
  <1>0. /\ TypeOK /\ WellFormed(tx[w]) /\ TodoOK(tx[w])
    BY StockFacts
  <1>1. ASSUME NEW o \in Orders, ConfirmRead(w, o)
        PROVE  StockInv'
    BY <1>1, BeginQuiet DEF ConfirmRead, OrderHandlers, Shippers, Closers
  <1>2. CASE ConfirmCommit(w)
    <2>1. /\ tx[w].op = "confirmReceipt" /\ tx[w].pc = "claim" /\ End(w)
          /\ out' = out /\ inv' = inv /\ received' = received
      BY <1>2 DEF ConfirmCommit, At
    <2>2. PICK o \in Orders : o = tx[w].doc
      BY <1>0, <2>1 DEF WellFormed, OrderHandlers
    <2> DEFINE n == [order[o] EXCEPT !.status = "COMPLETED"]
    <2>3. order' = [order EXCEPT ![o] = n]
      BY <1>2, <2>2 DEF ConfirmCommit
    <2>4. n \in OrderRec /\ n.status = "COMPLETED" /\ n.wh = order[o].wh
      BY <1>0 DEF TypeOK, OrderRec, OrderStatus
    <2> HIDE DEF n
    <2>5. \A p \in Orders : order'[p] = IF p = o THEN n ELSE order[p]
      BY <1>0, <2>3 DEF TypeOK
    <2>6. \A p \in Orders :
            order'[p] = order[p]
              \/ /\ order'[p].status # "NONE"
                 /\ order'[p].status = "PENDING" /\ ~order'[p].deleted => order[p].status = "NONE"
      BY <2>4, <2>5
    <2>7. \A r \in InvRows : WantedOf(Holders(order', r[1]), r) = WantedOf(Holders(order, r[1]), r)
      BY <1>0, <2>3, <2>4, HoldersSame
    <2>8. LockedMatchesHolders'
      BY <2>1, <2>7, HeldCount DEF StockInv, LockedMatchesHolders
    <2>9. RowsOK' /\ (Forward => received' = {} /\ StockConserved')
      BY <2>1 DEF StockInv, RowsOK, RowOK, StockConserved, ShippedUnits, ReceivedUnits, Units
    <2>10. /\ \A p \in Orders :
                out[p].status # "NONE" => out'[p].wh = out[p].wh /\ out'[p].status # "NONE"
           /\ \A v \in Workers \ {w}, r \in InvRows : tx[v].post[r] # Untouched => inv'[r] = inv[r]
      BY <2>1
    <2>11. End(w)
      BY <2>1
    <2>12. QED
      BY <2>6, <2>8, <2>9, <2>10, <2>11, EndingStep
  <1>3. QED
    BY <1>1, <1>2 DEF Confirm

\* The revocation restores goods and leaves what is locked.
LEMMA RestoresAvailable ==
  ASSUME StockInv, NEW w \in Workers, tx[w].pc \in {"restore", "boxes"}, NEW r \in InvRows
  PROVE  Published(w)[r].locked = inv[r].locked
  <1>1. /\ PostOK(tx[w], inv) /\ Writing(tx[w]) /\ tx[w].doc \in Orders /\ tx[w].op # "stockIn"
        /\ inv[r] \in InvRec
    BY StockFacts DEF TodoOK, Writing, TypeOK
  <1>2. CASE tx[w].post[r] = Untouched
    BY <1>2 DEF Published, Seen
  <1>3. CASE tx[w].post[r] # Untouched
    <2>1. r[2] \in Goods /\ tx[w].post[r] = Moved(tx[w].pc, inv[r], Demand[tx[w].doc][r[2]])
      BY <1>1, <1>3, RowOf DEF PostOK
    <2>2. Demand[tx[w].doc][r[2]] \in Int
      BY <1>1, <2>1, DemandType
    <2>3. tx[w].post[r].locked = inv[r].locked
      BY <1>1, <2>1, <2>2, MovedFields DEF Moved
    <2>4. QED
      BY <1>3, <2>3 DEF Published, Seen
  <1>4. QED
    BY <1>2, <1>3

\* OrderRevocationService.revokeOrder keeps the invariant.
LEMMA UndoKeeps ==
  ASSUME StockInv, OrderInv', NEW w \in Workers, Undo(w)
  PROVE  StockInv'
  <1>0. /\ TypeOK /\ tx[w] \in Transaction /\ WellFormed(tx[w]) /\ ClaimStillTrue(tx[w])
        /\ TodoOK(tx[w]) /\ WarehouseOK(tx[w], order, out)
    BY StockFacts
  <1>1. ASSUME NEW o \in Orders, UndoRead(w, o)
        PROVE  StockInv'
    BY <1>1, BeginQuiet DEF UndoRead, OrderHandlers, Shippers, Closers
  <1>2. CASE UndoReadOut(w)
    <2>1. PICK o \in Orders : o = tx[w].doc
      BY <1>0, <1>2 DEF UndoReadOut, At, WellFormed, OrderHandlers
    <2> DEFINE t == [tx[w] EXCEPT !.pc = "claim", !.wh = out[o].wh]
    <2>2. /\ Continue(w, t) /\ UNCHANGED rows /\ tx[w].op = "revocation" /\ tx[w].pc = "readOut"
          /\ out[o].wh \in Warehouses \cup {NoWarehouse}
      BY <1>0, <1>2, <2>1 DEF UndoReadOut, At, TypeOK, OutRec
    <2>3. /\ t \in Transaction
          /\ t.op = tx[w].op /\ t.doc = tx[w].doc /\ t.pc = "claim" /\ t.item = tx[w].item
          /\ t.plan = tx[w].plan /\ t.post = tx[w].post
      BY <1>0, <2>2 DEF Transaction, PcNames
    <2> HIDE DEF t
    <2>4. TodoOK(t) /\ WarehouseOK(t, order, out) /\ ~Writing(t) /\ ~Writing(tx[w])
      BY <1>0, <2>2, <2>3 DEF TodoOK, WarehouseOK, Writing, Closers, Shippers
    <2>5. QED
      BY <2>2, <2>3, <2>4, NoWriteStep
  <1>3. CASE UndoUpdate(w)
    <2>1. PICK o \in Orders : o = tx[w].doc
      BY <1>0, <1>3 DEF UndoUpdate, At, WellFormed, OrderHandlers
    <2> DEFINE t == [tx[w] EXCEPT !.locks = @ \cup {OrderRow(o), OutRow(o)},
                                  !.todo = Items(o), !.pc = "restore"]
    <2>2. /\ Continue(w, t) /\ UNCHANGED rows /\ tx[w].op = "revocation" /\ tx[w].pc = "claim"
      BY <1>3, <2>1 DEF UndoUpdate, At
    <2>3. /\ t \in Transaction
          /\ t.op = tx[w].op /\ t.doc = tx[w].doc /\ t.pc = "restore" /\ t.item = tx[w].item
          /\ t.plan = tx[w].plan /\ t.post = tx[w].post /\ t.todo = Items(t.doc)
      BY <1>0, <2>1, ItemsType DEF Transaction, PcNames, LockNames
    <2> HIDE DEF t
    <2>4. /\ TodoOK(t) /\ WarehouseOK(t, order, out) /\ Writing(t) /\ ~Writing(tx[w])
          /\ t.op # "stockIn"
      BY <1>0, <2>1, <2>2, <2>3 DEF TodoOK, WarehouseOK, Writing, Closers, Shippers
    <2>5. QED
      BY <2>2, <2>3, <2>4, NoWriteStep
  <1>4. CASE UndoItem(w)
    <2>1. PICK g \in tx[w].todo :
            LET r == <<tx[w].wh, g>>  q == Demand[tx[w].doc][g]
            IN  WriteItem(w, g, r, Adding(Seen(w, r), q))
      BY <1>4 DEF UndoItem
    <2>2. tx[w].op = "revocation" /\ tx[w].pc = "restore" /\ UNCHANGED rows
      BY <1>4 DEF UndoItem, At
    <2>3. PICK r \in InvRows : r = <<tx[w].wh, g>>
      BY <1>0, <2>2, InvRowType DEF WellFormed, Transaction
    <2>4. PICK q \in Nat : q = Demand[tx[w].doc][g]
      BY <1>0, <2>2, DemandType DEF WellFormed, Transaction, OrderHandlers
    <2>5. Writing(tx[w])
      BY <2>2 DEF Writing
    <2>6. Seen(w, r) = inv[r] /\ inv[r] \in InvRec /\ RowOK(inv[r])
      BY <1>0, <2>3, <2>5, SeesCommitted DEF TypeOK, StockInv, RowsOK
    <2> DEFINE x == Adding(inv[r], q)
    <2>7. WriteItem(w, g, r, x)
      BY <2>1, <2>3, <2>4, <2>6
    <2>8. x = Moved(tx[w].pc, inv[r], Demand[tx[w].doc][g])
      BY <2>2, <2>4 DEF Moved
    <2>9. RowOK(x)
      BY <2>6, MovedOK
    <2> HIDE DEF x
    <2>10. QED
      BY <2>2, <2>3, <2>5, <2>7, <2>8, <2>9, WriteStep
  <1>5. CASE UndoCheckBoxes(w)
    <2> DEFINE t == [tx[w] EXCEPT !.pc = "boxes"]
    <2>1. Continue(w, t) /\ UNCHANGED rows /\ tx[w].op = "revocation" /\ tx[w].pc = "restore"
      BY <1>5 DEF UndoCheckBoxes, At
    <2>2. /\ t \in Transaction
          /\ t.op = tx[w].op /\ t.doc = tx[w].doc /\ t.pc = "boxes" /\ t.wh = tx[w].wh
          /\ t.todo = tx[w].todo /\ t.item = tx[w].item /\ t.plan = tx[w].plan
          /\ t.post = tx[w].post
      BY <1>0 DEF Transaction, PcNames
    <2> HIDE DEF t
    <2>3. TodoOK(t) /\ WarehouseOK(t, order, out) /\ Writing(tx[w])
      BY <1>0, <2>1, <2>2 DEF TodoOK, WarehouseOK, Writing, Closers, Shippers
    <2>4. QED
      BY <2>1, <2>2, <2>3, NoWriteStep
  <1>6. CASE UndoCommit(w)
    <2>1. /\ tx[w].op = "revocation" /\ tx[w].pc = "boxes" /\ End(w) /\ inv' = Published(w)
          /\ received' = received
      BY <1>6 DEF UndoCommit, At
    <2>2. PICK o \in Orders : o = tx[w].doc
      BY <1>0, <2>1 DEF WellFormed, OrderHandlers
    <2> DEFINE n == [order[o] EXCEPT !.status = "CANCELLED"]
               m == [out[o] EXCEPT !.status = "CANCELLED"]
    <2>3. order' = [order EXCEPT ![o] = n] /\ out' = [out EXCEPT ![o] = m]
      BY <1>6, <2>2 DEF UndoCommit
    <2>4. /\ n \in OrderRec /\ n.status = "CANCELLED" /\ n.wh = order[o].wh
          /\ m \in OutRec /\ m.status = "CANCELLED" /\ m.wh = out[o].wh
      BY <1>0 DEF TypeOK, OrderRec, OrderStatus, OutRec, OutStatus
    <2> HIDE DEF n, m
    <2>5. \A r \in InvRows : inv'[r].locked = inv[r].locked
      BY <2>1, RestoresAvailable
    <2>6. ~Forward
      BY <1>0, <2>1 DEF TodoOK, Forward
    <2>7. n.status # "NONE" /\ (n.status = "PENDING" /\ ~n.deleted => order[o].status = "NONE")
      BY <2>4
    <2>8. out[o].status # "NONE" => m.wh = out[o].wh /\ m.status # "NONE"
      BY <2>4
    <2>9. n \in OrderRec /\ m \in OutRec /\ n.wh = order[o].wh
      BY <2>4
    <2>10. QED
      BY <2>1, <2>3, <2>5, <2>6, <2>7, <2>8, <2>9, SameCommit
  <1>7. QED
    BY <1>1, <1>2, <1>3, <1>4, <1>5, <1>6 DEF Undo

\* The end of a transaction that changes neither orders nor what is locked.
LEMMA InventoryCommit ==
  ASSUME StockInv, OrderInv', NEW w \in Workers, End(w), UNCHANGED <<order, out>>,
         \A r \in InvRows : inv'[r].locked = inv[r].locked /\ RowOK(inv'[r]),
         \A v \in Workers \ {w}, r \in InvRows : tx[v].post[r] # Untouched => inv'[r] = inv[r],
         ~Forward \/ UNCHANGED <<inv, received>>
  PROVE  StockInv'
  <1>1. RowsOK'
    BY DEF RowsOK, RowOK
  <1>2. LockedMatchesHolders'
    BY DEF StockInv, LockedMatchesHolders, Held, Units
  <1>3. Forward => received' = {} /\ StockConserved'
    BY DEF StockInv, StockConserved, ShippedUnits, ReceivedUnits, Units
  <1>4. QED
    BY <1>1, <1>2, <1>3, EndingStep

\* What a transaction sees in a row is in order, and its locked quantity is
\* the committed one for a handler that does not serve an order.
LEMMA SeenOK ==
  ASSUME StockInv, NEW w \in Workers, NEW r \in InvRows
  PROVE  /\ RowOK(Seen(w, r)) /\ Seen(w, r) \in InvRec
         /\ ~Writing(tx[w]) => Seen(w, r).locked = inv[r].locked
  <1>1. TypeOK /\ PostOK(tx[w], inv) /\ RowOK(inv[r])
    BY StockFacts DEF StockInv, RowsOK
  <1>2. tx[w].post[r] # Untouched => RowOK(tx[w].post[r])
    BY StockFacts
  <1>3. QED
    BY <1>1, <1>2, SeenType DEF Seen, PostOK

\* InventoryService.adjustStock keeps the invariant: it leaves what is locked
\* and never writes a negative available quantity.
LEMMA AdjustKeeps ==
  ASSUME StockInv, OrderInv', NEW w \in Workers, Adjust(w)
  PROVE  StockInv'
  <1>0. /\ TypeOK /\ tx[w] \in Transaction /\ WellFormed(tx[w]) /\ TodoOK(tx[w])
    BY StockFacts
  <1>1. ASSUME NEW r \in InvRows, NEW n \in AdjustTo, AdjustRead(w, r, n)
        PROVE  StockInv'
    <2> DEFINE a == inv[r].avail + n - inv[r].qty
               plan == [inv[r] EXCEPT !.qty = n, !.avail = a]
               t == [Idle EXCEPT !.op = "adjustStock", !.pc = "claim", !.wh = r[1], !.item = r[2],
                                 !.plan = plan]
    <2>1. inv[r] \in InvRec
      BY <1>0 DEF TypeOK
    <2>2. Continue(w, t) /\ UNCHANGED rows /\ tx[w] = Idle /\ a >= 0 /\ "adjustStock" \in Ops
      BY <1>1 DEF AdjustRead
    <2> HIDE DEF a
    <2>3. plan.avail = a
      BY <2>1 DEF InvRec
    <2> HIDE DEF plan
    <2>4. /\ t.op = "adjustStock" /\ t.pc = "claim" /\ t.plan = plan
          /\ t.post = tx[w].post /\ \A s \in InvRows : t.post[s] = Untouched
      BY <2>2 DEF Idle, NoWrites
    <2>5. t \in Transaction
      <3>1. tx' \in [Workers -> Transaction] /\ tx'[w] = t
        BY <1>0, <2>2 DEF Continue, OrderInv, TypeOK
      <3>2. QED
        BY <3>1
    <2> HIDE DEF t
    <2>6. TodoOK(t) /\ PostOK(t, inv) /\ WarehouseOK(t, order, out)
      BY <2>2, <2>3, <2>4 DEF TodoOK, PostOK, WarehouseOK, Writing, Closers, Shippers
    <2>7. QED
      BY <2>2, <2>4, <2>5, <2>6, QuietStep
  <1>2. CASE AdjustCommit(w)
    <2>1. /\ tx[w].op = "adjustStock" /\ tx[w].pc = "claim" /\ End(w) /\ UNCHANGED <<order, out>>
          /\ FreeInv(w, <<tx[w].wh, tx[w].item>>)
          /\ inv' = [inv EXCEPT ![<<tx[w].wh, tx[w].item>>] = Overwrite(w, <<tx[w].wh, tx[w].item>>)]
      BY <1>2 DEF AdjustCommit, At
    <2>2. PICK r \in InvRows : r = <<tx[w].wh, tx[w].item>>
      BY <1>0, <2>1, InvRowType DEF WellFormed
    <2>3. /\ tx[w].plan \in InvRec /\ tx[w].plan # Untouched
      BY <1>0, <2>1, OrderStockAssumption DEF WellFormed, InvRec
    <2>4. tx[w].plan.avail >= 0 /\ ~Relative /\ ~Forward
      BY <1>0, <2>1, <2>3 DEF TodoOK, Relative, Forward
    <2>5. Seen(w, r) \in InvRec /\ Seen(w, r).locked = inv[r].locked
      BY <2>1, SeenOK DEF Writing
    <2> DEFINE x == Overwrite(w, r)
    <2>6. x.locked = inv[r].locked /\ x.avail = tx[w].plan.avail
      BY <2>5 DEF Overwrite, InvRec
    <2>7. inv' = [inv EXCEPT ![r] = x] /\ FreeInv(w, r)
      BY <2>1, <2>2
    <2> HIDE DEF x
    <2>8. inv'[r] = x /\ \A s \in InvRows : s # r => inv'[s] = inv[s]
      BY <1>0, <2>7 DEF TypeOK
    <2>9. \A s \in InvRows : inv'[s].locked = inv[s].locked /\ RowOK(inv'[s])
      BY <2>4, <2>6, <2>8 DEF StockInv, RowsOK, RowOK
    <2>10. \A v \in Workers \ {w}, s \in InvRows : tx[v].post[s] # Untouched => inv'[s] = inv[s]
      BY <2>7, <2>8 DEF FreeInv
    <2>11. QED
      BY <2>1, <2>4, <2>9, <2>10, InventoryCommit
  <1>3. QED
    BY <1>1, <1>2 DEF Adjust

\* StockInService.complete keeps the invariant: it leaves what is locked and
\* adds to what is available.
LEMMA StockInKeeps ==
  ASSUME StockInv, OrderInv', NEW w \in Workers, StockIn(w)
  PROVE  StockInv'
  <1>0. /\ TypeOK /\ tx[w] \in Transaction /\ WellFormed(tx[w])
        /\ TodoOK(tx[w]) /\ PostOK(tx[w], inv)
    BY StockFacts
  <1>1. ASSUME NEW d \in StockIns, StockInRead(w, d)
        PROVE  StockInv'
    BY <1>1, BeginQuiet DEF StockInRead, OrderHandlers, Shippers, Closers
  <1>2. CASE StockInClaim(w)
    <2> DEFINE row == InRow(tx[w].doc)
               t == [tx[w] EXCEPT !.locks = @ \cup {row}, !.pc = "keys"]
    <2>1. Continue(w, t) /\ UNCHANGED rows /\ tx[w].op = "stockIn" /\ tx[w].pc = "claim"
      BY <1>2 DEF StockInClaim, At
    <2>2. row \in LockNames
      BY <1>0, <2>1 DEF WellFormed, LockNames
    <2> HIDE DEF row
    <2>3. /\ t \in Transaction
          /\ t.op = tx[w].op /\ t.doc = tx[w].doc /\ t.pc = "keys" /\ t.item = tx[w].item
          /\ t.plan = tx[w].plan /\ t.post = tx[w].post
      BY <1>0, <2>2 DEF Transaction, PcNames
    <2> HIDE DEF t
    <2>4. TodoOK(t) /\ WarehouseOK(t, order, out) /\ ~Writing(t) /\ ~Writing(tx[w])
      BY <1>0, <2>1, <2>3 DEF TodoOK, WarehouseOK, Writing, Closers, Shippers
    <2>5. QED
      BY <2>1, <2>3, <2>4, NoWriteStep
  <1>3. CASE StockInKeys(w)
    <2> DEFINE keys == {KeyLock(tx[w].wh, g) : g \in Received(tx[w].doc)}
               t == [tx[w] EXCEPT !.locks = @ \cup keys, !.todo = Received(tx[w].doc),
                                  !.pc = "receive"]
    <2>1. Continue(w, t) /\ UNCHANGED rows /\ tx[w].op = "stockIn" /\ tx[w].pc = "keys"
      BY <1>3 DEF StockInKeys, At
    <2>2. keys \subseteq LockNames /\ Received(tx[w].doc) \subseteq Goods
      BY <1>0, <2>1, KeyLockType DEF WellFormed, Received
    <2> HIDE DEF keys
    <2>3. /\ t \in Transaction
          /\ t.op = tx[w].op /\ t.doc = tx[w].doc /\ t.pc = "receive" /\ t.item = tx[w].item
          /\ t.plan = tx[w].plan /\ t.post = tx[w].post
      BY <1>0, <2>2 DEF Transaction, PcNames
    <2> HIDE DEF t
    <2>4. TodoOK(t) /\ WarehouseOK(t, order, out) /\ ~Writing(t) /\ ~Writing(tx[w])
      BY <1>0, <2>1, <2>3 DEF TodoOK, WarehouseOK, Writing, Closers, Shippers
    <2>5. QED
      BY <2>1, <2>3, <2>4, NoWriteStep
  <1>4. CASE StockInReadItem(w)
    <2>1. PICK g \in tx[w].todo :
            LET r == <<tx[w].wh, g>>  q == Receipt[tx[w].doc].qty[g]
            IN  Continue(w, [tx[w] EXCEPT !.item = g, !.plan = Adding(Seen(w, r), q)])
      BY <1>4 DEF StockInReadItem
    <2>2. tx[w].op = "stockIn" /\ tx[w].pc = "receive" /\ UNCHANGED rows
      BY <1>4 DEF StockInReadItem, At
    <2>3. PICK r \in InvRows : r = <<tx[w].wh, g>>
      BY <1>0, <2>2, InvRowType DEF WellFormed, Transaction
    <2>4. PICK q \in Nat : q = Receipt[tx[w].doc].qty[g]
      BY <1>0, <2>2, ReceiptType DEF WellFormed, Transaction
    <2>5. RowOK(Seen(w, r)) /\ Seen(w, r) \in InvRec
      BY SeenOK
    <2> DEFINE plan == Adding(Seen(w, r), q)
               t == [tx[w] EXCEPT !.item = g, !.plan = plan]
    <2>6. Continue(w, t)
      BY <2>1, <2>3, <2>4
    <2>7. plan \in InvRec /\ plan.avail >= 0
      <3>1. q \in Int
        OBVIOUS
      <3>2. plan \in InvRec
        BY <2>5, <3>1, UpdateTypes
      <3>3. Seen(w, r).avail \in Int /\ Seen(w, r).avail >= 0
        BY <2>5, RowFields DEF RowOK
      <3>4. plan.avail = Seen(w, r).avail + q
        BY <2>5, <3>1, MovedFields
      <3>5. QED
        BY <3>2, <3>3, <3>4
    <2> HIDE DEF plan
    <2>8. /\ t \in Transaction
          /\ t.op = tx[w].op /\ t.doc = tx[w].doc /\ t.pc = tx[w].pc /\ t.item = g
          /\ t.plan = plan /\ t.post = tx[w].post
      BY <1>0, <2>7 DEF Transaction
    <2> HIDE DEF t
    <2>9. TodoOK(t) /\ WarehouseOK(t, order, out) /\ ~Writing(t) /\ ~Writing(tx[w])
      BY <1>0, <2>2, <2>7, <2>8 DEF TodoOK, WarehouseOK, Writing, Closers, Shippers
    <2>10. QED
      BY <2>2, <2>6, <2>8, <2>9, NoWriteStep
  <1>5. CASE StockInWriteItem(w)
    <2>1. /\ tx[w].op = "stockIn" /\ tx[w].pc = "receive" /\ tx[w].item # NoGoods /\ UNCHANGED rows
          /\ WriteItem(w, tx[w].item, <<tx[w].wh, tx[w].item>>, Overwrite(w, <<tx[w].wh, tx[w].item>>))
      BY <1>5 DEF StockInWriteItem, At
    <2>2. PICK r \in InvRows : r = <<tx[w].wh, tx[w].item>>
      BY <1>0, <2>1, InvRowType DEF WellFormed, Transaction
    <2>3. tx[w].plan \in InvRec /\ tx[w].plan # Untouched
      BY <1>0, <2>1, OrderStockAssumption DEF WellFormed, InvRec
    <2>4. tx[w].plan.avail >= 0 /\ ~Relative
      BY <1>0, <2>1, <2>3 DEF TodoOK, Relative
    <2>5. Seen(w, r) \in InvRec /\ Seen(w, r).locked = inv[r].locked
      BY <2>1, SeenOK DEF Writing
    <2> DEFINE x == Overwrite(w, r)
    <2>6. x.locked = inv[r].locked /\ x.avail = tx[w].plan.avail /\ x \in InvRec
      BY <2>3, <2>5 DEF Overwrite, InvRec
    <2>7. RowOK(x)
      BY <2>4, <2>6 DEF RowOK
    <2> DEFINE p == [tx[w].post EXCEPT ![r] = x]
               t == [tx[w] EXCEPT !.post = p, !.todo = @ \ {tx[w].item}, !.item = NoGoods,
                                  !.plan = Untouched]
    <2>8. Continue(w, t) /\ FreeInv(w, r)
      BY <2>1, <2>2 DEF WriteItem
    <2> HIDE DEF x
    <2>9. /\ p \in [InvRows -> InvRec \cup {Untouched}]
          /\ p[r] = x /\ \A s \in InvRows : s # r => p[s] = tx[w].post[s]
      BY <1>0, <2>6 DEF Transaction
    <2> HIDE DEF p
    <2>10. /\ t \in Transaction
           /\ t.op = tx[w].op /\ t.doc = tx[w].doc /\ t.pc = tx[w].pc /\ t.item = NoGoods
           /\ t.plan = Untouched /\ t.post = p
      BY <1>0, <2>9 DEF Transaction
    <2> HIDE DEF t
    <2>11. TodoOK(t) /\ WarehouseOK(t, order, out)
      BY <1>0, <2>1, <2>10 DEF TodoOK, WarehouseOK, Writing, Closers, Shippers
    <2>12. PostOK(t, inv)
      <3>1. ~Writing(t) /\ ~Writing(tx[w])
        BY <2>1, <2>10 DEF Writing
      <3>2. \A s \in InvRows : t.post[s] # Untouched => t.post[s].locked = inv[s].locked
        BY <1>0, <2>6, <2>9, <2>10, <3>1 DEF PostOK
      <3>3. QED
        BY <2>1, <2>10, <3>1, <3>2 DEF PostOK
    <2>13. \A s \in InvRows : t.post[s] # Untouched => RowOK(t.post[s])
      BY <2>7, <2>9, <2>10, StockFacts
    <2>14. \A s \in InvRows : t.post[s] \in {tx[w].post[s], Untouched} \/ FreeInv(w, s)
      BY <2>8, <2>9, <2>10
    <2>15. QED
      BY <2>1, <2>8, <2>10, <2>11, <2>12, <2>13, <2>14, QuietStep
  <1>6. CASE StockInCommit(w)
    <2>1. /\ tx[w].op = "stockIn" /\ tx[w].pc = "receive" /\ End(w) /\ inv' = Published(w)
          /\ UNCHANGED <<order, out>>
      BY <1>6 DEF StockInCommit, At
    <2>2. ~Forward
      BY <1>0, <2>1 DEF TodoOK, Relative, Forward
    <2>3. \A r \in InvRows : inv'[r].locked = inv[r].locked /\ RowOK(inv'[r])
      BY <2>1, SeenOK DEF Published, Writing
    <2>4. \A v \in Workers \ {w}, r \in InvRows : tx[v].post[r] # Untouched => inv'[r] = inv[r]
      BY <2>1, PublishedApart
    <2>5. QED
      BY <2>1, <2>2, <2>3, <2>4, InventoryCommit
  <1>7. QED
    BY <1>1, <1>2, <1>3, <1>4, <1>5, <1>6 DEF StockIn

\* A transaction that is rolled back leaves nothing behind.
LEMMA RollbackKeeps ==
  ASSUME StockInv, OrderInv', NEW w \in Workers, Rollback(w)
  PROVE  StockInv'
  <1>1. End(w) /\ UNCHANGED <<order, out>> /\ UNCHANGED <<inv, received>>
    BY DEF Rollback, rows
  <1>2. \A r \in InvRows : inv'[r].locked = inv[r].locked /\ RowOK(inv'[r])
    BY <1>1 DEF StockInv, RowsOK
  <1>3. \A v \in Workers \ {w}, r \in InvRows : tx[v].post[r] # Untouched => inv'[r] = inv[r]
    BY <1>1
  <1>4. QED
    BY <1>1, <1>2, <1>3, InventoryCommit

-----------------------------------------------------------------------------
(* The theorems.                                                           *)

\* At the start nothing is locked, shipped or received.
LEMMA InitStock == Init => StockInv
  <1> SUFFICES ASSUME Init PROVE StockInv
    OBVIOUS
  <1>1. OrderInv
    BY InitInv
  <1>2. WorkersOK
    <2>1. \A w \in Workers : tx[w] = Idle
      BY DEF Init
    <2>2. \A r \in InvRows : Idle.post[r] = Untouched
      BY DEF Idle, NoWrites
    <2>3. QED
      BY <2>1, <2>2, IdleQuiet DEF WorkersOK, WritersExclusive
  <1>3. \A r \in InvRows : /\ inv[r].qty = Opening[r] /\ inv[r].locked = 0
                           /\ inv[r].avail = Opening[r] /\ Opening[r] \in Nat
    BY OrderStockAssumption DEF Init
  <1>4. RowsOK
    BY <1>3 DEF RowsOK, RowOK
  <1>5. \A r \in InvRows : WantedOf(Holders(order, r[1]), r) = 0
    <2> SUFFICES ASSUME NEW r \in InvRows PROVE WantedOf(Holders(order, r[1]), r) = 0
      OBVIOUS
    <2>1. r[1] # NoWarehouse
      BY RowOf, OrderStockAssumption
    <2>2. Holders(order, r[1]) = {}
      BY <2>1 DEF Holders, Init
    <2>3. QED
      BY <2>2, TotalEmpty DEF WantedOf
  <1>6. LockedMatchesHolders
    BY <1>3, <1>5, HeldCount DEF LockedMatchesHolders
  <1>7. received = {} /\ StockConserved
    <2>1. \A r \in InvRows : WantedOf(Shipped(out, r[1]), r) = 0
      <3> SUFFICES ASSUME NEW r \in InvRows PROVE WantedOf(Shipped(out, r[1]), r) = 0
        OBVIOUS
      <3>1. Shipped(out, r[1]) = {}
        BY DEF Shipped, Init
      <3>2. QED
        BY <3>1, TotalEmpty DEF WantedOf
    <2>2. received = {}
      BY DEF Init
    <2>3. QED
      BY <1>3, <2>1, <2>2, ConservedIs
  <1>8. QED
    BY <1>1, <1>2, <1>4, <1>6, <1>7 DEF StockInv

\* Every step keeps what the rows and the open transactions say.
LEMMA NextStock == StockInv /\ [Next]_vars => StockInv'
  <1> SUFFICES ASSUME StockInv, [Next]_vars PROVE StockInv'
    OBVIOUS
  <1>0. OrderInv'
    BY NextInv DEF StockInv
  <1>1. CASE Next
    <2>1. PICK w \in Workers : Step(w)
      BY <1>1 DEF Next
    <2>2. CASE InventoryLock(w)
      BY <1>0, <2>2, InventoryLockKeeps
    <2>3. CASE Create(w)
      BY <1>0, <2>3, CreateKeeps
    <2>4. CASE Approve(w)
      BY <1>0, <2>4, ApproveKeeps
    <2>5. CASE Close(w)
      BY <1>0, <2>5, CloseKeeps
    <2>6. CASE Ship(w)
      BY <1>0, <2>6, ShipKeeps
    <2>7. CASE Cancel(w)
      BY <1>0, <2>7, CancelKeeps
    <2>8. CASE Confirm(w)
      BY <1>0, <2>8, ConfirmKeeps
    <2>9. CASE Undo(w)
      BY <1>0, <2>9, UndoKeeps
    <2>10. CASE Adjust(w)
      BY <1>0, <2>10, AdjustKeeps
    <2>11. CASE StockIn(w)
      BY <1>0, <2>11, StockInKeeps
    <2>12. CASE Rollback(w)
      BY <1>0, <2>12, RollbackKeeps
    <2>13. QED
      BY <2>1, <2>2, <2>3, <2>4, <2>5, <2>6, <2>7, <2>8, <2>9, <2>10, <2>11, <2>12 DEF Step
  <1>2. CASE UNCHANGED vars
    <2> USE <1>2 DEF vars
    <2>1. WorkersOK' /\ RowsOK'
      BY DEF StockInv, WorkersOK, WritersExclusive, TodoOK, PostOK, WarehouseOK, RowsOK, RowOK
    <2>2. LockedMatchesHolders' /\ (Forward => received = {} /\ StockConserved)'
      BY DEF StockInv, LockedMatchesHolders, Held, Units, StockConserved, ShippedUnits,
             ReceivedUnits, Forward, Relative
    <2>3. QED
      BY <1>0, <2>1, <2>2 DEF StockInv
  <1>3. QED
    BY <1>1, <1>2

\* StockInv is an invariant: what each open transaction has written to the
\* inventory, the committed rows and the orders that hold stock agree in every
\* reachable state, whatever requests interleave or fail.
THEOREM StockInvariant == Spec => []StockInv
  BY InitStock, NextStock, PTL DEF Spec

\* Stock is never oversold, with every handler enabled: neither the guarded
\* updates of InventoryLockService nor the values that adjustStock and
\* StockInService.complete overwrite leave a negative available quantity.
THEOREM NeverOverdrawn == Spec => []AvailableNeverNegative
  <1>1. StockInv => AvailableNeverNegative
    BY DEF StockInv, RowsOK, RowOK, AvailableNeverNegative
  <1>2. QED
    BY <1>1, StockInvariant, PTL

\* The locked quantity of a row is what the orders that hold the warehouse
\* want of it, with every handler enabled: no lock leaks, none is given back
\* twice, by whichever service the order leaves its warehouse.
THEOREM LocksMatchHolders == Spec => []LockedMatchesHolders
  <1>1. StockInv => LockedMatchesHolders
    BY DEF StockInv
  <1>2. QED
    BY <1>1, StockInvariant, PTL

\* quantity = locked + available as long as only the handlers run that update
\* the rows relatively: the unguarded update of StockOutService.complete
\* included, and without adjustStock and StockInService.complete, which write
\* values computed from an earlier read.
THEOREM RowsBalance == Relative => (Spec => []Balanced)
  <1> SUFFICES ASSUME Relative PROVE Spec => []Balanced
    OBVIOUS
  <1>1. StockInv => Balanced
    BY DEF StockInv, RowsOK, RowOK, Balanced
  <1>2. QED
    BY <1>1, StockInvariant, PTL

\* The handlers that carry an order from its submission to its receipt make
\* no goods appear or vanish: what is on hand is what was there and has not
\* been shipped.
THEOREM StockIsConserved == Forward => (Spec => []StockConserved)
  <1> SUFFICES ASSUME Forward PROVE Spec => []StockConserved
    OBVIOUS
  <1>1. StockInv => StockConserved
    BY DEF StockInv
  <1>2. QED
    BY <1>1, StockInvariant, PTL

-----------------------------------------------------------------------------
(* The handlers of an order implement StockReservation.                    *)

\* The state of StockReservation.
Stage(x) ==
  IF x.wh # NoWarehouse THEN "held"
  ELSE IF x.deleted \/ x.status \in {"REJECTED", "CANCELLED"} THEN "closed"
  ELSE IF x.status \in {"NONE", "PENDING"} THEN "new" ELSE "shipped"
OnHand == [r \in InvRows |-> inv[r].qty]
StageNow == [o \in Orders |-> Stage(order[o])]
HeldNow  == [o \in Orders |-> order[o].wh]

LEMMA ReservationViews ==
  /\ Reservation!vars = <<OnHand, StageNow, HeldNow>>
  /\ \A o \in Orders, h \in Warehouses :
       Reservation!Reserve(o, h) <=>
         /\ StageNow[o] = "new"
         /\ \A g \in Goods : Reservation!Reserved(h, g) + Demand[o][g] <= OnHand[<<h, g>>]
         /\ StageNow' = [StageNow EXCEPT ![o] = "held"]
         /\ HeldNow' = [HeldNow EXCEPT ![o] = h]
         /\ OnHand' = OnHand
  /\ \A o \in Orders :
       /\ Reservation!GiveUp(o) <=>
            /\ StageNow[o] \in {"new", "held"}
            /\ StageNow' = [StageNow EXCEPT ![o] = "closed"]
            /\ HeldNow' = [HeldNow EXCEPT ![o] = NoWarehouse]
            /\ OnHand' = OnHand
       /\ Reservation!Ship(o) <=>
            /\ StageNow[o] = "held"
            /\ OnHand' = [r \in InvRows |-> IF r[1] = HeldNow[o] THEN OnHand[r] - Demand[o][r[2]]
                                            ELSE OnHand[r]]
            /\ StageNow' = [StageNow EXCEPT ![o] = "shipped"]
            /\ HeldNow' = [HeldNow EXCEPT ![o] = NoWarehouse]
  BY DEF StageNow, HeldNow, OnHand, Stage, InvRows, Reservation!vars, Reservation!Reserve,
         Reservation!GiveUp, Reservation!Ship, Reservation!Rows

\* StockReservation counts as this module does.
LEMMA SameCount ==
  ASSUME NEW S
  PROVE  Reservation!Cardinality(S) = Cardinality(S)
  BY DEF Reservation!Cardinality, Cardinality

\* What it calls reserved is what the holders want.
LEMMA ReservedIs ==
  ASSUME TypeOK, NEW h \in Warehouses, NEW g \in Goods
  PROVE  Reservation!Reserved(h, g) = WantedOf(Holders(order, h), <<h, g>>)
  <1>2. {p \in Orders : StageNow[p] = "held" /\ HeldNow[p] = h} = Holders(order, h)
    BY OrderStockAssumption DEF StageNow, HeldNow, Stage, Holders
  <1>3. Reservation!Reserved(h, g) =
          Cardinality(UNION {{o} \X (1 .. Demand[o][g]) :
            o \in {p \in Orders : StageNow[p] = "held" /\ HeldNow[p] = h}})
    BY SameCount DEF Reservation!Reserved, Reservation!Units, StageNow, HeldNow, Stage
  <1>4. UnitsOf(Holders(order, h), Wanted(g)) = UNION {{o} \X (1 .. Demand[o][g]) : o \in Holders(order, h)}
    BY DEF UnitsOf, Wanted, Holders
  <1>5. QED
    BY <1>2, <1>3, <1>4 DEF WantedOf, Total

\* One order moves on.
LEMMA StageMoves ==
  ASSUME TypeOK, NEW o \in Orders, NEW n, order' = [order EXCEPT ![o] = n]
  PROVE  /\ StageNow' = [StageNow EXCEPT ![o] = Stage(n)]
         /\ HeldNow' = [HeldNow EXCEPT ![o] = n.wh]
         /\ StageNow[o] = Stage(order[o]) /\ HeldNow[o] = order[o].wh
  <1>1. order'[o] = n /\ \A p \in Orders \ {o} : order'[p] = order[p]
    BY DEF TypeOK
  <1>2. StageNow' = [p \in Orders |-> Stage(order'[p])]
    BY DEF StageNow, Stage
  <1>3. \A p \in Orders : StageNow'[p] = [StageNow EXCEPT ![o] = Stage(n)][p]
    BY <1>1, <1>2 DEF StageNow
  <1>4. StageNow' = [StageNow EXCEPT ![o] = Stage(n)]
    BY <1>2, <1>3 DEF StageNow
  <1>5. HeldNow' = [HeldNow EXCEPT ![o] = n.wh]
    <2>1. HeldNow' = [p \in Orders |-> order'[p].wh]
      BY DEF HeldNow
    <2>2. \A p \in Orders : HeldNow'[p] = [HeldNow EXCEPT ![o] = n.wh][p]
      BY <1>1, <2>1 DEF HeldNow
    <2>3. QED
      BY <2>1, <2>2 DEF HeldNow
  <1>6. QED
    BY <1>4, <1>5 DEF StageNow, HeldNow

\* The COMMIT of a handler that reserved stock reserves it in one step: with
\* the locked quantity up to date and nothing oversold, there was enough.
LEMMA TakeRefines ==
  ASSUME StockInv, StockInv', Forward, NEW w \in Workers, NEW o \in Orders, NEW n,
         NEW h \in Warehouses, h = tx[w].wh,
         o = tx[w].doc, tx[w].pc = "lock", tx[w].todo = {}, inv' = Published(w),
         order' = [order EXCEPT ![o] = n], order[o].wh = NoWarehouse,
         order[o].status \in {"NONE", "PENDING"}, ~order[o].deleted, n.wh = tx[w].wh
  PROVE  Reservation!Reserve(o, h)
  <1>1. TypeOK /\ Writing(tx[w]) /\ LockedMatchesHolders
    BY StockFacts DEF StockInv, Writing
  <1>2. /\ StageNow' = [StageNow EXCEPT ![o] = Stage(n)]
        /\ HeldNow' = [HeldNow EXCEPT ![o] = n.wh]
        /\ StageNow[o] = Stage(order[o])
    BY <1>1, StageMoves
  <1>3. Stage(n) = "held" /\ Stage(order[o]) = "new"
    BY OrderStockAssumption DEF Stage
  <1>4. ASSUME NEW r \in InvRows
        PROVE  inv[r].qty \in Int /\ inv'[r].qty = inv[r].qty
               /\ inv'[r].locked = inv[r].locked + Portion(o, h, r)
    BY <1>1, PublishedFields
  <1>5. OnHand' = OnHand
    BY <1>4 DEF OnHand
  <1>6. ASSUME NEW g \in Goods
        PROVE  Reservation!Reserved(h, g) + Demand[o][g] <= OnHand[<<h, g>>]
    <2>1. PICK r \in InvRows : r = <<h, g>>
      BY InvRowType
    <2>2. /\ Reservation!Reserved(h, g) = inv[r].locked
          /\ Portion(o, h, r) = Demand[o][g] /\ Demand[o][g] \in Nat
          /\ OnHand[<<h, g>>] = inv[r].qty
      BY <1>1, <2>1, ReservedIs, HeldCount, DemandType DEF LockedMatchesHolders, Portion, OnHand
    <2>3. inv'[r].qty = inv'[r].locked + inv'[r].avail /\ inv'[r].avail >= 0
      BY DEF StockInv, RowsOK, RowOK, Forward
    <2>4. inv'[r].avail \in Int /\ inv[r].locked \in Int
      <3>1. inv'[r] \in InvRec /\ inv[r] \in InvRec
        BY DEF StockInv, OrderInv, TypeOK
      <3>2. QED
        BY <3>1, RowFields
    <2>5. /\ inv[r].qty \in Int /\ inv'[r].qty = inv[r].qty
          /\ inv'[r].locked = inv[r].locked + Demand[o][g]
      BY <1>4, <2>2
    <2>6. inv[r].locked + Demand[o][g] <= inv[r].qty
      BY ONLY <2>2, <2>3, <2>4, <2>5
    <2>7. QED
      BY <2>2, <2>6
  <1>7. /\ StageNow[o] = "new" /\ StageNow' = [StageNow EXCEPT ![o] = "held"]
        /\ HeldNow' = [HeldNow EXCEPT ![o] = h]
    BY <1>2, <1>3
  <1>8. QED
    BY <1>5, <1>6, <1>7, ReservationViews

\* The COMMIT of a handler that gave the stock back gives the order up; an
\* order that is closed stays closed.
LEMMA GiveRefines ==
  ASSUME StockInv, NEW w \in Workers, NEW o \in Orders, NEW n,
         o = tx[w].doc, tx[w].pc = "release", tx[w].todo = {}, inv' = Published(w),
         order' = [order EXCEPT ![o] = n], n.wh = NoWarehouse,
         n.deleted \/ n.status \in {"REJECTED", "CANCELLED"},
         Stage(order[o]) # "shipped"
  PROVE  Reservation!GiveUp(o) \/ UNCHANGED <<OnHand, StageNow, HeldNow>>
  <1>1. TypeOK /\ Writing(tx[w])
    BY DEF StockInv, OrderInv, Writing
  <1>2. /\ StageNow' = [StageNow EXCEPT ![o] = Stage(n)]
        /\ HeldNow' = [HeldNow EXCEPT ![o] = NoWarehouse]
        /\ StageNow[o] = Stage(order[o]) /\ HeldNow[o] = order[o].wh
    BY <1>1, StageMoves
  <1>3. Stage(n) = "closed"
    BY DEF Stage
  <1>4. \A r \in InvRows : inv'[r].qty = inv[r].qty
    BY <1>1, PublishedFields
  <1>5. OnHand' = OnHand
    BY <1>4 DEF OnHand
  <1>6. CASE Stage(order[o]) \in {"new", "held"}
    BY <1>2, <1>3, <1>5, <1>6, ReservationViews
  <1>7. CASE Stage(order[o]) = "closed"
    <2>1. order[o].wh = NoWarehouse
      BY <1>7 DEF Stage
    <2>2. StageNow' = StageNow /\ HeldNow' = HeldNow
      BY <1>2, <1>3, <1>7, <2>1 DEF StageNow, HeldNow
    <2>3. QED
      BY <1>5, <2>2
  <1>8. Stage(order[o]) \in {"new", "held", "closed", "shipped"}
    BY DEF Stage
  <1>9. QED
    BY <1>6, <1>7, <1>8

\* The COMMIT of a shipment ships what the order holds.
LEMMA ShipRefines ==
  ASSUME StockInv, NEW w \in Workers, ShipCommit(w)
  PROVE  \E o \in Orders : Reservation!Ship(o)
  <1>0. /\ TypeOK /\ WellFormed(tx[w]) /\ ClaimStillTrue(tx[w]) /\ WarehouseOK(tx[w], order, out)
    BY StockFacts
  <1>1. /\ tx[w].op = "complete" /\ tx[w].pc = "ship" /\ tx[w].todo = {} /\ inv' = Published(w)
    BY DEF ShipCommit, At
  <1>2. PICK o \in Orders : o = tx[w].doc
    BY <1>0, <1>1 DEF WellFormed, OrderHandlers
  <1>3. PICK h \in Warehouses : h = tx[w].wh
    BY <1>0, <1>1 DEF WellFormed, Shippers
  <1>4. out[o].status = "PENDING" /\ out[o].wh = h
    BY <1>0, <1>1, <1>2, <1>3 DEF ClaimStillTrue, WarehouseOK, Shippers
  <1>5. order[o].status = "APPROVED" /\ order[o].wh = h
    BY <1>4, PendingHolds
  <1> DEFINE n == [order[o] EXCEPT !.status = "PROCESSING", !.wh = NoWarehouse]
  <1>6. order' = [order EXCEPT ![o] = n]
    BY <1>2 DEF ShipCommit
  <1>7. n.status = "PROCESSING" /\ n.wh = NoWarehouse /\ ~n.deleted
    BY <1>0, <1>5 DEF TypeOK, OrderRec, StockInv, OrderInv, RowConsistent
  <1> HIDE DEF n
  <1>8. /\ StageNow' = [StageNow EXCEPT ![o] = Stage(n)]
        /\ HeldNow' = [HeldNow EXCEPT ![o] = n.wh]
        /\ StageNow[o] = Stage(order[o]) /\ HeldNow[o] = h
    BY <1>0, <1>5, <1>6, StageMoves
  <1>9. Stage(n) = "shipped" /\ Stage(order[o]) = "held"
    BY <1>5, <1>7, OrderStockAssumption DEF Stage
  <1>10. ASSUME NEW r \in InvRows
         PROVE  inv'[r].qty = IF r[1] = h THEN inv[r].qty - Demand[o][r[2]] ELSE inv[r].qty
    <2>1. PICK q : q = Portion(o, h, r)
      OBVIOUS
    <2>2. inv[r].qty \in Int /\ inv'[r].qty = inv[r].qty - q
      BY <1>1, <1>2, <1>3, <2>1, PublishedFields DEF Writing
    <2>3. QED
      BY <2>1, <2>2 DEF Portion
  <1>11. OnHand' = [r \in InvRows |-> IF r[1] = HeldNow[o] THEN OnHand[r] - Demand[o][r[2]]
                                      ELSE OnHand[r]]
    BY <1>8, <1>10 DEF OnHand
  <1>12. /\ StageNow[o] = "held" /\ StageNow' = [StageNow EXCEPT ![o] = "shipped"]
         /\ HeldNow' = [HeldNow EXCEPT ![o] = NoWarehouse]
    BY <1>7, <1>8, <1>9
  <1>13. Reservation!Ship(o)
    BY <1>11, <1>12, ReservationViews
  <1>14. QED
    BY <1>13

\* A COMMIT that leaves the stock and the order's warehouse alone and does
\* not close the order moves nothing.
LEMMA SameRefines ==
  ASSUME TypeOK, NEW o \in Orders, NEW n, order' = [order EXCEPT ![o] = n],
         n.wh = order[o].wh, Stage(n) = Stage(order[o]), \A r \in InvRows : inv'[r] = inv[r]
  PROVE  UNCHANGED <<OnHand, StageNow, HeldNow>>
  <1>1. /\ StageNow' = [StageNow EXCEPT ![o] = Stage(n)]
        /\ HeldNow' = [HeldNow EXCEPT ![o] = n.wh]
        /\ StageNow[o] = Stage(order[o]) /\ HeldNow[o] = order[o].wh
    BY StageMoves
  <1>2. StageNow' = StageNow /\ HeldNow' = HeldNow
    BY <1>1 DEF StageNow, HeldNow
  <1>3. QED
    BY <1>2 DEF OnHand

LEMMA CreateRefines ==
  ASSUME StockInv, StockInv', Forward, NEW w \in Workers, CreateCommit(w)
  PROVE  \E o \in Orders, h \in Warehouses : Reservation!Reserve(o, h)
  <1>0. /\ TypeOK /\ WellFormed(tx[w]) /\ ClaimStillTrue(tx[w])
    BY StockFacts
  <1>1. /\ tx[w].op = "create" /\ tx[w].pc = "lock" /\ tx[w].todo = {} /\ inv' = Published(w)
        /\ tx[w].wh \in Warehouses
    BY <1>0 DEF CreateCommit, At, WellFormed
  <1>2. PICK o \in Orders : o = tx[w].doc
    BY <1>0, <1>1 DEF WellFormed, OrderHandlers
  <1>3. order[o].status = "NONE" /\ ~order[o].deleted /\ order[o].wh = NoWarehouse
    BY <1>0, <1>1, <1>2
    DEF ClaimStillTrue, StockInv, OrderInv, HoldersAreOpen, HolderIsOpen, RowConsistent
  <1>4. PICK n : n = [status |-> "PENDING", deleted |-> FALSE, wh |-> tx[w].wh]
    OBVIOUS
  <1>5. order' = [order EXCEPT ![o] = n] /\ n.wh = tx[w].wh
    BY <1>2, <1>4 DEF CreateCommit, SetOrder
  <1>6. PICK h \in Warehouses : h = tx[w].wh
    BY <1>1
  <1>7. Reservation!Reserve(o, h)
    BY <1>1, <1>2, <1>3, <1>5, <1>6, TakeRefines
  <1>8. QED
    BY <1>7

LEMMA ApproveRefines ==
  ASSUME StockInv, StockInv', Forward, NEW w \in Workers, ApproveCommit(w)
  PROVE  \/ \E o \in Orders, h \in Warehouses : Reservation!Reserve(o, h)
         \/ UNCHANGED <<OnHand, StageNow, HeldNow>>
  <1>0. /\ TypeOK /\ WellFormed(tx[w]) /\ ClaimStillTrue(tx[w]) /\ WarehouseOK(tx[w], order, out)
    BY StockFacts
  <1>1. /\ tx[w].op = "approve" /\ tx[w].pc \in {"lock", "assert"} /\ tx[w].todo = {}
        /\ inv' = Published(w) /\ tx[w].wh \in Warehouses
    BY <1>0 DEF ApproveCommit, At, WellFormed
  <1>2. PICK o \in Orders : o = tx[w].doc
    BY <1>0, <1>1 DEF WellFormed, OrderHandlers
  <1>3. /\ order[o].status = "PENDING" /\ ~order[o].deleted
        /\ order[o].wh = IF tx[w].pc = "lock" THEN NoWarehouse ELSE tx[w].wh
    BY <1>0, <1>1, <1>2 DEF ClaimStillTrue, WarehouseOK
  <1>4. PICK n : n = [status |-> "APPROVED", deleted |-> FALSE, wh |-> tx[w].wh]
    OBVIOUS
  <1>5. order' = [order EXCEPT ![o] = n] /\ n.wh = tx[w].wh
    BY <1>2, <1>4 DEF ApproveCommit, SetOrder
  <1>6. CASE tx[w].pc = "lock"
    <2>1. PICK h \in Warehouses : h = tx[w].wh
      BY <1>1
    <2>2. Reservation!Reserve(o, h)
      BY <1>1, <1>2, <1>3, <1>5, <1>6, <2>1, TakeRefines
    <2>3. QED
      BY <2>2
  <1>7. CASE tx[w].pc = "assert"
    <2>1. \A r \in InvRows : inv'[r] = inv[r]
      BY <1>1, <1>7, PublishedSame DEF Writing
    <2>2. n.wh = order[o].wh /\ Stage(n) = Stage(order[o])
      BY <1>1, <1>3, <1>5, <1>7, OrderStockAssumption DEF Stage
    <2>3. QED
      BY <1>0, <1>5, <2>1, <2>2, SameRefines
  <1>8. QED
    BY <1>1, <1>6, <1>7

\* Rejection, the store's revocation, the deletion and the cancellation of a
\* stock-out give orders up.
LEMMA CloseRefines ==
  ASSUME StockInv, NEW w \in Workers, RejectCommit(w) \/ DeleteCommit(w) \/ CancelCommit(w)
  PROVE  \/ \E o \in Orders : Reservation!GiveUp(o)
         \/ UNCHANGED <<OnHand, StageNow, HeldNow>>
  <1>0. /\ TypeOK /\ WellFormed(tx[w]) /\ ClaimStillTrue(tx[w]) /\ WarehouseOK(tx[w], order, out)
    BY StockFacts
  <1>1. /\ tx[w].op \in Closers \cup {"cancel"} /\ tx[w].pc = "release" /\ tx[w].todo = {}
        /\ inv' = Published(w)
    BY DEF RejectCommit, DeleteCommit, CancelCommit, At, Closers
  <1>2. PICK o \in Orders : o = tx[w].doc
    BY <1>0, <1>1 DEF WellFormed, OrderHandlers, Closers
  <1>3. PICK n : /\ order' = [order EXCEPT ![o] = n] /\ n.wh = NoWarehouse
                 /\ n.deleted \/ n.status \in {"REJECTED", "CANCELLED"}
    <2>1. CASE RejectCommit(w)
      <3>1. PICK n : n = [status |-> "REJECTED", deleted |-> FALSE, wh |-> NoWarehouse]
        OBVIOUS
      <3>2. order' = [order EXCEPT ![o] = n]
        BY <1>2, <2>1, <3>1 DEF RejectCommit, SetOrder
      <3>3. n.wh = NoWarehouse /\ (n.deleted \/ n.status \in {"REJECTED", "CANCELLED"})
        BY <3>1
      <3>4. QED
        BY <3>2, <3>3, Zenon
    <2>2. CASE DeleteCommit(w)
      <3>1. PICK n : n = [status |-> order[o].status, deleted |-> TRUE, wh |-> NoWarehouse]
        OBVIOUS
      <3>2. order' = [order EXCEPT ![o] = n]
        BY <1>2, <2>2, <3>1 DEF DeleteCommit, SetOrder
      <3>3. n.wh = NoWarehouse /\ (n.deleted \/ n.status \in {"REJECTED", "CANCELLED"})
        BY <3>1
      <3>4. QED
        BY <3>2, <3>3, Zenon
    <2>3. CASE CancelCommit(w)
      <3>1. PICK n : n = [status |-> "CANCELLED", deleted |-> FALSE, wh |-> NoWarehouse]
        OBVIOUS
      <3>2. order' = [order EXCEPT ![o] = n]
        BY <1>2, <2>3, <3>1 DEF CancelCommit, SetOrder
      <3>3. n.wh = NoWarehouse /\ (n.deleted \/ n.status \in {"REJECTED", "CANCELLED"})
        BY <3>1
      <3>4. QED
        BY <3>2, <3>3, Zenon
    <2>4. QED
      BY <2>1, <2>2, <2>3
  <1>4. Stage(order[o]) # "shipped"
    <2>1. CASE tx[w].op \in Closers
      <3>1. order[o].status \in {"PENDING", "REJECTED"}
        BY <1>0, <1>1, <1>2, <2>1 DEF ClaimStillTrue
      <3>2. QED
        BY <3>1 DEF Stage
    <2>2. CASE tx[w].op = "cancel"
      <3>1. out[o].status = "PENDING" /\ out[o].wh = tx[w].wh /\ tx[w].wh \in Warehouses
        BY <1>0, <1>1, <1>2, <2>2 DEF ClaimStillTrue, WarehouseOK, WellFormed, Shippers
      <3>2. order[o].wh = tx[w].wh
        BY <3>1, PendingHolds
      <3>3. QED
        BY <3>1, <3>2, OrderStockAssumption DEF Stage
    <2>3. QED
      BY <1>1, <2>1, <2>2
  <1>5. Reservation!GiveUp(o) \/ UNCHANGED <<OnHand, StageNow, HeldNow>>
    BY <1>1, <1>2, <1>3, <1>4, GiveRefines
  <1>6. QED
    BY <1>5

\* The receipt of a shipped order moves nothing.
LEMMA ConfirmRefines ==
  ASSUME StockInv, NEW w \in Workers, ConfirmCommit(w)
  PROVE  UNCHANGED <<OnHand, StageNow, HeldNow>>
  <1>0. TypeOK /\ WellFormed(tx[w])
    BY StockFacts
  <1>1. PICK o \in Orders : o = tx[w].doc
    BY <1>0 DEF ConfirmCommit, At, WellFormed, OrderHandlers
  <1> DEFINE n == [order[o] EXCEPT !.status = "COMPLETED"]
  <1>2. order' = [order EXCEPT ![o] = n] /\ order[o].status = "PROCESSING" /\ ~order[o].deleted
    BY <1>1 DEF ConfirmCommit
  <1>3. n.status = "COMPLETED" /\ n.wh = order[o].wh /\ n.deleted = order[o].deleted
    BY <1>0 DEF TypeOK, OrderRec
  <1> HIDE DEF n
  <1>4. Stage(n) = Stage(order[o])
    BY <1>2, <1>3 DEF Stage
  <1>5. \A r \in InvRows : inv'[r] = inv[r]
    BY DEF ConfirmCommit
  <1>6. QED
    BY <1>0, <1>2, <1>3, <1>4, <1>5, SameRefines

LEMMA ReservationInit == Init => Reservation!Init
  <1> SUFFICES ASSUME Init PROVE Reservation!Init
    OBVIOUS
  <1>1. OnHand = Opening
    BY OrderStockAssumption DEF Init, OnHand
  <1>2. StageNow = [o \in Orders |-> "new"]
    BY DEF Init, StageNow, Stage
  <1>3. HeldNow = [o \in Orders |-> NoWarehouse]
    BY DEF Init, HeldNow
  <1>4. QED
    BY <1>1, <1>2, <1>3 DEF Reservation!Init, OnHand, StageNow, HeldNow, Stage

LEMMA ReservationNext ==
  ASSUME Forward
  PROVE  StockInv /\ StockInv' /\ [Next]_vars => [Reservation!Next]_(Reservation!vars)
  <1> SUFFICES ASSUME StockInv, StockInv', [Next]_vars
               PROVE  Reservation!Next \/ UNCHANGED <<OnHand, StageNow, HeldNow>>
    BY ReservationViews DEF Reservation!vars, OnHand, StageNow, HeldNow, Stage
  <1>1. CASE UNCHANGED <<order, inv>>
    BY <1>1 DEF OnHand, StageNow, HeldNow, Stage
  <1>2. CASE Next /\ ~UNCHANGED <<order, inv>>
    <2>1. PICK w \in Workers : Step(w)
      BY <1>2 DEF Next
    <2>2. tx[w].op \in Ops \cup {"idle"}
      BY StockFacts DEF TodoOK
    <2>3. ~AdjustCommit(w) /\ ~StockInCommit(w) /\ ~UndoCommit(w)
      BY <2>2 DEF AdjustCommit, StockInCommit, UndoCommit, At, Forward, Relative
    <2>4. ~(InventoryLock(w) \/ Adjust(w) \/ StockIn(w) \/ Rollback(w))
      BY <1>2, <2>3
      DEF InventoryLock, ChooseWarehouse, LockItem, AssertItem, ReleaseItem, Adjust, AdjustRead,
          StockIn, StockInRead, StockInClaim, StockInKeys, StockInReadItem, StockInWriteItem,
          Rollback, rows
    <2>5. Create(w) \/ Approve(w) \/ Close(w) =>
            CreateCommit(w) \/ ApproveCommit(w) \/ RejectCommit(w) \/ DeleteCommit(w)
      BY <1>2 DEF Create, CreateBegin, CreateLockStore, CreateCheck, Approve, ApproveRead,
                  ApproveClaim, Close, RejectRead, RevokeRead, DeleteRead, CloseClaim, rows
    <2>6. Ship(w) \/ Cancel(w) \/ Confirm(w) \/ Undo(w) =>
            ShipCommit(w) \/ CancelCommit(w) \/ ConfirmCommit(w)
      BY <1>2, <2>3
      DEF Ship, ShipRead, ShipClaim, ShipCheckItem, ShipItem, Cancel, CancelRead, CancelClaim,
          Confirm, ConfirmRead, Undo, UndoRead, UndoReadOut, UndoUpdate, UndoItem,
          UndoCheckBoxes, rows
    <2>7. \/ CreateCommit(w) \/ ApproveCommit(w) \/ RejectCommit(w) \/ DeleteCommit(w)
          \/ ShipCommit(w) \/ CancelCommit(w) \/ ConfirmCommit(w)
      BY <2>1, <2>4, <2>5, <2>6 DEF Step
    <2>8. QED
      BY <2>7, CreateRefines, ApproveRefines, CloseRefines, ShipRefines, ConfirmRefines
      DEF Reservation!Next
  <1>3. QED
    BY <1>1, <1>2 DEF vars

\* The handlers of an order, statement by statement and interleaved, never
\* reserve stock that is not there and never serve an order twice: they
\* implement StockReservation, which reserves all of an order in one step.
THEOREM OrdersReserveStock == Forward => (Spec => ReservesStock)
  <1> SUFFICES ASSUME Forward PROVE Spec => ReservesStock
    OBVIOUS
  <1>1. StockInv /\ StockInv' /\ [Next]_vars => [Reservation!Next]_(Reservation!vars)
    BY ReservationNext
  <1>2. QED
    BY <1>1, ReservationInit, StockInvariant, PTL DEF Spec, ReservesStock, Reservation!Spec
=============================================================================
