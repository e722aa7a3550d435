----------------------- MODULE ContainerReturns_proofs -----------------------
(***************************************************************************)
(* Proofs about ContainerReturns: for any number of containers, requests,  *)
(* shipments and workers, the ledger of a store agrees with the documents  *)
(* it is made from.                                                        *)
(***************************************************************************)
EXTENDS ContainerReturns, UnitCounting

-----------------------------------------------------------------------------
(* The inductive invariant.                                                *)

\* The rows a transaction has written, and thereby locked.
Touched(t) == {k \in Rows : t.post[k] # Untouched}

\* The quantities of the document of t.
Plan(t) == IF t.op \in {"lend", "revocation"} THEN Lent[t.doc] ELSE Asked[t.doc]

\* What t does to a row it has touched.
Borrows(t, k) == IF t.op = "lend" THEN Plan(t)[k] ELSE 0

Returns(t, k) ==
  IF t.op = "complete" THEN t.got[k] ELSE IF t.op = "revocation" THEN Plan(t)[k] ELSE 0

Reserves(t, k) ==
  IF t.op = "submit" THEN Plan(t)[k] ELSE IF t.op \in DOMAIN Outcome THEN -Plan(t)[k] ELSE 0

Moved(b, t, k) ==
  [borrowed |-> b.borrowed + Borrows(t, k),
   returned |-> b.returned + Returns(t, k),
   current  |-> b.current + Borrows(t, k) - Returns(t, k),
   pending  |-> b.pending + Reserves(t, k)]

\* The document of a transaction is where the handler found it.
DocOK(t, r, s) ==
  /\ t.op = "lend" => t.doc \in Shipments /\ t.holds /\ s[t.doc] = "waiting"
  /\ t.op = "submit" => t.doc \in Requests /\ t.holds /\ r[t.doc].status = "NONE"
  /\ t.op \in DOMAIN Outcome => t.doc \in Requests /\ t.holds /\ r[t.doc].status = "PENDING"
  /\ t.op = "revocation" =>
       /\ t.doc \in Shipments /\ s[t.doc] # "waiting"
       /\ t.holds <=> t.pc = "items"
       /\ ~t.holds => t.todo = {} /\ Touched(t) = {}

\* Every row of the document is written or still to be written, and what is
\* written is what the document says.
WorkOK(t, b) ==
  /\ t.holds => Touched(t) \union t.todo = Positive(Plan(t))
  /\ Touched(t) \intersect t.todo = {}
  /\ t.item # NoRow => t.op = "revocation" /\ t.item \in t.todo
  /\ \A k \in Rows : t.got[k] # 0 => t.op = "complete" /\ k \in Touched(t)
  /\ \A k \in Touched(t) : t.post[k] = Moved(b[k], t, k) /\ Allowed(t.post[k])

\* No two transactions have written the same row or locked the same document.
Exclusive ==
  \A w \in Workers : \A v \in Workers \ {w} :
    /\ Touched(tx[w]) \intersect Touched(tx[v]) = {}
    /\ tx[w].holds /\ tx[v].holds => tx[w].doc # tx[v].doc

Pending == {q \in Requests : request[q].status = "PENDING"}
Sent == {s \in Shipments : shipment[s] # "waiting"}

AskedOf(k) == [q \in Requests |-> Asked[q][k]]
LentOf(k) == [s \in Shipments |-> Lent[s][k]]
GotOf(k) == [q \in Requests |-> request[q].got[k]]

\* The ledger agrees with the documents.
Agrees ==
  \A k \in Rows :
    /\ Allowed(box[k])
    /\ box[k].current = box[k].borrowed - box[k].returned
    /\ box[k].pending = Total(Pending, AskedOf(k))
    /\ box[k].borrowed = Total(Sent, LentOf(k))
    /\ (\A s \in Shipments : shipment[s] # "revoked") =>
         box[k].returned = Total(Requests, GotOf(k))

NothingYet ==
  \A q \in Requests : request[q].status # "COMPLETED" => request[q].got = Nothing

ReturnsInv ==
  /\ TypeOK
  /\ Exclusive
  /\ \A w \in Workers : DocOK(tx[w], request, shipment) /\ WorkOK(tx[w], box)
  /\ Agrees
  /\ NothingYet

-----------------------------------------------------------------------------
(* Steps that commit nothing.                                              *)

LEMMA PlanType ==
  ASSUME NEW t \in Transaction, DocOK(t, request, shipment), t.op # "idle"
  PROVE  Plan(t) \in [Rows -> Nat]
  BY ContainerReturnsAssumption DEF Transaction, DocOK, Plan, OpNames, Outcome

LEMMA LocalStep ==
  ASSUME ReturnsInv, NEW w \in Workers, NEW u \in Transaction,
         DocOK(u, request, shipment), WorkOK(u, box),
         \A v \in Workers \ {w} : /\ Touched(u) \intersect Touched(tx[v]) = {}
                                  /\ u.holds /\ tx[v].holds => u.doc # tx[v].doc,
         tx' = [tx EXCEPT ![w] = u], UNCHANGED <<box, request, shipment>>
  PROVE  ReturnsInv'
  <1>1. /\ tx' \in [Workers -> Transaction] /\ tx'[w] = u
        /\ \A v \in Workers \ {w} : tx'[v] = tx[v]
    BY DEF ReturnsInv, TypeOK
  <1>2. TypeOK'
    BY <1>1 DEF ReturnsInv, TypeOK
  <1>3. \A v \in Workers : DocOK(tx'[v], request, shipment) /\ WorkOK(tx'[v], box)
    BY <1>1 DEF ReturnsInv
  <1>4. \A a \in Workers : \A b \in Workers \ {a} :
          /\ Touched(tx'[a]) \intersect Touched(tx'[b]) = {}
          /\ tx'[a].holds /\ tx'[b].holds => tx'[a].doc # tx'[b].doc
    <2> SUFFICES ASSUME NEW a \in Workers, NEW b \in Workers \ {a}
                 PROVE  /\ Touched(tx'[a]) \intersect Touched(tx'[b]) = {}
                        /\ tx'[a].holds /\ tx'[b].holds => tx'[a].doc # tx'[b].doc
      OBVIOUS
    <2>1. CASE a = w
      BY <2>1, <1>1
    <2>2. CASE b = w
      <3>1. tx'[b] = u /\ tx'[a] = tx[a] /\ a \in Workers \ {w}
        BY <2>2, <1>1
      <3>2. QED
        BY <3>1
    <2>3. CASE a # w /\ b # w
      BY <2>3, <1>1 DEF ReturnsInv, Exclusive
    <2>4. QED
      BY <2>1, <2>2, <2>3
  <1>5. Exclusive'
    BY <1>4 DEF Exclusive, Touched
  <1>6. Agrees' /\ NothingYet'
    BY DEF ReturnsInv, Agrees, NothingYet, Pending, Sent, AskedOf, LentOf, GotOf
  <1>7. \A v \in Workers : DocOK(tx[v], request, shipment)' /\ WorkOK(tx[v], box)'
    BY <1>3 DEF DocOK, WorkOK, Touched, Plan, Moved, Borrows, Returns, Reserves, Positive
  <1>8. QED
    BY <1>2, <1>5, <1>6, <1>7 DEF ReturnsInv

LEMMA IdleOK ==
  ASSUME NEW r, NEW s, NEW b
  PROVE  /\ Idle \in Transaction /\ DocOK(Idle, r, s) /\ WorkOK(Idle, b)
         /\ Touched(Idle) = {} /\ ~Idle.holds
  <1>1. Idle \in Transaction
    BY DEF Idle, Transaction, OpNames, Nothing, NoWrites
  <1>2. Touched(Idle) = {}
    BY DEF Touched, Idle, NoWrites
  <1>3. DocOK(Idle, r, s) /\ WorkOK(Idle, b)
    BY <1>2 DEF DocOK, WorkOK, Idle, Outcome, Nothing
  <1>4. QED
    BY <1>1, <1>2, <1>3 DEF Idle

\* A handler begins; the lock of its document is free if it takes it.
LEMMA BeginStep ==
  ASSUME ReturnsInv, NEW w \in Workers, NEW op \in OpNames \ {"idle"},
         NEW pc \in {"update", "items"}, NEW doc \in Requests \union Shipments,
         NEW holds \in BOOLEAN, NEW todo \in SUBSET Rows,
         holds => Free(w, doc),
         op = "lend" => doc \in Shipments /\ holds /\ shipment[doc] = "waiting",
         op = "submit" => doc \in Requests /\ holds /\ request[doc].status = "NONE",
         op \in DOMAIN Outcome => doc \in Requests /\ holds /\ request[doc].status = "PENDING",
         op = "revocation" => /\ doc \in Shipments /\ shipment[doc] # "waiting"
                              /\ ~holds /\ pc = "update" /\ todo = {},
         holds => todo = Positive(IF op \in {"lend", "revocation"} THEN Lent[doc] ELSE Asked[doc]),
         Begin(w, op, pc, doc, holds, todo), UNCHANGED <<box, request, shipment>>
  PROVE  ReturnsInv'
  <1> DEFINE u == [Idle EXCEPT !.op = op, !.pc = pc, !.doc = doc, !.holds = holds, !.todo = todo]
  <1>1. /\ u \in Transaction /\ u.op = op /\ u.pc = pc /\ u.doc = doc /\ u.holds = holds
        /\ u.todo = todo /\ u.item = NoRow /\ u.got = Nothing /\ u.post = NoWrites
    BY IdleOK DEF Idle, Transaction
  <1>2. Touched(u) = {}
    BY <1>1 DEF Touched, NoWrites
  <1>3. DocOK(u, request, shipment)
    BY <1>1, <1>2 DEF DocOK
  <1>4. WorkOK(u, box)
    BY <1>1, <1>2 DEF WorkOK, Nothing, Plan
  <1>5. tx' = [tx EXCEPT ![w] = u]
    BY DEF Begin
  <1>6. \A v \in Workers \ {w} : u.holds /\ tx[v].holds => u.doc # tx[v].doc
    BY <1>1 DEF Free
  <1>7. QED
    <2> HIDE DEF u
    <2>1. QED
      BY <1>1, <1>2, <1>3, <1>4, <1>5, <1>6, LocalStep

\* A handler writes a row it still has to write.
LEMMA WriteStep ==
  ASSUME ReturnsInv, NEW w \in Workers, tx[w].holds, NEW k \in tx[w].todo,
         NEW n \in Nat, n # 0 => tx[w].op = "complete",
         NEW b \in BoxRec,
         NEW u, u = [tx[w] EXCEPT !.post = [tx[w].post EXCEPT ![k] = b],
                                  !.todo = tx[w].todo \ {k}, !.item = NoRow,
                                  !.got = [tx[w].got EXCEPT ![k] = n]],
         b = Moved(box[k], u, k),
         WriteRow(w, k, b, n), UNCHANGED <<box, request, shipment>>
  PROVE  ReturnsInv'
  <1> DEFINE t == tx[w]
  <1>1. t \in Transaction /\ DocOK(t, request, shipment) /\ WorkOK(t, box)
    BY DEF ReturnsInv, TypeOK
  <1>2. k \in Rows /\ b # Untouched
    BY <1>1, ContainerReturnsAssumption DEF Transaction, BoxRec
  <1>3. /\ u \in Transaction /\ u.op = t.op /\ u.pc = t.pc /\ u.doc = t.doc /\ u.holds = t.holds
        /\ u.todo = t.todo \ {k} /\ u.item = NoRow
        /\ u.got = [t.got EXCEPT ![k] = n] /\ u.post = [t.post EXCEPT ![k] = b]
    BY <1>1 DEF Transaction
  <1>4. /\ Touched(u) = Touched(t) \union {k}
        /\ \A q \in Touched(t) : q # k
    BY <1>1, <1>2, <1>3 DEF Touched, Transaction, WorkOK
  <1>5. DocOK(u, request, shipment)
    BY <1>1, <1>3 DEF DocOK
  <1>6. \A q \in Touched(t) : Moved(box[q], u, q) = Moved(box[q], t, q) /\ u.post[q] = t.post[q]
    <2> SUFFICES ASSUME NEW q \in Touched(t)
                 PROVE  Moved(box[q], u, q) = Moved(box[q], t, q) /\ u.post[q] = t.post[q]
      OBVIOUS
    <2>1. q \in Rows /\ q # k /\ t.got \in [Rows -> Nat] /\ t.post \in [Rows -> BoxRec \cup {Untouched}]
      BY <1>1, <1>4 DEF Touched, Transaction
    <2>2. u.got[q] = t.got[q] /\ u.post[q] = t.post[q]
      BY <2>1, <1>3
    <2>3. Plan(u) = Plan(t)
      BY <1>3 DEF Plan
    <2>4. Moved(box[q], u, q) = Moved(box[q], t, q)
      BY <2>2, <2>3, <1>3 DEF Moved, Borrows, Returns, Reserves
    <2>5. QED
      BY <2>2, <2>4
  <1>7. Allowed(b)
    BY DEF WriteRow
  <1>8. WorkOK(u, box)
    <2>1. u.holds => Touched(u) \union u.todo = Positive(Plan(u))
      BY <1>1, <1>3, <1>4 DEF WorkOK, Plan
    <2>2. Touched(u) \intersect u.todo = {}
      BY <1>1, <1>3, <1>4 DEF WorkOK
    <2>3. \A q \in Rows : u.got[q] # 0 => u.op = "complete" /\ q \in Touched(u)
      BY <1>1, <1>3, <1>4 DEF WorkOK, Transaction
    <2>4. \A q \in Touched(u) : u.post[q] = Moved(box[q], u, q) /\ Allowed(u.post[q])
      <3> SUFFICES ASSUME NEW q \in Touched(u)
                   PROVE  u.post[q] = Moved(box[q], u, q) /\ Allowed(u.post[q])
        OBVIOUS
      <3>1. CASE q = k
        <4>1. u.post[k] = b
          BY <1>1, <1>2, <1>3 DEF Transaction
        <4>2. QED
          BY <3>1, <4>1, <1>7
      <3>2. CASE q \in Touched(t)
        BY <3>2, <1>1, <1>6 DEF WorkOK
      <3>3. QED
        BY <3>1, <3>2, <1>4
    <2>5. QED
      BY <1>3, <2>1, <2>2, <2>3, <2>4 DEF WorkOK
  <1>9. tx' = [tx EXCEPT ![w] = u]
    <2>1. tx \in [Workers -> Transaction]
      BY DEF ReturnsInv, TypeOK
    <2>2. tx' = [tx EXCEPT ![w].post[k] = b, ![w].todo = @ \ {k}, ![w].item = NoRow,
                           ![w].got[k] = n]
      BY DEF WriteRow
    <2>3. tx' \in [Workers -> [op : OpNames, pc : {"idle", "update", "items"},
                               doc : Requests \cup Shipments \cup {NoDoc}, holds : BOOLEAN,
                               todo : SUBSET Rows, item : Rows \cup {NoRow},
                               got : [Rows -> Nat], post : [Rows -> BoxRec \cup {Untouched}]]]
      BY <2>1, <2>2, <1>2 DEF Transaction
    <2>4. tx'[w] = u /\ \A v \in Workers \ {w} : tx'[v] = tx[v]
      BY <2>1, <2>2, <1>2 DEF Transaction
    <2>5. QED
      BY <2>1, <2>3, <2>4
  <1>10. \A v \in Workers \ {w} : /\ Touched(u) \intersect Touched(tx[v]) = {}
                                  /\ u.holds /\ tx[v].holds => u.doc # tx[v].doc
    <2> SUFFICES ASSUME NEW v \in Workers \ {w}
                 PROVE  /\ Touched(u) \intersect Touched(tx[v]) = {}
                        /\ u.holds /\ tx[v].holds => u.doc # tx[v].doc
      OBVIOUS
    <2>1. k \notin Touched(tx[v])
      BY DEF WriteRow, Touched
    <2>2. QED
      BY <2>1, <1>3, <1>4 DEF ReturnsInv, Exclusive
  <1>11. u \in Transaction /\ ReturnsInv /\ UNCHANGED <<box, request, shipment>>
    BY <1>3
  <1>12. QED
    BY ONLY <1>5, <1>8, <1>9, <1>10, <1>11, w \in Workers, LocalStep

LEMMA RollbackStep ==
  ASSUME ReturnsInv, NEW w \in Workers, Rollback(w)
  PROVE  ReturnsInv'
  BY IdleOK, LocalStep DEF Rollback

LEMMA LendBeginStep ==
  ASSUME ReturnsInv, NEW w \in Workers, NEW s \in Shipments, LendBegin(w, s)
  PROVE  ReturnsInv'
  <1>1. Positive(Lent[s]) \in SUBSET Rows
    BY DEF Positive
  <1>2. QED
    BY <1>1, BeginStep DEF LendBegin, OpNames, Outcome

LEMMA SubmitBeginStep ==
  ASSUME ReturnsInv, NEW w \in Workers, NEW q \in Requests, SubmitBegin(w, q)
  PROVE  ReturnsInv'
  <1>1. Positive(Asked[q]) \in SUBSET Rows
    BY DEF Positive
  <1>2. QED
    BY <1>1, BeginStep DEF SubmitBegin, OpNames, Outcome

LEMMA SettleBeginStep ==
  ASSUME ReturnsInv, NEW w \in Workers, NEW q \in Requests, NEW op \in DOMAIN Outcome,
         SettleBegin(w, q, op)
  PROVE  ReturnsInv'
  <1>1. Positive(Asked[q]) \in SUBSET Rows
    BY DEF Positive
  <1>2. op \in OpNames \ {"idle", "lend", "submit", "revocation"}
    BY DEF OpNames, Outcome
  <1>3. QED
    BY <1>1, <1>2, BeginStep DEF SettleBegin

LEMMA UndoReadStep ==
  ASSUME ReturnsInv, NEW w \in Workers, NEW s \in Shipments, UndoRead(w, s)
  PROVE  ReturnsInv'
  <1>1. Begin(w, "revocation", "update", s, FALSE, {}) /\ shipment[s] = "sent"
        /\ UNCHANGED <<box, request, shipment>>
    BY DEF UndoRead
  <1>2. /\ "revocation" \in OpNames \ {"idle"} /\ "revocation" \notin DOMAIN Outcome
        /\ {} \in SUBSET Rows /\ FALSE \in BOOLEAN
    BY DEF OpNames, Outcome
  <1>3. QED
    BY <1>1, <1>2, BeginStep

\* The revocation locks its order and lists the rows it will write.
LEMMA UndoUpdateStep ==
  ASSUME ReturnsInv, NEW w \in Workers, UndoUpdate(w)
  PROVE  ReturnsInv'
  <1> DEFINE t == tx[w]
             u == [t EXCEPT !.pc = "items", !.holds = TRUE, !.todo = Positive(Lent[t.doc])]
  <1>1. /\ t \in Transaction /\ DocOK(t, request, shipment) /\ WorkOK(t, box)
        /\ t.op = "revocation" /\ t.pc = "update" /\ Free(w, t.doc)
        /\ UNCHANGED <<box, request, shipment>>
    BY DEF ReturnsInv, TypeOK, UndoUpdate
  <1>2. ~t.holds /\ t.todo = {} /\ Touched(t) = {} /\ t.doc \in Shipments
    BY <1>1 DEF DocOK, Transaction
  <1>3. /\ u \in Transaction /\ u.op = "revocation" /\ u.pc = "items" /\ u.doc = t.doc
        /\ u.holds /\ u.todo = Positive(Lent[t.doc]) /\ u.item = t.item /\ u.got = t.got
        /\ u.post = t.post
    BY <1>1 DEF Transaction, Positive
  <1>4. Touched(u) = {}
    BY <1>2, <1>3 DEF Touched
  <1>5. DocOK(u, request, shipment)
    BY <1>1, <1>3 DEF DocOK, Outcome
  <1>6. WorkOK(u, box)
    BY <1>1, <1>2, <1>3, <1>4 DEF WorkOK, Plan
  <1>7. tx' = [tx EXCEPT ![w] = u]
    BY <1>1 DEF UndoUpdate, ReturnsInv, TypeOK
  <1>8. \A v \in Workers \ {w} : /\ Touched(u) \intersect Touched(tx[v]) = {}
                                 /\ u.holds /\ tx[v].holds => u.doc # tx[v].doc
    BY <1>1, <1>3, <1>4 DEF Free
  <1>9. QED
    <2> HIDE DEF u
    <2>1. QED
      BY <1>1, <1>3, <1>5, <1>6, <1>7, <1>8, LocalStep

\* The revocation reads a row it will write.
LEMMA UndoCheckItemStep ==
  ASSUME ReturnsInv, NEW w \in Workers, UndoCheckItem(w)
  PROVE  ReturnsInv'
  <1> DEFINE t == tx[w]
  <1>1. PICK k \in t.todo : tx' = [tx EXCEPT ![w].item = k]
    BY DEF UndoCheckItem
  <1> DEFINE u == [t EXCEPT !.item = k]
  <1>2. /\ t \in Transaction /\ DocOK(t, request, shipment) /\ WorkOK(t, box)
        /\ t.op = "revocation" /\ UNCHANGED <<box, request, shipment>>
    BY DEF ReturnsInv, TypeOK, UndoCheckItem
  <1>3. /\ u \in Transaction /\ u.op = t.op /\ u.pc = t.pc /\ u.doc = t.doc
        /\ u.holds = t.holds /\ u.todo = t.todo /\ u.item = k /\ u.got = t.got
        /\ u.post = t.post
    BY <1>2 DEF Transaction
  <1>4. Touched(u) = Touched(t)
    BY <1>3 DEF Touched
  <1>5. DocOK(u, request, shipment)
    BY <1>2, <1>3, <1>4 DEF DocOK
  <1>6. \A q : Moved(box[q], u, q) = Moved(box[q], t, q)
    <2>1. Plan(u) = Plan(t)
      BY <1>3 DEF Plan
    <2>2. QED
      BY <2>1, <1>3 DEF Moved, Borrows, Returns, Reserves
  <1>7. WorkOK(u, box)
    BY <1>2, <1>3, <1>4, <1>6 DEF WorkOK, Plan
  <1>8. tx' = [tx EXCEPT ![w] = u]
    BY <1>1, <1>2 DEF ReturnsInv, TypeOK
  <1>9. \A v \in Workers \ {w} : /\ Touched(u) \intersect Touched(tx[v]) = {}
                                 /\ u.holds /\ tx[v].holds => u.doc # tx[v].doc
    BY <1>3, <1>4 DEF ReturnsInv, Exclusive
  <1>10. QED
    <2> HIDE DEF u
    <2>1. QED
      BY <1>2, <1>3, <1>5, <1>7, <1>8, <1>9, LocalStep

\* What a handler that writes row k makes of its transaction.
Writes(t, k, b, n) ==
  [t EXCEPT !.post = [t.post EXCEPT ![k] = b], !.todo = t.todo \ {k}, !.item = NoRow,
            !.got = [t.got EXCEPT ![k] = n]]

\* A row still to be written is read as it is committed; what the transaction
\* does to it follows from its operation and n.
LEMMA WritesMoved ==
  ASSUME ReturnsInv, NEW w \in Workers, tx[w].op # "idle", NEW k \in tx[w].todo,
         NEW b, NEW n \in Nat
  PROVE  LET t == tx[w]  u == Writes(t, k, b, n)
         IN  /\ tx[w].holds /\ k \in Rows /\ Seen(w, k) = box[k] /\ box[k] \in BoxRec
             /\ Plan(t)[k] \in Nat
             /\ Plan(u) = Plan(t) /\ u.op = t.op /\ u.got[k] = n
  <1> DEFINE t == tx[w]
             u == Writes(t, k, b, n)
  <1>1. t \in Transaction /\ DocOK(t, request, shipment) /\ WorkOK(t, box)
    BY DEF ReturnsInv, TypeOK
  <1>2. k \in Rows /\ k \notin Touched(t)
    BY <1>1 DEF Transaction, WorkOK
  <1>3. t.holds
    BY <1>1 DEF DocOK, Transaction, OpNames
  <1>4. Seen(w, k) = box[k] /\ box[k] \in BoxRec
    BY <1>2 DEF Touched, Seen, ReturnsInv, TypeOK
  <1>5. Plan(t) \in [Rows -> Nat]
    BY <1>1, PlanType
  <1>6. u.op = t.op /\ u.doc = t.doc /\ u.got = [t.got EXCEPT ![k] = n] /\ t.got \in [Rows -> Nat]
    BY <1>1 DEF Writes, Transaction
  <1>7. Plan(u) = Plan(t)
    BY <1>6 DEF Plan
  <1>8. QED
    BY <1>2, <1>3, <1>4, <1>5, <1>6, <1>7

LEMMA LendItemStep ==
  ASSUME ReturnsInv, NEW w \in Workers, LendItem(w)
  PROVE  ReturnsInv'
  <1> DEFINE t == tx[w]
  <1>1. PICK k \in t.todo :
          LET n == Lent[t.doc][k]
          IN  WriteRow(w, k, [Seen(w, k) EXCEPT !.borrowed = @ + n, !.current = @ + n], 0)
    BY DEF LendItem
  <1> DEFINE n == Lent[t.doc][k]
             b == [Seen(w, k) EXCEPT !.borrowed = @ + n, !.current = @ + n]
             u == Writes(t, k, b, 0)
  <1>2. t.op = "lend" /\ UNCHANGED <<box, request, shipment>>
    BY DEF LendItem
  <1>3. /\ t.holds /\ k \in Rows /\ Seen(w, k) = box[k] /\ box[k] \in BoxRec
        /\ Plan(t)[k] \in Nat /\ Plan(u) = Plan(t) /\ u.op = t.op /\ u.got[k] = 0
    BY <1>2, WritesMoved
  <1>4. n \in Nat /\ Plan(t)[k] = n
    BY <1>2, <1>3 DEF Plan
  <1>5. b \in BoxRec /\ b = Moved(box[k], u, k)
    <2> HIDE DEF u, n
    <2>1. Borrows(u, k) = n /\ Returns(u, k) = 0 /\ Reserves(u, k) = 0
      BY <1>2, <1>3, <1>4 DEF Borrows, Returns, Reserves, Outcome
    <2>2. PICK x \in Int, y \in Int, z \in Int : x = box[k].borrowed + n /\ y = box[k].current + n /\ z = 0
      BY <1>3, <1>4 DEF BoxRec
    <2>3. b = [box[k] EXCEPT !.borrowed = x, !.current = y]
      BY <1>2, <1>3, <1>4, <2>2
    <2>4. b \in BoxRec /\ b = [borrowed |-> x, returned |-> box[k].returned, current |-> y, pending |-> box[k].pending]
      <3> HIDE DEF b
      <3>1. PICK c \in BoxRec : c = box[k]
        BY <1>3, <1>4
      <3>2. b \in BoxRec
        BY <2>3, <3>1 DEF BoxRec
      <3>3. QED
        BY <2>3, <3>1, <3>2 DEF BoxRec
    <2>5. /\ b = [borrowed |-> box[k].borrowed + Borrows(u, k),
                  returned |-> box[k].returned + Returns(u, k),
                  current |-> box[k].current + Borrows(u, k) - Returns(u, k),
                  pending |-> box[k].pending + Reserves(u, k)]
      <3> HIDE DEF b
      <3>1. QED
        BY <1>2, <1>3, <1>4, <2>1, <2>2, <2>4 DEF BoxRec
    <2>6. QED
      <3> HIDE DEF b
      <3>1. QED
        BY <2>4, <2>5 DEF Moved
  <1>6. QED
    <2> HIDE DEF b, n
    <2>1. QED
      BY <1>1, <1>2, <1>3, <1>5, WriteStep DEF Writes, b, n

LEMMA SubmitItemStep ==
  ASSUME ReturnsInv, NEW w \in Workers, SubmitItem(w)
  PROVE  ReturnsInv'
  <1> DEFINE t == tx[w]
  <1>1. PICK k \in t.todo :
          WriteRow(w, k, [Seen(w, k) EXCEPT !.pending = @ + Asked[t.doc][k]], 0)
    BY DEF SubmitItem
  <1> DEFINE n == Asked[t.doc][k]
             b == [Seen(w, k) EXCEPT !.pending = @ + n]
             u == Writes(t, k, b, 0)
  <1>2. t.op = "submit" /\ UNCHANGED <<box, request, shipment>>
    BY DEF SubmitItem
  <1>3. /\ t.holds /\ k \in Rows /\ Seen(w, k) = box[k] /\ box[k] \in BoxRec
        /\ Plan(t)[k] \in Nat /\ Plan(u) = Plan(t) /\ u.op = t.op /\ u.got[k] = 0
    <2>1. t.op # "idle"
      BY <1>2
    <2>2. QED
      <3> HIDE DEF b
      <3>1. QED
        BY <2>1, WritesMoved
  <1>4. n \in Nat /\ Plan(t)[k] = n
    BY <1>2, <1>3 DEF Plan
  <1>5. b \in BoxRec /\ b = Moved(box[k], u, k)
    <2> HIDE DEF u
    <2>1. Borrows(u, k) = 0 /\ Returns(u, k) = 0 /\ Reserves(u, k) = n
      BY <1>2, <1>3, <1>4 DEF Borrows, Returns, Reserves, Outcome
    <2>2. QED
      BY <1>2, <1>3, <1>4, <2>1 DEF BoxRec, Moved
  <1>6. QED
    <2> HIDE DEF b, n
    <2>1. QED
      BY <1>1, <1>2, <1>3, <1>5, WriteStep DEF Writes, b, n

LEMMA ReceiveItemStep ==
  ASSUME ReturnsInv, NEW w \in Workers, ReceiveItem(w)
  PROVE  ReturnsInv'
  <1> DEFINE t == tx[w]
  <1>1. PICK k \in t.todo : \E n \in 0 .. Asked[t.doc][k] :
          WriteRow(w, k, [Seen(w, k) EXCEPT !.pending = @ - Asked[t.doc][k], !.returned = @ + n,
                                            !.current = @ - n], n)
    BY DEF ReceiveItem
  <1> DEFINE asked == Asked[t.doc][k]
  <1>2. PICK n \in 0 .. asked :
          WriteRow(w, k, [Seen(w, k) EXCEPT !.pending = @ - asked, !.returned = @ + n,
                                            !.current = @ - n], n)
    BY <1>1
  <1> DEFINE b == [Seen(w, k) EXCEPT !.pending = @ - asked, !.returned = @ + n, !.current = @ - n]
             u == Writes(t, k, b, n)
  <1>3. t.op = "complete" /\ UNCHANGED <<box, request, shipment>>
    BY DEF ReceiveItem
  <1>4. /\ t.holds /\ k \in Rows /\ Seen(w, k) = box[k] /\ box[k] \in BoxRec
        /\ Plan(t)[k] \in Nat
    BY <1>3, WritesMoved
  <1>5. asked \in Nat /\ Plan(t)[k] = asked /\ n \in Nat
    BY <1>3, <1>4 DEF Plan
  <1>6. Plan(u) = Plan(t) /\ u.op = t.op /\ u.got[k] = n
    BY <1>3, <1>5, WritesMoved
  <1>7. b \in BoxRec /\ b = Moved(box[k], u, k)
    <2> HIDE DEF u, asked
    <2>1. Borrows(u, k) = 0 /\ Returns(u, k) = n /\ Reserves(u, k) = -asked
      BY <1>3, <1>4, <1>5, <1>6 DEF Borrows, Returns, Reserves, Outcome
    <2>2. PICK x \in Int, y \in Int, z \in Int : x = box[k].returned + n /\ y = box[k].current - n /\ z = box[k].pending - asked
      <3>1. /\ box[k].returned + n \in Int /\ box[k].current - n \in Int
            /\ box[k].pending - asked \in Int
        BY <1>4, <1>5 DEF BoxRec
      <3>2. QED
        BY <3>1
    <2>3. b = [box[k] EXCEPT !.pending = z, !.returned = x, !.current = y]
      BY <1>3, <1>4, <1>5, <1>6, <2>2
    <2>4. b \in BoxRec /\ b = [borrowed |-> box[k].borrowed, returned |-> x, current |-> y, pending |-> z]
      <3> HIDE DEF b
      <3>1. PICK c \in BoxRec : c = box[k]
        BY <1>4, <1>5
      <3>2. b \in BoxRec
        BY <2>3, <3>1 DEF BoxRec
      <3>3. QED
        BY <2>3, <3>1, <3>2 DEF BoxRec
    <2>5. /\ b = [borrowed |-> box[k].borrowed + Borrows(u, k),
                  returned |-> box[k].returned + Returns(u, k),
                  current |-> box[k].current + Borrows(u, k) - Returns(u, k),
                  pending |-> box[k].pending + Reserves(u, k)]
      <3> HIDE DEF b
      <3>1. QED
        BY <1>3, <1>4, <1>5, <1>6, <2>1, <2>2, <2>4 DEF BoxRec
    <2>6. QED
      <3> HIDE DEF b
      <3>1. QED
        BY <2>4, <2>5 DEF Moved
  <1>8. QED
    <2> HIDE DEF b, asked
    <2>1. QED
      BY <1>2, <1>3, <1>4, <1>5, <1>7, WriteStep DEF Writes, b, asked

LEMMA DeclineItemStep ==
  ASSUME ReturnsInv, NEW w \in Workers, DeclineItem(w)
  PROVE  ReturnsInv'
  <1> DEFINE t == tx[w]
  <1>1. PICK k \in t.todo :
          WriteRow(w, k, [Seen(w, k) EXCEPT !.pending = @ - Asked[t.doc][k]], 0)
    BY DEF DeclineItem
  <1> DEFINE n == Asked[t.doc][k]
             b == [Seen(w, k) EXCEPT !.pending = @ - n]
             u == Writes(t, k, b, 0)
  <1>2. t.op \in {"reject", "cancel"} /\ UNCHANGED <<box, request, shipment>>
    BY DEF DeclineItem
  <1>3. /\ t.holds /\ k \in Rows /\ Seen(w, k) = box[k] /\ box[k] \in BoxRec
        /\ Plan(t)[k] \in Nat /\ Plan(u) = Plan(t) /\ u.op = t.op /\ u.got[k] = 0
    BY <1>2, WritesMoved
  <1>4. n \in Nat /\ Plan(t)[k] = n
    BY <1>2, <1>3 DEF Plan
  <1>5. b \in BoxRec /\ b = Moved(box[k], u, k)
    <2> HIDE DEF u
    <2>1. Borrows(u, k) = 0 /\ Returns(u, k) = 0 /\ Reserves(u, k) = -n
      BY <1>2, <1>3, <1>4 DEF Borrows, Returns, Reserves, Outcome
    <2>2. QED
      BY <1>2, <1>3, <1>4, <2>1 DEF BoxRec, Moved
  <1>6. QED
    <2> HIDE DEF b, n
    <2>1. QED
      BY <1>1, <1>2, <1>3, <1>5, WriteStep DEF Writes, b, n

LEMMA UndoItemStep ==
  ASSUME ReturnsInv, NEW w \in Workers, UndoItem(w)
  PROVE  ReturnsInv'
  <1> DEFINE t == tx[w]
             k == t.item
             n == Lent[t.doc][k]
             b == [Seen(w, k) EXCEPT !.returned = @ + n, !.current = @ - n]
             u == Writes(t, k, b, 0)
  <1>1. /\ t.op = "revocation" /\ k # NoRow /\ WriteRow(w, k, b, 0)
        /\ UNCHANGED <<box, request, shipment>>
    BY DEF UndoItem
  <1>2. k \in t.todo
    BY <1>1 DEF ReturnsInv, WorkOK
  <1>3. /\ t.holds /\ k \in Rows /\ Seen(w, k) = box[k] /\ box[k] \in BoxRec
        /\ Plan(t)[k] \in Nat /\ Plan(u) = Plan(t) /\ u.op = t.op /\ u.got[k] = 0
    <2> HIDE DEF k, b
    <2>1. QED
      BY <1>1, <1>2, WritesMoved
  <1>4. n \in Nat /\ Plan(t)[k] = n
    BY <1>1, <1>3 DEF Plan
  <1>5. b \in BoxRec /\ b = Moved(box[k], u, k)
    <2> HIDE DEF u, n, k
    <2>1. Borrows(u, k) = 0 /\ Returns(u, k) = n /\ Reserves(u, k) = 0
      BY <1>1, <1>3, <1>4 DEF Borrows, Returns, Reserves, Outcome
    <2>2. PICK x \in Int, y \in Int, z \in Int : x = box[k].returned + n /\ y = box[k].current - n /\ z = 0
      BY <1>3, <1>4 DEF BoxRec
    <2>3. b = [box[k] EXCEPT !.returned = x, !.current = y]
      BY <1>1, <1>3, <1>4, <2>2
    <2>4. b \in BoxRec /\ b = [borrowed |-> box[k].borrowed, returned |-> x, current |-> y, pending |-> box[k].pending]
      <3> HIDE DEF b
      <3>1. PICK c \in BoxRec : c = box[k]
        BY <1>3, <1>4
      <3>2. b \in BoxRec
        BY <2>3, <3>1 DEF BoxRec
      <3>3. QED
        BY <2>3, <3>1, <3>2 DEF BoxRec
    <2>5. /\ b = [borrowed |-> box[k].borrowed + Borrows(u, k),
                  returned |-> box[k].returned + Returns(u, k),
                  current |-> box[k].current + Borrows(u, k) - Returns(u, k),
                  pending |-> box[k].pending + Reserves(u, k)]
      <3> HIDE DEF b
      <3>1. QED
        BY <1>1, <1>3, <1>4, <2>1, <2>2, <2>4 DEF BoxRec
    <2>6. QED
      <3> HIDE DEF b
      <3>1. QED
        BY <2>4, <2>5 DEF Moved
  <1>6. QED
    <2> HIDE DEF b, k
    <2>1. QED
      BY <1>1, <1>2, <1>3, <1>5, WriteStep DEF Writes

-----------------------------------------------------------------------------
(* Commits.                                                                *)

\* A commit moves every row of the ledger by what its document says.
LEMMA CommitBox ==
  ASSUME ReturnsInv, NEW w \in Workers, tx[w].op # "idle", Commit(w)
  PROVE  /\ tx[w].holds
         /\ \A k \in Rows :
              /\ Plan(tx[w])[k] \in Nat
              /\ tx[w].got[k] \in Nat
              /\ tx[w].got[k] # 0 => tx[w].op = "complete"
              /\ box[k] \in BoxRec /\ box'[k] \in BoxRec
              /\ box'[k] = Moved(box[k], tx[w], k)
              /\ Allowed(box'[k])
  <1> DEFINE t == tx[w]
  <1>1. /\ t \in Transaction /\ DocOK(t, request, shipment) /\ WorkOK(t, box)
        /\ t.todo = {} /\ t.holds
    BY DEF ReturnsInv, TypeOK, Commit
  <1>2. Plan(t) \in [Rows -> Nat]
    BY <1>1, PlanType
  <1>3. ASSUME NEW k \in Rows
        PROVE  /\ box[k] \in BoxRec /\ box'[k] \in BoxRec
               /\ box'[k] = Moved(box[k], t, k) /\ Allowed(box'[k])
    <2>1. /\ box[k] \in BoxRec /\ Allowed(box[k]) /\ box'[k] = Seen(w, k)
      BY DEF ReturnsInv, TypeOK, Agrees, Commit
    <2>2. CASE k \in Touched(t)
      <3>1. /\ box'[k] = t.post[k]
            /\ t.post[k] = Moved(box[k], t, k) /\ Allowed(t.post[k])
        BY <2>1, <2>2, <1>1 DEF Seen, Touched, WorkOK
      <3>2. t.post[k] \in BoxRec
        BY <2>2, <1>1 DEF Touched, Transaction
      <3>3. QED
        BY <2>1, <3>1, <3>2
    <2>3. CASE k \notin Touched(t)
      <3>1. box'[k] = box[k]
        BY <2>1, <2>3 DEF Seen, Touched
      <3>2. Plan(t)[k] = 0 /\ t.got[k] = 0
        BY <2>3, <1>1, <1>2 DEF WorkOK, Positive, Transaction
      <3>3. Borrows(t, k) = 0 /\ Returns(t, k) = 0 /\ Reserves(t, k) = 0
        <4>1. Borrows(t, k) = 0
          BY <3>2 DEF Borrows
        <4>2. Returns(t, k) = 0
          BY <3>2 DEF Returns
        <4>3. Reserves(t, k) \in {Plan(t)[k], -Plan(t)[k], 0}
          BY DEF Reserves
        <4>4. QED
          BY <3>2, <4>1, <4>2, <4>3
      <3>4. Moved(box[k], t, k) = box[k]
        BY <3>3, <2>1 DEF Moved, BoxRec
      <3>5. QED
        BY <2>1, <3>1, <3>4
    <2>4. QED
      BY <2>2, <2>3
  <1>4. \A k \in Rows : t.got[k] \in Nat /\ (t.got[k] # 0 => t.op = "complete")
    BY <1>1 DEF Transaction, WorkOK
  <1>5. QED
    BY <1>1, <1>2, <1>3, <1>4

\* A commit leaves the other transactions where they were.
LEMMA CommitOthers ==
  ASSUME ReturnsInv, NEW w \in Workers, tx[w].op # "idle", Commit(w),
         \A q \in Requests : q # tx[w].doc => request'[q] = request[q],
         \A s \in Shipments : s # tx[w].doc => shipment'[s] = shipment[s],
         \A s \in Shipments : shipment[s] # "waiting" => shipment'[s] # "waiting"
  PROVE  /\ tx' \in [Workers -> Transaction]
         /\ Exclusive'
         /\ \A v \in Workers : DocOK(tx[v], request, shipment)' /\ WorkOK(tx[v], box)'
  <1>1. /\ tx' \in [Workers -> Transaction] /\ tx'[w] = Idle
        /\ \A v \in Workers \ {w} : tx'[v] = tx[v]
    BY IdleOK DEF ReturnsInv, TypeOK, Commit
  <1>2. \A a \in Workers : \A b \in Workers \ {a} :
          /\ Touched(tx'[a]) \intersect Touched(tx'[b]) = {}
          /\ tx'[a].holds /\ tx'[b].holds => tx'[a].doc # tx'[b].doc
    <2> SUFFICES ASSUME NEW a \in Workers, NEW b \in Workers \ {a}
                 PROVE  /\ Touched(tx'[a]) \intersect Touched(tx'[b]) = {}
                        /\ tx'[a].holds /\ tx'[b].holds => tx'[a].doc # tx'[b].doc
      OBVIOUS
    <2>1. CASE a = w \/ b = w
      <3>1. tx'[a] = Idle \/ tx'[b] = Idle
        BY <2>1, <1>1
      <3>2. Touched(Idle) = {} /\ ~Idle.holds
        BY IdleOK
      <3>3. QED
        BY <3>1, <3>2
    <2>2. CASE a # w /\ b # w
      BY <2>2, <1>1 DEF ReturnsInv, Exclusive
    <2>3. QED
      BY <2>1, <2>2
  <1>3. Exclusive'
    BY <1>2 DEF Exclusive, Touched
  <1>4. ASSUME NEW v \in Workers
        PROVE  DocOK(tx'[v], request', shipment') /\ WorkOK(tx'[v], box')
    <2>1. CASE v = w
      BY <2>1, <1>1, IdleOK
    <2>2. CASE v # w
      <3> DEFINE q == tx[v]
      <3>1. /\ q \in Transaction /\ DocOK(q, request, shipment) /\ WorkOK(q, box) /\ tx'[v] = q
        BY <2>2, <1>1 DEF ReturnsInv, TypeOK
      <3>2. /\ Touched(tx[w]) \intersect Touched(q) = {}
            /\ q.holds => q.doc # tx[w].doc
        BY <2>2 DEF ReturnsInv, Exclusive, Commit
      <3>3. DocOK(q, request', shipment')
        <4>1. q.op = "lend" => q.doc \in Shipments /\ q.holds /\ shipment'[q.doc] = "waiting"
          BY <3>1, <3>2 DEF DocOK
        <4>2. q.op = "submit" => q.doc \in Requests /\ q.holds /\ request'[q.doc].status = "NONE"
          BY <3>1, <3>2 DEF DocOK
        <4>3. q.op \in DOMAIN Outcome =>
                q.doc \in Requests /\ q.holds /\ request'[q.doc].status = "PENDING"
          BY <3>1, <3>2 DEF DocOK
        <4>4. q.op = "revocation" =>
                /\ q.doc \in Shipments /\ shipment'[q.doc] # "waiting"
                /\ q.holds <=> q.pc = "items"
                /\ ~q.holds => q.todo = {} /\ Touched(q) = {}
          BY <3>1 DEF DocOK
        <4>5. QED
          BY <4>1, <4>2, <4>3, <4>4 DEF DocOK
      <3>4. \A k \in Touched(q) : box'[k] = box[k]
        BY <3>2 DEF Commit, Seen, Touched
      <3>5. WorkOK(q, box')
        BY <3>1, <3>4 DEF WorkOK
      <3>6. QED
        BY <3>1, <3>3, <3>5
    <2>3. QED
      BY <2>1, <2>2
  <1>5. \A v \in Workers : DocOK(tx[v], request, shipment)' /\ WorkOK(tx[v], box)'
    BY <1>4 DEF DocOK, WorkOK, Touched, Plan, Moved, Borrows, Returns, Reserves, Positive
  <1>6. QED
    BY <1>1, <1>3, <1>5

\* A commit that moves the documents by as much as the ledger.
LEMMA CommitAgrees ==
  ASSUME ReturnsInv, NEW w \in Workers, tx[w].op # "idle", Commit(w),
         \A k \in Rows : Total(Pending', AskedOf(k)) = Total(Pending, AskedOf(k)) + Reserves(tx[w], k),
         \A k \in Rows : Total(Sent', LentOf(k)) = Total(Sent, LentOf(k)) + Borrows(tx[w], k),
         (\A s \in Shipments : shipment'[s] # "revoked") =>
           /\ \A s \in Shipments : shipment[s] # "revoked"
           /\ \A k \in Rows :
                Total(Requests, GotOf(k)') = Total(Requests, GotOf(k)) + Returns(tx[w], k)
  PROVE  Agrees'
  <1> SUFFICES ASSUME NEW k \in Rows
               PROVE  /\ Allowed(box'[k])
                      /\ box'[k].current = box'[k].borrowed - box'[k].returned
                      /\ box'[k].pending = Total(Pending', AskedOf(k))
                      /\ box'[k].borrowed = Total(Sent', LentOf(k))
                      /\ (\A s \in Shipments : shipment'[s] # "revoked") =>
                           box'[k].returned = Total(Requests, GotOf(k)')
    BY DEF Agrees, Allowed, AskedOf, LentOf, GotOf
  <1> DEFINE t == tx[w]
  <1>1. /\ box[k] \in BoxRec /\ box'[k] = Moved(box[k], t, k) /\ Allowed(box'[k])
        /\ Plan(t)[k] \in Nat /\ t.got[k] \in Nat
    BY CommitBox
  <1>2. Borrows(t, k) \in Int /\ Returns(t, k) \in Int
    BY <1>1 DEF Borrows, Returns
  <1>3. /\ box[k].current = box[k].borrowed - box[k].returned
        /\ box[k].pending = Total(Pending, AskedOf(k))
        /\ box[k].borrowed = Total(Sent, LentOf(k))
        /\ (\A s \in Shipments : shipment[s] # "revoked") =>
             box[k].returned = Total(Requests, GotOf(k))
    BY DEF ReturnsInv, Agrees
  <1>4. /\ box'[k].borrowed = box[k].borrowed + Borrows(t, k)
        /\ box'[k].returned = box[k].returned + Returns(t, k)
        /\ box'[k].current = box[k].current + Borrows(t, k) - Returns(t, k)
        /\ box'[k].pending = box[k].pending + Reserves(t, k)
    BY <1>1 DEF Moved
  <1>5. box'[k].current = box'[k].borrowed - box'[k].returned
    BY <1>1, <1>2, <1>3, <1>4 DEF BoxRec
  <1>6. QED
    BY <1>1, <1>3, <1>4, <1>5

\* The totals are sums over finite sets of natural numbers.
LEMMA TotalsDefined ==
  ASSUME ReturnsInv, NEW k \in Rows
  PROVE  /\ \A q \in Requests : AskedOf(k)[q] \in Nat /\ AskedOf(k)[q] = Asked[q][k]
         /\ \A s \in Shipments : LentOf(k)[s] \in Nat /\ LentOf(k)[s] = Lent[s][k]
         /\ \A q \in Requests : GotOf(k)[q] \in Nat /\ GotOf(k)[q] = request[q].got[k]
         /\ IsFiniteSet(Pending) /\ IsFiniteSet(Sent)
         /\ Total(Pending, AskedOf(k)) \in Nat /\ Total(Sent, LentOf(k)) \in Nat
         /\ Total(Requests, GotOf(k)) \in Nat
  <1>1. /\ \A q \in Requests : AskedOf(k)[q] \in Nat /\ AskedOf(k)[q] = Asked[q][k]
        /\ \A s \in Shipments : LentOf(k)[s] \in Nat /\ LentOf(k)[s] = Lent[s][k]
    BY ContainerReturnsAssumption DEF AskedOf, LentOf
  <1>2. \A q \in Requests : GotOf(k)[q] \in Nat /\ GotOf(k)[q] = request[q].got[k]
    BY DEF GotOf, ReturnsInv, TypeOK
  <1>3. /\ IsFiniteSet(Pending) /\ IsFiniteSet(Sent)
        /\ Pending \subseteq Requests /\ Sent \subseteq Shipments
    BY ContainerReturnsAssumption, FS_Subset DEF Pending, Sent
  <1>4. Total(Pending, AskedOf(k)) \in Nat /\ Total(Sent, LentOf(k)) \in Nat
    BY <1>1, <1>3, TotalType
  <1>5. Total(Requests, GotOf(k)) \in Nat
    BY <1>2, ContainerReturnsAssumption, TotalType
  <1>6. QED
    BY <1>1, <1>2, <1>3, <1>4, <1>5

LEMMA LendCommitStep ==
  ASSUME ReturnsInv, NEW w \in Workers, LendCommit(w)
  PROVE  ReturnsInv'
  <1> DEFINE t == tx[w]
             d == t.doc
  <1>1. /\ t.op = "lend" /\ Commit(w) /\ shipment' = [shipment EXCEPT ![d] = "sent"]
        /\ request' = request
    BY DEF LendCommit
  <1>2. d \in Shipments /\ shipment[d] = "waiting"
    BY <1>1 DEF ReturnsInv, DocOK
  <1>3. /\ shipment' \in [Shipments -> {"waiting", "sent", "revoked"}]
        /\ shipment'[d] = "sent" /\ \A s \in Shipments : s # d => shipment'[s] = shipment[s]
    BY <1>1, <1>2 DEF ReturnsInv, TypeOK
  <1>4. /\ tx' \in [Workers -> Transaction] /\ Exclusive'
        /\ \A v \in Workers : DocOK(tx[v], request, shipment)' /\ WorkOK(tx[v], box)'
    <2>1. \A s \in Shipments : shipment[s] # "waiting" => shipment'[s] # "waiting"
      BY <1>2, <1>3
    <2>2. QED
      BY <1>1, <1>3, <2>1, CommitOthers
  <1>5. box' \in [Rows -> BoxRec]
    BY <1>1, CommitBox DEF Commit
  <1>6. Agrees'
    <2>1. Sent' = Sent \union {d} /\ d \notin Sent
      BY <1>2, <1>3 DEF Sent
    <2>2. Pending' = Pending /\ \A k \in Rows : GotOf(k)' = GotOf(k)
      BY <1>1 DEF Pending, GotOf
    <2>3. ASSUME NEW k \in Rows
          PROVE  /\ Borrows(t, k) = Lent[d][k] /\ Reserves(t, k) = 0 /\ Returns(t, k) = 0
                 /\ Total(Sent', LentOf(k)) = Total(Sent, LentOf(k)) + Borrows(t, k)
                 /\ Total(Pending', AskedOf(k)) = Total(Pending, AskedOf(k)) + Reserves(t, k)
                 /\ Total(Requests, GotOf(k)') = Total(Requests, GotOf(k)) + Returns(t, k)
      <3>1. Borrows(t, k) = Lent[d][k] /\ Reserves(t, k) = 0 /\ Returns(t, k) = 0
        BY <1>1 DEF Borrows, Reserves, Returns, Plan, Outcome
      <3>2. /\ LentOf(k)[d] = Lent[d][k] /\ IsFiniteSet(Sent)
            /\ \A s \in Sent \union {d} : LentOf(k)[s] \in Nat
        BY <1>2, TotalsDefined DEF Sent
      <3>3. Total(Sent \union {d}, LentOf(k)) = Total(Sent, LentOf(k)) + Lent[d][k]
        <4> HIDE DEF d
        <4>1. QED
          BY <2>1, <3>2, TotalAdd
      <3>4. QED
        BY <2>1, <2>2, <3>1, <3>3, TotalsDefined
    <2>4. (\A s \in Shipments : shipment'[s] # "revoked") =>
            \A s \in Shipments : shipment[s] # "revoked"
      BY <1>2, <1>3
    <2>5. QED
      BY <1>1, <2>3, <2>4, CommitAgrees
  <1>7. TypeOK' /\ NothingYet'
    BY <1>1, <1>3, <1>4, <1>5 DEF ReturnsInv, TypeOK, NothingYet
  <1>8. QED
    BY <1>4, <1>6, <1>7 DEF ReturnsInv

LEMMA SubmitCommitStep ==
  ASSUME ReturnsInv, NEW w \in Workers, SubmitCommit(w)
  PROVE  ReturnsInv'
  <1> DEFINE t == tx[w]
             d == t.doc
  <1>1. /\ t.op = "submit" /\ Commit(w) /\ request' = [request EXCEPT ![d].status = "PENDING"]
        /\ shipment' = shipment
    BY DEF SubmitCommit
  <1>2. d \in Requests /\ request[d].status = "NONE"
    BY <1>1 DEF ReturnsInv, DocOK
  <1>3. /\ request' \in [Requests -> [status : RequestStatus, got : [Rows -> Nat]]]
        /\ request'[d].status = "PENDING"
        /\ \A q \in Requests : q # d => request'[q] = request[q]
        /\ \A q \in Requests : request'[q].got = request[q].got
    BY <1>1, <1>2 DEF ReturnsInv, TypeOK, RequestStatus
  <1>4. /\ tx' \in [Workers -> Transaction] /\ Exclusive'
        /\ \A v \in Workers : DocOK(tx[v], request, shipment)' /\ WorkOK(tx[v], box)'
    BY <1>1, <1>3, CommitOthers
  <1>5. box' \in [Rows -> BoxRec]
    BY <1>1, CommitBox DEF Commit
  <1>6. Agrees'
    <2>1. Pending' = Pending \union {d} /\ d \notin Pending
      BY <1>2, <1>3 DEF Pending
    <2>2. Sent' = Sent
      BY <1>1 DEF Sent
    <2>3. ASSUME NEW k \in Rows
          PROVE  /\ Total(Sent', LentOf(k)) = Total(Sent, LentOf(k)) + Borrows(t, k)
                 /\ Total(Pending', AskedOf(k)) = Total(Pending, AskedOf(k)) + Reserves(t, k)
                 /\ Total(Requests, GotOf(k)') = Total(Requests, GotOf(k)) + Returns(t, k)
      <3>1. Borrows(t, k) = 0 /\ Reserves(t, k) = Asked[d][k] /\ Returns(t, k) = 0
        BY <1>1 DEF Borrows, Reserves, Returns, Plan
      <3>2. /\ AskedOf(k)[d] = Asked[d][k] /\ IsFiniteSet(Pending)
            /\ \A q \in Pending \union {d} : AskedOf(k)[q] \in Nat
        BY <1>2, TotalsDefined DEF Pending
      <3>3. Total(Pending \union {d}, AskedOf(k)) = Total(Pending, AskedOf(k)) + Asked[d][k]
        <4> HIDE DEF d
        <4>1. QED
          BY <2>1, <3>2, TotalAdd
      <3>4. GotOf(k)' = GotOf(k)
        BY <1>3 DEF GotOf
      <3>5. QED
        BY <2>1, <2>2, <3>1, <3>3, <3>4, TotalsDefined
    <2>4. QED
      BY <1>1, <2>3, CommitAgrees
  <1>7. TypeOK' /\ NothingYet'
    BY <1>1, <1>2, <1>3, <1>4, <1>5 DEF ReturnsInv, TypeOK, NothingYet
  <1>8. QED
    BY <1>4, <1>6, <1>7 DEF ReturnsInv

LEMMA SettleCommitStep ==
  ASSUME ReturnsInv, NEW w \in Workers, SettleCommit(w)
  PROVE  ReturnsInv'
  <1> DEFINE t == tx[w]
             d == t.doc
  <1>1. /\ t.op \in DOMAIN Outcome /\ Commit(w) /\ shipment' = shipment
        /\ request' = [request EXCEPT ![d] = [status |-> Outcome[t.op], got |-> t.got]]
    BY DEF SettleCommit
  <1>2. /\ d \in Requests /\ request[d].status = "PENDING"
        /\ request[d].got = Nothing /\ t.got \in [Rows -> Nat]
        /\ t.op \notin {"idle", "lend", "submit", "revocation"}
    BY <1>1 DEF ReturnsInv, DocOK, NothingYet, TypeOK, Transaction, Outcome
  <1>3. /\ request' \in [Requests -> [status : RequestStatus, got : [Rows -> Nat]]]
        /\ request'[d].status = Outcome[t.op] /\ request'[d].got = t.got
        /\ request'[d].status # "PENDING"
        /\ \A q \in Requests : q # d => request'[q] = request[q]
    BY <1>1, <1>2 DEF ReturnsInv, TypeOK, RequestStatus, Outcome
  <1>4. /\ tx' \in [Workers -> Transaction] /\ Exclusive'
        /\ \A v \in Workers : DocOK(tx[v], request, shipment)' /\ WorkOK(tx[v], box)'
    BY <1>1, <1>2, <1>3, CommitOthers
  <1>5. /\ box' \in [Rows -> BoxRec]
        /\ \A k \in Rows : t.got[k] # 0 => t.op = "complete"
    BY <1>1, <1>2, CommitBox DEF Commit
  <1>6. Agrees'
    <2>1. Pending' = Pending \ {d} /\ d \in Pending
      BY <1>2, <1>3 DEF Pending
    <2>2. Sent' = Sent
      BY <1>1 DEF Sent
    <2>3. ASSUME NEW k \in Rows
          PROVE  /\ Total(Sent', LentOf(k)) = Total(Sent, LentOf(k)) + Borrows(t, k)
                 /\ Total(Pending', AskedOf(k)) = Total(Pending, AskedOf(k)) + Reserves(t, k)
                 /\ Total(Requests, GotOf(k)') = Total(Requests, GotOf(k)) + Returns(t, k)
      <3>1. Borrows(t, k) = 0 /\ Reserves(t, k) = -Asked[d][k] /\ Returns(t, k) = t.got[k]
        <4>1. Borrows(t, k) = 0
          BY <1>2 DEF Borrows
        <4>2. Reserves(t, k) = -Asked[d][k]
          BY <1>1, <1>2 DEF Reserves, Plan
        <4>3. Returns(t, k) = t.got[k]
          BY <1>2, <1>5 DEF Returns
        <4>4. QED
          BY <4>1, <4>2, <4>3
      <3>2. /\ AskedOf(k)[d] = Asked[d][k] /\ AskedOf(k)[d] \in Nat /\ IsFiniteSet(Pending)
            /\ \A q \in Pending : AskedOf(k)[q] \in Nat
            /\ Total(Pending, AskedOf(k)) \in Nat
        BY <1>2, TotalsDefined DEF Pending
      <3>3. Total(Pending, AskedOf(k)) = Total(Pending \ {d}, AskedOf(k)) + AskedOf(k)[d]
        <4> HIDE DEF d
        <4>1. QED
          BY <2>1, <3>2, TotalRemove
      <3>4. Total(Pending \ {d}, AskedOf(k)) \in Nat
        <4>1. IsFiniteSet(Pending \ {d})
          BY <3>2, FS_RemoveElement
        <4>2. QED
          BY <3>2, <4>1, TotalType
      <3>5. Total(Requests, GotOf(k)') = Total(Requests, GotOf(k)) - GotOf(k)[d] + GotOf(k)'[d]
        <4>1. /\ \A q \in Requests : GotOf(k)[q] \in Nat
              /\ \A q \in Requests : GotOf(k)'[q] \in Nat
              /\ \A q \in Requests \ {d} : GotOf(k)'[q] = GotOf(k)[q]
          <5> HIDE DEF d
          <5>1. \A q \in Requests : GotOf(k)[q] \in Nat
            BY TotalsDefined
          <5>2. \A q \in Requests : GotOf(k)'[q] = request'[q].got[k]
            BY DEF GotOf
          <5>3. \A q \in Requests : GotOf(k)'[q] \in Nat
            BY <1>3, <5>2
          <5>4. \A q \in Requests : GotOf(k)[q] = request[q].got[k]
            BY DEF GotOf
          <5>5. QED
            BY <1>3, <5>1, <5>2, <5>3, <5>4
        <4>2. IsFiniteSet(Requests) /\ d \in Requests
          BY <1>2, ContainerReturnsAssumption
        <4>3. PICK g : g = GotOf(k)'
          OBVIOUS
        <4> HIDE DEF d
        <4>4. QED
          BY <4>1, <4>2, <4>3, TotalChange
      <3>6. GotOf(k)[d] = 0 /\ GotOf(k)'[d] = t.got[k] /\ t.got[k] \in Nat
        BY <1>2, <1>3 DEF GotOf, Nothing
      <3>7. QED
        BY <2>1, <2>2, <3>1, <3>2, <3>3, <3>4, <3>5, <3>6, TotalsDefined
    <2>4. QED
      BY <1>1, <1>2, <2>3, CommitAgrees
  <1>7. NothingYet'
    <2>1. request'[d].status # "COMPLETED" => t.op # "complete"
      BY <1>3 DEF Outcome
    <2>2. t.op # "complete" => t.got = Nothing
      BY <1>2, <1>5 DEF Nothing
    <2>3. QED
      BY <1>3, <2>1, <2>2 DEF ReturnsInv, NothingYet
  <1>8. TypeOK'
    BY <1>1, <1>3, <1>4, <1>5 DEF ReturnsInv, TypeOK
  <1>9. QED
    BY <1>4, <1>6, <1>7, <1>8 DEF ReturnsInv

LEMMA UndoCommitStep ==
  ASSUME ReturnsInv, NEW w \in Workers, UndoCommit(w)
  PROVE  ReturnsInv'
  <1> DEFINE t == tx[w]
             d == t.doc
  <1>1. /\ t.op = "revocation" /\ Commit(w) /\ shipment' = [shipment EXCEPT ![d] = "revoked"]
        /\ request' = request
    BY DEF UndoCommit
  <1>2. d \in Shipments /\ shipment[d] # "waiting"
    BY <1>1 DEF ReturnsInv, DocOK
  <1>3. /\ shipment' \in [Shipments -> {"waiting", "sent", "revoked"}]
        /\ shipment'[d] = "revoked" /\ \A s \in Shipments : s # d => shipment'[s] = shipment[s]
    BY <1>1, <1>2 DEF ReturnsInv, TypeOK
  <1>4. /\ tx' \in [Workers -> Transaction] /\ Exclusive'
        /\ \A v \in Workers : DocOK(tx[v], request, shipment)' /\ WorkOK(tx[v], box)'
    <2>1. \A s \in Shipments : shipment[s] # "waiting" => shipment'[s] # "waiting"
      BY <1>2, <1>3
    <2>2. QED
      BY <1>1, <1>3, <2>1, CommitOthers
  <1>5. box' \in [Rows -> BoxRec]
    BY <1>1, CommitBox DEF Commit
  <1>6. Agrees'
    <2>1. Sent' = Sent /\ Pending' = Pending
      BY <1>1, <1>2, <1>3 DEF Sent, Pending
    <2>2. ASSUME NEW k \in Rows
          PROVE  /\ Total(Sent', LentOf(k)) = Total(Sent, LentOf(k)) + Borrows(t, k)
                 /\ Total(Pending', AskedOf(k)) = Total(Pending, AskedOf(k)) + Reserves(t, k)
      <3>1. Borrows(t, k) = 0 /\ Reserves(t, k) = 0
        BY <1>1 DEF Borrows, Reserves, Outcome
      <3>2. QED
        BY <2>1, <3>1, TotalsDefined
    <2>3. ~ \A s \in Shipments : shipment'[s] # "revoked"
      BY <1>2, <1>3
    <2>4. QED
      BY <1>1, <2>2, <2>3, CommitAgrees
  <1>7. TypeOK' /\ NothingYet'
    BY <1>1, <1>3, <1>4, <1>5 DEF ReturnsInv, TypeOK, NothingYet
  <1>8. QED
    BY <1>4, <1>6, <1>7 DEF ReturnsInv

-----------------------------------------------------------------------------
(* Theorems.                                                               *)

LEMMA InitInv == Init => ReturnsInv
  <1> SUFFICES ASSUME Init PROVE ReturnsInv
    OBVIOUS
  <1>1. /\ box = [k \in Rows |-> [borrowed |-> 0, returned |-> 0, current |-> 0, pending |-> 0]]
        /\ request = [q \in Requests |-> [status |-> "NONE", got |-> Nothing]]
        /\ shipment = [s \in Shipments |-> "waiting"]
        /\ tx \in [Workers -> Transaction] /\ \A w \in Workers : tx[w] = Idle
    BY IdleOK DEF Init
  <1>2. TypeOK
    BY <1>1 DEF TypeOK, BoxRec, RequestStatus, Nothing
  <1>3. Exclusive
    BY <1>1, IdleOK DEF Exclusive
  <1>4. \A w \in Workers : DocOK(tx[w], request, shipment) /\ WorkOK(tx[w], box)
    BY <1>1, IdleOK
  <1>5. NothingYet
    BY <1>1 DEF NothingYet
  <1>6. Agrees
    <2> SUFFICES ASSUME NEW k \in Rows
                 PROVE  /\ Allowed(box[k])
                        /\ box[k].current = box[k].borrowed - box[k].returned
                        /\ box[k].pending = Total(Pending, AskedOf(k))
                        /\ box[k].borrowed = Total(Sent, LentOf(k))
                        /\ box[k].returned = Total(Requests, GotOf(k))
      BY DEF Agrees
    <2>1. Pending = {} /\ Sent = {}
      BY <1>1 DEF Pending, Sent
    <2>2. Total(Pending, AskedOf(k)) = 0 /\ Total(Sent, LentOf(k)) = 0
      BY <2>1, TotalEmpty
    <2>3. Total(Requests, GotOf(k)) = 0
      <3>1. \A q \in Requests : GotOf(k)[q] = 0
        BY <1>1 DEF GotOf, Nothing
      <3>2. UnitsOf(Requests, GotOf(k)) = {}
        BY <3>1 DEF UnitsOf
      <3>3. QED
        BY <3>2, FS_EmptySet DEF Total
    <2>4. QED
      BY <1>1, <2>2, <2>3 DEF Allowed
  <1>7. QED
    BY <1>2, <1>3, <1>4, <1>5, <1>6 DEF ReturnsInv

LEMMA NextInv == ReturnsInv /\ [Next]_vars => ReturnsInv'
  <1> SUFFICES ASSUME ReturnsInv, [Next]_vars PROVE ReturnsInv'
    OBVIOUS
  <1>1. CASE UNCHANGED vars
    <2>1. /\ box' = box /\ request' = request /\ shipment' = shipment /\ tx' = tx
      BY <1>1 DEF vars
    <2>2. TypeOK'
      BY <2>1 DEF ReturnsInv, TypeOK
    <2>3. Exclusive'
      BY <2>1 DEF ReturnsInv, Exclusive, Touched
    <2>4. \A w \in Workers : DocOK(tx[w], request, shipment)' /\ WorkOK(tx[w], box)'
      <3> SUFFICES ASSUME NEW w \in Workers
                   PROVE  DocOK(tx[w], request, shipment)' /\ WorkOK(tx[w], box)'
        OBVIOUS
      <3>1. DocOK(tx[w], request, shipment) /\ WorkOK(tx[w], box)
        BY DEF ReturnsInv
      <3>2. DocOK(tx[w], request, shipment)'
        BY <3>1, <2>1 DEF DocOK, Touched
      <3>3. WorkOK(tx[w], box)'
        BY <3>1, <2>1 DEF WorkOK, Touched, Plan, Moved, Borrows, Returns, Reserves, Positive
      <3>4. QED
        BY <3>2, <3>3
    <2>5. Agrees' /\ NothingYet'
      BY <2>1 DEF ReturnsInv, Agrees, NothingYet, Pending, Sent, AskedOf, LentOf, GotOf
    <2>6. QED
      BY <2>2, <2>3, <2>4, <2>5 DEF ReturnsInv
  <1>2. CASE Next
    <2>1. PICK w \in Workers : Lend(w) \/ Submit(w) \/ Settle(w) \/ Undo(w) \/ Rollback(w)
      BY <1>2 DEF Next
    <2>2. CASE Lend(w)
      BY <2>2, LendBeginStep, LendItemStep, LendCommitStep DEF Lend
    <2>3. CASE Submit(w)
      BY <2>3, SubmitBeginStep, SubmitItemStep, SubmitCommitStep DEF Submit
    <2>4. CASE Settle(w)
      BY <2>4, SettleBeginStep, ReceiveItemStep, DeclineItemStep, SettleCommitStep DEF Settle
    <2>5. CASE Undo(w)
      BY <2>5, UndoReadStep, UndoUpdateStep, UndoCheckItemStep, UndoItemStep, UndoCommitStep
         DEF Undo
    <2>6. CASE Rollback(w)
      BY <2>6, RollbackStep
    <2>7. QED
      BY <2>1, <2>2, <2>3, <2>4, <2>5, <2>6
  <1>3. QED
    BY <1>1, <1>2

\* Every handler keeps its document and its rows to itself, and every commit
\* moves the ledger by what its document says.
THEOREM ReturnsInvariant == Spec => []ReturnsInv
  BY InitInv, NextInv, PTL DEF Spec

\* The ledger, the requests, the shipments and the open transactions keep the
\* shape that schema.prisma and container-tracking.service.ts give them.
THEOREM TypeCorrect == Spec => []TypeOK
  <1>1. ReturnsInv => TypeOK
    BY DEF ReturnsInv
  <1>2. QED
    BY <1>1, ReturnsInvariant, PTL

\* What a ledger row says to be on its way back is what the open requests ask
\* for, whoever submits, receives, refuses or withdraws at once.
THEOREM PendingIsAsked == Spec => []PendingMatchesRequests
  <1>1. ReturnsInv => PendingMatchesRequests
    <2> SUFFICES ASSUME ReturnsInv, NEW k \in Rows
                 PROVE  box[k].pending = Cardinality(UNION {Units(q, Asked[q][k]) :
                                           q \in {p \in Requests : request[p].status = "PENDING"}})
      BY DEF PendingMatchesRequests
    <2>1. UnitsOf(Pending, AskedOf(k)) =
            UNION {Units(q, Asked[q][k]) : q \in {p \in Requests : request[p].status = "PENDING"}}
      BY DEF UnitsOf, Pending, AskedOf, Units
    <2>2. QED
      BY <2>1 DEF ReturnsInv, Agrees, Total
  <1>2. QED
    BY <1>1, ReturnsInvariant, PTL

\* The check of completeReturnRequest that reports an inconsistent ledger
\* never fires: an open request is part of what is on its way back, and the
\* table's constraint keeps that within what is on loan.
THEOREM OpenRequestsReceivable == Spec => []RequestsReceivable
  <1>1. ReturnsInv => RequestsReceivable
    <2> SUFFICES ASSUME ReturnsInv, NEW q \in Requests, request[q].status = "PENDING",
                        NEW k \in Rows
                 PROVE  box[k].pending >= Asked[q][k] /\ box[k].current >= Asked[q][k]
      BY DEF RequestsReceivable
    <2>1. q \in Pending /\ IsFiniteSet(Pending) /\ Asked[q][k] \in Nat
          /\ AskedOf(k)[q] = Asked[q][k] /\ \A p \in Pending : AskedOf(k)[p] \in Nat
      BY TotalsDefined DEF Pending
    <2>2. AskedOf(k)[q] <= Total(Pending, AskedOf(k))
      BY <2>1, TotalRemove
    <2>3. /\ box[k].pending = Total(Pending, AskedOf(k))
          /\ box[k].pending <= box[k].current /\ box[k] \in BoxRec
      BY DEF ReturnsInv, TypeOK, Agrees, Allowed
    <2>4. QED
      BY <2>1, <2>2, <2>3 DEF BoxRec
  <1>2. QED
    BY <1>1, ReturnsInvariant, PTL

\* The store has on loan what the shipments lent it and it did not return.
THEOREM LedgerStaysBalanced == Spec => []LedgerBalanced
  <1>1. ReturnsInv => LedgerBalanced
    <2> SUFFICES ASSUME ReturnsInv, NEW k \in Rows
                 PROVE  /\ box[k].current = box[k].borrowed - box[k].returned
                        /\ box[k].borrowed = Cardinality(UNION {Units(s, Lent[s][k]) :
                                               s \in {p \in Shipments : shipment[p] # "waiting"}})
      BY DEF LedgerBalanced
    <2>1. UnitsOf(Sent, LentOf(k)) =
            UNION {Units(s, Lent[s][k]) : s \in {p \in Shipments : shipment[p] # "waiting"}}
      BY DEF UnitsOf, Sent, LentOf, Units
    <2>2. QED
      BY <2>1 DEF ReturnsInv, Agrees, Total
  <1>2. QED
    BY <1>1, ReturnsInvariant, PTL

\* As long as nothing is revoked, the warehouse has counted each container it
\* received once, and none of a request that was refused or withdrawn.
THEOREM ReturnsCountedOnce == Spec => []ReturnsCounted
  <1>1. ReturnsInv => ReturnsCounted
    <2> SUFFICES ASSUME ReturnsInv, \A s \in Shipments : shipment[s] # "revoked", NEW k \in Rows
                 PROVE  box[k].returned =
                          Cardinality(UNION {Units(q, request[q].got[k]) : q \in Requests})
      BY DEF ReturnsCounted
    <2>1. UnitsOf(Requests, GotOf(k)) = UNION {Units(q, request[q].got[k]) : q \in Requests}
      BY DEF UnitsOf, GotOf, Units
    <2>2. QED
      BY <2>1 DEF ReturnsInv, Agrees, Total
  <1>2. QED
    BY <1>1, ReturnsInvariant, PTL

\* A request is settled once, and what was received of it stays: the loser of
\* complete, reject and cancel finds it settled when it gets the row.
THEOREM SettledOnce == Spec => RequestLifeCycle
  <1>1. ReturnsInv /\ [Next]_vars => [\A q \in Requests : RequestMoves(q)]_vars
    <2> SUFFICES ASSUME ReturnsInv, Next, NEW q \in Requests, request'[q] # request[q]
                 PROVE  \/ request[q].status = "NONE" /\ request'[q].status = "PENDING"
                        \/ /\ request[q].status = "PENDING"
                           /\ request'[q].status \in {"COMPLETED", "REJECTED", "CANCELLED"}
      BY DEF RequestMoves
    <2>1. PICK w \in Workers : SubmitCommit(w) \/ SettleCommit(w)
      BY DEF Next, Lend, Submit, Settle, Undo, LendBegin, LendItem, LendCommit, SubmitBegin,
             SubmitItem, SettleBegin, ReceiveItem, DeclineItem, UndoRead, UndoUpdate,
             UndoCheckItem, UndoItem, UndoCommit, Rollback
    <2>2. request \in [Requests -> [status : RequestStatus, got : [Rows -> Nat]]]
      BY DEF ReturnsInv, TypeOK
    <2>3. CASE SubmitCommit(w)
      <3>1. q = tx[w].doc /\ request'[q].status = "PENDING"
        BY <2>2, <2>3 DEF SubmitCommit
      <3>2. request[q].status = "NONE"
        BY <2>3, <3>1 DEF SubmitCommit, ReturnsInv, DocOK
      <3>3. QED
        BY <3>1, <3>2
    <2>4. CASE SettleCommit(w)
      <3>1. q = tx[w].doc /\ request'[q].status = Outcome[tx[w].op] /\ tx[w].op \in DOMAIN Outcome
        BY <2>2, <2>4 DEF SettleCommit
      <3>2. request[q].status = "PENDING"
        BY <3>1 DEF ReturnsInv, DocOK
      <3>3. QED
        BY <3>1, <3>2 DEF Outcome
    <2>5. QED
      BY <2>1, <2>3, <2>4
  <1>2. QED
    BY <1>1, ReturnsInvariant, PTL DEF Spec, RequestLifeCycle
=============================================================================
