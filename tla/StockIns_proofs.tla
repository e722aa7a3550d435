--------------------------- MODULE StockIns_proofs ---------------------------
(***************************************************************************)
(* Proofs about StockIns: for any number of documents, goods, days and     *)
(* workers, the handlers keep what StockReceipt promises, numbers are      *)
(* consecutive and costs stay within prices.                               *)
(***************************************************************************)
EXTENDS StockIns, UnitCounting, SequenceTheorems, WellFoundedInduction

-----------------------------------------------------------------------------
(* The inductive invariant.                                                *)

\* The keys of a receipt, those of its lines in their order.
LineKey(t, i) == <<t.seen.form.wh, t.form.lines[i].goods>>
KeysOf(t) == {LineKey(t, i) : i \in 1 .. Len(t.form.lines)}

\* t has written its document, which is thereby locked.
Holds(t) == t.op # "create" /\ t.at \in {"claimed", "write"}

\* Which steps there are in which operation.
Shape(t) ==
  /\ t.op = "idle" => t = Idle
  /\ t.op = "create" => t.doc = NoDoc /\ t.at = "claimed" /\ t.number \in Number
  /\ t.op # "create" => t.number = NoNumber
  /\ t.op \notin {"idle", "create"} =>
       t.doc \in Docs /\ t.seen.status \in Accepted(t.op) /\ t.at # "idle"
  /\ t.op # "complete" =>
       t.locks = {} /\ t.written = << >> /\ t.at \in {"idle", "read", "claimed"}
  /\ t.op \notin {"create", "update", "complete"} => t.at \in {"idle", "read"}

\* The number drawn is the next one until the creation commits.
Sequenced(t, sq) == t.op = "create" => t.number[2] = sq[t.number[1]] + 1

\* The document is as it was read once it is locked; a document that was
\* approved keeps its form.
Found(t, ds) ==
  /\ Holds(t) => ds[t.doc].status = t.seen.status /\ ~ds[t.doc].deleted
  /\ t.op = "complete" =>
       /\ ds[t.doc].status \notin {"none", "PENDING"}
       /\ ds[t.doc].form = t.seen.form

\* What is written for a line follows from the row as it is.
Follows(row, l, x) ==
  LET before == IF row = NoRow THEN NoStock ELSE row
  IN  /\ x.row.qty = before.qty + l.qty
      /\ x.row.cost \in AverageCosts(before.qty, before.cost, l.qty, l.price)
      /\ x.row.total \in TotalCosts(x.row.qty, x.row.cost)
      /\ x.entry.inQty = l.qty /\ x.entry.inPrice = l.price
      /\ x.entry.beforeQty = before.qty /\ x.entry.afterQty = x.row.qty

\* A receipt works through the lines of the approved form, on rows that
\* nobody else changes.
Receiving(t, inv) ==
  t.op = "complete" =>
    /\ t.seen.form \in Forms
    /\ t.at \in {"items", "read"} => t.locks = {} /\ t.written = << >>
    /\ t.at # "items" => t.form = t.seen.form /\ t.locks \subseteq KeysOf(t)
    /\ t.at = "write" \/ t.written # << >> => t.locks = KeysOf(t)
    /\ t.at # "items" => Len(t.written) <= Len(t.form.lines)
    /\ t.at = "write" => /\ Len(t.written) < Len(t.form.lines)
                         /\ t.row = inv[LineKey(t, Len(t.written) + 1)]
    /\ \A i \in 1 .. Len(t.written) :
         /\ t.written[i].key = LineKey(t, i)
         /\ Follows(inv[LineKey(t, i)], t.form.lines[i], t.written[i])

\* No two transactions hold the same key, document or day.
Apart(t, s) ==
  /\ t.locks \intersect s.locks = {}
  /\ Holds(t) /\ Holds(s) => t.doc # s.doc
  /\ t.op = "create" /\ s.op = "create" => t.number[1] # s.number[1]

DocsOK ==
  \A d \in Docs : IF docs[d].status = "none" THEN docs[d] = NewDoc ELSE docs[d].form \in Forms

Numbered ==
  \A day \in Days :
    /\ Issued[day] <= sequence[day]
    /\ {docs[d].number[2] : d \in DocsOf(day)} = Issued[day] + 1 .. sequence[day]
    /\ IsFiniteSet(DocsOf(day))
    /\ Cardinality(DocsOf(day)) = sequence[day] - Issued[day]

StockInsInv ==
  /\ TypeOK
  /\ DocsOK
  /\ Numbered
  /\ CostWithinPrices
  /\ \A w \in Workers : /\ Shape(tx[w]) /\ Sequenced(tx[w], sequence)
                        /\ Found(tx[w], docs) /\ Receiving(tx[w], inventory)
  /\ \A w \in Workers : \A v \in Workers \ {w} : Apart(tx[w], tx[v])

-----------------------------------------------------------------------------
(* Operators.                                                              *)

\* A set of natural numbers that is not empty has a least element.
LEMMA LeastOf ==
  ASSUME NEW S, S \in SUBSET Nat, S # {}
  PROVE  \E m \in S : \A n \in S : m <= n
  <1> DEFINE R == OpToRel(<, Nat)
  <1>1. \A m, n \in Nat : <<n, m>> \in R <=> n < m
    BY DEF OpToRel
  <1>2. IsWellFoundedOn(R, Nat)
    BY NatLessThanWellFounded
  <1> HIDE DEF R
  <1>3. \E m \in S : \A n \in S : ~(<<n, m>> \in R)
    BY <1>2, WFMin
  <1>4. \A m \in S : \A n \in S : ~(<<n, m>> \in R) => m <= n
    <2> TAKE m \in S
    <2> TAKE n \in S
    <2> HAVE ~(<<n, m>> \in R)
    <2>1. m \in Nat /\ n \in Nat
      OBVIOUS
    <2>2. ~(n < m)
      BY <1>1, <2>1, Zenon
    <2>3. QED
      BY <2>1, <2>2
  <1>5. QED
    BY <1>3, <1>4, Zenon

LEMMA TimesMonotone ==
  ASSUME NEW a \in Nat, NEW b \in Nat, NEW c \in Nat, a <= b
  PROVE  a * c <= b * c
  <1>1. PICK e \in Nat : b = a + e
    <2>1. b - a \in Nat /\ b = a + (b - a)
      OBVIOUS
    <2>2. QED
      BY <2>1
  <1>2. b * c = a * c + e * c
    BY <1>1
  <1>3. e * c \in Nat /\ a * c \in Nat
    OBVIOUS
  <1>4. QED
    BY <1>2, <1>3

\* The nearest number is one, and off by at most a half.
LEMMA NearestIs ==
  ASSUME NEW n \in Nat, NEW d \in Nat, d # 0, NEW m \in Nearest(n, d)
  PROVE  m \in Nat /\ 2 * (d * m - n) <= d /\ -d <= 2 * (d * m - n)
  <1>1. m \in {n \div d, n \div d + 1} /\ 2 * m * d - 2 * n \in -d .. d
    BY DEF Nearest
  <1>2. n \div d \in Nat
    OBVIOUS
  <1>3. m \in Nat
    BY <1>1, <1>2
  <1>4. PICK y \in Nat : y = d * m
    BY <1>3
  <1>5. 2 * m * d = 2 * y
    BY <1>3, <1>4
  <1>6. 2 * (y - n) <= d /\ -d <= 2 * (y - n)
    BY <1>1, <1>5
  <1>7. QED
    BY <1>3, <1>4, <1>6

\* The average is a cost, and lies between the two prices it is made of.
LEMMA AverageBetween ==
  ASSUME NEW qty \in Nat, NEW cost \in Nat, NEW inQty \in Nat, NEW inPrice \in Nat,
         NEW m \in AverageCosts(qty, cost, inQty, inPrice)
  PROVE  /\ m \in Nat
         /\ qty = 0 => m = inPrice
         /\ \A p \in Nat : p <= cost /\ p <= inPrice => p <= m
         /\ \A q \in Nat : cost <= q /\ inPrice <= q => m <= q
  <1>1. CASE qty = 0
    BY <1>1 DEF AverageCosts
  <1>2. CASE qty # 0
    <2>1. PICK d \in Nat : d = qty + inQty
      OBVIOUS
    <2>2. PICK n \in Nat : n = qty * cost + inQty * inPrice
      OBVIOUS
    <2>3. d > 0 /\ m \in Nat /\ 2 * m * d - 2 * n \in -d .. d
      <3>1. d > 0 /\ m \in Nearest(n, d)
        BY <1>2, <2>1, <2>2 DEF AverageCosts
      <3>2. QED
        BY <3>1, NearestIs DEF Nearest
    <2>4. PICK x \in Nat : x = m * d
      BY <2>3
    <2>5. 2 * x - 2 * n <= d /\ 2 * n - 2 * x <= d
      BY <2>3, <2>4
    <2>6. ASSUME NEW p \in Nat, p <= cost, p <= inPrice PROVE p <= m
      <3>1. p * qty <= cost * qty /\ p * inQty <= inPrice * inQty
        BY <2>6, TimesMonotone
      <3>2. p * d = p * qty + p * inQty
        BY <2>1
      <3>3. p * d <= n
        BY <3>1, <3>2, <2>2
      <3>4. SUFFICES ASSUME m + 1 <= p PROVE FALSE
        BY <2>3
      <3>5. (m + 1) * d <= p * d
        BY <3>4, <2>3, TimesMonotone
      <3>6. (m + 1) * d = x + d
        BY <2>3, <2>4
      <3>7. QED
        BY <3>3, <3>5, <3>6, <2>3, <2>5
    <2>7. ASSUME NEW q \in Nat, cost <= q, inPrice <= q PROVE m <= q
      <3>1. cost * qty <= q * qty /\ inPrice * inQty <= q * inQty
        BY <2>7, TimesMonotone
      <3>2. q * d = q * qty + q * inQty
        BY <2>1
      <3>3. n <= q * d
        BY <3>1, <3>2, <2>2
      <3>4. SUFFICES ASSUME q + 1 <= m PROVE FALSE
        BY <2>3
      <3>5. (q + 1) * d <= m * d
        BY <3>4, <2>3, TimesMonotone
      <3>6. (q + 1) * d = q * d + d
        OBVIOUS
      <3>7. QED
        BY <3>3, <3>5, <3>6, <2>3, <2>4, <2>5
    <2>8. QED
      BY <1>2, <2>3, <2>6, <2>7
  <1>3. QED
    BY <1>1, <1>2

\* The total cost is an amount, and off by at most half a cent.
LEMMA TotalIs ==
  ASSUME NEW qty \in Nat, NEW cost \in Nat, NEW total \in TotalCosts(qty, cost)
  PROVE  /\ total \in Nat
         /\ 2 * (Scale * total - qty * cost) <= Scale
         /\ -Scale <= 2 * (Scale * total - qty * cost)
  <1>1. PICK n \in Nat : n = qty * cost
    OBVIOUS
  <1>2. Scale \in Nat /\ Scale # 0 /\ total \in Nearest(n, Scale)
    BY <1>1, StockInsAssumption DEF TotalCosts
  <1>3. QED
    BY <1>1, <1>2, NearestIs

LEMMA AcceptedTypes ==
  /\ \A op \in OpNames : Accepted(op) \subseteq Statuses \ {"none"}
  /\ Accepted("complete") = {"APPROVED"} /\ Accepted("update") = {"PENDING"}
  /\ Accepted("approve") = {"PENDING"} /\ Accepted("reject") = {"PENDING"}
  /\ Accepted("cancel") = {"PENDING", "APPROVED", "REJECTED"}
  /\ Accepted("delete") = {"PENDING", "REJECTED", "CANCELLED"}
  BY DEF Accepted, OpNames, Statuses

\* A form: its warehouse, its lines, and that every line has a key of its own.
LEMMA FormLines ==
  ASSUME NEW f \in Forms
  PROVE  /\ f.wh \in Warehouses /\ f.lines \in Seq(Line) /\ Len(f.lines) \in Nat
         /\ \A i \in 1 .. Len(f.lines) :
              /\ f.lines[i] \in Line
              /\ <<f.wh, f.lines[i].goods>> \in Keys
         /\ \A i, j \in 1 .. Len(f.lines) : f.lines[i].goods = f.lines[j].goods => i = j
  <1>1. f.wh \in Warehouses /\ f.lines \in Seq(Line)
        /\ \A i, j \in 1 .. Len(f.lines) : f.lines[i].goods = f.lines[j].goods => i = j
    BY StockInsAssumption
  <1>2. \A i \in 1 .. Len(f.lines) : f.lines[i] \in Line
    BY <1>1, ElementOfSeq
  <1>3. \A i \in 1 .. Len(f.lines) : <<f.wh, f.lines[i].goods>> \in Keys
    BY <1>1, <1>2 DEF Line, Keys
  <1>4. Len(f.lines) \in Nat
    BY <1>1
  <1>5. QED
    BY <1>1, <1>2, <1>3, <1>4

LEMMA FormKeysAre ==
  ASSUME NEW w \in Workers, tx[w].form \in Forms
  PROVE  FormKeys(w) = KeysOf(tx[w])
  BY FormLines, RangeEquality DEF FormKeys, KeysOf, LineKey

\* The next key to lock is one of the receipt's that is not locked.
LEMMA NextKeyIs ==
  ASSUME NEW w \in Workers, tx[w].form \in Forms, FormKeys(w) \ tx[w].locks # {}
  PROVE  NextKey(w) \in FormKeys(w) \ tx[w].locks
  <1> DEFINE K == FormKeys(w) \ tx[w].locks
             G == {k[2] : k \in K}
  <1>1. \A k \in K : k[2] \in Nat
    <2>1. \A k \in K : \E i \in 1 .. Len(tx[w].form.lines) : k = LineKey(tx[w], i)
      BY FormKeysAre DEF KeysOf
    <2>2. \A i \in 1 .. Len(tx[w].form.lines) : LineKey(tx[w], i)[2] \in Goods
      BY FormLines DEF LineKey, Line
    <2>3. QED
      BY <2>1, <2>2, StockInsAssumption
  <1>2. G \in SUBSET Nat /\ G # {}
    BY <1>1
  <1>3. PICK m \in G : \A n \in G : m <= n
    <2> HIDE DEF G
    <2>1. QED
      BY <1>2, LeastOf, Zenon
  <1>4. PICK k \in K : k[2] = m
    OBVIOUS
  <1>5. \A l \in K : k[2] <= l[2]
    BY <1>3, <1>4
  <1>6. QED
    BY <1>4, <1>5 DEF NextKey

-----------------------------------------------------------------------------
(* Steps within a transaction.                                             *)

LEMMA IdleOK ==
  ASSUME NEW ds, NEW sq, NEW inv
  PROVE  /\ Idle \in Transaction /\ Shape(Idle) /\ Sequenced(Idle, sq)
         /\ Found(Idle, ds) /\ Receiving(Idle, inv)
         /\ \A s \in Transaction : Apart(Idle, s) /\ Apart(s, Idle)
  <1>1. NewDoc \in Doc
    BY DEF NewDoc, Doc, Statuses
  <1>2. Idle \in Transaction
    BY <1>1 DEF Idle, Transaction, OpNames
  <1>3. Shape(Idle) /\ Sequenced(Idle, sq) /\ Found(Idle, ds) /\ Receiving(Idle, inv)
    BY DEF Idle, Shape, Sequenced, Found, Receiving, Holds
  <1>4. \A s \in Transaction : Apart(Idle, s) /\ Apart(s, Idle)
    BY DEF Idle, Apart, Holds, Transaction
  <1>5. QED
    BY <1>2, <1>3, <1>4

\* The parts of the invariant that are about the transactions, after w has
\* moved to u.
LEMMA WorkersMove ==
  ASSUME tx \in [Workers -> Transaction], NEW w \in Workers, NEW u \in Transaction,
         tx' = [tx EXCEPT ![w] = u],
         NEW ds, NEW sq, NEW inv,
         Shape(u), Sequenced(u, sq), Found(u, ds), Receiving(u, inv),
         \A v \in Workers \ {w} : /\ Shape(tx[v]) /\ Sequenced(tx[v], sq)
                                  /\ Found(tx[v], ds) /\ Receiving(tx[v], inv)
                                  /\ Apart(u, tx[v]) /\ Apart(tx[v], u),
         \A a \in Workers : \A b \in Workers \ {a} : Apart(tx[a], tx[b])
  PROVE  /\ tx' \in [Workers -> Transaction]
         /\ \A v \in Workers : /\ Shape(tx'[v]) /\ Sequenced(tx'[v], sq)
                               /\ Found(tx'[v], ds) /\ Receiving(tx'[v], inv)
         /\ \A a \in Workers : \A b \in Workers \ {a} : Apart(tx'[a], tx'[b])
  <1>1. /\ tx' \in [Workers -> Transaction] /\ tx'[w] = u
        /\ \A v \in Workers \ {w} : tx'[v] = tx[v]
    OBVIOUS
  <1>2. \A v \in Workers : /\ Shape(tx'[v]) /\ Sequenced(tx'[v], sq)
                           /\ Found(tx'[v], ds) /\ Receiving(tx'[v], inv)
    BY <1>1
  <1>3. ASSUME NEW a \in Workers, NEW b \in Workers \ {a} PROVE Apart(tx'[a], tx'[b])
    <2>1. CASE a = w
      BY <2>1, <1>1
    <2>2. CASE b = w
      BY <2>2, <1>1
    <2>3. CASE a # w /\ b # w
      BY <2>3, <1>1
    <2>4. QED
      BY <2>1, <2>2, <2>3
  <1>4. QED
    BY <1>1, <1>2, <1>3

LEMMA ApartSymmetric == \A s, t : Apart(s, t) => Apart(t, s)
  BY DEF Apart

\* From the parts of the invariant to the invariant of the next state.
LEMMA Assemble ==
  ASSUME TypeOK', DocsOK', Numbered', CostWithinPrices',
         \A v \in Workers : /\ Shape(tx'[v]) /\ Sequenced(tx'[v], sequence')
                            /\ Found(tx'[v], docs') /\ Receiving(tx'[v], inventory'),
         \A a \in Workers : \A b \in Workers \ {a} : Apart(tx'[a], tx'[b])
  PROVE  StockInsInv'
  <1>1. ASSUME NEW v \in Workers
        PROVE  Shape(tx[v])' /\ Sequenced(tx[v], sequence)' /\ Found(tx[v], docs)'
    BY DEF Shape, Sequenced, Found, Holds
  <1>2. ASSUME NEW v \in Workers PROVE Receiving(tx[v], inventory)'
    <2>1. Receiving(tx'[v], inventory')
      OBVIOUS
    <2>2. QED
      BY <2>1 DEF Receiving, KeysOf, LineKey, Follows
  <1>3. ASSUME NEW a \in Workers, NEW b \in Workers \ {a} PROVE Apart(tx[a], tx[b])'
    BY DEF Apart, Holds
  <1>4. QED
    BY <1>1, <1>2, <1>3 DEF StockInsInv

LEMMA LocalStep ==
  ASSUME StockInsInv, NEW w \in Workers, NEW u \in Transaction,
         Shape(u), Sequenced(u, sequence), Found(u, docs), Receiving(u, inventory),
         \A v \in Workers \ {w} : Apart(u, tx[v]),
         tx' = [tx EXCEPT ![w] = u], UNCHANGED <<docs, sequence, inventory, history>>
  PROVE  StockInsInv'
  <1>1. TypeOK /\ DocsOK /\ Numbered /\ CostWithinPrices
    BY DEF StockInsInv
  <1>2. \A v \in Workers \ {w} : /\ Shape(tx[v]) /\ Sequenced(tx[v], sequence)
                                 /\ Found(tx[v], docs) /\ Receiving(tx[v], inventory)
                                 /\ Apart(u, tx[v]) /\ Apart(tx[v], u)
    BY ApartSymmetric DEF StockInsInv
  <1>3. \A a \in Workers : \A b \in Workers \ {a} : Apart(tx[a], tx[b])
    BY DEF StockInsInv
  <1>4. tx \in [Workers -> Transaction]
    BY <1>1 DEF TypeOK
  <1>5. /\ tx' \in [Workers -> Transaction]
        /\ \A v \in Workers : /\ Shape(tx'[v]) /\ Sequenced(tx'[v], sequence)
                              /\ Found(tx'[v], docs) /\ Receiving(tx'[v], inventory)
        /\ \A a \in Workers : \A b \in Workers \ {a} : Apart(tx'[a], tx'[b])
    BY <1>2, <1>3, <1>4, WorkersMove
  <1>6. TypeOK'
    BY <1>1, <1>5 DEF TypeOK
  <1>7. DocsOK' /\ Numbered'
    BY <1>1 DEF DocsOK, Numbered, DocsOf
  <1>8. CostWithinPrices'
    BY <1>1 DEF CostWithinPrices, PricesOf
  <1>9. QED
    BY <1>5, <1>6, <1>7, <1>8, Assemble

\* A transaction ends without a trace.
LEMMA EndStep ==
  ASSUME StockInsInv, NEW w \in Workers, Ends(w),
         UNCHANGED <<docs, sequence, inventory, history>>
  PROVE  StockInsInv'
  <1>1. tx' = [tx EXCEPT ![w] = Idle]
    BY DEF Ends
  <1>2. \A v \in Workers : tx[v] \in Transaction
    BY DEF StockInsInv, TypeOK
  <1>3. QED
    BY <1>1, <1>2, IdleOK, LocalStep

LEMMA WorkerFacts ==
  ASSUME StockInsInv, NEW w \in Workers
  PROVE  /\ tx[w] \in Transaction /\ Shape(tx[w]) /\ Sequenced(tx[w], sequence)
         /\ Found(tx[w], docs) /\ Receiving(tx[w], inventory)
         /\ \A v \in Workers \ {w} : tx[v] \in Transaction /\ Apart(tx[w], tx[v])
  BY DEF StockInsInv, TypeOK

LEMMA DrawNumberStep ==
  ASSUME StockInsInv, NEW w \in Workers, NEW day \in Days, DrawNumber(w, day)
  PROVE  StockInsInv'
  <1>1. PICK n \in Nat : n = sequence[day] + 1
    BY StockInsAssumption DEF StockInsInv, TypeOK
  <1>2. PICK u : u = [Idle EXCEPT !.op = "create", !.at = "claimed", !.number = <<day, n>>]
    OBVIOUS
  <1>3. <<day, n>> \in Number /\ <<day, n>> # NoNumber
    BY StockInsAssumption DEF Number
  <1>4. /\ u \in Transaction /\ u.op = "create" /\ u.at = "claimed" /\ u.number = <<day, n>>
        /\ u.doc = NoDoc /\ u.locks = {} /\ u.written = << >>
    BY <1>2, <1>3, IdleOK DEF Idle, Transaction, OpNames
  <1>5. Shape(u) /\ Sequenced(u, sequence) /\ Found(u, docs) /\ Receiving(u, inventory)
    BY <1>1, <1>3, <1>4 DEF Shape, Sequenced, Found, Receiving, Holds
  <1>6. \A v \in Workers \ {w} : Apart(u, tx[v])
    <2> SUFFICES ASSUME NEW v \in Workers \ {w} PROVE Apart(u, tx[v])
      OBVIOUS
    <2>1. tx[v].op = "create" => tx[v].number \in Number
      BY WorkerFacts DEF Shape
    <2>2. tx[v].op = "create" => tx[v].number # NoNumber
      BY <2>1, StockInsAssumption DEF Number
    <2>3. tx[v].op = "create" => tx[v].number[1] # day
      BY <2>2 DEF DrawNumber
    <2>4. QED
      BY <1>4, <2>3 DEF Apart, Holds
  <1>7. tx' = [tx EXCEPT ![w] = u] /\ UNCHANGED <<docs, sequence, inventory, history>>
    BY <1>1, <1>2 DEF DrawNumber
  <1>8. QED
    BY <1>4, <1>5, <1>6, <1>7, LocalStep

LEMMA ReadStep ==
  ASSUME StockInsInv, NEW w \in Workers, NEW op \in OpNames \ {"idle"}, NEW d \in Docs,
         Read(w, op, d)
  PROVE  StockInsInv'
  <1>1. PICK at : at = IF op = "complete" THEN "items" ELSE "read"
    OBVIOUS
  <1>2. PICK u : u = [Idle EXCEPT !.op = op, !.doc = d, !.seen = docs[d], !.at = at]
    OBVIOUS
  <1>3. docs[d] \in Doc /\ docs[d].status \in Accepted(op) /\ ~docs[d].deleted /\ op # "create"
    BY DEF StockInsInv, TypeOK, Read
  <1>4. /\ u \in Transaction /\ u.op = op /\ u.at = at /\ u.seen = docs[d] /\ u.doc = d
        /\ u.number = NoNumber /\ u.locks = {} /\ u.written = << >>
    BY <1>1, <1>2, <1>3, IdleOK DEF Idle, Transaction
  <1>5. Shape(u) /\ Sequenced(u, sequence)
    BY <1>1, <1>3, <1>4 DEF Shape, Sequenced
  <1>6. op = "complete" => docs[d].status = "APPROVED" /\ docs[d].form \in Forms
    BY <1>3, AcceptedTypes DEF StockInsInv, DocsOK
  <1>7. Found(u, docs)
    BY <1>1, <1>4, <1>6 DEF Found, Holds
  <1>8. Receiving(u, inventory)
    BY <1>1, <1>4, <1>6 DEF Receiving
  <1>9. \A v \in Workers \ {w} : Apart(u, tx[v])
    BY <1>1, <1>3, <1>4 DEF Apart, Holds
  <1>10. tx' = [tx EXCEPT ![w] = u] /\ UNCHANGED <<docs, sequence, inventory, history>>
    BY <1>1, <1>2 DEF Read
  <1>11. QED
    BY <1>4, <1>5, <1>7, <1>8, <1>9, <1>10, LocalStep

LEMMA ClaimStep ==
  ASSUME StockInsInv, NEW w \in Workers, Claim(w)
  PROVE  StockInsInv'
  <1> DEFINE t == tx[w]
  <1>1. PICK u : u = [t EXCEPT !.at = "claimed"]
    OBVIOUS
  <1>2. /\ t \in Transaction /\ Shape(t) /\ Found(t, docs) /\ Receiving(t, inventory)
        /\ t.at = "read" /\ t.op \in {"update", "complete"} /\ t.doc \in Docs
    BY WorkerFacts DEF Claim, Shape
  <1>3. /\ u \in Transaction /\ u.at = "claimed" /\ u.op = t.op /\ u.doc = t.doc
        /\ u.seen = t.seen /\ u.number = t.number /\ u.form = t.form /\ u.locks = t.locks
        /\ u.row = t.row /\ u.written = t.written
    BY <1>1, <1>2 DEF Transaction
  <1>4. Shape(u) /\ Sequenced(u, sequence)
    BY <1>2, <1>3 DEF Shape, Sequenced
  <1>5. Found(u, docs)
    BY <1>2, <1>3 DEF Found, Claim, UnchangedSince
  <1>6. Receiving(u, inventory)
    BY <1>2, <1>3 DEF Receiving, KeysOf, LineKey
  <1>7. \A v \in Workers \ {w} : Apart(u, tx[v])
    <2> SUFFICES ASSUME NEW v \in Workers \ {w} PROVE Apart(u, tx[v])
      OBVIOUS
    <2>1. tx[v].doc = t.doc => tx[v].at \in {"idle", "read", "items"}
      BY DEF Claim, DocFree
    <2>2. Apart(t, tx[v])
      BY WorkerFacts
    <2>3. QED
      BY <1>2, <1>3, <2>1, <2>2 DEF Apart, Holds
  <1>8. tx' = [tx EXCEPT ![w] = u] /\ UNCHANGED <<docs, sequence, inventory, history>>
    <2>1. tx \in [Workers -> Transaction]
      BY DEF StockInsInv, TypeOK
    <2>2. QED
      BY <1>1, <2>1 DEF Claim
  <1>9. QED
    BY <1>3, <1>4, <1>5, <1>6, <1>7, <1>8, LocalStep

LEMMA ReadItemsStep ==
  ASSUME StockInsInv, NEW w \in Workers, ReadItems(w)
  PROVE  StockInsInv'
  <1> DEFINE t == tx[w]
  <1>1. PICK f : f = docs[t.doc].form
    OBVIOUS
  <1>2. PICK u : u = [t EXCEPT !.at = "read", !.form = f]
    OBVIOUS
  <1>3. /\ t \in Transaction /\ Shape(t) /\ Found(t, docs) /\ Receiving(t, inventory)
        /\ t.at = "items"
    BY WorkerFacts DEF ReadItems
  <1>4. t.op = "complete" /\ f = t.seen.form /\ f \in Forms
    BY <1>1, <1>3 DEF Shape, Found, Receiving, Transaction, OpNames, Idle
  <1>5. /\ u \in Transaction /\ u.at = "read" /\ u.op = t.op /\ u.doc = t.doc
        /\ u.seen = t.seen /\ u.number = t.number /\ u.form = f /\ u.locks = t.locks
        /\ u.row = t.row /\ u.written = t.written
    BY <1>2, <1>3, <1>4 DEF Transaction
  <1>6. t.locks = {} /\ t.written = << >>
    BY <1>3, <1>4 DEF Receiving
  <1>7. Shape(u) /\ Sequenced(u, sequence) /\ Found(u, docs)
    BY <1>3, <1>4, <1>5 DEF Shape, Sequenced, Found, Holds
  <1>8. Receiving(u, inventory)
    <2>1. Len(f.lines) \in Nat
      BY <1>4, FormLines
    <2>2. QED
      BY <1>3, <1>4, <1>5, <1>6, <2>1 DEF Receiving
  <1>9. \A v \in Workers \ {w} : Apart(u, tx[v])
    BY <1>4, <1>5, <1>6 DEF Apart, Holds
  <1>10. tx' = [tx EXCEPT ![w] = u] /\ UNCHANGED <<docs, sequence, inventory, history>>
    <2>1. tx \in [Workers -> Transaction]
      BY DEF StockInsInv, TypeOK
    <2>2. QED
      BY <1>1, <1>2, <2>1 DEF ReadItems
  <1>11. QED
    BY <1>5, <1>7, <1>8, <1>9, <1>10, LocalStep

\* A receipt that has claimed its document.
LEMMA ReceiptFacts ==
  ASSUME StockInsInv, NEW w \in Workers, tx[w].op = "complete", tx[w].at \in {"claimed", "write"}
  PROVE  /\ tx[w].doc \in Docs /\ tx[w].form \in Forms /\ tx[w].seen.form = tx[w].form
         /\ docs[tx[w].doc].form = tx[w].form /\ docs[tx[w].doc].status = "APPROVED"
         /\ ~docs[tx[w].doc].deleted
         /\ Len(tx[w].form.lines) \in Nat /\ Len(tx[w].written) \in Nat
         /\ Len(tx[w].written) <= Len(tx[w].form.lines)
         /\ KeysOf(tx[w]) \subseteq Keys /\ FormKeys(w) = KeysOf(tx[w])
         /\ \A i \in 1 .. Len(tx[w].form.lines) :
              /\ LineKey(tx[w], i) = <<tx[w].form.wh, tx[w].form.lines[i].goods>>
              /\ LineKey(tx[w], i) \in Keys
              /\ tx[w].form.lines[i] \in Line
         /\ \A i, j \in 1 .. Len(tx[w].form.lines) : LineKey(tx[w], i) = LineKey(tx[w], j) => i = j
  <1> DEFINE t == tx[w]
  <1>1. t \in Transaction /\ Shape(t) /\ Found(t, docs) /\ Receiving(t, inventory)
    BY WorkerFacts
  <1>2. t.form \in Forms /\ t.seen.form = t.form /\ Len(t.written) <= Len(t.form.lines)
    BY <1>1 DEF Receiving
  <1>3. Len(t.written) \in Nat
    BY <1>1 DEF Transaction
  <1>4. /\ Len(t.form.lines) \in Nat
        /\ \A i \in 1 .. Len(t.form.lines) :
             t.form.lines[i] \in Line /\ <<t.form.wh, t.form.lines[i].goods>> \in Keys
        /\ \A i, j \in 1 .. Len(t.form.lines) :
             t.form.lines[i].goods = t.form.lines[j].goods => i = j
    BY <1>2, FormLines
  <1>5. \A i \in 1 .. Len(t.form.lines) :
          LineKey(t, i) = <<t.form.wh, t.form.lines[i].goods>> /\ LineKey(t, i) \in Keys
    BY <1>2, <1>4 DEF LineKey
  <1>6. KeysOf(t) \subseteq Keys /\ FormKeys(w) = KeysOf(t)
    BY <1>2, <1>5, FormKeysAre DEF KeysOf
  <1>7. t.doc \in Docs /\ docs[t.doc].form = t.form /\ docs[t.doc].status = "APPROVED"
        /\ ~docs[t.doc].deleted
    BY <1>1, <1>2, AcceptedTypes DEF Shape, Found, Holds
  <1>8. \A i, j \in 1 .. Len(t.form.lines) : LineKey(t, i) = LineKey(t, j) => i = j
    BY <1>4, <1>5
  <1>9. QED
    BY <1>2, <1>3, <1>4, <1>5, <1>6, <1>7, <1>8

LEMMA TakeLockStep ==
  ASSUME StockInsInv, NEW w \in Workers, TakeLock(w)
  PROVE  StockInsInv'
  <1> DEFINE t == tx[w]
  <1>1. PICK k : k = NextKey(w)
    OBVIOUS
  <1>2. PICK u : u = [t EXCEPT !.locks = t.locks \cup {k}]
    OBVIOUS
  <1>3. /\ t \in Transaction /\ Shape(t) /\ Found(t, docs) /\ Receiving(t, inventory)
        /\ t.op = "complete" /\ t.at = "claimed" /\ t.form \in Forms
    BY WorkerFacts, ReceiptFacts DEF TakeLock
  <1>4. k \in KeysOf(t) \ t.locks /\ KeysOf(t) \subseteq Keys
    <2>1. k \in FormKeys(w) \ t.locks
      BY <1>1, <1>3, NextKeyIs DEF TakeLock
    <2>2. QED
      BY <1>3, <2>1, ReceiptFacts
  <1>5. /\ u \in Transaction /\ u.at = t.at /\ u.op = t.op /\ u.doc = t.doc
        /\ u.seen = t.seen /\ u.number = t.number /\ u.form = t.form
        /\ u.locks = t.locks \cup {k} /\ u.row = t.row /\ u.written = t.written
    BY <1>2, <1>3, <1>4 DEF Transaction
  <1>6. Shape(u) /\ Sequenced(u, sequence) /\ Found(u, docs)
    BY <1>3, <1>5 DEF Shape, Sequenced, Found, Holds
  <1>7. Receiving(u, inventory)
    <2>1. KeysOf(u) = KeysOf(t) /\ \A i \in 1 .. Len(t.written) : LineKey(u, i) = LineKey(t, i)
      BY <1>5 DEF KeysOf, LineKey
    <2>2. t.written = << >>
      BY <1>3, <1>4 DEF Receiving
    <2>3. QED
      BY <1>3, <1>4, <1>5, <2>1, <2>2 DEF Receiving
  <1>8. \A v \in Workers \ {w} : Apart(u, tx[v])
    <2> SUFFICES ASSUME NEW v \in Workers \ {w} PROVE Apart(u, tx[v])
      OBVIOUS
    <2>1. k \notin tx[v].locks
      BY <1>1 DEF TakeLock
    <2>2. Apart(t, tx[v])
      BY WorkerFacts
    <2>3. QED
      BY <1>5, <2>1, <2>2 DEF Apart, Holds
  <1>9. tx' = [tx EXCEPT ![w] = u] /\ UNCHANGED <<docs, sequence, inventory, history>>
    <2>1. tx \in [Workers -> Transaction]
      BY DEF StockInsInv, TypeOK
    <2>2. tx' = [tx EXCEPT ![w].locks = @ \cup {k}]
      BY <1>1 DEF TakeLock
    <2>3. QED
      BY <1>2, <2>1, <2>2 DEF TakeLock
  <1>10. QED
    BY <1>5, <1>6, <1>7, <1>8, <1>9, LocalStep

LEMMA ReadRowStep ==
  ASSUME StockInsInv, NEW w \in Workers, ReadRow(w)
  PROVE  StockInsInv'
  <1> DEFINE t == tx[w]
             i == Len(t.written) + 1
  <1>1. PICK r : r = inventory[LineKey(t, i)]
    OBVIOUS
  <1>2. PICK u : u = [t EXCEPT !.at = "write", !.row = r]
    OBVIOUS
  <1>3. /\ t \in Transaction /\ Shape(t) /\ Found(t, docs) /\ Receiving(t, inventory)
        /\ t.op = "complete" /\ t.at = "claimed" /\ Len(t.written) < Len(t.form.lines)
        /\ KeysOf(t) = t.locks
    BY WorkerFacts, ReceiptFacts DEF ReadRow
  <1>4. r \in Row \cup {NoRow}
    <2>1. i \in 1 .. Len(t.form.lines)
      BY <1>3, ReceiptFacts
    <2>2. LineKey(t, i) \in Keys
      BY <1>3, <2>1, ReceiptFacts
    <2>3. QED
      BY <1>1, <2>2 DEF StockInsInv, TypeOK
  <1>5. /\ u \in Transaction /\ u.at = "write" /\ u.op = t.op /\ u.doc = t.doc
        /\ u.seen = t.seen /\ u.number = t.number /\ u.form = t.form
        /\ u.locks = t.locks /\ u.row = r /\ u.written = t.written
    BY <1>2, <1>3, <1>4 DEF Transaction
  <1>6. Shape(u) /\ Sequenced(u, sequence) /\ Found(u, docs)
    BY <1>3, <1>5 DEF Shape, Sequenced, Found, Holds
  <1>7. Receiving(u, inventory)
    <2>1. KeysOf(u) = KeysOf(t) /\ \A j : LineKey(u, j) = LineKey(t, j)
      BY <1>5 DEF KeysOf, LineKey
    <2>2. QED
      BY <1>1, <1>3, <1>5, <2>1 DEF Receiving
  <1>8. \A v \in Workers \ {w} : Apart(u, tx[v])
    BY <1>3, <1>5, WorkerFacts DEF Apart, Holds
  <1>9. tx' = [tx EXCEPT ![w] = u] /\ UNCHANGED <<docs, sequence, inventory, history>>
    <2>1. tx \in [Workers -> Transaction]
      BY DEF StockInsInv, TypeOK
    <2>2. KeyOf(w) = LineKey(t, i)
      BY DEF KeyOf, LineOf, LineKey
    <2>3. QED
      BY <1>1, <1>2, <2>1, <2>2 DEF ReadRow
  <1>10. QED
    BY <1>5, <1>6, <1>7, <1>8, <1>9, LocalStep

LEMMA WriteRowStep ==
  ASSUME StockInsInv, NEW w \in Workers, WriteRow(w)
  PROVE  StockInsInv'
  <1> DEFINE t == tx[w]
             i == Len(t.written) + 1
             k == LineKey(t, i)
             l == t.form.lines[i]
             before == IF t.row = NoRow THEN NoStock ELSE t.row
  <1>1. /\ t \in Transaction /\ Shape(t) /\ Found(t, docs) /\ Receiving(t, inventory)
        /\ t.op = "complete" /\ t.at = "write"
    BY WorkerFacts DEF WriteRow, Shape
  <1>2. KeyOf(w) = k /\ LineOf(w) = l
    BY DEF KeyOf, LineOf, LineKey
  <1>3. /\ i \in 1 .. Len(t.form.lines) /\ k \in Keys /\ l \in Line /\ KeysOf(t) = t.locks
        /\ t.row = inventory[k]
    <2>1. i \in 1 .. Len(t.form.lines) /\ KeysOf(t) = t.locks /\ t.row = inventory[k]
      BY <1>1, ReceiptFacts DEF Receiving
    <2>2. QED
      BY <1>1, <2>1, ReceiptFacts
  <1>4. /\ before \in Row /\ before.qty \in Nat /\ before.avail \in Int /\ before.cost \in Nat
        /\ l.qty \in Nat /\ l.price \in Nat
    BY <1>1, <1>3 DEF Transaction, NoStock, Row, Line
  <1> DEFINE writes(cost, total) ==
               tx' = [tx EXCEPT ![w].at = "claimed", ![w].row = NoRow,
                 ![w].written = Append(@,
                   [key |-> k, row |-> Raised(before, l, cost, total),
                    entry |-> [beforeQty |-> before.qty, afterQty |-> before.qty + l.qty,
                               beforeCost |-> before.cost, afterCost |-> cost,
                               inQty |-> l.qty, inPrice |-> l.price]])]
  <1>5. PICK cost, total : /\ cost \in AverageCosts(before.qty, before.cost, l.qty, l.price)
                           /\ total \in TotalCosts(before.qty + l.qty, cost)
                           /\ writes(cost, total)
    <2> HIDE DEF k, l, i
    <2>1. \E cost \in AverageCosts(before.qty, before.cost, l.qty, l.price) :
            \E total \in TotalCosts(before.qty + l.qty, cost) : writes(cost, total)
      BY <1>2 DEF WriteRow
    <2> HIDE DEF writes, before, l
    <2>2. QED
      BY <2>1
  <1>6. cost \in Nat /\ total \in Nat
    <2> HIDE DEF before, l
    <2>1. cost \in Nat
      BY <1>4, <1>5, AverageBetween
    <2>2. PICK qty \in Nat : qty = before.qty + l.qty
      BY <1>4
    <2>3. total \in Nat
      BY <1>5, <2>1, <2>2, TotalIs
    <2>4. QED
      BY <2>1, <2>3
  <1>7. PICK x : x = [key |-> k, row |-> Raised(before, l, cost, total),
                      entry |-> [beforeQty |-> before.qty, afterQty |-> before.qty + l.qty,
                                 beforeCost |-> before.cost, afterCost |-> cost,
                                 inQty |-> l.qty, inPrice |-> l.price]]
    OBVIOUS
  <1>8. x \in Written /\ x.key = k /\ Follows(inventory[k], l, x)
    <2>1. Raised(before, l, cost, total) \in Row
      <3>1. before.qty + l.qty \in Nat /\ before.avail + l.qty \in Int
        <4> HIDE DEF before, l
        <4>1. QED
          BY <1>4, <1>6
      <3>2. QED
        BY <1>6, <3>1 DEF Raised, Row
    <2>2. x.entry \in Entry
      BY <1>4, <1>6, <1>7 DEF Entry
    <2>3. x \in Written /\ x.key = k
      BY <1>3, <1>7, <2>1, <2>2 DEF Written
    <2>4. /\ x.row.qty = before.qty + l.qty /\ x.row.cost = cost
          /\ x.row.total = total
          /\ x.entry.inQty = l.qty /\ x.entry.inPrice = l.price
          /\ x.entry.beforeQty = before.qty /\ x.entry.afterQty = before.qty + l.qty
      BY <1>7 DEF Raised
    <2>5. QED
      BY <1>3, <1>5, <2>3, <2>4 DEF Follows
  <1>9. PICK u : u = [t EXCEPT !.at = "claimed", !.row = NoRow, !.written = Append(t.written, x)]
    OBVIOUS
  <1>10. /\ Append(t.written, x) \in Seq(Written) /\ Len(Append(t.written, x)) = i
         /\ \A j \in 1 .. i - 1 : Append(t.written, x)[j] = t.written[j]
         /\ Append(t.written, x)[i] = x
    BY <1>1, <1>8, AppendProperties DEF Transaction
  <1>11. /\ u \in Transaction /\ u.at = "claimed" /\ u.op = t.op /\ u.doc = t.doc
         /\ u.seen = t.seen /\ u.number = t.number /\ u.form = t.form
         /\ u.locks = t.locks /\ u.row = NoRow /\ u.written = Append(t.written, x)
    BY <1>1, <1>9, <1>10 DEF Transaction
  <1>12. Shape(u) /\ Sequenced(u, sequence) /\ Found(u, docs)
    BY <1>1, <1>11 DEF Shape, Sequenced, Found, Holds
  <1>13. Receiving(u, inventory)
    <2>1. KeysOf(u) = KeysOf(t) /\ \A j : LineKey(u, j) = LineKey(t, j)
      BY <1>11 DEF KeysOf, LineKey
    <2>2. ASSUME NEW j \in 1 .. i
          PROVE  /\ u.written[j].key = LineKey(t, j)
                 /\ Follows(inventory[LineKey(t, j)], t.form.lines[j], u.written[j])
      <3>1. CASE j = i
        BY <3>1, <1>8, <1>10, <1>11
      <3>2. CASE j \in 1 .. Len(t.written)
        BY <3>2, <1>1, <1>10, <1>11 DEF Receiving
      <3>3. QED
        BY <3>1, <3>2, <1>1 DEF Transaction
    <2>3. Len(u.written) = i /\ i <= Len(t.form.lines)
      BY <1>3, <1>10, <1>11
    <2>4. QED
      BY <1>1, <1>3, <1>11, <2>1, <2>2, <2>3 DEF Receiving
  <1>14. \A v \in Workers \ {w} : Apart(u, tx[v])
    BY <1>1, <1>11, WorkerFacts DEF Apart, Holds
  <1>15. tx' = [tx EXCEPT ![w] = u]
    <2>1. tx \in [Workers -> Transaction]
      BY DEF StockInsInv, TypeOK
    <2>2. tx' = [tx EXCEPT ![w].at = "claimed", ![w].row = NoRow, ![w].written = Append(@, x)]
      BY <1>5, <1>7
    <2>3. QED
      BY <1>9, <2>1, <2>2
  <1>16. UNCHANGED <<docs, sequence, inventory, history>>
    BY DEF WriteRow
  <1>17. QED
    BY <1>11, <1>12, <1>13, <1>14, <1>15, <1>16, LocalStep

-----------------------------------------------------------------------------
(* Steps that commit.                                                      *)

\* A document moves on: its number stays, and a form that was approved.
LEMMA DocMoves ==
  ASSUME StockInsInv, NEW w \in Workers, NEW d \in Docs, NEW x \in Doc,
         docs' = [docs EXCEPT ![d] = x], UNCHANGED sequence,
         x.number = docs[d].number, x.status # "none", x.form \in Forms,
         docs[d].status \notin {"none", "PENDING"} =>
           x.status \notin {"none", "PENDING"} /\ x.form = docs[d].form,
         \A v \in Workers \ {w} : Holds(tx[v]) => tx[v].doc # d
  PROVE  /\ docs' \in [Docs -> Doc] /\ DocsOK' /\ Numbered'
         /\ \A v \in Workers \ {w} : Found(tx[v], docs')
  <1>1. /\ docs \in [Docs -> Doc] /\ docs' \in [Docs -> Doc] /\ docs'[d] = x
        /\ \A e \in Docs \ {d} : docs'[e] = docs[e]
    BY DEF StockInsInv, TypeOK
  <1>2. DocsOK'
    <2> SUFFICES ASSUME NEW e \in Docs
                 PROVE  IF docs'[e].status = "none" THEN docs'[e] = NewDoc ELSE docs'[e].form \in Forms
      BY DEF DocsOK
    <2>1. CASE e = d
      BY <2>1, <1>1
    <2>2. CASE e # d
      BY <2>2, <1>1 DEF StockInsInv, DocsOK
    <2>3. QED
      BY <2>1, <2>2
  <1>3. Numbered'
    <2>1. \A e \in Docs : docs'[e].number = docs[e].number
      BY <1>1
    <2>2. \A day : DocsOf(day)' = DocsOf(day)
      BY <2>1 DEF DocsOf
    <2>3. ASSUME NEW day \in Days
          PROVE  {docs'[e].number[2] : e \in DocsOf(day)'} = {docs[e].number[2] : e \in DocsOf(day)}
      BY <2>1, <2>2 DEF DocsOf
    <2>4. QED
      BY <2>2, <2>3 DEF StockInsInv, Numbered
  <1>4. ASSUME NEW v \in Workers \ {w} PROVE Found(tx[v], docs')
    <2>1. Found(tx[v], docs) /\ Shape(tx[v])
      BY WorkerFacts
    <2>2. CASE Holds(tx[v]) \/ tx[v].op = "complete"
      <3>1. tx[v].doc \in Docs
        BY <2>1, <2>2 DEF Shape, Holds, Idle
      <3>2. CASE tx[v].doc = d
        BY <2>1, <3>2, <1>1 DEF Found
      <3>3. CASE tx[v].doc # d
        BY <2>1, <3>1, <3>3, <1>1 DEF Found
      <3>4. QED
        BY <3>2, <3>3
    <2>3. CASE ~Holds(tx[v]) /\ tx[v].op # "complete"
      BY <2>3 DEF Found
    <2>4. QED
      BY <2>2, <2>3
  <1>5. QED
    BY <1>1, <1>2, <1>3, <1>4

\* A transaction commits and ends.
LEMMA CommitStep ==
  ASSUME StockInsInv, NEW w \in Workers, Ends(w),
         docs' \in [Docs -> Doc], sequence' \in [Days -> 0 .. MaxSequence],
         inventory' \in [Keys -> Row \cup {NoRow}], history' \in [Keys -> Seq(Entry)],
         DocsOK', Numbered', CostWithinPrices',
         \A v \in Workers \ {w} : /\ Sequenced(tx[v], sequence') /\ Found(tx[v], docs')
                                  /\ Receiving(tx[v], inventory')
  PROVE  StockInsInv'
  <1>1. tx' = [tx EXCEPT ![w] = Idle] /\ tx \in [Workers -> Transaction]
    BY DEF Ends, StockInsInv, TypeOK
  <1>2. \A v \in Workers \ {w} : /\ Shape(tx[v]) /\ Apart(Idle, tx[v]) /\ Apart(tx[v], Idle)
    BY WorkerFacts, IdleOK
  <1>3. \A a \in Workers : \A b \in Workers \ {a} : Apart(tx[a], tx[b])
    BY DEF StockInsInv
  <1>4. /\ Idle \in Transaction /\ Shape(Idle) /\ Sequenced(Idle, sequence')
        /\ Found(Idle, docs') /\ Receiving(Idle, inventory')
    BY IdleOK
  <1>5. /\ tx' \in [Workers -> Transaction]
        /\ \A v \in Workers : /\ Shape(tx'[v]) /\ Sequenced(tx'[v], sequence')
                              /\ Found(tx'[v], docs') /\ Receiving(tx'[v], inventory')
        /\ \A a \in Workers : \A b \in Workers \ {a} : Apart(tx'[a], tx'[b])
    BY <1>1, <1>2, <1>3, <1>4, WorkersMove
  <1>6. TypeOK'
    BY <1>5 DEF TypeOK
  <1>7. QED
    BY <1>5, <1>6, Assemble

\* A document moves on and nothing else does.
LEMMA DocCommitStep ==
  ASSUME StockInsInv, NEW w \in Workers, NEW d \in Docs, NEW x \in Doc,
         docs' = [docs EXCEPT ![d] = x], Ends(w), UNCHANGED <<sequence, inventory, history>>,
         x.number = docs[d].number, x.status # "none", x.form \in Forms,
         docs[d].status \notin {"none", "PENDING"} =>
           x.status \notin {"none", "PENDING"} /\ x.form = docs[d].form,
         \A v \in Workers \ {w} : Holds(tx[v]) => tx[v].doc # d
  PROVE  StockInsInv'
  <1>1. /\ docs' \in [Docs -> Doc] /\ DocsOK' /\ Numbered'
        /\ \A v \in Workers \ {w} : Found(tx[v], docs')
    BY DocMoves
  <1>2. CostWithinPrices'
    BY DEF StockInsInv, CostWithinPrices, PricesOf
  <1>3. \A v \in Workers \ {w} : Sequenced(tx[v], sequence') /\ Receiving(tx[v], inventory')
    BY WorkerFacts
  <1>4. /\ sequence' \in [Days -> 0 .. MaxSequence]
        /\ inventory' \in [Keys -> Row \cup {NoRow}] /\ history' \in [Keys -> Seq(Entry)]
    BY DEF StockInsInv, TypeOK
  <1>5. QED
    BY <1>1, <1>2, <1>3, <1>4, CommitStep

\* What a decision makes of a document.
LEMMA DecidedIs ==
  ASSUME NEW x \in Doc, NEW op \in {"approve", "reject", "cancel", "delete"}
  PROVE  /\ Decided(x, op) \in Doc /\ Decided(x, op).number = x.number
         /\ Decided(x, op).form = x.form /\ Decided(x, op).edits = x.edits
         /\ op = "approve" => Decided(x, op).status = "APPROVED"
         /\ op = "reject" => Decided(x, op).status = "REJECTED"
         /\ op = "cancel" => Decided(x, op).status = "CANCELLED"
         /\ op = "delete" => Decided(x, op).status = x.status /\ Decided(x, op).deleted
         /\ op # "delete" => Decided(x, op).deleted = x.deleted
  <1>1. CASE op = "approve"
    BY <1>1 DEF Decided, Doc, Statuses
  <1>2. CASE op = "reject"
    BY <1>2 DEF Decided, Doc, Statuses
  <1>3. CASE op = "cancel"
    BY <1>3 DEF Decided, Doc, Statuses
  <1>4. CASE op = "delete"
    BY <1>4 DEF Decided, Doc, Statuses
  <1>5. QED
    BY <1>1, <1>2, <1>3, <1>4

LEMMA DecideStep ==
  ASSUME StockInsInv, NEW w \in Workers, Decide(w)
  PROVE  StockInsInv'
  <1> DEFINE t == tx[w]
  <1>1. /\ t \in Transaction /\ Shape(t) /\ t.doc \in Docs /\ docs[t.doc] \in Doc
        /\ t.op \in {"approve", "reject", "cancel", "delete"}
    BY WorkerFacts DEF Decide, Shape, StockInsInv, TypeOK
  <1>2. PICK x : x = Decided(docs[t.doc], t.op)
    OBVIOUS
  <1>3. docs[t.doc].status \in Accepted(t.op) /\ Accepted(t.op) \subseteq Statuses \ {"none"}
    BY <1>1, AcceptedTypes DEF Decide, UnchangedSince, Shape, OpNames
  <1>4. docs[t.doc].form \in Forms
    BY <1>1, <1>3 DEF StockInsInv, DocsOK
  <1>5. x \in Doc /\ x.number = docs[t.doc].number /\ x.form = docs[t.doc].form
        /\ x.status # "none"
    BY <1>1, <1>2, <1>3, DecidedIs
  <1>6. docs[t.doc].status \notin {"none", "PENDING"} => x.status \notin {"none", "PENDING"}
    BY <1>1, <1>2, <1>3, DecidedIs
  <1>7. \A v \in Workers \ {w} : Holds(tx[v]) => tx[v].doc # t.doc
    BY DEF Decide, DocFree, Holds
  <1>8. docs' = [docs EXCEPT ![t.doc] = x] /\ Ends(w) /\ UNCHANGED <<sequence, inventory, history>>
    BY <1>2 DEF Decide
  <1>9. QED
    BY <1>1, <1>4, <1>5, <1>6, <1>7, <1>8, DocCommitStep

LEMMA UpdateCommitStep ==
  ASSUME StockInsInv, NEW w \in Workers, UpdateCommit(w)
  PROVE  StockInsInv'
  <1> DEFINE t == tx[w]
  <1>1. /\ Shape(t) /\ Found(t, docs) /\ t.op = "update" /\ Holds(t)
        /\ t.doc \in Docs /\ docs[t.doc] \in Doc
    BY WorkerFacts DEF UpdateCommit, Shape, Holds, StockInsInv, TypeOK
  <1>2. PICK f \in Drafts[t.doc] :
          docs' = [docs EXCEPT ![t.doc].form = f, ![t.doc].edits = @ + 1]
    BY DEF UpdateCommit
  <1>3. PICK y \in Doc : y = docs[t.doc]
    BY <1>1
  <1>4. PICK x : x = [y EXCEPT !.form = f, !.edits = y.edits + 1]
    OBVIOUS
  <1>5. f \in Forms
    BY <1>1, <1>2, StockInsAssumption
  <1>6. docs[t.doc].status = "PENDING"
    BY <1>1, AcceptedTypes DEF Found, Shape
  <1>7. x \in Doc /\ x.number = docs[t.doc].number /\ x.form = f /\ x.status = "PENDING"
    <2>1. y.edits + 1 \in Nat
      BY <1>3 DEF Doc
    <2>2. x \in Doc /\ x.number = y.number /\ x.form = f /\ x.status = y.status
      BY ONLY <1>3, <1>4, <1>5, <2>1 DEF Doc
    <2>3. QED
      BY <1>3, <1>6, <2>2
  <1>8. \A v \in Workers \ {w} : Holds(tx[v]) => tx[v].doc # t.doc
    BY <1>1, WorkerFacts DEF Apart
  <1>9. docs' = [docs EXCEPT ![t.doc] = x] /\ Ends(w) /\ UNCHANGED <<sequence, inventory, history>>
    <2>1. docs \in [Docs -> Doc]
      BY DEF StockInsInv, TypeOK
    <2>2. docs' = [docs EXCEPT ![t.doc] = x]
      BY <1>1, <1>2, <1>3, <1>4, <2>1
    <2>3. QED
      BY <2>2 DEF UpdateCommit
  <1>10. QED
    BY <1>1, <1>5, <1>6, <1>7, <1>8, <1>9, DocCommitStep

\* The creation adds the next number of the day.
LEMMA CreateCommitStep ==
  ASSUME StockInsInv, NEW w \in Workers, NEW d \in Docs, CreateCommit(w, d)
  PROVE  StockInsInv'
  <1> DEFINE t == tx[w]
  <1>1. /\ Shape(t) /\ Sequenced(t, sequence) /\ t.op = "create" /\ t.number \in Number
        /\ docs[d] = NewDoc /\ docs \in [Docs -> Doc] /\ sequence \in [Days -> 0 .. MaxSequence]
    BY WorkerFacts DEF CreateCommit, Shape, StockInsInv, TypeOK
  <1>2. PICK day \in Days, n \in Nat : t.number = <<day, n>>
    BY <1>1 DEF Number
  <1>3. n = sequence[day] + 1 /\ n <= MaxSequence /\ sequence[day] \in Nat /\ Issued[day] \in Nat
    BY <1>1, <1>2, StockInsAssumption DEF Sequenced, CreateCommit
  <1>4. PICK f \in Drafts[d] :
          docs' = [docs EXCEPT ![d] =
                     [NewDoc EXCEPT !.status = "PENDING", !.form = f, !.number = t.number]]
    BY DEF CreateCommit
  <1>5. PICK x : x = [NewDoc EXCEPT !.status = "PENDING", !.form = f, !.number = t.number]
    OBVIOUS
  <1>6. f \in Forms
    BY <1>4, StockInsAssumption
  <1>7. x \in Doc /\ x.status = "PENDING" /\ x.form = f /\ x.number = <<day, n>>
        /\ x.number # NoNumber
    BY <1>1, <1>2, <1>5, <1>6, StockInsAssumption DEF NewDoc, Doc, Statuses, Number
  <1>8. /\ docs' \in [Docs -> Doc] /\ docs'[d] = x /\ \A e \in Docs \ {d} : docs'[e] = docs[e]
    BY <1>1, <1>4, <1>5, <1>7
  <1>9. /\ sequence' \in [Days -> 0 .. MaxSequence] /\ sequence'[day] = n
        /\ \A y \in Days \ {day} : sequence'[y] = sequence[y]
    <2>1. sequence' = [sequence EXCEPT ![day] = n] /\ n \in 0 .. MaxSequence
      BY <1>2, <1>3 DEF CreateCommit
    <2>2. QED
      BY <1>1, <2>1
  <1>10. DocsOK'
    <2> SUFFICES ASSUME NEW e \in Docs
                 PROVE  IF docs'[e].status = "none" THEN docs'[e] = NewDoc ELSE docs'[e].form \in Forms
      BY DEF DocsOK
    <2>1. CASE e = d
      BY <2>1, <1>6, <1>7, <1>8
    <2>2. CASE e # d
      BY <2>2, <1>8 DEF StockInsInv, DocsOK
    <2>3. QED
      BY <2>1, <2>2
  <1>11. ASSUME NEW y \in Days
         PROVE  /\ Issued[y] <= sequence'[y]
                /\ {docs'[e].number[2] : e \in DocsOf(y)'} = Issued[y] + 1 .. sequence'[y]
                /\ IsFiniteSet(DocsOf(y)')
                /\ Cardinality(DocsOf(y)') = sequence'[y] - Issued[y]
    <2>1. d \notin DocsOf(y)
      BY <1>1 DEF DocsOf, NewDoc
    <2>2. /\ Issued[y] <= sequence[y]
          /\ {docs[e].number[2] : e \in DocsOf(y)} = Issued[y] + 1 .. sequence[y]
          /\ IsFiniteSet(DocsOf(y)) /\ Cardinality(DocsOf(y)) = sequence[y] - Issued[y]
      BY DEF StockInsInv, Numbered
    <2>3. CASE y = day
      <3>1. DocsOf(y)' = DocsOf(y) \cup {d}
        BY <2>3, <1>7, <1>8 DEF DocsOf
      <3>2. {docs'[e].number[2] : e \in DocsOf(y)'} = {docs[e].number[2] : e \in DocsOf(y)} \cup {n}
        <4>1. \A e \in DocsOf(y) : docs'[e] = docs[e]
          BY <1>8, <2>1 DEF DocsOf
        <4>2. docs'[d].number[2] = n
          BY <1>7, <1>8
        <4>3. QED
          BY <3>1, <4>1, <4>2
      <3>3. Issued[y] + 1 .. sequence'[y] = (Issued[y] + 1 .. sequence[y]) \cup {n}
        BY <2>2, <2>3, <1>3, <1>9
      <3>4. IsFiniteSet(DocsOf(y)') /\ Cardinality(DocsOf(y)') = Cardinality(DocsOf(y)) + 1
        BY <2>1, <2>2, <3>1, FS_AddElement
      <3>5. QED
        BY <2>2, <2>3, <3>2, <3>3, <3>4, <1>3, <1>9
    <2>4. CASE y # day
      <3>1. DocsOf(y)' = DocsOf(y)
        BY <2>1, <2>4, <1>7, <1>8 DEF DocsOf
      <3>2. \A e \in DocsOf(y) : docs'[e] = docs[e]
        BY <1>8, <2>1 DEF DocsOf
      <3>3. QED
        BY <2>2, <2>4, <3>1, <3>2, <1>9
    <2>5. QED
      BY <2>3, <2>4
  <1>12. Numbered'
    BY <1>11 DEF Numbered
  <1>13. ASSUME NEW v \in Workers \ {w}
         PROVE  Sequenced(tx[v], sequence') /\ Found(tx[v], docs') /\ Receiving(tx[v], inventory')
    <2>1. /\ Shape(tx[v]) /\ Sequenced(tx[v], sequence) /\ Found(tx[v], docs)
          /\ Receiving(tx[v], inventory) /\ Apart(t, tx[v]) /\ tx[v].op \in OpNames
      BY WorkerFacts DEF Transaction
    <2>2. Sequenced(tx[v], sequence')
      BY <1>1, <1>2, <1>9, <2>1 DEF Sequenced, Apart, Shape, Number
    <2>3. Found(tx[v], docs')
      <3>1. CASE Holds(tx[v]) \/ tx[v].op = "complete"
        <4>1. tx[v].doc \in Docs
          BY <2>1, <3>1 DEF Shape, Holds, Idle
        <4>2. docs[tx[v].doc].status # "none"
          BY <2>1, <3>1, AcceptedTypes DEF Found, Shape, Holds, Idle
        <4>3. tx[v].doc # d
          BY <1>1, <4>2 DEF NewDoc
        <4>4. QED
          BY <2>1, <4>1, <4>3, <1>8 DEF Found
      <3>2. CASE ~(Holds(tx[v]) \/ tx[v].op = "complete")
        BY <3>2 DEF Found
      <3>3. QED
        BY <3>1, <3>2
    <2>4. QED
      BY <2>1, <2>2, <2>3 DEF CreateCommit
  <1>14. CostWithinPrices'
    BY DEF CreateCommit, StockInsInv, CostWithinPrices, PricesOf
  <1>15. Ends(w) /\ inventory' \in [Keys -> Row \cup {NoRow}] /\ history' \in [Keys -> Seq(Entry)]
    BY DEF CreateCommit, StockInsInv, TypeOK
  <1>16. QED
    BY <1>8, <1>9, <1>10, <1>12, <1>13, <1>14, <1>15, CommitStep

\* What a receipt about to commit has written: one row for every line.
LEMMA WrittenIs ==
  ASSUME StockInsInv, NEW w \in Workers, tx[w].op = "complete", tx[w].at = "claimed",
         Len(tx[w].written) = Len(tx[w].form.lines)
  PROVE  /\ \A i \in 1 .. Len(tx[w].form.lines) :
              /\ WrittenFor(w, LineKey(tx[w], i)) = {tx[w].written[i]}
              /\ tx[w].written[i] \in Written
              /\ Follows(inventory[LineKey(tx[w], i)], tx[w].form.lines[i], tx[w].written[i])
         /\ \A k \in Keys \ KeysOf(tx[w]) : WrittenFor(w, k) = {}
  <1> DEFINE t == tx[w]
             N == 1 .. Len(t.form.lines)
  <1>1. t \in Transaction /\ Receiving(t, inventory)
    BY WorkerFacts
  <1>2. \A i \in N : /\ t.written[i].key = LineKey(t, i)
                     /\ Follows(inventory[LineKey(t, i)], t.form.lines[i], t.written[i])
    BY <1>1 DEF Receiving
  <1>3. t.written \in Seq(Written)
    BY <1>1 DEF Transaction
  <1>4. Range(t.written) = {t.written[i] : i \in N}
    BY <1>3, RangeEquality
  <1>5. \A i \in N : t.written[i] \in Written
    BY <1>3, ElementOfSeq
  <1>6. \A i, j \in N : LineKey(t, i) = LineKey(t, j) => i = j
    BY ReceiptFacts
  <1>7. \A i \in N : WrittenFor(w, LineKey(t, i)) = {t.written[i]}
    BY <1>2, <1>4, <1>6 DEF WrittenFor
  <1>8. \A k \in Keys \ KeysOf(t) : WrittenFor(w, k) = {}
    BY <1>2, <1>4 DEF WrittenFor, KeysOf
  <1>9. QED
    BY <1>2, <1>5, <1>7, <1>8

\* What the commit of a receipt does to a key.
LEMMA RowsReceived ==
  ASSUME StockInsInv, NEW w \in Workers, CompleteCommit(w)
  PROVE  /\ \A k \in Keys \ KeysOf(tx[w]) : inventory'[k] = inventory[k] /\ history'[k] = history[k]
         /\ \A i \in 1 .. Len(tx[w].form.lines) :
              /\ tx[w].written[i] \in Written
              /\ inventory'[LineKey(tx[w], i)] = tx[w].written[i].row
              /\ history'[LineKey(tx[w], i)] =
                   Append(history[LineKey(tx[w], i)], tx[w].written[i].entry)
              /\ Follows(inventory[LineKey(tx[w], i)], tx[w].form.lines[i], tx[w].written[i])
  <1> DEFINE t == tx[w]
             N == 1 .. Len(t.form.lines)
  <1>1. t.op = "complete" /\ t.at = "claimed" /\ Len(t.written) = Len(t.form.lines)
    BY DEF CompleteCommit
  <1>2. history \in [Keys -> Seq(Entry)]
    BY DEF StockInsInv, TypeOK
  <1>3. ASSUME NEW k \in Keys \ KeysOf(t)
        PROVE  inventory'[k] = inventory[k] /\ history'[k] = history[k]
    <2>1. WrittenFor(w, k) = {}
      BY <1>1, WrittenIs
    <2>2. Cardinality(WrittenFor(w, k)) = 0
      BY <2>1, FS_EmptySet
    <2>3. inventory'[k] = inventory[k]
      BY <2>1 DEF CompleteCommit
    <2>4. history'[k] = history[k] \o [i \in 1 .. 0 |-> TheWritten(w, k).entry]
      BY <2>2 DEF CompleteCommit
    <2>5. [i \in 1 .. 0 |-> TheWritten(w, k).entry] = << >>
      OBVIOUS
    <2>6. history[k] \o << >> = history[k]
      BY <1>2
    <2>7. QED
      BY <2>3, <2>4, <2>5, <2>6
  <1>4. ASSUME NEW i \in N
        PROVE  /\ t.written[i] \in Written
               /\ inventory'[LineKey(t, i)] = t.written[i].row
               /\ history'[LineKey(t, i)] = Append(history[LineKey(t, i)], t.written[i].entry)
               /\ Follows(inventory[LineKey(t, i)], t.form.lines[i], t.written[i])
    <2>1. PICK k \in Keys : k = LineKey(t, i)
      BY <1>1, ReceiptFacts
    <2>2. PICK y \in Written : y = t.written[i]
      BY <1>1, WrittenIs
    <2>3. WrittenFor(w, k) = {y} /\ Follows(inventory[k], t.form.lines[i], y)
      BY <1>1, <2>1, <2>2, WrittenIs
    <2>4. TheWritten(w, k) = y
      BY <2>3 DEF TheWritten
    <2>5. Cardinality(WrittenFor(w, k)) = 1
      BY <2>3, FS_Singleton
    <2>6. inventory'[k] = y.row
      BY <2>3, <2>4 DEF CompleteCommit
    <2>7. history'[k] = history[k] \o [j \in 1 .. 1 |-> y.entry]
      <3>1. history'[k] = history[k] \o [j \in 1 .. Cardinality(WrittenFor(w, k)) |->
                                           TheWritten(w, k).entry]
        BY DEF CompleteCommit
      <3>2. [j \in 1 .. Cardinality(WrittenFor(w, k)) |->
               TheWritten(w, k).entry] = [j \in 1 .. 1 |-> y.entry]
        BY <2>4, <2>5
      <3>3. QED
        BY <3>1, <3>2
    <2>8. [j \in 1 .. 1 |-> y.entry] = <<y.entry>>
      OBVIOUS
    <2>9. y.entry \in Entry /\ history[k] \in Seq(Entry)
      BY <1>2 DEF Written
    <2>10. history'[k] = Append(history[k], y.entry)
      BY <2>7, <2>8, <2>9, AppendIsConcat
    <2>11. QED
      BY <2>1, <2>2, <2>3, <2>6, <2>10
  <1>5. QED
    BY <1>3, <1>4

\* The prices of a key are amounts.
LEMMA PricesAreAmounts ==
  ASSUME StockInsInv, NEW k \in Keys
  PROVE  PricesOf(k) \subseteq Nat
  <1>1. history[k] \in Seq(Entry)
    BY DEF StockInsInv, TypeOK
  <1>2. \A e \in Range(history[k]) : e.inPrice \in Nat
    <2>1. Range(history[k]) = {history[k][i] : i \in 1 .. Len(history[k])}
      BY <1>1, RangeEquality
    <2>2. \A i \in 1 .. Len(history[k]) : history[k][i] \in Entry
      BY <1>1, ElementOfSeq
    <2>3. QED
      BY <2>1, <2>2 DEF Entry
  <1>3. Opening[k] # NoRow => Opening[k].cost \in Nat
    BY StockInsAssumption DEF Row
  <1>4. QED
    BY <1>2, <1>3 DEF PricesOf

\* A receipt adds its price to the prices of the key.
LEMMA PricesReceived ==
  ASSUME NEW k \in Keys, NEW e \in Entry, history \in [Keys -> Seq(Entry)],
         history'[k] = Append(history[k], e)
  PROVE  PricesOf(k)' = PricesOf(k) \cup {e.inPrice}
  <1>1. history[k] \in Seq(Entry) /\ <<e>> \in Seq(Entry)
    OBVIOUS
  <1>2. history'[k] = history[k] \o <<e>>
    BY <1>1, AppendIsConcat
  <1>3. Range(history'[k]) = Range(history[k]) \cup Range(<<e>>)
    BY ONLY <1>1, <1>2, RangeConcatenation
  <1>4. Range(<<e>>) = {e}
    <2>1. DOMAIN <<e>> = {1} /\ <<e>>[1] = e
      OBVIOUS
    <2>2. QED
      BY <2>1 DEF Range
  <1>5. QED
    BY <1>3, <1>4 DEF PricesOf

LEMMA CompleteCommitStep ==
  ASSUME StockInsInv, NEW w \in Workers, CompleteCommit(w)
  PROVE  StockInsInv'
  <1> DEFINE t == tx[w]
             N == 1 .. Len(t.form.lines)
  <1>1. /\ t.op = "complete" /\ t.at = "claimed" /\ t.doc \in Docs /\ Holds(t)
        /\ docs[t.doc] \in Doc /\ docs[t.doc].status = "APPROVED" /\ docs[t.doc].form \in Forms
        /\ KeysOf(t) = t.locks
    BY ReceiptFacts DEF CompleteCommit, Holds, StockInsInv, TypeOK
  <1>2. PICK x : x = [docs[t.doc] EXCEPT !.status = "COMPLETED"]
    OBVIOUS
  <1>3. x \in Doc /\ x.number = docs[t.doc].number /\ x.form = docs[t.doc].form
        /\ x.status = "COMPLETED"
    BY <1>1, <1>2 DEF Doc, Statuses
  <1>4. docs' = [docs EXCEPT ![t.doc] = x] /\ sequence' = sequence
    BY <1>2 DEF CompleteCommit
  <1>5. \A v \in Workers \ {w} : Holds(tx[v]) => tx[v].doc # t.doc
    BY <1>1, WorkerFacts DEF Apart
  <1>6. /\ docs' \in [Docs -> Doc] /\ DocsOK' /\ Numbered'
        /\ \A v \in Workers \ {w} : Found(tx[v], docs')
    BY <1>1, <1>3, <1>4, <1>5, DocMoves
  <1>7. ASSUME NEW k \in KeysOf(t) PROVE \E i \in N : k = LineKey(t, i)
    BY DEF KeysOf
  <1>8. ASSUME NEW k \in Keys
        PROVE  inventory'[k] \in Row \cup {NoRow} /\ history'[k] \in Seq(Entry)
    <2>1. inventory[k] \in Row \cup {NoRow} /\ history[k] \in Seq(Entry)
      BY DEF StockInsInv, TypeOK
    <2>2. CASE k \in KeysOf(t)
      <3>1. PICK i \in N : k = LineKey(t, i)
        BY <2>2, <1>7
      <3>2. PICK y \in Written : inventory'[k] = y.row /\ history'[k] = Append(history[k], y.entry)
        BY <3>1, RowsReceived
      <3>3. QED
        BY <2>1, <3>2, AppendProperties DEF Written
    <2>3. CASE k \notin KeysOf(t)
      BY <2>1, <2>3, RowsReceived
    <2>4. QED
      BY <2>2, <2>3
  <1>9. inventory' \in [Keys -> Row \cup {NoRow}] /\ history' \in [Keys -> Seq(Entry)]
    BY <1>8 DEF CompleteCommit
  <1>10. ASSUME NEW k \in Keys, inventory'[k] # NoRow
         PROVE  \E p, q \in PricesOf(k)' : p <= inventory'[k].cost /\ inventory'[k].cost <= q
    <2>1. inventory[k] # NoRow =>
            \E p, q \in PricesOf(k) : p <= inventory[k].cost /\ inventory[k].cost <= q
      BY DEF StockInsInv, CostWithinPrices
    <2>2. PricesOf(k) \subseteq Nat
      BY PricesAreAmounts
    <2>3. CASE k \in KeysOf(t)
      <3>1. PICK i \in N : k = LineKey(t, i)
        BY <2>3, <1>7
      <3>2. PICK y \in Written : /\ inventory'[k] = y.row
                                 /\ history'[k] = Append(history[k], y.entry)
                                 /\ Follows(inventory[k], t.form.lines[i], y)
        BY <3>1, RowsReceived
      <3>3. PICK l \in Line : l = t.form.lines[i]
        BY <1>1, ReceiptFacts
      <3>4. PricesOf(k)' = PricesOf(k) \cup {l.price}
        <4>1. y.entry \in Entry /\ y.entry.inPrice = l.price
          BY <3>2, <3>3 DEF Written, Follows
        <4>2. PricesOf(k)' = PricesOf(k) \cup {y.entry.inPrice}
          BY <4>1, <3>2, PricesReceived DEF StockInsInv, TypeOK
        <4>3. QED
          BY <4>1, <4>2
      <3>5. PICK before : before = IF inventory[k] = NoRow THEN NoStock ELSE inventory[k]
        OBVIOUS
      <3>6. /\ before.qty \in Nat /\ before.cost \in Nat
            /\ inventory[k] = NoRow => before.qty = 0
            /\ inventory[k] # NoRow => before = inventory[k]
        <4>1. inventory[k] \in Row \cup {NoRow}
          BY DEF StockInsInv, TypeOK
        <4>2. QED
          BY <4>1, <3>5 DEF NoStock, Row
      <3>7. PICK m \in AverageCosts(before.qty, before.cost, l.qty, l.price) : m = y.row.cost
        BY <3>2, <3>3, <3>5 DEF Follows
      <3>8. l.qty \in Nat /\ l.price \in Nat
        BY DEF Line
      <3>9. /\ m \in Nat
            /\ before.qty = 0 => m = l.price
            /\ \A p \in Nat : p <= before.cost /\ p <= l.price => p <= m
            /\ \A q \in Nat : before.cost <= q /\ l.price <= q => m <= q
        <4>1. PICK qty \in Nat, cost \in Nat, inQty \in Nat, inPrice \in Nat :
                /\ qty = before.qty /\ cost = before.cost
                /\ inQty = l.qty /\ inPrice = l.price
          BY <3>6, <3>8
        <4>2. m \in AverageCosts(qty, cost, inQty, inPrice)
          BY <4>1
        <4>3. /\ m \in Nat
              /\ qty = 0 => m = inPrice
              /\ \A p \in Nat : p <= cost /\ p <= inPrice => p <= m
              /\ \A q \in Nat : cost <= q /\ inPrice <= q => m <= q
          BY <4>2, AverageBetween
        <4>4. QED
          BY <4>1, <4>3
      <3>10. inventory'[k].cost = m
        BY <3>2, <3>7
      <3>11. CASE inventory[k] = NoRow
        <4>1. m = l.price
          BY <3>6, <3>9, <3>11
        <4>2. l.price \in PricesOf(k)' /\ inventory'[k].cost = l.price
          BY <3>4, <3>10, <4>1
        <4>3. QED
          BY <4>2, <3>8
      <3>12. CASE inventory[k] # NoRow
        <4>1. PICK p \in PricesOf(k), q \in PricesOf(k) : p <= before.cost /\ before.cost <= q
          BY <2>1, <3>6, <3>12
        <4>2. p \in Nat /\ q \in Nat
          BY <2>2, <4>1
        <4>3. \E a \in {p, l.price} : a <= m
          <5>1. CASE p <= l.price
            BY <5>1, <4>1, <4>2, <3>9
          <5>2. CASE l.price < p
            <6>1. l.price <= before.cost
              BY <5>2, <4>1, <4>2, <3>6, <3>8
            <6>2. QED
              BY <6>1, <3>8, <3>9
          <5>3. QED
            BY <5>1, <5>2, <4>2, <3>8
        <4>4. \E b \in {q, l.price} : m <= b
          <5>1. CASE l.price <= q
            BY <5>1, <4>1, <4>2, <3>9
          <5>2. CASE q < l.price
            <6>1. before.cost <= l.price
              BY <5>2, <4>1, <4>2, <3>6, <3>8
            <6>2. QED
              BY <6>1, <3>8, <3>9
          <5>3. QED
            BY <5>1, <5>2, <4>2, <3>8
        <4>5. QED
          BY <4>1, <4>3, <4>4, <3>4, <3>10
      <3>13. QED
        BY <3>11, <3>12
    <2>4. CASE k \notin KeysOf(t)
      <3>1. inventory'[k] = inventory[k] /\ history'[k] = history[k]
        BY <2>4, RowsReceived
      <3>2. PricesOf(k)' = PricesOf(k)
        BY <3>1 DEF PricesOf
      <3>3. QED
        BY <2>1, <3>1, <3>2, <1>10
    <2>5. QED
      BY <2>3, <2>4
  <1>11. CostWithinPrices'
    BY <1>10 DEF CostWithinPrices
  <1>12. ASSUME NEW v \in Workers \ {w} PROVE Receiving(tx[v], inventory')
    <2> DEFINE s == tx[v]
    <2>1. s \in Transaction /\ Receiving(s, inventory) /\ Apart(t, s) /\ Shape(s)
      BY WorkerFacts
    <2>2. CASE s.op = "complete" /\ (s.at = "write" \/ s.written # << >>)
      <3>1. s.at \in {"claimed", "write"}
        BY <2>1, <2>2 DEF Receiving, Shape, Transaction
      <3>2. \A i \in 1 .. Len(s.form.lines) : inventory'[LineKey(s, i)] = inventory[LineKey(s, i)]
        <4>1. s.locks = KeysOf(s)
          BY <2>1, <2>2 DEF Receiving
        <4>2. \A i \in 1 .. Len(s.form.lines) : LineKey(s, i) \in Keys \ KeysOf(t)
          BY <1>1, <2>1, <2>2, <3>1, <4>1, ReceiptFacts DEF Apart, KeysOf
        <4>3. QED
          BY <4>2, RowsReceived
      <3>3. Len(s.written) \in Nat /\ Len(s.form.lines) \in Nat /\ Len(s.written) <= Len(s.form.lines)
        BY <2>2, <3>1, ReceiptFacts
      <3>4. s.at = "write" => Len(s.written) + 1 \in 1 .. Len(s.form.lines)
        BY <2>1, <2>2, <3>3 DEF Receiving
      <3>5. \A i \in 1 .. Len(s.written) : i \in 1 .. Len(s.form.lines)
        BY <3>3
      <3>6. QED
        BY <2>1, <3>2, <3>4, <3>5 DEF Receiving
    <2>3. CASE s.op = "complete" /\ s.at # "write" /\ s.written = << >>
      BY <2>1, <2>3 DEF Receiving
    <2>4. CASE s.op # "complete"
      BY <2>4 DEF Receiving
    <2>5. QED
      BY <2>2, <2>3, <2>4
  <1>13. ASSUME NEW v \in Workers \ {w} PROVE Sequenced(tx[v], sequence')
    BY <1>4, WorkerFacts
  <1>14. Ends(w) /\ sequence' \in [Days -> 0 .. MaxSequence]
    BY <1>4 DEF CompleteCommit, StockInsInv, TypeOK
  <1>15. QED
    BY <1>6, <1>9, <1>11, <1>12, <1>13, <1>14, CommitStep

-----------------------------------------------------------------------------
(* The invariant.                                                          *)

LEMMA InitInv == Init => StockInsInv
  <1> SUFFICES ASSUME Init PROVE StockInsInv
    OBVIOUS
  <1>1. /\ docs = [d \in Docs |-> NewDoc] /\ sequence = Issued /\ inventory = Opening
        /\ history = [k \in Keys |-> << >>] /\ tx = [w \in Workers |-> Idle]
    BY DEF Init
  <1>2. TypeOK
    <2>1. NewDoc \in Doc /\ Idle \in Transaction
      BY IdleOK DEF NewDoc, Doc, Statuses
    <2>2. QED
      BY <1>1, <2>1, StockInsAssumption DEF TypeOK
  <1>3. DocsOK
    BY <1>1 DEF DocsOK, NewDoc
  <1>4. Numbered
    <2> SUFFICES ASSUME NEW day \in Days
                 PROVE  /\ Issued[day] <= sequence[day]
                        /\ {docs[d].number[2] : d \in DocsOf(day)} = Issued[day] + 1 .. sequence[day]
                        /\ IsFiniteSet(DocsOf(day))
                        /\ Cardinality(DocsOf(day)) = sequence[day] - Issued[day]
      BY DEF Numbered
    <2>1. DocsOf(day) = {}
      BY <1>1 DEF DocsOf, NewDoc
    <2>2. IsFiniteSet(DocsOf(day)) /\ Cardinality(DocsOf(day)) = 0
      BY <2>1, FS_EmptySet
    <2>3. sequence[day] = Issued[day] /\ Issued[day] \in Nat
      BY <1>1, StockInsAssumption
    <2>4. QED
      BY <2>1, <2>2, <2>3
  <1>5. CostWithinPrices
    <2> SUFFICES ASSUME NEW k \in Keys, inventory[k] # NoRow
                 PROVE  \E p, q \in PricesOf(k) : p <= inventory[k].cost /\ inventory[k].cost <= q
      BY DEF CostWithinPrices
    <2>1. inventory[k].cost \in PricesOf(k) /\ inventory[k].cost \in Nat
      BY <1>1, StockInsAssumption DEF PricesOf, Row
    <2>2. QED
      BY <2>1
  <1>6. QED
    BY <1>1, <1>2, <1>3, <1>4, <1>5, IdleOK DEF StockInsInv

LEMMA StutterInv == StockInsInv /\ UNCHANGED vars => StockInsInv'
  <1> SUFFICES ASSUME StockInsInv, UNCHANGED vars PROVE StockInsInv'
    OBVIOUS
  <1>1. docs' = docs /\ sequence' = sequence /\ inventory' = inventory /\ history' = history
        /\ tx' = tx
    BY DEF vars
  <1>2. TypeOK' /\ DocsOK' /\ Numbered' /\ CostWithinPrices'
    BY <1>1 DEF StockInsInv, TypeOK, DocsOK, Numbered, DocsOf, CostWithinPrices, PricesOf
  <1>3. /\ \A v \in Workers : /\ Shape(tx'[v]) /\ Sequenced(tx'[v], sequence')
                              /\ Found(tx'[v], docs') /\ Receiving(tx'[v], inventory')
        /\ \A a \in Workers : \A b \in Workers \ {a} : Apart(tx'[a], tx'[b])
    BY <1>1 DEF StockInsInv
  <1>4. QED
    BY <1>2, <1>3, Assemble

LEMMA NextInv == StockInsInv /\ [Next]_vars => StockInsInv'
  <1> SUFFICES ASSUME StockInsInv, Next PROVE StockInsInv'
    BY StutterInv
  <1>1. PICK w \in Workers : Begin(w) \/ Proceed(w) \/ Rollback(w)
    BY DEF Next
  <1>2. CASE Begin(w)
    BY <1>2, DrawNumberStep, ReadStep DEF Begin
  <1>3. CASE Proceed(w)
    <2>1. CASE \E d \in Docs : CreateCommit(w, d)
      BY <2>1, CreateCommitStep
    <2>2. CASE NumbersExhausted(w) \/ Refuse(w)
      BY <2>2, EndStep DEF NumbersExhausted, Refuse
    <2>3. CASE Decide(w) \/ Claim(w) \/ UpdateCommit(w)
      BY <2>3, DecideStep, ClaimStep, UpdateCommitStep
    <2>4. CASE ReadItems(w) \/ TakeLock(w) \/ ReadRow(w) \/ WriteRow(w) \/ CompleteCommit(w)
      BY <2>4, ReadItemsStep, TakeLockStep, ReadRowStep, WriteRowStep, CompleteCommitStep
    <2>5. QED
      BY <1>3, <2>1, <2>2, <2>3, <2>4 DEF Proceed
  <1>4. CASE Rollback(w)
    BY <1>4, EndStep DEF Rollback
  <1>5. QED
    BY <1>1, <1>2, <1>3, <1>4

\* Every handler holds what it works on: its document, its keys, its number.
THEOREM StockInsInvariant == Spec => []StockInsInv
  BY InitInv, NextInv, PTL DEF Spec

\* Documents, numbers, inventory, history and transactions keep the shape that
\* schema.prisma and stock-in.service.ts give them, and no number passes the
\* limit of a day.
THEOREM TypeCorrect == Spec => []TypeOK
  <1>1. StockInsInv => TypeOK
    BY DEF StockInsInv
  <1>2. QED
    BY <1>1, StockInsInvariant, PTL

\* The documents of a day are numbered without a gap and without a repetition,
\* however many are created at once (DocumentNumberService.next).
THEOREM NumbersStayConsecutive == Spec => []NumbersConsecutive
  <1>1. StockInsInv => NumbersConsecutive
    BY DEF StockInsInv, Numbered, NumbersConsecutive
  <1>2. QED
    BY <1>1, StockInsInvariant, PTL

\* The average cost stays between the lowest and the highest price paid,
\* whatever receipts overlap and however each average is rounded
\* (calculateWeightedAvgCost).
THEOREM CostStaysWithinPrices == Spec => []CostWithinPrices
  <1>1. StockInsInv => CostWithinPrices
    BY DEF StockInsInv
  <1>2. QED
    BY <1>1, StockInsInvariant, PTL

-----------------------------------------------------------------------------
(* The value of the stock.                                                 *)

\* What the entries of a history paid, and the quantities they averaged.
PaidIn(h) == Summed([i \in DOMAIN h |-> h[i].inQty * h[i].inPrice])
AveragedFor(e) == IF e.beforeQty = 0 THEN 0 ELSE e.afterQty
AveragedIn(h) == Summed([i \in DOMAIN h |-> AveragedFor(h[i])])

\* Between receipts the value of the stock is off by the roundings of the
\* averages alone; once there was a receipt, the total cost of the row is that
\* value, rounded.
ValueOK ==
  \A k \in Keys :
    /\ 2 * (Worth(inventory[k]) - Paid(k)) \in -Averaged(k) .. Averaged(k)
    /\ history[k] # << >> =>
         /\ inventory[k] # NoRow
         /\ inventory[k].total \in TotalCosts(inventory[k].qty, inventory[k].cost)

\* The sum of a sequence grows by what is appended.
LEMMA SummedGrows ==
  ASSUME NEW n \in Nat, NEW q, DOMAIN q = 1 .. n, \A i \in 1 .. n : q[i] \in Nat,
         NEW r, DOMAIN r = 1 .. n + 1, \A i \in 1 .. n : r[i] = q[i], r[n + 1] \in Nat
  PROVE  Summed(q) \in Nat /\ Summed(r) = Summed(q) + r[n + 1]
  <1> DEFINE D == 1 .. n
             p == n + 1
  <1>1. Summed(q) = Total(D, q) /\ Summed(r) = Total(1 .. n + 1, r)
    BY DEF Summed, Total, UnitsOf
  <1>2. IsFiniteSet(D)
    BY FS_Interval
  <1>3. 1 .. n + 1 = D \union {p} /\ p \notin D
    OBVIOUS
  <1>4. \A i \in D \union {p} : r[i] \in Nat
    OBVIOUS
  <1>5. \A i \in D : r[i] = q[i] /\ q[i] \in Nat
    OBVIOUS
  <1> HIDE DEF D, p
  <1>6. Total(D \union {p}, r) = Total(D, r) + r[p]
    BY <1>2, <1>3, <1>4, TotalAdd
  <1>7. Total(D, r) = Total(D, q)
    BY <1>5, TotalSame
  <1>8. Total(D, q) \in Nat
    BY <1>2, <1>5, TotalType
  <1>9. QED
    BY <1>1, <1>3, <1>6, <1>7, <1>8 DEF p

LEMMA EmptySums == PaidIn(<< >>) = 0 /\ AveragedIn(<< >>) = 0
  <1>1. ASSUME NEW q, DOMAIN q = {} PROVE Summed(q) = 0
    <2>1. UNION {{i} \X (1 .. q[i]) : i \in DOMAIN q} = {}
      BY <1>1
    <2>2. QED
      BY <2>1, FS_EmptySet DEF Summed
  <1>2. DOMAIN << >> = {}
    OBVIOUS
  <1>3. QED
    BY <1>1, <1>2 DEF PaidIn, AveragedIn

LEMMA SumsGrow ==
  ASSUME NEW h \in Seq(Entry), NEW e \in Entry
  PROVE  /\ PaidIn(h) \in Nat /\ PaidIn(Append(h, e)) = PaidIn(h) + e.inQty * e.inPrice
         /\ AveragedIn(h) \in Nat /\ AveragedIn(Append(h, e)) = AveragedIn(h) + AveragedFor(e)
  <1> DEFINE n == Len(h)
             g == Append(h, e)
  <1>1. /\ n \in Nat /\ DOMAIN h = 1 .. n /\ DOMAIN g = 1 .. n + 1
        /\ \A i \in 1 .. n : h[i] \in Entry /\ g[i] = h[i]
        /\ g[n + 1] = e
    BY AppendProperties, ElementOfSeq, LenProperties
  <1>2. \A x \in Entry : x.inQty * x.inPrice \in Nat /\ AveragedFor(x) \in Nat
    <2> SUFFICES ASSUME NEW x \in Entry
                 PROVE  x.inQty * x.inPrice \in Nat /\ AveragedFor(x) \in Nat
      OBVIOUS
    <2>1. x.inQty \in Nat /\ x.inPrice \in Nat /\ x.afterQty \in Nat
      BY DEF Entry
    <2>2. \A a, b \in Nat : a * b \in Nat
      OBVIOUS
    <2>3. QED
      BY <2>1, <2>2 DEF AveragedFor
  <1> HIDE DEF n, g
  <1>3. PaidIn(h) \in Nat /\ PaidIn(g) = PaidIn(h) + e.inQty * e.inPrice
    <2> DEFINE q == [i \in DOMAIN h |-> h[i].inQty * h[i].inPrice]
               r == [i \in DOMAIN g |-> g[i].inQty * g[i].inPrice]
    <2>1. /\ DOMAIN q = 1 .. n /\ \A i \in 1 .. n : q[i] \in Nat
          /\ DOMAIN r = 1 .. n + 1 /\ \A i \in 1 .. n : r[i] = q[i]
          /\ r[n + 1] = e.inQty * e.inPrice /\ r[n + 1] \in Nat
      BY <1>1, <1>2
    <2>2. PaidIn(h) = Summed(q) /\ PaidIn(g) = Summed(r)
      BY DEF PaidIn
    <2> HIDE DEF q, r
    <2>3. Summed(q) \in Nat /\ Summed(r) = Summed(q) + r[n + 1]
      BY <1>1, <2>1, SummedGrows
    <2>4. QED
      BY <2>1, <2>2, <2>3
  <1>4. AveragedIn(h) \in Nat /\ AveragedIn(g) = AveragedIn(h) + AveragedFor(e)
    <2> DEFINE q == [i \in DOMAIN h |-> AveragedFor(h[i])]
               r == [i \in DOMAIN g |-> AveragedFor(g[i])]
    <2>1. /\ DOMAIN q = 1 .. n /\ \A i \in 1 .. n : q[i] \in Nat
          /\ DOMAIN r = 1 .. n + 1 /\ \A i \in 1 .. n : r[i] = q[i]
          /\ r[n + 1] = AveragedFor(e) /\ r[n + 1] \in Nat
      BY <1>1, <1>2
    <2>2. AveragedIn(h) = Summed(q) /\ AveragedIn(g) = Summed(r)
      BY DEF AveragedIn
    <2> HIDE DEF q, r
    <2>3. Summed(q) \in Nat /\ Summed(r) = Summed(q) + r[n + 1]
      BY <1>1, <2>1, SummedGrows
    <2>4. QED
      BY <2>1, <2>2, <2>3
  <1>5. QED
    BY <1>3, <1>4 DEF g

\* What was paid and averaged, as amounts.
LEMMA SumsAre ==
  ASSUME NEW k \in Keys, history[k] \in Seq(Entry)
  PROVE  Paid(k) \in Nat /\ Averaged(k) \in Nat
  <1>1. /\ Paid(k) = Worth(Opening[k]) + PaidIn(history[k])
        /\ Averaged(k) = AveragedIn(history[k])
    BY DEF Paid, Averaged, PaidIn, AveragedIn, AveragedFor
  <1>2. [beforeQty |-> 0, afterQty |-> 0, beforeCost |-> 0, afterCost |-> 0,
         inQty |-> 0, inPrice |-> 0] \in Entry
    BY DEF Entry
  <1>3. PaidIn(history[k]) \in Nat /\ AveragedIn(history[k]) \in Nat
    BY <1>2, SumsGrow
  <1>4. Worth(Opening[k]) \in Nat
    <2>1. Opening[k] # NoRow => Opening[k].qty \in Nat /\ Opening[k].cost \in Nat
      BY StockInsAssumption DEF Row
    <2>2. \A a, b \in Nat : a * b \in Nat
      OBVIOUS
    <2>3. QED
      BY <2>1, <2>2 DEF Worth
  <1>5. QED
    BY <1>1, <1>3, <1>4

\* An average misjudges the stock by at most half a cent a unit; where there
\* was nothing, the price is the cost.
LEMMA AverageRounds ==
  ASSUME NEW qty \in Nat, NEW cost \in Nat, NEW inQty \in Nat, NEW inPrice \in Nat,
         NEW m \in AverageCosts(qty, cost, inQty, inPrice)
  PROVE  LET off == (qty + inQty) * m - (qty * cost + inQty * inPrice)
         IN  IF qty = 0 THEN off = 0
             ELSE 2 * off <= qty + inQty /\ -(qty + inQty) <= 2 * off
  <1>1. CASE qty = 0
    <2>1. m = inPrice
      BY <1>1 DEF AverageCosts
    <2>2. (qty + inQty) * m = inQty * inPrice /\ qty * cost = 0 /\ inQty * inPrice \in Nat
      BY <1>1, <2>1
    <2>3. QED
      BY <1>1, <2>2
  <1>2. CASE qty # 0
    <2>1. PICK d \in Nat : d = qty + inQty
      OBVIOUS
    <2>2. PICK n \in Nat : n = qty * cost + inQty * inPrice
      OBVIOUS
    <2>3. d # 0 /\ m \in Nearest(n, d)
      BY <1>2, <2>1, <2>2 DEF AverageCosts
    <2>4. 2 * (d * m - n) <= d /\ -d <= 2 * (d * m - n)
      BY <2>3, NearestIs
    <2>5. QED
      BY <1>2, <2>1, <2>2, <2>4
  <1>3. QED
    BY <1>1, <1>2

LEMMA ValueInit == Init => ValueOK
  <1> SUFFICES ASSUME Init, NEW k \in Keys
               PROVE  /\ 2 * (Worth(inventory[k]) - Paid(k)) \in -Averaged(k) .. Averaged(k)
                      /\ history[k] # << >> => /\ inventory[k] # NoRow
                                               /\ inventory[k].total \in TotalCosts(inventory[k].qty, inventory[k].cost)
    BY DEF ValueOK
  <1>1. inventory[k] = Opening[k] /\ history[k] = << >>
    BY DEF Init
  <1>2. Paid(k) = Worth(Opening[k]) + PaidIn(history[k]) /\ Averaged(k) = AveragedIn(history[k])
    BY DEF Paid, Averaged, PaidIn, AveragedIn, AveragedFor
  <1>3. PaidIn(history[k]) = 0 /\ AveragedIn(history[k]) = 0
    BY <1>1, EmptySums
  <1>4. Worth(Opening[k]) \in Nat
    <2>1. Opening[k] # NoRow => Opening[k].qty \in Nat /\ Opening[k].cost \in Nat
      BY StockInsAssumption DEF Row
    <2>2. QED
      BY <2>1 DEF Worth
  <1>5. QED
    BY <1>1, <1>2, <1>3, <1>4

\* The commit of a receipt is the only step that changes rows or their history.
LEMMA ValueNext == StockInsInv /\ ValueOK /\ [Next]_vars => ValueOK'
  <1> SUFFICES ASSUME StockInsInv, ValueOK, [Next]_vars PROVE ValueOK'
    OBVIOUS
  <1>1. CASE UNCHANGED <<inventory, history>>
    BY <1>1 DEF ValueOK, Paid, Averaged
  <1>2. CASE \E w \in Workers : CompleteCommit(w)
    <2>1. PICK w \in Workers : CompleteCommit(w)
      BY <1>2
    <2> DEFINE t == tx[w]
    <2> SUFFICES ASSUME NEW k \in Keys
                 PROVE  /\ 2 * (Worth(inventory'[k]) - Paid(k)') \in -Averaged(k)' .. Averaged(k)'
                        /\ history'[k] # << >> =>
                             /\ inventory'[k] # NoRow
                             /\ inventory'[k].total \in
                                  TotalCosts(inventory'[k].qty, inventory'[k].cost)
      BY DEF ValueOK, TotalCosts, Nearest
    <2>2. /\ 2 * (Worth(inventory[k]) - Paid(k)) \in -Averaged(k) .. Averaged(k)
          /\ history[k] # << >> =>
               /\ inventory[k] # NoRow
               /\ inventory[k].total \in TotalCosts(inventory[k].qty, inventory[k].cost)
      BY DEF ValueOK
    <2>3. CASE k \notin KeysOf(t)
      BY <2>1, <2>2, <2>3, RowsReceived DEF Paid, Averaged
    <2>4. CASE k \in KeysOf(t)
      <3>1. PICK i \in 1 .. Len(t.form.lines) : k = LineKey(t, i)
        BY <2>4 DEF KeysOf
      <3>2. PICK x \in Written : x = t.written[i]
        BY <2>1, RowsReceived
      <3>3. PICK l : l = t.form.lines[i]
        OBVIOUS
      <3>4. /\ inventory'[k] = x.row /\ history'[k] = Append(history[k], x.entry)
            /\ Follows(inventory[k], l, x)
        BY <2>1, <3>1, <3>2, <3>3, RowsReceived
      <3>5. l \in Line
        BY <2>1, <3>1, <3>3, ReceiptFacts DEF CompleteCommit
      <3>6. PICK before \in Row : /\ before = IF inventory[k] = NoRow THEN NoStock ELSE inventory[k]
                                  /\ before.qty * before.cost = Worth(inventory[k])
        <4>1. inventory[k] \in Row \cup {NoRow}
          BY DEF StockInsInv, TypeOK
        <4>2. NoStock \in Row /\ NoStock.qty * NoStock.cost = 0
          BY DEF NoStock, Row
        <4>3. QED
          BY <4>1, <4>2 DEF Worth
      <3>7. /\ before.qty \in Nat /\ before.cost \in Nat
            /\ l.qty \in Nat /\ l.price \in Nat
        BY <3>5, <3>6 DEF Row, Line
      <3>8. /\ x.row.qty = before.qty + l.qty
            /\ x.row.total \in TotalCosts(x.row.qty, x.row.cost)
            /\ x.row.cost \in AverageCosts(before.qty, before.cost, l.qty, l.price)
            /\ x.entry.inQty = l.qty /\ x.entry.inPrice = l.price
            /\ x.entry.beforeQty = before.qty /\ x.entry.afterQty = before.qty + l.qty
        BY <3>4, <3>6 DEF Follows
      <3>9. x.row \in Row /\ x.entry \in Entry /\ x.row # NoRow /\ history[k] \in Seq(Entry)
        BY StockInsAssumption DEF Written, StockInsInv, TypeOK
      <3>10. Worth(inventory'[k]) = (before.qty + l.qty) * x.row.cost /\ inventory'[k] # NoRow
             /\ inventory'[k].total \in TotalCosts(inventory'[k].qty, inventory'[k].cost)
        BY <3>4, <3>8, <3>9 DEF Worth
      <3>11. PICK s \in Nat : s = IF before.qty = 0 THEN 0 ELSE before.qty + l.qty
        BY <3>7
      <3>12. /\ PaidIn(history'[k]) = PaidIn(history[k]) + l.qty * l.price
             /\ AveragedIn(history'[k]) = AveragedIn(history[k]) + s
             /\ PaidIn(history[k]) \in Nat /\ AveragedIn(history[k]) \in Nat
        <4>1. AveragedFor(x.entry) = s
          BY <3>8, <3>11 DEF AveragedFor
        <4>2. QED
          BY <3>4, <3>8, <3>9, <4>1, SumsGrow
      <3>13. /\ Paid(k) = Worth(Opening[k]) + PaidIn(history[k])
             /\ Paid(k)' = Worth(Opening[k]) + PaidIn(history'[k])
             /\ Averaged(k) = AveragedIn(history[k]) /\ Averaged(k)' = AveragedIn(history'[k])
        BY DEF Paid, Averaged, PaidIn, AveragedIn, AveragedFor
      <3>14. Worth(Opening[k]) \in Nat
        <4>1. Opening[k] # NoRow => Opening[k].qty \in Nat /\ Opening[k].cost \in Nat
          BY StockInsAssumption DEF Row
        <4>2. QED
          BY <4>1 DEF Worth
      <3>15. PICK cost \in Nat : cost = x.row.cost
        <4>1. PICK m \in AverageCosts(before.qty, before.cost, l.qty, l.price) : m = x.row.cost
          BY <3>8
        <4>2. m \in Nat
          BY <3>7, AverageBetween
        <4>3. QED
          BY <4>1, <4>2
      <3>16. PICK a \in Nat, b \in Nat, c \in Nat :
               /\ a = (before.qty + l.qty) * cost
               /\ b = before.qty * before.cost /\ c = l.qty * l.price
        <4>1. \A y, z \in Nat : y * z \in Nat
          OBVIOUS
        <4>2. before.qty + l.qty \in Nat
          BY <3>7
        <4>3. /\ (before.qty + l.qty) * cost \in Nat
              /\ before.qty * before.cost \in Nat /\ l.qty * l.price \in Nat
          BY <3>7, <4>1, <4>2
        <4>4. QED
          BY <4>3
      <3>17. 2 * (a - (b + c)) <= s /\ -s <= 2 * (a - (b + c))
        <4>1. PICK qty \in Nat, was \in Nat, inQty \in Nat, inPrice \in Nat :
                /\ qty = before.qty /\ was = before.cost
                /\ inQty = l.qty /\ inPrice = l.price
          BY <3>7
        <4>2. cost \in AverageCosts(qty, was, inQty, inPrice)
          BY <3>8, <3>15, <4>1
        <4>3. IF qty = 0 THEN (qty + inQty) * cost - (qty * was + inQty * inPrice) = 0
              ELSE /\ 2 * ((qty + inQty) * cost - (qty * was + inQty * inPrice)) <= qty + inQty
                   /\ -(qty + inQty) <= 2 * ((qty + inQty) * cost - (qty * was + inQty * inPrice))
          BY <4>2, AverageRounds
        <4>4. a = (qty + inQty) * cost /\ b = qty * was /\ c = inQty * inPrice
          BY <3>16, <4>1
        <4>5. IF qty = 0 THEN a - (b + c) = 0
              ELSE 2 * (a - (b + c)) <= qty + inQty /\ -(qty + inQty) <= 2 * (a - (b + c))
          BY <4>3, <4>4
        <4>6. s = IF qty = 0 THEN 0 ELSE qty + inQty
          BY <3>11, <4>1
        <4>7. QED
          BY <4>5, <4>6
      <3>18. PICK u \in Nat, p \in Nat :
               u = AveragedIn(history[k]) /\ p = Worth(Opening[k]) + PaidIn(history[k])
        BY <3>12, <3>14
      <3>19. 2 * (b - p) <= u /\ -u <= 2 * (b - p)
        BY <2>2, <3>6, <3>13, <3>16, <3>18
      <3>20. 2 * (a - (p + c)) <= u + s /\ -(u + s) <= 2 * (a - (p + c))
        BY <3>17, <3>19
      <3>21. /\ Worth(inventory'[k]) = a /\ Paid(k)' = p + c /\ Averaged(k)' = u + s
        BY <3>10, <3>13, <3>14, <3>15, <3>16, <3>18, <3>12
      <3>22. QED
        BY <3>10, <3>20, <3>21
    <2>5. QED
      BY <2>3, <2>4
  <1>3. QED
    BY <1>1, <1>2 DEF vars, Next, Begin, Proceed, Rollback, DrawNumber, Read, CreateCommit,
      NumbersExhausted, Decide, Claim, Refuse, UpdateCommit, ReadItems, TakeLock, ReadRow, WriteRow

\* The total cost of goods is what was paid for the stock but for roundings:
\* that of each average, half a cent a unit, and that of the total, half a
\* cent; for receipts of whatever quantities and prices and however many
\* overlap (calculateWeightedAvgCost, StockInService.complete).
THEOREM ValueStaysWithinRounding == Spec => []ValueWithinRounding
  <1>1. StockInsInv /\ ValueOK => ValueWithinRounding
    <2> SUFFICES ASSUME StockInsInv, ValueOK, NEW k \in Keys, history[k] # << >>
                 PROVE  /\ inventory[k] # NoRow
                        /\ 2 * (Scale * inventory[k].total - Paid(k)) \in
                             -(Averaged(k) + Scale) .. Averaged(k) + Scale
      BY DEF ValueWithinRounding
    <2>1. /\ 2 * (Worth(inventory[k]) - Paid(k)) \in -Averaged(k) .. Averaged(k)
          /\ inventory[k] # NoRow
          /\ inventory[k].total \in TotalCosts(inventory[k].qty, inventory[k].cost)
      BY DEF ValueOK
    <2>2. inventory[k] \in Row /\ history[k] \in Seq(Entry)
      BY <2>1 DEF StockInsInv, TypeOK
    <2>3. PICK qty \in Nat, cost \in Nat, total \in Nat :
            qty = inventory[k].qty /\ cost = inventory[k].cost /\ total = inventory[k].total
      BY <2>2 DEF Row
    <2>4. PICK worth \in Nat : worth = qty * cost
      <3>1. \A a, b \in Nat : a * b \in Nat
        OBVIOUS
      <3>2. QED
        BY <3>1
    <2>5. Worth(inventory[k]) = worth
      BY <2>1, <2>3, <2>4 DEF Worth
    <2>6. PICK whole \in Nat : whole = Scale * total
      BY StockInsAssumption
    <2>7. 2 * (whole - worth) <= Scale /\ -Scale <= 2 * (whole - worth)
      BY <2>1, <2>3, <2>4, <2>6, TotalIs
    <2>8. PICK paid \in Nat, averaged \in Nat : paid = Paid(k) /\ averaged = Averaged(k)
      BY <2>2, SumsAre
    <2>9. 2 * (worth - paid) <= averaged /\ -averaged <= 2 * (worth - paid)
      BY <2>1, <2>5, <2>8
    <2>10. Scale \in Nat /\ 2 * (whole - paid) \in -(averaged + Scale) .. averaged + Scale
      BY <2>7, <2>9, StockInsAssumption
    <2>11. QED
      BY <2>1, <2>3, <2>6, <2>8, <2>10
  <1>2. Spec => []ValueOK
    BY ValueInit, ValueNext, StockInsInvariant, PTL DEF Spec
  <1>3. QED
    BY <1>1, <1>2, StockInsInvariant, PTL

-----------------------------------------------------------------------------
(* The handlers implement StockReceipt.                                    *)

\* The state of StockReceipt.
StateNow == [d \in Docs |-> Promise(docs[d])]
FormNow  == [d \in Docs |-> docs[d].form]
StockOf(row) == IF row = NoRow THEN 0 ELSE row.qty
StockNow == [k \in Keys |-> StockOf(inventory[k])]

LEMMA PromiseIs ==
  ASSUME NEW x \in Doc
  PROVE  /\ x.status = "none" => Promise(x) = "none"
         /\ x.status = "APPROVED" => Promise(x) = "approved"
         /\ x.status = "COMPLETED" => Promise(x) = "received"
         /\ x.status = "PENDING" /\ ~x.deleted => Promise(x) = "draft"
         /\ x.status = "PENDING" /\ x.deleted => Promise(x) = "closed"
         /\ x.status \in {"REJECTED", "CANCELLED"} => Promise(x) = "closed"
  BY DEF Promise, Doc, Statuses

\* StockReceipt counts as this module does.
LEMMA SameCount ==
  ASSUME NEW S
  PROVE  Receipt!Cardinality(S) = Cardinality(S)
  BY DEF Receipt!Cardinality, Cardinality

\* A line brings its quantity, and a form nothing to a key it does not name.
LEMMA BroughtIs ==
  ASSUME NEW f \in Forms
  PROVE  /\ \A i \in 1 .. Len(f.lines) :
              Receipt!Brought(f, <<f.wh, f.lines[i].goods>>) = f.lines[i].qty
         /\ \A k : (\A i \in 1 .. Len(f.lines) : <<f.wh, f.lines[i].goods>> # k) =>
              Receipt!Brought(f, k) = 0
  <1>1. ASSUME NEW m \in 1 .. Len(f.lines)
        PROVE  Receipt!Brought(f, <<f.wh, f.lines[m].goods>>) = f.lines[m].qty
    <2> DEFINE key == <<f.wh, f.lines[m].goods>>
               J == {j \in 1 .. Len(f.lines) : <<f.wh, f.lines[j].goods>> = key}
               n == f.lines[m].qty
    <2>1. Receipt!Brought(f, key) = Cardinality(UNION {{i} \X (1 .. f.lines[i].qty) : i \in J})
      BY SameCount DEF Receipt!Brought
    <2>2. J = {m}
      BY FormLines
    <2>3. UNION {{i} \X (1 .. f.lines[i].qty) : i \in J} = {m} \X (1 .. n)
      BY <2>2
    <2>4. n \in Nat
      BY FormLines DEF Line
    <2>5. Cardinality({m} \X (1 .. n)) = n
      <3> HIDE DEF n
      <3>1. QED
        BY <2>4, UnitsOfOne
    <2>6. QED
      BY <2>1, <2>3, <2>5
  <1>2. ASSUME NEW k, \A i \in 1 .. Len(f.lines) : <<f.wh, f.lines[i].goods>> # k
        PROVE  Receipt!Brought(f, k) = 0
    <2> DEFINE J == {j \in 1 .. Len(f.lines) : <<f.wh, f.lines[j].goods>> = k}
    <2>1. Receipt!Brought(f, k) = Cardinality(UNION {{i} \X (1 .. f.lines[i].qty) : i \in J})
      BY SameCount DEF Receipt!Brought
    <2>2. J = {}
      BY <1>2
    <2>3. UNION {{i} \X (1 .. f.lines[i].qty) : i \in J} = {}
      BY <2>2
    <2>4. QED
      BY <2>1, <2>3, FS_EmptySet
  <1>3. QED
    BY <1>1, <1>2

\* One document moves on.
LEMMA ViewMoves ==
  ASSUME docs \in [Docs -> Doc], NEW d \in Docs, NEW x, docs' = [docs EXCEPT ![d] = x]
  PROVE  /\ StateNow' = [StateNow EXCEPT ![d] = Promise(x)]
         /\ FormNow' = [FormNow EXCEPT ![d] = x.form]
         /\ StateNow[d] = Promise(docs[d]) /\ FormNow[d] = docs[d].form
  <1>1. docs'[d] = x /\ \A e \in Docs \ {d} : docs'[e] = docs[e]
    OBVIOUS
  <1>2. StateNow' = [e \in Docs |-> Promise(docs'[e])]
    BY DEF StateNow, Promise
  <1>3. StateNow' = [StateNow EXCEPT ![d] = Promise(x)]
    <2>1. \A e \in Docs : StateNow'[e] = [StateNow EXCEPT ![d] = Promise(x)][e]
      BY <1>1, <1>2 DEF StateNow
    <2>2. QED
      BY <1>2, <2>1 DEF StateNow
  <1>4. FormNow' = [FormNow EXCEPT ![d] = x.form]
    BY <1>1 DEF FormNow
  <1>5. QED
    BY <1>3, <1>4 DEF StateNow, FormNow

LEMMA StockStays ==
  ASSUME UNCHANGED inventory
  PROVE  StockNow' = StockNow
  BY DEF StockNow, StockOf

LEMMA ReceiptViews ==
  /\ Receipt!vars = <<StateNow, FormNow, StockNow>>
  /\ \A d \in Docs :
       /\ Receipt!Draft(d) <=>
            /\ StateNow[d] \in {"none", "draft"}
            /\ StateNow' = [StateNow EXCEPT ![d] = "draft"]
            /\ \E f \in Forms : FormNow' = [FormNow EXCEPT ![d] = f]
            /\ StockNow' = StockNow
       /\ Receipt!Approve(d) <=>
            /\ StateNow[d] = "draft"
            /\ StateNow' = [StateNow EXCEPT ![d] = "approved"]
            /\ FormNow' = FormNow /\ StockNow' = StockNow
       /\ Receipt!Close(d) <=>
            /\ StateNow[d] \in {"draft", "approved"}
            /\ StateNow' = [StateNow EXCEPT ![d] = "closed"]
            /\ FormNow' = FormNow /\ StockNow' = StockNow
       /\ Receipt!Receive(d) <=>
            /\ StateNow[d] = "approved"
            /\ StateNow' = [StateNow EXCEPT ![d] = "received"]
            /\ StockNow' = [k \in Keys |-> StockNow[k] + Receipt!Brought(FormNow[d], k)]
            /\ FormNow' = FormNow
  BY DEF StateNow, FormNow, StockNow, StockOf, Receipt!vars, Receipt!Draft, Receipt!Approve,
         Receipt!Close, Receipt!Receive

LEMMA DecideRefines ==
  ASSUME StockInsInv, NEW w \in Workers, Decide(w)
  PROVE  \/ \E d \in Docs : Receipt!Approve(d) \/ Receipt!Close(d)
         \/ UNCHANGED <<StateNow, FormNow, StockNow>>
  <1>1. PICK d \in Docs, op \in {"approve", "reject", "cancel", "delete"} :
          d = tx[w].doc /\ op = tx[w].op
    BY WorkerFacts DEF Decide, Shape
  <1>2. PICK y \in Doc : y = docs[d]
    BY DEF StockInsInv, TypeOK
  <1>3. PICK x : x = Decided(y, op)
    OBVIOUS
  <1>4. docs \in [Docs -> Doc] /\ docs' = [docs EXCEPT ![d] = x] /\ ~y.deleted
    BY <1>1, <1>2, <1>3 DEF Decide, UnchangedSince, StockInsInv, TypeOK
  <1>5. y.status \in Accepted(op)
    BY <1>1, <1>2, WorkerFacts DEF Decide, UnchangedSince, Shape
  <1>6. /\ StateNow' = [StateNow EXCEPT ![d] = Promise(x)]
        /\ FormNow' = [FormNow EXCEPT ![d] = x.form]
        /\ StateNow[d] = Promise(y) /\ FormNow[d] = y.form
    BY <1>2, <1>4, ViewMoves
  <1>7. StockNow' = StockNow
    BY StockStays DEF Decide
  <1>8. FormNow' = FormNow
    <2>1. x.form = y.form
      BY <1>3, DecidedIs
    <2>2. QED
      BY <1>6, <2>1 DEF FormNow
  <1>9. x \in Doc
    BY <1>3, DecidedIs
  <1>10. CASE Promise(x) = "approved" /\ Promise(y) = "draft"
    BY <1>6, <1>7, <1>8, <1>10, ReceiptViews
  <1>11. CASE Promise(x) = "closed" /\ Promise(y) \in {"draft", "approved"}
    BY <1>6, <1>7, <1>8, <1>11, ReceiptViews
  <1>12. CASE Promise(x) = "closed" /\ Promise(y) = "closed"
    <2>1. StateNow' = StateNow
      BY <1>6, <1>12 DEF StateNow
    <2>2. QED
      BY <2>1, <1>7, <1>8
  <1>13. \/ Promise(x) = "approved" /\ Promise(y) = "draft"
         \/ Promise(x) = "closed" /\ Promise(y) \in {"draft", "approved", "closed"}
    <2>1. CASE op = "approve"
      BY <2>1, <1>3, <1>4, <1>5, <1>9, AcceptedTypes, DecidedIs, PromiseIs
    <2>2. CASE op = "reject"
      BY <2>2, <1>3, <1>4, <1>5, <1>9, AcceptedTypes, DecidedIs, PromiseIs
    <2>3. CASE op = "cancel"
      BY <2>3, <1>3, <1>4, <1>5, <1>9, AcceptedTypes, DecidedIs, PromiseIs
    <2>4. CASE op = "delete"
      BY <2>4, <1>3, <1>4, <1>5, <1>9, AcceptedTypes, DecidedIs, PromiseIs
    <2>5. QED
      BY <2>1, <2>2, <2>3, <2>4
  <1>14. QED
    BY <1>10, <1>11, <1>12, <1>13

LEMMA UpdateRefines ==
  ASSUME StockInsInv, NEW w \in Workers, UpdateCommit(w)
  PROVE  \E d \in Docs : Receipt!Draft(d)
  <1>1. PICK d \in Docs : d = tx[w].doc
    BY WorkerFacts DEF UpdateCommit, Shape
  <1>2. PICK y \in Doc : y = docs[d]
    BY DEF StockInsInv, TypeOK
  <1>3. y.status = "PENDING" /\ ~y.deleted
    BY <1>1, <1>2, WorkerFacts, AcceptedTypes DEF UpdateCommit, Shape, Found, Holds
  <1>4. PICK f \in Drafts[d] : docs' = [docs EXCEPT ![d].form = f, ![d].edits = @ + 1]
    BY <1>1 DEF UpdateCommit
  <1>5. f \in Forms
    BY StockInsAssumption
  <1>6. PICK x : x = [y EXCEPT !.form = f, !.edits = y.edits + 1]
    OBVIOUS
  <1>7. x \in Doc /\ x.form = f /\ x.status = "PENDING" /\ ~x.deleted
    <2>1. y.edits + 1 \in Nat
      BY DEF Doc
    <2>2. QED
      BY <1>3, <1>5, <1>6, <2>1 DEF Doc
  <1>8. docs \in [Docs -> Doc]
    BY DEF StockInsInv, TypeOK
  <1>9. docs' = [docs EXCEPT ![d] = x]
    BY <1>2, <1>4, <1>6, <1>8
  <1>10. /\ StateNow' = [StateNow EXCEPT ![d] = Promise(x)]
         /\ FormNow' = [FormNow EXCEPT ![d] = f]
         /\ StateNow[d] = Promise(y)
    BY <1>2, <1>7, <1>8, <1>9, ViewMoves
  <1>11. Promise(x) = "draft" /\ Promise(y) = "draft"
    BY <1>3, <1>7, PromiseIs
  <1>12. StockNow' = StockNow
    BY StockStays DEF UpdateCommit
  <1>13. QED
    BY <1>5, <1>10, <1>11, <1>12, ReceiptViews

LEMMA CreateRefines ==
  ASSUME StockInsInv, NEW w \in Workers, NEW d \in Docs, CreateCommit(w, d)
  PROVE  Receipt!Draft(d)
  <1>1. PICK f \in Drafts[d] :
          docs' = [docs EXCEPT ![d] =
                     [NewDoc EXCEPT !.status = "PENDING", !.form = f, !.number = tx[w].number]]
    BY DEF CreateCommit
  <1>2. PICK x : x = [NewDoc EXCEPT !.status = "PENDING", !.form = f, !.number = tx[w].number]
    OBVIOUS
  <1>3. f \in Forms
    BY StockInsAssumption
  <1>4. tx[w].number \in Number
    BY WorkerFacts DEF CreateCommit, Shape
  <1>5. x \in Doc /\ x.form = f /\ x.status = "PENDING" /\ ~x.deleted
    BY <1>2, <1>3, <1>4 DEF NewDoc, Doc, Statuses
  <1>6. docs \in [Docs -> Doc] /\ docs' = [docs EXCEPT ![d] = x]
    BY <1>1, <1>2 DEF StockInsInv, TypeOK
  <1>7. /\ StateNow' = [StateNow EXCEPT ![d] = Promise(x)]
        /\ FormNow' = [FormNow EXCEPT ![d] = f]
        /\ StateNow[d] = Promise(docs[d])
    BY <1>5, <1>6, ViewMoves
  <1>8. Promise(x) = "draft" /\ Promise(docs[d]) = "none"
    <2>1. docs[d] \in Doc /\ docs[d] = NewDoc /\ NewDoc.status = "none"
      <3>1. docs[d] \in Doc /\ docs[d] = NewDoc
        BY <1>6 DEF CreateCommit
      <3>2. NewDoc.status = "none"
        BY DEF NewDoc
      <3>3. QED
        BY <3>1, <3>2
    <2>2. QED
      BY <1>5, <2>1, PromiseIs
  <1>9. StockNow' = StockNow
    BY StockStays DEF CreateCommit
  <1>10. QED
    BY <1>3, <1>7, <1>8, <1>9, ReceiptViews

LEMMA CompleteRefines ==
  ASSUME StockInsInv, NEW w \in Workers, CompleteCommit(w)
  PROVE  \E d \in Docs : Receipt!Receive(d)
  <1> DEFINE t == tx[w]
  <1>1. PICK d \in Docs, f \in Forms :
          d = t.doc /\ f = t.form /\ docs[d].form = f /\ docs[d].status = "APPROVED"
    BY ReceiptFacts DEF CompleteCommit
  <1>2. PICK y \in Doc : y = docs[d]
    BY DEF StockInsInv, TypeOK
  <1>3. PICK x : x = [y EXCEPT !.status = "COMPLETED"]
    OBVIOUS
  <1>4. x \in Doc /\ x.form = y.form /\ x.status = "COMPLETED"
    BY <1>3 DEF Doc, Statuses
  <1>5. docs \in [Docs -> Doc] /\ docs' = [docs EXCEPT ![d] = x]
    BY <1>1, <1>2, <1>3 DEF CompleteCommit, StockInsInv, TypeOK
  <1>6. /\ StateNow' = [StateNow EXCEPT ![d] = Promise(x)]
        /\ FormNow' = [FormNow EXCEPT ![d] = x.form]
        /\ StateNow[d] = Promise(y) /\ FormNow[d] = y.form
    BY <1>2, <1>5, ViewMoves
  <1>7. Promise(x) = "received" /\ Promise(y) = "approved"
    BY <1>1, <1>2, <1>4, PromiseIs
  <1>8. FormNow' = FormNow /\ FormNow[d] = f
    BY <1>1, <1>2, <1>4, <1>6 DEF FormNow
  <1>9. ASSUME NEW k \in Keys
        PROVE  StockOf(inventory'[k]) = StockOf(inventory[k]) + Receipt!Brought(f, k)
    <2>1. \A i \in 1 .. Len(f.lines) : LineKey(t, i) = <<f.wh, f.lines[i].goods>>
      BY <1>1, ReceiptFacts DEF CompleteCommit
    <2>2. StockOf(inventory[k]) \in Nat
      BY DEF StockInsInv, TypeOK, StockOf, Row
    <2>3. CASE k \in KeysOf(t)
      <3>1. PICK i \in 1 .. Len(f.lines) : k = LineKey(t, i)
        BY <2>3, <1>1 DEF KeysOf
      <3>2. PICK z \in Written : /\ inventory'[k] = z.row
                                 /\ Follows(inventory[k], f.lines[i], z)
        BY <3>1, <1>1, RowsReceived
      <3>3. z.row.qty = StockOf(inventory[k]) + f.lines[i].qty
        BY <3>2 DEF Follows, StockOf, NoStock
      <3>4. z.row # NoRow
        BY StockInsAssumption DEF Written
      <3>5. Receipt!Brought(f, k) = f.lines[i].qty
        BY <2>1, <3>1, BroughtIs
      <3>6. QED
        BY <3>2, <3>3, <3>4, <3>5 DEF StockOf
    <2>4. CASE k \notin KeysOf(t)
      <3>1. inventory'[k] = inventory[k]
        BY <2>4, RowsReceived
      <3>2. \A i \in 1 .. Len(f.lines) : <<f.wh, f.lines[i].goods>> # k
        BY <2>1, <2>4, <1>1 DEF KeysOf
      <3>3. Receipt!Brought(f, k) = 0
        BY <3>2, BroughtIs
      <3>4. QED
        BY <2>2, <3>1, <3>3
    <2>5. QED
      BY <2>3, <2>4
  <1>10. StockNow' = [k \in Keys |-> StockNow[k] + Receipt!Brought(FormNow[d], k)]
    <2>1. StockNow' = [k \in Keys |-> StockOf(inventory'[k])]
      BY DEF StockNow, StockOf
    <2>2. \A k \in Keys : StockOf(inventory'[k]) = StockNow[k] + Receipt!Brought(FormNow[d], k)
      BY <1>8, <1>9 DEF StockNow
    <2>3. QED
      BY <2>1, <2>2
  <1>11. Receipt!Receive(d)
    BY <1>6, <1>7, <1>8, <1>10, ReceiptViews
  <1>12. QED
    BY <1>11

LEMMA ReceiptInit == Init => Receipt!Init
  <1> SUFFICES ASSUME Init PROVE Receipt!Init
    OBVIOUS
  <1>1. StateNow = [d \in Docs |-> "none"]
    BY DEF Init, StateNow, Promise, NewDoc
  <1>2. FormNow = [d \in Docs |-> NoForm]
    BY DEF Init, FormNow, NewDoc
  <1>3. StockNow = [k \in Keys |-> IF Opening[k] = NoRow THEN 0 ELSE Opening[k].qty]
    BY DEF Init, StockNow, StockOf
  <1>4. QED
    BY <1>1, <1>2, <1>3 DEF Receipt!Init, StateNow, FormNow, StockNow, StockOf

LEMMA ReceiptNext == StockInsInv /\ [Next]_vars => [Receipt!Next]_(Receipt!vars)
  <1> SUFFICES ASSUME StockInsInv, [Next]_vars
               PROVE  Receipt!Next \/ UNCHANGED <<StateNow, FormNow, StockNow>>
    BY DEF Receipt!vars, StateNow, FormNow, StockNow, StockOf
  <1>1. CASE UNCHANGED <<docs, inventory>>
    BY <1>1 DEF StateNow, FormNow, StockNow, StockOf, Promise
  <1>2. CASE Next /\ ~UNCHANGED <<docs, inventory>>
    <2>1. PICK w \in Workers : Begin(w) \/ Proceed(w) \/ Rollback(w)
      BY <1>2 DEF Next
    <2>2. \/ \E d \in Docs : CreateCommit(w, d)
          \/ Decide(w) \/ UpdateCommit(w) \/ CompleteCommit(w)
      BY <1>2, <2>1 DEF Begin, Proceed, Rollback, DrawNumber, Read, NumbersExhausted, Claim,
           Refuse, ReadItems, TakeLock, ReadRow, WriteRow
    <2>3. QED
      BY <2>2, CreateRefines, DecideRefines, UpdateRefines, CompleteRefines DEF Receipt!Next
  <1>3. QED
    BY <1>1, <1>2 DEF vars

\* What was approved is received once and completely, or not at all: the
\* handlers of StockInService implement StockReceipt, step by step.
THEOREM ApprovedIsReceived == Spec => ReceivesApproved
  BY ReceiptInit, ReceiptNext, StockInsInvariant, PTL DEF Spec, ReceivesApproved, Receipt!Spec

=============================================================================
