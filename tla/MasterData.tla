----------------------------- MODULE MasterData -----------------------------
(***************************************************************************)
(* Archiving of stores, warehouses, goods, goods categories and            *)
(* containers, and the rows that refer to them: open documents, stock,     *)
(* bindings of containers to goods, container balances of a store, goods   *)
(* under a category.                                                       *)
(*                                                                         *)
(* A service first looks at the rows with plain reads and then runs a      *)
(* transaction whose triggers look again: an archive locks its row and     *)
(* scans for references, a reference locks the rows it names FOR SHARE     *)
(* and demands that none is archived.  A transaction here is the list of   *)
(* row locks it still has to take and what it writes when it commits; what *)
(* it writes is seen by nobody before that.                                *)
(***************************************************************************)
EXTENDS Naturals, Sequences, FiniteSets, SequencesExt

CONSTANTS
  Workers,   \* requests served at the same time
  Rows,      \* the rows of all tables
  Kind,      \* the table of each row
  Ops,       \* the operations each worker runs, to keep an instance small
  Named,     \* the masters each row names at the start, in locking order
  Opening,   \* the state of each row at the start
  NoRow

MasterKinds == {"category", "goods", "container", "store", "warehouse"}
ReferenceKinds == {"document", "stock", "binding", "tracking"}

Of(kinds) == {r \in Rows : Kind[r] \in kinds}

\* A master is not yet created, in use or archived.  A reference is absent
\* while nothing of it counts (a document not open, no stock, no binding, no
\* balance row), and a balance row is idle when nothing is out.
Lives == {"absent", "in", "idle", "archived"}

\* The foreign keys lead to masters, and the database at the start is one the
\* triggers have kept.
ASSUME MasterDataAssumption ==
  /\ IsFiniteSet(Rows)
  /\ NoRow \notin Rows
  /\ Kind \in [Rows -> MasterKinds \union ReferenceKinds]
  /\ Named \in [Rows -> Seq(Of(MasterKinds))]
  /\ Opening \in [Rows -> Lives]
  /\ \A r \in Of(MasterKinds) : Opening[r] # "idle"
  /\ \A r \in Of(ReferenceKinds) : Opening[r] # "archived"
  /\ \A r \in Rows : Opening[r] \in {"in", "idle"} =>
        \A i \in DOMAIN Named[r] : Opening[Named[r][i]] = "in"

VARIABLES
  life,   \* the state of each row, as committed
  names,  \* the masters each row names
  tx      \* the transaction of each worker

vars == <<life, names, tx>>

-----------------------------------------------------------------------------
(* Rows.                                                                   *)

Live(r) == life[r] \in {"in", "idle"}

Names(r, m) == \E i \in DOMAIN names[r] : names[r][i] = m

References(m, kinds) == {r \in Of(kinds) : Names(r, m) /\ Live(r)}

-----------------------------------------------------------------------------
(* Transactions and row locks.                                             *)

Idle == [on |-> FALSE, todo |-> <<>>, x |-> {}, s |-> {},
         write |-> <<>>, revise |-> <<>>, scan |-> NoRow]

X(rows) == [i \in DOMAIN rows |-> [row |-> rows[i], mode |-> "x"]]

Share(rows) == [i \in DOMAIN rows |-> [row |-> rows[i], mode |-> "s"]]

Others(w) == Workers \ {w}

Unlocked(w, r) == \A v \in Others(w) : r \notin tx[v].x \union tx[v].s

Sharable(w, r) == \A v \in Others(w) : r \notin tx[v].x

\* The rows are written in the given order.
Start(w, rows, write) ==
  /\ tx' = [tx EXCEPT ![w] = [Idle EXCEPT !.on = TRUE, !.todo = X(rows), !.write = write]]
  /\ UNCHANGED <<life, names>>

\* The UPDATE that archives m scans for references once it has the row.
StartArchive(w, m) ==
  /\ tx' = [tx EXCEPT ![w] = [Idle EXCEPT !.on = TRUE, !.todo = X(<<m>>),
                                          !.write = [r \in {m} |-> "archived"], !.scan = m]]
  /\ UNCHANGED <<life, names>>

-----------------------------------------------------------------------------
(* What the services do before their transaction.                          *)

ArchiveGoods(w, g) ==
  /\ Kind[g] = "goods" /\ life[g] = "in"
  /\ References(g, {"stock", "document"}) = {}
  /\ StartArchive(w, g)

ArchiveCategory(w, c) ==
  /\ Kind[c] = "category" /\ life[c] = "in"
  /\ References(c, {"goods", "category"}) = {}
  /\ StartArchive(w, c)

ArchiveStore(w, s) ==
  /\ Kind[s] = "store" /\ life[s] = "in"
  /\ References(s, {"document"}) = {}
  /\ \A r \in References(s, {"tracking"}) : life[r] = "idle"
  /\ StartArchive(w, s)

ArchiveWarehouse(w, h) ==
  /\ Kind[h] = "warehouse" /\ life[h] = "in"
  /\ References(h, {"stock", "document"}) = {}
  /\ StartArchive(w, h)

\* A binding counts while its goods are not archived.
BoundToLive(b) == \A i \in DOMAIN names[b] : Kind[names[b][i]] = "goods" => Live(names[b][i])

ArchiveContainer(w, k) ==
  /\ Kind[k] = "container" /\ life[k] = "in"
  /\ \A b \in References(k, {"binding"}) : ~BoundToLive(b)
  /\ \A r \in References(k, {"tracking"}) : life[r] = "idle"
  /\ StartArchive(w, k)

\* Creation inserts the row, and its trigger looks at the category.
CreateGoods(w, g) ==
  /\ Kind[g] = "goods" /\ life[g] = "absent"
  /\ \A i \in DOMAIN names[g] : Live(names[g][i])
  /\ Start(w, <<g>>, [r \in {g} |-> "in"])

CreateCategory(w, c) ==
  /\ Kind[c] = "category" /\ life[c] = "absent"
  /\ Start(w, <<c>>, [r \in {c} |-> "in"])

CreateStore(w, s) ==
  /\ Kind[s] = "store" /\ life[s] = "absent"
  /\ Start(w, <<s>>, [r \in {s} |-> "in"])

CreateWarehouse(w, h) ==
  /\ Kind[h] = "warehouse" /\ life[h] = "absent"
  /\ Start(w, <<h>>, [r \in {h} |-> "in"])

\* A container comes with the bindings of its form.
CreateContainer(w, k, bound) ==
  /\ Kind[k] = "container" /\ life[k] = "absent"
  /\ \A b \in bound : Kind[b] = "binding" /\ Names(b, k) /\ BoundToLive(b)
  /\ Start(w, <<k>> \o SetToSeq(bound), [r \in {k} \union bound |-> "in"])

RestoreGoods(w, g) ==
  /\ Kind[g] = "goods" /\ life[g] = "archived"
  /\ \A i \in DOMAIN names[g] : Live(names[g][i])
  /\ Start(w, <<g>>, [r \in {g} |-> "in"])

RestoreCategory(w, c) ==
  /\ Kind[c] = "category" /\ life[c] = "archived"
  /\ \A i \in DOMAIN names[c] : Live(names[c][i])
  /\ Start(w, <<c>>, [r \in {c} |-> "in"])

RestoreStore(w, s) ==
  /\ Kind[s] = "store" /\ life[s] = "archived"
  /\ Start(w, <<s>>, [r \in {s} |-> "in"])

RestoreWarehouse(w, h) ==
  /\ Kind[h] = "warehouse" /\ life[h] = "archived"
  /\ Start(w, <<h>>, [r \in {h} |-> "in"])

RestoreContainer(w, k) ==
  /\ Kind[k] = "container" /\ life[k] = "archived"
  /\ Start(w, <<k>>, [r \in {k} |-> "in"])

\* The edit of goods may put them under another category.
UpdateGoods(w, g, c) ==
  /\ Kind[g] = "goods" /\ Kind[c] = "category"
  /\ life[g] = "in" /\ life[c] = "in"
  /\ tx' = [tx EXCEPT ![w] = [Idle EXCEPT !.on = TRUE, !.todo = X(<<g>>),
                                          !.revise = [r \in {g} |-> <<c>>]]]
  /\ UNCHANGED <<life, names>>

\* The edit of a container deletes its bindings and inserts those of the form,
\* each of which names live goods.
UpdateContainer(w, k, bound) ==
  /\ Kind[k] = "container" /\ life[k] = "in"
  /\ \A b \in bound : Kind[b] = "binding" /\ Names(b, k) /\ BoundToLive(b)
  /\ LET old == References(k, {"binding"})
     IN Start(w, SetToSeq(old \ bound) \o <<k>> \o SetToSeq(bound),
              [b \in old \union bound |-> IF b \in bound THEN "in" ELSE "absent"])

-----------------------------------------------------------------------------
(* References, written by the services of documents, stock and balances.   *)

\* A document is submitted, approved into a stock-out, or created open.
OpenDocument(w, d) ==
  /\ Kind[d] = "document" /\ life[d] = "absent"
  /\ Start(w, <<d>>, [r \in {d} |-> "in"])

\* A document is finished, rejected, cancelled or deleted: nothing is looked at.
CloseDocument(w, d) ==
  /\ Kind[d] = "document" /\ life[d] = "in"
  /\ Start(w, <<d>>, [r \in {d} |-> "absent"])

\* A quantity of an inventory row is not zero any more.
FillStock(w, i) ==
  /\ Kind[i] = "stock" /\ life[i] = "absent"
  /\ Start(w, <<i>>, [r \in {i} |-> "in"])

EmptyStock(w, i) ==
  /\ Kind[i] = "stock" /\ life[i] = "in"
  /\ Start(w, <<i>>, [r \in {i} |-> "absent"])

\* Containers leave with a shipment, or come back: either way the row stays.
Lend(w, t) ==
  /\ Kind[t] = "tracking" /\ life[t] # "in"
  /\ Start(w, <<t>>, [r \in {t} |-> "in"])

TakeBack(w, t) ==
  /\ Kind[t] = "tracking" /\ life[t] = "in"
  /\ Start(w, <<t>>, [r \in {t} |-> "idle"])

-----------------------------------------------------------------------------
(* The steps of a transaction.                                             *)

Abort(w) == tx' = [tx EXCEPT ![w] = Idle]

\* The state of a row, and the masters it names, once w commits.
Becomes(w, r) == IF r \in DOMAIN tx[w].write THEN tx[w].write[r] ELSE life[r]

NamesThen(w, r) == IF r \in DOMAIN tx[w].revise THEN tx[w].revise[r] ELSE names[r]

\* A transaction sees the rows it has written itself.
Sees(w, r) == IF r \in tx[w].x THEN Becomes(w, r) ELSE life[r]

\* The trigger of a row that is in use once written wants its masters, as the
\* locked row or the write names them.
Demanded(w, r) ==
  IF Becomes(w, r) \in {"in", "idle"} THEN Share(NamesThen(w, r)) ELSE <<>>

LockRow(w) ==
  /\ tx[w].todo # <<>>
  /\ LET r == Head(tx[w].todo).row
     IN /\ Head(tx[w].todo).mode = "x"
        /\ Unlocked(w, r)
        /\ tx' = [tx EXCEPT ![w].x = @ \union {r},
                            ![w].todo = Demanded(w, r) \o Tail(@)]
  /\ UNCHANGED <<life, names>>

\* Fault: FOR KEY SHARE, which does not wait for an UPDATE.
RequireActiveKeyShare(w) ==
  /\ tx[w].todo # <<>>
  /\ LET r == Head(tx[w].todo).row
     IN /\ Head(tx[w].todo).mode = "s"
        /\ IF Sees(w, r) # "in"
           THEN Abort(w)
           ELSE tx' = [tx EXCEPT ![w].s = @ \union {r}, ![w].todo = Tail(@)]
  /\ UNCHANGED <<life, names>>

\* Fault: a plain SELECT in the trigger.
RequireActiveUnlocked(w) ==
  /\ tx[w].todo # <<>>
  /\ Head(tx[w].todo).mode = "s"
  /\ IF Sees(w, Head(tx[w].todo).row) # "in"
     THEN Abort(w)
     ELSE tx' = [tx EXCEPT ![w].todo = Tail(@)]
  /\ UNCHANGED <<life, names>>

\* SELECT ... FOR SHARE waits for a writer of the master and then reads it;
\* a master that is not there is refused by the foreign key.
RequireActive(w) ==
  /\ tx[w].todo # <<>>
  /\ LET r == Head(tx[w].todo).row
     IN /\ Head(tx[w].todo).mode = "s"
        /\ Sharable(w, r)
        /\ IF Sees(w, r) # "in"
           THEN Abort(w)
           ELSE tx' = [tx EXCEPT ![w].s = @ \union {r}, ![w].todo = Tail(@)]
  /\ UNCHANGED <<life, names>>

\* What goes with an archived row: its idle balances, the bindings of goods.
Swept(m) ==
  IF Kind[m] \in {"store", "container"}
  THEN {r \in References(m, {"tracking"}) : life[r] = "idle"}
  ELSE IF Kind[m] = "goods" THEN References(m, {"binding"})
  ELSE {}

\* What keeps a row from being archived.
Keeping(m) ==
  {r \in References(m, MasterKinds \union ReferenceKinds) \ Swept(m) :
     Kind[r] = "binding" => BoundToLive(r)}

\* The trigger of the archive: with the row locked, sweep and scan.
Guard(w) ==
  /\ tx[w].todo = <<>> /\ tx[w].scan # NoRow
  /\ LET m == tx[w].scan
         swept == IF life[m] = "archived" THEN {} ELSE Swept(m)
     IN /\ \A r \in swept : Unlocked(w, r)
        /\ IF life[m] # "archived" /\ Keeping(m) # {}
           THEN Abort(w)
           ELSE tx' = [tx EXCEPT
                  ![w].x = @ \union swept, ![w].scan = NoRow,
                  ![w].write = [r \in DOMAIN @ \union swept |->
                                  IF r \in swept THEN "absent" ELSE @[r]]]
  /\ UNCHANGED <<life, names>>

Commit(w) ==
  /\ tx[w].on /\ tx[w].todo = <<>> /\ tx[w].scan = NoRow
  /\ life' = [r \in Rows |-> Becomes(w, r)]
  /\ names' = [r \in Rows |-> NamesThen(w, r)]
  /\ Abort(w)

\* The loser of a deadlock, a timeout or a lost connection.
Rollback(w) ==
  /\ tx[w].on
  /\ Abort(w)
  /\ UNCHANGED <<life, names>>

-----------------------------------------------------------------------------

Begin(w) ==
  ~tx[w].on /\ \E r \in Rows :
    \/ "archive" \in Ops[w] /\ \/ ArchiveGoods(w, r)
                               \/ ArchiveCategory(w, r)
                               \/ ArchiveStore(w, r)
                               \/ ArchiveWarehouse(w, r)
                               \/ ArchiveContainer(w, r)
    \/ "restore" \in Ops[w] /\ \/ CreateGoods(w, r)
                               \/ RestoreGoods(w, r)
                               \/ RestoreCategory(w, r)
                               \/ RestoreStore(w, r)
                               \/ RestoreWarehouse(w, r)
                               \/ RestoreContainer(w, r)
    \/ "edit" \in Ops[w] /\ \/ CreateCategory(w, r)
                            \/ CreateStore(w, r)
                            \/ CreateWarehouse(w, r)
                            \/ \E c \in Of({"category"}) : UpdateGoods(w, r, c)
                            \/ \E bound \in SUBSET Of({"binding"}) :
                                 CreateContainer(w, r, bound) \/ UpdateContainer(w, r, bound)
    \/ "refer" \in Ops[w] /\ \/ OpenDocument(w, r)
                             \/ CloseDocument(w, r)
                             \/ FillStock(w, r)
                             \/ EmptyStock(w, r)
                             \/ Lend(w, r)
                             \/ TakeBack(w, r)

Init ==
  /\ life = Opening
  /\ names = Named
  /\ tx = [w \in Workers |-> Idle]

Next ==
  \E w \in Workers :
    Begin(w) \/ LockRow(w) \/ RequireActive(w) \/ Guard(w) \/ Commit(w) \/ Rollback(w)

Spec == Init /\ [][Next]_vars

-----------------------------------------------------------------------------
(* Properties.                                                             *)

\* The rows are well formed, and no two transactions hold a row of which one
\* holds the exclusive lock (the row locks of goods, stores and the others).
TypeOK ==
  /\ life \in [Rows -> Lives]
  /\ \A r \in Of(MasterKinds) : life[r] # "idle"
  /\ \A r \in Of(ReferenceKinds) : life[r] # "archived"
  /\ \A r \in Rows : names[r] \in Seq(Of(MasterKinds))
  /\ \A w \in Workers : \A v \in Others(w) : tx[w].x \intersect (tx[v].x \union tx[v].s) = {}

\* Whatever requests meet, no open document, stock, binding, container balance
\* or goods in use names an archived or missing master: the guard triggers of
\* master data and of its references close every gap the reads of the services
\* leave.
ReferencesLive ==
  \A r \in Rows : Live(r) => \A i \in DOMAIN names[r] : life[names[r][i]] = "in"
=============================================================================
