-------------------------- MODULE MasterData_proofs --------------------------
(***************************************************************************)
(* Proofs about MasterData: for any number of rows, workers and any foreign *)
(* keys between the rows, the locks exclude each other and no row in use   *)
(* names an archived or missing master.                                    *)
(***************************************************************************)
EXTENDS MasterData, SequenceTheorems, FunctionTheorems, FiniteSetTheorems, TLAPS

-----------------------------------------------------------------------------
(* The inductive invariant.  It speaks of one transaction at a time: t is  *)
(* the transaction, l the committed states and n the committed names.      *)

Masters == Of(MasterKinds)

XLock(r) == [row |-> r, mode |-> "x"]

SLock(r) == [row |-> r, mode |-> "s"]

Lock == [row : Rows, mode : {"x"}] \union [row : Masters, mode : {"s"}]

Changes(S) == UNION {[D -> S] : D \in SUBSET Rows}

Transaction ==
  [on : BOOLEAN, todo : Seq(Lock), x : SUBSET Rows, s : SUBSET Masters,
   write : Changes(Lives), revise : Changes(Seq(Masters)), scan : Rows \union {NoRow}]

\* What t leaves behind, should it commit.
After(t, l, r) == IF r \in DOMAIN t.write THEN t.write[r] ELSE l[r]

NamesAfter(t, n, r) == IF r \in DOMAIN t.revise THEN t.revise[r] ELSE n[r]

\* The rows t writes are locked, or still to be locked, by it.
WritesLocked(t) ==
  \A r \in DOMAIN t.write \union DOMAIN t.revise : r \in t.x \/ XLock(r) \in Range(t.todo)

\* Masters are put in use or archived, references opened or closed.
WritesKind(t) ==
  \A r \in DOMAIN t.write :
    t.write[r] \in IF r \in Masters THEN {"in", "archived"} ELSE {"absent", "in", "idle"}

\* Whoever archives a master does nothing else but sweep.
ArchivesAlone(t) ==
  \A m \in DOMAIN t.write : t.write[m] = "archived" =>
    /\ t.s = {} /\ DOMAIN t.revise = {}
    /\ \A r \in DOMAIN t.write \ {m} : t.write[r] = "absent"
    /\ Range(t.todo) \subseteq {XLock(m)}
    /\ t.scan = NoRow => m \in t.x

\* Before the scan nothing has been swept.
ScansOwn(t) ==
  t.scan # NoRow =>
    /\ t.scan \in Masters
    /\ DOMAIN t.write = {t.scan}
    /\ t.write[t.scan] = "archived"

\* A master locked FOR SHARE is in use and will be.
SharedIn(t, l) == \A m \in t.s : (IF m \in t.x THEN After(t, l, m) ELSE l[m]) = "in"

\* The masters of a locked row that will be in use are locked or still to be.
DemandMet(t, l, n) ==
  \A r \in t.x : After(t, l, r) \in {"in", "idle"} =>
    \A i \in DOMAIN NamesAfter(t, n, r) :
      \/ NamesAfter(t, n, r)[i] \in t.s
      \/ SLock(NamesAfter(t, n, r)[i]) \in Range(t.todo)

\* After the scan, what is in use and names the archived master is swept.
ArchiveClear(t, l, n) ==
  \A m \in DOMAIN t.write : t.write[m] = "archived" /\ t.scan = NoRow =>
    \A r \in Rows :
      (l[r] \in {"in", "idle"} /\ \E i \in DOMAIN n[r] : n[r][i] = m) => r \in DOMAIN t.write

Sound(t, l, n) ==
  /\ WritesLocked(t)
  /\ WritesKind(t)
  /\ ArchivesAlone(t)
  /\ ScansOwn(t)
  /\ SharedIn(t, l)
  /\ DemandMet(t, l, n)
  /\ ArchiveClear(t, l, n)

MasterDataInv ==
  /\ TypeOK
  /\ tx \in [Workers -> Transaction]
  /\ \A w \in Workers : Sound(tx[w], life, names)
  /\ ReferencesLive

-----------------------------------------------------------------------------
(* Sequences.                                                              *)

\* The locks of an UPDATE of the given rows, in their order.
LEMMA XLocks ==
  ASSUME NEW rows \in Seq(Rows)
  PROVE  /\ X(rows) \in Seq(Lock)
         /\ \A r \in Range(rows) : XLock(r) \in Range(X(rows))
  <1>1. /\ X(rows) \in Seq(Lock) /\ DOMAIN X(rows) = DOMAIN rows
        /\ \A i \in DOMAIN rows : X(rows)[i] = XLock(rows[i])
    BY DEF X, Lock, XLock
  <1>2. QED
    BY <1>1 DEF Range

\* The locks FOR SHARE of the given masters, in their order.
LEMMA ShareLocks ==
  ASSUME NEW rows \in Seq(Masters)
  PROVE  /\ Share(rows) \in Seq(Lock)
         /\ \A i \in DOMAIN rows : SLock(rows[i]) \in Range(Share(rows))
  <1>1. /\ Share(rows) \in Seq(Lock) /\ DOMAIN Share(rows) = DOMAIN rows
        /\ \A i \in DOMAIN rows : Share(rows)[i] = SLock(rows[i])
    BY DEF Share, Lock, SLock, Masters, Of
  <1>2. QED
    BY <1>1 DEF Range

\* The locks left once the first is taken.
LEMMA TakeFirst ==
  ASSUME NEW todo \in Seq(Lock), todo # <<>>
  PROVE  /\ Head(todo) \in Lock
         /\ Tail(todo) \in Seq(Lock)
         /\ Range(todo) = {Head(todo)} \union Range(Tail(todo))
  <1>1. /\ Head(todo) \in Lock /\ Tail(todo) \in Seq(Lock)
    BY HeadTailProperties
  <1>2. /\ todo = <<Head(todo)>> \o Tail(todo)
        /\ <<Head(todo)>> \in Seq(Lock)
    BY <1>1
  <1>3. Range(<<Head(todo)>>) = {Head(todo)}
    BY DEF Range
  <1>4. Range(todo) = Range(<<Head(todo)>>) \union Range(Tail(todo))
    BY <1>1, <1>2, RangeConcatenation
  <1>5. QED
    BY <1>1, <1>3, <1>4

\* One list of locks or rows behind another.
LEMMA Concatenated ==
  ASSUME NEW S, NEW a \in Seq(S), NEW b \in Seq(S)
  PROVE  a \o b \in Seq(S) /\ Range(a \o b) = Range(a) \union Range(b)
  BY ConcatProperties, RangeConcatenation

\* The rows of a set in some order.
LEMMA InSomeOrder ==
  ASSUME NEW S \in SUBSET Rows
  PROVE  /\ SetToSeq(S) \in Seq(Rows)
         /\ Range(SetToSeq(S)) = S
  <1> DEFINE n == Cardinality(S)
  <1>1. IsFiniteSet(S)
    BY MasterDataAssumption, FS_Subset
  <1>2. n \in Nat /\ \E f : f \in Bijection(1 .. n, S)
    BY <1>1, FS_CardinalityType DEF ExistsBijection
  <1>3. PICK f \in [1 .. n -> S] : IsInjective(f)
    BY <1>2 DEF Bijection, Injection, IsInjective
  <1>4. SetToSeq(S) \in [1 .. n -> S] /\ IsInjective(SetToSeq(S))
    BY <1>3 DEF SetToSeq
  <1>5. IsFiniteSet(1 .. n) /\ Cardinality(1 .. n) = n
    BY <1>2, FS_Interval
  <1>6. SetToSeq(S) \in Injection(1 .. n, S)
    BY <1>4 DEF Injection, IsInjective
  <1>7. SetToSeq(S) \in Surjection(1 .. n, S)
    BY <1>1, <1>5, <1>6, FS_Injection
  <1>8. Range(SetToSeq(S)) = S
    BY <1>7 DEF Surjection, Range
  <1>9. QED
    BY <1>2, <1>4, <1>8

-----------------------------------------------------------------------------
(* What one transaction does to its part of the invariant.                 *)

\* A function from some of the rows is a change.
LEMMA AChange ==
  ASSUME NEW S, NEW D \in SUBSET Rows, NEW f \in [D -> S]
  PROVE  f \in Changes(S)
  BY DEF Changes

\* A transaction that has not begun, or has ended.
LEMMA IdleSound ==
  ASSUME NEW l, NEW n
  PROVE  Idle \in Transaction /\ Sound(Idle, l, n) /\ Idle.x = {} /\ Idle.s = {}
  <1>1. <<>> \in Changes(Lives) /\ <<>> \in Changes(Seq(Masters))
    <2>1. \A S : <<>> \in [{} -> S]
      OBVIOUS
    <2>2. QED
      BY <2>1 DEF Changes
  <1>2. Idle \in Transaction
    BY <1>1 DEF Idle, Transaction
  <1>3. Sound(Idle, l, n)
    BY DEF Idle, Sound, WritesLocked, WritesKind, ArchivesAlone, ScansOwn, SharedIn,
           DemandMet, ArchiveClear
  <1>4. QED
    BY <1>2, <1>3 DEF Idle

\* A transaction that will write the given rows, and archives nothing.
LEMMA StartSound ==
  ASSUME NEW l, NEW n, NEW rows \in Seq(Rows), NEW write \in Changes(Lives),
         DOMAIN write \subseteq Range(rows),
         \A r \in DOMAIN write :
           write[r] \in IF r \in Masters THEN {"in"} ELSE {"absent", "in", "idle"},
         NEW u, u = [Idle EXCEPT !.on = TRUE, !.todo = X(rows), !.write = write]
  PROVE  u \in Transaction /\ Sound(u, l, n) /\ u.x = {} /\ u.s = {}
  <1>1. X(rows) \in Seq(Lock) /\ \A r \in Range(rows) : XLock(r) \in Range(X(rows))
    BY XLocks
  <1>2. u \in Transaction /\ u.x = {} /\ u.s = {} /\ u.todo = X(rows) /\ u.write = write
        /\ u.revise = <<>> /\ u.scan = NoRow
    BY <1>1, IdleSound DEF Idle, Transaction
  <1>3. WritesLocked(u) /\ WritesKind(u) /\ ArchivesAlone(u) /\ ScansOwn(u)
    BY <1>1, <1>2 DEF WritesLocked, WritesKind, ArchivesAlone, ScansOwn
  <1>4. SharedIn(u, l) /\ DemandMet(u, l, n)
    BY <1>2 DEF SharedIn, DemandMet
  <1>5. ArchiveClear(u, l, n)
    BY <1>2 DEF ArchiveClear
  <1>6. QED
    BY <1>2, <1>3, <1>4, <1>5 DEF Sound

\* A transaction that moves goods to another category.
LEMMA ReviseSound ==
  ASSUME NEW l, NEW n, NEW g \in Rows, NEW c \in Masters,
         NEW u, u = [Idle EXCEPT !.on = TRUE, !.todo = X(<<g>>),
                                 !.revise = [r \in {g} |-> <<c>>]]
  PROVE  u \in Transaction /\ Sound(u, l, n) /\ u.x = {} /\ u.s = {}
  <1>1. X(<<g>>) \in Seq(Lock) /\ XLock(g) \in Range(X(<<g>>))
    <2>1. <<g>> \in Seq(Rows) /\ g \in Range(<<g>>)
      BY DEF Range
    <2>2. QED
      BY <2>1, XLocks
  <1>2. [r \in {g} |-> <<c>>] \in Changes(Seq(Masters))
    <2>1. <<c>> \in Seq(Masters)
      OBVIOUS
    <2>2. [r \in {g} |-> <<c>>] \in [{g} -> Seq(Masters)]
      BY <2>1
    <2>3. QED
      BY <2>2, AChange
  <1>3. u \in Transaction /\ u.x = {} /\ u.s = {} /\ u.todo = X(<<g>>) /\ u.write = <<>>
        /\ DOMAIN u.revise = {g} /\ u.scan = NoRow
    BY <1>1, <1>2, IdleSound DEF Idle, Transaction
  <1>4. Sound(u, l, n)
    BY <1>1, <1>3 DEF Sound, WritesLocked, WritesKind, ArchivesAlone, ScansOwn, SharedIn,
                      DemandMet, ArchiveClear
  <1>5. QED
    BY <1>3, <1>4

\* A transaction that will archive m.
LEMMA ArchiveSound ==
  ASSUME NEW l, NEW n, NEW m \in Masters,
         NEW u, u = [Idle EXCEPT !.on = TRUE, !.todo = X(<<m>>),
                                 !.write = [r \in {m} |-> "archived"], !.scan = m]
  PROVE  u \in Transaction /\ Sound(u, l, n) /\ u.x = {} /\ u.s = {}
  <1>1. /\ X(<<m>>) \in Seq(Lock) /\ Range(X(<<m>>)) = {XLock(m)}
    BY DEF X, Lock, XLock, Masters, Of, Range
  <1>2. m \in Rows /\ m # NoRow /\ [r \in {m} |-> "archived"] \in Changes(Lives)
    <2>1. m \in Rows /\ m # NoRow
      BY MasterDataAssumption DEF Masters, Of
    <2>2. [r \in {m} |-> "archived"] \in [{m} -> Lives]
      BY DEF Lives
    <2>3. QED
      BY <2>1, <2>2, AChange
  <1>3. u \in Transaction /\ u.x = {} /\ u.s = {} /\ u.todo = X(<<m>>)
        /\ u.write = [r \in {m} |-> "archived"] /\ u.revise = <<>> /\ u.scan = m
    BY <1>1, <1>2, IdleSound DEF Idle, Transaction
  <1>4. WritesLocked(u) /\ WritesKind(u) /\ ArchivesAlone(u) /\ ScansOwn(u)
    BY <1>1, <1>2, <1>3 DEF WritesLocked, WritesKind, ArchivesAlone, ScansOwn
  <1>5. SharedIn(u, l) /\ DemandMet(u, l, n) /\ ArchiveClear(u, l, n)
    BY <1>2, <1>3 DEF SharedIn, DemandMet, ArchiveClear
  <1>6. QED
    BY <1>3, <1>4, <1>5 DEF Sound

\* Taking the exclusive lock of a row asks for the masters the row will name.
LEMMA LockSound ==
  ASSUME NEW l \in [Rows -> Lives], NEW n, \A r \in Rows : n[r] \in Seq(Masters),
         NEW t \in Transaction, Sound(t, l, n), t.todo # <<>>,
         NEW r, r = Head(t.todo).row, Head(t.todo).mode = "x",
         NEW more, more = IF After(t, l, r) \in {"in", "idle"}
                          THEN Share(NamesAfter(t, n, r)) ELSE <<>>,
         NEW u, u = [t EXCEPT !.x = t.x \union {r}, !.todo = more \o Tail(t.todo)]
  PROVE  u \in Transaction /\ Sound(u, l, n) /\ r \in Rows
  <1>1. /\ t.todo \in Seq(Lock)
        /\ t.revise \in Changes(Seq(Masters))
    BY DEF Transaction
  <1>2. /\ Head(t.todo) \in Lock /\ Tail(t.todo) \in Seq(Lock)
        /\ Range(t.todo) = {Head(t.todo)} \union Range(Tail(t.todo))
    BY <1>1, TakeFirst
  <1>3. r \in Rows /\ Head(t.todo) = XLock(r)
    BY <1>2 DEF Lock, XLock
  <1>4. NamesAfter(t, n, r) \in Seq(Masters)
    BY <1>1, <1>3 DEF NamesAfter, Changes
  <1>5. /\ more \in Seq(Lock)
        /\ After(t, l, r) \in {"in", "idle"} =>
             \A i \in DOMAIN NamesAfter(t, n, r) :
               SLock(NamesAfter(t, n, r)[i]) \in Range(more)
    BY <1>4, ShareLocks
  <1>6. /\ more \o Tail(t.todo) \in Seq(Lock)
        /\ Range(more \o Tail(t.todo)) = Range(more) \union Range(Tail(t.todo))
    <2>1. more \in Seq(Lock) /\ Tail(t.todo) \in Seq(Lock)
      BY <1>2, <1>5
    <2>2. QED
      BY ONLY <2>1, Concatenated
  <1>7. /\ u \in Transaction /\ u.x = t.x \union {r} /\ u.s = t.s /\ u.write = t.write
        /\ u.revise = t.revise /\ u.scan = t.scan /\ u.todo = more \o Tail(t.todo)
    BY <1>3, <1>6 DEF Transaction
  <1>8. Range(t.todo) \subseteq {XLock(r)} \union Range(u.todo)
    BY <1>2, <1>3, <1>6, <1>7
  <1>9. \A q : After(u, l, q) = After(t, l, q) /\ NamesAfter(u, n, q) = NamesAfter(t, n, q)
    <2> SUFFICES ASSUME NEW q
                 PROVE  After(u, l, q) = After(t, l, q) /\ NamesAfter(u, n, q) = NamesAfter(t, n, q)
      OBVIOUS
    <2>1. u.write = t.write /\ u.revise = t.revise
      BY <1>7
    <2>2. After(u, l, q) = After(t, l, q)
      BY ONLY <2>1 DEF After
    <2>3. NamesAfter(u, n, q) = NamesAfter(t, n, q)
      BY ONLY <2>1 DEF NamesAfter
    <2>4. QED
      BY <2>2, <2>3
  <1>10. WritesLocked(u)
    BY <1>7, <1>8 DEF Sound, WritesLocked, XLock
  <1>11. WritesKind(u) /\ ScansOwn(u) /\ ArchiveClear(u, l, n)
    BY <1>7 DEF Sound, WritesKind, ScansOwn, ArchiveClear
  <1>12. ArchivesAlone(u)
    <2> SUFFICES ASSUME NEW m \in DOMAIN t.write, t.write[m] = "archived"
                 PROVE  Range(u.todo) \subseteq {XLock(m)}
      BY <1>7 DEF Sound, ArchivesAlone
    <2>1. XLock(r) = XLock(m) /\ Range(Tail(t.todo)) \subseteq {XLock(m)}
      BY <1>2, <1>3 DEF Sound, ArchivesAlone
    <2>2. more = <<>> /\ Range(<<>>) = {}
      BY <2>1 DEF XLock, After, Range
    <2>3. QED
      BY <1>6, <1>7, <2>1, <2>2
  <1>13. SharedIn(u, l)
    <2> SUFFICES ASSUME NEW m \in t.s
                 PROVE  (IF m \in u.x THEN After(t, l, m) ELSE l[m]) = "in"
      BY <1>7, <1>9 DEF SharedIn
    <2>1. (IF m \in t.x THEN After(t, l, m) ELSE l[m]) = "in"
      BY DEF Sound, SharedIn
    <2>2. m \in DOMAIN t.write => t.write[m] = "in"
      BY DEF Sound, ArchivesAlone, WritesKind, Transaction
    <2>3. QED
      BY <1>7, <2>1, <2>2 DEF After
  <1>14. DemandMet(u, l, n)
    <2> SUFFICES ASSUME NEW q \in u.x, After(t, l, q) \in {"in", "idle"},
                        NEW i \in DOMAIN NamesAfter(t, n, q)
                 PROVE  \/ NamesAfter(t, n, q)[i] \in u.s
                        \/ SLock(NamesAfter(t, n, q)[i]) \in Range(u.todo)
      BY <1>9 DEF DemandMet
    <2>1. CASE q = r
      BY <2>1, <1>5, <1>6, <1>7
    <2>2. CASE q \in t.x
      <3>1. \/ NamesAfter(t, n, q)[i] \in t.s
            \/ SLock(NamesAfter(t, n, q)[i]) \in Range(t.todo)
        BY <2>2 DEF Sound, DemandMet
      <3>2. SLock(NamesAfter(t, n, q)[i]) # XLock(r)
        BY DEF SLock, XLock
      <3>3. QED
        BY <3>1, <3>2, <1>7, <1>8
    <2>3. QED
      BY <2>1, <2>2, <1>7
  <1>15. QED
    BY <1>3, <1>7, <1>10, <1>11, <1>12, <1>13, <1>14 DEF Sound

\* A master locked FOR SHARE was seen in use.
LEMMA ShareSound ==
  ASSUME NEW l, NEW n, NEW t \in Transaction, Sound(t, l, n), t.todo # <<>>,
         NEW r, r = Head(t.todo).row, Head(t.todo).mode = "s",
         (IF r \in t.x THEN After(t, l, r) ELSE l[r]) = "in",
         NEW u, u = [t EXCEPT !.s = t.s \union {r}, !.todo = Tail(t.todo)]
  PROVE  u \in Transaction /\ Sound(u, l, n) /\ r \in Rows
  <1>1. t.todo \in Seq(Lock)
    BY DEF Transaction
  <1>2. /\ Head(t.todo) \in Lock /\ Tail(t.todo) \in Seq(Lock)
        /\ Range(t.todo) = {Head(t.todo)} \union Range(Tail(t.todo))
    BY <1>1, TakeFirst
  <1>3. r \in Masters /\ r \in Rows /\ Head(t.todo) = SLock(r)
    BY <1>2 DEF Lock, SLock, Masters, Of
  <1>4. /\ u \in Transaction /\ u.x = t.x /\ u.s = t.s \union {r} /\ u.write = t.write
        /\ u.revise = t.revise /\ u.scan = t.scan /\ u.todo = Tail(t.todo)
    BY <1>2, <1>3 DEF Transaction
  <1>5. Range(t.todo) = {SLock(r)} \union Range(u.todo)
    BY <1>2, <1>3, <1>4
  <1>6. \A m : XLock(m) # SLock(r)
    BY DEF XLock, SLock
  <1>7. WritesLocked(u)
    BY <1>4, <1>5, <1>6 DEF Sound, WritesLocked
  <1>8. WritesKind(u) /\ ScansOwn(u) /\ ArchiveClear(u, l, n)
    BY <1>4 DEF Sound, WritesKind, ScansOwn, ArchiveClear
  <1>9. ArchivesAlone(u)
    <2>1. \A m \in DOMAIN t.write : t.write[m] # "archived"
      BY <1>5, <1>6 DEF Sound, ArchivesAlone
    <2>2. QED
      BY <2>1, <1>4 DEF ArchivesAlone
  <1>10. SharedIn(u, l)
    BY <1>4 DEF Sound, SharedIn, After
  <1>11. DemandMet(u, l, n)
    <2> SUFFICES ASSUME NEW q \in t.x, After(t, l, q) \in {"in", "idle"},
                        NEW i \in DOMAIN NamesAfter(t, n, q)
                 PROVE  \/ NamesAfter(t, n, q)[i] \in t.s \union {r}
                        \/ SLock(NamesAfter(t, n, q)[i]) \in Range(u.todo)
      BY <1>4 DEF DemandMet, After, NamesAfter
    <2>1. \/ NamesAfter(t, n, q)[i] \in t.s
          \/ SLock(NamesAfter(t, n, q)[i]) \in Range(t.todo)
      BY DEF Sound, DemandMet
    <2>2. SLock(NamesAfter(t, n, q)[i]) = SLock(r) => NamesAfter(t, n, q)[i] = r
      BY DEF SLock
    <2>3. QED
      BY <2>1, <2>2, <1>5
  <1>12. QED
    BY <1>3, <1>4, <1>7, <1>8, <1>9, <1>10, <1>11 DEF Sound

\* The scan sweeps every row in use that names the master.
LEMMA GuardSound ==
  ASSUME NEW l, NEW n, NEW t \in Transaction, Sound(t, l, n),
         t.todo = <<>>, t.scan # NoRow,
         NEW swept \in SUBSET Rows, swept \intersect Masters = {},
         \A r \in Rows :
           (l[r] \in {"in", "idle"} /\ \E i \in DOMAIN n[r] : n[r][i] = t.scan) => r \in swept,
         NEW write, write = [r \in DOMAIN t.write \union swept |->
                               IF r \in swept THEN "absent" ELSE t.write[r]],
         NEW u, u = [t EXCEPT !.x = t.x \union swept, !.scan = NoRow, !.write = write]
  PROVE  u \in Transaction /\ Sound(u, l, n)
  <1>1. /\ t.scan \in Masters /\ DOMAIN t.write = {t.scan} /\ t.write[t.scan] = "archived"
        /\ t.scan \in Rows /\ t.scan \notin swept
    BY DEF Sound, ScansOwn, Masters, Of
  <1>2. Range(t.todo) = {}
    BY DEF Range
  <1>3. t.s = {} /\ DOMAIN t.revise = {} /\ t.scan \in t.x
    BY <1>1, <1>2 DEF Sound, ArchivesAlone, WritesLocked
  <1>4. write \in Changes(Lives)
    <2>1. write \in [{t.scan} \union swept -> Lives]
      BY <1>1 DEF Lives
    <2>2. QED
      BY <2>1, <1>1, AChange
  <1>5. /\ u \in Transaction /\ u.x = t.x \union swept /\ u.s = {} /\ u.write = write
        /\ u.revise = t.revise /\ u.scan = NoRow /\ u.todo = <<>>
    BY <1>3, <1>4 DEF Transaction
  <1>6. /\ DOMAIN write = {t.scan} \union swept /\ write[t.scan] = "archived"
        /\ \A r \in swept : write[r] = "absent"
    BY <1>1
  <1>7. WritesLocked(u) /\ WritesKind(u) /\ ScansOwn(u)
    BY <1>1, <1>3, <1>5, <1>6 DEF WritesLocked, WritesKind, ScansOwn
  <1>8. ArchivesAlone(u)
    BY <1>2, <1>3, <1>5, <1>6 DEF ArchivesAlone
  <1>9. SharedIn(u, l)
    BY <1>5 DEF SharedIn
  <1>10. DemandMet(u, l, n)
    <2> SUFFICES ASSUME NEW q \in u.x, After(u, l, q) \in {"in", "idle"},
                        NEW i \in DOMAIN NamesAfter(u, n, q)
                 PROVE  NamesAfter(u, n, q)[i] \in u.s
      BY DEF DemandMet
    <2>1. q \notin swept /\ q # t.scan
      BY <1>5, <1>6 DEF After
    <2>2. q \in t.x /\ After(t, l, q) = l[q] /\ After(u, l, q) = l[q]
          /\ NamesAfter(t, n, q) = n[q] /\ NamesAfter(u, n, q) = n[q]
      BY <2>1, <1>1, <1>3, <1>5, <1>6 DEF After, NamesAfter
    <2>3. QED
      BY <2>2, <1>2, <1>3 DEF Sound, DemandMet
  <1>11. ArchiveClear(u, l, n)
    BY <1>5, <1>6 DEF ArchiveClear
  <1>12. QED
    BY <1>5, <1>7, <1>8, <1>9, <1>10, <1>11 DEF Sound

-----------------------------------------------------------------------------
(* Steps.                                                                  *)

\* A step of one transaction that commits nothing.
LEMMA LocalStep ==
  ASSUME MasterDataInv, NEW w \in Workers, NEW u \in Transaction,
         Sound(u, life, names),
         \A v \in Others(w) : /\ u.x \intersect (tx[v].x \union tx[v].s) = {}
                              /\ tx[v].x \intersect u.s = {},
         tx' = [tx EXCEPT ![w] = u], UNCHANGED <<life, names>>
  PROVE  MasterDataInv'
  <1>1. /\ tx' \in [Workers -> Transaction] /\ tx'[w] = u
        /\ \A v \in Others(w) : tx'[v] = tx[v]
    BY DEF MasterDataInv, Others
  <1>2. \A v \in Workers : Sound(tx'[v], life, names)
    BY <1>1 DEF MasterDataInv, Others
  <1>3. \A a \in Workers : \A b \in Others(a) :
          tx'[a].x \intersect (tx'[b].x \union tx'[b].s) = {}
    <2> SUFFICES ASSUME NEW a \in Workers, NEW b \in Others(a)
                 PROVE  tx'[a].x \intersect (tx'[b].x \union tx'[b].s) = {}
      OBVIOUS
    <2>1. CASE a = w
      BY <2>1, <1>1 DEF Others
    <2>2. CASE b = w
      <3>1. a \in Others(w) /\ tx'[a] = tx[a] /\ tx'[b] = u
        BY <2>2, <1>1 DEF Others
      <3>2. QED
        BY <3>1
    <2>3. CASE a # w /\ b # w
      BY <2>3, <1>1 DEF MasterDataInv, TypeOK, Others
    <2>4. QED
      BY <2>1, <2>2, <2>3
  <1>4. TypeOK'
    BY <1>3 DEF MasterDataInv, TypeOK
  <1>5. ReferencesLive'
    BY DEF MasterDataInv, ReferencesLive, Live
  <1>6. QED
    BY <1>1, <1>2, <1>4, <1>5 DEF MasterDataInv

\* What holds of a transaction that is ready to commit.
LEMMA ReadyToCommit ==
  ASSUME NEW l, NEW n, NEW t \in Transaction, Sound(t, l, n), t.todo = <<>>, t.scan = NoRow
  PROVE  /\ DOMAIN t.write \union DOMAIN t.revise \subseteq t.x
         /\ \A r \in t.x : After(t, l, r) \in {"in", "idle"} =>
              \A i \in DOMAIN NamesAfter(t, n, r) : NamesAfter(t, n, r)[i] \in t.s
         /\ \A m \in t.s : After(t, l, m) = "in"
  <1>1. Range(t.todo) = {}
    BY DEF Range
  <1>2. DOMAIN t.write \union DOMAIN t.revise \subseteq t.x
    BY <1>1 DEF Sound, WritesLocked
  <1>3. QED
    BY <1>1, <1>2 DEF Sound, DemandMet, SharedIn, After

\* A commit changes rows no other transaction has locked.
LEMMA CommitStep ==
  ASSUME MasterDataInv, NEW w \in Workers, Commit(w)
  PROVE  MasterDataInv'
  <1> DEFINE t == tx[w]
  <1>1. /\ t \in Transaction /\ Sound(t, life, names) /\ t.todo = <<>> /\ t.scan = NoRow
        /\ tx' = [tx EXCEPT ![w] = Idle]
    BY DEF MasterDataInv, Commit, Abort
  <1>2. /\ life' = [r \in Rows |-> After(t, life, r)]
        /\ names' = [r \in Rows |-> NamesAfter(t, names, r)]
    BY DEF Commit, Becomes, NamesThen, After, NamesAfter
  <1>3. /\ DOMAIN t.write \union DOMAIN t.revise \subseteq t.x
        /\ \A r \in t.x : life'[r] \in {"in", "idle"} =>
             \A i \in DOMAIN names'[r] : names'[r][i] \in t.s
        /\ \A m \in t.s : life'[m] = "in"
        /\ t.x \subseteq Rows /\ t.s \subseteq Rows
    <2>1. t.x \subseteq Rows /\ t.s \subseteq Rows
      BY <1>1 DEF Transaction, Masters, Of
    <2>2. QED
      BY <2>1, <1>1, <1>2, ReadyToCommit
  <1>4. \A r \in Rows \ t.x : life'[r] = life[r] /\ names'[r] = names[r]
    BY <1>2, <1>3 DEF After, NamesAfter
  <1>5. /\ life' \in [Rows -> Lives]
        /\ \A r \in Of(MasterKinds) : life'[r] # "idle"
        /\ \A r \in Of(ReferenceKinds) : life'[r] # "archived"
    <2>1. \A r \in DOMAIN t.write : t.write[r] \in Lives
      BY <1>1 DEF Transaction, Changes
    <2>2. life' \in [Rows -> Lives]
      BY <1>2, <2>1 DEF After, MasterDataInv, TypeOK
    <2>3. \A r \in Of(MasterKinds) : life'[r] # "idle"
      BY <1>1, <1>2 DEF After, MasterDataInv, TypeOK, Sound, WritesKind, Masters, Of
    <2>4. Of(ReferenceKinds) \intersect Masters = {}
      BY DEF Of, Masters, MasterKinds, ReferenceKinds
    <2>5. \A r \in Of(ReferenceKinds) : life'[r] # "archived"
      BY <1>1, <1>2, <2>4 DEF After, MasterDataInv, TypeOK, Sound, WritesKind, Of
    <2>6. QED
      BY <2>2, <2>3, <2>5
  <1>6. \A r \in Rows : names'[r] \in Seq(Of(MasterKinds))
    <2>1. \A r \in DOMAIN t.revise : t.revise[r] \in Seq(Masters)
      BY <1>1 DEF Transaction, Changes
    <2>2. QED
      BY <1>2, <2>1 DEF NamesAfter, MasterDataInv, TypeOK, Masters
  <1>7. /\ tx' \in [Workers -> Transaction] /\ tx'[w] = Idle
        /\ \A v \in Others(w) : tx'[v] = tx[v]
    BY <1>1, IdleSound DEF MasterDataInv, Others
  <1>8. \A a \in Workers : \A b \in Others(a) :
          tx'[a].x \intersect (tx'[b].x \union tx'[b].s) = {}
    BY <1>7, IdleSound DEF MasterDataInv, TypeOK, Others
  <1>9. ASSUME NEW v \in Others(w)
        PROVE  Sound(tx[v], life', names')
    <2> DEFINE q == tx[v]
    <2>1. /\ q \in Transaction /\ Sound(q, life, names)
          /\ q.x \subseteq Rows \ t.x /\ q.s \subseteq Rows \ t.x
          /\ q.x \intersect t.s = {}
      BY DEF MasterDataInv, TypeOK, Others, Transaction, Masters, Of
    <2>2. WritesLocked(q) /\ WritesKind(q) /\ ArchivesAlone(q) /\ ScansOwn(q)
      BY <2>1 DEF Sound
    <2>3. SharedIn(q, life')
      BY <2>1, <1>4 DEF Sound, SharedIn, After
    <2>4. DemandMet(q, life', names')
      BY <2>1, <1>4 DEF Sound, DemandMet, After, NamesAfter
    <2>5. ArchiveClear(q, life', names')
      <3> SUFFICES ASSUME NEW m \in DOMAIN q.write, q.write[m] = "archived", q.scan = NoRow,
                          NEW r \in Rows, life'[r] \in {"in", "idle"},
                          NEW i \in DOMAIN names'[r], names'[r][i] = m
                   PROVE  r \in DOMAIN q.write
        BY DEF ArchiveClear
      <3>1. m \in q.x
        BY <2>1 DEF Sound, ArchivesAlone
      <3>2. r \notin t.x
        BY <3>1, <2>1, <1>3
      <3>3. QED
        BY <3>2, <1>4, <2>1 DEF Sound, ArchiveClear
    <2>6. QED
      BY <2>2, <2>3, <2>4, <2>5 DEF Sound
  <1>10. \A v \in Workers : Sound(tx'[v], life', names')
    <2>1. Sound(Idle, life', names')
      BY IdleSound
    <2>2. QED
      BY <1>7, <1>9, <2>1 DEF Others
  <1>11. ReferencesLive'
    <2> SUFFICES ASSUME NEW r \in Rows, life'[r] \in {"in", "idle"},
                        NEW i \in DOMAIN names'[r]
                 PROVE  life'[names'[r][i]] = "in"
      BY DEF ReferencesLive, Live
    <2>1. CASE r \in t.x
      BY <2>1, <1>3
    <2>2. CASE r \notin t.x
      <3> DEFINE m == names[r][i]
      <3>1. /\ life[r] \in {"in", "idle"} /\ i \in DOMAIN names[r] /\ names'[r][i] = m
            /\ r \notin DOMAIN t.write
        BY <2>2, <1>3, <1>4
      <3>2. m \in Masters /\ m \in Rows /\ life[m] = "in"
        <4>1. names[r] \in Seq(Masters)
          BY DEF MasterDataInv, TypeOK, Masters
        <4>2. m \in Masters
          BY <4>1, <3>1
        <4>3. life[m] = "in"
          BY <3>1 DEF MasterDataInv, ReferencesLive, Live
        <4>4. QED
          BY <4>2, <4>3 DEF Masters, Of
      <3>3. m \in DOMAIN t.write => t.write[m] # "archived"
        BY <3>1, <1>1 DEF Sound, ArchiveClear
      <3>4. m \in DOMAIN t.write => t.write[m] = "in"
        BY <3>2, <3>3, <1>1 DEF Sound, WritesKind
      <3>5. life'[m] = "in"
        BY <3>2, <3>4, <1>2 DEF After
      <3>6. QED
        BY <3>1, <3>5
    <2>3. QED
      BY <2>1, <2>2
  <1>12. TypeOK'
    BY <1>5, <1>6, <1>8 DEF TypeOK
  <1>13. QED
    BY <1>7, <1>10, <1>11, <1>12 DEF MasterDataInv

\* A transaction that begins with writes that archive nothing.
LEMMA StartStep ==
  ASSUME MasterDataInv, NEW w \in Workers, NEW rows \in Seq(Rows),
         NEW D \in SUBSET Range(rows), NEW write \in [D -> Lives],
         \A r \in D : write[r] \in IF r \in Masters THEN {"in"} ELSE {"absent", "in", "idle"},
         Start(w, rows, write)
  PROVE  MasterDataInv'
  <1> DEFINE u == [Idle EXCEPT !.on = TRUE, !.todo = X(rows), !.write = write]
  <1>1. D \in SUBSET Rows
    BY RangeOfSeq
  <1>2. write \in Changes(Lives) /\ DOMAIN write = D
    BY <1>1, AChange
  <1>3. u \in Transaction /\ Sound(u, life, names) /\ u.x = {} /\ u.s = {}
    BY <1>2, StartSound
  <1>4. tx' = [tx EXCEPT ![w] = u] /\ UNCHANGED <<life, names>>
    BY DEF Start
  <1>5. QED
    BY <1>3, <1>4, LocalStep

\* The same for the writes of one row.
LEMMA StartOne ==
  ASSUME MasterDataInv, NEW w \in Workers, NEW r \in Rows, NEW val \in {"absent", "in", "idle"},
         r \in Masters => val = "in",
         Start(w, <<r>>, [q \in {r} |-> val])
  PROVE  MasterDataInv'
  <1>1. <<r>> \in Seq(Rows) /\ {r} \in SUBSET Range(<<r>>)
    BY DEF Range
  <1>2. [q \in {r} |-> val] \in [{r} -> Lives]
    BY DEF Lives
  <1>3. QED
    BY <1>1, <1>2, StartStep

\* A transaction that begins to archive a master.
LEMMA StartArchiveStep ==
  ASSUME MasterDataInv, NEW w \in Workers, NEW m \in Masters, StartArchive(w, m)
  PROVE  MasterDataInv'
  <1> DEFINE u == [Idle EXCEPT !.on = TRUE, !.todo = X(<<m>>),
                               !.write = [r \in {m} |-> "archived"], !.scan = m]
  <1>1. u \in Transaction /\ Sound(u, life, names) /\ u.x = {} /\ u.s = {}
    BY ArchiveSound
  <1>2. tx' = [tx EXCEPT ![w] = u] /\ UNCHANGED <<life, names>>
    BY DEF StartArchive
  <1>3. QED
    BY <1>1, <1>2, LocalStep

\* A container comes with its bindings.
LEMMA CreateContainerStep ==
  ASSUME MasterDataInv, NEW w \in Workers, NEW k \in Rows,
         NEW bound \in SUBSET Of({"binding"}), CreateContainer(w, k, bound)
  PROVE  MasterDataInv'
  <1> DEFINE rows == <<k>> \o SetToSeq(bound)
             write == [r \in {k} \union bound |-> "in"]
  <1>1. bound \in SUBSET Rows
    BY DEF Of
  <1>2. SetToSeq(bound) \in Seq(Rows) /\ Range(SetToSeq(bound)) = bound
    BY <1>1, InSomeOrder
  <1>3. <<k>> \in Seq(Rows) /\ Range(<<k>>) = {k}
    BY DEF Range
  <1>4. rows \in Seq(Rows) /\ Range(rows) = {k} \union bound
    <2> HIDE DEF rows
    <2>1. SetToSeq(bound) \in Seq(Rows) /\ <<k>> \in Seq(Rows)
      BY <1>2, <1>3
    <2>2. /\ <<k>> \o SetToSeq(bound) \in Seq(Rows)
          /\ Range(<<k>> \o SetToSeq(bound)) = Range(<<k>>) \union Range(SetToSeq(bound))
      BY ONLY <2>1, Concatenated
    <2>3. QED
      BY <1>2, <1>3, <2>2 DEF rows
  <1>5. write \in [{k} \union bound -> Lives] /\ \A r \in {k} \union bound : write[r] = "in"
    BY DEF Lives
  <1>6. Start(w, rows, write)
    BY DEF CreateContainer
  <1>7. QED
    BY <1>4, <1>5, <1>6, StartStep

\* The bindings of a container are replaced.
LEMMA UpdateContainerStep ==
  ASSUME MasterDataInv, NEW w \in Workers, NEW k \in Rows,
         NEW bound \in SUBSET Of({"binding"}), UpdateContainer(w, k, bound)
  PROVE  MasterDataInv'
  <1> DEFINE old == References(k, {"binding"})
             first == SetToSeq(old \ bound)
             last == SetToSeq(bound)
             rows == first \o <<k>> \o last
             write == [b \in old \union bound |-> IF b \in bound THEN "in" ELSE "absent"]
  <1>1. /\ bound \in SUBSET Rows /\ old \in SUBSET Rows
        /\ (old \union bound) \intersect Masters = {}
    BY DEF Of, References, Masters, MasterKinds
  <1>2. /\ first \in Seq(Rows) /\ Range(first) = old \ bound
        /\ last \in Seq(Rows) /\ Range(last) = bound
    BY <1>1, InSomeOrder
  <1>3. <<k>> \in Seq(Rows) /\ Range(<<k>>) = {k}
    BY DEF Range
  <1>4. first \o <<k>> \in Seq(Rows) /\ Range(first \o <<k>>) = (old \ bound) \union {k}
    <2> HIDE DEF first
    <2>1. first \in Seq(Rows) /\ <<k>> \in Seq(Rows)
      BY <1>2, <1>3
    <2>2. /\ first \o <<k>> \in Seq(Rows)
          /\ Range(first \o <<k>>) = Range(first) \union Range(<<k>>)
      BY ONLY <2>1, Concatenated
    <2>3. QED
      BY <1>2, <1>3, <2>2
  <1>5. rows \in Seq(Rows) /\ Range(rows) = ((old \ bound) \union {k}) \union bound
    <2> DEFINE front == first \o <<k>>
    <2> HIDE DEF first, last, front
    <2>1. front \in Seq(Rows) /\ last \in Seq(Rows)
      BY <1>2, <1>4 DEF front
    <2>2. front \o last \in Seq(Rows) /\ Range(front \o last) = Range(front) \union Range(last)
      BY ONLY <2>1, Concatenated
    <2>3. QED
      BY <1>2, <1>4, <2>2 DEF front
  <1>6. /\ write \in [old \union bound -> Lives]
        /\ \A b \in old \union bound : write[b] \in {"absent", "in", "idle"}
    BY DEF Lives
  <1>7. Start(w, rows, write)
    BY DEF UpdateContainer
  <1>8. QED
    <2> HIDE DEF rows, write, old
    <2>1. old \union bound \in SUBSET Range(rows)
      BY <1>5
    <2>2. QED
      BY <2>1, <1>1, <1>5, <1>6, <1>7, StartStep

LEMMA LockRowStep ==
  ASSUME MasterDataInv, NEW w \in Workers, LockRow(w)
  PROVE  MasterDataInv'
  <1> DEFINE t == tx[w]
             r == Head(t.todo).row
             more == IF After(t, life, r) \in {"in", "idle"}
                     THEN Share(NamesAfter(t, names, r)) ELSE <<>>
             u == [t EXCEPT !.x = t.x \union {r}, !.todo = more \o Tail(t.todo)]
  <1>1. /\ t \in Transaction /\ Sound(t, life, names)
        /\ life \in [Rows -> Lives] /\ \A q \in Rows : names[q] \in Seq(Masters)
    BY DEF MasterDataInv, TypeOK, Masters
  <1>2. /\ t.todo # <<>> /\ Head(t.todo).mode = "x" /\ Unlocked(w, r)
        /\ UNCHANGED <<life, names>>
    BY DEF LockRow
  <1>3. more = Demanded(w, r)
    BY DEF Demanded, Becomes, NamesThen, After, NamesAfter
  <1>4. tx' = [tx EXCEPT ![w] = u]
    BY <1>1, <1>3 DEF LockRow, MasterDataInv
  <1>5. u \in Transaction /\ Sound(u, life, names) /\ r \in Rows
    BY <1>1, <1>2, LockSound
  <1>6. u.x = t.x \union {r} /\ u.s = t.s
    BY <1>1 DEF Transaction
  <1>7. \A v \in Others(w) : /\ u.x \intersect (tx[v].x \union tx[v].s) = {}
                             /\ tx[v].x \intersect u.s = {}
    <2> HIDE DEF u, r
    <2> SUFFICES ASSUME NEW v \in Others(w)
                 PROVE  /\ u.x \intersect (tx[v].x \union tx[v].s) = {}
                        /\ tx[v].x \intersect u.s = {}
      OBVIOUS
    <2>1. /\ t.x \intersect (tx[v].x \union tx[v].s) = {}
          /\ tx[v].x \intersect (t.x \union t.s) = {}
      BY DEF MasterDataInv, TypeOK, Others
    <2>2. r \notin tx[v].x \union tx[v].s
      BY <1>2 DEF Unlocked
    <2>3. QED
      BY <2>1, <2>2, <1>6
  <1>8. QED
    <2> HIDE DEF u
    <2>1. QED
      BY <1>2, <1>4, <1>5, <1>7, LocalStep

LEMMA RequireActiveStep ==
  ASSUME MasterDataInv, NEW w \in Workers, RequireActive(w)
  PROVE  MasterDataInv'
  <1> DEFINE t == tx[w]
             r == Head(t.todo).row
             u == [t EXCEPT !.s = t.s \union {r}, !.todo = Tail(t.todo)]
  <1>1. t \in Transaction /\ Sound(t, life, names)
    BY DEF MasterDataInv
  <1>2. /\ t.todo # <<>> /\ Head(t.todo).mode = "s" /\ Sharable(w, r)
        /\ UNCHANGED <<life, names>>
    BY DEF RequireActive
  <1>3. CASE Sees(w, r) # "in"
    <2>1. tx' = [tx EXCEPT ![w] = Idle]
      BY <1>3 DEF RequireActive, Abort
    <2>2. QED
      BY <1>2, <2>1, IdleSound, LocalStep
  <1>4. CASE Sees(w, r) = "in"
    <2>1. tx' = [tx EXCEPT ![w] = u]
      BY <1>1, <1>4 DEF RequireActive, MasterDataInv
    <2>2. (IF r \in t.x THEN After(t, life, r) ELSE life[r]) = "in"
      BY <1>4 DEF Sees, Becomes, After
    <2>3. u \in Transaction /\ Sound(u, life, names) /\ r \in Rows
      BY <1>1, <1>2, <2>2, ShareSound
    <2>4. u.x = t.x /\ u.s = t.s \union {r}
      BY <1>1 DEF Transaction
    <2>5. \A v \in Others(w) : /\ u.x \intersect (tx[v].x \union tx[v].s) = {}
                               /\ tx[v].x \intersect u.s = {}
      <3> HIDE DEF u, r
      <3> SUFFICES ASSUME NEW v \in Others(w)
                   PROVE  /\ u.x \intersect (tx[v].x \union tx[v].s) = {}
                          /\ tx[v].x \intersect u.s = {}
        OBVIOUS
      <3>1. /\ t.x \intersect (tx[v].x \union tx[v].s) = {}
            /\ tx[v].x \intersect (t.x \union t.s) = {}
        BY DEF MasterDataInv, TypeOK, Others
      <3>2. r \notin tx[v].x
        BY <1>2 DEF Sharable
      <3>3. QED
        BY <3>1, <3>2, <2>4
    <2>6. QED
      <3> HIDE DEF u
      <3>1. QED
        BY <1>2, <2>1, <2>3, <2>5, LocalStep
  <1>5. QED
    BY <1>3, <1>4

\* Once an archive is allowed, what is in use and names the master is swept:
\* a binding in use names goods in use, so that it keeps its container.
LEMMA NothingKept ==
  ASSUME MasterDataInv, NEW m \in Masters, Keeping(m) = {},
         NEW r \in Rows, Live(r), Names(r, m)
  PROVE  r \in Swept(m)
  <1>1. Kind[r] \in MasterKinds \union ReferenceKinds
    BY MasterDataAssumption
  <1>2. r \in References(m, MasterKinds \union ReferenceKinds)
    BY <1>1 DEF References, Of
  <1>3. BoundToLive(r)
    BY DEF MasterDataInv, ReferencesLive, BoundToLive, Live
  <1>4. QED
    BY <1>2, <1>3 DEF Keeping

LEMMA GuardStep ==
  ASSUME MasterDataInv, NEW w \in Workers, Guard(w)
  PROVE  MasterDataInv'
  <1> DEFINE t == tx[w]
             m == t.scan
             swept == IF life[m] = "archived" THEN {} ELSE Swept(m)
             write == [r \in DOMAIN t.write \union swept |->
                         IF r \in swept THEN "absent" ELSE t.write[r]]
             u == [t EXCEPT !.x = t.x \union swept, !.scan = NoRow, !.write = write]
  <1>1. t \in Transaction /\ Sound(t, life, names)
    BY DEF MasterDataInv
  <1>2. /\ t.todo = <<>> /\ m # NoRow /\ \A r \in swept : Unlocked(w, r)
        /\ UNCHANGED <<life, names>>
    BY DEF Guard
  <1>3. CASE life[m] # "archived" /\ Keeping(m) # {}
    <2>1. tx' = [tx EXCEPT ![w] = Idle]
      BY <1>3 DEF Guard, Abort
    <2>2. QED
      BY <1>2, <2>1, IdleSound, LocalStep
  <1>4. CASE ~(life[m] # "archived" /\ Keeping(m) # {})
    <2>1. tx' = [tx EXCEPT ![w] = u]
      BY <1>1, <1>4 DEF Guard, MasterDataInv
    <2>2. m \in Masters
      BY <1>1, <1>2 DEF Sound, ScansOwn
    <2>3. swept \in SUBSET Rows /\ swept \intersect Masters = {}
      BY DEF Swept, References, Of, Masters, MasterKinds
    <2>4. \A r \in Rows :
            (life[r] \in {"in", "idle"} /\ \E i \in DOMAIN names[r] : names[r][i] = m)
              => r \in swept
      <3> SUFFICES ASSUME NEW r \in Rows, Live(r), Names(r, m)
                   PROVE  r \in swept
        BY DEF Live, Names
      <3>1. life[m] # "archived"
        BY DEF MasterDataInv, ReferencesLive, Names
      <3>2. QED
        BY <3>1, <1>4, <2>2, NothingKept
    <2>5. u \in Transaction /\ Sound(u, life, names)
      <3> HIDE DEF swept, m
      <3>1. m = t.scan
        BY DEF m
      <3>2. QED
        BY <3>1, <1>1, <1>2, <2>3, <2>4, GuardSound
    <2>6. u.x = t.x \union swept /\ u.s = t.s
      BY <1>1 DEF Transaction
    <2>7. \A v \in Others(w) : /\ u.x \intersect (tx[v].x \union tx[v].s) = {}
                               /\ tx[v].x \intersect u.s = {}
      <3> HIDE DEF u, swept
      <3> SUFFICES ASSUME NEW v \in Others(w)
                   PROVE  /\ u.x \intersect (tx[v].x \union tx[v].s) = {}
                          /\ tx[v].x \intersect u.s = {}
        OBVIOUS
      <3>1. /\ t.x \intersect (tx[v].x \union tx[v].s) = {}
            /\ tx[v].x \intersect (t.x \union t.s) = {}
        BY DEF MasterDataInv, TypeOK, Others
      <3>2. \A r \in swept : r \notin tx[v].x \union tx[v].s
        BY <1>2 DEF Unlocked
      <3>3. QED
        BY <3>1, <3>2, <2>6
    <2>8. QED
      <3> HIDE DEF u
      <3>1. QED
        BY <1>2, <2>1, <2>5, <2>7, LocalStep
  <1>5. QED
    BY <1>3, <1>4

LEMMA RollbackStep ==
  ASSUME MasterDataInv, NEW w \in Workers, Rollback(w)
  PROVE  MasterDataInv'
  BY IdleSound, LocalStep DEF Rollback, Abort

LEMMA UpdateGoodsStep ==
  ASSUME MasterDataInv, NEW w \in Workers, NEW g \in Rows, NEW c \in Of({"category"}),
         UpdateGoods(w, g, c)
  PROVE  MasterDataInv'
  <1> DEFINE u == [Idle EXCEPT !.on = TRUE, !.todo = X(<<g>>),
                               !.revise = [r \in {g} |-> <<c>>]]
  <1>1. c \in Masters
    BY DEF Of, Masters, MasterKinds
  <1>2. u \in Transaction /\ Sound(u, life, names) /\ u.x = {} /\ u.s = {}
    BY <1>1, ReviseSound
  <1>3. tx' = [tx EXCEPT ![w] = u] /\ UNCHANGED <<life, names>>
    BY DEF UpdateGoods
  <1>4. QED
    BY <1>2, <1>3, LocalStep

\* Every way to begin a transaction.
LEMMA BeginStep ==
  ASSUME MasterDataInv, NEW w \in Workers, Begin(w)
  PROVE  MasterDataInv'
  <1> DEFINE Opens(r, val) == Start(w, <<r>>, [q \in {r} |-> val])
  <1>1. PICK r \in Rows :
          \/ StartArchive(w, r) /\ r \in Masters
          \/ Opens(r, "in")
          \/ (Opens(r, "absent") \/ Opens(r, "idle")) /\ r \notin Masters
          \/ \E c \in Of({"category"}) : UpdateGoods(w, r, c)
          \/ \E bound \in SUBSET Of({"binding"}) :
               CreateContainer(w, r, bound) \/ UpdateContainer(w, r, bound)
    <2>1. PICK r \in Rows :
            \/ ArchiveGoods(w, r) \/ ArchiveCategory(w, r) \/ ArchiveStore(w, r)
            \/ ArchiveWarehouse(w, r) \/ ArchiveContainer(w, r)
            \/ CreateGoods(w, r) \/ RestoreGoods(w, r) \/ RestoreCategory(w, r)
            \/ RestoreStore(w, r) \/ RestoreWarehouse(w, r) \/ RestoreContainer(w, r)
            \/ CreateCategory(w, r) \/ CreateStore(w, r) \/ CreateWarehouse(w, r)
            \/ \E c \in Of({"category"}) : UpdateGoods(w, r, c)
            \/ \E bound \in SUBSET Of({"binding"}) :
                 CreateContainer(w, r, bound) \/ UpdateContainer(w, r, bound)
            \/ OpenDocument(w, r) \/ CloseDocument(w, r) \/ FillStock(w, r)
            \/ EmptyStock(w, r) \/ Lend(w, r) \/ TakeBack(w, r)
      BY Zenon DEF Begin
    <2>2. ASSUME \/ ArchiveGoods(w, r) \/ ArchiveCategory(w, r) \/ ArchiveStore(w, r)
                 \/ ArchiveWarehouse(w, r) \/ ArchiveContainer(w, r)
          PROVE  StartArchive(w, r) /\ r \in Masters
      BY <2>2 DEF ArchiveGoods, ArchiveCategory, ArchiveStore, ArchiveWarehouse,
                  ArchiveContainer, Masters, Of, MasterKinds
    <2>3. ASSUME \/ CreateGoods(w, r) \/ RestoreGoods(w, r) \/ RestoreCategory(w, r)
                 \/ RestoreStore(w, r) \/ RestoreWarehouse(w, r) \/ RestoreContainer(w, r)
                 \/ CreateCategory(w, r) \/ CreateStore(w, r) \/ CreateWarehouse(w, r)
                 \/ OpenDocument(w, r) \/ FillStock(w, r) \/ Lend(w, r)
          PROVE  Opens(r, "in")
      BY <2>3, Zenon DEF CreateGoods, RestoreGoods, RestoreCategory, RestoreStore,
             RestoreWarehouse, RestoreContainer, CreateCategory, CreateStore, CreateWarehouse,
             OpenDocument, FillStock, Lend
    <2>4. ASSUME CloseDocument(w, r) \/ EmptyStock(w, r)
          PROVE  Opens(r, "absent") /\ r \notin Masters
      BY <2>4 DEF CloseDocument, EmptyStock, Masters, Of, MasterKinds
    <2>5. ASSUME TakeBack(w, r)
          PROVE  Opens(r, "idle") /\ r \notin Masters
      BY <2>5 DEF TakeBack, Masters, Of, MasterKinds
    <2>6. QED
      <3> HIDE DEF Opens
      <3>1. QED
        BY <2>1, <2>2, <2>3, <2>4, <2>5
  <1>2. CASE StartArchive(w, r) /\ r \in Masters
    BY <1>2, StartArchiveStep
  <1>3. CASE Opens(r, "in")
    BY <1>3, StartOne
  <1>4. CASE (Opens(r, "absent") \/ Opens(r, "idle")) /\ r \notin Masters
    BY <1>4, StartOne
  <1>5. CASE \E c \in Of({"category"}) : UpdateGoods(w, r, c)
    BY <1>5, UpdateGoodsStep
  <1>6. CASE \E bound \in SUBSET Of({"binding"}) :
               CreateContainer(w, r, bound) \/ UpdateContainer(w, r, bound)
    BY <1>6, CreateContainerStep, UpdateContainerStep
  <1>7. QED
    <2> HIDE DEF Opens
    <2>1. QED
      BY <1>1, <1>2, <1>3, <1>4, <1>5, <1>6

-----------------------------------------------------------------------------
(* Theorems.                                                               *)

LEMMA InitInv == Init => MasterDataInv
  <1> SUFFICES ASSUME Init PROVE MasterDataInv
    OBVIOUS
  <1>1. /\ life = Opening /\ names = Named
        /\ \A w \in Workers : tx[w] = Idle
        /\ tx \in [Workers -> Transaction]
    BY IdleSound DEF Init
  <1>2. TypeOK
    BY <1>1, MasterDataAssumption, IdleSound DEF TypeOK, Others
  <1>3. \A w \in Workers : Sound(tx[w], life, names)
    BY <1>1, IdleSound
  <1>4. ReferencesLive
    BY <1>1, MasterDataAssumption DEF ReferencesLive, Live
  <1>5. QED
    BY <1>1, <1>2, <1>3, <1>4 DEF MasterDataInv

\* The rows stay well formed, each transaction keeps to the discipline of the
\* triggers, and every reference in use names masters in use.
THEOREM MasterDataInvariant == Spec => []MasterDataInv
  <1>1. MasterDataInv /\ [Next]_vars => MasterDataInv'
    <2> SUFFICES ASSUME MasterDataInv, [Next]_vars PROVE MasterDataInv'
      OBVIOUS
    <2>1. CASE UNCHANGED vars
      BY <2>1 DEF vars, MasterDataInv, TypeOK, ReferencesLive, Live, Others
    <2>2. CASE Next
      <3>1. PICK w \in Workers :
              Begin(w) \/ LockRow(w) \/ RequireActive(w) \/ Guard(w) \/ Commit(w) \/ Rollback(w)
        BY <2>2 DEF Next
      <3>2. CASE Begin(w)
        BY <3>2, BeginStep
      <3>3. CASE LockRow(w)
        BY <3>3, LockRowStep
      <3>4. CASE RequireActive(w)
        BY <3>4, RequireActiveStep
      <3>5. CASE Guard(w)
        BY <3>5, GuardStep
      <3>6. CASE Commit(w)
        BY <3>6, CommitStep
      <3>7. CASE Rollback(w)
        BY <3>7, RollbackStep
      <3>8. QED
        BY <3>1, <3>2, <3>3, <3>4, <3>5, <3>6, <3>7
    <2>3. QED
      BY <2>1, <2>2
  <1>2. QED
    BY InitInv, <1>1, PTL DEF Spec

\* The row locks exclude each other and every row keeps to the states of its
\* table (the locks the guard triggers of master data take).
THEOREM TypeCorrect == Spec => []TypeOK
  <1>1. MasterDataInv => TypeOK
    BY DEF MasterDataInv
  <1>2. QED
    BY <1>1, MasterDataInvariant, PTL

\* However many requests archive, restore, edit and refer at a time, whatever
\* refers to whatever, no row in use names an archived or missing master
\* (replenops_require_active_master against the scans of the archive triggers).
THEOREM ReferencesStayLive == Spec => []ReferencesLive
  <1>1. MasterDataInv => ReferencesLive
    BY DEF MasterDataInv
  <1>2. QED
    BY <1>1, MasterDataInvariant, PTL
=============================================================================
