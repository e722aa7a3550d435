--------------------------- MODULE Accounts_proofs ---------------------------
(***************************************************************************)
(* What Accounts says of tokens and of the last super administrator,       *)
(* proved for every number of workers, users, passwords and changes.  The  *)
(* bounds MaxVersion and MaxTokens are arbitrary.                          *)
(***************************************************************************)
EXTENDS Accounts, TLAPS

-----------------------------------------------------------------------------
(* The inductive invariants.                                               *)

\* An operation names an account that exists, and has seen no later version
\* of it than the one it has now.
SeenIsPast ==
  \A w \in Workers : tx[w].op # "idle" =>
    /\ tx[w].user \in Users
    /\ users[tx[w].user].exists
    /\ tx[w].seen <= users[tx[w].user].version

\* A token is of a version the account had, and if the account still has it,
\* its password and its rights are those of the token.
TokensArePast ==
  \A k \in tokens :
    /\ users[k.user].exists
    /\ k.version <= users[k.user].version
    /\ k.version = users[k.user].version =>
         k.pw = users[k.user].pw /\ k.super = users[k.user].super

AccountsInv == TypeOK /\ SeenIsPast /\ TokensArePast

\* No two restorations of one account are under way at a time.
RestoresApart ==
  \A v, w \in Workers :
    tx[v].op = "restoreById" /\ tx[w].op = "restoreById" /\ tx[v].user = tx[w].user => v = w

\* The account a restoration has read as archived is still archived.
RestoresArchived ==
  \A w \in Workers : tx[w].op = "restoreById" => users[tx[w].user].deleted

\* deleteById disables the account it archives, changePassword leaves the
\* status and the roles alone.
AsNamed(t) ==
  /\ t.op = "deleteById" => t.change.active = FALSE
  /\ t.op = "changePassword" => t.change.active = Same /\ t.change.super = Same

ChangesAsNamed == \A w \in Workers : AsNamed(tx[w])

\* A transaction whose commit would take an active super administrator away
\* has counted all accounts, and either another active one remains or the
\* transaction is the pivot of two conflicts and cannot commit.
Counted(t) ==
  t.op \in Serializable /\ users[t.user].version = t.seen /\ LosesSuper(users[t.user], t.change) =>
    /\ t.reads = Users
    /\ (\E v \in Users \ {t.user} : ActiveSuper(users[v])) \/ (t.in /\ t.out)

LosersCounted == \A w \in Workers : Counted(tx[w])

SuperInv == RestoresArchived /\ ChangesAsNamed /\ LosersCounted /\ SuperAdminRemains

-----------------------------------------------------------------------------
(* The operators of the model.                                             *)

LEMMA IdleType == Idle \in Transaction
BY AccountsAssumption DEF Idle, Transaction, OpNames, NoChange, Change

\* The changes the operations make, and what a written row looks like.
LEMMA ChangeType ==
  /\ NoChange \in Change
  /\ \A b \in BOOLEAN : /\ [NoChange EXCEPT !.active = b] \in Change
                        /\ [NoChange EXCEPT !.super = b] \in Change
  /\ \A p \in Passwords : [NoChange EXCEPT !.pw = p] \in Change
BY DEF NoChange, Change

LEMMA WrittenType ==
  ASSUME NEW x \in User, NEW c \in Change
  PROVE  /\ Written(x, c) \in User
         /\ Written(x, c).exists = x.exists
         /\ Written(x, c).deleted = x.deleted
         /\ Written(x, c).version = x.version
BY AccountsAssumption DEF Written, Assigned, User, Change

LEMMA BumpedType ==
  ASSUME NEW x \in User
  PROVE  /\ Bumped(x) \in User
         /\ Bumped(x).version = x.version + 1
         /\ Bumped(x).exists = x.exists
         /\ ActiveSuper(Bumped(x)) = ActiveSuper(x)
BY DEF Bumped, User, ActiveSuper

\* Conflicts are recorded beside the operation and do not change what it does.
LEMMA ConflictsType ==
  ASSUME NEW t \in Transaction, NEW done \in Transaction
  PROVE  /\ Conflicts(t, done) \in Transaction
         /\ Conflicts(t, done).op = t.op
         /\ Conflicts(t, done).user = t.user
         /\ Conflicts(t, done).change = t.change
         /\ Conflicts(t, done).seen = t.seen
         /\ Conflicts(t, done).reads = t.reads
         /\ Conflicts(t, done).out = (t.out \/ done.user \in t.reads)
         /\ Conflicts(t, done).in = (t.in \/ t.user \in done.reads)
BY DEF Conflicts, Transaction

-----------------------------------------------------------------------------
(* AccountsInv: one lemma for each way a step changes the state.           *)

\* A worker begins an operation, or ends one without writing.
LEMMA WorkerStep ==
  ASSUME AccountsInv, NEW w \in Workers, NEW t \in Transaction,
         tx' = [tx EXCEPT ![w] = t], UNCHANGED <<users, tokens>>,
         t.op # "idle" => /\ t.user \in Users
                          /\ users[t.user].exists
                          /\ t.seen <= users[t.user].version
  PROVE  AccountsInv'
<1>1. TypeOK'
  BY DEF AccountsInv, TypeOK
<1>2. SeenIsPast'
  BY DEF AccountsInv, TypeOK, SeenIsPast
<1>3. TokensArePast'
  BY DEF AccountsInv, TokensArePast
<1>4. QED
  BY <1>1, <1>2, <1>3 DEF AccountsInv

\* The row of an account that exists is written, with its version incremented;
\* open operations go on, with what they have read, or end.
LEMMA WriteStep ==
  ASSUME AccountsInv, NEW u \in Users, NEW x \in User, users[u].exists, x.exists,
         x.version = users[u].version + 1,
         users' = [users EXCEPT ![u] = x], UNCHANGED tokens,
         tx' \in [Workers -> Transaction],
         \A w \in Workers : tx'[w].op # "idle" =>
           tx'[w].op = tx[w].op /\ tx'[w].user = tx[w].user /\ tx'[w].seen = tx[w].seen
  PROVE  AccountsInv'
<1>1. TypeOK'
  BY DEF AccountsInv, TypeOK
<1>2. \A v \in Users : /\ users'[v] = IF v = u THEN x ELSE users[v]
                       /\ users[v].version \in Nat
                       /\ users[v].version <= users'[v].version
                       /\ users[v].exists => users'[v].exists
  BY DEF AccountsInv, TypeOK, User
<1>3. SeenIsPast'
  <2> SUFFICES ASSUME NEW w \in Workers, tx'[w].op # "idle"
               PROVE  /\ tx'[w].user \in Users
                      /\ users'[tx'[w].user].exists
                      /\ tx'[w].seen <= users'[tx'[w].user].version
    BY DEF SeenIsPast
  <2>1. tx[w].user \in Users /\ users[tx[w].user].exists
        /\ tx[w].seen <= users[tx[w].user].version /\ tx[w].seen \in Nat
    BY DEF AccountsInv, TypeOK, SeenIsPast, Transaction
  <2>2. users[tx[w].user].version \in Nat /\ users'[tx[w].user].version \in Nat
    BY <2>1, <1>1 DEF AccountsInv, TypeOK, User
  <2>3. QED
    BY <1>2, <2>1, <2>2
<1>4. TokensArePast'
  <2> SUFFICES ASSUME NEW k \in tokens
               PROVE  /\ users'[k.user].exists
                      /\ k.version <= users'[k.user].version
                      /\ k.version = users'[k.user].version =>
                           k.pw = users'[k.user].pw /\ k.super = users'[k.user].super
    BY DEF TokensArePast
  <2>1. k.user \in Users /\ k.version \in Nat /\ users[k.user].exists
        /\ k.version <= users[k.user].version
        /\ (k.version = users[k.user].version =>
              k.pw = users[k.user].pw /\ k.super = users[k.user].super)
    BY DEF AccountsInv, TypeOK, Token, TokensArePast
  <2>2. users[k.user].version \in Nat /\ users'[k.user].version \in Nat
    BY <2>1, <1>1 DEF AccountsInv, TypeOK, User
  <2>3. CASE k.user = u
    BY <1>2, <2>1, <2>2, <2>3
  <2>4. CASE k.user # u
    BY <1>2, <2>1, <2>4
  <2>5. QED
    BY <2>3, <2>4
<1>5. QED
  BY <1>1, <1>3, <1>4 DEF AccountsInv

\* Commit of a serializable transaction.
LEMMA CommitKeeps ==
  ASSUME AccountsInv, NEW w \in Workers, Commit(w)
  PROVE  AccountsInv'
<1> DEFINE t == tx[w]
           u == t.user
           x == Result(users[u], t)
<1>1. t \in Transaction /\ t.op # "idle" /\ t.change \in Change
  BY DEF AccountsInv, TypeOK, Commit, Serializable, Transaction
<1>2. u \in Users /\ users[u] \in User /\ users[u].exists
  BY <1>1 DEF AccountsInv, TypeOK, SeenIsPast
<1>3. x \in User /\ x.exists = users[u].exists /\ x.version = users[u].version
  BY <1>1, <1>2, WrittenType DEF Result, User
<1>4. Bumped(x) \in User /\ Bumped(x).version = users[u].version + 1 /\ Bumped(x).exists
  BY <1>2, <1>3, BumpedType
<1>5. \A v \in Workers : /\ tx'[v] \in Transaction
                         /\ tx'[v].op # "idle" =>
                              /\ tx'[v].op = tx[v].op
                              /\ tx'[v].user = tx[v].user
                              /\ tx'[v].seen = tx[v].seen
  <2> SUFFICES ASSUME NEW v \in Workers
               PROVE  /\ tx'[v] \in Transaction
                      /\ tx'[v].op # "idle" =>
                              /\ tx'[v].op = tx[v].op
                              /\ tx'[v].user = tx[v].user
                              /\ tx'[v].seen = tx[v].seen
    OBVIOUS
  <2>1. tx[v] \in Transaction
    BY DEF AccountsInv, TypeOK
  <2>2. tx'[v] = IF v = w THEN Idle
                 ELSE IF tx[v].op \in Serializable THEN Conflicts(tx[v], t) ELSE tx[v]
    BY DEF Commit
  <2>3. QED
    BY <2>1, <2>2, <1>1, IdleType, ConflictsType DEF Idle
<1>6. tx' \in [Workers -> Transaction]
  BY <1>5 DEF Commit
<1>7. users' = [users EXCEPT ![u] = Bumped(x)] /\ UNCHANGED tokens
  BY DEF Commit
<1>8. QED
  BY <1>2, <1>4, <1>5, <1>6, <1>7, WriteStep

\* The three other updates of one row: the worker ends its operation, or had none.
LEMMA UpdateKeeps ==
  ASSUME AccountsInv, NEW w \in Workers, NEW u \in Users,
         AddRole(w, u) \/ RestoreCommit(w) \/ PasswordCommit(w)
  PROVE  AccountsInv'
<1>1. ASSUME NEW y \in Users, NEW x \in User, users[y].exists,
             x.version = users[y].version /\ x.exists = users[y].exists,
             users' = [users EXCEPT ![y] = Bumped(x)], UNCHANGED tokens,
             tx' = tx \/ tx' = [tx EXCEPT ![w] = Idle]
      PROVE  AccountsInv'
  <2>1. tx' \in [Workers -> Transaction]
    BY <1>1, IdleType DEF AccountsInv, TypeOK
  <2>2. \A v \in Workers : tx'[v].op # "idle" => tx'[v] = tx[v]
    BY <1>1, IdleType DEF AccountsInv, TypeOK, Idle
  <2>3. Bumped(x) \in User /\ Bumped(x).version = users[y].version + 1 /\ Bumped(x).exists
    BY <1>1, BumpedType
  <2>4. QED
    BY <1>1, <2>1, <2>2, <2>3, WriteStep
<1>2. CASE AddRole(w, u)
  <2>1. users[u] \in User
    BY DEF AccountsInv, TypeOK
  <2> DEFINE x == [users[u] EXCEPT !.super = TRUE]
  <2>2. x \in User /\ x.version = users[u].version /\ x.exists = users[u].exists
    BY <2>1 DEF User
  <2>3. users' = [users EXCEPT ![u] = Bumped(x)] /\ UNCHANGED <<tx, tokens>> /\ users[u].exists
    BY <1>2 DEF AddRole
  <2>4. QED
    BY <1>1, <2>2, <2>3
<1>3. ASSUME tx[w].op \in {"restoreById", "changePassword"}
      PROVE  /\ tx[w].user \in Users /\ users[tx[w].user] \in User /\ users[tx[w].user].exists
             /\ tx[w].change \in Change
  BY <1>3 DEF AccountsInv, TypeOK, SeenIsPast, Transaction
<1>4. CASE RestoreCommit(w)
  <2> DEFINE y == tx[w].user
             x == [Written(users[y], tx[w].change) EXCEPT !.deleted = FALSE, !.active = FALSE]
  <2>1. y \in Users /\ users[y] \in User /\ users[y].exists /\ tx[w].change \in Change
    BY <1>3, <1>4 DEF RestoreCommit
  <2>2. x \in User /\ x.version = users[y].version /\ x.exists = users[y].exists
    <3>1. Written(users[y], tx[w].change) \in User
      BY <2>1, WrittenType
    <3>2. \A z \in User : LET r == [z EXCEPT !.deleted = FALSE, !.active = FALSE]
                        IN  r \in User /\ r.version = z.version /\ r.exists = z.exists
      BY DEF User
    <3>3. QED
      BY <2>1, <3>1, <3>2, WrittenType
  <2>3. users' = [users EXCEPT ![y] = Bumped(x)] /\ tx' = [tx EXCEPT ![w] = Idle]
        /\ UNCHANGED tokens
    BY <1>4 DEF RestoreCommit
  <2>4. QED
    BY <1>1, <2>1, <2>2, <2>3
<1>5. CASE PasswordCommit(w)
  <2> DEFINE y == tx[w].user
             x == Written(users[y], tx[w].change)
  <2>1. y \in Users /\ users[y] \in User /\ users[y].exists /\ tx[w].change \in Change
    BY <1>3, <1>5 DEF PasswordCommit
  <2>2. x \in User /\ x.version = users[y].version /\ x.exists = users[y].exists
    BY <2>1, WrittenType DEF User
  <2>3. users' = [users EXCEPT ![y] = Bumped(x)] /\ tx' = [tx EXCEPT ![w] = Idle]
        /\ UNCHANGED tokens
    BY <1>5 DEF PasswordCommit
  <2>4. QED
    BY <1>1, <2>1, <2>2, <2>3
<1>6. QED
  BY <1>2, <1>4, <1>5

\* A new account: nothing that is open and no token names it.
LEMMA CreateKeeps ==
  ASSUME AccountsInv, NEW w \in Workers, NEW u \in Users, Create(w, u)
  PROVE  AccountsInv'
<1>1. PICK b \in BOOLEAN :
        users' = [users EXCEPT ![u] = [exists |-> TRUE, active |-> TRUE, deleted |-> FALSE,
                                       super |-> b, version |-> 0, pw |-> FirstPassword]]
  BY DEF Create
<1>2. TypeOK'
  BY <1>1, AccountsAssumption DEF AccountsInv, TypeOK, Create, User
<1>3. \A v \in Users : users[v].exists => users'[v] = users[v]
  BY <1>1 DEF Create, AccountsInv, TypeOK
<1>4. SeenIsPast'
  BY <1>3 DEF Create, AccountsInv, SeenIsPast
<1>5. TokensArePast'
  BY <1>3 DEF Create, AccountsInv, TypeOK, Token, TokensArePast
<1>6. QED
  BY <1>2, <1>4, <1>5 DEF AccountsInv

\* The statements and requests that write no account.
LEMMA BeginKeeps ==
  ASSUME AccountsInv, NEW w \in Workers, NEW u \in Users,
         Update(w, u) \/ DeleteById(w, u) \/ SetRoles(w, u) \/ RemoveRole(w, u)
           \/ RestoreRead(w, u) \/ PasswordRead(w, u) \/ Rollback(w)
  PROVE  AccountsInv'
<1>1. users[u] \in User
  BY DEF AccountsInv, TypeOK
<1>2. ASSUME NEW op \in OpNames, NEW c \in Change, Start(w, op, u, c)
      PROVE  AccountsInv'
  <2> DEFINE t == [Idle EXCEPT !.op = op, !.user = u, !.change = c, !.seen = users[u].version,
                               !.reads = IF LosesSuper(users[u], c) THEN Users ELSE {u}]
  <2>1. t \in Transaction /\ t.user = u /\ t.seen = users[u].version
    BY <1>1, <1>2, IdleType DEF Transaction, User, Idle
  <2>2. tx' = [tx EXCEPT ![w] = t] /\ users[u].exists /\ UNCHANGED <<users, tokens>>
    BY <1>2 DEF Start
  <2>3. t.seen <= users[u].version
    BY <1>1, <2>1 DEF User
  <2>4. QED
    BY <2>1, <2>2, <2>3, WorkerStep
<1>4. CASE Update(w, u)
  BY <1>2, <1>4, ChangesAssumption DEF Update, OpNames
<1>5. CASE DeleteById(w, u)
  BY <1>2, <1>5, ChangeType DEF DeleteById, OpNames
<1>6. CASE SetRoles(w, u)
  BY <1>2, <1>6, ChangeType DEF SetRoles, OpNames
<1>7. CASE RemoveRole(w, u)
  BY <1>2, <1>7, ChangeType DEF RemoveRole, OpNames
<1>8. CASE RestoreRead(w, u)
  <2>1. PICK p \in Passwords :
          tx' = [tx EXCEPT ![w] = [Idle EXCEPT !.op = "restoreById", !.user = u,
                                               !.change = [NoChange EXCEPT !.pw = p]]]
    BY <1>8 DEF RestoreRead
  <2> DEFINE t == [Idle EXCEPT !.op = "restoreById", !.user = u,
                               !.change = [NoChange EXCEPT !.pw = p]]
  <2>2. t \in Transaction /\ t.user = u /\ t.seen = 0
    BY IdleType, ChangeType DEF Transaction, Idle, OpNames
  <2>3. t.seen <= users[u].version
    BY <1>1, <2>2 DEF User
  <2>4. QED
    BY <1>8, <2>1, <2>2, <2>3, WorkerStep DEF RestoreRead
<1>9. CASE PasswordRead(w, u)
  <2>1. PICK p \in Passwords :
          tx' = [tx EXCEPT ![w] = [Idle EXCEPT !.op = "changePassword", !.user = u,
                                               !.seen = users[u].version,
                                               !.change = [NoChange EXCEPT !.pw = p]]]
    BY <1>9 DEF PasswordRead
  <2> DEFINE t == [Idle EXCEPT !.op = "changePassword", !.user = u,
                               !.seen = users[u].version,
                               !.change = [NoChange EXCEPT !.pw = p]]
  <2>2. t \in Transaction /\ t.user = u /\ t.seen = users[u].version
    BY <1>1, IdleType, ChangeType DEF Transaction, Idle, OpNames, User
  <2>3. t.seen <= users[u].version
    BY <1>1, <2>2 DEF User
  <2>4. QED
    BY <1>9, <2>1, <2>2, <2>3, WorkerStep DEF PasswordRead
<1>10. CASE Rollback(w)
  BY <1>10, IdleType, WorkerStep DEF Rollback, Idle
<1>11. QED
  BY <1>4, <1>5, <1>6, <1>7, <1>8, <1>9, <1>10

\* A token is issued for the row as it is.
LEMMA SignInKeeps ==
  ASSUME AccountsInv, NEW u \in Users, SignIn(u)
  PROVE  AccountsInv'
<1> DEFINE k == [user |-> u, version |-> users[u].version, pw |-> users[u].pw,
                 super |-> users[u].super]
<1>1. users[u] \in User
  BY DEF AccountsInv, TypeOK
<1>2. k \in Token /\ k.version <= users[k.user].version
  BY <1>1 DEF Token, User
<1>3. tokens' = tokens \cup {k} /\ UNCHANGED <<users, tx>> /\ users[u].exists
  BY DEF SignIn
<1>4. TypeOK'
  BY <1>2, <1>3 DEF AccountsInv, TypeOK
<1>5. SeenIsPast'
  BY <1>3 DEF AccountsInv, SeenIsPast
<1>6. TokensArePast'
  BY <1>2, <1>3 DEF AccountsInv, TokensArePast
<1>7. QED
  BY <1>4, <1>5, <1>6 DEF AccountsInv

LEMMA AccountsInit == Init => AccountsInv
BY IdleType, AccountsAssumption
   DEF Init, AccountsInv, TypeOK, SeenIsPast, TokensArePast, User, Idle

LEMMA AccountsNext == AccountsInv /\ [Next]_vars => AccountsInv'
<1> SUFFICES ASSUME AccountsInv, [Next]_vars
             PROVE  AccountsInv'
  OBVIOUS
<1>1. CASE UNCHANGED vars
  BY <1>1 DEF vars, AccountsInv, TypeOK, SeenIsPast, TokensArePast
<1>2. ASSUME NEW w \in Workers, Step(w)
      PROVE  AccountsInv'
  <2>1. ASSUME NEW u \in Users,
               Update(w, u) \/ DeleteById(w, u) \/ SetRoles(w, u) \/ RemoveRole(w, u)
                 \/ Create(w, u) \/ AddRole(w, u) \/ RestoreRead(w, u) \/ PasswordRead(w, u)
        PROVE  AccountsInv'
    BY <2>1, BeginKeeps, CreateKeeps, UpdateKeeps
  <2>2. CASE Commit(w)
    BY <2>2, CommitKeeps
  <2>3. CASE RestoreCommit(w) \/ PasswordCommit(w) \/ Rollback(w)
    BY <2>3, AccountsAssumption, UpdateKeeps, BeginKeeps
  <2>4. QED
    BY <1>2, <2>1, <2>2, <2>3 DEF Step
<1>3. ASSUME NEW u \in Users, SignIn(u)
      PROVE  AccountsInv'
  BY <1>3, SignInKeeps
<1>4. QED
  BY <1>1, <1>2, <1>3 DEF Next

THEOREM AccountsInvariant == Spec => []AccountsInv
BY AccountsInit, AccountsNext, PTL DEF Spec

\* Rows, operations and tokens keep their shape: no interleaving of updates
\* writes a row or leaves a transaction the code has no name for.
THEOREM TypeCorrect == Spec => []TypeOK
<1>1. AccountsInv => TypeOK
  BY DEF AccountsInv
<1>2. QED
  BY AccountsInvariant, <1>1, PTL

\* A session token that sessionMatchesClaims still accepts was given for the
\* password and the rights the account has now, whichever operations of
\* UserService overlapped.
THEOREM TokensCurrent == Spec => []TokensAreCurrent
<1>1. AccountsInv => TokensAreCurrent
  BY DEF AccountsInv, TokensArePast, TokensAreCurrent, Accepted
<1>2. QED
  BY AccountsInvariant, <1>1, PTL

-----------------------------------------------------------------------------
(* SuperInv, as long as no two restorations of one account overlap.        *)

\* A worker begins an operation, or ends one without writing.
LEMMA SuperWorkerStep ==
  ASSUME AccountsInv, SuperInv, NEW w \in Workers, NEW t, Counted(t),
         tx' = [tx EXCEPT ![w] = t], UNCHANGED users,
         t.op = "restoreById" => users[t.user].deleted, AsNamed(t)
  PROVE  SuperInv'
<1>1. \A v \in Workers : tx'[v] = IF v = w THEN t ELSE tx[v]
  BY DEF AccountsInv, TypeOK
<1>2. RestoresArchived' /\ ChangesAsNamed'
  BY <1>1 DEF SuperInv, RestoresArchived, ChangesAsNamed, AsNamed
<1>3. LosersCounted'
  BY <1>1 DEF SuperInv, LosersCounted, Counted, LosesSuper, ActiveSuper
<1>4. SuperAdminRemains'
  BY DEF SuperInv, SuperAdminRemains, ActiveSuper
<1>5. QED
  BY <1>2, <1>3, <1>4 DEF SuperInv

\* An account is written that is not an active super administrator before, or
\* still is one afterwards.
LEMMA SuperWriteStep ==
  ASSUME AccountsInv, SuperInv, NEW y \in Users, NEW x,
         users' = [users EXCEPT ![y] = x],
         ActiveSuper(users[y]) => ActiveSuper(x),
         users[y].exists => x.version = users[y].version + 1,
         \A v \in Workers : tx'[v] = tx[v] \/ tx'[v] = Idle,
         \A v \in Workers : tx'[v].op = "restoreById" /\ tx'[v].user = y => x.deleted
  PROVE  SuperInv'
<1>1. \A u \in Users : users'[u] = IF u = y THEN x ELSE users[u]
  BY DEF AccountsInv, TypeOK
<1>2. \A u \in Users : ActiveSuper(users[u]) => ActiveSuper(users'[u])
  BY <1>1
<1>3. SuperAdminRemains'
  BY <1>2 DEF SuperInv, SuperAdminRemains, ActiveSuper
<1>4. ASSUME NEW v \in Workers, tx'[v].op # "idle"
      PROVE  tx'[v] = tx[v] /\ tx[v].user \in Users /\ users[tx[v].user].exists
             /\ tx[v].seen <= users[tx[v].user].version
             /\ tx[v].seen \in Nat /\ users[tx[v].user].version \in Nat
  <2>1. tx'[v] = tx[v]
    BY <1>4 DEF Idle
  <2>2. tx[v].user \in Users /\ users[tx[v].user].exists
        /\ tx[v].seen <= users[tx[v].user].version
    BY <1>4, <2>1 DEF AccountsInv, SeenIsPast
  <2>3. QED
    BY <2>1, <2>2 DEF AccountsInv, TypeOK, Transaction, User
<1>5. RestoresArchived'
  <2> SUFFICES ASSUME NEW v \in Workers, tx'[v].op = "restoreById"
               PROVE  users'[tx'[v].user].deleted
    BY DEF RestoresArchived
  <2>1. users[tx[v].user].deleted
    BY <1>4 DEF SuperInv, RestoresArchived
  <2>2. QED
    BY <1>1, <1>4, <2>1
<1>6. ChangesAsNamed'
  BY <1>4 DEF SuperInv, ChangesAsNamed, AsNamed, Idle
<1>7. LosersCounted'
  <2> SUFFICES ASSUME NEW v \in Workers, tx'[v].op \in Serializable,
                      users'[tx'[v].user].version = tx'[v].seen,
                      LosesSuper(users'[tx'[v].user], tx'[v].change)
               PROVE  /\ tx'[v].reads = Users
                      /\ \/ \E u \in Users \ {tx'[v].user} : ActiveSuper(users'[u])
                         \/ tx'[v].in /\ tx'[v].out
    BY DEF LosersCounted, Counted, LosesSuper, ActiveSuper
  <2>1. tx'[v].op # "idle"
    BY DEF Serializable
  <2>2. tx[v].user # y
    BY <1>1, <1>4, <2>1
  <2>3. users'[tx[v].user] = users[tx[v].user]
    BY <1>1, <1>4, <2>1, <2>2
  <2>4. Counted(tx[v])
    BY DEF SuperInv, LosersCounted
  <2>5. QED
    BY <1>2, <1>4, <2>1, <2>3, <2>4 DEF Counted
<1>8. QED
  BY <1>3, <1>5, <1>6, <1>7 DEF SuperInv

\* A serializable transaction commits: it leaves another active super
\* administrator, and those who counted the one it took away become pivots.
LEMMA CommitKeepsSuper ==
  ASSUME AccountsInv, SuperInv, NEW w \in Workers, Commit(w)
  PROVE  SuperInv'
<1> DEFINE t == tx[w]
           u == t.user
           x == Result(users[u], t)
<1>1. t \in Transaction /\ t.op # "idle" /\ t.change \in Change
  BY DEF AccountsInv, TypeOK, Commit, Serializable, Transaction
<1>2. u \in Users /\ users[u] \in User /\ users[u].exists
  BY <1>1 DEF AccountsInv, TypeOK, SeenIsPast
<1>3. /\ t.op \in Serializable /\ users[u].version = t.seen /\ ~(t.in /\ t.out)
      /\ users' = [users EXCEPT ![u] = Bumped(x)]
      /\ \A v \in Workers : tx'[v] = IF v = w THEN Idle
                                     ELSE IF tx[v].op \in Serializable THEN Conflicts(tx[v], t)
                                     ELSE tx[v]
  BY DEF Commit
<1>4. x \in User /\ x.version = users[u].version /\ (users[u].deleted => x.deleted)
  BY <1>1, <1>2, WrittenType DEF Result, User
<1>5. /\ \A v \in Users : users'[v] = IF v = u THEN Bumped(x) ELSE users[v]
      /\ Bumped(x).version = users[u].version + 1
      /\ users[u].version \in Nat
      /\ ActiveSuper(Bumped(x)) = ActiveSuper(x)
      /\ Bumped(x).deleted = x.deleted
  BY <1>2, <1>3, <1>4, BumpedType DEF AccountsInv, TypeOK, User, Bumped
<1>6. ActiveSuper(users[u]) /\ ~ActiveSuper(x) => LosesSuper(users[u], t.change)
  <2>1. CASE t.op = "deleteById"
    <3>1. t.change.active = FALSE
      BY <2>1 DEF SuperInv, ChangesAsNamed, AsNamed
    <3>2. Written(users[u], t.change).active = FALSE
      BY <1>2, <3>1, AccountsAssumption DEF Written, Assigned, User
    <3>3. QED
      BY <3>2 DEF LosesSuper, ActiveSuper
  <2>2. CASE t.op # "deleteById"
    BY <2>2 DEF LosesSuper, Result
  <2>3. QED
    BY <2>1, <2>2
<1>7. ActiveSuper(users[u]) /\ ~ActiveSuper(x) =>
        t.reads = Users /\ \E v \in Users \ {u} : ActiveSuper(users[v])
  BY <1>3, <1>6 DEF SuperInv, LosersCounted, Counted
<1>8. SuperAdminRemains'
  <2>1. \E v \in Users : ActiveSuper(users'[v])
    BY <1>2, <1>5, <1>7 DEF SuperInv, SuperAdminRemains
  <2>2. QED
    BY <2>1 DEF SuperAdminRemains, ActiveSuper
<1>9. ASSUME NEW v \in Workers, tx'[v].op # "idle"
      PROVE  /\ v # w
             /\ tx[v] \in Transaction
             /\ tx'[v].op = tx[v].op /\ tx'[v].user = tx[v].user
             /\ tx'[v].change = tx[v].change /\ tx'[v].seen = tx[v].seen
             /\ tx'[v].reads = tx[v].reads
             /\ tx[v].user \in Users
             /\ tx[v].seen <= users[tx[v].user].version
             /\ tx[v].seen \in Nat /\ users[tx[v].user].version \in Nat
             /\ tx[v].op \in Serializable =>
                  /\ tx'[v].out = (tx[v].out \/ u \in tx[v].reads)
                  /\ tx'[v].in = (tx[v].in \/ tx[v].user \in t.reads)
  <2>1. v # w
    BY <1>3, <1>9 DEF Idle
  <2>2. tx[v] \in Transaction
    BY DEF AccountsInv, TypeOK
  <2>3. /\ tx'[v].op = tx[v].op /\ tx'[v].user = tx[v].user
        /\ tx'[v].change = tx[v].change /\ tx'[v].seen = tx[v].seen
        /\ tx'[v].reads = tx[v].reads
    BY <1>1, <1>3, <2>1, <2>2, ConflictsType
  <2>4. tx[v].user \in Users /\ tx[v].seen <= users[tx[v].user].version
    BY <1>9, <2>3 DEF AccountsInv, SeenIsPast
  <2>5. tx[v].seen \in Nat /\ users[tx[v].user].version \in Nat
    BY <2>2, <2>4 DEF AccountsInv, TypeOK, Transaction, User
  <2>6. tx[v].op \in Serializable =>
                  /\ tx'[v].out = (tx[v].out \/ u \in tx[v].reads)
                  /\ tx'[v].in = (tx[v].in \/ tx[v].user \in t.reads)
    BY <1>1, <1>3, <2>1, <2>2, ConflictsType
  <2>7. QED
    BY <2>1, <2>2, <2>3, <2>4, <2>5, <2>6
<1>10. RestoresArchived'
  <2> SUFFICES ASSUME NEW v \in Workers, tx'[v].op = "restoreById"
               PROVE  users'[tx'[v].user].deleted
    BY DEF RestoresArchived
  <2>1. users[tx[v].user].deleted /\ tx'[v].user = tx[v].user /\ tx[v].user \in Users
    BY <1>9 DEF SuperInv, RestoresArchived
  <2>2. QED
    BY <1>4, <1>5, <2>1
<1>11. ChangesAsNamed'
  BY <1>9 DEF SuperInv, ChangesAsNamed, AsNamed
<1>12. LosersCounted'
  <2> SUFFICES ASSUME NEW v \in Workers, tx'[v].op \in Serializable,
                      users'[tx'[v].user].version = tx'[v].seen,
                      LosesSuper(users'[tx'[v].user], tx'[v].change)
               PROVE  /\ tx'[v].reads = Users
                      /\ \/ \E y \in Users \ {tx'[v].user} : ActiveSuper(users'[y])
                         \/ tx'[v].in /\ tx'[v].out
    BY DEF LosersCounted, Counted, LosesSuper, ActiveSuper
  <2>1. tx'[v].op # "idle"
    BY DEF Serializable
  <2>2. tx[v].user # u
    BY <1>5, <1>9, <2>1
  <2>3. users'[tx[v].user] = users[tx[v].user]
    BY <1>5, <1>9, <2>1, <2>2
  <2>4. /\ tx[v].reads = Users
        /\ \/ \E y \in Users \ {tx[v].user} : ActiveSuper(users[y])
           \/ tx[v].in /\ tx[v].out
    BY <1>9, <2>1, <2>3 DEF SuperInv, LosersCounted, Counted
  <2>5. CASE ActiveSuper(users[u]) /\ ~ActiveSuper(x)
    BY <1>2, <1>7, <1>9, <2>1, <2>4, <2>5
  <2>6. CASE ActiveSuper(users[u]) => ActiveSuper(x)
    BY <1>5, <1>9, <2>1, <2>4, <2>6
  <2>7. QED
    BY <2>5, <2>6
<1>13. QED
  BY <1>8, <1>10, <1>11, <1>12 DEF SuperInv

LEMMA SuperInit == Init => SuperInv
<1> SUFFICES ASSUME Init
             PROVE  SuperInv
  OBVIOUS
<1>1. \A w \in Workers : tx[w].op = "idle"
  BY DEF Init, Idle
<1>2. SuperAdminRemains
  <2>1. PICK u \in Founders : TRUE
    BY AccountsAssumption
  <2>2. u \in Users /\ ActiveSuper(users[u])
    BY AccountsAssumption DEF Init, ActiveSuper
  <2>3. QED
    BY <2>2 DEF SuperAdminRemains
<1>3. QED
  BY <1>1, <1>2 DEF SuperInv, RestoresArchived, ChangesAsNamed, AsNamed, LosersCounted, Counted,
     Serializable

\* The statements that write no account.
LEMMA BeginKeepsSuper ==
  ASSUME AccountsInv, SuperInv, NEW w \in Workers, NEW u \in Users,
         Update(w, u) \/ DeleteById(w, u) \/ SetRoles(w, u) \/ RemoveRole(w, u)
           \/ RestoreRead(w, u) \/ PasswordRead(w, u) \/ Rollback(w)
  PROVE  SuperInv'
<1>1. ASSUME NEW op \in Serializable, NEW c, Start(w, op, u, c),
             op = "deleteById" => c.active = FALSE
      PROVE  SuperInv'
  <2> DEFINE t == [Idle EXCEPT !.op = op, !.user = u, !.change = c, !.seen = users[u].version,
                               !.reads = IF LosesSuper(users[u], c) THEN Users ELSE {u}]
  <2>1. /\ t.op = op /\ t.user = u /\ t.change = c
        /\ LosesSuper(users[u], c) => t.reads = Users
    BY DEF Idle
  <2>2. tx' = [tx EXCEPT ![w] = t] /\ UNCHANGED users /\ Continuity(u, c)
    BY <1>1 DEF Start
  <2>3. Counted(t)
    BY <2>1, <2>2 DEF Counted, Continuity
  <2>4. t.op # "restoreById" /\ AsNamed(t)
    BY <1>1, <2>1 DEF Serializable, AsNamed
  <2>5. QED
    BY <1>1, <2>1, <2>2, <2>3, <2>4, SuperWorkerStep
<1>2. ASSUME NEW t, t.op \notin Serializable, t.op = "restoreById" => users[t.user].deleted,
             AsNamed(t), tx' = [tx EXCEPT ![w] = t], UNCHANGED users
      PROVE  SuperInv'
  <2>1. Counted(t)
    BY <1>2 DEF Counted
  <2>2. QED
    BY <1>2, <2>1, SuperWorkerStep
<1>3. CASE Update(w, u)
  BY <1>1, <1>3 DEF Update, Serializable
<1>4. CASE DeleteById(w, u)
  <2>1. [NoChange EXCEPT !.active = FALSE].active = FALSE
    BY DEF NoChange
  <2>2. QED
    BY <1>1, <1>4, <2>1 DEF DeleteById, Serializable
<1>5. CASE SetRoles(w, u)
  BY <1>1, <1>5 DEF SetRoles, Serializable
<1>6. CASE RemoveRole(w, u)
  BY <1>1, <1>6 DEF RemoveRole, Serializable
<1>7. CASE RestoreRead(w, u)
  <2>1. PICK p \in Passwords :
          tx' = [tx EXCEPT ![w] = [Idle EXCEPT !.op = "restoreById", !.user = u,
                                               !.change = [NoChange EXCEPT !.pw = p]]]
    BY <1>7 DEF RestoreRead
  <2> DEFINE t == [Idle EXCEPT !.op = "restoreById", !.user = u,
                               !.change = [NoChange EXCEPT !.pw = p]]
  <2>2. t.op = "restoreById" /\ t.user = u
    BY DEF Idle
  <2>3. t.op \notin Serializable /\ AsNamed(t)
    BY <2>2 DEF Serializable, AsNamed
  <2>4. users[u].deleted /\ UNCHANGED users
    BY <1>7 DEF RestoreRead
  <2>5. QED
    BY <1>2, <2>1, <2>2, <2>3, <2>4
<1>8. CASE PasswordRead(w, u)
  <2>1. PICK p \in Passwords :
          tx' = [tx EXCEPT ![w] = [Idle EXCEPT !.op = "changePassword", !.user = u,
                                               !.seen = users[u].version,
                                               !.change = [NoChange EXCEPT !.pw = p]]]
    BY <1>8 DEF PasswordRead
  <2> DEFINE t == [Idle EXCEPT !.op = "changePassword", !.user = u,
                               !.seen = users[u].version,
                               !.change = [NoChange EXCEPT !.pw = p]]
  <2>2. t.op = "changePassword" /\ t.change.active = Same /\ t.change.super = Same
    BY DEF Idle, NoChange
  <2>3. t.op \notin Serializable /\ t.op # "restoreById" /\ AsNamed(t)
    BY <2>2 DEF Serializable, AsNamed
  <2>4. UNCHANGED users
    BY <1>8 DEF PasswordRead
  <2>5. QED
    BY <1>2, <2>1, <2>3, <2>4
<1>9. CASE Rollback(w)
  <2>1. Idle.op = "idle"
    BY DEF Idle
  <2>2. QED
    BY <1>2, <1>9, <2>1 DEF Rollback, Serializable, AsNamed
<1>10. QED
  BY <1>3, <1>4, <1>5, <1>6, <1>7, <1>8, <1>9

\* The writes at READ COMMITTED take no active super administrator away: a
\* restoration writes a row that is still archived.
LEMMA UpdateKeepsSuper ==
  ASSUME AccountsInv, SuperInv, RestoresApart, NEW w \in Workers, NEW u \in Users,
         Create(w, u) \/ AddRole(w, u) \/ RestoreCommit(w) \/ PasswordCommit(w)
  PROVE  SuperInv'
<1>1. \A y \in Users : users[y] \in User
  BY DEF AccountsInv, TypeOK
<1>2. CASE Create(w, u)
  <2>1. PICK b \in BOOLEAN :
          users' = [users EXCEPT ![u] = [exists |-> TRUE, active |-> TRUE, deleted |-> FALSE,
                                         super |-> b, version |-> 0, pw |-> FirstPassword]]
    BY <1>2 DEF Create
  <2>2. ~users[u].exists /\ ~ActiveSuper(users[u]) /\ UNCHANGED tx
    BY <1>2 DEF Create, ActiveSuper
  <2>3. \A v \in Workers : ~(tx[v].op = "restoreById" /\ tx[v].user = u)
    BY <2>2 DEF AccountsInv, SeenIsPast
  <2>4. QED
    BY <2>1, <2>2, <2>3, SuperWriteStep
<1>3. CASE AddRole(w, u)
  <2> DEFINE x == [users[u] EXCEPT !.super = TRUE]
  <2>1. x \in User /\ x.version = users[u].version /\ x.deleted = users[u].deleted
        /\ (ActiveSuper(users[u]) => ActiveSuper(x))
    BY <1>1 DEF User, ActiveSuper
  <2>2. /\ Bumped(x).version = users[u].version + 1
        /\ Bumped(x).deleted = users[u].deleted
        /\ ActiveSuper(users[u]) => ActiveSuper(Bumped(x))
    BY <2>1, BumpedType DEF Bumped, User
  <2>3. users' = [users EXCEPT ![u] = Bumped(x)] /\ UNCHANGED tx
    BY <1>3 DEF AddRole
  <2>4. \A v \in Workers : tx'[v].op = "restoreById" /\ tx'[v].user = u => Bumped(x).deleted
    BY <2>2, <2>3 DEF SuperInv, RestoresArchived
  <2>5. QED
    BY <2>2, <2>3, <2>4, SuperWriteStep
<1>4. ASSUME tx[w].op \in {"restoreById", "changePassword"}
      PROVE  /\ tx[w].user \in Users /\ users[tx[w].user] \in User /\ users[tx[w].user].exists
             /\ tx[w].change \in Change
  BY <1>4 DEF AccountsInv, TypeOK, SeenIsPast, Transaction
<1>5. CASE RestoreCommit(w)
  <2> DEFINE y == tx[w].user
             z == Written(users[y], tx[w].change)
             x == [z EXCEPT !.deleted = FALSE, !.active = FALSE]
  <2>1. y \in Users /\ users[y] \in User /\ tx[w].change \in Change
        /\ tx[w].op = "restoreById"
    BY <1>4, <1>5 DEF RestoreCommit
  <2>2. ~ActiveSuper(users[y])
    BY <2>1 DEF SuperInv, RestoresArchived, ActiveSuper
  <2>3. z \in User /\ z.version = users[y].version
    BY <2>1, WrittenType
  <2>4. \A r \in User : LET s == [r EXCEPT !.deleted = FALSE, !.active = FALSE]
                        IN  s \in User /\ s.version = r.version
    BY DEF User
  <2>5. Bumped(x).version = users[y].version + 1
    <3>1. x \in User /\ x.version = users[y].version
      BY <2>3, <2>4
    <3>2. QED
      BY <3>1, BumpedType
  <2>6. users' = [users EXCEPT ![y] = Bumped(x)] /\ tx' = [tx EXCEPT ![w] = Idle]
    BY <1>5 DEF RestoreCommit
  <2>7. \A v \in Workers : tx'[v] = IF v = w THEN Idle ELSE tx[v]
    BY <2>6 DEF AccountsInv, TypeOK
  <2>8. \A v \in Workers : tx'[v].op = "restoreById" /\ tx'[v].user = y => Bumped(x).deleted
    BY <2>1, <2>7 DEF RestoresApart, Idle
  <2>9. \A v \in Workers : tx'[v] = tx[v] \/ tx'[v] = Idle
    BY <2>7
  <2> HIDE DEF x, y, z
  <2>10. QED
    BY <2>1, <2>2, <2>5, <2>6, <2>8, <2>9, SuperWriteStep
<1>6. CASE PasswordCommit(w)
  <2> DEFINE y == tx[w].user
             x == Written(users[y], tx[w].change)
  <2>1. y \in Users /\ users[y] \in User /\ tx[w].change \in Change
    BY <1>4, <1>6 DEF PasswordCommit
  <2>2. tx[w].change.active = Same /\ tx[w].change.super = Same
    BY <1>6 DEF PasswordCommit, SuperInv, ChangesAsNamed, AsNamed
  <2>3. /\ x \in User /\ x.version = users[y].version /\ x.deleted = users[y].deleted
        /\ x.exists = users[y].exists
    BY <2>1, WrittenType
  <2>4. x.active = users[y].active /\ x.super = users[y].super
    BY <2>1, <2>2 DEF Written, Assigned, User
  <2>5. ActiveSuper(x) = ActiveSuper(users[y])
    BY <2>3, <2>4 DEF ActiveSuper
  <2>6. /\ Bumped(x).version = users[y].version + 1
        /\ Bumped(x).deleted = users[y].deleted
        /\ ActiveSuper(users[y]) => ActiveSuper(Bumped(x))
    BY <2>3, <2>5, BumpedType DEF Bumped, User
  <2>7. users' = [users EXCEPT ![y] = Bumped(x)] /\ tx' = [tx EXCEPT ![w] = Idle]
    BY <1>6 DEF PasswordCommit
  <2>8. \A v \in Workers : tx'[v] = IF v = w THEN Idle ELSE tx[v]
    BY <2>7 DEF AccountsInv, TypeOK
  <2>9. \A v \in Workers : tx'[v].op = "restoreById" /\ tx'[v].user = y => Bumped(x).deleted
    BY <2>6, <2>8 DEF SuperInv, RestoresArchived, Idle
  <2>10. QED
    BY <2>1, <2>6, <2>7, <2>8, <2>9, SuperWriteStep
<1>7. QED
  BY <1>2, <1>3, <1>5, <1>6

LEMMA SuperNext == AccountsInv /\ SuperInv /\ RestoresApart /\ [Next]_vars => SuperInv'
<1> SUFFICES ASSUME AccountsInv, SuperInv, RestoresApart, [Next]_vars
             PROVE  SuperInv'
  OBVIOUS
<1>1. CASE UNCHANGED vars
  BY <1>1 DEF vars, SuperInv, RestoresArchived, ChangesAsNamed, AsNamed, LosersCounted, Counted,
     LosesSuper, SuperAdminRemains, ActiveSuper
<1>2. ASSUME NEW w \in Workers, Step(w)
      PROVE  SuperInv'
  <2>1. ASSUME NEW u \in Users,
               Update(w, u) \/ DeleteById(w, u) \/ SetRoles(w, u) \/ RemoveRole(w, u)
                 \/ Create(w, u) \/ AddRole(w, u) \/ RestoreRead(w, u) \/ PasswordRead(w, u)
        PROVE  SuperInv'
    BY <2>1, BeginKeepsSuper, UpdateKeepsSuper
  <2>2. CASE Commit(w)
    BY <2>2, CommitKeepsSuper
  <2>3. CASE RestoreCommit(w) \/ PasswordCommit(w) \/ Rollback(w)
    BY <2>3, AccountsAssumption, UpdateKeepsSuper, BeginKeepsSuper
  <2>4. QED
    BY <1>2, <2>1, <2>2, <2>3 DEF Step
<1>3. ASSUME NEW u \in Users, SignIn(u)
      PROVE  SuperInv'
  BY <1>3 DEF SignIn, SuperInv, RestoresArchived, ChangesAsNamed, AsNamed, LosersCounted, Counted,
     LosesSuper, SuperAdminRemains, ActiveSuper
<1>4. QED
  BY <1>1, <1>2, <1>3 DEF Next

\* However many administrators disable, archive and demote each other at the
\* same time, the system keeps an active super administrator
\* (assertActiveSuperAdminContinuity under serializable isolation), as long as
\* no two calls of restoreById for one account overlap. That hypothesis is
\* needed: the later of two such calls disables an account that may have
\* become the last one.
THEOREM SuperAdminStays == Spec /\ []RestoresApart => []SuperAdminRemains
<1>1. SuperInv => SuperAdminRemains
  BY DEF SuperInv
<1>2. QED
  BY SuperInit, SuperNext, AccountsInvariant, <1>1, PTL DEF Spec

=============================================================================
