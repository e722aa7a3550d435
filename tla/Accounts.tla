------------------------------ MODULE Accounts ------------------------------
(***************************************************************************)
(* User accounts as UserService changes them: creation, changes of the     *)
(* password, of the roles and of the status, archiving and restoration,    *)
(* and the sign-in that turns a password into a session token.             *)
(*                                                                         *)
(* The operations that may take the last super administrator away run as   *)
(* SERIALIZABLE transactions: they read from the snapshot of their first   *)
(* statement, and PostgreSQL lets them commit only if                      *)
(*   - nobody has changed the row they write since the snapshot, and       *)
(*   - they are not the pivot of two read-write conflicts with concurrent  *)
(*     serializable transactions (in and out), nor the tail of such a pair *)
(*     that has committed (doomed).                                        *)
(* The others run at READ COMMITTED: PostgreSQL does not track their reads.*)
(***************************************************************************)
EXTENDS Integers, FiniteSets

CONSTANTS
  Workers,      \* requests being served at the same time
  Users,        \* accounts that exist or may be created
  Founders,     \* super administrators at the start
  Passwords,
  Changes,      \* what an administrator may submit: see Change
  Ops,          \* Ops[w]: operations worker w may run
  MaxVersion,   \* bound of users.session_version
  MaxTokens,    \* bound of the tokens that are watched
  Same,         \* a column the operation leaves alone
  NoUser, FirstPassword

ASSUME AccountsAssumption ==
  /\ Founders \subseteq Users /\ Founders # {}
  /\ FirstPassword \in Passwords
  /\ MaxVersion \in Nat /\ MaxTokens \in Nat
  /\ Same \notin BOOLEAN /\ Same \notin Passwords
  /\ NoUser \notin Users

VARIABLES
  users,     \* users and their roles; of the roles only SUPER_ADMIN is told apart
  tx,        \* the operation of each worker
  tokens     \* session tokens that were issued

vars == <<users, tx, tokens>>

-----------------------------------------------------------------------------
User == [exists : BOOLEAN, active : BOOLEAN, deleted : BOOLEAN, super : BOOLEAN,
         version : Nat, pw : Passwords]

Change == [active : BOOLEAN \cup {Same}, super : BOOLEAN \cup {Same}, pw : Passwords \cup {Same}]
NoChange == [active |-> Same, super |-> Same, pw |-> Same]

ASSUME ChangesAssumption == Changes \subseteq Change \ {NoChange}

OpNames == {"idle", "update", "deleteById", "setRoles", "removeRole", "restoreById",
            "changePassword"}
Serializable == {"update", "deleteById", "setRoles", "removeRole"}

\* seen is the version of the row when the snapshot was taken: every write of
\* a row increments it.
Transaction ==
  [op : OpNames, user : Users \cup {NoUser}, change : Change,
   seen : Nat, reads : SUBSET Users,
   in : BOOLEAN, out : BOOLEAN, doomed : BOOLEAN]

Idle == [op |-> "idle", user |-> NoUser, change |-> NoChange, seen |-> 0, reads |-> {},
         in |-> FALSE, out |-> FALSE, doomed |-> FALSE]

\* The credentials a token was issued for beside the version it was signed
\* with: the latter is all that is compared later.
Token == [user : Users, version : Nat, pw : Passwords, super : BOOLEAN]

Assigned(old, new) == IF new = Same THEN old ELSE new

\* Row x after the columns of change c are written.
Written(x, c) ==
  [x EXCEPT !.active = Assigned(@, c.active), !.super = Assigned(@, c.super),
            !.pw = Assigned(@, c.pw)]

Bumped(x) == [x EXCEPT !.version = @ + 1]

ActiveSuper(x) == x.exists /\ x.active /\ ~x.deleted /\ x.super

-----------------------------------------------------------------------------
(* Serializable transactions.                                              *)

\* Whether change c takes the rights of an active super administrator away:
\* only then are the other accounts counted.
LosesSuper(x, c) == ActiveSuper(x) /\ ~ActiveSuper(Written(x, c))

\* assertActiveSuperAdminContinuity, on the snapshot of the transaction.
Continuity(u, c) ==
  LosesSuper(users[u], c) => \E v \in Users \ {u} : ActiveSuper(users[v])

Start(w, op, u, c) ==
  /\ op \in Ops[w]
  /\ tx[w] = Idle
  /\ users[u].exists
  /\ Continuity(u, c)
  /\ tx' = [tx EXCEPT ![w] =
       [Idle EXCEPT !.op = op, !.user = u, !.change = c, !.seen = users[u].version,
                    !.reads = IF LosesSuper(users[u], c) THEN Users ELSE {u}]]
  /\ UNCHANGED <<users, tokens>>

Update(w, u) ==
  /\ ~users[u].deleted
  /\ \E c \in Changes : Start(w, "update", u, c)

\* By an administrator who is another user than u.
DeleteById(w, u) ==
  /\ ~users[u].deleted
  /\ Start(w, "deleteById", u, [NoChange EXCEPT !.active = FALSE])

SetRoles(w, u) ==
  \E b \in BOOLEAN : Start(w, "setRoles", u, [NoChange EXCEPT !.super = b])

\* deleteMany finds no row if the user does not have the role.
RemoveRole(w, u) ==
  /\ users[u].super
  /\ Start(w, "removeRole", u, [NoChange EXCEPT !.super = FALSE])

\* The row as transaction t leaves it: deleteById archives it.
Result(x, t) ==
  IF t.op = "deleteById" THEN [Written(x, t.change) EXCEPT !.deleted = TRUE]
  ELSE Written(x, t.change)

\* What the read-write conflicts with the commit of w do to another open
\* serializable transaction t.
Conflicts(t, done) ==
  LET read == done.user \in t.reads
  IN  [t EXCEPT !.out = @ \/ read,
                !.in = @ \/ t.user \in done.reads,
                !.doomed = @ \/ (read /\ done.out)]

\* Fault: the transactions run at the default isolation level.
CommitReadCommitted(w) ==
  LET t == tx[w]  u == t.user
  IN  /\ t.op \in Serializable
      /\ users[u].version < MaxVersion
      /\ users' = [users EXCEPT ![u] = Bumped(Result(users[u], t))]
      /\ tx' = [tx EXCEPT ![w] = Idle]
      /\ UNCHANGED tokens

\* The update of the row and COMMIT.
Commit(w) ==
  LET t == tx[w]  u == t.user
  IN  /\ t.op \in Serializable
      /\ users[u].version = t.seen
      /\ ~(t.in /\ t.out) /\ ~t.doomed
      /\ users[u].version < MaxVersion
      /\ users' = [users EXCEPT ![u] = Bumped(Result(users[u], t))]
      /\ tx' = [v \in Workers |->
                  IF v = w THEN Idle
                  ELSE IF tx[v].op \in Serializable THEN Conflicts(tx[v], t) ELSE tx[v]]
      /\ UNCHANGED tokens

-----------------------------------------------------------------------------
(* Transactions at READ COMMITTED.                                         *)

\* Fault: the roles of a new account are left out.
CreateWithoutRoles(w, u) ==
  /\ "create" \in Ops[w]
  /\ tx[w] = Idle
  /\ ~users[u].exists
  /\ users' = [users EXCEPT ![u] = [exists |-> TRUE, active |-> TRUE, deleted |-> FALSE,
                                    super |-> Same, version |-> 0, pw |-> FirstPassword]]
  /\ UNCHANGED <<tx, tokens>>

\* The usernames are unique: of two creations one fails.
Create(w, u) ==
  /\ "create" \in Ops[w]
  /\ tx[w] = Idle
  /\ ~users[u].exists
  /\ \E b \in BOOLEAN :
       users' = [users EXCEPT ![u] = [exists |-> TRUE, active |-> TRUE, deleted |-> FALSE,
                                      super |-> b, version |-> 0, pw |-> FirstPassword]]
  /\ UNCHANGED <<tx, tokens>>

AddRole(w, u) ==
  /\ "addRole" \in Ops[w]
  /\ tx[w] = Idle
  /\ users[u].exists /\ ~users[u].super
  /\ users[u].version < MaxVersion
  /\ users' = [users EXCEPT ![u] = Bumped([@ EXCEPT !.super = TRUE])]
  /\ UNCHANGED <<tx, tokens>>

\* The account is read before the transaction: it is archived.
RestoreRead(w, u) ==
  /\ "restoreById" \in Ops[w]
  /\ tx[w] = Idle
  /\ users[u].exists /\ users[u].deleted
  /\ \E p \in Passwords :
       tx' = [tx EXCEPT ![w] = [Idle EXCEPT !.op = "restoreById", !.user = u,
                                            !.change = [NoChange EXCEPT !.pw = p]]]
  /\ UNCHANGED <<users, tokens>>

\* UPDATE users WHERE id: restored accounts are not active.
RestoreCommit(w) ==
  LET u == tx[w].user
  IN  /\ tx[w].op = "restoreById"
      /\ users[u].version < MaxVersion
      /\ users' = [users EXCEPT ![u] =
           Bumped([Written(@, tx[w].change) EXCEPT !.deleted = FALSE, !.active = FALSE])]
      /\ tx' = [tx EXCEPT ![w] = Idle]
      /\ UNCHANGED tokens

\* The user proves the old password.
PasswordRead(w, u) ==
  /\ "changePassword" \in Ops[w]
  /\ tx[w] = Idle
  /\ users[u].exists /\ users[u].active /\ ~users[u].deleted
  /\ \E p \in Passwords :
       tx' = [tx EXCEPT ![w] = [Idle EXCEPT !.op = "changePassword", !.user = u, !.seen = users[u].version,
                                            !.change = [NoChange EXCEPT !.pw = p]]]
  /\ UNCHANGED <<users, tokens>>

\* Fault: the version is written as a value computed from the row read.
PasswordCommitAbsolute(w) ==
  LET u == tx[w].user
  IN  /\ tx[w].op = "changePassword"
      /\ users[u].version < MaxVersion
      /\ users' = [users EXCEPT ![u] =
           [Written(@, tx[w].change) EXCEPT !.version = tx[w].seen + 1]]
      /\ tx' = [tx EXCEPT ![w] = Idle]
      /\ UNCHANGED tokens

\* UPDATE users WHERE id, with session_version incremented in the database.
PasswordCommit(w) ==
  LET u == tx[w].user
  IN  /\ tx[w].op = "changePassword"
      /\ users[u].version < MaxVersion
      /\ users' = [users EXCEPT ![u] = Bumped(Written(@, tx[w].change))]
      /\ tx' = [tx EXCEPT ![w] = Idle]
      /\ UNCHANGED tokens

\* verifyCredentials with the right password: the account, its password and
\* its version come from one SELECT.
SignIn(u) ==
  /\ Cardinality(tokens) < MaxTokens
  /\ users[u].exists /\ users[u].active /\ ~users[u].deleted
  /\ tokens' = tokens \cup {[user |-> u, version |-> users[u].version, pw |-> users[u].pw,
                             super |-> users[u].super]}
  /\ UNCHANGED <<users, tx>>

\* An exception, a lost connection, or a serialization failure: the caller
\* is told, nothing was written.
Rollback(w) ==
  /\ tx[w] # Idle
  /\ tx' = [tx EXCEPT ![w] = Idle]
  /\ UNCHANGED <<users, tokens>>

-----------------------------------------------------------------------------
Init ==
  /\ users = [u \in Users |->
       [exists |-> u \in Founders, active |-> u \in Founders, deleted |-> FALSE,
        super |-> u \in Founders, version |-> 0, pw |-> FirstPassword]]
  /\ tx = [w \in Workers |-> Idle]
  /\ tokens = {}

Step(w) ==
  \/ \E u \in Users : Update(w, u) \/ DeleteById(w, u) \/ SetRoles(w, u) \/ RemoveRole(w, u)
                        \/ Create(w, u) \/ AddRole(w, u) \/ RestoreRead(w, u) \/ PasswordRead(w, u)
  \/ Commit(w) \/ RestoreCommit(w) \/ PasswordCommit(w) \/ Rollback(w)

Next == (\E w \in Workers : Step(w)) \/ (\E u \in Users : SignIn(u))

Spec == Init /\ [][Next]_vars

-----------------------------------------------------------------------------
(* Properties.                                                             *)

\* Rows, operations and tokens have the shape the code gives them.
TypeOK ==
  /\ users \in [Users -> User]
  /\ tx \in [Workers -> Transaction]
  /\ tokens \subseteq Token

\* However administrators disable, archive and demote each other at the same
\* time, one active super administrator remains
\* (assertActiveSuperAdminContinuity: "the system must keep at least one
\* enabled super administrator").
SuperAdminRemains == \E u \in Users : ActiveSuper(users[u])

\* sessionMatchesClaims: the account a token names has not changed since.
Accepted(k) ==
  /\ users[k.user].exists /\ users[k.user].active /\ ~users[k.user].deleted
  /\ users[k.user].version = k.version

\* A token that is still accepted was given for the password and the rights
\* the account has now: no change of either, made by whichever operation and
\* overlapping whichever other, leaves a session of before alive.
TokensAreCurrent ==
  \A k \in tokens :
    Accepted(k) => k.pw = users[k.user].pw /\ k.super = users[k.user].super

=============================================================================
