----------------------------- MODULE WecomAuth -----------------------------
(***************************************************************************)
(* Signing in with an identity of WeCom, and binding such an identity to a *)
(* local account, as wecom-auth.service does.  Its transactions begin by   *)
(* locking the row of the configuration and so run one after another; a    *)
(* cancellation takes no lock and may meet any of them, which is why those *)
(* it can meet are two actions here: one locks and deletes the challenge,  *)
(* one commits.  A request carries the cookie it was sent with, its answer *)
(* the cookie it sets.  Between the steps of a request the provider is     *)
(* asked who the member is, a password is compared, an administrator       *)
(* changes the configuration or a binding, a user changes the account.     *)
(***************************************************************************)
EXTENDS Integers, FiniteSets

CONSTANTS
  Workers,      \* requests being served at the same time
  Users,        \* local accounts
  Members,      \* member identifiers at the provider
  Corps,        \* organizations the configuration may name
  Flows,        \* sign-ins begun by a browser
  MaxRevision,  \* bound of the revision of the configuration
  MaxVersion,   \* bound of users.session_version
  MaxSessions,  \* bound of the sessions
  NoFlow, NoUser, NoMember

ASSUME WecomAuthAssumption ==
  /\ MaxRevision \in Nat /\ MaxVersion \in Nat /\ MaxSessions \in Nat
  /\ NoFlow \notin Flows /\ NoUser \notin Users /\ NoMember \notin Members

VARIABLES
  config,      \* the row of wecom_auth_config
  bindings,    \* external_identities
  users,       \* session version and status of each account
  challenges,  \* wecom_auth_challenges, of each flow
  cookie,      \* the flow cookie, as the browser holds it
  req,         \* a request under way, from its sending until its answer has come
  sessions,    \* auth_sessions
  begun,       \* administrators' decisions and unbindings when a flow began
  decisions,   \* how many decisions administrators took
  unbinds,     \* how often each account was unbound
  cancelled    \* flows whose challenge or marker a cancellation has deleted

vars == <<config, bindings, users, challenges, cookie, req, sessions, begun, decisions, unbinds,
          cancelled>>

-----------------------------------------------------------------------------
Config == [enabled : BOOLEAN, corp : Corps, revision : Nat]
Binding == [corp : Corps, member : Members, user : Users]
Account == [version : Nat, active : BOOLEAN]

\* stage "exchange" is the marker kept while the provider is asked; a
\* challenge that is used, replaced or deleted is "gone".
Challenge ==
  [stage : {"none", "oauth", "exchange", "bind", "gone"}, revision : Nat,
   member : Members \cup {NoMember}, expired : BOOLEAN]
NoChallenge == [stage |-> "none", revision |-> 0, member |-> NoMember, expired |-> FALSE]

\* The token in the cookie is the state of the authorization, or the token of
\* the binding page.
Cookie == [flow : Flows \cup {NoFlow}, token : {"state", "bind"}]
NoCookie == [flow |-> NoFlow, token |-> "state"]

OpNames ==
  {"idle", "start", "callback", "marking", "asking", "answering", "bind", "binding", "linking",
   "cancel", "waiting", "replied", "login"}

\* cookie is the one the request was sent with, or once it is "replied" the
\* one its answer sets.
Request ==
  [op : OpNames, cookie : Cookie, revision : Nat, user : Users \cup {NoUser}, version : Nat,
   unbinds : Nat]
Idle == [op |-> "idle", cookie |-> NoCookie, revision |-> 0, user |-> NoUser, version |-> 0,
         unbinds |-> 0]
Answer(c) == [Idle EXCEPT !.op = "replied", !.cookie = c]

\* version is the one the tokens are signed with, proved the one of the
\* account whose password was compared.
Session ==
  [user : Users, version : Nat, proved : Nat, flow : Flows \cup {NoFlow}, unbinds : Nat]

\* A transaction that has locked the configuration and deleted the challenge
\* of its flow, and has not ended.
Holding == {"marking", "answering", "linking"}
ConfigUnlocked == \A w \in Workers : req[w].op \notin Holding
RowHeld(f) == \E w \in Workers : req[w].op \in Holding /\ req[w].cookie.flow = f

\* The token of cookie c is the key of the row of flow f: the marker keeps the
\* key of the challenge, the row of the binding page has one of its own.
Names(c, f) ==
  /\ c.flow = f
  /\ challenges[f].stage \in IF c.token = "bind" THEN {"bind"} ELSE {"oauth", "exchange"}

\* The transaction of w commits, and w goes on as r.  A cancellation that
\* waited for the row finds it deleted, and does not see the row inserted in
\* its place: it has deleted nothing.
Commits(w, r) ==
  req' = [v \in Workers |->
    IF v = w THEN r
    ELSE IF req[v].op = "waiting" /\ req[v].cookie.flow = req[w].cookie.flow THEN Answer(NoCookie)
    ELSE req[v]]

\* What consumeChallenge accepts.
Acceptable(f, stage) ==
  /\ challenges[f].stage = stage
  /\ challenges[f].revision = config.revision
  /\ ~challenges[f].expired

Deleted == [NoChallenge EXCEPT !.stage = "gone"]
Gone(f) == [challenges EXCEPT ![f] = Deleted]
AllGone ==
  [f \in Flows |-> IF challenges[f].stage = "none" THEN NoChallenge ELSE Deleted]

BindingsOf(corp, m) == {b \in bindings : b.corp = corp /\ b.member = m}

-----------------------------------------------------------------------------
(* Administrators.                                                         *)

\* Pending flows are given up: their revision is past, their challenges are
\* deleted.
Invalidate ==
  /\ config.revision < MaxRevision
  /\ challenges' = AllGone
  /\ decisions' = decisions + 1

\* saveWecomConfig, with the revision the form was loaded with: any other is
\* refused.
SaveConfig ==
  /\ ConfigUnlocked
  /\ \E e \in BOOLEAN, c \in Corps :
       config' = [enabled |-> e, corp |-> c, revision |-> config.revision + 1]
  /\ Invalidate
  /\ UNCHANGED <<bindings, users, cookie, req, sessions, begun, unbinds, cancelled>>

\* Fault: only the identity is looked up, not the account.
CanBindMember(corp, m, u) ==
  /\ users[u].active
  /\ \A b \in bindings : b.corp = corp => b.member # m

\* insertBinding: an account in use, and neither it nor the member is bound.
CanBind(corp, m, u) ==
  /\ users[u].active
  /\ \A b \in bindings : b.corp = corp => b.member # m /\ b.user # u

Prebind(m, u) ==
  /\ ConfigUnlocked
  /\ CanBind(config.corp, m, u)
  /\ bindings' = bindings \cup {[corp |-> config.corp, member |-> m, user |-> u]}
  /\ config' = [config EXCEPT !.revision = @ + 1]
  /\ Invalidate
  /\ UNCHANGED <<users, cookie, req, sessions, begun, unbinds, cancelled>>

\* Fault: pending flows go on.
UnbindQuietly(b) ==
  /\ ConfigUnlocked
  /\ b \in bindings /\ users[b.user].version < MaxVersion /\ config.revision < MaxRevision
  /\ users' = [users EXCEPT ![b.user].version = @ + 1]
  /\ sessions' = {s \in sessions : s.user # b.user}
  /\ bindings' = bindings \ {b}
  /\ unbinds' = [unbinds EXCEPT ![b.user] = @ + 1]
  /\ decisions' = decisions + 1
  /\ UNCHANGED <<config, challenges, cookie, req, begun, cancelled>>

\* Fault: the sessions are deleted and the version stays.
UnbindKeepsVersion(b) ==
  /\ ConfigUnlocked
  /\ b \in bindings /\ users[b.user].version < MaxVersion
  /\ sessions' = {s \in sessions : s.user # b.user}
  /\ bindings' = bindings \ {b}
  /\ unbinds' = [unbinds EXCEPT ![b.user] = @ + 1]
  /\ config' = [config EXCEPT !.revision = @ + 1]
  /\ Invalidate
  /\ UNCHANGED <<users, cookie, req, begun, cancelled>>

\* unbindWecom.
Unbind(b) ==
  /\ ConfigUnlocked
  /\ b \in bindings /\ users[b.user].version < MaxVersion
  /\ users' = [users EXCEPT ![b.user].version = @ + 1]
  /\ sessions' = {s \in sessions : s.user # b.user}
  /\ bindings' = bindings \ {b}
  /\ unbinds' = [unbinds EXCEPT ![b.user] = @ + 1]
  /\ config' = [config EXCEPT !.revision = @ + 1]
  /\ Invalidate
  /\ UNCHANGED <<cookie, req, begun, cancelled>>

\* A new password, or another status: the session version moves.
AccountChange(u) ==
  /\ users[u].version < MaxVersion
  /\ \E a \in BOOLEAN : users' = [users EXCEPT ![u] = [version |-> @.version + 1, active |-> a]]
  /\ UNCHANGED <<config, bindings, challenges, cookie, req, sessions, begun, decisions, unbinds,
                 cancelled>>

-----------------------------------------------------------------------------
(* The browser.                                                            *)

\* A request is sent with the cookie the browser holds: to begin, back from
\* the provider, from the binding page, or to give up (so does a logout, and
\* a callback that finds the browser signed in).
Send(w, op) ==
  /\ req[w] = Idle /\ op \in {"start", "callback", "bind", "cancel"}
  /\ req' = [req EXCEPT ![w] = [Idle EXCEPT !.op = op, !.cookie = cookie]]
  /\ UNCHANGED <<config, bindings, users, challenges, cookie, sessions, begun, decisions, unbinds,
                 cancelled>>

\* An answer sets the cookie, whatever the browser holds by then.
Receive(w) ==
  /\ req[w].op = "replied"
  /\ cookie' = req[w].cookie
  /\ req' = [req EXCEPT ![w] = Idle]
  /\ UNCHANGED <<config, bindings, users, challenges, sessions, begun, decisions, unbinds, cancelled>>

\* A request is lost, or refused before it does anything, or an answer is
\* lost.
Lose(w) ==
  /\ req[w].op \in {"start", "callback", "bind", "cancel", "replied"}
  /\ req' = [req EXCEPT ![w] = Idle]
  /\ UNCHANGED <<config, bindings, users, challenges, cookie, sessions, begun, decisions, unbinds,
                 cancelled>>

\* The five minutes of a challenge pass.
Expire(f) ==
  /\ challenges[f].stage \in {"oauth", "exchange", "bind"} /\ ~challenges[f].expired
  /\ challenges' = [challenges EXCEPT ![f].expired = TRUE]
  /\ UNCHANGED <<config, bindings, users, cookie, req, sessions, begun, decisions, unbinds,
                 cancelled>>

-----------------------------------------------------------------------------
(* Signing in.                                                             *)

\* beginWecom: the flow the cookie names is replaced, what has expired is
\* deleted.
BeginFlow(w, f) ==
  /\ req[w].op = "start" /\ ConfigUnlocked
  /\ config.enabled
  /\ challenges[f] = NoChallenge
  /\ challenges' =
       [g \in Flows |->
          IF g = f THEN [NoChallenge EXCEPT !.stage = "oauth", !.revision = config.revision]
          ELSE IF Names(req[w].cookie, g) \/ challenges[g].expired THEN Deleted
          ELSE challenges[g]]
  /\ begun' = [begun EXCEPT ![f] = decisions]
  /\ req' = [req EXCEPT ![w] = Answer([flow |-> f, token |-> "state"])]
  /\ UNCHANGED <<config, bindings, users, cookie, sessions, decisions, unbinds, cancelled>>

\* completeWecom, first transaction: the challenge is deleted.
CallbackConsume(w) ==
  LET c == req[w].cookie
  IN  /\ req[w].op = "callback" /\ ConfigUnlocked
      /\ c.flow # NoFlow /\ c.token = "state"
      /\ config.enabled /\ Acceptable(c.flow, "oauth")
      /\ req' = [req EXCEPT ![w] = [req[w] EXCEPT !.op = "marking", !.revision = config.revision]]
      /\ UNCHANGED <<config, bindings, users, challenges, cookie, sessions, begun, decisions,
                     unbinds, cancelled>>

\* It commits: the marker takes the place of the challenge.
CallbackMarked(w) ==
  /\ req[w].op = "marking"
  /\ challenges' = [challenges EXCEPT ![req[w].cookie.flow].stage = "exchange"]
  /\ Commits(w, [req[w] EXCEPT !.op = "asking"])
  /\ UNCHANGED <<config, bindings, users, cookie, sessions, begun, decisions, unbinds, cancelled>>

\* Fault: no marker is looked for.
AnswerConsumeUnmarked(w) ==
  /\ req[w].op = "asking" /\ ConfigUnlocked
  /\ config.enabled /\ config.revision = req[w].revision
  /\ req' = [req EXCEPT ![w] = [req[w] EXCEPT !.op = "answering"]]
  /\ UNCHANGED <<config, bindings, users, challenges, cookie, sessions, begun, decisions, unbinds,
                 cancelled>>

\* The provider has named a member: second transaction, the marker is deleted.
AnswerConsume(w) ==
  /\ req[w].op = "asking" /\ ConfigUnlocked
  /\ config.enabled /\ config.revision = req[w].revision
  /\ Acceptable(req[w].cookie.flow, "exchange")
  /\ req' = [req EXCEPT ![w] = [req[w] EXCEPT !.op = "answering"]]
  /\ UNCHANGED <<config, bindings, users, challenges, cookie, sessions, begun, decisions, unbinds,
                 cancelled>>

\* Bound of the sessions.
Room == Cardinality(sessions) < MaxSessions

\* A session of u for the flow of request r.
Issued(u, proved, r) ==
  sessions \cup {[user |-> u, version |-> users[u].version, proved |-> proved,
                  flow |-> r.cookie.flow, unbinds |-> r.unbinds]}

\* The member is bound: the session is inserted; COMMIT.
AnswerKnown(w, m, b) ==
  /\ req[w].op = "answering"
  /\ b \in BindingsOf(config.corp, m) /\ users[b.user].active /\ Room
  /\ challenges' = Gone(req[w].cookie.flow)
  /\ sessions' = Issued(b.user, users[b.user].version, [req[w] EXCEPT !.unbinds = unbinds[b.user]])
  /\ Commits(w, Answer(NoCookie))
  /\ UNCHANGED <<config, bindings, users, cookie, begun, decisions, unbinds, cancelled>>

\* The member is not bound: the row of the binding page is inserted; COMMIT.
AnswerUnknown(w, m) ==
  LET f == req[w].cookie.flow
  IN  /\ req[w].op = "answering"
      /\ BindingsOf(config.corp, m) = {}
      /\ challenges' = [challenges EXCEPT ![f] =
           [stage |-> "bind", revision |-> config.revision, member |-> m, expired |-> FALSE]]
      /\ Commits(w, Answer([flow |-> f, token |-> "bind"]))
      /\ UNCHANGED <<config, bindings, users, cookie, sessions, begun, decisions, unbinds, cancelled>>

\* The callback fails, before its transactions, at the provider, or in a
\* transaction, which is rolled back: the challenge, or the marker, stays.
CallbackFails(w) ==
  /\ req[w].op \in {"callback", "marking", "asking", "answering"}
  /\ req' = [req EXCEPT ![w] = Answer(NoCookie)]
  /\ UNCHANGED <<config, bindings, users, challenges, cookie, sessions, begun, decisions, unbinds,
                 cancelled>>

-----------------------------------------------------------------------------
(* The binding page.                                                       *)

\* bindWecomWithPassword before its transaction: the challenge is pending,
\* the right password was given for the account.
BindCheck(w, u) ==
  LET c == req[w].cookie
  IN  /\ req[w].op = "bind"
      /\ c.flow # NoFlow /\ c.token = "bind"
      /\ config.enabled /\ Acceptable(c.flow, "bind")
      /\ users[u].active
      /\ req' = [req EXCEPT ![w] = [req[w] EXCEPT !.op = "binding", !.user = u,
                                    !.version = users[u].version, !.unbinds = unbinds[u]]]
      /\ UNCHANGED <<config, bindings, users, challenges, cookie, sessions, begun, decisions,
                     unbinds, cancelled>>

\* Its transaction: the challenge is deleted.
BindClaim(w) ==
  /\ req[w].op = "binding" /\ ConfigUnlocked
  /\ config.enabled /\ Acceptable(req[w].cookie.flow, "bind")
  /\ req' = [req EXCEPT ![w] = [req[w] EXCEPT !.op = "linking"]]
  /\ UNCHANGED <<config, bindings, users, challenges, cookie, sessions, begun, decisions, unbinds,
                 cancelled>>

\* Fault: the account is not compared again under the lock.
BindCommitUnchecked(w) ==
  LET r == req[w]  f == r.cookie.flow  u == r.user  m == challenges[f].member
  IN  /\ r.op = "linking"
      /\ CanBind(config.corp, m, u) /\ Room
      /\ challenges' = Gone(f)
      /\ bindings' = bindings \cup {[corp |-> config.corp, member |-> m, user |-> u]}
      /\ sessions' = Issued(u, r.version, r)
      /\ Commits(w, Answer(NoCookie))
      /\ UNCHANGED <<config, users, cookie, begun, decisions, unbinds, cancelled>>

\* The account is locked and compared with the one whose password was proved,
\* then bound, and the session inserted; COMMIT.
BindCommit(w) ==
  LET r == req[w]  f == r.cookie.flow  u == r.user  m == challenges[f].member
  IN  /\ r.op = "linking"
      /\ users[u].version = r.version
      /\ CanBind(config.corp, m, u) /\ Room
      /\ challenges' = Gone(f)
      /\ bindings' = bindings \cup {[corp |-> config.corp, member |-> m, user |-> u]}
      /\ sessions' = Issued(u, r.version, r)
      /\ Commits(w, Answer(NoCookie))
      /\ UNCHANGED <<config, users, cookie, begun, decisions, unbinds, cancelled>>

\* Refused, or rolled back: the form may be sent again, no cookie is set.
BindFails(w) ==
  /\ req[w].op \in {"binding", "linking"}
  /\ req' = [req EXCEPT ![w] = Idle]
  /\ UNCHANGED <<config, bindings, users, challenges, cookie, sessions, begun, decisions, unbinds,
                 cancelled>>

-----------------------------------------------------------------------------
(* Giving up: cancelWecomFlow is one DELETE, of the row with the key in the *)
(* cookie, and the cookie is cleared whatever it finds.                    *)

\* There is no such row, any more or yet.
CancelNothing(w) ==
  /\ req[w].op \in {"cancel", "waiting"}
  /\ \A f \in Flows : ~Names(req[w].cookie, f)
  /\ req' = [req EXCEPT ![w] = Answer(NoCookie)]
  /\ UNCHANGED <<config, bindings, users, challenges, cookie, sessions, begun, decisions, unbinds,
                 cancelled>>

\* The row is being deleted by a transaction: the DELETE waits for its end.
CancelWaits(w, f) ==
  /\ req[w].op = "cancel" /\ Names(req[w].cookie, f) /\ RowHeld(f)
  /\ req' = [req EXCEPT ![w] = [req[w] EXCEPT !.op = "waiting"]]
  /\ UNCHANGED <<config, bindings, users, challenges, cookie, sessions, begun, decisions, unbinds,
                 cancelled>>

CancelDeletes(w, f) ==
  /\ req[w].op \in {"cancel", "waiting"} /\ Names(req[w].cookie, f) /\ ~RowHeld(f)
  /\ challenges' = Gone(f)
  /\ cancelled' = cancelled \cup {f}
  /\ req' = [req EXCEPT ![w] = Answer(NoCookie)]
  /\ UNCHANGED <<config, bindings, users, cookie, sessions, begun, decisions, unbinds>>

-----------------------------------------------------------------------------
(* A sign-in with a password beside it: the account is read, then the      *)
(* session is inserted with the version read.                              *)

LoginRead(w, u) ==
  /\ req[w] = Idle
  /\ users[u].active
  /\ req' = [req EXCEPT ![w] = [Idle EXCEPT !.op = "login", !.user = u,
                                  !.version = users[u].version, !.unbinds = unbinds[u]]]
  /\ UNCHANGED <<config, bindings, users, challenges, cookie, sessions, begun, decisions, unbinds,
                 cancelled>>

LoginInsert(w) ==
  LET r == req[w]
  IN  /\ r.op = "login" /\ Room
      /\ sessions' = sessions \cup {[user |-> r.user, version |-> r.version, proved |-> r.version,
                                     flow |-> NoFlow, unbinds |-> r.unbinds]}
      /\ req' = [req EXCEPT ![w] = Idle]
      /\ UNCHANGED <<config, bindings, users, challenges, cookie, begun, decisions, unbinds,
                     cancelled>>

-----------------------------------------------------------------------------
Init ==
  /\ \E c \in Corps : config = [enabled |-> TRUE, corp |-> c, revision |-> 0]
  /\ bindings = {}
  /\ users = [u \in Users |-> [version |-> 0, active |-> TRUE]]
  /\ challenges = [f \in Flows |-> NoChallenge]
  /\ cookie = NoCookie
  /\ req = [w \in Workers |-> Idle]
  /\ sessions = {}
  /\ begun = [f \in Flows |-> 0]
  /\ decisions = 0
  /\ unbinds = [u \in Users |-> 0]
  /\ cancelled = {}

Administrator ==
  SaveConfig \/ (\E m \in Members, u \in Users : Prebind(m, u)) \/ (\E b \in bindings : Unbind(b))

SignIn(w) ==
  \/ \E f \in Flows : BeginFlow(w, f)
  \/ CallbackConsume(w) \/ CallbackMarked(w) \/ AnswerConsume(w) \/ CallbackFails(w)
  \/ \E m \in Members : AnswerUnknown(w, m) \/ \E b \in bindings : AnswerKnown(w, m, b)

Bind(w) == (\E u \in Users : BindCheck(w, u)) \/ BindClaim(w) \/ BindCommit(w) \/ BindFails(w)

Cancel(w) == CancelNothing(w) \/ \E f \in Flows : CancelWaits(w, f) \/ CancelDeletes(w, f)

Login(w) == (\E u \in Users : LoginRead(w, u)) \/ LoginInsert(w)

Next ==
  \/ Administrator
  \/ \E u \in Users : AccountChange(u)
  \/ \E f \in Flows : Expire(f)
  \/ \E w \in Workers : \/ \E op \in OpNames : Send(w, op)
                        \/ Receive(w) \/ Lose(w)
                        \/ SignIn(w) \/ Bind(w) \/ Cancel(w) \/ Login(w)

Spec == Init /\ [][Next]_vars

-----------------------------------------------------------------------------
(* Properties.                                                             *)

\* The rows, the cookie and the requests have the shape the code gives them;
\* identities and accounts are bound one to one in an organization
\* ("the mapping is one to one and is never overwritten", docs/wecom-auth.md).
TypeOK ==
  /\ config \in Config /\ bindings \subseteq Binding
  /\ \A b, c \in bindings : b.corp = c.corp => (b.member = c.member <=> b.user = c.user)
  /\ users \in [Users -> Account] /\ challenges \in [Flows -> Challenge]
  /\ cookie \in Cookie /\ req \in [Workers -> Request] /\ sessions \subseteq Session

\* sessionMatchesClaims.
Alive(s) == users[s.user].active /\ users[s.user].version = s.version

\* Unbinding an account ends all its local sessions (docs/wecom-auth.md), also
\* those of a sign-in that had read the account before and inserts its session
\* after the deletion.
UnbindEndsSessions == \A s \in sessions : Alive(s) => s.unbinds = unbinds[s.user]

\* A session for a password is given to the account as it was when that
\* password was compared: no change of the account in between goes unnoticed
\* ("recheck the exact hash and account under lock").
PasswordStillProved == \A s \in sessions : s.proved = s.version

\* What an administrator decides ends the flows that are under way: no
\* session, and so no binding, results from a flow that began before
\* ("saving the configuration, prebinding and unbinding invalidate the pending
\* flows", docs/wecom-auth.md), however late the provider answers or the form
\* of the binding page arrives.
DecisionsHold ==
  [][\A s \in sessions' \ sessions : s.flow # NoFlow => begun[s.flow] = decisions]_vars

\* Once a cancellation has deleted the challenge of a flow, or the marker that
\* is kept while the provider is asked (completeWecom), the flow signs nobody
\* in, however late the provider answers or a form of the binding page comes.
\* A cancellation that deletes nothing is another matter: its DELETE waits for
\* the transaction that replaces the challenge by the marker, or the marker by
\* the row of the binding page, or for that of a binding; or it was sent with
\* a cookie that names no row any more, before the answer with the new one.
CancelledFlowsEnd == \A s \in sessions : s.flow \notin cancelled

=============================================================================
