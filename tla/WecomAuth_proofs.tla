-------------------------- MODULE WecomAuth_proofs --------------------------
(***************************************************************************)
(* What WecomAuth says of bindings, flows and sessions, proved for every   *)
(* number of workers, accounts, members, organizations and flows; the      *)
(* bounds MaxRevision, MaxVersion and MaxSessions are arbitrary.           *)
(***************************************************************************)
EXTENDS WecomAuth, TLAPS

-----------------------------------------------------------------------------
(* The inductive invariant.                                                *)

\* The observations beside the code's own state have their types.
CountersOK ==
  /\ begun \in [Flows -> Nat] /\ decisions \in Nat
  /\ unbinds \in [Users -> Nat] /\ cancelled \subseteq Flows

\* A request under way names the flow and the account it needs, a challenge of
\* the binding page names a member.
Served(r) ==
  /\ r.op \in {"marking", "asking", "answering", "binding", "linking"} => r.cookie.flow \in Flows
  /\ r.op \in {"binding", "linking", "login"} => r.user \in Users

Named ==
  /\ \A w \in Workers : Served(req[w])
  /\ \A f \in Flows : challenges[f].stage = "bind" => challenges[f].member \in Members

WecomType == TypeOK /\ CountersOK /\ Named

\* What was read of account u, its version and the number of its unbindings,
\* is not of later than now; the same version means no unbinding since.
Past(u, version, n) ==
  /\ version <= users[u].version
  /\ version = users[u].version => n = unbinds[u]

VersionsPast ==
  /\ \A s \in sessions : Past(s.user, s.version, s.unbinds)
  /\ \A w \in Workers :
       req[w].op \in {"binding", "linking", "login"} =>
         Past(req[w].user, req[w].version, req[w].unbinds)

\* One transaction at a time holds the row of the configuration; the challenge
\* it has deleted was, and to all others still is, of the stage it looked for.
Fits(r, stage) ==
  /\ r.op = "marking" => stage = "oauth"
  /\ r.op = "answering" => stage = "exchange"
  /\ r.op = "linking" => stage = "bind"

Held ==
  /\ \A v, w \in Workers : req[v].op \in Holding /\ req[w].op \in Holding => v = w
  /\ \A w \in Workers : Fits(req[w], challenges[req[w].cookie.flow].stage)

\* A challenge that may still be used was made after the last decision of an
\* administrator.
Live == {"oauth", "exchange", "bind"}
LiveIsCurrent == \A f \in Flows : challenges[f].stage \in Live => begun[f] = decisions

\* A flow that was given up, or that signed somebody in, is used up.
UsedUp ==
  /\ \A f \in cancelled : challenges[f].stage = "gone"
  /\ \A s \in sessions : s.flow # NoFlow => challenges[s.flow].stage = "gone"

FlowsInv == Held /\ LiveIsCurrent /\ UsedUp /\ CancelledFlowsEnd

WecomInv == WecomType /\ VersionsPast /\ FlowsInv /\ PasswordStillProved

-----------------------------------------------------------------------------
(* The operators of the model.                                             *)

LEMMA IdleType == Idle \in Request /\ Idle.op = "idle" /\ Served(Idle)
BY DEF Idle, NoCookie, Cookie, Request, OpNames, Served

LEMMA NoCookieType == NoCookie \in Cookie /\ NoCookie.flow = NoFlow
BY DEF NoCookie, Cookie

LEMMA AnswerType ==
  ASSUME NEW c \in Cookie
  PROVE  /\ Answer(c) \in Request /\ Served(Answer(c))
         /\ Answer(c).op = "replied" /\ Answer(c).cookie = c
BY IdleType DEF Idle, Answer, Request, OpNames, Served

LEMMA DeletedType == Deleted \in Challenge /\ Deleted.stage = "gone"
BY DEF Deleted, NoChallenge, Challenge

\* The same request, in another state of its serving.
LEMMA OpStep ==
  ASSUME NEW r \in Request, NEW op \in OpNames
  PROVE  LET n == [r EXCEPT !.op = op]
         IN  /\ n \in Request /\ n.op = op /\ n.cookie = r.cookie /\ n.user = r.user
             /\ n.version = r.version /\ n.unbinds = r.unbinds
BY DEF Request

\* The request of w becomes r; others stay, or are answered.
Turns(w, r) ==
  /\ req' = [v \in Workers |-> req'[v]]
  /\ req'[w] = r
  /\ \A v \in Workers \ {w} : req'[v] = req[v] \/ req'[v] = Answer(NoCookie)

LEMMA TurnsAlone ==
  ASSUME TypeOK, NEW w \in Workers, NEW r, req' = [req EXCEPT ![w] = r]
  PROVE  Turns(w, r)
BY DEF Turns, TypeOK

LEMMA TurnsCommits ==
  ASSUME TypeOK, NEW w \in Workers, NEW r, Commits(w, r)
  PROVE  Turns(w, r)
BY DEF Turns, Commits, TypeOK

LEMMA TurnsType ==
  ASSUME TypeOK, Named, NEW w \in Workers, NEW r \in Request, Served(r), Turns(w, r)
  PROVE  req' \in [Workers -> Request] /\ \A v \in Workers : Served(req'[v])
<1>1. ASSUME NEW v \in Workers
      PROVE  req'[v] \in Request /\ Served(req'[v])
  <2>1. req[v] \in Request /\ Served(req[v])
    BY DEF TypeOK, Named
  <2>2. Answer(NoCookie) \in Request /\ Served(Answer(NoCookie))
    BY NoCookieType, AnswerType
  <2>3. req'[v] = r \/ req'[v] = req[v] \/ req'[v] = Answer(NoCookie)
    BY DEF Turns
  <2>4. QED
    BY <2>1, <2>2, <2>3
<1>2. req' = [v \in Workers |-> req'[v]]
  BY DEF Turns
<1>3. QED
  BY <1>1, <1>2

\* One row of the challenges is written.
LEMMA RowStep ==
  ASSUME TypeOK, Named, NEW f \in Flows, NEW c \in Challenge,
         c.stage = "bind" => c.member \in Members,
         challenges' = [challenges EXCEPT ![f] = c]
  PROVE  /\ challenges' \in [Flows -> Challenge]
         /\ \A g \in Flows : challenges'[g].stage = "bind" => challenges'[g].member \in Members
         /\ challenges'[f] = c
         /\ \A g \in Flows \ {f} : challenges'[g] = challenges[g]
BY DEF TypeOK, Named

LEMMA GoneStep ==
  ASSUME TypeOK, Named, NEW f \in Flows, challenges' = Gone(f)
  PROVE  /\ challenges' \in [Flows -> Challenge]
         /\ \A g \in Flows : challenges'[g].stage = "bind" => challenges'[g].member \in Members
         /\ challenges'[f].stage = "gone"
         /\ \A g \in Flows \ {f} : challenges'[g] = challenges[g]
<1>1. challenges' = [challenges EXCEPT ![f] = Deleted]
  BY DEF Gone
<1>2. QED
  BY <1>1, DeletedType, RowStep

\* The marker takes the place of a challenge; a challenge expires.
LEMMA StageStep ==
  ASSUME TypeOK, Named, NEW f \in Flows, challenges' = [challenges EXCEPT ![f].stage = "exchange"]
  PROVE  /\ challenges' \in [Flows -> Challenge]
         /\ \A g \in Flows : challenges'[g].stage = "bind" => challenges'[g].member \in Members
         /\ challenges'[f].stage = "exchange"
         /\ \A g \in Flows \ {f} : challenges'[g] = challenges[g]
<1>1. challenges[f] \in Challenge
  BY DEF TypeOK
<1>2. LET c == [challenges[f] EXCEPT !.stage = "exchange"]
      IN  c \in Challenge /\ c.stage = "exchange"
  BY <1>1 DEF Challenge
<1>3. challenges' = [challenges EXCEPT ![f] = [challenges[f] EXCEPT !.stage = "exchange"]]
  OBVIOUS
<1>4. QED
  BY <1>2, <1>3, RowStep

LEMMA ExpireStep ==
  ASSUME TypeOK, Named, NEW f \in Flows, challenges' = [challenges EXCEPT ![f].expired = TRUE]
  PROVE  /\ challenges' \in [Flows -> Challenge]
         /\ \A g \in Flows : challenges'[g].stage = "bind" => challenges'[g].member \in Members
         /\ \A g \in Flows : challenges'[g].stage = challenges[g].stage
<1>1. /\ challenges[f] \in Challenge
      /\ challenges[f].stage = "bind" => challenges[f].member \in Members
  BY DEF TypeOK, Named
<1>2. LET c == [challenges[f] EXCEPT !.expired = TRUE]
      IN  c \in Challenge /\ c.stage = challenges[f].stage /\ c.member = challenges[f].member
  BY <1>1 DEF Challenge
<1>3. challenges' = [challenges EXCEPT ![f] = [challenges[f] EXCEPT !.expired = TRUE]]
  OBVIOUS
<1>4. QED
  BY <1>1, <1>2, <1>3, RowStep

\* A decision of an administrator leaves no challenge to be used.
LEMMA AllGoneStep ==
  ASSUME TypeOK
  PROVE  /\ AllGone \in [Flows -> Challenge]
         /\ \A f \in Flows : IF challenges[f].stage = "none" THEN AllGone[f].stage = "none"
                             ELSE AllGone[f].stage = "gone"
<1>1. NoChallenge \in Challenge /\ NoChallenge.stage = "none"
  BY DEF NoChallenge, Challenge
<1>2. QED
  BY <1>1, DeletedType DEF AllGone

\* beginWecom deletes what it replaces, makes the challenge of f and leaves the
\* rest.
LEMMA BeginStep ==
  ASSUME TypeOK, Named, NEW w \in Workers, NEW f \in Flows, BeginFlow(w, f)
  PROVE  /\ challenges' \in [Flows -> Challenge]
         /\ challenges[f].stage = "none" /\ challenges'[f].stage = "oauth"
         /\ \A g \in Flows \ {f} : challenges'[g] = challenges[g] \/ challenges'[g].stage = "gone"
<1> DEFINE new == [NoChallenge EXCEPT !.stage = "oauth", !.revision = config.revision]
<1>1. new \in Challenge /\ new.stage = "oauth"
  BY DEF TypeOK, NoChallenge, Challenge, Config
<1> HIDE DEF new
<1>2. challenges' =
        [g \in Flows |-> IF g = f THEN new
                         ELSE IF Names(req[w].cookie, g) \/ challenges[g].expired THEN Deleted
                         ELSE challenges[g]]
  BY DEF BeginFlow, new
<1>3. \A g \in Flows : challenges[g] \in Challenge
  BY DEF TypeOK
<1>4. challenges[f].stage = "none"
  BY DEF BeginFlow, NoChallenge
<1>5. QED
  BY <1>1, <1>2, <1>3, <1>4, DeletedType

\* insertBinding keeps identities and accounts one to one.
LEMMA BindingStep ==
  ASSUME TypeOK, NEW m \in Members, NEW u \in Users, CanBind(config.corp, m, u),
         bindings' = bindings \cup {[corp |-> config.corp, member |-> m, user |-> u]}
  PROVE  /\ bindings' \subseteq Binding
         /\ \A b, c \in bindings' : b.corp = c.corp => (b.member = c.member <=> b.user = c.user)
<1> DEFINE n == [corp |-> config.corp, member |-> m, user |-> u]
<1>1. n \in Binding /\ n.corp = config.corp /\ n.member = m /\ n.user = u
  BY DEF TypeOK, Config, Binding
<1>2. \A b \in bindings : b.corp = config.corp => b.member # m /\ b.user # u
  BY DEF CanBind
<1> HIDE DEF n
<1>3. bindings' = bindings \cup {n}
  BY DEF n
<1>4. \A b, c \in bindings : b.corp = c.corp => (b.member = c.member <=> b.user = c.user)
  BY DEF TypeOK
<1>5. ASSUME NEW b \in bindings', NEW c \in bindings', b.corp = c.corp
      PROVE  b.member = c.member <=> b.user = c.user
  <2>1. CASE b \in bindings /\ c \in bindings
    BY <1>4, <1>5, <2>1
  <2>2. CASE b = n
    BY <1>1, <1>2, <1>3, <1>5, <2>2
  <2>3. CASE c = n
    BY <1>1, <1>2, <1>3, <1>5, <2>3
  <2>4. QED
    BY <1>3, <2>1, <2>2, <2>3
<1>6. bindings' \subseteq Binding
  BY <1>1, <1>3 DEF TypeOK
<1>7. QED
  BY <1>5, <1>6

\* What a sign-in through the provider issues.
LEMMA IssuedType ==
  ASSUME TypeOK, NEW u \in Users, NEW n \in Nat, NEW r \in Request
  PROVE  Issued(u, n, r) \subseteq Session
BY DEF TypeOK, Issued, Account, Request, Cookie, Session

-----------------------------------------------------------------------------
LEMMA WecomInit == Init => WecomInv
<1> SUFFICES ASSUME Init
             PROVE  WecomInv
  OBVIOUS
<1> USE DEF Init
<1>1. WecomType
  <2>1. /\ config \in Config /\ bindings = {} /\ sessions = {}
    BY DEF Config
  <2>2. cookie \in Cookie /\ users \in [Users -> Account]
    BY NoCookieType DEF Account
  <2>3. challenges \in [Flows -> Challenge] /\ req \in [Workers -> Request]
    BY IdleType DEF Challenge, NoChallenge
  <2>4. CountersOK /\ Named
    BY IdleType DEF CountersOK, Named, NoChallenge
  <2>5. QED
    BY <2>1, <2>2, <2>3, <2>4 DEF WecomType, TypeOK
<1>2. VersionsPast /\ PasswordStillProved
  BY IdleType DEF VersionsPast, PasswordStillProved
<1>3. FlowsInv
  BY IdleType
     DEF FlowsInv, Held, Fits, Holding, LiveIsCurrent, Live, UsedUp, CancelledFlowsEnd, NoChallenge
<1>4. QED
  BY <1>1, <1>2, <1>3 DEF WecomInv

-----------------------------------------------------------------------------
(* Types and the one-to-one bindings.                                      *)

\* A step of one request that changes nothing else.
LEMMA RequestStep ==
  ASSUME WecomType, NEW w \in Workers, NEW r \in Request, Served(r), req' = [req EXCEPT ![w] = r],
         UNCHANGED <<config, bindings, users, challenges, cookie, sessions, begun, decisions,
                     unbinds, cancelled>>
  PROVE  WecomType'
<1>1. TypeOK /\ Named
  BY DEF WecomType
<1>2. req' \in [Workers -> Request] /\ \A v \in Workers : Served(req'[v])
  BY <1>1, TurnsAlone, TurnsType
<1>3. QED
  BY <1>2 DEF WecomType, TypeOK, CountersOK, Named

\* What BindCheck makes of a request.
LEMMA BindCheckRequest ==
  ASSUME WecomType, NEW w \in Workers, NEW u \in Users, BindCheck(w, u)
  PROVE  /\ req' = [req EXCEPT ![w] = req'[w]]
         /\ req'[w] \in Request /\ Served(req'[w])
         /\ req'[w].op = "binding" /\ req'[w].cookie = req[w].cookie
         /\ req'[w].user = u /\ req'[w].version = users[u].version /\ req'[w].unbinds = unbinds[u]
         /\ UNCHANGED <<config, bindings, users, challenges, cookie, sessions, begun, decisions,
                        unbinds, cancelled>>
<1> DEFINE n == [req[w] EXCEPT !.op = "binding", !.user = u, !.version = users[u].version,
                               !.unbinds = unbinds[u]]
<1>1. req[w] \in Request /\ users[u].version \in Nat /\ unbinds[u] \in Nat
  BY DEF WecomType, TypeOK, CountersOK, Account
<1>2. req[w].cookie \in Cookie /\ req[w].cookie.flow \in Flows
  BY <1>1 DEF BindCheck, Request, Cookie
<1>3. /\ n \in Request /\ n.op = "binding" /\ n.cookie = req[w].cookie
      /\ n.user = u /\ n.version = users[u].version /\ n.unbinds = unbinds[u]
  BY <1>1 DEF Request, OpNames
<1>4. req' = [req EXCEPT ![w] = n] /\ req \in [Workers -> Request]
  BY DEF BindCheck, WecomType, TypeOK
<1> HIDE DEF n
<1>5. req'[w] = n
  BY <1>4
<1>6. Served(n)
  BY <1>2, <1>3 DEF Served
<1>7. UNCHANGED <<config, bindings, users, challenges, cookie, sessions, begun, decisions,
                  unbinds, cancelled>>
  BY DEF BindCheck
<1>8. QED
  BY <1>3, <1>4, <1>5, <1>6, <1>7

\* What LoginRead makes of a request.
LEMMA LoginReadRequest ==
  ASSUME WecomType, NEW w \in Workers, NEW u \in Users, LoginRead(w, u)
  PROVE  /\ req' = [req EXCEPT ![w] = req'[w]]
         /\ req'[w] \in Request /\ Served(req'[w])
         /\ req'[w].op = "login"
         /\ req'[w].user = u /\ req'[w].version = users[u].version /\ req'[w].unbinds = unbinds[u]
         /\ UNCHANGED <<config, bindings, users, challenges, cookie, sessions, begun, decisions,
                        unbinds, cancelled>>
<1> DEFINE n == [Idle EXCEPT !.op = "login", !.user = u, !.version = users[u].version,
                             !.unbinds = unbinds[u]]
<1>1. users[u].version \in Nat /\ unbinds[u] \in Nat
  BY DEF WecomType, TypeOK, CountersOK, Account
<1>2. /\ n \in Request /\ n.op = "login"
      /\ n.user = u /\ n.version = users[u].version /\ n.unbinds = unbinds[u]
  BY <1>1, IdleType DEF Request, OpNames
<1>3. req' = [req EXCEPT ![w] = n] /\ req \in [Workers -> Request]
  BY DEF LoginRead, WecomType, TypeOK
<1> HIDE DEF n
<1>4. req'[w] = n
  BY <1>3
<1>5. Served(n)
  BY <1>2 DEF Served
<1>6. UNCHANGED <<config, bindings, users, challenges, cookie, sessions, begun, decisions,
                  unbinds, cancelled>>
  BY DEF LoginRead
<1>7. QED
  BY <1>2, <1>3, <1>4, <1>5, <1>6

\* The steps that only change what is done for one request: op is the state it
\* is in afterwards.
Onward(w, op) ==
  /\ req' = [req EXCEPT ![w] = [req[w] EXCEPT !.op = op]]
  /\ UNCHANGED <<config, bindings, users, challenges, cookie, sessions, begun, decisions, unbinds,
                 cancelled>>

LEMMA OnwardType ==
  ASSUME WecomType, NEW w \in Workers, NEW op \in OpNames, Onward(w, op),
         op \in {"answering", "linking"} => req[w].cookie.flow \in Flows,
         op = "linking" => req[w].user \in Users,
         op \in {"answering", "linking", "waiting"}
  PROVE  WecomType'
<1> DEFINE n == [req[w] EXCEPT !.op = op]
<1>1. req[w] \in Request
  BY DEF WecomType, TypeOK
<1>2. n \in Request /\ n.op = op /\ n.cookie = req[w].cookie /\ n.user = req[w].user
  BY <1>1, OpStep
<1>3. req' = [req EXCEPT ![w] = n]
  BY DEF Onward
<1> HIDE DEF n
<1>4. Served(n)
  BY <1>2 DEF Served
<1>5. QED
  BY <1>2, <1>3, <1>4, RequestStep DEF Onward

\* What CallbackConsume makes of a request.
LEMMA ConsumeRequest ==
  ASSUME WecomType, NEW w \in Workers, CallbackConsume(w)
  PROVE  /\ req' = [req EXCEPT ![w] = req'[w]]
         /\ req'[w] \in Request /\ Served(req'[w])
         /\ req'[w].op = "marking" /\ req'[w].cookie = req[w].cookie /\ req[w].cookie.flow \in Flows
<1> DEFINE n == [req[w] EXCEPT !.op = "marking", !.revision = config.revision]
<1>1. req[w] \in Request /\ config.revision \in Nat
  BY DEF WecomType, TypeOK, Config
<1>2. req[w].cookie \in Cookie /\ req[w].cookie.flow \in Flows
  BY <1>1 DEF CallbackConsume, Request, Cookie
<1>3. n \in Request /\ n.op = "marking" /\ n.cookie = req[w].cookie
  BY <1>1 DEF Request, OpNames
<1>4. req' = [req EXCEPT ![w] = n] /\ req \in [Workers -> Request]
  BY DEF CallbackConsume, WecomType, TypeOK
<1> HIDE DEF n
<1>5. req'[w] = n
  BY <1>4
<1>6. Served(n)
  BY <1>2, <1>3 DEF Served
<1>7. QED
  BY <1>2, <1>3, <1>4, <1>5, <1>6

\* What a request is when it is sent.
LEMMA SendRequest ==
  ASSUME TypeOK, NEW op \in {"start", "callback", "bind", "cancel"}
  PROVE  LET n == [Idle EXCEPT !.op = op, !.cookie = cookie]
         IN  n \in Request /\ n.op = op /\ Served(n)
BY IdleType DEF TypeOK, Request, OpNames, Served

\* What commits the sign-in of w gives it as an answer.
LEMMA AnswerTurns ==
  ASSUME WecomType, NEW w \in Workers, NEW c \in Cookie, Commits(w, Answer(c))
  PROVE  /\ Turns(w, Answer(c))
         /\ req' \in [Workers -> Request] /\ \A v \in Workers : Served(req'[v])
BY AnswerType, TurnsCommits, TurnsType DEF WecomType

LEMMA TypeNext == WecomType /\ Held /\ [Next]_vars => WecomType'
<1> SUFFICES ASSUME WecomType, Held, [Next]_vars
             PROVE  WecomType'
  OBVIOUS
<1>0. TypeOK /\ Named
  BY DEF WecomType
<1>1. CASE SaveConfig
  BY <1>1, AllGoneStep DEF SaveConfig, Invalidate, WecomType, TypeOK, CountersOK, Named, Config
<1>2. ASSUME NEW m \in Members, NEW u \in Users, Prebind(m, u)
      PROVE  WecomType'
  <2>1. config' \in Config
    BY <1>0, <1>2 DEF Prebind, TypeOK, Config
  <2>2. TypeOK'
    BY <1>0, <1>2, <2>1, AllGoneStep, BindingStep DEF Prebind, Invalidate, TypeOK
  <2>3. CountersOK' /\ Named'
    BY <1>0, <1>2, AllGoneStep DEF Prebind, Invalidate, WecomType, CountersOK, Named
  <2>4. QED
    BY <2>2, <2>3 DEF WecomType
<1>3. ASSUME NEW b \in bindings, Unbind(b)
      PROVE  WecomType'
  <2>1. config' \in Config
    BY <1>0, <1>3 DEF Unbind, TypeOK, Config
  <2>2. b.user \in Users
    BY <1>0 DEF TypeOK, Binding
  <2>3. users' \in [Users -> Account]
    <3>1. users[b.user] \in Account
      BY <1>0, <2>2 DEF TypeOK
    <3>2. [users[b.user] EXCEPT !.version = @ + 1] \in Account
      BY <3>1 DEF Account
    <3>3. users' = [users EXCEPT ![b.user] = [users[b.user] EXCEPT !.version = @ + 1]]
      BY <1>3 DEF Unbind
    <3>4. QED
      BY <1>0, <3>2, <3>3 DEF TypeOK
  <2>4. TypeOK'
    BY <1>0, <1>3, <2>1, <2>3, AllGoneStep DEF Unbind, Invalidate, TypeOK
  <2>5. unbinds' \in [Users -> Nat]
    BY <1>3, <2>2 DEF Unbind, WecomType, CountersOK
  <2>6. CountersOK' /\ Named'
    BY <1>0, <1>3, <2>5, AllGoneStep DEF Unbind, Invalidate, WecomType, CountersOK, Named
  <2>7. QED
    BY <2>4, <2>6 DEF WecomType
<1>4. ASSUME NEW u \in Users, AccountChange(u)
      PROVE  WecomType'
  BY <1>4 DEF AccountChange, WecomType, TypeOK, CountersOK, Named, Account
<1>5. ASSUME NEW f \in Flows, Expire(f)
      PROVE  WecomType'
  BY <1>0, <1>5, ExpireStep DEF Expire, WecomType, TypeOK, CountersOK, Named
<1>6. ASSUME NEW w \in Workers, NEW op \in OpNames, Send(w, op)
      PROVE  WecomType'
  BY <1>0, <1>6, SendRequest, RequestStep DEF Send
<1>7. ASSUME NEW w \in Workers, Receive(w)
      PROVE  WecomType'
  <2>1. cookie' \in Cookie
    BY <1>0, <1>7 DEF Receive, TypeOK, Request
  <2>2. req' \in [Workers -> Request] /\ \A v \in Workers : Served(req'[v])
    BY <1>0, <1>7, IdleType, TurnsAlone, TurnsType DEF Receive
  <2>3. QED
    BY <1>7, <2>1, <2>2 DEF Receive, WecomType, TypeOK, CountersOK, Named
<1>8. ASSUME NEW w \in Workers, Lose(w) \/ BindFails(w)
      PROVE  WecomType'
  BY <1>8, IdleType, RequestStep DEF Lose, BindFails
<1>9. ASSUME NEW w \in Workers, CallbackFails(w) \/ CancelNothing(w)
      PROVE  WecomType'
  BY <1>9, NoCookieType, AnswerType, RequestStep DEF CallbackFails, CancelNothing
<1>10. ASSUME NEW w \in Workers, NEW f \in Flows, BeginFlow(w, f)
       PROVE  WecomType'
  <2>1. [flow |-> f, token |-> "state"] \in Cookie
    BY DEF Cookie
  <2>2. req' \in [Workers -> Request] /\ \A v \in Workers : Served(req'[v])
    BY <1>0, <1>10, <2>1, AnswerType, TurnsAlone, TurnsType DEF BeginFlow
  <2>3. /\ challenges' \in [Flows -> Challenge]
        /\ \A g \in Flows : challenges'[g].stage = "bind" => challenges'[g].member \in Members
    BY <1>0, <1>10, BeginStep, DeletedType DEF Named
  <2>4. QED
    BY <1>10, <2>2, <2>3 DEF BeginFlow, WecomType, TypeOK, CountersOK, Named
<1>11. ASSUME NEW w \in Workers, CallbackConsume(w)
       PROVE  WecomType'
  BY <1>11, ConsumeRequest, RequestStep DEF CallbackConsume
<1>12. ASSUME NEW w \in Workers, CallbackMarked(w)
       PROVE  WecomType'
  <2> DEFINE n == [req[w] EXCEPT !.op = "asking"]
  <2>1. req[w] \in Request /\ req[w].cookie.flow \in Flows
    BY <1>0, <1>12 DEF CallbackMarked, TypeOK, Named, Served
  <2>2. n \in Request /\ n.op = "asking" /\ n.cookie = req[w].cookie
    BY <2>1, OpStep DEF OpNames
  <2>3. Commits(w, n)
    BY <1>12 DEF CallbackMarked
  <2> HIDE DEF n
  <2>4. Served(n)
    BY <2>1, <2>2 DEF Served
  <2>5. req' \in [Workers -> Request] /\ \A v \in Workers : Served(req'[v])
    BY <1>0, <2>2, <2>3, <2>4, TurnsCommits, TurnsType
  <2>6. /\ challenges' \in [Flows -> Challenge]
        /\ \A g \in Flows : challenges'[g].stage = "bind" => challenges'[g].member \in Members
    <3>1. PICK f \in Flows : f = req[w].cookie.flow
      BY <2>1
    <3>2. challenges' = [challenges EXCEPT ![f].stage = "exchange"]
      BY <1>12, <3>1 DEF CallbackMarked
    <3>3. QED
      BY <1>0, <3>2, StageStep
  <2>7. QED
    BY <1>12, <2>5, <2>6 DEF CallbackMarked, WecomType, TypeOK, CountersOK, Named
<1>13. ASSUME NEW w \in Workers, AnswerConsume(w)
       PROVE  WecomType'
  BY <1>0, <1>13, OnwardType DEF AnswerConsume, Onward, OpNames, Named, Served
<1>14. ASSUME NEW w \in Workers, NEW m \in Members, AnswerUnknown(w, m)
       PROVE  WecomType'
  <2>1. PICK f \in Flows : f = req[w].cookie.flow
    BY <1>0, <1>14 DEF AnswerUnknown, Named, Served
  <2>2. [flow |-> f, token |-> "bind"] \in Cookie
    BY DEF Cookie
  <2>3. req' \in [Workers -> Request] /\ \A v \in Workers : Served(req'[v])
    BY <1>14, <2>1, <2>2, AnswerTurns DEF AnswerUnknown
  <2>4. LET c == [stage |-> "bind", revision |-> config.revision, member |-> m, expired |-> FALSE]
        IN  c \in Challenge /\ c.member \in Members /\ challenges' = [challenges EXCEPT ![f] = c]
    BY <1>0, <1>14, <2>1 DEF AnswerUnknown, TypeOK, Config, Challenge
  <2>5. /\ challenges' \in [Flows -> Challenge]
        /\ \A g \in Flows : challenges'[g].stage = "bind" => challenges'[g].member \in Members
    BY <1>0, <2>4, RowStep
  <2>6. QED
    BY <1>14, <2>3, <2>5 DEF AnswerUnknown, WecomType, TypeOK, CountersOK, Named
<1>15. ASSUME NEW w \in Workers, NEW m \in Members, NEW b \in bindings, AnswerKnown(w, m, b)
       PROVE  WecomType'
  <2>1. PICK f \in Flows : f = req[w].cookie.flow
    BY <1>0, <1>15 DEF AnswerKnown, Named, Served
  <2>2. /\ req[w] \in Request
        /\ b.user \in Users /\ users[b.user].version \in Nat /\ unbinds[b.user] \in Nat
    BY <1>0 DEF WecomType, TypeOK, CountersOK, Binding, Account
  <2>3. [req[w] EXCEPT !.unbinds = unbinds[b.user]] \in Request
    BY <2>2 DEF Request
  <2>4. sessions' \subseteq Session
    BY <1>0, <1>15, <2>2, <2>3, IssuedType DEF AnswerKnown
  <2>5. req' \in [Workers -> Request] /\ \A v \in Workers : Served(req'[v])
    BY <1>15, NoCookieType, AnswerTurns DEF AnswerKnown
  <2>6. /\ challenges' \in [Flows -> Challenge]
        /\ \A g \in Flows : challenges'[g].stage = "bind" => challenges'[g].member \in Members
    BY <1>0, <1>15, <2>1, GoneStep DEF AnswerKnown
  <2>7. QED
    BY <1>15, <2>4, <2>5, <2>6 DEF AnswerKnown, WecomType, TypeOK, CountersOK, Named
<1>16. ASSUME NEW w \in Workers, NEW u \in Users, BindCheck(w, u)
       PROVE  WecomType'
  BY <1>16, BindCheckRequest, RequestStep
<1>17. ASSUME NEW w \in Workers, BindClaim(w)
       PROVE  WecomType'
  BY <1>0, <1>17, OnwardType DEF BindClaim, Onward, OpNames, Named, Served
<1>18. ASSUME NEW w \in Workers, BindCommit(w)
       PROVE  WecomType'
  <2> DEFINE r == req[w]
             m == challenges[r.cookie.flow].member
  <2>1. PICK f \in Flows : f = r.cookie.flow
    BY <1>0, <1>18 DEF BindCommit, Named, Served
  <2>2. r \in Request /\ r.user \in Users /\ r.version \in Nat
    BY <1>0, <1>18 DEF BindCommit, TypeOK, Named, Served, Request
  <2>3. sessions' \subseteq Session
    BY <1>0, <1>18, <2>2, IssuedType DEF BindCommit
  <2>4. req' \in [Workers -> Request] /\ \A v \in Workers : Served(req'[v])
    BY <1>18, NoCookieType, AnswerTurns DEF BindCommit
  <2>5. /\ challenges' \in [Flows -> Challenge]
        /\ \A g \in Flows : challenges'[g].stage = "bind" => challenges'[g].member \in Members
    BY <1>0, <1>18, <2>1, GoneStep DEF BindCommit
  <2>6. m \in Members
    <3>1. r.op = "linking"
      BY <1>18 DEF BindCommit
    <3>2. challenges[f].stage = "bind"
      BY <2>1, <3>1 DEF Held, Fits
    <3>3. QED
      BY <1>0, <2>1, <3>2 DEF Named
  <2>7. /\ bindings' \subseteq Binding
        /\ \A b, c \in bindings' : b.corp = c.corp => (b.member = c.member <=> b.user = c.user)
    BY <1>0, <1>18, <2>2, <2>6, BindingStep DEF BindCommit
  <2>8. QED
    BY <1>18, <2>3, <2>4, <2>5, <2>7 DEF BindCommit, WecomType, TypeOK, CountersOK, Named
<1>19. ASSUME NEW w \in Workers, NEW f \in Flows, CancelWaits(w, f)
       PROVE  WecomType'
  BY <1>19, OnwardType DEF CancelWaits, Onward, OpNames
<1>20. ASSUME NEW w \in Workers, NEW f \in Flows, CancelDeletes(w, f)
       PROVE  WecomType'
  <2>1. req' \in [Workers -> Request] /\ \A v \in Workers : Served(req'[v])
    BY <1>0, <1>20, NoCookieType, AnswerType, TurnsAlone, TurnsType DEF CancelDeletes
  <2>2. /\ challenges' \in [Flows -> Challenge]
        /\ \A g \in Flows : challenges'[g].stage = "bind" => challenges'[g].member \in Members
    BY <1>0, <1>20, GoneStep DEF CancelDeletes
  <2>3. QED
    BY <1>20, <2>1, <2>2 DEF CancelDeletes, WecomType, TypeOK, CountersOK, Named
<1>21. ASSUME NEW w \in Workers, NEW u \in Users, LoginRead(w, u)
       PROVE  WecomType'
  BY <1>21, LoginReadRequest, RequestStep
<1>22. ASSUME NEW w \in Workers, LoginInsert(w)
       PROVE  WecomType'
  <2>1. req' \in [Workers -> Request] /\ \A v \in Workers : Served(req'[v])
    BY <1>0, <1>22, IdleType, TurnsAlone, TurnsType DEF LoginInsert
  <2>2. sessions' \subseteq Session
    BY <1>0, <1>22 DEF LoginInsert, TypeOK, Named, Served, Request, Session
  <2>3. QED
    BY <1>22, <2>1, <2>2 DEF LoginInsert, WecomType, TypeOK, CountersOK, Named
<1>23. CASE UNCHANGED vars
  BY <1>23 DEF vars, WecomType, TypeOK, CountersOK, Named
<1>24. QED
  BY <1>1, <1>2, <1>3, <1>4, <1>5, <1>6, <1>7, <1>8, <1>9, <1>10, <1>11, <1>12, <1>13, <1>14,
     <1>15, <1>16, <1>17, <1>18, <1>19, <1>20, <1>21, <1>22, <1>23
     DEF Next, Administrator, SignIn, Bind, Cancel, Login

-----------------------------------------------------------------------------
(* Sessions and the versions of accounts.                                  *)

\* Past in the next state, of what was read before.
StillPast(u, version, n) ==
  /\ version <= users'[u].version
  /\ version = users'[u].version => n = unbinds'[u]

\* An unbinding moves the version of its account.
VersionsMove ==
  \A u \in Users : \/ users'[u].version = users[u].version /\ unbinds'[u] = unbinds[u]
                   \/ users'[u].version = users[u].version + 1

\* So what was read stays past.
LEMMA PastKept ==
  ASSUME WecomType, WecomType', VersionsMove, NEW u \in Users, NEW v \in Nat, NEW n, Past(u, v, n)
  PROVE  StillPast(u, v, n)
<1>1. users[u].version \in Nat /\ users'[u].version \in Nat
  BY DEF WecomType, TypeOK, Account
<1>2. QED
  BY <1>1 DEF VersionsMove, Past, StillPast

\* What a request has read of an account: kept, or read now.
Kept(v) ==
  req'[v].op \in {"binding", "linking", "login"} =>
    \/ /\ req[v].op \in {"binding", "linking", "login"}
       /\ req'[v].user = req[v].user /\ req'[v].version = req[v].version
       /\ req'[v].unbinds = req[v].unbinds
    \/ StillPast(req'[v].user, req'[v].version, req'[v].unbinds)

\* A session that is issued is of the account as it was read.
LEMMA VersionsStep ==
  ASSUME WecomType, WecomType', VersionsPast, PasswordStillProved, VersionsMove,
         \A s \in sessions' :
           s \in sessions \/ (StillPast(s.user, s.version, s.unbinds) /\ s.proved = s.version),
         \A v \in Workers : Kept(v)
  PROVE  VersionsPast' /\ PasswordStillProved'
<1>1. ASSUME NEW s \in sessions'
      PROVE  StillPast(s.user, s.version, s.unbinds) /\ s.proved = s.version
  <2>1. CASE s \in sessions
    <3>1. s.user \in Users /\ s.version \in Nat
      BY <2>1 DEF WecomType, TypeOK, Session
    <3>2. Past(s.user, s.version, s.unbinds) /\ s.proved = s.version
      BY <2>1 DEF VersionsPast, PasswordStillProved
    <3>3. QED
      BY <3>1, <3>2, PastKept
  <2>2. CASE s \notin sessions
    BY <2>2
  <2>3. QED
    BY <2>1, <2>2
<1>2. ASSUME NEW w \in Workers, req'[w].op \in {"binding", "linking", "login"}
      PROVE  StillPast(req'[w].user, req'[w].version, req'[w].unbinds)
  <2>1. CASE /\ req[w].op \in {"binding", "linking", "login"}
             /\ req'[w].user = req[w].user /\ req'[w].version = req[w].version
             /\ req'[w].unbinds = req[w].unbinds
    <3>1. req[w].user \in Users /\ req[w].version \in Nat
      BY <2>1 DEF WecomType, TypeOK, Named, Served, Request
    <3>2. Past(req[w].user, req[w].version, req[w].unbinds)
      BY <2>1 DEF VersionsPast
    <3>3. StillPast(req[w].user, req[w].version, req[w].unbinds)
      BY <3>1, <3>2, PastKept
    <3>4. QED
      BY <2>1, <3>3
  <2>2. QED
    BY <1>2, <2>1 DEF Kept
<1>3. QED
  BY <1>1, <1>2 DEF VersionsPast, PasswordStillProved, Past, StillPast

\* A step of one request that reads no account.
LEMMA KeptBy ==
  ASSUME TypeOK, NEW w \in Workers, NEW r, Turns(w, r), r.op \notin {"binding", "linking", "login"}
  PROVE  \A v \in Workers : Kept(v)
<1>1. Answer(NoCookie).op = "replied"
  BY NoCookieType, AnswerType
<1>2. QED
  BY <1>1 DEF Turns, Kept

LEMMA VersionsNext ==
  ASSUME WecomType, WecomType', VersionsPast, PasswordStillProved, [Next]_vars
  PROVE  VersionsPast' /\ PasswordStillProved'
<1> DEFINE Goal == VersionsPast' /\ PasswordStillProved'
<1>0. TypeOK
  BY DEF WecomType
<1>kept. ASSUME UNCHANGED <<users, unbinds, sessions>>, \A v \in Workers : Kept(v)
      PROVE  Goal
  BY <1>kept, VersionsStep DEF VersionsMove
<1>idle. ASSUME UNCHANGED <<users, unbinds, sessions>>, req' = req
      PROVE  Goal
  BY <1>kept, <1>idle DEF Kept
<1>turn. ASSUME NEW w \in Workers, NEW r, UNCHANGED <<users, unbinds, sessions>>, Turns(w, r),
             r.op \notin {"binding", "linking", "login"}
      PROVE  Goal
  BY <1>0, <1>kept, <1>turn, KeptBy
<1> HIDE DEF Goal
<1>1. ASSUME SaveConfig \/ (\E m \in Members, u \in Users : Prebind(m, u))
      PROVE  Goal
  <2>1. UNCHANGED <<users, unbinds, sessions>> /\ req' = req
    BY <1>1 DEF SaveConfig, Prebind
  <2>2. QED
    BY <1>idle, <2>1
<1>2. ASSUME NEW b \in bindings, Unbind(b)
      PROVE  Goal
  <2>1. b.user \in Users /\ users[b.user] \in Account
    BY DEF WecomType, TypeOK, Binding
  <2>2. users' = [users EXCEPT ![b.user] = [users[b.user] EXCEPT !.version = @ + 1]]
    BY <1>2 DEF Unbind
  <2>3. [users[b.user] EXCEPT !.version = @ + 1].version = users[b.user].version + 1
    BY <2>1 DEF Account
  <2>4. VersionsMove
    BY <1>2, <2>1, <2>2, <2>3 DEF VersionsMove, Unbind, WecomType, TypeOK, CountersOK
  <2>5. sessions' \subseteq sessions /\ req' = req
    BY <1>2 DEF Unbind
  <2>6. QED
    BY <2>4, <2>5, VersionsStep DEF Goal, Kept
<1>3. ASSUME NEW u \in Users, AccountChange(u)
      PROVE  Goal
  <2>1. VersionsMove
    BY <1>3 DEF VersionsMove, AccountChange, WecomType, TypeOK
  <2>2. sessions' = sessions /\ req' = req
    BY <1>3 DEF AccountChange
  <2>3. QED
    BY <2>1, <2>2, VersionsStep DEF Goal, Kept
<1>4. ASSUME NEW f \in Flows, Expire(f)
      PROVE  Goal
  BY <1>idle, <1>4 DEF Expire
<1>5. ASSUME NEW w \in Workers, NEW op \in OpNames, Send(w, op)
      PROVE  Goal
  BY <1>0, <1>turn, <1>5, SendRequest, TurnsAlone DEF Send
<1>6. ASSUME NEW w \in Workers, Receive(w) \/ Lose(w) \/ BindFails(w)
      PROVE  Goal
  BY <1>0, <1>turn, <1>6, IdleType, TurnsAlone DEF Receive, Lose, BindFails
<1>7. ASSUME NEW w \in Workers, CallbackFails(w) \/ CancelNothing(w)
      PROVE  Goal
  BY <1>0, <1>turn, <1>7, NoCookieType, AnswerType, TurnsAlone DEF CallbackFails, CancelNothing
<1>8. ASSUME NEW w \in Workers, NEW f \in Flows, BeginFlow(w, f)
      PROVE  Goal
  <2>1. [flow |-> f, token |-> "state"] \in Cookie
    BY DEF Cookie
  <2>2. QED
    BY <1>0, <1>turn, <1>8, <2>1, AnswerType, TurnsAlone DEF BeginFlow
<1>9. ASSUME NEW w \in Workers, CallbackConsume(w)
      PROVE  Goal
  <2>1. UNCHANGED <<users, unbinds, sessions>>
    BY <1>9 DEF CallbackConsume
  <2>2. QED
    BY <1>0, <1>turn, <1>9, <2>1, ConsumeRequest, TurnsAlone
<1>10. ASSUME NEW w \in Workers, CallbackMarked(w)
       PROVE  Goal
  <2> DEFINE n == [req[w] EXCEPT !.op = "asking"]
  <2>1. req[w] \in Request
    BY <1>0 DEF TypeOK
  <2>2. n.op = "asking"
    BY <2>1, OpStep DEF OpNames
  <2>3. Commits(w, n) /\ UNCHANGED <<users, unbinds, sessions>>
    BY <1>10 DEF CallbackMarked
  <2> HIDE DEF n
  <2>4. QED
    BY <1>0, <1>turn, <2>2, <2>3, TurnsCommits
<1>11. ASSUME NEW w \in Workers, AnswerConsume(w)
       PROVE  Goal
  <2> DEFINE n == [req[w] EXCEPT !.op = "answering"]
  <2>1. req[w] \in Request
    BY <1>0 DEF TypeOK
  <2>2. n.op = "answering"
    BY <2>1, OpStep DEF OpNames
  <2>3. req' = [req EXCEPT ![w] = n] /\ UNCHANGED <<users, unbinds, sessions>>
    BY <1>11 DEF AnswerConsume
  <2> HIDE DEF n
  <2>4. QED
    BY <1>0, <1>turn, <2>2, <2>3, TurnsAlone
<1>12. ASSUME NEW w \in Workers, NEW m \in Members, AnswerUnknown(w, m)
       PROVE  Goal
  <2>1. PICK f \in Flows : f = req[w].cookie.flow
    BY <1>12 DEF AnswerUnknown, WecomType, Named, Served
  <2>2. [flow |-> f, token |-> "bind"] \in Cookie
    BY DEF Cookie
  <2>3. QED
    BY <1>0, <1>turn, <1>12, <2>1, <2>2, AnswerType, TurnsCommits DEF AnswerUnknown
<1>13. ASSUME NEW w \in Workers, NEW m \in Members, NEW b \in bindings, AnswerKnown(w, m, b)
       PROVE  Goal
  <2> DEFINE u == b.user
             s == [user |-> u, version |-> users[u].version, proved |-> users[u].version,
                   flow |-> req[w].cookie.flow, unbinds |-> unbinds[u]]
  <2>1. /\ u \in Users /\ users[u].version \in Nat /\ unbinds[u] \in Nat
        /\ req[w] \in Request
    BY DEF WecomType, TypeOK, CountersOK, Binding, Account
  <2>2. sessions' = sessions \cup {s}
    <3>1. LET r == [req[w] EXCEPT !.unbinds = unbinds[u]]
          IN  r.cookie = req[w].cookie /\ r.unbinds = unbinds[u]
      BY <2>1 DEF Request
    <3>2. QED
      BY <1>13, <3>1 DEF AnswerKnown, Issued
  <2>3. UNCHANGED <<users, unbinds>> /\ Turns(w, Answer(NoCookie))
    BY <1>0, <1>13, TurnsCommits DEF AnswerKnown
  <2>4. StillPast(s.user, s.version, s.unbinds) /\ s.proved = s.version
    BY <2>1, <2>3 DEF StillPast
  <2>5. \A v \in Workers : Kept(v)
    BY <1>0, <2>3, NoCookieType, AnswerType, KeptBy
  <2> HIDE DEF s
  <2>6. QED
    BY <2>2, <2>3, <2>4, <2>5, VersionsStep DEF Goal, VersionsMove
<1>14. ASSUME NEW w \in Workers, NEW u \in Users, BindCheck(w, u) \/ LoginRead(w, u)
       PROVE  Goal
  <2>1. /\ req'[w].user = u /\ req'[w].version = users[u].version
        /\ req'[w].unbinds = unbinds[u]
        /\ req' = [req EXCEPT ![w] = req'[w]]
        /\ UNCHANGED <<users, unbinds, sessions>>
    BY <1>14, BindCheckRequest, LoginReadRequest
  <2>2. StillPast(req'[w].user, req'[w].version, req'[w].unbinds)
    BY <2>1 DEF StillPast, WecomType, TypeOK, Account
  <2>3. \A v \in Workers \ {w} : req'[v] = req[v]
    BY <1>0, <2>1 DEF TypeOK
  <2>4. QED
    BY <1>kept, <2>1, <2>2, <2>3 DEF Kept
<1>15. ASSUME NEW w \in Workers, BindClaim(w)
       PROVE  Goal
  <2> DEFINE n == [req[w] EXCEPT !.op = "linking"]
  <2>1. req[w] \in Request /\ req[w].op = "binding"
    BY <1>0, <1>15 DEF BindClaim, TypeOK
  <2>2. n.user = req[w].user /\ n.version = req[w].version /\ n.unbinds = req[w].unbinds
    BY <2>1, OpStep DEF OpNames
  <2>3. req' = [req EXCEPT ![w] = n] /\ UNCHANGED <<users, unbinds, sessions>>
    BY <1>15 DEF BindClaim
  <2> HIDE DEF n
  <2>4. req'[w] = n /\ \A v \in Workers \ {w} : req'[v] = req[v]
    BY <1>0, <2>3 DEF TypeOK
  <2>5. QED
    BY <1>kept, <2>1, <2>2, <2>3, <2>4 DEF Kept
<1>16. ASSUME NEW w \in Workers, BindCommit(w) \/ LoginInsert(w)
       PROVE  Goal
  <2> DEFINE r == req[w]
             s == [user |-> r.user, version |-> r.version, proved |-> r.version,
                   flow |-> IF r.op = "login" THEN NoFlow ELSE r.cookie.flow,
                   unbinds |-> r.unbinds]
  <2>1. UNCHANGED <<users, unbinds>> /\ r.op \in {"linking", "login"}
    BY <1>16 DEF BindCommit, LoginInsert
  <2>2. \A v \in Workers : Kept(v)
    <3>1. CASE BindCommit(w)
      BY <1>0, <3>1, NoCookieType, AnswerType, TurnsCommits, KeptBy DEF BindCommit
    <3>2. CASE LoginInsert(w)
      BY <1>0, <3>2, IdleType, TurnsAlone, KeptBy DEF LoginInsert
    <3>3. QED
      BY <1>16, <3>1, <3>2
  <2>3. sessions' = sessions \cup {s}
    BY <1>16 DEF BindCommit, LoginInsert, Issued
  <2>4. StillPast(s.user, s.version, s.unbinds) /\ s.proved = s.version
    BY <2>1 DEF VersionsPast, Past, StillPast
  <2> HIDE DEF s
  <2>5. QED
    BY <2>1, <2>2, <2>3, <2>4, VersionsStep DEF Goal, VersionsMove
<1>17. ASSUME NEW w \in Workers, NEW f \in Flows, CancelWaits(w, f)
       PROVE  Goal
  <2> DEFINE n == [req[w] EXCEPT !.op = "waiting"]
  <2>1. req[w] \in Request
    BY <1>0 DEF TypeOK
  <2>2. n.op = "waiting"
    BY <2>1, OpStep DEF OpNames
  <2>3. req' = [req EXCEPT ![w] = n] /\ UNCHANGED <<users, unbinds, sessions>>
    BY <1>17 DEF CancelWaits
  <2> HIDE DEF n
  <2>4. QED
    BY <1>0, <1>turn, <2>2, <2>3, TurnsAlone
<1>18. ASSUME NEW w \in Workers, NEW f \in Flows, CancelDeletes(w, f)
       PROVE  Goal
  BY <1>0, <1>turn, <1>18, NoCookieType, AnswerType, TurnsAlone DEF CancelDeletes
<1>19. ASSUME UNCHANGED vars
       PROVE  Goal
  BY <1>idle, <1>19 DEF vars
<1>20. Goal
  BY <1>1, <1>2, <1>3, <1>4, <1>5, <1>6, <1>7, <1>8, <1>9, <1>10, <1>11, <1>12, <1>13, <1>14,
     <1>15, <1>16, <1>17, <1>18, <1>19
     DEF Next, Administrator, SignIn, Bind, Cancel, Login
<1>21. QED
  BY <1>20 DEF Goal

-----------------------------------------------------------------------------
(* Flows, decisions and cancellations.                                     *)

\* A transaction ends, or a request goes on that holds nothing: the challenges
\* the others have deleted are of the stage they were.
LEMMA HeldKept ==
  ASSUME TypeOK, Held, NEW w \in Workers, NEW r, Turns(w, r), r.op \notin Holding,
         \A v \in Workers \ {w} : req[v].op \in Holding =>
           challenges'[req[v].cookie.flow].stage = challenges[req[v].cookie.flow].stage
  PROVE  Held'
<1>1. Answer(NoCookie).op = "replied"
  BY NoCookieType, AnswerType
<1>2. \A v \in Workers : req'[v].op \in Holding =>
        v # w /\ req'[v] = req[v] /\ req[v].op \in Holding
  BY <1>1 DEF Turns, Holding
<1>3. \A v \in Workers : Fits(req[v], challenges[req[v].cookie.flow].stage)
  BY DEF Held
<1>4. ASSUME NEW v \in Workers
      PROVE  Fits(req'[v], challenges'[req'[v].cookie.flow].stage)
  <2>1. CASE req'[v].op \in Holding
    <3>1. v # w /\ req'[v] = req[v]
          /\ challenges'[req[v].cookie.flow].stage = challenges[req[v].cookie.flow].stage
      BY <1>2, <2>1
    <3>2. QED
      BY <1>3, <3>1 DEF Fits
  <2>2. CASE req'[v].op \notin Holding
    BY <2>2 DEF Holding, Fits
  <2>3. QED
    BY <2>1, <2>2
<1>5. \A u, v \in Workers : req'[u].op \in Holding /\ req'[v].op \in Holding => u = v
  BY <1>2 DEF Held
<1>6. QED
  BY <1>4, <1>5 DEF Held

\* A transaction locks the configuration when no other holds it, and finds a
\* challenge of the stage it looks for.
LEMMA HeldTaken ==
  ASSUME TypeOK, Held, ConfigUnlocked, NEW w \in Workers, NEW r, req' = [req EXCEPT ![w] = r],
         challenges' = challenges, Fits(r, challenges[r.cookie.flow].stage)
  PROVE  Held'
<1>1. req'[w] = r /\ \A v \in Workers \ {w} : req'[v] = req[v] /\ req[v].op \notin Holding
  BY DEF TypeOK, ConfigUnlocked
<1>2. \A v \in Workers : Fits(req'[v], challenges'[req'[v].cookie.flow].stage)
  BY <1>1 DEF Held
<1>3. \A u, v \in Workers : req'[u].op \in Holding /\ req'[v].op \in Holding => u = v
  BY <1>1
<1>4. QED
  BY <1>2, <1>3 DEF Held

\* No challenge comes to life and none that is gone comes back; a session is
\* issued for a flow that is not used up and then is; a cancellation uses a
\* flow up that is not.
LEMMA FlowsStep ==
  ASSUME WecomType, WecomType', FlowsInv, UNCHANGED <<begun, decisions>>,
         \A f \in Flows : challenges'[f].stage \in Live => challenges[f].stage \in Live,
         \A f \in Flows : challenges[f].stage = "gone" => challenges'[f].stage = "gone",
         \A s \in sessions' :
           \/ s \in sessions \/ s.flow = NoFlow
           \/ challenges[s.flow].stage # "gone" /\ challenges'[s.flow].stage = "gone",
         \A f \in cancelled' : \/ f \in cancelled
                               \/ challenges[f].stage # "gone" /\ challenges'[f].stage = "gone",
         sessions' = sessions \/ cancelled' = cancelled
  PROVE  LiveIsCurrent' /\ UsedUp' /\ CancelledFlowsEnd'
<1>1. cancelled \subseteq Flows /\ cancelled' \subseteq Flows
  BY DEF WecomType, CountersOK
<1>2. \A s \in sessions' : s.flow \in Flows \cup {NoFlow}
  BY DEF WecomType, TypeOK, Session
<1>3. \A s \in sessions : s.flow # NoFlow => challenges[s.flow].stage = "gone"
  BY DEF FlowsInv, UsedUp
<1>4. \A f \in cancelled : challenges[f].stage = "gone"
  BY DEF FlowsInv, UsedUp
<1>5. \A s \in sessions' : s.flow # NoFlow => challenges'[s.flow].stage = "gone"
  BY <1>2, <1>3
<1>6. \A f \in cancelled' : challenges'[f].stage = "gone"
  BY <1>1, <1>4
<1>7. ASSUME NEW s \in sessions', s.flow \in cancelled'
      PROVE  FALSE
  <2>1. s.flow # NoFlow /\ s.flow \in Flows
    BY <1>1, <1>7, WecomAuthAssumption
  <2>2. CASE sessions' = sessions
    BY <1>3, <1>7, <2>1, <2>2 DEF FlowsInv, CancelledFlowsEnd
  <2>3. CASE cancelled' = cancelled
    BY <1>4, <1>7, <2>1, <2>3 DEF FlowsInv, CancelledFlowsEnd
  <2>4. QED
    BY <2>2, <2>3
<1>8. LiveIsCurrent'
  BY DEF FlowsInv, LiveIsCurrent
<1>9. QED
  BY <1>5, <1>6, <1>7, <1>8 DEF UsedUp, CancelledFlowsEnd

\* A request goes on, and neither flows nor sessions change.
LEMMA FlowsIdle ==
  ASSUME WecomType, WecomType', FlowsInv,
         UNCHANGED <<challenges, sessions, begun, decisions, cancelled>>
  PROVE  LiveIsCurrent' /\ UsedUp' /\ CancelledFlowsEnd'
BY FlowsStep

LEMMA TurnIdle ==
  ASSUME WecomType, WecomType', FlowsInv, NEW w \in Workers, NEW r, req' = [req EXCEPT ![w] = r],
         r.op \notin Holding, UNCHANGED <<challenges, sessions, begun, decisions, cancelled>>
  PROVE  FlowsInv'
<1>1. Held'
  BY TurnsAlone, HeldKept DEF WecomType, FlowsInv
<1>2. QED
  BY <1>1, FlowsIdle DEF FlowsInv

\* A decision of an administrator ends every flow.
LEMMA InvalidateStep ==
  ASSUME WecomType, FlowsInv, ConfigUnlocked, Invalidate,
         UNCHANGED <<req, begun, cancelled>>, sessions' \subseteq sessions
  PROVE  FlowsInv'
<1>1. /\ \A f \in Flows : challenges'[f].stage \in {"none", "gone"}
      /\ \A f \in Flows : challenges[f].stage = "gone" => challenges'[f].stage = "gone"
  BY AllGoneStep DEF Invalidate, WecomType
<1>2. Held'
  BY DEF ConfigUnlocked, Holding, Held, Fits
<1>3. LiveIsCurrent'
  BY <1>1 DEF LiveIsCurrent, Live
<1>4. UsedUp' /\ CancelledFlowsEnd'
  BY <1>1 DEF FlowsInv, UsedUp, CancelledFlowsEnd, WecomType, TypeOK, CountersOK, Session
<1>5. QED
  BY <1>2, <1>3, <1>4 DEF FlowsInv

\* A transaction commits: the row of its flow f is replaced or deleted, and in
\* the latter case a session may be issued for f.
LEMMA CommitStep ==
  ASSUME WecomType, WecomType', FlowsInv, NEW w \in Workers, NEW f \in Flows, NEW r,
         req[w].op \in Holding, Commits(w, r), r.op \notin Holding,
         challenges[f].stage \in Live, challenges'[f].stage \in Live \cup {"gone"},
         \A g \in Flows \ {f} : challenges'[g] = challenges[g],
         UNCHANGED <<begun, decisions, cancelled>>,
         \A s \in sessions' : s \in sessions \/ (s.flow = f /\ challenges'[f].stage = "gone")
  PROVE  FlowsInv'
<1>1. \A v \in Workers \ {w} : req[v].op \notin Holding
  BY DEF FlowsInv, Held
<1>2. Held'
  BY <1>1, TurnsCommits, HeldKept DEF WecomType, FlowsInv
<1>3. challenges[f].stage # "gone"
  BY DEF Live
<1>4. LiveIsCurrent' /\ UsedUp' /\ CancelledFlowsEnd'
  BY <1>3, FlowsStep
<1>5. QED
  BY <1>2, <1>4 DEF FlowsInv

\* The challenge of a flow that is being committed.
LEMMA HeldStage ==
  ASSUME WecomType, FlowsInv, NEW w \in Workers, req[w].op \in Holding
  PROVE  /\ req[w].cookie.flow \in Flows /\ challenges[req[w].cookie.flow].stage \in Live
         /\ req[w].op = "answering" => challenges[req[w].cookie.flow].stage = "exchange"
         /\ req[w].op = "linking" => challenges[req[w].cookie.flow].stage = "bind"
<1>1. Fits(req[w], challenges[req[w].cookie.flow].stage) /\ Served(req[w])
  BY DEF WecomType, Named, FlowsInv, Held
<1>2. QED
  BY <1>1 DEF Fits, Served, Holding, Live

LEMMA FlowsNext ==
  ASSUME WecomType, WecomType', FlowsInv, [Next]_vars
  PROVE  FlowsInv'
<1>0. TypeOK /\ Named
  BY DEF WecomType
<1>1. CASE SaveConfig
  BY <1>1, InvalidateStep DEF SaveConfig
<1>2. ASSUME NEW m \in Members, NEW u \in Users, Prebind(m, u)
      PROVE  FlowsInv'
  BY <1>2, InvalidateStep DEF Prebind
<1>3. ASSUME NEW b \in bindings, Unbind(b)
      PROVE  FlowsInv'
  BY <1>3, InvalidateStep DEF Unbind
<1>4. ASSUME NEW u \in Users, AccountChange(u)
      PROVE  FlowsInv'
  BY <1>4, FlowsIdle DEF AccountChange, FlowsInv, Held
<1>5. ASSUME NEW f \in Flows, Expire(f)
      PROVE  FlowsInv'
  <2>1. \A g \in Flows : challenges'[g].stage = challenges[g].stage
    BY <1>0, <1>5, ExpireStep DEF Expire
  <2>2. UNCHANGED <<req, sessions, begun, decisions, cancelled>>
    BY <1>5 DEF Expire
  <2>3. \A w \in Workers : /\ Fits(req[w], challenges[req[w].cookie.flow].stage)
                           /\ Served(req[w])
    BY <1>0 DEF Named, FlowsInv, Held
  <2>4. \A w \in Workers : Fits(req'[w], challenges'[req'[w].cookie.flow].stage)
    BY <2>1, <2>2, <2>3 DEF Fits, Served
  <2>5. Held'
    BY <2>2, <2>4 DEF FlowsInv, Held
  <2>6. LiveIsCurrent' /\ UsedUp' /\ CancelledFlowsEnd'
    BY <2>1, <2>2, FlowsStep
  <2>7. QED
    BY <2>5, <2>6 DEF FlowsInv
<1>6. ASSUME NEW w \in Workers, NEW op \in OpNames, Send(w, op)
      PROVE  FlowsInv'
  BY <1>0, <1>6, SendRequest, TurnIdle DEF Send, Holding
<1>7. ASSUME NEW w \in Workers, Receive(w) \/ Lose(w) \/ BindFails(w)
      PROVE  FlowsInv'
  BY <1>7, IdleType, TurnIdle DEF Receive, Lose, BindFails, Holding
<1>8. ASSUME NEW w \in Workers, CallbackFails(w) \/ CancelNothing(w)
      PROVE  FlowsInv'
  BY <1>8, NoCookieType, AnswerType, TurnIdle DEF CallbackFails, CancelNothing, Holding
<1>9. ASSUME NEW w \in Workers, NEW f \in Flows, BeginFlow(w, f)
      PROVE  FlowsInv'
  <2>1. /\ challenges[f].stage = "none" /\ challenges'[f].stage = "oauth"
        /\ \A g \in Flows \ {f} : challenges'[g] = challenges[g] \/ challenges'[g].stage = "gone"
    BY <1>0, <1>9, BeginStep
  <2>2. begun' = [begun EXCEPT ![f] = decisions] /\ UNCHANGED <<sessions, decisions, cancelled>>
    BY <1>9 DEF BeginFlow
  <2>3. Held'
    <3>1. [flow |-> f, token |-> "state"] \in Cookie
      BY DEF Cookie
    <3>2. \A v \in Workers : req[v].op \notin Holding
      BY <1>9 DEF BeginFlow, ConfigUnlocked
    <3>3. QED
      BY <1>0, <1>9, <3>1, <3>2, AnswerType, TurnsAlone, HeldKept DEF BeginFlow, FlowsInv, Holding
  <2>4. LiveIsCurrent'
    BY <2>1, <2>2 DEF FlowsInv, LiveIsCurrent, Live, WecomType, CountersOK
  <2>5. UsedUp' /\ CancelledFlowsEnd'
    BY <2>1, <2>2
       DEF FlowsInv, UsedUp, CancelledFlowsEnd, WecomType, TypeOK, CountersOK, Session
  <2>6. QED
    BY <2>3, <2>4, <2>5 DEF FlowsInv
<1>10. ASSUME NEW w \in Workers, CallbackConsume(w)
       PROVE  FlowsInv'
  <2>1. /\ req' = [req EXCEPT ![w] = req'[w]]
        /\ req'[w].op = "marking" /\ req'[w].cookie = req[w].cookie
    BY <1>10, ConsumeRequest
  <2>2. /\ ConfigUnlocked /\ challenges[req[w].cookie.flow].stage = "oauth"
        /\ UNCHANGED <<challenges, sessions, begun, decisions, cancelled>>
    BY <1>10 DEF CallbackConsume, Acceptable
  <2>3. Fits(req'[w], challenges[req'[w].cookie.flow].stage)
    BY <2>1, <2>2 DEF Fits
  <2>4. QED
    BY <1>0, <2>1, <2>2, <2>3, HeldTaken, FlowsIdle DEF FlowsInv
<1>11. ASSUME NEW w \in Workers, CallbackMarked(w)
       PROVE  FlowsInv'
  <2> DEFINE n == [req[w] EXCEPT !.op = "asking"]
  <2>1. req[w] \in Request /\ req[w].op = "marking" /\ Commits(w, n)
        /\ UNCHANGED <<sessions, begun, decisions, cancelled>>
    BY <1>0, <1>11 DEF CallbackMarked, TypeOK
  <2>2. n.op = "asking"
    BY <2>1, OpStep DEF OpNames
  <2> HIDE DEF n
  <2>3. req[w].op \in Holding /\ n.op \notin Holding
    BY <2>1, <2>2 DEF Holding
  <2>4. PICK f \in Flows : f = req[w].cookie.flow
    BY <2>3, HeldStage
  <2>5. challenges' = [challenges EXCEPT ![f].stage = "exchange"]
    BY <1>11, <2>4 DEF CallbackMarked
  <2>6. challenges'[f].stage = "exchange" /\ \A g \in Flows \ {f} : challenges'[g] = challenges[g]
    BY <1>0, <2>5, StageStep
  <2>7. challenges[f].stage \in Live /\ challenges'[f].stage \in Live
    BY <2>3, <2>4, <2>6, HeldStage DEF Live
  <2>8. QED
    BY <2>1, <2>3, <2>6, <2>7, CommitStep
<1>12. ASSUME NEW w \in Workers, AnswerConsume(w) \/ BindClaim(w)
       PROVE  FlowsInv'
  <2>1. PICK op \in OpNames : /\ req' = [req EXCEPT ![w] = [req[w] EXCEPT !.op = op]]
                              /\ \/ op = "answering" /\ AnswerConsume(w)
                                 \/ op = "linking" /\ BindClaim(w)
    <3>1. "answering" \in OpNames /\ "linking" \in OpNames
      BY DEF OpNames
    <3>2. CASE AnswerConsume(w)
      BY <3>1, <3>2 DEF AnswerConsume
    <3>3. CASE BindClaim(w)
      BY <3>1, <3>3 DEF BindClaim
    <3>4. QED
      BY <1>12, <3>2, <3>3
  <2> DEFINE n == [req[w] EXCEPT !.op = op]
  <2>2. req[w] \in Request
    BY <1>0 DEF TypeOK
  <2>3. n.op = op /\ n.cookie = req[w].cookie
    BY <2>2, OpStep
  <2>4. req' = [req EXCEPT ![w] = n]
    BY <2>1
  <2> HIDE DEF n
  <2>5. /\ ConfigUnlocked /\ UNCHANGED <<challenges, sessions, begun, decisions, cancelled>>
        /\ op = "answering" => challenges[req[w].cookie.flow].stage = "exchange"
        /\ op = "linking" => challenges[req[w].cookie.flow].stage = "bind"
    BY <2>1 DEF AnswerConsume, BindClaim, Acceptable
  <2>6. Fits(n, challenges[n.cookie.flow].stage)
    BY <2>1, <2>3, <2>5 DEF Fits
  <2>7. QED
    BY <1>0, <2>4, <2>5, <2>6, HeldTaken, FlowsIdle DEF FlowsInv
<1>13. ASSUME NEW w \in Workers, NEW m \in Members, AnswerUnknown(w, m)
       PROVE  FlowsInv'
  <2>1. req[w].op \in Holding
    BY <1>13 DEF AnswerUnknown, Holding
  <2>2. PICK f \in Flows : f = req[w].cookie.flow
    BY <2>1, HeldStage
  <2>3. /\ challenges'[f].stage = "bind" /\ \A g \in Flows \ {f} : challenges'[g] = challenges[g]
        /\ UNCHANGED <<sessions, begun, decisions, cancelled>>
    BY <1>0, <1>13, <2>2 DEF AnswerUnknown, TypeOK
  <2>4. [flow |-> f, token |-> "bind"] \in Cookie
    BY DEF Cookie
  <2>5. PICK r : Commits(w, r) /\ r.op = "replied"
    BY <1>13, <2>2, <2>4, AnswerType DEF AnswerUnknown
  <2>6. challenges[f].stage \in Live /\ challenges'[f].stage \in Live /\ r.op \notin Holding
    BY <2>1, <2>2, <2>3, <2>5, HeldStage DEF Live, Holding
  <2>7. QED
    BY <2>1, <2>3, <2>5, <2>6, CommitStep
<1>14. ASSUME NEW w \in Workers, NEW m \in Members, NEW b \in bindings, AnswerKnown(w, m, b)
       PROVE  FlowsInv'
  <2>1. req[w].op \in Holding /\ req[w] \in Request
    BY <1>0, <1>14 DEF AnswerKnown, Holding, TypeOK
  <2>2. PICK f \in Flows : f = req[w].cookie.flow
    BY <2>1, HeldStage
  <2>3. /\ challenges'[f].stage = "gone" /\ \A g \in Flows \ {f} : challenges'[g] = challenges[g]
        /\ UNCHANGED <<begun, decisions, cancelled>>
    BY <1>0, <1>14, <2>2, GoneStep DEF AnswerKnown
  <2>4. [req[w] EXCEPT !.unbinds = unbinds[b.user]].cookie = req[w].cookie
    BY <2>1 DEF Request
  <2>5. \A s \in sessions' : s \in sessions \/ s.flow = f
    BY <1>14, <2>2, <2>4 DEF AnswerKnown, Issued
  <2>6. Commits(w, Answer(NoCookie)) /\ Answer(NoCookie).op \notin Holding
    BY <1>14, NoCookieType, AnswerType DEF AnswerKnown, Holding
  <2>7. challenges[f].stage \in Live
    BY <2>1, <2>2, HeldStage
  <2>8. QED
    BY <2>1, <2>3, <2>5, <2>6, <2>7, CommitStep
<1>15. ASSUME NEW w \in Workers, BindCommit(w)
       PROVE  FlowsInv'
  <2>1. req[w].op \in Holding
    BY <1>15 DEF BindCommit, Holding
  <2>2. PICK f \in Flows : f = req[w].cookie.flow
    BY <2>1, HeldStage
  <2>3. /\ challenges'[f].stage = "gone" /\ \A g \in Flows \ {f} : challenges'[g] = challenges[g]
        /\ UNCHANGED <<begun, decisions, cancelled>>
    BY <1>0, <1>15, <2>2, GoneStep DEF BindCommit
  <2>4. \A s \in sessions' : s \in sessions \/ s.flow = f
    BY <1>15, <2>2 DEF BindCommit, Issued
  <2>5. Commits(w, Answer(NoCookie)) /\ Answer(NoCookie).op \notin Holding
    BY <1>15, NoCookieType, AnswerType DEF BindCommit, Holding
  <2>6. challenges[f].stage \in Live
    BY <2>1, <2>2, HeldStage
  <2>7. QED
    BY <2>1, <2>3, <2>4, <2>5, <2>6, CommitStep
<1>16. ASSUME NEW w \in Workers, NEW u \in Users, BindCheck(w, u) \/ LoginRead(w, u)
       PROVE  FlowsInv'
  <2>1. /\ req' = [req EXCEPT ![w] = req'[w]] /\ req'[w].op \in {"binding", "login"}
        /\ UNCHANGED <<challenges, sessions, begun, decisions, cancelled>>
    BY <1>16, BindCheckRequest, LoginReadRequest
  <2>2. QED
    BY <2>1, TurnIdle DEF Holding
<1>17. ASSUME NEW w \in Workers, NEW f \in Flows, CancelWaits(w, f)
       PROVE  FlowsInv'
  <2> DEFINE n == [req[w] EXCEPT !.op = "waiting"]
  <2>1. req[w] \in Request
    BY <1>0 DEF TypeOK
  <2>2. n.op = "waiting"
    BY <2>1, OpStep DEF OpNames
  <2>3. req' = [req EXCEPT ![w] = n]
        /\ UNCHANGED <<challenges, sessions, begun, decisions, cancelled>>
    BY <1>17 DEF CancelWaits
  <2> HIDE DEF n
  <2>4. QED
    BY <2>2, <2>3, TurnIdle DEF Holding
<1>18. ASSUME NEW w \in Workers, NEW f \in Flows, CancelDeletes(w, f)
       PROVE  FlowsInv'
  <2>1. /\ challenges'[f].stage = "gone" /\ \A g \in Flows \ {f} : challenges'[g] = challenges[g]
        /\ cancelled' = cancelled \cup {f} /\ UNCHANGED <<sessions, begun, decisions>>
    BY <1>0, <1>18, GoneStep DEF CancelDeletes
  <2>2. challenges[f].stage \in Live
    BY <1>18 DEF CancelDeletes, Names, Live
  <2>3. Held'
    <3>1. \A v \in Workers : req[v].op \in Holding =>
            req[v].cookie.flow # f /\ req[v].cookie.flow \in Flows
      BY <1>18, HeldStage DEF CancelDeletes, RowHeld
    <3>2. Turns(w, Answer(NoCookie)) /\ Answer(NoCookie).op \notin Holding
      BY <1>0, <1>18, NoCookieType, AnswerType, TurnsAlone DEF CancelDeletes, Holding
    <3>3. QED
      BY <1>0, <2>1, <3>1, <3>2, HeldKept DEF FlowsInv
  <2>4. LiveIsCurrent' /\ UsedUp' /\ CancelledFlowsEnd'
    <3>1. challenges[f].stage # "gone"
      BY <2>2 DEF Live
    <3>2. QED
      BY <2>1, <2>2, <3>1, FlowsStep
  <2>5. QED
    BY <2>3, <2>4 DEF FlowsInv
<1>19. ASSUME NEW w \in Workers, LoginInsert(w)
       PROVE  FlowsInv'
  <2>1. Held'
    BY <1>0, <1>19, IdleType, TurnsAlone, HeldKept DEF LoginInsert, FlowsInv, Holding
  <2>2. UNCHANGED <<challenges, begun, decisions, cancelled>>
        /\ \A s \in sessions' : s \in sessions \/ s.flow = NoFlow
    BY <1>19 DEF LoginInsert
  <2>3. QED
    BY <2>1, <2>2, FlowsStep DEF FlowsInv
<1>20. CASE UNCHANGED vars
  BY <1>20, FlowsIdle DEF vars, FlowsInv, Held
<1>21. QED
  BY <1>1, <1>2, <1>3, <1>4, <1>5, <1>6, <1>7, <1>8, <1>9, <1>10, <1>11, <1>12, <1>13, <1>14,
     <1>15, <1>16, <1>17, <1>18, <1>19, <1>20
     DEF Next, Administrator, SignIn, Bind, Cancel, Login

\* Only a flow begun after the last decision signs somebody in.
LEMMA DecisionsStep ==
  ASSUME WecomType, FlowsInv, [Next]_vars,
         NEW s \in sessions' \ sessions, s.flow # NoFlow
  PROVE  begun[s.flow] = decisions
<1>1. ASSUME NEW w \in Workers, req[w].op \in Holding, s.flow = req[w].cookie.flow
      PROVE  begun[s.flow] = decisions
  BY <1>1, HeldStage DEF FlowsInv, LiveIsCurrent
<1>2. ASSUME NEW w \in Workers, NEW m \in Members, NEW b \in bindings, AnswerKnown(w, m, b)
      PROVE  begun[s.flow] = decisions
  <2>1. req[w] \in Request /\ req[w].op \in Holding
    BY <1>2 DEF AnswerKnown, Holding, WecomType, TypeOK
  <2>2. [req[w] EXCEPT !.unbinds = unbinds[b.user]].cookie = req[w].cookie
    BY <2>1 DEF Request
  <2>3. s.flow = req[w].cookie.flow
    BY <1>2, <2>2 DEF AnswerKnown, Issued
  <2>4. QED
    BY <1>1, <2>1, <2>3
<1>3. ASSUME NEW w \in Workers, BindCommit(w)
      PROVE  begun[s.flow] = decisions
  BY <1>1, <1>3 DEF BindCommit, Issued, Holding
<1>4. ASSUME NEW w \in Workers, SignIn(w)
      PROVE  begun[s.flow] = decisions
  BY <1>2, <1>4
     DEF SignIn, BeginFlow, CallbackConsume, CallbackMarked, AnswerConsume, CallbackFails,
         AnswerUnknown
<1>5. ASSUME NEW w \in Workers, Bind(w) \/ Cancel(w)
      PROVE  begun[s.flow] = decisions
  BY <1>3, <1>5
     DEF Bind, BindCheck, BindClaim, BindFails, Cancel, CancelNothing, CancelWaits, CancelDeletes
<1>6. ASSUME NEW w \in Workers, Login(w)
      PROVE  begun[s.flow] = decisions
  <2>1. CASE LoginInsert(w)
    <3>1. s.flow = NoFlow
      BY <2>1 DEF LoginInsert
    <3>2. QED
      BY <3>1
  <2>2. ASSUME NEW u \in Users, LoginRead(w, u)
        PROVE  FALSE
    BY <2>2 DEF LoginRead
  <2>3. QED
    BY <1>6, <2>1, <2>2 DEF Login
<1>7. ASSUME NEW w \in Workers, Receive(w) \/ Lose(w) \/ \E op \in OpNames : Send(w, op)
      PROVE  begun[s.flow] = decisions
  BY <1>7 DEF Receive, Lose, Send
<1>8. QED
  BY <1>4, <1>5, <1>6, <1>7
     DEF Next, Administrator, SaveConfig, Prebind, Unbind, AccountChange, Expire, vars

-----------------------------------------------------------------------------
(* The theorems.                                                           *)

THEOREM WecomInvariant == Spec => []WecomInv
<1>1. WecomInv /\ [Next]_vars => WecomInv'
  <2>1. SUFFICES ASSUME WecomInv, [Next]_vars
                 PROVE  WecomInv'
    OBVIOUS
  <2>2. WecomType /\ VersionsPast /\ PasswordStillProved /\ FlowsInv /\ Held
    BY <2>1 DEF WecomInv, FlowsInv
  <2>3. WecomType'
    BY <2>1, <2>2, TypeNext
  <2>4. VersionsPast' /\ PasswordStillProved' /\ FlowsInv'
    BY <2>1, <2>2, <2>3, VersionsNext, FlowsNext
  <2>5. QED
    BY <2>3, <2>4 DEF WecomInv
<1>2. QED
  BY WecomInit, <1>1, PTL DEF Spec

\* Rows, cookie and requests keep their shape, and in an organization
\* identities and accounts stay bound one to one: no prebinding and no two
\* binding pages bind an account or a member twice.
THEOREM TypeCorrect == Spec => []TypeOK
<1>1. WecomInv => TypeOK
  BY DEF WecomInv, WecomType
<1>2. QED
  BY WecomInvariant, <1>1, PTL

\* Unbinding an account ends its sessions, those included that a login or a
\* binding inserts later with the version it read before (unbindWecom).
THEOREM UnbindEnds == Spec => []UnbindEndsSessions
<1>1. WecomInv => UnbindEndsSessions
  BY DEF WecomInv, VersionsPast, Past, UnbindEndsSessions, Alive
<1>2. QED
  BY WecomInvariant, <1>1, PTL

\* A session for a password is signed for the version of the account whose
\* password was compared (bindWecomWithPassword, login).
THEOREM PasswordProved == Spec => []PasswordStillProved
<1>1. WecomInv => PasswordStillProved
  BY DEF WecomInv
<1>2. QED
  BY WecomInvariant, <1>1, PTL

\* No session results from a flow whose challenge or marker a cancellation has
\* deleted (cancelWecomFlow); of a cancellation that deleted nothing this says
\* nothing.
THEOREM CancelledEnd == Spec => []CancelledFlowsEnd
<1>1. WecomInv => CancelledFlowsEnd
  BY DEF WecomInv, FlowsInv
<1>2. QED
  BY WecomInvariant, <1>1, PTL

\* No session results from a flow that began before the last decision of an
\* administrator (saveWecomConfig, prebindWecom, unbindWecom), whenever the
\* provider or the binding page answers.
THEOREM DecisionsEndFlows == Spec => DecisionsHold
<1>1. WecomInv /\ [Next]_vars =>
        [\A s \in sessions' \ sessions : s.flow # NoFlow => begun[s.flow] = decisions]_vars
  BY DecisionsStep DEF WecomInv
<1>2. QED
  BY WecomInvariant, <1>1, PTL DEF Spec, DecisionsHold

=============================================================================
