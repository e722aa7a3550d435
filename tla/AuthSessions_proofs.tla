------------------------- MODULE AuthSessions_proofs -------------------------
(***************************************************************************)
(* Proofs about AuthSessions: for any tabs, any number of logins and any   *)
(* lifetimes that respect AuthSessionsAssumption, rotation never costs a   *)
(* user the session, and what has ended stays ended.                       *)
(***************************************************************************)
EXTENDS AuthSessions, TLAPS

-----------------------------------------------------------------------------
(* The inductive invariant.  Its parts name the account's version v, the   *)
(* session table S and the time t they are about.                          *)

Issued(S, s) == S[s] # NoSession

\* The cookie c names an issued session and no later version.
Known(c, v, S) == Issued(S, c.sid) /\ c.ver <= v

\* Matches(c), of any state.
MatchesIn(c, v, S, t) ==
  S[c.sid].present /\ c.ver = v /\ ~S[c.sid].revoked /\ t < S[c.sid].expires

\* The request r holds cookies of an issued session for the browser.
Brings(r) == r.got \in Cookie /\ r.at # "create"

OfUser(r) == r.kind \in {"check", "call"}

\* Which cookies a request has at which step.
StepOK(r) ==
  /\ OfUser(r) => r.at \in {"verify", "refresh", "reverify", "handle", "answered"}
  /\ r.kind = "logout" => r.at \in {"revoke", "answered"}
  /\ r.kind = "login" => r.at \in {"credentials", "create", "answered"}
  /\ r.at \in {"verify", "refresh", "revoke", "credentials"} => r.got = Keep
  /\ r.at \in {"refresh", "reverify"} => r.sent # NoCookie
  /\ r.at \in {"reverify", "create"} => r.got \in Cookie
  /\ r.at = "handle" => r.got \in Cookie \/ (r.got = Keep /\ r.sent # NoCookie)
  /\ r.at = "answered" =>
       /\ r.sent = NoCookie
       /\ OfUser(r) => r.got # NoCookie
       /\ r.kind = "logout" => r.got = NoCookie
       /\ r.kind = "login" => r.got \in Cookie

\* A request is answered in time, and its cookies are of sessions there are.
TimeOK(r, v, S, t) ==
  /\ r.since <= t /\ t <= r.since + RoundTrip
  /\ r.sent # NoCookie => Known(r.sent, v, S)
  /\ Brings(r) => Known(r.got, v, S)
  /\ OfUser(r) /\ Brings(r) => S[r.got.sid].rotatedAt # Never
  /\ r.at \in {"reverify", "handle"} /\ r.got \in Cookie => r.since + Access <= r.got.exp
  /\ r.at = "handle" /\ r.got = Keep => r.since + Margin <= r.sent.exp
  /\ r.at = "refresh" /\ MatchesIn(r.sent, v, S, t) => r.sent.exp < t + Margin
  /\ r.at = "create" => /\ ~Issued(S, r.got.sid)
                        /\ r.got.gen = 0 /\ r.got.ver <= v

\* What was sent with an ended session is refused.
DeadOK(r, v, S, t) ==
  OfUser(r) /\ r.dead =>
    \/ r.at \in {"verify", "refresh"} /\ (r.sent = NoCookie \/ ~MatchesIn(r.sent, v, S, t))
    \/ r.at = "answered" /\ ~r.ok

\* The cookie is of the current generation, and its access token was issued
\* since the rotation; or it is of the generation before.
Current(c, S) ==
  /\ c.gen = S[c.sid].gen
  /\ S[c.sid].rotatedAt # Never => S[c.sid].rotatedAt + Access <= c.exp

Previous(c, S) == S[c.sid].rotatedAt # Never /\ c.gen = S[c.sid].gen - 1

\* A previous generation was sent before the answer with the current one
\* could be missed; answers bring the current one, soon after the rotation.
RotationOK(r, v, S, t) ==
  /\ r.sent # NoCookie /\ MatchesIn(r.sent, v, S, t) =>
       \/ Current(r.sent, S)
       \/ Previous(r.sent, S) /\ r.since <= S[r.sent.sid].rotatedAt + RoundTrip
  /\ Brings(r) /\ MatchesIn(r.got, v, S, t) =>
       /\ Current(r.got, S)
       /\ S[r.got.sid].rotatedAt # Never => r.since <= S[r.got.sid].rotatedAt + RoundTrip

\* r brings the browser the current generation of the session of j.
Renews(r, j, v, S) ==
  /\ r # NoRequest /\ Brings(r)
  /\ r.got.sid = j.sid /\ r.got.gen = S[j.sid].gen /\ r.got.ver = v
  /\ r.since <= S[j.sid].rotatedAt

JarOK(j, R, v, S, t) ==
  j # NoCookie /\ MatchesIn(j, v, S, t) =>
    Current(j, S) \/ (Previous(j, S) /\ \E y \in Slots : Renews(R[y], j, v, S))

\* The session of a login that is being answered is in no other cookies.
Apart(r, q) ==
  /\ r.at = "create" /\ q.at = "create" => r.got.sid # q.got.sid
  /\ r.kind = "login" /\ Brings(r) =>
       /\ q.sent # NoCookie => q.sent.sid # r.got.sid
       /\ Brings(q) => q.got.sid # r.got.sid

ApartFromJar(r, j) == r.kind = "login" /\ Brings(r) /\ j # NoCookie => j.sid # r.got.sid

\* Nothing has happened to the account or its sessions.
Calm(v, S, t) == v = 0 /\ (\A s \in Sids : ~S[s].revoked) /\ t < S[1].expires

\* Then no tab leaves: every request is the user's, and is accepted.
CalmRequest(r) ==
  /\ r.kind # "login" /\ (r.kind = "logout" => r.at = "revoke")
  /\ r.at # "answered" => r.sent # NoCookie /\ r.sent.sid = 1
  /\ r.got \in Cookie => r.got.sid = 1
  /\ r.at = "answered" => r.ok

CalmBrowser(j, tb, td) ==
  /\ j # NoCookie /\ j.sid = 1
  /\ td = {} /\ \A t \in Tabs : tb[t] = "app"

TableOK(S, t) ==
  /\ Issued(S, 1)
  /\ \A s \in Sids : /\ Issued(S, s) => S[s].expires > 0
                     /\ S[s].rotatedAt <= t

\* What holds of a request, whatever the others are.
RequestOK(r, v, S, t) == StepOK(r) /\ TimeOK(r, v, S, t) /\ DeadOK(r, v, S, t)

RotationsOK ==
  lost = 0 =>
    /\ \A s \in Sids : session[s].revoked => s \in loggedOut
    /\ \A x \in Slots : req[x] # NoRequest => RotationOK(req[x], version, session, now)
    /\ JarOK(jar, req, version, session, now)

CalmOK ==
  Calm(version, session, now) =>
    /\ session[1].present
    /\ CalmBrowser(jar, tab, told)
    /\ \A x \in Slots : req[x] # NoRequest => CalmRequest(req[x])

SessionsInv ==
  /\ TypeOK
  /\ TableOK(session, now)
  /\ jar # NoCookie => Known(jar, version, session)
  /\ \A x \in Slots : req[x] # NoRequest =>
       RequestOK(req[x], version, session, now) /\ ApartFromJar(req[x], jar)
  /\ \A x \in Slots : \A y \in Slots \ {x} :
       req[x] # NoRequest /\ req[y] # NoRequest => Apart(req[x], req[y])
  /\ RotationsOK
  /\ CalmOK

-----------------------------------------------------------------------------
(* How the server's state changes: sessions stay issued, versions and the  *)
(* clock grow, what was revoked or removed stays so.                       *)

Keeps(v, S, t, w, T, u) ==
  /\ v <= w /\ t <= u
  /\ \A s \in Sids : Issued(S, s) =>
       /\ Issued(T, s) /\ T[s].expires = S[s].expires
       /\ S[s].revoked => T[s].revoked
       /\ T[s].present => S[s].present
       /\ S[s].rotatedAt # Never => T[s].rotatedAt # Never

World(v, S, t) == v \in Nat /\ S \in [Sids -> Session] /\ t \in Nat

\* The rows of the issued sessions have the same generation.
SameRotations(S, T) ==
  \A s \in Sids : Issued(S, s) => T[s].gen = S[s].gen /\ T[s].rotatedAt = S[s].rotatedAt

\* A cookie that matches after a change did so before it.
LEMMA KeepsKnown ==
  ASSUME NEW v, NEW S, NEW t, NEW w, NEW T, NEW u, World(v, S, t), World(w, T, u),
         Keeps(v, S, t, w, T, u), NEW c \in Cookie, Known(c, v, S)
  PROVE  /\ Known(c, w, T)
         /\ MatchesIn(c, w, T, u) => MatchesIn(c, v, S, t) /\ v = w
<1>1. c.sid \in Sids /\ c.ver \in Nat
  BY DEF Cookie
<1>2. S[c.sid] \in Session /\ T[c.sid] \in Session
  BY <1>1 DEF World
<1>3. S[c.sid].expires \in Nat /\ S[c.sid].revoked \in BOOLEAN /\ T[c.sid].revoked \in BOOLEAN
  BY <1>2 DEF Session
<1>4. QED
  BY <1>1, <1>3 DEF Keeps, Known, MatchesIn, World

\* The time of a request and its cookies as types the provers use.
LEMMA RequestFields ==
  ASSUME NEW r \in Request
  PROVE  /\ r.kind \in {"check", "call", "logout", "login"}
         /\ r.since \in Nat /\ r.ok \in BOOLEAN /\ r.dead \in BOOLEAN
         /\ r.sent \in Cookie \cup {NoCookie} /\ r.got \in Cookie \cup {NoCookie, Keep}
BY DEF Request

LEMMA CookieFields ==
  ASSUME NEW c \in Cookie
  PROVE  c.sid \in Sids /\ c.gen \in Nat /\ c.ver \in Nat /\ c.exp \in Nat
BY DEF Cookie

\* What holds of a request holds of it after a change it does not notice.
LEMMA RequestKept ==
  ASSUME NEW v, NEW S, NEW t, NEW w, NEW T, NEW u, World(v, S, t), World(w, T, u),
         Keeps(v, S, t, w, T, u), NEW r \in Request, RequestOK(r, v, S, t),
         u <= r.since + RoundTrip, r.at = "create" => ~Issued(T, r.got.sid)
  PROVE  RequestOK(r, w, T, u)
<1>1. StepOK(r) /\ TimeOK(r, v, S, t) /\ DeadOK(r, v, S, t)
  BY DEF RequestOK
<1>2. r.sent # NoCookie => /\ Known(r.sent, w, T)
                           /\ MatchesIn(r.sent, w, T, u) => MatchesIn(r.sent, v, S, t) /\ v = w
  BY <1>1, RequestFields, KeepsKnown DEF TimeOK
<1>3. Brings(r) => r.got \in Cookie /\ Known(r.got, v, S) /\ Known(r.got, w, T)
  BY <1>1, KeepsKnown DEF TimeOK, Brings
<1>4. OfUser(r) /\ Brings(r) => T[r.got.sid].rotatedAt # Never
  BY <1>1, <1>3, CookieFields DEF TimeOK, Keeps, Known
<1>5. r.since <= u
  BY <1>1, RequestFields DEF TimeOK, Keeps, World
<1>6. r.at = "refresh" /\ MatchesIn(r.sent, w, T, u) => r.sent.exp < u + Margin
  <2> SUFFICES ASSUME r.at = "refresh", MatchesIn(r.sent, w, T, u)
               PROVE  r.sent.exp < u + Margin
    OBVIOUS
  <2>1. r.sent \in Cookie /\ MatchesIn(r.sent, v, S, t)
    BY <1>1, <1>2, RequestFields DEF StepOK
  <2>2. r.sent.exp < t + Margin /\ r.sent.exp \in Nat
    BY <1>1, <2>1, CookieFields DEF TimeOK
  <2>3. QED
    BY <2>2, AuthSessionsAssumption DEF Keeps, World
<1>7. r.at = "create" => ~Issued(T, r.got.sid) /\ r.got.gen = 0 /\ r.got.ver <= w
  <2> SUFFICES ASSUME r.at = "create"
               PROVE  r.got.gen = 0 /\ r.got.ver <= w
    OBVIOUS
  <2>1. r.got.gen = 0 /\ r.got.ver <= v /\ r.got.ver \in Nat
    BY <1>1, CookieFields DEF TimeOK, StepOK
  <2>2. QED
    BY <2>1 DEF Keeps, World
<1>8. TimeOK(r, w, T, u)
  BY <1>1, <1>2, <1>3, <1>4, <1>5, <1>6, <1>7 DEF TimeOK
<1>9. DeadOK(r, w, T, u)
  BY <1>1, <1>2 DEF DeadOK
<1>10. QED
  BY <1>1, <1>8, <1>9 DEF RequestOK

LEMMA RotationKept ==
  ASSUME NEW v, NEW S, NEW t, NEW w, NEW T, NEW u, World(v, S, t), World(w, T, u),
         Keeps(v, S, t, w, T, u), SameRotations(S, T), NEW r \in Request,
         TimeOK(r, v, S, t), RotationOK(r, v, S, t)
  PROVE  RotationOK(r, w, T, u)
<1>1. ASSUME r.sent # NoCookie, MatchesIn(r.sent, w, T, u)
      PROVE  \/ Current(r.sent, T)
             \/ Previous(r.sent, T) /\ r.since <= T[r.sent.sid].rotatedAt + RoundTrip
  <2>1. r.sent \in Cookie /\ Known(r.sent, v, S) /\ MatchesIn(r.sent, v, S, t)
    BY <1>1, RequestFields, KeepsKnown DEF TimeOK
  <2>2. /\ T[r.sent.sid].gen = S[r.sent.sid].gen
        /\ T[r.sent.sid].rotatedAt = S[r.sent.sid].rotatedAt
    BY <2>1, CookieFields DEF SameRotations, Known
  <2>3. QED
    BY <1>1, <2>1, <2>2 DEF RotationOK, Current, Previous
<1>2. ASSUME Brings(r), MatchesIn(r.got, w, T, u)
      PROVE  /\ Current(r.got, T)
             /\ T[r.got.sid].rotatedAt # Never => r.since <= T[r.got.sid].rotatedAt + RoundTrip
  <2>1. r.got \in Cookie /\ Known(r.got, v, S) /\ MatchesIn(r.got, v, S, t)
    BY <1>2, KeepsKnown DEF TimeOK, Brings
  <2>2. /\ T[r.got.sid].gen = S[r.got.sid].gen
        /\ T[r.got.sid].rotatedAt = S[r.got.sid].rotatedAt
    BY <2>1, CookieFields DEF SameRotations, Known
  <2>3. QED
    BY <1>2, <2>1, <2>2 DEF RotationOK, Current
<1>3. QED
  BY <1>1, <1>2 DEF RotationOK

\* The cookies of the browser too, if the answer they wait for is still there.
LEMMA JarKept ==
  ASSUME NEW v, NEW S, NEW t, NEW w, NEW T, NEW u, World(v, S, t), World(w, T, u),
         Keeps(v, S, t, w, T, u), SameRotations(S, T), NEW R, NEW Q,
         NEW j \in Cookie \cup {NoCookie}, j # NoCookie => Known(j, v, S),
         JarOK(j, R, v, S, t),
         \A y \in Slots : j # NoCookie /\ MatchesIn(j, v, S, t) /\ Renews(R[y], j, v, S) =>
           \E z \in Slots : Renews(Q[z], j, v, S)
  PROVE  JarOK(j, Q, w, T, u)
<1> SUFFICES ASSUME j # NoCookie, MatchesIn(j, w, T, u)
             PROVE  Current(j, T) \/ (Previous(j, T) /\ \E y \in Slots : Renews(Q[y], j, w, T))
  BY DEF JarOK
<1>1. j \in Cookie /\ MatchesIn(j, v, S, t) /\ v = w
  BY KeepsKnown
<1>2. T[j.sid].gen = S[j.sid].gen /\ T[j.sid].rotatedAt = S[j.sid].rotatedAt
  BY <1>1, CookieFields DEF SameRotations, Known
<1>3. CASE Current(j, S)
  BY <1>2, <1>3 DEF Current
<1>4. CASE Previous(j, S) /\ \E y \in Slots : Renews(R[y], j, v, S)
  <2>1. PICK z \in Slots : Renews(Q[z], j, v, S)
    BY <1>1, <1>4
  <2>2. Renews(Q[z], j, w, T)
    BY <1>1, <1>2, <2>1 DEF Renews
  <2>3. QED
    BY <1>2, <1>4, <2>2 DEF Previous
<1>5. QED
  BY <1>1, <1>3, <1>4 DEF JarOK

LEMMA CalmKept ==
  ASSUME NEW v, NEW S, NEW t, NEW w, NEW T, NEW u, World(v, S, t), World(w, T, u),
         Keeps(v, S, t, w, T, u), Issued(S, 1), 1 \in Sids, Calm(w, T, u)
  PROVE  Calm(v, S, t)
<1>1. v = 0
  BY DEF Calm, Keeps, World
<1>2. \A s \in Sids : ~S[s].revoked
  BY DEF Calm, Keeps, Issued, NoSession
<1>3. t < S[1].expires
  <2>1. S[1].expires \in Nat
    BY DEF World, Session
  <2>2. QED
    BY <2>1 DEF Calm, Keeps, World
<1>4. QED
  BY <1>1, <1>2, <1>3 DEF Calm

-----------------------------------------------------------------------------
(* The invariant, from its parts after a step.                             *)

LEMMA Assemble ==
  ASSUME TypeOK', TableOK(session', now'),
         jar' # NoCookie => Known(jar', version', session'),
         \A x \in Slots : req'[x] # NoRequest =>
           RequestOK(req'[x], version', session', now') /\ ApartFromJar(req'[x], jar'),
         \A x \in Slots : \A y \in Slots \ {x} :
           req'[x] # NoRequest /\ req'[y] # NoRequest => Apart(req'[x], req'[y]),
         lost' = 0 =>
           /\ \A s \in Sids : session'[s].revoked => s \in loggedOut'
           /\ \A x \in Slots : req'[x] # NoRequest =>
                RotationOK(req'[x], version', session', now')
           /\ JarOK(jar', req', version', session', now'),
         Calm(version', session', now') =>
           /\ session'[1].present
           /\ CalmBrowser(jar', tab', told')
           /\ \A x \in Slots : req'[x] # NoRequest => CalmRequest(req'[x])
  PROVE  SessionsInv'
BY DEF SessionsInv, RotationsOK, CalmOK

\* The lifetimes, in the form the steps use.
LEMMA Bounds ==
  /\ Access \in Nat /\ Margin \in Nat /\ Grace \in Nat /\ RoundTrip \in Nat
  /\ Life \in Nat /\ Life > 0 /\ MaxSessions \in Nat /\ MaxSessions > 0
  /\ RoundTrip < Margin /\ RoundTrip < Access /\ 2 * RoundTrip < Grace
  /\ Grace + 2 * RoundTrip < Access - Margin
<1>1. /\ Access \in Nat /\ Margin \in Nat /\ Grace \in Nat /\ RoundTrip \in Nat
      /\ Life \in Nat /\ MaxSessions \in Nat
  BY AuthSessionsAssumption
<1>2. QED
  BY <1>1, AuthSessionsAssumption

\* What the steps use of the state before them.
LEMMA Before ==
  ASSUME SessionsInv
  PROVE  /\ World(version, session, now) /\ 1 \in Sids
         /\ TableOK(session, now)
         /\ \A s \in Sids : session[s] \in Session
         /\ jar \in Cookie \cup {NoCookie}
         /\ \A x \in Slots : req[x] # NoRequest =>
              /\ req[x] \in Request /\ StepOK(req[x])
              /\ TimeOK(req[x], version, session, now) /\ DeadOK(req[x], version, session, now)
<1>1. 1 \in Sids
  BY Bounds DEF Sids
<1>2. World(version, session, now) /\ jar \in Cookie \cup {NoCookie}
  BY DEF SessionsInv, TypeOK, World
<1>3. \A s \in Sids : session[s] \in Session
  BY <1>2 DEF World
<1>4. ASSUME NEW x \in Slots, req[x] # NoRequest
      PROVE  req[x] \in Request /\ RequestOK(req[x], version, session, now)
  BY <1>4 DEF SessionsInv, TypeOK
<1>5. QED
  BY <1>1, <1>2, <1>3, <1>4 DEF SessionsInv, RequestOK

LEMMA KeepsItself ==
  ASSUME NEW v, NEW S, NEW t, World(v, S, t)
  PROVE  Keeps(v, S, t, v, S, t) /\ SameRotations(S, S)
BY DEF Keeps, SameRotations, World

\* One request goes on, and the row of one session may change with it.
LEMMA RequestStep ==
  ASSUME SessionsInv, NEW x \in Slots, NEW u \in Request, Put(x, u),
         UNCHANGED <<version, client, now, lost>>,
         session' \in [Sids -> Session], loggedOut' \subseteq Sids,
         TableOK(session', now), Keeps(version, session, now, version, session', now),
         \A y \in Slots \ {x} : req[y] # NoRequest /\ req[y].at = "create" =>
           ~Issued(session', req[y].got.sid),
         RequestOK(u, version, session', now), ApartFromJar(u, jar),
         \A y \in Slots \ {x} : req[y] # NoRequest => Apart(u, req[y]) /\ Apart(req[y], u),
         lost = 0 =>
           /\ \A s \in Sids : session'[s].revoked => s \in loggedOut'
           /\ RotationOK(u, version, session', now)
           /\ \A y \in Slots \ {x} : req[y] # NoRequest =>
                RotationOK(req[y], version, session', now)
           /\ JarOK(jar, [req EXCEPT ![x] = u], version, session', now),
         Calm(version, session', now) => session'[1].present /\ CalmRequest(u)
  PROVE  SessionsInv'
<1> USE DEF client
<1>1. /\ req \in [Slots -> Request \cup {NoRequest}] /\ req' = [req EXCEPT ![x] = u]
      /\ req'[x] = u /\ \A y \in Slots \ {x} : req'[y] = req[y]
  BY DEF SessionsInv, TypeOK, Put
<1>2. TypeOK'
  <2>1. req' \in [Slots -> Request \cup {NoRequest}]
    BY <1>1
  <2>2. QED
    BY <2>1 DEF SessionsInv, TypeOK
<1>3. World(version, session, now) /\ World(version, session', now)
  BY Before DEF World
<1>4. jar' # NoCookie => Known(jar', version', session')
  BY <1>3, KeepsKnown, Before DEF SessionsInv
<1>5. ASSUME NEW y \in Slots, req'[y] # NoRequest
      PROVE  RequestOK(req'[y], version', session', now') /\ ApartFromJar(req'[y], jar')
  <2>1. CASE y = x
    BY <1>1, <2>1
  <2>2. CASE y # x
    <3>1. req'[y] = req[y] /\ req[y] \in Request /\ req[y] # NoRequest
      BY <1>1, <1>5, <2>2, Before
    <3>2. RequestOK(req[y], version, session, now) /\ ApartFromJar(req[y], jar)
      BY <3>1 DEF SessionsInv
    <3>3. now <= req[y].since + RoundTrip
      BY <3>2 DEF RequestOK, TimeOK
    <3>4. RequestOK(req[y], version, session', now)
      BY <1>3, <2>2, <3>1, <3>2, <3>3, RequestKept
    <3>5. QED
      BY <3>1, <3>2, <3>4
  <2>3. QED
    BY <2>1, <2>2
<1>6. ASSUME NEW y \in Slots, NEW z \in Slots \ {y}, req'[y] # NoRequest, req'[z] # NoRequest
      PROVE  Apart(req'[y], req'[z])
  <2>1. CASE y = x
    BY <1>1, <1>6, <2>1
  <2>2. CASE z = x
    BY <1>1, <1>6, <2>2
  <2>3. CASE y # x /\ z # x
    BY <1>1, <1>6, <2>3 DEF SessionsInv
  <2>4. QED
    BY <2>1, <2>2, <2>3
<1>7. lost' = 0 =>
        /\ \A s \in Sids : session'[s].revoked => s \in loggedOut'
        /\ \A y \in Slots : req'[y] # NoRequest => RotationOK(req'[y], version', session', now')
        /\ JarOK(jar', req', version', session', now')
  BY <1>1
<1>8. ASSUME Calm(version', session', now')
      PROVE  /\ session'[1].present
             /\ CalmBrowser(jar', tab', told')
             /\ \A y \in Slots : req'[y] # NoRequest => CalmRequest(req'[y])
  <2>1. Calm(version, session', now)
    BY <1>8
  <2>2. Calm(version, session, now)
    BY <1>3, <2>1, CalmKept, Before DEF TableOK
  <2>3. CalmOK
    BY DEF SessionsInv
  <2>4. QED
    BY <1>1, <2>1, <2>2, <2>3 DEF CalmOK
<1>9. TableOK(session', now')
  OBVIOUS
<1>10. QED
  BY <1>2, <1>4, <1>5, <1>6, <1>7, <1>8, <1>9, Assemble

\* One request goes on, and the server's tables stay.
LEMMA LocalStep ==
  ASSUME SessionsInv, NEW x \in Slots, NEW u \in Request, Put(x, u),
         UNCHANGED <<server, client, now, lost>>,
         RequestOK(u, version, session, now), ApartFromJar(u, jar),
         \A y \in Slots \ {x} : req[y] # NoRequest => Apart(u, req[y]) /\ Apart(req[y], u),
         lost = 0 => RotationOK(u, version, session, now),
         jar # NoCookie /\ MatchesIn(jar, version, session, now)
           /\ Renews(req[x], jar, version, session) => Renews(u, jar, version, session),
         Calm(version, session, now) => CalmRequest(u)
  PROVE  SessionsInv'
<1> DEFINE Q == [req EXCEPT ![x] = u]
<1>1. UNCHANGED <<version, client, now, lost>> /\ session' = session /\ loggedOut' = loggedOut
  BY DEF server
<1>2. World(version, session, now) /\ TableOK(session, now)
  BY Before
<1>3. /\ Keeps(version, session, now, version, session, now)
      /\ SameRotations(session, session)
  BY <1>2, KeepsItself
<1>4. Q[x] = u /\ \A y \in Slots \ {x} : Q[y] = req[y]
  BY DEF SessionsInv, TypeOK
<1> HIDE DEF Q
<1>5. ASSUME lost = 0
      PROVE  /\ \A s \in Sids : session[s].revoked => s \in loggedOut
             /\ \A y \in Slots \ {x} : req[y] # NoRequest =>
                  RotationOK(req[y], version, session, now)
             /\ JarOK(jar, Q, version, session, now)
  <2>1. RotationsOK
    BY DEF SessionsInv
  <2>2. JarOK(jar, req, version, session, now)
    BY <1>5, <2>1 DEF RotationsOK
  <2>3. jar # NoCookie => Known(jar, version, session)
    BY DEF SessionsInv
  <2>4. ASSUME NEW y \in Slots, jar # NoCookie, MatchesIn(jar, version, session, now),
               Renews(req[y], jar, version, session)
        PROVE  \E z \in Slots : Renews(Q[z], jar, version, session)
    BY <1>4, <2>4
  <2>5. JarOK(jar, Q, version, session, now)
    BY <1>2, <1>3, <2>2, <2>3, <2>4, Before, JarKept
  <2>6. QED
    BY <1>5, <2>1, <2>5 DEF RotationsOK
<1>6. \A y \in Slots \ {x} : req[y] # NoRequest /\ req[y].at = "create" =>
        ~Issued(session, req[y].got.sid)
  BY Before DEF TimeOK
<1>7. Calm(version, session, now) => session[1].present
  BY DEF SessionsInv, CalmOK
<1>8. session' \in [Sids -> Session] /\ loggedOut' \subseteq Sids
  BY <1>1 DEF SessionsInv, TypeOK
<1>9. QED
  BY <1>1, <1>2, <1>3, <1>5, <1>6, <1>7, <1>8, RequestStep DEF Q

-----------------------------------------------------------------------------
(* The proxy and the handlers.                                             *)

\* A request that keeps its cookies, drops them or renews those it was sent
\* with stays apart from the others.
LEMMA StaysApart ==
  ASSUME SessionsInv, NEW x \in Slots, NEW u \in Request, req[x] # NoRequest,
         u.kind = req[x].kind, u.at # "create", u.sent \in {req[x].sent, NoCookie},
         Brings(u) => \/ Brings(req[x]) /\ u.got = req[x].got
                      \/ OfUser(u) /\ req[x].sent # NoCookie /\ u.got.sid = req[x].sent.sid
  PROVE  /\ ApartFromJar(u, jar)
         /\ \A y \in Slots \ {x} : req[y] # NoRequest => Apart(u, req[y]) /\ Apart(req[y], u)
<1>1. ApartFromJar(req[x], jar)
  BY DEF SessionsInv
<1>2. ApartFromJar(u, jar)
  BY <1>1 DEF ApartFromJar, OfUser
<1>3. ASSUME NEW y \in Slots \ {x}, req[y] # NoRequest
      PROVE  Apart(u, req[y]) /\ Apart(req[y], u)
  <2>1. Apart(req[x], req[y]) /\ Apart(req[y], req[x])
    BY <1>3 DEF SessionsInv
  <2>2. Apart(u, req[y])
    BY <2>1 DEF Apart, OfUser
  <2>3. Apart(req[y], u)
    BY <2>1 DEF Apart
  <2>4. QED
    BY <2>2, <2>3
<1>4. QED
  BY <1>2, <1>3

\* A request moves on, keeping its time, kind and cookies.
LEMMA AtFields ==
  ASSUME NEW r \in Request, NEW u, NEW at \in {"refresh", "handle"}, u = [r EXCEPT !.at = at]
  PROVE  /\ u \in Request /\ u.at = at /\ u.kind = r.kind /\ u.since = r.since
         /\ u.dead = r.dead /\ u.got = r.got /\ u.sent = r.sent /\ u.ok = r.ok
BY DEF Request

LEMMA MatchesHere == \A c : Matches(c) <=> MatchesIn(c, version, session, now)
BY DEF Matches, MatchesIn

\* What a refusal leaves is in order; only a request without a live session
\* is refused while nothing has happened.
LEMMA RefuseStep ==
  ASSUME SessionsInv, NEW x \in Slots, req[x] # NoRequest, OfUser(req[x]),
         NEW r \in Request, r = req[x] \/ r = [req[x] EXCEPT !.got = Keep], r.got = Keep,
         Answer(x, r, FALSE), UNCHANGED <<server, client, now, lost>>,
         jar # NoCookie /\ MatchesIn(jar, version, session, now) =>
           ~Renews(req[x], jar, version, session),
         ~Calm(version, session, now)
  PROVE  SessionsInv'
<1>1. PICK u : u = [r EXCEPT !.at = "answered", !.ok = FALSE, !.sent = NoCookie]
  OBVIOUS
<1>2. /\ u \in Request /\ u.at = "answered" /\ ~u.ok /\ u.sent = NoCookie
      /\ u.kind = r.kind /\ u.since = r.since /\ u.dead = r.dead /\ u.got = Keep
  BY <1>1 DEF Request
<1>3. r.kind = req[x].kind /\ r.since = req[x].since /\ req[x] \in Request
  BY Before DEF Request
<1>4. Keep \notin Cookie /\ Keep # NoCookie
  BY AuthSessionsAssumption
<1>5. ~Brings(u)
  BY <1>2, <1>4 DEF Brings
<1>6. TimeOK(req[x], version, session, now) /\ StepOK(req[x])
  BY Before
<1>7. StepOK(u)
  BY <1>2, <1>3, <1>4 DEF StepOK, OfUser
<1>8. TimeOK(u, version, session, now)
  BY <1>2, <1>3, <1>5, <1>6 DEF TimeOK
<1>9. RequestOK(u, version, session, now)
  BY <1>2, <1>7, <1>8 DEF RequestOK, DeadOK
<1>10. /\ ApartFromJar(u, jar)
       /\ \A y \in Slots \ {x} : req[y] # NoRequest => Apart(u, req[y]) /\ Apart(req[y], u)
  BY <1>2, <1>3, <1>5, StaysApart
<1>11. RotationOK(u, version, session, now)
  BY <1>2, <1>5 DEF RotationOK
<1>12. Put(x, u)
  BY <1>1 DEF Answer
<1>13. QED
  BY <1>2, <1>9, <1>10, <1>11, <1>12, LocalStep

LEMMA ProxyVerifyStep ==
  ASSUME SessionsInv, NEW x \in Slots, ProxyVerify(x)
  PROVE  SessionsInv'
<1> DEFINE r == req[x]
<1>1. r # NoRequest /\ r.at = "verify" /\ UNCHANGED <<server, client, now, lost>>
  BY DEF ProxyVerify
<1>2. /\ r \in Request /\ StepOK(r) /\ TimeOK(r, version, session, now)
      /\ DeadOK(r, version, session, now)
  BY <1>1, Before
<1>3. OfUser(r) /\ r.got = Keep /\ Keep \notin Cookie /\ NoCookie \notin Cookie
  BY <1>1, <1>2, RequestFields, AuthSessionsAssumption DEF StepOK, OfUser
<1>4. /\ lost = 0 => RotationOK(r, version, session, now)
      /\ Calm(version, session, now) => CalmRequest(r)
  BY <1>1 DEF SessionsInv, RotationsOK, CalmOK
<1>5. ~Brings(r)
  BY <1>3 DEF Brings
<1>6. ASSUME NEW at \in {"refresh", "handle"}, r.sent # NoCookie,
             at = "refresh" /\ Matches(r.sent) => r.sent.exp < now + Margin,
             at = "handle" => AccessValid(r.sent) /\ r.since + Margin <= r.sent.exp,
             Put(x, [r EXCEPT !.at = at])
      PROVE  SessionsInv'
  <2>1. PICK u : u = [r EXCEPT !.at = at]
    OBVIOUS
  <2>2. /\ u \in Request /\ u.at = at /\ u.kind = r.kind /\ u.since = r.since
        /\ u.dead = r.dead /\ u.got = r.got /\ u.sent = r.sent /\ u.ok = r.ok
    BY <1>2, <2>1, AtFields
  <2>3. StepOK(u) /\ ~Brings(u)
    BY <1>3, <1>6, <2>2 DEF StepOK, OfUser, Brings
  <2>4. TimeOK(u, version, session, now)
    BY <1>2, <1>3, <1>6, <2>2, <2>3, MatchesHere DEF TimeOK
  <2>5. DeadOK(u, version, session, now)
    BY <1>1, <1>2, <1>6, <2>2, MatchesHere DEF DeadOK, OfUser, AccessValid
  <2>6. /\ ApartFromJar(u, jar)
        /\ \A y \in Slots \ {x} : req[y] # NoRequest => Apart(u, req[y]) /\ Apart(req[y], u)
    BY <1>1, <2>2, <2>3, StaysApart
  <2>7. lost = 0 => RotationOK(u, version, session, now)
    BY <1>4, <2>2, <2>3 DEF RotationOK
  <2>8. Calm(version, session, now) => CalmRequest(u)
    BY <1>1, <1>3, <1>4, <2>2 DEF CalmRequest
  <2>9. ~Renews(r, jar, version, session)
    BY <1>5 DEF Renews
  <2>10. Put(x, u)
    BY <1>6, <2>1
  <2>11. QED
    BY <1>1, <2>2, <2>3, <2>4, <2>5, <2>6, <2>7, <2>8, <2>9, <2>10, LocalStep DEF RequestOK
<1>7. r.since \in Nat /\ now \in Nat /\ r.since <= now /\ Margin \in Nat /\ Margin > 0
  BY <1>2, RequestFields, Before, Bounds DEF TimeOK, World
<1>8. r.sent # NoCookie => r.sent.exp \in Nat
  BY <1>2, RequestFields, CookieFields
<1>9. CASE r.sent # NoCookie /\ (~AccessValid(r.sent) \/ r.sent.exp - now < Margin)
  <2>1. Put(x, [r EXCEPT !.at = "refresh"])
    BY <1>9 DEF ProxyVerify
  <2>2. Matches(r.sent) => r.sent.exp < now + Margin
    BY <1>7, <1>8, <1>9 DEF AccessValid
  <2>3. QED
    BY <1>6, <1>9, <2>1, <2>2
<1>10. CASE AccessValid(r.sent) /\ ~(r.sent.exp - now < Margin)
  <2>1. Put(x, [r EXCEPT !.at = "handle"])
    BY <1>10 DEF ProxyVerify
  <2>2. r.since + Margin <= r.sent.exp
    BY <1>7, <1>8, <1>10 DEF AccessValid
  <2>3. QED
    BY <1>6, <1>10, <2>1, <2>2 DEF AccessValid
<1>11. CASE r.sent = NoCookie
  <2>1. Answer(x, r, FALSE)
    BY <1>11 DEF ProxyVerify, AccessValid
  <2>2. ~Calm(version, session, now)
    BY <1>1, <1>4, <1>11 DEF CalmRequest
  <2>3. QED
    BY <1>1, <1>2, <1>3, <1>5, <2>1, <2>2, RefuseStep DEF Renews
<1>12. QED
  BY <1>9, <1>10, <1>11

\* A renewed token is valid until the request is answered, if its session is.
LEMMA RenewedValid ==
  ASSUME SessionsInv, NEW x \in Slots, req[x] # NoRequest, req[x].at \in {"reverify", "handle"},
         req[x].got \in Cookie, MatchesIn(req[x].got, version, session, now)
  PROVE  AccessValid(req[x].got)
<1> DEFINE r == req[x]
<1>1. r \in Request /\ TimeOK(r, version, session, now) /\ now \in Nat
  BY Before DEF World
<1>2. r.since \in Nat /\ r.got.exp \in Nat
  BY <1>1, RequestFields, CookieFields
<1>3. now <= r.since + RoundTrip /\ r.since + Access <= r.got.exp
  BY <1>1 DEF TimeOK
<1>4. now < r.got.exp
  BY <1>1, <1>2, <1>3, Bounds
<1>5. r.got # NoCookie
  BY AuthSessionsAssumption
<1>6. QED
  BY <1>4, <1>5, MatchesHere DEF AccessValid

\* A cookie of the first session matches while nothing has happened.
LEMMA CalmMatches ==
  ASSUME SessionsInv, Calm(version, session, now), NEW c \in Cookie,
         Known(c, version, session), c.sid = 1
  PROVE  MatchesIn(c, version, session, now)
<1>1. c.ver = version
  BY CookieFields DEF Known, Calm
<1>2. session[1].present
  BY DEF SessionsInv, CalmOK
<1>3. QED
  BY <1>1, <1>2, CookieFields DEF MatchesIn, Calm

LEMMA ReverifyStep ==
  ASSUME SessionsInv, NEW x \in Slots, Reverify(x)
  PROVE  SessionsInv'
<1> DEFINE r == req[x]
<1>1. r # NoRequest /\ r.at = "reverify" /\ UNCHANGED <<server, client, now, lost>>
  BY DEF Reverify
<1>2. /\ r \in Request /\ StepOK(r) /\ TimeOK(r, version, session, now)
      /\ DeadOK(r, version, session, now)
  BY <1>1, Before
<1>3. OfUser(r) /\ r.got \in Cookie /\ Brings(r)
  BY <1>1, <1>2, RequestFields DEF StepOK, OfUser, Brings
<1>4. /\ lost = 0 => RotationOK(r, version, session, now)
      /\ Calm(version, session, now) => CalmRequest(r)
  BY <1>1 DEF SessionsInv, RotationsOK, CalmOK
<1>5. CASE AccessValid(r.got)
  <2>1. PICK u : u = [r EXCEPT !.at = "handle"]
    OBVIOUS
  <2>2. /\ u \in Request /\ u.at = "handle" /\ u.kind = r.kind /\ u.since = r.since
        /\ u.dead = r.dead /\ u.got = r.got /\ u.sent = r.sent /\ u.ok = r.ok
    BY <1>2, <2>1, AtFields
  <2>3. StepOK(u)
    BY <1>3, <2>2 DEF StepOK, OfUser
  <2>4. TimeOK(u, version, session, now)
    BY <1>1, <1>2, <1>3, <2>2, AuthSessionsAssumption DEF TimeOK, Brings, OfUser
  <2>5. DeadOK(u, version, session, now)
    BY <1>1, <1>2, <2>2 DEF DeadOK, OfUser
  <2>6. /\ ApartFromJar(u, jar)
        /\ \A y \in Slots \ {x} : req[y] # NoRequest => Apart(u, req[y]) /\ Apart(req[y], u)
    BY <1>1, <1>3, <2>2, StaysApart
  <2>7. lost = 0 => RotationOK(u, version, session, now)
    BY <1>3, <1>4, <2>2 DEF RotationOK, Brings
  <2>8. Calm(version, session, now) => CalmRequest(u)
    BY <1>1, <1>3, <1>4, <2>2 DEF CalmRequest
  <2>9. u # NoRequest
    BY <2>2, AuthSessionsAssumption
  <2>10. Renews(r, jar, version, session) => Renews(u, jar, version, session)
    BY <2>2, <2>9 DEF Renews, Brings
  <2>11. Put(x, u)
    BY <1>5, <2>1 DEF Reverify
  <2>12. QED
    BY <1>1, <2>2, <2>3, <2>4, <2>5, <2>6, <2>7, <2>8, <2>10, <2>11, LocalStep DEF RequestOK
<1>6. CASE ~AccessValid(r.got)
  <2>1. ~MatchesIn(r.got, version, session, now)
    BY <1>1, <1>3, <1>6, RenewedValid
  <2>2. PICK q : q = [r EXCEPT !.got = Keep]
    OBVIOUS
  <2>3. q \in Request /\ q.got = Keep
    BY <1>2, <2>2 DEF Request
  <2>4. Answer(x, q, FALSE)
    BY <1>6, <2>2 DEF Reverify
  <2>5. jar # NoCookie /\ MatchesIn(jar, version, session, now) =>
          ~Renews(r, jar, version, session)
    BY <2>1 DEF Renews, MatchesIn
  <2>6. ~Calm(version, session, now)
    BY <1>2, <1>3, <1>4, <2>1, CalmMatches DEF CalmRequest, TimeOK
  <2>7. QED
    BY <1>1, <1>3, <2>2, <2>3, <2>4, <2>5, <2>6, RefuseStep
<1>7. QED
  BY <1>5, <1>6

LEMMA HandleStep ==
  ASSUME SessionsInv, NEW x \in Slots, Handle(x)
  PROVE  SessionsInv'
<1> DEFINE r == req[x]
           c == IF r.got = Keep THEN r.sent ELSE r.got
<1>1. r # NoRequest /\ r.at = "handle" /\ UNCHANGED <<server, client, now, lost>>
  BY DEF Handle
<1>2. /\ r \in Request /\ StepOK(r) /\ TimeOK(r, version, session, now)
      /\ DeadOK(r, version, session, now)
  BY <1>1, Before
<1>3. OfUser(r) /\ (r.got \in Cookie \/ (r.got = Keep /\ r.sent # NoCookie))
  BY <1>1, <1>2, RequestFields DEF StepOK, OfUser
<1>4. /\ lost = 0 => RotationOK(r, version, session, now)
      /\ Calm(version, session, now) => CalmRequest(r)
  BY <1>1 DEF SessionsInv, RotationsOK, CalmOK
<1>5. Keep \notin Cookie /\ NoCookie \notin Cookie /\ Keep # NoCookie
  BY AuthSessionsAssumption
<1>6. PICK ok \in BOOLEAN : ok <=> AccessValid(c)
  OBVIOUS
<1>7. PICK u : u = [r EXCEPT !.at = "answered", !.ok = ok, !.sent = NoCookie]
  OBVIOUS
<1>8. /\ u \in Request /\ u.at = "answered" /\ u.ok = ok /\ u.sent = NoCookie
      /\ u.kind = r.kind /\ u.since = r.since /\ u.dead = r.dead /\ u.got = r.got
  BY <1>2, <1>7 DEF Request
<1>9. StepOK(u)
  BY <1>3, <1>5, <1>8 DEF StepOK, OfUser
<1>10. TimeOK(u, version, session, now)
  BY <1>1, <1>2, <1>3, <1>8 DEF TimeOK, Brings, OfUser
<1>11. DeadOK(u, version, session, now)
  BY <1>1, <1>2, <1>8 DEF DeadOK, OfUser
<1>12. /\ ApartFromJar(u, jar)
       /\ \A y \in Slots \ {x} : req[y] # NoRequest => Apart(u, req[y]) /\ Apart(req[y], u)
  BY <1>1, <1>8, StaysApart DEF Brings
<1>13. lost = 0 => RotationOK(u, version, session, now)
  BY <1>1, <1>4, <1>8 DEF RotationOK, Brings
<1>14. ASSUME Calm(version, session, now)
       PROVE  CalmRequest(u)
  <2>1. CalmRequest(r)
    BY <1>4, <1>14
  <2>2. AccessValid(c)
    <3>1. CASE r.got \in Cookie
      <4>1. Known(r.got, version, session) /\ r.got.sid = 1
        BY <1>1, <1>2, <2>1, <3>1 DEF TimeOK, Brings, CalmRequest
      <4>2. AccessValid(r.got)
        BY <1>1, <1>14, <3>1, <4>1, CalmMatches, RenewedValid
      <4>3. QED
        BY <1>5, <3>1, <4>2
    <3>2. CASE r.got = Keep /\ r.sent # NoCookie
      <4>1. r.sent \in Cookie /\ Known(r.sent, version, session) /\ r.sent.sid = 1
        BY <1>1, <1>2, <2>1, <3>2, RequestFields DEF TimeOK, CalmRequest
      <4>2. MatchesIn(r.sent, version, session, now)
        BY <1>14, <4>1, CalmMatches
      <4>3. r.since + Margin <= r.sent.exp /\ now <= r.since + RoundTrip
        BY <1>1, <1>2, <3>2 DEF TimeOK
      <4>4. r.since \in Nat /\ r.sent.exp \in Nat /\ now \in Nat
        BY <1>2, <4>1, RequestFields, CookieFields, Before DEF World
      <4>5. now < r.sent.exp
        BY <4>3, <4>4, Bounds
      <4>6. QED
        BY <3>2, <4>2, <4>5, MatchesHere DEF AccessValid
    <3>3. QED
      BY <1>3, <3>1, <3>2
  <2>3. QED
    BY <1>3, <1>6, <1>8, <2>1, <2>2 DEF CalmRequest, OfUser
<1>15. u # NoRequest
  BY <1>8, AuthSessionsAssumption
<1>16. Renews(r, jar, version, session) => Renews(u, jar, version, session)
  BY <1>8, <1>15 DEF Renews, Brings
<1>17. Put(x, u)
  <2>1. Answer(x, r, AccessValid(c)) /\ ok = AccessValid(c)
    BY <1>6 DEF Handle, AccessValid, Matches
  <2>2. QED
    BY <1>7, <2>1 DEF Answer
<1>18. QED
  BY <1>1, <1>8, <1>9, <1>10, <1>11, <1>12, <1>13, <1>14, <1>16, <1>17, LocalStep DEF RequestOK

-----------------------------------------------------------------------------
(* The rotation.                                                           *)

LEMMA RowFields ==
  ASSUME SessionsInv, NEW s \in Sids
  PROVE  /\ session[s].gen \in Nat /\ session[s].rotatedAt \in Nat \cup {Never}
         /\ session[s].expires \in Nat /\ session[s].revoked \in BOOLEAN
         /\ session[s].present \in BOOLEAN
         /\ session[s].rotatedAt <= now
         /\ version \in Nat /\ now \in Nat
<1>1. session[s] \in Session /\ session[s].rotatedAt <= now /\ version \in Nat /\ now \in Nat
  BY Before DEF TableOK, World
<1>2. QED
  BY <1>1 DEF Session

\* A request sent soon after a rotation is served within its grace period.
LEMMA SoonIsWithinGrace ==
  ASSUME SessionsInv, NEW s \in Sids, session[s].rotatedAt # Never, NEW since \in Nat,
         since <= session[s].rotatedAt + RoundTrip, now <= since + RoundTrip
  PROVE  WithinGrace(s)
<1>1. session[s].rotatedAt \in Nat /\ now \in Nat
  BY RowFields
<1>2. now - session[s].rotatedAt < Grace
  BY <1>1, Bounds
<1>3. QED
  BY <1>2 DEF WithinGrace

\* A token of the current generation is not renewed within the grace period:
\* its access token is too young.
LEMMA CurrentIsYoung ==
  ASSUME SessionsInv, NEW s \in Sids, WithinGrace(s), NEW c \in Cookie, c.sid = s,
         Current(c, session)
  PROVE  ~(c.exp < now + Margin)
<1>1. session[s].rotatedAt \in Nat /\ now \in Nat /\ c.exp \in Nat
  BY RowFields, CookieFields DEF WithinGrace
<1>2. session[s].rotatedAt + Access <= c.exp /\ now - session[s].rotatedAt < Grace
  BY <1>1 DEF Current, WithinGrace
<1>3. QED
  BY <1>1, <1>2, Bounds

\* The request r at "refresh" with the cookie c, and the row of c.
LEMMA Refreshing ==
  ASSUME SessionsInv, NEW x \in Slots, req[x] # NoRequest, req[x].at = "refresh"
  PROVE  /\ req[x] \in Request /\ OfUser(req[x]) /\ req[x].got = Keep /\ ~Brings(req[x])
         /\ req[x].sent \in Cookie /\ Known(req[x].sent, version, session)
         /\ req[x].since \in Nat /\ req[x].since <= now /\ now <= req[x].since + RoundTrip
         /\ MatchesIn(req[x].sent, version, session, now) => req[x].sent.exp < now + Margin
         /\ MatchesIn(req[x].sent, version, session, now) => ~req[x].dead
         /\ lost = 0 => RotationOK(req[x], version, session, now)
         /\ Calm(version, session, now) => CalmRequest(req[x])
<1> DEFINE r == req[x]
<1>1. /\ r \in Request /\ StepOK(r) /\ TimeOK(r, version, session, now)
      /\ DeadOK(r, version, session, now)
  BY Before
<1>2. OfUser(r) /\ r.got = Keep /\ r.sent \in Cookie
  BY <1>1, RequestFields DEF StepOK, OfUser
<1>3. ~Brings(r) /\ r.sent # NoCookie
  BY <1>2, AuthSessionsAssumption DEF Brings
<1>4. /\ lost = 0 => RotationOK(r, version, session, now)
      /\ Calm(version, session, now) => CalmRequest(r)
  BY DEF SessionsInv, RotationsOK, CalmOK
<1>5. MatchesIn(r.sent, version, session, now) => ~r.dead
  BY <1>1, <1>2, <1>3 DEF DeadOK
<1>6. QED
  BY <1>1, <1>2, <1>3, <1>4, <1>5, RequestFields DEF TimeOK

LEMMA RenewFields ==
  ASSUME NEW r \in Request, NEW c \in Cookie, NEW u,
         u = [r EXCEPT !.at = "reverify", !.got = c]
  PROVE  /\ u \in Request /\ u.at = "reverify" /\ u.kind = r.kind /\ u.since = r.since
         /\ u.dead = r.dead /\ u.got = c /\ u.sent = r.sent /\ u.ok = r.ok
BY DEF Request

LEMMA TokensType ==
  ASSUME SessionsInv, NEW s \in Sids, NEW g \in Nat
  PROVE  /\ Tokens(s, g, version) \in Cookie
         /\ Tokens(s, g, version).sid = s /\ Tokens(s, g, version).gen = g
         /\ Tokens(s, g, version).ver = version /\ Tokens(s, g, version).exp = now + Access
<1>1. version \in Nat /\ now + Access \in Nat
  BY Before, Bounds DEF World
<1>2. QED
  BY <1>1 DEF Tokens, Cookie

\* What a request with renewed cookies needs of the table S it has made.
LEMMA RenewedRequest ==
  ASSUME SessionsInv, NEW x \in Slots, req[x] # NoRequest, req[x].at = "refresh",
         MatchesIn(req[x].sent, version, session, now), NEW g \in Nat,
         NEW u, u = [req[x] EXCEPT !.at = "reverify", !.got = Tokens(req[x].sent.sid, g, version)],
         NEW S \in [Sids -> Session], Issued(S, req[x].sent.sid), S[req[x].sent.sid].rotatedAt # Never
  PROVE  /\ u \in Request /\ RequestOK(u, version, S, now) /\ ApartFromJar(u, jar)
         /\ \A y \in Slots \ {x} : req[y] # NoRequest => Apart(u, req[y]) /\ Apart(req[y], u)
         /\ Calm(version, session, now) => CalmRequest(u)
<1> DEFINE r == req[x]
           c == Tokens(r.sent.sid, g, version)
<1>1. /\ r \in Request /\ OfUser(r) /\ r.sent \in Cookie /\ Known(r.sent, version, session)
      /\ r.since \in Nat /\ r.since <= now /\ now <= r.since + RoundTrip /\ ~r.dead
      /\ Calm(version, session, now) => CalmRequest(r)
  BY Refreshing
<1>2. r.sent.sid \in Sids
  BY <1>1, CookieFields
<1>3. /\ c \in Cookie /\ c.sid = r.sent.sid /\ c.gen = g /\ c.ver = version
      /\ c.exp = now + Access
  BY <1>2, TokensType
<1>4. version \in Nat /\ now \in Nat /\ Access \in Nat
  BY Before, Bounds DEF World
<1> HIDE DEF c
<1>5. /\ u \in Request /\ u.at = "reverify" /\ u.kind = r.kind /\ u.since = r.since
      /\ u.dead = r.dead /\ u.got = c /\ u.sent = r.sent /\ u.ok = r.ok
  <2>1. u = [r EXCEPT !.at = "reverify", !.got = c]
    BY DEF c
  <2>2. r \in Request /\ c \in Cookie
    BY <1>1, <1>3
  <2> HIDE DEF r
  <2>3. QED
    BY ONLY <2>1, <2>2 DEF Request
<1>6. r.sent # NoCookie
  BY <1>1, AuthSessionsAssumption
<1>7. StepOK(u)
  BY <1>1, <1>3, <1>5, <1>6 DEF StepOK, OfUser
<1>8. Known(u.got, version, S) /\ Known(u.sent, version, S)
  BY <1>1, <1>3, <1>4, <1>5 DEF Known
<1>9. u.since + Access <= u.got.exp
  BY <1>1, <1>3, <1>4, <1>5
<1>10. TimeOK(u, version, S, now)
  BY <1>1, <1>3, <1>5, <1>8, <1>9 DEF TimeOK
<1>11. DeadOK(u, version, S, now)
  BY <1>1, <1>5 DEF DeadOK
<1>12. /\ ApartFromJar(u, jar)
       /\ \A y \in Slots \ {x} : req[y] # NoRequest => Apart(u, req[y]) /\ Apart(req[y], u)
  BY <1>1, <1>3, <1>5, <1>6, StaysApart DEF OfUser
<1>13. Calm(version, session, now) => CalmRequest(u)
  BY <1>1, <1>3, <1>5, <1>6 DEF CalmRequest, OfUser
<1>14. QED
  BY <1>5, <1>7, <1>10, <1>11, <1>12, <1>13 DEF RequestOK

\* The current generation is given out again.
LEMMA RefreshAgainStep ==
  ASSUME SessionsInv, NEW x \in Slots, req[x] # NoRequest, req[x].at = "refresh",
         UNCHANGED <<server, client, now, lost>>,
         Matches(req[x].sent), WithinGrace(req[x].sent.sid),
         Put(x, [req[x] EXCEPT !.at = "reverify",
                   !.got = Tokens(req[x].sent.sid, session[req[x].sent.sid].gen, version)])
  PROVE  SessionsInv'
<1> DEFINE r == req[x]
           s == r.sent.sid
<1>1. /\ r.sent \in Cookie /\ s \in Sids /\ r.since \in Nat /\ now <= r.since + RoundTrip
      /\ r.sent.exp < now + Margin /\ ~Brings(r) /\ Issued(session, s)
      /\ MatchesIn(r.sent, version, session, now)
  BY Refreshing, CookieFields, MatchesHere DEF Known
<1>2. session[s].gen \in Nat /\ session[s].rotatedAt \in Nat /\ session[s].rotatedAt <= now
      /\ session[s].rotatedAt # Never
  BY <1>1, RowFields DEF WithinGrace
<1>3. PICK u : u = [r EXCEPT !.at = "reverify", !.got = Tokens(s, session[s].gen, version)]
  OBVIOUS
<1>4. session \in [Sids -> Session]
  BY DEF SessionsInv, TypeOK
<1>5. /\ u \in Request /\ RequestOK(u, version, session, now) /\ ApartFromJar(u, jar)
      /\ \A y \in Slots \ {x} : req[y] # NoRequest => Apart(u, req[y]) /\ Apart(req[y], u)
      /\ Calm(version, session, now) => CalmRequest(u)
  BY <1>1, <1>2, <1>3, <1>4, RenewedRequest
<1>6. /\ u.sent = r.sent /\ u.since = r.since /\ u.got = Tokens(s, session[s].gen, version)
  BY <1>3, Refreshing DEF Request
<1>7. ASSUME lost = 0
      PROVE  RotationOK(u, version, session, now)
  <2>1. RotationOK(r, version, session, now)
    BY <1>7, Refreshing
  <2>2. ~Current(r.sent, session)
    BY <1>1, CurrentIsYoung
  <2>3. r.sent # NoCookie
    BY <1>1, AuthSessionsAssumption
  <2>4. r.since <= session[s].rotatedAt + RoundTrip
    BY <1>1, <2>1, <2>2, <2>3 DEF RotationOK
  <2>5. /\ u.got.sid = s /\ u.got.gen = session[s].gen /\ u.got.exp = now + Access
    BY <1>1, <1>2, <1>6, TokensType
  <2>6. now \in Nat /\ Access \in Nat
    BY Bounds, Before DEF World
  <2>7. session[s].rotatedAt + Access <= u.got.exp
    BY <1>2, <2>5, <2>6
  <2>8. Current(u.got, session)
    BY <2>5, <2>7 DEF Current
  <2>9. QED
    BY <1>6, <2>1, <2>4, <2>5, <2>8 DEF RotationOK
<1>8. ~Renews(r, jar, version, session)
  BY <1>1 DEF Renews
<1>9. Put(x, u)
  BY <1>3
<1>10. QED
  BY <1>5, <1>7, <1>8, <1>9, LocalStep

\* The session moves on to the next generation.
LEMMA RotateStep ==
  ASSUME SessionsInv, NEW x \in Slots, req[x] # NoRequest, req[x].at = "refresh",
         UNCHANGED <<version, loggedOut, client, now, lost>>,
         Matches(req[x].sent), ~WithinGrace(req[x].sent.sid),
         req[x].sent.gen = session[req[x].sent.sid].gen,
         session' = Rotated(req[x].sent.sid),
         Put(x, [req[x] EXCEPT !.at = "reverify",
                   !.got = Tokens(req[x].sent.sid, session[req[x].sent.sid].gen + 1, version)])
  PROVE  SessionsInv'
<1> DEFINE r == req[x]
           s == r.sent.sid
<1>1. /\ r.sent \in Cookie /\ s \in Sids /\ r.since \in Nat /\ r.since <= now
      /\ now <= r.since + RoundTrip /\ ~Brings(r) /\ Issued(session, s)
      /\ MatchesIn(r.sent, version, session, now) /\ r.sent # NoCookie
  BY Refreshing, CookieFields, MatchesHere, AuthSessionsAssumption DEF Known
<1>2. session \in [Sids -> Session] /\ session[s] \in Session
  BY <1>1 DEF SessionsInv, TypeOK
<1>3. /\ session[s].gen \in Nat /\ session[s].rotatedAt \in Nat \cup {Never}
      /\ session[s].rotatedAt <= now /\ now \in Nat /\ version \in Nat
  BY <1>1, RowFields
<1>4. PICK row : row = [session[s] EXCEPT !.gen = session[s].gen + 1, !.rotatedAt = now]
  OBVIOUS
<1>5. /\ row \in Session /\ row.gen = session[s].gen + 1 /\ row.rotatedAt = now
      /\ row.expires = session[s].expires /\ row.revoked = session[s].revoked
      /\ row.present = session[s].present
  <2> DEFINE old == session[s]
  <2>1. old \in Session /\ row = [old EXCEPT !.gen = old.gen + 1, !.rotatedAt = now]
    BY <1>2, <1>4
  <2>2. old.gen + 1 \in Nat /\ now \in Nat
    BY <1>3
  <2> HIDE DEF old, s, r
  <2>3. /\ row \in Session /\ row.gen = old.gen + 1 /\ row.rotatedAt = now
        /\ row.expires = old.expires /\ row.revoked = old.revoked /\ row.present = old.present
    BY <2>1, <2>2 DEF Session
  <2>4. QED
    BY <2>3 DEF old
<1>6. session' = [session EXCEPT ![s] = row]
  BY <1>4 DEF Rotated
<1>7. /\ session' \in [Sids -> Session] /\ session'[s] = row
      /\ \A p \in Sids \ {s} : session'[p] = session[p]
  BY <1>1, <1>2, <1>5, <1>6
<1>8. row # NoSession /\ row.rotatedAt # Never
  BY <1>3, <1>5 DEF NoSession, Never
<1>9. Keeps(version, session, now, version, session', now)
  <2>1. ASSUME NEW p \in Sids, Issued(session, p)
        PROVE  /\ Issued(session', p) /\ session'[p].expires = session[p].expires
               /\ session[p].revoked => session'[p].revoked
               /\ session'[p].present => session[p].present
               /\ session[p].rotatedAt # Never => session'[p].rotatedAt # Never
    <3>1. CASE p = s
      BY <1>5, <1>7, <1>8, <3>1 DEF Issued
    <3>2. CASE p # s
      BY <1>7, <2>1, <3>2 DEF Issued
    <3>3. QED
      BY <3>1, <3>2
  <2>2. QED
    BY <1>3, <2>1 DEF Keeps
<1>10. TableOK(session', now)
  <2>1. TableOK(session, now)
    BY Before
  <2>2. ASSUME NEW p \in Sids
        PROVE  /\ Issued(session', p) => session'[p].expires > 0
               /\ session'[p].rotatedAt <= now
    <3>1. CASE p = s
      BY <1>1, <1>3, <1>5, <1>7, <2>1, <3>1 DEF TableOK
    <3>2. CASE p # s
      BY <1>7, <2>1, <3>2 DEF TableOK, Issued
    <3>3. QED
      BY <3>1, <3>2
  <2>3. Issued(session', 1)
    BY <1>9, <2>1, Before DEF TableOK, Keeps
  <2>4. QED
    BY <2>2, <2>3 DEF TableOK
<1>11. \A p \in Sids : Issued(session', p) <=> Issued(session, p)
  BY <1>1, <1>7, <1>8 DEF Issued
<1>12. PICK u : u = [r EXCEPT !.at = "reverify", !.got = Tokens(s, session[s].gen + 1, version)]
  OBVIOUS
<1>13. /\ u \in Request /\ RequestOK(u, version, session', now) /\ ApartFromJar(u, jar)
       /\ \A y \in Slots \ {x} : req[y] # NoRequest => Apart(u, req[y]) /\ Apart(req[y], u)
       /\ Calm(version, session, now) => CalmRequest(u)
  <2>1. session[s].gen + 1 \in Nat /\ Issued(session', s) /\ session'[s].rotatedAt # Never
    BY <1>1, <1>3, <1>7, <1>8, <1>11
  <2>2. QED
    BY <1>1, <1>7, <1>12, <2>1, RenewedRequest
<1>14. /\ u.sent = r.sent /\ u.since = r.since
       /\ u.got = Tokens(s, session[s].gen + 1, version) /\ u.at = "reverify"
  BY <1>12, Refreshing DEF Request
<1>15. /\ u.got \in Cookie /\ u.got.sid = s /\ u.got.gen = session[s].gen + 1
       /\ u.got.ver = version /\ u.got.exp = now + Access
  BY <1>1, <1>3, <1>14, TokensType
<1>16. World(version, session, now) /\ World(version, session', now)
  BY <1>7, Before DEF World
<1>17. ASSUME lost = 0
       PROVE  /\ \A p \in Sids : session'[p].revoked => p \in loggedOut'
              /\ RotationOK(u, version, session', now)
              /\ \A y \in Slots \ {x} : req[y] # NoRequest =>
                   RotationOK(req[y], version, session', now)
              /\ JarOK(jar, [req EXCEPT ![x] = u], version, session', now)
  <2>1. RotationsOK
    BY DEF SessionsInv
  <2>2. \A p \in Sids : session'[p].revoked => p \in loggedOut'
    BY <1>5, <1>7, <1>17, <2>1 DEF RotationsOK
  <2>3. RotationOK(u, version, session', now)
    <3>1. Previous(u.sent, session')
      BY <1>3, <1>5, <1>7, <1>8, <1>14 DEF Previous
    <3>2. Current(u.got, session')
      BY <1>5, <1>7, <1>15, <1>3, Bounds DEF Current
    <3>3. u.since <= now + RoundTrip
      BY <1>1, <1>3, <1>14, Bounds
    <3>4. QED
      BY <1>5, <1>7, <1>14, <1>15, <3>1, <3>2, <3>3 DEF RotationOK
  \* Before the rotation nothing of a rotation of s was under way.
  <2>4. \A since \in Nat : session[s].rotatedAt # Never /\ now <= since + RoundTrip =>
          ~(since <= session[s].rotatedAt + RoundTrip)
    BY <1>1, SoonIsWithinGrace
  <2>5. ASSUME NEW c \in Cookie, c.sid = s, Current(c, session)
        PROVE  Previous(c, session')
    BY <1>3, <1>5, <1>7, <1>8, <2>5 DEF Current, Previous
  <2>6. ASSUME NEW y \in Slots \ {x}, req[y] # NoRequest
        PROVE  RotationOK(req[y], version, session', now)
    <3> DEFINE q == req[y]
    <3>1. /\ q \in Request /\ StepOK(q) /\ TimeOK(q, version, session, now)
          /\ RotationOK(q, version, session, now)
      BY <1>17, <2>1, <2>6, Before DEF RotationsOK
    <3>2. q.since \in Nat /\ q.since <= now /\ now <= q.since + RoundTrip
      BY <3>1, RequestFields DEF TimeOK
    <3>3. ASSUME q.sent # NoCookie, MatchesIn(q.sent, version, session', now)
          PROVE  \/ Current(q.sent, session')
                 \/ /\ Previous(q.sent, session')
                    /\ q.since <= session'[q.sent.sid].rotatedAt + RoundTrip
      <4>1. /\ q.sent \in Cookie /\ MatchesIn(q.sent, version, session, now)
        BY <1>9, <1>16, <3>1, <3>3, RequestFields, KeepsKnown DEF TimeOK
      <4>2. CASE q.sent.sid = s
        <5>1. Current(q.sent, session)
          BY <2>4, <3>1, <3>2, <3>3, <4>1, <4>2 DEF RotationOK, Previous
        <5>2. q.since <= now + RoundTrip
          BY <1>3, <3>2, Bounds
        <5>3. QED
          BY <1>5, <1>7, <2>5, <4>1, <4>2, <5>1, <5>2
      <4>3. CASE q.sent.sid # s
        BY <1>7, <3>1, <3>3, <4>1, <4>3, CookieFields DEF RotationOK, Current, Previous
      <4>4. QED
        BY <4>2, <4>3
    <3>4. ASSUME Brings(q), MatchesIn(q.got, version, session', now)
          PROVE  /\ Current(q.got, session')
                 /\ session'[q.got.sid].rotatedAt # Never =>
                      q.since <= session'[q.got.sid].rotatedAt + RoundTrip
      <4>1. q.got \in Cookie /\ MatchesIn(q.got, version, session, now)
        BY <1>9, <1>16, <3>1, <3>4, KeepsKnown DEF TimeOK, Brings
      <4>2. q.got.sid # s
        <5>1. CASE OfUser(q)
          BY <2>4, <3>1, <3>2, <3>4, <4>1, <5>1 DEF RotationOK, TimeOK
        <5>2. CASE q.kind = "login"
          <6>1. Apart(q, r)
            BY <2>6 DEF SessionsInv
          <6>2. QED
            BY <1>1, <3>4, <5>2, <6>1 DEF Apart
        <5>3. CASE q.kind = "logout"
          BY <3>1, <3>4, <5>3, AuthSessionsAssumption DEF StepOK, Brings
        <5>4. QED
          BY <3>1, <5>1, <5>2, <5>3, RequestFields DEF OfUser
      <4>3. session'[q.got.sid] = session[q.got.sid]
        BY <1>7, <4>1, <4>2, CookieFields
      <4>4. QED
        BY <3>1, <3>4, <4>1, <4>3 DEF RotationOK, Current
    <3>5. QED
      BY <3>3, <3>4 DEF RotationOK
  <2>7. ASSUME jar # NoCookie, MatchesIn(jar, version, session', now)
        PROVE  \/ Current(jar, session')
               \/ /\ Previous(jar, session')
                  /\ \E y \in Slots : Renews([req EXCEPT ![x] = u][y], jar, version, session')
    <3> DEFINE Q == [req EXCEPT ![x] = u]
    <3>1. Q[x] = u /\ \A y \in Slots \ {x} : Q[y] = req[y]
      BY DEF SessionsInv, TypeOK
    <3> HIDE DEF Q
    <3>2. jar \in Cookie /\ Known(jar, version, session)
      BY <2>7, Before DEF SessionsInv
    <3>3. MatchesIn(jar, version, session, now) /\ jar.sid \in Sids
      BY <1>9, <1>16, <2>7, <3>2, KeepsKnown, CookieFields
    <3>4. \/ Current(jar, session)
          \/ Previous(jar, session) /\ \E y \in Slots : Renews(req[y], jar, version, session)
      BY <1>17, <2>1, <2>7, <3>3 DEF RotationsOK, JarOK
    <3>5. CASE jar.sid = s
      <4>1. Current(jar, session)
        <5>1. SUFFICES ASSUME Previous(jar, session), NEW y \in Slots,
                              Renews(req[y], jar, version, session)
                       PROVE  FALSE
          BY <3>4
        <5>2. req[y] # NoRequest /\ req[y].since <= session[s].rotatedAt
          BY <3>5, <5>1 DEF Renews
        <5>3. req[y].since \in Nat /\ now <= req[y].since + RoundTrip
          BY <5>2, Before, RequestFields DEF TimeOK
        <5>4. session[s].rotatedAt # Never
          BY <3>5, <5>1 DEF Previous
        <5>5. req[y].since <= session[s].rotatedAt + RoundTrip
          BY <1>3, <5>2, <5>3, <5>4, Bounds DEF Never
        <5>6. QED
          BY <2>4, <5>3, <5>4, <5>5
      <4>2. Previous(jar, session')
        BY <2>5, <3>2, <3>5, <4>1
      <4>3. u # NoRequest
        BY <1>13, AuthSessionsAssumption
      <4>4. jar.ver = version
        BY <2>7 DEF MatchesIn
      <4>5. Renews(Q[x], jar, version, session')
        BY <1>1, <1>5, <1>7, <1>14, <1>15, <3>1, <3>5, <4>3 DEF Renews, Brings
      <4>6. QED
        BY <4>2, <4>5 DEF Q
    <3>6. CASE jar.sid # s
      <4>1. session'[jar.sid] = session[jar.sid]
        BY <1>7, <3>3, <3>6
      <4>2. CASE Current(jar, session)
        BY <4>1, <4>2 DEF Current
      <4>3. CASE Previous(jar, session) /\ \E y \in Slots : Renews(req[y], jar, version, session)
        <5>1. PICK y \in Slots : Renews(req[y], jar, version, session)
          BY <4>3
        <5>2. y # x
          BY <1>1, <5>1 DEF Renews
        <5>3. Renews(Q[y], jar, version, session')
          BY <3>1, <4>1, <5>1, <5>2 DEF Renews
        <5>4. QED
          BY <4>1, <4>3, <5>3 DEF Previous, Q
      <4>4. QED
        BY <3>4, <4>2, <4>3
    <3>7. QED
      BY <3>5, <3>6
  <2>8. QED
    BY <2>2, <2>3, <2>6, <2>7 DEF JarOK
<1>18. ASSUME Calm(version, session', now)
       PROVE  session'[1].present /\ CalmRequest(u)
  <2>1. Calm(version, session, now)
    BY <1>9, <1>16, <1>18, CalmKept, Before DEF TableOK
  <2>2. session[1].present /\ 1 \in Sids
    BY <2>1, Before DEF SessionsInv, CalmOK
  <2>3. QED
    BY <1>5, <1>7, <1>13, <2>1, <2>2
<1>19. \A y \in Slots \ {x} : req[y] # NoRequest /\ req[y].at = "create" =>
         ~Issued(session', req[y].got.sid)
  BY <1>11, Before, CookieFields DEF TimeOK, StepOK
<1>20. loggedOut' \subseteq Sids /\ Put(x, u)
  BY <1>12 DEF SessionsInv, TypeOK
<1>21. QED
  BY <1>7, <1>9, <1>10, <1>13, <1>17, <1>18, <1>19, <1>20, RequestStep

-----------------------------------------------------------------------------
(* Revocations, by a token that is not known and by a logout.              *)

LEMMA RevokedTable ==
  ASSUME SessionsInv, NEW s \in Sids, Issued(session, s), NEW T,
         T = [session EXCEPT ![s].revoked = TRUE]
  PROVE  /\ T \in [Sids -> Session]
         /\ Keeps(version, session, now, version, T, now) /\ SameRotations(session, T)
         /\ TableOK(T, now) /\ ~Calm(version, T, now)
         /\ T[s].revoked /\ \A p \in Sids \ {s} : T[p] = session[p]
         /\ \A p \in Sids : Issued(T, p) <=> Issued(session, p)
<1>1. session \in [Sids -> Session] /\ session[s] \in Session /\ World(version, session, now)
  BY Before DEF World
<1>2. PICK row : row = [session[s] EXCEPT !.revoked = TRUE]
  OBVIOUS
<1>3. /\ row \in Session /\ row.gen = session[s].gen /\ row.rotatedAt = session[s].rotatedAt
      /\ row.expires = session[s].expires /\ row.revoked
      /\ row.present = session[s].present
  BY <1>1, <1>2 DEF Session
<1>4. T = [session EXCEPT ![s] = row]
  BY <1>2
<1>5. T \in [Sids -> Session] /\ T[s] = row /\ \A p \in Sids \ {s} : T[p] = session[p]
  BY <1>1, <1>3, <1>4
<1>6. row # NoSession
  BY <1>3 DEF NoSession
<1>7. \A p \in Sids : Issued(T, p) <=> Issued(session, p)
  BY <1>5, <1>6 DEF Issued
<1>8. ASSUME NEW p \in Sids, Issued(session, p)
      PROVE  /\ Issued(T, p) /\ T[p].expires = session[p].expires
             /\ session[p].revoked => T[p].revoked
             /\ T[p].present => session[p].present
             /\ session[p].rotatedAt # Never => T[p].rotatedAt # Never
             /\ T[p].gen = session[p].gen /\ T[p].rotatedAt = session[p].rotatedAt
  <2>1. CASE p = s
    BY <1>3, <1>5, <1>7, <1>8, <2>1
  <2>2. CASE p # s
    BY <1>5, <1>7, <1>8, <2>2
  <2>3. QED
    BY <2>1, <2>2
<1>9. Keeps(version, session, now, version, T, now) /\ SameRotations(session, T)
  <2>1. version <= version /\ now <= now
    BY <1>1 DEF World
  <2>2. Keeps(version, session, now, version, T, now)
    BY <1>8, <2>1 DEF Keeps
  <2>3. SameRotations(session, T)
    BY <1>8 DEF SameRotations
  <2>4. QED
    BY <2>2, <2>3
<1>10. TableOK(T, now)
  <2>1. TableOK(session, now) /\ 1 \in Sids
    BY Before
  <2>2. ASSUME NEW p \in Sids
        PROVE  /\ Issued(T, p) => T[p].expires > 0
               /\ T[p].rotatedAt <= now
    <3>1. CASE p = s
      BY <1>3, <1>5, <2>1, <3>1 DEF TableOK
    <3>2. CASE p # s
      BY <1>5, <2>1, <3>2 DEF TableOK, Issued
    <3>3. QED
      BY <3>1, <3>2
  <2>3. QED
    BY <1>7, <2>1, <2>2 DEF TableOK
<1>11. QED
  BY <1>3, <1>5, <1>7, <1>9, <1>10 DEF Calm

\* A token that is neither the current nor, soon, the previous one revokes its
\* session; this takes a failed request.
LEMMA RefreshRevokesStep ==
  ASSUME SessionsInv, NEW x \in Slots, req[x] # NoRequest, req[x].at = "refresh",
         UNCHANGED <<version, loggedOut, client, now, lost>>,
         Matches(req[x].sent), req[x].sent.gen # session[req[x].sent.sid].gen,
         ~(WithinGrace(req[x].sent.sid) /\ req[x].sent.gen = session[req[x].sent.sid].gen - 1),
         session' = [session EXCEPT ![req[x].sent.sid].revoked = TRUE],
         Answer(x, req[x], FALSE)
  PROVE  SessionsInv'
<1> DEFINE r == req[x]
           s == r.sent.sid
<1>1. /\ r \in Request /\ OfUser(r) /\ r.got = Keep
      /\ r.sent \in Cookie /\ s \in Sids /\ r.since \in Nat /\ r.since <= now
      /\ now <= r.since + RoundTrip /\ ~Brings(r) /\ Issued(session, s)
      /\ MatchesIn(r.sent, version, session, now) /\ r.sent # NoCookie
  BY Refreshing, CookieFields, MatchesHere, AuthSessionsAssumption DEF Known
<1>2. /\ session' \in [Sids -> Session]
      /\ Keeps(version, session, now, version, session', now)
      /\ TableOK(session', now) /\ ~Calm(version, session', now)
      /\ \A p \in Sids : Issued(session', p) <=> Issued(session, p)
  BY <1>1, RevokedTable
<1>3. lost # 0
  <2> SUFFICES ASSUME lost = 0
               PROVE  FALSE
    OBVIOUS
  <2>1. RotationOK(r, version, session, now)
    BY Refreshing
  <2>2. Previous(r.sent, session) /\ r.since <= session[s].rotatedAt + RoundTrip
    BY <1>1, <2>1 DEF RotationOK, Current
  <2>3. WithinGrace(s)
    BY <1>1, <2>2, SoonIsWithinGrace DEF Previous
  <2>4. QED
    BY <2>2, <2>3 DEF Previous
<1>4. PICK u : u = [r EXCEPT !.at = "answered", !.ok = FALSE, !.sent = NoCookie]
  OBVIOUS
<1>5. /\ u \in Request /\ u.at = "answered" /\ ~u.ok /\ u.sent = NoCookie
      /\ u.kind = r.kind /\ u.since = r.since /\ u.dead = r.dead /\ u.got = Keep
  BY <1>1, <1>4 DEF Request
<1>6. ~Brings(u)
  BY <1>5, AuthSessionsAssumption DEF Brings
<1>7. StepOK(u)
  BY <1>1, <1>5, AuthSessionsAssumption DEF StepOK, OfUser
<1>8. TimeOK(u, version, session', now)
  BY <1>1, <1>5, <1>6 DEF TimeOK
<1>9. RequestOK(u, version, session', now)
  BY <1>5, <1>7, <1>8 DEF RequestOK, DeadOK
<1>10. /\ ApartFromJar(u, jar)
       /\ \A y \in Slots \ {x} : req[y] # NoRequest => Apart(u, req[y]) /\ Apart(req[y], u)
  BY <1>5, <1>6, StaysApart
<1>11. \A y \in Slots \ {x} : req[y] # NoRequest /\ req[y].at = "create" =>
         ~Issued(session', req[y].got.sid)
  BY <1>2, Before, CookieFields DEF TimeOK, StepOK
<1>12. loggedOut' \subseteq Sids /\ Put(x, u)
  BY <1>4 DEF SessionsInv, TypeOK, Answer
<1>13. QED
  BY <1>2, <1>3, <1>5, <1>9, <1>10, <1>11, <1>12, RequestStep

LEMMA RefreshStep ==
  ASSUME SessionsInv, NEW x \in Slots, Refresh(x)
  PROVE  SessionsInv'
<1> DEFINE r == req[x]
           c == r.sent
           s == c.sid
           gen == session[s].gen
<1>1. /\ r # NoRequest /\ r.at = "refresh" /\ UNCHANGED <<version, loggedOut, client, now, lost>>
  BY DEF Refresh
<1>2. CASE ~Matches(c) /\ Answer(x, r, FALSE) /\ UNCHANGED session
  <2>1. /\ r \in Request /\ OfUser(r) /\ r.got = Keep /\ ~Brings(r) /\ c \in Cookie
        /\ Known(c, version, session)
        /\ Calm(version, session, now) => CalmRequest(r)
    BY <1>1, Refreshing
  <2>2. ~MatchesIn(c, version, session, now)
    BY <1>2, MatchesHere
  <2>3. ~Calm(version, session, now)
    BY <1>1, <2>1, <2>2, CalmMatches DEF CalmRequest
  <2>4. ~Renews(r, jar, version, session)
    BY <2>1 DEF Renews
  <2>5. UNCHANGED <<server, client, now, lost>>
    BY <1>1, <1>2 DEF server
  <2>6. QED
    BY <1>1, <1>2, <2>1, <2>3, <2>4, <2>5, RefuseStep
<1>3. CASE /\ Matches(c) /\ WithinGrace(s) /\ UNCHANGED session
           /\ Put(x, [r EXCEPT !.at = "reverify", !.got = Tokens(s, gen, version)])
  <2>1. UNCHANGED <<server, client, now, lost>>
    BY <1>1, <1>3 DEF server
  <2>2. QED
    BY <1>1, <1>3, <2>1, RefreshAgainStep
<1>4. CASE /\ Matches(c) /\ ~WithinGrace(s) /\ c.gen = gen /\ session' = Rotated(s)
           /\ Put(x, [r EXCEPT !.at = "reverify", !.got = Tokens(s, gen + 1, version)])
  BY <1>1, <1>4, RotateStep
<1>5. CASE /\ Matches(c) /\ c.gen # gen /\ ~(WithinGrace(s) /\ c.gen = gen - 1)
           /\ Answer(x, r, FALSE) /\ session' = [session EXCEPT ![s].revoked = TRUE]
  BY <1>1, <1>5, RefreshRevokesStep
<1>6. QED
  BY <1>2, <1>3, <1>4, <1>5 DEF Refresh

LEMMA RevokeStep ==
  ASSUME SessionsInv, NEW x \in Slots, Revoke(x)
  PROVE  SessionsInv'
<1> DEFINE r == req[x]
           c == r.sent
           known == c # NoCookie /\ session[c.sid].present
<1>1. /\ r # NoRequest /\ r.at = "revoke" /\ UNCHANGED <<version, client, now, lost>>
      /\ session' = IF known THEN [session EXCEPT ![c.sid].revoked = TRUE] ELSE session
      /\ loggedOut' = IF known THEN loggedOut \cup {c.sid} ELSE loggedOut
      /\ Answer(x, [r EXCEPT !.got = NoCookie], TRUE)
  BY DEF Revoke
<1>2. /\ r \in Request /\ StepOK(r) /\ TimeOK(r, version, session, now)
  BY <1>1, Before
<1>3. /\ r.kind = "logout" /\ r.got = Keep /\ Keep \notin Cookie /\ NoCookie \notin Cookie
      /\ Keep # NoCookie /\ r.sent \in Cookie \cup {NoCookie}
  BY <1>1, <1>2, RequestFields, AuthSessionsAssumption DEF StepOK, OfUser
<1>4. c # NoCookie => c \in Cookie /\ c.sid \in Sids /\ Issued(session, c.sid)
  BY <1>2, <1>3, CookieFields DEF TimeOK, Known
<1>5. PICK q : q = [r EXCEPT !.got = NoCookie]
  OBVIOUS
<1>6. /\ q \in Request /\ q.got = NoCookie /\ q.kind = r.kind /\ q.since = r.since
      /\ q.dead = r.dead
  BY <1>2, <1>5 DEF Request
<1>7. PICK u : u = [q EXCEPT !.at = "answered", !.ok = TRUE, !.sent = NoCookie]
  OBVIOUS
<1>8. /\ u \in Request /\ u.at = "answered" /\ u.ok /\ u.sent = NoCookie
      /\ u.kind = r.kind /\ u.since = r.since /\ u.dead = r.dead /\ u.got = NoCookie
  BY <1>6, <1>7 DEF Request
<1>9. ~Brings(u) /\ ~Brings(r) /\ ~OfUser(u)
  BY <1>3, <1>8 DEF Brings, OfUser
<1>10. StepOK(u)
  BY <1>3, <1>8 DEF StepOK, OfUser
<1>11. TimeOK(u, version, session', now)
  BY <1>2, <1>8, <1>9 DEF TimeOK
<1>12. RequestOK(u, version, session', now)
  BY <1>9, <1>10, <1>11 DEF RequestOK, DeadOK
<1>13. /\ ApartFromJar(u, jar)
       /\ \A y \in Slots \ {x} : req[y] # NoRequest => Apart(u, req[y]) /\ Apart(req[y], u)
  BY <1>1, <1>8, <1>9, StaysApart
<1>14. World(version, session, now) /\ TableOK(session, now)
  BY Before
<1>15. /\ session' \in [Sids -> Session]
       /\ Keeps(version, session, now, version, session', now) /\ SameRotations(session, session')
       /\ TableOK(session', now)
       /\ \A p \in Sids : Issued(session', p) <=> Issued(session, p)
       /\ known => ~Calm(version, session', now)
       /\ \A p \in Sids : session'[p].revoked => session[p].revoked \/ (known /\ p = c.sid)
  <2>1. CASE known
    <3>1. PICK s \in Sids : s = c.sid
      BY <1>4, <2>1
    <3>2. Issued(session, s) /\ session' = [session EXCEPT ![s].revoked = TRUE]
      BY <1>1, <1>4, <2>1, <3>1
    <3>3. /\ session' \in [Sids -> Session]
          /\ Keeps(version, session, now, version, session', now)
          /\ SameRotations(session, session')
          /\ TableOK(session', now) /\ ~Calm(version, session', now)
          /\ \A p \in Sids \ {s} : session'[p] = session[p]
          /\ \A p \in Sids : Issued(session', p) <=> Issued(session, p)
      BY <3>2, RevokedTable
    <3>4. QED
      BY <2>1, <3>1, <3>3
  <2>2. CASE ~known
    BY <1>1, <1>14, <2>2, KeepsItself DEF World
  <2>3. QED
    BY <2>1, <2>2
<1>16. World(version, session', now)
  BY <1>14, <1>15 DEF World
<1>17. ASSUME Calm(version, session', now)
       PROVE  FALSE
  <2>1. ~known /\ session' = session
    BY <1>1, <1>15, <1>17
  <2>2. CalmRequest(r) /\ session[1].present
    BY <1>1, <1>17, <2>1 DEF SessionsInv, CalmOK
  <2>3. QED
    BY <1>1, <2>1, <2>2 DEF CalmRequest
<1>18. ASSUME lost = 0
       PROVE  /\ \A p \in Sids : session'[p].revoked => p \in loggedOut'
              /\ RotationOK(u, version, session', now)
              /\ \A y \in Slots \ {x} : req[y] # NoRequest =>
                   RotationOK(req[y], version, session', now)
              /\ JarOK(jar, [req EXCEPT ![x] = u], version, session', now)
  <2>1. RotationsOK
    BY DEF SessionsInv
  <2>2. \A p \in Sids : session'[p].revoked => p \in loggedOut'
    BY <1>1, <1>15, <1>18, <2>1 DEF RotationsOK
  <2>3. RotationOK(u, version, session', now)
    BY <1>8, <1>9 DEF RotationOK
  <2>4. ASSUME NEW y \in Slots \ {x}, req[y] # NoRequest
        PROVE  RotationOK(req[y], version, session', now)
    <3>1. /\ req[y] \in Request /\ TimeOK(req[y], version, session, now)
          /\ RotationOK(req[y], version, session, now)
      BY <1>18, <2>1, <2>4, Before DEF RotationsOK
    <3>2. QED
      BY <1>14, <1>15, <1>16, <3>1, RotationKept
  <2>5. JarOK(jar, [req EXCEPT ![x] = u], version, session', now)
    <3> DEFINE Q == [req EXCEPT ![x] = u]
    <3>1. \A y \in Slots : Renews(req[y], jar, version, session) => Q[y] = req[y]
      BY <1>9 DEF SessionsInv, TypeOK, Renews
    <3> HIDE DEF Q
    <3>2. JarOK(jar, req, version, session, now) /\ (jar # NoCookie => Known(jar, version, session))
      BY <1>18, <2>1 DEF RotationsOK, SessionsInv
    <3>3. \A y \in Slots : jar # NoCookie /\ MatchesIn(jar, version, session, now)
                             /\ Renews(req[y], jar, version, session) =>
            \E z \in Slots : Renews(Q[z], jar, version, session)
      BY <3>1
    <3>4. JarOK(jar, Q, version, session', now)
      BY <1>14, <1>15, <1>16, <3>2, <3>3, Before, JarKept
    <3>5. QED
      BY <3>4 DEF Q
  <2>6. QED
    BY <2>2, <2>3, <2>4, <2>5
<1>19. \A y \in Slots \ {x} : req[y] # NoRequest /\ req[y].at = "create" =>
         ~Issued(session', req[y].got.sid)
  BY <1>15, Before, CookieFields DEF TimeOK, StepOK
<1>20. Put(x, u) /\ loggedOut' \subseteq Sids
  <2>1. loggedOut' \subseteq Sids
    BY <1>1, <1>4 DEF SessionsInv, TypeOK
  <2>2. QED
    BY <1>1, <1>5, <1>7, <2>1 DEF Answer
<1>21. QED
  BY <1>1, <1>8, <1>12, <1>13, <1>15, <1>17, <1>18, <1>19, <1>20, RequestStep

-----------------------------------------------------------------------------
(* Logins.                                                                 *)

LEMMA CredentialsStep ==
  ASSUME SessionsInv, NEW x \in Slots, Credentials(x)
  PROVE  SessionsInv'
<1> DEFINE r == req[x]
<1>1. r # NoRequest /\ r.at = "credentials" /\ UNCHANGED <<server, client, now, lost>>
  BY DEF Credentials
<1>2. PICK s \in Sids :
        /\ Put(x, [r EXCEPT !.at = "create", !.got = Tokens(s, 0, version)])
        /\ \A p \in Sids : p < s <=>
             \/ session[p] # NoSession
             \/ \E y \in Slots : req[y] # NoRequest /\ req[y].at = "create" /\ req[y].got.sid = p
  BY DEF Credentials
<1>3. ~(s < s)
  BY DEF Sids
<1>4. /\ ~Issued(session, s)
      /\ \A y \in Slots : req[y] # NoRequest /\ req[y].at = "create" => req[y].got.sid # s
  BY <1>2, <1>3 DEF Issued
<1>5. /\ r \in Request /\ StepOK(r) /\ TimeOK(r, version, session, now)
  BY <1>1, Before
<1>6. r.kind = "login" /\ r.got = Keep /\ Keep \notin Cookie
  BY <1>1, <1>5, RequestFields, AuthSessionsAssumption DEF StepOK, OfUser
<1>7. PICK c : c = Tokens(s, 0, version)
  OBVIOUS
<1>8. c \in Cookie /\ c.sid = s /\ c.gen = 0 /\ c.ver = version
  BY <1>7, TokensType
<1>9. PICK u : u = [r EXCEPT !.at = "create", !.got = c]
  OBVIOUS
<1>10. /\ u \in Request /\ u.at = "create" /\ u.got = c /\ u.kind = r.kind /\ u.sent = r.sent
       /\ u.since = r.since /\ u.dead = r.dead /\ u.ok = r.ok
  BY <1>5, <1>8, <1>9 DEF Request
<1>11. ~Brings(u) /\ ~OfUser(u) /\ version <= version
  BY <1>6, <1>10, Before DEF Brings, OfUser, World
<1>12. StepOK(u)
  BY <1>6, <1>8, <1>10, <1>11 DEF StepOK
<1>13. TimeOK(u, version, session, now)
  BY <1>4, <1>5, <1>8, <1>10, <1>11 DEF TimeOK
<1>14. RequestOK(u, version, session, now)
  BY <1>11, <1>12, <1>13 DEF RequestOK, DeadOK
<1>15. ASSUME NEW y \in Slots \ {x}, req[y] # NoRequest
       PROVE  Apart(u, req[y]) /\ Apart(req[y], u)
  <2>1. Apart(req[y], r)
    BY <1>1, <1>15 DEF SessionsInv
  <2>2. QED
    BY <1>4, <1>8, <1>10, <1>11, <1>15, <2>1 DEF Apart
<1>16. ASSUME lost = 0
       PROVE  RotationOK(u, version, session, now)
  <2>1. RotationOK(r, version, session, now)
    BY <1>1, <1>16 DEF SessionsInv, RotationsOK
  <2>2. QED
    BY <1>10, <1>11, <2>1 DEF RotationOK
<1>17. ~Calm(version, session, now)
  BY <1>1, <1>6 DEF SessionsInv, CalmOK, CalmRequest
<1>18. ApartFromJar(u, jar) /\ ~Renews(r, jar, version, session)
  BY <1>6, <1>11 DEF ApartFromJar, Renews, Brings
<1>19. Put(x, u)
  BY <1>2, <1>7, <1>9
<1>20. QED
  BY <1>1, <1>10, <1>14, <1>15, <1>16, <1>17, <1>18, <1>19, LocalStep

\* A login brings a session that no other cookies are of.
LEMMA CreateSessionStep ==
  ASSUME SessionsInv, NEW x \in Slots, CreateSession(x)
  PROVE  SessionsInv'
<1> DEFINE r == req[x]
<1>1. /\ r # NoRequest /\ r.at = "create"
      /\ UNCHANGED <<version, loggedOut, client, now, lost>>
  BY DEF CreateSession
<1>2. /\ r \in Request /\ StepOK(r) /\ TimeOK(r, version, session, now)
  BY <1>1, Before
<1>3. r.kind = "login" /\ r.got \in Cookie /\ ~Brings(r)
  BY <1>1, <1>2, RequestFields DEF StepOK, OfUser, Brings
<1>4. PICK s \in Sids : s = r.got.sid
  BY <1>3, CookieFields
<1>5. ~Issued(session, s) /\ r.got.gen = 0 /\ r.got.ver <= version
  BY <1>1, <1>2, <1>4 DEF TimeOK
<1>6. PICK new : new = [present |-> TRUE, gen |-> 0, rotatedAt |-> Never,
                        expires |-> now + Life, revoked |-> FALSE]
  OBVIOUS
<1>7. World(version, session, now) /\ TableOK(session, now) /\ now \in Nat
      /\ now + Life \in Nat /\ now + Life > 0 /\ now + Access \in Nat
  BY Before, Bounds DEF World
<1>8. new \in Session /\ new # NoSession /\ ~new.revoked /\ new.expires = now + Life
      /\ new.gen = 0 /\ new.rotatedAt = Never
  BY <1>6, <1>7 DEF Session, NoSession
<1>9. /\ session'[s] = new
      /\ \A p \in Sids \ {s} : session'[p] =
           [session[p] EXCEPT !.present = @ /\ ~(session[p].revoked \/ session[p].expires < now)]
      /\ session' = [p \in Sids |-> session'[p]]
  BY <1>4, <1>6 DEF CreateSession
<1>10. ASSUME NEW p \in Sids \ {s}
       PROVE  /\ session'[p] \in Session
              /\ session'[p].gen = session[p].gen
              /\ session'[p].rotatedAt = session[p].rotatedAt
              /\ session'[p].expires = session[p].expires
              /\ session'[p].revoked = session[p].revoked
              /\ session'[p].present => session[p].present
              /\ Issued(session', p) <=> Issued(session, p)
  <2>1. session[p] \in Session
    BY Before
  <2>2. PICK b \in BOOLEAN :
          b <=> (session[p].present /\ ~(session[p].revoked \/ session[p].expires < now))
    OBVIOUS
  <2>3. PICK row : row = [session[p] EXCEPT !.present = b]
    OBVIOUS
  <2>4. session'[p] = row
    BY <1>9, <2>2, <2>3
  <2>5. /\ row \in Session /\ row.gen = session[p].gen /\ row.rotatedAt = session[p].rotatedAt
        /\ row.expires = session[p].expires /\ row.revoked = session[p].revoked
        /\ row.present => session[p].present
    BY <2>1, <2>2, <2>3 DEF Session
  <2>6. Issued(session, p) => row # NoSession
    <3>1. Issued(session, p) => row.expires > 0
      BY <1>7, <2>5 DEF TableOK
    <3>2. NoSession.expires = 0
      BY DEF NoSession
    <3>3. QED
      BY <3>1, <3>2
  <2>7. ~Issued(session, p) => row = NoSession
    <3>1. SUFFICES ASSUME session[p] = NoSession
                   PROVE  row = NoSession
      BY DEF Issued
    <3>2. b = FALSE
      BY <2>2, <3>1 DEF NoSession
    <3>3. row = [NoSession EXCEPT !.present = FALSE]
      BY <2>3, <3>1, <3>2
    <3>4. QED
      BY ONLY <3>3 DEF NoSession
  <2>8. QED
    BY <2>4, <2>5, <2>6, <2>7 DEF Issued
<1>11. \A p \in Sids : session'[p] \in Session
  BY <1>8, <1>9, <1>10
<1>12. session' \in [Sids -> Session]
  BY <1>9, <1>11
<1>13. World(version, session', now)
  BY <1>7, <1>12 DEF World
<1>14. ASSUME NEW p \in Sids, Issued(session, p)
       PROVE  p \in Sids \ {s}
  BY <1>5, <1>14
<1>15. Keeps(version, session, now, version, session', now)
  <2>1. version <= version /\ now <= now
    BY <1>7 DEF World
  <2>2. QED
    BY <1>10, <1>14, <2>1 DEF Keeps
<1>16. SameRotations(session, session')
  BY <1>10, <1>14 DEF SameRotations
<1>17. TableOK(session', now)
  <2>1. Issued(session', 1)
    BY <1>7, <1>10, <1>14, Before DEF TableOK
  <2>2. ASSUME NEW p \in Sids
        PROVE  /\ Issued(session', p) => session'[p].expires > 0
               /\ session'[p].rotatedAt <= now
    <3>1. CASE p = s
      BY <1>7, <1>8, <1>9, <3>1 DEF Never
    <3>2. CASE p # s
      BY <1>7, <1>10, <3>2 DEF TableOK
    <3>3. QED
      BY <3>1, <3>2
  <2>3. QED
    BY <2>1, <2>2 DEF TableOK
<1>18. PICK c : c = [r.got EXCEPT !.exp = now + Access]
  OBVIOUS
<1>19. c \in Cookie /\ c.sid = s /\ c.gen = 0 /\ c.ver = r.got.ver
  BY <1>3, <1>4, <1>5, <1>7, <1>18 DEF Cookie
<1>20. PICK u : u = [r EXCEPT !.got = c, !.at = "answered", !.ok = TRUE, !.sent = NoCookie]
  OBVIOUS
<1>21. /\ u \in Request /\ u.at = "answered" /\ u.ok /\ u.sent = NoCookie
       /\ u.kind = r.kind /\ u.since = r.since /\ u.dead = r.dead /\ u.got = c
  BY <1>2, <1>19, <1>20 DEF Request
<1>22. Brings(u) /\ ~OfUser(u)
  BY <1>3, <1>19, <1>21 DEF Brings, OfUser
<1>23. StepOK(u)
  BY <1>3, <1>19, <1>21, <1>22 DEF StepOK
<1>24. Known(u.got, version, session')
  BY <1>5, <1>8, <1>9, <1>19, <1>21 DEF Known, Issued
<1>25. TimeOK(u, version, session', now)
  BY <1>2, <1>21, <1>22, <1>24 DEF TimeOK
<1>26. RequestOK(u, version, session', now)
  BY <1>22, <1>23, <1>25 DEF RequestOK, DeadOK
<1>27. ApartFromJar(u, jar)
  BY <1>5, <1>19, <1>21 DEF ApartFromJar, SessionsInv, Known
<1>28. ASSUME NEW y \in Slots \ {x}, req[y] # NoRequest
       PROVE  /\ Apart(u, req[y]) /\ Apart(req[y], u)
              /\ req[y].at = "create" => ~Issued(session', req[y].got.sid)
  <2>1. TimeOK(req[y], version, session, now) /\ StepOK(req[y])
    BY <1>28, Before
  <2>2. req[y].sent # NoCookie => req[y].sent.sid # s
    BY <1>5, <2>1 DEF TimeOK, Known
  <2>3. Brings(req[y]) => req[y].got.sid # s
    BY <1>5, <2>1 DEF TimeOK, Known
  <2>4. Apart(u, req[y]) /\ Apart(req[y], u)
    BY <1>19, <1>21, <2>2, <2>3 DEF Apart
  <2>5. ASSUME req[y].at = "create"
        PROVE  ~Issued(session', req[y].got.sid)
    <3>1. Apart(req[y], r)
      BY <1>1, <1>28 DEF SessionsInv
    <3>2. req[y].got.sid # s /\ ~Issued(session, req[y].got.sid) /\ req[y].got.sid \in Sids
      BY <1>1, <1>4, <2>1, <2>5, <3>1, CookieFields DEF Apart, TimeOK, StepOK
    <3>3. QED
      BY <1>10, <3>2
  <2>6. QED
    BY <2>4, <2>5
<1>29. ASSUME lost = 0
       PROVE  /\ \A p \in Sids : session'[p].revoked => p \in loggedOut'
              /\ RotationOK(u, version, session', now)
              /\ \A y \in Slots \ {x} : req[y] # NoRequest =>
                   RotationOK(req[y], version, session', now)
              /\ JarOK(jar, [req EXCEPT ![x] = u], version, session', now)
  <2>1. RotationsOK
    BY DEF SessionsInv
  <2>2. \A p \in Sids : session'[p].revoked => p \in loggedOut'
    BY <1>1, <1>8, <1>9, <1>10, <1>29, <2>1 DEF RotationsOK
  <2>3. RotationOK(u, version, session', now)
    BY <1>8, <1>9, <1>19, <1>21 DEF RotationOK, Current
  <2>4. ASSUME NEW y \in Slots \ {x}, req[y] # NoRequest
        PROVE  RotationOK(req[y], version, session', now)
    <3>1. /\ req[y] \in Request /\ TimeOK(req[y], version, session, now)
          /\ RotationOK(req[y], version, session, now)
      BY <1>29, <2>1, <2>4, Before DEF RotationsOK
    <3>2. QED
      BY <1>7, <1>13, <1>15, <1>16, <3>1, RotationKept
  <2>5. JarOK(jar, [req EXCEPT ![x] = u], version, session', now)
    <3> DEFINE Q == [req EXCEPT ![x] = u]
    <3>1. \A y \in Slots : Renews(req[y], jar, version, session) => Q[y] = req[y]
      BY <1>3 DEF SessionsInv, TypeOK, Renews
    <3> HIDE DEF Q
    <3>2. JarOK(jar, req, version, session, now) /\ (jar # NoCookie => Known(jar, version, session))
      BY <1>29, <2>1 DEF RotationsOK, SessionsInv
    <3>3. \A y \in Slots : jar # NoCookie /\ MatchesIn(jar, version, session, now)
                             /\ Renews(req[y], jar, version, session) =>
            \E z \in Slots : Renews(Q[z], jar, version, session)
      BY <3>1
    <3>4. JarOK(jar, Q, version, session', now)
      BY <1>7, <1>13, <1>15, <1>16, <3>2, <3>3, Before, JarKept
    <3>5. QED
      BY <3>4 DEF Q
  <2>6. QED
    BY <2>2, <2>3, <2>4, <2>5
<1>30. ~Calm(version, session', now)
  <2>1. ~Calm(version, session, now)
    BY <1>1, <1>3 DEF SessionsInv, CalmOK, CalmRequest
  <2>2. QED
    BY <1>7, <1>13, <1>15, <2>1, CalmKept, Before DEF TableOK
<1>31. Put(x, u) /\ loggedOut' \subseteq Sids
  BY <1>1, <1>18, <1>20 DEF CreateSession, Answer, SessionsInv, TypeOK
<1>32. QED
  BY <1>1, <1>12, <1>15, <1>17, <1>21, <1>26, <1>27, <1>28, <1>29, <1>30, <1>31, RequestStep

-----------------------------------------------------------------------------
(* The tabs.                                                               *)

\* A request is sent with the cookies of the browser.
LEMMA SendStep ==
  ASSUME SessionsInv, NEW x \in Slots, req[x] = NoRequest,
         NEW kind, NEW at,
         \/ kind \in {"check", "call"} /\ at = "verify"
         \/ kind = "logout" /\ at = "revoke"
         \/ kind = "login" /\ at = "credentials",
         kind = "login" => ~Calm(version, session, now),
         Put(x, Sent(kind, at)), UNCHANGED <<server, client, now, lost>>
  PROVE  SessionsInv'
<1>1. PICK u : u = Sent(kind, at)
  OBVIOUS
<1>2. now \in Nat /\ jar \in Cookie \cup {NoCookie}
  BY Before DEF World
<1>3. Ended(jar) \in BOOLEAN
  BY DEF Ended
<1>4. /\ u \in Request /\ u.kind = kind /\ u.at = at /\ u.since = now /\ u.sent = jar
      /\ u.got = Keep /\ (u.dead <=> Ended(jar))
  BY <1>1, <1>2, <1>3 DEF Sent, Request
<1>5. ~Brings(u)
  BY <1>4, AuthSessionsAssumption DEF Brings
<1>6. StepOK(u)
  BY <1>4 DEF StepOK, OfUser
<1>7. jar # NoCookie => Known(jar, version, session)
  BY DEF SessionsInv
<1>8. TimeOK(u, version, session, now)
  BY <1>2, <1>4, <1>5, <1>7, Bounds DEF TimeOK
<1>9. DeadOK(u, version, session, now)
  BY <1>4, MatchesHere DEF DeadOK, OfUser, Ended
<1>10. ApartFromJar(u, jar) /\ ~Renews(req[x], jar, version, session)
  BY <1>5 DEF ApartFromJar, Renews
<1>11. ASSUME NEW y \in Slots \ {x}, req[y] # NoRequest
       PROVE  Apart(u, req[y]) /\ Apart(req[y], u)
  <2>1. ApartFromJar(req[y], jar)
    BY <1>11 DEF SessionsInv
  <2>2. QED
    BY <1>4, <1>5, <2>1 DEF Apart, ApartFromJar
<1>12. ASSUME lost = 0
       PROVE  RotationOK(u, version, session, now)
  <2>1. SUFFICES ASSUME jar # NoCookie, MatchesIn(jar, version, session, now), Previous(jar, session)
                 PROVE  now <= session[jar.sid].rotatedAt + RoundTrip
    <3>1. JarOK(jar, req, version, session, now)
      BY <1>12 DEF SessionsInv, RotationsOK
    <3>2. QED
      BY <1>4, <1>5, <3>1, <2>1 DEF RotationOK, JarOK
  <2>2. JarOK(jar, req, version, session, now)
    BY <1>12 DEF SessionsInv, RotationsOK
  <2>3. jar.sid \in Sids /\ jar.gen \in Nat
    BY <1>2, <2>1, CookieFields
  <2>4. session[jar.sid].gen \in Nat
    BY <2>3, RowFields
  <2>5. ~Current(jar, session)
    BY <2>1, <2>3, <2>4 DEF Current, Previous
  <2>6. PICK y \in Slots : Renews(req[y], jar, version, session)
    BY <2>1, <2>2, <2>5 DEF JarOK
  <2>7. /\ req[y].since \in Nat /\ now <= req[y].since + RoundTrip
        /\ req[y].since <= session[jar.sid].rotatedAt
    BY <2>6, Before, RequestFields DEF Renews, TimeOK
  <2>8. session[jar.sid].rotatedAt \in Nat
    BY <2>1, <2>3, RowFields DEF Previous
  <2>9. QED
    BY <1>2, <2>7, <2>8, Bounds
<1>13. ASSUME Calm(version, session, now)
       PROVE  CalmRequest(u)
  <2>1. jar # NoCookie /\ jar.sid = 1
    BY <1>13 DEF SessionsInv, CalmOK, CalmBrowser
  <2>2. QED
    BY <1>4, <1>5, <1>13, <2>1, AuthSessionsAssumption DEF CalmRequest, Brings
<1>14. Put(x, u)
  BY <1>1
<1>15. QED
  BY <1>4, <1>6, <1>8, <1>9, <1>10, <1>11, <1>12, <1>13, <1>14, LocalStep DEF RequestOK

LEMMA TabSlots == \A t \in Visible : <<t, "check">> \in Slots /\ <<t, "act">> \in Slots /\ t \in Tabs
BY AuthSessionsAssumption DEF Slots

LEMMA SendsStep ==
  ASSUME SessionsInv, NEW t \in Visible, StartCheck(t) \/ Act(t) \/ Login(t)
  PROVE  SessionsInv'
<1>1. CASE StartCheck(t)
  BY <1>1, TabSlots, SendStep DEF StartCheck
<1>2. CASE Act(t)
  <2>1. CASE Put(<<t, "act">>, Sent("call", "verify"))
    BY <1>2, <2>1, TabSlots, SendStep DEF Act
  <2>2. CASE Put(<<t, "act">>, Sent("logout", "revoke"))
    BY <1>2, <2>2, TabSlots, SendStep DEF Act
  <2>3. QED
    BY <1>2, <2>1, <2>2 DEF Act
<1>3. CASE Login(t)
  <2>1. ~Calm(version, session, now)
    BY <1>3, TabSlots DEF Login, SessionsInv, CalmOK, CalmBrowser
  <2>2. QED
    BY <1>3, <2>1, TabSlots, SendStep DEF Login
<1>4. QED
  BY <1>1, <1>2, <1>3

\* What a tab does when the account and the sessions have changed, or when
\* nothing reaches the other tabs.
LEMMA TabStep ==
  ASSUME SessionsInv, tab' \in [Tabs -> {"app", "login"}], told' \subseteq Tabs,
         silent' \in BOOLEAN, UNCHANGED <<server, jar, req, now, lost>>,
         ~Calm(version, session, now)
  PROVE  SessionsInv'
<1>1. TypeOK'
  BY DEF SessionsInv, TypeOK, server
<1>2. QED
  BY <1>1, Assemble DEF SessionsInv, RotationsOK, server

LEMMA ReturnStep ==
  ASSUME SessionsInv, NEW t \in Visible, Return(t)
  PROVE  SessionsInv'
<1>1. tab' \in [Tabs -> {"app", "login"}]
  BY DEF Return, SessionsInv, TypeOK
<1>2. ~Calm(version, session, now)
  BY TabSlots DEF Return, SessionsInv, CalmOK, CalmBrowser
<1>3. QED
  BY <1>1, <1>2, TabStep DEF Return, SessionsInv, TypeOK

LEMMA StorageEventStep ==
  ASSUME SessionsInv, NEW t \in Tabs, StorageEvent(t)
  PROVE  SessionsInv'
<1>1. tab' \in [Tabs -> {"app", "login"}] /\ told' \subseteq Tabs
  BY DEF StorageEvent, SessionsInv, TypeOK
<1>2. ~Calm(version, session, now)
  BY DEF StorageEvent, SessionsInv, CalmOK, CalmBrowser
<1>3. QED
  BY <1>1, <1>2, TabStep DEF StorageEvent, SessionsInv, TypeOK

\* A request is answered or given up: what remains is in order.
LEMMA SlotEmpties ==
  ASSUME SessionsInv, NEW x \in Slots, Put(x, NoRequest)
  PROVE  /\ req' \in [Slots -> Request \cup {NoRequest}] /\ req'[x] = NoRequest
         /\ \A y \in Slots : req'[y] # NoRequest => y # x /\ req'[y] = req[y]
         /\ \A y \in Slots \ {x} : req'[y] = req[y]
<1>1. req \in [Slots -> Request \cup {NoRequest}] /\ req' = [req EXCEPT ![x] = NoRequest]
  BY DEF SessionsInv, TypeOK, Put
<1>2. QED
  BY <1>1

LEMMA LoseStep ==
  ASSUME SessionsInv, NEW x \in Slots, Lose(x)
  PROVE  SessionsInv'
<1>1. /\ lost' = lost + 1 /\ UNCHANGED <<version, session, loggedOut, jar, tab, told, silent, now>>
      /\ Put(x, NoRequest)
  BY DEF Lose, server, client
<1>2. /\ req' \in [Slots -> Request \cup {NoRequest}]
      /\ \A y \in Slots : req'[y] # NoRequest => req'[y] = req[y]
  BY <1>1, SlotEmpties
<1>3. lost' \in Nat /\ lost' # 0
  BY <1>1 DEF SessionsInv, TypeOK
<1>4. TypeOK'
  BY <1>1, <1>2, <1>3 DEF SessionsInv, TypeOK
<1>5. Calm(version, session, now) =>
        /\ session[1].present
        /\ CalmBrowser(jar, tab, told)
        /\ \A y \in Slots : req[y] # NoRequest => CalmRequest(req[y])
  BY DEF SessionsInv, CalmOK
<1>6. /\ \A y \in Slots : req'[y] # NoRequest =>
           RequestOK(req'[y], version, session, now) /\ ApartFromJar(req'[y], jar)
      /\ \A y \in Slots : \A z \in Slots \ {y} :
           req'[y] # NoRequest /\ req'[z] # NoRequest => Apart(req'[y], req'[z])
  BY <1>2 DEF SessionsInv
<1>7. TableOK(session, now) /\ (jar # NoCookie => Known(jar, version, session))
  BY DEF SessionsInv
<1>8. QED
  BY <1>1, <1>2, <1>3, <1>4, <1>5, <1>6, <1>7, Assemble

\* The browser stores the cookies of an answer and the tab reacts.
LEMMA ReceiveStep ==
  ASSUME SessionsInv, NEW x \in Slots, Receive(x)
  PROVE  SessionsInv'
<1> DEFINE r == req[x]
<1>1. /\ r # NoRequest /\ r.at = "answered" /\ Put(x, NoRequest) /\ React(x[1], r)
      /\ jar' = IF r.got = Keep THEN jar ELSE r.got
      /\ UNCHANGED <<version, session, loggedOut, now, lost>>
  BY DEF Receive, server
<1>2. /\ r \in Request /\ StepOK(r) /\ TimeOK(r, version, session, now)
  BY <1>1, Before
<1>3. /\ r.got \in Cookie \cup {NoCookie, Keep} /\ jar \in Cookie \cup {NoCookie}
      /\ Keep \notin Cookie /\ NoCookie \notin Cookie /\ Keep # NoCookie
  BY <1>2, RequestFields, Before, AuthSessionsAssumption
<1>4. jar' \in Cookie \cup {NoCookie} /\ (jar' # NoCookie => jar' = jar \/ (Brings(r) /\ jar' = r.got))
  BY <1>1, <1>3 DEF Brings
<1>5. /\ req' \in [Slots -> Request \cup {NoRequest}]
      /\ \A y \in Slots : req'[y] # NoRequest => y # x /\ req'[y] = req[y]
      /\ \A y \in Slots \ {x} : req'[y] = req[y]
  BY <1>1, SlotEmpties
<1>6. /\ tab' \in [Tabs -> {"app", "login"}] /\ told' \subseteq Tabs /\ silent' \in BOOLEAN
  <2>1. tab \in [Tabs -> {"app", "login"}] /\ told \subseteq Tabs /\ silent \in BOOLEAN
    BY DEF SessionsInv, TypeOK
  <2>2. QED
    BY <1>1, <2>1 DEF React, EndSession, LeaveSilently, Stay
<1>7. TypeOK'
  BY <1>1, <1>4, <1>5, <1>6 DEF SessionsInv, TypeOK
<1>8. jar' # NoCookie => Known(jar', version, session)
  BY <1>2, <1>4 DEF SessionsInv, TimeOK
<1>9. ASSUME NEW y \in Slots, req'[y] # NoRequest
      PROVE  RequestOK(req'[y], version, session, now) /\ ApartFromJar(req'[y], jar')
  <2>1. /\ y # x /\ req'[y] = req[y] /\ req[y] # NoRequest
        /\ RequestOK(req[y], version, session, now) /\ ApartFromJar(req[y], jar)
    BY <1>5, <1>9 DEF SessionsInv
  <2>2. Apart(req[y], r)
    BY <1>1, <2>1 DEF SessionsInv
  <2>3. ApartFromJar(req[y], jar')
    BY <1>4, <2>1, <2>2 DEF ApartFromJar, Apart
  <2>4. QED
    BY <2>1, <2>3
<1>10. \A y \in Slots : \A z \in Slots \ {y} :
         req'[y] # NoRequest /\ req'[z] # NoRequest => Apart(req'[y], req'[z])
  BY <1>5 DEF SessionsInv
<1>11. ASSUME lost = 0
       PROVE  /\ \A s \in Sids : session[s].revoked => s \in loggedOut
              /\ \A y \in Slots : req'[y] # NoRequest => RotationOK(req'[y], version, session, now)
              /\ JarOK(jar', req', version, session, now)
  <2>1. /\ \A s \in Sids : session[s].revoked => s \in loggedOut
        /\ \A y \in Slots : req[y] # NoRequest => RotationOK(req[y], version, session, now)
        /\ JarOK(jar, req, version, session, now)
    BY <1>11 DEF SessionsInv, RotationsOK
  <2>2. CASE r.got = Keep
    <3>1. jar' = jar /\ ~Brings(r)
      BY <1>1, <1>3, <2>2 DEF Brings
    <3>2. \A y \in Slots : Renews(req[y], jar, version, session) =>
            Renews(req'[y], jar, version, session)
      BY <1>5, <3>1 DEF Renews
    <3>3. JarOK(jar, req', version, session, now)
      BY <2>1, <3>2 DEF JarOK
    <3>4. QED
      BY <1>5, <2>1, <3>1, <3>3
  <2>3. CASE r.got \in Cookie
    <3>1. Brings(r) /\ jar' = r.got
      BY <1>1, <1>3, <2>3 DEF Brings
    <3>2. JarOK(jar', req', version, session, now)
      BY <1>1, <2>1, <3>1 DEF JarOK, RotationOK
    <3>3. QED
      BY <1>5, <2>1, <3>2
  <2>4. CASE r.got = NoCookie
    <3>1. JarOK(jar', req', version, session, now)
      BY <1>1, <1>3, <2>4 DEF JarOK
    <3>2. QED
      BY <1>5, <2>1, <3>1
  <2>5. QED
    BY <1>3, <2>2, <2>3, <2>4
<1>12. ASSUME Calm(version, session, now)
       PROVE  /\ session[1].present
              /\ CalmBrowser(jar', tab', told')
              /\ \A y \in Slots : req'[y] # NoRequest => CalmRequest(req'[y])
  <2>1. /\ session[1].present /\ CalmBrowser(jar, tab, told)
        /\ \A y \in Slots : req[y] # NoRequest => CalmRequest(req[y])
    BY <1>12 DEF SessionsInv, CalmOK
  <2>2. OfUser(r) /\ r.ok
    BY <1>1, <1>2, <2>1, RequestFields DEF CalmRequest, OfUser
  <2>3. x[1] \in Tabs
    BY TabSlots DEF Slots
  <2>4. UNCHANGED <<tab, told>>
    BY <1>1, <2>1, <2>2, <2>3 DEF React, Stay, CalmBrowser, OfUser
  <2>5. jar' # NoCookie /\ jar'.sid = 1
    BY <1>1, <1>2, <1>3, <2>1, <2>2 DEF CalmBrowser, CalmRequest, StepOK
  <2>6. QED
    BY <1>5, <2>1, <2>4, <2>5 DEF CalmBrowser
<1>13. TableOK(session, now)
  BY Before
<1>14. QED
  BY <1>1, <1>7, <1>8, <1>9, <1>10, <1>11, <1>12, <1>13, Assemble

-----------------------------------------------------------------------------
(* Changes of the account, and time.                                       *)

\* The version or the clock goes on.
LEMMA WorldStep ==
  ASSUME SessionsInv, UNCHANGED <<session, loggedOut, client, req, lost>>,
         \/ version' = version + 1 /\ now' = now
         \/ version' = version /\ now' = now + 1,
         \A x \in Slots : req[x] # NoRequest => now' <= req[x].since + RoundTrip
  PROVE  SessionsInv'
<1>1. /\ session \in [Sids -> Session] /\ World(version, session, now)
      /\ World(version', session, now') /\ TableOK(session, now) /\ 1 \in Sids
  BY Before DEF World
<1>2. TypeOK'
  BY <1>1 DEF SessionsInv, TypeOK, client, World
<1>3. Keeps(version, session, now, version', session, now') /\ SameRotations(session, session)
  <2>1. version <= version' /\ now <= now'
    BY <1>1 DEF World
  <2>2. QED
    BY <2>1 DEF Keeps, SameRotations
<1>4. TableOK(session, now')
  <2>1. \A s \in Sids : session[s].rotatedAt <= now'
    <3> SUFFICES ASSUME NEW s \in Sids
                 PROVE  session[s].rotatedAt <= now'
      OBVIOUS
    <3>1. session[s].rotatedAt \in Nat \cup {Never} /\ session[s].rotatedAt <= now
      BY RowFields
    <3>2. QED
      BY <1>1, <3>1 DEF World, Never
  <2>2. QED
    BY <1>1, <2>1 DEF TableOK
<1>5. jar # NoCookie => Known(jar, version', session)
  BY <1>1, <1>3, KeepsKnown, Before DEF SessionsInv
<1>6. ASSUME NEW x \in Slots, req[x] # NoRequest
      PROVE  RequestOK(req[x], version', session, now') /\ ApartFromJar(req[x], jar)
  <2>1. /\ req[x] \in Request /\ RequestOK(req[x], version, session, now)
        /\ ApartFromJar(req[x], jar) /\ now' <= req[x].since + RoundTrip
    BY <1>6, Before DEF SessionsInv
  <2>2. req[x].at = "create" => ~Issued(session, req[x].got.sid)
    BY <2>1 DEF RequestOK, TimeOK
  <2>3. QED
    BY <1>1, <1>3, <2>1, <2>2, RequestKept
<1>7. ASSUME lost = 0
      PROVE  /\ \A s \in Sids : session[s].revoked => s \in loggedOut
             /\ \A x \in Slots : req[x] # NoRequest =>
                  RotationOK(req[x], version', session, now')
             /\ JarOK(jar, req, version', session, now')
  <2>1. /\ \A s \in Sids : session[s].revoked => s \in loggedOut
        /\ \A x \in Slots : req[x] # NoRequest => RotationOK(req[x], version, session, now)
        /\ JarOK(jar, req, version, session, now)
    BY <1>7 DEF SessionsInv, RotationsOK
  <2>2. ASSUME NEW x \in Slots, req[x] # NoRequest
        PROVE  RotationOK(req[x], version', session, now')
    BY <1>1, <1>3, <2>1, <2>2, Before, RotationKept
  <2>3. JarOK(jar, req, version', session, now')
    <3>1. jar # NoCookie => Known(jar, version, session)
      BY DEF SessionsInv
    <3>2. \A y \in Slots : jar # NoCookie /\ MatchesIn(jar, version, session, now)
                             /\ Renews(req[y], jar, version, session) =>
            \E z \in Slots : Renews(req[z], jar, version, session)
      OBVIOUS
    <3>3. QED
      BY <1>1, <1>3, <2>1, <3>1, <3>2, Before, JarKept
  <2>4. QED
    BY <2>1, <2>2, <2>3
<1>8. ASSUME Calm(version', session, now')
      PROVE  /\ session[1].present
             /\ CalmBrowser(jar, tab, told)
             /\ \A x \in Slots : req[x] # NoRequest => CalmRequest(req[x])
  <2>1. Calm(version, session, now)
    BY <1>1, <1>3, <1>8, CalmKept DEF TableOK
  <2>2. QED
    BY <2>1 DEF SessionsInv, CalmOK
<1>9. /\ session' = session /\ loggedOut' = loggedOut /\ jar' = jar /\ tab' = tab /\ told' = told
      /\ req' = req /\ lost' = lost
  BY DEF client
<1>10. \A x \in Slots : \A y \in Slots \ {x} :
         req[x] # NoRequest /\ req[y] # NoRequest => Apart(req[x], req[y])
  BY DEF SessionsInv
<1>11. QED
  BY <1>2, <1>4, <1>5, <1>6, <1>7, <1>8, <1>9, <1>10, Assemble

LEMMA AccountChangeStep ==
  ASSUME SessionsInv, AccountChange
  PROVE  SessionsInv'
<1>1. \A x \in Slots : req[x] # NoRequest => now <= req[x].since + RoundTrip
  BY Before DEF TimeOK
<1>2. QED
  BY <1>1, WorldStep DEF AccountChange

LEMMA TickStep ==
  ASSUME SessionsInv, Tick
  PROVE  SessionsInv'
<1>1. ASSUME NEW x \in Slots, req[x] # NoRequest
      PROVE  now + 1 <= req[x].since + RoundTrip
  <2>1. now < req[x].since + RoundTrip /\ now \in Nat /\ req[x].since \in Nat
    BY <1>1, Before, RequestFields DEF Tick, World
  <2>2. QED
    BY <2>1, Bounds
<1>2. UNCHANGED <<version, session, loggedOut, client, req, lost>> /\ now' = now + 1
  BY DEF Tick, server
<1>3. QED
  BY <1>1, <1>2, WorldStep

-----------------------------------------------------------------------------
(* The theorems.                                                           *)

LEMMA SessionsInit == Init => SessionsInv
<1> SUFFICES ASSUME Init
             PROVE  SessionsInv
  OBVIOUS
<1>1. 1 \in Sids
  BY Bounds DEF Sids
<1>2. PICK first : first = [NoSession EXCEPT !.present = TRUE, !.expires = Life]
  OBVIOUS
<1>3. /\ first \in Session /\ first.present /\ first.gen = 0 /\ first.rotatedAt = Never
      /\ first.expires = Life /\ ~first.revoked /\ first # NoSession
  BY <1>2, Bounds DEF Session, NoSession, Never
<1>4. NoSession \in Session /\ ~NoSession.revoked /\ NoSession.rotatedAt = Never
  BY DEF Session, NoSession, Never
<1>5. session = [s \in Sids |-> IF s = 1 THEN first ELSE NoSession]
  BY <1>2 DEF Init
<1>6. session[1] = first /\ \A s \in Sids \ {1} : session[s] = NoSession
  BY <1>1, <1>5
<1>7. jar \in Cookie /\ jar.sid = 1 /\ jar.gen = 0 /\ jar.ver = 0 /\ jar # NoCookie
  BY <1>1, Bounds, AuthSessionsAssumption DEF Init, Cookie
<1>8. /\ version = 0 /\ now = 0 /\ lost = 0 /\ told = {} /\ loggedOut = {} /\ silent = FALSE
      /\ tab = [t \in Tabs |-> "app"] /\ req = [x \in Slots |-> NoRequest]
  BY DEF Init
<1>9. TypeOK
  <2>1. session \in [Sids -> Session]
    BY <1>3, <1>4, <1>5
  <2>2. QED
    BY <1>7, <1>8, <2>1 DEF TypeOK
<1>10. TableOK(session, now)
  BY <1>1, <1>3, <1>4, <1>6, <1>8, Bounds DEF TableOK, Issued, Never
<1>11. jar # NoCookie => Known(jar, version, session)
  BY <1>3, <1>6, <1>7, <1>8 DEF Known, Issued
<1>12. RotationsOK
  <2>1. \A s \in Sids : ~session[s].revoked
    BY <1>3, <1>4, <1>6
  <2>2. Current(jar, session)
    BY <1>3, <1>6, <1>7 DEF Current
  <2>3. QED
    BY <1>8, <2>1, <2>2 DEF RotationsOK, JarOK
<1>13. CalmOK
  BY <1>3, <1>6, <1>7, <1>8 DEF CalmOK, CalmBrowser
<1>14. QED
  BY <1>8, <1>9, <1>10, <1>11, <1>12, <1>13 DEF SessionsInv

LEMMA SessionsNext == SessionsInv /\ [Next]_vars => SessionsInv'
<1> SUFFICES ASSUME SessionsInv, [Next]_vars
             PROVE  SessionsInv'
  OBVIOUS
<1>1. CASE UNCHANGED vars
  BY <1>1 DEF vars, SessionsInv, TypeOK, RotationsOK, CalmOK
<1>2. ASSUME NEW x \in Slots, Serve(x)
      PROVE  SessionsInv'
  BY <1>2, ProxyVerifyStep, RefreshStep, ReverifyStep, HandleStep, RevokeStep, CredentialsStep,
     CreateSessionStep, ReceiveStep DEF Serve
<1>3. ASSUME NEW t \in Visible, StartCheck(t) \/ Act(t) \/ Login(t) \/ Return(t)
      PROVE  SessionsInv'
  BY <1>3, SendsStep, ReturnStep
<1>4. QED
  BY <1>1, <1>2, <1>3, LoseStep, StorageEventStep, AccountChangeStep, TickStep DEF Next

\* The invariant that the theorems below follow from.
THEOREM SessionsInvariant == Spec => []SessionsInv
BY SessionsInit, SessionsNext, PTL DEF Spec

\* Rows, cookies and requests keep their types, for any lifetimes.
THEOREM TypeCorrect == Spec => []TypeOK
<1>1. SessionsInv => TypeOK
  BY DEF SessionsInv
<1>2. QED
  BY <1>1, SessionsInvariant, PTL

\* A session is revoked by a logout only, as long as requests are answered
\* within the round trip: whatever number of tabs renew it, and in whatever
\* order the answers arrive, no renewal presents a token that is neither the
\* current one nor, within the grace period, the one before
\* (verifyRefreshToken).
THEOREM SessionKept == Spec => []KeptUntilLogout
<1>1. SessionsInv => KeptUntilLogout
  BY DEF SessionsInv, RotationsOK, KeptUntilLogout
<1>2. QED
  BY <1>1, SessionsInvariant, PTL

\* A browser that waits for no answer holds the current generation.
THEOREM JarStaysCurrent == Spec => []JarCurrent
<1>1. SessionsInv => JarCurrent
  BY DEF SessionsInv, RotationsOK, JarCurrent, JarOK, Renews, Current, Ended, Matches, MatchesIn
<1>2. QED
  BY <1>1, SessionsInvariant, PTL

\* No request that was sent with the cookies of an ended session is accepted,
\* not even by the grace period of a rotation or a renewal under way.
THEOREM EndedIsRefused == Spec => []EndedStaysEnded
<1>1. SessionsInv => EndedStaysEnded
  BY DEF SessionsInv, RequestOK, DeadOK, OfUser, EndedStaysEnded
<1>2. QED
  BY <1>1, SessionsInvariant, PTL

\* No tab leaves the application while the account and its sessions are
\* unchanged, however many requests fail.
THEOREM NobodyForcedOut == Spec => []NoForcedExit
<1>1. SessionsInv => NoForcedExit
  BY DEF SessionsInv, CalmOK, Calm, CalmBrowser, NoForcedExit
<1>2. QED
  BY <1>1, SessionsInvariant, PTL

=============================================================================
