---------------------------- MODULE AuthSessions ----------------------------
(***************************************************************************)
(* Login sessions: the row of auth_sessions and its refresh-token          *)
(* rotation, the proxy that verifies and renews the cookies of a request,  *)
(* and the tabs of one browser, which share the cookies and end together.  *)
(*                                                                         *)
(* A request carries the cookies of the moment it was sent.  The proxy     *)
(* verifies the access token, renews it when it is missing, dead or close  *)
(* to its expiry, and verifies again; the handler reads the session once   *)
(* more.  Each of these is a database access of its own, so requests of    *)
(* several tabs, a logout, a login and a change of the account interleave  *)
(* between them, and answers arrive in any order.                          *)
(*                                                                         *)
(* The refresh token of generation n+1 is a keyed hash of that of          *)
(* generation n: a generation is a number, and "the previous hash" of the  *)
(* row is generation - 1.  Time is a coarse clock; a request is answered   *)
(* within RoundTrip ticks or not at all.                                   *)
(***************************************************************************)
EXTENDS Integers, FiniteSets

CONSTANTS
  Tabs,         \* tabs of one browser
  Visible,      \* tabs that are not in the background: the user acts there
  Access,       \* lifetime of an access token (one hour)
  Margin,       \* the proxy renews this long before its expiry (five minutes)
  Grace,        \* REFRESH_GRACE_MS (30 seconds)
  Life,         \* lifetime of a session (seven days)
  RoundTrip,    \* a request that is answered is answered within this time
  MaxTime,      \* bound of the clock
  MaxSessions,  \* bound of the number of logins
  MaxEvents,    \* bound of the failing requests and the changes of the account
  NoCookie, NoRequest, Keep

VARIABLES
  version,    \* users.session_version
  session,    \* auth_sessions, in the order of their creation
  jar,        \* the cookies of the browser
  tab,        \* "app" on a protected page, "login" on the login page
  req,        \* the session check and the other request of each tab
  told,       \* tabs with an undelivered session-ended storage event
  now,
  lost,       \* how many requests failed
  loggedOut,  \* history: sessions ended by a logout
  silent      \* history: a tab left by a page load, without telling the others

server == <<version, session, loggedOut>>
client == <<jar, tab, told, silent>>
vars == <<version, session, jar, tab, req, told, now, lost, loggedOut, silent>>

-----------------------------------------------------------------------------
Sids  == 1 .. MaxSessions
Slots == Visible \X {"check", "act"}   \* only the tabs in front send requests
Never == -1

Session == [present : BOOLEAN, gen : Nat, rotatedAt : Nat \cup {Never}, expires : Nat,
            revoked : BOOLEAN]
NoSession == [present |-> FALSE, gen |-> 0, rotatedAt |-> Never, expires |-> 0, revoked |-> FALSE]

\* Access token, refresh token and expiry travel together, as one cookie:
\* they are always set by the same answer.
Cookie == [sid : Sids, gen : Nat, ver : Nat, exp : Nat]

Request ==
  [kind : {"check", "call", "logout", "login"},
   at : {"verify", "refresh", "reverify", "handle", "revoke", "credentials", "create", "answered"},
   since : Nat, sent : Cookie \cup {NoCookie}, got : Cookie \cup {NoCookie, Keep},
   ok : BOOLEAN, dead : BOOLEAN]

ASSUME AuthSessionsAssumption ==
  /\ Visible \subseteq Tabs
  /\ {Access, Margin, Grace, Life, RoundTrip, MaxTime, MaxSessions, MaxEvents}
       \subseteq Nat
  /\ Life > 0 /\ MaxSessions > 0
  /\ RoundTrip < Margin
  /\ 2 * RoundTrip < Grace
  /\ Grace + 2 * RoundTrip < Access - Margin
  /\ NoCookie \notin Cookie /\ Keep \notin Cookie \cup {NoCookie} /\ NoRequest \notin Request

\* sessionMatchesClaims: the claims name a session that is neither revoked
\* nor expired, of an account that has not changed since they were signed.
\* A deactivation is a change of the version.
Matches(c) ==
  /\ session[c.sid].present
  /\ c.ver = version
  /\ ~session[c.sid].revoked
  /\ now < session[c.sid].expires

\* verifyAccessToken
AccessValid(c) == c # NoCookie /\ now < c.exp /\ Matches(c)

Ended(c) == c = NoCookie \/ ~Matches(c)

WithinGrace(s) == session[s].rotatedAt # Never /\ now - session[s].rotatedAt < Grace

Put(x, r) == req' = [req EXCEPT ![x] = r]
Answer(x, r, ok) == Put(x, [r EXCEPT !.at = "answered", !.ok = ok, !.sent = NoCookie])

-----------------------------------------------------------------------------
(* The proxy and the handlers behind it.                                   *)

\* Fault: an access token is renewed only once it has expired.
ProxyVerifyLate(x) ==
  LET r == req[x]  c == r.sent
  IN  /\ r # NoRequest /\ r.at = "verify"
      /\ IF AccessValid(c) THEN Put(x, [r EXCEPT !.at = "handle"])
         ELSE IF c # NoCookie THEN Put(x, [r EXCEPT !.at = "refresh"])
         ELSE Answer(x, r, FALSE)
      /\ UNCHANGED <<server, client, now, lost>>

\* Which database access comes after the first verification of the token.
ProxyVerify(x) ==
  LET r == req[x]  c == r.sent  user == AccessValid(c)
      shouldRefresh == c # NoCookie /\ (~user \/ c.exp - now < Margin)
  IN  /\ r # NoRequest /\ r.at = "verify"
      /\ IF shouldRefresh THEN Put(x, [r EXCEPT !.at = "refresh"])
         ELSE IF user THEN Put(x, [r EXCEPT !.at = "handle"])
         ELSE Answer(x, r, FALSE)
      /\ UNCHANGED <<server, client, now, lost>>

Tokens(s, gen, ver) == [sid |-> s, gen |-> gen, ver |-> ver, exp |-> now + Access]

\* Fault: the columns of the current and the previous hash are swapped.
RotatedSwapped(s) == [session EXCEPT ![s].gen = @ - 1, ![s].rotatedAt = now]

\* The row of session s after a rotation.
Rotated(s) == [session EXCEPT ![s].gen = @ + 1, ![s].rotatedAt = now]

\* Fault: the previous generation is refused within the grace period too.
RefreshNoRetry(x) ==
  LET r == req[x]  c == r.sent  s == c.sid  gen == session[s].gen
      Renew(g) == Put(x, [r EXCEPT !.at = "reverify", !.got = Tokens(s, g, version)])
  IN  /\ r # NoRequest /\ r.at = "refresh"
      /\ IF ~Matches(c) THEN Answer(x, r, FALSE) /\ UNCHANGED session
         ELSE IF c.gen = gen THEN Renew(gen + 1) /\ session' = Rotated(s)
         ELSE Answer(x, r, FALSE) /\ session' = [session EXCEPT ![s].revoked = TRUE]
      /\ UNCHANGED <<version, loggedOut, client, now, lost>>

\* Fault: a retry is given the generation it presented.
RefreshSameToken(x) ==
  LET r == req[x]  c == r.sent  s == c.sid  gen == session[s].gen
      Renew(g) == Put(x, [r EXCEPT !.at = "reverify", !.got = Tokens(s, g, version)])
  IN  /\ r # NoRequest /\ r.at = "refresh"
      /\ IF ~Matches(c) THEN Answer(x, r, FALSE) /\ UNCHANGED session
         ELSE IF WithinGrace(s) THEN Renew(c.gen) /\ UNCHANGED session
         ELSE Renew(gen + 1) /\ session' = Rotated(s)
      /\ UNCHANGED <<version, loggedOut, client, now, lost>>

\* Fault: a known token is renewed before the session is compared with it.
RefreshGraceFirst(x) ==
  LET r == req[x]  c == r.sent  s == c.sid
  IN  /\ r # NoRequest /\ r.at = "refresh"
      /\ IF WithinGrace(s) /\ c.gen \in {session[s].gen - 1, session[s].gen} THEN
           /\ Answer(x, [r EXCEPT !.got = Tokens(s, session[s].gen, version)], TRUE)
           /\ UNCHANGED session
         ELSE IF ~Matches(c) THEN Answer(x, r, FALSE) /\ UNCHANGED session
         ELSE IF c.gen = session[s].gen THEN
           /\ session' = Rotated(s)
           /\ Put(x, [r EXCEPT !.at = "reverify", !.got = Tokens(s, session[s].gen + 1, version)])
         ELSE session' = [session EXCEPT ![s].revoked = TRUE] /\ Answer(x, r, FALSE)
      /\ UNCHANGED <<version, loggedOut, client, now, lost>>

\* verifyRefreshToken, one transaction under FOR UPDATE of the session row:
\* the current generation is reused within the grace period of the last
\* rotation and rotated after it, the previous one is given the current one
\* within it, any other token revokes the session.
Refresh(x) ==
  LET r == req[x]  c == r.sent  s == c.sid  gen == session[s].gen
      Renew(g) == Put(x, [r EXCEPT !.at = "reverify", !.got = Tokens(s, g, version)])
  IN  /\ r # NoRequest /\ r.at = "refresh"
      /\ \/ /\ ~Matches(c)
            /\ Answer(x, r, FALSE)
            /\ UNCHANGED session
         \/ /\ Matches(c) /\ WithinGrace(s) /\ c.gen \in {gen - 1, gen}
            /\ Renew(gen)
            /\ UNCHANGED session
         \/ /\ Matches(c) /\ ~WithinGrace(s) /\ c.gen = gen
            /\ Renew(gen + 1)
            /\ session' = Rotated(s)
         \/ /\ Matches(c) /\ c.gen # gen
            /\ ~(WithinGrace(s) /\ c.gen = gen - 1)
            /\ Answer(x, r, FALSE)
            /\ session' = [session EXCEPT ![s].revoked = TRUE]
      /\ UNCHANGED <<version, loggedOut, client, now, lost>>

\* The renewed access token is verified; a refusal carries no cookies.
Reverify(x) ==
  LET r == req[x]
  IN  /\ r # NoRequest /\ r.at = "reverify"
      /\ IF AccessValid(r.got) THEN Put(x, [r EXCEPT !.at = "handle"])
         ELSE Answer(x, [r EXCEPT !.got = Keep], FALSE)
      /\ UNCHANGED <<server, client, now, lost>>

\* getCurrentUser in the handler, with the renewed cookies if there are any.
Handle(x) ==
  LET r == req[x]
  IN  /\ r # NoRequest /\ r.at = "handle"
      /\ Answer(x, r, AccessValid(IF r.got = Keep THEN r.sent ELSE r.got))
      /\ UNCHANGED <<server, client, now, lost>>

\* revokeSession of the logout route, which no proxy check precedes.
Revoke(x) ==
  LET r == req[x]  c == r.sent
      known == c # NoCookie /\ session[c.sid].present
  IN  /\ r # NoRequest /\ r.at = "revoke"
      /\ session' = IF known THEN [session EXCEPT ![c.sid].revoked = TRUE] ELSE session
      /\ loggedOut' = IF known THEN loggedOut \cup {c.sid} ELSE loggedOut
      /\ Answer(x, [r EXCEPT !.got = NoCookie], TRUE)
      /\ UNCHANGED <<version, client, now, lost>>

\* verifyCredentials reads the account, and its session version with it.
Credentials(x) ==
  LET r == req[x]
  IN  /\ r # NoRequest /\ r.at = "credentials"
      /\ \E s \in Sids :
           /\ Put(x, [r EXCEPT !.at = "create", !.got = Tokens(s, 0, version)])
           /\ \A p \in Sids : p < s <=>
                \/ session[p] # NoSession
                \/ \E y \in Slots : req[y] # NoRequest /\ req[y].at = "create" /\ req[y].got.sid = p
      /\ UNCHANGED <<server, client, now, lost>>

\* generateTokens: dead sessions of the user go, the new one comes.
CreateSession(x) ==
  LET r == req[x]  s == r.got.sid
      Dead(p) == session[p].revoked \/ session[p].expires < now
  IN  /\ r # NoRequest /\ r.at = "create"
      /\ session' = [p \in Sids |->
           IF p = s THEN [present |-> TRUE, gen |-> 0, rotatedAt |-> Never,
                          expires |-> now + Life, revoked |-> FALSE]
           ELSE [session[p] EXCEPT !.present = @ /\ ~Dead(p)]]
      /\ Answer(x, [r EXCEPT !.got = [@ EXCEPT !.exp = now + Access]], TRUE)
      /\ UNCHANGED <<version, loggedOut, client, now, lost>>

-----------------------------------------------------------------------------
(* The tabs.                                                               *)

Sent(kind, at) ==
  [kind |-> kind, at |-> at, since |-> now, sent |-> jar, got |-> Keep, ok |-> FALSE,
   dead |-> Ended(jar)]

\* checkSession: one check of the whole browser at a time (navigator.locks),
\* on a timer, on getting the focus, or because a request was answered 401.
StartCheck(t) ==
  /\ tab[t] = "app"
  /\ \A u \in Visible : req[<<u, "check">>] = NoRequest
  /\ Put(<<t, "check">>, Sent("check", "verify"))
  /\ UNCHANGED <<server, client, now, lost>>

\* A page calls the server or is loaded, or the user signs out.
Act(t) ==
  /\ tab[t] = "app"
  /\ req[<<t, "act">>] = NoRequest
  /\ \/ Put(<<t, "act">>, Sent("call", "verify"))
     \/ Put(<<t, "act">>, Sent("logout", "revoke"))
  /\ UNCHANGED <<server, client, now, lost>>

Login(t) ==
  /\ tab[t] = "login"
  /\ req[<<t, "act">>] = NoRequest
  /\ Cardinality({s \in Sids : session[s] # NoSession})
       + Cardinality({y \in Slots : req[y] # NoRequest /\ req[y].kind = "login"}) < MaxSessions
  /\ Put(<<t, "act">>, Sent("login", "credentials"))
  /\ UNCHANGED <<server, client, now, lost>>

\* The login page sends a user who is signed in back.
Return(t) ==
  /\ tab[t] = "login"
  /\ AccessValid(jar)
  /\ tab' = [tab EXCEPT ![t] = "app"]
  /\ UNCHANGED <<server, jar, told, silent, req, now, lost>>

\* Fault: the other tabs are not told.
EndSessionAlone(t) ==
  /\ tab' = [tab EXCEPT ![t] = "login"]
  /\ told' = told \ {t}
  /\ UNCHANGED silent

\* endClientSession: this tab goes to the login page and the other tabs that
\* listen are told.
EndSession(t) ==
  /\ tab' = [tab EXCEPT ![t] = "login"]
  /\ told' = (told \cup {u \in Tabs : tab[u] = "app"}) \ {t}
  /\ UNCHANGED silent

LeaveSilently(t) ==
  /\ tab' = [tab EXCEPT ![t] = "login"]
  /\ silent' = TRUE
  /\ told' = told \ {t}

Stay == UNCHANGED <<tab, told, silent>>

\* What the answer r does in tab t.
React(t, r) ==
  \/ /\ tab[t] = "app" /\ r.kind = "check" /\ ~r.ok
     /\ EndSession(t)
  \/ /\ tab[t] = "app" /\ r.kind = "logout"
     /\ EndSession(t)
  \/ /\ tab[t] = "app" /\ r.kind = "call" /\ ~r.ok
     /\ \/ Stay               \* a fetch: the session is checked first
        \/ LeaveSilently(t)   \* a page load or a server action: redirected
  \/ /\ tab[t] = "login" /\ r.kind = "login"
     /\ tab' = [tab EXCEPT ![t] = "app"]
     /\ UNCHANGED <<told, silent>>
  \/ /\ tab[t] = "app"
     /\ r.kind = "login" \/ (r.ok /\ r.kind # "logout")
     /\ Stay
  \/ /\ tab[t] = "login" /\ r.kind # "login"
     /\ Stay

\* The browser stores the cookies of the answer, then the page sees it.
Receive(x) ==
  LET r == req[x]
  IN  /\ r # NoRequest /\ r.at = "answered"
      /\ jar' = IF r.got = Keep THEN jar ELSE r.got
      /\ Put(x, NoRequest)
      /\ React(x[1], r)
      /\ UNCHANGED <<server, now, lost>>

\* handleStorage in a tab that has the guard mounted.
StorageEvent(t) ==
  /\ t \in told
  /\ told' = told \ {t}
  /\ tab' = [tab EXCEPT ![t] = "login"]
  /\ UNCHANGED <<server, jar, silent, req, now, lost>>

\* The request fails on the way, or is answered 503 or 500, or its answer
\* does not arrive: the page does nothing.
Lose(x) ==
  /\ req[x] # NoRequest
  /\ lost + version < MaxEvents
  /\ lost' = lost + 1
  /\ Put(x, NoRequest)
  /\ UNCHANGED <<server, client, now>>

\* An administrator changes the password, the roles, the stores or the
\* status of the account.
AccountChange ==
  /\ lost + version < MaxEvents
  /\ version' = version + 1
  /\ UNCHANGED <<session, loggedOut, client, req, now, lost>>

Tick ==
  /\ now < MaxTime
  /\ \A x \in Slots : req[x] # NoRequest => now < req[x].since + RoundTrip
  /\ now' = now + 1
  /\ UNCHANGED <<server, client, req, lost>>

-----------------------------------------------------------------------------
\* The user logged in so long ago that the next requests renew the session;
\* every tab shows a page of the application.
Init ==
  /\ version = 0
  /\ session = [s \in Sids |-> IF s = 1 THEN [NoSession EXCEPT !.present = TRUE, !.expires = Life]
                               ELSE NoSession]
  /\ jar = [sid |-> 1, gen |-> 0, ver |-> 0, exp |-> RoundTrip]
  /\ tab = [t \in Tabs |-> "app"]
  /\ req = [x \in Slots |-> NoRequest]
  /\ told = {} /\ loggedOut = {}
  /\ now = 0 /\ lost = 0
  /\ silent = FALSE

Serve(x) ==
  \/ ProxyVerify(x) \/ Refresh(x) \/ Reverify(x) \/ Handle(x) \/ Revoke(x)
  \/ Credentials(x) \/ CreateSession(x) \/ Receive(x)

Next ==
  \/ \E x \in Slots : Serve(x) \/ Lose(x)
  \/ \E t \in Visible : StartCheck(t) \/ Act(t) \/ Login(t) \/ Return(t)
  \/ \E t \in Tabs : StorageEvent(t)
  \/ AccountChange \/ Tick

\* A request that was sent is served and answered, or lost; a storage event
\* is delivered; locks are granted in the order they were asked for.
Fairness ==
  /\ \A x \in Slots : WF_vars(Serve(x))
  /\ \A t \in Tabs : WF_vars(StorageEvent(t))
  /\ \A t \in Visible : SF_vars(StartCheck(t))

Spec == Init /\ [][Next]_vars /\ Fairness

-----------------------------------------------------------------------------
(* Properties.                                                             *)

\* Rows, cookies and requests have the shape the code gives them.
TypeOK ==
  /\ version \in Nat /\ now \in Nat /\ lost \in Nat
  /\ session \in [Sids -> Session]
  /\ jar \in Cookie \cup {NoCookie}
  /\ tab \in [Tabs -> {"app", "login"}]
  /\ req \in [Slots -> Request \cup {NoRequest}]
  /\ told \subseteq Tabs /\ loggedOut \subseteq Sids
  /\ silent \in BOOLEAN

\* Rotation never costs a user the session: as long as requests are answered
\* within the round trip, a session is revoked by a logout only, whatever
\* tabs renew it at once and in whatever order their answers arrive
\* (verifyRefreshToken: "out-of-order responses remain usable").
KeptUntilLogout ==
  lost = 0 => \A s \in Sids : session[s].revoked => s \in loggedOut

\* Once everything is answered the browser is left with the current
\* generation: no late answer has put an older token back.
JarCurrent ==
  lost = 0 /\ ~Ended(jar) /\ (\A x \in Slots : req[x] = NoRequest) =>
    jar.gen = session[jar.sid].gen

\* A request sent with the cookies of a session that had ended is refused:
\* neither the grace period nor a renewal that was under way brings the
\* session back (README: the checks after a logout or a change of the
\* account are not subject to the grace period).
EndedStaysEnded ==
  \A x \in Slots :
    req[x] # NoRequest /\ req[x].kind \in {"check", "call"} /\ req[x].at = "answered"
      /\ req[x].dead => ~req[x].ok

\* Failing requests never send a user to the login page: as long as no
\* session was revoked or has expired and the account has not changed, every
\* tab stays where it is (README: an unavailable session service does not
\* force an exit).
NoForcedExit ==
  version = 0 /\ (\A s \in Sids : ~session[s].revoked) /\ now < session[1].expires =>
    \A t \in Tabs : tab[t] = "app"

\* A tab that shows the application on a session that has ended leaves for
\* the login page, unless a new login gives the browser a live session: a
\* visible tab by its own check, a background tab because it is told.
EndedReachesTabs ==
  \A t \in Tabs :
    (tab[t] = "app" /\ Ended(jar)) ~>
      (tab[t] = "login" \/ ~Ended(jar) \/ (t \notin Visible /\ silent))

=============================================================================
