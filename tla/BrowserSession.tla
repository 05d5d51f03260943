--------------------------- MODULE BrowserSession ---------------------------
(***************************************************************************)
(* A browser session: the session rows of the API, the refresh cookie the  *)
(* tabs of one browser share, and in each tab AuthService with its shared  *)
(* refresh and the interceptor's requests that wait for it.                *)
(*                                                                         *)
(* An access token is known by its session, a refresh token by its session *)
(* and the number of the hash it was signed with; a refresh knows whether  *)
(* generation is still the one it began in.  A login is one step, and so   *)
(* are a logout's service and answer; every other exchange is sent, served *)
(* and answered apart.                                                     *)
(***************************************************************************)
EXTENDS Naturals, FiniteSets

CONSTANTS
  Tab, NoTab,
  Exchange, NoExchange,   \* refreshes that may be under way at a time
  Ask,                    \* API requests and guarded navigations, likewise
  MaxLogins,              \* bound: sessions, 1 .. MaxLogins
  MaxHash                 \* bound: hashes of a session

LoginId == 1 .. MaxLogins
NoCookie == [id |-> 0, hash |-> 0]
Cookie == {NoCookie} \cup [id: LoginId, hash: 1 .. MaxHash]

ASSUME BrowserAssumption ==
  /\ MaxLogins \in Nat /\ MaxHash \in Nat \ {0}
  /\ NoExchange \notin Exchange /\ NoTab \notin Tab

VARIABLES
  hash,       \* hash[s]: the row's hash, 0 where there is no row
  live,       \* rows that are not soft-deleted
  cookie,     \* the refresh cookie in the browser's jar
  token,      \* token[t]: session of the access token in memory, 0 without one
  expired,    \* expired[t]: isTokenExpired(token[t])
  sharing,    \* sharing[t]: refresh$
  exchange,   \* exchange[x]: a POST /auth/browser/refresh and its GET /auth/me
  ask,        \* ask[a]: a request on its way through the interceptor
  leaving,    \* sessions whose POST /auth/browser/logout is under way
  granted,    \* history: token[t] comes from a login or refresh begun after the last logout
  abandoned,  \* history: the tab has logged out during a refresh
  lost        \* history: sessions an answer of whose rotation did not arrive

history == <<granted, abandoned, lost>>
browserVars == <<hash, live, cookie, token, expired, sharing, exchange, ask, leaving, history>>

\* at: free; asked; rotated or refused: the answer is on its way; me: the profile is asked for
NoRefresh == [at |-> "free", tab |-> NoTab, current |-> FALSE, sent |-> NoCookie, got |-> NoCookie]
Stages == {"free", "asked", "rotated", "refused", "me"}
\* at: idle; waiting for a refresh; sent with a token
NoAsk == [at |-> "idle", tab |-> NoTab, via |-> NoExchange, token |-> 0, retried |-> FALSE, visit |-> FALSE]

BrowserInit ==
  /\ hash = [s \in LoginId |-> 0] /\ live = {} /\ cookie = NoCookie
  /\ token = [t \in Tab |-> 0] /\ expired = [t \in Tab |-> FALSE]
  /\ sharing = [t \in Tab |-> NoExchange]
  /\ exchange = [x \in Exchange |-> NoRefresh] /\ ask = [a \in Ask |-> NoAsk]
  /\ leaving = {} /\ granted = [t \in Tab |-> FALSE]
  /\ abandoned = [t \in Tab |-> FALSE] /\ lost = {}

LoggedIn(t) == token[t] # 0 /\ ~expired[t]

-----------------------------------------------------------------------------
(* The user                                                                *)

Login(t) ==
  LET s == Cardinality({l \in LoginId : hash[l] > 0}) + 1 IN
  /\ token[t] = 0 /\ s \in LoginId
  /\ hash' = [hash EXCEPT ![s] = 1]
  /\ live' = live \cup {s}
  /\ cookie' = [id |-> s, hash |-> 1]
  /\ token' = [token EXCEPT ![t] = s]
  /\ expired' = [expired EXCEPT ![t] = FALSE]
  /\ granted' = [granted EXCEPT ![t] = TRUE]
  /\ UNCHANGED <<sharing, exchange, ask, leaving, abandoned, lost>>

\* logout(): what it does to the tab, with or without notifying the API.
\* (generation++: the refreshes of the tab are of an older one.)
Outdated(t) ==
  [x \in Exchange |-> IF exchange[x].tab = t THEN [exchange[x] EXCEPT !.current = FALSE] ELSE exchange[x]]
Forget(t) ==
  /\ token' = [token EXCEPT ![t] = 0]
  /\ expired' = [expired EXCEPT ![t] = FALSE]
  /\ sharing' = [sharing EXCEPT ![t] = NoExchange]
  /\ granted' = [granted EXCEPT ![t] = FALSE]
  /\ abandoned' = [abandoned EXCEPT ![t] = @ \/ \E x \in Exchange : exchange'[x].at # "free" /\ exchange'[x].tab = t]

Logout(t) ==
  /\ token[t] # 0
  /\ exchange' = Outdated(t)
  /\ Forget(t)
  /\ leaving' = leaving \cup {cookie.id}
  /\ UNCHANGED <<hash, live, cookie, ask, lost>>

\* The row goes by its id, whatever its hash is by now; the cookie is cleared.
LogoutServed(s) ==
  /\ s \in leaving
  /\ live' = live \ {s}
  /\ cookie' = NoCookie
  /\ leaving' = leaving \ {s}
  /\ UNCHANGED <<hash, token, expired, sharing, exchange, ask, history>>

LogoutLost(s) ==
  /\ s \in leaving
  /\ leaving' = leaving \ {s}
  /\ UNCHANGED <<hash, live, cookie, token, expired, sharing, exchange, ask, history>>

\* A suspension, deletion or password change ends the session.
Revoke(s) ==
  /\ s \in live
  /\ live' = live \ {s}
  /\ UNCHANGED <<hash, cookie, token, expired, sharing, exchange, ask, leaving, history>>

TokenExpires(t) ==
  /\ LoggedIn(t)
  /\ expired' = [expired EXCEPT ![t] = TRUE]
  /\ UNCHANGED <<hash, live, cookie, token, sharing, exchange, ask, leaving, history>>

-----------------------------------------------------------------------------
(* refreshAccessToken                                                      *)

\* mutant: every caller posts a refresh of its own
Shared_Never(t) == FALSE
Shared(t) == sharing[t] # NoExchange

\* x is the refresh a caller in tab t waits for.
RefreshAccessToken(t, x) ==
  \/ Shared(t) /\ x = sharing[t] /\ UNCHANGED <<sharing, exchange>>
  \/ /\ ~Shared(t) /\ exchange[x].at = "free"
     /\ exchange' = [exchange EXCEPT ![x] =
          [at |-> "asked", tab |-> t, current |-> TRUE, sent |-> cookie, got |-> NoCookie]]
     /\ sharing' = [sharing EXCEPT ![t] = x]

\* mutant: the row is found by its id alone
Matches_AnyHash(c) == c.id \in live
\* UPDATE session SET hash WHERE id AND hash AND "deletedAt" IS NULL
Matches(c) == c.id \in live /\ hash[c.id] = c.hash

Rotate(x) ==
  LET c == exchange[x].sent IN
  /\ exchange[x].at = "asked"
  /\ \/ /\ Matches(c) /\ hash[c.id] < MaxHash
        /\ hash' = [hash EXCEPT ![c.id] = @ + 1]
        /\ exchange' = [exchange EXCEPT ![x].at = "rotated",
                                        ![x].got = [id |-> c.id, hash |-> hash[c.id] + 1]]
     \/ /\ ~Matches(c)
        /\ exchange' = [exchange EXCEPT ![x].at = "refused"]
        /\ UNCHANGED hash
  /\ UNCHANGED <<live, cookie, token, expired, sharing, ask, leaving, history>>

\* mutant: no generation is compared
Current_Always(x) == TRUE
\* generation === this.generation
Current(x) == exchange[x].current

\* The answer sets the cookie whatever the tab has done since.
Receive(x) ==
  LET e == exchange[x] IN
  /\ e.at = "rotated"
  /\ cookie' = e.got
  /\ exchange' = [exchange EXCEPT ![x].at = "me"]
  /\ IF Current(x)
     THEN /\ token' = [token EXCEPT ![e.tab] = e.got.id]
          /\ expired' = [expired EXCEPT ![e.tab] = FALSE]
          /\ granted' = [granted EXCEPT ![e.tab] = e.current]
     ELSE UNCHANGED <<token, expired, granted>>
  /\ UNCHANGED <<hash, live, sharing, ask, leaving, abandoned, lost>>

\* mutant: only callers of the present generation are answered
Waiting_Current(x) == {a \in Ask : ask[a].at = "waiting" /\ ask[a].via = x /\ Current(x)}
Waiting(x) == {a \in Ask : ask[a].at = "waiting" /\ ask[a].via = x}

\* The finalizer clears refresh$, be it this refresh or a later one.
SettleRefresh(x, resumed) ==
  /\ sharing' = [sharing EXCEPT ![exchange[x].tab] = NoExchange]
  /\ ask' = [a \in Ask |-> IF a \in Waiting(x) THEN resumed[a] ELSE ask[a]]

\* Profile served: applySession, and the waiting requests are sent.
Refreshed(x) ==
  LET e == exchange[x] IN
  /\ e.at = "me" /\ e.got.id \in live
  /\ IF Current(x)
     THEN token' = [token EXCEPT ![e.tab] = e.got.id] /\ granted' = [granted EXCEPT ![e.tab] = e.current]
     ELSE UNCHANGED <<token, granted>>
  /\ exchange' = [exchange EXCEPT ![x] = NoRefresh]
  /\ SettleRefresh(x, [a \in Ask |-> IF ask[a].visit THEN NoAsk
                              ELSE [ask[a] EXCEPT !.at = "sent", !.via = NoExchange, !.token = e.got.id]])
  /\ UNCHANGED <<hash, live, cookie, expired, leaving, abandoned, lost>>

\* Refused, or no answer: requests end the tab's session, navigations go to /login.
RefreshFails(x) ==
  LET e == exchange[x] IN
  /\ e.at # "free"
  /\ SettleRefresh(x, [a \in Ask |-> NoAsk])
  /\ IF \E a \in Waiting(x) : ~ask[a].visit
     THEN exchange' = [Outdated(e.tab) EXCEPT ![x] = NoRefresh] /\ Forget(e.tab)
     ELSE exchange' = [exchange EXCEPT ![x] = NoRefresh] /\ UNCHANGED <<token, expired, granted, abandoned>>
  /\ lost' = IF e.at = "rotated" THEN lost \cup {e.got.id} ELSE lost
  /\ UNCHANGED <<hash, live, cookie, leaving>>

-----------------------------------------------------------------------------
(* The interceptor and the route guard                                     *)

Start(a, t, visit) ==
  /\ ask[a].at = "idle"
  /\ \/ /\ LoggedIn(t) /\ ~visit
        /\ ask' = [ask EXCEPT ![a] = [NoAsk EXCEPT !.tab = t, !.at = "sent", !.token = token[t]]]
        /\ UNCHANGED <<sharing, exchange>>
     \/ /\ ~LoggedIn(t)
        /\ \E x \in Exchange :
             /\ RefreshAccessToken(t, x)
             /\ ask' = [ask EXCEPT ![a] = [NoAsk EXCEPT !.tab = t, !.at = "waiting", !.via = x,
                                                           !.retried = TRUE, !.visit = visit]]
  /\ UNCHANGED <<hash, live, cookie, token, expired, leaving, history>>

\* Served, or failed for another reason than its token.
Served(a) ==
  /\ ask[a].at = "sent"
  /\ ask' = [ask EXCEPT ![a] = NoAsk]
  /\ UNCHANGED <<hash, live, cookie, token, expired, sharing, exchange, leaving, history>>

\* 401: the session is over, or the token expired on its way.
Unauthorized(a) ==
  LET t == ask[a].tab IN
  /\ ask[a].at = "sent"
  /\ \/ /\ ~ask[a].retried
        /\ \E x \in Exchange :
             /\ RefreshAccessToken(t, x)
             /\ ask' = [ask EXCEPT ![a] = [@ EXCEPT !.at = "waiting", !.via = x, !.retried = TRUE]]
        /\ UNCHANGED <<token, expired, granted, abandoned>>
     \/ /\ ask[a].retried
        /\ exchange' = Outdated(t)
        /\ Forget(t)
        /\ ask' = [ask EXCEPT ![a] = NoAsk]
  /\ UNCHANGED <<hash, live, cookie, leaving, lost>>

\* Served or lost, an answer comes.
Answered(x) == Rotate(x) \/ Receive(x) \/ Refreshed(x) \/ RefreshFails(x)

BrowserNext ==
  \/ \E t \in Tab : Login(t) \/ Logout(t) \/ TokenExpires(t)
  \/ \E s \in LoginId \cup {0} : LogoutServed(s) \/ LogoutLost(s) \/ Revoke(s)
  \/ \E x \in Exchange : Answered(x)
  \/ \E a \in Ask : (\E t \in Tab, visit \in BOOLEAN : Start(a, t, visit)) \/ Served(a) \/ Unauthorized(a)

BrowserSpec == BrowserInit /\ [][BrowserNext]_browserVars

(* Connections end: every refresh is answered or fails, every request too. *)
BrowserFairness ==
  /\ \A x \in Exchange : WF_browserVars(Answered(x))
  /\ \A a \in Ask : WF_browserVars(Served(a) \/ Unauthorized(a))
BrowserFairSpec == BrowserSpec /\ BrowserFairness

-----------------------------------------------------------------------------
(* Properties                                                              *)

\* The rows, the jar and the tabs have their types.
BrowserTypeOK ==
  /\ hash \in [LoginId -> 0 .. MaxHash] /\ live \subseteq LoginId
  /\ cookie \in Cookie
  /\ token \in [Tab -> {0} \cup LoginId] /\ expired \in [Tab -> BOOLEAN]
  /\ sharing \in [Tab -> Exchange \cup {NoExchange}]
  /\ exchange \in [Exchange -> [at: Stages, tab: Tab \cup {NoTab}, current: BOOLEAN, sent: Cookie, got: Cookie]]
  /\ ask \in [Ask -> [at: {"idle", "waiting", "sent"}, tab: Tab \cup {NoTab}, via: Exchange \cup {NoExchange},
                       token: {0} \cup LoginId, retried: BOOLEAN, visit: BOOLEAN]]
  /\ leaving \subseteq {0} \cup LoginId
  /\ granted \in [Tab -> BOOLEAN] /\ abandoned \in [Tab -> BOOLEAN] /\ lost \subseteq LoginId

\* "does not restore a session after logout during recovery": an answer to a
\* refresh begun before a logout gives the tab no token, not even when somebody
\* has logged in since.
LogoutStays == \A t \in Tab : token[t] # 0 => granted[t]

\* "Independent tabs may race a rotation; a losing tab must recover again using
\* the updated cookie": unless an answer is lost, the jar holds the present
\* token of its session or is about to receive it; no late answer takes it back.
JarKeepsUp ==
  cookie.id \in live \ lost =>
    \/ cookie.hash = hash[cookie.id]
    \/ \E x \in Exchange : /\ exchange[x].at = "rotated"
                           /\ exchange[x].got = [id |-> cookie.id, hash |-> hash[cookie.id]]

\* "Requests within one tab share a refresh operation", as long as no logout has
\* left one behind, whose finalizer takes the record of its successor away.
OneRefresh ==
  \A t \in Tab : ~abandoned[t] =>
    Cardinality({x \in Exchange : exchange[x].at # "free" /\ exchange[x].tab = t}) <= 1

\* Every request and navigation ends, also when the refresh it waits for has
\* been overtaken by a logout.
AskEnds == \A a \in Ask : ask[a].at # "idle" ~> ask[a].at = "idle"
=============================================================================
