-------------------------- MODULE WebSessionProofs --------------------------
(***************************************************************************)
(* What one signed-in user sees.  BrowserSession, for every number of      *)
(* tabs, requests, sessions and rotations: a logout stays, a tab refreshes *)
(* once at a time, and the jar keeps up with the rotations.  DashboardCache*)
(* for every number of readers, clears and changes: a cleared dashboard    *)
(* stays cleared.                                                          *)
(***************************************************************************)
EXTENDS BrowserSession, DashboardCache, FiniteSetTheorems, TLAPS

Refreshes == [at: Stages, tab: Tab \cup {NoTab}, current: BOOLEAN, sent: Cookie, got: Cookie]
Asks == [at: {"idle", "waiting", "sent"}, tab: Tab \cup {NoTab}, via: Exchange \cup {NoExchange},
         token: {0} \cup LoginId, retried: BOOLEAN, visit: BOOLEAN]

\* A refresh under way belongs to a tab; one that rotated got a token.
Started ==
  \A x \in Exchange :
    /\ exchange[x].at # "free" => exchange[x].tab \in Tab
    /\ exchange[x].at \in {"rotated", "me"} => exchange[x].got \in [id: LoginId, hash: 1 .. MaxHash]
Asked == \A a \in Ask : ask[a].at # "idle" => ask[a].tab \in Tab
BrowserTypes == BrowserTypeOK /\ Started /\ Asked

USE BrowserAssumption

\* A cookie is none or a token of a session.
LEMMA CookieType == Cookie = {[id |-> 0, hash |-> 0]} \cup [id: LoginId, hash: 1 .. MaxHash] /\ NoCookie \in Cookie
  BY DEF Cookie, NoCookie

\* The empty browser.
LEMMA BrowserInitTypes == BrowserInit => BrowserTypes
<1> SUFFICES ASSUME BrowserInit PROVE BrowserTypes
  OBVIOUS
<1>1. NoRefresh \in Refreshes /\ NoAsk \in Asks
  BY CookieType DEF NoRefresh, NoAsk, Refreshes, Asks, Stages
<1>2. exchange \in [Exchange -> Refreshes] /\ ask \in [Ask -> Asks]
  BY <1>1 DEF BrowserInit
<1>3. Started /\ Asked
  BY DEF BrowserInit, Started, Asked, NoRefresh, NoAsk
<1> QED
  BY <1>2, <1>3, CookieType DEF BrowserInit, BrowserTypes, BrowserTypeOK, Refreshes, Asks, LoginId

\* A logout touches one field of the tab's refreshes.
LEMMA OutdatedKeeps ==
  ASSUME exchange \in [Exchange -> Refreshes], NEW t
  PROVE  /\ Outdated(t) \in [Exchange -> Refreshes]
         /\ \A x \in Exchange : /\ Outdated(t)[x].at = exchange[x].at /\ Outdated(t)[x].tab = exchange[x].tab
                               /\ Outdated(t)[x].sent = exchange[x].sent /\ Outdated(t)[x].got = exchange[x].got
  BY DEF Outdated, Refreshes

\* What a caller of refreshAccessToken does to the refreshes.
LEMMA RefreshTypes ==
  ASSUME BrowserTypes, NEW t \in Tab, NEW x \in Exchange, RefreshAccessToken(t, x)
  PROVE  /\ exchange' \in [Exchange -> Refreshes] /\ sharing' \in [Tab -> Exchange \cup {NoExchange}]
         /\ \A y \in Exchange : \/ exchange'[y] = exchange[y]
                               \/ /\ y = x /\ exchange'[y].at = "asked" /\ exchange'[y].tab = t
                                  /\ exchange'[y].sent = cookie /\ ~Shared(t) /\ sharing'[t] = x
<1>1. CASE UNCHANGED <<sharing, exchange>>
  BY <1>1 DEF BrowserTypes, BrowserTypeOK, Refreshes
<1>2. CASE /\ ~Shared(t)
           /\ exchange' = [exchange EXCEPT ![x] =
                [at |-> "asked", tab |-> t, current |-> TRUE, sent |-> cookie, got |-> NoCookie]]
           /\ sharing' = [sharing EXCEPT ![t] = x]
  <2>1. [at |-> "asked", tab |-> t, current |-> TRUE, sent |-> cookie, got |-> NoCookie] \in Refreshes
    BY CookieType DEF BrowserTypes, BrowserTypeOK, Refreshes, Stages
  <2> QED
    BY <1>2, <2>1 DEF BrowserTypes, BrowserTypeOK, Refreshes
<1> QED
  BY <1>1, <1>2 DEF RefreshAccessToken

\* Settling a refresh: the record of its tab, and the asks that waited.
LEMMA SettleTypes ==
  ASSUME BrowserTypes, NEW x \in Exchange, NEW resumed \in [Ask -> Asks],
         \A a \in Ask : resumed[a].at # "idle" => (ask[a].at = "waiting" => resumed[a].tab \in Tab),
         SettleRefresh(x, resumed)
  PROVE  /\ sharing' \in [Tab -> Exchange \cup {NoExchange}] /\ ask' \in [Ask -> Asks] /\ Asked'
         /\ sharing' = [sharing EXCEPT ![exchange[x].tab] = NoExchange]
<1>1. \A a \in Ask : ask[a] \in Asks
  BY DEF BrowserTypes, BrowserTypeOK, Asks
<1>2. ask' \in [Ask -> Asks]
  BY <1>1 DEF SettleRefresh
<1>3. Asked'
  BY DEF SettleRefresh, Waiting, Asked, BrowserTypes
<1>4. sharing' \in [Tab -> Exchange \cup {NoExchange}]
  BY DEF SettleRefresh, BrowserTypes, BrowserTypeOK
<1> QED
  BY <1>2, <1>3, <1>4 DEF SettleRefresh

\* What a tab loses keeps its types.
LEMMA ForgetTypes ==
  ASSUME BrowserTypes, NEW t, Forget(t)
  PROVE  /\ token' \in [Tab -> {0} \cup LoginId] /\ expired' \in [Tab -> BOOLEAN]
         /\ sharing' \in [Tab -> Exchange \cup {NoExchange}]
         /\ granted' \in [Tab -> BOOLEAN]
         /\ abandoned' \in [Tab -> BOOLEAN]
<1> USE DEF BrowserTypes, BrowserTypeOK, Forget
<1>1. token' \in [Tab -> {0} \cup LoginId]
  OBVIOUS
<1>2. sharing' \in [Tab -> Exchange \cup {NoExchange}]
  OBVIOUS
<1>3. expired' \in [Tab -> BOOLEAN] /\ granted' \in [Tab -> BOOLEAN]
  BY Zenon
<1>4. abandoned' \in [Tab -> BOOLEAN]
  <2> DEFINE new == abandoned[t] \/ \E x \in Exchange : exchange'[x].at # "free" /\ exchange'[x].tab = t
  <2>1. t \in Tab => new \in BOOLEAN
    BY Zenon
  <2>2. abandoned' = [abandoned EXCEPT ![t] = new]
    OBVIOUS
  <2> HIDE DEF new
  <2> QED
    BY <2>1, <2>2, Zenon
<1> QED
  BY <1>1, <1>2, <1>3, <1>4

\* Every step keeps the types.
LEMMA BrowserStepTypes ==
  ASSUME BrowserTypes, [BrowserNext]_browserVars
  PROVE  BrowserTypes'
<1>0. exchange \in [Exchange -> Refreshes] /\ ask \in [Ask -> Asks]
  BY DEF BrowserTypes, BrowserTypeOK, Refreshes, Asks
<1> DEFINE OK == /\ BrowserTypeOK
                 /\ Started
                 /\ Asked
<1>a. BrowserTypes <=> OK
  BY DEF BrowserTypes
<1> USE <1>0 DEF BrowserTypes
<1>1. ASSUME NEW t \in Tab, Login(t) PROVE OK'
  <2>1. PICK s \in LoginId : /\ hash' = [hash EXCEPT ![s] = 1] /\ live' = live \cup {s}
                             /\ cookie' = [id |-> s, hash |-> 1] /\ token' = [token EXCEPT ![t] = s]
    BY <1>1 DEF Login
  <2>2. hash' \in [LoginId -> 0 .. MaxHash] /\ cookie' \in Cookie /\ token' \in [Tab -> {0} \cup LoginId]
    BY <2>1, CookieType DEF BrowserTypeOK, LoginId
  <2>3. expired' \in [Tab -> BOOLEAN] /\ granted' \in [Tab -> BOOLEAN]
    BY <1>1 DEF Login, BrowserTypeOK
  <2>4. Started' /\ Asked' /\ exchange' = exchange /\ ask' = ask
    BY <1>1 DEF Login, Started, Asked
  <2>5. live' \subseteq LoginId
    BY <2>1 DEF BrowserTypeOK
  <2> QED
    BY <1>1, <2>2, <2>3, <2>4, <2>5 DEF Login, BrowserTypeOK
<1>2. ASSUME NEW t \in Tab, Logout(t) PROVE OK'
  <2>1. exchange' \in [Exchange -> Refreshes] /\ Started'
    BY <1>2, OutdatedKeeps DEF Logout, Started
  <2>2. cookie.id \in {0} \cup LoginId
    BY CookieType DEF BrowserTypeOK
  <2>3. leaving' \subseteq {0} \cup LoginId
    BY <1>2, <2>2 DEF Logout, BrowserTypeOK
  <2>4. ask' = ask /\ Asked'
    BY <1>2 DEF Logout, Asked
  <2>5. /\ token' \in [Tab -> {0} \cup LoginId] /\ expired' \in [Tab -> BOOLEAN]
        /\ sharing' \in [Tab -> Exchange \cup {NoExchange}]
        /\ granted' \in [Tab -> BOOLEAN] /\ abandoned' \in [Tab -> BOOLEAN]
    BY <1>2, ForgetTypes DEF Logout
  <2> QED
    BY <1>2, <2>1, <2>3, <2>4, <2>5 DEF Logout, BrowserTypeOK, Refreshes
<1>3. ASSUME NEW t \in Tab, TokenExpires(t) PROVE OK'
  <2>1. expired' \in [Tab -> BOOLEAN]
    BY <1>3 DEF TokenExpires, BrowserTypeOK
  <2>2. Started' /\ Asked' /\ UNCHANGED <<exchange, ask>>
    BY <1>3 DEF TokenExpires, Started, Asked
  <2> QED
    BY <1>3, <2>1, <2>2 DEF TokenExpires, BrowserTypeOK, history
<1>4. ASSUME NEW s \in LoginId \cup {0}, LogoutServed(s) \/ LogoutLost(s) \/ Revoke(s) PROVE OK'
  <2>1. CASE LogoutServed(s)
    <3>1. cookie' \in Cookie /\ live' \subseteq LoginId /\ leaving' \subseteq {0} \cup LoginId
      BY <2>1, CookieType DEF LogoutServed, BrowserTypeOK
    <3> QED
      BY <2>1, <3>1 DEF LogoutServed, BrowserTypeOK, Started, Asked, history
  <2>2. CASE LogoutLost(s)
    BY <2>2 DEF LogoutLost, BrowserTypeOK, Started, Asked, history
  <2>3. CASE Revoke(s)
    BY <2>3 DEF Revoke, BrowserTypeOK, Started, Asked, history
  <2> QED
    BY <1>4, <2>1, <2>2, <2>3
<1>5. ASSUME NEW x \in Exchange, Rotate(x) PROVE OK'
  <2>1. CASE exchange' = [exchange EXCEPT ![x].at = "refused"] /\ UNCHANGED hash
    <3>1. exchange' \in [Exchange -> Refreshes] /\ Started'
      BY <1>5, <2>1 DEF Rotate, Refreshes, Stages, Started
    <3> QED
      BY <1>5, <2>1, <3>1 DEF Rotate, BrowserTypeOK, Refreshes, Asked, history
  <2>2. CASE Matches(exchange[x].sent) /\ hash[exchange[x].sent.id] < MaxHash
    <3> DEFINE s == exchange[x].sent.id
    <3>1. s \in LoginId /\ hash[s] \in 0 .. MaxHash /\ hash[s] < MaxHash
      BY <2>2 DEF Matches, BrowserTypeOK
    <3>2. [id |-> s, hash |-> hash[s] + 1] \in [id: LoginId, hash: 1 .. MaxHash]
      BY <3>1
    <3>3. [id |-> s, hash |-> hash[s] + 1] \in Cookie
      BY <3>2, CookieType
    <3>4. /\ exchange' = [exchange EXCEPT ![x].at = "rotated", ![x].got = [id |-> s, hash |-> hash[s] + 1]]
          /\ hash' = [hash EXCEPT ![s] = @ + 1]
      BY <1>5, <2>2 DEF Rotate
    <3>5. exchange' \in [Exchange -> Refreshes]
      BY <3>3, <3>4 DEF Refreshes, Stages
    <3>6. \A y \in Exchange : /\ exchange'[y].tab = exchange[y].tab
                              /\ y # x => exchange'[y] = exchange[y]
                              /\ y = x => exchange'[y].got = [id |-> s, hash |-> hash[s] + 1]
      BY <3>4 DEF Refreshes
    <3>7. Started'
      BY <1>5, <3>2, <3>6 DEF Started, Rotate
    <3>8. hash' \in [LoginId -> 0 .. MaxHash]
      BY <3>1, <3>4 DEF BrowserTypeOK
    <3> QED
      BY <1>5, <3>5, <3>7, <3>8 DEF Rotate, BrowserTypeOK, Refreshes, Asked, history
  <2> QED
    BY <1>5, <2>1, <2>2 DEF Rotate
<1>6. ASSUME NEW x \in Exchange, Receive(x) PROVE OK'
  <2>1. exchange' \in [Exchange -> Refreshes] /\ Started'
    BY <1>6 DEF Receive, Refreshes, Stages, Started
  <2>2. exchange[x].tab \in Tab /\ exchange[x].got \in [id: LoginId, hash: 1 .. MaxHash]
    BY <1>6 DEF Receive, Started
  <2>3. cookie' \in Cookie
    BY <1>6, <2>2, CookieType DEF Receive
  <2>4. token' \in [Tab -> {0} \cup LoginId]
    BY <1>6, <2>2 DEF Receive, BrowserTypeOK
  <2>5. expired' \in [Tab -> BOOLEAN]
    BY <1>6 DEF Receive, BrowserTypeOK
  <2>6. granted' \in [Tab -> BOOLEAN]
    BY <1>6 DEF Receive, BrowserTypeOK, Current
  <2> QED
    BY <1>6, <2>1, <2>3, <2>4, <2>5, <2>6 DEF Receive, BrowserTypeOK, Refreshes, Asked
<1>7. ASSUME NEW x \in Exchange, Refreshed(x) PROVE OK'
  <2> DEFINE e == exchange[x]
             resumed == [a \in Ask |-> IF ask[a].visit THEN NoAsk
                              ELSE [ask[a] EXCEPT !.at = "sent", !.via = NoExchange, !.token = e.got.id]]
  <2>1. e.tab \in Tab /\ e.got.id \in LoginId /\ e.current \in BOOLEAN
    BY <1>7 DEF Refreshed, Started, Refreshes
  <2>2. resumed \in [Ask -> Asks]
    BY <2>1 DEF Asks, NoAsk
  <2>3. \A a \in Ask : resumed[a].at # "idle" => (ask[a].at = "waiting" => resumed[a].tab \in Tab)
    BY DEF Asked, NoAsk, Asks
  <2>4. SettleRefresh(x, resumed)
    BY <1>7 DEF Refreshed
  <2> HIDE DEF resumed
  <2>5. sharing' \in [Tab -> Exchange \cup {NoExchange}] /\ ask' \in [Ask -> Asks] /\ Asked'
    BY <2>2, <2>3, <2>4, SettleTypes
  <2>6. exchange' \in [Exchange -> Refreshes] /\ Started'
    <3>1. NoRefresh \in Refreshes
      BY CookieType DEF NoRefresh, Refreshes, Stages
    <3>2. exchange' = [exchange EXCEPT ![x] = NoRefresh]
      BY <1>7 DEF Refreshed
    <3> QED
      BY <3>1, <3>2 DEF Started, NoRefresh
  <2>7. token' \in [Tab -> {0} \cup LoginId]
    BY <1>7, <2>1 DEF Refreshed, BrowserTypeOK
  <2>8. granted' \in [Tab -> BOOLEAN]
    BY <1>7, <2>1 DEF Refreshed, BrowserTypeOK, Current
  <2> QED
    BY <1>7, <2>5, <2>6, <2>7, <2>8 DEF Refreshed, BrowserTypeOK, Refreshes, Asks
<1>8. ASSUME NEW x \in Exchange, RefreshFails(x) PROVE OK'
  <2> DEFINE e == exchange[x]
             resumed == [a \in Ask |-> NoAsk]
  <2>1. NoAsk \in Asks /\ NoRefresh \in Refreshes
    BY CookieType DEF Asks, NoAsk, NoRefresh, Refreshes, Stages
  <2>2. resumed \in [Ask -> Asks] /\ \A a \in Ask : resumed[a].at = "idle"
    BY <2>1 DEF NoAsk
  <2>3. SettleRefresh(x, resumed)
    BY <1>8 DEF RefreshFails
  <2> HIDE DEF resumed
  <2>4. sharing' \in [Tab -> Exchange \cup {NoExchange}] /\ ask' \in [Ask -> Asks] /\ Asked'
    BY <2>2, <2>3, SettleTypes
  <2>5. lost' \subseteq LoginId
    BY <1>8 DEF RefreshFails, Started, BrowserTypeOK
  <2>6. CASE exchange' = [exchange EXCEPT ![x] = NoRefresh] /\ UNCHANGED <<token, expired, granted, abandoned>>
    <3>1. exchange' \in [Exchange -> Refreshes] /\ Started'
      BY <2>1, <2>6 DEF Started, NoRefresh
    <3> QED
      BY <1>8, <2>4, <2>5, <2>6, <3>1 DEF RefreshFails, BrowserTypeOK, Refreshes, Asks
  <2>7. CASE exchange' = [Outdated(e.tab) EXCEPT ![x] = NoRefresh] /\ Forget(e.tab)
    <3>1. exchange' \in [Exchange -> Refreshes]
      BY <2>1, <2>7, OutdatedKeeps
    <3>2. Started'
      BY <2>7, OutdatedKeeps DEF Started, NoRefresh
    <3> QED
      BY <1>8, <2>4, <2>5, <2>7, <3>1, <3>2, ForgetTypes DEF RefreshFails, BrowserTypeOK, Refreshes, Asks
  <2> QED
    BY <1>8, <2>6, <2>7 DEF RefreshFails
<1>9. ASSUME NEW a \in Ask, NEW t \in Tab, NEW visit \in BOOLEAN, Start(a, t, visit) PROVE OK'
  <2>1. CASE /\ ask' = [ask EXCEPT ![a] = [NoAsk EXCEPT !.tab = t, !.at = "sent", !.token = token[t]]]
             /\ UNCHANGED <<sharing, exchange>>
    <3>1. ask' \in [Ask -> Asks] /\ Asked'
      BY <2>1 DEF Asks, NoAsk, Asked, BrowserTypeOK
    <3> QED
      BY <1>9, <2>1, <3>1 DEF Start, BrowserTypeOK, Asks, Started, history
  <2>2. ASSUME NEW x \in Exchange, RefreshAccessToken(t, x),
               ask' = [ask EXCEPT ![a] = [NoAsk EXCEPT !.tab = t, !.at = "waiting", !.via = x,
                                                      !.retried = TRUE, !.visit = visit]]
        PROVE  OK'
    <3>1. ask' \in [Ask -> Asks] /\ Asked'
      BY <2>2 DEF Asks, NoAsk, Asked
    <3>2. exchange' \in [Exchange -> Refreshes] /\ sharing' \in [Tab -> Exchange \cup {NoExchange}] /\ Started'
      BY <2>2, RefreshTypes DEF Started
    <3> QED
      BY <1>9, <3>1, <3>2 DEF Start, BrowserTypeOK, Asks, Refreshes, history
  <2> QED
    BY <1>9, <2>1, <2>2 DEF Start
<1>10. ASSUME NEW a \in Ask, Served(a) PROVE OK'
  <2>1. NoAsk \in Asks
    BY DEF Asks, NoAsk
  <2>2. ask' \in [Ask -> Asks] /\ Asked'
    BY <1>10, <2>1 DEF Served, Asked, NoAsk
  <2> QED
    BY <1>10, <2>2 DEF Served, BrowserTypeOK, Asks, Started, history
<1>11. ASSUME NEW a \in Ask, Unauthorized(a) PROVE OK'
  <2> DEFINE t == ask[a].tab
  <2>1. t \in Tab
    BY <1>11 DEF Unauthorized, Asked
  <2>2. ASSUME NEW x \in Exchange, RefreshAccessToken(t, x), UNCHANGED <<token, expired, granted, abandoned>>,
               ask' = [ask EXCEPT ![a] = [@ EXCEPT !.at = "waiting", !.via = x, !.retried = TRUE]]
        PROVE  OK'
    <3>1. ask' \in [Ask -> Asks] /\ Asked'
      <4> DEFINE new == [ask[a] EXCEPT !.at = "waiting", !.via = x, !.retried = TRUE]
      <4>1. new \in Asks /\ new.tab \in Tab
        BY <2>1 DEF Asks
      <4>2. ask' = [ask EXCEPT ![a] = new]
        BY <2>2
      <4> HIDE DEF new
      <4>4. ask' \in [Ask -> Asks]
        BY <4>1, <4>2
      <4>5. \A b \in Ask : ask'[b] = (IF b = a THEN new ELSE ask[b])
        BY <4>2
      <4> QED
        BY <4>1, <4>4, <4>5 DEF Asked
    <3>2. exchange' \in [Exchange -> Refreshes] /\ sharing' \in [Tab -> Exchange \cup {NoExchange}] /\ Started'
      BY <2>1, <2>2, RefreshTypes DEF Started
    <3> QED
      BY <1>11, <2>2, <3>1, <3>2 DEF Unauthorized, BrowserTypeOK, Asks, Refreshes
  <2>3. CASE exchange' = Outdated(t) /\ Forget(t) /\ ask' = [ask EXCEPT ![a] = NoAsk]
    <3>1. NoAsk \in Asks
      BY DEF Asks, NoAsk
    <3>2. ask' \in [Ask -> Asks] /\ Asked'
      BY <2>3, <3>1 DEF Asked, NoAsk
    <3>3. exchange' \in [Exchange -> Refreshes] /\ Started'
      BY <2>3, OutdatedKeeps DEF Started
    <3> QED
      BY <1>11, <2>3, <3>2, <3>3, ForgetTypes DEF Unauthorized, BrowserTypeOK, Asks, Refreshes
  <2> QED
    BY <1>11, <2>2, <2>3 DEF Unauthorized
<1>12. CASE UNCHANGED browserVars
  BY <1>12 DEF browserVars, history, BrowserTypeOK, Started, Asked
<1> QED
  BY <1>a, <1>1, <1>2, <1>3, <1>4, <1>5, <1>6, <1>7, <1>8, <1>9, <1>10, <1>11, <1>12 DEF BrowserNext, Answered

-----------------------------------------------------------------------------
(* A logout stays                                                          *)

\* No answer gives a token to a tab that has logged out since it asked.
LEMMA LogoutStaysStep ==
  ASSUME BrowserTypes, LogoutStays, [BrowserNext]_browserVars
  PROVE  LogoutStays'
<1> USE DEF BrowserTypes, BrowserTypeOK, LogoutStays
<1>1. ASSUME NEW t, Forget(t) PROVE LogoutStays'
  BY <1>1 DEF Forget
<1>2. ASSUME NEW t \in Tab, Login(t) PROVE LogoutStays'
  BY <1>2 DEF Login
<1>3. ASSUME NEW x \in Exchange, Receive(x) PROVE LogoutStays'
  BY <1>3 DEF Receive, Current
<1>4. ASSUME NEW x \in Exchange, Refreshed(x) PROVE LogoutStays'
  BY <1>4 DEF Refreshed, Current
<1>5. CASE UNCHANGED <<token, granted>>
  BY <1>5
<1>6. ASSUME NEW x \in Exchange, Answered(x) PROVE LogoutStays'
  BY <1>1, <1>3, <1>4, <1>5, <1>6 DEF Answered, Rotate, RefreshFails, history
<1>7. ASSUME NEW a \in Ask, (\E t \in Tab, visit \in BOOLEAN : Start(a, t, visit)) \/ Served(a) \/ Unauthorized(a)
      PROVE  LogoutStays'
  BY <1>1, <1>5, <1>7 DEF Start, Served, Unauthorized, history
<1>8. ASSUME NEW t \in Tab, Logout(t) \/ TokenExpires(t) PROVE LogoutStays'
  BY <1>1, <1>5, <1>8 DEF Logout, TokenExpires, history
<1>9. ASSUME NEW s, LogoutServed(s) \/ LogoutLost(s) \/ Revoke(s) PROVE LogoutStays'
  BY <1>5, <1>9 DEF LogoutServed, LogoutLost, Revoke, history
<1>10. CASE UNCHANGED browserVars
  BY <1>5, <1>10 DEF browserVars, history
<1> QED
  BY <1>2, <1>6, <1>7, <1>8, <1>9, <1>10 DEF BrowserNext

\* A session ended in a tab stays ended there until somebody logs in or a
\* refresh begun afterwards is answered, whatever answers are still on their way.
THEOREM LogoutIsKept == BrowserSpec => []LogoutStays
<1>1. BrowserInit => LogoutStays
  BY DEF BrowserInit, LogoutStays
<1> QED
  BY <1>1, BrowserInitTypes, BrowserStepTypes, LogoutStaysStep, PTL DEF BrowserSpec

-----------------------------------------------------------------------------
(* One refresh at a time                                                   *)

(* OneRefresh is not inductive: it holds because refresh$ names the one     *)
(* refresh of the tab until that is settled.                                *)
Named ==
  \A t \in Tab : ~abandoned[t] =>
    \A x \in Exchange : exchange[x].at # "free" /\ exchange[x].tab = t => sharing[t] = x

\* Who refreshes is who refreshed: the step starts no refresh and moves none to another tab.
Quiet(x) == exchange'[x].at # "free" => exchange[x].at # "free" /\ exchange'[x].tab = exchange[x].tab

\* A tab that forgets during a refresh is marked, and another keeps its record.
LEMMA ForgetNamed ==
  ASSUME BrowserTypes, Named, NEW t, Forget(t), \A x \in Exchange : Quiet(x)
  PROVE  Named'
<1> SUFFICES ASSUME NEW u \in Tab, ~abandoned'[u], NEW x \in Exchange, exchange'[x].at # "free", exchange'[x].tab = u
             PROVE  sharing'[u] = x
  BY DEF Named
<1>1. u # t
  BY DEF Forget, BrowserTypes, BrowserTypeOK
<1>2. abandoned'[u] = abandoned[u] /\ sharing'[u] = sharing[u]
  BY <1>1 DEF Forget, BrowserTypes, BrowserTypeOK
<1> QED
  BY <1>2 DEF Named, Quiet

\* A caller starts a refresh only where none is named.
LEMMA RefreshNamed ==
  ASSUME BrowserTypes, Named, NEW t \in Tab, NEW x \in Exchange, RefreshAccessToken(t, x), UNCHANGED abandoned
  PROVE  Named'
<1>1. CASE UNCHANGED <<sharing, exchange>>
  BY <1>1 DEF Named
<1>2. CASE /\ ~Shared(t)
           /\ exchange' = [exchange EXCEPT ![x] =
                [at |-> "asked", tab |-> t, current |-> TRUE, sent |-> cookie, got |-> NoCookie]]
           /\ sharing' = [sharing EXCEPT ![t] = x]
  <2> SUFFICES ASSUME NEW u \in Tab, ~abandoned[u], NEW y \in Exchange, exchange'[y].at # "free", exchange'[y].tab = u
               PROVE  sharing'[u] = y
    BY DEF Named
  <2>1. CASE y = x
    BY <1>2, <2>1 DEF BrowserTypes, BrowserTypeOK
  <2>2. CASE y # x
    <3>1. exchange'[y] = exchange[y]
      BY <1>2, <2>2 DEF BrowserTypes, BrowserTypeOK
    <3>2. sharing[u] = y
      BY <3>1 DEF Named
    <3>3. u # t
      BY <1>2, <3>2 DEF Shared
    <3> QED
      BY <1>2, <3>2, <3>3 DEF BrowserTypes, BrowserTypeOK
  <2> QED
    BY <2>1, <2>2
<1> QED
  BY <1>1, <1>2 DEF RefreshAccessToken

\* Whoever is settled was the one named, so what the finalizer clears is its own.
LEMMA SettleNamed ==
  ASSUME BrowserTypes, Named, NEW x \in Exchange, exchange[x].at # "free",
         sharing' = [sharing EXCEPT ![exchange[x].tab] = NoExchange],
         exchange' = [exchange EXCEPT ![x] = NoRefresh], UNCHANGED abandoned
  PROVE  Named'
<1> SUFFICES ASSUME NEW u \in Tab, ~abandoned[u], NEW y \in Exchange, exchange'[y].at # "free", exchange'[y].tab = u
             PROVE  sharing'[u] = y
  BY DEF Named
<1>1. y # x /\ exchange'[y] = exchange[y]
  BY DEF BrowserTypes, BrowserTypeOK, NoRefresh
<1>2. sharing[u] = y
  BY <1>1 DEF Named
<1>3. exchange[x].tab # u
  BY <1>1, <1>2 DEF Named
<1> QED
  BY <1>2, <1>3 DEF BrowserTypes, BrowserTypeOK

\* Every step keeps the one refresh of a tab named.
LEMMA NamedStep ==
  ASSUME BrowserTypes, Named, [BrowserNext]_browserVars
  PROVE  Named'
<1>1. CASE UNCHANGED <<sharing, exchange, abandoned>>
  BY <1>1 DEF Named
<1>2. ASSUME NEW x \in Exchange, Rotate(x) \/ Receive(x) PROVE Named'
  <2>1. \A y \in Exchange : Quiet(y)
    BY <1>2 DEF Rotate, Receive, Quiet, BrowserTypes, BrowserTypeOK
  <2>2. UNCHANGED <<sharing, abandoned>>
    BY <1>2 DEF Rotate, Receive, history
  <2> QED
    BY <2>1, <2>2 DEF Named, Quiet
<1>3. ASSUME NEW x \in Exchange, Refreshed(x) PROVE Named'
  BY <1>3, SettleNamed DEF Refreshed, SettleRefresh
<1>4. ASSUME NEW x \in Exchange, RefreshFails(x) PROVE Named'
  <2>1. CASE exchange' = [exchange EXCEPT ![x] = NoRefresh] /\ UNCHANGED <<token, expired, granted, abandoned>>
    BY <1>4, <2>1, SettleNamed DEF RefreshFails, SettleRefresh
  <2>2. CASE exchange' = [Outdated(exchange[x].tab) EXCEPT ![x] = NoRefresh] /\ Forget(exchange[x].tab)
    <3>1. \A y \in Exchange : Quiet(y)
      BY <2>2, OutdatedKeeps DEF Quiet, NoRefresh, BrowserTypes, BrowserTypeOK, Refreshes
    <3> QED
      BY <2>2, <3>1, ForgetNamed
  <2> QED
    BY <1>4, <2>1, <2>2 DEF RefreshFails
<1>5. ASSUME NEW t, exchange' = Outdated(t), Forget(t) PROVE Named'
  <2>1. \A y \in Exchange : Quiet(y)
    BY <1>5, OutdatedKeeps DEF Quiet, BrowserTypes, BrowserTypeOK, Refreshes
  <2> QED
    BY <1>5, <2>1, ForgetNamed
<1>6. ASSUME NEW a \in Ask, NEW t \in Tab, NEW visit, Start(a, t, visit) PROVE Named'
  BY <1>1, <1>6, RefreshNamed DEF Start, history
<1>7. ASSUME NEW a \in Ask, Unauthorized(a) PROVE Named'
  <2>1. ask[a].tab \in Tab
    BY <1>7 DEF Unauthorized, BrowserTypes, Asked
  <2> QED
    BY <1>5, <1>7, <2>1, RefreshNamed DEF Unauthorized
<1>8. ASSUME NEW t \in Tab, Login(t) \/ Logout(t) \/ TokenExpires(t) PROVE Named'
  BY <1>1, <1>5, <1>8 DEF Login, Logout, TokenExpires, history
<1>9. ASSUME NEW s, LogoutServed(s) \/ LogoutLost(s) \/ Revoke(s) PROVE Named'
  BY <1>1, <1>9 DEF LogoutServed, LogoutLost, Revoke, history
<1>10. ASSUME NEW a \in Ask, Served(a) PROVE Named'
  BY <1>1, <1>10 DEF Served, history
<1>11. CASE UNCHANGED browserVars
  BY <1>1, <1>11 DEF browserVars, history
<1> QED
  BY <1>2, <1>3, <1>4, <1>6, <1>7, <1>8, <1>9, <1>10, <1>11 DEF BrowserNext, Answered

\* While no logout has abandoned a refresh of it, a tab has one refresh at most
\* under way, however many requests and navigations want one.
THEOREM RefreshIsShared == BrowserSpec => []OneRefresh
<1>1. BrowserInit => Named
  BY DEF BrowserInit, Named, NoRefresh
<1>2. Named => OneRefresh
  <2> SUFFICES ASSUME Named, NEW t \in Tab, ~abandoned[t]
               PROVE  Cardinality({x \in Exchange : exchange[x].at # "free" /\ exchange[x].tab = t}) <= 1
    BY DEF OneRefresh
  <2> DEFINE busy == {x \in Exchange : exchange[x].at # "free" /\ exchange[x].tab = t}
  <2>1. busy = {} \/ busy = {sharing[t]}
    BY DEF Named
  <2>2. Cardinality({}) = 0 /\ Cardinality({sharing[t]}) = 1
    BY FS_EmptySet, FS_Singleton
  <2> HIDE DEF busy
  <2>3. Cardinality(busy) = 0 \/ Cardinality(busy) = 1
    BY <2>1, <2>2
  <2>4. Cardinality(busy) <= 1
    BY <2>3
  <2> QED
    BY <2>4 DEF busy
<1> QED
  BY <1>1, <1>2, BrowserInitTypes, BrowserStepTypes, NamedStep, PTL DEF BrowserSpec

-----------------------------------------------------------------------------
(* The jar keeps up                                                        *)

\* Sessions are numbered in the order of their logins.
Issued == \E n \in 0 .. MaxLogins : \A l \in LoginId : hash[l] > 0 <=> l <= n
\* No token is newer than its row.
Held(c) == c.id # 0 => c.hash <= hash[c.id]
\* The token on its way from x is the newest, and the only one of its hash.
Newest(x) ==
  LET g == exchange[x].got IN
  /\ g.hash = hash[g.id]
  /\ cookie.id = g.id => cookie.hash < g.hash
  /\ \A y \in Exchange : exchange[y].at = "asked" /\ exchange[y].sent.id = g.id => exchange[y].sent.hash < g.hash
  /\ \A y \in Exchange : exchange[y].at = "rotated" /\ exchange[y].got.id = g.id => y = x

(* JarKeepsUp is not inductive: the answer on its way must still be of the  *)
(* present hash when it arrives.  It is, because whoever presents that hash *)
(* has it from the jar, and the jar has it from that answer.                *)
JarSound ==
  /\ Issued /\ Held(cookie)
  /\ \A x \in Exchange : exchange[x].at = "asked" => Held(exchange[x].sent)
  /\ \A x \in Exchange : exchange[x].at = "rotated" => Newest(x)

\* Tokens have a session and a positive hash.
LEMMA TokenTypes ==
  ASSUME BrowserTypes
  PROVE  /\ cookie.id # 0 => cookie.id \in LoginId /\ cookie.hash \in 1 .. MaxHash
         /\ cookie.id \in {0} \cup LoginId /\ cookie.hash \in 0 .. MaxHash
         /\ \A x \in Exchange :
              /\ exchange[x].sent.id # 0 => exchange[x].sent.id \in LoginId /\ exchange[x].sent.hash \in 1 .. MaxHash
              /\ exchange[x].sent.id \in {0} \cup LoginId /\ exchange[x].sent.hash \in 0 .. MaxHash
              /\ exchange[x].at = "rotated" => exchange[x].got.id \in LoginId /\ exchange[x].got.hash \in 1 .. MaxHash
         /\ \A l \in LoginId : hash[l] \in 0 .. MaxHash
         /\ 0 \notin LoginId
<1>1. ASSUME NEW c \in Cookie
      PROVE  /\ c.id # 0 => c.id \in LoginId /\ c.hash \in 1 .. MaxHash
             /\ c.id \in {0} \cup LoginId /\ c.hash \in 0 .. MaxHash
  BY <1>1, CookieType
<1>2. 0 \notin LoginId
  BY DEF LoginId
<1>3. \A x \in Exchange : exchange[x].sent \in Cookie
  BY DEF BrowserTypes, BrowserTypeOK
<1>4. \A x \in Exchange : exchange[x].at = "rotated" => exchange[x].got.id \in LoginId /\ exchange[x].got.hash \in 1 .. MaxHash
  BY DEF BrowserTypes, Started
<1> QED
  BY <1>1, <1>2, <1>3, <1>4 DEF BrowserTypes, BrowserTypeOK

\* A login numbers a new session.
LEMMA LoginIsNew ==
  ASSUME BrowserTypes, Issued, NEW t \in Tab, Login(t)
  PROVE  \E s \in LoginId : /\ hash[s] = 0 /\ hash' = [hash EXCEPT ![s] = 1]
                           /\ cookie' = [id |-> s, hash |-> 1] /\ live' = live \cup {s} /\ Issued'
<1>1. PICK n \in 0 .. MaxLogins : \A l \in LoginId : hash[l] > 0 <=> l <= n
  BY DEF Issued
<1>2. {l \in LoginId : hash[l] > 0} = 1 .. n
  BY <1>1 DEF LoginId
<1>3. Cardinality(1 .. n) = n
  <2>1. 1 \in Int /\ n \in Int
    OBVIOUS
  <2> QED
    BY <2>1, FS_Interval
<1>4. n + 1 \in LoginId /\ hash' = [hash EXCEPT ![n + 1] = 1] /\ cookie' = [id |-> n + 1, hash |-> 1]
      /\ live' = live \cup {n + 1}
  BY <1>2, <1>3 DEF Login
<1>5. hash[n + 1] = 0
  BY <1>1, <1>4 DEF LoginId, BrowserTypes, BrowserTypeOK
<1>6. \A l \in LoginId : hash'[l] > 0 <=> l <= n + 1
  BY <1>1, <1>4 DEF LoginId, BrowserTypes, BrowserTypeOK
<1>7. n + 1 \in 0 .. MaxLogins
  BY <1>4 DEF LoginId
<1> QED
  BY <1>4, <1>5, <1>6, <1>7 DEF Issued

\* A step that rotates nothing: refreshes under way stay what they are, or begin with the jar's token.
Waits(x) ==
  /\ exchange'[x].at = "rotated" => exchange[x].at = "rotated" /\ exchange'[x].got = exchange[x].got
  /\ exchange'[x].at = "asked" =>
       \/ exchange[x].at = "asked" /\ exchange'[x].sent = exchange[x].sent
       \/ exchange'[x].sent = cookie
Arrives(x) ==
  exchange[x].at = "rotated" =>
    \/ exchange'[x].at = "rotated" /\ exchange'[x].got = exchange[x].got
    \/ exchange[x].got.id \in lost'

\* Such a step keeps the jar.
LEMMA JarWaits ==
  ASSUME BrowserTypes, JarSound, JarKeepsUp, UNCHANGED hash, cookie' = cookie \/ cookie' = NoCookie,
         \A x \in Exchange : Waits(x) /\ Arrives(x), live' \subseteq live, lost \subseteq lost'
  PROVE  JarSound' /\ JarKeepsUp'
<1>1. Issued' /\ Held(cookie)'
  BY DEF JarSound, Issued, Held, NoCookie
<1>2. \A x \in Exchange : exchange'[x].at = "asked" => Held(exchange[x].sent)'
  BY DEF JarSound, Held, Waits
<1>3. ASSUME NEW x \in Exchange, exchange'[x].at = "rotated" PROVE Newest(x)'
  <2>1. exchange[x].at = "rotated" /\ exchange'[x].got = exchange[x].got /\ Newest(x) /\ exchange[x].got.id # 0
    BY <1>3, TokenTypes DEF JarSound, Waits
  <2>2. cookie'.id = exchange[x].got.id => cookie'.hash < exchange[x].got.hash
    BY <2>1 DEF Newest, NoCookie
  <2> QED
    BY <2>1, <2>2 DEF Newest, Waits
<1>4. JarKeepsUp'
  <2> SUFFICES ASSUME cookie'.id \in live' \ lost', cookie'.hash # hash'[cookie'.id]
               PROVE  \E x \in Exchange : /\ exchange'[x].at = "rotated"
                                         /\ exchange'[x].got = [id |-> cookie'.id, hash |-> hash'[cookie'.id]]
    BY DEF JarKeepsUp
  <2>1. cookie' = cookie
    BY TokenTypes DEF NoCookie, BrowserTypes, BrowserTypeOK
  <2>2. PICK x \in Exchange : /\ exchange[x].at = "rotated"
                              /\ exchange[x].got = [id |-> cookie.id, hash |-> hash[cookie.id]]
    BY <2>1 DEF JarKeepsUp
  <2>3. exchange[x].got.id = cookie.id
    BY <2>2
  <2> QED
    BY <2>1, <2>2, <2>3 DEF Arrives
<1> QED
  BY <1>1, <1>2, <1>3, <1>4 DEF JarSound

\* A login begins a session nobody holds a token of.
LEMMA JarLogin ==
  ASSUME BrowserTypes, JarSound, JarKeepsUp, NEW t \in Tab, Login(t)
  PROVE  JarSound' /\ JarKeepsUp'
<1>1. PICK s \in LoginId : /\ hash[s] = 0 /\ hash' = [hash EXCEPT ![s] = 1]
                           /\ cookie' = [id |-> s, hash |-> 1] /\ Issued'
  BY LoginIsNew DEF JarSound
<1>2. hash'[s] = 1 /\ cookie'.id = s /\ cookie'.hash = 1 /\ \A l \in LoginId \ {s} : hash'[l] = hash[l]
  BY <1>1 DEF BrowserTypes, BrowserTypeOK
<1>3. exchange' = exchange
  BY DEF Login
<1>4. Held(cookie)' /\ JarKeepsUp'
  BY <1>2 DEF Held, JarKeepsUp
<1>5. ASSUME NEW x \in Exchange, exchange[x].at = "asked"
      PROVE  exchange[x].sent.id # s /\ Held(exchange[x].sent)'
  BY <1>1, <1>2, <1>3, <1>5, TokenTypes DEF JarSound, Held
<1>6. ASSUME NEW x \in Exchange, exchange[x].at = "rotated"
      PROVE  Newest(x)'
  <2>1. exchange[x].got.id # s
    BY <1>1, <1>6, TokenTypes DEF JarSound, Newest
  <2>2. exchange[x].got.id \in LoginId
    BY <1>6, TokenTypes
  <2> QED
    BY <1>2, <1>3, <1>6, <2>1, <2>2 DEF JarSound, Newest
<1> QED
  BY <1>1, <1>3, <1>4, <1>5, <1>6 DEF JarSound

\* A rotation is of the present hash, whose token is in the jar or nowhere else.
LEMMA JarRotate ==
  ASSUME BrowserTypes, JarSound, JarKeepsUp, NEW x \in Exchange, Rotate(x)
  PROVE  JarSound' /\ JarKeepsUp'
<1>1. CASE exchange' = [exchange EXCEPT ![x].at = "refused"] /\ UNCHANGED hash
  <2>1. \A y \in Exchange : Waits(y) /\ Arrives(y)
    BY <1>1 DEF Rotate, Waits, Arrives, BrowserTypes, BrowserTypeOK
  <2> QED
    BY <1>1, <2>1, JarWaits DEF Rotate, history
<1>2. CASE Matches(exchange[x].sent) /\ hash[exchange[x].sent.id] < MaxHash
  <2> DEFINE s == exchange[x].sent.id
             g == [id |-> s, hash |-> hash[s] + 1]
  <2>1. s \in LoginId /\ s # 0 /\ hash[s] \in 1 .. MaxHash /\ hash[s] = exchange[x].sent.hash
    BY <1>2, TokenTypes DEF Matches, BrowserTypes, BrowserTypeOK
  <2>2. /\ exchange' = [exchange EXCEPT ![x].at = "rotated", ![x].got = g]
        /\ hash' = [hash EXCEPT ![s] = @ + 1] /\ exchange[x].at = "asked"
        /\ UNCHANGED <<live, cookie, lost>>
    BY <1>2 DEF Rotate, history
  <2>3. hash'[s] = hash[s] + 1 /\ \A l \in LoginId \ {s} : hash'[l] = hash[l]
    BY <2>1, <2>2 DEF BrowserTypes, BrowserTypeOK
  <2>4. /\ exchange'[x].at = "rotated" /\ exchange'[x].got = g
        /\ \A y \in Exchange \ {x} : exchange'[y] = exchange[y]
    BY <2>2 DEF BrowserTypes, BrowserTypeOK
  <2>5. g.id = s /\ g.hash = hash[s] + 1
    OBVIOUS
  <2> HIDE DEF g
  <2>7. Held(cookie)'
    BY <2>1, <2>2, <2>3, TokenTypes DEF JarSound, Held
  <2>8. Issued'
    <3>1. \A l \in LoginId : hash'[l] > 0 <=> hash[l] > 0
      BY <2>1, <2>3, TokenTypes
    <3> QED
      BY <3>1 DEF JarSound, Issued
  <2>9. ASSUME NEW y \in Exchange, exchange'[y].at = "asked" PROVE Held(exchange[y].sent)'
    <3>1. y # x /\ exchange'[y] = exchange[y] /\ Held(exchange[y].sent)
      BY <2>4, <2>9 DEF JarSound
    <3> QED
      BY <2>1, <2>3, <3>1, TokenTypes DEF Held
  <2>10. ASSUME NEW y \in Exchange \ {x}, exchange[y].at = "rotated" PROVE exchange[y].got.id # s
    <3>1. Newest(y)
      BY <2>10 DEF JarSound
    <3>2. exchange[y].got.id = s => exchange[x].sent.hash < hash[s]
      BY <2>2, <3>1 DEF Newest
    <3> QED
      BY <2>1, <3>2
  <2>11. ASSUME NEW y \in Exchange \ {x}, exchange'[y].at = "rotated" PROVE Newest(y)'
    <3>1. exchange'[y] = exchange[y] /\ Newest(y) /\ exchange[y].got.id # s /\ exchange[y].got.id \in LoginId
      BY <2>4, <2>10, <2>11, TokenTypes DEF JarSound
    <3>2. exchange'[y].got.hash = hash'[exchange'[y].got.id]
      BY <2>3, <3>1 DEF Newest
    <3>3. cookie'.id = exchange'[y].got.id => cookie'.hash < exchange'[y].got.hash
      BY <2>2, <3>1 DEF Newest
    <3>4. ASSUME NEW z \in Exchange, exchange'[z].at = "asked", exchange'[z].sent.id = exchange'[y].got.id
          PROVE  exchange'[z].sent.hash < exchange'[y].got.hash
      BY <2>4, <3>1, <3>4 DEF Newest
    <3>5. ASSUME NEW z \in Exchange, exchange'[z].at = "rotated", exchange'[z].got.id = exchange'[y].got.id
          PROVE  z = y
      BY <2>4, <2>5, <3>1, <3>5 DEF Newest
    <3> QED
      BY <3>2, <3>3, <3>4, <3>5 DEF Newest
  <2>12. Newest(x)'
    <3>1. cookie'.id = s => cookie'.hash < g.hash
      BY <2>1, <2>2, <2>5, TokenTypes DEF JarSound, Held
    <3>2. ASSUME NEW z \in Exchange, exchange'[z].at = "asked", exchange'[z].sent.id = s
          PROVE  exchange'[z].sent.hash < g.hash
      <4>1. z # x /\ exchange'[z] = exchange[z] /\ Held(exchange[z].sent)
        BY <2>4, <3>2 DEF JarSound
      <4> QED
        BY <2>1, <2>5, <3>2, <4>1, TokenTypes DEF Held
    <3>3. ASSUME NEW z \in Exchange, exchange'[z].at = "rotated", exchange'[z].got.id = s
          PROVE  z = x
      BY <2>4, <2>10, <3>3
    <3> QED
      BY <2>3, <2>4, <2>5, <3>1, <3>2, <3>3 DEF Newest
  <2>13. JarKeepsUp'
    <3>1. CASE cookie.id = s
      <4>1. g = [id |-> cookie'.id, hash |-> hash'[cookie'.id]]
        BY <2>2, <2>3, <3>1 DEF g
      <4> QED
        BY <2>4, <4>1 DEF JarKeepsUp
    <3>2. CASE cookie.id # s
      <4> SUFFICES ASSUME cookie.id \in live \ lost, cookie.hash # hash'[cookie.id]
                   PROVE  \E y \in Exchange : /\ exchange'[y].at = "rotated"
                                             /\ exchange'[y].got = [id |-> cookie.id, hash |-> hash'[cookie.id]]
        BY <2>2 DEF JarKeepsUp
      <4>1. hash'[cookie.id] = hash[cookie.id]
        BY <2>3, <3>2 DEF BrowserTypes, BrowserTypeOK
      <4>2. PICK y \in Exchange : /\ exchange[y].at = "rotated"
                                  /\ exchange[y].got = [id |-> cookie.id, hash |-> hash[cookie.id]]
        BY <4>1 DEF JarKeepsUp
      <4>3. y # x
        BY <2>2, <4>2
      <4> QED
        BY <2>4, <4>1, <4>2, <4>3
    <3> QED
      BY <3>1, <3>2
  <2> QED
    BY <2>7, <2>8, <2>9, <2>4, <2>11, <2>12, <2>13 DEF JarSound
<1> QED
  BY <1>1, <1>2 DEF Rotate

\* The answer that arrives brings the present token.
LEMMA JarReceive ==
  ASSUME BrowserTypes, JarSound, JarKeepsUp, NEW x \in Exchange, Receive(x)
  PROVE  JarSound' /\ JarKeepsUp'
<1> DEFINE g == exchange[x].got
<1>1. /\ exchange[x].at = "rotated" /\ Newest(x) /\ cookie' = g
      /\ exchange' = [exchange EXCEPT ![x].at = "me"] /\ UNCHANGED <<hash, live, lost>>
  BY DEF Receive, JarSound
<1>2. /\ exchange'[x].at = "me"
      /\ \A y \in Exchange \ {x} : exchange'[y] = exchange[y]
  BY <1>1 DEF BrowserTypes, BrowserTypeOK
<1>3. g.hash = hash[g.id] /\ g.id \in LoginId
  BY <1>1, TokenTypes DEF Newest
<1>4. Issued' /\ Held(cookie)' /\ JarKeepsUp'
  BY <1>1, <1>3, TokenTypes DEF JarSound, Issued, Held, JarKeepsUp
<1>5. ASSUME NEW y \in Exchange, exchange'[y].at = "asked" PROVE Held(exchange[y].sent)'
  BY <1>1, <1>2, <1>5 DEF JarSound, Held
<1>6. ASSUME NEW y \in Exchange, exchange'[y].at = "rotated" PROVE Newest(y)'
  <2>1. y # x /\ exchange'[y] = exchange[y] /\ Newest(y)
    BY <1>2, <1>6 DEF JarSound
  <2>2. exchange[y].got.id # g.id
    BY <1>1, <1>6, <2>1 DEF Newest
  <2> QED
    BY <1>1, <1>2, <2>1, <2>2 DEF Newest
<1> QED
  BY <1>2, <1>4, <1>5, <1>6 DEF JarSound

\* Every step keeps the jar.
LEMMA JarStep ==
  ASSUME BrowserTypes, JarSound, JarKeepsUp, [BrowserNext]_browserVars
  PROVE  JarSound' /\ JarKeepsUp'
<1> DEFINE OK == JarSound /\ JarKeepsUp
<1>1. ASSUME UNCHANGED <<hash, lost>>, exchange' = exchange, cookie' = cookie \/ cookie' = NoCookie, live' \subseteq live
      PROVE  OK'
  BY <1>1, JarWaits DEF Waits, Arrives
<1>2. ASSUME UNCHANGED <<hash, cookie, live, lost>>, NEW t, exchange' = Outdated(t)
      PROVE  OK'
  <2>1. \A x \in Exchange : Waits(x) /\ Arrives(x)
    BY <1>2, OutdatedKeeps DEF Waits, Arrives, BrowserTypes, BrowserTypeOK, Refreshes
  <2> QED
    BY <1>2, <2>1, JarWaits
<1>3. ASSUME UNCHANGED <<hash, cookie, live, lost>>, NEW t \in Tab, NEW x \in Exchange, RefreshAccessToken(t, x)
      PROVE  OK'
  <2>1. \A y \in Exchange : Waits(y)
    BY <1>3, RefreshTypes DEF Waits
  <2>2. \A y \in Exchange : Arrives(y)
    BY <1>3 DEF Arrives, RefreshAccessToken, BrowserTypes, BrowserTypeOK
  <2> QED
    BY <1>3, <2>1, <2>2, JarWaits
<1>4. ASSUME NEW x \in Exchange, Refreshed(x) PROVE OK'
  <2>1. exchange[x].at = "me" /\ exchange' = [exchange EXCEPT ![x] = NoRefresh] /\ UNCHANGED <<hash, cookie, live, lost>>
    BY <1>4 DEF Refreshed
  <2>2. \A y \in Exchange : Waits(y) /\ Arrives(y)
    BY <2>1 DEF Waits, Arrives, NoRefresh, BrowserTypes, BrowserTypeOK
  <2> QED
    BY <2>1, <2>2, JarWaits
<1>5. ASSUME NEW x \in Exchange, RefreshFails(x) PROVE OK'
  <2>1. /\ UNCHANGED <<hash, cookie, live>> /\ lost \subseteq lost'
        /\ exchange[x].at = "rotated" => exchange[x].got.id \in lost'
    BY <1>5 DEF RefreshFails
  <2>2. /\ exchange'[x] = NoRefresh
        /\ \A y \in Exchange \ {x} : /\ exchange'[y].at = exchange[y].at /\ exchange'[y].sent = exchange[y].sent
                                    /\ exchange'[y].got = exchange[y].got
    BY <1>5, OutdatedKeeps DEF RefreshFails, BrowserTypes, BrowserTypeOK, Refreshes
  <2>3. \A y \in Exchange : Waits(y) /\ Arrives(y)
    BY <2>1, <2>2 DEF Waits, Arrives, NoRefresh
  <2> QED
    BY <2>1, <2>3, JarWaits
<1>6. ASSUME NEW a \in Ask, NEW t \in Tab, NEW visit, Start(a, t, visit) PROVE OK'
  BY <1>1, <1>3, <1>6 DEF Start, history
<1>7. ASSUME NEW a \in Ask, Unauthorized(a) PROVE OK'
  <2>1. ask[a].tab \in Tab
    BY <1>7 DEF Unauthorized, BrowserTypes, Asked
  <2> QED
    BY <1>2, <1>3, <1>7, <2>1 DEF Unauthorized
<1>8. ASSUME NEW t \in Tab, Logout(t) \/ TokenExpires(t) PROVE OK'
  BY <1>1, <1>2, <1>8 DEF Logout, TokenExpires, history
<1>9. ASSUME NEW s, LogoutServed(s) \/ LogoutLost(s) \/ Revoke(s) PROVE OK'
  <2>1. live' \subseteq live
    BY <1>9 DEF LogoutServed, LogoutLost, Revoke
  <2> QED
    BY <1>1, <1>9, <2>1 DEF LogoutServed, LogoutLost, Revoke, history
<1>10. ASSUME NEW a \in Ask, Served(a) PROVE OK'
  BY <1>1, <1>10 DEF Served, history
<1>11. CASE UNCHANGED browserVars
  BY <1>1, <1>11 DEF browserVars, history
<1> QED
  BY <1>4, <1>5, <1>6, <1>7, <1>8, <1>9, <1>10, <1>11, JarLogin, JarRotate, JarReceive DEF BrowserNext, Answered

\* While every rotation is answered, the browser can go on: its cookie is the
\* present token of its session or is about to be, whatever tabs race.
THEOREM JarIsKept == BrowserSpec => []JarKeepsUp
<1>1. BrowserInit => JarSound /\ JarKeepsUp
  <2> SUFFICES ASSUME BrowserInit PROVE JarSound /\ JarKeepsUp
    OBVIOUS
  <2>1. Issued
    <3>1. 0 \in 0 .. MaxLogins /\ \A l \in LoginId : hash[l] > 0 <=> l <= 0
      BY DEF BrowserInit, LoginId
    <3> QED
      BY <3>1 DEF Issued
  <2> QED
    BY <2>1 DEF BrowserInit, JarSound, JarKeepsUp, Held, NoCookie, NoRefresh
<1> QED
  BY <1>1, BrowserInitTypes, BrowserStepTypes, JarStep, PTL DEF BrowserSpec

(***************************************************************************)
(* DashboardCache.                                                         *)
(***************************************************************************)
\* The read has fixed the version its key is built from.
Keyed(r) == step[r] \in {"get", "load", "set"}

\* A value that the read of r may answer with, and one that version v may hold.
AnswersTo(value, r) == value >= askedAsOf[r]
Fresh(value, v) == v = cacheVersion => value >= clearedAsOf

(* ClearIsFinal is not inductive.  Versions only grow, so whoever stores    *)
(* under a version loaded after the clear that made it, and whoever finds   *)
(* a value there began its read before the next clear.                      *)
Bounded ==
  /\ clearedAsOf <= rowsAsOf
  /\ \A r \in Reader : askedAsOf[r] <= clearedAsOf
  /\ \A r \in Reader : Keyed(r) => keyVersion[r] <= cacheVersion
  /\ \A v \in ClearCount : stored[v] # NoValue => v <= cacheVersion
StoredSound ==
  \A v \in ClearCount : stored[v] # NoValue =>
    /\ Fresh(stored[v], v)
    /\ \A q \in Reader : Keyed(q) /\ keyVersion[q] = v => AnswersTo(stored[v], q)
LoadedSound ==
  \A r \in Reader : step[r] = "set" =>
    /\ Fresh(loaded[r], keyVersion[r])
    /\ \A q \in Reader : Keyed(q) /\ keyVersion[q] = keyVersion[r] => AnswersTo(loaded[r], q)

DashboardInv == DashboardTypeOK /\ Bounded /\ StoredSound /\ LoadedSound /\ ClearIsFinal

USE DashboardAssumption DEF ClearCount, Value, NoValue

\* The empty cache.
LEMMA DashboardInitInv == DashboardInit => DashboardInv
<1> SUFFICES ASSUME DashboardInit PROVE DashboardInv
  OBVIOUS
<1>1. DashboardTypeOK
  BY DEF DashboardInit, DashboardTypeOK
<1>2. Bounded /\ StoredSound /\ LoadedSound /\ ClearIsFinal
  BY DEF DashboardInit, Bounded, StoredSound, LoadedSound, ClearIsFinal, Keyed
<1> QED
  BY <1>1, <1>2 DEF DashboardInv

\* Every step keeps the types.
LEMMA DashboardTypeStep ==
  ASSUME DashboardInv, [DashboardNext]_dashboardVars
  PROVE  DashboardTypeOK'
<1> USE DEF DashboardInv, DashboardTypeOK, Show, MoveOn, readVars
<1>1. CASE ChangeRows
  BY <1>1 DEF ChangeRows
<1>2. CASE ClearCache
  BY <1>2 DEF ClearCache
<1>3. ASSUME NEW v \in ClearCount, ValueExpires(v) PROVE DashboardTypeOK'
  BY <1>3 DEF ValueExpires
<1>4. ASSUME NEW r \in Reader, ReadStep(r) PROVE DashboardTypeOK'
  <2>1. CASE BeginRead(r)
    BY <2>1 DEF BeginRead
  <2>2. CASE RedisFails(r)
    BY <2>2 DEF RedisFails
  <2>3. CASE ReadVersion(r)
    BY <2>3 DEF ReadVersion
  <2>4. CASE FindValue(r)
    <3>1. stored[keyVersion[r]] \in Value
      BY <2>4 DEF FindValue
    <3> QED
      BY <2>4, <3>1 DEF FindValue
  <2>5. CASE MissValue(r)
    BY <2>5 DEF MissValue
  <2>6. CASE LoadOnly(r)
    BY <2>6 DEF LoadOnly
  <2>7. CASE LoadValue(r)
    BY <2>7 DEF LoadValue
  <2>8. CASE StoreValue(r)
    <3>1. stored' \in [ClearCount -> Value \cup {NoValue}]
      BY <2>8 DEF StoreValue, StoreVersion
    <3>2. shown' \in Value \X Value
      BY <2>8 DEF StoreValue
    <3> QED
      BY <2>8, <3>1, <3>2 DEF StoreValue
  <2> QED
    BY <1>4, <2>1, <2>2, <2>3, <2>4, <2>5, <2>6, <2>7, <2>8 DEF ReadStep
<1>5. CASE UNCHANGED dashboardVars
  BY <1>5 DEF dashboardVars
<1> QED
  BY <1>1, <1>2, <1>3, <1>4, <1>5 DEF DashboardNext

\* No step of a reader, of a clear or of the database makes a stored value stale.
LEMMA DashboardStepInv == DashboardInv /\ [DashboardNext]_dashboardVars => DashboardInv'
<1> SUFFICES ASSUME DashboardInv, [DashboardNext]_dashboardVars
             PROVE  DashboardInv'
  OBVIOUS
<1>0. DashboardTypeOK'
  BY DashboardTypeStep
<1> DEFINE Rest == Bounded /\ StoredSound /\ LoadedSound /\ ClearIsFinal
<1> USE DEF DashboardInv, DashboardTypeOK, Keyed, AnswersTo, Fresh, Show, MoveOn, readVars
<1>1. CASE ChangeRows
  BY <1>1 DEF ChangeRows, Bounded, StoredSound, LoadedSound, ClearIsFinal
<1>2. CASE ClearCache
  <2>1. Bounded' /\ ClearIsFinal'
    BY <1>2 DEF ClearCache, Bounded, ClearIsFinal
  <2>2. StoredSound'
    BY <1>2 DEF ClearCache, Bounded, StoredSound
  <2>3. LoadedSound'
    BY <1>2 DEF ClearCache, Bounded, LoadedSound
  <2> QED
    BY <1>0, <2>1, <2>2, <2>3
<1>3. ASSUME NEW v \in ClearCount, ValueExpires(v) PROVE Rest'
  BY <1>3 DEF ValueExpires, Bounded, StoredSound, LoadedSound, ClearIsFinal
<1>4. ASSUME NEW r \in Reader, ReadStep(r) PROVE Rest'
  <2>1. CASE BeginRead(r)
    BY <2>1 DEF BeginRead, Bounded, StoredSound, LoadedSound, ClearIsFinal
  <2>2. CASE RedisFails(r)
    BY <2>2 DEF RedisFails, Bounded, StoredSound, LoadedSound, ClearIsFinal
  <2>3. CASE ReadVersion(r)
    <3>1. Bounded' /\ ClearIsFinal'
      BY <2>3 DEF ReadVersion, Bounded, ClearIsFinal
    <3>2. StoredSound'
      BY <2>3 DEF ReadVersion, Bounded, StoredSound
    <3>3. LoadedSound'
      BY <2>3 DEF ReadVersion, Bounded, LoadedSound
    <3> QED
      BY <3>1, <3>2, <3>3
  <2>4. CASE FindValue(r)
    <3>1. stored[keyVersion[r]] >= askedAsOf[r]
      BY <2>4 DEF FindValue, StoredSound
    <3> QED
      BY <2>4, <3>1 DEF FindValue, Bounded, StoredSound, LoadedSound, ClearIsFinal
  <2>5. CASE MissValue(r)
    BY <2>5 DEF MissValue, Bounded, StoredSound, LoadedSound, ClearIsFinal
  <2>6. CASE LoadOnly(r)
    BY <2>6 DEF LoadOnly, Bounded, StoredSound, LoadedSound, ClearIsFinal
  <2>7. CASE LoadValue(r)
    BY <2>7 DEF LoadValue, Bounded, StoredSound, LoadedSound, ClearIsFinal
  <2>8. CASE StoreValue(r)
    <3>1. loaded[r] >= askedAsOf[r]
      BY <2>8 DEF StoreValue, LoadedSound
    <3>2. Bounded' /\ ClearIsFinal' /\ LoadedSound'
      BY <2>8, <3>1 DEF StoreValue, StoreVersion, Bounded, LoadedSound, ClearIsFinal
    <3>3. CASE stored' = stored
      BY <2>8, <3>2, <3>3 DEF StoreValue, StoredSound
    <3>4. CASE stored' = [stored EXCEPT ![keyVersion[r]] = loaded[r]]
      <4>1. StoredSound'
        BY <2>8, <3>4 DEF StoreValue, StoredSound, LoadedSound, Bounded
      <4> QED
        BY <3>2, <4>1
    <3> QED
      BY <2>8, <3>3, <3>4 DEF StoreValue, StoreVersion
  <2> QED
    BY <1>4, <2>1, <2>2, <2>3, <2>4, <2>5, <2>6, <2>7, <2>8 DEF ReadStep
<1>5. CASE UNCHANGED dashboardVars
  BY <1>5 DEF dashboardVars, Bounded, StoredSound, LoadedSound, ClearIsFinal
<1> QED
  BY <1>0, <1>1, <1>2, <1>3, <1>4, <1>5 DEF DashboardNext

\* A dashboard asked for after a clear shows nothing older than the clear,
\* whatever reads begun before it store and however Redis fails.
THEOREM ClearsAreFinal == DashboardSpec => []ClearIsFinal
<1>1. DashboardInv => ClearIsFinal
  BY DEF DashboardInv
<1> QED
  BY <1>1, DashboardInitInv, DashboardStepInv, PTL DEF DashboardSpec
=============================================================================
