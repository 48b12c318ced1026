------------------------ MODULE SessionGrantsProofs -------------------------
(***************************************************************************)
(* Proofs about the steps of ProxySessions and the grants behind sessions  *)
(* and requests, which rest on SessionInv, the invariant proved in         *)
(* ProxySessionsProofs; and about BrowserLogin, the other sessions of AV.  *)
(***************************************************************************)
EXTENDS ProxySessionsProofs, BrowserLogin

-----------------------------------------------------------------------------
(***************************************************************************)
(* BrowserLogin, for any browsers, accounts, logins and callbacks.         *)
(***************************************************************************)

Started == [browser : Browsers, account : Accounts \cup {Absent}]
Handling(c) == callback[c] # Waiting

BrowserTypes ==
    /\ login \in [Logins -> Started \cup {Absent}]
    /\ stateCookie \in [Browsers -> Logins \cup {Absent}]
    /\ sessionCookie \in [Browsers -> Logins \cup {Absent}]
    /\ callback \in [Callbacks -> {Waiting} \cup
           [pc : {"exchange", "membership"}, browser : Browsers, login : Logins, code : Logins]]
    /\ pendingLogin = [l \in Logins |-> pendingLogin[l]]
    /\ browserSession = [l \in Logins |-> browserSession[l]]
    /\ loggedIn \subseteq Logins

\* A state cookie, and a pending login, are of a login that was started.
CookiesFit ==
    /\ \A b \in Browsers : stateCookie[b] # Absent =>
           login[stateCookie[b]] # Absent /\ login[stateCookie[b]].browser = b
    /\ \A l \in Logins : pendingLogin[l] # Absent => login[l] # Absent

\* A handler holds a login that its own browser started, and that no longer pends.
CallbacksFit ==
    /\ \A c \in Callbacks : Handling(c) =>
           LET l == callback[c].login
               k == callback[c].code
           IN  /\ login[l] # Absent /\ login[l].browser = callback[c].browser
               /\ login[k] # Absent /\ login[k].account # Absent
               /\ pendingLogin[l] = Absent /\ l \notin loggedIn
               /\ callback[c].pc = "membership" => k = l
    /\ \A c, d \in Callbacks : c # d /\ Handling(c) /\ Handling(d) =>
           callback[c].login # callback[d].login

\* A session, and its cookie, come from a login that was completed.
SessionsFit ==
    /\ \A l \in loggedIn : login[l] # Absent /\ pendingLogin[l] = Absent
    /\ \A l \in Logins : browserSession[l] # Absent =>
           /\ l \in loggedIn
           /\ browserSession[l].subject = login[l].account /\ login[l].account # Absent
           /\ AllowedUser(browserSession[l].subject)
    /\ \A b \in Browsers : sessionCookie[b] # Absent =>
           sessionCookie[b] \in loggedIn /\ login[sessionCookie[b]].browser = b

BrowserInv == BrowserTypes /\ CookiesFit /\ CallbacksFit /\ SessionsFit
-----------------------------------------------------------------------------
\* What expires is dropped, and nothing else changes.
LEMMA UnexpiredDrops ==
    ASSUME NEW items, NEW l \in Logins
    PROVE  Unexpired(items)[l] \in {items[l], Absent}
BY DEF Unexpired

\* Nobody has started a login: the invariant holds.
LEMMA BrowserInitially == BrowserInit => BrowserInv
BY DEF BrowserInit, BrowserInv, BrowserTypes, CookiesFit, CallbacksFit, SessionsFit, Handling

\* Every step of browsers, GitHub and handlers keeps the types.
LEMMA BrowserTypesKept == BrowserInv /\ [BrowserNext]_browserVars => BrowserTypes'
<1> SUFFICES ASSUME BrowserInv, [BrowserNext]_browserVars PROVE BrowserTypes'
  OBVIOUS
<1> USE DEF BrowserTypes
<1>0. BrowserTypes
  BY DEF BrowserInv
<1>1. ASSUME NEW b \in Browsers, NEW l \in Logins, GithubStart(b, l) PROVE BrowserTypes'
  BY ZenonT(40), <1>0, <1>1 DEF GithubStart, Unexpired, Started
<1>2. ASSUME NEW b \in Browsers, GithubLogout(b) \/ UiIdentity(b) PROVE BrowserTypes'
  BY <1>0, <1>2 DEF GithubLogout, UiIdentity, Unexpired
<1>3. ASSUME NEW l \in Logins, NEW account \in Accounts, Approve(l, account)
      PROVE BrowserTypes'
  BY <1>0, <1>3 DEF Approve, Started
<1>4. ASSUME NEW c \in Callbacks, NEW b \in Browsers, NEW l \in Logins, NEW k \in Logins,
             GithubCallback(c, b, l, k)
      PROVE BrowserTypes'
  BY <1>0, <1>4 DEF GithubCallback, StateCookieCleared, Consumed
<1>5. ASSUME NEW c \in Callbacks, Exchange(c) PROVE BrowserTypes'
  <2>1. callback[c] \in [pc : {"exchange", "membership"}, browser : Browsers,
                         login : Logins, code : Logins]
    BY <1>0, <1>5 DEF Exchange, Waiting
  <2> QED
    BY <1>0, <1>5, <2>1 DEF Exchange, StateCookieCleared
<1>6. ASSUME NEW c \in Callbacks, FinishLogin(c) \/ CallbackFails(c) PROVE BrowserTypes'
  <2>1. callback[c] \in [pc : {"exchange", "membership"}, browser : Browsers,
                         login : Logins, code : Logins]
    BY <1>0, <1>6 DEF FinishLogin, CallbackFails, Waiting
  <2>2. CASE FinishLogin(c)
    BY <1>0, <2>1, <2>2 DEF FinishLogin, StateCookieCleared, Unexpired
  <2>3. CASE CallbackFails(c)
    BY <1>0, <2>1, <2>3 DEF CallbackFails, StateCookieCleared
  <2> QED
    BY <1>6, <2>2, <2>3
<1>7. CASE BrowserTick \/ UNCHANGED browserVars
  BY <1>0, <1>7 DEF BrowserTick, browserVars
<1> QED
  BY <1>1, <1>2, <1>3, <1>4, <1>5, <1>6, <1>7 DEF BrowserNext

\* A state cookie stays with the browser whose login it is of (github_start).
LEMMA CookiesKept == BrowserInv /\ [BrowserNext]_browserVars => CookiesFit'
<1> SUFFICES ASSUME BrowserInv, [BrowserNext]_browserVars PROVE CookiesFit'
  OBVIOUS
<1> USE BrowserLoginAssumption DEF CookiesFit, BrowserTypes, Started
<1>0. BrowserTypes /\ CookiesFit
  BY DEF BrowserInv
<1>1. ASSUME NEW b \in Browsers, NEW l \in Logins, GithubStart(b, l) PROVE CookiesFit'
  <2>1. \A k \in Logins : login'[k] = IF k = l THEN [browser |-> b, account |-> Absent] ELSE login[k]
    BY <1>0, <1>1 DEF GithubStart
  <2>2. \A k \in Logins : k # l => pendingLogin'[k] \in {pendingLogin[k], Absent}
    BY <1>0, <1>1, UnexpiredDrops DEF GithubStart, Unexpired
  <2>3. login'[l] # Absent
    BY <2>1
  <2> QED
    BY <1>0, <1>1, <2>1, <2>2, <2>3 DEF GithubStart
<1>2. ASSUME NEW b \in Browsers, GithubLogout(b) \/ UiIdentity(b) PROVE CookiesFit'
  BY <1>0, <1>2 DEF GithubLogout, UiIdentity
<1>3. ASSUME NEW l \in Logins, NEW account \in Accounts, Approve(l, account)
      PROVE CookiesFit'
  <2>1. login[l] \in Started
    BY <1>0, <1>3 DEF Approve
  <2>2. \A k \in Logins : /\ login'[k] # Absent <=> login[k] # Absent
                          /\ login[k] # Absent => login'[k].browser = login[k].browser
    BY <1>0, <1>3, <2>1 DEF Approve
  <2> QED
    BY <1>0, <1>3, <2>2 DEF Approve
<1>4. ASSUME NEW c \in Callbacks, NEW b \in Browsers, NEW l \in Logins, NEW k \in Logins,
             GithubCallback(c, b, l, k)
      PROVE CookiesFit'
  BY <1>0, <1>4 DEF GithubCallback, StateCookieCleared, Consumed
<1>5. ASSUME NEW c \in Callbacks, Exchange(c) \/ FinishLogin(c) \/ CallbackFails(c)
      PROVE CookiesFit'
  BY <1>0, <1>5 DEF Exchange, FinishLogin, CallbackFails, StateCookieCleared
<1>6. CASE BrowserTick \/ UNCHANGED browserVars
  BY <1>0, <1>6 DEF BrowserTick, browserVars
<1> QED
  BY <1>1, <1>2, <1>3, <1>4, <1>5, <1>6 DEF BrowserNext

\* The callback consumes the pending login: two handlers never hold the same one,
\* and none holds a login of another browser.
LEMMA CallbacksKept == BrowserInv /\ [BrowserNext]_browserVars => CallbacksFit'
<1> SUFFICES ASSUME BrowserInv, [BrowserNext]_browserVars PROVE CallbacksFit'
  OBVIOUS
<1> USE BrowserLoginAssumption DEF BrowserTypes, Started, Handling
<1>0. BrowserTypes /\ CookiesFit /\ CallbacksFit /\ SessionsFit
  BY DEF BrowserInv
<1>1. ASSUME NEW b \in Browsers, NEW l \in Logins, GithubStart(b, l) PROVE CallbacksFit'
  <2>1. \A c \in Callbacks : Handling(c) => callback[c].login # l /\ callback[c].code # l
    BY <1>0, <1>1 DEF GithubStart, CallbacksFit
  <2>2. \A k \in Logins : k # l => /\ pendingLogin'[k] \in {pendingLogin[k], Absent}
                                   /\ login'[k] = login[k]
    BY <1>0, <1>1, UnexpiredDrops DEF GithubStart, Unexpired
  <2>3. \A c \in Callbacks : Handling(c) => callback[c].login \in Logins /\ callback[c].code \in Logins
    BY <1>0
  <2> QED
    BY <1>0, <1>1, <2>1, <2>2, <2>3 DEF GithubStart, CallbacksFit
<1>2. ASSUME NEW b \in Browsers, GithubLogout(b) \/ UiIdentity(b) PROVE CallbacksFit'
  BY <1>0, <1>2 DEF GithubLogout, UiIdentity, CallbacksFit
<1>3. ASSUME NEW l \in Logins, NEW account \in Accounts, Approve(l, account)
      PROVE CallbacksFit'
  <2>1. login[l] \in Started
    BY <1>0, <1>3 DEF Approve
  <2>2. \A k \in Logins : login[k] # Absent =>
           /\ login'[k] # Absent /\ login'[k].browser = login[k].browser
           /\ login[k].account # Absent => login'[k].account # Absent
    BY <1>0, <1>3, <2>1 DEF Approve
  <2>3. \A c \in Callbacks : Handling(c) => callback[c].login \in Logins /\ callback[c].code \in Logins
    BY <1>0
  <2> QED
    BY <1>0, <1>3, <2>2, <2>3 DEF Approve, CallbacksFit
<1>4. ASSUME NEW c \in Callbacks, NEW b \in Browsers, NEW l \in Logins, NEW k \in Logins,
             GithubCallback(c, b, l, k)
      PROVE CallbacksFit'
  <2>1. CASE callback' = callback
    BY <1>0, <1>4, <2>1 DEF GithubCallback, Consumed, CallbacksFit
  <2>2. CASE callback' # callback
    <3>1. /\ callback' = [callback EXCEPT ![c] =
                [pc |-> "exchange", browser |-> b, login |-> l, code |-> k]]
          /\ pendingLogin' = Consumed(l) /\ pendingLogin[l] # Absent /\ stateCookie[b] = l
          /\ login[l] # Absent /\ login[k] # Absent /\ login[k].account # Absent
          /\ login' = login /\ loggedIn' = loggedIn
      BY Zenon, <1>4, <2>2 DEF GithubCallback, CookieMatches
    <3>2. login[l].browser = b /\ l \notin loggedIn
      BY Zenon, <1>0, <3>1 DEF CookiesFit, SessionsFit
    <3>3. \A d \in Callbacks : Handling(d) => callback[d].login # l
      BY <1>0, <3>1 DEF CallbacksFit
    <3>4. \A j \in Logins : pendingLogin'[j] = IF j = l THEN Absent ELSE pendingLogin[j]
      BY <1>0, <3>1 DEF Consumed
    <3>5. \A d \in Callbacks : Handling(d) => callback[d].login \in Logins /\ callback[d].code \in Logins
      BY <1>0
    <3>6. /\ callback'[c] = [pc |-> "exchange", browser |-> b, login |-> l, code |-> k]
          /\ \A d \in Callbacks \ {c} : callback'[d] = callback[d]
      BY <1>0, <3>1
    <3>7. \A d, e \in Callbacks : d # e /\ Handling(d)' /\ Handling(e)' =>
             callback'[d].login # callback'[e].login
      BY <1>0, <3>3, <3>6 DEF CallbacksFit
    <3>8. ASSUME NEW d \in Callbacks, d # c, Handling(d)'
          PROVE  /\ login[callback[d].login] # Absent
                 /\ login[callback[d].login].browser = callback[d].browser
                 /\ login[callback[d].code] # Absent /\ login[callback[d].code].account # Absent
                 /\ pendingLogin'[callback[d].login] = Absent /\ callback[d].login \notin loggedIn
                 /\ callback[d].pc = "membership" => callback[d].code = callback[d].login
      BY <3>4, <3>5, <3>6, <3>8, <1>0 DEF CallbacksFit
    <3>9. /\ login[l] # Absent /\ login[l].browser = b
          /\ login[k] # Absent /\ login[k].account # Absent
          /\ pendingLogin'[l] = Absent /\ l \notin loggedIn
      BY Zenon, <3>1, <3>2, <3>4
    <3>10. ASSUME NEW d \in Callbacks, Handling(d)'
           PROVE  /\ login[callback'[d].login] # Absent
                  /\ login[callback'[d].login].browser = callback'[d].browser
                  /\ login[callback'[d].code] # Absent /\ login[callback'[d].code].account # Absent
                  /\ pendingLogin'[callback'[d].login] = Absent /\ callback'[d].login \notin loggedIn
                  /\ callback'[d].pc = "membership" => callback'[d].code = callback'[d].login
      <4>1. CASE d = c
        <5>1. /\ callback'[d].login = l /\ callback'[d].code = k /\ callback'[d].browser = b
              /\ callback'[d].pc # "membership"
          BY <3>6, <4>1
        <5> QED
          BY Zenon, <3>9, <5>1
      <4>2. CASE d # c
        <5>1. callback'[d] = callback[d]
          BY Zenon, <3>6, <4>2
        <5> QED
          BY Zenon, <3>8, <3>10, <4>2, <5>1
      <4> QED
        BY Zenon, <4>1, <4>2
    <3> HIDE DEF Handling, BrowserTypes, Started
    <3> QED
      BY Zenon, <3>1, <3>7, <3>10 DEF CallbacksFit
  <2> QED
    BY <2>1, <2>2
<1>5. ASSUME NEW c \in Callbacks, Exchange(c) PROVE CallbacksFit'
  <2>1. callback[c] \in [pc : {"exchange", "membership"}, browser : Browsers,
                         login : Logins, code : Logins]
    BY <1>0, <1>5 DEF Exchange, Waiting
  <2>2. \A d \in Callbacks : Handling(d)' =>
           /\ Handling(d) /\ callback'[d].login = callback[d].login
           /\ callback'[d].code = callback[d].code
           /\ callback'[d].browser = callback[d].browser
           /\ callback'[d].pc = "membership" => callback[d].pc = "membership"
                                              \/ callback[d].code = callback[d].login
    BY <1>0, <1>5, <2>1 DEF Exchange, Waiting
  <2> QED
    BY <1>0, <1>5, <2>2 DEF Exchange, CallbacksFit
<1>6. ASSUME NEW c \in Callbacks, FinishLogin(c) PROVE CallbacksFit'
  <2>1. callback' = [callback EXCEPT ![c] = Waiting] /\ Handling(c)
    BY <1>0, <1>6 DEF FinishLogin, Waiting
  <2>2. loggedIn' \subseteq loggedIn \cup {callback[c].login}
    BY <1>6 DEF FinishLogin
  <2>3. \A d \in Callbacks : Handling(d)' =>
           d # c /\ callback'[d] = callback[d] /\ callback[d].login # callback[c].login
    BY <1>0, <2>1 DEF CallbacksFit
  <2> QED
    BY <1>0, <1>6, <2>2, <2>3 DEF FinishLogin, CallbacksFit
<1>7. ASSUME NEW c \in Callbacks, CallbackFails(c) PROVE CallbacksFit'
  BY <1>0, <1>7 DEF CallbackFails, CallbacksFit
<1>8. CASE BrowserTick \/ UNCHANGED browserVars
  BY <1>0, <1>8 DEF BrowserTick, browserVars, CallbacksFit
<1> QED
  BY <1>1, <1>2, <1>3, <1>4, <1>5, <1>6, <1>7, <1>8 DEF BrowserNext

\* A step that completes no login keeps what is said of the sessions: it may drop
\* sessions, cookies and pending logins, and completed logins stay as they are.
LEMMA SessionsCarried ==
    ASSUME BrowserTypes, SessionsFit, loggedIn' = loggedIn,
           \A k \in loggedIn :
              /\ login'[k] # Absent /\ login'[k].browser = login[k].browser
              /\ login[k].account # Absent => login'[k].account = login[k].account,
           \A k \in loggedIn : pendingLogin'[k] \in {pendingLogin[k], Absent},
           \A k \in Logins : browserSession'[k] \in {browserSession[k], Absent},
           \A b \in Browsers : sessionCookie'[b] \in {sessionCookie[b], Absent}
    PROVE  SessionsFit'
<1>1. (\A k \in loggedIn : login[k] # Absent /\ pendingLogin[k] = Absent)'
  BY DEF SessionsFit
<1>2. ASSUME NEW k \in Logins, browserSession'[k] # Absent
      PROVE (/\ k \in loggedIn
             /\ browserSession[k].subject = login[k].account /\ login[k].account # Absent
             /\ AllowedUser(browserSession[k].subject))'
  <2>1. browserSession'[k] = browserSession[k] /\ browserSession[k] # Absent
    BY <1>2
  <2>2. /\ k \in loggedIn
        /\ browserSession[k].subject = login[k].account /\ login[k].account # Absent
        /\ AllowedUser(browserSession[k].subject)
    BY <2>1 DEF SessionsFit
  <2>3. login'[k].account = login[k].account
    BY <2>2
  <2> QED
    BY Zenon, <2>1, <2>2, <2>3 DEF AllowedUser
<1>3. ASSUME NEW b \in Browsers, sessionCookie'[b] # Absent
      PROVE (sessionCookie[b] \in loggedIn /\ login[sessionCookie[b]].browser = b)'
  <2>1. sessionCookie'[b] = sessionCookie[b] /\ sessionCookie[b] # Absent
    BY <1>3
  <2>2. sessionCookie[b] \in loggedIn /\ login[sessionCookie[b]].browser = b
    BY <2>1 DEF SessionsFit
  <2> QED
    BY <2>1, <2>2
<1> QED
  BY <1>1, <1>2, <1>3 DEF SessionsFit

\* A session is made for the account that logged in, and its cookie goes to the
\* browser that started the login.
LEMMA BrowserSessionsKept == BrowserInv /\ [BrowserNext]_browserVars => SessionsFit'
<1> SUFFICES ASSUME BrowserInv, [BrowserNext]_browserVars PROVE SessionsFit'
  OBVIOUS
<1> USE BrowserLoginAssumption DEF BrowserTypes, Started, Handling
<1>0. BrowserTypes /\ CookiesFit /\ CallbacksFit /\ SessionsFit
  BY DEF BrowserInv
<1>1. ASSUME NEW b \in Browsers, NEW l \in Logins, GithubStart(b, l) PROVE SessionsFit'
  <2>1. l \notin loggedIn
    BY Zenon, <1>0, <1>1 DEF GithubStart, SessionsFit
  <2>2. \A k \in Logins : k # l => /\ pendingLogin'[k] \in {pendingLogin[k], Absent}
                                   /\ login'[k] = login[k]
    BY <1>0, <1>1, UnexpiredDrops DEF GithubStart, Unexpired
  <2>3. \A k \in loggedIn : k \in Logins /\ k # l /\ login[k] # Absent
    BY Zenon, <1>0, <2>1 DEF SessionsFit
  <2>4. UNCHANGED <<loggedIn, browserSession, sessionCookie>>
    BY <1>1 DEF GithubStart
  <2> QED
    BY <1>0, <2>2, <2>3, <2>4, SessionsCarried
<1>2. ASSUME NEW b \in Browsers, GithubLogout(b) PROVE SessionsFit'
  <2>1. \A l \in Logins : browserSession'[l] \in {browserSession[l], Absent}
    BY <1>0, <1>2 DEF GithubLogout
  <2>2. \A e \in Browsers : sessionCookie'[e] \in {sessionCookie[e], Absent}
    BY <1>0, <1>2 DEF GithubLogout
  <2>3. UNCHANGED <<login, pendingLogin, loggedIn>>
    BY <1>2 DEF GithubLogout
  <2>4. \A l \in loggedIn : login[l] # Absent
    BY Zenon, <1>0 DEF SessionsFit
  <2> QED
    BY <1>0, <2>1, <2>2, <2>3, <2>4, SessionsCarried
<1>3. ASSUME NEW b \in Browsers, UiIdentity(b) PROVE SessionsFit'
  <2>1. \A l \in Logins : browserSession'[l] \in {browserSession[l], Absent}
    BY <1>3, UnexpiredDrops DEF UiIdentity
  <2>2. UNCHANGED <<login, pendingLogin, sessionCookie, loggedIn>>
    BY <1>3 DEF UiIdentity
  <2>3. \A l \in loggedIn : login[l] # Absent
    BY Zenon, <1>0 DEF SessionsFit
  <2> QED
    BY <1>0, <2>1, <2>2, <2>3, SessionsCarried
<1>4. ASSUME NEW l \in Logins, NEW account \in Accounts, Approve(l, account)
      PROVE SessionsFit'
  <2>1. login[l] \in Started
    BY <1>0, <1>4 DEF Approve
  <2>2. \A k \in Logins : login[k] # Absent =>
           /\ login'[k] # Absent /\ login'[k].browser = login[k].browser
           /\ login[k].account # Absent => login'[k].account = login[k].account
    BY <1>0, <1>4, <2>1 DEF Approve
  <2>3. \A k \in loggedIn : k \in Logins /\ login[k] # Absent
    BY Zenon, <1>0 DEF SessionsFit
  <2>4. UNCHANGED <<pendingLogin, browserSession, sessionCookie, loggedIn>>
    BY <1>4 DEF Approve
  <2> QED
    BY <1>0, <2>2, <2>3, <2>4, SessionsCarried
<1>5. ASSUME NEW c \in Callbacks, NEW b \in Browsers, NEW l \in Logins, NEW k \in Logins,
             GithubCallback(c, b, l, k)
      PROVE SessionsFit'
  <2>1. \A j \in Logins : pendingLogin'[j] \in {pendingLogin[j], Absent}
    BY <1>0, <1>5 DEF GithubCallback, Consumed
  <2>2. \A j \in loggedIn : j \in Logins /\ login[j] # Absent
    BY Zenon, <1>0 DEF SessionsFit
  <2>3. UNCHANGED <<login, browserSession, sessionCookie, loggedIn>>
    BY <1>5 DEF GithubCallback
  <2> QED
    BY <1>0, <2>1, <2>2, <2>3, SessionsCarried
<1>6. ASSUME NEW c \in Callbacks, FinishLogin(c) PROVE SessionsFit'
  <2> DEFINE l == callback[c].login
             b == callback[c].browser
  <2>1. Handling(c) /\ callback[c].pc = "membership" /\ l \in Logins /\ b \in Browsers
    BY <1>0, <1>6 DEF FinishLogin, Waiting
  <2>2. /\ login[l] # Absent /\ login[l].browser = b /\ login[l].account # Absent
        /\ pendingLogin[l] = Absent /\ callback[c].code = l
    BY <1>0, <2>1 DEF CallbacksFit
  <2>3. CASE AllowedUser(login[callback[c].code].account)
    <3>1. \A k \in Logins : browserSession'[k] =
             IF k = l THEN [subject |-> login[l].account,
                            expires |-> browserNow + SessionTtlBrowser]
                      ELSE Unexpired(browserSession)[k]
      BY Zenon, <1>6, <2>2, <2>3 DEF FinishLogin, Unexpired
    <3>2. \A k \in Logins : k # l => browserSession'[k] \in {browserSession[k], Absent}
      BY <3>1, UnexpiredDrops
    <3>3. browserSession'[l].subject = login[l].account
      BY <2>1, <3>1
    <3>4. /\ sessionCookie' = [sessionCookie EXCEPT ![b] = l]
          /\ loggedIn' = loggedIn \cup {l} /\ UNCHANGED <<login, pendingLogin>>
      BY <1>6, <2>3 DEF FinishLogin
    <3>5. AllowedUser(browserSession'[l].subject)
      BY <2>2, <2>3, <3>3
    <3> HIDE DEF l, b
    <3>6. (\A k \in loggedIn : login[k] # Absent /\ pendingLogin[k] = Absent)'
      BY Zenon, <1>0, <2>1, <2>2, <3>4 DEF SessionsFit
    <3>7. ASSUME NEW k \in Logins, browserSession'[k] # Absent
          PROVE (/\ k \in loggedIn
                 /\ browserSession[k].subject = login[k].account /\ login[k].account # Absent
                 /\ AllowedUser(browserSession[k].subject))'
      <4>1. CASE k = l
        BY <2>2, <3>3, <3>4, <3>5, <4>1 DEF AllowedUser
      <4>2. CASE k # l
        BY <1>0, <3>2, <3>4, <3>7, <4>2 DEF SessionsFit, AllowedUser
      <4> QED
        BY <4>1, <4>2
    <3>8. (\A e \in Browsers : sessionCookie[e] # Absent =>
              sessionCookie[e] \in loggedIn /\ login[sessionCookie[e]].browser = e)'
      BY <1>0, <2>1, <2>2, <3>4 DEF SessionsFit
    <3> QED
      BY <3>6, <3>7, <3>8 DEF SessionsFit
  <2>4. CASE ~AllowedUser(login[callback[c].code].account)
    BY Zenon, <1>0, <1>6, <2>4 DEF FinishLogin, SessionsFit
  <2> QED
    BY <2>3, <2>4
<1>7. ASSUME NEW c \in Callbacks, Exchange(c) \/ CallbackFails(c) PROVE SessionsFit'
  BY Zenon, <1>0, <1>7 DEF Exchange, CallbackFails, SessionsFit
<1>8. CASE BrowserTick \/ UNCHANGED browserVars
  BY Zenon, <1>0, <1>8 DEF BrowserTick, browserVars, SessionsFit
<1> QED
  BY <1>1, <1>2, <1>3, <1>4, <1>5, <1>6, <1>7, <1>8 DEF BrowserNext

\* The invariant holds throughout.
LEMMA BrowserInvariant == BrowserSpec => []BrowserInv
<1>1. BrowserInv /\ [BrowserNext]_browserVars => BrowserInv'
  BY BrowserTypesKept, CookiesKept, CallbacksKept, BrowserSessionsKept DEF BrowserInv
<1> QED
  BY <1>1, BrowserInitially, PTL DEF BrowserSpec

\* Whatever the interleaving of logins, callbacks and expiries, a browser's session
\* is of the account that authorized the very login this browser started, the
\* account is allowed, and a login makes at most one session (the GitHub callback).
THEOREM BrowserSessionsAreRightful == BrowserSpec => BrowserSessionsRightful
<1>1. BrowserInv => LoggedInAsApproved /\ SessionsAdmitted
  BY DEF BrowserInv, BrowserTypes, SessionsFit, LoggedInAsApproved, SessionsAdmitted,
     AllowedUser, ActiveMember
<1> DEFINE UsedOnce == \A l \in loggedIn : browserSession'[l] \in {browserSession[l], Absent}
<1>2. BrowserInv /\ [BrowserNext]_browserVars => [UsedOnce]_browserVars
  <2> SUFFICES ASSUME BrowserInv, BrowserNext PROVE UsedOnce
    OBVIOUS
  <2>0. loggedIn \subseteq Logins /\ browserSession = [l \in Logins |-> browserSession[l]]
    BY DEF BrowserInv, BrowserTypes
  <2>1. ASSUME NEW b \in Browsers, GithubLogout(b) PROVE UsedOnce
    BY <2>0, <2>1 DEF GithubLogout
  <2>2. ASSUME NEW b \in Browsers, UiIdentity(b) PROVE UsedOnce
    BY <2>0, <2>2, UnexpiredDrops DEF UiIdentity
  <2>3. ASSUME NEW c \in Callbacks, FinishLogin(c) PROVE UsedOnce
    <3>1. callback[c].login \notin loggedIn
      <4>1. Handling(c)
        BY <2>3 DEF FinishLogin, Handling, Waiting
      <4> QED
        BY Zenon, <4>1 DEF BrowserInv, CallbacksFit
    <3>2. \A l \in Logins : l # callback[c].login =>
             browserSession'[l] \in {browserSession[l], Absent}
      BY Zenon, <2>0, <2>3, UnexpiredDrops DEF FinishLogin, Unexpired
    <3> QED
      BY Zenon, <2>0, <3>1, <3>2
  <2>4. CASE UNCHANGED browserSession
    BY <2>4
  <2> QED
    BY <2>1, <2>2, <2>3, <2>4 DEF BrowserNext, BrowserTick, GithubStart, Approve,
       GithubCallback, Exchange, CallbackFails
<1> QED
  BY <1>1, <1>2, BrowserInvariant, PTL
  DEF BrowserSpec, BrowserSessionsRightful, LoginUsedOnce

-----------------------------------------------------------------------------
(***************************************************************************)
(* What no step does to the sessions.                                      *)
(***************************************************************************)

\* A session row changes only for its own subject, or with the agent it is of.
THEOREM SessionsBelong == Spec => SessionsChangedForTheirSubject
<1> DEFINE Own == \A s \in Sessions : Exists(s) /\ session'[s] # session[s] =>
                     \/ \E c \in Calls : /\ call[c].session = s
                                         /\ call[c].subject = session[s].subject
                                         /\ call'[c].pc # call[c].pc
                     \/ \E a \in Agents : a = session[s].subject /\ tx[a] # NoTx
<1>1. ASSUME SessionInv, Next PROVE Own
  <2> SUFFICES ASSUME NEW s \in Sessions, Exists(s), session'[s] # session[s]
               PROVE  \/ \E c \in Calls : /\ call[c].session = s
                                          /\ call[c].subject = session[s].subject
                                          /\ call'[c].pc # call[c].pc
                      \/ \E a \in Agents : a = session[s].subject /\ tx[a] # NoTx
    OBVIOUS
  <2>t. /\ session \in [Sessions -> Rows] /\ call \in [Calls -> Handlers]
        /\ \A a \in Agents : TxOK(a) /\ tx[a].sessions \subseteq Sessions
        /\ \A c \in Calls : CallOK(c)
    BY <1>1 DEF SessionInv, Types, Txs
  <2>1. ASSUME NEW a \in Agents, CommitAgentTx(a) PROVE a = session[s].subject /\ tx[a] # NoTx
    <3>1. s \in tx[a].sessions
      BY <2>1, <2>t, RevokeType DEF CommitAgentTx
    <3> QED
      BY <2>1, <2>t, <3>1 DEF CommitAgentTx, TxOK
  <2>2. ASSUME NEW c \in Calls, RenewUpdate(c)
        PROVE  call[c].session = s /\ call[c].subject = session[s].subject /\ call'[c].pc # call[c].pc
    <3>1. RenewMatches(c, session[call[c].session])
      BY ZenonT(20), <2>2 DEF RenewUpdate
    <3>2. call[c].session = s
      BY <2>2, <2>t, <3>1 DEF RenewUpdate
    <3>3. call[c].pc = "renew_update" /\ call'[c].pc = "renew_grant"
      BY <2>2, <2>t, <3>1 DEF RenewUpdate, Goto, Handler
    <3> QED
      BY <3>1, <3>2, <3>3 DEF RenewMatches
  <2>3. ASSUME NEW c \in Calls, RenewDeny(c)
        PROVE  call[c].session = s /\ call[c].subject = session[s].subject /\ call'[c].pc # call[c].pc
    <3>1. call[c].session = s
      BY <2>3, <2>t, RevokeType DEF RenewDeny
    <3>2. call[c].pc = "renew_deny" /\ call'[c] = IdleCall
      BY <2>3, <2>t DEF RenewDeny, Finish
    <3> QED
      BY <2>t, <3>1, <3>2, IdleType DEF CallOK
  <2>4. ASSUME NEW c \in Calls, RevokeUpdate(c)
        PROVE  call[c].session = s /\ call[c].subject = session[s].subject /\ call'[c].pc # call[c].pc
    <3>1. RevokeMatches(c, session[call[c].session]) /\ call[c].session = s
      BY <2>4, <2>t, RevokeType DEF RevokeUpdate
    <3>2. call[c].pc = "revoke_update" /\ call'[c].pc = "revoke_audit"
      BY <2>4, <2>t DEF RevokeUpdate, Handler
    <3> QED
      BY <3>1, <3>2 DEF RevokeMatches
  <2>5. ASSUME NEW c \in Calls, NEW n \in Sessions, CreateInsert(c, n) PROVE FALSE
    BY ZenonT(20), <2>5, <2>t DEF CreateInsert, Exists
  <2> QED
    BY ZenonT(20), <1>1, <2>1, <2>2, <2>3, <2>4, <2>5
       DEF Next, ControlStep, CreateAgent, BeginAgentTx, RollbackAgentTx, GrantProfile,
           RevokeProfile, CallStep, CreateAuthorize, CreateCheckGrant, CreateAudit,
           RenewAuthorize, RenewCheckGrant, RenewAudit, RevokeAuthorize, RevokeAudit, UseStart,
           UseLookup, UseCheckGrant, UseForward, Abandon, Tick, Restart
<1>2. SessionInv /\ [Next]_vars => [Own]_vars
  BY <1>1
<1> QED
  BY <1>2, SessionInvariant, PTL DEF Spec, SessionsChangedForTheirSubject

\* When a rotation, disable or deletion of an agent commits, no session that its
\* statements found is active, and on SQLite none of the agent's at all.
THEOREM WithdrawalHolds == Spec => WithdrawalEndsSessions
<1> DEFINE Ends == \A a \in Agents : Withdrawn(a) =>
                      \A s \in Sessions :
                         /\ s \in tx[a].found => ~Active(s)'
                         /\ Backend = "sqlite" /\ session[s].subject = a => ~Active(s)'
<1>1. ASSUME SessionInv, Next PROVE Ends
  <2> SUFFICES ASSUME NEW a \in Agents, Withdrawn(a), NEW s \in Sessions,
                      s \in tx[a].found \/ (Backend = "sqlite" /\ session[s].subject = a)
               PROVE  ~Active(s)'
    OBVIOUS
  <2>t. /\ agent \in [Agents -> [token : Nat, enabled : BOOLEAN]] /\ TxOK(a)
        /\ session \in [Sessions -> Rows]
    BY <1>1 DEF SessionInv, Types
  <2>1. ASSUME NEW b \in Agents, CommitAgentTx(b) PROVE a = b
    <3>1. CASE a # b
      <4>1. agent'[a] = agent[a]
        BY <2>1, <2>t, <3>1 DEF CommitAgentTx
      <4> QED
        BY <4>1 DEF Withdrawn
    <3> QED
      BY <3>1
  <2>2. CASE CommitAgentTx(a)
    <3>1. tx[a] # NoTx /\ agent'[a] = AgentRow(a) /\ session' = Revoke(tx[a].sessions)
      BY <2>2, <2>t DEF CommitAgentTx
    <3>2. tx[a].kind \in {"rotate", "disable", "delete"}
      BY <3>1, <2>t DEF TxOK, TxKinds, AgentRow, Withdrawn
    <3>3. s \in tx[a].found
      BY <3>1, <2>t DEF TxOK
    <3>4. s \in tx[a].sessions \/ session[s].revoked
      BY <3>2, <3>3, <2>t DEF TxOK
    <3>5. session'[s].revoked
      BY ZenonT(20), <3>1, <3>4, <2>t, RevokeType
    <3> QED
      BY <3>5 DEF Active
  <2>3. ASSUME NEW b \in Agents, CreateAgent(b) PROVE FALSE
    BY <2>3, <2>t DEF CreateAgent, Withdrawn
  <2>4. CASE agent' = agent
    BY <2>4 DEF Withdrawn
  <2> QED
    BY ZenonT(20), <1>1, <2>1, <2>2, <2>3, <2>4
       DEF Next, ControlStep, BeginAgentTx, RollbackAgentTx, GrantProfile, RevokeProfile,
           CallStep, CreateAuthorize, CreateCheckGrant, CreateInsert, CreateAudit,
           RenewAuthorize, RenewUpdate, RenewCheckGrant, RenewDeny, RenewAudit,
           RevokeAuthorize, RevokeUpdate, RevokeAudit, UseStart, UseLookup, UseCheckGrant,
           UseForward, Abandon, Control, Tick, Restart
<1>2. SessionInv /\ [Next]_vars => [Ends]_vars
  BY <1>1
<1> QED
  BY <1>2, SessionInvariant, PTL DEF Spec, WithdrawalEndsSessions

\* An expired session comes back only through a renewal that began before.
THEOREM ExpiryHolds == Spec => ExpiryUndoneOnlyByRenewalInFlight
<1> DEFINE Undone == \A s \in Sessions : Exists(s) /\ ~Active(s) /\ Active(s)' =>
                        \E c \in Calls : /\ call[c].pc = "renew_update"
                                         /\ call[c].session = s
                                         /\ call[c].subject = session[s].subject
                                         /\ call[c].at < session[s].expires
<1>1. ASSUME SessionInv, SessionInv', Next PROVE Undone
  <2> SUFFICES ASSUME NEW s \in Sessions, Exists(s), ~Active(s), Active(s)'
               PROVE  \E c \in Calls : /\ call[c].pc = "renew_update"
                                       /\ call[c].session = s
                                       /\ call[c].subject = session[s].subject
                                       /\ call[c].at < session[s].expires
    OBVIOUS
  <2>t. /\ session \in [Sessions -> Rows] /\ call \in [Calls -> Handlers]
        /\ session[s].expires \in Nat /\ now \in Nat /\ now' \in Nat
        /\ \A c \in Calls : call[c].at \in Nat
    BY <1>1 DEF SessionInv, Types, Rows, Handlers
  <2>k. SessionsKept
    BY <1>1, StepKeeps DEF SessionInv
  <2>1. session'[s].expires # session[s].expires
    BY <2>t, <2>k DEF Active, SessionsKept
  <2>2. \A S : Revoke(S)[s].expires = session[s].expires
    BY <2>t, RevokeType
  <2>3. ASSUME NEW c \in Calls, RenewUpdate(c)
        PROVE  /\ call[c].pc = "renew_update" /\ call[c].session = s
               /\ call[c].subject = session[s].subject /\ call[c].at < session[s].expires
    <3>1. RenewMatches(c, session[call[c].session]) /\ call[c].session = s
      BY ZenonT(20), <2>1, <2>3, <2>t DEF RenewUpdate
    <3>2. call[c].pc = "renew_update"
      BY <2>3 DEF RenewUpdate
    <3> QED
      BY <3>1, <3>2, <2>t DEF RenewMatches
  <2>4. ASSUME NEW c \in Calls, NEW n \in Sessions, CreateInsert(c, n) PROVE FALSE
    BY ZenonT(20), <2>1, <2>4, <2>t DEF CreateInsert, Exists
  <2>5. ASSUME NEW c \in Calls, CallStep(c) PROVE RenewUpdate(c)
    <3>1. session' # session
      BY <2>1
    <3>2. ~RevokeUpdate(c)
      BY ZenonT(20), <2>1, <2>2 DEF RevokeUpdate
    <3>3. ~RenewDeny(c)
      BY <2>1, <2>2 DEF RenewDeny
    <3> QED
      BY ZenonT(20), <2>4, <2>5, <3>1, <3>2, <3>3
         DEF CallStep, CreateAuthorize, CreateCheckGrant, CreateAudit, RenewAuthorize,
             RenewCheckGrant, RenewAudit, RevokeAuthorize, RevokeAudit, UseStart, UseLookup,
             UseCheckGrant, UseForward, Abandon
  <2>6. ASSUME ControlStep PROVE FALSE
    <3>1. session' # session
      BY <2>1
    <3>2. \A k \in Subjects \X Profiles : ~RevokeProfile(k)
      BY ZenonT(40), <2>1, <2>2 DEF RevokeProfile
    <3>3. \A a \in Agents : ~CommitAgentTx(a)
      BY <2>1, <2>2 DEF CommitAgentTx
    <3> QED
      BY Zenon, <2>6, <3>1, <3>2, <3>3
         DEF ControlStep, CreateAgent, BeginAgentTx, RollbackAgentTx, GrantProfile
  <2>7. ~Tick /\ ~Restart
    BY <2>1 DEF Tick, Restart
  <2> QED
    BY <1>1, <2>3, <2>5, <2>6, <2>7 DEF Next
<1>2. SessionInv /\ SessionInv' /\ [Next]_vars => [Undone]_vars
  BY <1>1
<1> QED
  BY <1>2, SessionInvariant, PTL DEF Spec, ExpiryUndoneOnlyByRenewalInFlight

-----------------------------------------------------------------------------
(***************************************************************************)
(* The grants behind sessions and requests.                                *)
(***************************************************************************)

\* A deletion removes every grant it has seen.
GrantInv ==
    /\ Types
    /\ \A a \in Agents : tx[a].had \subseteq tx[a].profiles
    /\ GrantsFollowDecisions

\* In a database that was not upgraded from the older table, a grant is in force
\* only if the last control decision on it granted it, across restarts,
\* deletions of agents and roll-backs.
THEOREM GrantsHold ==
    ASSUME LegacyGrants = {} PROVE Spec => []GrantsFollowDecisions
<1>1. Init => GrantInv
  <2> SUFFICES ASSUME Init PROVE GrantInv
    OBVIOUS
  <2>1. \A a \in Agents : tx[a].had \subseteq tx[a].profiles
    BY ZenonT(20) DEF Init, NoTx
  <2>2. GrantsFollowDecisions
    BY DEF Init, Migrated, GrantsFollowDecisions
  <2> QED
    BY <2>1, <2>2, TypesInit DEF GrantInv
<1>2. ASSUME GrantInv, [Next]_vars, Types' PROVE GrantInv'
  <2>t. /\ grant \in [Subjects \X Profiles -> Grants \cup {NoGrant}]
        /\ decided \in [Subjects \X Profiles -> {"never", "granted", "revoked"}]
        /\ tx \in [Agents -> Txs] /\ \A a \in Agents : tx[a].had \subseteq tx[a].profiles
        /\ GrantsFollowDecisions
    BY <1>2 DEF GrantInv, Types
  <2>n. NoTx.had \subseteq NoTx.profiles
    BY DEF NoTx
  <2>u. ASSUME UNCHANGED <<grant, decided>> PROVE GrantsFollowDecisions'
    BY <2>u, <2>t DEF GrantsFollowDecisions
  <2>1. ASSUME NEW a \in Agents, NEW kind \in TxKinds, BeginAgentTx(a, kind) PROVE GrantInv'
    <3>1. tx'[a].had \subseteq tx'[a].profiles
      BY <2>1, <2>t DEF BeginAgentTx, DeletedGrants
    <3>2. \A b \in Agents : tx'[b].had \subseteq tx'[b].profiles
      BY <2>1, <2>t, <3>1 DEF BeginAgentTx
    <3>3. GrantsFollowDecisions'
      BY <2>1, <2>u DEF BeginAgentTx
    <3> QED
      BY <1>2, <3>2, <3>3 DEF GrantInv
  <2>2. ASSUME NEW a \in Agents, CommitAgentTx(a) PROVE GrantInv'
    <3>1. \A b \in Agents : tx'[b].had \subseteq tx'[b].profiles
      BY ZenonT(40), <2>2, <2>t, <2>n DEF CommitAgentTx
    <3>2. \A k \in Subjects \X Profiles :
             grant'[k] # NoGrant => grant'[k] = grant[k] /\ decided'[k] = decided[k]
      BY <2>2, <2>t DEF CommitAgentTx
    <3>3. GrantsFollowDecisions'
      BY <2>t, <3>2 DEF GrantsFollowDecisions
    <3> QED
      BY <1>2, <3>1, <3>3 DEF GrantInv
  <2>3. ASSUME NEW a \in Agents, RollbackAgentTx(a) PROVE GrantInv'
    <3>1. \A b \in Agents : tx'[b].had \subseteq tx'[b].profiles
      BY <2>3, <2>t, <2>n DEF RollbackAgentTx
    <3> QED
      BY <1>2, <2>3, <2>u, <3>1 DEF RollbackAgentTx, GrantInv
  <2>4. ASSUME NEW k \in Subjects \X Profiles, NEW g \in GrantChoices,
               GrantProfile(k, g[1], g[2])
        PROVE GrantInv'
    <3>1. GrantsFollowDecisions'
      BY <2>4, <2>t DEF GrantProfile, GrantsFollowDecisions
    <3> QED
      BY ZenonT(40), <1>2, <2>4, <2>t, <3>1 DEF GrantProfile, GrantInv
  <2>5. ASSUME NEW k \in Subjects \X Profiles, RevokeProfile(k) PROVE GrantInv'
    <3>1. GrantsFollowDecisions'
      BY <2>5, <2>t DEF RevokeProfile, GrantsFollowDecisions
    <3> QED
      BY ZenonT(40), <1>2, <2>5, <2>t, <3>1 DEF RevokeProfile, GrantInv
  <2>6. CASE Restart
    <3>1. grant' = grant
      BY <2>6, <2>t DEF Restart, Migrated
    <3>2. \A b \in Agents : tx'[b].had \subseteq tx'[b].profiles
      BY <2>6, <2>n DEF Restart
    <3> QED
      BY <1>2, <2>6, <2>u, <3>1, <3>2 DEF Restart, GrantInv
  <2>7. CASE UNCHANGED <<grant, decided, tx>>
    BY <1>2, <2>7, <2>u, <2>t DEF GrantInv
  <2> QED
    BY ZenonT(60), <1>2, <2>1, <2>2, <2>3, <2>4, <2>5, <2>6, <2>7
       DEF Next, ControlStep, CreateAgent, CallStep, CreateAuthorize, CreateCheckGrant,
           CreateInsert, CreateAudit, RenewAuthorize, RenewUpdate, RenewCheckGrant, RenewDeny,
           RenewAudit, RevokeAuthorize, RevokeUpdate, RevokeAudit, UseStart, UseLookup,
           UseCheckGrant, UseForward, Abandon, Control, Tick, vars
<1>3. GrantInv /\ [Next]_vars /\ SessionInv' => GrantInv'
  BY <1>2 DEF SessionInv
<1>4. GrantInv => GrantsFollowDecisions
  BY DEF GrantInv
<1> QED
  BY <1>1, <1>3, <1>4, SessionInvariant, PTL DEF Spec
-----------------------------------------------------------------------------
(* The grant behind a request.                                             *)

\* Where a handler is about to act on a read of the grant table.
GrantPcs == {"create_grant", "renew_grant", "use_grant"}

\* The grant a handler is about to read is the one its request needs.
NeedOK(c) ==
    /\ call[c].pc = "create_grant" =>
          /\ call[c].session = None
          /\ <<call[c].subject, call[c].profile>> \in Subjects \X Profiles
    /\ call[c].pc \in {"renew_grant", "use_grant"} =>
          /\ call[c].session \in Sessions /\ Exists(call[c].session)
          /\ session[call[c].session].subject = call[c].subject
          /\ session[call[c].session].profile = call[c].profile
          /\ <<call[c].subject, call[c].profile>> \in Subjects \X Profiles

\* A grant that would pass the comparison with the moment of the handler's last
\* step has been noted for the request.
WitnessOK(c) == call[c].pc \in GrantPcs /\ Permitted(c) => c \in witnessed

\* A request began before the moment its handler compares a grant with.
BeganOK(c) == began[c] <= now /\ (call[c].pc \in GrantPcs => began[c] <= call[c].at)

GrantedInv ==
    /\ \A c \in Calls : NeedOK(c) /\ WitnessOK(c) /\ BeganOK(c)
    /\ ServedUnderLiveGrant

\* Where a handler is about to read the grant table, it reads the grant its
\* request depends on.
LEMMA NeedKnown ==
    ASSUME NEW c \in Calls, call'[c].pc \in GrantPcs, NeedOK(c)'
    PROVE  /\ Need(c)' = <<call'[c].subject, call'[c].profile>>
           /\ <<call'[c].subject, call'[c].profile>> \in Subjects \X Profiles
<1>1. call'[c].session \in Sessions => call'[c].session # None
  BY SessionsAssumption
<1> QED
  BY Zenon, <1>1 DEF NeedOK, Need, GrantPcs

\* A grant that has not expired at one time has not expired at an earlier one.
LEMMA LiveEarlier ==
    ASSUME NEW g \in Grants \cup {NoGrant}, NEW t \in Nat, NEW u \in Nat, u <= t,
           Live(g, "proxy", t)
    PROVE  Live(g, "proxy", u)
<1>1. g.expires \in Nat \/ g.expires = Never
  BY DEF Grants, NoGrant
<1> QED
  BY <1>1 DEF Live

\* A handler about to read a grant that will permit its request is noted,
\* whoever wrote the grant and however late.
LEMMA GrantNoted ==
    ASSUME Types, Types', Observe, NEW c \in Calls, NeedOK(c)',
           call'[c].pc \in GrantPcs => Began(c) <= call'[c].at
    PROVE  WitnessOK(c)'
<1> SUFFICES ASSUME call'[c].pc \in GrantPcs, Permitted(c)' PROVE c \in witnessed'
  BY DEF WitnessOK
<1>1. /\ Need(c)' = <<call'[c].subject, call'[c].profile>>
      /\ <<call'[c].subject, call'[c].profile>> \in Subjects \X Profiles
  BY Zenon, NeedKnown
<1>2. Live(grant'[Need(c)'], "proxy", call'[c].at)
  BY Zenon, <1>1 DEF Permitted
<1>3. grant'[Need(c)'] \in Grants \cup {NoGrant}
  BY Zenon, <1>1 DEF Types
<1>4. Began(c) \in Nat /\ call'[c].at \in Nat
  BY DEF Began, Types, Handlers
<1>5. Live(grant'[Need(c)'], "proxy", Began(c))
  BY <1>2, <1>3, <1>4, LiveEarlier
<1>6. Serving(call'[c])
  BY DEF Serving, GrantPcs
<1> QED
  BY Zenon, <1>5, <1>6 DEF Observe

\* What is noted of a request stays: when it began, and that its grant was seen.
LEMMA HistoryKept ==
    ASSUME Types, Observe, now' \in Nat, now <= now', NEW c \in Calls, BeganOK(c),
           call'[c].at \in Nat, call'[c].pc \in GrantPcs => Began(c) <= call'[c].at
    PROVE  /\ BeganOK(c)'
           /\ c \in witnessed /\ Serving(call'[c]) => c \in witnessed'
<1>1. Began(c) \in Nat /\ Began(c) <= now
  BY DEF Began, Types, BeganOK
<1>2. began'[c] = 0 \/ began'[c] = Began(c)
  BY Zenon DEF Observe
<1>3. BeganOK(c)'
  BY <1>1, <1>2 DEF BeganOK, Types
<1> QED
  BY Zenon, <1>3 DEF Observe

\* A step of others leaves the handlers alone and is noted.
LEMMA OthersObserve ==
    ASSUME ControlStep \/ Tick PROVE call' = call /\ Observe
BY ZenonT(40) DEF ControlStep, CreateAgent, BeginAgentTx, CommitAgentTx, RollbackAgentTx,
   GrantProfile, RevokeProfile, Tick

\* The handlers that do not step still know what they knew.
LEMMA GrantedByOthers ==
    ASSUME SessionInv, SessionInv', GrantedInv, SessionsKept, now <= now',
           ControlStep \/ Tick
    PROVE  GrantedInv'
<1>1. call' = call /\ Observe
  BY Zenon, OthersObserve
<1>t. Types /\ Types' /\ now' \in Nat /\ \A c \in Calls : call'[c].at \in Nat
  BY DEF SessionInv, Types, Handlers
<1>2. ASSUME NEW c \in Calls PROVE NeedOK(c)'
  <2>1. NeedOK(c)
    BY DEF GrantedInv
  <2> QED
    BY Zenon, <1>1, <2>1 DEF NeedOK, SessionsKept
<1>3. ASSUME NEW c \in Calls
      PROVE  BeganOK(c) /\ (call'[c].pc \in GrantPcs => Began(c) <= call'[c].at)
  <2>1. BeganOK(c)
    BY DEF GrantedInv
  <2>2. call[c].pc \in GrantPcs => call[c].pc # "idle"
    BY DEF GrantPcs
  <2> QED
    BY Zenon, <1>1, <2>1, <2>2 DEF BeganOK, Began
<1>4. ASSUME NEW c \in Calls PROVE WitnessOK(c)'
  BY Zenon, <1>1, <1>t, <1>2, <1>3, GrantNoted
<1>5. ASSUME NEW c \in Calls
      PROVE  BeganOK(c)' /\ (c \in witnessed /\ Serving(call'[c]) => c \in witnessed')
  BY Zenon, <1>1, <1>t, <1>3, HistoryKept
<1>6. ServedUnderLiveGrant'
  BY <1>1, <1>5 DEF ServedUnderLiveGrant, GrantedInv, Serving
<1> QED
  BY <1>2, <1>4, <1>5, <1>6 DEF GrantedInv

\* A handler that steps to its read of the grant took the moment it compares
\* with just now; one that has passed it was witnessed before.
LEMMA GrantedByCall ==
    ASSUME SessionInv, SessionInv', GrantedInv, SessionsKept, NEW c \in Calls, CallStep(c)
    PROVE  GrantedInv'
<1>y. /\ Types /\ Types' /\ now \in Nat /\ \A d \in Calls : call'[d].at \in Nat
      /\ \A d \in Calls : BeganOK(d)
  BY DEF SessionInv, Types, Handlers, GrantedInv
<1>t. /\ call \in [Calls -> Handlers] /\ NeedOK(c) /\ WitnessOK(c) /\ CallOK(c)
      /\ \A s \in Sessions : RowOK(s)
  BY DEF SessionInv, Types, GrantedInv
<1>g. /\ grant' = grant /\ now' = now /\ Observe
      /\ \A d \in Calls \ {c} : call'[d] = call[d]
  BY ZenonT(20), <1>t DEF CallStep, CreateAuthorize, CreateCheckGrant, CreateInsert, CreateAudit,
              RenewAuthorize, RenewUpdate, RenewCheckGrant, RenewDeny, RenewAudit,
              RevokeAuthorize, RevokeUpdate, RevokeAudit, UseStart, UseLookup, UseCheckGrant,
              UseForward, Abandon, Control, Goto, Finish
<1>o. ASSUME NEW d \in Calls, d # c
      PROVE  /\ NeedOK(d)' /\ WitnessOK(d)' /\ BeganOK(d)'
             /\ d \in witnessed /\ Serving(call'[d]) => d \in witnessed'
  <2>1. call'[d] = call[d] /\ NeedOK(d) /\ BeganOK(d)
    BY <1>o, <1>g DEF GrantedInv
  <2>2. NeedOK(d)'
    BY <2>1 DEF NeedOK, SessionsKept
  <2>3. call'[d].pc \in GrantPcs => Began(d) <= call'[d].at
    BY <2>1 DEF BeganOK, Began, GrantPcs
  <2>4. WitnessOK(d)'
    BY Zenon, <1>g, <1>y, <2>2, <2>3, GrantNoted
  <2>5. now' \in Nat /\ now <= now'
    BY <1>g, <1>y
  <2>6. BeganOK(d)' /\ (d \in witnessed /\ Serving(call'[d]) => d \in witnessed')
    BY Zenon, <1>g, <1>y, <2>1, <2>3, <2>5, HistoryKept
  <2> QED
    BY Zenon, <2>2, <2>4, <2>6
<1> DEFINE Fresh  == call'[c].pc \in GrantPcs /\ call'[c].at = now /\ NeedOK(c)'
           Passed == Serving(call'[c]) /\ call'[c].pc \notin GrantPcs /\ c \in witnessed
           Plain  == call'[c].pc \notin GrantPcs \cup
                        {"create_insert", "create_audit", "renew_audit", "use_forward"}
<1>f. call' = Finish(c) => Plain
  BY <1>t, IdleType DEF Finish, GrantPcs
<1>p. call[c].pc \in GrantPcs /\ Permitted(c) => c \in witnessed
  BY <1>t DEF WitnessOK
<1>1. ASSUME NEW s \in Subjects, NEW p \in Profiles, CreateAuthorize(c, s, p) PROVE Fresh
  <2>1. /\ call'[c].pc = "create_grant" /\ call'[c].subject = s /\ call'[c].profile = p
        /\ call'[c].session = None /\ call'[c].at = now
    BY <1>1, <1>t DEF CreateAuthorize, Goto, Handler
  <2> QED
    BY <2>1 DEF NeedOK, GrantPcs
<1>2. ASSUME CreateCheckGrant(c) PROVE Passed \/ Plain
  <2>1. CASE Permitted(c)
    <3>1. call'[c].pc = "create_insert" /\ call[c].pc = "create_grant"
      BY <1>2, <2>1, <1>t DEF CreateCheckGrant, Handler
    <3> QED
      BY <3>1, <2>1, <1>p DEF GrantPcs, Serving
  <2> QED
    BY ZenonT(20), <1>2, <1>f, <2>1 DEF CreateCheckGrant
<1>3. ASSUME NEW s \in Sessions, CreateInsert(c, s) PROVE Passed
  <2>1. call'[c].pc = "create_audit" /\ call[c].pc = "create_insert"
    BY <1>3, <1>t DEF CreateInsert, Goto, Handler
  <2> QED
    BY <2>1 DEF GrantPcs, Serving, GrantedInv, ServedUnderLiveGrant
<1>4. ASSUME RenewUpdate(c) PROVE Fresh \/ Plain
  <2> DEFINE sid == call[c].session
             row == session[sid]
  <2>1. CASE RenewMatches(c, row)
    <3>1. sid \in Sessions /\ Exists(sid)
      BY ZenonT(40), <1>4, <1>t DEF RenewUpdate, CallOK, HasSession, SessionPcs, Exists
    <3>2. /\ call'[c].pc = "renew_grant" /\ call'[c].subject = call[c].subject
          /\ call'[c].profile = row.profile /\ call'[c].session = sid /\ call'[c].at = now
      BY <1>4, <2>1, <1>t DEF RenewUpdate, Goto, Handler
    <3>3. row.subject = call[c].subject
      BY <2>1 DEF RenewMatches
    <3>4. <<row.subject, row.profile>> \in Subjects \X Profiles
      BY ZenonT(40), <3>1, <1>t DEF RowOK
    <3>5. /\ session'[sid].subject = row.subject /\ session'[sid].profile = row.profile
          /\ session'[sid] # NoSession
      BY <3>1 DEF SessionsKept, Exists
    <3>6. NeedOK(c)'
      BY ZenonT(40), <3>1, <3>2, <3>3, <3>4, <3>5 DEF NeedOK, Exists
    <3> QED
      BY <3>2, <3>6 DEF GrantPcs
  <2> QED
    BY ZenonT(20), <1>4, <1>f, <2>1 DEF RenewUpdate
<1>5. ASSUME RenewCheckGrant(c) PROVE Passed \/ Plain
  <2>1. /\ call[c].pc = "renew_grant"
        /\ call'[c].pc = IF Permitted(c) THEN "renew_audit" ELSE "renew_deny"
    BY <1>5, <1>t DEF RenewCheckGrant, Goto, Handler
  <2> QED
    BY <2>1, <1>p DEF GrantPcs, Serving
<1>6. ASSUME UseLookup(c) PROVE Fresh \/ Plain
  <2> DEFINE sid == call[c].session
             row == session[sid]
  <2>1. CASE UseMatches(c, row)
    <3>1. sid \in Sessions /\ Exists(sid)
      BY ZenonT(40), <1>6, <1>t DEF UseLookup, CallOK, HasSession, SessionPcs, Exists
    <3>2. /\ call'[c].pc = "use_grant" /\ call'[c].subject = row.subject
          /\ call'[c].profile = call[c].profile /\ call'[c].session = sid /\ call'[c].at = now
      BY <1>6, <2>1, <1>t DEF UseLookup, Goto, Handler
    <3>3. row.profile = call[c].profile
      BY <2>1 DEF UseMatches
    <3>4. <<row.subject, row.profile>> \in Subjects \X Profiles
      BY <3>1, <1>t DEF RowOK
    <3>5. /\ session'[sid].subject = row.subject /\ session'[sid].profile = row.profile
          /\ session'[sid] # NoSession
      BY <3>1 DEF SessionsKept, Exists
    <3>6. NeedOK(c)'
      BY ZenonT(40), <3>1, <3>2, <3>3, <3>4, <3>5 DEF NeedOK, Exists
    <3> QED
      BY <3>2, <3>6 DEF GrantPcs
  <2> QED
    BY ZenonT(20), <1>6, <1>f, <2>1 DEF UseLookup
<1>7. ASSUME UseCheckGrant(c) PROVE Passed \/ Plain
  <2>1. CASE Permitted(c)
    <3>1. call'[c].pc = "use_forward" /\ call[c].pc = "use_grant"
      BY <1>7, <2>1, <1>t DEF UseCheckGrant, Goto, Handler
    <3> QED
      BY <3>1, <2>1, <1>p DEF GrantPcs, Serving
  <2> QED
    BY ZenonT(40), <1>7, <1>f, <2>1 DEF UseCheckGrant
<1>8. ASSUME NEW s \in Subjects, NEW sid \in Sessions,
             RenewAuthorize(c, s, sid) \/ RevokeAuthorize(c, s, sid)
      PROVE  Plain
  <2>1. CASE RenewAuthorize(c, s, sid)
    <3>1. call'[c].pc = "renew_update"
      BY <2>1, <1>t DEF RenewAuthorize, Handler
    <3> QED
      BY <3>1 DEF GrantPcs
  <2>2. CASE RevokeAuthorize(c, s, sid)
    <3>1. call'[c].pc = "revoke_update"
      BY <2>2, <1>t DEF RevokeAuthorize, Handler
    <3> QED
      BY <3>1 DEF GrantPcs
  <2> QED
    BY Zenon, <1>8, <2>1, <2>2
<1>9. ASSUME NEW sid \in Sessions, NEW p \in Profiles, UseStart(c, sid, p) PROVE Plain
  BY <1>9, <1>t DEF UseStart, Handler, GrantPcs
<1>10. ASSUME RevokeUpdate(c) PROVE Plain
  BY <1>10, <1>f, <1>t DEF RevokeUpdate, Goto, Handler, GrantPcs
<1>11. ASSUME CreateAudit(c) \/ RenewDeny(c) \/ RenewAudit(c) \/ RevokeAudit(c)
                \/ UseForward(c) \/ Abandon(c)
       PROVE  Plain
  BY <1>11, <1>f DEF CreateAudit, RenewDeny, RenewAudit, RevokeAudit, UseForward, Abandon
<1>12. Fresh \/ Passed \/ Plain
  BY ZenonT(40), <1>1, <1>2, <1>3, <1>4, <1>5, <1>6, <1>7, <1>8, <1>9, <1>10, <1>11 DEF CallStep
<1>a. call'[c].pc \in GrantPcs => Fresh
  BY ZenonT(40), <1>12
<1>b. call'[c].pc \in GrantPcs => Began(c) <= call'[c].at
  <2>1. Began(c) <= now
    BY <1>y DEF Began, BeganOK
  <2> QED
    BY <1>a, <2>1
<1>13. NeedOK(c)'
  BY ZenonT(40), <1>a DEF NeedOK, GrantPcs
<1>14. WitnessOK(c)'
  BY Zenon, <1>b, <1>g, <1>y, <1>13, GrantNoted
<1>h. BeganOK(c)' /\ (c \in witnessed /\ Serving(call'[c]) => c \in witnessed')
  BY <1>b, <1>g, <1>y, HistoryKept
<1>15. Passed => c \in witnessed'
  BY <1>12, <1>h DEF Serving
<1>16. ServedUnderLiveGrant'
  <2> SUFFICES ASSUME NEW d \in Calls,
                      call'[d].pc \in {"create_insert", "create_audit", "renew_audit", "use_forward"}
               PROVE  d \in witnessed'
    BY DEF ServedUnderLiveGrant
  <2>1. CASE d = c
    BY <2>1, <1>12, <1>15 DEF GrantPcs
  <2>2. CASE d # c
    BY <2>2, <1>o, <1>g DEF GrantedInv, ServedUnderLiveGrant, Serving
  <2> QED
    BY ZenonT(40), <2>1, <2>2
<1> QED
  BY <1>o, <1>13, <1>14, <1>h, <1>16 DEF GrantedInv

\* A session is created, renewed or used only for a request during which the
\* subject's grant for the profile was in the table, for the proxy, with an expiry
\* after the request began: although the grant is compared with a time read
\* before the previous await, and although a statement that writes a grant may
\* wait past the expiry it was checked for.
THEOREM ServedHaveGrants == Spec => []ServedUnderLiveGrant
<1>1. Init => GrantedInv
  <2> SUFFICES ASSUME Init PROVE GrantedInv
    OBVIOUS
  <2>1. \A c \in Calls : call[c].pc = "idle" /\ began[c] = 0
    BY IdleType DEF Init
  <2>2. \A c \in Calls : BeganOK(c)
    BY <2>1 DEF Init, BeganOK, GrantPcs
  <2> QED
    BY ZenonT(40), <2>1, <2>2 DEF GrantedInv, NeedOK, WitnessOK, GrantPcs, ServedUnderLiveGrant
<1>2. SessionInv /\ SessionInv' /\ GrantedInv /\ [Next]_vars => GrantedInv'
  <2> SUFFICES ASSUME SessionInv, SessionInv', GrantedInv, [Next]_vars PROVE GrantedInv'
    OBVIOUS
  <2>1. SessionsKept
    BY StepKeeps DEF SessionInv
  <2>2. CASE Restart
    <3>1. \A c \in Calls : call'[c].pc = "idle"
      BY <2>2, IdleType DEF Restart
    <3>2. \A c \in Calls : began'[c] = 0
      BY ZenonT(40), <2>2, <3>1 DEF Restart, Observe, Serving
    <3>3. \A c \in Calls : BeganOK(c)'
      BY <3>1, <3>2 DEF BeganOK, GrantPcs, SessionInv, Types
    <3> QED
      BY ZenonT(40), <3>1, <3>3
         DEF GrantedInv, NeedOK, WitnessOK, GrantPcs, ServedUnderLiveGrant
  <2>3. CASE ControlStep \/ Tick
    <3>1. now <= now'
      <4>1. now' = now \/ now' = now + 1
        BY ZenonT(40), <2>3 DEF ControlStep, CreateAgent, BeginAgentTx, CommitAgentTx,
           RollbackAgentTx, GrantProfile, RevokeProfile, Tick
      <4> QED
        BY <4>1 DEF SessionInv, Types
    <3> QED
      BY Zenon, <2>1, <2>3, <3>1, GrantedByOthers
  <2>4. CASE UNCHANGED vars
    BY ZenonT(40), <2>4 DEF vars, GrantedInv, NeedOK, WitnessOK, BeganOK, Permitted,
       ServedUnderLiveGrant, Exists
  <2> QED
    BY Zenon, <2>1, <2>2, <2>3, <2>4, GrantedByCall DEF Next
<1>3. GrantedInv => ServedUnderLiveGrant
  BY DEF GrantedInv
<1> QED
  BY <1>1, <1>2, <1>3, SessionInvariant, PTL DEF Spec
=============================================================================
