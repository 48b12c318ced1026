---------------------------- MODULE BrowserLogin ----------------------------
(***************************************************************************)
(* GitHub login of the browser interface: GithubBrowserAuth and the        *)
(* github_* handlers of src/src/server.rs.                                 *)
(*                                                                         *)
(* A browser may start several logins; its one state cookie names the last *)
(* of them.  A callback may reach any browser, at any time and more than   *)
(* once: redirects are replayed, reloaded and opened in another window.    *)
(* GitHub is external: it hands out a code for the account that approved a *)
(* login and redeems the code with the verifier of that login only.        *)
(***************************************************************************)
EXTENDS WireValues, Integers, FiniteSets

CONSTANTS
    Browsers, Accounts,
    Logins,             \* state values; each is used by at most one login
    AllowedUsers, AllowedOrganizations,
    Membership(_, _),   \* what GitHub answers: "active", "pending", "none"
    Callbacks,          \* concurrent callback handlers
    AuthTtl, SessionTtlBrowser,
    MaxBrowserTime      \* bound of the clock

\* Absent stands for no cookie, no approval and no login.
ASSUME BrowserLoginAssumption ==
    /\ Absent \notin Logins /\ Absent \notin Accounts
    /\ Absent \notin [browser : Browsers, account : Accounts \cup {Absent}]

VARIABLES
    browserNow,
    login,          \* per state value: the browser that started it, the account that approved
    pendingLogin,   \* GithubBrowserAuth.pending: expiry per state value, or Absent
    stateCookie,    \* per browser: its state cookie, or Absent
    sessionCookie,  \* per browser: the login its session cookie comes from, or Absent
    callback,       \* what each callback handler is doing
    browserSession, \* GithubBrowserAuth.sessions: per login
    loggedIn        \* history: logins that ever had a session

browserVars == <<browserNow, login, pendingLogin, stateCookie, sessionCookie,
                 callback, browserSession, loggedIn>>

Waiting == [pc |-> "idle"]

BrowserInit ==
    /\ browserNow = 0
    /\ login = [l \in Logins |-> Absent]
    /\ pendingLogin = [l \in Logins |-> Absent]
    /\ stateCookie = [b \in Browsers |-> Absent]
    /\ sessionCookie = [b \in Browsers |-> Absent]
    /\ callback = [c \in Callbacks |-> Waiting]
    /\ browserSession = [l \in Logins |-> Absent]
    /\ loggedIn = {}

BrowserTick ==
    /\ browserNow < MaxBrowserTime /\ browserNow' = browserNow + 1
    /\ UNCHANGED <<login, pendingLogin, stateCookie, sessionCookie, callback,
                   browserSession, loggedIn>>

\* retain(|item| item.expires_at > now)
Unexpired(items) ==
    [l \in Logins |-> IF items[l] # Absent /\ items[l].expires > browserNow
                      THEN items[l] ELSE Absent]
-----------------------------------------------------------------------------
\* github_start and GithubBrowserAuth::start
GithubStart(b, l) ==
    /\ login[l] = Absent
    /\ login' = [login EXCEPT ![l] = [browser |-> b, account |-> Absent]]
    /\ pendingLogin' = [Unexpired(pendingLogin) EXCEPT
                           ![l] = [expires |-> browserNow + AuthTtl]]
    /\ stateCookie' = [stateCookie EXCEPT ![b] = l]
    /\ UNCHANGED <<browserNow, sessionCookie, callback,
                   browserSession, loggedIn>>

\* GitHub: somebody with the browser approves as one of their accounts.
Approve(l, account) ==
    /\ login[l] # Absent /\ login[l].account = Absent
    /\ login' = [login EXCEPT ![l].account = account]
    /\ UNCHANGED <<browserNow, pendingLogin, stateCookie, sessionCookie, callback,
                   browserSession, loggedIn>>

\* Mutation: any state cookie will do.
AnyCookie(b, l) == stateCookie[b] # Absent

\* The state of the query must be the one in the browser's cookie.
CookieMatches(b, l) == stateCookie[b] = l

\* finish consumes the pending login whether or not it has expired.
Consumed(l) == [pendingLogin EXCEPT ![l] = Absent]

\* github_callback_rejected and github_callback_success
StateCookieCleared(b) == stateCookie' = [stateCookie EXCEPT ![b] = Absent]

\* github_callback up to the exchange of the code.  The query carries state l and
\* the code of login k.
GithubCallback(c, b, l, k) ==
    /\ callback[c] = Waiting
    /\ login[l] # Absent /\ login[k] # Absent /\ login[k].account # Absent
    /\ IF ~CookieMatches(b, l)
       THEN StateCookieCleared(b) /\ UNCHANGED <<pendingLogin, callback>>
       ELSE /\ pendingLogin' = Consumed(l)
            /\ IF pendingLogin[l] # Absent /\ pendingLogin[l].expires > browserNow
               THEN /\ callback' = [callback EXCEPT ![c] =
                           [pc |-> "exchange", browser |-> b, login |-> l, code |-> k]]
                    /\ UNCHANGED stateCookie
               ELSE StateCookieCleared(b) /\ UNCHANGED callback
    /\ UNCHANGED <<browserNow, login, sessionCookie, browserSession, loggedIn>>

\* GitHub answers the token request; the verifier is that of login l.
Exchange(c) ==
    /\ callback[c].pc = "exchange"
    /\ IF callback[c].code = callback[c].login
       THEN callback' = [callback EXCEPT ![c].pc = "membership"] /\ UNCHANGED stateCookie
       ELSE StateCookieCleared(callback[c].browser) /\ callback' = [callback EXCEPT ![c] = Waiting]
    /\ UNCHANGED <<browserNow, login, pendingLogin, sessionCookie, browserSession, loggedIn>>

\* has_active_organization_membership
ActiveMember(account, organization) == Membership(account, organization) = "active"

\* is_allowed_user
AllowedUser(account) ==
    \/ account \in AllowedUsers
    \/ \E o \in AllowedOrganizations : ActiveMember(account, o)

\* create_session, and github_callback_success, which sets one cookie and clears the other
FinishLogin(c) ==
    LET l == callback[c].login
        b == callback[c].browser
    IN  /\ callback[c].pc = "membership"
        /\ IF AllowedUser(login[callback[c].code].account)
           THEN /\ browserSession' = [Unexpired(browserSession) EXCEPT ![l] =
                       [subject |-> login[callback[c].code].account,
                        expires |-> browserNow + SessionTtlBrowser]]
                /\ sessionCookie' = [sessionCookie EXCEPT ![b] = l]
                /\ loggedIn' = loggedIn \cup {l}
           ELSE UNCHANGED <<browserSession, sessionCookie, loggedIn>>
        /\ StateCookieCleared(b)
        /\ callback' = [callback EXCEPT ![c] = Waiting]
        /\ UNCHANGED <<browserNow, login, pendingLogin>>

\* GitHub cannot be reached or answers with an error.
CallbackFails(c) ==
    /\ callback[c] # Waiting
    /\ StateCookieCleared(callback[c].browser)
    /\ callback' = [callback EXCEPT ![c] = Waiting]
    /\ UNCHANGED <<browserNow, login, pendingLogin, sessionCookie, browserSession, loggedIn>>

\* github_logout
GithubLogout(b) ==
    /\ sessionCookie[b] # Absent
    /\ browserSession' = [browserSession EXCEPT ![sessionCookie[b]] = Absent]
    /\ sessionCookie' = [sessionCookie EXCEPT ![b] = Absent]
    /\ UNCHANGED <<browserNow, login, pendingLogin, stateCookie, callback, loggedIn>>

\* ui_identity of a browser that presents its cookie: session_identity drops what
\* has expired before it looks
UiIdentity(b) ==
    /\ sessionCookie[b] # Absent
    /\ browserSession' = Unexpired(browserSession)
    /\ UNCHANGED <<browserNow, login, pendingLogin, stateCookie, sessionCookie, callback,
                   loggedIn>>

BrowserNext ==
    \/ BrowserTick
    \/ \E b \in Browsers :
          \/ \E l \in Logins : GithubStart(b, l)
          \/ GithubLogout(b) \/ UiIdentity(b)
    \/ \E l \in Logins, account \in Accounts : Approve(l, account)
    \/ \E c \in Callbacks :
          \/ \E b \in Browsers, l, k \in Logins : GithubCallback(c, b, l, k)
          \/ Exchange(c) \/ FinishLogin(c) \/ CallbackFails(c)

BrowserSpec == BrowserInit /\ [][BrowserNext]_browserVars
-----------------------------------------------------------------------------
(* A browser is logged in only as the account that approved a login which  *)
(* this very browser started, however callbacks are mixed up between       *)
(* browsers and logins.                                                    *)
LoggedInAsApproved ==
    \A b \in Browsers :
        LET l == sessionCookie[b]
        IN  l # Absent /\ browserSession[l] # Absent =>
                /\ login[l].browser = b
                /\ browserSession[l].subject = login[l].account

(* Only accounts on the list, or active members of a listed organization   *)
(* at the time of the login, have sessions.                                *)
SessionsAdmitted ==
    \A l \in Logins : browserSession[l] # Absent =>
        \/ browserSession[l].subject \in AllowedUsers
        \/ \E o \in AllowedOrganizations :
              Membership(browserSession[l].subject, o) = "active"

(* A session that ended, by logout or by its time, stays ended, and none   *)
(* is replaced: a callback cannot be used a second time, even when two     *)
(* copies of it are handled at once.                                       *)
LoginUsedOnce ==
    [][\A l \in loggedIn : browserSession'[l] \in {browserSession[l], Absent}]_browserVars

(* A browser session comes from one approved login of that browser and of  *)
(* an admitted account, and from no second use of it (github_callback).    *)
BrowserSessionsRightful == [](LoggedInAsApproved /\ SessionsAdmitted) /\ LoginUsedOnce
=============================================================================
