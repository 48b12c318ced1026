---------------------------- MODULE ProxySessions ----------------------------
(***************************************************************************)
(* Managed proxy sessions: the tables av_agents, av_capability_grants,     *)
(* av_proxy_sessions and av_proxy_session_bounds of src/src/store.rs, the  *)
(* handlers of src/src/server.rs that create, renew, revoke and use a      *)
(* session, and the control operations that change agents and grants.      *)
(*                                                                         *)
(* A handler is a sequence of actions, one per store call it awaits.  A    *)
(* store call reads the clock when it is made (call.at) and runs when the  *)
(* connection pool gets to it, so time may pass, and other handlers may    *)
(* commit, in between.                                                     *)
(***************************************************************************)
EXTENDS Integers

CONSTANTS
    Agents,             \* names of non-human principals (subject agent:NAME)
    Users,              \* OIDC, GitHub and Basic subjects
    Profiles,
    Sessions,           \* session ids; one capability token each
    Calls,              \* concurrent handlers
    None,               \* absent subject, profile or session
    SessionTtl,         \* session_ttl_seconds
    SessionMaxLifetime, \* session_max_lifetime_seconds
    LegacyGrants,       \* rows of av_profile_grants, left by an older release
    Backend,            \* "sqlite" or "postgres"
    GrantChoices,       \* bound: the <<mode, expiry>> pairs operators choose
    MaxTime,            \* bound: the clock stops here
    MaxMint,            \* bound: agent tokens minted
    MaxStarts           \* bound: process restarts

Subjects == Agents \cup Users

Never == -1     \* expires_unix_seconds IS NULL
NoGrant == [mode |-> "none", expires |-> Never]
GrantModes == {"both", "proxy", "environment"}

ASSUME SessionsAssumption ==
    /\ Agents \cap Users = {}
    /\ None \notin Subjects \cup Profiles \cup Sessions
    /\ SessionTtl \in Nat \ {0}
    /\ SessionMaxLifetime \in Nat
    /\ SessionTtl <= SessionMaxLifetime
    /\ LegacyGrants \subseteq Subjects \X Profiles
    /\ GrantChoices \subseteq GrantModes \X (Nat \cup {Never})
    /\ Backend \in {"sqlite", "postgres"}
    /\ MaxTime \in Nat /\ MaxMint \in Nat /\ MaxStarts \in Nat

VARIABLES
    now,        \* seconds since the epoch
    agent,      \* av_agents: the current token (0 = no row) and enabled
    minted,     \* agent tokens minted so far
    grant,      \* av_capability_grants
    session,    \* av_proxy_sessions joined with av_proxy_session_bounds
    held,       \* sessions whose token was returned to a caller
    audited,    \* sessions with a transparent_proxy_session_created event
    tx,         \* the open control transaction on each agent
    call,       \* the handlers
    starts,     \* process restarts so far, and when the last one was
    decided,    \* history: the last control decision on a grant
    began,      \* history: when each handler began that is not witnessed
    witnessed   \* history: handlers during which the proxy grant they need
                \* was in the table, to expire later than they began

vars == <<now, agent, minted, grant, session, held, audited, tx, call,
          starts, decided, began, witnessed>>

Grants == [mode : GrantModes, expires : Nat \cup {Never}]

Row(subject, profile, expires, max, revoked) ==
    [subject |-> subject, profile |-> profile, expires |-> expires, max |-> max,
     revoked |-> revoked]
NoSession == Row(None, None, 0, 0, FALSE)

NoTx == [kind |-> "none", token |-> 0, sessions |-> {}, profiles |-> {},
         found |-> {}, had |-> {}]
TxKinds == {"rotate", "enable", "disable", "delete"}

CallPcs == {"idle",
            "create_grant", "create_insert", "create_audit",
            "renew_update", "renew_grant", "renew_deny", "renew_audit",
            "revoke_update", "revoke_audit",
            "use_lookup", "use_grant", "use_forward"}

Handler(pc, subject, profile, sid, at, expires, max, late) ==
    [pc |-> pc, subject |-> subject, profile |-> profile, session |-> sid,
     at |-> at, expires |-> expires, max |-> max, late |-> late]
IdleCall == Handler("idle", None, None, None, 0, 0, 0, FALSE)

TypeOK ==
    /\ now \in Nat
    /\ agent \in [Agents -> [token : Nat, enabled : BOOLEAN]]
    /\ minted \in Nat
    /\ grant \in [Subjects \X Profiles -> Grants \cup {NoGrant}]
    /\ session \in [Sessions -> [subject : Subjects \cup {None},
                                 profile : Profiles \cup {None},
                                 expires : Nat, max : Nat,
                                 revoked : BOOLEAN]]
    /\ held \subseteq Sessions
    /\ audited \subseteq Sessions
    /\ tx \in [Agents -> [kind : TxKinds \cup {"none"}, token : Nat,
                          sessions : SUBSET Sessions,
                          profiles : SUBSET Profiles,
                          found : SUBSET Sessions,
                          had : SUBSET Profiles]]
    /\ call \in [Calls -> [pc : CallPcs,
                           subject : Subjects \cup {None},
                           profile : Profiles \cup {None},
                           session : Sessions \cup {None},
                           at : Nat, expires : Nat, max : Nat,
                           late : BOOLEAN]]
    /\ starts \in [count : Nat, at : Nat]
    /\ decided \in [Subjects \X Profiles -> {"never", "granted", "revoked"}]
    /\ began \in [Calls -> Nat]
    /\ witnessed \subseteq Calls

\* MIGRATE_PROFILE_GRANTS: ON CONFLICT DO NOTHING.
Migrated(g) ==
    [k \in Subjects \X Profiles |->
        IF k \in LegacyGrants /\ g[k] = NoGrant
        THEN [mode |-> "both", expires |-> Never] ELSE g[k]]

Init ==
    /\ now = 0
    /\ agent = [a \in Agents |-> [token |-> 0, enabled |-> FALSE]]
    /\ minted = 0
    /\ grant = Migrated([k \in Subjects \X Profiles |-> NoGrant])
    /\ session = [s \in Sessions |-> NoSession]
    /\ held = {}
    /\ audited = {}
    /\ tx = [a \in Agents |-> NoTx]
    /\ call = [c \in Calls |-> IdleCall]
    /\ starts = [count |-> 0, at |-> 0]
    /\ decided = [k \in Subjects \X Profiles |-> "never"]
    /\ began = [c \in Calls |-> 0]
    /\ witnessed = {}
-----------------------------------------------------------------------------
(* The database.                                                           *)

\* SQLite has one connection: nothing runs while a transaction is open.
DbFree == Backend = "sqlite" => \A a \in Agents : tx[a] = NoTx

\* Row locks of the open transactions.  Writers of these rows wait.
LockedSessions == UNION {tx[a].sessions : a \in Agents}
LockedGrants == {k \in Agents \X Profiles : k[2] \in tx[k[1]].profiles}

\* Store::profile_allowed_for, with the clock read at time t.
Live(g, mode, t) ==
    /\ g.mode \in {"both", mode}
    /\ g.expires = Never \/ g.expires > t

\* The sessions an UPDATE ... WHERE subject = a AND revoked = FALSE touches.
OpenSessions(a) ==
    {s \in Sessions : session[s].subject = a /\ ~session[s].revoked}

Revoke(S) == [s \in Sessions |->
                IF s \in S
                THEN Row(session[s].subject, session[s].profile, session[s].expires,
                         session[s].max, TRUE)
                ELSE session[s]]

Min2(i, j) == IF i <= j THEN i ELSE j

\* The grant a handler depends on: of its session once it has one, of the
\* authenticated subject before.
Need(c) ==
    IF call[c].session = None
    THEN <<call[c].subject, call[c].profile>>
    ELSE <<session[call[c].session].subject, session[call[c].session].profile>>

Began(c) == IF call[c].pc = "idle" THEN now ELSE began[c]

\* Handlers that may still issue, renew or use a session.
Serving(h) == h.pc \notin {"idle", "renew_deny", "revoke_update", "revoke_audit"}

\* Conjoined to every action: keeps the history variables.
Observe ==
    /\ witnessed' =
           {c \in Calls : /\ Serving(call'[c])
                          /\ c \in witnessed \/ Live(grant'[Need(c)'], "proxy", Began(c))}
    /\ began' = [c \in Calls |->
           IF Serving(call'[c]) /\ c \notin witnessed' THEN Began(c) ELSE 0]

-----------------------------------------------------------------------------
(* Control operations on agents.  rotate_agent_token, set_agent_enabled    *)
(* and delete_agent are transactions: BeginAgentTx stands for their        *)
(* statements up to the last UPDATE or DELETE, CommitAgentTx for COMMIT.   *)
(* found and had are history: the sessions and, for a deletion, the grants *)
(* the agent had when the statements ran.  On PostgreSQL a row inserted    *)
(* between them and the commit is neither seen nor changed.                *)

CreateAgent(a) ==
    /\ DbFree
    /\ tx[a] = NoTx
    /\ agent[a].token = 0
    /\ minted < MaxMint
    /\ agent' = [agent EXCEPT ![a] = [token |-> minted + 1, enabled |-> TRUE]]
    /\ minted' = minted + 1
    /\ UNCHANGED <<now, grant, session, held, audited, tx, call, starts, decided>>
    /\ Observe

\* Mutation: only deletion revokes the sessions of the agent.
RevokedByDeleteOnly(a, kind) == IF kind = "delete" THEN OpenSessions(a) ELSE {}

\* set_agent_enabled(TRUE) is the one change that leaves sessions alone.
RevokedBy(a, kind) == IF kind = "enable" THEN {} ELSE OpenSessions(a)

DeletedGrants(a, kind) ==
    IF kind = "delete" THEN {p \in Profiles : grant[<<a, p>>] # NoGrant} ELSE {}

BeginAgentTx(a, kind) ==
    /\ DbFree
    /\ tx[a] = NoTx
    /\ kind = "rotate" => minted < MaxMint
    /\ tx' = [tx EXCEPT ![a] =
         [kind |-> kind,
          token |-> IF kind = "rotate" THEN minted + 1 ELSE 0,
          sessions |-> RevokedBy(a, kind),
          profiles |-> DeletedGrants(a, kind),
          found |-> {s \in Sessions : session[s].subject = a},
          had |-> {p \in Profiles : kind = "delete" /\ grant[<<a, p>>] # NoGrant}]]
    /\ minted' = IF kind = "rotate" THEN minted + 1 ELSE minted
    /\ UNCHANGED <<now, agent, grant, session, held, audited, call, starts, decided>>
    /\ Observe

\* What the transaction leaves in av_agents: a missing row is not created.
AgentRow(a) ==
    IF agent[a].token = 0 THEN agent[a]
    ELSE CASE tx[a].kind = "rotate" -> [token |-> tx[a].token, enabled |-> TRUE]
           [] tx[a].kind = "enable" -> [token |-> agent[a].token, enabled |-> TRUE]
           [] tx[a].kind = "disable" -> [token |-> agent[a].token, enabled |-> FALSE]
           [] OTHER -> [token |-> 0, enabled |-> FALSE]

CommitAgentTx(a) ==
    LET gone == {a} \X tx[a].profiles
    IN  /\ tx[a] # NoTx
        /\ agent' = [agent EXCEPT ![a] = AgentRow(a)]
        /\ session' = Revoke(tx[a].sessions)
        /\ grant' = [k \in DOMAIN grant |->
                        IF k \in gone THEN NoGrant ELSE grant[k]]
        /\ decided' = [k \in DOMAIN decided |->
                        IF k[1] = a /\ k[2] \in tx[a].had
                        THEN "revoked" ELSE decided[k]]
        /\ tx' = [tx EXCEPT ![a] = NoTx]
        /\ UNCHANGED <<now, minted, held, audited, call, starts>>
        /\ Observe

\* A statement fails or the handler is dropped before COMMIT.
RollbackAgentTx(a) ==
    /\ tx[a] # NoTx
    /\ tx' = [tx EXCEPT ![a] = NoTx]
    /\ UNCHANGED <<now, agent, minted, grant, session, held, audited, call,
                   starts, decided>>
    /\ Observe

-----------------------------------------------------------------------------
(* Control operations on grants: one statement each.                       *)

\* Any moment since the process started may be the one at which the call read
\* the clock to compare the expiry with: it then waited for a connection, and
\* for the row, until now.
ClockReadings == starts.at..now

\* The statement does not look at the expiry again.
GrantProfile(k, mode, expires) ==
    /\ DbFree
    /\ k \notin LockedGrants
    /\ expires = Never \/ \E reading \in ClockReadings : expires > reading
    /\ grant' = [grant EXCEPT ![k] = [mode |-> mode, expires |-> expires]]
    /\ decided' = [decided EXCEPT ![k] = "granted"]
    /\ UNCHANGED <<now, agent, minted, session, held, audited, tx, call, starts>>
    /\ Observe

RevokeProfile(k) ==
    /\ DbFree
    /\ k \notin LockedGrants
    /\ grant[k] # NoGrant
    /\ grant' = [grant EXCEPT ![k] = NoGrant]
    /\ decided' = [decided EXCEPT ![k] = "revoked"]
    /\ UNCHANGED <<now, agent, minted, session, held, audited, tx, call, starts>>
    /\ Observe

-----------------------------------------------------------------------------
(* Handlers.  Only the handler's own record and what it names change.      *)

\* AuthService::authorize.  An agent is known by the hash of its current
\* token while it is enabled.
Authenticates(s) ==
    s \in Agents => agent[s].token # 0 /\ agent[s].enabled

Control == <<now, agent, minted, grant, tx, starts, decided>>

\* The handler awaits its next store call, for which the clock is read.
Goto(c, pc, subject, profile, sid) ==
    [call EXCEPT ![c] = Handler(pc, subject, profile, sid, now, 0, 0, call[c].late)]
Finish(c) == [call EXCEPT ![c] = IdleCall]

\* Mutation: the delivery mode of the grant is not looked at.
PermittedAnyMode(c) == grant[<<call[c].subject, call[c].profile>>] # NoGrant

\* profile_permitted(subject, profile, GrantMode::Proxy)
Permitted(c) ==
    Live(grant[<<call[c].subject, call[c].profile>>], "proxy", call[c].at)

\* create_proxy_session.
CreateAuthorize(c, s, p) ==
    /\ DbFree
    /\ call[c].pc = "idle"
    /\ Authenticates(s)
    /\ call' = Goto(c, "create_grant", s, p, None)
    /\ UNCHANGED <<Control, session, held, audited>>
    /\ Observe

\* The closure `expiration` of the handler.
Expiry(lifetime) == now + lifetime

\* profile_permitted, then the token and both expiries.  Bound: a session starts
\* early enough for the clock to reach the end of its absolute lifetime.
CreateCheckGrant(c) ==
    /\ DbFree
    /\ call[c].pc = "create_grant"
    /\ now + SessionMaxLifetime <= MaxTime
    /\ call' = IF Permitted(c)
               THEN [call EXCEPT ![c] =
                        Handler("create_insert", call[c].subject, call[c].profile, None, now,
                                Expiry(SessionTtl), Expiry(SessionMaxLifetime), FALSE)]
               ELSE Finish(c)
    /\ UNCHANGED <<Control, session, held, audited>>
    /\ Observe

\* The transaction that writes the session row and its bound.
CreateInsert(c, s) ==
    /\ DbFree
    /\ call[c].pc = "create_insert"
    /\ session[s] = NoSession
    /\ session' = [session EXCEPT ![s] =
         Row(call[c].subject, call[c].profile, call[c].expires, call[c].max, FALSE)]
    /\ call' = Goto(c, "create_audit", call[c].subject, call[c].profile, s)
    /\ UNCHANGED <<Control, held, audited>>
    /\ Observe

\* The token leaves the server only after the audit event is stored.
CreateAudit(c) ==
    /\ DbFree
    /\ call[c].pc = "create_audit"
    /\ audited' = audited \cup {call[c].session}
    /\ held' = held \cup {call[c].session}
    /\ call' = Finish(c)
    /\ UNCHANGED <<Control, session>>
    /\ Observe

\* renew_proxy_session: the session is extended first ...
RenewAuthorize(c, s, sid) ==
    /\ DbFree
    /\ call[c].pc = "idle"
    /\ Authenticates(s)
    /\ session[sid] # NoSession
    /\ call' = [call EXCEPT ![c] =
                   Handler("renew_update", s, None, sid, now, Expiry(SessionTtl), 0, FALSE)]
    /\ UNCHANGED <<Control, session, held, audited>>
    /\ Observe

\* Mutation: the UPDATE does not ask for revoked = FALSE.
RenewMatchesRevoked(c, row) ==
    row.subject = call[c].subject /\ row.expires > call[c].at /\ row.max > call[c].at

\* Mutation: the UPDATE does not ask for an unexpired session.
RenewMatchesExpired(c, row) ==
    row.subject = call[c].subject /\ ~row.revoked /\ row.max > call[c].at

\* The WHERE clause of renew_proxy_session_for_subject.
RenewMatches(c, row) ==
    /\ row.subject = call[c].subject
    /\ ~row.revoked
    /\ row.expires > call[c].at
    /\ row.max > call[c].at

\* Mutation: the expiry is not capped at the recorded maximum.
RenewedExpiryUncapped(c, row) == call[c].expires

\* LEAST(requested, maximum_expires_unix_seconds)
RenewedExpiry(c, row) == Min2(call[c].expires, row.max)

RenewUpdate(c) ==
    LET sid == call[c].session
        row == session[sid]
    IN  /\ DbFree
        /\ call[c].pc = "renew_update"
        /\ sid \notin LockedSessions
        /\ IF RenewMatches(c, row)
           THEN /\ session' = [session EXCEPT ![sid] =
                     Row(row.subject, row.profile, RenewedExpiry(c, row), row.max, FALSE)]
                /\ call' = Goto(c, "renew_grant", call[c].subject, row.profile, sid)
           ELSE /\ call' = Finish(c)
                /\ UNCHANGED session
        /\ UNCHANGED <<Control, held, audited>>
        /\ Observe

\* ... then the grant is read, and the session revoked when it is gone.
RenewCheckGrant(c) ==
    /\ DbFree
    /\ call[c].pc = "renew_grant"
    /\ call' = Goto(c, IF Permitted(c) THEN "renew_audit" ELSE "renew_deny",
                    call[c].subject, call[c].profile, call[c].session)
    /\ UNCHANGED <<Control, session, held, audited>>
    /\ Observe

RenewDeny(c) ==
    /\ DbFree
    /\ call[c].pc = "renew_deny"
    /\ call[c].session \notin LockedSessions
    /\ session' = Revoke({call[c].session})
    /\ call' = Finish(c)
    /\ UNCHANGED <<Control, held, audited>>
    /\ Observe

RenewAudit(c) ==
    /\ DbFree
    /\ call[c].pc = "renew_audit"
    /\ call' = Finish(c)
    /\ UNCHANGED <<Control, session, held, audited>>
    /\ Observe

\* revoke_proxy_session, bound to the caller's subject.
RevokeAuthorize(c, s, sid) ==
    /\ DbFree
    /\ call[c].pc = "idle"
    /\ Authenticates(s)
    /\ session[sid] # NoSession
    /\ call' = [call EXCEPT ![c] =
                   Handler("revoke_update", s, None, sid, 0, 0, 0, FALSE)]
    /\ UNCHANGED <<Control, session, held, audited>>
    /\ Observe

\* Mutation: the UPDATE selects by session id only.
RevokeMatchesAny(c, row) == ~row.revoked

\* The WHERE clause of revoke_proxy_session_for_subject.
RevokeMatches(c, row) == row.subject = call[c].subject /\ ~row.revoked

RevokeUpdate(c) ==
    LET sid == call[c].session
    IN  /\ DbFree
        /\ call[c].pc = "revoke_update"
        /\ sid \notin LockedSessions
        /\ session' = IF RevokeMatches(c, session[sid])
                      THEN Revoke({sid}) ELSE session
        /\ call' = [call EXCEPT ![c] =
                       Handler("revoke_audit", call[c].subject, None, sid, 0, 0, 0, FALSE)]
        /\ UNCHANGED <<Control, held, audited>>
        /\ Observe

RevokeAudit(c) ==
    /\ DbFree
    /\ call[c].pc = "revoke_audit"
    /\ call' = Finish(c)
    /\ UNCHANGED <<Control, session, held, audited>>
    /\ Observe

\* A request that presents a session token for a destination of profile p:
\* a CONNECT, or a request inside an intercepted tunnel.
UseStart(c, sid, p) ==
    /\ call[c].pc = "idle"
    /\ sid \in held
    /\ call' = [call EXCEPT ![c] =
                   Handler("use_lookup", None, p, sid, now, 0, 0, session[sid].revoked)]
    /\ UNCHANGED <<Control, session, held, audited>>
    /\ Observe

\* Mutation: active_proxy_session does not filter revoked sessions.
UseMatchesRevoked(c, row) ==
    row.expires > call[c].at /\ row.profile = call[c].profile

\* active_proxy_session, and the comparison with the destination's profile.
UseMatches(c, row) ==
    ~row.revoked /\ row.expires > call[c].at /\ row.profile = call[c].profile

UseLookup(c) ==
    LET row == session[call[c].session]
    IN  /\ DbFree
        /\ call[c].pc = "use_lookup"
        /\ call' = IF UseMatches(c, row)
                   THEN Goto(c, "use_grant", row.subject, call[c].profile, call[c].session)
                   ELSE Finish(c)
        /\ UNCHANGED <<Control, session, held, audited>>
        /\ Observe

UseCheckGrant(c) ==
    /\ DbFree
    /\ call[c].pc = "use_grant"
    /\ call' = IF Permitted(c)
               THEN Goto(c, "use_forward", call[c].subject, call[c].profile, call[c].session)
               ELSE Finish(c)
    /\ UNCHANGED <<Control, session, held, audited>>
    /\ Observe

\* The request goes to the upstream and its audit event is written.
UseForward(c) ==
    /\ DbFree
    /\ call[c].pc = "use_forward"
    /\ call' = Finish(c)
    /\ UNCHANGED <<Control, session, held, audited>>
    /\ Observe

\* A store call fails, or the caller disconnects and the handler is dropped.
Abandon(c) ==
    /\ call[c].pc # "idle"
    /\ call' = Finish(c)
    /\ UNCHANGED <<Control, session, held, audited>>
    /\ Observe

-----------------------------------------------------------------------------
Tick ==
    /\ now < MaxTime
    /\ now' = now + 1
    /\ UNCHANGED <<agent, minted, grant, session, held, audited, tx, call,
                   starts, decided>>
    /\ Observe

\* The process stops and Store::connect runs migrate again.  Handlers and
\* open transactions are gone, the tables stay.
Restart ==
    /\ starts.count < MaxStarts
    /\ starts' = [count |-> starts.count + 1, at |-> now]
    /\ grant' = Migrated(grant)
    /\ tx' = [a \in Agents |-> NoTx]
    /\ call' = [c \in Calls |-> IdleCall]
    /\ UNCHANGED <<now, agent, minted, session, held, audited, decided>>
    /\ Observe
-----------------------------------------------------------------------------
ControlStep ==
    \/ \E a \in Agents :
          \/ CreateAgent(a)
          \/ \E kind \in TxKinds : BeginAgentTx(a, kind)
          \/ CommitAgentTx(a)
          \/ RollbackAgentTx(a)
    \/ \E k \in Subjects \X Profiles :
          \/ \E g \in GrantChoices : GrantProfile(k, g[1], g[2])
          \/ RevokeProfile(k)

CallStep(c) ==
    \/ \E s \in Subjects, p \in Profiles : CreateAuthorize(c, s, p)
    \/ CreateCheckGrant(c)
    \/ \E sid \in Sessions : CreateInsert(c, sid)
    \/ CreateAudit(c)
    \/ \E s \in Subjects, sid \in Sessions : RenewAuthorize(c, s, sid)
    \/ RenewUpdate(c)
    \/ RenewCheckGrant(c)
    \/ RenewDeny(c)
    \/ RenewAudit(c)
    \/ \E s \in Subjects, sid \in Sessions : RevokeAuthorize(c, s, sid)
    \/ RevokeUpdate(c)
    \/ RevokeAudit(c)
    \/ \E sid \in Sessions, p \in Profiles : UseStart(c, sid, p)
    \/ UseLookup(c)
    \/ UseCheckGrant(c)
    \/ UseForward(c)
    \/ Abandon(c)

Next ==
    \/ ControlStep
    \/ \E c \in Calls : CallStep(c)
    \/ Tick
    \/ Restart

Spec == Init /\ [][Next]_vars

\* Time passes.
FairSpec == Spec /\ WF_vars(Tick)

-----------------------------------------------------------------------------
(* Properties.                                                             *)

Exists(s) == session[s] # NoSession
Active(s) == Exists(s) /\ ~session[s].revoked /\ session[s].expires > now

\* No sequence of renewals carries a session past the absolute expiry written
\* when it was created (av_proxy_session_bounds), and that bound is at most
\* SessionMaxLifetime away from any moment at which the session is active.
AbsoluteLifetime ==
    \A s \in Sessions :
        Exists(s) => /\ session[s].expires <= session[s].max
                     /\ Active(s) => session[s].max <= now + SessionMaxLifetime

\* An expired session can come back in one way only: through a RenewProxySession
\* that read the clock before the expiry and whose UPDATE ran after it.
ExpiryUndoneOnlyByRenewalInFlight ==
    [][\A s \in Sessions :
         Exists(s) /\ ~Active(s) /\ Active(s)' =>
            \E c \in Calls : /\ call[c].pc = "renew_update"
                             /\ call[c].session = s
                             /\ call[c].subject = session[s].subject
                             /\ call[c].at < session[s].expires]_vars

\* A session row is changed only on behalf of its own subject: by a handler
\* authenticated as that subject, or by a control transaction on the agent.
SessionsChangedForTheirSubject ==
    [][\A s \in Sessions : Exists(s) /\ session'[s] # session[s] =>
         \/ \E c \in Calls : /\ call[c].session = s
                             /\ call[c].subject = session[s].subject
                             /\ call'[c].pc # call[c].pc
         \/ \E a \in Agents : a = session[s].subject /\ tx[a] # NoTx]_vars

\* The credential of agent a is withdrawn by this step: rotated, disabled or deleted.
Withdrawn(a) ==
    /\ agent[a].token # 0
    /\ \/ agent'[a].token # agent[a].token
       \/ agent[a].enabled /\ ~agent'[a].enabled

\* When a rotation, disable or deletion of an agent commits, no proxy session
\* that the agent had when the transaction updated its sessions is active any
\* more, whatever was renewed meanwhile.  On SQLite those are all its sessions;
\* on PostgreSQL a session inserted before the commit is not among them.
WithdrawalEndsSessions ==
    [][\A a \in Agents : Withdrawn(a) =>
         \A s \in Sessions :
            /\ s \in tx[a].found => ~Active(s)'
            /\ Backend = "sqlite" /\ session[s].subject = a => ~Active(s)']_vars

\* A proxy request that began after its session was revoked is never sent to
\* the upstream, however its two store reads interleave with other handlers.
LateUseRefused ==
    \A c \in Calls : call[c].pc \in {"use_grant", "use_forward"} => ~call[c].late

\* A session is issued, a renewal acknowledged and a proxy request sent only if,
\* at some moment since the handler began, the grant it needs was in the table
\* for proxy delivery and had an expiry after the moment the handler began.  An
\* environment-only grant, one revoked before and one expired before never
\* serve.  A grant written before its expiry was thus live at a moment of the
\* request; one whose statement waited past its own expiry
\* (grant_profile_mode compares before it waits) may still serve requests that
\* began before that expiry.
ServedUnderLiveGrant ==
    \A c \in Calls :
        call[c].pc \in {"create_insert", "create_audit", "renew_audit",
                        "use_forward"} => c \in witnessed

\* Whoever holds a session token, its creation is on record: the audit event is
\* stored before the token leaves the server.
DeliveredSessionsAudited == held \subseteq {s \in audited : Exists(s)}

\* A grant is in force because the last control decision granted it, or it
\* came with the upgraded database and no decision was ever taken on it.
\* Neither a restart nor the deletion of an agent revives or keeps another.
GrantsFollowDecisions ==
    \A k \in Subjects \X Profiles : grant[k] # NoGrant =>
        \/ decided[k] = "granted"
        \/ decided[k] = "never" /\ k \in LegacyGrants

\* Restarting the process leaves no proxy session active.
RestartEndsSessions ==
    [][starts' # starts => \A s \in Sessions : ~Active(s)']_vars

Promise == INSTANCE SessionCapability WITH
    Capabilities <- Sessions, Owners <- Subjects, Scopes <- Profiles,
    Unminted <- NoSession, MaxLifetime <- SessionMaxLifetime,
    clock <- now, capability <- session

\* The tables, handlers and transactions implement the capability they stand
\* for: every step mints, extends or ends one, lets time pass, or changes none.
\* No renewal in flight moves an expiry past the absolute end, nor changes a
\* session that was revoked meanwhile.
ImplementsPromise == Promise!CapabilitySpec

\* Every session ends for good, however often it is renewed.
SessionsEnd == \A s \in Sessions : <>[](~Active(s))
=============================================================================
