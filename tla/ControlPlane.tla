---------------------------- MODULE ControlPlane ----------------------------
(***************************************************************************)
(* The management surface of src/src/server.rs over src/src/store.rs: the  *)
(* ControlService calls and the owner forms of the browser interface.      *)
(*                                                                         *)
(* Every handler authenticates the caller, reads their role, validates the *)
(* request, makes one store call and writes one audit event; a form then   *)
(* renders the owner panel from several more reads.  Each of these is an   *)
(* await, so other handlers run in between.  A request is described by     *)
(* what its handler demands and does.  A store call is one step: this is   *)
(* the managed SQLite store, whose single connection serialises calls      *)
(* (PrincipalRoles and ProxySessions split the calls for PostgreSQL).      *)
(***************************************************************************)
EXTENDS WireValues, Integers, Sequences, FiniteSets

CONSTANTS
    BasicNames, AgentNames, OidcNames, GithubNames,
    ConfiguredProfiles,     \* a sequence, in the order of the BTreeMap
    RpcHandlers, FormHandlers,  \* concurrent handlers
    MaxCalls,                   \* bound: calls of a behaviour
    Bootstrapped,               \* the rows a behaviour starts with
    \* The inputs to consider.  A password is represented by its length.
    Passwords, Usernames, Agentnames, SubjectTexts, ProfileTexts, RoleBindings,
    RpcGrants, FormGrants, Identities

ASSUME ControlPlaneAssumption ==
    ConfiguredProfiles \in Seq({ConfiguredProfiles[i] : i \in DOMAIN ConfiguredProfiles})

VARIABLES
    db,         \* the rows: roles, users, agents, grants
    minted,     \* agent tokens minted so far; a token is its number
    handler,    \* what each handler is doing
    made,       \* calls begun
    trail,      \* calls that have an audit event
    committed,  \* history: calls whose change reached the database
    acked       \* history: calls answered with success

controlVars == <<db, minted, handler, made, trail, committed, acked>>

Subjects ==
    ({"basic"} \X BasicNames) \cup ({"agent"} \X AgentNames)
        \cup ({"oidc"} \X OidcNames) \cup ({"github"} \X GithubNames)
ProfileNames == {ConfiguredProfiles[i] : i \in DOMAIN ConfiguredProfiles}
RoleNames == {"owner", "operator", "auditor", "user"}
Handlers == RpcHandlers \cup FormHandlers
Clock == 1      \* now_unix_seconds

Idle == [pc |-> "idle"]

ControlInit ==
    /\ db = Bootstrapped
    /\ minted = Cardinality({a \in AgentNames : db.agents[a] # Absent}) /\ made = 0
    /\ handler = [h \in Handlers |-> Idle]
    /\ trail = {} /\ committed = {} /\ acked = {}
-----------------------------------------------------------------------------
(* Roles and credentials                                                   *)

RoleIn(d, s) == IF d.roles[s] = Absent THEN "user" ELSE d.roles[s]
CanOperate(role) == role \in {"owner", "operator"}
CanAudit(role) == role \in {"owner", "auditor"}

\* require_owner, require_operator, require_auditor and their ui_ forms
AllowedFor(needs, role) ==
    CASE needs = "owner" -> role = "owner"
      [] needs = "operator" -> CanOperate(role)
      [] needs = "auditor" -> CanAudit(role)

\* Mutation: a disabled account is accepted.
BasicAcceptsDisabled(d, name, password) ==
    d.users[name] # Absent /\ d.users[name].password = password

\* basic_password_hash, with the comparison of authorize_basic
BasicAccepts(d, name, password) ==
    /\ d.users[name] # Absent /\ d.users[name].enabled
    /\ d.users[name].password = password

\* agent_for_token_hash
AgentAccepts(d, name, token) ==
    /\ d.agents[name] # Absent /\ d.agents[name].enabled
    /\ d.agents[name].token = token

\* A credential is <<kind, name, secret>>.  AV keeps no OIDC accounts.
Authenticates(d, credential) ==
    CASE credential[1] = "basic" -> BasicAccepts(d, credential[2], credential[3])
      [] credential[1] = "agent" -> AgentAccepts(d, credential[2], credential[3])
      [] OTHER -> TRUE

Presented ==
    ({"basic"} \X BasicNames \X Passwords)
        \cup ({"agent"} \X AgentNames \X (1..minted))
        \cup ({"oidc"} \X OidcNames \X {0})
Actor(credential) == <<credential[1], credential[2]>>
-----------------------------------------------------------------------------
(* Store calls                                                             *)

UpsertBasicUser(d, name, password) ==
    [d EXCEPT !.users[name] = [password |-> password, enabled |-> TRUE]]
SetBasicUserEnabled(d, name, enabled) == [d EXCEPT !.users[name].enabled = enabled]
InsertAgent(d, name, token) ==
    [d EXCEPT !.agents[name] = [token |-> token, enabled |-> TRUE]]
RotateAgentToken(d, name, token) == [d EXCEPT !.agents[name].token = token]
SetAgentEnabled(d, name, enabled) == [d EXCEPT !.agents[name].enabled = enabled]
\* delete_agent: the agent and its grants; a role bound to it stays
DeleteAgent(d, name) ==
    [d EXCEPT !.agents[name] = Absent,
              !.grants = [k \in DOMAIN @ |->
                             IF k[1] = <<"agent", name>> THEN Absent ELSE @[k]]]
SetPrincipalRole(d, subject, role) == [d EXCEPT !.roles[subject] = role]
GrantProfileMode(d, key, grant) == [d EXCEPT !.grants[key] = grant]
RevokeProfile(d, key) == [d EXCEPT !.grants[key] = Absent]

\* list_basic_users, list_agents, list_principal_roles, list_profile_grants
ListBasicUsers(d) == {u \in BasicNames : d.users[u] # Absent}
ListAgents(d) == {a \in AgentNames : d.agents[a] # Absent}
ListPrincipalRoles(d) == d.roles
ListGrants(d, profile) == [s \in Subjects |-> d.grants[<<s, profile>>]]

RecordAudit(events, number) == events \cup {number}

OwnersIn(d) == {s \in Subjects : RoleIn(d, s) = "owner"}

\* What the store call returns: "done", or why nothing changes.
StoreResult(d, r) ==
    CASE r.store \in {"list", "upsert_basic_user"} -> "done"
      [] r.store = "set_basic_user_enabled" ->
             IF d.users[r.target] = Absent THEN "missing" ELSE "done"
      [] r.store = "create_agent" ->
             IF d.agents[r.target] = Absent THEN "done" ELSE "exists"
      [] r.store \in {"rotate_agent_token", "set_agent_enabled", "delete_agent"} ->
             IF d.agents[r.target] = Absent THEN "missing" ELSE "done"
      [] r.store = "set_principal_role" ->
             IF OwnersIn(d) = {r.target} /\ r.value # "owner" THEN "last owner"
             ELSE "done"
      [] r.store = "grant_profile_mode" ->
             IF r.value.expires # Absent /\ r.value.expires <= Clock
             THEN "past expiry" ELSE "done"
      [] r.store = "revoke_profile" ->
             IF d.grants[r.target] = Absent THEN "missing" ELSE "done"

Stored(d, r, token) ==
    CASE r.store = "list" -> d
      [] r.store = "upsert_basic_user" -> UpsertBasicUser(d, r.target, r.value)
      [] r.store = "set_basic_user_enabled" -> SetBasicUserEnabled(d, r.target, r.value)
      [] r.store = "create_agent" -> InsertAgent(d, r.target, token)
      [] r.store = "rotate_agent_token" -> RotateAgentToken(d, r.target, token)
      [] r.store = "set_agent_enabled" -> SetAgentEnabled(d, r.target, r.value)
      [] r.store = "delete_agent" -> DeleteAgent(d, r.target)
      [] r.store = "set_principal_role" -> SetPrincipalRole(d, r.target, r.value)
      [] r.store = "grant_profile_mode" -> GrantProfileMode(d, r.target, r.value)
      [] r.store = "revoke_profile" -> RevokeProfile(d, r.target)

Changing(r) == r.store # "list"
\* mint_agent_token
Minting(r) == r.store \in {"create_agent", "rotate_agent_token"}
-----------------------------------------------------------------------------
(* Requests: what each handler demands and does                            *)

Request(surface, needs, valid, store, target, value) ==
    [surface |-> surface, needs |-> needs, valid |-> valid, store |-> store,
     target |-> target, value |-> value]
Rpc(needs, valid, store, target, value) ==
    Request("rpc", needs, valid, store, target, value)
Form(needs, valid, store, target, value) ==
    Request("ui", needs, valid, store, target, value)

ValidBasicUsername(u) == u # Malformed
ValidAgentName(a) == a # Malformed
ValidPolicySubject(s) == s # Malformed
ValidPassword(p) == p \in 12..1024
KnownProfileName(p) == p \in ProfileNames
ParseGrantMode(m) == IF m = "" THEN "both" ELSE m
ValidGrantMode(m) == m \in {"", "both", "proxy", "environment"}

RpcListBasicUsers == Rpc("operator", TRUE, "list", Absent, Absent)
RpcUpsertBasicUser(u, p) ==
    Rpc("operator", ValidBasicUsername(u) /\ ValidPassword(p), "upsert_basic_user", u, p)
RpcSetBasicUserEnabled(u, e) ==
    Rpc("operator", ValidBasicUsername(u), "set_basic_user_enabled", u, e)
RpcListAgents == Rpc("operator", TRUE, "list", Absent, Absent)
RpcCreateAgent(a) == Rpc("operator", ValidAgentName(a), "create_agent", a, Absent)
RpcRotateAgent(a) == Rpc("operator", ValidAgentName(a), "rotate_agent_token", a, Absent)
RpcSetAgentEnabled(a, e) == Rpc("operator", ValidAgentName(a), "set_agent_enabled", a, e)
RpcDeleteAgent(a) == Rpc("operator", ValidAgentName(a), "delete_agent", a, Absent)
RpcListPrincipalRoles == Rpc("owner", TRUE, "list", Absent, Absent)
RpcSetPrincipalRole(s, r) ==
    Rpc("owner", ValidPolicySubject(s) /\ r \in RoleNames, "set_principal_role", s, r)
RpcListAuditEvents == Rpc("auditor", TRUE, "list", Absent, Absent)
RpcListProfileGrants(p) == Rpc("operator", KnownProfileName(p), "list", Absent, Absent)
\* An expiry of zero means that the grant does not expire.
RpcGrantProfile(s, p, m, e) ==
    Rpc("operator", KnownProfileName(p) /\ ValidPolicySubject(s) /\ ValidGrantMode(m),
        "grant_profile_mode", <<s, p>>,
        [mode |-> ParseGrantMode(m), expires |-> IF e = 0 THEN Absent ELSE e])
RpcRevokeProfile(s, p) ==
    Rpc("operator", KnownProfileName(p) /\ ValidPolicySubject(s),
        "revoke_profile", <<s, p>>, Absent)

UiOwner == Form("operator", TRUE, "list", Absent, Absent)
UiUpsertBasicUser(u, p) ==
    Form("operator", ValidBasicUsername(u) /\ ValidPassword(p), "upsert_basic_user", u, p)
UiSetBasicUserEnabled(u, e) ==
    Form("operator", ValidBasicUsername(u), "set_basic_user_enabled", u, e)
UiCreateAgent(a) == Form("operator", ValidAgentName(a), "create_agent", a, Absent)
UiRotateAgent(a) == Form("operator", ValidAgentName(a), "rotate_agent_token", a, Absent)
UiSetAgentEnabled(a, e) == Form("operator", ValidAgentName(a), "set_agent_enabled", a, e)
UiDeleteAgent(a) == Form("operator", ValidAgentName(a), "delete_agent", a, Absent)
UiSetPrincipalRole(s, r) ==
    Form("owner", ValidPolicySubject(s) /\ r \in RoleNames, "set_principal_role", s, r)
\* Here an empty field means no expiry, and zero is a date in the past.
UiGrantProfileSubject(s, p, m, e) ==
    Form("operator", /\ KnownProfileName(p) /\ ValidPolicySubject(s)
                     /\ ValidGrantMode(m) /\ e # Malformed,
         "grant_profile_mode", <<s, p>>, [mode |-> ParseGrantMode(m), expires |-> e])
UiRevokeProfile(s, p) ==
    Form("operator", KnownProfileName(p) /\ ValidPolicySubject(s),
         "revoke_profile", <<s, p>>, Absent)

\* The subject a form names by kind and identity, Malformed if refused.  An
\* identity is a prefix and a name, the prefix "" being none of AV's.
ExternalIdentitySubject(kind, identity) ==
    CASE kind = "github" /\ identity[1] = "" /\ identity[2] \in GithubNames ->
             <<"github", identity[2]>>
      [] kind = "oidc" /\ identity[1] = "" /\ identity[2] \in OidcNames ->
             <<"oidc", identity[2]>>
      [] kind = "oidc" /\ identity[1] = "agent" /\ identity[2] \in AgentNames ->
             <<"agent", identity[2]>>
      [] OTHER -> Malformed
UiGrantExternalProfile(kind, identity, p, m, e) ==
    UiGrantProfileSubject(ExternalIdentitySubject(kind, identity), p, m, e)
-----------------------------------------------------------------------------
(* The steps of a handler                                                  *)

\* The credential was valid, and the role sufficient, at some moment of the call.
SignedIn(d, credential) ==
    LET row == CASE credential[1] = "basic" -> d.users[credential[2]]
                 [] credential[1] = "agent" -> d.agents[credential[2]]
    IN  \/ credential[1] = "oidc"
        \/ /\ row # Absent /\ row.enabled
           /\ credential[3] = IF credential[1] = "basic" THEN row.password ELSE row.token
Sufficient(d, c) ==
    LET role == d.roles[Actor(c.credential)]
    IN  \/ role = "owner"
        \/ role = "operator" /\ c.request.needs = "operator"
        \/ role = "auditor" /\ c.request.needs = "auditor"

\* Subjects whose row on the owner panel differs between two database states.
Differing(d, e) ==
    {s \in Subjects :
        \/ d.roles[s] # e.roles[s]
        \/ \E p \in ProfileNames : d.grants[<<s, p>>] # e.grants[<<s, p>>]
        \/ s[1] = "basic" /\ (d.users[s[2]] = Absent) # (e.users[s[2]] = Absent)
        \/ s[1] = "agent" /\ (d.agents[s[2]] = Absent) # (e.agents[s[2]] = Absent)}

\* The histories of a call after the database changes from d to e.
Observing(c, d, e) ==
    IF c.pc = "idle" THEN c
    ELSE [c EXCEPT !.signedIn = @ \/ SignedIn(e, c.credential),
                   !.sufficient = @ \/ Sufficient(e, c),
                   !.touched = IF c.request.surface = "ui" THEN @ \cup Differing(d, e)
                               ELSE @]

NoPanel == [users |-> {}, agents |-> {}, roles |-> <<>>, manages |-> FALSE, grants |-> <<>>]

\* The caller authenticates; changes by a form also require a trusted Origin.  A
\* request that the validation after the role check refuses changes nothing
\* and is left out here.
Receive(h, credential, r, trusted) ==
    /\ handler[h] = Idle /\ made < MaxCalls
    /\ r.valid
    /\ r.surface = "ui" /\ Changing(r) => trusted
    /\ Authenticates(db, credential)
    /\ made' = made + 1
    /\ LET call == [pc |-> "called", number |-> made + 1, credential |-> credential,
                    request |-> r, signedIn |-> SignedIn(db, credential),
                    sufficient |-> FALSE, touched |-> {}, panel |-> NoPanel]
       IN  handler' = [handler EXCEPT
                           ![h] = [call EXCEPT !.sufficient = Sufficient(db, call)]]
    /\ UNCHANGED <<db, minted, trail, committed, acked>>

\* require_owner, require_operator or require_auditor
CheckRole(h) ==
    /\ handler[h].pc = "called"
    /\ handler' = [handler EXCEPT ![h] =
           IF AllowedFor(@.request.needs, RoleIn(db, Actor(@.credential)))
           THEN [@ EXCEPT !.pc = "checked"] ELSE Idle]
    /\ UNCHANGED <<db, minted, made, trail, committed, acked>>

\* The success answer of a call: the RPC reply, or the owner panel.
Answering(c) ==
    IF c.request.surface = "ui" THEN [c EXCEPT !.pc = "users", !.touched = {}] ELSE Idle

\* After the store call: lists are answered, changes are audited.
AfterStore(c) ==
    IF Changing(c.request) THEN [c EXCEPT !.pc = "committed"] ELSE Answering(c)

CallStore(h) ==
    LET c == handler[h]
        token == IF Minting(c.request) THEN minted + 1 ELSE minted
    IN  /\ c.pc = "checked"
        /\ minted' = token
        /\ IF StoreResult(db, c.request) = "done"
           THEN /\ db' = Stored(db, c.request, token)
                /\ committed' = IF Changing(c.request) THEN committed \cup {c.number}
                                ELSE committed
                \* the answer, or an error after a commit whose answer was lost
                /\ \E next \in {AfterStore(c), Idle} :
                      handler' = [k \in Handlers |->
                          Observing(IF k = h THEN next ELSE handler[k], db, db')]
           ELSE /\ handler' = [handler EXCEPT ![h] = Idle]
                /\ UNCHANGED <<db, committed>>
        /\ UNCHANGED <<made, trail, acked>>

\* Mutation: a failure to write the event is ignored.
AuditIgnored == {TRUE, FALSE}

\* Whether the event was written, in the calls that continue after audit_event:
\* an error ends the call without its success answer (Fail below).
AuditWritten == {TRUE}

AuditCall(h) ==
    LET c == handler[h]
    IN  /\ c.pc = "committed"
        /\ \E written \in AuditWritten :
              trail' = IF written THEN RecordAudit(trail, c.number) ELSE trail
        /\ handler' = [handler EXCEPT ![h] = Answering(c)]
        /\ acked' = IF c.request.surface = "rpc" THEN acked \cup {c.number} ELSE acked
        /\ UNCHANGED <<db, minted, made, committed>>

\* A store or audit call fails, or the client goes away and the handler is dropped.
Fail(h) ==
    /\ handler[h].pc # "idle"
    /\ handler' = [handler EXCEPT ![h] = Idle]
    /\ UNCHANGED <<db, minted, made, trail, committed, acked>>
-----------------------------------------------------------------------------
(* render_owner_panel: one read after another                              *)

PanelStep(h, pc, next, panel) ==
    /\ handler[h].pc = pc
    /\ handler' = [handler EXCEPT ![h].pc = next, ![h].panel = panel]
    /\ UNCHANGED <<db, minted, made, trail, committed, acked>>

ReadUsers(h) ==
    PanelStep(h, "users", "agents",
        [handler[h].panel EXCEPT !.users = ListBasicUsers(db)])
ReadAgents(h) ==
    PanelStep(h, "agents", "roles",
        [handler[h].panel EXCEPT !.agents = ListAgents(db)])
ReadRoles(h) ==
    PanelStep(h, "roles", "viewer", [handler[h].panel EXCEPT !.roles = ListPrincipalRoles(db)])
\* One read for each profile, and then the page.
AfterReads(read) == IF read = Len(ConfiguredProfiles) THEN "shown" ELSE "grants"
ReadViewer(h) ==
    PanelStep(h, "viewer", AfterReads(0),
        [handler[h].panel EXCEPT !.manages =
            RoleIn(db, Actor(handler[h].credential)) = "owner"])
ReadGrants(h) ==
    LET read == Len(handler[h].panel.grants)
        rows == ListGrants(db, ConfiguredProfiles[read + 1])
    IN  PanelStep(h, "grants", AfterReads(read + 1),
                  [handler[h].panel EXCEPT !.grants = Append(@, rows)])

\* The browser has the page.
Shown(h) ==
    /\ handler[h].pc = "shown"
    /\ handler' = [handler EXCEPT ![h] = Idle]
    /\ acked' = acked \cup ({handler[h].number} \cap committed)
    /\ UNCHANGED <<db, minted, made, trail, committed>>

PanelRow(panel, s) ==
    [subject |-> s,
     role |-> IF panel.roles[s] = Absent THEN "user" ELSE panel.roles[s],
     grants |-> [i \in DOMAIN panel.grants |-> panel.grants[i][s]]]

\* Mutation: a subject with a grant and a role is listed twice.
PrincipalsGetRole(panel) ==
    LET accounts == {<<"basic", u>> : u \in panel.users}
        workers  == {<<"agent", a>> : a \in panel.agents}
        granted  == {s \in Subjects : \E i \in DOMAIN panel.grants :
                                          panel.grants[i][s] # Absent}
        bound    == {s \in Subjects : panel.roles[s] # Absent}
        parts    == <<accounts, workers, granted \ (accounts \cup workers),
                      bound \ (accounts \cup workers)>>
    IN  [i \in DOMAIN parts |-> {PanelRow(panel, s) : s \in parts[i]}]

\* The rows of the page in the order they are added; each part takes what the
\* parts before it left in grants_by_subject and roles_by_subject.
Principals(panel) ==
    LET accounts == {<<"basic", u>> : u \in panel.users}
        workers  == {<<"agent", a>> : a \in panel.agents}
        granted  == {s \in Subjects : \E i \in DOMAIN panel.grants :
                                          panel.grants[i][s] # Absent}
        bound    == {s \in Subjects : panel.roles[s] # Absent}
        parts    == <<accounts, workers, granted \ (accounts \cup workers),
                      bound \ (accounts \cup workers \cup granted)>>
    IN  [i \in DOMAIN parts |-> {PanelRow(panel, s) : s \in parts[i]}]
-----------------------------------------------------------------------------
Bool == {TRUE, FALSE}

ReceiveRpc(h, c) ==
    \/ Receive(h, c, RpcListBasicUsers, FALSE)
    \/ Receive(h, c, RpcListAgents, FALSE)
    \/ Receive(h, c, RpcListPrincipalRoles, FALSE)
    \/ Receive(h, c, RpcListAuditEvents, FALSE)
    \/ \E p \in ProfileTexts : Receive(h, c, RpcListProfileGrants(p), FALSE)
    \/ \E u \in Usernames, p \in Passwords : Receive(h, c, RpcUpsertBasicUser(u, p), FALSE)
    \/ \E u \in Usernames, e \in Bool : Receive(h, c, RpcSetBasicUserEnabled(u, e), FALSE)
    \/ \E a \in Agentnames :
          \/ Receive(h, c, RpcCreateAgent(a), FALSE)
          \/ Receive(h, c, RpcRotateAgent(a), FALSE)
          \/ Receive(h, c, RpcDeleteAgent(a), FALSE)
          \/ \E e \in Bool : Receive(h, c, RpcSetAgentEnabled(a, e), FALSE)
    \/ \E b \in RoleBindings : Receive(h, c, RpcSetPrincipalRole(b[1], b[2]), FALSE)
    \/ \E s \in SubjectTexts, p \in ProfileTexts :
          Receive(h, c, RpcRevokeProfile(s, p), FALSE)
    \/ \E g \in RpcGrants : Receive(h, c, RpcGrantProfile(g[1], g[2], g[3], g[4]), FALSE)

ReceiveForm(h, c, trusted) ==
    \/ Receive(h, c, UiOwner, trusted)
    \/ \E u \in Usernames, p \in Passwords : Receive(h, c, UiUpsertBasicUser(u, p), trusted)
    \/ \E u \in Usernames, e \in Bool : Receive(h, c, UiSetBasicUserEnabled(u, e), trusted)
    \/ \E a \in Agentnames :
          \/ Receive(h, c, UiCreateAgent(a), trusted)
          \/ Receive(h, c, UiRotateAgent(a), trusted)
          \/ Receive(h, c, UiDeleteAgent(a), trusted)
          \/ \E e \in Bool : Receive(h, c, UiSetAgentEnabled(a, e), trusted)
    \/ \E b \in RoleBindings : Receive(h, c, UiSetPrincipalRole(b[1], b[2]), trusted)
    \/ \E s \in SubjectTexts, p \in ProfileTexts :
          Receive(h, c, UiRevokeProfile(s, p), trusted)
    \/ \E g \in FormGrants :
          Receive(h, c, UiGrantProfileSubject(g[1], g[2], g[3], g[4]), trusted)
    \/ \E kind \in {"github", "oidc"}, i \in Identities, p \in ProfileTexts :
          Receive(h, c, UiGrantExternalProfile(kind, i, p, "", Absent), trusted)

ControlNext ==
    \/ \E c \in Presented :
          \/ \E h \in RpcHandlers : ReceiveRpc(h, c)
          \/ \E h \in FormHandlers, trusted \in Bool : ReceiveForm(h, c, trusted)
    \/ \E h \in Handlers :
          \/ CheckRole(h) \/ CallStore(h) \/ AuditCall(h) \/ Fail(h)
          \/ ReadUsers(h) \/ ReadAgents(h) \/ ReadRoles(h) \/ ReadViewer(h)
          \/ ReadGrants(h) \/ Shown(h)

ControlSpec == ControlInit /\ [][ControlNext]_controlVars
-----------------------------------------------------------------------------
(* A change reaches the database only if, at moments of the same call, the *)
(* caller's credential was accepted and their role was sufficient.  Roles, *)
(* passwords and tokens may change between the check of a handler and its  *)
(* commit; an account disabled, or a role withdrawn, before a call began   *)
(* changes nothing in it.                                                  *)
AuthorizedWithinCall ==
    \A h \in Handlers :
        handler[h].pc \notin {"idle", "called"} =>
            handler[h].signedIn /\ handler[h].sufficient

(* The audit trail and the answers agree with the database: a change that  *)
(* was answered with success has its event, and every event is of a change *)
(* that was committed.  Between commit and event the call may fail, and    *)
(* then the caller sees an error for a change that is in force.            *)
AuditTrailMatches == acked \subseteq trail /\ trail \subseteq committed

(* An owner panel is put together from reads at different moments.  Every  *)
(* account, agent, grant holder and role holder that did not change while  *)
(* it was rendered is on it exactly once, with their role and grants, and  *)
(* nobody else is.                                                         *)
PanelFaithful ==
    \A h \in Handlers : handler[h].pc = "shown" =>
        LET page == Principals(handler[h].panel)
            Rows(s) == {entry \in UNION {{i} \X page[i] : i \in DOMAIN page} :
                            entry[2].subject = s}
            known(s) == \/ db.roles[s] # Absent
                        \/ \E p \in ProfileNames : db.grants[<<s, p>>] # Absent
                        \/ s[1] = "basic" /\ db.users[s[2]] # Absent
                        \/ s[1] = "agent" /\ db.agents[s[2]] # Absent
        IN  \A s \in Subjects \ handler[h].touched :
                IF known(s)
                THEN \E i \in DOMAIN page : Rows(s) =
                        {<<i, [subject |-> s, role |-> RoleIn(db, s),
                               grants |-> [j \in DOMAIN ConfiguredProfiles |->
                                   db.grants[<<s, ConfiguredProfiles[j]>>]]]>>}
                ELSE Rows(s) = {}
=============================================================================
