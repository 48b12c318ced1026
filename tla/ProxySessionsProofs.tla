------------------------ MODULE ProxySessionsProofs -------------------------
(***************************************************************************)
(* Proofs about ProxySessions, for every set of agents, users, profiles,   *)
(* sessions and handlers, any lifetimes and bounds, and both databases.    *)
(***************************************************************************)
EXTENDS ProxySessions, TLAPS

Rows == [subject : Subjects \cup {None}, profile : Profiles \cup {None},
         expires : Nat, max : Nat, revoked : BOOLEAN]
Handlers == [pc : CallPcs, subject : Subjects \cup {None}, profile : Profiles \cup {None},
             session : Sessions \cup {None}, at : Nat, expires : Nat, max : Nat,
             late : BOOLEAN]
Txs == [kind : TxKinds \cup {"none"}, token : Nat, sessions : SUBSET Sessions,
        profiles : SUBSET Profiles, found : SUBSET Sessions, had : SUBSET Profiles]
-----------------------------------------------------------------------------
(* Type correctness.                                                       *)

\* A row of Row's arguments is a row of av_proxy_sessions.
LEMMA RowType ==
    ASSUME NEW s \in Subjects \cup {None}, NEW p \in Profiles \cup {None},
           NEW e \in Nat, NEW m \in Nat, NEW r \in BOOLEAN
    PROVE  /\ Row(s, p, e, m, r) \in Rows
           /\ Row(s, p, e, m, r).subject = s /\ Row(s, p, e, m, r).profile = p
           /\ Row(s, p, e, m, r).expires = e /\ Row(s, p, e, m, r).max = m
           /\ Row(s, p, e, m, r).revoked = r
BY DEF Row, Rows

\* A record of Handler's arguments is the state of a handler.
LEMMA HandlerType ==
    ASSUME NEW pc \in CallPcs, NEW s \in Subjects \cup {None}, NEW p \in Profiles \cup {None},
           NEW sid \in Sessions \cup {None}, NEW t \in Nat, NEW e \in Nat, NEW m \in Nat,
           NEW l \in BOOLEAN
    PROVE  /\ Handler(pc, s, p, sid, t, e, m, l) \in Handlers
           /\ Handler(pc, s, p, sid, t, e, m, l).pc = pc
           /\ Handler(pc, s, p, sid, t, e, m, l).subject = s
           /\ Handler(pc, s, p, sid, t, e, m, l).profile = p
           /\ Handler(pc, s, p, sid, t, e, m, l).session = sid
           /\ Handler(pc, s, p, sid, t, e, m, l).at = t
           /\ Handler(pc, s, p, sid, t, e, m, l).expires = e
           /\ Handler(pc, s, p, sid, t, e, m, l).max = m
           /\ Handler(pc, s, p, sid, t, e, m, l).late = l
BY DEF Handler, Handlers

\* The initial handler and row.
LEMMA IdleType ==
    /\ IdleCall \in Handlers /\ IdleCall.pc = "idle" /\ NoSession \in Rows
    /\ NoSession.subject = None /\ ~NoSession.revoked
    /\ NoSession.expires = 0 /\ NoSession.max = 0
BY DEF IdleCall, NoSession, Handler, Handlers, Row, Rows, CallPcs

\* Legacy rows become grants.
LEMMA MigratedType ==
    ASSUME NEW g \in [Subjects \X Profiles -> Grants \cup {NoGrant}]
    PROVE  Migrated(g) \in [Subjects \X Profiles -> Grants \cup {NoGrant}]
BY DEF Migrated, Grants, GrantModes, NoGrant, Never

\* Revoking keeps the table a table.
LEMMA RevokeType ==
    ASSUME session \in [Sessions -> Rows], NEW S
    PROVE  /\ Revoke(S) \in [Sessions -> Rows]
           /\ \A s \in Sessions :
                 /\ Revoke(S)[s].subject = session[s].subject
                 /\ Revoke(S)[s].profile = session[s].profile
                 /\ Revoke(S)[s].expires = session[s].expires
                 /\ Revoke(S)[s].max = session[s].max
                 /\ Revoke(S)[s].revoked = (s \in S \/ session[s].revoked)
                 /\ s \notin S => Revoke(S)[s] = session[s]
BY ZenonT(20) DEF Revoke, Row, Rows

\* TypeOK with the records named.
Types ==
    /\ now \in Nat /\ minted \in Nat /\ starts \in [count : Nat, at : Nat]
    /\ agent \in [Agents -> [token : Nat, enabled : BOOLEAN]]
    /\ grant \in [Subjects \X Profiles -> Grants \cup {NoGrant}]
    /\ session \in [Sessions -> Rows]
    /\ held \subseteq Sessions /\ audited \subseteq Sessions
    /\ tx \in [Agents -> Txs]
    /\ call \in [Calls -> Handlers]
    /\ decided \in [Subjects \X Profiles -> {"never", "granted", "revoked"}]
    /\ began \in [Calls -> Nat]
    /\ witnessed \subseteq Calls

\* The two forms are one.
LEMMA TypesAreTypeOK == Types <=> TypeOK
BY DEF Types, TypeOK, Rows, Handlers, Txs

\* Init establishes the types.
LEMMA TypesInit == Init => Types
<1> SUFFICES ASSUME Init PROVE Types
  OBVIOUS
<1>1. grant \in [Subjects \X Profiles -> Grants \cup {NoGrant}]
  BY MigratedType DEF Init
<1>2. tx \in [Agents -> Txs]
  BY DEF Init, NoTx, Txs
<1> QED
  BY <1>1, <1>2, IdleType DEF Init, Types

\* What every action notes of the handlers has its type.
LEMMA HistoryType ==
    ASSUME Types, Observe PROVE witnessed' \subseteq Calls /\ began' \in [Calls -> Nat]
<1>1. \A c \in Calls : Began(c) \in Nat
  BY DEF Began, Types
<1> QED
  BY <1>1 DEF Observe

\* The control operations keep the types.
LEMMA TypesControl == Types /\ ControlStep => Types'
<1> SUFFICES ASSUME Types, ControlStep PROVE Types'
  OBVIOUS
<1>w. ASSUME Observe PROVE witnessed' \subseteq Calls /\ began' \in [Calls -> Nat]
  BY <1>w, HistoryType
<1>1. ASSUME NEW a \in Agents, CreateAgent(a) PROVE Types'
  BY <1>1, <1>w DEF CreateAgent, Types
<1>2. ASSUME NEW a \in Agents, NEW kind \in TxKinds, BeginAgentTx(a, kind) PROVE Types'
  <2>1. RevokedBy(a, kind) \subseteq Sessions /\ DeletedGrants(a, kind) \subseteq Profiles
    BY DEF RevokedBy, OpenSessions, DeletedGrants
  <2>2. tx' \in [Agents -> Txs] /\ minted' \in Nat
    BY <1>2, <2>1 DEF BeginAgentTx, Types, Txs
  <2> QED
    BY <1>2, <1>w, <2>2 DEF BeginAgentTx, Types
<1>n. NoTx \in Txs
  BY DEF NoTx, Txs
<1>3. ASSUME NEW a \in Agents, CommitAgentTx(a) PROVE Types'
  <2>1. AgentRow(a) \in [token : Nat, enabled : BOOLEAN]
    BY DEF AgentRow, Types, Txs
  <2>2. session' \in [Sessions -> Rows]
    BY <1>3, RevokeType DEF CommitAgentTx, Types
  <2>3. grant' \in [Subjects \X Profiles -> Grants \cup {NoGrant}]
    BY <1>3 DEF CommitAgentTx, Types
  <2>4. decided' \in [Subjects \X Profiles -> {"never", "granted", "revoked"}]
    BY <1>3 DEF CommitAgentTx, Types
  <2> QED
    BY <1>3, <1>w, <1>n, <2>1, <2>2, <2>3, <2>4 DEF CommitAgentTx, Types
<1>4. ASSUME NEW a \in Agents, RollbackAgentTx(a) PROVE Types'
  BY <1>4, <1>w, <1>n DEF RollbackAgentTx, Types
<1>5. ASSUME NEW k \in Subjects \X Profiles, NEW g \in GrantChoices,
             GrantProfile(k, g[1], g[2])
      PROVE Types'
  <2>1. [mode |-> g[1], expires |-> g[2]] \in Grants
    BY SessionsAssumption DEF Grants
  <2> QED
    BY <1>5, <1>w, <2>1 DEF GrantProfile, Types
<1>6. ASSUME NEW k \in Subjects \X Profiles, RevokeProfile(k) PROVE Types'
  BY <1>6, <1>w DEF RevokeProfile, Types
<1> QED
  BY <1>1, <1>2, <1>3, <1>4, <1>5, <1>6 DEF ControlStep

\* Where a handler has a session.
SessionPcs == {"create_audit", "renew_update", "renew_grant", "renew_deny", "renew_audit",
               "revoke_update", "revoke_audit", "use_lookup", "use_grant", "use_forward"}
HasSession(c) ==
    call[c].pc \in SessionPcs => call[c].session \in Sessions /\ Exists(call[c].session)

\* A step of a handler keeps the types.
LEMMA TypesCall ==
    ASSUME NEW c \in Calls, Types, HasSession(c), CallStep(c) PROVE Types'
<1>w. ASSUME Observe PROVE witnessed' \subseteq Calls /\ began' \in [Calls -> Nat]
  BY <1>w, HistoryType
<1>p. /\ call[c] \in Handlers /\ call[c].pc \in CallPcs /\ call[c].late \in BOOLEAN
      /\ call[c].subject \in Subjects \cup {None} /\ call[c].profile \in Profiles \cup {None}
      /\ call[c].session \in Sessions \cup {None}
      /\ call[c].expires \in Nat /\ call[c].max \in Nat /\ now \in Nat
  BY DEF Types, Handlers
<1>r. \A s \in Sessions :
         /\ session[s] \in Rows /\ session[s].subject \in Subjects \cup {None}
         /\ session[s].profile \in Profiles \cup {None} /\ session[s].expires \in Nat
         /\ session[s].max \in Nat /\ session[s].revoked \in BOOLEAN
  BY DEF Types, Rows
<1>f. Finish(c) \in [Calls -> Handlers]
  BY IdleType DEF Finish, Types
<1>g. \A pc \in CallPcs, s \in Subjects \cup {None}, p \in Profiles \cup {None},
         sid \in Sessions \cup {None} : Goto(c, pc, s, p, sid) \in [Calls -> Handlers]
  BY ZenonT(20), <1>p, HandlerType DEF Goto, Types
<1>h. \A h \in Handlers : [call EXCEPT ![c] = h] \in [Calls -> Handlers]
  BY DEF Types
\* Every action of a handler but CreateInsert, RenewUpdate, RenewDeny and
\* RevokeUpdate leaves the tables alone.
<1>q. ASSUME call' \in [Calls -> Handlers], UNCHANGED <<Control, session>>,
             held' \subseteq Sessions, audited' \subseteq Sessions, Observe
      PROVE  Types'
  BY <1>q, <1>w DEF Control, Types
<1>s. ASSUME call' \in [Calls -> Handlers], session' \in [Sessions -> Rows],
             UNCHANGED <<Control, held, audited>>, Observe
      PROVE  Types'
  BY <1>s, <1>w DEF Control, Types
<1>t. /\ SessionTtl \in Nat /\ SessionMaxLifetime \in Nat /\ held \subseteq Sessions
      /\ audited \subseteq Sessions
  BY SessionsAssumption DEF Types
<1>1. ASSUME NEW s \in Subjects, NEW p \in Profiles, CreateAuthorize(c, s, p) PROVE Types'
  <2>1. call' \in [Calls -> Handlers]
    BY <1>1, <1>g DEF CreateAuthorize, CallPcs
  <2> QED
    BY <1>1, <1>q, <1>t, <2>1 DEF CreateAuthorize
<1>2. CASE CreateCheckGrant(c)
  <2>1. Handler("create_insert", call[c].subject, call[c].profile, None, now,
                Expiry(SessionTtl), Expiry(SessionMaxLifetime), FALSE) \in Handlers
    BY <1>p, <1>t DEF Expiry, CallPcs, Handler, Handlers
  <2>2. call' \in [Calls -> Handlers]
    BY ZenonT(20), <1>2, <1>f, <1>h, <2>1 DEF CreateCheckGrant
  <2> QED
    BY ZenonT(20), <1>2, <1>q, <1>t, <2>2 DEF CreateCheckGrant
<1>3. ASSUME NEW s \in Sessions, CreateInsert(c, s) PROVE Types'
  <2>1. call' \in [Calls -> Handlers]
    BY ZenonT(20), <1>3, <1>g, <1>p DEF CreateInsert, CallPcs
  <2>2. session' \in [Sessions -> Rows]
    BY ZenonT(20), <1>3, <1>p, RowType DEF CreateInsert, Types
  <2> QED
    BY ZenonT(20), <1>3, <1>s, <2>1, <2>2 DEF CreateInsert
<1>4. CASE CreateAudit(c)
  <2>1. call[c].session \in Sessions
    BY <1>4 DEF CreateAudit, HasSession, SessionPcs
  <2> QED
    BY <1>4, <1>f, <1>q, <1>t, <2>1 DEF CreateAudit
<1>5. ASSUME NEW s \in Subjects, NEW sid \in Sessions, RenewAuthorize(c, s, sid) PROVE Types'
  <2>1. Handler("renew_update", s, None, sid, now, Expiry(SessionTtl), 0, FALSE) \in Handlers
    BY <1>p, <1>t DEF Expiry, CallPcs, Handler, Handlers
  <2> QED
    BY ZenonT(20), <1>5, <1>h, <1>q, <1>t, <2>1 DEF RenewAuthorize
<1>6. CASE RenewUpdate(c)
  <2> DEFINE sid == call[c].session
             row == session[sid]
  <2>1. sid \in Sessions
    BY <1>6 DEF RenewUpdate, HasSession, SessionPcs
  <2>2. RenewedExpiry(c, row) \in Nat
    BY <1>p, <1>r, <2>1 DEF RenewedExpiry, Min2
  <2>3. Row(row.subject, row.profile, RenewedExpiry(c, row), row.max, FALSE) \in Rows
    BY ZenonT(20), <1>r, <2>1, <2>2, RowType
  <2>4. session' \in [Sessions -> Rows]
    BY ZenonT(20), <1>6, <2>3 DEF RenewUpdate, Types
  <2>5. Goto(c, "renew_grant", call[c].subject, row.profile, sid) \in [Calls -> Handlers]
    BY ZenonT(20), <1>g, <1>p, <1>r, <2>1 DEF CallPcs
  <2>6. call' \in [Calls -> Handlers]
    BY ZenonT(20), <1>6, <1>f, <2>5 DEF RenewUpdate
  <2> QED
    BY <1>6, <1>s, <2>4, <2>6 DEF RenewUpdate
<1>7. CASE RenewCheckGrant(c)
  <2>1. call' \in [Calls -> Handlers]
    BY <1>7, <1>g, <1>p DEF RenewCheckGrant, CallPcs
  <2> QED
    BY <1>7, <1>q, <1>t, <2>1 DEF RenewCheckGrant
<1>8. CASE RenewDeny(c)
  BY <1>8, <1>f, <1>s, RevokeType DEF RenewDeny, Types
<1>10. ASSUME NEW s \in Subjects, NEW sid \in Sessions, RevokeAuthorize(c, s, sid) PROVE Types'
  <2>1. Handler("revoke_update", s, None, sid, 0, 0, 0, FALSE) \in Handlers
    BY DEF CallPcs, Handler, Handlers
  <2> QED
    BY ZenonT(20), <1>10, <1>h, <1>q, <1>t, <2>1 DEF RevokeAuthorize
<1>11. CASE RevokeUpdate(c)
  <2>1. Handler("revoke_audit", call[c].subject, None, call[c].session, 0, 0, 0, FALSE)
            \in Handlers
    BY <1>p DEF CallPcs, Handler, Handlers
  <2>2. session' \in [Sessions -> Rows]
    BY <1>11, RevokeType DEF RevokeUpdate, Types
  <2> QED
    BY ZenonT(20), <1>11, <1>h, <1>s, <2>1, <2>2 DEF RevokeUpdate
<1>13. ASSUME NEW sid \in Sessions, NEW p \in Profiles, UseStart(c, sid, p) PROVE Types'
  <2>1. Handler("use_lookup", None, p, sid, now, 0, 0, session[sid].revoked) \in Handlers
    BY <1>p, <1>r DEF CallPcs, Handler, Handlers
  <2> QED
    BY <1>13, <1>h, <1>q, <1>t, <2>1 DEF UseStart
<1>14. CASE UseLookup(c)
  <2>1. call[c].session \in Sessions
    BY <1>14 DEF UseLookup, HasSession, SessionPcs
  <2>2. call' \in [Calls -> Handlers]
    BY ZenonT(20), <1>14, <1>f, <1>g, <1>p, <1>r, <2>1 DEF UseLookup, CallPcs
  <2> QED
    BY <1>14, <1>q, <1>t, <2>2 DEF UseLookup
<1>15. CASE UseCheckGrant(c)
  <2>1. call' \in [Calls -> Handlers]
    BY <1>15, <1>f, <1>g, <1>p DEF UseCheckGrant, CallPcs
  <2> QED
    BY <1>15, <1>q, <1>t, <2>1 DEF UseCheckGrant
<1>16. CASE RenewAudit(c) \/ RevokeAudit(c) \/ UseForward(c) \/ Abandon(c)
  BY <1>16, <1>f, <1>q, <1>t DEF RenewAudit, RevokeAudit, UseForward, Abandon
<1> QED
  BY <1>1, <1>2, <1>3, <1>4, <1>5, <1>6, <1>7, <1>8, <1>10, <1>11, <1>13, <1>14, <1>15, <1>16
     DEF CallStep

-----------------------------------------------------------------------------
(* The inductive invariant.                                                *)

\* A row names a subject and a profile, and ends within its lifetime.
RowOK(s) ==
    Exists(s) => /\ session[s].subject \in Subjects /\ session[s].profile \in Profiles
                 /\ session[s].expires <= session[s].max
                 /\ session[s].max <= now + SessionMaxLifetime

\* What a handler knows is still true, whatever ran since it learnt it.
CallOK(c) ==
    /\ HasSession(c)
    /\ call[c].pc \in {"create_grant", "create_insert"} =>
           call[c].subject \in Subjects /\ call[c].profile \in Profiles
    /\ call[c].pc = "create_insert" =>
           call[c].expires <= call[c].max /\ call[c].max <= now + SessionMaxLifetime
    /\ call[c].pc \in {"renew_grant", "renew_deny"} =>
           call[c].subject = session[call[c].session].subject
    /\ call[c].pc = "use_lookup" /\ call[c].late => session[call[c].session].revoked
    /\ call[c].pc \in {"use_grant", "use_forward"} => ~call[c].late

\* An open transaction still covers the sessions it found; on SQLite they are
\* all sessions of the agent.
TxOK(a) ==
    /\ tx[a].sessions \subseteq tx[a].found
    /\ \A s \in tx[a].found : session[s].subject = a
    /\ tx[a].kind \in {"rotate", "disable", "delete"} =>
           \A s \in tx[a].found : s \in tx[a].sessions \/ session[s].revoked
    /\ tx[a] # NoTx => tx[a].kind \in TxKinds
    /\ Backend = "sqlite" /\ tx[a] # NoTx =>
           \A s \in Sessions : session[s].subject = a => s \in tx[a].found

SessionInv ==
    /\ Types
    /\ \A s \in Sessions : RowOK(s)
    /\ \A c \in Calls : CallOK(c)
    /\ \A a \in Agents : TxOK(a)
    /\ DeliveredSessionsAudited

\* A row with a subject is not the missing row.
LEMMA NamedExists ==
    ASSUME NEW s \in Sessions, session[s].subject \in Subjects
    PROVE  Exists(s)
BY SessionsAssumption, IdleType DEF Exists

\* Init establishes the invariant.
LEMMA SessionInvInit == Init => SessionInv
<1> SUFFICES ASSUME Init PROVE SessionInv
  OBVIOUS
<1>1. \A s \in Sessions : RowOK(s)
  BY DEF Init, RowOK, Exists
<1>2. \A c \in Calls : CallOK(c)
  BY IdleType DEF Init, CallOK, HasSession, SessionPcs
<1>3. \A a \in Agents : TxOK(a)
  BY ZenonT(20) DEF Init, TxOK, NoTx
<1>4. DeliveredSessionsAudited
  BY DEF Init, DeliveredSessionsAudited
<1> QED
  BY <1>1, <1>2, <1>3, <1>4, TypesInit DEF SessionInv
-----------------------------------------------------------------------------
(* The refinement: every step is a step of the capability.                 *)

\* A control operation withdraws sessions or leaves them alone.
LEMMA ControlRefines ==
    ASSUME SessionInv, ControlStep
    PROVE  Promise!CapabilityNext \/ UNCHANGED <<now, session>>
<1>1. ASSUME NEW a \in Agents, CommitAgentTx(a) PROVE Promise!CapabilityNext
  <2>1. tx[a].sessions \subseteq Sessions
    BY DEF SessionInv, Types, Txs
  <2>2. \A s \in tx[a].sessions : session[s] # NoSession
    BY <2>1, NamedExists DEF SessionInv, TxOK, Subjects, Exists
  <2>3. session' = Revoke(tx[a].sessions) /\ now' = now
    BY <1>1 DEF CommitAgentTx
  <2>4. Promise!Withdraw(tx[a].sessions)
    BY <2>1, <2>2, <2>3 DEF Promise!Withdraw, Revoke, Row
  <2> QED
    BY <2>1, <2>4 DEF Promise!CapabilityNext
<1> QED
  BY <1>1 DEF ControlStep, CreateAgent, BeginAgentTx, RollbackAgentTx, GrantProfile,
              RevokeProfile

\* A step of a handler mints, extends or withdraws one session, or none.
LEMMA CallRefines ==
    ASSUME SessionInv, NEW c \in Calls, CallStep(c)
    PROVE  Promise!CapabilityNext \/ UNCHANGED <<now, session>>
<1>h. call[c] \in Handlers /\ CallOK(c) /\ now \in Nat
  BY DEF SessionInv, Types
<1>1. ASSUME NEW s \in Sessions, CreateInsert(c, s) PROVE Promise!CapabilityNext
  <2>1. /\ call[c].subject \in Subjects /\ call[c].profile \in Profiles
        /\ call[c].max \in 0 .. now + SessionMaxLifetime
        /\ call[c].expires \in 0 .. call[c].max
    BY <1>1, <1>h, SessionsAssumption DEF CreateInsert, CallOK, Handlers
  <2>2. Promise!Mint(s)
    BY ZenonT(20), <1>1, <2>1 DEF CreateInsert, Promise!Mint, Row, Control
  <2> QED
    BY <2>2 DEF Promise!CapabilityNext
<1>2. CASE RenewUpdate(c)
  <2> DEFINE sid == call[c].session
             row == session[sid]
  <2>1. CASE RenewMatches(c, row)
    <3>1. sid \in Sessions /\ row # NoSession /\ row \in Rows
      BY <1>2, <1>h DEF RenewUpdate, CallOK, HasSession, SessionPcs, Exists, SessionInv, Types
    <3>2. RenewedExpiry(c, row) \in 0 .. row.max
      BY <1>h, <3>1 DEF RenewedExpiry, Min2, Handlers, Rows
    <3>3. session' = [session EXCEPT ![sid] =
                         Row(row.subject, row.profile, RenewedExpiry(c, row), row.max, FALSE)]
      BY ZenonT(20), <1>2, <2>1 DEF RenewUpdate
    <3>4. now' = now
      BY <1>2 DEF RenewUpdate, Control
    <3>5. Promise!Extend(sid)
      BY ZenonT(20), <2>1, <3>1, <3>2, <3>3, <3>4 DEF Promise!Extend, RenewMatches, Row
    <3> QED
      BY <3>1, <3>5 DEF Promise!CapabilityNext
  <2>2. CASE ~RenewMatches(c, row)
    BY <1>2, <2>2 DEF RenewUpdate, Control
  <2> QED
    BY <2>1, <2>2
<1>w. ASSUME call[c].pc \in SessionPcs, session' = Revoke({call[c].session}), now' = now
      PROVE  Promise!CapabilityNext
  <2>1. call[c].session \in Sessions /\ session[call[c].session] # NoSession
    BY <1>w, <1>h DEF CallOK, HasSession, Exists
  <2>2. Promise!Withdraw({call[c].session})
    BY <1>w, <2>1 DEF Promise!Withdraw, Revoke, Row
  <2> QED
    BY <2>1, <2>2 DEF Promise!CapabilityNext
<1>3. CASE RenewDeny(c)
  BY <1>3, <1>w DEF RenewDeny, Control, SessionPcs
<1>4. CASE RevokeUpdate(c)
  BY <1>4, <1>w DEF RevokeUpdate, Control, SessionPcs
<1> QED
  BY ZenonT(20), <1>1, <1>2, <1>3, <1>4
     DEF CallStep, CreateAuthorize, CreateCheckGrant, CreateAudit, RenewAuthorize,
         RenewCheckGrant, RenewAudit, RevokeAuthorize, RevokeAudit, UseStart, UseLookup,
         UseCheckGrant, UseForward, Abandon, Control

\* Every step is a step of the capability or leaves it alone.
LEMMA NextRefines ==
    ASSUME SessionInv, [Next]_vars
    PROVE  Promise!CapabilityNext \/ UNCHANGED <<now, session>>
<1>1. CASE Tick
  BY <1>1 DEF Tick, Promise!CapabilityNext, Promise!Pass
<1>2. CASE Restart
  BY <1>2 DEF Restart
<1>3. CASE UNCHANGED vars
  BY <1>3 DEF vars
<1> QED
  BY <1>1, <1>2, <1>3, ControlRefines, CallRefines DEF Next

\* What every step keeps of the session table.
SessionsKept ==
    /\ now <= now'
    /\ \A s \in Sessions : Exists(s) =>
          /\ Exists(s)' /\ session'[s].subject = session[s].subject
          /\ session'[s].profile = session[s].profile
          /\ session'[s].max = session[s].max
          /\ session[s].revoked => session'[s].revoked

\* The capability keeps it, and its rows stay within their lifetimes.
LEMMA StepKeeps ==
    ASSUME SessionInv, [Next]_vars, Types'
    PROVE  SessionsKept /\ \A s \in Sessions : RowOK(s)'
<1> USE SessionsAssumption
<1>t. /\ now \in Nat /\ now' \in Nat /\ session \in [Sessions -> Rows]
      /\ session' \in [Sessions -> Rows] /\ \A s \in Sessions : RowOK(s)
  BY DEF SessionInv, Types
<1>n. \A s \in Sessions : session'[s].subject \in Subjects => Exists(s)'
  BY IdleType DEF Exists
<1>1. CASE UNCHANGED <<now, session>>
  BY <1>1, <1>t DEF SessionsKept, RowOK, Exists
<1>2. CASE Promise!Pass
  BY <1>2, <1>t DEF Promise!Pass, SessionsKept, RowOK, Exists, Rows
<1>3. ASSUME NEW c \in Sessions, Promise!Mint(c) PROVE SessionsKept /\ \A s \in Sessions : RowOK(s)'
  <2>1. PICK o \in Subjects, p \in Profiles, m \in 0 .. now + SessionMaxLifetime :
          \E e \in 0 .. m : session' = [session EXCEPT ![c] =
              [subject |-> o, profile |-> p, expires |-> e, max |-> m, revoked |-> FALSE]]
    BY ZenonT(20), <1>3 DEF Promise!Mint
  <2>2. PICK e \in 0 .. m : session' = [session EXCEPT ![c] =
              [subject |-> o, profile |-> p, expires |-> e, max |-> m, revoked |-> FALSE]]
    BY ZenonT(20), <2>1
  <2>3. now' = now /\ ~Exists(c)
    BY <1>3 DEF Promise!Mint, Exists
  <2>4. \A s \in Sessions \ {c} : session'[s] = session[s]
    BY <2>2, <1>t
  <2>5. /\ session'[c].subject = o /\ session'[c].profile = p
        /\ session'[c].expires = e /\ session'[c].max = m
    BY <2>2, <1>t
  <2>6. SessionsKept
    BY <1>t, <2>3, <2>4 DEF SessionsKept, Exists
  <2>7. \A s \in Sessions : RowOK(s)'
    BY <1>t, <2>3, <2>4, <2>5 DEF RowOK, Exists
  <2> QED
    BY <2>6, <2>7
<1>4. ASSUME NEW c \in Sessions, Promise!Extend(c) PROVE SessionsKept /\ \A s \in Sessions : RowOK(s)'
  <2>1. PICK e \in 0 .. session[c].max : session' = [session EXCEPT ![c] =
              [subject |-> session[c].subject, profile |-> session[c].profile, expires |-> e,
               max |-> session[c].max, revoked |-> FALSE]]
    BY ZenonT(20), <1>4 DEF Promise!Extend
  <2>2. now' = now /\ Exists(c) /\ ~session[c].revoked
    BY <1>4 DEF Promise!Extend, Exists
  <2>3. \A s \in Sessions \ {c} : session'[s] = session[s]
    BY <2>1, <1>t
  <2>4. /\ session'[c].subject = session[c].subject /\ session'[c].profile = session[c].profile
        /\ session'[c].expires = e /\ session'[c].max = session[c].max
    BY <2>1, <1>t
  <2>5. Exists(c)'
    BY <1>n, <1>t, <2>2, <2>4 DEF RowOK
  <2>6. SessionsKept
    BY <1>t, <2>2, <2>3, <2>4, <2>5 DEF SessionsKept, Exists
  <2>7. \A s \in Sessions : RowOK(s)'
    BY <1>t, <2>2, <2>3, <2>4 DEF RowOK, Exists
  <2> QED
    BY <2>6, <2>7
<1>5. ASSUME NEW S \in SUBSET Sessions, Promise!Withdraw(S)
      PROVE SessionsKept /\ \A s \in Sessions : RowOK(s)'
  <2>1. \A s \in Sessions :
           /\ session'[s].subject = session[s].subject /\ session'[s].profile = session[s].profile
           /\ session'[s].expires = session[s].expires /\ session'[s].max = session[s].max
           /\ session[s].revoked => session'[s].revoked
           /\ s \notin S => session'[s] = session[s]
           /\ s \in S => Exists(s)
    BY <1>5 DEF Promise!Withdraw, Exists
  <2>2. now' = now
    BY <1>5 DEF Promise!Withdraw
  <2>3. \A s \in Sessions : Exists(s) => Exists(s)'
    BY <1>n, <1>t, <2>1 DEF RowOK
  <2>4. \A s \in Sessions : Exists(s)' => Exists(s)
    BY <2>1 DEF Exists
  <2>5. SessionsKept
    BY <1>t, <2>1, <2>2, <2>3 DEF SessionsKept
  <2>6. \A s \in Sessions : RowOK(s)'
    BY <1>t, <2>1, <2>2, <2>4 DEF RowOK
  <2> QED
    BY <2>5, <2>6
<1> QED
  BY <1>1, <1>2, <1>3, <1>4, <1>5, NextRefines DEF Promise!CapabilityNext
-----------------------------------------------------------------------------
(* The other conjuncts of the invariant.                                   *)

\* A handler that does not step, or is idle, knows what it knew.
LEMMA OthersKeep ==
    ASSUME SessionInv, SessionsKept, Types', NEW d \in Calls,
           call'[d] = call[d] \/ call'[d] = IdleCall
    PROVE  CallOK(d)'
<1>1. CASE call'[d] = IdleCall
  BY <1>1, IdleType DEF CallOK, HasSession, SessionPcs
<1>2. CASE call'[d] = call[d]
  <2>1. /\ CallOK(d) /\ now \in Nat /\ now' \in Nat /\ now <= now' /\ call[d] \in Handlers
        /\ SessionMaxLifetime \in Nat
    BY SessionsAssumption DEF SessionInv, Types, SessionsKept
  <2>2. HasSession(d)'
    BY <1>2, <2>1 DEF CallOK, HasSession, SessionsKept
  <2>3. call[d].pc = "create_insert" => call[d].max <= now' + SessionMaxLifetime
    BY <2>1 DEF CallOK, Handlers
  <2>4. call[d].pc \in {"renew_grant", "renew_deny"} =>
            call[d].subject = session'[call[d].session].subject
    BY <2>1 DEF CallOK, HasSession, SessionPcs, SessionsKept
  <2>5. call[d].pc = "use_lookup" /\ call[d].late => session'[call[d].session].revoked
    BY <2>1 DEF CallOK, HasSession, SessionPcs, SessionsKept
  <2> QED
    BY <1>2, <2>1, <2>2, <2>3, <2>4, <2>5 DEF CallOK
<1> QED
  BY <1>1, <1>2

\* The handler that steps knows what it has just read.
LEMMA StepperKeeps ==
    ASSUME SessionInv, SessionsKept, Types', NEW c \in Calls, CallStep(c)
    PROVE  \A d \in Calls : CallOK(d)'
<1> USE SessionsAssumption
<1>h. /\ CallOK(c) /\ now \in Nat /\ call[c] \in Handlers /\ call \in [Calls -> Handlers]
      /\ call[c].late \in BOOLEAN
  BY DEF SessionInv, Types, Handlers
<1>o. ASSUME NEW h, call' = [call EXCEPT ![c] = h], CallOK(c)' PROVE \A d \in Calls : CallOK(d)'
  <2> SUFFICES ASSUME NEW d \in Calls PROVE CallOK(d)'
    OBVIOUS
  <2>1. CASE d = c
    BY <2>1, <1>o
  <2>2. CASE d # c
    <3>1. call'[d] = call[d]
      BY <2>2, <1>o, <1>h
    <3> QED
      BY <3>1, OthersKeep
  <2> QED
    BY <2>1, <2>2
<1>f. ASSUME call' = Finish(c) PROVE \A d \in Calls : CallOK(d)'
  <2>1. call'[c] = IdleCall
    BY <1>f, <1>h DEF Finish
  <2> QED
    BY <1>f, <2>1, <1>o, OthersKeep DEF Finish
\* A handler that moves on with a session it had keeps it.
<1>s. call[c].pc \in SessionPcs =>
          call[c].session \in Sessions /\ Exists(call[c].session) /\ session'[call[c].session] # NoSession
  BY <1>h DEF CallOK, HasSession, SessionsKept, Exists
<1>1. ASSUME NEW s \in Subjects, NEW p \in Profiles, CreateAuthorize(c, s, p)
      PROVE \A d \in Calls : CallOK(d)'
  <2>1. /\ call'[c].pc = "create_grant" /\ call'[c].subject = s /\ call'[c].profile = p
    BY <1>1, <1>h DEF CreateAuthorize, Goto, Handler
  <2>2. CallOK(c)'
    BY <2>1 DEF CallOK, HasSession, SessionPcs
  <2> QED
    BY ZenonT(20), <1>1, <1>o, <2>2 DEF CreateAuthorize, Goto
<1>2. CASE CreateCheckGrant(c)
  <2>1. CASE Permitted(c)
    <3> DEFINE h == Handler("create_insert", call[c].subject, call[c].profile, None, now,
                            Expiry(SessionTtl), Expiry(SessionMaxLifetime), FALSE)
    <3>1. call' = [call EXCEPT ![c] = h] /\ call[c].pc = "create_grant" /\ now' = now
      BY <1>2, <2>1 DEF CreateCheckGrant, Control
    <3>2. /\ call'[c].pc = "create_insert" /\ call'[c].subject = call[c].subject
          /\ call'[c].profile = call[c].profile /\ call'[c].expires = now + SessionTtl
          /\ call'[c].max = now + SessionMaxLifetime
      BY <3>1, <1>h DEF Handler, Expiry
    <3>3. call[c].subject \in Subjects /\ call[c].profile \in Profiles
      BY <3>1, <1>h DEF CallOK
    <3>4. HasSession(c)'
      BY <3>2 DEF HasSession, SessionPcs
    <3>t. SessionTtl \in Nat /\ SessionMaxLifetime \in Nat /\ SessionTtl <= SessionMaxLifetime
      OBVIOUS
    <3>n. now + SessionTtl <= now + SessionMaxLifetime
      BY <3>t, <1>h
    <3>m. now + SessionMaxLifetime <= now + SessionMaxLifetime
      BY <3>t, <1>h
    <3>5. call'[c].expires <= call'[c].max /\ call'[c].max <= now' + SessionMaxLifetime
      BY <3>1, <3>2, <3>n, <3>m, Zenon
    <3>6. CallOK(c)'
      BY <3>2, <3>3, <3>4, <3>5 DEF CallOK
    <3> QED
      BY ZenonT(20), <3>1, <3>6, <1>o
  <2>2. CASE ~Permitted(c)
    BY <1>2, <2>2, <1>f DEF CreateCheckGrant
  <2> QED
    BY <2>1, <2>2
<1>3. ASSUME NEW s \in Sessions, CreateInsert(c, s) PROVE \A d \in Calls : CallOK(d)'
  <2>1. call'[c].pc = "create_audit" /\ call'[c].session = s
    BY Zenon, <1>3, <1>h DEF CreateInsert, Goto, Handler
  <2>2. session'[s].subject = call[c].subject /\ call[c].subject \in Subjects
    BY <1>3, <1>h DEF CreateInsert, Row, CallOK, SessionInv, Types
  <2>3. Exists(s)'
    BY <2>2, IdleType DEF Exists
  <2>4. CallOK(c)'
    BY <2>1, <2>3 DEF CallOK, HasSession
  <2> QED
    BY ZenonT(20), <1>3, <2>4, <1>o DEF CreateInsert, Goto
<1>5. ASSUME NEW s \in Subjects, NEW sid \in Sessions, RenewAuthorize(c, s, sid)
      PROVE \A d \in Calls : CallOK(d)'
  <2>1. call'[c].pc = "renew_update" /\ call'[c].session = sid /\ Exists(sid)
    BY <1>5, <1>h DEF RenewAuthorize, Handler, Exists
  <2>2. CallOK(c)'
    BY <2>1 DEF CallOK, HasSession, SessionsKept
  <2> QED
    BY ZenonT(20), <1>5, <2>2, <1>o DEF RenewAuthorize
<1>6. CASE RenewUpdate(c)
  <2> DEFINE sid == call[c].session
             row == session[sid]
  <2>1. CASE RenewMatches(c, row)
    <3>1. sid \in Sessions /\ Exists(sid)
      BY Zenon, <1>6, <1>h DEF RenewUpdate, CallOK, HasSession, SessionPcs
    <3>2. call' = [call EXCEPT ![c] =
                     Handler("renew_grant", call[c].subject, row.profile, sid, now, 0, 0,
                             call[c].late)]
      BY <1>6, <2>1 DEF RenewUpdate, Goto
    <3>3. /\ call'[c].pc = "renew_grant" /\ call'[c].session = sid
          /\ call'[c].subject = call[c].subject
      BY Zenon, <3>2, <1>h DEF Handler
    <3>4. call[c].subject = session'[sid].subject
      BY <2>1, <3>1 DEF RenewMatches, SessionsKept
    <3>5. CallOK(c)'
      BY <3>1, <3>3, <3>4 DEF CallOK, HasSession, SessionsKept
    <3> QED
      BY ZenonT(20), <3>2, <3>5, <1>o
  <2>2. CASE ~RenewMatches(c, row)
    BY <1>6, <2>2, <1>f DEF RenewUpdate
  <2> QED
    BY <2>1, <2>2
<1>7. CASE RenewCheckGrant(c)
  <2>1. /\ call'[c].pc \in {"renew_audit", "renew_deny"} /\ call'[c].session = call[c].session
        /\ call'[c].subject = call[c].subject /\ call[c].pc = "renew_grant"
        /\ session' = session
    BY <1>7, <1>h DEF RenewCheckGrant, Goto, Handler
  <2>2. CallOK(c)'
    BY <2>1, <1>h, <1>s DEF CallOK, HasSession, SessionPcs, Exists
  <2> QED
    BY ZenonT(20), <1>7, <2>2, <1>o DEF RenewCheckGrant, Goto
<1>10. ASSUME NEW s \in Subjects, NEW sid \in Sessions, RevokeAuthorize(c, s, sid)
       PROVE \A d \in Calls : CallOK(d)'
  <2>1. call'[c].pc = "revoke_update" /\ call'[c].session = sid /\ Exists(sid)
    BY <1>10, <1>h DEF RevokeAuthorize, Handler, Exists
  <2>2. CallOK(c)'
    BY <2>1 DEF CallOK, HasSession, SessionsKept
  <2> QED
    BY ZenonT(20), <1>10, <2>2, <1>o DEF RevokeAuthorize
<1>11. CASE RevokeUpdate(c)
  <2>1. /\ call'[c].pc = "revoke_audit" /\ call'[c].session = call[c].session
        /\ call[c].pc = "revoke_update"
    BY <1>11, <1>h DEF RevokeUpdate, Handler
  <2>2. CallOK(c)'
    BY <2>1, <1>s DEF CallOK, HasSession, SessionPcs, Exists
  <2> QED
    BY ZenonT(20), <1>11, <2>2, <1>o DEF RevokeUpdate
<1>13. ASSUME NEW sid \in Sessions, NEW p \in Profiles, UseStart(c, sid, p)
       PROVE \A d \in Calls : CallOK(d)'
  <2>1. /\ call'[c].pc = "use_lookup" /\ call'[c].session = sid
        /\ call'[c].late = session[sid].revoked /\ session' = session
    BY <1>13, <1>h DEF UseStart, Handler
  <2>2. Exists(sid)
    BY <1>13 DEF UseStart, SessionInv, DeliveredSessionsAudited
  <2>3. CallOK(c)'
    BY <2>1, <2>2 DEF CallOK, HasSession, SessionsKept
  <2> QED
    BY ZenonT(20), <1>13, <2>3, <1>o DEF UseStart
<1>14. CASE UseLookup(c)
  <2> DEFINE row == session[call[c].session]
  <2>1. CASE UseMatches(c, row)
    <3>1. call' = [call EXCEPT ![c] =
                     Handler("use_grant", row.subject, call[c].profile, call[c].session, now,
                             0, 0, call[c].late)]
      BY <1>14, <2>1 DEF UseLookup, Goto
    <3>2. /\ call'[c].pc = "use_grant" /\ call'[c].session = call[c].session
          /\ call'[c].late = call[c].late
      BY <3>1, <1>h DEF Handler
    <3>3. ~call[c].late /\ call[c].pc = "use_lookup"
      BY <1>14, <2>1, <1>h DEF UseLookup, UseMatches, CallOK
    <3>4. CallOK(c)'
      BY <3>2, <3>3, <1>s DEF CallOK, HasSession, SessionPcs, Exists
    <3> QED
      BY ZenonT(20), <3>1, <3>4, <1>o
  <2>2. CASE ~UseMatches(c, row)
    BY <1>14, <2>2, <1>f DEF UseLookup
  <2> QED
    BY <2>1, <2>2
<1>15. CASE UseCheckGrant(c)
  <2>1. CASE Permitted(c)
    <3>1. call' = [call EXCEPT ![c] =
                     Handler("use_forward", call[c].subject, call[c].profile, call[c].session,
                             now, 0, 0, call[c].late)]
      BY <1>15, <2>1 DEF UseCheckGrant, Goto
    <3>2. /\ call'[c].pc = "use_forward" /\ call'[c].session = call[c].session
          /\ call'[c].late = call[c].late
      BY <3>1, <1>h DEF Handler
    <3>3. ~call[c].late /\ call[c].pc = "use_grant"
      BY <1>15, <1>h DEF UseCheckGrant, CallOK
    <3>4. CallOK(c)'
      BY <3>2, <3>3, <1>s DEF CallOK, HasSession, SessionPcs, Exists
    <3> QED
      BY ZenonT(20), <3>1, <3>4, <1>o
  <2>2. CASE ~Permitted(c)
    BY <1>15, <2>2, <1>f DEF UseCheckGrant
  <2> QED
    BY <2>1, <2>2
<1>16. CASE \/ CreateAudit(c) \/ RenewDeny(c) \/ RenewAudit(c) \/ RevokeAudit(c)
            \/ UseForward(c) \/ Abandon(c)
  BY <1>16, <1>f DEF CreateAudit, RenewDeny, RenewAudit, RevokeAudit, UseForward, Abandon
<1> QED
  BY <1>1, <1>2, <1>3, <1>5, <1>6, <1>7, <1>10, <1>11, <1>13, <1>14, <1>15, <1>16
     DEF CallStep

\* No step makes a handler forget or an idle one remember.
LEMMA CallsKeep ==
    ASSUME SessionInv, SessionsKept, Types', [Next]_vars
    PROVE  \A d \in Calls : CallOK(d)'
<1>1. CASE \E c \in Calls : CallStep(c)
  BY <1>1, StepperKeeps
<1>2. CASE ControlStep \/ Tick \/ UNCHANGED vars
  <2>1. call' = call
    BY <1>2 DEF ControlStep, CreateAgent, BeginAgentTx, CommitAgentTx, RollbackAgentTx,
                GrantProfile, RevokeProfile, Tick, vars
  <2> QED
    BY Zenon, <2>1, OthersKeep
<1>3. CASE Restart
  <2>1. \A d \in Calls : call'[d] = IdleCall
    BY Zenon, <1>3 DEF Restart
  <2> QED
    BY <2>1, OthersKeep
<1> QED
  BY <1>1, <1>2, <1>3 DEF Next

\* A transaction that stays open is not disturbed: rows keep their subject, and
\* on SQLite none is inserted.
LEMMA OpenTxKeeps ==
    ASSUME SessionInv, SessionsKept, Types', NEW a \in Agents, tx'[a] = tx[a],
           Backend = "sqlite" /\ tx[a] # NoTx =>
               \A s \in Sessions : session'[s].subject = a => session[s].subject = a
    PROVE  TxOK(a)'
<1>1. TxOK(a) /\ tx[a].found \subseteq Sessions /\ tx[a].sessions \subseteq Sessions
  BY DEF SessionInv, Types, Txs
<1>2. \A s \in tx[a].found : Exists(s)
  BY <1>1, NamedExists DEF TxOK, Subjects
<1>3. \A s \in tx[a].found :
         session'[s].subject = a /\ (session[s].revoked => session'[s].revoked)
  BY <1>1, <1>2 DEF TxOK, SessionsKept
<1> QED
  BY <1>1, <1>3 DEF TxOK

\* A transaction that is over says nothing.
LEMMA NoTxOK == ASSUME NEW a \in Agents, tx'[a] = NoTx PROVE TxOK(a)'
BY DEF TxOK, NoTx

\* The statements of a transaction find what they lock.
LEMMA BeginKeeps ==
    ASSUME SessionInv, Types', NEW a \in Agents, NEW kind \in TxKinds, BeginAgentTx(a, kind)
    PROVE  TxOK(a)'
<1>1. /\ tx'[a].kind = kind /\ tx'[a].sessions = RevokedBy(a, kind)
      /\ tx'[a].found = {s \in Sessions : session[s].subject = a}
      /\ session' = session
  BY DEF BeginAgentTx, SessionInv, Types
<1>2. RevokedBy(a, kind) \subseteq {s \in Sessions : session[s].subject = a}
  BY DEF RevokedBy, OpenSessions
<1>3. kind \in {"rotate", "disable", "delete"} =>
          \A s \in Sessions : session[s].subject = a =>
              s \in RevokedBy(a, kind) \/ session[s].revoked
  BY DEF RevokedBy, OpenSessions
<1> QED
  BY <1>1, <1>2, <1>3 DEF TxOK

\* Every step keeps the open transactions.
LEMMA TxsKeep ==
    ASSUME SessionInv, SessionsKept, Types', [Next]_vars
    PROVE  \A b \in Agents : TxOK(b)'
<1> SUFFICES ASSUME NEW b \in Agents PROVE TxOK(b)'
  OBVIOUS
<1>t. tx \in [Agents -> Txs]
  BY DEF SessionInv, Types
\* Rows are inserted by CreateInsert alone, which waits for a free database.
<1>i. ASSUME NEW c \in Calls, CallStep(c), Backend = "sqlite", tx[b] # NoTx, NEW s \in Sessions
      PROVE  session'[s].subject = session[s].subject
  <2>1. ~DbFree
    BY <1>i DEF DbFree
  <2>2. session' = session
    BY ZenonT(20), <1>i, <2>1
       DEF CallStep, CreateAuthorize, CreateCheckGrant, CreateInsert, CreateAudit,
           RenewAuthorize, RenewUpdate, RenewCheckGrant, RenewDeny, RenewAudit,
           RevokeAuthorize, RevokeUpdate, RevokeAudit, UseStart, UseLookup, UseCheckGrant,
           UseForward, Abandon
  <2> QED
    BY <2>2
<1>1. ASSUME NEW c \in Calls, CallStep(c) PROVE TxOK(b)'
  <2>1. tx' = tx
    BY ZenonT(20), <1>1
       DEF CallStep, CreateAuthorize, CreateCheckGrant, CreateInsert, CreateAudit,
           RenewAuthorize, RenewUpdate, RenewCheckGrant, RenewDeny, RenewAudit,
           RevokeAuthorize, RevokeUpdate, RevokeAudit, UseStart, UseLookup, UseCheckGrant,
           UseForward, Abandon, Control
  <2> QED
    BY <1>1, <1>i, <2>1, OpenTxKeeps
<1>2. ASSUME NEW a \in Agents, NEW kind \in TxKinds, BeginAgentTx(a, kind) PROVE TxOK(b)'
  <2>1. CASE a = b
    BY <1>2, <2>1, BeginKeeps
  <2>2. CASE a # b
    <3>1. tx'[b] = tx[b] /\ session' = session
      BY <1>2, <1>t, <2>2 DEF BeginAgentTx
    <3> QED
      BY <3>1, OpenTxKeeps
  <2> QED
    BY <2>1, <2>2
<1>3. ASSUME NEW a \in Agents, CommitAgentTx(a) PROVE TxOK(b)'
  <2>1. CASE a = b
    <3>1. tx'[b] = NoTx
      BY <1>3, <1>t, <2>1 DEF CommitAgentTx
    <3> QED
      BY Zenon, <3>1, NoTxOK
  <2>2. CASE a # b
    <3>1. tx'[b] = tx[b] /\ session' = Revoke(tx[a].sessions)
      BY Zenon, <1>3, <1>t, <2>2 DEF CommitAgentTx
    <3>2. \A s \in Sessions : session'[s].subject = session[s].subject
      BY <3>1, RevokeType DEF SessionInv, Types
    <3> QED
      BY <3>1, <3>2, OpenTxKeeps
  <2> QED
    BY <2>1, <2>2
<1>4. ASSUME NEW a \in Agents, RollbackAgentTx(a) PROVE TxOK(b)'
  <2>1. (tx'[b] = tx[b] \/ tx'[b] = NoTx) /\ session' = session
    BY <1>4, <1>t DEF RollbackAgentTx
  <2> QED
    BY <2>1, NoTxOK, OpenTxKeeps
<1>5. CASE Restart
  <2>1. tx'[b] = NoTx
    BY <1>5 DEF Restart
  <2> QED
    BY <2>1, NoTxOK
<1>6. CASE \/ \E a \in Agents : CreateAgent(a)
           \/ \E k \in Subjects \X Profiles :
                 RevokeProfile(k) \/ \E g \in GrantChoices : GrantProfile(k, g[1], g[2])
           \/ Tick
           \/ UNCHANGED vars
  <2>1. tx' = tx /\ session' = session
    BY Zenon, <1>6 DEF CreateAgent, RevokeProfile, GrantProfile, Tick, vars
  <2> QED
    BY <2>1, OpenTxKeeps
<1> QED
  BY <1>1, <1>2, <1>3, <1>4, <1>5, <1>6 DEF Next, ControlStep

\* A token leaves the server with its audit event.
LEMMA DeliveredKeeps ==
    ASSUME SessionInv, SessionsKept, Types', [Next]_vars
    PROVE  DeliveredSessionsAudited'
<1>1. held \subseteq audited /\ \A s \in held : s \in Sessions /\ Exists(s)'
  BY DEF SessionInv, Types, DeliveredSessionsAudited, SessionsKept
<1>2. ASSUME NEW c \in Calls, CreateAudit(c) PROVE DeliveredSessionsAudited'
  <2>0. HasSession(c) /\ call[c].pc \in SessionPcs
    BY <1>2 DEF CreateAudit, SessionInv, CallOK, SessionPcs
  <2>1. call[c].session \in Sessions /\ Exists(call[c].session)
    BY <2>0 DEF HasSession
  <2>2. session'[call[c].session] # NoSession
    BY <2>1 DEF SessionsKept, Exists
  <2>3. held' = held \cup {call[c].session} /\ audited' = audited \cup {call[c].session}
    BY <1>2 DEF CreateAudit
  <2> QED
    BY <1>1, <2>1, <2>2, <2>3 DEF DeliveredSessionsAudited, Exists
<1>3. CASE UNCHANGED <<held, audited>>
  BY <1>1, <1>3 DEF DeliveredSessionsAudited
<1>4. (\E c \in Calls : CreateAudit(c)) \/ UNCHANGED <<held, audited>>
  BY ZenonT(20) DEF Next, ControlStep, CreateAgent, BeginAgentTx, CommitAgentTx, RollbackAgentTx,
         GrantProfile, RevokeProfile, CallStep, CreateAuthorize, CreateCheckGrant, CreateInsert,
         RenewAuthorize, RenewUpdate, RenewCheckGrant, RenewDeny, RenewAudit,
         RevokeAuthorize, RevokeUpdate, RevokeAudit, UseStart, UseLookup, UseCheckGrant,
         UseForward, Abandon, Tick, Restart, vars
<1> QED
  BY <1>2, <1>3, <1>4

\* Every step keeps the invariant.
LEMMA SessionInvNext == SessionInv /\ [Next]_vars => SessionInv'
<1> SUFFICES ASSUME SessionInv, [Next]_vars PROVE SessionInv'
  OBVIOUS
<1>1. Types'
  <2>1. CASE ControlStep
    BY <2>1, TypesControl DEF SessionInv
  <2>2. ASSUME NEW c \in Calls, CallStep(c) PROVE Types'
    BY <2>2, TypesCall DEF SessionInv, CallOK
  <2>w. ASSUME Observe PROVE witnessed' \subseteq Calls /\ began' \in [Calls -> Nat]
    BY <2>w, HistoryType DEF SessionInv
  <2>3. CASE Tick
    BY <2>3, <2>w DEF Tick, SessionInv, Types
  <2>4. CASE Restart
    <3>1. NoTx \in Txs
      BY DEF NoTx, Txs
    <3>2. grant' \in [Subjects \X Profiles -> Grants \cup {NoGrant}]
      BY ZenonT(20), <2>4, MigratedType DEF Restart, SessionInv, Types
    <3>3. tx' \in [Agents -> Txs] /\ call' \in [Calls -> Handlers]
      BY <2>4, <3>1, IdleType DEF Restart
    <3> QED
      BY <2>4, <2>w, <3>2, <3>3 DEF Restart, SessionInv, Types
  <2>5. CASE UNCHANGED vars
    BY <2>5 DEF vars, SessionInv, Types
  <2> QED
    BY <2>1, <2>2, <2>3, <2>4, <2>5 DEF Next
<1>2. SessionsKept /\ \A s \in Sessions : RowOK(s)'
  BY <1>1, StepKeeps
<1> QED
  BY <1>1, <1>2, CallsKeep, TxsKeep, DeliveredKeeps DEF SessionInv
-----------------------------------------------------------------------------
(* The results.                                                            *)

\* The invariant holds in every reachable state of the store and its handlers.
THEOREM SessionInvariant == Spec => []SessionInv
BY SessionInvInit, SessionInvNext, PTL DEF Spec

\* Tables, transactions and handlers have their types.
THEOREM SessionTypes == Spec => []TypeOK
<1>1. SessionInv => TypeOK
  BY TypesAreTypeOK DEF SessionInv
<1> QED
  BY <1>1, SessionInvariant, PTL

\* The store implements the capability: no interleaving of renewals, revocations
\* and agent transactions revives a revoked session or outlives its absolute end.
THEOREM SessionRefinement == Spec => ImplementsPromise
<1>1. Init => Promise!CapabilityInit
  BY DEF Init, Promise!CapabilityInit
<1>2. SessionInv /\ [Next]_vars => [Promise!CapabilityNext]_(Promise!capabilityVars)
  BY NextRefines DEF Promise!capabilityVars
<1> QED
  BY <1>1, <1>2, SessionInvariant, PTL DEF Spec, ImplementsPromise, Promise!CapabilitySpec

\* No sequence of renewals carries a session past its absolute expiry.
THEOREM SessionLifetime == Spec => []AbsoluteLifetime
<1>1. SessionInv => AbsoluteLifetime
  BY DEF SessionInv, RowOK, AbsoluteLifetime
<1> QED
  BY <1>1, SessionInvariant, PTL

\* A token that left the server has its audit event.
THEOREM SessionsAudited == Spec => []DeliveredSessionsAudited
<1>1. SessionInv => DeliveredSessionsAudited
  BY DEF SessionInv
<1> QED
  BY <1>1, SessionInvariant, PTL

\* A request that began after the revocation of its session is not forwarded.
THEOREM LateRequestsRefused == Spec => []LateUseRefused
<1>1. SessionInv => LateUseRefused
  BY DEF SessionInv, CallOK, LateUseRefused
<1> QED
  BY <1>1, SessionInvariant, PTL
=============================================================================
