-------------------------- MODULE TransparentProxy --------------------------
(***************************************************************************)
(* The life of a proxy connection against the access it is served under:   *)
(* transparent_connect_response, transparent_tunnel_response, the relays   *)
(* they start, and the named handlers proxy and profile_secrets, of        *)
(* src/src/server.rs.                                                      *)
(*                                                                         *)
(* Access has two parts, the proxy session and the grant of its profile,   *)
(* which the code reads one after the other, with an await between them.   *)
(* Either may go at any time; a grant may come back, a session does not.   *)
(* What a request may contain is the subject of RequestPipeline; here only *)
(* whether policy, rate limit or body refuse it.                           *)
(***************************************************************************)
EXTENDS Integers, FiniteSets

CONSTANTS
    Connections,
    MessageSizes,       \* sizes of WebSocket messages
    MaxTotalBytes       \* max_total_bytes of the route

ASSUME TransparentProxyAssumption == MessageSizes \subseteq Nat /\ MaxTotalBytes \in Nat

VARIABLES
    access,     \* the parts of access that exist
    conn        \* what each connection is doing

proxyVars == <<access, conn>>

Parts == {"session", "grant"}
Relaying == {"relay", "relay session", "relay grant", "relay renew", "relay send"}

\* missing: the parts that have been absent ever since the last check began.
\* audited: the event of the present CONNECT or request has been recorded.
At(pc, missing, audited) ==
    [pc |-> pc, missing |-> missing, audited |-> audited, inside |-> "nothing",
     total |-> 0, closes |-> FALSE, renews |-> FALSE, overdue |-> FALSE]

ClosedConnection == At("closed", {}, FALSE)

ProxyInit == access = Parts /\ conn = [c \in Connections |-> ClosedConnection]

Goto(c, pc) == conn' = [conn EXCEPT ![c].pc = pc]

EndSession ==
    /\ "session" \in access /\ access' = access \ {"session"}
    /\ UNCHANGED conn

WithdrawGrant ==
    /\ "grant" \in access /\ access' = access \ {"grant"}
    /\ UNCHANGED conn

Regrant ==
    /\ "grant" \notin access /\ access' = access \cup {"grant"}
    /\ conn' = [c \in Connections |-> [conn[c] EXCEPT !.missing = @ \ {"grant"}]]
-----------------------------------------------------------------------------
(* A check: active_proxy_session, then profile_permitted. *)

\* Mutation: the grant is not read again.
SeesAnything == TRUE

SeesSession == "session" \in access

SeesGrant == "grant" \in access

ReadSession(c, from, to, refused) ==
    /\ conn[c].pc = from
    /\ Goto(c, IF SeesSession THEN to ELSE refused)
    /\ UNCHANGED access

ReadGrant(c, from, to, refused) ==
    /\ conn[c].pc = from
    /\ Goto(c, IF SeesGrant THEN to ELSE refused)
    /\ UNCHANGED access

\* A store that fails refuses; so do rate limit, policy and body.
Refuse(c, from, refused) == conn[c].pc \in from /\ Goto(c, refused) /\ UNCHANGED access

\* audit_event, whose failure is answered 503 or 500.
AuditThen(c, recorded, to, refused) ==
    conn' = [conn EXCEPT ![c] =
                [@ EXCEPT !.audited = recorded, !.pc = IF recorded THEN to ELSE refused]]
-----------------------------------------------------------------------------
(* CONNECT *)

ReceiveConnect(c, destination) ==
    /\ conn[c] = ClosedConnection
    /\ conn' = [conn EXCEPT ![c] =
           [At("connect session", Parts \ access, FALSE) EXCEPT !.inside = destination]]
    /\ UNCHANGED access

ConnectSession(c) == ReadSession(c, "connect session", "connect grant", "refused")

\* A tunnel is dialled before the upgrade.
ConnectGrant(c) ==
    ReadGrant(c, "connect grant",
              IF conn[c].inside = "tunnel" THEN "connect dial" ELSE "connect audit", "refused")

DialTunnel(c) ==
    /\ conn[c].pc = "connect dial" /\ Goto(c, "connect audit")
    /\ UNCHANGED access

ConnectRefused(c) ==
    Refuse(c, {"connect session", "connect grant", "connect dial"}, "refused")

\* The tunnel's task waits for the upgrade, which only the 200 completes.
ConnectAudit(c, recorded) ==
    /\ conn[c].pc = "connect audit"
    /\ AuditThen(c, recorded, IF conn[c].inside = "tunnel" THEN "tunnel" ELSE "tls", "refused")
    /\ UNCHANGED access

\* relay_credentialless_tunnel copies until both ends are done.
TunnelEnds(c) ==
    /\ conn[c].pc = "tunnel"
    /\ conn' = [conn EXCEPT ![c] = ClosedConnection]
    /\ UNCHANGED access
-----------------------------------------------------------------------------
(* Requests inside an intercepted tunnel *)

ReceiveRequest(c) ==
    /\ conn[c].pc = "tls"
    /\ conn' = [conn EXCEPT ![c] =
           [At("request session", Parts \ access, FALSE) EXCEPT !.inside = "route"]]
    /\ UNCHANGED access

RequestSession(c) == ReadSession(c, "request session", "request grant", "tls")

RequestGrant(c) == ReadGrant(c, "request grant", "request policy", "tls")

RequestRefused(c) ==
    Refuse(c, {"request session", "request grant", "request policy"}, "tls")

\* proxy_request or proxy_websocket_request sends it upstream.
ForwardRequest(c) ==
    /\ conn[c].pc = "request policy" /\ Goto(c, "request upstream")
    /\ UNCHANGED access

UpstreamAnswers(c, upgrades) ==
    /\ conn[c].pc = "request upstream"
    /\ Goto(c, IF upgrades THEN "upgrade audit" ELSE "request audit")
    /\ UNCHANGED access

UpstreamFails(c) == Refuse(c, {"request upstream"}, "tls")

RequestAudit(c, recorded) ==
    /\ conn[c].pc = "request audit"
    /\ AuditThen(c, recorded, "answered", "tls")
    /\ UNCHANGED access

\* The relay's task waits for the caller's upgrade, which only the 101
\* completes.
UpgradeAudit(c, recorded) ==
    /\ conn[c].pc = "upgrade audit"
    /\ AuditThen(c, recorded, "relay", "tls")
    /\ UNCHANGED access

Answer200(c) ==
    /\ conn[c].pc = "answered"
    /\ Goto(c, "tls")
    /\ UNCHANGED access
-----------------------------------------------------------------------------
(* relay_websocket_streams: one select loop.  Reading, checking, renewing   *)
(* and sending take turns; while one is awaited no other runs.              *)

\* The timer of max_duration_seconds has run out.
DeadlinePasses(c) ==
    /\ conn[c].pc \in Relaying /\ ~conn[c].overdue
    /\ conn' = [conn EXCEPT ![c].overdue = TRUE]
    /\ UNCHANGED access

DeadlineSeen(c) == conn[c].overdue

RelayDeadline(c) ==
    /\ conn[c].pc = "relay" /\ DeadlineSeen(c) /\ Goto(c, "relay over")
    /\ UNCHANGED access

\* Mutation: access is looked at only when the lease is due for renewal.
ChecksAtRenewalOnly(c, renews) ==
    /\ renews /\ conn[c].pc = "relay"
    /\ conn' = [conn EXCEPT ![c] =
           [@ EXCEPT !.pc = "relay session", !.missing = Parts \ access, !.renews = renews]]
    /\ UNCHANGED access

\* The tick of every second, or the timer of the lease's renewal.
RelayCheck(c, renews) ==
    /\ conn[c].pc = "relay"
    /\ conn' = [conn EXCEPT ![c] =
           [@ EXCEPT !.pc = "relay session", !.missing = Parts \ access, !.renews = renews]]
    /\ UNCHANGED access

RelaySession(c) == ReadSession(c, "relay session", "relay grant", "relay over")

RelayGrant(c) ==
    ReadGrant(c, "relay grant", IF conn[c].renews THEN "relay renew" ELSE "relay", "relay over")

RelayStoreFails(c) == Refuse(c, {"relay session", "relay grant"}, "relay over")

LeaseRenewed(c, renewed) ==
    /\ conn[c].pc = "relay renew"
    /\ Goto(c, IF renewed THEN "relay" ELSE "relay over")
    /\ UNCHANGED access

ExceedsTotal(c, size) == conn[c].total + size > MaxTotalBytes

\* A message of either end; the total counts both.
RelayMessage(c, size, closes) ==
    /\ conn[c].pc = "relay"
    /\ conn' = [conn EXCEPT ![c] =
           [@ EXCEPT !.pc = IF ExceedsTotal(c, size) THEN "relay over" ELSE "relay send",
                     !.total = conn[c].total + IF ExceedsTotal(c, size) THEN 0 ELSE size,
                     !.closes = closes]]
    /\ UNCHANGED access

\* Within five seconds the other end has taken the message, or not; redaction
\* may refuse it.
RelaySent(c, taken) ==
    /\ conn[c].pc = "relay send"
    /\ Goto(c, IF taken /\ ~conn[c].closes THEN "relay" ELSE "relay over")
    /\ UNCHANGED access

PeerGone(c) ==
    /\ conn[c].pc = "relay" /\ Goto(c, "relay over")
    /\ UNCHANGED access

\* The lease, if any, is revoked, and both sockets are dropped.
RelayOver(c) ==
    /\ conn[c].pc = "relay over"
    /\ conn' = [conn EXCEPT ![c] = ClosedConnection]
    /\ UNCHANGED access
-----------------------------------------------------------------------------
(* The named handlers, for an identified caller: only the grant is read.    *)

ReceiveNamed(c, handler) ==
    /\ conn[c] = ClosedConnection
    /\ conn' = [conn EXCEPT ![c] =
           [At("named grant", {"grant"} \ access, FALSE) EXCEPT !.inside = handler]]
    /\ UNCHANGED access

NamedGrant(c) ==
    ReadGrant(c, "named grant",
              IF conn[c].inside = "proxy" THEN "proxy audit" ELSE "secrets fetch", "refused")

NamedRefused(c) ==
    Refuse(c, {"named grant", "proxy upstream", "secrets fetch"}, "refused")

\* proxy audits before it sends the request upstream,
ProxyAudit(c, recorded) ==
    /\ conn[c].pc = "proxy audit" /\ AuditThen(c, recorded, "proxy upstream", "refused")
    /\ UNCHANGED access

ProxyAnswers(c) ==
    /\ conn[c].pc = "proxy upstream" /\ Goto(c, "named answered")
    /\ UNCHANGED access

\* profile_secrets after it fetched the secrets.
SecretsFetched(c) ==
    /\ conn[c].pc = "secrets fetch" /\ Goto(c, "secrets audit")
    /\ UNCHANGED access

SecretsAudit(c, recorded) ==
    /\ conn[c].pc = "secrets audit" /\ AuditThen(c, recorded, "named answered", "refused")
    /\ UNCHANGED access
-----------------------------------------------------------------------------
\* The caller hangs up, or has its answer: handlers run inside the connection
\* and are dropped with it.  A relay has a task of its own.
HangUp(c) ==
    /\ conn[c] # ClosedConnection /\ conn[c].pc \notin Relaying \cup {"relay over", "tunnel"}
    /\ conn' = [conn EXCEPT ![c] = ClosedConnection]
    /\ UNCHANGED access

ProxyNext ==
    \/ EndSession \/ WithdrawGrant \/ Regrant
    \/ \E c \in Connections :
          \/ \E d \in {"route", "tunnel"} : ReceiveConnect(c, d)
          \/ ConnectSession(c) \/ ConnectGrant(c) \/ DialTunnel(c) \/ ConnectRefused(c)
          \/ TunnelEnds(c) \/ ReceiveRequest(c) \/ RequestSession(c) \/ RequestGrant(c)
          \/ RequestRefused(c) \/ ForwardRequest(c) \/ UpstreamFails(c) \/ Answer200(c)
          \/ DeadlinePasses(c) \/ RelayDeadline(c) \/ RelaySession(c) \/ RelayGrant(c)
          \/ RelayStoreFails(c) \/ PeerGone(c) \/ RelayOver(c)
          \/ \E h \in {"proxy", "secrets"} : ReceiveNamed(c, h)
          \/ NamedGrant(c) \/ NamedRefused(c) \/ ProxyAnswers(c) \/ SecretsFetched(c)
          \/ HangUp(c)
          \/ \E b \in BOOLEAN :
                \/ ConnectAudit(c, b) \/ UpstreamAnswers(c, b) \/ RequestAudit(c, b)
                \/ UpgradeAudit(c, b) \/ RelayCheck(c, b) \/ LeaseRenewed(c, b)
                \/ RelaySent(c, b) \/ ProxyAudit(c, b) \/ SecretsAudit(c, b)
                \/ \E size \in MessageSizes : RelayMessage(c, size, b)

\* Awaited store, backend and socket calls have timeouts, and select! chooses at
\* random among the ready branches, so that one which is ready again and again
\* is taken.
ProxyFairness ==
    \A c \in Connections :
        /\ SF_proxyVars(RelayDeadline(c)) /\ SF_proxyVars(RelayCheck(c, FALSE))
        /\ WF_proxyVars(RelaySession(c)) /\ WF_proxyVars(RelayGrant(c))
        /\ WF_proxyVars(\E b \in BOOLEAN : LeaseRenewed(c, b) \/ RelaySent(c, b))
        /\ WF_proxyVars(RelayOver(c))

ProxySpec == ProxyInit /\ [][ProxyNext]_proxyVars /\ ProxyFairness
-----------------------------------------------------------------------------
Admitted ==
    (Relaying \ {"relay session", "relay grant"}) \cup
    {"connect dial", "connect audit", "tunnel", "request policy", "request upstream",
     "request audit", "answered", "upgrade audit", "proxy audit", "proxy upstream",
     "secrets fetch", "secrets audit", "named answered"}

(* Whatever av does for a caller, it has checked access first, and no part *)
(* of access was missing from the beginning of that check to its end: a    *)
(* withdrawal that is over when a CONNECT, a request or a relay's check    *)
(* begins stops it.                                                        *)
AdmittedWithinCheck == \A c \in Connections : conn[c].pc \in Admitted => conn[c].missing = {}

(* No tunnel, answer, secret or relayed message reaches the caller before  *)
(* the audit event of the CONNECT or request it belongs to is recorded;    *)
(* the named proxy records it before anything goes upstream.               *)
DeliveredAudited ==
    \A c \in Connections :
        conn[c].pc \in Relaying \cup {"tunnel", "answered", "proxy upstream", "named answered"} =>
            conn[c].audited

(* Nothing is done for a caller without access, and nothing reaches the    *)
(* caller unrecorded, though access is withdrawn and the audit store       *)
(* fails between any two of a handler's awaits.                            *)
CheckedAndAudited == AdmittedWithinCheck /\ DeliveredAudited

(* "expiry, session revocation, agent disablement, or grant revocation     *)
(* terminates a live socket" (docs/transparent-proxy-design.md), whatever  *)
(* traffic keeps the relay busy, and without waiting for its deadline: a   *)
(* relay whose session is gone ends, and so does one whose grant is gone   *)
(* unless the grant comes back first.                                      *)
WithdrawalEndsRelay ==
    \A c \in Connections :
        (conn[c].pc \in Relaying /\ access # Parts) ~>
            (conn[c].pc \notin Relaying \/ access = Parts)

(* A relay whose lifetime limit has passed ends, however busy it is.       *)
RelaysEnd ==
    \A c \in Connections :
        (conn[c].pc \in Relaying /\ conn[c].overdue) ~> conn[c].pc \notin Relaying

(* No WebSocket relay outlives the caller's session, a grant that stays    *)
(* withdrawn, or its own lifetime limit for ever: the select loop of       *)
(* relay_websocket_streams gets to its check and to its deadline under any *)
(* traffic.                                                                *)
RelaysTerminate == WithdrawalEndsRelay /\ RelaysEnd

(* The same for credentialless tunnels, which the code never looks at      *)
(* again: not a property of this system.                                   *)
WithdrawalEndsTunnel ==
    \A c \in Connections :
        (conn[c].pc = "tunnel" /\ "session" \notin access) ~> conn[c].pc # "tunnel"
=============================================================================
