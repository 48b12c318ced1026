------------------------- MODULE ControlPlaneProofs -------------------------
(***************************************************************************)
(* Proofs about ControlPlane, for any accounts, subjects, profiles, number *)
(* of concurrent calls and initial rows.                                   *)
(*                                                                         *)
(* ControlInv is the invariant of the calls: what a call has seen of its   *)
(* caller's rights, and which calls have changed something, are in the     *)
(* audit trail or were answered.  PanelInv is the invariant of the pages:  *)
(* what a page has read of a subject that no call touched agrees with the  *)
(* database.                                                               *)
(***************************************************************************)
EXTENDS ControlPlane, TLAPS

Rendering == {"users", "agents", "roles", "viewer", "grants", "shown"}
Busy(h) == handler[h].pc # "idle"
Demands == {"owner", "operator", "auditor"}

\* A call under way, one of the first calls that were made.
CallShape(c, calls) ==
    /\ DOMAIN c = {"pc", "number", "credential", "request", "signedIn", "sufficient",
                   "touched", "panel"}
    /\ c.pc \in {"called", "checked", "committed"} \cup Rendering
    /\ c.number \in 1..calls
    /\ c.request.needs \in Demands /\ c.request.surface \in {"rpc", "ui"}
    /\ c.signedIn \in BOOLEAN /\ c.sufficient \in BOOLEAN
    /\ DOMAIN c.panel = {"users", "agents", "roles", "manages", "grants"}

ControlTypes ==
    /\ made \in Nat
    /\ handler = [h \in Handlers |-> handler[h]]
    /\ \A h \in Handlers : handler[h] = Idle \/ CallShape(handler[h], made)

\* What a call has seen of its caller's credential and role.
RightsFit ==
    \A h \in Handlers : Busy(h) =>
        /\ handler[h].signedIn
        /\ Sufficient(db, handler[h]) => handler[h].sufficient
        /\ handler[h].pc # "called" => handler[h].sufficient

\* No two calls under way have the same number.
NumbersFit ==
    /\ committed \subseteq 1..made
    /\ \A h, k \in Handlers :
          h # k /\ Busy(h) /\ Busy(k) => handler[h].number # handler[k].number

\* Where a call stands tells whether its change is committed and has its event.
TrailFit ==
    /\ AuditTrailMatches
    /\ \A h \in Handlers :
        /\ handler[h].pc \in {"called", "checked"} => handler[h].number \notin committed
        /\ handler[h].pc = "committed" => handler[h].number \in committed
        /\ handler[h].pc \in Rendering /\ handler[h].number \in committed =>
               handler[h].number \in trail

ControlInv == ControlTypes /\ RightsFit /\ NumbersFit /\ TrailFit
-----------------------------------------------------------------------------
\* Every RPC and every form of the panel demands one of three roles.
LEMMA RequestShapes ==
    ASSUME NEW h, NEW c, NEW trusted, ReceiveRpc(h, c) \/ ReceiveForm(h, c, trusted)
    PROVE  \E r, t : /\ Receive(h, c, r, t)
                     /\ r.needs \in Demands /\ r.surface \in {"rpc", "ui"}
<1> DEFINE Sound(r) == r.needs \in Demands /\ r.surface \in {"rpc", "ui"}
<1>1. ASSUME NEW needs \in Demands, NEW valid, NEW store, NEW target, NEW value
      PROVE  Sound(Rpc(needs, valid, store, target, value))
             /\ Sound(Form(needs, valid, store, target, value))
  BY DEF Rpc, Form, Request
<1> HIDE DEF Sound
<1>2. /\ "owner" \in Demands /\ "operator" \in Demands /\ "auditor" \in Demands
  BY DEF Demands
<1>3. ASSUME ReceiveRpc(h, c) PROVE \E r, t : Receive(h, c, r, t) /\ Sound(r)
  BY Zenon, <1>1, <1>2, <1>3 DEF ReceiveRpc, RpcListBasicUsers, RpcListAgents,
     RpcListPrincipalRoles, RpcListAuditEvents, RpcListProfileGrants, RpcUpsertBasicUser,
     RpcSetBasicUserEnabled, RpcCreateAgent, RpcRotateAgent, RpcDeleteAgent,
     RpcSetAgentEnabled, RpcSetPrincipalRole, RpcRevokeProfile, RpcGrantProfile
<1>4. ASSUME ReceiveForm(h, c, trusted) PROVE \E r, t : Receive(h, c, r, t) /\ Sound(r)
  BY <1>1, <1>2, <1>4 DEF ReceiveForm, UiOwner, UiUpsertBasicUser,
     UiSetBasicUserEnabled, UiCreateAgent, UiRotateAgent, UiDeleteAgent,
     UiSetAgentEnabled, UiSetPrincipalRole, UiRevokeProfile, UiGrantProfileSubject,
     UiGrantExternalProfile
<1> QED
  BY <1>3, <1>4 DEF Sound

\* Every step is one of these.
LEMMA ControlSteps ==
    ASSUME ControlNext
    PROVE  \E h \in Handlers :
              \/ \E c \in Presented : \E r, t :
                    Receive(h, c, r, t) /\ r.needs \in Demands /\ r.surface \in {"rpc", "ui"}
              \/ CheckRole(h) \/ CallStore(h) \/ AuditCall(h) \/ Fail(h)
              \/ ReadUsers(h) \/ ReadAgents(h) \/ ReadRoles(h) \/ ReadViewer(h)
              \/ ReadGrants(h) \/ Shown(h)
<1>1. CASE \E c \in Presented : \E h \in RpcHandlers : ReceiveRpc(h, c)
  <2>1. PICK c \in Presented, h \in RpcHandlers : ReceiveRpc(h, c)
    BY <1>1
  <2> QED
    BY <2>1, RequestShapes DEF Handlers
<1>2. CASE \E c \in Presented : \E h \in FormHandlers, t \in Bool : ReceiveForm(h, c, t)
  <2>1. PICK c \in Presented, h \in FormHandlers, t \in Bool : ReceiveForm(h, c, t)
    BY <1>2
  <2> QED
    BY <2>1, RequestShapes DEF Handlers
<1> QED
  BY <1>1, <1>2 DEF ControlNext

\* A credential that authenticate accepts is of an enabled account.
LEMMA AuthenticatedIsSignedIn ==
    ASSUME NEW d, NEW c \in Presented, Authenticates(d, c)
    PROVE  SignedIn(d, c)
BY DEF Presented, Authenticates, BasicAccepts, AgentAccepts, SignedIn

\* A role that the role check accepts is sufficient now.
LEMMA AllowedIsSufficient ==
    ASSUME NEW c, c.request.needs \in Demands,
           AllowedFor(c.request.needs, RoleIn(db, Actor(c.credential)))
    PROVE  Sufficient(db, c)
BY Zenon DEF Demands, AllowedFor, RoleIn, Sufficient, CanOperate, CanAudit

\* Observing a change does nothing to a handler at rest.
LEMMA ObservingIdle == ASSUME NEW d, NEW e PROVE Observing(Idle, d, e) = Idle
BY DEF Observing, Idle

\* What a call has seen only grows when another call changes the database.
LEMMA ObservingKeeps ==
    ASSUME NEW c, NEW d, NEW e, NEW calls, CallShape(c, calls)
    PROVE  /\ CallShape(Observing(c, d, e), calls)
           /\ Observing(c, d, e).pc = c.pc
           /\ Observing(c, d, e).number = c.number
           /\ Observing(c, d, e).credential = c.credential
           /\ Observing(c, d, e).request = c.request
           /\ Observing(c, d, e).panel = c.panel
           /\ c.signedIn => Observing(c, d, e).signedIn
           /\ c.sufficient \/ Sufficient(e, c) => Observing(c, d, e).sufficient
           /\ c.touched \subseteq Observing(c, d, e).touched
           /\ c.request.surface = "ui" => Differing(d, e) \subseteq Observing(c, d, e).touched
BY Zenon DEF Observing, Idle, CallShape, Rendering

\* What the invariant asks of a call in handler h.
CallFits(c, h) ==
    /\ CallShape(c, made')
    /\ c.signedIn /\ (Sufficient(db', c) => c.sufficient)
    /\ c.pc # "called" => c.sufficient
    /\ \A k \in Handlers : k # h /\ Busy(k) => c.number # handler[k].number
    /\ c.pc \in {"called", "checked"} => c.number \notin committed'
    /\ c.pc = "committed" => c.number \in committed'
    /\ c.pc \in Rendering /\ c.number \in committed' => c.number \in trail'

\* A step that leaves the database alone and puts its own handler into a fitting
\* state keeps the invariant.
LEMMA OneMoves ==
    ASSUME ControlInv, NEW h \in Handlers, NEW c, c = Idle \/ CallFits(c, h),
           handler' = [handler EXCEPT ![h] = c], made' \in {made, made + 1},
           UNCHANGED <<db, committed>>,
           trail \subseteq trail', trail' \subseteq committed, acked' \subseteq trail'
    PROVE  ControlInv'
<1> USE DEF Busy
<1>1. made \in Nat /\ made' \in Nat /\ made <= made'
  BY DEF ControlInv, ControlTypes
<1>2. \A k \in Handlers : handler'[k] = IF k = h THEN c ELSE handler[k]
  BY DEF ControlInv, ControlTypes
<1>3. handler' = [k \in Handlers |-> handler'[k]]
  BY DEF ControlInv, ControlTypes
<1>4. ASSUME NEW k \in Handlers, handler[k] # Idle PROVE CallShape(handler[k], made')
  BY <1>1, <1>4 DEF ControlInv, ControlTypes, CallShape
<1>5. ControlTypes'
  BY <1>1, <1>2, <1>3, <1>4 DEF ControlTypes, CallFits
<1>6. Idle.pc = "idle" /\ "idle" \notin {"called", "checked", "committed"} \cup Rendering
  BY DEF Idle, Rendering
<1>7. RightsFit'
  BY <1>2, <1>6 DEF ControlInv, RightsFit, CallFits
<1>8. NumbersFit'
  <2>1. committed' \subseteq 1..made'
    BY <1>1 DEF ControlInv, NumbersFit
  <2>2. ASSUME NEW j \in Handlers, NEW k \in Handlers, j # k, Busy(j)', Busy(k)'
        PROVE  handler'[j].number # handler'[k].number
    BY <1>2, <1>6, <2>2 DEF ControlInv, NumbersFit, CallFits
  <2> QED
    BY <2>1, <2>2 DEF NumbersFit
<1>9. TrailFit'
  <2>1. AuditTrailMatches'
    BY DEF AuditTrailMatches
  <2>2. ASSUME NEW k \in Handlers
        PROVE (/\ handler[k].pc \in {"called", "checked"} => handler[k].number \notin committed
               /\ handler[k].pc = "committed" => handler[k].number \in committed
               /\ handler[k].pc \in Rendering /\ handler[k].number \in committed =>
                      handler[k].number \in trail)'
    BY <1>2, <1>6 DEF ControlInv, TrailFit, CallFits
  <2> QED
    BY <2>1, <2>2 DEF TrailFit
<1> QED
  BY <1>5, <1>7, <1>8, <1>9 DEF ControlInv

\* What the invariant says of one call.
LEMMA OneCall ==
    ASSUME ControlInv, NEW h \in Handlers, Busy(h), made' = made,
           UNCHANGED <<db, committed>>, trail \subseteq trail'
    PROVE  CallFits(handler[h], h)
<1>1. handler[h] # Idle
  BY DEF Busy, Idle
<1>2. CallShape(handler[h], made')
  BY <1>1 DEF ControlInv, ControlTypes
<1> QED
  BY <1>2 DEF ControlInv, RightsFit, NumbersFit, TrailFit, CallFits, Busy

\* A call arrives with a credential that authenticates.
LEMMA ReceiveKeeps ==
    ASSUME ControlInv, NEW h \in Handlers, NEW c \in Presented, NEW r, NEW t,
           Receive(h, c, r, t), r.needs \in Demands, r.surface \in {"rpc", "ui"}
    PROVE  ControlInv'
<1> DEFINE call == [pc |-> "called", number |-> made + 1, credential |-> c,
                    request |-> r, signedIn |-> SignedIn(db, c),
                    sufficient |-> FALSE, touched |-> {}, panel |-> NoPanel]
           new == [call EXCEPT !.sufficient = Sufficient(db, call)]
<1>1. SignedIn(db, c)
  BY AuthenticatedIsSignedIn DEF Receive
<1>2. Sufficient(db, call) \in BOOLEAN
  BY DEF Sufficient
<1>3. Sufficient(db, new) <=> Sufficient(db, call)
  BY DEF Sufficient
<1>4. made \in Nat /\ \A k \in Handlers : handler[k] = Idle \/ CallShape(handler[k], made)
  BY DEF ControlInv, ControlTypes
<1>5. /\ handler' = [handler EXCEPT ![h] = new] /\ made' = made + 1
      /\ UNCHANGED <<db, committed, trail, acked>>
  BY DEF Receive
<1>6. /\ new.pc = "called" /\ new.number = made + 1 /\ new.request = r
      /\ new.signedIn = SignedIn(db, c) /\ new.sufficient = Sufficient(db, call)
      /\ new.panel = NoPanel
      /\ DOMAIN new = {"pc", "number", "credential", "request", "signedIn", "sufficient",
                       "touched", "panel"}
  OBVIOUS
<1> HIDE DEF new, call
<1>7. CallShape(new, made')
  BY <1>1, <1>2, <1>4, <1>5, <1>6 DEF CallShape, NoPanel
<1>8. \A k \in Handlers : Busy(k) => handler[k].number \in 1..made
  BY <1>4 DEF Busy, Idle, CallShape
<1>9. CallFits(new, h)
  BY <1>1, <1>3, <1>4, <1>5, <1>6, <1>7, <1>8 DEF CallFits, ControlInv, NumbersFit, Rendering
<1>10. acked \subseteq trail /\ trail \subseteq committed
  BY DEF ControlInv, TrailFit, AuditTrailMatches
<1> QED
  BY Zenon, <1>4, <1>5, <1>9, <1>10, OneMoves

\* The role check, the audit event, a failure and the end of the page keep it.
LEMMA MovesKeep ==
    ASSUME ControlInv, NEW h \in Handlers, CheckRole(h) \/ AuditCall(h) \/ Fail(h) \/ Shown(h)
    PROVE  ControlInv'
<1>0. acked \subseteq trail /\ trail \subseteq committed
  BY DEF ControlInv, TrailFit, AuditTrailMatches
<1> DEFINE c == handler[h]
<1>1. Busy(h) /\ made' = made /\ UNCHANGED <<db, committed>> /\ trail \subseteq trail'
  BY DEF CheckRole, AuditCall, Fail, Shown, Busy, RecordAudit, AuditWritten
<1>2. CallFits(c, h)
  BY <1>1, OneCall
<1>3. CASE CheckRole(h)
  <2>1. CASE AllowedFor(c.request.needs, RoleIn(db, Actor(c.credential)))
    <3>1. c.sufficient
      BY <1>1, <1>2, <2>1, AllowedIsSufficient DEF CallFits, CallShape
    <3>2. CallFits([c EXCEPT !.pc = "checked"], h)
      <4>1. Sufficient(db', [c EXCEPT !.pc = "checked"]) <=> Sufficient(db', c)
        BY <1>2 DEF Sufficient, CallFits, CallShape
      <4> QED
        BY Zenon, <1>2, <1>3, <3>1, <4>1 DEF CheckRole, CallFits, CallShape, Rendering
    <3>3. handler' = [handler EXCEPT ![h] = [c EXCEPT !.pc = "checked"]]
      BY <1>3, <2>1 DEF CheckRole
    <3> QED
      BY Zenon, <1>0, <1>1, <1>3, <3>2, <3>3, OneMoves DEF CheckRole
  <2>2. CASE ~AllowedFor(c.request.needs, RoleIn(db, Actor(c.credential)))
    <3>1. handler' = [handler EXCEPT ![h] = Idle]
      BY <1>3, <2>2 DEF CheckRole
    <3> QED
      BY Zenon, <1>0, <1>1, <1>3, <3>1, OneMoves DEF CheckRole
  <2> QED
    BY <2>1, <2>2
<1>4. CASE AuditCall(h)
  <2>1. /\ c.pc = "committed" /\ trail' = trail \cup {c.number}
        /\ handler' = [handler EXCEPT ![h] = Answering(c)]
        /\ acked' \subseteq acked \cup {c.number}
    BY <1>4 DEF AuditCall, RecordAudit, AuditWritten
  <2>2. trail' \subseteq committed /\ acked' \subseteq trail'
    BY <1>0, <1>1, <1>2, <2>1 DEF CallFits
  <2>3. Answering(c) = Idle \/ CallFits(Answering(c), h)
    <3>1. CASE c.request.surface = "ui"
      <4> DEFINE a == [c EXCEPT !.pc = "users", !.touched = {}]
      <4>1. Answering(c) = a
        BY <3>1 DEF Answering
      <4>2. /\ a.pc = "users" /\ a.number = c.number /\ a.credential = c.credential
            /\ a.request = c.request /\ a.signedIn = c.signedIn
            /\ a.sufficient = c.sufficient /\ a.panel = c.panel /\ DOMAIN a = DOMAIN c
        BY Zenon, <1>2 DEF CallFits, CallShape
      <4> HIDE DEF a
      <4>3. Sufficient(db', a) <=> Sufficient(db', c)
        BY <4>2 DEF Sufficient
      <4> QED
        BY <1>2, <2>1, <4>1, <4>2, <4>3 DEF CallFits, CallShape, Rendering
    <3> QED
      BY <3>1 DEF Answering
  <2> QED
    BY Zenon, <1>1, <2>1, <2>2, <2>3, OneMoves
<1>5. CASE Fail(h)
  BY Zenon, <1>0, <1>1, <1>5, OneMoves DEF Fail
<1>6. CASE Shown(h)
  <2>1. acked' \subseteq trail'
    BY <1>0, <1>2, <1>6 DEF Shown, CallFits, Rendering
  <2> QED
    BY Zenon, <1>0, <1>1, <1>6, <2>1, OneMoves DEF Shown
<1> QED
  BY <1>3, <1>4, <1>5, <1>6

\* The reads of the panel keep it.
LEMMA ReadsKeep ==
    ASSUME ControlInv, NEW h \in Handlers,
           ReadUsers(h) \/ ReadAgents(h) \/ ReadRoles(h) \/ ReadViewer(h) \/ ReadGrants(h)
    PROVE  ControlInv'
<1> DEFINE c == handler[h]
<1>0. acked \subseteq trail /\ trail \subseteq committed
  BY DEF ControlInv, TrailFit, AuditTrailMatches
<1>1. /\ c.pc \in Rendering /\ UNCHANGED <<made, db, committed, trail, acked>>
      /\ \E next \in Rendering : \E panel :
            /\ handler' = [handler EXCEPT ![h].pc = next, ![h].panel = panel]
            /\ DOMAIN panel = DOMAIN c.panel
  <2> DEFINE Reads(pc, next, q) == PanelStep(h, pc, next, q) /\ DOMAIN q = DOMAIN c.panel
  <2>0. ASSUME NEW n PROVE AfterReads(n) \in {"grants", "shown"}
    BY DEF AfterReads
  <2> SUFFICES \E pc, next \in Rendering : \E q : Reads(pc, next, q)
    BY Zenon DEF PanelStep
  <2>1. CASE ReadUsers(h)
    <3> DEFINE q == [c.panel EXCEPT !.users = ListBasicUsers(db)]
    <3>1. DOMAIN q = DOMAIN c.panel
      OBVIOUS
    <3>2. PanelStep(h, "users", "agents", q)
      BY <2>1 DEF ReadUsers
    <3> HIDE DEF q
    <3> QED
      BY <3>1, <3>2 DEF Rendering
  <2>2. CASE ReadAgents(h)
    <3> DEFINE q == [c.panel EXCEPT !.agents = ListAgents(db)]
    <3>1. DOMAIN q = DOMAIN c.panel
      OBVIOUS
    <3>2. PanelStep(h, "agents", "roles", q)
      BY <2>2 DEF ReadAgents
    <3> HIDE DEF q
    <3> QED
      BY <3>1, <3>2 DEF Rendering
  <2>3. CASE ReadRoles(h)
    <3> DEFINE q == [c.panel EXCEPT !.roles = ListPrincipalRoles(db)]
    <3>1. DOMAIN q = DOMAIN c.panel
      OBVIOUS
    <3>2. PanelStep(h, "roles", "viewer", q)
      BY <2>3 DEF ReadRoles
    <3> HIDE DEF q
    <3> QED
      BY <3>1, <3>2 DEF Rendering
  <2>4. CASE ReadViewer(h)
    <3> DEFINE q == [c.panel EXCEPT !.manages = RoleIn(db, Actor(c.credential)) = "owner"]
    <3>1. DOMAIN q = DOMAIN c.panel
      OBVIOUS
    <3>2. PanelStep(h, "viewer", AfterReads(0), q)
      BY <2>4 DEF ReadViewer
    <3> HIDE DEF q
    <3> QED
      BY <2>0, <3>1, <3>2 DEF Rendering
  <2>5. CASE ReadGrants(h)
    <3> DEFINE q == [c.panel EXCEPT !.grants =
                   Append(c.panel.grants, ListGrants(db, ConfiguredProfiles[Len(c.panel.grants) + 1]))]
    <3>1. DOMAIN q = DOMAIN c.panel
      OBVIOUS
    <3>2. PanelStep(h, "grants", AfterReads(Len(c.panel.grants) + 1), q)
      BY <2>5 DEF ReadGrants
    <3> HIDE DEF q
    <3> QED
      BY <2>0, <3>1, <3>2 DEF Rendering
  <2> QED
    BY ZenonT(20), <2>1, <2>2, <2>3, <2>4, <2>5
<1>2. CallFits(c, h)
  BY <1>1, OneCall DEF Busy, Rendering
<1>3. PICK next \in Rendering : \E panel :
            /\ handler' = [handler EXCEPT ![h].pc = next, ![h].panel = panel]
            /\ DOMAIN panel = DOMAIN c.panel
  BY Zenon, <1>1
<1>4. PICK panel : /\ handler' = [handler EXCEPT ![h].pc = next, ![h].panel = panel]
                   /\ DOMAIN panel = DOMAIN c.panel
  BY Zenon, <1>3
<1> DEFINE a == [c EXCEPT !.pc = next, !.panel = panel]
<1>5. handler' = [handler EXCEPT ![h] = a]
  BY Zenon, <1>4 DEF ControlInv, ControlTypes
<1>6. /\ a.pc = next /\ a.number = c.number /\ a.credential = c.credential
      /\ a.request = c.request /\ a.signedIn = c.signedIn
      /\ a.sufficient = c.sufficient /\ a.panel = panel /\ DOMAIN a = DOMAIN c
  BY Zenon, <1>2 DEF CallFits, CallShape
<1> HIDE DEF a
<1>7. Sufficient(db', a) <=> Sufficient(db', c)
  BY <1>6 DEF Sufficient
<1>8. CallFits(a, h)
  BY <1>1, <1>2, <1>4, <1>6, <1>7 DEF CallFits, CallShape, Rendering
<1> QED
  BY Zenon, <1>0, <1>1, <1>5, <1>8, OneMoves

\* The store call keeps it, whatever it changes under the other calls.
LEMMA StoreKeeps ==
    ASSUME ControlInv, NEW h \in Handlers, CallStore(h)
    PROVE  ControlInv'
<1> DEFINE c == handler[h]
<1> USE DEF Busy
<1>0. /\ acked \subseteq trail /\ trail \subseteq committed /\ committed \subseteq 1..made
      /\ c.pc = "checked" /\ UNCHANGED <<made, trail, acked>>
  BY DEF ControlInv, TrailFit, AuditTrailMatches, NumbersFit, CallStore
<1>1. CASE StoreResult(db, c.request) # "done"
  BY <1>0, <1>1, OneMoves DEF CallStore
<1>2. CASE StoreResult(db, c.request) = "done"
  <2>1. /\ committed' = IF Changing(c.request) THEN committed \cup {c.number} ELSE committed
        /\ \E next \in {AfterStore(c), Idle} :
              handler' = [k \in Handlers |->
                  Observing(IF k = h THEN next ELSE handler[k], db, db')]
    BY <1>2 DEF CallStore
  <2>2. PICK next \in {AfterStore(c), Idle} :
              handler' = [k \in Handlers |->
                  Observing(IF k = h THEN next ELSE handler[k], db, db')]
    BY <2>1
  <2> DEFINE X(k) == IF k = h THEN next ELSE handler[k]
  <2>3. /\ CallShape(c, made) /\ c.signedIn /\ c.sufficient /\ c.number \notin committed
        /\ \A k \in Handlers : k # h /\ Busy(k) => c.number # handler[k].number
    <3>1. c # Idle
      BY <1>0 DEF Idle
    <3> QED
      BY <1>0, <3>1 DEF ControlInv, ControlTypes, RightsFit, NumbersFit, TrailFit
  <2>4. next = Idle \/ (/\ CallShape(next, made) /\ next.number = c.number
                        /\ next.signedIn /\ next.sufficient
                        /\ IF Changing(c.request) THEN next.pc = "committed"
                                                  ELSE next.pc = "users")
    <3>1. CASE Changing(c.request)
      <4>1. next = Idle \/ next = [c EXCEPT !.pc = "committed"]
        BY <3>1 DEF AfterStore
      <4> QED
        BY Zenon, <2>3, <3>1, <4>1 DEF CallShape
    <3>2. CASE ~Changing(c.request)
      <4>1. next = Idle \/ next = [c EXCEPT !.pc = "users", !.touched = {}]
        BY <3>2 DEF AfterStore, Answering
      <4> QED
        BY ZenonT(40), <2>3, <3>2, <4>1 DEF CallShape, Rendering
    <3> QED
      BY <3>1, <3>2
  <2>5. \A k \in Handlers : X(k) = Idle \/ CallShape(X(k), made)
    BY <2>4 DEF ControlInv, ControlTypes
  <2>6. ASSUME NEW k \in Handlers
        PROVE  /\ X(k) = Idle => handler'[k] = Idle
               /\ CallShape(X(k), made) =>
                    /\ CallShape(handler'[k], made)
                    /\ handler'[k].pc = X(k).pc /\ handler'[k].number = X(k).number
                    /\ handler'[k].credential = X(k).credential
                    /\ handler'[k].request = X(k).request
                    /\ X(k).signedIn => handler'[k].signedIn
                    /\ X(k).sufficient \/ Sufficient(db', X(k)) => handler'[k].sufficient
    <3>1. handler'[k] = Observing(X(k), db, db')
      BY <2>2
    <3> HIDE DEF X
    <3>2. CASE X(k) = Idle
      BY <3>1, <3>2, ObservingIdle DEF CallShape, Idle
    <3>3. CASE CallShape(X(k), made)
      <4>1. X(k) # Idle
        BY <3>3 DEF CallShape, Idle
      <4> QED
        BY <3>1, <3>3, <4>1, ObservingKeeps
    <3> QED
      BY <3>2, <3>3
  <2>7. ControlTypes'
    <3>1. handler' = [k \in Handlers |-> handler'[k]]
      BY <2>2
    <3>2. made \in Nat /\ made' = made
      BY <1>0 DEF ControlInv, ControlTypes
    <3> QED
      BY <2>5, <2>6, <3>1, <3>2 DEF ControlTypes
  <2>8. Idle.pc = "idle" /\ "idle" \notin {"called", "checked", "committed"} \cup Rendering
    BY DEF Idle, Rendering
  <2>9. \A k \in Handlers : CallShape(X(k), made) => X(k).signedIn /\ (X(k).pc # "called" => X(k).sufficient)
    BY <2>4, <2>8 DEF ControlInv, RightsFit, CallShape
  <2> HIDE DEF X
  <2>10. RightsFit'
    <3>1. ASSUME NEW k \in Handlers, Busy(k)'
          PROVE (/\ handler[k].signedIn
                 /\ Sufficient(db, handler[k]) => handler[k].sufficient
                 /\ handler[k].pc # "called" => handler[k].sufficient)'
      <4>1. CallShape(X(k), made)
        BY <2>5, <2>6, <2>8, <3>1
      <4>2. Sufficient(db', handler'[k]) <=> Sufficient(db', X(k))
        BY <2>6, <4>1 DEF Sufficient
      <4> QED
        BY <2>6, <2>9, <4>1, <4>2
    <3> QED
      BY <3>1 DEF RightsFit
  <2>11. \A k \in Handlers : Busy(k)' =>
            /\ X(k).pc # "idle" /\ handler'[k].pc = X(k).pc
            /\ handler'[k].number = X(k).number
    BY <2>5, <2>6, <2>8 DEF CallShape
  <2>12. NumbersFit'
    <3>1. committed' \subseteq 1..made'
      BY Zenon, <1>0, <2>1, <2>3 DEF CallShape
    <3>2. ASSUME NEW j \in Handlers, NEW k \in Handlers, j # k, Busy(j)', Busy(k)'
          PROVE  handler'[j].number # handler'[k].number
      <4>1. \A i \in Handlers : i # h => X(i) = handler[i]
        BY DEF X
      <4>2. X(h).pc # "idle" => X(h).number = c.number
        BY <2>4, <2>8 DEF X
      <4> QED
        BY <2>3, <2>11, <3>2, <4>1, <4>2 DEF ControlInv, NumbersFit
    <3> QED
      BY <3>1, <3>2 DEF NumbersFit
  <2>13. TrailFit'
    <3>1. AuditTrailMatches'
      BY <1>0, <2>1 DEF AuditTrailMatches
    <3>2. ASSUME NEW k \in Handlers
          PROVE (/\ handler[k].pc \in {"called", "checked"} => handler[k].number \notin committed
                 /\ handler[k].pc = "committed" => handler[k].number \in committed
                 /\ handler[k].pc \in Rendering /\ handler[k].number \in committed =>
                        handler[k].number \in trail)'
      <4>1. CASE ~Busy(k)'
        BY <2>8, <4>1
      <4>2. CASE Busy(k)' /\ k = h
        <5>1. /\ handler'[k].number = c.number
              /\ IF Changing(c.request) THEN handler'[k].pc = "committed"
                                        ELSE handler'[k].pc = "users"
          BY <2>4, <2>8, <2>11, <4>2 DEF X
        <5> QED
          BY <2>1, <2>3, <5>1 DEF Rendering
      <4>3. CASE Busy(k)' /\ k # h
        <5>1. /\ handler'[k].pc = handler[k].pc /\ handler'[k].number = handler[k].number
              /\ handler[k].number # c.number
          BY <2>3, <2>11, <4>3 DEF X
        <5> QED
          BY <1>0, <2>1, <5>1 DEF ControlInv, TrailFit
      <4> QED
        BY <4>1, <4>2, <4>3
    <3> QED
      BY <3>1, <3>2 DEF TrailFit
  <2> QED
    BY <2>7, <2>10, <2>12, <2>13 DEF ControlInv
<1> QED
  BY <1>1, <1>2

\* The invariant holds throughout.
LEMMA ControlInvariant == ControlSpec => []ControlInv
<1>1. ControlInit => ControlInv
  BY DEF ControlInit, ControlInv, ControlTypes, RightsFit, NumbersFit, TrailFit,
     AuditTrailMatches, Busy, Idle, Rendering
<1>2. ControlInv /\ [ControlNext]_controlVars => ControlInv'
  <2>1. ASSUME ControlInv, ControlNext PROVE ControlInv'
    BY <2>1, ControlSteps, ReceiveKeeps, MovesKeep, ReadsKeep, StoreKeeps
  <2>2. ASSUME ControlInv, UNCHANGED controlVars PROVE ControlInv'
    BY <2>2 DEF controlVars, ControlInv, ControlTypes, RightsFit, NumbersFit, TrailFit,
       AuditTrailMatches, Busy, CallShape, Sufficient
  <2> QED
    BY <2>1, <2>2
<1> QED
  BY <1>1, <1>2, PTL DEF ControlSpec

\* A change is made only for a caller whose credential was valid and whose role was
\* sufficient at some moment of the call, although both are checked before the
\* store is called and other calls change them in between.
THEOREM ChangesAuthorized == ControlSpec => []AuthorizedWithinCall
<1>1. ControlInv => AuthorizedWithinCall
  BY DEF ControlInv, RightsFit, Busy, AuthorizedWithinCall
<1> QED
  BY <1>1, ControlInvariant, PTL

\* A change that was answered with success has its event in the audit trail, and every
\* event is of a change that was committed, although commit and event are two steps
\* and the call may fail between them.
THEOREM AnswersAudited == ControlSpec => []AuditTrailMatches
<1>1. ControlInv => AuditTrailMatches
  BY DEF ControlInv, TrailFit
<1> QED
  BY <1>1, ControlInvariant, PTL
-----------------------------------------------------------------------------
\* What has been read of a subject that did not change is as it is now.
RowAgrees(pc, p, s, d) ==
    /\ pc \in {"agents", "roles", "viewer", "grants", "shown"} /\ s[1] = "basic" =>
           (s[2] \in p.users <=> d.users[s[2]] # Absent)
    /\ pc \in {"roles", "viewer", "grants", "shown"} /\ s[1] = "agent" =>
           (s[2] \in p.agents <=> d.agents[s[2]] # Absent)
    /\ pc \in {"viewer", "grants", "shown"} => p.roles[s] = d.roles[s]
    /\ \A i \in 1..Len(p.grants) : p.grants[i][s] = d.grants[<<s, ConfiguredProfiles[i]>>]

\* How far a page has been read, and that what was read agrees with the database d.
PanelFits(c, d) ==
    /\ c.pc \in {"called", "checked", "committed", "users"} => c.panel = NoPanel
    /\ c.pc \in Rendering => c.request.surface = "ui"
    /\ c.panel.users \subseteq BasicNames /\ c.panel.agents \subseteq AgentNames
    /\ \E S : c.panel.grants \in Seq(S)
    /\ Len(c.panel.grants) <= Len(ConfiguredProfiles)
    /\ c.pc \in {"agents", "roles", "viewer"} => c.panel.grants = <<>>
    /\ c.pc = "grants" => Len(c.panel.grants) < Len(ConfiguredProfiles)
    /\ c.pc = "shown" => Len(c.panel.grants) = Len(ConfiguredProfiles)
    /\ \A s \in Subjects \ c.touched : RowAgrees(c.pc, c.panel, s, d)

PanelInv == \A h \in Handlers : handler[h] = Idle \/ PanelFits(handler[h], db)

\* The configured profiles are a sequence of their names.
LEMMA ProfilesSequence ==
    /\ Len(ConfiguredProfiles) \in Nat
    /\ \A i \in 1..Len(ConfiguredProfiles) : ConfiguredProfiles[i] \in ProfileNames
    /\ DOMAIN ConfiguredProfiles = 1..Len(ConfiguredProfiles)
BY ControlPlaneAssumption DEF ProfileNames

\* What a page has read of a subject stays right until the subject is touched.
LEMMA ObservingKeepsPanel ==
    ASSUME NEW c, NEW d, NEW e, NEW calls, CallShape(c, calls), PanelFits(c, d)
    PROVE  PanelFits(Observing(c, d, e), e)
<1> DEFINE o == Observing(c, d, e)
<1>1. /\ o.pc = c.pc /\ o.request = c.request /\ o.panel = c.panel
      /\ c.touched \subseteq o.touched
      /\ c.request.surface = "ui" => Differing(d, e) \subseteq o.touched
  <2>1. CallShape(c, calls)
    OBVIOUS
  <2>2. o.pc = c.pc /\ o.request = c.request /\ o.panel = c.panel
    BY ZenonT(40), <2>1, ObservingKeeps
  <2>3. c.touched \subseteq o.touched
    BY Zenon, <2>1, ObservingKeeps
  <2>4. c.request.surface = "ui" => Differing(d, e) \subseteq o.touched
    BY Zenon, <2>1, ObservingKeeps
  <2> QED
    BY <2>2, <2>3, <2>4
<1> HIDE DEF o
<1>2. ASSUME NEW s \in Subjects \ o.touched PROVE RowAgrees(o.pc, o.panel, s, e)
  <2>1. RowAgrees(c.pc, c.panel, s, d)
    BY <1>1 DEF PanelFits
  <2>2. CASE c.pc \in Rendering
    <3>1. s \notin Differing(d, e)
      BY <1>1, <2>2 DEF PanelFits
    <3>2. /\ d.roles[s] = e.roles[s]
          /\ \A p \in ProfileNames : d.grants[<<s, p>>] = e.grants[<<s, p>>]
          /\ s[1] = "basic" => (d.users[s[2]] # Absent <=> e.users[s[2]] # Absent)
          /\ s[1] = "agent" => (d.agents[s[2]] # Absent <=> e.agents[s[2]] # Absent)
      BY <3>1 DEF Differing
    <3>3. \A i \in 1..Len(c.panel.grants) : ConfiguredProfiles[i] \in ProfileNames
      <4>1. Len(c.panel.grants) <= Len(ConfiguredProfiles) /\ Len(c.panel.grants) \in Nat
        BY DEF PanelFits
      <4> QED
        BY <4>1, ProfilesSequence
    <3> QED
      BY ZenonT(40), <1>1, <2>1, <3>2, <3>3 DEF RowAgrees
  <2>3. CASE c.pc \notin Rendering
    <3>1. c.pc \in {"called", "checked", "committed"} /\ c.panel = NoPanel
      BY <2>3 DEF CallShape, PanelFits
    <3>2. Len(c.panel.grants) = 0
      BY <3>1 DEF NoPanel
    <3> QED
      BY <1>1, <3>1, <3>2 DEF RowAgrees
  <2> QED
    BY <2>2, <2>3
<1> QED
  BY <1>1, <1>2 DEF PanelFits, o

\* A call that has read nothing yet.
LEMMA FreshPanel ==
    ASSUME NEW c, NEW d, c.panel = NoPanel,
           \/ c.pc \in {"called", "checked", "committed"}
           \/ c.pc = "users" /\ c.request.surface = "ui"
    PROVE  PanelFits(c, d)
<1>1. NoPanel.grants = <<>> /\ Len(NoPanel.grants) = 0
  BY DEF NoPanel
<1>2. \E S : NoPanel.grants \in Seq(S)
  BY <1>1
<1>3. NoPanel.users \subseteq BasicNames /\ NoPanel.agents \subseteq AgentNames
  BY DEF NoPanel
<1> QED
  BY <1>1, <1>2, <1>3, ProfilesSequence DEF PanelFits, RowAgrees, Rendering

\* What a read has to show of the page it leaves behind.
PanelReady(next, p, touched) ==
    /\ p.users \subseteq BasicNames /\ p.agents \subseteq AgentNames
    /\ \E S : p.grants \in Seq(S)
    /\ Len(p.grants) <= Len(ConfiguredProfiles)
    /\ next \in {"agents", "roles", "viewer"} => p.grants = <<>>
    /\ next = "grants" => Len(p.grants) < Len(ConfiguredProfiles)
    /\ next = "shown" => Len(p.grants) = Len(ConfiguredProfiles)
    /\ \A s \in Subjects \ touched : RowAgrees(next, p, s, db)

\* A handler whose page is ready fits.
LEMMA ReadyFits ==
    ASSUME NEW c, c.pc \in {"agents", "roles", "viewer", "grants", "shown"},
           c.request.surface = "ui", PanelReady(c.pc, c.panel, c.touched)
    PROVE  PanelFits(c, db)
BY DEF PanelFits, PanelReady

\* A step that leaves the database alone keeps the pages of the other handlers.
LEMMA PanelMoves ==
    ASSUME ControlInv, PanelInv, NEW h \in Handlers, NEW c, c = Idle \/ PanelFits(c, db),
           handler' = [handler EXCEPT ![h] = c], db' = db
    PROVE  PanelInv'
<1>1. \A k \in Handlers : handler'[k] = IF k = h THEN c ELSE handler[k]
  BY DEF ControlInv, ControlTypes
<1> QED
  BY <1>1 DEF PanelInv

\* A call that has not begun to read keeps the invariant.
LEMMA PanelStarts ==
    ASSUME ControlInv, PanelInv, NEW h \in Handlers,
           \/ \E c \in Presented : \E r, t : Receive(h, c, r, t)
           \/ CheckRole(h) \/ AuditCall(h) \/ Fail(h) \/ Shown(h)
    PROVE  PanelInv'
<1> DEFINE c == handler[h]
<1>0. c # Idle => CallShape(c, made) /\ PanelFits(c, db)
  BY DEF ControlInv, ControlTypes, PanelInv
<1>1. ASSUME NEW w \in Presented, NEW r, NEW t, Receive(h, w, r, t) PROVE PanelInv'
  <2> DEFINE call == [pc |-> "called", number |-> made + 1, credential |-> w,
                      request |-> r, signedIn |-> SignedIn(db, w),
                      sufficient |-> FALSE, touched |-> {}, panel |-> NoPanel]
             n == [call EXCEPT !.sufficient = Sufficient(db, call)]
  <2>1. handler' = [handler EXCEPT ![h] = n] /\ db' = db
    BY <1>1 DEF Receive
  <2>2. n.panel = NoPanel /\ n.pc = "called"
    OBVIOUS
  <2> HIDE DEF n
  <2> QED
    BY Zenon, <2>1, <2>2, FreshPanel, PanelMoves
<1>2. CASE CheckRole(h)
  <2>1. c.pc = "called" /\ c # Idle
    BY <1>2 DEF CheckRole, Idle
  <2>2. c.panel = NoPanel /\ CallShape(c, made)
    BY <1>0, <2>1 DEF PanelFits
  <2> DEFINE a == [c EXCEPT !.pc = "checked"]
  <2>3. a.pc = "checked" /\ a.panel = NoPanel
    BY <2>2 DEF CallShape
  <2>4. db' = db /\ (handler' = [handler EXCEPT ![h] = a] \/ handler' = [handler EXCEPT ![h] = Idle])
    BY Zenon, <1>2 DEF CheckRole
  <2> HIDE DEF a
  <2> QED
    BY <2>3, <2>4, FreshPanel, PanelMoves
<1>3. CASE AuditCall(h)
  <2>1. c.pc = "committed" /\ c # Idle
    BY <1>3 DEF AuditCall, Idle
  <2>2. c.panel = NoPanel /\ CallShape(c, made)
    BY <1>0, <2>1 DEF PanelFits
  <2> DEFINE a == [c EXCEPT !.pc = "users", !.touched = {}]
  <2>3. a.pc = "users" /\ a.panel = NoPanel /\ a.request = c.request
    BY <2>2 DEF CallShape
  <2>4. /\ db' = db /\ handler' = [handler EXCEPT ![h] = Answering(c)]
        /\ c.request.surface = "ui" => Answering(c) = a
        /\ c.request.surface # "ui" => Answering(c) = Idle
    BY <1>3 DEF AuditCall, Answering
  <2> HIDE DEF a
  <2>5. PanelFits(a, db) \/ c.request.surface # "ui"
    BY <2>3, FreshPanel
  <2>6. Answering(c) = Idle \/ PanelFits(Answering(c), db)
    BY <2>4, <2>5
  <2> QED
    BY Zenon, <2>4, <2>6, PanelMoves
<1>4. CASE Fail(h) \/ Shown(h)
  BY <1>4, PanelMoves DEF Fail, Shown
<1> QED
  BY <1>1, <1>2, <1>3, <1>4

\* The store call touches the subjects whose rows it changes.
LEMMA PanelStore ==
    ASSUME ControlInv, PanelInv, NEW h \in Handlers, CallStore(h)
    PROVE  PanelInv'
<1> DEFINE c == handler[h]
<1>0. c.pc = "checked" /\ c # Idle
  BY DEF CallStore, Idle
<1>1. CallShape(c, made) /\ c.panel = NoPanel
  BY <1>0 DEF ControlInv, ControlTypes, PanelInv, PanelFits
<1>2. CASE StoreResult(db, c.request) # "done"
  BY <1>2, PanelMoves DEF CallStore
<1>3. CASE StoreResult(db, c.request) = "done"
  <2>1. PICK next \in {AfterStore(c), Idle} :
              handler' = [k \in Handlers |->
                  Observing(IF k = h THEN next ELSE handler[k], db, db')]
    BY <1>3 DEF CallStore
  <2>2. next = Idle \/ (CallShape(next, made) /\ PanelFits(next, db))
    <3>1. CASE Changing(c.request)
      <4>1. next = Idle \/ next = [c EXCEPT !.pc = "committed"]
        BY <3>1 DEF AfterStore
      <4>2. next = Idle \/ (next.pc = "committed" /\ next.panel = NoPanel /\ CallShape(next, made))
        BY <1>1, <4>1 DEF CallShape
      <4> QED
        BY <4>2, FreshPanel
    <3>2. CASE ~Changing(c.request)
      <4>1. next = Idle \/ (/\ c.request.surface = "ui"
                            /\ next = [c EXCEPT !.pc = "users", !.touched = {}])
        BY <3>2 DEF AfterStore, Answering
      <4>2. next = Idle \/ (/\ next.pc = "users" /\ next.panel = NoPanel
                            /\ CallShape(next, made) /\ next.request.surface = "ui")
        BY ZenonT(40), <1>1, <4>1 DEF CallShape, Rendering
      <4> QED
        BY <4>2, FreshPanel
    <3> QED
      BY <3>1, <3>2
  <2>3. ASSUME NEW k \in Handlers
        PROVE  handler'[k] = Idle \/ PanelFits(handler'[k], db')
    <3> DEFINE x == IF k = h THEN next ELSE handler[k]
    <3>1. handler'[k] = Observing(x, db, db')
      BY <2>1
    <3>2. x = Idle \/ (CallShape(x, made) /\ PanelFits(x, db))
      BY <2>2 DEF ControlInv, ControlTypes, PanelInv
    <3> HIDE DEF x
    <3> QED
      BY <3>1, <3>2, ObservingIdle, ObservingKeepsPanel
  <2> QED
    BY <2>3 DEF PanelInv
<1> QED
  BY <1>2, <1>3

\* Each read adds what is in the database at that moment.
LEMMA PanelReads ==
    ASSUME ControlInv, PanelInv, NEW h \in Handlers,
           ReadUsers(h) \/ ReadAgents(h) \/ ReadRoles(h) \/ ReadViewer(h) \/ ReadGrants(h)
    PROVE  PanelInv'
<1> DEFINE c == handler[h]
           p == c.panel
           After(next, panel) == [c EXCEPT !.pc = next, !.panel = panel]
<1>0. c.pc \in Rendering
  <2>1. \E pc \in Rendering : \E next, q : PanelStep(h, pc, next, q)
    BY Zenon DEF ReadUsers, ReadAgents, ReadRoles, ReadViewer, ReadGrants, Rendering
  <2> QED
    BY <2>1 DEF PanelStep
<1>1. CallShape(c, made) /\ PanelFits(c, db)
  BY <1>0 DEF ControlInv, ControlTypes, PanelInv, Idle, Rendering
<1>2. ASSUME NEW pc, NEW next, NEW panel, PanelStep(h, pc, next, panel),
             PanelFits(After(next, panel), db)
      PROVE  PanelInv'
  <2>1. handler' = [handler EXCEPT ![h] = After(next, panel)] /\ db' = db
    BY ZenonT(40), <1>2 DEF PanelStep, ControlInv, ControlTypes
  <2> HIDE DEF After
  <2> QED
    BY Zenon, <1>2, <2>1, PanelMoves
<1>3. ASSUME NEW next, NEW panel
      PROVE  /\ After(next, panel).pc = next /\ After(next, panel).panel = panel
             /\ After(next, panel).request = c.request
             /\ After(next, panel).touched = c.touched
  BY <1>1 DEF CallShape
<1> HIDE DEF After
<1>4. \A s \in Subjects \ c.touched : RowAgrees(c.pc, p, s, db)
  BY <1>1 DEF PanelFits
<1>5. DOMAIN p = {"users", "agents", "roles", "manages", "grants"}
  BY <1>1 DEF CallShape
<1>6. /\ c.request.surface = "ui" /\ Len(p.grants) \in Nat
      /\ p.users \subseteq BasicNames /\ p.agents \subseteq AgentNames
      /\ \E S : p.grants \in Seq(S)
      /\ Len(p.grants) <= Len(ConfiguredProfiles)
  <2>1. /\ c.request.surface = "ui" /\ p.users \subseteq BasicNames /\ p.agents \subseteq AgentNames
        /\ \E S : p.grants \in Seq(S)
        /\ Len(p.grants) <= Len(ConfiguredProfiles)
    BY Zenon, <1>0, <1>1 DEF PanelFits
  <2>2. Len(p.grants) \in Nat
    BY <2>1
  <2> QED
    BY Zenon, <2>1, <2>2
<1>7. ASSUME NEW next \in {"agents", "roles", "viewer", "grants", "shown"}, NEW panel,
             PanelReady(next, panel, c.touched)
      PROVE  PanelFits(After(next, panel), db)
  <2> DEFINE a == After(next, panel)
  <2>1. a.pc = next /\ a.panel = panel /\ a.request = c.request /\ a.touched = c.touched
    BY <1>3
  <2> HIDE DEF a
  <2>2. PanelFits(a, db)
    BY <1>6, <1>7, <2>1, ReadyFits
  <2> QED
    BY <2>2 DEF a
<1>8. CASE ReadUsers(h)
  <2> DEFINE q == [p EXCEPT !.users = ListBasicUsers(db)]
  <2>1. /\ q.users = ListBasicUsers(db) /\ q.agents = p.agents /\ q.grants = p.grants
    BY <1>5
  <2>2. PanelStep(h, "users", "agents", q) /\ c.pc = "users"
    BY <1>8 DEF ReadUsers, PanelStep
  <2> HIDE DEF q
  <2>3. p.grants = <<>> /\ Len(p.grants) = 0
    BY <1>1, <2>2 DEF PanelFits, NoPanel
  <2>4. ASSUME NEW s \in Subjects \ c.touched PROVE RowAgrees("agents", q, s, db)
    <3>1. s[1] = "basic" => s[2] \in BasicNames
      BY DEF Subjects
    <3> QED
      BY <2>1, <2>3, <3>1 DEF RowAgrees, ListBasicUsers
  <2>5. PanelFits(After("agents", q), db)
    <3>1. PanelReady("agents", q, c.touched)
      BY <1>6, <2>1, <2>3, <2>4 DEF PanelReady, ListBasicUsers
    <3> QED
      BY <1>7, <3>1
  <2> QED
    BY <1>2, <2>2, <2>5
<1>9. CASE ReadAgents(h)
  <2> DEFINE q == [p EXCEPT !.agents = ListAgents(db)]
  <2>1. /\ q.users = p.users /\ q.agents = ListAgents(db) /\ q.grants = p.grants
    BY <1>5
  <2>2. PanelStep(h, "agents", "roles", q) /\ c.pc = "agents"
    BY <1>9 DEF ReadAgents, PanelStep
  <2> HIDE DEF q
  <2>3. p.grants = <<>> /\ Len(p.grants) = 0
    BY <1>1, <2>2 DEF PanelFits
  <2>4. ASSUME NEW s \in Subjects \ c.touched PROVE RowAgrees("roles", q, s, db)
    <3>1. s[1] = "agent" => s[2] \in AgentNames
      BY DEF Subjects
    <3> QED
      BY <1>4, <2>1, <2>2, <2>3, <3>1 DEF RowAgrees, ListAgents
  <2>5. PanelFits(After("roles", q), db)
    <3>1. PanelReady("roles", q, c.touched)
      BY <1>6, <2>1, <2>3, <2>4 DEF PanelReady, ListAgents
    <3> QED
      BY <1>7, <3>1
  <2> QED
    BY <1>2, <2>2, <2>5
<1>10. CASE ReadRoles(h)
  <2> DEFINE q == [p EXCEPT !.roles = ListPrincipalRoles(db)]
  <2>1. /\ q.users = p.users /\ q.agents = p.agents /\ q.grants = p.grants
        /\ q.roles = db.roles
    BY <1>5 DEF ListPrincipalRoles
  <2>2. PanelStep(h, "roles", "viewer", q) /\ c.pc = "roles"
    BY <1>10 DEF ReadRoles, PanelStep
  <2> HIDE DEF q
  <2>3. p.grants = <<>> /\ Len(p.grants) = 0
    BY <1>1, <2>2 DEF PanelFits
  <2>4. ASSUME NEW s \in Subjects \ c.touched PROVE RowAgrees("viewer", q, s, db)
    BY <1>4, <2>1, <2>2, <2>3 DEF RowAgrees
  <2>5. PanelFits(After("viewer", q), db)
    <3>1. PanelReady("viewer", q, c.touched)
      BY <1>6, <2>1, <2>3, <2>4 DEF PanelReady
    <3> QED
      BY <1>7, <3>1
  <2> QED
    BY <1>2, <2>2, <2>5
<1>11. CASE ReadViewer(h)
  <2> DEFINE q == [p EXCEPT !.manages = RoleIn(db, Actor(handler[h].credential)) = "owner"]
  <2>1. /\ q.users = p.users /\ q.agents = p.agents /\ q.grants = p.grants
        /\ q.roles = p.roles
    BY <1>5
  <2>2. PanelStep(h, "viewer", AfterReads(0), q) /\ c.pc = "viewer"
    BY <1>11 DEF ReadViewer, PanelStep
  <2> HIDE DEF q
  <2>3. p.grants = <<>> /\ Len(p.grants) = 0
    BY <1>1, <2>2 DEF PanelFits
  <2>4. ASSUME NEW s \in Subjects \ c.touched PROVE RowAgrees(AfterReads(0), q, s, db)
    <3>1. RowAgrees("viewer", p, s, db)
      BY Zenon, <1>4, <2>2
    <3> QED
      BY Zenon, <2>1, <3>1 DEF RowAgrees
  <2> DEFINE next == AfterReads(0)
  <2>5. /\ next \in {"grants", "shown"} /\ next # "agents" /\ next # "roles" /\ next # "viewer"
        /\ next = "grants" => Len(q.grants) < Len(ConfiguredProfiles)
        /\ next = "shown" => Len(q.grants) = Len(ConfiguredProfiles)
    BY <2>1, <2>3, ProfilesSequence DEF AfterReads
  <2>6. \A s \in Subjects \ c.touched : RowAgrees(next, q, s, db)
    BY <2>4
  <2> HIDE DEF next
  <2>7. PanelFits(After(next, q), db)
    <3>1. PanelReady(next, q, c.touched)
      BY <1>6, <2>1, <2>5, <2>6 DEF PanelReady
    <3> QED
      BY <1>7, <2>5, <3>1
  <2>8. PanelFits(After(AfterReads(0), q), db)
    BY <2>7 DEF next
  <2> QED
    BY <1>2, <2>2, <2>8
<1>12. CASE ReadGrants(h)
  <2> DEFINE n == Len(p.grants)
             rows == ListGrants(db, ConfiguredProfiles[n + 1])
             q == [p EXCEPT !.grants = Append(p.grants, rows)]
  <2>1. /\ q.users = p.users /\ q.agents = p.agents /\ q.roles = p.roles
        /\ q.grants = Append(p.grants, rows)
    BY <1>5
  <2>2. PanelStep(h, "grants", AfterReads(n + 1), q) /\ c.pc = "grants"
    BY <1>12 DEF ReadGrants, PanelStep
  <2>3. n \in Nat /\ n < Len(ConfiguredProfiles)
    BY <1>1, <1>6, <2>2 DEF PanelFits
  <2>4. /\ \E S : q.grants \in Seq(S)
        /\ Len(q.grants) = n + 1
        /\ \A i \in 1..(n + 1) : q.grants[i] = IF i <= n THEN p.grants[i] ELSE rows
    <3>1. PICK S : p.grants \in Seq(S)
      BY <1>6
    <3>2. p.grants \in Seq(S \cup {rows}) /\ rows \in S \cup {rows}
      BY <3>1
    <3> HIDE DEF rows, q
    <3> QED
      BY <2>1, <3>2
  <2>5. \A s \in Subjects : rows[s] = db.grants[<<s, ConfiguredProfiles[n + 1]>>]
    BY DEF ListGrants
  <2> HIDE DEF q, rows, n
  <2>6. ASSUME NEW s \in Subjects \ c.touched PROVE RowAgrees(AfterReads(n + 1), q, s, db)
    <3>1. \A i \in 1..n : p.grants[i][s] = db.grants[<<s, ConfiguredProfiles[i]>>]
      BY <1>4 DEF RowAgrees, n
    <3>2. \A i \in 1..Len(q.grants) : q.grants[i][s] = db.grants[<<s, ConfiguredProfiles[i]>>]
      BY <2>3, <2>4, <2>5, <3>1
    <3> QED
      BY <1>4, <2>1, <2>2, <3>2 DEF RowAgrees, AfterReads
  <2> DEFINE next == AfterReads(n + 1)
  <2>7. /\ next \in {"grants", "shown"} /\ next # "agents" /\ next # "roles" /\ next # "viewer"
        /\ Len(q.grants) <= Len(ConfiguredProfiles)
        /\ next = "grants" => Len(q.grants) < Len(ConfiguredProfiles)
        /\ next = "shown" => Len(q.grants) = Len(ConfiguredProfiles)
    <3>1. Len(q.grants) = n + 1
      BY <2>4
    <3>2. n + 1 <= Len(ConfiguredProfiles)
      BY <2>3, ProfilesSequence
    <3>3. CASE n + 1 = Len(ConfiguredProfiles)
      BY <3>1, <3>2, <3>3 DEF AfterReads
    <3>4. CASE n + 1 # Len(ConfiguredProfiles)
      <4>1. n \in Nat /\ Len(ConfiguredProfiles) \in Nat
        BY <2>3, ProfilesSequence
      <4>2. n + 1 < Len(ConfiguredProfiles)
        BY <3>2, <3>4, <4>1
      <4> QED
        BY <3>1, <3>2, <3>4, <4>2 DEF AfterReads
    <3> QED
      BY <3>3, <3>4
  <2>8. \A s \in Subjects \ c.touched : RowAgrees(next, q, s, db)
    BY <2>6
  <2> HIDE DEF next
  <2>9. \E S : q.grants \in Seq(S)
    BY <2>4
  <2>10. q.users \subseteq BasicNames /\ q.agents \subseteq AgentNames
    BY <1>6, <2>1
  <2>11. PanelFits(After(next, q), db)
    <3>1. PanelReady(next, q, c.touched)
      BY <2>7, <2>8, <2>9, <2>10 DEF PanelReady
    <3> QED
      BY <1>7, <2>7, <3>1
  <2>12. PanelFits(After(AfterReads(n + 1), q), db)
    BY <2>11 DEF next
  <2> QED
    BY <1>2, <2>2, <2>12
<1> QED
  BY <1>8, <1>9, <1>10, <1>11, <1>12

\* The invariant of the pages holds throughout.
LEMMA PanelInvariant == ControlSpec => []PanelInv
<1>1. ControlInit => PanelInv
  BY DEF ControlInit, PanelInv
<1>2. ControlInv /\ PanelInv /\ [ControlNext]_controlVars => PanelInv'
  <2>1. ASSUME ControlInv, PanelInv, ControlNext PROVE PanelInv'
    BY <2>1, ControlSteps, PanelStarts, PanelReads, PanelStore
  <2>2. ASSUME PanelInv, UNCHANGED controlVars PROVE PanelInv'
    BY <2>2 DEF controlVars, PanelInv
  <2> QED
    BY <2>1, <2>2
<1> QED
  BY <1>1, <1>2, ControlInvariant, PTL DEF ControlSpec

\* A page made of four parts, and what it shows of one subject.
Page(p, accounts, workers, granted, bound) ==
    [i \in 1..4 |-> {PanelRow(p, t) : t \in
        CASE i = 1 -> accounts [] i = 2 -> workers
          [] i = 3 -> granted \ (accounts \cup workers)
          [] i = 4 -> bound \ (accounts \cup workers \cup granted)}]
RowsOf(page, s) ==
    {entry \in UNION {{i} \X page[i] : i \in DOMAIN page} : entry[2].subject = s}

\* The parts of a page share no subject, and hold everybody that was read.
LEMMA PageRows ==
    ASSUME NEW p, NEW s, NEW accounts, NEW workers, NEW granted, NEW bound,
           accounts \cap workers = {}
    PROVE  IF s \in accounts \cup workers \cup granted \cup bound
           THEN \E i \in 1..4 : RowsOf(Page(p, accounts, workers, granted, bound), s)
                                  = {<<i, PanelRow(p, s)>>}
           ELSE RowsOf(Page(p, accounts, workers, granted, bound), s) = {}
<1> DEFINE page == Page(p, accounts, workers, granted, bound)
           Rows == RowsOf(page, s)
           Part(i) == CASE i = 1 -> accounts [] i = 2 -> workers
                      [] i = 3 -> granted \ (accounts \cup workers)
                      [] i = 4 -> bound \ (accounts \cup workers \cup granted)
<1>1. DOMAIN page = 1..4 /\ \A i \in 1..4 : page[i] = {PanelRow(p, t) : t \in Part(i)}
  BY DEF Page
<1>2. /\ Part(1) = accounts /\ Part(2) = workers
      /\ Part(3) = granted \ (accounts \cup workers)
      /\ Part(4) = bound \ (accounts \cup workers \cup granted)
  OBVIOUS
<1>3. \A i \in 1..4 : i = 1 \/ i = 2 \/ i = 3 \/ i = 4
  OBVIOUS
<1> HIDE DEF Part, page
<1>4. \A t : PanelRow(p, t).subject = t
  BY DEF PanelRow
<1>5. \A entry : entry \in Rows <=> \E i \in 1..4 : s \in Part(i) /\ entry = <<i, PanelRow(p, s)>>
  <2>1. ASSUME NEW entry \in Rows PROVE \E i \in 1..4 : s \in Part(i) /\ entry = <<i, PanelRow(p, s)>>
    <3>1. PICK i \in 1..4 : entry \in {i} \X page[i]
      BY <1>1 DEF RowsOf
    <3>2. entry = <<i, entry[2]>> /\ entry[2] \in page[i] /\ entry[2].subject = s
      BY <3>1 DEF RowsOf
    <3>3. PICK t \in Part(i) : entry[2] = PanelRow(p, t)
      BY <1>1, <3>2
    <3>4. t = s
      BY <1>4, <3>2, <3>3
    <3> QED
      BY <3>2, <3>3, <3>4
  <2>2. ASSUME NEW i \in 1..4, s \in Part(i) PROVE <<i, PanelRow(p, s)>> \in Rows
    <3>1. PanelRow(p, s) \in page[i]
      BY <1>1, <2>2
    <3>2. <<i, PanelRow(p, s)>> \in {i} \X page[i]
      BY <3>1
    <3>3. <<i, PanelRow(p, s)>>[2].subject = s
      BY <1>4
    <3> QED
      BY <1>1, <3>2, <3>3 DEF RowsOf
  <2> QED
    BY <2>1, <2>2
<1> HIDE DEF Rows
<1>6. ASSUME s \in accounts \cup workers \cup granted \cup bound
      PROVE  \E i \in 1..4 : Rows = {<<i, PanelRow(p, s)>>}
  <2>1. PICK i \in 1..4 : s \in Part(i)
    BY <1>2, <1>6
  <2>2. \A j \in 1..4 : s \in Part(j) => j = i
    BY <1>2, <1>3, <2>1
  <2>3. Rows = {<<i, PanelRow(p, s)>>}
    BY <1>5, <2>1, <2>2
  <2> QED
    BY <2>3
<1>7. ASSUME s \notin accounts \cup workers \cup granted \cup bound PROVE Rows = {}
  BY <1>2, <1>3, <1>5, <1>7
<1> QED
  BY <1>6, <1>7 DEF Rows, page

\* The four parts of the page a panel makes, and what is known of a subject.
Accounts(p) == {<<"basic", u>> : u \in p.users}
Workers(p) == {<<"agent", a>> : a \in p.agents}
Granted(p) == {t \in Subjects : \E i \in DOMAIN p.grants : p.grants[i][t] # Absent}
BoundTo(p) == {t \in Subjects : p.roles[t] # Absent}
Known(s) ==
    \/ db.roles[s] # Absent
    \/ \E q \in ProfileNames : db.grants[<<s, q>>] # Absent
    \/ s[1] = "basic" /\ db.users[s[2]] # Absent
    \/ s[1] = "agent" /\ db.agents[s[2]] # Absent
PresentRow(s) ==
    [subject |-> s, role |-> RoleIn(db, s),
     grants |-> [j \in DOMAIN ConfiguredProfiles |-> db.grants[<<s, ConfiguredProfiles[j]>>]]]

\* The members of a tuple of four.
LEMMA FourParts ==
    ASSUME NEW a, NEW b, NEW c, NEW d, NEW i \in 1..4
    PROVE  <<a, b, c, d>>[i] = CASE i = 1 -> a [] i = 2 -> b [] i = 3 -> c [] i = 4 -> d
<1>1. i = 1 \/ i = 2 \/ i = 3 \/ i = 4
  OBVIOUS
<1> QED
  BY <1>1

\* Principals makes a page of these parts.
LEMMA PrincipalsPage ==
    ASSUME NEW p
    PROVE  Principals(p) = Page(p, Accounts(p), Workers(p), Granted(p), BoundTo(p))
<1> DEFINE a == Accounts(p)
           b == Workers(p)
           c == Granted(p) \ (a \cup b)
           d == BoundTo(p) \ (a \cup b \cup Granted(p))
           parts == <<a, b, c, d>>
<1>1. Principals(p) = [i \in DOMAIN parts |-> {PanelRow(p, t) : t \in parts[i]}]
  BY DEF Principals, Accounts, Workers, Granted, BoundTo
<1>2. Page(p, Accounts(p), Workers(p), Granted(p), BoundTo(p)) =
        [i \in 1..4 |-> {PanelRow(p, t) : t \in
            CASE i = 1 -> a [] i = 2 -> b [] i = 3 -> c [] i = 4 -> d}]
  BY DEF Page
<1> HIDE DEF a, b, c, d
<1>3. DOMAIN parts = 1..4
  OBVIOUS
<1>4. \A i \in 1..4 : parts[i] = CASE i = 1 -> a [] i = 2 -> b [] i = 3 -> c [] i = 4 -> d
  BY FourParts
<1> HIDE DEF parts
<1> QED
  BY <1>1, <1>2, <1>3, <1>4

\* What a finished page has read of a subject that did not change.
LEMMA ReadRight ==
    ASSUME NEW p, NEW s \in Subjects, RowAgrees("shown", p, s, db),
           p.users \subseteq BasicNames, p.agents \subseteq AgentNames,
           DOMAIN p.grants = DOMAIN ConfiguredProfiles,
           Len(p.grants) = Len(ConfiguredProfiles)
    PROVE  /\ s \in Accounts(p) \cup Workers(p) \cup Granted(p) \cup BoundTo(p) <=> Known(s)
           /\ PanelRow(p, s) = PresentRow(s)
<1>1. /\ s[1] = "basic" => (s[2] \in p.users <=> db.users[s[2]] # Absent)
      /\ s[1] = "agent" => (s[2] \in p.agents <=> db.agents[s[2]] # Absent)
      /\ p.roles[s] = db.roles[s]
      /\ \A i \in DOMAIN ConfiguredProfiles : p.grants[i][s] = db.grants[<<s, ConfiguredProfiles[i]>>]
  BY ProfilesSequence DEF RowAgrees
<1>2. s \in Accounts(p) <=> s[1] = "basic" /\ db.users[s[2]] # Absent
  <2>1. s \in Accounts(p) <=> s[1] = "basic" /\ s[2] \in p.users
    BY DEF Subjects, Accounts
  <2> QED
    BY <1>1, <2>1
<1>3. s \in Workers(p) <=> s[1] = "agent" /\ db.agents[s[2]] # Absent
  <2>1. s \in Workers(p) <=> s[1] = "agent" /\ s[2] \in p.agents
    BY DEF Subjects, Workers
  <2> QED
    BY <1>1, <2>1
<1>4. s \in Granted(p) <=> \E q \in ProfileNames : db.grants[<<s, q>>] # Absent
  BY Zenon, <1>1, ProfilesSequence DEF Granted, ProfileNames
<1>5. s \in BoundTo(p) <=> db.roles[s] # Absent
  BY <1>1 DEF BoundTo
<1>6. [i \in DOMAIN p.grants |-> p.grants[i][s]] =
        [j \in DOMAIN ConfiguredProfiles |-> db.grants[<<s, ConfiguredProfiles[j]>>]]
  BY <1>1
<1>7. PanelRow(p, s) = PresentRow(s)
  BY Zenon, <1>1, <1>6 DEF PanelRow, RoleIn, PresentRow
<1> QED
  BY Zenon, <1>2, <1>3, <1>4, <1>5, <1>7 DEF Known

\* A page of the owner panel lists every subject that no call changed while it was
\* rendered exactly once, with its present role and grants, and of the others that
\* did not change nobody (render_owner_panel reads the tables one after the other).
THEOREM PanelsFaithful == ControlSpec => []PanelFaithful
<1>1. ASSUME PanelInv, NEW h \in Handlers, handler[h].pc = "shown",
             NEW s \in Subjects \ handler[h].touched
      PROVE  LET page == Principals(handler[h].panel)
             IN  IF Known(s) THEN \E i \in DOMAIN page : RowsOf(page, s) = {<<i, PresentRow(s)>>}
                             ELSE RowsOf(page, s) = {}
  <2>1. PanelFits(handler[h], db)
    BY <1>1 DEF PanelInv, Idle
  <2> DEFINE p == handler[h].panel
             page == Page(p, Accounts(p), Workers(p), Granted(p), BoundTo(p))
  <2>2. /\ p.users \subseteq BasicNames /\ p.agents \subseteq AgentNames
        /\ Len(p.grants) = Len(ConfiguredProfiles)
        /\ RowAgrees("shown", p, s, db) /\ \E S : p.grants \in Seq(S)
    BY <1>1, <2>1 DEF PanelFits
  <2>3. DOMAIN p.grants = DOMAIN ConfiguredProfiles
    BY <2>2, ProfilesSequence
  <2> HIDE DEF p
  <2>4. /\ s \in Accounts(p) \cup Workers(p) \cup Granted(p) \cup BoundTo(p) <=> Known(s)
        /\ PanelRow(p, s) = PresentRow(s)
    BY <2>2, <2>3, ReadRight
  <2>5. Accounts(p) \cap Workers(p) = {}
    BY DEF Accounts, Workers
  <2>6. IF s \in Accounts(p) \cup Workers(p) \cup Granted(p) \cup BoundTo(p)
        THEN \E i \in 1..4 : RowsOf(page, s) = {<<i, PanelRow(p, s)>>}
        ELSE RowsOf(page, s) = {}
    BY <2>5, PageRows
  <2>7. DOMAIN page = 1..4
    BY DEF Page
  <2> HIDE DEF page
  <2>8. Principals(p) = page
    BY PrincipalsPage DEF page
  <2> QED
    BY Zenon, <2>4, <2>6, <2>7, <2>8 DEF p
<1>2. PanelInv => PanelFaithful
  BY <1>1 DEF PanelFaithful, Known, PresentRow, RowsOf
<1> QED
  BY <1>2, PanelInvariant, PTL
=============================================================================
