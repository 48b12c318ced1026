---------------------------- MODULE DynamicLeases ----------------------------
(***************************************************************************)
(* Dynamic backend leases of one AV process: the DynamicLeaseRegistry of   *)
(* src/src/server.rs, the handlers that acquire, renew and revoke a lease  *)
(* for a child process, the DynamicLeaseOwner of a proxy request, stream   *)
(* or WebSocket, and the cleanup at shutdown.                              *)
(*                                                                         *)
(* A task is a handler, a relay or a spawned cleanup; it takes one action  *)
(* per await.  A lease that a task works on has left the registry and is   *)
(* in the task's hands.  A handle is the lease it stands for: handles are  *)
(* random and never reused.                                                *)
(***************************************************************************)
EXTENDS FiniteSets, Integers

CONSTANTS
    Leases,         \* leases the secret backend may issue
    Subjects,       \* authenticated identities
    Tasks,          \* concurrent handlers, relays and cleanups
    Tunnel,         \* those of the transparent listener
    MaxActive,      \* MAX_ACTIVE_DYNAMIC_LEASES
    Faults,         \* what may go wrong: a subset of FaultKinds
    None

FaultKinds ==
    {"backend",     \* a call to the secret backend fails
     "response",    \* the backend acts but its answer is lost or unusable
     "store",       \* a call to the managed store fails
     "cancel",      \* the caller disconnects and its handler is dropped
     "drop",        \* an upstream error or the caller ends a response early
     "deadline"}    \* shutdown cleanup takes more than 20 seconds

ASSUME LeasesAssumption ==
    /\ Tunnel \subseteq Tasks
    /\ MaxActive \in Nat \ {0}
    /\ Faults \subseteq FaultKinds
    /\ IsFiniteSet(Leases) /\ IsFiniteSet(Tasks)
    /\ None \notin Leases \cup Subjects

VARIABLES
    state,      \* at the backend; "revoked": a revocation was acknowledged
    subject,    \* whom each lease was issued to
    lapsed,     \* leases whose expires_at has passed
    active,     \* DynamicLeaseRegistry.active
    issued,     \* leases whose handle was returned to a child
    task,
    phase,      \* of the process
    drained     \* leases taken by drain and not yet revoked

vars == <<state, subject, lapsed, active, issued, task, phase, drained>>

States == {"free", "live", "gone", "revoked"}
Kinds == {"child", "stream", "websocket", "cleanup"}
Phases == {"serving", "stopping", "draining", "exited"}

\* In these the task has the lease in its hands.
HandPcs == {"insert", "revoke", "drop_revoke", "retry_revoke", "grant",
            "renew", "renew_audit", "restore"}
Pcs == HandPcs \cup {"idle", "acquire", "audit", "using", "take_renew",
                     "take_revoke"}

IdleTask == [pc |-> "idle", kind |-> "child", subject |-> None, lease |-> None]

TypeOK ==
    /\ state \in [Leases -> States]
    /\ subject \in [Leases -> Subjects \cup {None}]
    /\ lapsed \subseteq Leases
    /\ active \subseteq Leases
    /\ issued \subseteq Leases
    /\ task \in [Tasks -> [pc : Pcs, kind : Kinds,
                           subject : Subjects \cup {None},
                           lease : Leases \cup {None}]]
    /\ \A t \in Tasks :
          /\ task[t].pc # "idle" => task[t].subject \in Subjects
          /\ task[t].pc \notin {"idle", "acquire"} => task[t].lease \in Leases
    /\ phase \in Phases
    /\ drained \subseteq Leases

Init ==
    /\ state = [l \in Leases |-> "free"]
    /\ subject = [l \in Leases |-> None]
    /\ lapsed = {}
    /\ active = {}
    /\ issued = {}
    /\ task = [t \in Tasks |-> IdleTask]
    /\ phase = "serving"
    /\ drained = {}

-----------------------------------------------------------------------------
Hands(t) == IF task[t].pc \in HandPcs THEN {task[t].lease} ELSE {}
InHand == UNION {Hands(t) : t \in Tasks}

Goto(t, pc) == [task EXCEPT ![t].pc = pc]
Finish(t) == [task EXCEPT ![t] = IdleTask]

\* DynamicLeaseOwner::drop: a spawned revocation inherits the handle.
Spawn(t) == [task EXCEPT ![t].pc = "take_revoke", ![t].kind = "cleanup"]

\* A renewal that fails ends the child's call; a relay ends by revoking.
RenewalOver(t) ==
    IF task[t].kind = "child" THEN Finish(t) ELSE Goto(t, "take_revoke")

\* Mutation: the server stops without waiting for its handlers.
NoneInFlight == {}

\* The requests the graceful shutdown waits for: those of the main listener.
InFlight == {t \in Tasks \ Tunnel : task[t].pc # "idle" /\ task[t].kind # "cleanup"}

\* take_for_subject finds the lease.
Takeable(t) ==
    /\ task[t].lease \in active \ lapsed
    /\ subject[task[t].lease] = task[t].subject

\* Mutation: the entry is read and stays in the registry.
WithoutTakenCopies(t) == active

WithoutTaken(t) == active \ {task[t].lease}

\* restore: the registry with the lease the task had taken from it.
WithRestored(t) == active \cup {task[t].lease}

\* What remains of a lease at the backend when a revocation fails: the
\* request may have been carried out and only its answer lost.
AfterFailedRevoke(l) ==
    {state} \cup
    IF "response" \in Faults /\ state[l] = "live"
    THEN {[state EXCEPT ![l] = "gone"]} ELSE {}

-----------------------------------------------------------------------------
(* Acquisition: GetProfileEnvironment for a child, and                     *)
(* acquire_owned_proxy_secrets for a proxy request.                        *)

\* The transparent listener is not stopped by the shutdown signal.
Begin(t, kind, s) ==
    /\ task[t].pc = "idle"
    /\ IF t \in Tunnel
       THEN kind # "child" /\ phase # "exited"
       ELSE kind # "websocket" /\ phase = "serving"
    /\ task' = [task EXCEPT ![t] = [pc |-> "acquire", kind |-> kind,
                                    subject |-> s, lease |-> None]]
    /\ UNCHANGED <<state, subject, lapsed, active, issued, phase, drained>>

\* Connector::acquire returns a lease.
AcquireOk(t, l) ==
    /\ task[t].pc = "acquire"
    /\ state[l] = "free"
    /\ state' = [state EXCEPT ![l] = "live"]
    /\ subject' = [subject EXCEPT ![l] = task[t].subject]
    /\ task' = [task EXCEPT ![t].pc = "insert", ![t].lease = l]
    /\ UNCHANGED <<lapsed, active, issued, phase, drained>>

\* It fails, in the queue for a connector slot or at the backend.
AcquireFails(t) ==
    /\ task[t].pc = "acquire"
    /\ task' = Finish(t)
    /\ UNCHANGED <<state, subject, lapsed, active, issued, phase, drained>>

\* The backend issued a lease and the answer cannot be used: a decode error
\* or a configured export that is missing.
AcquireUnusable(t, l) ==
    /\ "response" \in Faults
    /\ task[t].pc = "acquire"
    /\ state[l] = "free"
    /\ state' = [state EXCEPT ![l] = "live"]
    /\ subject' = [subject EXCEPT ![l] = task[t].subject]
    /\ task' = Finish(t)
    /\ UNCHANGED <<lapsed, active, issued, phase, drained>>

\* active.retain(...)
Retained == active \ lapsed

\* Mutation: the registry is not limited.
Unlimited == FALSE

Full == Cardinality(Retained) >= MaxActive

\* DynamicLeaseRegistry::insert.
Insert(t) ==
    /\ task[t].pc = "insert"
    /\ IF Full
       THEN /\ active' = Retained
            /\ task' = Goto(t, "drop_revoke")
       ELSE /\ active' = Retained \cup {task[t].lease}
            /\ task' = Goto(t, IF task[t].kind = "child" THEN "audit" ELSE "using")
    /\ UNCHANGED <<state, subject, lapsed, issued, phase, drained>>

\* The profile_lease audit event is stored and the handle returned.
AuditOk(t) ==
    /\ task[t].pc = "audit"
    /\ issued' = issued \cup {task[t].lease}
    /\ task' = Finish(t)
    /\ UNCHANGED <<state, subject, lapsed, active, phase, drained>>

\* It is not stored: the lease is taken back and revoked.
AuditFails(t) ==
    /\ "store" \in Faults
    /\ task[t].pc = "audit"
    /\ IF Takeable(t)
       THEN active' = WithoutTaken(t) /\ task' = Goto(t, "drop_revoke")
       ELSE task' = Finish(t) /\ UNCHANGED active
    /\ UNCHANGED <<state, subject, lapsed, issued, phase, drained>>

\* A revocation whose failure is only logged: the lease is not put back.
DropRevoke(t) ==
    /\ task[t].pc = "drop_revoke"
    /\ \/ state' = [state EXCEPT ![task[t].lease] = "revoked"]
       \/ "backend" \in Faults /\ state' \in AfterFailedRevoke(task[t].lease)
    /\ task' = Finish(t)
    /\ UNCHANGED <<subject, lapsed, active, issued, phase, drained>>

-----------------------------------------------------------------------------
(* Renewal: RenewProfileEnvironmentLease, and DynamicLeaseOwner::renew of  *)
(* a WebSocket relay.                                                      *)

\* A caller presents a handle that was returned to a child.
RequestOn(t, pc, s, l) ==
    /\ task[t].pc = "idle"
    /\ t \notin Tunnel
    /\ phase = "serving"
    /\ l \in issued
    /\ task' = [task EXCEPT ![t] = [pc |-> pc, kind |-> "child",
                                    subject |-> s, lease |-> l]]
    /\ UNCHANGED <<state, subject, lapsed, active, issued, phase, drained>>

\* The renewal timer of the relay fires and its session is active.
RelayRenews(t) ==
    /\ task[t].pc = "using"
    /\ task[t].kind = "websocket"
    /\ task' = Goto(t, "take_renew")
    /\ UNCHANGED <<state, subject, lapsed, active, issued, phase, drained>>

TakeRenew(t) ==
    /\ task[t].pc = "take_renew"
    /\ IF Takeable(t)
       THEN /\ active' = WithoutTaken(t)
            /\ task' = Goto(t, IF task[t].kind = "child" THEN "grant" ELSE "renew")
       ELSE task' = RenewalOver(t) /\ UNCHANGED active
    /\ UNCHANGED <<state, subject, lapsed, issued, phase, drained>>

\* Mutation: a renewal that is denied returns without revoking.
CheckGrantReturns(t) ==
    /\ task[t].pc = "grant"
    /\ task' = Goto(t, "renew") \/ task' = Finish(t)
    /\ UNCHANGED <<state, subject, lapsed, active, issued, phase, drained>>

\* profile_permitted for the environment mode: granted, denied, or an error
\* of the store, which returns with the lease still in hand.
CheckGrant(t) ==
    /\ task[t].pc = "grant"
    /\ \/ task' = Goto(t, "renew")
       \/ task' = Goto(t, "drop_revoke")
       \/ "store" \in Faults /\ task' = Finish(t)
    /\ UNCHANGED <<state, subject, lapsed, active, issued, phase, drained>>

\* Connector::renew extends a lease that has not ended.
RenewOk(t) ==
    /\ task[t].pc = "renew"
    /\ state[task[t].lease] = "live"
    /\ task' = Goto(t, IF task[t].kind = "child" THEN "renew_audit" ELSE "restore")
    /\ UNCHANGED <<state, subject, lapsed, active, issued, phase, drained>>

RenewFails(t) ==
    /\ task[t].pc = "renew"
    /\ "backend" \in Faults \/ state[task[t].lease] # "live"
    /\ task' = Goto(t, "retry_revoke")
    /\ UNCHANGED <<state, subject, lapsed, active, issued, phase, drained>>

\* The backend said at issue or at the last renewal that it will not renew.
NotRenewable(t) ==
    /\ task[t].pc = "renew"
    /\ task' = Goto(t, IF task[t].kind = "child" THEN "drop_revoke" ELSE "retry_revoke")
    /\ UNCHANGED <<state, subject, lapsed, active, issued, phase, drained>>

\* Mutation: the lease is put back whether or not it was revoked.
RetryRevokeRestores(t) ==
    /\ task[t].pc = "retry_revoke"
    /\ state' = [state EXCEPT ![task[t].lease] = "revoked"]
    /\ active' = WithRestored(t)
    /\ task' = RenewalOver(t)
    /\ UNCHANGED <<subject, lapsed, issued, phase, drained>>

\* The revocation after a failed renewal; if it fails too, restore.
RetryRevoke(t) ==
    /\ task[t].pc = "retry_revoke"
    /\ \/ /\ state' = [state EXCEPT ![task[t].lease] = "revoked"]
          /\ UNCHANGED active
       \/ /\ "backend" \in Faults
          /\ state' \in AfterFailedRevoke(task[t].lease)
          /\ active' = WithRestored(t)
    /\ task' = RenewalOver(t)
    /\ UNCHANGED <<subject, lapsed, issued, phase, drained>>

RenewAudit(t) ==
    /\ task[t].pc = "renew_audit"
    /\ \/ task' = Goto(t, "restore")
       \/ "store" \in Faults /\ task' = Goto(t, "drop_revoke")
    /\ UNCHANGED <<state, subject, lapsed, active, issued, phase, drained>>

\* restore; a handle that is there again would have its lease revoked.
Restore(t) ==
    /\ task[t].pc = "restore"
    /\ IF task[t].lease \in active
       THEN task' = Goto(t, "drop_revoke") /\ UNCHANGED active
       ELSE /\ active' = active \cup {task[t].lease}
            /\ task' = IF task[t].kind = "child" THEN Finish(t) ELSE Goto(t, "using")
    /\ UNCHANGED <<state, subject, lapsed, issued, phase, drained>>

-----------------------------------------------------------------------------
(* Release: RevokeProfileEnvironmentLease, DynamicLeaseOwner::revoke and   *)
(* DynamicLeaseOwner::drop.                                                *)

\* The response is complete or the relay ends: owner.revoke().
OwnerEnds(t) ==
    /\ task[t].pc = "using"
    /\ task' = Goto(t, "take_revoke")
    /\ UNCHANGED <<state, subject, lapsed, active, issued, phase, drained>>

\* Mutation: the response body of the main listener drops no owner.
OwnerDroppedForgets(t) ==
    /\ "drop" \in Faults
    /\ task[t].pc = "using"
    /\ task' = IF t \in Tunnel THEN Spawn(t) ELSE Finish(t)
    /\ UNCHANGED <<state, subject, lapsed, active, issued, phase, drained>>

\* The owner goes out of scope with its handle.
OwnerDropped(t) ==
    /\ "drop" \in Faults
    /\ task[t].pc = "using"
    /\ task' = Spawn(t)
    /\ UNCHANGED <<state, subject, lapsed, active, issued, phase, drained>>

\* revoke_registered_dynamic_lease.  Nothing to do if the lease is not there.
TakeRevoke(t) ==
    /\ task[t].pc = "take_revoke"
    /\ IF Takeable(t)
       THEN active' = WithoutTaken(t) /\ task' = Goto(t, "revoke")
       ELSE task' = Finish(t) /\ UNCHANGED active
    /\ UNCHANGED <<state, subject, lapsed, issued, phase, drained>>

RevokeOk(t) ==
    /\ task[t].pc = "revoke"
    /\ state' = [state EXCEPT ![task[t].lease] = "revoked"]
    /\ task' = Finish(t)
    /\ UNCHANGED <<subject, lapsed, active, issued, phase, drained>>

\* restore; an owner gets its handle back, is dropped, and tries once more.
RevokeFails(t) ==
    /\ "backend" \in Faults
    /\ task[t].pc = "revoke"
    /\ state' \in AfterFailedRevoke(task[t].lease)
    /\ active' = WithRestored(t)
    /\ task' = IF task[t].kind \in {"stream", "websocket"} THEN Spawn(t) ELSE Finish(t)
    /\ UNCHANGED <<subject, lapsed, issued, phase, drained>>

\* The future of a handler is dropped at an await.  A relay is a task of its
\* own and is not; a stream inside owner.revoke() has given its handle away.
Cancel(t) ==
    /\ "cancel" \in Faults
    /\ task[t].pc \notin {"idle", "using"}
    /\ CASE task[t].kind = "cleanup" -> FALSE
         [] task[t].kind = "websocket" ->
              task[t].pc \in {"acquire", "insert", "drop_revoke"}
         [] OTHER -> TRUE
    /\ task' = Finish(t)
    /\ UNCHANGED <<state, subject, lapsed, active, issued, phase, drained>>

-----------------------------------------------------------------------------
(* The backend's clock, and shutdown.                                      *)

\* The time to live of a lease runs out.
Expire(l) ==
    /\ state[l] # "free"
    /\ l \notin lapsed
    /\ lapsed' = lapsed \cup {l}
    /\ state' = [state EXCEPT ![l] = IF @ = "live" THEN "gone" ELSE @]
    /\ UNCHANGED <<subject, active, issued, task, phase, drained>>

Shutdown ==
    /\ phase = "serving"
    /\ phase' = "stopping"
    /\ UNCHANGED <<state, subject, lapsed, active, issued, task, drained>>

\* axum::serve has returned: revoke_all_dynamic_leases.
Drain ==
    /\ phase = "stopping"
    /\ InFlight = {}
    /\ phase' = "draining"
    /\ drained' = active
    /\ active' = {}
    /\ UNCHANGED <<state, subject, lapsed, issued, task>>

DrainRevoke(l) ==
    /\ phase = "draining"
    /\ l \in drained
    /\ drained' = drained \ {l}
    /\ \/ state' = [state EXCEPT ![l] = "revoked"]
       \/ "backend" \in Faults /\ state' \in AfterFailedRevoke(l)
    /\ UNCHANGED <<subject, lapsed, active, issued, task, phase>>

\* main returns and the runtime drops whatever still runs.
Exit ==
    /\ phase = "draining"
    /\ drained = {} \/ "deadline" \in Faults
    /\ phase' = "exited"
    /\ task' = [t \in Tasks |-> IdleTask]
    /\ active' = {}
    /\ drained' = {}
    /\ UNCHANGED <<state, subject, lapsed, issued>>

-----------------------------------------------------------------------------
Work(t) ==
    \/ \E l \in Leases : AcquireOk(t, l) \/ AcquireUnusable(t, l)
    \/ AcquireFails(t)
    \/ Insert(t)
    \/ AuditOk(t)
    \/ AuditFails(t)
    \/ DropRevoke(t)
    \/ TakeRenew(t)
    \/ CheckGrant(t)
    \/ RenewOk(t)
    \/ RenewFails(t)
    \/ NotRenewable(t)
    \/ RetryRevoke(t)
    \/ RenewAudit(t)
    \/ Restore(t)
    \/ TakeRevoke(t)
    \/ RevokeOk(t)
    \/ RevokeFails(t)

\* What callers and upstreams decide.
Requests(t) ==
    \/ \E kind \in Kinds \ {"cleanup"}, s \in Subjects : Begin(t, kind, s)
    \/ \E pc \in {"take_renew", "take_revoke"}, s \in Subjects, l \in Leases :
          RequestOn(t, pc, s, l)
    \/ RelayRenews(t)
    \/ OwnerEnds(t)
    \/ OwnerDropped(t)
    \/ Cancel(t)

Next ==
    \/ \E t \in Tasks : Work(t) \/ Requests(t)
    \/ \E l \in Leases : Expire(l) \/ DrainRevoke(l)
    \/ Shutdown
    \/ Drain
    \/ Exit

Spec == Init /\ [][Next]_vars

\* The runtime polls every task that can make a step.
FairSpec == Spec /\ \A t \in Tasks : WF_vars(Work(t))

-----------------------------------------------------------------------------
(* Properties.                                                             *)

\* A lease is in one place only: in the registry, in the hands of one task, or
\* among the leases being drained.  So no two tasks renew or revoke it at
\* once, and restore never finds its handle taken.
OnePlace ==
    /\ \A t, u \in Tasks : t # u => Hands(t) \cap Hands(u) = {}
    /\ InHand \cap (active \cup drained) = {}
    /\ active \cap drained = {}

\* A lease whose revocation the backend acknowledged is never again registered,
\* worked on or drained, whatever renewal or cleanup was under way.
RevokedLeavesAV ==
    \A l \in Leases : state[l] = "revoked" => l \notin active \cup drained \cup InHand

\* A handle works for the subject the lease was issued to only: whoever else
\* presents it, the lease never gets into the hands of that call.
HeldForItsSubject ==
    \A t \in Tasks : \A l \in Hands(t) : subject[l] = task[t].subject

\* The registry forgets no lease that has not expired: it passes to the task
\* that takes it or to the shutdown drain.
RegistryForgetsNothing ==
    [][\A l \in active \ lapsed :
         l \in (active \cup drained \cup InHand)' \/ phase' = "exited"]_vars

\* Renewals in flight can carry the registry past its limit, since restore does
\* not look at it, but by less than the number of concurrent tasks.
OvershootBounded == Cardinality(active) < MaxActive + Cardinality(Tasks)

\* A lease that is live at the backend is known to the process while it runs:
\* registered, drained, or in the hands of a task that will revoke or return it.
LiveLeasesOwned ==
    phase # "exited" =>
        \A l \in Leases : state[l] = "live" => l \in active \cup drained \cup InHand

\* A graceful shutdown revokes every lease, those of requests that were in
\* flight when it began included.  What may stay live belongs to a task that it
\* does not wait for: one of the transparent listener, or a spawned cleanup.
ShutdownRevokesAll ==
    [][phase # "exited" /\ phase' = "exited" =>
         \A l \in Leases : state'[l] = "live" =>
            \E t \in Tasks : /\ task[t].lease = l
                             /\ t \in Tunnel \/ task[t].kind = "cleanup"]_vars

\* The registry holds at most MAX_ACTIVE_DYNAMIC_LEASES leases.
RegistryBounded == Cardinality(active) <= MaxActive

\* A live lease is in use by a proxy request, stream or WebSocket, or is a
\* child's, or it ends at the backend without waiting for its time to live:
\* an owner that finished or was dropped does not leave its lease behind.
OwnersRelease ==
    \A l \in Leases :
        state[l] = "live" ~>
            \/ \E t \in Tasks : task[t].pc = "using" /\ task[t].lease = l
            \/ l \in issued
            \/ state[l] # "live"
            \/ phase # "serving"

\* Once its subject asks for the revocation of a child's lease, the lease ends
\* at the backend.
ChildRevocationEnds ==
    \A t \in Tasks, l \in Leases :
        (/\ task[t].pc = "take_revoke"
         /\ task[t].kind = "child"
         /\ task[t].lease = l
         /\ task[t].subject = subject[l]) ~> (state[l] # "live" \/ phase # "serving")
=============================================================================
