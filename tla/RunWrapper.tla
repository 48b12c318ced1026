----------------------------- MODULE RunWrapper -----------------------------
(***************************************************************************)
(* The wrappers of src/src/main.rs that run a child under a capability of  *)
(* AV: `av <profile>` (run_profile), `av run` (run_transparent_proxy) and  *)
(* `av run --container` (run_enforced_container).  The capability is the   *)
(* dynamic lease or the proxy session that AV issued for the child.        *)
(*                                                                         *)
(* Seconds are counted down.  The wrapper's copy of the expiry is AV's: it *)
(* changes only when a renewal is answered, and both read one clock.       *)
(***************************************************************************)
EXTENDS WireValues, Integers

CONSTANTS
    Kinds,              \* of "static", "dynamic", "proxy", "container"
    Ambient,            \* environments the wrapper may be started in
    Exports,            \* names a profile may export
    Keyrings,           \* subjects whose token the keyring may hold, or Absent
    LeaseTtl,
    LeaseLife,          \* absolute lifetime
    RenewalLatency      \* seconds within which AV answers a renewal

ASSUME RunWrapperAssumption ==
    /\ Kinds \subseteq {"static", "dynamic", "proxy", "container"}
    /\ LeaseTtl \in Nat /\ LeaseLife \in Nat \ {0} /\ RenewalLatency \in Nat
    /\ LeaseTtl > 1 /\ 1 + 3 * RenewalLatency <= LeaseTtl

VARIABLES
    kind, ambient, exports,     \* how the wrapper was called
    keyring,
    wrapper,    \* [step, ok, subject, answer, asked, unremoved]
    lease,      \* what AV holds: [state, left, life, subject]
    renewal,    \* [step, wait]
    procs,      \* [child, environment, listener, helper, target]

    timely      \* history: the child was spawned well before the first expiry

wrapperVars == <<kind, ambient, exports, keyring, wrapper, lease, renewal, procs, timely>>

Ended == lease.state # "active" \/ lease.left = 0
Over == wrapper.step \in {"done", "killed"}

WrapperInit ==
    /\ kind \in Kinds /\ ambient \in Ambient /\ exports \in Exports
    /\ keyring \in Keyrings
    /\ wrapper = [step |-> "start", ok |-> FALSE, subject |-> Absent,
                  answer |-> "none", asked |-> FALSE, unremoved |-> {}]
    /\ lease = [state |-> "none", left |-> 0, life |-> 0, subject |-> Absent]
    /\ renewal = [step |-> "idle", wait |-> 0]
    /\ procs = [child |-> "none", environment |-> <<>>, listener |-> "none",
                helper |-> "none", target |-> "none"]
    /\ timely = FALSE

callVars == <<kind, ambient, exports>>
-----------------------------------------------------------------------------
(* Who the wrapper is to AV, found anew for every request. *)

\* authenticate_request.  The agent token file, when named, decides alone.
AuthenticateRequest ==
    CASE "AV_AGENT_TOKEN_FILE" \in ambient -> "agent of the file"
      [] "AV_AGENT_TOKEN_FILE" \notin ambient /\ "AV_AGENT_TOKEN" \in ambient -> "agent"
      [] ambient \cap {"AV_AGENT_TOKEN_FILE", "AV_AGENT_TOKEN"} = {} /\ "AV_TOKEN" \in ambient
            -> "bearer"
      [] ambient \cap {"AV_AGENT_TOKEN_FILE", "AV_AGENT_TOKEN", "AV_TOKEN"} = {}
         /\ {"AV_BASIC_USER", "AV_BASIC_PASSWORD"} \subseteq ambient -> "basic"
      [] OTHER -> keyring

\* av login or av logout in another terminal.
ChangeKeyring ==
    /\ keyring' \in Keyrings \ {keyring}
    /\ UNCHANGED <<callVars, wrapper, lease, renewal, procs, timely>>
-----------------------------------------------------------------------------
(* What the child is started with: a function from names to who set them. *)

WrapperCredentials == {"AV_AGENT_TOKEN_FILE", "AV_AGENT_TOKEN", "AV_TOKEN",
                       "AV_BASIC_USER", "AV_BASIC_PASSWORD"}
ProxyNames == {"HTTP_PROXY", "HTTPS_PROXY", "http_proxy", "https_proxy"}
BypassNames == {"NO_PROXY", "no_proxy", "ALL_PROXY", "all_proxy"}
TrustNames == {"SSL_CERT_FILE", "NODE_EXTRA_CA_CERTS", "CURL_CA_BUNDLE",
               "REQUESTS_CA_BUNDLE", "GIT_SSL_CAINFO", "CODEX_CA_CERTIFICATE"}

Environment(inherited, set, by, removed) ==
    [name \in (inherited \cup set) \ removed |-> IF name \in set THEN by ELSE "ambient"]

\* Mutation: the wrapper's own variables are removed before the profile's are set.
RemovesFirst ==
    Environment(ambient \ (WrapperCredentials \cup {"AV_PROXY_TRANSPORT_CA_FILE"}),
                exports, "profile", {})

\* profile_command: the reserved names go after the exports are added.
ProfileCommand ==
    Environment(ambient, exports, "profile",
                WrapperCredentials \cup {"AV_PROXY_TRANSPORT_CA_FILE"})

\* proxy_child_command
ProxyChildCommand ==
    Environment(ambient, ProxyNames \cup TrustNames, "helper",
                WrapperCredentials \cup BypassNames
                \cup {"AV_PROXY_TRANSPORT_CA_FILE", "AV_SYSTEM_CA_FILE"})

\* enforced_container_command: a container inherits nothing.
EnforcedContainerCommand ==
    Environment({}, {"HOME"} \cup ProxyNames \cup BypassNames \cup TrustNames, "helper", {})

ChildEnvironment ==
    CASE kind \in {"static", "dynamic"} -> ProfileCommand
      [] kind = "proxy" -> ProxyChildCommand
      [] kind = "container" -> EnforcedContainerCommand
-----------------------------------------------------------------------------
(* Creation, up to the select that waits for the child. *)

Step(step) == wrapper' = [wrapper EXCEPT !.step = step]

\* Arguments, workspace, images and docker_preflight are checked, and the
\* request is authenticated, before AV is asked for anything.
AskForLease ==
    /\ wrapper.step = "start"
    /\ IF AuthenticateRequest = Absent
       THEN Step("done")
       ELSE wrapper' = [wrapper EXCEPT !.step = "creating", !.subject = AuthenticateRequest]
    /\ UNCHANGED <<callVars, keyring, lease, renewal, procs, timely>>

RefusedBeforeLease ==
    /\ wrapper.step = "start"
    /\ Step("done")
    /\ UNCHANGED <<callVars, keyring, lease, renewal, procs, timely>>

IssueLease ==
    /\ wrapper.step = "creating" /\ kind # "static" /\ lease.state = "none"
    /\ lease' = [state |-> "active", left |-> LeaseTtl, life |-> LeaseLife,
                 subject |-> wrapper.subject]
    /\ UNCHANGED <<callVars, keyring, wrapper, renewal, procs, timely>>

\* The request fails, or its answer is lost.
LeaseNotReceived ==
    /\ wrapper.step = "creating"
    /\ Step("done")
    /\ UNCHANGED <<callVars, keyring, lease, renewal, procs, timely>>

\* The answer is there and refused: a name that is given twice or is no
\* variable's, an expiry that does not fit, an incomplete session.  The
\* wrapper ends at once, with no request to revoke what the answer names.
LeaseRefused ==
    /\ wrapper.step = "creating"
    /\ kind = "static" \/ lease.state # "none"
    /\ wrapper' = [wrapper EXCEPT !.answer = "refused", !.step = "done"]
    /\ UNCHANGED <<callVars, keyring, lease, renewal, procs, timely>>

LeaseReceived ==
    /\ wrapper.step = "creating"
    /\ kind = "static" \/ lease.state # "none"
    /\ wrapper' = [wrapper EXCEPT !.answer = "accepted",
                       !.step = IF kind \in {"static", "dynamic"} THEN "spawn" ELSE "listen"]
    /\ UNCHANGED <<callVars, keyring, lease, renewal, procs, timely>>

\* write_proxy_ca; start_loopback_proxy or start_unix_proxy, and its task.
Listen ==
    /\ wrapper.step = "listen"
    /\ Step(IF kind = "proxy" THEN "spawn" ELSE "helper")
    /\ procs' = [procs EXCEPT !.listener = "open"]
    /\ UNCHANGED <<callVars, keyring, lease, renewal, timely>>

StartHelper ==
    /\ wrapper.step = "helper"
    /\ Step("ready")
    /\ procs' = [procs EXCEPT !.helper = "running"]
    /\ UNCHANGED <<callVars, keyring, lease, renewal, timely>>

\* wait_for_container_relay
RelayReady ==
    /\ wrapper.step = "ready" /\ procs.helper = "running"
    /\ Step("spawn")
    /\ UNCHANGED <<callVars, keyring, lease, renewal, procs, timely>>

\* Mutation: the whole remaining time passes before a renewal.
RenewsAtExpiry(remaining) == remaining

\* renewal_delay, of a capability that has not expired.
RenewalDelay(remaining) == IF remaining \div 2 > 1 THEN remaining \div 2 ELSE 1

Renewing(remaining) ==
    IF remaining > 0 THEN [step |-> "sleeping", wait |-> RenewalDelay(remaining)]
                     ELSE [step |-> "failed", wait |-> 0]

\* The child is spawned and the select polled, which installs the handler of
\* the interrupt for the rest of the process.
Spawn ==
    /\ wrapper.step = "spawn"
    /\ Step("select")
    /\ procs' = [procs EXCEPT !.child = "running", !.environment = ChildEnvironment,
                              !.target = IF kind = "container" THEN "asked" ELSE "none"]
    /\ renewal' = IF kind = "static" THEN renewal ELSE Renewing(lease.left)
    /\ timely' = (lease.left > 1 /\ RenewalLatency < lease.left - lease.left \div 2)
    /\ UNCHANGED <<callVars, keyring, lease>>
-----------------------------------------------------------------------------
(* The renewal loop: renew_profile_environment_lease_loop and              *)
(* renew_proxy_session_loop.  It is polled only while the select waits.    *)

Renewal(step, wait) == renewal' = [step |-> step, wait |-> wait]

AskForRenewal ==
    /\ wrapper.step = "select" /\ renewal = [step |-> "sleeping", wait |-> 0]
    /\ Renewal("asked", RenewalLatency)
    /\ UNCHANGED <<callVars, keyring, wrapper, lease, procs, timely>>

\* AV renews only for the subject, and never past the absolute lifetime.
Renew ==
    /\ renewal.step = "asked" /\ ~Ended /\ AuthenticateRequest = lease.subject
    /\ lease' = [lease EXCEPT !.left = IF LeaseTtl < lease.life THEN LeaseTtl ELSE lease.life]
    /\ Renewal("answered", renewal.wait)
    /\ UNCHANGED <<callVars, keyring, wrapper, procs, timely>>

RenewalReceived ==
    /\ wrapper.step = "select" /\ renewal.step = "answered"
    /\ renewal' = Renewing(lease.left)
    /\ UNCHANGED <<callVars, keyring, wrapper, lease, procs, timely>>

\* Refused, unreachable, or answered with something else.
RenewalNotReceived ==
    /\ wrapper.step = "select" /\ renewal.step \in {"asked", "answered"}
    /\ Renewal("failed", 0)
    /\ UNCHANGED <<callVars, keyring, wrapper, lease, procs, timely>>

Minus1(n) == IF n > 0 THEN n - 1 ELSE 0

\* Timers fire, and AV answers, within the second they are due.
SecondPasses ==
    /\ lease.state # "none"
    /\ wrapper.step = "select" /\ renewal.step \in {"sleeping", "asked", "answered"}
           => renewal.wait > 0
    /\ lease' = [lease EXCEPT !.left = Minus1(@), !.life = Minus1(@)]
    /\ Renewal(renewal.step, Minus1(renewal.wait))
    /\ UNCHANGED <<callVars, keyring, wrapper, procs, timely>>

\* An operator revokes the session, withdraws the grant or disables the agent.
WithdrawLease ==
    /\ lease.state = "active"
    /\ lease' = [lease EXCEPT !.state = "revoked"]
    /\ UNCHANGED <<callVars, keyring, wrapper, renewal, procs, timely>>
-----------------------------------------------------------------------------
(* Processes and containers outside the wrapper. *)

\* The child of a container is the docker client, which ends with the target
\* or when the daemon refuses to create it.
ChildExits ==
    /\ procs.child = "running" /\ procs.target \notin {"created", "running"}
    /\ procs' = [procs EXCEPT !.child = "exited",
                              !.target = IF @ = "asked" THEN "none" ELSE @]
    /\ UNCHANGED <<callVars, keyring, wrapper, lease, renewal, timely>>

\* The daemon serves a request to create after the client is gone; the start
\* is asked for only by a client that saw the container created.
TargetCreated ==
    /\ procs.target = "asked"
    /\ procs' = [procs EXCEPT !.target = "created"]
    /\ UNCHANGED <<callVars, keyring, wrapper, lease, renewal, timely>>

TargetStarted ==
    /\ procs.target = "created" /\ procs.child = "running"
    /\ procs' = [procs EXCEPT !.target = "running"]
    /\ UNCHANGED <<callVars, keyring, wrapper, lease, renewal, timely>>

TargetExits ==
    /\ procs.target = "running"
    /\ procs' = [procs EXCEPT !.target = "exited"]
    /\ UNCHANGED <<callVars, keyring, wrapper, lease, renewal, timely>>

HelperDies ==
    /\ procs.helper = "running"
    /\ procs' = [procs EXCEPT !.helper = "exited"]
    /\ UNCHANGED <<callVars, keyring, wrapper, lease, renewal, timely>>
-----------------------------------------------------------------------------
(* The ways out of the select, and out of the block around it. *)

\* Mutation: a branch of the select leaves the child running.
LeavesChild(p) == p

\* kill and wait of the select's branches, kill_on_drop where a branch is dropped.
KillChild(p) == IF p.child = "running" THEN [p EXCEPT !.child = "killed"] ELSE p

AfterSelect ==
    CASE kind = "static" -> "done" [] kind = "dynamic" -> "revoke" [] OTHER -> "close"

Leave(ok) ==
    /\ wrapper' = [wrapper EXCEPT !.step = AfterSelect, !.ok = ok]
    /\ procs' = KillChild(procs)
    /\ UNCHANGED <<callVars, keyring, lease, renewal, timely>>

SeeChildExit == wrapper.step = "select" /\ procs.child = "exited" /\ Leave(TRUE)

\* Mutation: the select does not watch the renewal task.
RenewalUnwatched == FALSE

SeeRenewalFailure == wrapper.step = "select" /\ renewal.step = "failed" /\ Leave(FALSE)

SeeHelperExit ==
    wrapper.step = "select" /\ kind = "container" /\ procs.helper = "exited" /\ Leave(FALSE)

\* The child's exit status, whatever it is, becomes the wrapper's.
Interrupted == wrapper.step = "select" /\ Leave(TRUE)

AfterFailure == AfterSelect

\* The public CA, the listener, the helper, its readiness or the spawn fails.
SetupFails ==
    /\ wrapper.step \in {"listen", "helper", "ready", "spawn"}
    /\ wrapper' = [wrapper EXCEPT !.step = AfterFailure]
    /\ UNCHANGED <<callVars, keyring, lease, renewal, procs, timely>>

\* The target is spawned and the wait for the helper is not: the client of the
\* target is killed when it is dropped.
MonitorFails ==
    /\ wrapper.step = "spawn" /\ kind = "container"
    /\ wrapper' = [wrapper EXCEPT !.step = AfterFailure]
    /\ procs' = [procs EXCEPT !.child = "killed", !.environment = ChildEnvironment,
                              !.target = "asked"]
    /\ UNCHANGED <<callVars, keyring, lease, renewal, timely>>

Containers == {"helper", "target"}

\* DockerContainerCleanup looks at the result of no removal: a container that
\* docker fails to remove stays as it is.
Removed(container, failed) ==
    IF container \in {"none", "asked"} \/ failed THEN container ELSE "removed"

\* The shutdown is sent, or its sender dropped, and the containers are removed.
Close ==
    /\ wrapper.step = "close"
    /\ \E failed \in SUBSET {c \in Containers : procs[c] \notin {"none", "asked"}} :
        /\ wrapper' = [wrapper EXCEPT !.step = "revoke", !.unremoved = failed]
        /\ procs' = [procs EXCEPT
               !.listener = IF @ = "open" THEN "closed" ELSE @,
               !.helper = Removed(@, "helper" \in failed),
               !.target = Removed(@, "target" \in failed)]
    /\ UNCHANGED <<callVars, keyring, lease, renewal, timely>>

AskForRevocation ==
    /\ wrapper.step = "revoke"
    /\ wrapper' = [wrapper EXCEPT !.step = "revoking", !.asked = TRUE]
    /\ UNCHANGED <<callVars, keyring, lease, renewal, procs, timely>>

Revoke ==
    /\ wrapper.step = "revoking" /\ AuthenticateRequest = lease.subject
    /\ lease.state = "active"
    /\ lease' = [lease EXCEPT !.state = "revoked"]
    /\ Step("revoked")
    /\ UNCHANGED <<callVars, keyring, renewal, procs, timely>>

RevocationReceived ==
    /\ wrapper.step = "revoked"
    /\ Step("done")
    /\ UNCHANGED <<callVars, keyring, lease, renewal, procs, timely>>

WithoutRevocation == FALSE

\* Refused, unreachable, or answered with a lease that is not revoked.
RevocationNotReceived ==
    /\ wrapper.step \in {"revoking", "revoked"}
    /\ wrapper' = [wrapper EXCEPT !.step = "done", !.ok = WithoutRevocation]
    /\ UNCHANGED <<callVars, keyring, lease, renewal, procs, timely>>

\* SIGTERM or SIGKILL, or an interrupt before the handler is installed: no
\* destructor runs, and nothing is revoked.
Killed ==
    /\ ~Over
    /\ Step("killed")
    /\ procs' = [procs EXCEPT !.listener = IF @ = "open" THEN "closed" ELSE @]
    /\ UNCHANGED <<callVars, keyring, lease, renewal, timely>>
-----------------------------------------------------------------------------
WrapperSteps ==
    \/ AskForLease \/ RefusedBeforeLease \/ LeaseNotReceived \/ LeaseRefused
    \/ LeaseReceived \/ Listen \/ StartHelper \/ RelayReady \/ SetupFails \/ Spawn
    \/ MonitorFails
    \/ AskForRenewal \/ RenewalReceived \/ RenewalNotReceived
    \/ SeeChildExit \/ SeeRenewalFailure \/ SeeHelperExit
    \/ Close \/ AskForRevocation \/ RevocationReceived \/ RevocationNotReceived

WrapperNext ==
    \/ WrapperSteps
    \/ IssueLease \/ Renew \/ Revoke \/ WithdrawLease \/ SecondPasses \/ ChangeKeyring
    \/ ChildExits \/ TargetCreated \/ TargetStarted \/ TargetExits \/ HelperDies
    \/ Interrupted \/ Killed

\* The process is scheduled, its requests end (the HTTP client has a timeout)
\* and time passes.  A child may run for ever, and nobody need interrupt it.
WrapperFairness == WF_wrapperVars(WrapperSteps) /\ WF_wrapperVars(SecondPasses)

WrapperSpec == WrapperInit /\ [][WrapperNext]_wrapperVars /\ WrapperFairness
-----------------------------------------------------------------------------
(* A wrapper that ends by itself has asked AV to revoke the capability it  *)
(* accepted: "from this point forward revocation is mandatory", setup that  *)
(* fails included.  It reports the child's status only when AV has revoked, *)
(* and what it was not given, or refused, it ran no child under.            *)
RevocationMandatory ==
    wrapper.step = "done" =>
        /\ wrapper.answer = "accepted" /\ kind # "static" => wrapper.asked
        /\ wrapper.ok /\ kind # "static" => lease.state = "revoked"
        /\ wrapper.answer # "accepted" => ~wrapper.ok /\ procs.child = "none"

(* Nothing the wrapper started is running once it has ended by itself: not  *)
(* the child, on whichever branch the select was left, not the listener,    *)
(* and neither container, though the daemon may create the target after its *)
(* client was killed.  A container docker failed to remove is excepted: the *)
(* wrapper neither tries again nor reports it.                              *)
NothingLeftRunning ==
    wrapper.step = "done" =>
        /\ procs.child # "running" /\ procs.listener # "open"
        /\ "helper" \notin wrapper.unremoved => procs.helper \in {"none", "removed"}
        /\ "target" \notin wrapper.unremoved => procs.target # "running"

(* A wrapper that ends by itself has asked AV to revoke the capability it   *)
(* accepted and left nothing running, whichever step of setup, run, renewal *)
(* or revocation failed, but for the containers docker failed to remove.    *)
(* The capability of an answer that was lost or refused lives until its     *)
(* time is over.                                                            *)
NothingLeftBehind == RevocationMandatory /\ NothingLeftRunning

(* Renewing at half the remaining time keeps the capability alive for its   *)
(* whole absolute lifetime, when AV answers within RenewalLatency and the   *)
(* child was spawned in time: the last renewals, of one remaining second,   *)
(* included.                                                                *)
KeptAlive ==
    timely /\ wrapper.step = "select" /\ lease.state = "active" /\ lease.life > 0
    /\ renewal.step # "failed"
        => lease.left > 0

(* The child is started without the credentials of the wrapper and, where   *)
(* it is proxied, with the helper as its only proxy, whatever the wrapper's *)
(* environment and the profile's exports contain.                           *)
ChildEnvironmentClean ==
    LET env == procs.environment IN
    procs.child # "none" =>
        /\ DOMAIN env \cap WrapperCredentials = {}
        /\ kind \in {"proxy", "container"} =>
            \A name \in ProxyNames : name \in DOMAIN env /\ env[name] = "helper"
        /\ \A name \in DOMAIN env \cap BypassNames :
            kind \in {"proxy", "container"} => env[name] = "helper"

(* A child does not outlive the capability it runs under: when AV ends it,  *)
(* by expiry or by withdrawal, the next renewal fails and the child is      *)
(* killed, unless the wrapper itself was killed first.                      *)
ChildEndsWithLease ==
    wrapper.step = "select" /\ kind # "static" /\ Ended
        ~> procs.child # "running" \/ wrapper.step = "killed"
=============================================================================
