----------------------------- MODULE MC_Service -----------------------------
(***************************************************************************)
(* Seven parts of the server that share no state, each on its own instance *)
(* in one run: `component` names the part a behaviour is about, and the    *)
(* variables of the others keep their initial values.                      *)
(***************************************************************************)
EXTENDS MC_RequestPipeline, ResponseRedaction, ControlPlane, BrowserLogin,
        PasswordSlots, TransportTls, RateLimiter

VARIABLE component

serviceVars == <<component, pipelineVars, responseVars, controlVars, browserVars,
                 passwordVars, tlsVars, limiterVars>>
-----------------------------------------------------------------------------
\* A credential is encoded as itself and as one longer form.
MC_Encodings(s) == <<s, s \o <<2>>>>
MC_SecretLists == {<<>>, <<<<0, 1>>>>, <<<<0, 0>>>>, <<<<0, 1, 1>>, <<1, 0>>>>, <<<<1>>, <<0, 1>>>>}
MC_Marker == <<9>>

\* An owner, an agent that is an operator, and an OIDC subject without a role.
BasicOwner == <<"basic", "b">>
OperatorAgent == <<"agent", "a">>
OidcSubject == <<"oidc", "o">>
MC_Profiles == <<"p1">>
MC_Bootstrapped ==
    [roles |-> [s \in Subjects |->
        CASE s = BasicOwner -> "owner" [] s = OperatorAgent -> "operator" [] OTHER -> Absent],
     users |-> [u \in BasicNames |-> [password |-> 12, enabled |-> TRUE]],
     agents |-> [a \in AgentNames |->
        IF a = "a" THEN [token |-> 1, enabled |-> TRUE] ELSE Absent],
     grants |-> [k \in Subjects \X ProfileNames |-> Absent]]
MC_RoleBindings == {<<OidcSubject, "operator">>, <<BasicOwner, "auditor">>, <<OperatorAgent, "owner">>,
                    <<Malformed, "owner">>, <<OidcSubject, Malformed>>}
MC_RpcGrants == {<<OidcSubject, "p1", "", 0>>, <<OperatorAgent, "p1", "proxy", 2>>,
                 <<OidcSubject, "p1", "", 1>>}
MC_FormGrants == {<<OidcSubject, "p1", "", Absent>>, <<OperatorAgent, "p1", "proxy", 2>>,
                  <<OidcSubject, "p1", "", 0>>, <<OidcSubject, "p1", "", Malformed>>}
MC_Identities == {<<"", "7">>, <<"", "o">>, <<"agent", "a">>, <<"basic", "b">>}
MC_Usernames == {"b", Malformed}
MC_Agentnames == {"a", "c", Malformed}
MC_SubjectTexts == {OidcSubject, OperatorAgent, Malformed}
MC_ProfileTexts == {"p1", Malformed}

\* One account is listed, one an active and one an invited member.
MC_Membership(a, o) == CASE a = "a1" -> "none" [] a = "a2" -> "active" [] OTHER -> "pending"

MC_Users == <<"u1">>
-----------------------------------------------------------------------------
ServiceInit ==
    /\ component \in {"pipeline", "response", "control", "browser", "password", "tls", "limiter"}
    /\ PipelineInit /\ (component # "pipeline" => config = Config)
    /\ ResponseInit /\ (component # "response" => secrets = <<>> /\ responseMode = "buffered")
    /\ PasswordInit /\ (component # "password" => managed)
    /\ ControlInit /\ BrowserInit /\ TlsInit /\ LimiterInit

PipelineTurn ==
    /\ component = "pipeline" /\ PipelineNext
    /\ UNCHANGED <<component, responseVars, controlVars, browserVars, passwordVars, tlsVars,
                   limiterVars>>

ResponseTurn ==
    /\ component = "response" /\ ResponseNext
    /\ UNCHANGED <<component, pipelineVars, controlVars, browserVars, passwordVars, tlsVars,
                   limiterVars>>

ControlTurn ==
    /\ component = "control" /\ ControlNext
    /\ UNCHANGED <<component, pipelineVars, responseVars, browserVars, passwordVars, tlsVars,
                   limiterVars>>

BrowserTurn ==
    /\ component = "browser" /\ BrowserNext
    /\ UNCHANGED <<component, pipelineVars, responseVars, controlVars, passwordVars, tlsVars,
                   limiterVars>>

PasswordTurn ==
    /\ component = "password" /\ PasswordNext
    /\ UNCHANGED <<component, pipelineVars, responseVars, controlVars, browserVars, tlsVars,
                   limiterVars>>

TlsTurn ==
    /\ component = "tls" /\ TlsNext
    /\ UNCHANGED <<component, pipelineVars, responseVars, controlVars, browserVars,
                   passwordVars, limiterVars>>

LimiterTurn ==
    /\ component = "limiter" /\ LimiterNext
    /\ UNCHANGED <<component, pipelineVars, responseVars, controlVars, browserVars,
                   passwordVars, tlsVars>>

ServiceNext ==
    \/ PipelineTurn \/ ResponseTurn \/ ControlTurn \/ BrowserTurn
    \/ PasswordTurn \/ TlsTurn \/ LimiterTurn

ServiceSpec == ServiceInit /\ [][ServiceNext]_serviceVars
=============================================================================
