----------------------------- MODULE MC_Runtime -----------------------------
(***************************************************************************)
(* The parts with promises about what eventually happens, each on its own  *)
(* instance in one run: `component` names the part a behaviour is about,   *)
(* and the variables of the others keep their initial values.              *)
(***************************************************************************)
EXTENDS TransparentProxy, RunWrapper, LocalHelper, DeviceLogin, SigningKeys,
        SecretBackends, CredentialReload

VARIABLE component

runtimeVars == <<component, proxyVars, wrapperVars, helperVars, loginVars, keyVars,
                 backendVars, reloadVars>>
-----------------------------------------------------------------------------
MC_Ambient == {{"AV_BASIC_USER", "HTTP_PROXY", "NO_PROXY"}}
MC_Exports == {{"AV_TOKEN", "DB"}}

MC_ClientStreams ==
    {<<"connect", "nl", "host", "nl", "authorization", "nl", "nl", "p1", "nl", "nl", "p2">>,
     <<"connect", "nl", "authorization", "nl", "host", "nl", "host", "nl", "nl">>,
     <<"connect", "nl", "host", "nl", "nl", "nl", "p1">>,
     <<"get", "nl", "host", "nl", "nl">>,
     <<"connect", "nl", "host", "nl", "folded", "nl", "nl">>,
     <<"connect", "nl", "host", "nl", "accept", "nl", "accept", "nl", "accept", "nl",
       "accept", "nl", "accept", "nl", "accept">>}
MC_RemoteStreams ==
    {<<"200", "nl", "nl", "r1", "r2">>, <<"407", "nl", "x", "nl", "nl", "r1">>, <<"200", "nl">>}

\* A token of each key, with the groups as an array and as an object.
MC_Tokens ==
    {[kid |-> "k1", algorithm |-> "RS256", sound |-> TRUE,
      claim |-> [shape |-> "array", names |-> {"dev"}]],
     [kid |-> "k2", algorithm |-> "RS256", sound |-> TRUE,
      claim |-> [shape |-> "object", names |-> {"dev", "ops"}]]}

ExportOf(field, resource) == [field |-> field, resource |-> resource]
SourceOf(kinds, login, dynamic, allowed, exported) ==
    [kind |-> kinds, login |-> login, dynamic |-> dynamic, allowed |-> allowed,
     exports |-> exported]
StaticOpenBao == SourceOf("openbao", TRUE, FALSE, {"K"}, <<>>)
MC_Sources ==
    {StaticOpenBao,
     SourceOf("openbao", TRUE, TRUE, {}, [N |-> ExportOf("K", Absent)]),
     SourceOf("openbao", FALSE, FALSE, {}, <<>>),
     SourceOf("infisical", TRUE, TRUE, {}, [K |-> ExportOf(Absent, Absent),
                                            M |-> ExportOf("K", Absent)]),
     SourceOf("infisical", TRUE, TRUE, {}, [K |-> ExportOf(Absent, Absent)]),
     SourceOf("infisical", FALSE, FALSE, {"K"}, <<>>),
     SourceOf("google", FALSE, FALSE, {}, [K |-> ExportOf(Absent, "r1"),
                                           M |-> ExportOf(Absent, "r2")])}

JsonValue(t, x) == [type |-> t, text |-> x]
TwoFields == [K |-> JsonValue("string", "k"), X |-> JsonValue("number", "7")]
PlainAnswer ==
    [status |-> "ok", fields |-> TwoFields, wrapped |-> Absent, listed |-> <<>>,
     leaseId |-> Absent, duration |-> 0, renewable |-> FALSE, payloads |-> <<>>]
LeaseAnswer(id, d) ==
    [PlainAnswer EXCEPT !.leaseId = id, !.duration = d, !.renewable = TRUE]
Listed == <<<<"K", "a">>, <<"X", "b">>, <<"K", "c">>>>
PayloadOf(size, sum, text) == [size |-> size, sum |-> sum, crc |-> 5, text |-> text]
BadAnswers ==
    {[PlainAnswer EXCEPT !.status = "missing"], [PlainAnswer EXCEPT !.status = "error"]}
MC_Answers(k) ==
    CASE k = "openbao" ->
           {PlainAnswer, LeaseAnswer("l", 3), LeaseAnswer("l", 9),
            [PlainAnswer EXCEPT !.fields = [K |-> JsonValue("null", "")], !.wrapped = TwoFields],
            [PlainAnswer EXCEPT !.fields = [K |-> JsonValue("nested", "")]],
            [LeaseAnswer("l", 3) EXCEPT !.fields = Malformed]}
           \cup BadAnswers
      [] k = "infisical" ->
           {[LeaseAnswer("l", d) EXCEPT !.listed = Listed] : d \in {0, 3, 5, 9}}
           \cup {LeaseAnswer(Malformed, 3)} \cup BadAnswers
      [] k = "google" ->
           {[PlainAnswer EXCEPT !.payloads = [r1 |-> PayloadOf("fits", 5, "t"), r2 |-> p]] :
               p \in {PayloadOf("fits", 5, "u"), PayloadOf("fits", Absent, "u"),
                      PayloadOf("empty", 5, "u"), PayloadOf("fits", 5, Malformed)}}
-----------------------------------------------------------------------------
RuntimeInit ==
    /\ component \in {"proxy", "wrapper", "helper", "login", "keys", "backend", "reload"}
    /\ WrapperInit
    /\ component # "wrapper" =>
           kind = "static" /\ keyring = Absent
    /\ KeysInit /\ (component # "keys" => published = {"k1"})
    /\ BackendInit /\ (component # "backend" => source = StaticOpenBao)
    /\ ReloadInit /\ (component # "reload" => credentialFile = "v1")
    /\ ProxyInit /\ HelperInit /\ LoginInit

\* The variables that stand still while a part runs.
butProxy == <<component, wrapperVars, helperVars, loginVars, keyVars, backendVars, reloadVars>>
butWrapper == <<component, proxyVars, helperVars, loginVars, keyVars, backendVars, reloadVars>>
butHelper == <<component, proxyVars, wrapperVars, loginVars, keyVars, backendVars, reloadVars>>
butLogin == <<component, proxyVars, wrapperVars, helperVars, keyVars, backendVars, reloadVars>>
butKeys == <<component, proxyVars, wrapperVars, helperVars, loginVars, backendVars, reloadVars>>
butBackend == <<component, proxyVars, wrapperVars, helperVars, loginVars, keyVars, reloadVars>>
butReload == <<component, proxyVars, wrapperVars, helperVars, loginVars, keyVars, backendVars>>

ProxyTurn == component = "proxy" /\ ProxyNext /\ UNCHANGED butProxy
WrapperTurn == component = "wrapper" /\ WrapperNext /\ UNCHANGED butWrapper
HelperTurn == component = "helper" /\ HelperNext /\ UNCHANGED butHelper
LoginTurn == component = "login" /\ LoginNext /\ UNCHANGED butLogin
KeysTurn == component = "keys" /\ KeysNext /\ UNCHANGED butKeys
BackendTurn == component = "backend" /\ BackendNext /\ UNCHANGED butBackend
ReloadTurn == component = "reload" /\ ReloadNext /\ UNCHANGED butReload

RuntimeNext ==
    \/ ProxyTurn \/ WrapperTurn \/ HelperTurn \/ LoginTurn
    \/ KeysTurn \/ BackendTurn \/ ReloadTurn

\* Steps of different parts that must be strongly fair share a formula: since
\* component never changes, fairness of the disjunction is that of each disjunct.
Strong1 ==
    \/ component = "proxy" /\ (\E c \in Connections : RelayDeadline(c)) /\ UNCHANGED butProxy
    \/ component = "keys" /\ (\E r \in BearerRequests : LockRefresh(r)) /\ UNCHANGED butKeys
    \/ component = "reload" /\ ReplacementConnected /\ UNCHANGED butReload
Strong2 ==
    \/ component = "proxy" /\ (\E c \in Connections : RelayCheck(c, FALSE)) /\ UNCHANGED butProxy
    \/ component = "keys" /\ (\E r \in BearerRequests : ServeKeys(r)) /\ UNCHANGED butKeys
Strong3 ==
    component = "keys" /\ (\E r \in BearerRequests : StoreKeys(r)) /\ UNCHANGED butKeys

\* The fairness of the part a behaviour is about, as its module states it.
RuntimeFairness ==
    /\ SF_runtimeVars(Strong1) /\ SF_runtimeVars(Strong2) /\ SF_runtimeVars(Strong3)
    /\ \A c \in Connections :
          /\ WF_proxyVars(RelaySession(c)) /\ WF_proxyVars(RelayGrant(c))
          /\ WF_proxyVars(\E b \in BOOLEAN : LeaseRenewed(c, b) \/ RelaySent(c, b))
          /\ WF_proxyVars(RelayOver(c))
    /\ WF_wrapperVars(component = "wrapper" /\ WrapperSteps)
    /\ WF_wrapperVars(component = "wrapper" /\ SecondPasses)
    /\ HelperFairness
    /\ WF_loginVars(component = "login" /\ LoginTick)
    /\ \A t \in Terminals : WF_loginVars(component = "login" /\ LoginStep(t))
    /\ WF_keyVars(component = "keys" /\ KeysTick)
    /\ WF_keyVars(component = "keys" /\
                  \E r \in BearerRequests, token \in BearerTokens : ReceiveBearer(r, token))
    /\ \A r \in BearerRequests : WF_keyVars(component = "keys" /\ (LookAgain(r) \/ Served(r)))
    /\ WF_backendVars(component = "backend" /\ SecondsPass)
    /\ \A f \in Fetches :
          /\ WF_backendVars(component = "backend" /\ UseCached(f))
          /\ WF_backendVars(component = "backend" /\ StartLogin(f))
          /\ WF_backendVars(component = "backend" /\ LoginTimesOut(f))
    /\ WF_reloadVars(ReloadTick) /\ WF_reloadVars(ReplacementFails)
    /\ WF_reloadVars(RecordFingerprint)

RuntimeSpec == RuntimeInit /\ [][RuntimeNext]_runtimeVars /\ RuntimeFairness
=============================================================================
