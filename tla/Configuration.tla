---------------------------- MODULE Configuration ----------------------------
(***************************************************************************)
(* src/src/config.rs: which configurations AV starts with.  Config::load   *)
(* expands the curated provider operations into routes and validates the   *)
(* whole; everything else in AV runs on what it accepts.                   *)
(*                                                                         *)
(* Maps are sets of records with a name.  A file is [path, absolute].      *)
(***************************************************************************)
EXTENDS RouteCatalog

LoopbackUrl(url) == url.host.loopback
AbsolutePaths(files) == \A f \in files : f.absolute
-----------------------------------------------------------------------------
(* Provider operations                                                     *)

\* cloudflare_account_token_verify, the only operation there is.
OperationRoute(op) ==
    [name |-> op.name, profile |-> op.profile,
     url |-> [scheme |-> "https", port |-> 443, path |-> <<"/">>,
              host |-> [name |-> "cloudflare", dots |-> 0, kind |-> "domain",
                       loopback |-> FALSE],
              credentials |-> FALSE, query |-> FALSE, fragment |-> FALSE],
     methods |-> {"GET"}, exact |-> {<<"/", "v">>}, prefixes |-> {},
     maxBody |-> 1024, maxResponse |-> 1048576,
     injection |-> [type |-> "bearer", key |-> op.key, header |-> "", text |-> "",
                    mixed |-> FALSE],
     requestHeaders |-> <<"accept">>, responseHeaders |-> <<"content-type">>,
     query |-> <<>>, substitutions |-> <<>>, contentTypes |-> <<>>,
     websocket |-> Absent]

\* expand_provider_operations: Absent is its error.
ExpandedRoutes(c) ==
    IF \E op \in c.operations :
          op.account = Malformed \/ \E r \in c.routes : r.name = op.name
    THEN Absent
    ELSE c.routes \cup {OperationRoute(op) : op \in c.operations}
-----------------------------------------------------------------------------
(* The sections of Config::validate, in order                              *)

ValidPublicUrl(url) ==
    /\ url.scheme = "https" \/ LoopbackUrl(url)
    /\ BareUrl(url) /\ url.path = <<"/">>

\* validate_managed_postgres
ManagedPostgres(postgres) == postgres # Malformed

\* Exactly one database source, and hot reload only of a credentials file.
ValidManaged(m) ==
    /\ (m.urlFile # Absent) # (m.credentialsFile # Absent)
    /\ AbsolutePaths({m.urlFile, m.credentialsFile} \ {Absent})
    /\ (m.credentialsFile # Absent) = (m.postgres # Absent)
    /\ ManagedPostgres(m.postgres)
    /\ Within(m.reload, 0, 3600)
    /\ m.reload > 0 => m.credentialsFile # Absent
    /\ m.initialOwner # ""

ValidMode(c) ==
    IF c.mode = "static" THEN c.managed = Absent
    ELSE c.managed # Absent /\ ValidManaged(c.managed)

OidcModes == {"oidc", "oidc_or_basic"}
BasicModes == {"basic", "oidc_or_basic", "github_or_basic"}

\* An empty client_id counts as an absent issuer.
ValidOidc(auth) ==
    /\ auth.issuer # Absent /\ auth.groups # {}
    /\ auth.issuer.scheme = "https"
          \/ (auth.issuer.scheme = "http" /\ LoopbackUrl(auth.issuer))
    /\ BareUrl(auth.issuer)
    /\ auth.algorithms # {}

\* An empty client_id counts as an absent section.
ValidGithub(c) ==
    /\ c.auth.github # Absent
    /\ c.mode = "managed" /\ LoopbackUrl(c.public)
    /\ c.auth.github.users # {} \/ c.auth.github.organizations # {}
    /\ c.auth.github.secretFile.absolute
    /\ Malformed \notin c.auth.github.organizations

ValidAuth(c) ==
    /\ c.auth.mode \in OidcModes => ValidOidc(c.auth)
    /\ c.auth.mode = "github_or_basic" => ValidGithub(c)
    /\ c.auth.mode # "github_or_basic" => c.auth.github = Absent
    /\ c.auth.mode = "disabled" => c.listen.loopback /\ c.env.insecureAuth
    /\ c.auth.mode \in BasicModes /\ c.mode = "static" => c.auth.basicUsers # <<>>
    /\ StringAllowlist([i \in DOMAIN c.auth.basicUsers |-> c.auth.basicUsers[i].name])
    /\ \A i \in DOMAIN c.auth.basicUsers : c.auth.basicUsers[i].file.absolute

ValidLimits(limits) ==
    /\ Within(limits.concurrency, 1, 256)
    /\ Within(limits.perSecond, 1, 10000)
    /\ Within(limits.burst, 1, 50000)

InsecureConnectorHttp(c) == LoopbackUrl(c.public) /\ c.env.insecureConnectors

\* validate_connector_auth and validate_openbao_mount_path: wellFormed stands
\* for identity, role, namespace and mount path of the method.
ValidConnectorAuth(auth) == auth.wellFormed /\ AbsolutePaths(auth.files)

ValidConnector(c, k) ==
    /\ PolicyName(k.name)
    /\ k.kind # "google" =>
          /\ BareUrl(k.url)
          /\ SecureUrl(k.url, InsecureConnectorHttp(c))
    /\ ValidConnectorAuth(k.auth)

ConnectorOf(c, p) == CHOOSE k \in c.connectors : k.name = p.connector
-----------------------------------------------------------------------------
(* Profiles                                                                *)

\* validate_openbao_secret_path: not empty between its slashes.
OpenBaoSecretPath(path) == path \notin {Malformed, "/"}

ValidSource(kind, p) ==
    CASE kind = "infisical" ->
            /\ p.environment # ""
            /\ p.dynamic = Absent => p.project # ""
            /\ p.path # Malformed
      [] kind = "openbao" -> OpenBaoSecretPath(p.path)
      [] kind = "google" ->
            /\ p.dynamic = Absent /\ p.exports # {}
            /\ p.project = "" /\ p.environment = "" /\ p.path = "/" /\ p.allowed = {}

ValidDynamic(kind, p) ==
    /\ Within(p.dynamic.ttl, 30, 86400)
    /\ p.exports # {}
    /\ kind = "infisical" =>
          /\ p.dynamic.name # "" /\ PolicyName(p.dynamic.name)
          /\ p.dynamic.slug # "" /\ PolicyName(p.dynamic.slug)
          /\ p.project = ""
    /\ kind = "openbao" => p.dynamic.name = "" /\ p.dynamic.slug = ""

\* The field an export reads; its own name unless it gives one.
FieldOf(e) == IF e.field = "" THEN e.name ELSE e.field

\* validate_environment_name, validate_backend_field_name and
\* valid_google_secret_resource
EnvironmentName(name) == name # Malformed
BackendField(field) == field # Malformed
GoogleResource(resource) == resource \notin {"", Malformed}

ValidExport(kind, p, e) ==
    /\ EnvironmentName(e.name)
    /\ IF kind = "google"
       THEN e.field = "" /\ GoogleResource(e.resource)
       ELSE e.resource = "" /\ p.allowed = {} /\ BackendField(FieldOf(e))

ValidProfile(c, p) ==
    /\ PolicyName(p.name)
    /\ \E k \in c.connectors : k.name = p.connector
    /\ LET kind == ConnectorOf(c, p).kind
       IN  /\ ValidSource(kind, p)
           /\ p.dynamic # Absent => ValidDynamic(kind, p)
           /\ \A e \in p.exports : ValidExport(kind, p, e)
-----------------------------------------------------------------------------
(* The transparent proxy, and the whole                                    *)

KnownProfile(c, name) == \E p \in c.profiles : p.name = name

\* validate_proxy_tunnel
ValidTunnel(t) ==
    /\ PolicyName(t.name) /\ Binding(t.profile)
    /\ CanonicalDnsHost(t.host) # Absent

\* validate_transparent_proxy
ValidTransparent(c, routes) ==
    LET t == c.transparent
    IN  /\ c.mode = "managed"
        /\ t.listen.ip /\ c.listen.ip
        /\ t.listen.port # 0 /\ t.listen # c.listen
        /\ t.url.scheme = "https" /\ t.url.host.kind # "ip" /\ t.url.port # Absent
        /\ BareUrl(t.url) /\ t.url.path = <<"/">>
        /\ AbsolutePaths(ToSet(t.files)) /\ ~Repeats(t.files)
        /\ Within(t.ttl, 5, 3600)
        /\ t.ttl <= t.maxLifetime /\ t.maxLifetime <= 86400
        /\ routes # {} \/ c.tunnels # {}
        /\ FromConfig(routes, c.tunnels) \notin {Absent, {}}

\* Config::validate, of a configuration whose operations are expanded
Validate(c, routes) ==
    /\ ValidPublicUrl(c.public)
    /\ ValidMode(c)
    /\ ValidAuth(c)
    /\ ValidLimits(c.limits)
    /\ \A k \in c.connectors : ValidConnector(c, k)
    /\ \A p \in c.profiles : ValidProfile(c, p)
    /\ \A r \in routes :
          /\ KnownProfile(c, r.profile)
          /\ ValidateProxyRoute(r, InsecureConnectorHttp(c), c.transparent # Absent)
    /\ \A t \in c.tunnels : KnownProfile(c, t.profile) /\ ValidTunnel(t)
    /\ c.transparent # Absent => ValidTransparent(c, routes)

\* Config::load, after parsing: the routes AV serves, or Absent.
Load(c) ==
    LET routes == ExpandedRoutes(c)
    IN  IF routes = Absent THEN Absent
        ELSE IF Validate(c, routes) THEN routes ELSE Absent
=============================================================================
