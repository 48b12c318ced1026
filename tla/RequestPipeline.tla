--------------------------- MODULE RequestPipeline ---------------------------
(***************************************************************************)
(* From a configuration file to the bytes AV sends upstream: the policy    *)
(* steps of main and of the request handlers of src/src/server.rs, over    *)
(* Configuration, RouteCatalog and RoutePolicy.                            *)
(*                                                                         *)
(* AV starts if Config::load accepts the file.  A caller then uses a named *)
(* route directly, or opens a tunnel with CONNECT and sends requests in    *)
(* it, one thing at a time.  Authentication, sessions and grants are in    *)
(* ProxySessions; here the caller holds a session for some profile.        *)
(***************************************************************************)
EXTENDS Configuration

CONSTANTS
    Configurations,     \* the configuration files to consider
    Connects,           \* CONNECT requests
    Resolutions(_),     \* sets of addresses a tunnel host may resolve to
    Requests(_),        \* requests to consider with a configuration
    Credentials         \* what the profile's connector returns, by key

\* Routes and operations come from maps keyed by their names.
ASSUME NamesAssumption ==
    \A c \in Configurations :
        /\ \A r, s \in c.routes : r.name = s.name => r = s
        /\ \A o, p \in c.operations : o.name = p.name => o = p

Octet == {n \in Nat : n < 256}
Segment == {n \in Nat : n < 65536}

\* An address is four octets or eight segments, and a header has a list of values.
ASSUME TrafficAssumption ==
    \A c \in Configurations :
        /\ \A addresses \in Resolutions(c) : \A a \in addresses :
              a \in [1..4 -> Octet] \cup [1..8 -> Segment]
        /\ \A request \in Requests(c) : \A h \in DOMAIN request.headers :
              request.headers[h] \in Seq(ToSet(request.headers[h]))

VARIABLES
    config,         \* the configuration file
    served,         \* the routes AV serves, Absent before and without a start
    pipeline,       \* "starting", "serving" or "exited"
    connection,     \* the catalog entry of the open CONNECT, or Absent
    outbound        \* the last thing sent upstream, or Absent

pipelineVars == <<config, served, pipeline, connection, outbound>>

PipelineInit ==
    /\ config \in Configurations
    /\ served = Absent /\ pipeline = "starting"
    /\ connection = Absent /\ outbound = Absent

Start ==
    /\ pipeline = "starting"
    /\ served' = Load(config)
    /\ pipeline' = IF served' = Absent THEN "exited" ELSE "serving"
    /\ UNCHANGED <<config, connection, outbound>>
-----------------------------------------------------------------------------
\* connect_credentialless_upstream: one denied address refuses them all.
MayDial(addresses, private) ==
    /\ Cardinality(addresses) \in 1..16
    /\ \A a \in addresses : TunnelIpAllowed(a, private)

Dialled(entry, address) ==
    [kind |-> "tunnel", entry |-> entry, address |-> address]

\* transparent_connect_response
Connect(c, addresses) ==
    /\ pipeline = "serving" /\ config.transparent # Absent
    /\ connection = Absent /\ outbound = Absent
    /\ LET chosen == {e \in AuthorizeConnect(FromConfig(served, config.tunnels), c) :
                         c.contentLength = 0 /\ c.sessionProfile = e.profile}
           open == {e \in chosen : e.kind = "tunnel" => MayDial(addresses, e.private)}
       IN  IF open = {} THEN connection' = Absent /\ outbound' = Absent
           ELSE \E e \in open :
                   /\ connection' = e
                   /\ IF e.kind = "tunnel"
                      THEN \E a \in addresses : outbound' = Dialled(e, a)
                      ELSE outbound' = Absent
    /\ UNCHANGED <<config, served, pipeline>>

Upstream(route, path, request, websocket, body) ==
    [kind |-> "request", route |-> route, request |-> request,
     path |-> TargetPath(route, path), query |-> request.query,
     headers |-> OutboundHeaders(route, request.headers),
     handshake |-> IF websocket THEN HandshakeHeaders \cap DOMAIN request.headers ELSE {},
     body |-> body, sensitive |-> PreparedSensitive(route, websocket),
     websocket |-> websocket]

\* proxy_request and proxy_websocket_request up to the upstream call.
Send(route, path, request, websocket) ==
    LET body == IF websocket THEN <<>>
                ELSE ApplyBodySubstitutions(route, Credentials, request.body)
    IN  IF route.injection.key \notin DOMAIN Credentials \/ body = Absent
        THEN Absent ELSE Upstream(route, path, request, websocket, body)

WebSocketAdmitted(route, request) ==
    /\ route.websocket # Absent
    /\ ValidHandshake(request.headers, route.websocket)
    /\ request.body = <<>>

\* transparent_tunnel_response
TunnelRequest(request) ==
    /\ connection # Absent /\ connection.kind = "injecting" /\ outbound = Absent
    /\ LET route == CHOOSE r \in served : r.name = connection.name
           websocket == IsWebSocketAttempt(request.headers)
       IN  outbound' =
             IF /\ websocket => WebSocketAdmitted(route, request)
                /\ TunnelTargetAgrees(route, request)
                /\ ValidateProxyRequest(route, request.path, request)
                /\ websocket => request.method = "GET"
             THEN Send(route, request.path, request, websocket) ELSE Absent
    /\ UNCHANGED <<config, served, pipeline, connection>>

\* is_trusted_browser_origin; the public URL is "public_url".
TrustedOrigin(headers) ==
    /\ Values(headers, "origin") \in {<<>>, <<"public_url">>}
    /\ Values(headers, "sec-fetch-site") \in {<<>>, <<"same-origin">>, <<"none">>}

\* proxy: the path of a named route arrives decoded.
NamedRequest(route, request) ==
    /\ pipeline = "serving" /\ connection = Absent /\ outbound = Absent
    /\ outbound' =
         IF /\ ~IsWebSocketAttempt(request.headers)
            /\ TrustedOrigin(request.headers)
            /\ ValidateProxyRequest(route, Decoded(request.path), request)
         THEN Send(route, Decoded(request.path), request, FALSE) ELSE Absent
    /\ UNCHANGED <<config, served, pipeline, connection>>

\* The response of a request, or the end of the connection of a tunnel.
Answered ==
    /\ outbound # Absent
    /\ outbound' = Absent
    /\ connection' = IF outbound.kind = "tunnel" THEN Absent ELSE connection
    /\ UNCHANGED <<config, served, pipeline>>

PipelineNext ==
    \/ Start
    \/ \E c \in Connects, addresses \in Resolutions(config) : Connect(c, addresses)
    \/ \E request \in Requests(config) : TunnelRequest(request)
    \/ /\ pipeline = "serving"
       /\ \E request \in Requests(config), route \in served : NamedRequest(route, request)
    \/ Answered

PipelineSpec == PipelineInit /\ [][PipelineNext]_pipelineVars
-----------------------------------------------------------------------------
(* Properties                                                              *)

Sent == outbound # Absent /\ outbound.kind = "request"

\* The path a request carries upstream stays within its route:
\* after the URL library has resolved the path it is still an allowed one
\* below the base path, segment by segment, for every spelling of the
\* caller's path (validate_proxy_request, build_target_url).
PathWithinPolicy ==
    Sent =>
        LET base == UrlPath(TrimEnd(outbound.route.url.path) \o <<"/">>)
            below(p) == Front(base) \o UrlPath(p)
            trimmed(p) == IF Last(UrlPath(p)) = <<>> THEN Front(below(p)) ELSE below(p)
        IN  \/ \E p \in outbound.route.exact : outbound.path = below(p)
            \/ \E p \in outbound.route.prefixes : IsPrefix(trimmed(p), outbound.path)

\* A caller supplies none of the headers that route, authenticate or frame a
\* request, nor the header AV injects (prepare_outbound_headers).
CallerHeadersHarmless ==
    Sent =>
        /\ outbound.headers[Lower(InjectionHeader(outbound.route))] = "av"
        /\ \A h \in DOMAIN outbound.headers :
              outbound.headers[h] = "caller" =>
                  h \in ToSet(outbound.route.requestHeaders) \ Forbidden

\* Every credential placed in a request, as a header or in the body, is
\* redacted from its response (prepare_credentials).
InjectedIsRedacted ==
    Sent =>
        /\ Sensitive(InjectedForm(outbound.route), outbound.route.injection.key)
              \in outbound.sensitive
        /\ \A k \in DOMAIN Credentials :
              Occurrences(Credentials[k], outbound.body)
                  # Occurrences(Credentials[k], outbound.request.body)
              => Sensitive("plain", k) \in outbound.sensitive

\* A substituted body holds every secret and no placeholder of its route, and
\* is no longer than the route allows (apply_body_substitutions).
BodySubstituted ==
    (Sent /\ ~outbound.websocket) =>
        /\ Len(outbound.body) <= outbound.route.maxBody
        /\ \A i \in DOMAIN outbound.route.substitutions :
              LET s == outbound.route.substitutions[i]
              IN  /\ Occurrences(s.placeholder, outbound.body) = {}
                  /\ Occurrences(Credentials[s.key], outbound.body) # {}

\* What is sent in a tunnel goes to the host of the CONNECT that opened it,
\* whichever Host header the inner request names, and no host has two
\* destinations (enforce_transparent_tunnel_target, from_config).
TunnelKeepsItsHost ==
    connection # Absent =>
        /\ \A e \in FromConfig(served, config.tunnels) :
              e.host[1] = connection.host[1] => e = connection
        /\ Sent =>
              /\ outbound.route.url.host.name = connection.host[1]
              /\ Head(outbound.request.headers["host"]).host.name = connection.host[1]

\* A WebSocket upgrade reaches an upstream only in a tunnel, for a route that
\* allows its origin, and such a route is in the catalog (WebSocket policy).
UpgradesOnlyWhereAllowed ==
    /\ (Sent /\ outbound.websocket) =>
          /\ connection # Absent /\ outbound.route.websocket # Absent
          /\ outbound.request.method = "GET" /\ outbound.request.body = <<>>
          /\ \A o \in ToSet(Values(outbound.request.headers, "origin")) :
                o \in outbound.route.websocket.origins
    /\ pipeline = "serving" =>
          \A r \in served : r.websocket # Absent =>
              \E e \in FromConfig(served, config.tunnels) : e.name = r.name

(* What AV sends upstream is within the policy of the route it is sent     *)
(* for, whatever the caller wrote: path, headers, body and upgrade.        *)
SentWithinPolicy ==
    /\ PathWithinPolicy /\ CallerHeadersHarmless
    /\ BodySubstituted /\ UpgradesOnlyWhereAllowed

\* The first three octets as a number: special ranges end on such boundaries.
Prefix24(ip) == (ip[1] * 256 + ip[2]) * 256 + ip[3]
SpecialBounds == {
    <<<<0, 0, 0>>, <<0, 255, 255>>>>,           <<<<127, 0, 0>>, <<127, 255, 255>>>>,
    <<<<169, 254, 0>>, <<169, 254, 255>>>>,     <<<<224, 0, 0>>, <<255, 255, 255>>>>,
    <<<<192, 0, 0>>, <<192, 0, 0>>>>,           <<<<192, 0, 2>>, <<192, 0, 2>>>>,
    <<<<198, 51, 100>>, <<198, 51, 100>>>>,     <<<<203, 0, 113>>, <<203, 0, 113>>>>}
InternalBounds == {
    <<<<10, 0, 0>>, <<10, 255, 255>>>>,         <<<<172, 16, 0>>, <<172, 31, 255>>>>,
    <<<<192, 168, 0>>, <<192, 168, 255>>>>,     <<<<100, 64, 0>>, <<100, 127, 255>>>>,
    <<<<198, 18, 0>>, <<198, 19, 255>>>>}
Special24 == {<<Prefix24(r[1]), Prefix24(r[2])>> : r \in SpecialBounds}
Internal24 == {<<Prefix24(r[1]), Prefix24(r[2])>> : r \in InternalBounds}

\* The octets of an IPv4 address, also of one mapped into IPv6.
Four(ip) == IF Len(ip) = 4 THEN ip ELSE IF IsMapped(ip) THEN Octets(ip) ELSE <<>>

PermittedFour(four, private) ==
    LET inside(ranges) == \E r \in ranges : Prefix24(four) \in r[1]..r[2]
    IN  ~inside(Special24) /\ (private \/ ~inside(Internal24))

\* Native IPv6 by the first segment: what is below and above 2000::/3 (the
\* unspecified and the loopback address, link-local and multicast among it) but
\* not unique-local, and 6to4.  By the first two: Teredo and documentation.
SpecialFirst == {<<0, 8191>>, <<8194, 8194>>, <<16384, 64511>>, <<65024, 65535>>}
SpecialPairs == {<<8193, 0>>, <<8193, 3512>>}
UniqueLocal == 64512..65023

PermittedNative(ip, private) ==
    /\ ~\E r \in SpecialFirst : ip[1] \in r[1]..r[2]
    /\ <<ip[1], ip[2]>> \notin SpecialPairs
    /\ private \/ ip[1] \notin UniqueLocal

PermittedAddress(ip, private) ==
    IF Four(ip) = <<>> THEN PermittedNative(ip, private) ELSE PermittedFour(Four(ip), private)

\* A credentialless tunnel is dialled only to an address outside the special
\* ranges of the comment on tunnel_ip_allowed, and outside the internal ones
\* unless its tunnel opts in: for IPv4, for IPv4 mapped into IPv6, and for
\* native IPv6.
TunnelAddressesPermitted ==
    (outbound # Absent /\ outbound.kind = "tunnel") =>
        PermittedAddress(outbound.address, outbound.entry.private)

(* A CONNECT ends up at the configured destination: inspected traffic at   *)
(* the host the tunnel was opened for, credentialless traffic at an        *)
(* address that its tunnel permits.                                        *)
TunnelsWhereConfigured == TunnelKeepsItsHost /\ TunnelAddressesPermitted
=============================================================================
