-------------------------- MODULE MC_RequestPipeline --------------------------
(* A working configuration and request, and every configuration and request  *)
(* that is at most two, respectively one, edits away from them.              *)
EXTENDS RequestPipeline

Host(n, dots) == [name |-> n, dots |-> dots, kind |-> "domain", loopback |-> FALSE]
Localhost == [name |-> "localhost", dots |-> 0, kind |-> "ip", loopback |-> TRUE]
Address == [name |-> "address", dots |-> 0, kind |-> "ip", loopback |-> FALSE]
Url(scheme, host, port, path) ==
    [scheme |-> scheme, host |-> host, port |-> port, path |-> path,
     credentials |-> FALSE, query |-> FALSE, fragment |-> FALSE]
File(n) == [path |-> n, absolute |-> TRUE]
Relative == [path |-> "r", absolute |-> FALSE]

\* The record r with one of the values in one of its fields.
Edit(r, field, values) == {[r EXCEPT ![field] = v] : v \in values}

WebSocket ==
    [origins |-> {"app"}, missingOrigin |-> FALSE, subprotocols |-> <<"p">>,
     maxDuration |-> 300, maxMessage |-> 1024, maxTotal |-> 4096]
PlaceholderA == <<"<", "A", "_", "_">>
PlaceholderB == <<"<", "A", "_", "_", "B", "_", "_">>
Inject(type, key, header, text, mixed) ==
    [type |-> type, key |-> key, header |-> header, text |-> text, mixed |-> mixed]

Route ==
    [name |-> "r", profile |-> "p", url |-> Url("https", Host("api", 0), 443, <<"/", "b", "/">>),
     methods |-> {"GET", "POST"}, exact |-> {<<"/", "b">>}, prefixes |-> {<<"/", "a">>},
     maxBody |-> 9, maxResponse |-> 100,
     injection |-> Inject("header", "K", "X-Key", "", FALSE),
     requestHeaders |-> <<"accept", "content-type">>, responseHeaders |-> <<"etag">>,
     query |-> <<"q">>, substitutions |-> <<[placeholder |-> PlaceholderA, key |-> "S"]>>,
     contentTypes |-> <<"json">>, websocket |-> WebSocket]

RouteEdits(r) ==
    {r} \cup Edit(r, "name", {Malformed}) \cup Edit(r, "profile", {Malformed, "unknown"})
    \cup Edit(r, "url", {Url("http", Host("api", 0), 443, <<"/">>), Url("https", Host("api", 1), 443, <<"/">>),
                      Url("https", Host("api", 0), 8443, <<"/">>), Url("https", Address, 443, <<"/">>),
                      [Url("https", Host("api", 0), 443, <<"/">>) EXCEPT !.query = TRUE]})
    \cup Edit(r, "methods", {{}, {"POST"}, {"GET", "CONNECT"}})
    \cup Edit(r, "exact", {{}, {<<"/", "a", "/", ".", ".">>}})
    \cup Edit(r, "prefixes", {{}, {<<"/">>}, {<<"/", "a", "/">>}, {<<"/", "a", "%2e">>}})
    \cup Edit(r, "maxBody", {0, 3, 4194305}) \cup Edit(r, "maxResponse", {0, 268435457})
    \cup Edit(r, "injection", {Inject("legacy", "K", "Authorization", "", FALSE),
                            Inject("legacy", "", "X-Key", "", FALSE),
                            Inject("bearer", "K", "", "", FALSE), Inject("bearer", "K", "", "", TRUE),
                            Inject("basic", "K", "", "u", FALSE), Inject("basic", "K", "", "", FALSE),
                            Inject("header", "K", "cookie", "", FALSE),
                            Inject("header", "missing", "x-key", "", FALSE),
                            Inject("header", Malformed, "x-key", "", FALSE)})
    \cup Edit(r, "requestHeaders", {<<"accept", "x-key">>, <<"accept", "accept">>, <<"Accept">>,
                                 <<"host">>, <<Malformed>>, <<"content-type", "x-trace">>})
    \cup Edit(r, "responseHeaders", {<<"set-cookie">>, <<"etag", "etag">>})
    \cup Edit(r, "query", {<<>>, <<"q", "q">>, <<Malformed>>})
    \cup Edit(r, "substitutions", {<<>>, <<[placeholder |-> Malformed, key |-> "S"]>>,
                                <<[placeholder |-> PlaceholderA, key |-> "S"],
                                  [placeholder |-> PlaceholderB, key |-> "T"]>>})
    \cup Edit(r, "contentTypes", {<<>>, <<Malformed>>})
    \cup Edit(r, "websocket", {Absent, [WebSocket EXCEPT !.missingOrigin = TRUE, !.origins = {}],
                            [WebSocket EXCEPT !.origins = {}], [WebSocket EXCEPT !.subprotocols = <<Malformed>>],
                            [WebSocket EXCEPT !.maxDuration = 86401]})

Tunnel(n, host, private) == [name |-> n, profile |-> "p", host |-> host, private |-> private]
Connector(n, kind) ==
    [name |-> n, kind |-> kind, url |-> Url("https", Host("bao", 0), 443, <<"/">>),
     auth |-> [wellFormed |-> TRUE, files |-> {File("t")}]]
Dynamic == [ttl |-> 30, name |-> "", slug |-> ""]
Export == [name |-> "K", field |-> "", resource |-> ""]
Profile ==
    [name |-> "p", connector |-> "k", project |-> "", environment |-> "", path |-> "db/role",
     dynamic |-> Dynamic, exports |-> {Export}, allowed |-> {}]
Managed ==
    [urlFile |-> Absent, credentialsFile |-> File("c"), postgres |-> "valid", reload |-> 30,
     initialOwner |-> "o"]
Auth ==
    [mode |-> "oidc", issuer |-> Url("https", Host("idp", 0), 443, <<"/">>), groups |-> {"g"},
     algorithms |-> {"RS256"}, github |-> Absent, basicUsers |-> <<>>]
Transparent ==
    [listen |-> [ip |-> TRUE, port |-> 2, loopback |-> FALSE],
     url |-> Url("https", Host("proxy", 0), 8443, <<"/">>),
     files |-> <<File("1"), File("2"), File("3"), File("4")>>, ttl |-> 300, maxLifetime |-> 28800]
Github == [users |-> {1}, organizations |-> {}, secretFile |-> File("g")]

Config ==
    [public |-> Url("https", Host("av", 0), 443, <<"/">>), mode |-> "managed", managed |-> Managed,
     auth |-> Auth, limits |-> [concurrency |-> 16, perSecond |-> 50, burst |-> 100],
     listen |-> [ip |-> TRUE, port |-> 1, loopback |-> FALSE],
     env |-> [insecureAuth |-> FALSE, insecureConnectors |-> FALSE],
     connectors |-> {Connector("k", "openbao")}, profiles |-> {Profile}, operations |-> {},
     routes |-> {Route}, tunnels |-> {Tunnel("t", Host("pkg", 0), FALSE)},
     transparent |-> Transparent]

ConfigEdits(r) ==
    {r} \cup Edit(r, "public", {Url("http", Localhost, 80, <<"/">>), Url("http", Host("av", 0), 80, <<"/">>),
                    Url("https", Host("av", 0), 443, <<"/", "x">>)})
    \cup Edit(r, "mode", {"static"})
    \cup Edit(r, "managed", {Absent, [Managed EXCEPT !.urlFile = File("u")], [Managed EXCEPT !.postgres = Absent],
                          [Managed EXCEPT !.credentialsFile = Absent, !.urlFile = File("u"), !.postgres = Absent],
                          [Managed EXCEPT !.credentialsFile = Relative], [Managed EXCEPT !.reload = 3601],
                          [Managed EXCEPT !.credentialsFile = Absent, !.urlFile = File("u"), !.postgres = Absent,
                                          !.reload = 0],
                          [Managed EXCEPT !.initialOwner = ""], [Managed EXCEPT !.postgres = Malformed]})
    \cup Edit(r, "auth", {[Auth EXCEPT !.mode = "disabled"], [Auth EXCEPT !.mode = "basic"],
                       [Auth EXCEPT !.issuer = Absent], [Auth EXCEPT !.groups = {}],
                       [Auth EXCEPT !.issuer = Url("http", Host("idp", 0), 80, <<"/">>)],
                       [Auth EXCEPT !.issuer = Url("http", Localhost, 80, <<"/">>)],
                       [Auth EXCEPT !.algorithms = {}], [Auth EXCEPT !.mode = "github_or_basic", !.github = Github],
                       [Auth EXCEPT !.github = Github], [Auth EXCEPT !.mode = "github_or_basic"],
                       [Auth EXCEPT !.mode = "oidc_or_basic",
                                    !.basicUsers = <<[name |-> "u", file |-> File("h")], [name |-> "u", file |-> File("h")]>>]})
    \cup Edit(r, "limits", {[concurrency |-> 257, perSecond |-> 50, burst |-> 100],
                         [concurrency |-> 16, perSecond |-> 0, burst |-> 100],
                         [concurrency |-> 16, perSecond |-> 50, burst |-> 0]})
    \cup Edit(r, "listen", {[ip |-> TRUE, port |-> 1, loopback |-> TRUE], [ip |-> FALSE, port |-> 1, loopback |-> TRUE],
                         [ip |-> TRUE, port |-> 2, loopback |-> FALSE]})
    \cup Edit(r, "env", {[insecureAuth |-> TRUE, insecureConnectors |-> TRUE]})
    \cup Edit(r, "connectors", {{}, {Connector("k", "google")}, {Connector("k", "infisical")}, {Connector(Malformed, "openbao")},
                             {[Connector("k", "openbao") EXCEPT !.url = Url("http", Host("bao", 0), 80, <<"/">>)]},
                             {[Connector("k", "openbao") EXCEPT !.auth = [wellFormed |-> TRUE, files |-> {Relative}]]}})
    \cup Edit(r, "profiles", {{}, {[Profile EXCEPT !.dynamic = Absent]}, {[Profile EXCEPT !.path = "/"]},
                           {[Profile EXCEPT !.dynamic = [ttl |-> 29, name |-> "", slug |-> ""]]},
                           {[Profile EXCEPT !.dynamic = [ttl |-> 30, name |-> "n", slug |-> "s"]]},
                           {[Profile EXCEPT !.dynamic = [ttl |-> 30, name |-> "n", slug |-> "s"], !.environment = "e"]},
                           {[Profile EXCEPT !.environment = "e", !.dynamic = Absent, !.project = "j"]},
                           {[Profile EXCEPT !.path = "/", !.exports = {[Export EXCEPT !.resource = "x"]}]},
                           {[Profile EXCEPT !.path = "/", !.dynamic = Absent, !.exports = {[Export EXCEPT !.resource = "x"]}]},
                           {[Profile EXCEPT !.exports = {}]}, {[Profile EXCEPT !.allowed = {"K"}]}})
    \cup Edit(r, "operations", {{[name |-> "v", profile |-> "p", key |-> "K", account |-> "hex"]},
                             {[name |-> "r", profile |-> "p", key |-> "K", account |-> "hex"]},
                             {[name |-> "v", profile |-> "p", key |-> "K", account |-> Malformed]}})
    \cup Edit(r, "tunnels", {{}, {Tunnel("t", Host("pkg", 0), TRUE)}, {Tunnel("t", Address, FALSE)},
                          {Tunnel("t", Host("api", 1), FALSE)}, {Tunnel("t", Host("cloudflare", 0), FALSE)},
                          {Tunnel("t", Host("pkg", 0), FALSE), Tunnel("u", Host("pkg", 1), FALSE)}})
    \cup Edit(r, "transparent", {Absent, [Transparent EXCEPT !.ttl = 4], [Transparent EXCEPT !.maxLifetime = 299],
                              [Transparent EXCEPT !.files = <<File("1"), File("1"), File("3"), File("4")>>],
                              [Transparent EXCEPT !.url = Url("https", Address, 8443, <<"/">>)]})

RouteConfigs == {[Config EXCEPT !.routes = {r}] : r \in UNION {RouteEdits(q) : q \in RouteEdits(Route)}}
PathRoutes ==
    {[Route EXCEPT !.prefixes = p, !.url.path = b] :
        p \in {{<<"/", "a">>}, {<<"/", "a", "/">>}, {<<"/">>}, {<<"/", "a", "/", "b">>}},
        b \in {<<"/">>, <<"/", "b">>}}
PathConfigs == {[Config EXCEPT !.routes = {r}] : r \in PathRoutes}
ConfigConfigs == UNION {ConfigEdits(q) : q \in ConfigEdits(Config)}
MC_Configurations == ConfigConfigs \cup RouteConfigs \cup PathConfigs

Authority(host) == [host |-> host, port |-> 443, plain |-> TRUE]
ConnectTo(host) ==
    [method |-> "CONNECT", authority |-> Authority(host), hosts |-> <<Authority(host)>>,
     bearers |-> 1, contentLength |-> 0, sessionProfile |-> "p"]
ConnectEdits(r) ==
    {r} \cup Edit(r, "method", {"GET"}) \cup Edit(r, "bearers", {0, 2}) \cup Edit(r, "sessionProfile", {"q"})
    \cup Edit(r, "hosts", {<<>>, <<Authority(Host("pkg", 0))>>, <<Authority(Host("api", 1))>>})
    \cup Edit(r, "contentLength", {1})
    \cup Edit(r, "authority", {Authority(Address), [Authority(Host("api", 0)) EXCEPT !.port = 80],
                               Authority(Host("pkg", 0)), Authority(Host("api", 2))})
MC_Connects ==
    ConnectEdits(ConnectTo(Host("api", 0)))
    \cup {ConnectTo(Host("pkg", 0)), ConnectTo(Host("api", 1)), ConnectTo(Host("cloudflare", 0))}
Mapped(a, b) == <<0, 0, 0, 0, 0, 65535, a, b>>
AllResolutions ==
    {{}, {<<8, 8, 8, 8>>}, {<<8, 8, 8, 8>>, <<10, 0, 0, 1>>}}
    \cup {{<<a, b, c, 1>>} : a \in {0, 10, 11, 100, 127, 169, 172, 192, 198, 203, 223, 224, 255},
                             b \in {0, 15, 16, 17, 18, 19, 20, 31, 32, 51, 63, 64, 127, 128, 168, 254},
                             c \in {0, 1, 2, 100, 113}}
    \cup {{Mapped(a, 1)} : a \in {2570, 43518, 32513, 2056}}
    \cup {{<<a, b, 0, 0, 0, 0, 0, 1>>} : a \in
            {0, 8191, 8192, 8193, 8194, 8195, 16383, 16384, 64511, 64512, 65023, 65024, 65152, 65215,
             65216, 65280}, b \in {0, 1, 3512}}
MC_Resolutions(c) ==
    IF c \in Edit(Config, "tunnels", {{Tunnel("t", Host("pkg", 0), p)} : p \in BOOLEAN})
    THEN AllResolutions ELSE {{<<8, 8, 8, 8>>}}

Characters == {"/", "a", "b", ".", "\\", "%2e", "%2f"}
HttpHeaders(host) == [h \in {"host", "content-type", "accept"} |->
    CASE h = "host" -> <<Authority(host)>> [] h = "content-type" -> <<"json">> [] OTHER -> <<"*">>]
PlainRequest ==
    [method |-> "POST", path |-> <<"/", "a", "/", "b">>, query |-> <<"q">>, originForm |-> TRUE,
     headers |-> HttpHeaders(Host("api", 0)), body |-> PlaceholderA]
Handshake ==
    [h \in {"host", "connection", "upgrade", "sec-websocket-version", "sec-websocket-key", "origin",
            "sec-websocket-protocol"} |->
        CASE h = "host" -> <<Authority(Host("api", 0))>> [] h = "connection" -> <<"upgrade">>
          [] h = "upgrade" -> <<"websocket">> [] h = "sec-websocket-version" -> <<"13">>
          [] h = "sec-websocket-key" -> <<"key">> [] h = "origin" -> <<"app">> [] OTHER -> <<<<"p">>>>]
Upgrade == [PlainRequest EXCEPT !.method = "GET", !.body = <<>>, !.headers = Handshake]
With(headers, name, values) == [h \in DOMAIN headers \cup {name} |-> IF h = name THEN values ELSE headers[h]]
Without(headers, name) == [h \in DOMAIN headers \ {name} |-> headers[h]]

Tokens == {PlaceholderA, PlaceholderB, <<"x">>, <<"B", "_", "_">>}
Bodies == {FlattenSeq(t) : t \in UNION {[1..n -> Tokens] : n \in 0..2}}
HttpEdits(r) ==
    {r} \cup Edit(r, "method", {"GET", "PUT"}) \cup Edit(r, "query", {<<>>, <<"q", "q">>, <<"z">>, <<Malformed>>})
    \cup Edit(r, "originForm", {FALSE}) \cup Edit(r, "body", Bodies)
    \cup Edit(r, "headers",
            {With(r.headers, h, <<"v">>) : h \in {"x-key", "authorization", "cookie", "x-trace",
                    "proxy-authorization", "origin"}}
            \cup {With(r.headers, "host", v) : v \in {<<Authority(Host("pkg", 0))>>,
                    <<Authority(Host("api", 1))>>, <<[Authority(Host("api", 0)) EXCEPT !.port = 80]>>}}
            \cup {With(r.headers, "content-type", v) : v \in {<<"json", "json">>, <<"text">>}}
            \cup {Without(r.headers, h) : h \in DOMAIN r.headers}
            \cup {HttpHeaders(Host("cloudflare", 0)), With(r.headers, "connection", <<"upgrade">>),
                  With(r.headers, "sec-fetch-site", <<"cross-site">>)})
UpgradeEdits(r) ==
    {r} \cup Edit(r, "method", {"POST"}) \cup Edit(r, "body", {<<"x">>})
    \cup Edit(r, "headers", {Without(Handshake, h) : h \in DOMAIN Handshake}
            \cup {With(Handshake, "origin", <<"other">>), With(Handshake, "origin", <<"app", "app">>),
                  With(Handshake, "sec-websocket-extensions", <<"x">>),
                  With(Handshake, "sec-websocket-protocol", <<<<"z">>>>)})
FieldRequests == HttpEdits(PlainRequest) \cup UpgradeEdits(Upgrade)
PathRequests ==
    {[PlainRequest EXCEPT !.path = <<"/">> \o p] : p \in UNION {[1..n -> Characters] : n \in 0..4}}
MC_Requests(c) == IF c \in PathConfigs THEN PathRequests ELSE FieldRequests
MC_Credentials == [k \in {"K", "S", "T"} |-> CASE k = "K" -> <<"k", "k">> [] k = "S" -> <<"s", "s">> [] OTHER -> <<"t">>]
=============================================================================
