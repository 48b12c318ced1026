----------------------------- MODULE RoutePolicy -----------------------------
(***************************************************************************)
(* The request policy of crates/av-credential-proxy/src/policy.rs: which   *)
(* routes may be configured, which requests a route admits, and what is    *)
(* sent upstream in their place.                                           *)
(*                                                                         *)
(* A path is a sequence of characters, an escape such as "%2e" counting as *)
(* one.  A body and a secret are sequences of characters too.  Every other *)
(* text is a name; Malformed stands for any text that the character check  *)
(* of its field refuses, Absent for None and for the Err of a computed     *)
(* value.  Host names are the records of RouteCatalog.                     *)
(***************************************************************************)
EXTENDS WireValues, Integers, Sequences, SequencesExt, FiniteSets

Repeats(list) == ~IsInjective(list)

\* A number within its limits, both included.
Within(n, low, high) == n \in low..high
-----------------------------------------------------------------------------
(* Paths                                                                   *)

Escapes == {"%2e", "%2f", "%5c"}

\* The axum Path extractor of a named route decodes escapes; the URI path of
\* a tunnelled request is used as it is.
Decode(c) ==
    CASE c = "%2e" -> "." [] c = "%2f" -> "/" [] c = "%5c" -> "\\" [] OTHER -> c
Decoded(path) == [i \in DOMAIN path |-> Decode(path[i])]

\* str::split('/')
Split(path) ==
    FoldLeft(LAMBDA segments, c :
                 IF c = "/" THEN Append(segments, <<>>)
                 ELSE ReplaceAt(segments, Len(segments), Append(Last(segments), c)),
             <<<<>>>>, path)

\* trim_start_matches('/') and trim_end_matches('/')
TrimStart(path) ==
    LET first == SelectInSeq(path, LAMBDA c : c # "/")
    IN  IF first = 0 THEN <<>> ELSE SubSeq(path, first, Len(path))
TrimEnd(path) == Reverse(TrimStart(Reverse(path)))
Rooted(path) == <<"/">> \o TrimStart(path)

\* Mutation: the characters of the path are not looked at.
SafePathAnyCharacter(path) ==
    /\ path # <<>> /\ Head(path) = "/"
    /\ \A i \in 1..Len(path) - 1 : ~(path[i] = "/" /\ path[i + 1] = "/")
    /\ \A segment \in ToSet(Split(path)) : segment \notin {<<".">>, <<".", ".">>}

SafePolicyPath(path) ==
    /\ path # <<>> /\ Head(path) = "/"
    /\ \A i \in 1..Len(path) : path[i] \notin {"?", "#", "\\", "control"} \cup Escapes
    /\ \A i \in 1..Len(path) - 1 : ~(path[i] = "/" /\ path[i + 1] = "/")
    /\ \A segment \in ToSet(Split(path)) : segment \notin {<<".">>, <<".", ".">>}

PathMatchesPrefix(path, configured) ==
    LET prefix == Rooted(TrimEnd(configured))
    IN  \/ prefix = <<"/">>
        \/ path = prefix
        \/ IsPrefix(prefix \o <<"/">>, path)

\* The url crate: a backslash is a slash, dot segments are resolved whether
\* they are escaped or not, and a path never climbs above its root.
UrlPath(path) ==
    LET slashes == [i \in DOMAIN path |-> IF path[i] = "\\" THEN "/" ELSE path[i]]
        undot(segment) ==
            [i \in DOMAIN segment |-> IF segment[i] = "%2e" THEN "." ELSE segment[i]]
        resolve(kept, segment) ==
            CASE undot(segment) = <<".">>      -> kept
              [] undot(segment) = <<".", ".">> -> IF kept = <<>> THEN kept ELSE Front(kept)
              [] OTHER                         -> Append(kept, segment)
    IN  FoldLeft(resolve, <<>>, Tail(Split(slashes)))
-----------------------------------------------------------------------------
(* Header lists                                                            *)

Lowered == [h \in {"X-Key", "Accept", "Authorization"} |->
              CASE h = "X-Key" -> "x-key" [] h = "Accept" -> "accept"
                [] h = "Authorization" -> "authorization"]
Lower(h) == IF h \in DOMAIN Lowered THEN Lowered[h] ELSE h

ForbiddenX ==
    {"x-forwarded-for", "x-forwarded-host", "x-forwarded-port", "x-forwarded-proto",
     "x-http-method-override", "x-method-override", "x-original-url", "x-real-ip",
     "x-rewrite-url"}
Forbidden == ForbiddenX \cup
    {"authorization", "connection", "content-length", "cookie", "forwarded", "host",
     "location", "proxy-authenticate", "proxy-authorization", "set-cookie", "te",
     "trailer", "transfer-encoding", "upgrade", "user-agent", "www-authenticate"}

\* The names that start with "x-".
XHeaders == ForbiddenX \cup {"x-key", "x-trace"}

\* validate_proxy_header_allowlist; injected is Absent for responses.
HeaderAllowlist(list, injected) ==
    /\ ~Repeats(list)
    /\ \A i \in DOMAIN list :
          /\ list[i] # Malformed /\ list[i] = Lower(list[i])
          /\ list[i] \notin Forbidden
          /\ list[i] # Lower(injected)

\* validate_string_allowlist, the character check being Malformed.
StringAllowlist(list) == ~Repeats(list) /\ Malformed \notin ToSet(list)

\* validate_policy_name, validate_binding, validate_credential_key,
\* valid_body_placeholder, validate_websocket_origin: character checks.
PolicyName(name) == name # Malformed
Binding(profile) == profile # Malformed
CredentialKey(key) == key # Malformed
BodyPlaceholder(placeholder) == placeholder # Malformed
WebSocketOrigin(origin) == origin # Malformed
-----------------------------------------------------------------------------
(* Routes                                                                  *)

Methods == {"GET", "HEAD", "POST", "PUT", "PATCH", "DELETE"}

\* A route's injection is one of the three types, or "legacy".
InjectionHeader(route) ==
    IF route.injection.type \in {"bearer", "basic"}
    THEN "authorization" ELSE route.injection.header

\* build_target_url refuses the same URLs once more at run time.
BareUrl(url) == ~url.credentials /\ ~url.query /\ ~url.fragment
SecureUrl(url, insecureAllowed) ==
    url.scheme = "https" \/ (url.scheme = "http" /\ insecureAllowed)
StandardHttps(url) == url.scheme = "https" /\ url.port = 443

\* text is the prefix of a header, the user name of basic.
ValidInjection(route) ==
    LET i == route.injection
    IN  /\ i.type = "legacy" => i.key # "" /\ i.header # ""
        /\ i.type # "legacy" => ~i.mixed
        /\ i.type \in {"header", "basic"} => i.text # Malformed
        /\ i.type = "basic" => i.text # ""
        /\ CredentialKey(i.key)
        /\ Lower(InjectionHeader(route)) \in {"authorization"} \cup XHeaders

ValidWebSocket(route, transparent) ==
    LET w == route.websocket
    IN  /\ transparent /\ StandardHttps(route.url)
        /\ "GET" \in route.methods
        /\ w.origins # {} \/ w.missingOrigin
        /\ Cardinality(w.origins) <= 32 /\ \A o \in w.origins : WebSocketOrigin(o)
        /\ StringAllowlist(w.subprotocols) /\ Len(w.subprotocols) <= 16
        /\ Within(w.maxDuration, 1, 86400)
        /\ Within(w.maxMessage, 1, 16777216)
        /\ Within(w.maxTotal, 1, 1073741824)

\* Substitutions is the BTreeMap as the sequence it is iterated in.
ValidateProxyRoute(route, insecureAllowed, transparent) ==
    /\ PolicyName(route.name) /\ Binding(route.profile)
    /\ SecureUrl(route.url, insecureAllowed) /\ BareUrl(route.url)
    /\ route.methods # {} /\ route.exact \cup route.prefixes # {}
    /\ Within(route.maxBody, 1, 4194304)
    /\ Within(route.maxResponse, 1, 268435456)
    /\ route.methods \subseteq Methods
    /\ \A path \in route.exact \cup route.prefixes : SafePolicyPath(path)
    /\ ValidInjection(route)
    /\ HeaderAllowlist(route.requestHeaders, InjectionHeader(route))
    /\ HeaderAllowlist(route.responseHeaders, Absent)
    /\ StringAllowlist(route.query)
    /\ Len(route.substitutions) <= 16
    /\ route.substitutions # <<>> => route.contentTypes # <<>>
    /\ \A i \in DOMAIN route.substitutions :
          /\ BodyPlaceholder(route.substitutions[i].placeholder)
          /\ CredentialKey(route.substitutions[i].key)
    /\ StringAllowlist(route.contentTypes)
    /\ route.websocket # Absent => ValidWebSocket(route, transparent)
-----------------------------------------------------------------------------
(* Requests                                                                *)

\* headers maps the names present to the sequence of their values.
Values(headers, name) == IF name \in DOMAIN headers THEN headers[name] ELSE <<>>

ContentTypeAllowed(route, headers, body) ==
    LET values == Values(headers, "content-type")
    IN  body = <<>> \/ (Len(values) = 1 /\ Head(values) \in ToSet(route.contentTypes))

\* A query is a sequence of names; Malformed is a bad escape or a control.
QueryAllowed(route, query) ==
    StringAllowlist(query) /\ ToSet(query) \subseteq ToSet(route.query)

ValidateProxyRequest(route, path, request) ==
    LET normalized == Rooted(path)
    IN  /\ request.method \in route.methods
        /\ SafePolicyPath(normalized)
        /\ \/ normalized \in route.exact
           \/ \E prefix \in route.prefixes : PathMatchesPrefix(normalized, prefix)
        /\ Len(request.body) <= route.maxBody
        /\ ContentTypeAllowed(route, request.headers, request.body)
        /\ QueryAllowed(route, request.query)

\* The Host header of a tunnelled request against the route's base URL.
TunnelTargetAgrees(route, request) ==
    LET hosts == Values(request.headers, "host")
    IN  /\ request.originForm
        /\ Len(hosts) = 1
        /\ "proxy-authorization" \notin DOMAIN request.headers
        /\ StandardHttps(route.url)
        /\ Head(hosts).plain /\ Head(hosts).port = 443
        /\ Head(hosts).host = route.url.host

WebSocketHeaders ==
    {"upgrade", "sec-websocket-key", "sec-websocket-version",
     "sec-websocket-protocol", "sec-websocket-extensions"}

IsWebSocketAttempt(headers) ==
    \/ WebSocketHeaders \cap DOMAIN headers # {}
    \/ "upgrade" \in ToSet(Values(headers, "connection"))

\* A subprotocol header is one value, the sequence of its tokens.
Subprotocols(headers) ==
    LET values == Values(headers, "sec-websocket-protocol")
    IN  IF values = <<>> THEN <<>> ELSE Head(values)

ValidHandshake(headers, policy) ==
    LET origins == Values(headers, "origin")
    IN  /\ "upgrade" \in ToSet(Values(headers, "connection"))
        /\ Values(headers, "upgrade") = <<"websocket">>
        /\ Values(headers, "sec-websocket-version") = <<"13">>
        /\ "sec-websocket-extensions" \notin DOMAIN headers
        /\ Values(headers, "sec-websocket-key") = <<"key">>
        /\ Len(origins) <= 1
        /\ IF origins = <<>> THEN policy.missingOrigin ELSE Head(origins) \in policy.origins
        /\ Len(Values(headers, "sec-websocket-protocol")) <= 1
        /\ StringAllowlist(Subprotocols(headers))
        /\ ToSet(Subprotocols(headers)) \subseteq ToSet(policy.subprotocols)
-----------------------------------------------------------------------------
(* What is sent                                                            *)

\* A value AV must not return: a credential as such, "user:password", or the
\* whole value of the injected header.
Sensitive(form, key) == [form |-> form, key |-> key]

InjectedForm(route) == IF route.injection.type = "basic" THEN "pair" ELSE "plain"

\* build_proxy_injection: the credential, for basic also the pair, and the value.
InjectionSensitive(route) ==
    {Sensitive(form, route.injection.key) : form \in {"plain", InjectedForm(route), "value"}}

Occurrences(pattern, text) ==
    {i \in 1..Len(text) - Len(pattern) + 1 :
        SubSeq(text, i, i + Len(pattern) - 1) = pattern}

Substitute(text, i, pattern, secret) ==
    SubSeq(text, 1, i - 1) \o secret \o SubSeq(text, i + Len(pattern), Len(text))

ExactlyOnce(found) == Cardinality(found) = 1

\* apply_body_substitutions: Absent, or the substituted body.
ApplyBodySubstitutions(route, credentials, body) ==
    LET step(text, s) ==
            IF text = Absent \/ s.key \notin DOMAIN credentials THEN Absent
            ELSE LET found == Occurrences(s.placeholder, text)
                     result == Substitute(text, CHOOSE i \in found : TRUE,
                                          s.placeholder, credentials[s.key])
                 IN  IF ~ExactlyOnce(found) \/ Len(result) > route.maxBody
                     THEN Absent ELSE result
    IN  FoldLeft(step, body, route.substitutions)

SubstitutionKeys(route) ==
    {route.substitutions[i].key : i \in DOMAIN route.substitutions}

\* Mutation: the secrets of the body are not told to the redactor.
PreparedWithoutBody(route, websocket) == InjectionSensitive(route)

PreparedSensitive(route, websocket) ==
    InjectionSensitive(route)
        \cup {Sensitive("plain", k) : k \in IF websocket THEN {} ELSE SubstitutionKeys(route)}

\* prepare_outbound_headers: who supplied the value of each header sent.
OutboundHeaders(route, headers) ==
    [h \in (ToSet(route.requestHeaders) \cap DOMAIN headers)
              \cup {Lower(InjectionHeader(route))} |->
        IF h = Lower(InjectionHeader(route)) THEN "av" ELSE "caller"]

HandshakeHeaders ==
    {"origin", "sec-websocket-key", "sec-websocket-version", "sec-websocket-protocol"}

\* build_target_url
TargetPath(route, path) == UrlPath(TrimEnd(route.url.path) \o Rooted(path))
=============================================================================
