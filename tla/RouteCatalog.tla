---------------------------- MODULE RouteCatalog ----------------------------
(***************************************************************************)
(* crates/av-credential-proxy/src/catalog.rs: from a CONNECT authority to  *)
(* the one configured destination, and which resolved addresses a tunnel   *)
(* may use.                                                                *)
(*                                                                         *)
(* A host is [name, dots, kind, loopback]: a name (letter case is folded   *)
(* by every comparison and left out), its trailing dots, whether it parses *)
(* as a domain, an IP literal or neither, and whether it is this machine.  *)
(* A catalog is a set of entries [host, kind, name, profile, private].     *)
(***************************************************************************)
EXTENDS RoutePolicy

\* canonical_dns_host: one trailing dot is dropped, IP literals are refused.
CanonicalDnsHost(host) ==
    IF host.dots >= 2 \/ host.kind # "domain" THEN Absent
    ELSE <<host.name, 0>>

\* An authority is [host, port, plain]; plain is FALSE when it carries a user,
\* a path or white space.
CanonicalConnectAuthority(authority) ==
    IF authority.plain /\ authority.port = 443
    THEN CanonicalDnsHost(authority.host) ELSE Absent

RouteEntry(route) ==
    [host |-> CanonicalDnsHost(route.url.host), kind |-> "injecting",
     name |-> route.name, profile |-> route.profile, private |-> FALSE]
TunnelEntry(tunnel) ==
    [host |-> CanonicalDnsHost(tunnel.host), kind |-> "tunnel",
     name |-> tunnel.name, profile |-> tunnel.profile, private |-> tunnel.private]

\* Routes on other origins are left out of the catalog.
Destinations(routes, tunnels) ==
    {RouteEntry(r) : r \in {r \in routes : StandardHttps(r.url)}}
        \cup {TunnelEntry(t) : t \in tunnels}

\* Mutation: two destinations may share a host.
FromConfigSharesHosts(routes, tunnels) ==
    LET entries == Destinations(routes, tunnels)
    IN  IF \E e \in entries : e.host = Absent THEN Absent ELSE entries

\* TransparentRouteCatalog::from_config: Absent is its error.
FromConfig(routes, tunnels) ==
    LET entries == Destinations(routes, tunnels)
    IN  IF \/ \E e \in entries : e.host = Absent
           \/ \E e, f \in entries : e # f /\ e.host = f.host
        THEN Absent ELSE entries

\* authorize_connect_request: the entries it may select (one, or none).
AuthorizeConnect(catalog, connect) ==
    {e \in catalog :
        /\ connect.method = "CONNECT"
        /\ Len(connect.hosts) = 1
        /\ e.host = CanonicalConnectAuthority(connect.authority)
        /\ e.host = CanonicalConnectAuthority(Head(connect.hosts))
        /\ connect.bearers = 1}
-----------------------------------------------------------------------------
(* tunnel_ip_allowed: an address is its octets or its segments.            *)

\* ipv4_in_prefix for prefixes that end inside the second octet, or at 24.
InPrefix(ip, first, low, high) == ip[1] = first /\ ip[2] \in low..high

AlwaysDenied4(ip) ==
    \/ ip[1] = 0 \/ ip[1] = 127                             \* this network, loopback
    \/ InPrefix(ip, 169, 254, 254)                          \* link-local
    \/ ip[1] >= 224                                         \* multicast and above
    \/ ip[1] = 192 /\ ip[2] = 0 /\ ip[3] \in {0, 2}         \* IETF, documentation
    \/ ip[1] = 198 /\ ip[2] = 51 /\ ip[3] = 100
    \/ ip[1] = 203 /\ ip[2] = 0 /\ ip[3] = 113

Private4(ip) ==
    \/ ip[1] = 10
    \/ InPrefix(ip, 172, 16, 31)
    \/ InPrefix(ip, 192, 168, 168)
    \/ InPrefix(ip, 100, 64, 127)
    \/ InPrefix(ip, 198, 18, 19)

Allowed4(ip, private) == ~AlwaysDenied4(ip) /\ (private \/ ~Private4(ip))

IsMapped(ip) == ip[6] = 65535 /\ \A i \in 1..5 : ip[i] = 0
Octets(ip) == <<ip[7] \div 256, ip[7] % 256, ip[8] \div 256, ip[8] % 256>>

Scoped6(ip) ==
    \/ (\A i \in 1..7 : ip[i] = 0) /\ ip[8] \in {0, 1}         \* ::, ::1
    \/ ip[1] >= 65280                                          \* multicast
    \/ ip[1] \in 65152..65215                                  \* link-local
Documentation6(ip) == ip[1] = 8193 /\ ip[2] = 3512
Teredo6(ip) == ip[1] = 8193 /\ ip[2] = 0
SixToFour(ip) == ip[1] = 8194

AlwaysDenied6(ip) == Scoped6(ip) \/ Documentation6(ip) \/ Teredo6(ip) \/ SixToFour(ip)
UniqueLocal6(ip) == ip[1] \in 64512..65023
GlobalUnicast6(ip) == ip[1] \div 8192 = 1                     \* 2000::/3

Native6(ip, private) ==
    ~AlwaysDenied6(ip) /\ IF UniqueLocal6(ip) THEN private ELSE GlobalUnicast6(ip)

Allowed6(ip, private) ==
    IF IsMapped(ip) THEN Allowed4(Octets(ip), private) ELSE Native6(ip, private)

TunnelIpAllowed(ip, private) ==
    IF Len(ip) = 4 THEN Allowed4(ip, private) ELSE Allowed6(ip, private)
=============================================================================
