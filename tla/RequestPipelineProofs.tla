----------------------- MODULE RequestPipelineProofs ------------------------
(***************************************************************************)
(* Proofs about RequestPipeline, for any configurations, names, addresses  *)
(* and requests.                                                           *)
(*                                                                         *)
(* PipelineInv says that the routes in force are those Config::load        *)
(* accepted, and what the pipeline has computed from them.                 *)
(*                                                                         *)
(* The first section is about RateLimiter, which shares no state with it.  *)
(***************************************************************************)
EXTENDS RequestPipeline, RateLimiter, TLAPS

-----------------------------------------------------------------------------
(***************************************************************************)
(* RateLimiter, for every burst and rate.                                  *)
(***************************************************************************)

LimiterTypes ==
    /\ limiterNow \in Nat /\ lastRefill \in Nat /\ lastRefill <= limiterNow
    /\ bucket \in Nat /\ bucket <= Burst * TokenParts
    /\ admitted \in Seq(Nat) /\ \A i \in 1..Len(admitted) : admitted[i] <= lastRefill

\* What requests since the i-th and the bucket b together hold, and what burst
\* and rate have given by the time t.
Taken(b, i) == b + (Len(admitted) - i + 1) * TokenParts
Given(t, i) == Burst * TokenParts + (t - admitted[i]) * RateParts

\* The bucket and the requests since any of them never exceed what was given.
NeverAbove == \A i \in 1..Len(admitted) : Taken(bucket, i) <= Given(lastRefill, i)
\* Unless the bucket is full, nothing given since some request was lost.
NeverBelow ==
    \/ bucket = Burst * TokenParts
    \/ \E i \in 1..Len(admitted) : Taken(bucket, i) = Given(lastRefill, i)

LimiterInv == LimiterTypes /\ NeverAbove /\ NeverBelow /\ WithinRate /\ RefusedOnlyWhenSpent
-----------------------------------------------------------------------------
\* Products of integers are integers.
LEMMA ProductInt == \A a, b \in Int : a * b \in Int
OBVIOUS

\* Products of natural numbers are natural numbers.
LEMMA ProductNat == \A a, b \in Nat : a * b \in Nat
OBVIOUS

\* Multiplication distributes over addition.
LEMMA Distributes == \A a, b, c \in Int : (a + b) * c = a * c + b * c
OBVIOUS

\* Multiplication by one and by zero.
LEMMA OnceAndZero == \A c \in Int : 1 * c = c /\ 0 * c = 0
OBVIOUS

\* The bucket has room for a token.
LEMMA BurstHoldsToken == TokenParts <= Burst * TokenParts
BY RateLimiterAssumption

\* Taken and given amounts are integers, and grow with bucket and time.
LEMMA Amounts ==
    ASSUME LimiterTypes, NEW i \in 1..Len(admitted), NEW b \in Nat
    PROVE  /\ Taken(b, i) = b + Taken(0, i) /\ Taken(0, i) \in Int
           /\ Given(limiterNow, i) = Given(lastRefill, i) + (limiterNow - lastRefill) * RateParts
           /\ Given(lastRefill, i) \in Int /\ Given(limiterNow, i) \in Int
           /\ (limiterNow - lastRefill) * RateParts \in Nat
<1>1. /\ Len(admitted) \in Nat /\ i \in Nat /\ admitted[i] \in Nat
      /\ limiterNow \in Nat /\ lastRefill \in Nat /\ limiterNow - lastRefill \in Nat
      /\ TokenParts \in Nat /\ RateParts \in Nat /\ Burst \in Nat
  BY RateLimiterAssumption DEF LimiterTypes
<1>2. /\ (Len(admitted) - i + 1) * TokenParts \in Int /\ Burst * TokenParts \in Nat
      /\ (lastRefill - admitted[i]) * RateParts \in Int
      /\ (limiterNow - admitted[i]) * RateParts \in Int
      /\ (limiterNow - lastRefill) * RateParts \in Nat
  BY <1>1, ProductInt, ProductNat
<1>3. (limiterNow - admitted[i]) * RateParts
        = (lastRefill - admitted[i]) * RateParts + (limiterNow - lastRefill) * RateParts
  <2>1. limiterNow - admitted[i] = (lastRefill - admitted[i]) + (limiterNow - lastRefill)
    BY <1>1
  <2>2. lastRefill - admitted[i] \in Int /\ limiterNow - lastRefill \in Int
    BY <1>1
  <2> QED BY <1>1, <2>1, <2>2, Distributes
<1> QED BY <1>2, <1>3 DEF Taken, Given

\* A refill is by the time that passed, up to the burst.
LEMMA RefilledAmount ==
    ASSUME LimiterTypes
    PROVE  /\ Refilled \in Nat /\ Refilled <= Burst * TokenParts
           /\ Refilled <= bucket + (limiterNow - lastRefill) * RateParts
           /\ \/ Refilled = Burst * TokenParts
              \/ Refilled = bucket + (limiterNow - lastRefill) * RateParts
           /\ bucket = Burst * TokenParts => Refilled = Burst * TokenParts
           /\ Burst * TokenParts \in Nat
<1>1. limiterNow - lastRefill \in Nat /\ RateParts \in Nat /\ Burst \in Nat /\ TokenParts \in Nat
  BY RateLimiterAssumption DEF LimiterTypes
<1>2. (limiterNow - lastRefill) * RateParts \in Nat /\ Burst * TokenParts \in Nat
  BY <1>1, ProductNat
<1> QED BY <1>2 DEF LimiterTypes, Refilled, Lesser

\* A full bucket and no request: the invariant holds.
LEMMA LimiterInitially == LimiterInit => LimiterInv
<1>1. Burst * TokenParts \in Nat
  BY RateLimiterAssumption, ProductNat
<1>2. LimiterInit => LimiterTypes /\ NeverAbove /\ NeverBelow /\ WithinRate
  BY <1>1 DEF LimiterInit, LimiterTypes, NeverAbove, NeverBelow, WithinRate
<1>3. LimiterInit => RefusedOnlyWhenSpent
  BY Zenon DEF LimiterInit, RefusedOnlyWhenSpent
<1> QED BY <1>2, <1>3 DEF LimiterInv

\* An admitted request is the last of the list.
LEMMA AdmittedGrows ==
    ASSUME LimiterTypes, admitted' = Append(admitted, limiterNow)
    PROVE  /\ admitted' \in Seq(Nat) /\ Len(admitted') = Len(admitted) + 1 /\ Len(admitted) \in Nat
           /\ \A i \in 1..Len(admitted) : admitted'[i] = admitted[i]
           /\ admitted'[Len(admitted) + 1] = limiterNow
           /\ \A i \in 1..(Len(admitted) + 1) : i \in 1..Len(admitted) \/ i = Len(admitted) + 1
<1>1. admitted \in Seq(Nat) /\ limiterNow \in Nat /\ Len(admitted) \in Nat
  BY DEF LimiterTypes
<1> QED BY <1>1

\* Every step keeps the types.
LEMMA LimiterTypesKept == LimiterTypes /\ [LimiterNext]_limiterVars => LimiterTypes'
<1> SUFFICES ASSUME LimiterTypes, [LimiterNext]_limiterVars PROVE LimiterTypes'
  OBVIOUS
<1>1. CASE UNCHANGED limiterVars
  BY <1>1 DEF LimiterTypes, limiterVars
<1>2. CASE LimiterTick
  BY <1>2 DEF LimiterTypes, LimiterTick
<1>3. CASE TryAcquire
  <2>1. \A i \in 1..Len(admitted) : admitted[i] \in Nat /\ admitted[i] <= limiterNow
    BY DEF LimiterTypes
  <2>2. /\ limiterNow' \in Nat /\ lastRefill' \in Nat /\ lastRefill' <= limiterNow'
    BY <1>3 DEF LimiterTypes, TryAcquire
  <2>3. bucket' \in Nat /\ bucket' <= Burst * TokenParts
    <3>1. bucket' = Refilled \/ (Refilled >= TokenParts /\ bucket' = Refilled - TokenParts)
      BY <1>3, RefilledAmount, RateLimiterAssumption DEF TryAcquire
    <3> QED BY <3>1, RefilledAmount, RateLimiterAssumption
  <2>4. admitted' \in Seq(Nat) /\ \A i \in 1..Len(admitted') : admitted'[i] <= lastRefill'
    <3>1. CASE admitted' = admitted
      BY <1>3, <2>1, <3>1 DEF TryAcquire, LimiterTypes
    <3>2. CASE admitted' = Append(admitted, limiterNow)
      BY <1>3, <2>1, <3>2, AdmittedGrows DEF TryAcquire, LimiterTypes
    <3> QED BY <1>3, <3>1, <3>2 DEF TryAcquire
  <2> QED BY <2>2, <2>3, <2>4 DEF LimiterTypes
<1> QED BY <1>1, <1>2, <1>3 DEF LimiterNext

\* Every step keeps the balance of bucket, time and admitted requests.
LEMMA LimiterInvKept == LimiterInv /\ [LimiterNext]_limiterVars => LimiterInv'
<1> SUFFICES ASSUME LimiterInv, [LimiterNext]_limiterVars PROVE LimiterInv'
  OBVIOUS
<1>0. LimiterTypes /\ LimiterTypes'
  BY LimiterTypesKept DEF LimiterInv
<1>1. CASE UNCHANGED limiterVars
  BY <1>1 DEF LimiterInv, LimiterTypes, NeverAbove, NeverBelow, WithinRate, RefusedOnlyWhenSpent,
              Taken, Given, limiterVars
<1>2. CASE LimiterTick
  <2>1. (NeverAbove /\ NeverBelow /\ WithinRate)'
    BY <1>2 DEF LimiterInv, NeverAbove, NeverBelow, WithinRate, Taken, Given, LimiterTick
  <2>2. RefusedOnlyWhenSpent'
    BY <1>2, Zenon DEF LimiterTick, RefusedOnlyWhenSpent
  <2> QED BY <1>0, <2>1, <2>2 DEF LimiterInv
<1> DEFINE full == Burst * TokenParts
           n == Len(admitted)
           given(i) == Given(limiterNow, i)
<1>3. n \in Nat /\ full \in Nat /\ Refilled \in Nat /\ TokenParts \in Nat
  BY <1>0, RefilledAmount, RateLimiterAssumption DEF LimiterTypes
<1>4. \A i \in 1..n :
         /\ Taken(0, i) \in Int /\ given(i) \in Int
         /\ Taken(Refilled, i) = Refilled + Taken(0, i)
         /\ Taken(Refilled, i) <= given(i)
  <2> TAKE i \in 1..n
  <2>1. bucket \in Nat /\ Taken(bucket, i) <= Given(lastRefill, i)
    BY <1>0 DEF LimiterInv, NeverAbove, LimiterTypes
  <2> QED BY <1>0, <1>3, <2>1, Amounts, RefilledAmount
<1>5. Refilled = full \/ \E i \in 1..n : Taken(Refilled, i) = given(i)
  <2>1. CASE bucket = full
    BY <1>0, <2>1, RefilledAmount
  <2>2. ASSUME NEW i \in 1..n, Taken(bucket, i) = Given(lastRefill, i)
        PROVE  Refilled = full \/ Taken(Refilled, i) = given(i)
    <3>1. bucket \in Nat
      BY <1>0 DEF LimiterTypes
    <3> QED BY <1>0, <1>3, <2>2, <3>1, Amounts, RefilledAmount
  <2> QED BY <2>1, <2>2 DEF LimiterInv, NeverBelow
<1>6. CASE TryAcquire /\ Refilled < TokenParts
  <2>1. /\ lastRefill' = limiterNow /\ limiterNow' = limiterNow /\ admitted' = admitted
        /\ bucket' = Refilled
    BY <1>6 DEF TryAcquire
  <2>2. NeverAbove'
    BY <1>4, <2>1 DEF NeverAbove, Taken, Given
  <2>3. Refilled # full
    BY <1>3, <1>6, BurstHoldsToken
  <2>4. PICK i \in 1..n : Taken(Refilled, i) = given(i)
    BY <1>5, <2>3
  <2>5. NeverBelow'
    BY <2>1, <2>4 DEF NeverBelow, Taken, Given
  <2>6. WithinRate'
    BY <2>1 DEF LimiterInv, WithinRate
  <2>7. RefusedOnlyWhenSpent'
    <3>1. (n - i + 2) * TokenParts = (n - i + 1) * TokenParts + TokenParts
      <4>1. n - i + 2 = (n - i + 1) + 1 /\ n - i + 1 \in Int
        BY <1>3
      <4> QED BY <1>3, <4>1, Distributes, OnceAndZero
    <3>2. (n - i + 2) * TokenParts > given(i)
      BY <1>3, <1>4, <1>6, <2>4, <3>1 DEF Taken
    <3>3. i \in DOMAIN admitted
      BY <1>0 DEF LimiterTypes
    <3> QED BY <2>1, <3>2, <3>3 DEF RefusedOnlyWhenSpent, Given
  <2> QED BY <1>0, <2>2, <2>5, <2>6, <2>7 DEF LimiterInv
<1>7. CASE TryAcquire /\ ~(Refilled < TokenParts)
  <2>1. /\ lastRefill' = limiterNow /\ limiterNow' = limiterNow
        /\ admitted' = Append(admitted, limiterNow)
        /\ bucket' = Refilled - TokenParts
    BY <1>7 DEF TryAcquire
  <2>2. turnedAway' = FALSE
    BY <1>7, Zenon DEF TryAcquire
  <2>3. /\ Len(admitted') = n + 1
        /\ \A i \in 1..n : admitted'[i] = admitted[i]
        /\ admitted'[n + 1] = limiterNow
        /\ \A i \in 1..(n + 1) : i \in 1..n \/ i = n + 1
    BY <1>0, <2>1, AdmittedGrows
  <2>4. \A i \in 1..n : (n + 1 - i + 1) * TokenParts = Taken(0, i) + TokenParts
    <3> TAKE i \in 1..n
    <3>1. n + 1 - i + 1 = (n - i + 1) + 1 /\ n - i + 1 \in Int
      BY <1>3
    <3>2. Taken(0, i) = (n - i + 1) * TokenParts
      BY <1>3, <1>4, ProductInt, <3>1 DEF Taken
    <3> QED BY <1>3, <3>1, <3>2, Distributes, OnceAndZero
  <2>5. \A i \in 1..n : Taken(bucket, i)' = Taken(Refilled, i) /\ Given(lastRefill, i)' = given(i)
    BY <1>3, <1>4, <2>1, <2>3, <2>4 DEF Taken, Given
  <2> PICK m \in Nat : m = n + 1
    BY <1>3
  <2>6. Taken(bucket, m)' = Refilled /\ Given(lastRefill, m)' = full
    <3>1. (n + 1) - m + 1 = 1 /\ limiterNow - limiterNow = 0 /\ RateParts \in Int
      BY <1>0, <1>3, RateLimiterAssumption DEF LimiterTypes
    <3>2. 1 * TokenParts = TokenParts /\ 0 * RateParts = 0
      BY <1>3, <3>1, OnceAndZero
    <3> QED BY <1>3, <2>1, <2>3, <3>1, <3>2 DEF Taken, Given
  <2>7. NeverAbove'
    <3>1. Refilled <= full
      BY <1>0, RefilledAmount
    <3>2. \A i \in 1..Len(admitted') : i \in 1..n \/ i = m
      BY <2>3
    <3> QED BY <1>4, <2>5, <2>6, <3>1, <3>2 DEF NeverAbove
  <2>8. NeverBelow'
    <3>1. m \in 1..Len(admitted') /\ \A i \in 1..n : i \in 1..Len(admitted')
      BY <1>3, <2>3
    <3> QED BY <1>5, <2>5, <2>6, <3>1 DEF NeverBelow
  <2>9. WithinRate'
    <3> SUFFICES ASSUME NEW i \in 1..(n + 1), NEW j \in 1..(n + 1), i <= j
                 PROVE  (j - i + 1) * TokenParts
                          <= full + (admitted'[j] - admitted'[i]) * RateParts
      BY <1>0, <2>3 DEF WithinRate, LimiterTypes
    <3>1. CASE j \in 1..n
      <4>1. i \in 1..n
        BY <1>3, <3>1
      <4>2. DOMAIN admitted = 1..n
        BY <1>0 DEF LimiterTypes
      <4>3. (j - i + 1) * TokenParts <= full + (admitted[j] - admitted[i]) * RateParts
        BY <3>1, <4>1, <4>2 DEF LimiterInv, WithinRate
      <4> QED BY <2>3, <3>1, <4>1, <4>3
    <3>2. CASE j = n + 1 /\ i \in 1..n
      <4>1. (j - i + 1) * TokenParts = Taken(0, i) + TokenParts
        BY <2>4, <3>2
      <4>2. full + (admitted'[j] - admitted'[i]) * RateParts = given(i)
        BY <2>3, <3>2 DEF Given
      <4> QED BY <1>3, <1>4, <1>7, <3>2, <4>1, <4>2
    <3>3. CASE j = n + 1 /\ i = n + 1
      <4>1. j - i + 1 = 1 /\ admitted'[j] - admitted'[i] = 0 /\ RateParts \in Int
        BY <1>0, <1>3, <2>3, <3>3, RateLimiterAssumption DEF LimiterTypes
      <4>2. 1 * TokenParts = TokenParts /\ 0 * RateParts = 0
        BY <1>3, <4>1, OnceAndZero
      <4> QED BY <1>3, <4>1, <4>2, BurstHoldsToken
    <3> QED BY <2>3, <3>1, <3>2, <3>3
  <2>10. RefusedOnlyWhenSpent'
    BY <2>2, Zenon DEF RefusedOnlyWhenSpent
  <2> QED BY <1>0, <2>7, <2>8, <2>9, <2>10 DEF LimiterInv
<1> QED BY <1>1, <1>2, <1>6, <1>7 DEF LimiterNext

\* For every burst and rate: the requests admitted in any interval stay within burst
\* plus rate, and a request is refused only when they have been spent
\* (try_acquire), although the bucket is refilled only when somebody asks.
THEOREM BucketsExact == LimiterSpec => []BucketExact
<1>1. LimiterInv => BucketExact
  BY DEF LimiterInv, BucketExact
<1> QED BY LimiterInitially, LimiterInvKept, <1>1, PTL DEF LimiterSpec

-----------------------------------------------------------------------------
(* RequestPipeline: names, addresses and headers.                          *)

\* Among what validate_proxy_route checks of a route are its header allowlist
\* and its WebSocket settings.
LEMMA RouteChecked ==
    ASSUME NEW r, NEW insecure, NEW transparent, ValidateProxyRoute(r, insecure, transparent)
    PROVE  /\ HeaderAllowlist(r.requestHeaders, InjectionHeader(r))
           /\ r.websocket # Absent => ValidWebSocket(r, transparent)
BY SMT DEF ValidateProxyRoute

\* What Config::load has checked of the routes AV serves.
Loaded(c, routes) ==
    /\ Validate(c, routes)
    /\ \A r, s \in routes : r.name = s.name => r = s

\* Config::load accepts only routes that are valid, each under its own name.
LEMMA LoadChecks ==
    ASSUME NEW c \in Configurations, Load(c) # Absent
    PROVE  Loaded(c, Load(c))
<1> DEFINE routes == ExpandedRoutes(c)
<1>1. routes # Absent /\ Validate(c, routes) /\ Load(c) = routes
  BY DEF Load
<1>2. /\ \A op \in c.operations : \A r \in c.routes : r.name # op.name
      /\ routes = c.routes \cup {OperationRoute(op) : op \in c.operations}
  BY <1>1 DEF ExpandedRoutes
<1>3. \A op \in c.operations : OperationRoute(op).name = op.name
  BY DEF OperationRoute
<1>4. ASSUME NEW r \in routes, NEW s \in routes, r.name = s.name PROVE r = s
  <2>1. CASE r \in c.routes /\ s \in c.routes  BY <1>4, <2>1, NamesAssumption
  <2>2. ASSUME NEW o \in c.operations, r = OperationRoute(o) PROVE r = s
    <3>1. s \notin c.routes  BY <1>2, <1>3, <1>4, <2>2
    <3>2. PICK q \in c.operations : s = OperationRoute(q)  BY <1>2, <3>1
    <3>3. o.name = q.name  BY <1>3, <1>4, <2>2, <3>2
    <3>4. o = q  BY <3>3, NamesAssumption
    <3> QED  BY <2>2, <3>2, <3>4
  <2>3. ASSUME NEW q \in c.operations, s = OperationRoute(q), r \in c.routes PROVE FALSE
    BY <1>2, <1>3, <1>4, <2>3
  <2> QED  BY <1>2, <2>1, <2>2, <2>3
<1> QED  BY <1>1, <1>4 DEF Loaded

\* A catalog that TransparentRouteCatalog::from_config accepts gives no host
\* to two destinations.
LEMMA CatalogHosts ==
    ASSUME NEW routes, NEW tunnels, FromConfig(routes, tunnels) # Absent,
           NEW e \in FromConfig(routes, tunnels)
    PROVE  /\ e \in Destinations(routes, tunnels) /\ e.host # Absent
           /\ \A f \in FromConfig(routes, tunnels) : f.host = e.host => f = e
           /\ FromConfig(routes, tunnels) = Destinations(routes, tunnels)
BY DEF FromConfig

\* An entry stands for a route or a tunnel, with its canonical host.
LEMMA EntryHost ==
    ASSUME NEW routes, NEW tunnels, NEW e \in Destinations(routes, tunnels), e.host # Absent
    PROVE  /\ e.host = <<e.host[1], 0>>
           /\ e.kind = "injecting" =>
                 \E r \in routes : e.name = r.name /\ e.host[1] = r.url.host.name
<1>1. CASE e \in {RouteEntry(r) : r \in {r \in routes : StandardHttps(r.url)}}
  <2>1. PICK r \in routes : e = RouteEntry(r)  BY <1>1
  <2>2. e.name = r.name /\ e.host = CanonicalDnsHost(r.url.host)  BY <2>1 DEF RouteEntry
  <2>3. e.host = <<r.url.host.name, 0>>  BY <2>2 DEF CanonicalDnsHost
  <2> QED  BY <2>2, <2>3
<1>2. CASE e \in {TunnelEntry(t) : t \in tunnels}
  <2>1. PICK t \in tunnels : e = TunnelEntry(t)  BY <1>2
  <2>2. e.kind = "tunnel" /\ e.host = CanonicalDnsHost(t.host)  BY <2>1 DEF TunnelEntry
  <2>3. e.host = <<t.host.name, 0>>  BY <2>2 DEF CanonicalDnsHost
  <2> QED  BY <2>2, <2>3
<1> QED  BY <1>1, <1>2 DEF Destinations

\* What it means for an address to be at or above another.
LEMMA PrefixOrdered ==
    ASSUME NEW x, x[1] \in Octet, x[2] \in Octet, x[3] \in Octet,
           NEW y, y[1] \in Octet, y[2] \in Octet, y[3] \in Octet
    PROVE  /\ Prefix24(x) \in Int
           /\ Prefix24(x) <= Prefix24(y) =>
                 /\ x[1] <= y[1] /\ (x[1] = y[1] => x[2] <= y[2])
                 /\ x[1] = y[1] /\ x[2] = y[2] => x[3] <= y[3]
<1>1. PICK a \in Octet : a = x[1]  OBVIOUS
<1>2. PICK b \in Octet : b = x[2]  OBVIOUS
<1>3. PICK c \in Octet : c = x[3]  OBVIOUS
<1>4. PICK d \in Octet : d = y[1]  OBVIOUS
<1>5. PICK e \in Octet : e = y[2]  OBVIOUS
<1>6. PICK f \in Octet : f = y[3]  OBVIOUS
<1>7. Prefix24(x) = (a * 256 + b) * 256 + c
  BY <1>1, <1>2, <1>3, Zenon DEF Prefix24
<1>8. Prefix24(y) = (d * 256 + e) * 256 + f
  BY <1>4, <1>5, <1>6, Zenon DEF Prefix24
<1>9. /\ Prefix24(x) \in Int
      /\ Prefix24(x) <= Prefix24(y) => a <= d /\ (a = d => b <= e) /\ (a = d /\ b = e => c <= f)
  BY <1>7, <1>8 DEF Octet
<1> QED  BY <1>1, <1>2, <1>3, <1>4, <1>5, <1>6, <1>9

\* tunnel_ip_allowed keeps the special ranges out, and the internal ones
\* unless the tunnel opts in.
LEMMA OctetsAllowed ==
    ASSUME NEW ip, ip[1] \in Octet, ip[2] \in Octet, ip[3] \in Octet,
           NEW private, Allowed4(ip, private)
    PROVE  PermittedFour(ip, private)
<1>1. ~AlwaysDenied4(ip) /\ (private \/ ~Private4(ip))
  BY DEF Allowed4
<1>2. ASSUME NEW s \in SpecialBounds \cup InternalBounds,
             Prefix24(ip) \in Prefix24(s[1])..Prefix24(s[2])
      PROVE  /\ s[1][1] <= ip[1] /\ (s[1][1] = ip[1] => s[1][2] <= ip[2])
             /\ s[1][1] = ip[1] /\ s[1][2] = ip[2] => s[1][3] <= ip[3]
             /\ ip[1] <= s[2][1] /\ (ip[1] = s[2][1] => ip[2] <= s[2][2])
             /\ ip[1] = s[2][1] /\ ip[2] = s[2][2] => ip[3] <= s[2][3]
  <2>1. /\ s[1][1] \in Octet /\ s[1][2] \in Octet /\ s[1][3] \in Octet
        /\ s[2][1] \in Octet /\ s[2][2] \in Octet /\ s[2][3] \in Octet
    BY DEF SpecialBounds, InternalBounds, Octet
  <2>2. Prefix24(s[1]) <= Prefix24(ip) /\ Prefix24(ip) <= Prefix24(s[2])
    <3>1. Prefix24(s[1]) \in Int /\ Prefix24(s[2]) \in Int /\ Prefix24(ip) \in Int
      BY <2>1, PrefixOrdered
    <3> QED  BY <1>2, <3>1
  <2>3. /\ s[1][1] <= ip[1] /\ (s[1][1] = ip[1] => s[1][2] <= ip[2])
        /\ s[1][1] = ip[1] /\ s[1][2] = ip[2] => s[1][3] <= ip[3]
    BY <2>1, <2>2, PrefixOrdered
  <2>4. /\ ip[1] <= s[2][1] /\ (ip[1] = s[2][1] => ip[2] <= s[2][2])
        /\ ip[1] = s[2][1] /\ ip[2] = s[2][2] => ip[3] <= s[2][3]
    BY <2>1, <2>2, PrefixOrdered
  <2> QED  BY <2>3, <2>4
<1>3. ASSUME NEW s \in SpecialBounds, Prefix24(ip) \in Prefix24(s[1])..Prefix24(s[2])
      PROVE  AlwaysDenied4(ip)
  BY <1>2, <1>3 DEF SpecialBounds, AlwaysDenied4, InPrefix, Octet
<1>4. ASSUME NEW s \in InternalBounds, Prefix24(ip) \in Prefix24(s[1])..Prefix24(s[2])
      PROVE  Private4(ip)
  BY <1>2, <1>4 DEF InternalBounds, Private4, InPrefix, Octet
<1>5. ASSUME NEW r \in Special24, Prefix24(ip) \in r[1]..r[2] PROVE FALSE
  <2>1. PICK s \in SpecialBounds : r = <<Prefix24(s[1]), Prefix24(s[2])>>
    BY DEF Special24
  <2> QED  BY <1>1, <1>3, <1>5, <2>1
<1>6. ASSUME NEW r \in Internal24, Prefix24(ip) \in r[1]..r[2] PROVE Private4(ip)
  <2>1. PICK s \in InternalBounds : r = <<Prefix24(s[1]), Prefix24(s[2])>>
    BY DEF Internal24
  <2> QED  BY <1>4, <1>6, <2>1
<1> QED  BY <1>1, <1>5, <1>6 DEF PermittedFour

\* A function on 1..n is a sequence of length n.
LEMMA OfLength ==
    ASSUME NEW S, NEW n \in Nat, NEW ip \in [1..n -> S]
    PROVE  ip \in Seq(S) /\ Len(ip) = n
<1>1. ip \in UNION {[1..m -> S] : m \in Nat}  OBVIOUS
<1>2. ip \in Seq(S)  BY <1>1
<1> QED  BY <1>2

\* The same for native IPv6: what is not unique-local has to be in 2000::/3.
LEMMA SegmentsAllowed ==
    ASSUME NEW ip, ip[1] \in Segment, ip[2] \in Segment, NEW private, Native6(ip, private)
    PROVE  PermittedNative(ip, private)
<1>1. /\ ~AlwaysDenied6(ip) /\ (private \/ ~UniqueLocal6(ip))
      /\ UniqueLocal6(ip) \/ GlobalUnicast6(ip)
  BY Zenon DEF Native6
<1>2. PICK h \in Segment : h = ip[1]  OBVIOUS
<1>3. PICK g \in Segment : g = ip[2]  OBVIOUS
<1>4. ~Documentation6(ip) /\ ~Teredo6(ip) /\ ~SixToFour(ip)
  BY Zenon, <1>1 DEF AlwaysDenied6
<1>5. ~(h = 8193 /\ g = 3512)  BY SMT, <1>2, <1>3, <1>4 DEF Documentation6
<1>6. ~(h = 8193 /\ g = 0)  BY SMT, <1>2, <1>3, <1>4 DEF Teredo6
<1>7. h # 8194  BY SMT, <1>2, <1>4 DEF SixToFour
<1>8. ~\E r \in SpecialFirst : h \in r[1]..r[2]
  <2>1. CASE UniqueLocal6(ip)
    <3>1. h \in 64512..65023  BY SMT, <1>2, <2>1 DEF UniqueLocal6
    <3> QED  BY SMT, <3>1 DEF SpecialFirst, Segment
  <2>2. CASE GlobalUnicast6(ip)
    <3>1. ip[1] \div 8192 = 1  BY <2>2 DEF GlobalUnicast6
    <3>2. h \div 8192 = 1  BY ONLY <1>2, <3>1
    <3>3. 8192 <= h /\ h <= 16383  BY ONLY SMT, h \in Segment, <3>2 DEF Segment
    <3> QED  BY ONLY SMT, h \in Segment, <1>7, <3>3 DEF SpecialFirst, Segment
  <2> QED  BY Zenon, <1>1, <2>1, <2>2
<1>9. <<h, g>> \notin SpecialPairs
  <2>1. \A a, b : <<h, g>> = <<a, b>> => h = a /\ g = b
    BY Zenon
  <2> QED  BY SMT, <1>5, <1>6, <2>1 DEF SpecialPairs
<1>10. UniqueLocal6(ip) <=> h \in UniqueLocal
  BY SMT, <1>2 DEF UniqueLocal6, UniqueLocal
<1> QED  BY Zenon, <1>1, <1>2, <1>3, <1>8, <1>9, <1>10 DEF PermittedNative

\* An address that tunnel_ip_allowed lets through is in none of the ranges.
LEMMA AddressAllowed ==
    ASSUME NEW ip \in [1..4 -> Octet] \cup [1..8 -> Segment], NEW private,
           TunnelIpAllowed(ip, private)
    PROVE  PermittedAddress(ip, private)
<1>1. CASE ip \in [1..4 -> Octet]
  <2>1. ip \in Seq(Octet) /\ Len(ip) = 4  BY ZenonT(40), <1>1, OfLength
  <2>2. Four(ip) = ip /\ Allowed4(ip, private)  BY <2>1 DEF Four, TunnelIpAllowed
  <2>3. ip[1] \in Octet /\ ip[2] \in Octet /\ ip[3] \in Octet  BY <1>1
  <2>4. ip # <<>>
    <3>1. Len(<<>>) = 0  OBVIOUS
    <3>2. 4 # 0  OBVIOUS
    <3> QED  BY Zenon, <2>1, <3>1, <3>2
  <2> QED  BY <2>2, <2>3, <2>4, OctetsAllowed DEF PermittedAddress
<1>2. CASE ip \in [1..8 -> Segment]
  <2>1. ip \in Seq(Segment) /\ Len(ip) = 8  BY ZenonT(40), <1>2, OfLength
  <2>2. Allowed6(ip, private)  BY <2>1 DEF TunnelIpAllowed
  <2>3. CASE IsMapped(ip)
    <3>1. Four(ip) = Octets(ip) /\ Allowed4(Octets(ip), private)
      BY <2>1, <2>2, <2>3 DEF Four, Allowed6
    <3>2. PICK h \in Segment : h = ip[7]  BY <1>2, <2>1
    <3>3. PICK g \in Segment : g = ip[8]  BY <1>2
    <3>4. h \div 256 \in Octet /\ h % 256 \in Octet /\ g \div 256 \in Octet
      BY DEF Octet, Segment
    <3>5. Octets(ip) = <<h \div 256, h % 256, g \div 256, g % 256>>
      BY <3>2, <3>3, Zenon DEF Octets
    <3>6. Octets(ip)[1] \in Octet /\ Octets(ip)[2] \in Octet /\ Octets(ip)[3] \in Octet
      BY <3>4, <3>5
    <3>7. Octets(ip) # <<>>  BY <3>5
    <3> QED  BY <3>1, <3>6, <3>7, OctetsAllowed DEF PermittedAddress
  <2>4. CASE ~IsMapped(ip)
    <3>1. Four(ip) = <<>>  BY <2>1, <2>4 DEF Four
    <3>2. Native6(ip, private)  BY <2>2, <2>4 DEF Allowed6
    <3>3. ip[1] \in Segment /\ ip[2] \in Segment  BY <1>2
    <3> QED  BY <3>1, <3>2, <3>3, SegmentsAllowed DEF PermittedAddress
  <2> QED  BY <2>3, <2>4
<1> QED  BY <1>1, <1>2
-----------------------------------------------------------------------------
(* The invariant of the pipeline.                                          *)

\* What a connection is: an entry of the catalog of what is served.
Selected(e) ==
    /\ pipeline = "serving" /\ config.transparent # Absent
    /\ e \in FromConfig(served, config.tunnels)

\* What is sent for a request: by the rules of the route that is served.
Proxied(sent) ==
    /\ sent.route \in served
    /\ sent.headers = OutboundHeaders(sent.route, sent.request.headers)
    /\ InjectionSensitive(sent.route) \subseteq sent.sensitive
    /\ sent.websocket => /\ connection # Absent /\ WebSocketAdmitted(sent.route, sent.request)
                         /\ sent.request.method = "GET" /\ sent.request \in Requests(config)

Carries(sent) ==
    /\ pipeline = "serving" /\ sent.kind \in {"tunnel", "request"}
    /\ sent.kind = "tunnel" => PermittedAddress(sent.address, sent.entry.private)
    /\ sent.kind = "request" => Proxied(sent)

\* What is sent in a tunnel agrees with the entry it was opened for.
Aimed(sent) ==
    sent.kind = "request" =>
        /\ sent.route.url.host.name = connection.host[1]
        /\ Head(sent.request.headers["host"]).host.name = connection.host[1]

PipelineInv ==
    /\ config \in Configurations
    /\ served # Absent => Loaded(config, served)
    /\ pipeline = "serving" => served # Absent
    /\ connection # Absent => Selected(connection)
    /\ outbound # Absent => Carries(outbound)
    /\ connection # Absent /\ outbound # Absent => Aimed(outbound)

\* An accepted configuration with a transparent proxy has a catalog.
LEMMA CatalogAccepted ==
    ASSUME Loaded(config, served), config.transparent # Absent
    PROVE  FromConfig(served, config.tunnels) # Absent
<1>1. Validate(config, served)  BY DEF Loaded
<1>2. ValidTransparent(config, served)  BY <1>1, Zenon DEF Validate
<1>3. FromConfig(served, config.tunnels) \notin {Absent, {}}  BY <1>2 DEF ValidTransparent
<1> QED  BY <1>3

\* No host of the catalog has two destinations.
LEMMA OneDestination ==
    ASSUME Loaded(config, served), NEW e, Selected(e),
           NEW f \in FromConfig(served, config.tunnels), f.host[1] = e.host[1]
    PROVE  f = e
<1>1. FromConfig(served, config.tunnels) # Absent
  BY CatalogAccepted DEF Selected
<1>2. /\ e \in Destinations(served, config.tunnels) /\ e.host # Absent
      /\ f \in Destinations(served, config.tunnels) /\ f.host # Absent
  BY <1>1, CatalogHosts DEF Selected
<1>3. e.host = <<e.host[1], 0>> /\ f.host = <<f.host[1], 0>>
  BY <1>2, EntryHost
<1>4. f.host = e.host  BY <1>3
<1> QED  BY <1>1, <1>4, CatalogHosts DEF Selected

\* The route of an inspected tunnel is the one its entry was made from.
LEMMA TunnelRoute ==
    ASSUME Loaded(config, served), NEW e, Selected(e), e.kind = "injecting",
           NEW route, route = CHOOSE r \in served : r.name = e.name
    PROVE  route \in served /\ route.url.host.name = e.host[1]
<1>1. FromConfig(served, config.tunnels) # Absent
  BY CatalogAccepted DEF Selected
<1>2. e \in Destinations(served, config.tunnels) /\ e.host # Absent
  BY <1>1, CatalogHosts DEF Selected
<1>3. PICK r \in served : e.name = r.name /\ e.host[1] = r.url.host.name
  BY <1>2, EntryHost
<1>4. route \in served /\ route.name = e.name
  BY <1>3
<1>5. route = r
  BY <1>3, <1>4 DEF Loaded
<1> QED  BY Zenon, <1>3, <1>5

\* The fields of what proxy_request and proxy_websocket_request send.
LEMMA SendShape ==
    ASSUME NEW route, NEW path, NEW request, NEW websocket,
           Send(route, path, request, websocket) # Absent
    PROVE  /\ Send(route, path, request, websocket).kind = "request"
           /\ Send(route, path, request, websocket).route = route
           /\ Send(route, path, request, websocket).request = request
           /\ Send(route, path, request, websocket).headers = OutboundHeaders(route, request.headers)
           /\ Send(route, path, request, websocket).sensitive = PreparedSensitive(route, websocket)
           /\ Send(route, path, request, websocket).websocket = websocket
<1> DEFINE body == IF websocket THEN <<>>
                   ELSE ApplyBodySubstitutions(route, Credentials, request.body)
<1>1. Send(route, path, request, websocket) = Upstream(route, path, request, websocket, body)
  BY DEF Send
<1> HIDE DEF body
<1> QED  BY <1>1 DEF Upstream

\* The invariant holds throughout: every start, CONNECT and request keeps it.
LEMMA PipelineInvariant == PipelineSpec => []PipelineInv
<1>1. PipelineInit => PipelineInv
  BY DEF PipelineInit, PipelineInv
<1>2. PipelineInv /\ [PipelineNext]_pipelineVars => PipelineInv'
  <2> SUFFICES ASSUME PipelineInv, [PipelineNext]_pipelineVars PROVE PipelineInv'
    OBVIOUS
  <2>1. CASE Start
    <3>1. connection = Absent /\ outbound = Absent
      BY <2>1 DEF Start, PipelineInv, Selected, Carries
    <3>2. served' # Absent => Loaded(config, served')
      BY <2>1, LoadChecks DEF Start, PipelineInv
    <3> QED  BY <2>1, <3>1, <3>2 DEF Start, PipelineInv
  <2>2. ASSUME NEW c \in Connects, NEW addresses \in Resolutions(config), Connect(c, addresses)
        PROVE  PipelineInv'
    <3>1. UNCHANGED <<config, served, pipeline>> /\ pipeline = "serving"
          /\ config.transparent # Absent
      BY <2>2 DEF Connect
    <3>2. CASE connection' = Absent /\ outbound' = Absent
      BY <3>1, <3>2 DEF PipelineInv
    <3>3. ASSUME NEW e \in FromConfig(served, config.tunnels), connection' = e, outbound' = Absent
          PROVE  PipelineInv'
      BY <3>1, <3>3 DEF PipelineInv, Selected
    <3>4. ASSUME NEW e \in FromConfig(served, config.tunnels), MayDial(addresses, e.private),
                 NEW a \in addresses, connection' = e, outbound' = Dialled(e, a)
          PROVE  PipelineInv'
      <4>1. outbound'.kind = "tunnel" /\ outbound'.entry = e /\ outbound'.address = a
        BY <3>4 DEF Dialled
      <4>2. TunnelIpAllowed(a, e.private)
        BY <3>4 DEF MayDial
      <4>3. a \in [1..4 -> Octet] \cup [1..8 -> Segment]
        BY TrafficAssumption DEF PipelineInv
      <4>4. PermittedAddress(a, e.private)
        BY Zenon, <4>2, <4>3, AddressAllowed
      <4>5. Carries(outbound)' /\ Aimed(outbound)'
        BY <3>1, <4>1, <4>4 DEF Carries, Aimed
      <4>6. Selected(connection)'
        BY <3>1, <3>4 DEF Selected
      <4> QED  BY <3>1, <4>5, <4>6 DEF PipelineInv
    <3> QED  BY Zenon, <2>2, <3>2, <3>3, <3>4 DEF Connect, AuthorizeConnect
  <2>3. ASSUME NEW request \in Requests(config), TunnelRequest(request) PROVE PipelineInv'
    <3> DEFINE route == CHOOSE r \in served : r.name = connection.name
               websocket == IsWebSocketAttempt(request.headers)
    <3>1. /\ connection # Absent /\ connection.kind = "injecting"
          /\ UNCHANGED <<config, served, pipeline, connection>>
      BY <2>3 DEF TunnelRequest
    <3>2. CASE outbound' = Absent
      BY Zenon, <3>1, <3>2 DEF PipelineInv, Selected
    <3>3. CASE outbound' # Absent
      <4>1. /\ outbound' = Send(route, request.path, request, websocket)
            /\ websocket => WebSocketAdmitted(route, request)
            /\ TunnelTargetAgrees(route, request)
            /\ websocket => request.method = "GET"
        BY <2>3, <3>3 DEF TunnelRequest
      <4>2. Loaded(config, served) /\ Selected(connection) /\ pipeline = "serving"
        BY <3>1 DEF PipelineInv, Selected
      <4>3. route \in served /\ route.url.host.name = connection.host[1]
        BY <3>1, <4>2, TunnelRoute
      <4> HIDE DEF route, websocket
      <4>4. /\ outbound'.kind = "request" /\ outbound'.route = route
            /\ outbound'.request = request /\ outbound'.websocket = websocket
            /\ outbound'.headers = OutboundHeaders(route, request.headers)
            /\ outbound'.sensitive = PreparedSensitive(route, websocket)
        BY <3>3, <4>1, SendShape
      <4>5. Head(request.headers["host"]).host.name = connection.host[1]
        <5>1. Len(Values(request.headers, "host")) = 1
              /\ Head(Values(request.headers, "host")).host = route.url.host
          BY <4>1 DEF TunnelTargetAgrees
        <5>2. Values(request.headers, "host") = request.headers["host"]
          <6>1. Len(<<>>) # 1  OBVIOUS
          <6> QED  BY <5>1, <6>1 DEF Values
        <5> QED  BY Zenon, <4>3, <5>1, <5>2
      <4>6. Aimed(outbound)'
        BY Zenon, <3>1, <4>3, <4>4, <4>5 DEF Aimed
      <4>7. InjectionSensitive(route) \subseteq PreparedSensitive(route, websocket)
        BY DEF PreparedSensitive
      <4>8. Proxied(outbound)'
        BY <3>1, <4>1, <4>3, <4>4, <4>7, Zenon DEF Proxied
      <4>9. Carries(outbound)'
        BY <3>1, <4>2, <4>4, <4>8 DEF Carries
      <4> QED  BY Zenon, <3>1, <4>6, <4>9 DEF PipelineInv, Selected
    <3> QED  BY <3>2, <3>3
  <2>4. ASSUME NEW request \in Requests(config), NEW route \in served, NamedRequest(route, request)
        PROVE  PipelineInv'
    <3>1. /\ connection = Absent /\ pipeline = "serving"
          /\ UNCHANGED <<config, served, pipeline, connection>>
      BY <2>4 DEF NamedRequest
    <3>2. CASE outbound' = Absent
      BY <3>1, <3>2 DEF PipelineInv
    <3>3. CASE outbound' # Absent
      <4> DEFINE path == Decoded(request.path)
                 websocket == FALSE
      <4>1. outbound' = Send(route, path, request, websocket) /\ ~websocket
        BY ZenonT(40), <2>4, <3>3 DEF NamedRequest
      <4> HIDE DEF path, websocket
      <4>2. /\ outbound'.kind = "request" /\ outbound'.route = route
            /\ outbound'.request = request /\ outbound'.websocket = websocket
            /\ outbound'.headers = OutboundHeaders(route, request.headers)
            /\ outbound'.sensitive = PreparedSensitive(route, websocket)
        BY <3>3, <4>1, SendShape
      <4>3. InjectionSensitive(route) \subseteq PreparedSensitive(route, websocket)
        BY DEF PreparedSensitive
      <4>4. Proxied(outbound)'
        BY <3>1, <4>1, <4>2, <4>3, Zenon DEF Proxied
      <4>5. Carries(outbound)'
        BY <3>1, <4>2, <4>4 DEF Carries
      <4> QED  BY <3>1, <4>5 DEF PipelineInv
    <3> QED  BY <3>2, <3>3
  <2>5. CASE Answered
    BY <2>5 DEF Answered, PipelineInv, Selected
  <2>6. CASE UNCHANGED pipelineVars
    BY <2>6 DEF pipelineVars, PipelineInv, Selected, Carries, Proxied, Aimed
  <2> QED  BY <2>1, <2>2, <2>3, <2>4, <2>5, <2>6 DEF PipelineNext
<1> QED  BY <1>1, <1>2, PTL DEF PipelineSpec

\* The tunnels end where they are configured: every tunnel, every request in
\* one, every address a name resolves to.
THEOREM TunnelsEndWhereConfigured == PipelineSpec => []TunnelsWhereConfigured
<1>1. PipelineInv => TunnelKeepsItsHost
  <2> SUFFICES ASSUME PipelineInv, connection # Absent
               PROVE  /\ \A e \in FromConfig(served, config.tunnels) :
                            e.host[1] = connection.host[1] => e = connection
                      /\ Sent => /\ outbound.route.url.host.name = connection.host[1]
                                 /\ Head(outbound.request.headers["host"]).host.name
                                       = connection.host[1]
    BY DEF TunnelKeepsItsHost
  <2>1. Loaded(config, served) /\ Selected(connection)
    BY DEF PipelineInv, Selected
  <2>2. \A e \in FromConfig(served, config.tunnels) :
           e.host[1] = connection.host[1] => e = connection
    BY <2>1, OneDestination
  <2> QED  BY <2>2 DEF PipelineInv, Sent, Aimed
<1>2. PipelineInv => TunnelAddressesPermitted
  BY DEF PipelineInv, Carries, TunnelAddressesPermitted
<1>3. PipelineInv => TunnelsWhereConfigured
  BY <1>1, <1>2 DEF TunnelsWhereConfigured
<1> QED  BY <1>3, PipelineInvariant, PTL

\* validate_proxy_header_allowlist: a configured request header is neither
\* forbidden nor the injected one.
LEMMA RouteHeaders ==
    ASSUME Loaded(config, served), NEW r \in served
    PROVE  ToSet(r.requestHeaders) \cap Forbidden = {}
<1>1. ValidateProxyRoute(r, InsecureConnectorHttp(config), config.transparent # Absent)
  BY Zenon DEF Loaded, Validate
<1>2. HeaderAllowlist(r.requestHeaders, InjectionHeader(r))
  BY Zenon, <1>1, RouteChecked
<1>3. \A i \in DOMAIN r.requestHeaders : r.requestHeaders[i] \notin Forbidden
  BY <1>2 DEF HeaderAllowlist
<1> QED  BY <1>3 DEF ToSet

\* Every request sent upstream carries AV's credential header, and of the
\* caller's headers only those the route allows and the policy permits.
THEOREM CallersHeadersAreHarmless == PipelineSpec => []CallerHeadersHarmless
<1>1. PipelineInv => CallerHeadersHarmless
  <2> SUFFICES ASSUME PipelineInv, Sent
               PROVE  /\ outbound.headers[Lower(InjectionHeader(outbound.route))] = "av"
                      /\ \A h \in DOMAIN outbound.headers :
                            outbound.headers[h] = "caller" =>
                                h \in ToSet(outbound.route.requestHeaders) \ Forbidden
    BY DEF CallerHeadersHarmless
  <2>1. Loaded(config, served) /\ outbound.route \in served
        /\ outbound.headers = OutboundHeaders(outbound.route, outbound.request.headers)
    BY DEF PipelineInv, Sent, Carries, Proxied
  <2>2. ToSet(outbound.route.requestHeaders) \cap Forbidden = {}
    BY <2>1, RouteHeaders
  <2> QED  BY <2>1, <2>2 DEF OutboundHeaders
<1> QED  BY <1>1, PipelineInvariant, PTL

\* validate_proxy_route: a route with WebSockets is in the catalog.
LEMMA WebSocketRoutesListed ==
    ASSUME Loaded(config, served), NEW r \in served, r.websocket # Absent
    PROVE  \E e \in FromConfig(served, config.tunnels) : e.name = r.name
<1>1. ValidateProxyRoute(r, InsecureConnectorHttp(config), config.transparent # Absent)
  BY Zenon DEF Loaded, Validate
<1>2. ValidWebSocket(r, config.transparent # Absent)
  BY Zenon, <1>1, RouteChecked
<1>3. config.transparent # Absent /\ StandardHttps(r.url)
  BY <1>2, SMT DEF ValidWebSocket
<1>4. FromConfig(served, config.tunnels) # Absent
  BY <1>3, CatalogAccepted
<1>5. FromConfig(served, config.tunnels) = Destinations(served, config.tunnels)
  BY <1>4 DEF FromConfig
<1>6. RouteEntry(r) \in Destinations(served, config.tunnels)
  BY <1>3 DEF Destinations
<1>7. RouteEntry(r).name = r.name
  BY DEF RouteEntry
<1> QED  BY <1>5, <1>6, <1>7

\* A WebSocket upgrade goes upstream only in a tunnel, as a GET without a body,
\* from an origin of the route's list; and routes with WebSockets have a tunnel.
THEOREM UpgradesAreAllowed == PipelineSpec => []UpgradesOnlyWhereAllowed
<1>1. PipelineInv => UpgradesOnlyWhereAllowed
  <2> SUFFICES ASSUME PipelineInv PROVE UpgradesOnlyWhereAllowed
    OBVIOUS
  <2>1. ASSUME Sent, outbound.websocket
        PROVE  /\ connection # Absent /\ outbound.route.websocket # Absent
               /\ outbound.request.method = "GET" /\ outbound.request.body = <<>>
               /\ \A o \in ToSet(Values(outbound.request.headers, "origin")) :
                     o \in outbound.route.websocket.origins
    <3> DEFINE headers == outbound.request.headers
               origins == Values(headers, "origin")
    <3>1. Proxied(outbound)
      BY <2>1 DEF PipelineInv, Sent, Carries
    <3>2. /\ connection # Absent /\ WebSocketAdmitted(outbound.route, outbound.request)
          /\ outbound.request.method = "GET" /\ outbound.request \in Requests(config)
      BY <2>1, <3>1, Zenon DEF Proxied
    <3>3. ValidHandshake(headers, outbound.route.websocket)
      BY <3>2 DEF WebSocketAdmitted
    <3>4. Len(origins) <= 1 /\ (origins # <<>> => Head(origins) \in outbound.route.websocket.origins)
      BY <3>3, Zenon DEF ValidHandshake
    <3>5. \E S : origins \in Seq(S)
      BY <3>2, TrafficAssumption DEF Values, PipelineInv
    <3> HIDE DEF origins, headers
    <3>6. PICK S : origins \in Seq(S)  BY <3>5
    <3>7. \A o \in ToSet(origins) : o \in outbound.route.websocket.origins
      BY <3>4, <3>6 DEF ToSet
    <3> QED  BY <3>2, <3>7 DEF WebSocketAdmitted, origins, headers
  <2>2. pipeline = "serving" =>
          \A r \in served : r.websocket # Absent =>
              \E e \in FromConfig(served, config.tunnels) : e.name = r.name
    BY WebSocketRoutesListed DEF PipelineInv
  <2> QED  BY <2>1, <2>2, Zenon DEF UpgradesOnlyWhereAllowed
<1> QED  BY <1>1, PipelineInvariant, PTL
=============================================================================
