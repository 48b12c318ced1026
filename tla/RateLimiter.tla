---------------------------- MODULE RateLimiter ----------------------------
(***************************************************************************)
(* The token bucket in front of the API and of CONNECT: ApiRateLimiter of  *)
(* src/src/server.rs.  The tokens are an f64 there; here they are counted  *)
(* in parts, of which TokenParts make a token and RateParts are refilled   *)
(* per unit of time.                                                       *)
(***************************************************************************)
EXTENDS Integers, Sequences

CONSTANTS
    TokenParts,     \* parts of a token
    RateParts,      \* rate_per_second, in parts per unit of time
    Burst,          \* capacity, in tokens
    MaxLimiterTime  \* bound

ASSUME RateLimiterAssumption ==
    {TokenParts, RateParts, Burst} \subseteq Nat \ {0} /\ MaxLimiterTime \in Nat

VARIABLES
    limiterNow,
    bucket, lastRefill,     \* ApiRateLimitState
    admitted,               \* when each admitted request was admitted
    turnedAway              \* the last request was refused

limiterVars == <<limiterNow, bucket, lastRefill, admitted, turnedAway>>

LimiterInit ==
    /\ limiterNow = 0 /\ lastRefill = 0 /\ bucket = Burst * TokenParts
    /\ admitted = <<>> /\ turnedAway = FALSE

LimiterTick ==
    /\ limiterNow < MaxLimiterTime /\ limiterNow' = limiterNow + 1
    /\ turnedAway' = FALSE
    /\ UNCHANGED <<bucket, lastRefill, admitted>>

Lesser(a, b) == IF a < b THEN a ELSE b

\* Mutation: the bucket has no upper bound.
RefillsForever == bucket + (limiterNow - lastRefill) * RateParts

Refilled == Lesser(bucket + (limiterNow - lastRefill) * RateParts, Burst * TokenParts)

\* try_acquire holds the state's mutex and reads the clock under it.
TryAcquire ==
    /\ lastRefill' = limiterNow
    /\ IF Refilled < TokenParts
       THEN /\ bucket' = Refilled /\ turnedAway' = TRUE /\ UNCHANGED admitted
       ELSE /\ bucket' = Refilled - TokenParts /\ turnedAway' = FALSE
            /\ admitted' = Append(admitted, limiterNow)
    /\ UNCHANGED limiterNow

LimiterNext == LimiterTick \/ TryAcquire

LimiterSpec == LimiterInit /\ [][LimiterNext]_limiterVars
-----------------------------------------------------------------------------
(* Over any stretch of time no more requests are admitted than the burst   *)
(* and what the rate refills in that time.                                 *)
WithinRate ==
    \A i, j \in DOMAIN admitted : i <= j =>
        (j - i + 1) * TokenParts <= Burst * TokenParts + (admitted[j] - admitted[i]) * RateParts

(* A request is refused only if one more would have exceeded that over     *)
(* some stretch that ends now: refusals and odd intervals lose no refill.  *)
RefusedOnlyWhenSpent ==
    turnedAway =>
        \E i \in DOMAIN admitted :
            (Len(admitted) - i + 2) * TokenParts
                > Burst * TokenParts + (limiterNow - admitted[i]) * RateParts

(* The bucket admits exactly what burst and rate allow, neither more nor   *)
(* less (try_acquire).                                                     *)
BucketExact == WithinRate /\ RefusedOnlyWhenSpent
=============================================================================
