--------------------------- MODULE SecretBackends ---------------------------
(***************************************************************************)
(* Fetching a profile's secrets from its backend: Connector::acquire of    *)
(* src/src/connector.rs over infisical.rs, openbao.rs and                  *)
(* google_secret_manager.rs.                                               *)
(*                                                                         *)
(* A fetch first needs a backend token.  A connector that logs in keeps    *)
(* its token in a cache behind a mutex that it holds over the login; one   *)
(* that is given a token reads its file.  The backend then answers, and    *)
(* the answer is decoded and cut down to the exports of the profile.       *)
(*                                                                         *)
(* The cache counts the seconds it has left (left), the backend those the  *)
(* token has left (life); SecondsPass counts both down.                    *)
(***************************************************************************)
EXTENDS WireValues, WaitQueues, Integers, Sequences, SequencesExt, FiniteSets, Functions

CONSTANTS
    Fetches,            \* concurrent fetches
    Sources,            \* [kind, login, dynamic, allowed, exports] of a profile
    Answers(_),         \* what a backend of a kind may answer
    TokenLifetimes,     \* lifetimes the backend gives its tokens
    OpenBaoMargin,      \* the 30 s of OpenBaoConnector::authenticate
    InfisicalMargin,    \* the 60 s of InfisicalConnector::authenticate
    ClientTimeout,      \* the 20 s of both HTTP clients
    MaxLeaseDuration,   \* the 24 h of lease_expiry
    LeaseSlack          \* the 60 s parse_dynamic_expiry adds

ASSUME SecretBackendsAssumption ==
    /\ TokenLifetimes \subseteq Nat /\ ClientTimeout \in Nat \ {0}
    /\ {OpenBaoMargin, InfisicalMargin, MaxLeaseDuration, LeaseSlack} \subseteq Nat
    /\ OpenBaoMargin > ClientTimeout /\ InfisicalMargin > ClientTimeout
    /\ Absent \notin 0..(MaxLeaseDuration + LeaseSlack)

\* Config::validate: dynamic profiles and those of Google Secret Manager have
\* exports, and none is both.
ASSUME SourcesAssumption ==
    \A s \in Sources :
        /\ s.kind \in {"openbao", "infisical", "google"}
        /\ s.exports = [name \in DOMAIN s.exports |-> s.exports[name]]
        /\ s.dynamic \/ s.kind = "google" => DOMAIN s.exports # {}
        /\ ~(s.dynamic /\ s.kind = "google")

\* A value that was decoded as text is text.
ASSUME AnswersAssumption ==
    \A s \in Sources : \A a \in Answers(s.kind) :
        /\ a.fields # Malformed => \A k \in DOMAIN a.fields : a.fields[k].text # Malformed
        /\ a.wrapped # Absent => \A k \in DOMAIN a.wrapped : a.wrapped[k].text # Malformed
        /\ Len(a.listed) \in Nat
        /\ \A i \in 1..Len(a.listed) : a.listed[i][2] # Malformed

VARIABLES
    source,         \* the profile, with its backend, that is fetched
    tokenCache,     \* CachedToken, or Absent
    lockQueue,      \* fetches at the mutex: the first holds it
    fetch           \* what each fetch is doing

backendVars == <<source, tokenCache, lockQueue, fetch>>

NoFetch == [pc |-> "idle"]
Failed == [pc |-> "failed"]
WithToken(life, ttl) == [pc |-> "authenticated", life |-> life, ttl |-> ttl]

BackendInit ==
    /\ source \in Sources
    /\ tokenCache = Absent /\ lockQueue = <<>>
    /\ fetch = [f \in Fetches |-> NoFetch]
-----------------------------------------------------------------------------
(* Tokens *)

\* Google Secret Manager's client authenticates by itself.
Acquire(f) ==
    /\ fetch[f] = NoFetch
    /\ IF source.login
       THEN /\ fetch' = [fetch EXCEPT ![f] = [pc |-> "waiting"]]
            /\ lockQueue' = Append(lockQueue, f)
       ELSE /\ \E result \in {WithToken(Absent, Absent), Failed} : fetch' = [fetch EXCEPT ![f] = result]
            /\ UNCHANGED lockQueue
    /\ UNCHANGED <<source, tokenCache>>

HasLock(f) == lockQueue # <<>> /\ Head(lockQueue) = f

UseCached(f) ==
    /\ HasLock(f) /\ fetch[f].pc = "waiting"
    /\ tokenCache # Absent /\ tokenCache.left > 0
    /\ fetch' = [fetch EXCEPT ![f] = WithToken(tokenCache.life, tokenCache.ttl)]
    /\ lockQueue' = Tail(lockQueue)
    /\ UNCHANGED <<source, tokenCache>>

\* The credential files are read first: an unreadable one ends the fetch.
StartLogin(f) ==
    /\ HasLock(f) /\ fetch[f].pc = "waiting"
    /\ tokenCache # Absent => tokenCache.left = 0
    /\ \/ /\ fetch' = [fetch EXCEPT ![f] = [pc |-> "login", elapsed |-> 0]]
          /\ UNCHANGED lockQueue
       \/ fetch' = [fetch EXCEPT ![f] = Failed] /\ lockQueue' = Tail(lockQueue)
    /\ UNCHANGED <<source, tokenCache>>

\* The backend issues a token and answers; the answer is under way.
IssueToken(f, ttl) ==
    /\ fetch[f].pc = "login"
    /\ fetch' = [fetch EXCEPT ![f] =
           [pc |-> "issued", elapsed |-> @.elapsed, life |-> ttl, ttl |-> ttl]]
    /\ UNCHANGED <<source, tokenCache, lockQueue>>

Greater(a, b) == IF a > b THEN a ELSE b

OpenBaoLifetime(ttl) == Greater(ttl - OpenBaoMargin, 1)

InfisicalLifetime(ttl) == Greater(ttl - InfisicalMargin, 1)

\* Mutation: the token is kept for its whole life, without a margin.
CachesWholeLife(ttl) == Greater(ttl, 1)

\* For how long the token is kept, counted from the answer.
Lifetime(ttl) ==
    IF source.kind = "openbao" THEN OpenBaoLifetime(ttl) ELSE InfisicalLifetime(ttl)

StoreToken(f) ==
    /\ fetch[f].pc = "issued"
    /\ tokenCache' = [left |-> Lifetime(fetch[f].ttl), life |-> fetch[f].life,
                      ttl |-> fetch[f].ttl]
    /\ fetch' = [fetch EXCEPT ![f] = WithToken(@.life, @.ttl)]
    /\ lockQueue' = Tail(lockQueue)
    /\ UNCHANGED source

\* An error status, an answer that does not decode or an empty token; the
\* cache stays as it was.
LoginFails(f) ==
    /\ fetch[f].pc \in {"login", "issued"}
    /\ fetch' = [fetch EXCEPT ![f] = Failed]
    /\ lockQueue' = Tail(lockQueue)
    /\ UNCHANGED <<source, tokenCache>>

\* The HTTP client gives up.
Overdue(f) == fetch[f].pc \in {"login", "issued"} /\ fetch[f].elapsed = ClientTimeout

LoginTimesOut(f) == Overdue(f) /\ LoginFails(f)

\* The caller of the fetch goes away: its guard is dropped.
DropFetch(f) ==
    /\ fetch[f].pc \in {"waiting", "login", "issued"}
    /\ fetch' = [fetch EXCEPT ![f] = NoFetch]
    /\ lockQueue' = Leaves(lockQueue, f)
    /\ UNCHANGED <<source, tokenCache>>

Less(n) == IF n > 0 THEN n - 1 ELSE 0

SecondsPass ==
    /\ \A f \in Fetches : fetch[f].pc \in {"login", "issued"} => fetch[f].elapsed < ClientTimeout
    /\ tokenCache' = IF tokenCache = Absent THEN Absent
                     ELSE [tokenCache EXCEPT !.left = Less(@), !.life = Less(@)]
    /\ fetch' = [f \in Fetches |->
           CASE fetch[f].pc = "login"  -> [fetch[f] EXCEPT !.elapsed = @ + 1]
             [] fetch[f].pc = "issued" -> [fetch[f] EXCEPT !.elapsed = @ + 1, !.life = Less(@)]
             [] OTHER -> fetch[f]]
    /\ UNCHANGED <<source, lockQueue>>
-----------------------------------------------------------------------------
(* Answers.  A value is [type, text], where text is what the value prints  *)
(* as; Malformed is whatever is not of the shape the code decodes.         *)

Acquisition(values, lease) == [values |-> values, lease |-> lease]

DecodeKeys(fields, keys) ==
    LET kept == {k \in keys : fields[k].type # "null"}
    IN IF \E k \in kept : fields[k].type = "nested" THEN Malformed
       ELSE [k \in kept |-> fields[k].text]

\* Mutation: the profile's allowed keys are not applied.
DecodeAllFields(fields, allowed) == DecodeKeys(fields, DOMAIN fields)

DecodeFields(fields, allowed) ==
    DecodeKeys(fields, {k \in DOMAIN fields : allowed = {} \/ k \in allowed})

\* decode_secret_data: the object under "data", where there is one, is the secret.
DecodeSecretData(answer) ==
    IF answer.fields = Malformed THEN Malformed
    ELSE DecodeFields(IF answer.wrapped = Absent THEN answer.fields ELSE answer.wrapped,
                      source.allowed)

\* lease_expiry
LeaseExpiry(duration) == IF duration \in 1..MaxLeaseDuration THEN duration ELSE Malformed

DecodeSecretResponse(answer) ==
    LET values == DecodeSecretData(answer)
    IN CASE values = Malformed -> Malformed
         [] values # Malformed /\ ~source.dynamic ->
              IF answer.leaseId # Absent \/ answer.renewable \/ answer.duration > 0
              THEN Malformed ELSE Acquisition(values, Absent)
         [] OTHER ->
              IF answer.leaseId \in {Absent, Malformed} \/ LeaseExpiry(answer.duration) = Malformed
              THEN Malformed ELSE Acquisition(values, LeaseExpiry(answer.duration))

AcquireOpenBao(answer) ==
    CASE answer.status = "missing" -> Acquisition(<<>>, Absent)
      [] answer.status = "ok" -> DecodeSecretResponse(answer)
      [] OTHER -> Malformed

\* parse_dynamic_expiry, in seconds from now
ParseDynamicExpiry(seconds) ==
    IF seconds \in 0..(MaxLeaseDuration + LeaseSlack) THEN seconds ELSE Malformed

AcquireInfisicalDynamic(answer) ==
    LET values == IF answer.fields = Malformed THEN Malformed
                  ELSE DecodeKeys(answer.fields, DOMAIN answer.fields)
    IN IF \/ answer.status # "ok" \/ answer.leaseId \in {Absent, Malformed}
          \/ ParseDynamicExpiry(answer.duration) = Malformed \/ values = Malformed
       THEN Malformed ELSE Acquisition(values, ParseDynamicExpiry(answer.duration))

\* The secrets come as a list, imports included: the last of a name counts.
AcquireInfisicalStatic(answer) ==
    LET listed == answer.listed
        names == {k \in {listed[i][1] : i \in DOMAIN listed} :
                     source.allowed = {} \/ k \in source.allowed}
    IN CASE answer.status = "missing" -> Acquisition(<<>>, Absent)
         [] answer.status = "ok" ->
              Acquisition([k \in names |-> listed[SelectLastInSeq(listed, LAMBDA e : e[1] = k)][2]], Absent)
         [] OTHER -> Malformed

AcquireInfisical(answer) ==
    IF source.dynamic THEN AcquireInfisicalDynamic(answer) ELSE AcquireInfisicalStatic(answer)

\* GoogleSecretManagerConnector::access.  sum is the checksum that came with
\* the payload, crc the one of its bytes, text Malformed unless it is UTF-8.
Access(payload) ==
    IF payload = Absent THEN Malformed
    ELSE IF payload.size \in {"empty", "over 64 KiB"} \/ payload.sum # payload.crc
    THEN Malformed ELSE payload.text

AcquireGoogle(answer) ==
    LET values == [name \in DOMAIN source.exports |->
                      IF answer.status = "ok"
                      THEN Access(answer.payloads[source.exports[name].resource]) ELSE Malformed]
    IN IF Malformed \in Range(values) THEN Malformed ELSE Acquisition(values, Absent)

BackendField(name) == IF source.exports[name].field = Absent THEN name ELSE source.exports[name].field

\* Each export takes its field away: two exports of one field cannot both have it.
ApplyExports(values) ==
    LET names == DOMAIN source.exports
    IN CASE names = {} -> values
         [] \/ \E name \in names : BackendField(name) \notin DOMAIN values
            \/ \E name, other \in names : name # other /\ BackendField(name) = BackendField(other) -> Malformed
         [] OTHER -> [name \in names |-> values[BackendField(name)]]

\* What Connector::acquire makes of an answer.
Acquired(answer) ==
    LET acquisition == CASE source.kind = "openbao" -> AcquireOpenBao(answer)
                         [] source.kind = "infisical" -> AcquireInfisical(answer)
                         [] source.kind = "google" -> AcquireGoogle(answer)
    IN IF acquisition = Malformed THEN Malformed
       ELSE [acquisition EXCEPT !.values = ApplyExports(@)]

\* A backend takes no token it no longer knows.
Answer(f, answer) ==
    /\ fetch[f].pc = "authenticated"
    /\ fetch[f].life = 0 => answer.status = "error"
    /\ LET result == Acquired(answer)
       IN fetch' = [fetch EXCEPT ![f] =
              IF result = Malformed THEN Failed
              ELSE IF result.values = Malformed THEN Failed
              ELSE [pc |-> "acquired", result |-> result]]
    /\ UNCHANGED <<source, tokenCache, lockQueue>>

HandOver(f) ==
    /\ fetch[f].pc \in {"acquired", "failed"}
    /\ fetch' = [fetch EXCEPT ![f] = NoFetch]
    /\ UNCHANGED <<source, tokenCache, lockQueue>>

BackendNext ==
    \/ SecondsPass
    \/ \E f \in Fetches :
          \/ Acquire(f) \/ UseCached(f) \/ StartLogin(f) \/ StoreToken(f)
          \/ LoginFails(f) \/ LoginTimesOut(f) \/ DropFetch(f) \/ HandOver(f)
          \/ \E ttl \in TokenLifetimes : IssueToken(f, ttl)
          \/ \E answer \in Answers(source.kind) : Answer(f, answer)

\* Time passes and av's own steps are taken; a backend need not answer.
BackendFairness ==
    /\ WF_backendVars(SecondsPass)
    /\ \A f \in Fetches :
          /\ WF_backendVars(UseCached(f)) /\ WF_backendVars(StartLogin(f))
          /\ WF_backendVars(LoginTimesOut(f))

BackendSpec == BackendInit /\ [][BackendNext]_backendVars /\ BackendFairness
-----------------------------------------------------------------------------
(* A token whose lifetime exceeds the connector's margin has the margin    *)
(* less one client timeout left whenever authenticate returns it, however  *)
(* slow the login was and however old the cache is.                        *)
TokenLiveWhenReturned(f) ==
    fetch[f].pc = "authenticated" /\ fetch[f].life # Absent =>
        LET margin == IF source.kind = "openbao" THEN OpenBaoMargin ELSE InfisicalMargin
        IN fetch[f].ttl > margin => fetch[f].life >= margin - ClientTimeout

(* Only the fetch that has the lock of the cache logs in, so one login     *)
(* serves every fetch that queued behind it.                               *)
LoginsExclusive ==
    \A f \in Fetches : fetch[f].pc \in {"login", "issued"} => HasLock(f)

(* What acquire hands over is the profile's: exactly its exports, or else  *)
(* only its allowed keys, and a lease of bounded duration if and only if   *)
(* the profile is dynamic and the backend has the secret.                  *)
AcquiredWithinProfile ==
    \A f \in Fetches : fetch[f].pc = "acquired" =>
        LET result == fetch[f].result
        IN /\ source.exports # <<>> => DOMAIN result.values = DOMAIN source.exports
           /\ source.exports = <<>> /\ source.allowed # {} =>
                DOMAIN result.values \subseteq source.allowed
           /\ result.lease # Absent => result.lease <= MaxLeaseDuration + LeaseSlack
           /\ (result.lease # Absent) <=> source.dynamic
           /\ Malformed \notin Range(result.values)

(* Fetches queue behind one another's logins; none waits for ever, even if *)
(* the backend never answers.                                              *)
FetchesEnd ==
    \A f \in Fetches :
        fetch[f].pc \in {"waiting", "login", "issued"} ~>
            fetch[f].pc \notin {"waiting", "login", "issued"}

(* authenticate, which holds the cache's lock across the login, lets one   *)
(* fetch log in at a time and gives every fetch an end, and none a token   *)
(* about to die.                                                           *)
AuthenticationSound ==
    [](LoginsExclusive /\ \A f \in Fetches : TokenLiveWhenReturned(f)) /\ FetchesEnd
=============================================================================
