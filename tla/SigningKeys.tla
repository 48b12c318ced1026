---------------------------- MODULE SigningKeys ----------------------------
(***************************************************************************)
(* OIDC bearer tokens and the cache of the issuer's signing keys:          *)
(* authorize_oidc, find_jwk and refresh_jwks of src/src/auth.rs.           *)
(*                                                                         *)
(* A token whose key is not cached makes its request take the refresh      *)
(* mutex, fetch the keys unless there was an attempt within the cooldown,  *)
(* and look again.  Requests may be dropped at any await.  Elapsed time is *)
(* kept up to the cooldown, so that behaviours need no end.                *)
(***************************************************************************)
EXTENDS WireValues, Integers

CONSTANTS
    SigningKeyIds,
    BearerRequests,     \* concurrent requests
    BearerTokens,       \* tokens presented: [kid, algorithm, sound, claim]
    AllowedAlgorithms, AllowedGroups,
    JwksCooldown

ASSUME SigningKeysAssumption == JwksCooldown \in Nat \ {0}

VARIABLES
    published,      \* the keys the issuer publishes
    jwks,           \* the cached keys
    sinceAttempt,   \* elapsed since last_attempt, at most JwksCooldown
    refreshing,     \* the request that holds jwks_refresh during a fetch, or Absent
    bearer,         \* what each request is doing
    sinceFetch      \* history: elapsed since a fetch began, at most JwksCooldown

keyVars == <<published, jwks, sinceAttempt, refreshing, bearer, sinceFetch>>

NoBearer == [pc |-> "idle"]

\* Authenticator::new has fetched the keys and counts as an attempt.
KeysInit ==
    /\ published \in SUBSET SigningKeyIds \ {{}}
    /\ jwks = published
    /\ sinceAttempt = 0 /\ sinceFetch = 0
    /\ refreshing = Absent
    /\ bearer = [r \in BearerRequests |-> NoBearer]

Elapse(n) == IF n < JwksCooldown THEN n + 1 ELSE n

KeysTick ==
    /\ sinceAttempt' = Elapse(sinceAttempt) /\ sinceFetch' = Elapse(sinceFetch)
    /\ UNCHANGED <<published, jwks, refreshing, bearer>>

\* The issuer rotates its keys.
RotateKeys ==
    /\ published' \in SUBSET SigningKeyIds \ {{}}
    /\ UNCHANGED <<jwks, sinceAttempt, refreshing, bearer, sinceFetch>>
-----------------------------------------------------------------------------
\* claim_allows_group: an array of groups, or an object keyed by role
ClaimAllowsGroup(claim) ==
    claim.shape \in {"array", "object"} /\ claim.names \cap AllowedGroups # {}

\* The checks after the key is found; "sound" is what jsonwebtoken checks.
TokenAccepted(token) == token.sound /\ ClaimAllowsGroup(token.claim)

\* decode_header, the algorithm, and the first find_jwk.  An answered request is idle.
ReceiveBearer(r, token) ==
    /\ bearer[r] = NoBearer
    /\ token.algorithm \in AllowedAlgorithms
    /\ token.kid \notin jwks
    /\ bearer' = [bearer EXCEPT ![r] = [pc |-> "waiting", token |-> token]]
    /\ UNCHANGED <<published, jwks, sinceAttempt, refreshing, sinceFetch>>

\* last_attempt is set before the fetch, which may fail.
AttemptBegins == 0

\* Mutation: a request that the cooldown turns away restarts it.
AttemptPostponed == 0

\* last_attempt is left alone by a request that the cooldown turns away.
AttemptSkipped == sinceAttempt

\* refresh_jwks: the request has the mutex; within the cooldown it returns at once.
LockRefresh(r) ==
    /\ bearer[r].pc = "waiting" /\ refreshing = Absent
    /\ IF sinceAttempt < JwksCooldown
       THEN /\ sinceAttempt' = AttemptSkipped
            /\ bearer' = [bearer EXCEPT ![r].pc = "again"]
            /\ UNCHANGED <<refreshing, sinceFetch>>
       ELSE /\ sinceAttempt' = AttemptBegins /\ sinceFetch' = 0
            /\ refreshing' = r
            /\ bearer' = [bearer EXCEPT ![r].pc = "fetching"]
    /\ UNCHANGED <<published, jwks>>

\* The issuer answers with the keys of this moment; they arrive later.
ServeKeys(r) ==
    /\ bearer[r].pc = "fetching"
    /\ bearer' = [bearer EXCEPT ![r] =
                     [pc |-> "fetched", token |-> @.token, keys |-> published]]
    /\ UNCHANGED <<published, jwks, sinceAttempt, refreshing, sinceFetch>>

StoreKeys(r) ==
    /\ bearer[r].pc = "fetched"
    /\ jwks' = bearer[r].keys
    /\ refreshing' = Absent
    /\ bearer' = [bearer EXCEPT ![r] = [pc |-> "again", token |-> @.token]]
    /\ UNCHANGED <<published, sinceAttempt, sinceFetch>>

\* The second find_jwk; with or without the key the request is answered.
LookAgain(r) ==
    /\ bearer[r].pc = "again"
    /\ bearer' = [bearer EXCEPT ![r] =
           IF @.token.kid \in jwks /\ TokenAccepted(@.token)
           THEN [pc |-> "accepted", token |-> @.token] ELSE NoBearer]
    /\ UNCHANGED <<published, jwks, sinceAttempt, refreshing, sinceFetch>>

\* The accepted request is over.
Served(r) ==
    /\ bearer[r].pc = "accepted"
    /\ bearer' = [bearer EXCEPT ![r] = NoBearer]
    /\ UNCHANGED <<published, jwks, sinceAttempt, refreshing, sinceFetch>>

\* The fetch fails, or the caller goes away and the handler is dropped.
DropBearer(r) ==
    /\ bearer[r].pc \in {"waiting", "fetching", "fetched", "again"}
    /\ bearer' = [bearer EXCEPT ![r] = NoBearer]
    /\ refreshing' = IF refreshing = r THEN Absent ELSE refreshing
    /\ UNCHANGED <<published, jwks, sinceAttempt, sinceFetch>>

KeysNext ==
    \/ KeysTick \/ RotateKeys
    \/ \E r \in BearerRequests :
          \/ \E token \in BearerTokens : ReceiveBearer(r, token)
          \/ LockRefresh(r) \/ ServeKeys(r) \/ StoreKeys(r) \/ LookAgain(r)
          \/ Served(r) \/ DropBearer(r)

\* Time passes, callers keep presenting tokens, and again and again one of them
\* waits for the answer and the issuer gives it.
KeysFairness ==
    /\ WF_keyVars(KeysTick)
    /\ WF_keyVars(\E r \in BearerRequests, token \in BearerTokens : ReceiveBearer(r, token))
    /\ SF_keyVars(\E r \in BearerRequests : LockRefresh(r))
    /\ SF_keyVars(\E r \in BearerRequests : ServeKeys(r))
    /\ SF_keyVars(\E r \in BearerRequests : StoreKeys(r))
    /\ \A r \in BearerRequests : WF_keyVars(LookAgain(r) \/ Served(r))

KeysSpec == KeysInit /\ [][KeysNext]_keyVars /\ KeysFairness
-----------------------------------------------------------------------------
(* However many requests carry unknown keys, and whether or not the issuer *)
(* answers, two fetches begin at least a cooldown apart.                   *)
FetchesSpaced ==
    [][refreshing' # Absent /\ refreshing' # refreshing
          => sinceFetch = JwksCooldown]_keyVars

(* A key that the issuer keeps publishing is trusted in the end and stays  *)
(* so, although a refresh may be answered just before the key appears and  *)
(* then blocks the next one for the cooldown.                              *)
KeysCatchUp ==
    \A k \in SigningKeyIds : <>[](k \in published) => <>[](k \in jwks)

(* The keys follow the issuer's without letting callers drive the fetches  *)
(* (refresh_jwks): the cooldown neither leaks a fetch nor loses a key.     *)
KeysFollowIssuer == FetchesSpaced /\ KeysCatchUp
=============================================================================
