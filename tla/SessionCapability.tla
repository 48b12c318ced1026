------------------------- MODULE SessionCapability --------------------------
(***************************************************************************)
(* What a proxy session promises, without tables, handlers or transactions:*)
(* a capability is minted once for one owner and profile with an absolute  *)
(* end at most MaxLifetime away, its expiry moves only while it has not    *)
(* been revoked and never past that end, and a revocation is final.        *)
(* ProxySessions implements it.                                            *)
(***************************************************************************)
EXTENDS Integers

CONSTANTS
    Capabilities, Owners, Scopes,
    Unminted,       \* the value of a capability that does not exist yet
    MaxLifetime

VARIABLES
    clock,
    capability

capabilityVars == <<clock, capability>>

CapabilityInit ==
    /\ clock = 0
    /\ capability = [c \in Capabilities |-> Unminted]

Pass ==
    /\ clock' = clock + 1
    /\ UNCHANGED capability

Mint(c) ==
    /\ capability[c] = Unminted
    /\ \E owner \in Owners, scope \in Scopes, max \in 0 .. clock + MaxLifetime :
        \E expires \in 0 .. max :
            capability' = [capability EXCEPT ![c] =
                [subject |-> owner, profile |-> scope, expires |-> expires,
                 max |-> max, revoked |-> FALSE]]
    /\ UNCHANGED clock

Extend(c) ==
    /\ capability[c] # Unminted /\ ~capability[c].revoked
    /\ \E expires \in 0 .. capability[c].max :
        capability' = [capability EXCEPT ![c] =
            [subject |-> capability[c].subject, profile |-> capability[c].profile,
             expires |-> expires, max |-> capability[c].max, revoked |-> FALSE]]
    /\ UNCHANGED clock

\* Capabilities end together when what they rest on is withdrawn.
Withdraw(S) ==
    /\ \A c \in S : capability[c] # Unminted
    /\ capability' = [c \in Capabilities |->
        IF c \in S
        THEN [subject |-> capability[c].subject, profile |-> capability[c].profile,
              expires |-> capability[c].expires, max |-> capability[c].max,
              revoked |-> TRUE]
        ELSE capability[c]]
    /\ UNCHANGED clock

CapabilityNext ==
    \/ Pass
    \/ \E c \in Capabilities : Mint(c) \/ Extend(c)
    \/ \E S \in SUBSET Capabilities : Withdraw(S)

CapabilitySpec == CapabilityInit /\ [][CapabilityNext]_capabilityVars
=============================================================================
