--------------------------- MODULE PasswordSlots ---------------------------
(***************************************************************************)
(* Basic authentication: authorize_basic of src/src/auth.rs.               *)
(*                                                                         *)
(* A request looks up the password hash of its user, queues for one of the *)
(* permits, and verifies the password on a blocking thread while it holds  *)
(* the permit.  A dropped request gives its permit back, but its thread    *)
(* goes on.  Where the user is unknown the request compares another hash,  *)
(* so that it takes as long.                                               *)
(***************************************************************************)
EXTENDS WireValues, WaitQueues, Integers, Sequences, SequencesExt, FiniteSets

CONSTANTS
    BasicRequests,      \* concurrent requests
    FileUsers,          \* users of the configuration, in its order
    StoreUsers,         \* enabled users of the managed store
    Strangers,          \* user names that neither knows
    BasicPermits        \* BASIC_AUTH_MAX_CONCURRENCY

ASSUME PasswordSlotsAssumption == BasicPermits \in Nat \ {0} /\ IsFiniteSet(BasicRequests)

VARIABLES
    managed,        \* does this instance have a store?
    attempt,        \* what each request is doing
    permitQueue,    \* requests waiting for a permit, first come first served
    permits,        \* free permits
    unattended      \* verifications that outlived their request

passwordVars == <<managed, attempt, permitQueue, permits, unattended>>

BasicUsers == ToSet(FileUsers) \cup StoreUsers
NoAttempt == [pc |-> "idle"]

PasswordInit ==
    /\ managed \in BOOLEAN
    /\ attempt = [r \in BasicRequests |-> NoAttempt]
    /\ permitQueue = <<>> /\ permits = BasicPermits /\ unattended = 0

\* The user whose hash is found for a name.
Requested(user) ==
    IF user \in (IF managed THEN StoreUsers ELSE ToSet(FileUsers)) THEN user ELSE Absent

\* The user whose hash is compared.  Absent is the dummy hash.
Comparison(user) ==
    CASE Requested(user) # Absent -> Requested(user)
      [] Requested(user) = Absent /\ FileUsers # <<>> -> Head(FileUsers)
      [] OTHER -> Absent

\* A password is represented by the user it belongs to.
ReceiveBasic(r, user, password) ==
    /\ attempt[r] = NoAttempt
    /\ attempt' = [attempt EXCEPT ![r] =
                      [pc |-> "queued", user |-> user, password |-> password]]
    /\ permitQueue' = Append(permitQueue, r)
    /\ UNCHANGED <<managed, permits, unattended>>

AcquirePermit(r) ==
    /\ permitQueue # <<>> /\ Head(permitQueue) = r /\ permits > 0
    /\ permitQueue' = Tail(permitQueue) /\ permits' = permits - 1
    /\ attempt' = [attempt EXCEPT ![r].pc = "verifying"]
    /\ UNCHANGED <<managed, unattended>>

\* valid && requested.is_some()
Accepts(user, password) == Comparison(user) = password /\ Requested(user) # Absent

Verified(r) ==
    /\ attempt[r].pc = "verifying"
    /\ permits' = permits + 1
    /\ attempt' = [attempt EXCEPT ![r].pc =
           IF Accepts(attempt[r].user, attempt[r].password) THEN "accepted" ELSE "refused"]
    /\ UNCHANGED <<managed, permitQueue, unattended>>

\* BASIC_AUTH_QUEUE_TIMEOUT has passed.
QueueTimesOut(r) ==
    /\ attempt[r].pc = "queued"
    /\ permitQueue' = Leaves(permitQueue, r)
    /\ attempt' = [attempt EXCEPT ![r].pc = "refused"]
    /\ UNCHANGED <<managed, permits, unattended>>

\* Mutation: a request that goes away keeps its permit.
KeepsPermit(r) == 0

\* What a request that goes away gives back.
PermitOf(r) == IF attempt[r].pc = "verifying" THEN 1 ELSE 0

DropAttempt(r) ==
    /\ attempt[r].pc \in {"queued", "verifying"}
    /\ permitQueue' = Leaves(permitQueue, r)
    /\ permits' = permits + PermitOf(r)
    /\ unattended' = IF attempt[r].pc = "verifying" THEN unattended + 1 ELSE unattended
    /\ unattended' <= Cardinality(BasicRequests)        \* bound
    /\ attempt' = [attempt EXCEPT ![r] = NoAttempt]
    /\ UNCHANGED managed

UnattendedEnds ==
    /\ unattended > 0 /\ unattended' = unattended - 1
    /\ UNCHANGED <<managed, attempt, permitQueue, permits>>

AnswerBasic(r) ==
    /\ attempt[r].pc \in {"accepted", "refused"}
    /\ attempt' = [attempt EXCEPT ![r] = NoAttempt]
    /\ UNCHANGED <<managed, permitQueue, permits, unattended>>

PasswordNext ==
    \/ UnattendedEnds
    \/ \E r \in BasicRequests :
          \/ \E user \in BasicUsers \cup Strangers, password \in BasicUsers :
                ReceiveBasic(r, user, password)
          \/ AcquirePermit(r) \/ Verified(r) \/ QueueTimesOut(r) \/ DropAttempt(r)
          \/ AnswerBasic(r)

PasswordSpec == PasswordInit /\ [][PasswordNext]_passwordVars
-----------------------------------------------------------------------------
(* A request is accepted only as a user this instance knows, with that     *)
(* user's password: the hash that authorize_basic compares for an unknown  *)
(* name is somebody else's and lets nobody in.                             *)
AcceptedOwnPassword ==
    \A r \in BasicRequests : attempt[r].pc = "accepted" =>
        /\ attempt[r].user = attempt[r].password
        /\ attempt[r].user \in (IF managed THEN StoreUsers ELSE ToSet(FileUsers))

(* No order of answers, timeouts and dropped requests loses or makes a     *)
(* permit, and every free permit is there for the first in the queue.      *)
PermitsConserved ==
    /\ permits + Cardinality({r \in BasicRequests : attempt[r].pc = "verifying"})
         = BasicPermits
    /\ \A i \in DOMAIN permitQueue : attempt[permitQueue[i]].pc = "queued"

(* authorize_basic accepts nobody wrongly and leaks no permit, in          *)
(* whatever order the queue, the verifications and dropped connections     *)
(* take turns.                                                             *)
BasicSound == AcceptedOwnPassword /\ PermitsConserved

(* "password verification is limited to two concurrent jobs" (README.md).  *)
(* Not so once a request is dropped while its password is verified.        *)
VerificationBounded ==
    unattended + Cardinality({r \in BasicRequests : attempt[r].pc = "verifying"})
        <= BasicPermits
=============================================================================
