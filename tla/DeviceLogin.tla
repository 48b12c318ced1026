---------------------------- MODULE DeviceLogin -----------------------------
(***************************************************************************)
(* `av login` and `av logout`: the device flow of login in src/src/main.rs *)
(* and the kernel keyring of src/src/keyring.rs, for terminals that run    *)
(* them side by side.  The keyring holds one key of AV's description; each *)
(* keyctl command is one step, a search and the command that uses what it  *)
(* found are two.                                                          *)
(***************************************************************************)
EXTENDS WireValues, Integers

CONSTANTS
    Terminals,
    ExpiresIn,          \* expires_in of the device code, in seconds
    PollIntervals,      \* intervals the provider may ask for, zero included
    SlowDown,           \* what a slow_down adds: five seconds
    MaxSlowDowns        \* bound: slow_down answers to one login

ASSUME DeviceLoginAssumption ==
    ExpiresIn \in Nat /\ PollIntervals \subseteq Nat /\ SlowDown \in Nat /\ MaxSlowDowns \in Nat

VARIABLES
    key,        \* the key: [id, token], or Absent
    nextKey,    \* ids of keys are not used twice
    terminal

loginVars == <<key, nextKey, terminal>>

NoCommand == [pc |-> "idle", command |-> "none", code |-> "none", interval |-> 0,
              sleep |-> 0, left |-> 0, found |-> Absent, slowed |-> 0]

LoginInit ==
    /\ key = Absent /\ nextKey = 1
    /\ terminal = [t \in Terminals |-> NoCommand]

Now(t, pc) == terminal' = [terminal EXCEPT ![t].pc = pc]
-----------------------------------------------------------------------------
(* The device flow. *)

AtLeast1(n) == IF n > 1 THEN n ELSE 1

BeginLogin(t, interval) ==
    /\ terminal[t].pc = "idle"
    /\ terminal' = [terminal EXCEPT ![t] = [NoCommand EXCEPT
        !.pc = "loop", !.command = "login", !.code = "pending", !.left = ExpiresIn,
        !.interval = AtLeast1(interval)]]
    /\ UNCHANGED <<key, nextKey>>

BeforeDeadline(t) == terminal[t].left > 0

\* The deadline is looked at before the sleep, not after it.
Loop(t) ==
    /\ terminal[t].pc = "loop"
    /\ terminal' = [terminal EXCEPT ![t] =
        IF BeforeDeadline(t) THEN [@ EXCEPT !.pc = "sleep", !.sleep = terminal[t].interval]
                             ELSE [@ EXCEPT !.pc = "failed"]]
    /\ UNCHANGED <<key, nextKey>>

\* The person approves or denies the code; the provider lets it expire.
Decide(t, decision) ==
    /\ terminal[t].code = "pending" /\ terminal[t].left > 0
    /\ terminal' = [terminal EXCEPT ![t].code = decision]
    /\ UNCHANGED <<key, nextKey>>

Slower(t) == terminal[t].interval + SlowDown

Poll(t) ==
    LET s == terminal[t]
    IN /\ s.pc = "sleep" /\ s.sleep = 0
       /\ \/ /\ s.code = "approved"
             /\ Now(t, "search")
          \/ /\ s.code = "pending"      \* authorization_pending, by the provider's clock
             /\ Now(t, "loop")
          \/ /\ s.code = "pending" /\ s.slowed < MaxSlowDowns
             /\ terminal' = [terminal EXCEPT ![t] = [@ EXCEPT
                    !.pc = "loop", !.interval = Slower(t), !.slowed = @ + 1]]
          \/ /\ s.code = "denied" \/ s.left = 0       \* access_denied, expired_token
             /\ Now(t, "failed")
       /\ UNCHANGED <<key, nextKey>>

\* The provider cannot be reached, or answers with any other status or error.
PollFails(t) ==
    /\ terminal[t].pc = "sleep" /\ terminal[t].sleep = 0
    /\ Now(t, "failed")
    /\ UNCHANGED <<key, nextKey>>
-----------------------------------------------------------------------------
(* keyring::store and keyring::remove. *)

BeginLogout(t) ==
    /\ terminal[t].pc = "idle"
    /\ terminal' = [terminal EXCEPT ![t] = [NoCommand EXCEPT !.pc = "search",
                                                             !.command = "logout"]]
    /\ UNCHANGED <<key, nextKey>>

Search(t) ==
    /\ terminal[t].pc = "search"
    /\ terminal' = [terminal EXCEPT ![t] = [@ EXCEPT
        !.found = IF key = Absent THEN Absent ELSE key.id, !.pc = "unlink"]]
    /\ UNCHANGED <<key, nextKey>>

AfterUnlink(t) == IF terminal[t].command = "login" THEN "padd" ELSE "done"

\* A key that is gone cannot be unlinked: logout fails, store goes on.
Unlink(t) ==
    LET found == terminal[t].found
        there == key # Absent /\ found # Absent /\ (key # Absent => key.id = found)
    IN /\ terminal[t].pc = "unlink"
       /\ key' = IF there THEN Absent ELSE key
       /\ Now(t, IF there \/ found = Absent \/ terminal[t].command = "login"
                 THEN AfterUnlink(t) ELSE "failed")
       /\ UNCHANGED nextKey

\* padd adds the key, or replaces what the one of this description holds.
KeyAdded(t) ==
    IF key = Absent THEN key' = [id |-> nextKey, token |-> t] /\ nextKey' = nextKey + 1
                    ELSE key' = [key EXCEPT !.token = t] /\ UNCHANGED nextKey

Padd(t) ==
    /\ terminal[t].pc = "padd"
    /\ KeyAdded(t)
    /\ Now(t, "done")

\* Mutation: the exit status of keyctl padd is not looked at.
StatusIgnored == "done"

Rejected == "failed"

PaddFails(t) ==
    /\ terminal[t].pc = "padd"
    /\ Now(t, Rejected)
    /\ UNCHANGED <<key, nextKey>>
-----------------------------------------------------------------------------
Later(s) == [s EXCEPT !.sleep = IF @ > 0 THEN @ - 1 ELSE 0, !.left = IF @ > 0 THEN @ - 1 ELSE 0]

\* A sleep that is over is acted on within the second.
LoginTick ==
    /\ \A t \in Terminals : terminal[t].pc = "sleep" => terminal[t].sleep > 0
    /\ terminal' = [t \in Terminals |->
        IF terminal[t].pc \in {"loop", "sleep"} THEN Later(terminal[t]) ELSE terminal[t]]
    /\ UNCHANGED <<key, nextKey>>

LoginStep(t) ==
    \/ Loop(t) \/ Poll(t) \/ PollFails(t)
    \/ Search(t) \/ Unlink(t) \/ Padd(t) \/ PaddFails(t)

LoginNext ==
    \/ LoginTick
    \/ \E t \in Terminals :
        \/ \E interval \in PollIntervals : BeginLogin(t, interval)
        \/ \E decision \in {"approved", "denied"} : Decide(t, decision)
        \/ BeginLogout(t) \/ LoginStep(t)

\* Time passes and a command is scheduled; nobody need approve a code.
LoginFairness == WF_loginVars(LoginTick) /\ \A t \in Terminals : WF_loginVars(LoginStep(t))

LoginSpec == LoginInit /\ [][LoginNext]_loginVars /\ LoginFairness
-----------------------------------------------------------------------------
Settled == \A t \in Terminals : terminal[t].pc \in {"idle", "done"}

(* A login that reported success has left a token in the keyring when every *)
(* command has ended (Settled), whoever else logged in meanwhile, unless    *)
(* someone logged out or a login failed at the keyring.                     *)
LoginKept ==
    LET loggedOut == \E t \in Terminals : terminal[t].command = "logout"
        loggedIn == \E t \in Terminals : terminal[t].pc = "done"
    IN loggedIn /\ ~loggedOut => key # Absent

(* Every login ends, with a session or without, though nobody ever answers  *)
(* the code.                                                                *)
LoginEnds == \A t \in Terminals :
    terminal[t].pc = "loop" ~> terminal[t].pc \in {"done", "failed"}

(* Logins end, and do not undo one another (login and keyring::store).     *)
LoginsSettle == [](Settled => LoginKept) /\ LoginEnds
=============================================================================
