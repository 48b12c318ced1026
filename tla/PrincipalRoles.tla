--------------------------- MODULE PrincipalRoles ---------------------------
(***************************************************************************)
(* Instance roles of a managed deployment: the tables av_owner_bootstrap,  *)
(* av_owners and av_principal_roles of src/src/store.rs, the statements    *)
(* every process runs against them at startup (migrate, bootstrap_owner),  *)
(* and the SetPrincipalRole handler of src/src/server.rs.                  *)
(*                                                                         *)
(* A transaction is a sequence of actions, one per SQL statement whose     *)
(* result the next statement depends on.  PostgreSQL runs them at READ     *)
(* COMMITTED: what a statement read may have changed when a later          *)
(* statement of the same transaction writes.  SQLite, behind a pool of one *)
(* connection, lets nothing happen between the first and the last          *)
(* statement of a transaction.                                             *)
(***************************************************************************)
EXTENDS FiniteSets, Integers

CONSTANTS
    Subjects,       \* authenticated identities that can hold a role
    Pods,           \* AV processes that may share the database
    Calls,          \* concurrent SetPrincipalRole handlers
    None,           \* the empty initial_owner_oidc_subject; no row; no caller
    Backend         \* "sqlite" or "postgres"

ASSUME RolesAssumption ==
    /\ IsFiniteSet(Subjects)
    /\ None \notin Subjects \cup Pods
    /\ Pods \cap Calls = {}
    /\ Backend \in {"sqlite", "postgres"}

VARIABLES
    role,           \* av_principal_roles: subject -> role, "none" = no row
    owners,         \* av_owners
    bootstrap,      \* the singleton row of av_owner_bootstrap
    pod,            \* where each process is in Store::connect
    call,           \* where each SetPrincipalRole handler is
    audit,          \* actors with a principal_role_changed audit event
    decision        \* history: the last role committed for a subject by a
                    \* SetPrincipalRole call: "never", "owner" or "other"

vars == <<role, owners, bootstrap, pod, call, audit, decision>>

Roles == {"owner", "operator", "auditor", "user"}

PodPcs == {"down", "migrate", "migrate_write", "bootstrap", "insert_owner",
           "role", "role_write", "up"}
CallPcs == {"idle", "authorized", "count", "write", "audit"}

TypeOK ==
    /\ role \in [Subjects -> Roles \cup {"none"}]
    /\ owners \subseteq Subjects
    /\ bootstrap \in Subjects \cup {None}
    /\ pod \in [Pods -> [pc : PodPcs,
                         configured : Subjects \cup {None},
                         snapshot : SUBSET Subjects]]
    /\ call \in [Calls -> [pc : CallPcs,
                           pod : Pods \cup {None},
                           actor : Subjects \cup {None},
                           subject : Subjects \cup {None},
                           role : Roles \cup {"none"}]]
    /\ audit \subseteq Subjects
    /\ decision \in [Subjects -> {"never", "owner", "other"}]

IdleCall == [pc |-> "idle", pod |-> None, actor |-> None, subject |-> None,
             role |-> "none"]
DownPod == [pc |-> "down", configured |-> None, snapshot |-> {}]

\* Managed mode starts from an empty database.
Init ==
    /\ role = [s \in Subjects |-> "none"]
    /\ owners = {}
    /\ bootstrap = None
    /\ pod = [p \in Pods |-> DownPod]
    /\ call = [c \in Calls |-> IdleCall]
    /\ audit = {}
    /\ decision = [s \in Subjects |-> "never"]

-----------------------------------------------------------------------------
(* The database.                                                           *)

\* Those in the middle of a transaction or of an INSERT ... SELECT.
Holders ==
    {c \in Calls : call[c].pc \in {"count", "write"}}
        \cup {p \in Pods : pod[p].pc \in {"migrate_write", "role_write"}}

\* x may run a statement now: SQLite serialises whole transactions.
DbFree(x) == Backend = "sqlite" => Holders \subseteq {x}

OwnerRoles == {s \in Subjects : role[s] = "owner"}

\* INSERT INTO av_principal_roles SELECT subject, 'owner' ...
\* ON CONFLICT DO UPDATE SET role = 'owner', for the subjects in S.
WithOwners(S) == [s \in Subjects |-> IF s \in S THEN "owner" ELSE role[s]]

-----------------------------------------------------------------------------
(* Store::connect: migrate, then bootstrap_owner, then serve.              *)

Goto(p, pc, rows) ==
    [pod EXCEPT ![p] = [pc |-> pc, configured |-> pod[p].configured,
                        snapshot |-> rows]]

Start(p, s) ==
    /\ pod[p].pc = "down"
    /\ pod' = [pod EXCEPT ![p] = [pc |-> "migrate", configured |-> s,
                                  snapshot |-> {}]]
    /\ UNCHANGED <<role, owners, bootstrap, call, audit, decision>>

\* MIGRATE_OWNERS, first half: the rows its SELECT sees.
MigrateRead(p) ==
    /\ pod[p].pc = "migrate"
    /\ DbFree(p)
    /\ pod' = Goto(p, "migrate_write", owners)
    /\ UNCHANGED <<role, owners, bootstrap, call, audit, decision>>

\* Without a configured owner the bootstrap is skipped.
AfterMigrate(p) == IF pod[p].configured = None THEN "up" ELSE "bootstrap"

\* Mutation: the role rows are left as they are.
MigratedRolesUntouched(p) == role

MigratedRoles(p) == WithOwners(pod[p].snapshot)

\* MIGRATE_OWNERS, second half: the upsert.
MigrateWrite(p) ==
    /\ pod[p].pc = "migrate_write"
    /\ DbFree(p)
    /\ role' = MigratedRoles(p)
    /\ pod' = Goto(p, AfterMigrate(p), {})
    /\ UNCHANGED <<owners, bootstrap, call, audit, decision>>

\* The singleton row.  PostgreSQL inserts it and the av_owners row in one
\* statement; SQLite returns rows_affected and inserts the owner afterwards.
BootstrapInsert(p) ==
    /\ pod[p].pc = "bootstrap"
    /\ DbFree(p)
    /\ IF bootstrap = None
       THEN /\ bootstrap' = pod[p].configured
            /\ IF Backend = "postgres"
               THEN /\ owners' = owners \cup {pod[p].configured}
                    /\ pod' = Goto(p, "role", {})
               ELSE /\ pod' = Goto(p, "insert_owner", {})
                    /\ UNCHANGED owners
       ELSE /\ pod' = Goto(p, "role", {})
            /\ UNCHANGED <<bootstrap, owners>>
    /\ UNCHANGED <<role, call, audit, decision>>

\* SQLite only: if inserted == 1, INSERT INTO av_owners.
BootstrapOwner(p) ==
    /\ pod[p].pc = "insert_owner"
    /\ DbFree(p)
    /\ owners' = owners \cup {pod[p].configured}
    /\ pod' = Goto(p, "role", {})
    /\ UNCHANGED <<role, bootstrap, call, audit, decision>>

\* The last statement of bootstrap_owner: SELECT ... WHERE subject = $1 ...
BootstrapRoleRead(p) ==
    /\ pod[p].pc = "role"
    /\ DbFree(p)
    /\ pod' = Goto(p, "role_write", owners \cap {pod[p].configured})
    /\ UNCHANGED <<role, owners, bootstrap, call, audit, decision>>

\* ... and its upsert.  The process now serves requests.
BootstrapRoleWrite(p) ==
    /\ pod[p].pc = "role_write"
    /\ DbFree(p)
    /\ role' = WithOwners(pod[p].snapshot)
    /\ pod' = Goto(p, "up", {})
    /\ UNCHANGED <<owners, bootstrap, call, audit, decision>>

\* The process ends, at any point.  Its open transactions are rolled back.
Crash(p) ==
    /\ pod[p].pc # "down"
    /\ pod' = [pod EXCEPT ![p] = DownPod]
    /\ call' = [c \in Calls |-> IF call[c].pod = p THEN IdleCall ELSE call[c]]
    /\ UNCHANGED <<role, owners, bootstrap, audit, decision>>

-----------------------------------------------------------------------------
(* ControlService::set_principal_role and Store::set_principal_role.       *)

\* require_owner lets the request through.
Authorize(c, p, actor, subject, r) ==
    /\ pod[p].pc = "up"
    /\ call[c].pc = "idle"
    /\ DbFree(c)
    /\ role[actor] = "owner"
    /\ call' = [call EXCEPT ![c] = [pc |-> "authorized", pod |-> p,
                                    actor |-> actor, subject |-> subject,
                                    role |-> r]]
    /\ UNCHANGED <<role, owners, bootstrap, pod, audit, decision>>

\* BEGIN; SELECT role.  Only the demotion of an owner counts the owners.
ReadCurrent(c) ==
    /\ call[c].pc = "authorized"
    /\ DbFree(c)
    /\ call' = [call EXCEPT ![c].pc =
         IF role[call[c].subject] = "owner" /\ call[c].role # "owner"
         THEN "count" ELSE "write"]
    /\ UNCHANGED <<role, owners, bootstrap, pod, audit, decision>>

\* Mutation: an off-by-one in the last-owner check.
LastOwnerOffByOne == Cardinality(OwnerRoles) < 1

\* SELECT COUNT(*) ... WHERE role = 'owner'
LastOwner == Cardinality(OwnerRoles) <= 1

\* The demotion of the last owner is refused.
CountOwners(c) ==
    /\ call[c].pc = "count"
    /\ DbFree(c)
    /\ call' = IF LastOwner
               THEN [call EXCEPT ![c] = IdleCall]
               ELSE [call EXCEPT ![c].pc = "write"]
    /\ UNCHANGED <<role, owners, bootstrap, pod, audit, decision>>

\* Mutation: a demotion leaves the av_owners row behind.
OwnersAfterKept(s, r) == IF r = "owner" THEN owners \cup {s} ELSE owners

OwnersAfter(s, r) == IF r = "owner" THEN owners \cup {s} ELSE owners \ {s}

\* The upsert of the role, the matching change of av_owners, COMMIT.
CommitRole(c) ==
    LET s == call[c].subject
        r == call[c].role
    IN  /\ call[c].pc = "write"
        /\ DbFree(c)
        /\ role' = [role EXCEPT ![s] = r]
        /\ owners' = OwnersAfter(s, r)
        /\ decision' = [decision EXCEPT
             ![s] = IF r = "owner" THEN "owner" ELSE "other"]
        /\ call' = [call EXCEPT ![c].pc = "audit"]
        /\ UNCHANGED <<bootstrap, pod, audit>>

\* audit_event, a statement of its own after the commit.
Audit(c) ==
    /\ call[c].pc = "audit"
    /\ DbFree(c)
    /\ audit' = audit \cup {call[c].actor}
    /\ call' = [call EXCEPT ![c] = IdleCall]
    /\ UNCHANGED <<role, owners, bootstrap, pod, decision>>

\* A statement fails or the caller goes away: the transaction is rolled back
\* (a failed audit_event leaves the committed role).
Abandon(c) ==
    /\ call[c].pc # "idle"
    /\ call' = [call EXCEPT ![c] = IdleCall]
    /\ UNCHANGED <<role, owners, bootstrap, pod, audit, decision>>

-----------------------------------------------------------------------------
PodStep(p) ==
    \/ \E s \in Subjects \cup {None} : Start(p, s)
    \/ MigrateRead(p)
    \/ MigrateWrite(p)
    \/ BootstrapInsert(p)
    \/ BootstrapOwner(p)
    \/ BootstrapRoleRead(p)
    \/ BootstrapRoleWrite(p)
    \/ Crash(p)

CallStep(c) ==
    \/ \E p \in Pods, actor \in Subjects, subject \in Subjects, r \in Roles :
          Authorize(c, p, actor, subject, r)
    \/ ReadCurrent(c)
    \/ CountOwners(c)
    \/ CommitRole(c)
    \/ Audit(c)
    \/ Abandon(c)

Next ==
    \/ \E p \in Pods : PodStep(p)
    \/ \E c \in Calls : CallStep(c)

Spec == Init /\ [][Next]_vars

-----------------------------------------------------------------------------
(* Properties.                                                             *)

HasOwner == \E s \in Subjects : role[s] = "owner"

\* Once the instance has an owner no step leaves it without one: no sequence
\* of SetPrincipalRole calls, restarts and crashes gets past the check of
\* Store::set_principal_role that refuses to remove the last owner.
OwnerNeverLost == [][HasOwner => HasOwner']_vars

\* Ownership comes from an explicit decision only: a subject is owner because
\* the last SetPrincipalRole for it said so, or because it is the recorded
\* first owner and no call ever changed it.  In particular neither MIGRATE_OWNERS
\* at a restart nor a changed initial_owner_oidc_subject promotes anyone.
OwnersAreBootstrappedOrAppointed ==
    \A s \in Subjects : role[s] = "owner" =>
        \/ decision[s] = "owner"
        \/ decision[s] = "never" /\ s = bootstrap

\* A process that finished Store::connect with an initial owner configured
\* serves an instance that has an owner, whatever crashes came before.
ServingMeansOwned ==
    \A p \in Pods :
        pod[p].pc = "up" /\ pod[p].configured # None => HasOwner

\* Between statements, av_principal_roles names no owner that av_owners does not:
\* what MIGRATE_OWNERS reads at the next restart is never behind the roles
\* that are being enforced.
RolesBackedByOwnersTable == OwnerRoles \subseteq owners
=============================================================================
