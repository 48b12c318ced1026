------------------------ MODULE PrincipalRolesProofs ------------------------
(***************************************************************************)
(* Proofs about PrincipalRoles, for any number of subjects, processes and  *)
(* concurrent SetPrincipalRole calls.  Type correctness holds on both      *)
(* database backends.  The theorems about SQLite rest on its single        *)
(* connection, which makes a transaction atomic; the one about PostgreSQL  *)
(* is for one process and one call at a time.                              *)
(***************************************************************************)
EXTENDS PrincipalRoles, FiniteSetTheorems, TLAPS

\* What TypeOK leaves open about the fields a statement is about to use.
BoundFields ==
    /\ \A p \in Pods :
          pod[p].pc \in {"bootstrap", "insert_owner", "role", "role_write"}
             => pod[p].configured \in Subjects
    /\ \A c \in Calls : call[c].pc # "idle" =>
          /\ call[c].subject \in Subjects
          /\ call[c].actor \in Subjects
          /\ call[c].role \in Roles

TypeInv == TypeOK /\ BoundFields

\* The types hold initially.
LEMMA InitTypeInv == Init => TypeInv
BY RolesAssumption
DEF Init, TypeInv, TypeOK, BoundFields, DownPod, IdleCall, Roles, PodPcs, CallPcs

\* A process's step keeps them.
LEMMA PodStepTypeInv ==
  ASSUME TypeInv, NEW p \in Pods, PodStep(p)
  PROVE  TypeInv'
<1> USE DEF TypeInv, TypeOK, BoundFields, Goto, PodPcs, CallPcs, Roles
<1>1. CASE \E s \in Subjects \cup {None} : Start(p, s)
  BY <1>1 DEF Start
<1>2. CASE MigrateRead(p)
  BY <1>2 DEF MigrateRead
<1>3. CASE MigrateWrite(p)
  BY <1>3 DEF MigrateWrite, MigratedRoles, AfterMigrate, WithOwners
<1>4. CASE BootstrapInsert(p)
  <2>1. CASE bootstrap = None /\ Backend = "postgres"
    BY <1>4, <2>1 DEF BootstrapInsert
  <2>2. CASE bootstrap = None /\ Backend # "postgres"
    BY <1>4, <2>2 DEF BootstrapInsert
  <2>3. CASE bootstrap # None
    BY <1>4, <2>3 DEF BootstrapInsert
  <2> QED
    BY <2>1, <2>2, <2>3
<1>5. CASE BootstrapOwner(p)
  BY <1>5 DEF BootstrapOwner
<1>6. CASE BootstrapRoleRead(p)
  BY <1>6 DEF BootstrapRoleRead
<1>7. CASE BootstrapRoleWrite(p)
  BY <1>7 DEF BootstrapRoleWrite, WithOwners
<1>8. CASE Crash(p)
  BY <1>8 DEF Crash, DownPod, IdleCall
<1> QED
  BY <1>1, <1>2, <1>3, <1>4, <1>5, <1>6, <1>7, <1>8 DEF PodStep

\* A call's step keeps them.
LEMMA CallStepTypeInv ==
  ASSUME TypeInv, NEW c \in Calls, CallStep(c)
  PROVE  TypeInv'
<1> USE DEF TypeInv, TypeOK, BoundFields, CallPcs, Roles
<1>1. CASE \E p \in Pods, actor \in Subjects, subject \in Subjects, r \in Roles :
              Authorize(c, p, actor, subject, r)
  BY <1>1 DEF Authorize
<1>2. CASE ReadCurrent(c)
  BY <1>2 DEF ReadCurrent
<1>3. CASE CountOwners(c)
  BY <1>3 DEF CountOwners, IdleCall
<1>4. CASE CommitRole(c)
  BY <1>4 DEF CommitRole, OwnersAfter
<1>5. CASE Audit(c)
  BY <1>5 DEF Audit, IdleCall
<1>6. CASE Abandon(c)
  BY <1>6 DEF Abandon, IdleCall
<1> QED
  BY <1>1, <1>2, <1>3, <1>4, <1>5, <1>6 DEF CallStep

\* Every step keeps them.
LEMMA NextTypeInv == TypeInv /\ [Next]_vars => TypeInv'
<1> SUFFICES ASSUME TypeInv, [Next]_vars PROVE TypeInv'
  OBVIOUS
<1>1. CASE Next
  BY <1>1, PodStepTypeInv, CallStepTypeInv DEF Next
<1>2. CASE UNCHANGED vars
  BY <1>2 DEF vars, TypeInv, TypeOK, BoundFields
<1> QED
  BY <1>1, <1>2

\* Every state of the role tables, of the starting processes and of the
\* SetPrincipalRole handlers is well typed, on both backends.
THEOREM TypeCorrect == Spec => []TypeOK
<1>1. Spec => []TypeInv
  BY InitTypeInv, NextTypeInv, PTL DEF Spec
<1>2. TypeInv => TypeOK
  BY DEF TypeInv
<1> QED
  BY <1>1, <1>2, PTL
-----------------------------------------------------------------------------
(* SQLite.  OwnerNeverLost is not inductive: that a demotion past the      *)
(* count leaves another owner is a fact about the handler (WriteKeepsOne)  *)
(* that survives only because nobody else is in a transaction (Serial).    *)
(* OwnersAreBootstrappedOrAppointed needs the same fact about the rows a   *)
(* starting process has read (SnapshotFresh), that av_owners is never      *)
(* behind the roles (RolesBackedByOwnersTable), and that nothing was ever  *)
(* decided when the first owner is inserted (BootstrapFirst).              *)

Serial == \A x, y \in Holders : x = y

SnapshotFresh ==
    \A p \in Pods : pod[p].pc \in {"migrate_write", "role_write"} =>
        pod[p].snapshot \subseteq owners

\* No owner was ever recorded.
Untouched ==
    /\ owners = {}
    /\ \A s \in Subjects : decision[s] = "never"
    /\ \A c \in Calls : call[c].pc = "idle"

BootstrapFirst ==
    /\ bootstrap = None => Untouched
    /\ \A p \in Pods : pod[p].pc = "insert_owner" =>
          /\ Untouched
          /\ bootstrap = pod[p].configured
          /\ \A q \in Pods : pod[q].pc = "insert_owner" => q = p

OwnersDecided ==
    \A s \in owners : \/ decision[s] = "owner"
                      \/ decision[s] = "never" /\ s = bootstrap

CountReadsOwner ==
    \A c \in Calls : call[c].pc = "count" =>
        role[call[c].subject] = "owner" /\ call[c].role # "owner"

WriteKeepsOne ==
    \A c \in Calls :
        /\ call[c].pc = "write"
        /\ role[call[c].subject] = "owner"
        /\ call[c].role # "owner"
        => \E t \in Subjects : t # call[c].subject /\ role[t] = "owner"

SqliteInv ==
    /\ TypeInv
    /\ Serial
    /\ SnapshotFresh
    /\ RolesBackedByOwnersTable
    /\ BootstrapFirst
    /\ OwnersDecided
    /\ CountReadsOwner
    /\ WriteKeepsOne

\* An empty database and no process started: the invariant holds.
LEMMA InitSqliteInv == Init => SqliteInv
<1> SUFFICES ASSUME Init PROVE SqliteInv
  OBVIOUS
<1>1. TypeInv
  BY InitTypeInv
<1>2. Holders = {}
  BY DEF Init, Holders, DownPod, IdleCall
<1> QED
  BY <1>1, <1>2 DEF Init, SqliteInv, Serial, SnapshotFresh, OwnerRoles,
     RolesBackedByOwnersTable, BootstrapFirst, Untouched, OwnersDecided,
     CountReadsOwner, WriteKeepsOne, DownPod, IdleCall

\* While a process may run a statement, nobody else is in a transaction.
LEMMA PodAlone ==
  ASSUME Backend = "sqlite", NEW p \in Pods, DbFree(p)
  PROVE  /\ \A c \in Calls : call[c].pc \notin {"count", "write"}
         /\ \A q \in Pods : pod[q].pc \in {"migrate_write", "role_write"} => q = p
BY RolesAssumption DEF DbFree, Holders

\* While a call may run a statement, nobody else is in a transaction.
LEMMA CallAlone ==
  ASSUME Backend = "sqlite", NEW c \in Calls, DbFree(c)
  PROVE  /\ \A d \in Calls : call[d].pc \in {"count", "write"} => d = c
         /\ \A q \in Pods : pod[q].pc \notin {"migrate_write", "role_write"}
BY RolesAssumption DEF DbFree, Holders

\* A finite set of at least two subjects has one besides s.
LEMMA AnotherMember ==
  ASSUME NEW S, IsFiniteSet(S), NEW s \in S, ~(Cardinality(S) <= 1)
  PROVE  \E t \in S : t # s
<1>1. SUFFICES ASSUME \A t \in S : t = s PROVE FALSE
  OBVIOUS
<1>2. S = {s}
  BY <1>1
<1> QED
  BY <1>2, FS_Singleton

\* The count that lets a demotion through leaves another owner.
LEMMA NotLastOwner ==
  ASSUME TypeOK, NEW s \in Subjects, role[s] = "owner", ~LastOwner
  PROVE  \E t \in Subjects : t # s /\ role[t] = "owner"
<1>1. IsFiniteSet(OwnerRoles)
  BY FS_Subset, RolesAssumption DEF OwnerRoles
<1>2. s \in OwnerRoles
  BY DEF OwnerRoles
<1>3. \E t \in OwnerRoles : t # s
  BY <1>1, <1>2, AnotherMember DEF LastOwner
<1> QED
  BY <1>3 DEF OwnerRoles

\* Rows the upsert touches become owners; no owner stops being one.
LEMMA WithOwnersGrows ==
  ASSUME NEW S \in SUBSET Subjects, role' = WithOwners(S), TypeOK
  PROVE  \A s \in Subjects : role'[s] = "owner" <=> (s \in S \/ role[s] = "owner")
BY DEF WithOwners, TypeOK

\* A process's start keeps it.
LEMMA PodStepSqlite ==
  ASSUME SqliteInv, Backend = "sqlite", NEW p \in Pods, PodStep(p)
  PROVE  SqliteInv'
<1>0. TypeInv /\ TypeInv'
  BY PodStepTypeInv DEF SqliteInv
<1> USE <1>0, RolesAssumption
<1> USE DEF SqliteInv, TypeInv, TypeOK, BoundFields
<1>1. CASE \E s \in Subjects \cup {None} : Start(p, s)
  <2>1. Serial' /\ SnapshotFresh'
    BY <1>1 DEF Start, Serial, Holders, SnapshotFresh
  <2>2. BootstrapFirst'
    BY <1>1 DEF Start, BootstrapFirst, Untouched
  <2>3. RolesBackedByOwnersTable' /\ OwnersDecided'
    BY <1>1 DEF Start, RolesBackedByOwnersTable, OwnerRoles, OwnersDecided
  <2>4. CountReadsOwner' /\ WriteKeepsOne'
    BY <1>1 DEF Start, CountReadsOwner, WriteKeepsOne
  <2> QED
    BY <2>1, <2>2, <2>3, <2>4
<1>2. CASE MigrateRead(p)
  <2>1. Serial'
    BY <1>2, PodAlone DEF MigrateRead, Goto, Serial, Holders
  <2>2. SnapshotFresh'
    BY <1>2 DEF MigrateRead, Goto, SnapshotFresh
  <2>3. BootstrapFirst'
    BY <1>2 DEF MigrateRead, Goto, BootstrapFirst, Untouched
  <2> QED
    BY <1>2, <2>1, <2>2, <2>3 DEF MigrateRead, RolesBackedByOwnersTable,
       OwnerRoles, OwnersDecided, CountReadsOwner, WriteKeepsOne
<1>3. CASE MigrateWrite(p)
  <2>1. Serial'
    BY <1>3, PodAlone DEF MigrateWrite, Goto, AfterMigrate, Serial, Holders
  <2>2. SnapshotFresh'
    BY <1>3 DEF MigrateWrite, Goto, AfterMigrate, SnapshotFresh
  <2>3. BootstrapFirst'
    BY <1>3 DEF MigrateWrite, Goto, AfterMigrate, BootstrapFirst, Untouched
  <2>4. RolesBackedByOwnersTable'
    BY <1>3, WithOwnersGrows DEF MigrateWrite, MigratedRoles, SnapshotFresh,
       RolesBackedByOwnersTable, OwnerRoles
  <2>5. CountReadsOwner' /\ WriteKeepsOne'
    BY <1>3, PodAlone DEF MigrateWrite, CountReadsOwner, WriteKeepsOne
  <2> QED
    BY <1>3, <2>1, <2>2, <2>3, <2>4, <2>5 DEF MigrateWrite, OwnersDecided
<1>4. CASE BootstrapInsert(p)
  <2>1. Serial'
    BY <1>4, PodAlone DEF BootstrapInsert, Goto, Serial, Holders
  <2>2. SnapshotFresh'
    BY <1>4 DEF BootstrapInsert, Goto, SnapshotFresh
  <2>3. BootstrapFirst'
    BY <1>4 DEF BootstrapInsert, Goto, BootstrapFirst, Untouched
  <2>4. OwnersDecided'
    BY <1>4 DEF BootstrapInsert, OwnersDecided, BootstrapFirst, Untouched
  <2> QED
    BY <1>4, <2>1, <2>2, <2>3, <2>4 DEF BootstrapInsert, RolesBackedByOwnersTable,
       OwnerRoles, CountReadsOwner, WriteKeepsOne
<1>5. CASE BootstrapOwner(p)
  <2>1. Serial'
    BY <1>5, PodAlone DEF BootstrapOwner, Goto, Serial, Holders
  <2>2. SnapshotFresh'
    BY <1>5 DEF BootstrapOwner, Goto, SnapshotFresh
  <2>3. BootstrapFirst'
    BY <1>5 DEF BootstrapOwner, Goto, BootstrapFirst
  <2>4. OwnersDecided'
    BY <1>5 DEF BootstrapOwner, OwnersDecided, BootstrapFirst, Untouched
  <2> QED
    BY <1>5, <2>1, <2>2, <2>3, <2>4 DEF BootstrapOwner, RolesBackedByOwnersTable,
       OwnerRoles, CountReadsOwner, WriteKeepsOne
<1>6. CASE BootstrapRoleRead(p)
  <2>1. Serial'
    BY <1>6, PodAlone DEF BootstrapRoleRead, Goto, Serial, Holders
  <2>2. SnapshotFresh'
    BY <1>6 DEF BootstrapRoleRead, Goto, SnapshotFresh
  <2>3. BootstrapFirst'
    BY <1>6 DEF BootstrapRoleRead, Goto, BootstrapFirst, Untouched
  <2>4. RolesBackedByOwnersTable' /\ OwnersDecided'
    BY <1>6 DEF BootstrapRoleRead, RolesBackedByOwnersTable, OwnerRoles, OwnersDecided
  <2>5. CountReadsOwner' /\ WriteKeepsOne'
    BY <1>6 DEF BootstrapRoleRead, CountReadsOwner, WriteKeepsOne
  <2> QED
    BY <2>1, <2>2, <2>3, <2>4, <2>5
<1>7. CASE BootstrapRoleWrite(p)
  <2>1. Serial'
    BY <1>7, PodAlone DEF BootstrapRoleWrite, Goto, Serial, Holders
  <2>2. SnapshotFresh'
    BY <1>7 DEF BootstrapRoleWrite, Goto, SnapshotFresh
  <2>3. BootstrapFirst'
    BY <1>7 DEF BootstrapRoleWrite, Goto, BootstrapFirst, Untouched
  <2>4. RolesBackedByOwnersTable'
    BY <1>7, WithOwnersGrows DEF BootstrapRoleWrite, SnapshotFresh,
       RolesBackedByOwnersTable, OwnerRoles
  <2>5. CountReadsOwner' /\ WriteKeepsOne'
    BY <1>7, PodAlone DEF BootstrapRoleWrite, CountReadsOwner, WriteKeepsOne
  <2> QED
    BY <1>7, <2>1, <2>2, <2>3, <2>4, <2>5 DEF BootstrapRoleWrite, OwnersDecided
<1>8. CASE Crash(p)
  <2>1. Serial' /\ SnapshotFresh'
    BY <1>8 DEF Crash, DownPod, IdleCall, Serial, Holders, SnapshotFresh
  <2>2. BootstrapFirst'
    BY <1>8 DEF Crash, DownPod, IdleCall, BootstrapFirst, Untouched
  <2>3. RolesBackedByOwnersTable' /\ OwnersDecided'
    BY <1>8 DEF Crash, RolesBackedByOwnersTable, OwnerRoles, OwnersDecided
  <2>4. CountReadsOwner' /\ WriteKeepsOne'
    BY <1>8 DEF Crash, IdleCall, CountReadsOwner, WriteKeepsOne
  <2> QED
    BY <2>1, <2>2, <2>3, <2>4
<1> QED
  BY <1>1, <1>2, <1>3, <1>4, <1>5, <1>6, <1>7, <1>8 DEF PodStep

\* Each statement of set_principal_role keeps it.
LEMMA CallStepSqlite ==
  ASSUME SqliteInv, Backend = "sqlite", NEW c \in Calls, CallStep(c)
  PROVE  SqliteInv'
<1>0. TypeInv /\ TypeInv'
  BY CallStepTypeInv DEF SqliteInv
<1> USE <1>0, RolesAssumption
<1> USE DEF SqliteInv, TypeInv, TypeOK, BoundFields
<1>1. CASE \E p \in Pods, actor \in Subjects, subject \in Subjects, r \in Roles :
              Authorize(c, p, actor, subject, r)
  <2>1. owners # {}
    BY <1>1 DEF Authorize, RolesBackedByOwnersTable, OwnerRoles
  <2>2. BootstrapFirst'
    BY <1>1, <2>1 DEF Authorize, BootstrapFirst, Untouched
  <2> QED
    <3>1. Serial' /\ SnapshotFresh'
      BY <1>1 DEF Authorize, Serial, Holders, SnapshotFresh
    <3>2. RolesBackedByOwnersTable' /\ OwnersDecided'
      BY <1>1 DEF Authorize, RolesBackedByOwnersTable, OwnerRoles, OwnersDecided
    <3>3. CountReadsOwner' /\ WriteKeepsOne'
      BY <1>1 DEF Authorize, CountReadsOwner, WriteKeepsOne
    <3> QED
      BY <2>2, <3>1, <3>2, <3>3
<1>2. CASE ReadCurrent(c)
  <2>1. Serial'
    BY <1>2, CallAlone DEF ReadCurrent, Serial, Holders
  <2>2. BootstrapFirst'
    BY <1>2 DEF ReadCurrent, BootstrapFirst, Untouched
  <2>3. CountReadsOwner' /\ WriteKeepsOne'
    BY <1>2 DEF ReadCurrent, CountReadsOwner, WriteKeepsOne
  <2> QED
    BY <1>2, <2>1, <2>2, <2>3 DEF ReadCurrent, SnapshotFresh,
       RolesBackedByOwnersTable, OwnerRoles, OwnersDecided
<1>3. CASE CountOwners(c)
  <2>1. Serial'
    BY <1>3, CallAlone DEF CountOwners, Serial, Holders, IdleCall
  <2>2. BootstrapFirst'
    BY <1>3 DEF CountOwners, BootstrapFirst, Untouched, IdleCall
  <2>3. CountReadsOwner'
    BY <1>3 DEF CountOwners, CountReadsOwner, IdleCall
  <2>4. WriteKeepsOne'
    <3>1. CASE LastOwner
      BY <1>3, <3>1 DEF CountOwners, WriteKeepsOne, IdleCall
    <3>2. CASE ~LastOwner
      <4>1. \E t \in Subjects : t # call[c].subject /\ role[t] = "owner"
        BY <1>3, <3>2, NotLastOwner DEF CountOwners, CountReadsOwner
      <4> QED
        BY <1>3, <3>2, <4>1 DEF CountOwners, WriteKeepsOne
    <3> QED
      BY <3>1, <3>2
  <2> QED
    BY <1>3, <2>1, <2>2, <2>3, <2>4 DEF CountOwners, SnapshotFresh,
       RolesBackedByOwnersTable, OwnerRoles, OwnersDecided
<1>4. CASE CommitRole(c)
  <2>1. Serial'
    BY <1>4, CallAlone DEF CommitRole, Serial, Holders
  <2>2. SnapshotFresh'
    BY <1>4, CallAlone DEF CommitRole, SnapshotFresh
  <2>3. BootstrapFirst'
    BY <1>4 DEF CommitRole, BootstrapFirst, Untouched
  <2>4. RolesBackedByOwnersTable'
    BY <1>4 DEF CommitRole, OwnersAfter, RolesBackedByOwnersTable, OwnerRoles
  <2>5. OwnersDecided'
    BY <1>4 DEF CommitRole, OwnersAfter, OwnersDecided
  <2>6. CountReadsOwner' /\ WriteKeepsOne'
    BY <1>4, CallAlone DEF CommitRole, CountReadsOwner, WriteKeepsOne
  <2> QED
    BY <2>1, <2>2, <2>3, <2>4, <2>5, <2>6
<1>5. CASE Audit(c) \/ Abandon(c)
  <2>1. /\ UNCHANGED <<role, owners, bootstrap, pod, decision>>
        /\ call' = [call EXCEPT ![c] = IdleCall]
    BY <1>5 DEF Audit, Abandon
  <2>2. Serial' /\ SnapshotFresh'
    BY <2>1 DEF IdleCall, Serial, Holders, SnapshotFresh
  <2>3. BootstrapFirst'
    BY <2>1 DEF IdleCall, BootstrapFirst, Untouched
  <2>4. RolesBackedByOwnersTable' /\ OwnersDecided'
    BY <2>1 DEF RolesBackedByOwnersTable, OwnerRoles, OwnersDecided
  <2>5. CountReadsOwner' /\ WriteKeepsOne'
    BY <2>1 DEF IdleCall, CountReadsOwner, WriteKeepsOne
  <2> QED
    BY <2>2, <2>3, <2>4, <2>5
<1> QED
  BY ZenonT(20), <1>1, <1>2, <1>3, <1>4, <1>5 DEF CallStep

\* Every step keeps it.
LEMMA NextSqliteInv ==
  ASSUME Backend = "sqlite"
  PROVE  SqliteInv /\ [Next]_vars => SqliteInv'
<1> SUFFICES ASSUME SqliteInv, [Next]_vars PROVE SqliteInv'
  OBVIOUS
<1>1. CASE Next
  BY <1>1, PodStepSqlite, CallStepSqlite DEF Next
<1>2. CASE UNCHANGED vars
  BY <1>2 DEF vars, SqliteInv, TypeInv, TypeOK, BoundFields, Serial, Holders,
     SnapshotFresh, RolesBackedByOwnersTable, OwnerRoles, BootstrapFirst,
     Untouched, OwnersDecided, CountReadsOwner, WriteKeepsOne
<1> QED
  BY <1>1, <1>2

\* The invariant holds throughout.
LEMMA SqliteInvariant ==
  ASSUME Backend = "sqlite"
  PROVE  Spec => []SqliteInv
BY InitSqliteInv, NextSqliteInv, PTL DEF Spec

\* A step from a state of the invariant leaves an owner if there was one:
\* migrate and bootstrap_owner only add owners, and a demotion that passed
\* the count of set_principal_role leaves another.
LEMMA StepKeepsOwner ==
  SqliteInv /\ [Next]_vars => [HasOwner => HasOwner']_vars
<1> SUFFICES ASSUME SqliteInv, [Next]_vars, HasOwner PROVE HasOwner'
  OBVIOUS
<1> USE DEF SqliteInv, TypeInv, TypeOK, BoundFields, HasOwner
<1>1. CASE UNCHANGED role
  BY <1>1
<1>2. ASSUME NEW p \in Pods, MigrateWrite(p) PROVE HasOwner'
  BY <1>2, WithOwnersGrows DEF MigrateWrite, MigratedRoles
<1>3. ASSUME NEW p \in Pods, BootstrapRoleWrite(p) PROVE HasOwner'
  BY <1>3, WithOwnersGrows DEF BootstrapRoleWrite
<1>4. ASSUME NEW c \in Calls, CommitRole(c) PROVE HasOwner'
  BY <1>4 DEF CommitRole, WriteKeepsOne
<1>5. \/ UNCHANGED role
      \/ \E p \in Pods : MigrateWrite(p) \/ BootstrapRoleWrite(p)
      \/ \E c \in Calls : CommitRole(c)
  BY ZenonT(20) DEF Next, PodStep, CallStep, Start, MigrateRead, BootstrapInsert,
     BootstrapOwner, BootstrapRoleRead, Crash, Authorize, ReadCurrent,
     CountOwners, Audit, Abandon, vars
<1> QED
  BY <1>1, <1>2, <1>3, <1>4, <1>5

\* On SQLite the last-owner check of set_principal_role is sound: no
\* interleaving of role changes, restarts and crashes, by any number of
\* callers, leaves an instance that had an owner without one.
THEOREM SqliteOwnerNeverLost ==
  ASSUME Backend = "sqlite"
  PROVE  Spec => OwnerNeverLost
<1>1. Spec => []SqliteInv
  BY SqliteInvariant
<1> QED
  BY <1>1, StepKeepsOwner, PTL DEF Spec, OwnerNeverLost

\* On SQLite every owner was appointed by the last SetPrincipalRole on it or
\* is the recorded first owner that no call ever changed; restarts with
\* another initial_owner_oidc_subject promote nobody.
THEOREM SqliteOwnersAreBootstrappedOrAppointed ==
  ASSUME Backend = "sqlite"
  PROVE  Spec => []OwnersAreBootstrappedOrAppointed
<1>1. Spec => []SqliteInv
  BY SqliteInvariant
<1>2. SqliteInv => OwnersAreBootstrappedOrAppointed
  BY DEF SqliteInv, RolesBackedByOwnersTable, OwnerRoles, OwnersDecided,
     OwnersAreBootstrappedOrAppointed
<1> QED
  BY <1>1, <1>2, PTL

\* On SQLite av_owners names every subject whose role is owner, so the
\* MIGRATE_OWNERS of the next start finds a row for each of them.
THEOREM SqliteRolesBackedByOwnersTable ==
  ASSUME Backend = "sqlite"
  PROVE  Spec => []RolesBackedByOwnersTable
<1>1. Spec => []SqliteInv
  BY SqliteInvariant
<1>2. SqliteInv => RolesBackedByOwnersTable
  BY DEF SqliteInv
<1> QED
  BY <1>1, <1>2, PTL
-----------------------------------------------------------------------------
(* PostgreSQL, with one process and one SetPrincipalRole at a time.  A     *)
(* start after a crash finds av_owners ahead of the roles.  What the       *)
(* process owes at each step of Store::connect is in StartupCatchesUp, and *)
(* nobody changes the tables meanwhile (CallsServed).                      *)

OnePod == \A p, q \in Pods : p = q
OneCall == \A c, d \in Calls : c = d

\* A handler runs in a process that serves.
CallsServed ==
    \A c \in Calls : call[c].pc # "idle" =>
        call[c].pod \in Pods /\ pod[call[c].pod].pc = "up"

\* What the process p owes the tables at each step of Store::connect.
CatchesUp(p) ==
    /\ pod[p].pc # "insert_owner"
    /\ pod[p].pc = "migrate_write" => pod[p].snapshot = owners
    /\ pod[p].pc \in {"bootstrap", "up"} => owners \subseteq OwnerRoles
    /\ pod[p].pc \in {"role", "role_write"} =>
          owners \subseteq OwnerRoles \cup {pod[p].configured}
    /\ pod[p].pc = "role_write" => pod[p].snapshot = owners \cap {pod[p].configured}
    /\ pod[p].pc \in {"role", "role_write"} => bootstrap # None
    /\ pod[p].pc = "up" /\ pod[p].configured # None => bootstrap # None

StartupCatchesUp == \A p \in Pods : CatchesUp(p)

OwnersKept == bootstrap # None => owners # {}

PostgresInv ==
    /\ TypeInv
    /\ CallsServed
    /\ StartupCatchesUp
    /\ RolesBackedByOwnersTable
    /\ OwnersKept
    /\ CountReadsOwner
    /\ WriteKeepsOne

\* An empty database and no process started: the invariant holds.
LEMMA InitPostgresInv == Init => PostgresInv
<1> SUFFICES ASSUME Init PROVE PostgresInv
  OBVIOUS
<1>1. TypeInv
  BY InitTypeInv
<1>2. CallsServed /\ CountReadsOwner /\ WriteKeepsOne
  BY DEF Init, CallsServed, CountReadsOwner, WriteKeepsOne, IdleCall
<1>3. StartupCatchesUp
  BY DEF Init, StartupCatchesUp, CatchesUp, DownPod
<1>4. RolesBackedByOwnersTable /\ OwnersKept
  BY DEF Init, RolesBackedByOwnersTable, OwnersKept, OwnerRoles
<1> QED
  BY <1>1, <1>2, <1>3, <1>4 DEF PostgresInv

\* While no call runs, the invariant is about the tables and the only process.
LEMMA StartingKeeps ==
  ASSUME OnePod, NEW p \in Pods, TypeInv', \A c \in Calls : call'[c].pc = "idle",
         CatchesUp(p)', RolesBackedByOwnersTable', OwnersKept'
  PROVE  PostgresInv'
<1>1. CallsServed' /\ CountReadsOwner' /\ WriteKeepsOne'
  BY DEF CallsServed, CountReadsOwner, WriteKeepsOne
<1>2. StartupCatchesUp'
  BY DEF StartupCatchesUp, OnePod
<1> QED
  BY <1>1, <1>2 DEF PostgresInv

\* The start of the only process keeps it.
LEMMA PodStepPostgres ==
  ASSUME PostgresInv, Backend = "postgres", OnePod, NEW p \in Pods, PodStep(p)
  PROVE  PostgresInv'
<1>1. TypeInv /\ TypeInv'
  BY PodStepTypeInv DEF PostgresInv
<1>2. /\ DOMAIN pod = Pods /\ owners \subseteq Subjects /\ TypeOK
      /\ pod[p].pc = "bootstrap" => pod[p].configured \in Subjects
  BY <1>1 DEF TypeInv, TypeOK, BoundFields
<1>3. CatchesUp(p) /\ OwnerRoles \subseteq owners /\ OwnersKept
  BY DEF PostgresInv, StartupCatchesUp, RolesBackedByOwnersTable
<1>4. pod[p].pc # "up" => \A c \in Calls : call[c].pc = "idle"
  BY DEF PostgresInv, CallsServed, OnePod
<1>5. ASSUME NEW w, NEW z, pod' = Goto(p, w, z)
      PROVE  pod'[p].pc = w /\ pod'[p].configured = pod[p].configured /\ pod'[p].snapshot = z
  BY <1>2, <1>5 DEF Goto
<1>6. CASE \E s \in Subjects \cup {None} : Start(p, s)
  <2>1. pod'[p].pc = "migrate" /\ \A c \in Calls : call'[c].pc = "idle"
    BY <1>2, <1>4, <1>6 DEF Start
  <2>2. OwnerRoles' \subseteq owners' /\ OwnersKept'
    BY <1>3, <1>6 DEF Start, OwnerRoles, OwnersKept
  <2>3. CatchesUp(p)'
    BY <2>1 DEF CatchesUp
  <2> QED
    BY <1>1, <2>1, <2>2, <2>3, StartingKeeps DEF RolesBackedByOwnersTable
<1>7. CASE MigrateRead(p)
  <2>1. /\ pod'[p].pc = "migrate_write" /\ pod'[p].snapshot = owners
        /\ \A c \in Calls : call'[c].pc = "idle"
    BY <1>4, <1>5, <1>7 DEF MigrateRead
  <2>2. OwnerRoles' \subseteq owners' /\ OwnersKept' /\ owners' = owners
    BY <1>3, <1>7 DEF MigrateRead, OwnerRoles, OwnersKept
  <2>3. CatchesUp(p)'
    BY <2>1, <2>2 DEF CatchesUp
  <2> QED
    BY <1>1, <2>1, <2>2, <2>3, StartingKeeps DEF RolesBackedByOwnersTable
<1>8. CASE MigrateWrite(p)
  <2>1. pod'[p].pc = AfterMigrate(p) /\ pod'[p].configured = pod[p].configured
    BY <1>5, <1>8 DEF MigrateWrite
  <2>2. /\ \A c \in Calls : call'[c].pc = "idle"
        /\ owners' = owners /\ OwnersKept' /\ pod[p].snapshot = owners
    BY <1>3, <1>4, <1>8 DEF MigrateWrite, OwnersKept, CatchesUp
  <2>3. OwnerRoles' = owners
    BY <1>2, <1>3, <1>8, <2>2, WithOwnersGrows DEF MigrateWrite, MigratedRoles, OwnerRoles
  <2>4. CatchesUp(p)'
    BY <2>1, <2>2, <2>3 DEF CatchesUp, AfterMigrate
  <2> QED
    BY <1>1, <2>2, <2>3, <2>4, StartingKeeps DEF RolesBackedByOwnersTable
<1>9. CASE BootstrapInsert(p)
  <2>1. /\ \A c \in Calls : call'[c].pc = "idle"
        /\ pod'[p].pc = "role" /\ pod'[p].configured = pod[p].configured
    BY <1>4, <1>5, <1>9 DEF BootstrapInsert
  <2>2. OwnerRoles' = OwnerRoles /\ owners \subseteq OwnerRoles
    BY <1>3, <1>9 DEF BootstrapInsert, OwnerRoles, CatchesUp
  <2>3. /\ bootstrap' # None /\ owners \subseteq owners' /\ OwnersKept'
        /\ owners' \subseteq owners \cup {pod[p].configured}
    BY <1>2, <1>3, <1>9, RolesAssumption DEF BootstrapInsert, OwnersKept
  <2>4. CatchesUp(p)'
    BY <2>1, <2>2, <2>3 DEF CatchesUp
  <2> QED
    BY <1>1, <1>3, <2>1, <2>2, <2>3, <2>4, StartingKeeps DEF RolesBackedByOwnersTable
<1>10. CASE BootstrapOwner(p)
  BY <1>3, <1>10 DEF BootstrapOwner, CatchesUp
<1>11. CASE BootstrapRoleRead(p)
  <2>1. /\ pod'[p].pc = "role_write" /\ pod'[p].configured = pod[p].configured
        /\ pod'[p].snapshot = owners \cap {pod[p].configured}
        /\ \A c \in Calls : call'[c].pc = "idle"
    BY <1>4, <1>5, <1>11 DEF BootstrapRoleRead
  <2>2. /\ OwnerRoles' = OwnerRoles /\ OwnersKept'
        /\ owners' = owners /\ bootstrap' = bootstrap
    BY <1>3, <1>11 DEF BootstrapRoleRead, OwnerRoles, OwnersKept
  <2>3. CatchesUp(p)'
    BY Zenon, <1>3, <1>11, <2>1, <2>2 DEF BootstrapRoleRead, CatchesUp
  <2> QED
    BY <1>1, <1>3, <2>1, <2>2, <2>3, StartingKeeps DEF RolesBackedByOwnersTable
<1>12. CASE BootstrapRoleWrite(p)
  <2>1. pod'[p].pc = "up" /\ \A c \in Calls : call'[c].pc = "idle"
    BY <1>4, <1>5, <1>12 DEF BootstrapRoleWrite
  <2>2. /\ owners' = owners /\ OwnersKept' /\ bootstrap' # None
        /\ pod[p].snapshot = owners \cap {pod[p].configured}
        /\ owners \subseteq OwnerRoles \cup {pod[p].configured}
    BY <1>3, <1>12 DEF BootstrapRoleWrite, OwnersKept, CatchesUp
  <2>3. OwnerRoles' = owners
    BY <1>2, <1>3, <1>12, <2>2, WithOwnersGrows DEF BootstrapRoleWrite, OwnerRoles
  <2>4. CatchesUp(p)'
    BY <2>1, <2>2, <2>3 DEF CatchesUp
  <2> QED
    BY <1>1, <2>1, <2>2, <2>3, <2>4, StartingKeeps DEF RolesBackedByOwnersTable
<1>13. CASE Crash(p)
  <2>1. \A c \in Calls : call'[c].pc = "idle"
    BY <1>13 DEF Crash, PostgresInv, CallsServed, OnePod, IdleCall
  <2>2. pod'[p].pc = "down"
    BY <1>2, <1>13 DEF Crash, DownPod
  <2>3. CatchesUp(p)'
    BY <2>2 DEF CatchesUp
  <2>4. OwnerRoles' \subseteq owners' /\ OwnersKept'
    BY <1>3, <1>13 DEF Crash, OwnerRoles, OwnersKept
  <2> QED
    BY <1>1, <2>1, <2>3, <2>4, StartingKeeps DEF RolesBackedByOwnersTable
<1> QED
  BY <1>6, <1>7, <1>8, <1>9, <1>10, <1>11, <1>12, <1>13 DEF PodStep

\* A call that leaves the tables alone disturbs only what is said of calls.
LEMMA CallingKeeps ==
  ASSUME PostgresInv, TypeInv', UNCHANGED <<role, owners, bootstrap, pod>>,
         CallsServed', CountReadsOwner', WriteKeepsOne'
  PROVE  PostgresInv'
<1>1. OwnerRoles' = OwnerRoles
  BY DEF OwnerRoles
<1>2. StartupCatchesUp'
  BY <1>1 DEF PostgresInv, StartupCatchesUp, CatchesUp
<1>3. RolesBackedByOwnersTable' /\ OwnersKept'
  BY <1>1 DEF PostgresInv, RolesBackedByOwnersTable, OwnersKept
<1> QED
  BY <1>2, <1>3 DEF PostgresInv

\* The only call keeps it.
LEMMA CallStepPostgres ==
  ASSUME PostgresInv, OnePod, OneCall, NEW c \in Calls, CallStep(c)
  PROVE  PostgresInv'
<1>1. TypeInv /\ TypeInv'
  BY CallStepTypeInv DEF PostgresInv
<1>2. /\ DOMAIN call = Calls /\ DOMAIN call[c] = {"pc", "pod", "actor", "subject", "role"}
      /\ call[c].pc # "idle" => call[c].subject \in Subjects /\ call[c].role \in Roles
      /\ DOMAIN role = Subjects /\ TypeOK
  BY <1>1 DEF TypeInv, TypeOK, BoundFields
<1>3. /\ call[c].pc # "idle" => call[c].pod \in Pods /\ pod[call[c].pod].pc = "up"
      /\ call[c].pc = "count" => role[call[c].subject] = "owner" /\ call[c].role # "owner"
  BY DEF PostgresInv, CallsServed, CountReadsOwner
<1>4. CASE \E p \in Pods, actor \in Subjects, subject \in Subjects, r \in Roles :
              Authorize(c, p, actor, subject, r)
  <2>1. PICK p \in Pods, actor \in Subjects, subject \in Subjects, r \in Roles :
           Authorize(c, p, actor, subject, r)
    BY <1>4
  <2>2. /\ call'[c].pc = "authorized" /\ call'[c].pod = p /\ pod'[p].pc = "up"
        /\ UNCHANGED <<role, owners, bootstrap, pod>>
    BY <1>2, <2>1 DEF Authorize
  <2>3. CallsServed' /\ CountReadsOwner' /\ WriteKeepsOne'
    BY <2>2 DEF CallsServed, CountReadsOwner, WriteKeepsOne, OneCall
  <2> QED
    BY <1>1, <2>2, <2>3, CallingKeeps
<1>5. CASE ReadCurrent(c)
  <2>1. /\ UNCHANGED <<role, owners, bootstrap, pod>>
        /\ call'[c].subject = call[c].subject /\ call'[c].role = call[c].role
        /\ call'[c].pod \in Pods /\ pod'[call'[c].pod].pc = "up"
        /\ call'[c].pc = IF role[call[c].subject] = "owner" /\ call[c].role # "owner"
                         THEN "count" ELSE "write"
    BY <1>2, <1>3, <1>5 DEF ReadCurrent
  <2>2. CallsServed'
    BY <2>1 DEF CallsServed, OneCall
  <2>3. CountReadsOwner' /\ WriteKeepsOne'
    BY <2>1 DEF CountReadsOwner, WriteKeepsOne, OneCall
  <2> QED
    BY <1>1, <2>1, <2>2, <2>3, CallingKeeps
<1>6. CASE CountOwners(c) /\ LastOwner
  <2>1. UNCHANGED <<role, owners, bootstrap, pod>> /\ call'[c].pc = "idle"
    BY <1>2, <1>6 DEF CountOwners, IdleCall
  <2>2. CallsServed' /\ CountReadsOwner' /\ WriteKeepsOne'
    BY <2>1 DEF CallsServed, CountReadsOwner, WriteKeepsOne, OneCall
  <2> QED
    BY <1>1, <2>1, <2>2, CallingKeeps
<1>7. CASE CountOwners(c) /\ ~LastOwner
  <2>1. /\ UNCHANGED <<role, owners, bootstrap, pod>> /\ call'[c].pc = "write"
        /\ call'[c].subject = call[c].subject
        /\ call'[c].pod \in Pods /\ pod'[call'[c].pod].pc = "up"
    BY <1>2, <1>3, <1>7 DEF CountOwners
  <2>2. \E t \in Subjects : t # call[c].subject /\ role[t] = "owner"
    BY <1>2, <1>3, <1>7, NotLastOwner DEF CountOwners
  <2>3. CallsServed' /\ CountReadsOwner' /\ WriteKeepsOne'
    BY <2>1, <2>2 DEF CallsServed, CountReadsOwner, WriteKeepsOne, OneCall
  <2> QED
    BY <1>1, <2>1, <2>3, CallingKeeps
<1>8. CASE CommitRole(c)
  <2> DEFINE s == call[c].subject
             r == call[c].role
  <2>1. /\ \A p \in Pods : pod[p].pc = "up"
        /\ call[c].pod \in Pods /\ owners \subseteq OwnerRoles
    BY Zenon, <1>3, <1>8 DEF CommitRole, PostgresInv, StartupCatchesUp, CatchesUp, OnePod
  <2>2. owners = OwnerRoles /\ OwnersKept
    BY Zenon, <2>1 DEF PostgresInv, RolesBackedByOwnersTable
  <2>3. /\ s \in Subjects /\ r \in Roles /\ owners' = OwnersAfter(s, r)
        /\ bootstrap' = bootstrap /\ pod' = pod /\ role' = [role EXCEPT ![s] = r]
    BY <1>2, <1>8 DEF CommitRole
  <2>4. owners' = OwnerRoles'
    BY <1>2, <2>2, <2>3 DEF OwnersAfter, OwnerRoles
  <2>5. OwnersKept'
    <3>1. CASE r = "owner" \/ s \notin owners
      BY <2>2, <2>3, <3>1 DEF OwnersAfter, OwnersKept
    <3>2. CASE r # "owner" /\ s \in owners
      <4>1. \E t \in Subjects : t # s /\ role[t] = "owner"
        BY <1>8, <2>2, <3>2 DEF CommitRole, PostgresInv, WriteKeepsOne, OwnerRoles
      <4>2. \E t \in owners : t # s
        BY <2>2, <4>1 DEF OwnerRoles
      <4> QED
        BY <2>3, <3>2, <4>2 DEF OwnersAfter, OwnersKept
    <3> QED
      BY <3>1, <3>2
  <2>6. StartupCatchesUp'
    BY <2>1, <2>3, <2>4 DEF PostgresInv, StartupCatchesUp, CatchesUp
  <2>7. call'[c].pc = "audit" /\ call'[c].pod = call[c].pod
    BY <1>2, <1>8 DEF CommitRole
  <2>8. CallsServed' /\ CountReadsOwner' /\ WriteKeepsOne'
    BY <2>1, <2>3, <2>7 DEF CallsServed, CountReadsOwner, WriteKeepsOne, OneCall
  <2> QED
    BY <1>1, <2>4, <2>5, <2>6, <2>8 DEF PostgresInv, RolesBackedByOwnersTable
<1>9. CASE Audit(c) \/ Abandon(c)
  <2>1. UNCHANGED <<role, owners, bootstrap, pod>> /\ call'[c].pc = "idle"
    BY <1>2, <1>9 DEF Audit, Abandon, IdleCall
  <2>2. CallsServed' /\ CountReadsOwner' /\ WriteKeepsOne'
    BY <2>1 DEF CallsServed, CountReadsOwner, WriteKeepsOne, OneCall
  <2> QED
    BY <1>1, <2>1, <2>2, CallingKeeps
<1> QED
  BY <1>4, <1>5, <1>6, <1>7, <1>8, <1>9 DEF CallStep

\* On PostgreSQL a single process that finished Store::connect with an initial
\* owner configured serves an instance that has an owner, whatever crashes and
\* role changes came before.  (Two calls at once may lose it: see the run
\* roles_postgres_last_owner.)
THEOREM PostgresServingMeansOwned ==
  ASSUME Backend = "postgres", OnePod, OneCall
  PROVE  Spec => []ServingMeansOwned
<1>1. PostgresInv /\ [Next]_vars => PostgresInv'
  <2> SUFFICES ASSUME PostgresInv, [Next]_vars PROVE PostgresInv'
    OBVIOUS
  <2>1. CASE Next
    BY <2>1, PodStepPostgres, CallStepPostgres DEF Next
  <2>2. CASE UNCHANGED vars
    <3>1. UNCHANGED <<role, owners, bootstrap, pod>> /\ call' = call
      BY <2>2 DEF vars
    <3>2. CallsServed' /\ CountReadsOwner' /\ WriteKeepsOne'
      BY <3>1 DEF PostgresInv, CallsServed, CountReadsOwner, WriteKeepsOne
    <3>3. TypeInv'
      BY <2>2 DEF vars, PostgresInv, TypeInv, TypeOK, BoundFields
    <3> QED
      BY <3>1, <3>2, <3>3, CallingKeeps
  <2> QED
    BY <2>1, <2>2
<1>2. PostgresInv => ServingMeansOwned
  BY DEF PostgresInv, TypeInv, TypeOK, StartupCatchesUp, CatchesUp, OwnersKept, OwnerRoles,
     HasOwner, ServingMeansOwned
<1> QED
  BY InitPostgresInv, <1>1, <1>2, PTL DEF Spec
=============================================================================
