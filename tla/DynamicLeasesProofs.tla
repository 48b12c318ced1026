------------------------- MODULE DynamicLeasesProofs -------------------------
(***************************************************************************)
(* Proofs about DynamicLeases, for every set of leases, subjects and tasks *)
(* and under every combination of faults.                                  *)
(***************************************************************************)
EXTENDS DynamicLeases, TLAPS, FiniteSetTheorems

TaskRecords == [pc : Pcs, kind : Kinds, subject : Subjects \cup {None},
                lease : Leases \cup {None}]

\* What a task has in its hands and the registry has not, or the drain.
Kept == {"live", "gone"}
TasksApart ==
    \A t, u \in Tasks :
        task[t].pc \in HandPcs /\ task[u].pc \in HandPcs /\ task[t].lease = task[u].lease
            => t = u
HandsApart ==
    \A t \in Tasks : task[t].pc \in HandPcs => task[t].lease \notin active \cup drained
HandsKept ==
    \A t \in Tasks : task[t].pc \in HandPcs =>
        state[task[t].lease] \in Kept /\ subject[task[t].lease] = task[t].subject
RegistryKept == \A l \in active \cup drained : state[l] \in Kept

\* The inductive invariant: a lease is in one place, and wherever it is, the
\* backend has issued it and has not acknowledged its revocation.
LeaseInv ==
    /\ TypeOK
    /\ TasksApart /\ HandsApart /\ HandsKept /\ RegistryKept
    /\ active \cap drained = {}
-----------------------------------------------------------------------------
(* How the steps of a task change its record.                              *)

\* Going to another await changes the program counter only.
LEMMA GotoRecord ==
    ASSUME task \in [Tasks -> TaskRecords], NEW t \in Tasks, NEW pc \in Pcs
    PROVE  /\ Goto(t, pc) \in [Tasks -> TaskRecords]
           /\ Goto(t, pc)[t].pc = pc
           /\ Goto(t, pc)[t].kind = task[t].kind
           /\ Goto(t, pc)[t].subject = task[t].subject
           /\ Goto(t, pc)[t].lease = task[t].lease
           /\ \A u \in Tasks : u # t => Goto(t, pc)[u] = task[u]
BY DEF Goto, TaskRecords

\* A task that ends has nothing in its hands.
LEMMA FinishRecord ==
    ASSUME task \in [Tasks -> TaskRecords], NEW t \in Tasks
    PROVE  /\ Finish(t) \in [Tasks -> TaskRecords]
           /\ Finish(t)[t].pc = "idle"
           /\ \A u \in Tasks : u # t => Finish(t)[u] = task[u]
BY DEF Finish, TaskRecords, IdleTask, Pcs, Kinds

\* A spawned cleanup keeps handle and subject.
LEMMA SpawnRecord ==
    ASSUME task \in [Tasks -> TaskRecords], NEW t \in Tasks
    PROVE  /\ Spawn(t) \in [Tasks -> TaskRecords]
           /\ Spawn(t)[t].pc = "take_revoke" /\ Spawn(t)[t].kind = "cleanup"
           /\ Spawn(t)[t].subject = task[t].subject
           /\ Spawn(t)[t].lease = task[t].lease
           /\ \A u \in Tasks : u # t => Spawn(t)[u] = task[u]
BY ZenonT(20) DEF Spawn, TaskRecords, Pcs, Kinds

\* A renewal that is over leaves the task idle or about to revoke.
LEMMA RenewalOverRecord ==
    ASSUME task \in [Tasks -> TaskRecords], NEW t \in Tasks
    PROVE  /\ RenewalOver(t) \in [Tasks -> TaskRecords]
           /\ \/ RenewalOver(t)[t].pc = "idle"
              \/ /\ RenewalOver(t)[t].pc = "take_revoke"
                 /\ RenewalOver(t)[t].lease = task[t].lease
                 /\ RenewalOver(t)[t].subject = task[t].subject
           /\ \A u \in Tasks : u # t => RenewalOver(t)[u] = task[u]
<1>1. "take_revoke" \in Pcs  BY DEF Pcs
<1>2. CASE task[t].kind = "child"  BY <1>2, FinishRecord DEF RenewalOver
<1>3. CASE task[t].kind # "child"  BY <1>1, <1>3, GotoRecord DEF RenewalOver
<1> QED  BY <1>2, <1>3

\* A failed revocation leaves the state of a lease or ends it at the backend.
LEMMA FailedRevoke ==
    ASSUME state \in [Leases -> States], NEW l \in Leases, NEW s \in AfterFailedRevoke(l)
    PROVE  /\ s \in [Leases -> States]
           /\ \A k \in Leases : k # l => s[k] = state[k]
           /\ s[l] # state[l] => s[l] = "gone"
           /\ state[l] \in Kept => s[l] \in Kept
BY DEF AfterFailedRevoke, States, Kept
-----------------------------------------------------------------------------
(* The invariant is kept.                                                  *)

InHands(t) == task[t].pc \in HandPcs

\* What every step of a task has in common, but for the one that acquires a
\* lease: it takes only a lease of its subject from the registry, returns only
\* what it has in its hands, has only what it has not returned, and what it
\* removes from the registry has expired or is in its hands.
Moves(t) ==
    /\ task' \in [Tasks -> TaskRecords]
    /\ \A u \in Tasks : u # t => task'[u] = task[u]
    /\ task'[t].pc # "idle" => task'[t].subject \in Subjects
    /\ task'[t].pc \notin {"idle", "acquire"} => task'[t].lease \in Leases
    /\ issued' \subseteq Leases
    /\ subject' = subject /\ lapsed' = lapsed /\ phase' = phase /\ drained' = drained
    /\ state' \in [Leases -> States]
    /\ \A l \in Leases : state'[l] # state[l] =>
          InHands(t) /\ l = task[t].lease /\ state'[l] \in {"gone", "revoked"}
    /\ \A l \in active' : l \in active \/ (InHands(t) /\ l = task[t].lease /\ state'[l] \in Kept)
    /\ \A l \in active \ lapsed : l \in active' \/ (InHands(t)' /\ l = task[t].lease)
    /\ InHands(t)' =>
          /\ task'[t].lease = task[t].lease /\ task'[t].subject = task[t].subject
          /\ task[t].lease \notin active' /\ state'[task[t].lease] \in Kept
          /\ InHands(t) \/ Takeable(t)

\* Such a step keeps the types and every lease in one place.
LEMMA MovesKeep ==
    ASSUME LeaseInv, NEW t \in Tasks, Moves(t)
    PROVE  LeaseInv'
<1> USE DEF InHands
<1>1. TypeOK'
  <2>1. task[t].pc \in HandPcs => task[t].lease \in Leases
    BY DEF LeaseInv, TypeOK, HandPcs
  <2>2. active' \subseteq Leases
    BY <2>1 DEF Moves, LeaseInv, TypeOK
  <2>3. \A u \in Tasks :
          /\ task'[u].pc # "idle" => task'[u].subject \in Subjects
          /\ task'[u].pc \notin {"idle", "acquire"} => task'[u].lease \in Leases
    BY DEF Moves, LeaseInv, TypeOK
  <2> QED  BY <2>2, <2>3 DEF Moves, LeaseInv, TypeOK, TaskRecords
<1>2. TasksApart'
  <2>1. ASSUME NEW u \in Tasks, u # t, task'[u].pc \in HandPcs, task'[t].pc \in HandPcs,
               task'[u].lease = task'[t].lease
        PROVE  FALSE
    <3>1. task[u].pc \in HandPcs /\ task[u].lease = task[t].lease
      BY <2>1 DEF Moves
    <3>2. CASE task[t].pc \in HandPcs
      BY <2>1, <3>1, <3>2 DEF LeaseInv, TasksApart
    <3>3. CASE Takeable(t)
      BY <3>1, <3>3 DEF LeaseInv, HandsApart, Takeable
    <3> QED  BY <2>1, <3>2, <3>3 DEF Moves
  <2>2. ASSUME NEW u \in Tasks, NEW v \in Tasks, u # t, v # t, task'[u].pc \in HandPcs,
               task'[v].pc \in HandPcs, task'[u].lease = task'[v].lease
        PROVE  u = v
    BY <2>2 DEF Moves, LeaseInv, TasksApart
  <2> QED  BY <2>1, <2>2 DEF TasksApart
<1>3. HandsApart'
  <2>1. ASSUME NEW u \in Tasks, u # t, task'[u].pc \in HandPcs
        PROVE  task'[u].lease \notin active' \cup drained'
    <3>1. task[u].pc \in HandPcs /\ task'[u].lease = task[u].lease
      BY <2>1 DEF Moves
    <3>2. task[u].lease \notin active \cup drained
      BY <3>1 DEF LeaseInv, HandsApart
    <3>3. task[t].pc \in HandPcs => task[u].lease # task[t].lease
      BY <2>1, <3>1 DEF LeaseInv, TasksApart
    <3> QED  BY <3>1, <3>2, <3>3 DEF Moves
  <2>2. ASSUME task'[t].pc \in HandPcs
        PROVE  task'[t].lease \notin active' \cup drained'
    BY <2>2 DEF Moves, LeaseInv, HandsApart, Takeable
  <2> QED  BY <2>1, <2>2 DEF HandsApart
<1>4. HandsKept'
  <2>1. ASSUME NEW u \in Tasks, u # t, task'[u].pc \in HandPcs
        PROVE  state'[task'[u].lease] \in Kept /\ subject'[task'[u].lease] = task'[u].subject
    <3>1. task[u].pc \in HandPcs /\ task'[u] = task[u] /\ task[u].lease \in Leases
      BY <2>1 DEF Moves, LeaseInv, TypeOK, HandPcs
    <3>2. task[t].pc \in HandPcs => task[u].lease # task[t].lease
      BY <2>1, <3>1 DEF LeaseInv, TasksApart
    <3> QED  BY <3>1, <3>2 DEF Moves, LeaseInv, HandsKept
  <2>2. ASSUME task'[t].pc \in HandPcs
        PROVE  state'[task'[t].lease] \in Kept /\ subject'[task'[t].lease] = task'[t].subject
    BY <2>2 DEF Moves, LeaseInv, HandsKept, Takeable
  <2> QED  BY <2>1, <2>2 DEF HandsKept
<1>5. RegistryKept'
  <2>1. ASSUME NEW l \in active' \cup drained', ~(task[t].pc \in HandPcs /\ l = task[t].lease)
        PROVE  state'[l] \in Kept
    <3>1. l \in active \cup drained /\ l \in Leases
      BY <2>1 DEF Moves, LeaseInv, TypeOK
    <3> QED  BY <2>1, <3>1 DEF Moves, LeaseInv, RegistryKept
  <2>2. ASSUME NEW l \in active' \cup drained', task[t].pc \in HandPcs /\ l = task[t].lease
        PROVE  state'[l] \in Kept
    BY <2>2 DEF Moves, LeaseInv, HandsApart
  <2> QED  BY <2>1, <2>2 DEF RegistryKept
<1>6. (active \cap drained = {})'
  BY DEF Moves, LeaseInv, HandsApart
<1> QED  BY <1>1, <1>2, <1>3, <1>4, <1>5, <1>6 DEF LeaseInv

\* Every step of a task's own work but an acquisition moves it.
LEMMA WorkMoves ==
    ASSUME LeaseInv, NEW t \in Tasks,
           Work(t), ~\E l \in Leases : AcquireOk(t, l) \/ AcquireUnusable(t, l)
    PROVE  Moves(t)
<1>1. task \in [Tasks -> TaskRecords] /\ state \in [Leases -> States]
  BY DEF LeaseInv, TypeOK, TaskRecords
<1>2. /\ task[t].pc # "idle" => task[t].subject \in Subjects
      /\ task[t].pc \notin {"idle", "acquire"} => task[t].lease \in Leases
  BY DEF LeaseInv, TypeOK
<1>3. InHands(t) => task[t].lease \notin active /\ state[task[t].lease] \in Kept
  BY DEF LeaseInv, InHands, HandsApart, HandsKept
<1>4. Takeable(t) => state[task[t].lease] \in Kept
  BY DEF LeaseInv, RegistryKept, Takeable
<1>5. issued \subseteq Leases
  BY DEF LeaseInv, TypeOK
<1>6. HandPcs \subseteq Pcs /\ {"audit", "using", "take_revoke"} \subseteq Pcs
      /\ {"idle", "acquire", "audit", "using", "take_renew", "take_revoke"} \cap HandPcs = {}
  BY DEF Pcs, HandPcs
<1>7. {"insert", "revoke", "drop_revoke", "retry_revoke", "grant", "renew", "renew_audit",
       "restore"} \subseteq HandPcs
  BY DEF HandPcs
<1> USE DEF InHands, Kept
<1>8. CASE AcquireFails(t)
  BY <1>1, <1>2, <1>5, <1>6, <1>8, FinishRecord DEF AcquireFails, Moves
<1>9. CASE Insert(t)
  <2>1. /\ active' \subseteq active \cup {task[t].lease} /\ active \ lapsed \subseteq active'
        /\ Full => active' \subseteq active
    BY <1>9 DEF Insert, Retained
  <2>2. CASE Full
    BY <1>1, <1>2, <1>3, <1>5, <1>6, <1>7, <1>9, <2>1, <2>2, GotoRecord DEF Insert, Moves
  <2>3. CASE ~Full /\ task[t].kind = "child"
    BY <1>1, <1>2, <1>3, <1>5, <1>6, <1>7, <1>9, <2>1, <2>3, GotoRecord DEF Insert, Moves
  <2>4. CASE ~Full /\ task[t].kind # "child"
    BY <1>1, <1>2, <1>3, <1>5, <1>6, <1>7, <1>9, <2>1, <2>4, GotoRecord DEF Insert, Moves
  <2> QED  BY <2>2, <2>3, <2>4
<1>10. CASE AuditOk(t)
  BY <1>1, <1>2, <1>5, <1>6, <1>10, FinishRecord DEF AuditOk, Moves
<1>11. CASE AuditFails(t)
  <2>1. CASE Takeable(t)
    BY <1>1, <1>2, <1>4, <1>5, <1>6, <1>7, <1>11, <2>1, GotoRecord
       DEF AuditFails, Moves, WithoutTaken
  <2>2. CASE ~Takeable(t)
    BY <1>1, <1>5, <1>6, <1>11, <2>2, FinishRecord DEF AuditFails, Moves
  <2> QED  BY <2>1, <2>2
<1>12. CASE DropRevoke(t)
  <2>1. CASE state' = [state EXCEPT ![task[t].lease] = "revoked"]
    BY <1>1, <1>2, <1>5, <1>6, <1>7, <1>12, <2>1, FinishRecord DEF DropRevoke, Moves, States
  <2>2. CASE state' \in AfterFailedRevoke(task[t].lease)
    BY <1>1, <1>2, <1>5, <1>6, <1>7, <1>12, <2>2, FinishRecord, FailedRevoke
       DEF DropRevoke, Moves
  <2> QED  BY <1>12, <2>1, <2>2 DEF DropRevoke
<1>13. CASE TakeRenew(t)
  <2>1. CASE Takeable(t) /\ task[t].kind = "child"
    BY <1>1, <1>2, <1>4, <1>5, <1>6, <1>7, <1>13, <2>1, GotoRecord
       DEF TakeRenew, Moves, WithoutTaken
  <2>2. CASE Takeable(t) /\ task[t].kind # "child"
    BY <1>1, <1>2, <1>4, <1>5, <1>6, <1>7, <1>13, <2>2, GotoRecord
       DEF TakeRenew, Moves, WithoutTaken
  <2>3. CASE ~Takeable(t)
    BY <1>1, <1>2, <1>5, <1>6, <1>13, <2>3, RenewalOverRecord DEF TakeRenew, Moves
  <2> QED  BY <2>1, <2>2, <2>3
<1>14. CASE CheckGrant(t)
  <2>1. CASE task' = Finish(t)
    BY <1>1, <1>5, <1>6, <1>14, <2>1, FinishRecord DEF CheckGrant, Moves
  <2>2. CASE task' = Goto(t, "renew") \/ task' = Goto(t, "drop_revoke")
    BY <1>1, <1>2, <1>3, <1>5, <1>6, <1>7, <1>14, <2>2, GotoRecord DEF CheckGrant, Moves
  <2> QED  BY <1>14, <2>1, <2>2 DEF CheckGrant
<1>15. CASE RenewOk(t) \/ RenewFails(t) \/ NotRenewable(t)
  <2>1. PICK pc \in HandPcs : task' = Goto(t, pc)
    BY <1>7, <1>15 DEF RenewOk, RenewFails, NotRenewable
  <2>2. task[t].pc = "renew" /\ UNCHANGED <<state, subject, lapsed, active, issued, phase, drained>>
    BY <1>15 DEF RenewOk, RenewFails, NotRenewable
  <2> QED  BY <1>1, <1>2, <1>3, <1>5, <1>6, <1>7, <2>1, <2>2, GotoRecord DEF Moves
<1>16. CASE RetryRevoke(t)
  <2>1. CASE state' = [state EXCEPT ![task[t].lease] = "revoked"] /\ active' = active
    BY <1>1, <1>2, <1>5, <1>6, <1>7, <1>16, <2>1, RenewalOverRecord
       DEF RetryRevoke, Moves, States
  <2>2. CASE state' \in AfterFailedRevoke(task[t].lease) /\ active' = WithRestored(t)
    BY <1>1, <1>2, <1>3, <1>5, <1>6, <1>7, <1>16, <2>2, RenewalOverRecord, FailedRevoke
       DEF RetryRevoke, Moves, WithRestored
  <2> QED  BY <1>16, <2>1, <2>2 DEF RetryRevoke
<1>17. CASE RenewAudit(t)
  BY <1>1, <1>2, <1>3, <1>5, <1>6, <1>7, <1>17, GotoRecord DEF RenewAudit, Moves
<1>18. CASE Restore(t)
  <2>1. task[t].lease \notin active
    BY <1>3, <1>7, <1>18 DEF Restore
  <2>2. CASE task[t].kind = "child"
    BY <1>1, <1>2, <1>3, <1>5, <1>6, <1>7, <1>18, <2>1, <2>2, FinishRecord DEF Restore, Moves
  <2>3. CASE task[t].kind # "child"
    BY <1>1, <1>2, <1>3, <1>5, <1>6, <1>7, <1>18, <2>1, <2>3, GotoRecord DEF Restore, Moves
  <2> QED  BY <2>2, <2>3
<1>19. CASE TakeRevoke(t)
  <2>1. CASE Takeable(t)
    BY <1>1, <1>2, <1>4, <1>5, <1>6, <1>7, <1>19, <2>1, GotoRecord
       DEF TakeRevoke, Moves, WithoutTaken
  <2>2. CASE ~Takeable(t)
    BY <1>1, <1>5, <1>6, <1>19, <2>2, FinishRecord DEF TakeRevoke, Moves
  <2> QED  BY <2>1, <2>2
<1>20. CASE RevokeOk(t)
  BY <1>1, <1>2, <1>5, <1>6, <1>7, <1>20, FinishRecord DEF RevokeOk, Moves, States
<1>21. CASE RevokeFails(t)
  <2>1. CASE task[t].kind \in {"stream", "websocket"}
    BY <1>1, <1>2, <1>3, <1>5, <1>6, <1>7, <1>21, <2>1, SpawnRecord, FailedRevoke
       DEF RevokeFails, Moves, WithRestored
  <2>2. CASE task[t].kind \notin {"stream", "websocket"}
    BY <1>1, <1>2, <1>3, <1>5, <1>6, <1>7, <1>21, <2>2, FinishRecord, FailedRevoke
       DEF RevokeFails, Moves, WithRestored
  <2> QED  BY <2>1, <2>2
<1> QED
  BY <1>8, <1>9, <1>10, <1>11, <1>12, <1>13, <1>14, <1>15, <1>16, <1>17, <1>18, <1>19,
     <1>20, <1>21 DEF Work

\* So does every step that callers and upstreams decide.
LEMMA RequestsMove ==
    ASSUME LeaseInv, NEW t \in Tasks, Requests(t)
    PROVE  Moves(t)
<1>1. task \in [Tasks -> TaskRecords] /\ state \in [Leases -> States] /\ issued \subseteq Leases
  BY DEF LeaseInv, TypeOK, TaskRecords
<1>2. /\ task[t].pc # "idle" => task[t].subject \in Subjects
      /\ task[t].pc \notin {"idle", "acquire"} => task[t].lease \in Leases
  BY DEF LeaseInv, TypeOK
<1>3. {"take_renew", "take_revoke", "idle", "acquire"} \subseteq Pcs \ HandPcs
  BY DEF Pcs, HandPcs
<1> USE DEF InHands
<1>4. ASSUME NEW kind \in Kinds \ {"cleanup"}, NEW s \in Subjects, Begin(t, kind, s)
      PROVE  Moves(t)
  <2> DEFINE new == [pc |-> "acquire", kind |-> kind, subject |-> s, lease |-> None]
  <2>1. new \in TaskRecords  BY <1>3 DEF TaskRecords
  <2>2. task' = [task EXCEPT ![t] = new]  BY <1>4 DEF Begin
  <2> HIDE DEF new
  <2>3. task'[t] = new /\ task' \in [Tasks -> TaskRecords]  BY <1>1, <2>1, <2>2
  <2>4. new.pc = "acquire"  BY DEF new
  <2> QED  BY <1>1, <1>3, <1>4, <2>2, <2>3, <2>4 DEF Begin, Moves
<1>5. ASSUME NEW pc \in {"take_renew", "take_revoke"}, NEW s \in Subjects, NEW l \in Leases,
             RequestOn(t, pc, s, l)
      PROVE  Moves(t)
  <2> DEFINE new == [pc |-> pc, kind |-> "child", subject |-> s, lease |-> l]
  <2>1. new \in TaskRecords  BY <1>3 DEF TaskRecords, Kinds
  <2>2. task' = [task EXCEPT ![t] = new]  BY <1>5 DEF RequestOn
  <2>3. new.pc = pc /\ new.lease = l /\ new.subject = s  OBVIOUS
  <2> HIDE DEF new
  <2>4. task'[t] = new /\ task' \in [Tasks -> TaskRecords]  BY <1>1, <2>1, <2>2
  <2> QED  BY <1>1, <1>3, <1>5, <2>2, <2>3, <2>4 DEF RequestOn, Moves
<1>6. CASE RelayRenews(t)
  BY <1>1, <1>2, <1>3, <1>6, GotoRecord DEF RelayRenews, Moves
<1>7. CASE OwnerEnds(t)
  BY <1>1, <1>2, <1>3, <1>7, GotoRecord DEF OwnerEnds, Moves
<1>8. CASE OwnerDropped(t)
  BY <1>1, <1>2, <1>3, <1>8, SpawnRecord DEF OwnerDropped, Moves
<1>9. CASE Cancel(t)
  BY <1>1, <1>3, <1>9, FinishRecord DEF Cancel, Moves
<1> QED  BY <1>4, <1>5, <1>6, <1>7, <1>8, <1>9 DEF Requests

\* A lease the backend issues is nowhere yet.
LEMMA AcquireKeeps ==
    ASSUME LeaseInv, NEW t \in Tasks, NEW l \in Leases, AcquireOk(t, l) \/ AcquireUnusable(t, l)
    PROVE  LeaseInv'
<1>1. task \in [Tasks -> TaskRecords] /\ state \in [Leases -> States]
      /\ subject \in [Leases -> Subjects \cup {None}] /\ task[t].pc = "acquire"
  BY DEF LeaseInv, TypeOK, TaskRecords, AcquireOk, AcquireUnusable
<1>2. state[l] = "free" /\ state' = [state EXCEPT ![l] = "live"]
      /\ subject' = [subject EXCEPT ![l] = task[t].subject]
      /\ UNCHANGED <<lapsed, active, issued, phase, drained>>
  BY DEF AcquireOk, AcquireUnusable
<1>3. \A u \in Tasks : task[u].pc \in HandPcs => task[u].lease # l
  BY <1>2 DEF LeaseInv, HandsKept, Kept
<1>4. l \notin active \cup drained
  BY <1>2 DEF LeaseInv, RegistryKept, Kept
<1>5. /\ task' \in [Tasks -> TaskRecords]
      /\ \A u \in Tasks : u # t => task'[u] = task[u]
      /\ \/ task'[t].pc = "idle"
         \/ /\ task'[t].pc = "insert" /\ task'[t].lease = l
            /\ task'[t].subject = task[t].subject
  <2>1. CASE AcquireUnusable(t, l)  BY <1>1, <2>1, FinishRecord DEF AcquireUnusable
  <2>2. CASE AcquireOk(t, l)
    BY ZenonT(20), <1>1, <2>2 DEF AcquireOk, TaskRecords, Pcs, HandPcs
  <2> QED  BY <2>1, <2>2
<1>6. "insert" \in HandPcs /\ "idle" \notin HandPcs  BY DEF HandPcs
<1>7. TasksApart'  BY <1>3, <1>5, <1>6 DEF LeaseInv, TasksApart
<1>8. HandsApart'  BY <1>2, <1>4, <1>5, <1>6 DEF LeaseInv, HandsApart
<1>9. HandsKept'
  <2>1. \A u \in Tasks : task[u].pc \in HandPcs => task[u].lease \in Leases
    BY DEF LeaseInv, TypeOK, HandPcs
  <2> QED  BY <1>1, <1>2, <1>3, <1>5, <1>6, <2>1 DEF LeaseInv, HandsKept, Kept
<1>10. RegistryKept'  BY <1>1, <1>2, <1>4 DEF LeaseInv, TypeOK, RegistryKept
<1>11. (active \cap drained = {})'  BY <1>2 DEF LeaseInv
<1>12. TypeOK'
  <2>1. task[t].subject \in Subjects  BY <1>1 DEF LeaseInv, TypeOK
  <2>2. \A u \in Tasks :
          /\ task'[u].pc # "idle" => task'[u].subject \in Subjects
          /\ task'[u].pc \notin {"idle", "acquire"} => task'[u].lease \in Leases
    BY <1>5, <2>1 DEF LeaseInv, TypeOK
  <2>3. state' \in [Leases -> States] /\ subject' \in [Leases -> Subjects \cup {None}]
    BY <1>1, <1>2, <2>1 DEF States
  <2> QED  BY <1>2, <1>5, <2>2, <2>3 DEF LeaseInv, TypeOK, TaskRecords
<1> QED  BY <1>7, <1>8, <1>9, <1>10, <1>11, <1>12 DEF LeaseInv

\* The steps of the backend's clock and of shutdown.
LEMMA ProcessKeeps ==
    ASSUME LeaseInv,
           (\E l \in Leases : Expire(l) \/ DrainRevoke(l)) \/ Shutdown \/ Drain \/ Exit
    PROVE  LeaseInv'
<1>1. ASSUME NEW l \in Leases, Expire(l)
      PROVE  LeaseInv'
  <2>1. /\ state' \in [Leases -> States] /\ lapsed' \subseteq Leases
        /\ \A k \in Leases : state[k] \in Kept => state'[k] \in Kept
    BY <1>1 DEF LeaseInv, TypeOK, Expire, States, Kept
  <2>2. TypeOK'  BY <1>1, <2>1 DEF LeaseInv, TypeOK, Expire
  <2>3. TasksApart' /\ HandsApart' /\ (active \cap drained = {})'
    BY <1>1 DEF LeaseInv, Expire, TasksApart, HandsApart
  <2>4. HandsKept' /\ RegistryKept'
    BY <1>1, <2>1 DEF LeaseInv, TypeOK, Expire, HandsKept, RegistryKept, HandPcs
  <2> QED  BY <2>2, <2>3, <2>4 DEF LeaseInv
<1>2. ASSUME NEW l \in Leases, DrainRevoke(l)
      PROVE  LeaseInv'
  <2>1. /\ state' \in [Leases -> States]
        /\ \A k \in Leases : k # l => state'[k] = state[k]
    BY <1>2, FailedRevoke DEF LeaseInv, TypeOK, DrainRevoke, States
  <2>2. TypeOK'  BY <1>2, <2>1 DEF LeaseInv, TypeOK, DrainRevoke
  <2>3. TasksApart' /\ HandsApart' /\ (active \cap drained = {})'
    BY <1>2 DEF LeaseInv, DrainRevoke, TasksApart, HandsApart
  <2>4. l \notin active \cup drained' /\ \A t \in Tasks : task[t].pc \in HandPcs => task[t].lease # l
    BY <1>2 DEF LeaseInv, DrainRevoke, HandsApart
  <2>5. HandsKept' /\ RegistryKept'
    BY <1>2, <2>1, <2>4 DEF LeaseInv, TypeOK, DrainRevoke, HandsKept, RegistryKept, HandPcs
  <2> QED  BY <2>2, <2>3, <2>5 DEF LeaseInv
<1>3. CASE Shutdown
  BY <1>3 DEF LeaseInv, TypeOK, Shutdown, TasksApart, HandsApart, HandsKept, RegistryKept, Phases
<1>4. CASE Drain
  <2>1. TypeOK'  BY <1>4 DEF LeaseInv, TypeOK, Drain, Phases
  <2> QED
    BY <1>4, <2>1 DEF LeaseInv, Drain, TasksApart, HandsApart, HandsKept, RegistryKept
<1>5. CASE Exit
  <2>1. \A t \in Tasks : task'[t] = IdleTask  BY <1>5 DEF Exit
  <2>2. IdleTask \in TaskRecords /\ IdleTask.pc = "idle" /\ "idle" \notin HandPcs
    BY DEF IdleTask, TaskRecords, Pcs, Kinds, HandPcs
  <2>3. task' \in [Tasks -> TaskRecords]  BY <1>5, <2>2 DEF Exit
  <2>4. TypeOK'  BY <1>5, <2>1, <2>2, <2>3 DEF LeaseInv, TypeOK, Exit, TaskRecords, Phases
  <2> QED
    BY <1>5, <2>1, <2>2, <2>4 DEF LeaseInv, Exit, TasksApart, HandsApart, HandsKept, RegistryKept
<1> QED  BY <1>1, <1>2, <1>3, <1>4, <1>5

\* The invariant holds of every reachable state.
THEOREM LeaseInvariant == Spec => []LeaseInv
<1>1. Init => LeaseInv
  <2> SUFFICES ASSUME Init PROVE LeaseInv  OBVIOUS
  <2>1. IdleTask \in TaskRecords /\ IdleTask.pc = "idle" /\ "idle" \notin HandPcs
    BY DEF IdleTask, TaskRecords, Pcs, Kinds, HandPcs
  <2>2. TypeOK  BY <2>1 DEF Init, TypeOK, TaskRecords, States, Phases
  <2> QED  BY <2>1, <2>2 DEF Init, LeaseInv, TasksApart, HandsApart, HandsKept, RegistryKept
<1>2. LeaseInv /\ [Next]_vars => LeaseInv'
  <2> SUFFICES ASSUME LeaseInv, [Next]_vars PROVE LeaseInv'  OBVIOUS
  <2>1. ASSUME NEW t \in Tasks, Work(t) \/ Requests(t) PROVE LeaseInv'
    BY <2>1, WorkMoves, RequestsMove, MovesKeep, AcquireKeeps
  <2>2. CASE (\E l \in Leases : Expire(l) \/ DrainRevoke(l)) \/ Shutdown \/ Drain \/ Exit
    BY <2>2, ProcessKeeps
  <2>3. CASE UNCHANGED vars
    BY <2>3 DEF vars, LeaseInv, TypeOK, TasksApart, HandsApart, HandsKept, RegistryKept
  <2> QED  BY <2>1, <2>2, <2>3 DEF Next
<1> QED  BY <1>1, <1>2, PTL DEF Spec
-----------------------------------------------------------------------------
(* What follows from the invariant.                                        *)

\* A lease is in hand when some task has it.
LEMMA InHandMeans ==
    ASSUME NEW l
    PROVE  /\ \A t \in Tasks : l \in Hands(t) <=> InHands(t) /\ l = task[t].lease
           /\ l \in InHand <=> \E t \in Tasks : InHands(t) /\ l = task[t].lease
BY DEF Hands, InHand, InHands

\* Registry, tasks and process have their types, whatever goes wrong.
THEOREM LeaseTypes == Spec => []TypeOK
BY LeaseInvariant, PTL DEF LeaseInv

\* No interleaving of renewals, revocations, cleanups and the shutdown drain
\* puts a lease in two places: the take, restore and drain of the
\* DynamicLeaseRegistry hand each lease to one task at a time.
THEOREM LeasesInOnePlace == Spec => []OnePlace
<1>1. LeaseInv => OnePlace
  BY InHandMeans DEF LeaseInv, OnePlace, TasksApart, HandsApart, InHands
<1> QED  BY <1>1, LeaseInvariant, PTL

\* A lease whose revocation the backend acknowledged never returns to the
\* registry, to a task or to the drain.
THEOREM RevokedLeasesLeave == Spec => []RevokedLeavesAV
<1>1. LeaseInv => RevokedLeavesAV
  BY InHandMeans DEF LeaseInv, RevokedLeavesAV, HandsKept, RegistryKept, InHands, Kept
<1> QED  BY <1>1, LeaseInvariant, PTL

\* take_for_subject gives a lease to tasks of its own subject only.
THEOREM LeasesOfTheirSubject == Spec => []HeldForItsSubject
<1>1. LeaseInv => HeldForItsSubject
  BY InHandMeans DEF LeaseInv, HeldForItsSubject, HandsKept, InHands
<1> QED  BY <1>1, LeaseInvariant, PTL

\* The registry loses no lease that has not expired, under any fault: it is in
\* the hands of a task, or drained, or the process has ended.
THEOREM RegistryRemembers == Spec => RegistryForgetsNothing
<1>1. LeaseInv /\ [Next]_vars =>
          [\A l \in active \ lapsed :
              l \in (active \cup drained \cup InHand)' \/ phase' = "exited"]_vars
  <2> SUFFICES ASSUME LeaseInv, Next, NEW l \in active \ lapsed
               PROVE  l \in active' \cup drained' \/ l \in InHand' \/ phase' = "exited"
    OBVIOUS
  <2>1. ASSUME NEW t \in Tasks, Moves(t) PROVE l \in active' \/ l \in InHand'
    <3>1. CASE InHands(t)' /\ l = task[t].lease
      <4>1. InHands(t)' /\ l = task'[t].lease  BY <2>1, <3>1 DEF Moves
      <4> QED  BY <4>1 DEF InHand, Hands, InHands
    <3> QED  BY <2>1, <3>1 DEF Moves
  <2>2. ASSUME NEW t \in Tasks, Work(t) \/ Requests(t) PROVE l \in active' \/ l \in InHand'
    <3>1. CASE \E k \in Leases : AcquireOk(t, k) \/ AcquireUnusable(t, k)
      BY <3>1 DEF AcquireOk, AcquireUnusable
    <3> QED  BY <2>1, <2>2, <3>1, WorkMoves, RequestsMove
  <2>3. CASE (\E k \in Leases : Expire(k) \/ DrainRevoke(k)) \/ Shutdown \/ Drain \/ Exit
    BY <2>3 DEF Expire, DrainRevoke, Shutdown, Drain, Exit
  <2> QED  BY <2>2, <2>3 DEF Next
<1> QED  BY <1>1, LeaseInvariant, PTL DEF Spec, RegistryForgetsNothing
-----------------------------------------------------------------------------
(* How far restore can carry the registry past its limit.                  *)

\* Tasks that may put their lease into the registry without a look at the limit.
ReturnPcs == {"revoke", "retry_revoke", "grant", "renew", "renew_audit", "restore"}
Carriers == {t \in Tasks : task[t].pc \in ReturnPcs}

\* The inductive form: what may be returned counts as well.
CountInv == Cardinality(active) + Cardinality(Carriers) < MaxActive + Cardinality(Tasks)

\* A step of a task in terms of the registry and of what it may return: neither
\* grows, or a lease passes from one to the other, or insert saw the limit.
Counted(t) ==
    \/ active' \subseteq active /\ (task'[t].pc \in ReturnPcs => task[t].pc \in ReturnPcs)
    \/ task[t].lease \in active /\ active' = active \ {task[t].lease}
    \/ /\ task[t].pc \in ReturnPcs /\ task'[t].pc \notin ReturnPcs
       /\ active' = active \cup {task[t].lease}
    \/ Cardinality(active') <= MaxActive /\ task'[t].pc \notin ReturnPcs

\* One element makes a finite set larger by at most one.
LEMMA OneMore ==
    ASSUME NEW S, IsFiniteSet(S), NEW x
    PROVE  /\ IsFiniteSet(S \cup {x}) /\ Cardinality(S \cup {x}) \in Nat
           /\ Cardinality(S \cup {x}) <= Cardinality(S) + 1
<1>1. Cardinality(S) \in Nat  BY FS_CardinalityType
<1>2. CASE x \in S
  <2>1. S \cup {x} = S  BY <1>2
  <2>2. IsFiniteSet(S \cup {x}) /\ Cardinality(S \cup {x}) = Cardinality(S)  BY <2>1, Zenon
  <2> QED  BY <1>1, <2>2
<1>3. CASE x \notin S
  <2>1. IsFiniteSet(S \cup {x}) /\ Cardinality(S \cup {x}) = Cardinality(S) + 1
    BY <1>3, FS_AddElement
  <2> QED  BY <1>1, <2>1
<1> QED  BY <1>2, <1>3

\* Every step of a task is one of these.
LEMMA TasksCounted ==
    ASSUME LeaseInv, NEW t \in Tasks, Work(t) \/ Requests(t)
    PROVE  Counted(t)
<1>1. task \in [Tasks -> TaskRecords] /\ active \subseteq Leases
  BY DEF LeaseInv, TypeOK, TaskRecords
<1>2. ReturnPcs \subseteq Pcs /\ "drop_revoke" \in Pcs
      /\ {"audit", "using", "take_revoke", "take_renew"} \subseteq Pcs
  BY DEF ReturnPcs, Pcs, HandPcs
<1>3. {"idle", "acquire", "insert", "drop_revoke", "audit", "using", "take_revoke", "take_renew"}
          \cap ReturnPcs = {}
  BY DEF ReturnPcs
<1>4. {"revoke", "retry_revoke", "grant", "renew", "renew_audit", "restore"} \subseteq ReturnPcs
  BY DEF ReturnPcs
<1>5. ASSUME NEW l \in Leases, AcquireOk(t, l) \/ AcquireUnusable(t, l) PROVE Counted(t)
  <2>1. CASE AcquireOk(t, l)
    BY <1>1, <1>3, <2>1 DEF AcquireOk, Counted, TaskRecords
  <2>2. CASE AcquireUnusable(t, l)
    BY <1>1, <1>3, <2>2, FinishRecord DEF AcquireUnusable, Counted
  <2> QED  BY <1>5, <2>1, <2>2
<1>6. CASE AcquireFails(t) \/ AuditOk(t) \/ DropRevoke(t) \/ RevokeOk(t) \/ Cancel(t)
  BY <1>1, <1>3, <1>6, FinishRecord
     DEF AcquireFails, AuditOk, DropRevoke, RevokeOk, Cancel, Counted
<1>7. CASE Insert(t)
  <2>1. CASE Full
    BY <1>1, <1>2, <1>3, <1>7, <2>1, GotoRecord DEF Insert, Retained, Counted
  <2>2. CASE ~Full
    <3>1. IsFiniteSet(Retained)
      BY <1>1, LeasesAssumption, FS_Subset DEF Retained
    <3>2. Cardinality(Retained) \in Nat /\ Cardinality(Retained) < MaxActive
      BY <2>2, <3>1, FS_CardinalityType, LeasesAssumption DEF Full
    <3>3. Cardinality(active') <= MaxActive
      <4>1. active' = Retained \cup {task[t].lease}  BY <1>7, <2>2 DEF Insert
      <4>2. /\ Cardinality(Retained \cup {task[t].lease}) \in Nat
            /\ Cardinality(Retained \cup {task[t].lease}) <= Cardinality(Retained) + 1
        BY ZenonT(20), <3>1, OneMore
      <4>3. MaxActive \in Nat  BY LeasesAssumption
      <4> QED  BY <3>2, <4>1, <4>2, <4>3
    <3>4. task'[t].pc \notin ReturnPcs
      BY <1>1, <1>2, <1>3, <1>7, <2>2, GotoRecord DEF Insert
    <3> QED  BY <3>3, <3>4 DEF Counted
  <2> QED  BY <2>1, <2>2
<1>8. CASE AuditFails(t) \/ TakeRenew(t) \/ TakeRevoke(t)
  <2>1. CASE Takeable(t)
    BY <1>8, <2>1 DEF AuditFails, TakeRenew, TakeRevoke, Takeable, WithoutTaken, Counted
  <2>2. CASE ~Takeable(t)
    BY <1>1, <1>3, <1>8, <2>2, FinishRecord, RenewalOverRecord
       DEF AuditFails, TakeRenew, TakeRevoke, Counted
  <2> QED  BY <2>1, <2>2
<1>9. CASE CheckGrant(t) \/ RenewOk(t) \/ RenewFails(t) \/ NotRenewable(t) \/ RenewAudit(t)
  BY <1>4, <1>9 DEF CheckGrant, RenewOk, RenewFails, NotRenewable, RenewAudit, Counted
<1>10. CASE RetryRevoke(t)
  BY <1>1, <1>3, <1>4, <1>10, RenewalOverRecord DEF RetryRevoke, WithRestored, Counted
<1>11. CASE Restore(t)
  <2>1. CASE task[t].lease \in active
    BY <1>4, <1>11, <2>1 DEF Restore, Counted
  <2>2. CASE task[t].lease \notin active
    BY <1>1, <1>2, <1>3, <1>4, <1>11, <2>2, FinishRecord, GotoRecord DEF Restore, Counted
  <2> QED  BY <2>1, <2>2
<1>12. CASE RevokeFails(t)
  BY <1>1, <1>3, <1>4, <1>12, FinishRecord, SpawnRecord DEF RevokeFails, WithRestored, Counted
<1>13. CASE RelayRenews(t) \/ OwnerEnds(t)
  BY <1>1, <1>2, <1>3, <1>13, GotoRecord DEF RelayRenews, OwnerEnds, Counted
<1>14. CASE OwnerDropped(t)
  BY <1>1, <1>3, <1>14, SpawnRecord DEF OwnerDropped, Counted
<1>15. ASSUME NEW kind \in Kinds \ {"cleanup"}, NEW s \in Subjects, Begin(t, kind, s)
       PROVE  Counted(t)
  BY <1>1, <1>3, <1>15 DEF Begin, Counted
<1>16. ASSUME NEW pc \in {"take_renew", "take_revoke"}, NEW s \in Subjects, NEW l \in Leases,
              RequestOn(t, pc, s, l)
       PROVE  Counted(t)
  BY <1>1, <1>3, <1>16 DEF RequestOn, Counted
<1> QED
  BY <1>5, <1>6, <1>7, <1>8, <1>9, <1>10, <1>11, <1>12, <1>13, <1>14, <1>15, <1>16
     DEF Work, Requests

\* A counted step keeps the count.
LEMMA CountedKeeps ==
    ASSUME LeaseInv, LeaseInv', CountInv, NEW t \in Tasks, Counted(t),
           \A u \in Tasks : u # t => task'[u] = task[u]
    PROVE  CountInv'
<1>1. /\ IsFiniteSet(active) /\ Cardinality(active) \in Nat
      /\ IsFiniteSet(active') /\ Cardinality(active') \in Nat
  BY LeasesAssumption, FS_Subset, FS_CardinalityType DEF LeaseInv, TypeOK
<1>2. /\ IsFiniteSet(Carriers) /\ Cardinality(Carriers) \in Nat
      /\ IsFiniteSet(Carriers') /\ Cardinality(Carriers') \in Nat
      /\ Cardinality(Tasks) \in Nat
  <2>1. Carriers \in SUBSET Tasks /\ Carriers' \in SUBSET Tasks  BY DEF Carriers
  <2> QED  BY <2>1, LeasesAssumption, FS_Subset, FS_CardinalityType
<1>3. CASE active' \subseteq active /\ (task'[t].pc \in ReturnPcs => task[t].pc \in ReturnPcs)
  <2>1. Carriers' \in SUBSET Carriers /\ active' \in SUBSET active  BY <1>3 DEF Carriers
  <2>2. Cardinality(Carriers') <= Cardinality(Carriers)
        /\ Cardinality(active') <= Cardinality(active)
    BY <1>1, <1>2, <2>1, FS_Subset
  <2> QED  BY <1>1, <1>2, <2>2, LeasesAssumption DEF CountInv
<1>4. CASE task[t].lease \in active /\ active' = active \ {task[t].lease}
  <2>1. Carriers' \in SUBSET (Carriers \cup {t})  BY DEF Carriers
  <2>2. IsFiniteSet(Carriers \cup {t}) /\ Cardinality(Carriers \cup {t}) <= Cardinality(Carriers) + 1
    BY ZenonT(20), <1>2, OneMore
  <2>3. Cardinality(Carriers') <= Cardinality(Carriers \cup {t})
    BY <2>1, <2>2, FS_Subset
  <2>4. Cardinality(active') = Cardinality(active) - 1
    BY <1>1, <1>4, FS_RemoveElement
  <2>5. Cardinality(Carriers \cup {t}) \in Nat  BY <2>2, FS_CardinalityType
  <2> QED  BY <1>1, <1>2, <2>2, <2>3, <2>4, <2>5, LeasesAssumption DEF CountInv
<1>5. CASE /\ task[t].pc \in ReturnPcs /\ task'[t].pc \notin ReturnPcs
           /\ active' = active \cup {task[t].lease}
  <2>1. t \in Carriers /\ Carriers' = Carriers \ {t}  BY <1>5 DEF Carriers
  <2>2. Cardinality(Carriers') = Cardinality(Carriers) - 1
    BY <1>2, <2>1, FS_RemoveElement
  <2>3. Cardinality(active') <= Cardinality(active) + 1
    BY ZenonT(20), <1>1, <1>5, OneMore
  <2> QED  BY <1>1, <1>2, <2>2, <2>3, LeasesAssumption DEF CountInv
<1>6. CASE Cardinality(active') <= MaxActive /\ task'[t].pc \notin ReturnPcs
  <2>1. Carriers' \in SUBSET (Tasks \ {t})  BY <1>6 DEF Carriers
  <2>2. IsFiniteSet(Tasks \ {t}) /\ Cardinality(Tasks \ {t}) = Cardinality(Tasks) - 1
    BY LeasesAssumption, FS_RemoveElement
  <2>3. Cardinality(Carriers') <= Cardinality(Tasks) - 1
    BY <2>1, <2>2, FS_Subset
  <2> QED  BY <1>1, <1>2, <1>6, <2>3, LeasesAssumption DEF CountInv
<1> QED  BY <1>3, <1>4, <1>5, <1>6 DEF Counted

\* Renewals in flight, which restore returns without a look at the limit, take
\* the registry past MAX_ACTIVE_DYNAMIC_LEASES by less than the number of tasks.
THEOREM OvershootIsBounded == Spec => []OvershootBounded
<1>1. Init => CountInv
  <2> SUFFICES ASSUME Init PROVE CountInv  OBVIOUS
  <2>1. active = {} /\ Carriers = {}  BY DEF Init, Carriers, IdleTask, ReturnPcs
  <2>2. Cardinality(active) = 0 /\ Cardinality(Carriers) = 0  BY <2>1, FS_EmptySet
  <2>3. Cardinality(Tasks) \in Nat  BY LeasesAssumption, FS_CardinalityType
  <2> QED  BY <2>2, <2>3, LeasesAssumption DEF CountInv
<1>2. LeaseInv /\ LeaseInv' /\ CountInv /\ [Next]_vars => CountInv'
  <2> SUFFICES ASSUME LeaseInv, LeaseInv', CountInv, [Next]_vars PROVE CountInv'  OBVIOUS
  <2>1. ASSUME NEW t \in Tasks, Work(t) \/ Requests(t) PROVE CountInv'
    <3>1. Counted(t)  BY <2>1, TasksCounted
    <3>2. \A u \in Tasks : u # t => task'[u] = task[u]
      <4>1. task \in [Tasks -> TaskRecords]  BY DEF LeaseInv, TypeOK, TaskRecords
      <4>2. CASE \E l \in Leases : AcquireOk(t, l) \/ AcquireUnusable(t, l)
        BY <4>1, <4>2, FinishRecord DEF AcquireOk, AcquireUnusable
      <4>3. CASE Moves(t)  BY <4>3 DEF Moves
      <4> QED  BY <2>1, <4>2, <4>3, WorkMoves, RequestsMove
    <3> QED  BY <3>1, <3>2, CountedKeeps
  <2>2. ASSUME active' \subseteq active, Carriers' \subseteq Carriers PROVE CountInv'
    <3>1. IsFiniteSet(active) /\ IsFiniteSet(Carriers)
      BY LeasesAssumption, FS_Subset DEF LeaseInv, TypeOK, Carriers
    <3>2. /\ Cardinality(active') <= Cardinality(active) /\ IsFiniteSet(active')
          /\ Cardinality(Carriers') <= Cardinality(Carriers) /\ IsFiniteSet(Carriers')
      BY <2>2, <3>1, FS_Subset
    <3>3. /\ Cardinality(active) \in Nat /\ Cardinality(active') \in Nat
          /\ Cardinality(Carriers) \in Nat /\ Cardinality(Carriers') \in Nat
          /\ Cardinality(Tasks) \in Nat
      BY <3>1, <3>2, LeasesAssumption, FS_CardinalityType
    <3> QED  BY <3>2, <3>3, LeasesAssumption DEF CountInv
  <2>3. CASE (\E l \in Leases : Expire(l) \/ DrainRevoke(l)) \/ Shutdown \/ UNCHANGED vars
    BY <2>2, <2>3 DEF Expire, DrainRevoke, Shutdown, vars, Carriers
  <2>4. CASE Drain  BY <2>2, <2>4 DEF Drain, Carriers
  <2>5. CASE Exit
    <3>1. Carriers' = {}  BY <2>5 DEF Exit, Carriers, IdleTask, ReturnPcs
    <3> QED  BY <2>2, <2>5, <3>1 DEF Exit
  <2> QED  BY <2>1, <2>3, <2>4, <2>5 DEF Next
<1>3. LeaseInv /\ CountInv => OvershootBounded
  <2> SUFFICES ASSUME LeaseInv, CountInv PROVE OvershootBounded  OBVIOUS
  <2>1. /\ Cardinality(active) \in Nat /\ Cardinality(Carriers) \in Nat
        /\ Cardinality(Tasks) \in Nat
    BY LeasesAssumption, FS_Subset, FS_CardinalityType DEF LeaseInv, TypeOK, Carriers
  <2> QED  BY <2>1, LeasesAssumption DEF CountInv, OvershootBounded
<1> QED  BY <1>1, <1>2, <1>3, LeaseInvariant, PTL DEF Spec
-----------------------------------------------------------------------------
(* Who owns a live lease.                                                  *)

\* What has lapsed has ended at the backend, so that the registry may drop it.
LapsedEnded == \A l \in lapsed : state[l] \notin {"free", "live"}

\* The drain takes all leases at once.
DrainedLast == phase \in {"serving", "stopping"} => drained = {}

\* Without failures a task lets go of a lease only once it is revoked or back
\* in the registry.
Releases(t) ==
    InHands(t) => \/ InHands(t)' \/ task[t].lease \in active'
                  \/ state'[task[t].lease] # "live"

\* Every step of a task does so when neither the backend nor the store fails
\* and no handler is dropped.
LEMMA TasksRelease ==
    ASSUME LeaseInv, NEW t \in Tasks, Work(t) \/ Requests(t), Faults \subseteq {"drop", "deadline"}
    PROVE  Releases(t)
<1>1. task \in [Tasks -> TaskRecords] /\ state \in [Leases -> States]
  BY DEF LeaseInv, TypeOK, TaskRecords
<1>2. InHands(t) => task[t].lease \in Leases
  BY DEF LeaseInv, TypeOK, InHands, HandPcs
<1>3. {"idle", "acquire", "audit", "using", "take_renew", "take_revoke"} \cap HandPcs = {}
      /\ HandPcs \subseteq Pcs
  BY DEF HandPcs, Pcs
<1>4. {"insert", "revoke", "drop_revoke", "retry_revoke", "grant", "renew", "renew_audit",
       "restore"} \subseteq HandPcs
  BY DEF HandPcs
<1>5. "backend" \notin Faults /\ "store" \notin Faults /\ "cancel" \notin Faults
  OBVIOUS
<1> USE DEF InHands
<1>6. CASE \/ \E l \in Leases : AcquireOk(t, l) \/ AcquireUnusable(t, l)
           \/ AcquireFails(t) \/ AuditOk(t) \/ AuditFails(t) \/ TakeRenew(t) \/ TakeRevoke(t)
           \/ RelayRenews(t) \/ OwnerEnds(t) \/ OwnerDropped(t)
  BY <1>3, <1>6 DEF AcquireOk, AcquireUnusable, AcquireFails, AuditOk, AuditFails, TakeRenew,
     TakeRevoke, RelayRenews, OwnerEnds, OwnerDropped, Releases
<1>7. CASE \/ \E kind \in Kinds \ {"cleanup"}, s \in Subjects : Begin(t, kind, s)
           \/ \E pc \in {"take_renew", "take_revoke"}, s \in Subjects, l \in Leases :
                 RequestOn(t, pc, s, l)
  BY <1>3, <1>7 DEF Begin, RequestOn, Releases
<1>8. CASE Insert(t)
  <2>1. CASE Full  BY <1>1, <1>3, <1>4, <1>8, <2>1, GotoRecord DEF Insert, Releases
  <2>2. CASE ~Full  BY <1>8, <2>2 DEF Insert, Releases
  <2> QED  BY <2>1, <2>2
<1>9. CASE DropRevoke(t) \/ RetryRevoke(t) \/ RevokeOk(t)
  BY <1>1, <1>2, <1>5, <1>9 DEF DropRevoke, RetryRevoke, RevokeOk, Releases
<1>10. CASE CheckGrant(t) \/ RenewOk(t) \/ RenewFails(t) \/ NotRenewable(t) \/ RenewAudit(t)
  <2>1. PICK pc \in HandPcs : task' = Goto(t, pc)
    BY <1>4, <1>5, <1>10 DEF CheckGrant, RenewOk, RenewFails, NotRenewable, RenewAudit
  <2> QED  BY <1>1, <1>3, <2>1, GotoRecord DEF Releases
<1>11. CASE Restore(t)
  <2>1. CASE task[t].lease \in active
    BY <1>11, <2>1 DEF Restore, Releases
  <2>2. CASE task[t].lease \notin active
    BY <1>11, <2>2 DEF Restore, Releases
  <2> QED  BY <2>1, <2>2
<1>12. CASE RevokeFails(t) \/ Cancel(t)
  BY <1>5, <1>12 DEF RevokeFails, Cancel
<1> QED
  BY <1>6, <1>7, <1>8, <1>9, <1>10, <1>11, <1>12 DEF Work, Requests

OwnedInv == LapsedEnded /\ DrainedLast /\ LiveLeasesOwned

\* The invariant behind LiveLeasesHaveOwners: what left the registry by its
\* expiry has ended, and the drain misses nothing.
LEMMA OwnedInvariant ==
    ASSUME Faults \subseteq {"drop", "deadline"}
    PROVE  Spec => []OwnedInv
<1> USE DEF OwnedInv
<1>1. Init => OwnedInv
  BY DEF Init, LapsedEnded, DrainedLast, LiveLeasesOwned
<1>2. LeaseInv /\ OwnedInv /\ [Next]_vars => OwnedInv'
  <2> SUFFICES ASSUME LeaseInv, LapsedEnded, DrainedLast, LiveLeasesOwned, [Next]_vars
               PROVE  LapsedEnded' /\ DrainedLast' /\ LiveLeasesOwned'
    OBVIOUS
  <2>1. /\ state \in [Leases -> States] /\ task \in [Tasks -> TaskRecords]
        /\ lapsed \subseteq Leases /\ active \subseteq Leases /\ drained \subseteq Leases
    BY DEF LeaseInv, TypeOK, TaskRecords
  <2>2. ASSUME NEW t \in Tasks, Moves(t), Releases(t) PROVE LapsedEnded' /\ LiveLeasesOwned'
    <3>1. LapsedEnded'  BY <2>1, <2>2 DEF Moves, LapsedEnded
    <3>2. ASSUME NEW l \in Leases, state'[l] = "live", phase' # "exited"
          PROVE  l \in active' \cup drained' \/ l \in InHand'
      <4>1. state[l] = "live" /\ phase # "exited" /\ l \notin lapsed
        BY <2>2, <3>2 DEF Moves, LapsedEnded
      <4>2. l \in active \/ l \in drained \/ l \in InHand
        BY <4>1 DEF LiveLeasesOwned
      <4>3. InHands(t)' /\ l = task[t].lease => l \in InHand'
        BY <2>2 DEF Moves, InHand, Hands, InHands
      <4>4. CASE l \in active \/ l \in drained
        BY <2>2, <4>1, <4>3, <4>4 DEF Moves
      <4>5. ASSUME NEW u \in Tasks, InHands(u), l = task[u].lease
            PROVE  l \in active' \/ l \in InHand'
        <5>1. CASE u = t  BY <3>2, <2>2, <4>3, <4>5, <5>1 DEF Releases
        <5>2. CASE u # t
          <6>1. task'[u] = task[u]  BY <2>2, <5>2 DEF Moves
          <6> QED  BY <4>5, <6>1 DEF InHand, Hands, InHands
        <5> QED  BY <5>1, <5>2
      <4> QED  BY <4>2, <4>4, <4>5, InHandMeans
    <3> QED  BY <3>1, <3>2 DEF LiveLeasesOwned
  <2>3. ASSUME NEW t \in Tasks, NEW l \in Leases, AcquireOk(t, l)
        PROVE  LapsedEnded' /\ LiveLeasesOwned'
    <3>1. /\ task'[t].pc = "insert" /\ task'[t].lease = l /\ task[t].pc = "acquire"
          /\ \A u \in Tasks : u # t => task'[u] = task[u]
      BY <2>1, <2>3 DEF AcquireOk, TaskRecords
    <3>2. l \in InHand'  BY <3>1 DEF InHand, Hands, HandPcs
    <3>3. InHand \subseteq InHand'
      BY <3>1 DEF InHand, Hands, HandPcs
    <3>4. LapsedEnded'  BY <2>1, <2>3 DEF AcquireOk, LapsedEnded
    <3> QED  BY <2>1, <2>3, <3>2, <3>3, <3>4 DEF AcquireOk, LiveLeasesOwned
  <2>4. ASSUME NEW t \in Tasks, Work(t) \/ Requests(t) PROVE LapsedEnded' /\ LiveLeasesOwned'
    <3>1. ~\E l \in Leases : AcquireUnusable(t, l)  BY DEF AcquireUnusable
    <3> QED  BY <2>2, <2>3, <2>4, <3>1, TasksRelease, WorkMoves, RequestsMove
  <2>5. ASSUME NEW l \in Leases, Expire(l) PROVE LapsedEnded' /\ LiveLeasesOwned'
    <3>1. LapsedEnded'  BY <2>1, <2>5 DEF Expire, LapsedEnded, States
    <3>2. InHand' = InHand  BY <2>5 DEF Expire, InHand, Hands
    <3> QED  BY <2>1, <2>5, <3>1, <3>2 DEF Expire, LiveLeasesOwned
  <2>6. ASSUME NEW l \in Leases, DrainRevoke(l) PROVE LapsedEnded' /\ LiveLeasesOwned'
    <3>1. state' = [state EXCEPT ![l] = "revoked"]  BY <2>6 DEF DrainRevoke
    <3>2. LapsedEnded'  BY <2>1, <2>6, <3>1 DEF DrainRevoke, LapsedEnded
    <3>3. InHand' = InHand  BY <2>6 DEF DrainRevoke, InHand, Hands
    <3> QED  BY <2>1, <2>6, <3>1, <3>2, <3>3 DEF DrainRevoke, LiveLeasesOwned
  <2>7. DrainedLast'
    <3>1. ASSUME NEW t \in Tasks, Work(t) \/ Requests(t) PROVE phase' = phase /\ drained' = drained
      <4>1. CASE \E l \in Leases : AcquireOk(t, l) \/ AcquireUnusable(t, l)
        BY <4>1 DEF AcquireOk, AcquireUnusable
      <4>2. CASE Moves(t)  BY <4>2 DEF Moves
      <4> QED  BY <3>1, <4>1, <4>2, WorkMoves, RequestsMove
    <3>2. CASE \/ \E l \in Leases : Expire(l) \/ DrainRevoke(l)
               \/ Shutdown \/ Drain \/ Exit \/ UNCHANGED vars
      BY <3>2 DEF Expire, DrainRevoke, Shutdown, Drain, Exit, vars, DrainedLast
    <3> QED  BY <3>1, <3>2 DEF Next, DrainedLast
  <2>8. CASE Shutdown \/ Drain \/ UNCHANGED vars
    <3>1. InHand' = InHand  BY <2>8 DEF Shutdown, Drain, vars, InHand, Hands
    <3>2. LapsedEnded'  BY <2>8 DEF Shutdown, Drain, vars, LapsedEnded
    <3>3. Drain => drained = {}  BY DEF Drain, DrainedLast
    <3>4. CASE Drain
      BY <2>7, <3>1, <3>2, <3>3, <3>4 DEF Drain, LiveLeasesOwned
    <3>5. CASE Shutdown
      BY <2>7, <3>1, <3>2, <3>5 DEF Shutdown, LiveLeasesOwned
    <3>6. CASE UNCHANGED vars
      BY <2>7, <3>1, <3>2, <3>6 DEF vars, LiveLeasesOwned
    <3> QED  BY <2>8, <3>4, <3>5, <3>6
  <2>9. CASE Exit
    <3>1. LapsedEnded'  BY <2>9 DEF Exit, LapsedEnded
    <3>2. LiveLeasesOwned'  BY <2>9 DEF Exit, LiveLeasesOwned
    <3> QED  BY <2>7, <3>1, <3>2
  <2> QED  BY <2>4, <2>5, <2>6, <2>7, <2>8, <2>9 DEF Next
<1> QED  BY <1>1, <1>2, LeaseInvariant, PTL DEF Spec

\* As long as neither the backend nor the store fails and no handler is dropped
\* in mid-call, no live lease is ever without an owner: whatever the schedule,
\* responses that end early and the shutdown included.
THEOREM LiveLeasesHaveOwners ==
    ASSUME Faults \subseteq {"drop", "deadline"}
    PROVE  Spec => []LiveLeasesOwned
<1>1. OwnedInv => LiveLeasesOwned  BY DEF OwnedInv
<1> QED  BY <1>1, OwnedInvariant, PTL
-----------------------------------------------------------------------------
(* What a graceful shutdown leaves live.                                   *)

\* The task still has the registered lease l to release.
Minds(t, l) ==
    /\ task[t].pc \in {"using", "take_renew", "take_revoke"} /\ task[t].kind # "child"
    /\ task[t].lease = l /\ subject[l] = task[t].subject

\* No handler of a child runs in the transparent listener, and while leases are
\* drained it and the spawned cleanups are all that runs.
Unawaited(t) ==
    /\ task[t].pc # "idle" /\ t \in Tunnel => task[t].kind # "child"
    /\ task[t].pc # "idle" /\ t \notin Tunnel /\ phase \in {"draining", "exited"} =>
          task[t].kind = "cleanup"

DrainInv ==
    /\ \A t \in Tasks : Unawaited(t)
    /\ phase = "draining" => \A l \in active : state[l] = "live" => \E t \in Tasks : Minds(t, l)

\* How the steps of a task change its kind.
LEMMA TasksUnawaited ==
    ASSUME LeaseInv, NEW t \in Tasks, Work(t) \/ Requests(t), Unawaited(t), phase' = phase
    PROVE  Unawaited(t)'
<1>1. task \in [Tasks -> TaskRecords]
  BY DEF LeaseInv, TypeOK, TaskRecords
<1>2. HandPcs \subseteq Pcs /\ {"audit", "using", "take_revoke", "take_renew"} \subseteq Pcs
  BY DEF HandPcs, Pcs
<1>3. {"insert", "revoke", "drop_revoke", "retry_revoke", "grant", "renew", "renew_audit",
       "restore"} \subseteq HandPcs
  BY DEF HandPcs
<1>4. ASSUME task[t].pc # "idle", task'[t].kind = task[t].kind \/ task'[t].kind = "cleanup"
      PROVE  Unawaited(t)'
  BY <1>4 DEF Unawaited
<1>5. ASSUME task'[t].pc = "idle" PROVE Unawaited(t)'
  BY <1>5 DEF Unawaited
<1>6. ASSUME NEW pc \in Pcs, task[t].pc # "idle", task' = Goto(t, pc) PROVE Unawaited(t)'
  BY <1>1, <1>4, <1>6, GotoRecord
<1>7. ASSUME task' = Finish(t) PROVE Unawaited(t)'
  BY <1>1, <1>5, <1>7, FinishRecord
<1>8. ASSUME task[t].pc # "idle", task' = Spawn(t) PROVE Unawaited(t)'
  BY <1>1, <1>4, <1>8, SpawnRecord
<1>9. ASSUME NEW l \in Leases, AcquireOk(t, l) \/ AcquireUnusable(t, l) PROVE Unawaited(t)'
  <2>1. CASE AcquireOk(t, l)
    BY <1>1, <1>4, <2>1 DEF AcquireOk, TaskRecords
  <2>2. CASE AcquireUnusable(t, l)
    BY <1>7, <2>2 DEF AcquireUnusable
  <2> QED  BY <1>9, <2>1, <2>2
<1>10. CASE AcquireFails(t) \/ AuditOk(t) \/ DropRevoke(t) \/ RevokeOk(t) \/ Cancel(t)
  BY <1>7, <1>10 DEF AcquireFails, AuditOk, DropRevoke, RevokeOk, Cancel
<1>11. CASE Insert(t) \/ AuditFails(t) \/ TakeRevoke(t) \/ CheckGrant(t)
  BY <1>2, <1>3, <1>6, <1>7, <1>11 DEF Insert, AuditFails, TakeRevoke, CheckGrant
<1>12. CASE TakeRenew(t) \/ RetryRevoke(t)
  BY <1>2, <1>3, <1>6, <1>7, <1>12 DEF TakeRenew, RetryRevoke, RenewalOver
<1>13. CASE RenewOk(t) \/ RenewFails(t) \/ NotRenewable(t) \/ RenewAudit(t)
  BY <1>2, <1>3, <1>6, <1>13 DEF RenewOk, RenewFails, NotRenewable, RenewAudit
<1>14. CASE Restore(t)
  BY <1>2, <1>3, <1>6, <1>7, <1>14 DEF Restore
<1>15. CASE RevokeFails(t)
  BY <1>7, <1>8, <1>15 DEF RevokeFails
<1>16. CASE RelayRenews(t) \/ OwnerEnds(t) \/ OwnerDropped(t)
  BY <1>2, <1>6, <1>8, <1>16 DEF RelayRenews, OwnerEnds, OwnerDropped
<1>17. ASSUME NEW kind, NEW s, Begin(t, kind, s) PROVE Unawaited(t)'
  <2>1. task'[t].kind = kind
    BY <1>1, <1>17 DEF Begin
  <2> QED  BY <1>17, <2>1 DEF Begin, Unawaited
<1>18. ASSUME NEW pc, NEW s, NEW l, RequestOn(t, pc, s, l) PROVE Unawaited(t)'
  BY <1>18 DEF RequestOn, Unawaited
<1> QED
  BY <1>9, <1>10, <1>11, <1>12, <1>13, <1>14, <1>15, <1>16, <1>17, <1>18 DEF Work, Requests

\* A lease that a task puts into the registry while leases are drained is one
\* it still minds, and one that it minds stays its own until it is taken out.
LEMMA TasksMind ==
    ASSUME LeaseInv, LapsedEnded, NEW t \in Tasks, Work(t) \/ Requests(t), Moves(t),
           Faults \subseteq {"drop"}, phase = "draining", Unawaited(t),
           NEW l \in active', state[l] = "live", l \in active => Minds(t, l)
    PROVE  Minds(t, l)'
<1>1. task \in [Tasks -> TaskRecords] /\ active \subseteq Leases
  BY DEF LeaseInv, TypeOK, TaskRecords
<1>2. task[t].pc # "idle" => task[t].kind # "child"
  BY DEF Unawaited
<1>3. l \in Leases /\ l \notin lapsed /\ subject' = subject
  <2>1. task[t].pc \in HandPcs => task[t].lease \in Leases
    BY DEF LeaseInv, TypeOK, HandPcs
  <2>2. l \in Leases  BY <1>1, <2>1 DEF Moves, InHands
  <2> QED  BY <2>2 DEF LapsedEnded, Moves
<1>4. /\ HandPcs \subseteq Pcs /\ {"using", "take_revoke", "take_renew"} \subseteq Pcs
      /\ {"idle", "acquire", "using", "take_renew", "take_revoke"} \cap HandPcs = {}
  BY DEF HandPcs, Pcs
<1>5. l \notin active => /\ task[t].pc \in HandPcs /\ l = task[t].lease
                         /\ subject[l] = task[t].subject
  BY DEF Moves, InHands, LeaseInv, HandsKept
<1>6. l \in active => /\ task[t].pc \in {"using", "take_renew", "take_revoke"}
                      /\ l = task[t].lease /\ subject[l] = task[t].subject
  BY DEF Minds
<1>7. task[t].kind # "child"
  BY <1>2, <1>4, <1>5, <1>6
<1>8. ASSUME NEW pc \in {"using", "take_renew", "take_revoke"}, task' = Goto(t, pc)
      PROVE  Minds(t, l)'
  <2>1. /\ task'[t].pc = pc /\ task'[t].kind = task[t].kind /\ task'[t].lease = task[t].lease
        /\ task'[t].subject = task[t].subject
    BY <1>1, <1>4, <1>8, GotoRecord
  <2> QED  BY <1>3, <1>5, <1>6, <1>7, <2>1 DEF Minds
<1>9. ASSUME task' = Spawn(t) PROVE Minds(t, l)'
  <2>1. /\ task'[t].pc = "take_revoke" /\ task'[t].kind = "cleanup"
        /\ task'[t].lease = task[t].lease /\ task'[t].subject = task[t].subject
    BY <1>1, <1>9, SpawnRecord
  <2> QED  BY <1>3, <1>5, <1>6, <2>1 DEF Minds
<1>10. l \in active => Takeable(t)
  BY <1>3, <1>6 DEF Takeable
<1>11. CASE RelayRenews(t) \/ OwnerEnds(t) \/ OwnerDropped(t)
  BY <1>8, <1>9, <1>11 DEF RelayRenews, OwnerEnds, OwnerDropped
<1>12. CASE TakeRenew(t) \/ TakeRevoke(t)
  <2>1. l \in active  BY <1>4, <1>5, <1>12 DEF TakeRenew, TakeRevoke
  <2>2. active' = WithoutTaken(t)  BY <1>10, <1>12, <2>1 DEF TakeRenew, TakeRevoke
  <2> QED  BY <1>6, <2>1, <2>2 DEF WithoutTaken
<1>13. CASE Insert(t)
  <2>1. task[t].pc = "insert" /\ l \notin active
    BY <1>6, <1>13 DEF Insert
  <2>2. task' = Goto(t, "using")
    BY <1>7, <1>13, <2>1 DEF Insert, Retained
  <2> QED  BY <1>8, <2>2
<1>14. CASE Restore(t)
  <2>1. task[t].pc = "restore" /\ l \notin active
    BY <1>6, <1>14 DEF Restore
  <2>2. task' = Goto(t, "using")
    BY <1>7, <1>14, <2>1 DEF Restore
  <2> QED  BY <1>8, <2>2
<1>15. CASE \/ \E k \in Leases : AcquireOk(t, k) \/ AcquireUnusable(t, k)
            \/ AcquireFails(t) \/ AuditOk(t) \/ DropRevoke(t) \/ CheckGrant(t) \/ RevokeOk(t)
  BY <1>4, <1>5, <1>6, <1>15 DEF AcquireOk, AcquireUnusable, AcquireFails, AuditOk, DropRevoke,
     CheckGrant, RevokeOk
<1>16. CASE \/ RenewOk(t) \/ RenewFails(t) \/ NotRenewable(t) \/ RetryRevoke(t) \/ RenewAudit(t)
  BY <1>4, <1>5, <1>6, <1>16 DEF RenewOk, RenewFails, NotRenewable, RetryRevoke, RenewAudit
<1>17. CASE AuditFails(t) \/ RevokeFails(t) \/ Cancel(t)
  BY <1>17 DEF AuditFails, RevokeFails, Cancel
<1>18. ASSUME task[t].pc = "idle", active' = active PROVE FALSE
  BY <1>6, <1>18
<1>19. CASE Requests(t)
  BY <1>11, <1>17, <1>18, <1>19 DEF Requests, Begin, RequestOn
<1> QED
  BY <1>11, <1>12, <1>13, <1>14, <1>15, <1>16, <1>17, <1>19 DEF Work

\* As long as the backend and the store answer, no handler is dropped in
\* mid-call and the drain is not cut short, a graceful shutdown leaves live
\* only leases of the transparent listener's tasks and of spawned cleanups,
\* which main does not wait for.
THEOREM ShutdownLeavesUnawaited ==
    ASSUME Faults \subseteq {"drop"}
    PROVE  Spec => ShutdownRevokesAll
<1>1. Init => DrainInv
  BY DEF Init, DrainInv, Unawaited, IdleTask
<1>2. LeaseInv /\ OwnedInv /\ DrainInv /\ [Next]_vars => DrainInv'
  <2> SUFFICES ASSUME LeaseInv, LapsedEnded, DrainInv, [Next]_vars
               PROVE  DrainInv'
    BY DEF OwnedInv
  <2>1. /\ state \in [Leases -> States] /\ task \in [Tasks -> TaskRecords]
        /\ active \subseteq Leases /\ drained \subseteq Leases
    BY DEF LeaseInv, TypeOK, TaskRecords
  <2>2. ASSUME NEW t \in Tasks, Work(t) \/ Requests(t) PROVE DrainInv'
    <3>1. /\ phase' = phase
          /\ \A u \in Tasks : u # t => task'[u] = task[u]
      <4>1. CASE \E l \in Leases : AcquireOk(t, l)
        BY <2>1, <4>1 DEF AcquireOk
      <4>2. CASE Moves(t)  BY <4>2 DEF Moves
      <4>3. ~\E l \in Leases : AcquireUnusable(t, l)  BY DEF AcquireUnusable
      <4> QED  BY <2>2, <4>1, <4>2, <4>3, WorkMoves, RequestsMove
    <3>2. ASSUME NEW u \in Tasks PROVE Unawaited(u)'
      <4>1. CASE u = t  BY <2>2, <3>1, <4>1, TasksUnawaited DEF DrainInv
      <4>2. CASE u # t  BY <3>1, <4>2 DEF DrainInv, Unawaited
      <4> QED  BY <4>1, <4>2
    <3>3. ASSUME phase = "draining", NEW l \in active', state'[l] = "live"
          PROVE  \E u \in Tasks : Minds(u, l)'
      <4>1. ASSUME NEW k \in Leases, AcquireOk(t, k) PROVE \E u \in Tasks : Minds(u, l)'
        <5>1. l \in active /\ l # k /\ state[l] = "live"
          BY <2>1, <3>3, <4>1 DEF AcquireOk, LeaseInv, RegistryKept, Kept
        <5>2. PICK u \in Tasks : Minds(u, l)  BY <3>3, <5>1 DEF DrainInv
        <5>3. u # t /\ task'[u] = task[u]  BY <3>1, <4>1, <5>2 DEF AcquireOk, Minds
        <5>4. subject'[l] = subject[l]  BY <2>1, <4>1, <5>1 DEF AcquireOk, LeaseInv, TypeOK
        <5> QED  BY <5>2, <5>3, <5>4 DEF Minds
      <4>2. CASE Moves(t)
        <5>1. l \in Leases
          BY <2>1, <3>3, <4>2 DEF Moves, InHands, LeaseInv, TypeOK, HandPcs
        <5>2. state[l] = "live" /\ subject' = subject
          BY <3>3, <4>2, <5>1 DEF Moves
        <5>3. CASE l \in active => Minds(t, l)
          BY <2>2, <3>3, <4>2, <5>2, <5>3, TasksMind DEF DrainInv
        <5>4. CASE l \in active /\ ~Minds(t, l)
          <6>1. PICK u \in Tasks : Minds(u, l)  BY <3>3, <5>2, <5>4 DEF DrainInv
          <6>2. task'[u] = task[u]  BY <3>1, <5>4, <6>1
          <6> QED  BY <5>2, <6>1, <6>2 DEF Minds
        <5> QED  BY <5>3, <5>4
      <4>3. ~\E k \in Leases : AcquireUnusable(t, k)  BY DEF AcquireUnusable
      <4> QED  BY <2>2, <4>1, <4>2, <4>3, WorkMoves, RequestsMove
    <3> QED  BY <3>1, <3>2, <3>3 DEF DrainInv
  <2>3. ASSUME NEW k \in Leases, Expire(k) \/ DrainRevoke(k) PROVE DrainInv'
    <3>1. /\ task' = task /\ subject' = subject /\ active' = active /\ phase' = phase
          /\ \A l \in Leases : state'[l] = "live" => state[l] = "live"
      BY <2>1, <2>3 DEF Expire, DrainRevoke
    <3>2. ASSUME NEW t \in Tasks PROVE Unawaited(t)'
      BY <3>1 DEF DrainInv, Unawaited
    <3>3. ASSUME NEW t \in Tasks, NEW l \in Leases, Minds(t, l) PROVE Minds(t, l)'
      BY <3>1, <3>3 DEF Minds
    <3> QED  BY <2>1, <3>1, <3>2, <3>3 DEF DrainInv
  <2>4. CASE Shutdown
    BY <2>4 DEF Shutdown, DrainInv, Unawaited
  <2>5. CASE Drain
    <3>1. ASSUME NEW t \in Tasks PROVE Unawaited(t)'
      BY <2>5 DEF Drain, InFlight, DrainInv, Unawaited
    <3> QED  BY <2>5, <3>1 DEF Drain, DrainInv
  <2>6. CASE Exit
    BY <2>6 DEF Exit, DrainInv, Unawaited, IdleTask
  <2>7. CASE UNCHANGED vars
    BY <2>7 DEF vars, DrainInv, Unawaited, Minds
  <2> QED  BY <2>2, <2>3, <2>4, <2>5, <2>6, <2>7 DEF Next
<1>3. LeaseInv /\ OwnedInv /\ DrainInv /\ [Next]_vars =>
        [phase # "exited" /\ phase' = "exited" =>
           \A l \in Leases : state'[l] = "live" =>
              \E t \in Tasks : /\ task[t].lease = l
                               /\ t \in Tunnel \/ task[t].kind = "cleanup"]_vars
  <2> SUFFICES ASSUME LeaseInv, LiveLeasesOwned, DrainInv, Next, phase # "exited",
                      phase' = "exited", NEW l \in Leases, state'[l] = "live"
               PROVE  \E t \in Tasks : /\ task[t].lease = l
                                       /\ t \in Tunnel \/ task[t].kind = "cleanup"
    BY DEF OwnedInv
  <2>1. Exit
    <3>1. ASSUME NEW t \in Tasks, Work(t) \/ Requests(t) PROVE phase' = phase
      <4>1. CASE \E k \in Leases : AcquireOk(t, k) \/ AcquireUnusable(t, k)
        BY <4>1 DEF AcquireOk, AcquireUnusable
      <4>2. CASE Moves(t)  BY <4>2 DEF Moves
      <4> QED  BY <3>1, <4>1, <4>2, WorkMoves, RequestsMove
    <3>2. ASSUME Shutdown \/ Drain \/ \E k \in Leases : Expire(k) \/ DrainRevoke(k)
          PROVE  phase' # "exited"
      BY <3>2 DEF Shutdown, Drain, Expire, DrainRevoke
    <3> QED  BY <3>1, <3>2 DEF Next
  <2>2. phase = "draining" /\ drained = {} /\ state[l] = "live"
    BY <2>1 DEF Exit
  <2>3. ASSUME NEW t \in Tasks, task[t].pc # "idle" PROVE t \in Tunnel \/ task[t].kind = "cleanup"
    BY <2>2, <2>3 DEF DrainInv, Unawaited
  <2>4. CASE l \in active
    <3>1. PICK t \in Tasks : Minds(t, l)  BY <2>2, <2>4 DEF DrainInv
    <3> QED  BY <2>3, <3>1 DEF Minds
  <2>5. CASE l \in InHand
    <3>1. PICK t \in Tasks : InHands(t) /\ l = task[t].lease  BY <2>5, InHandMeans
    <3>2. task[t].pc # "idle"  BY <3>1 DEF InHands, HandPcs
    <3> QED  BY <2>3, <3>1, <3>2
  <2> QED  BY <2>2, <2>4, <2>5 DEF LiveLeasesOwned
<1>4. Faults \subseteq {"drop", "deadline"}  OBVIOUS
<1>5. Spec => []OwnedInv  BY <1>4, OwnedInvariant
<1> QED  BY <1>1, <1>2, <1>3, <1>5, LeaseInvariant, PTL DEF Spec, ShutdownRevokesAll
=============================================================================
