-------------------------- MODULE WaitQueuesProofs --------------------------
(***************************************************************************)
(* What is proved about fair queues, and about the two parts of AV that    *)
(* wait in one: PasswordSlots, the permits of Basic authentication, and    *)
(* SecretBackends, the lock under which a backend's token is renewed.      *)
(***************************************************************************)
EXTENDS PasswordSlots, SecretBackends, SequenceTheorems, FiniteSetTheorems,
        WellFoundedInduction, TLAPS

\* Nobody waits twice.
Single(queue) == \A i, j \in 1..Len(queue) : queue[i] = queue[j] => i = j

\* Taking an element out of a sequence.
LEMMA RemovedPlace ==
    ASSUME NEW S, NEW s \in Seq(S), NEW n \in 1..Len(s)
    PROVE  /\ RemoveAt(s, n) \in Seq(S)
           /\ Len(RemoveAt(s, n)) = Len(s) - 1
           /\ \A i \in 1..(Len(s) - 1) : RemoveAt(s, n)[i] = s[IF i < n THEN i ELSE i + 1]
<1>1. Len(s) \in Nat /\ n \in Nat
  OBVIOUS
<1> DEFINE a == SubSeq(s, 1, n - 1)
           b == SubSeq(s, n + 1, Len(s))
<1>2. a \in Seq(S) /\ Len(a) = n - 1 /\ \A i \in 1..(n - 1) : a[i] = s[i]
  BY <1>1
<1>3. b \in Seq(S) /\ Len(b) = Len(s) - n /\ \A i \in 1..(Len(s) - n) : b[i] = s[n + i]
  BY <1>1
<1>4. RemoveAt(s, n) = a \o b
  BY DEF RemoveAt
<1> HIDE DEF a, b
<1>5. a \o b \in Seq(S) /\ Len(a \o b) = Len(s) - 1
  <2>1. a \o b \in Seq(S) /\ Len(a \o b) = Len(a) + Len(b)
    BY <1>2, <1>3, ConcatProperties
  <2>2. Len(a) + Len(b) = Len(s) - 1
    BY <1>1, <1>2, <1>3
  <2> QED BY <2>1, <2>2
<1>6. \A i \in 1..(Len(s) - 1) : (a \o b)[i] = IF i <= n - 1 THEN a[i] ELSE b[i - (n - 1)]
  <2>1. Len(a) + Len(b) = Len(s) - 1
    BY <1>1, <1>2, <1>3
  <2>2. \A i \in 1..(Len(a) + Len(b)) :
           (a \o b)[i] = IF i <= Len(a) THEN a[i] ELSE b[i - Len(a)]
    BY <1>2, <1>3, ConcatProperties
  <2> QED BY <1>2, <2>1, <2>2
<1>7. ASSUME NEW i \in 1..(Len(s) - 1) PROVE (a \o b)[i] = s[IF i < n THEN i ELSE i + 1]
  <2>1. CASE i < n
    BY <1>1, <1>2, <1>6, <2>1
  <2>2. CASE ~(i < n)
    <3>1. i - (n - 1) \in 1..(Len(s) - n) /\ n + (i - (n - 1)) = i + 1
      BY <1>1, <2>2
    <3>2. (a \o b)[i] = b[i - (n - 1)]
      <4>1. ~(i <= n - 1)
        BY <1>1, <2>2
      <4> QED BY <1>6, <4>1
    <3> QED BY <1>3, <2>2, <3>1, <3>2
  <2> QED BY <2>1, <2>2
<1> QED BY <1>4, <1>5, <1>7

\* Who leaves a queue is no longer in it; the others are.
LEMMA LeavingQueue ==
    ASSUME NEW S, NEW q \in Seq(S), NEW w, Single(q)
    PROVE  /\ Leaves(q, w) \in Seq(S)
           /\ Single(Leaves(q, w))
           /\ \A i \in 1..Len(Leaves(q, w)) :
                 Leaves(q, w)[i] # w /\ \E j \in 1..Len(q) : Leaves(q, w)[i] = q[j]
<1> DEFINE places == {i \in DOMAIN q : q[i] = w}
<1>0. Len(q) \in Nat /\ DOMAIN q = 1..Len(q)
  OBVIOUS
<1>1. CASE places = {}
  BY <1>0, <1>1 DEF Leaves
<1>2. CASE places # {}
  <2> DEFINE n == CHOOSE i \in places : TRUE
  <2>1. n \in 1..Len(q) /\ q[n] = w
    BY <1>0, <1>2
  <2>2. Leaves(q, w) = RemoveAt(q, n)
    BY <1>2 DEF Leaves
  <2> HIDE DEF n
  <2> DEFINE rest == RemoveAt(q, n)
  <2>3. /\ rest \in Seq(S) /\ Len(rest) = Len(q) - 1
        /\ \A i \in 1..(Len(q) - 1) : rest[i] = q[IF i < n THEN i ELSE i + 1]
    BY <2>1, RemovedPlace
  <2> HIDE DEF rest, places
  <2>4. \A i \in 1..(Len(q) - 1) : \E j \in 1..Len(q) : j # n /\ rest[i] = q[j]
    <3> TAKE i \in 1..(Len(q) - 1)
    <3> WITNESS (IF i < n THEN i ELSE i + 1) \in 1..Len(q)
    <3> QED BY <1>0, <2>1, <2>3
  <2>5. ASSUME NEW i \in 1..(Len(q) - 1), NEW j \in 1..(Len(q) - 1), rest[i] = rest[j] PROVE i = j
    <3>1. (IF i < n THEN i ELSE i + 1) = (IF j < n THEN j ELSE j + 1)
      BY <1>0, <2>1, <2>3, <2>5 DEF Single
    <3> QED BY <1>0, <2>1, <3>1
  <2>6. \A i \in 1..(Len(q) - 1) : rest[i] # w
    BY <2>1, <2>4 DEF Single
  <2>7. Single(rest)
    BY <2>3, <2>5 DEF Single
  <2> QED BY <2>2, <2>3, <2>4, <2>6, <2>7 DEF rest
<1> QED BY <1>1, <1>2

\* When somebody else leaves, the first in the queue stays first.
LEMMA LeavingBehind ==
    ASSUME NEW S, NEW q \in Seq(S), NEW w, q # <<>>, Head(q) # w
    PROVE  Leaves(q, w) # <<>> /\ Head(Leaves(q, w)) = Head(q)
<1> DEFINE places == {i \in DOMAIN q : q[i] = w}
<1>0. Len(q) \in Nat /\ Len(q) > 0 /\ DOMAIN q = 1..Len(q) /\ Head(q) = q[1]
  OBVIOUS
<1>1. CASE places = {}
  BY <1>1 DEF Leaves
<1>2. CASE places # {}
  <2> DEFINE n == CHOOSE i \in places : TRUE
  <2>1. n \in 1..Len(q) /\ q[n] = w
    BY <1>0, <1>2
  <2>2. Leaves(q, w) = RemoveAt(q, n)
    BY <1>2 DEF Leaves
  <2> HIDE DEF n
  <2> DEFINE rest == RemoveAt(q, n)
  <2>3. /\ rest \in Seq(S) /\ Len(rest) = Len(q) - 1
        /\ \A i \in 1..(Len(q) - 1) : rest[i] = q[IF i < n THEN i ELSE i + 1]
    BY <2>1, RemovedPlace
  <2> HIDE DEF rest, places
  <2>4. n > 1 /\ 1 \in 1..(Len(q) - 1)
    BY <1>0, <2>1
  <2>5. rest[1] = q[1] /\ Len(rest) > 0
    BY <1>0, <2>3, <2>4
  <2>6. rest # <<>> /\ Head(rest) = rest[1]
    BY <2>3, <2>5
  <2> QED BY <1>0, <2>2, <2>5, <2>6 DEF rest
<1> QED BY <1>1, <1>2

\* The first in the queue is served and the others wait on.
LEMMA ServedFirst ==
    ASSUME NEW S, NEW q \in Seq(S), q # <<>>, Single(q)
    PROVE  /\ Head(q) \in S
           /\ Tail(q) \in Seq(S) /\ Single(Tail(q))
           /\ \A i \in 1..Len(Tail(q)) :
                 Tail(q)[i] # Head(q) /\ \E j \in 1..Len(q) : Tail(q)[i] = q[j]
<1>1. Len(q) \in Nat /\ Len(q) > 0 /\ Head(q) = q[1] /\ Tail(q) \in Seq(S)
  OBVIOUS
<1>2. Len(Tail(q)) = Len(q) - 1 /\ \A i \in 1..(Len(q) - 1) : Tail(q)[i] = q[i + 1]
  BY <1>1
<1>3. Head(q) \in S
  BY <1>1
<1>4. \A i \in 1..(Len(q) - 1) : Tail(q)[i] # Head(q) /\ \E j \in 1..Len(q) : Tail(q)[i] = q[j]
  <2> TAKE i \in 1..(Len(q) - 1)
  <2>1. i + 1 \in 1..Len(q) /\ 1 \in 1..Len(q) /\ i + 1 # 1
    BY <1>1
  <2> QED BY <1>1, <1>2, <2>1 DEF Single
<1>5. \A i, j \in 1..(Len(q) - 1) : Tail(q)[i] = Tail(q)[j] => i = j
  BY <1>1, <1>2 DEF Single
<1> QED BY <1>1, <1>2, <1>3, <1>4, <1>5 DEF Single

\* Who joins a queue is its last.
LEMMA JoiningQueue ==
    ASSUME NEW S, NEW q \in Seq(S), NEW w \in S, Single(q), \A i \in 1..Len(q) : q[i] # w
    PROVE  /\ Append(q, w) \in Seq(S) /\ Single(Append(q, w))
           /\ \A i \in 1..Len(Append(q, w)) :
                 Append(q, w)[i] = w \/ \E j \in 1..Len(q) : Append(q, w)[i] = q[j]
           /\ q # <<>> => Append(q, w) # <<>> /\ Head(Append(q, w)) = Head(q)
<1>1. /\ Append(q, w) \in Seq(S) /\ Len(Append(q, w)) = Len(q) + 1 /\ Len(q) \in Nat
      /\ \A i \in 1..Len(q) : Append(q, w)[i] = q[i]
      /\ Append(q, w)[Len(q) + 1] = w
  BY AppendProperties
<1>2. \A i \in 1..(Len(q) + 1) : i \in 1..Len(q) \/ i = Len(q) + 1
  BY <1>1
<1>3. q # <<>> => Append(q, w) # <<>> /\ Head(Append(q, w)) = Head(q)
  <2>1. q # <<>> => Len(q) > 0 /\ Head(q) = q[1]
    OBVIOUS
  <2>2. Append(q, w) # <<>> /\ Head(Append(q, w)) = Append(q, w)[1]
    BY <1>1
  <2> QED BY <1>1, <2>1, <2>2
<1> QED BY <1>1, <1>2, <1>3 DEF Single

-----------------------------------------------------------------------------
(***************************************************************************)
(* PasswordSlots, for any number of requests, users and permits.           *)
(***************************************************************************)

Attempts == [pc : {"queued", "verifying", "accepted", "refused"},
             user : BasicUsers \cup Strangers, password : BasicUsers]

Verifying == {r \in BasicRequests : attempt[r].pc = "verifying"}

PasswordTypes ==
    /\ attempt \in [BasicRequests -> {NoAttempt} \cup Attempts]
    /\ permits \in Nat

\* The queue holds each waiting request once and nobody else.
PermitQueueFits ==
    /\ permitQueue \in Seq(BasicRequests) /\ Single(permitQueue)
    /\ \A i \in 1..Len(permitQueue) : attempt[permitQueue[i]].pc = "queued"

PermitsFit == permits + Cardinality(Verifying) = BasicPermits

PasswordInv == PasswordTypes /\ PermitQueueFits /\ PermitsFit /\ AcceptedOwnPassword
-----------------------------------------------------------------------------
\* Nobody has asked: the invariant holds.
LEMMA PasswordInitially == PasswordInit => PasswordInv
<1> SUFFICES ASSUME PasswordInit PROVE PasswordInv
  OBVIOUS
<1>1. PasswordTypes /\ PermitQueueFits /\ AcceptedOwnPassword
  BY PasswordSlotsAssumption
  DEF PasswordInit, PasswordTypes, PermitQueueFits, AcceptedOwnPassword, NoAttempt, Single
<1>2. Verifying = {}
  BY DEF PasswordInit, Verifying, NoAttempt
<1>3. PermitsFit
  BY <1>2, FS_EmptySet, PasswordSlotsAssumption DEF PermitsFit, PasswordInit
<1> QED BY <1>1, <1>3 DEF PasswordInv

\* Every step of the requests keeps the types.
LEMMA PasswordTypesKept == PasswordInv /\ [PasswordNext]_passwordVars => PasswordTypes'
<1> SUFFICES ASSUME PasswordInv, [PasswordNext]_passwordVars PROVE PasswordTypes'
  OBVIOUS
<1>0. PasswordTypes
  BY DEF PasswordInv
<1> USE DEF PasswordTypes
<1>1. CASE UNCHANGED passwordVars
  BY <1>0, <1>1 DEF passwordVars
<1>2. CASE UnattendedEnds
  BY <1>0, <1>2 DEF UnattendedEnds
<1>3. ASSUME NEW r \in BasicRequests, NEW user \in BasicUsers \cup Strangers,
             NEW password \in BasicUsers, ReceiveBasic(r, user, password)
      PROVE  PasswordTypes'
  BY <1>0, <1>3 DEF ReceiveBasic, Attempts
<1>4. ASSUME NEW r \in BasicRequests, AcquirePermit(r) PROVE PasswordTypes'
  <2>1. attempt[r] \in Attempts
    <3>1. r = permitQueue[1] /\ 1 \in 1..Len(permitQueue)
      BY <1>4 DEF AcquirePermit, PermitQueueFits, PasswordInv
    <3> QED BY <1>0, <3>1 DEF PasswordInv, PermitQueueFits, NoAttempt
  <2> QED BY <1>0, <1>4, <2>1 DEF AcquirePermit, Attempts
<1>5. ASSUME NEW r \in BasicRequests, Verified(r) PROVE PasswordTypes'
  <2>1. attempt[r] \in Attempts
    BY <1>0, <1>5 DEF Verified, NoAttempt
  <2> QED BY <1>0, <1>5, <2>1 DEF Verified, Attempts
<1>6. ASSUME NEW r \in BasicRequests, QueueTimesOut(r) PROVE PasswordTypes'
  <2>1. attempt[r] \in Attempts
    BY <1>0, <1>6 DEF QueueTimesOut, NoAttempt
  <2> QED BY <1>0, <1>6, <2>1 DEF QueueTimesOut, Attempts
<1>7. ASSUME NEW r \in BasicRequests, DropAttempt(r) PROVE PasswordTypes'
  BY <1>0, <1>7 DEF DropAttempt, PermitOf
<1>8. ASSUME NEW r \in BasicRequests, AnswerBasic(r) PROVE PasswordTypes'
  BY <1>0, <1>8 DEF AnswerBasic
<1> QED BY <1>1, <1>2, <1>3, <1>4, <1>5, <1>6, <1>7, <1>8 DEF PasswordNext

\* A request that is served, times out or is dropped leaves the queue.
LEMMA PermitQueueKept == PasswordInv /\ [PasswordNext]_passwordVars => PermitQueueFits'
<1> SUFFICES ASSUME PasswordInv, [PasswordNext]_passwordVars PROVE PermitQueueFits'
  OBVIOUS
<1>0. /\ attempt \in [BasicRequests -> {NoAttempt} \cup Attempts]
      /\ permitQueue \in Seq(BasicRequests) /\ Single(permitQueue)
      /\ \A i \in 1..Len(permitQueue) :
            permitQueue[i] \in BasicRequests /\ attempt[permitQueue[i]].pc = "queued"
  BY DEF PasswordInv, PasswordTypes, PermitQueueFits
<1> USE DEF PermitQueueFits
<1>1. CASE UNCHANGED passwordVars
  BY <1>0, <1>1 DEF passwordVars
<1>2. CASE UnattendedEnds
  BY <1>0, <1>2 DEF UnattendedEnds
<1>3. ASSUME NEW r \in BasicRequests, NEW user, NEW password, ReceiveBasic(r, user, password)
      PROVE  PermitQueueFits'
  <2>1. \A i \in 1..Len(permitQueue) : permitQueue[i] # r
    BY <1>0, <1>3 DEF ReceiveBasic, NoAttempt
  <2>2. /\ permitQueue' \in Seq(BasicRequests) /\ Single(permitQueue')
        /\ \A i \in 1..Len(permitQueue') :
              permitQueue'[i] = r \/ \E j \in 1..Len(permitQueue) : permitQueue'[i] = permitQueue[j]
    BY <1>0, <1>3, <2>1, JoiningQueue DEF ReceiveBasic
  <2>3. attempt'[r].pc = "queued" /\ \A s \in BasicRequests : s # r => attempt'[s] = attempt[s]
    BY <1>0, <1>3 DEF ReceiveBasic
  <2> QED BY <1>0, <2>1, <2>2, <2>3 DEF Single
<1>4. ASSUME NEW r \in BasicRequests, NEW q,
             q \in Seq(BasicRequests), Single(q), permitQueue' = q,
             \A i \in 1..Len(q) : q[i] # r /\ \E j \in 1..Len(permitQueue) : q[i] = permitQueue[j],
             \A s \in BasicRequests : s # r => attempt'[s] = attempt[s]
      PROVE  PermitQueueFits'
  <2>1. ASSUME NEW i \in 1..Len(q) PROVE attempt'[q[i]].pc = "queued"
    <3>1. PICK j \in 1..Len(permitQueue) : q[i] = permitQueue[j]
      BY <1>4
    <3> QED BY <1>0, <1>4, <3>1
  <2> QED BY <1>4, <2>1 DEF Single
<1>5. ASSUME NEW r \in BasicRequests, AcquirePermit(r) PROVE PermitQueueFits'
  <2> DEFINE q == permitQueue
  <2>1. /\ permitQueue' = Tail(q) /\ r = Head(q)
        /\ q \in Seq(BasicRequests) /\ q # <<>> /\ Single(q)
    BY <1>0, <1>5 DEF AcquirePermit
  <2> HIDE DEF q
  <2>2. /\ Tail(q) \in Seq(BasicRequests) /\ Single(Tail(q))
        /\ \A i \in 1..Len(Tail(q)) : Tail(q)[i] # r /\ \E j \in 1..Len(q) : Tail(q)[i] = q[j]
    BY <2>1, ServedFirst
  <2>3. \A s \in BasicRequests : s # r => attempt'[s] = attempt[s]
    BY <1>0, <1>5 DEF AcquirePermit
  <2> QED BY <1>4, <2>1, <2>2, <2>3 DEF q
<1>6. ASSUME NEW r \in BasicRequests, Verified(r) PROVE PermitQueueFits'
  BY <1>0, <1>6 DEF Verified, Single
<1>7. ASSUME NEW r \in BasicRequests, QueueTimesOut(r) \/ DropAttempt(r) PROVE PermitQueueFits'
  <2> DEFINE q == permitQueue
  <2>1. permitQueue' = Leaves(q, r) /\ q \in Seq(BasicRequests) /\ Single(q)
    BY <1>0, <1>7 DEF QueueTimesOut, DropAttempt
  <2> HIDE DEF q
  <2>2. /\ Leaves(q, r) \in Seq(BasicRequests) /\ Single(Leaves(q, r))
        /\ \A i \in 1..Len(Leaves(q, r)) :
              Leaves(q, r)[i] # r /\ \E j \in 1..Len(q) : Leaves(q, r)[i] = q[j]
    BY <2>1, LeavingQueue
  <2>3. \A s \in BasicRequests : s # r => attempt'[s] = attempt[s]
    BY <1>0, <1>7 DEF QueueTimesOut, DropAttempt
  <2> QED BY <1>4, <2>1, <2>2, <2>3 DEF q
<1>8. ASSUME NEW r \in BasicRequests, AnswerBasic(r) PROVE PermitQueueFits'
  BY <1>0, <1>8 DEF AnswerBasic, Single
<1> QED BY <1>1, <1>2, <1>3, <1>5, <1>6, <1>7, <1>8 DEF PasswordNext

\* A verification takes one permit, and its end, or the end of its request, gives it
\* back.
LEMMA PermitsKept == PasswordInv /\ [PasswordNext]_passwordVars => PermitsFit'
<1> SUFFICES ASSUME PasswordInv, [PasswordNext]_passwordVars PROVE PermitsFit'
  OBVIOUS
<1>0. /\ attempt \in [BasicRequests -> {NoAttempt} \cup Attempts]
      /\ permits \in Nat /\ permits + Cardinality(Verifying) = BasicPermits
  BY DEF PasswordInv, PasswordTypes, PermitsFit
<1>1. IsFiniteSet(Verifying) /\ Cardinality(Verifying) \in Nat
  BY PasswordSlotsAssumption, FS_Subset, FS_CardinalityType DEF Verifying
<1>2. ASSUME permits' = permits, Verifying' = Verifying PROVE PermitsFit'
  BY <1>0, <1>2 DEF PermitsFit
<1>3. ASSUME NEW r \in BasicRequests, attempt[r].pc = "verifying", permits' = permits + 1,
             Verifying' = Verifying \ {r}
      PROVE  PermitsFit'
  <2>1. Cardinality(Verifying \ {r}) = Cardinality(Verifying) - 1
    BY <1>1, <1>3, FS_RemoveElement DEF Verifying
  <2> QED BY <1>0, <1>1, <1>3, <2>1 DEF PermitsFit
<1>4. CASE UNCHANGED passwordVars
  BY <1>2, <1>4 DEF passwordVars, Verifying
<1>5. CASE UnattendedEnds
  BY <1>2, <1>5 DEF UnattendedEnds, Verifying
<1>6. ASSUME NEW r \in BasicRequests, NEW user, NEW password, ReceiveBasic(r, user, password)
      PROVE  PermitsFit'
  BY <1>0, <1>2, <1>6 DEF ReceiveBasic, Verifying, NoAttempt
<1>7. ASSUME NEW r \in BasicRequests, AcquirePermit(r) PROVE PermitsFit'
  <2>1. attempt[r].pc = "queued" /\ attempt[r] \in Attempts
    <3>1. r = permitQueue[1] /\ 1 \in 1..Len(permitQueue)
      BY <1>7 DEF AcquirePermit, PermitQueueFits, PasswordInv
    <3> QED BY <1>0, <3>1 DEF PasswordInv, PermitQueueFits, NoAttempt
  <2>2. Verifying' = Verifying \cup {r} /\ r \notin Verifying
    BY <1>0, <1>7, <2>1 DEF AcquirePermit, Verifying, Attempts
  <2>3. Cardinality(Verifying \cup {r}) = Cardinality(Verifying) + 1
    BY <1>1, <2>2, FS_AddElement
  <2>4. permits' = permits - 1
    BY <1>7 DEF AcquirePermit
  <2> QED BY <1>0, <1>1, <2>2, <2>3, <2>4 DEF PermitsFit
<1>8. ASSUME NEW r \in BasicRequests, Verified(r) PROVE PermitsFit'
  <2>1. attempt[r] \in Attempts
    BY <1>0, <1>8 DEF Verified, NoAttempt
  <2>2. Verifying' = Verifying \ {r}
    BY <1>0, <1>8, <2>1 DEF Verified, Verifying, Attempts
  <2> QED BY <1>3, <1>8, <2>2 DEF Verified
<1>9. ASSUME NEW r \in BasicRequests, QueueTimesOut(r) PROVE PermitsFit'
  <2>1. attempt[r] \in Attempts
    BY <1>0, <1>9 DEF QueueTimesOut, NoAttempt
  <2>2. Verifying' = Verifying /\ permits' = permits
    BY <1>0, <1>9, <2>1 DEF QueueTimesOut, Verifying, Attempts
  <2> QED BY <1>2, <2>2
<1>10. ASSUME NEW r \in BasicRequests, DropAttempt(r) PROVE PermitsFit'
  <2>1. Verifying' = Verifying \ {r}
    BY <1>0, <1>10 DEF DropAttempt, Verifying, NoAttempt
  <2>2. CASE attempt[r].pc = "verifying"
    BY <1>3, <1>10, <2>1, <2>2 DEF DropAttempt, PermitOf
  <2>3. CASE attempt[r].pc # "verifying"
    <3>1. Verifying' = Verifying /\ permits' = permits
      BY <1>0, <1>10, <2>1, <2>3 DEF DropAttempt, PermitOf, Verifying
    <3> QED BY <1>2, <3>1
  <2> QED BY <2>2, <2>3
<1>11. ASSUME NEW r \in BasicRequests, AnswerBasic(r) PROVE PermitsFit'
  BY <1>0, <1>2, <1>11 DEF AnswerBasic, Verifying, NoAttempt
<1> QED
  BY <1>4, <1>5, <1>6, <1>7, <1>8, <1>9, <1>10, <1>11 DEF PasswordNext

\* A verification succeeds only for the password of a known user.
LEMMA AcceptsOwn ==
    ASSUME NEW user, NEW password, Accepts(user, password)
    PROVE  /\ user = password
           /\ user \in (IF managed THEN StoreUsers ELSE ToSet(FileUsers))
BY DEF Accepts, Comparison, Requested

\* A request is accepted only with the password of its own user.
LEMMA AcceptedKept == PasswordInv /\ [PasswordNext]_passwordVars => AcceptedOwnPassword'
<1> SUFFICES ASSUME PasswordInv, [PasswordNext]_passwordVars PROVE AcceptedOwnPassword'
  OBVIOUS
<1> DEFINE known == IF managed THEN StoreUsers ELSE ToSet(FileUsers)
<1>0. /\ attempt \in [BasicRequests -> {NoAttempt} \cup Attempts]
      /\ \A r \in BasicRequests : attempt[r].pc = "accepted" =>
            attempt[r].user = attempt[r].password /\ attempt[r].user \in known
  BY DEF PasswordInv, PasswordTypes, AcceptedOwnPassword
<1>1. known' = known
  BY DEF PasswordNext, passwordVars, UnattendedEnds, ReceiveBasic, AcquirePermit, Verified,
         QueueTimesOut, DropAttempt, AnswerBasic
<1> HIDE DEF known
<1>2. ASSUME \A s \in BasicRequests : attempt'[s].pc = "accepted" =>
             attempt'[s].user = attempt'[s].password /\ attempt'[s].user \in known
      PROVE  AcceptedOwnPassword'
  BY <1>1, <1>2 DEF AcceptedOwnPassword, known
<1>3. ASSUME UNCHANGED attempt PROVE AcceptedOwnPassword'
  BY <1>0, <1>2, <1>3
<1>4. ASSUME NEW r \in BasicRequests, NEW next, attempt' = [attempt EXCEPT ![r] = next],
             next.pc = "accepted" => next.user = next.password /\ next.user \in known
      PROVE  AcceptedOwnPassword'
  BY <1>0, <1>2, <1>4
<1>5. CASE UNCHANGED passwordVars \/ UnattendedEnds
  BY <1>3, <1>5 DEF UnattendedEnds, passwordVars
<1>6. ASSUME NEW r \in BasicRequests, NEW user, NEW password, ReceiveBasic(r, user, password)
      PROVE  AcceptedOwnPassword'
  BY <1>4, <1>6 DEF ReceiveBasic
<1>7. ASSUME NEW r \in BasicRequests, AcquirePermit(r) PROVE AcceptedOwnPassword'
  <2>1. attempt[r] \in Attempts
    <3>1. r = permitQueue[1] /\ 1 \in 1..Len(permitQueue)
      BY <1>7 DEF AcquirePermit, PermitQueueFits, PasswordInv
    <3> QED BY <1>0, <3>1 DEF PasswordInv, PermitQueueFits, NoAttempt
  <2> QED BY <1>0, <1>4, <1>7, <2>1 DEF AcquirePermit, Attempts
<1>8. ASSUME NEW r \in BasicRequests, Verified(r) PROVE AcceptedOwnPassword'
  <2>1. attempt[r] \in Attempts
    BY <1>0, <1>8 DEF Verified, NoAttempt
  <2> DEFINE u == attempt[r].user
             p == attempt[r].password
             next == [attempt[r] EXCEPT !.pc = IF Accepts(u, p) THEN "accepted" ELSE "refused"]
  <2>2. attempt' = [attempt EXCEPT ![r] = next]
    BY <1>0, <1>8 DEF Verified
  <2>3. next.user = u /\ next.password = p /\ (next.pc = "accepted" => Accepts(u, p))
    BY <2>1 DEF Attempts
  <2>4. Accepts(u, p) => u = p /\ u \in known
    BY AcceptsOwn DEF known
  <2> HIDE DEF next
  <2> QED BY <1>4, <2>2, <2>3, <2>4
<1>9. ASSUME NEW r \in BasicRequests, QueueTimesOut(r) PROVE AcceptedOwnPassword'
  <2>1. attempt[r] \in Attempts
    BY <1>0, <1>9 DEF QueueTimesOut, NoAttempt
  <2> QED BY <1>0, <1>4, <1>9, <2>1 DEF QueueTimesOut, Attempts
<1>10. ASSUME NEW r \in BasicRequests, DropAttempt(r) \/ AnswerBasic(r)
       PROVE  AcceptedOwnPassword'
  BY <1>4, <1>10 DEF DropAttempt, AnswerBasic, NoAttempt
<1> QED
  BY <1>5, <1>6, <1>7, <1>8, <1>9, <1>10 DEF PasswordNext

\* The invariant holds throughout.
LEMMA PasswordInductive == PasswordSpec => []PasswordInv
<1>1. PasswordInv /\ [PasswordNext]_passwordVars => PasswordInv'
  BY PasswordTypesKept, PermitQueueKept, PermitsKept, AcceptedKept DEF PasswordInv
<1> QED BY PasswordInitially, <1>1, PTL DEF PasswordSpec

\* authorize_basic accepts a request only as a known user with that user's password,
\* and no order of answers, timeouts and dropped requests loses or makes a permit, for
\* any number of requests, users and permits.
THEOREM PasswordsSound == PasswordSpec => []BasicSound
<1>1. PasswordInv => BasicSound
  BY DEF PasswordInv, BasicSound, PermitsConserved, PermitQueueFits, PermitsFit, Verifying
<1> QED BY PasswordInductive, <1>1, PTL

-----------------------------------------------------------------------------
(***************************************************************************)
(* SecretBackends, for any profiles, answers, fetches and durations.       *)
(***************************************************************************)

\* A non-empty set of places has a last one.
LEMMA LastExists ==
    ASSUME NEW n \in Nat, NEW I \in SUBSET (1..n), I # {}
    PROVE  Max(I) \in I
<1> DEFINE T == {n - i : i \in I}
           R == OpToRel(<, Nat)
<1>1. T \subseteq Nat /\ T # {}
  <2>1. \A i \in I : n - i \in Nat
    OBVIOUS
  <2> QED BY <2>1
<1>2. \E x \in T : \A y \in T : ~(<<y, x>> \in R)
  <2> HIDE DEF T
  <2> QED BY <1>1, WFMin, NatLessThanWellFounded
<1>3. \A x, y \in Nat : <<y, x>> \in R <=> y < x
  BY DEF OpToRel
<1>4. PICK x \in T : \A y \in T : ~(y < x)
  BY <1>1, <1>2, <1>3
<1>5. PICK i \in I : x = n - i
  OBVIOUS
<1>6. ASSUME NEW j \in I PROVE i >= j
  <2>1. ~(n - j < n - i)
    BY <1>4, <1>5
  <2>2. i \in Nat /\ j \in Nat
    OBVIOUS
  <2> QED BY <2>1, <2>2
<1> QED BY <1>6 DEF Max

\* What is decoded of a response has text under keys that were asked for only.
LEMMA DecodedText ==
    ASSUME NEW fields, NEW keys, keys \subseteq DOMAIN fields,
           \A k \in DOMAIN fields : fields[k].text # Malformed,
           DecodeKeys(fields, keys) # Malformed
    PROVE  /\ DOMAIN DecodeKeys(fields, keys) \subseteq keys
           /\ Malformed \notin Range(DecodeKeys(fields, keys))
BY DEF DecodeKeys, Range

\* What a connector may return before the exports are applied.
Fitting(acquisition) ==
    \E values, lease :
        /\ acquisition = Acquisition(values, lease)
        /\ Malformed \notin Range(values)
        /\ source.kind # "google" /\ source.exports = <<>> /\ source.allowed # {} =>
              DOMAIN values \subseteq source.allowed
        /\ \/ lease = Absent /\ (source.dynamic => DOMAIN values = {})
           \/ lease \in 0..(MaxLeaseDuration + LeaseSlack) /\ source.dynamic

\* OpenBaoConnector::acquire returns what its profile may have.
LEMMA OpenBaoFits ==
    ASSUME source \in Sources, source.kind = "openbao", NEW answer \in Answers(source.kind),
           AcquireOpenBao(answer) # Malformed
    PROVE  Fitting(AcquireOpenBao(answer))
<1>1. CASE answer.status = "missing"
  <2>1. AcquireOpenBao(answer) = Acquisition(<<>>, Absent)
    BY <1>1 DEF AcquireOpenBao
  <2>2. DOMAIN <<>> = {} /\ Malformed \notin Range(<<>>)
    BY DEF Range
  <2> QED BY <2>1, <2>2 DEF Fitting
<1>2. CASE answer.status = "ok"
  <2> DEFINE values == DecodeSecretData(answer)
             fields == IF answer.wrapped = Absent THEN answer.fields ELSE answer.wrapped
             keys == {k \in DOMAIN fields : source.allowed = {} \/ k \in source.allowed}
  <2>1. AcquireOpenBao(answer) = DecodeSecretResponse(answer)
    BY <1>2 DEF AcquireOpenBao
  <2>2. values # Malformed
    BY <2>1 DEF DecodeSecretResponse
  <2>3. answer.fields # Malformed /\ values = DecodeKeys(fields, keys)
    BY <2>2 DEF DecodeSecretData, DecodeFields
  <2>4. \A k \in DOMAIN fields : fields[k].text # Malformed
    BY <2>3, AnswersAssumption
  <2> HIDE DEF values, fields
  <2>5. DOMAIN values \subseteq keys /\ Malformed \notin Range(values)
    BY <2>2, <2>3, <2>4, DecodedText
  <2>6. source.allowed # {} => DOMAIN values \subseteq source.allowed
    BY <2>5
  <2> DEFINE lease == IF source.dynamic THEN LeaseExpiry(answer.duration) ELSE Absent
  <2>7. AcquireOpenBao(answer) = Acquisition(values, lease)
    BY <2>1, <2>2 DEF DecodeSecretResponse, values
  <2>8. source.dynamic => lease \in 0..(MaxLeaseDuration + LeaseSlack)
    <3>1. source.dynamic => LeaseExpiry(answer.duration) # Malformed
      BY <2>1, <2>2 DEF DecodeSecretResponse, values
    <3>2. LeaseExpiry(answer.duration) # Malformed => LeaseExpiry(answer.duration) \in 1..MaxLeaseDuration
      BY DEF LeaseExpiry
    <3>3. \A n \in 1..MaxLeaseDuration : n \in 0..(MaxLeaseDuration + LeaseSlack)
      BY SecretBackendsAssumption
    <3> QED BY <3>1, <3>2, <3>3
  <2>9. ~source.dynamic => lease = Absent
    OBVIOUS
  <2> HIDE DEF lease
  <2> QED BY <2>5, <2>6, <2>7, <2>8, <2>9 DEF Fitting
<1> QED BY <1>1, <1>2 DEF AcquireOpenBao

\* InfisicalConnector::acquire, with its allow list, does too.
LEMMA InfisicalFits ==
    ASSUME source \in Sources, source.kind = "infisical", NEW answer \in Answers(source.kind),
           AcquireInfisical(answer) # Malformed
    PROVE  Fitting(AcquireInfisical(answer))
<1>1. CASE source.dynamic
  <2> DEFINE values == DecodeKeys(answer.fields, DOMAIN answer.fields)
             lease == ParseDynamicExpiry(answer.duration)
  <2>1. AcquireInfisical(answer) = AcquireInfisicalDynamic(answer)
    BY <1>1 DEF AcquireInfisical
  <2>2. /\ answer.fields # Malformed /\ values # Malformed /\ lease # Malformed
        /\ AcquireInfisicalDynamic(answer) = Acquisition(values, lease)
    BY <2>1 DEF AcquireInfisicalDynamic
  <2>3. \A k \in DOMAIN answer.fields : answer.fields[k].text # Malformed
    BY <2>2, AnswersAssumption
  <2>4. Malformed \notin Range(values)
    BY <2>2, <2>3, DecodedText
  <2>5. lease \in 0..(MaxLeaseDuration + LeaseSlack)
    BY <2>2 DEF ParseDynamicExpiry
  <2>6. source.exports # <<>>
    <3>1. DOMAIN source.exports # {}
      BY <1>1, SourcesAssumption
    <3>2. DOMAIN <<>> = {}
      OBVIOUS
    <3> QED BY <3>1, <3>2
  <2> HIDE DEF values, lease
  <2> QED BY <1>1, <2>1, <2>2, <2>4, <2>5, <2>6 DEF Fitting
<1>2. CASE ~source.dynamic
  <2>1. AcquireInfisical(answer) = AcquireInfisicalStatic(answer)
    BY <1>2 DEF AcquireInfisical
  <2>2. CASE answer.status = "missing"
    <3>1. AcquireInfisicalStatic(answer) = Acquisition(<<>>, Absent)
      BY <2>2 DEF AcquireInfisicalStatic
    <3>2. DOMAIN <<>> = {} /\ Malformed \notin Range(<<>>)
      BY DEF Range
    <3> QED BY <1>2, <2>1, <3>1, <3>2 DEF Fitting
  <2>3. CASE answer.status = "ok"
    <3> DEFINE listed == answer.listed
               names == {k \in {listed[i][1] : i \in DOMAIN listed} :
                            source.allowed = {} \/ k \in source.allowed}
               last(k) == SelectLastInSeq(listed, LAMBDA e : e[1] = k)
               values == [k \in names |-> listed[last(k)][2]]
    <3>1. AcquireInfisicalStatic(answer) = Acquisition(values, Absent)
      BY <2>3 DEF AcquireInfisicalStatic
    <3>2. ASSUME NEW k \in names PROVE listed[last(k)][2] # Malformed
      <4> DEFINE n == Len(listed)
                 I == {i \in 1..n : listed[i][1] = k}
      <4>1. last(k) = IF I # {} THEN Max(I) ELSE 0
        BY DEF SelectLastInSeq
      <4>2. n \in Nat /\ DOMAIN listed = 1..n
        BY AnswersAssumption
      <4>3. I # {} /\ I \in SUBSET (1..n)
        BY <4>2
      <4> HIDE DEF I, n, last
      <4>4. Max(I) \in I
        BY <4>2, <4>3, LastExists
      <4> HIDE DEF listed
      <4>5. last(k) \in 1..n
        BY <4>1, <4>3, <4>4
      <4> QED BY <4>5, AnswersAssumption DEF listed, n
    <3> HIDE DEF last, listed
    <3>3. Malformed \notin Range(values)
      BY <3>2 DEF Range
    <3>4. source.allowed # {} => DOMAIN values \subseteq source.allowed
      OBVIOUS
    <3> HIDE DEF values
    <3> QED BY <1>2, <2>1, <3>1, <3>3, <3>4 DEF Fitting
  <2> QED BY <2>1, <2>2, <2>3 DEF AcquireInfisicalStatic
<1> QED BY <1>1, <1>2

\* GoogleSecretManagerConnector::acquire does too.
LEMMA GoogleFits ==
    ASSUME source \in Sources, source.kind = "google", NEW answer \in Answers(source.kind),
           AcquireGoogle(answer) # Malformed
    PROVE  Fitting(AcquireGoogle(answer))
<1> DEFINE values == [name \in DOMAIN source.exports |->
                         IF answer.status = "ok"
                         THEN Access(answer.payloads[source.exports[name].resource]) ELSE Malformed]
<1>1. Malformed \notin Range(values) /\ AcquireGoogle(answer) = Acquisition(values, Absent)
  BY DEF AcquireGoogle
<1>2. ~source.dynamic
  BY SourcesAssumption
<1> HIDE DEF values
<1> QED BY <1>1, <1>2 DEF Fitting

\* What the profile allows of a result.
WithinProfile(result) ==
    /\ source.exports # <<>> => DOMAIN result.values = DOMAIN source.exports
    /\ source.exports = <<>> /\ source.allowed # {} =>
          DOMAIN result.values \subseteq source.allowed
    /\ result.lease # Absent => result.lease <= MaxLeaseDuration + LeaseSlack
    /\ (result.lease # Absent) <=> source.dynamic
    /\ Malformed \notin Range(result.values)

\* A function without arguments is the empty one.
LEMMA EmptyFunction ==
    ASSUME NEW f, f = [x \in DOMAIN f |-> f[x]], DOMAIN f = {}
    PROVE  f = <<>>
OBVIOUS

\* apply_exports returns exactly the exported names.
LEMMA ExportsFit ==
    ASSUME source \in Sources, NEW acquisition, Fitting(acquisition),
           ApplyExports(acquisition.values) # Malformed
    PROVE  WithinProfile([acquisition EXCEPT !.values = ApplyExports(@)])
<1>1. PICK values : \E lease :
        /\ acquisition = Acquisition(values, lease)
        /\ Malformed \notin Range(values)
        /\ source.kind # "google" /\ source.exports = <<>> /\ source.allowed # {} =>
              DOMAIN values \subseteq source.allowed
        /\ \/ lease = Absent /\ (source.dynamic => DOMAIN values = {})
           \/ lease \in 0..(MaxLeaseDuration + LeaseSlack) /\ source.dynamic
  BY DEF Fitting
<1>2. PICK lease :
        /\ acquisition = Acquisition(values, lease)
        /\ Malformed \notin Range(values)
        /\ source.kind # "google" /\ source.exports = <<>> /\ source.allowed # {} =>
              DOMAIN values \subseteq source.allowed
        /\ \/ lease = Absent /\ (source.dynamic => DOMAIN values = {})
           \/ lease \in 0..(MaxLeaseDuration + LeaseSlack) /\ source.dynamic
  BY <1>1
<1> DEFINE applied == ApplyExports(values)
           result == [acquisition EXCEPT !.values = ApplyExports(@)]
           names == DOMAIN source.exports
<1>3. result.values = applied /\ result.lease = lease /\ applied # Malformed
  BY <1>2 DEF Acquisition
<1>4. source.exports = <<>> <=> names = {}
  <2>1. source.exports = [name \in names |-> source.exports[name]]
    BY SourcesAssumption
  <2>2. DOMAIN <<>> = {}
    OBVIOUS
  <2> QED BY <2>1, <2>2, EmptyFunction
<1>5. names # {} =>
        /\ \A name \in names : BackendField(name) \in DOMAIN values
        /\ applied = [name \in names |-> values[BackendField(name)]]
  BY <1>3 DEF ApplyExports
<1>6. names = {} => applied = values
  BY DEF ApplyExports
<1> HIDE DEF applied, result
<1>7. source.exports # <<>> => DOMAIN result.values = DOMAIN source.exports
  BY <1>3, <1>4, <1>5
<1>8. source.exports = <<>> /\ source.allowed # {} => DOMAIN result.values \subseteq source.allowed
  BY <1>2, <1>3, <1>4, <1>6, SourcesAssumption
<1>9. Malformed \notin Range(result.values)
  <2>1. \A k \in DOMAIN values : values[k] # Malformed
    BY <1>2 DEF Range
  <2>2. CASE names = {}
    BY <1>2, <1>3, <1>6, <2>2
  <2>3. CASE names # {}
    <3>1. \A name \in names : applied[name] # Malformed
      BY <1>5, <2>1, <2>3
    <3>2. DOMAIN applied = names
      BY <1>5, <2>3
    <3> QED BY <1>3, <3>1, <3>2 DEF Range
  <2> QED BY <2>2, <2>3
<1>10. (lease # Absent) <=> source.dynamic
  <2>1. CASE source.dynamic
    <3>1. names # {}
      BY <2>1, SourcesAssumption
    <3>2. DOMAIN values # {}
      BY <1>5, <3>1
    <3> QED BY <1>2, <2>1, <3>2, SecretBackendsAssumption
  <2>2. CASE ~source.dynamic
    BY <1>2, <2>2
  <2> QED BY <2>1, <2>2
<1>11. lease # Absent => lease <= MaxLeaseDuration + LeaseSlack
  <2>1. \A n \in 0..(MaxLeaseDuration + LeaseSlack) : n <= MaxLeaseDuration + LeaseSlack
    BY SecretBackendsAssumption
  <2> QED BY <1>2, <2>1
<1>12. WithinProfile(result)
  BY <1>3, <1>7, <1>8, <1>9, <1>10, <1>11 DEF WithinProfile
<1> QED BY <1>12 DEF result

\* What Connector::acquire returns is within the profile.
LEMMA AcquiredFits ==
    ASSUME source \in Sources, NEW answer \in Answers(source.kind),
           Acquired(answer) # Malformed, Acquired(answer).values # Malformed
    PROVE  WithinProfile(Acquired(answer))
<1> DEFINE acquisition == CASE source.kind = "openbao" -> AcquireOpenBao(answer)
                            [] source.kind = "infisical" -> AcquireInfisical(answer)
                            [] source.kind = "google" -> AcquireGoogle(answer)
<1>1. acquisition # Malformed
  BY DEF Acquired
<1>2. Acquired(answer) = [acquisition EXCEPT !.values = ApplyExports(@)]
  BY <1>1 DEF Acquired
<1>3. Fitting(acquisition)
  <2>1. CASE source.kind = "openbao"
    BY <1>1, <2>1, OpenBaoFits
  <2>2. CASE source.kind = "infisical"
    BY <1>1, <2>2, InfisicalFits
  <2>3. CASE source.kind = "google"
    BY <1>1, <2>3, GoogleFits
  <2> QED BY <2>1, <2>2, <2>3, SourcesAssumption
<1> HIDE DEF acquisition
<1>4. ApplyExports(acquisition.values) # Malformed
  BY <1>2, <1>3 DEF Fitting, Acquisition
<1> QED BY <1>2, <1>3, <1>4, ExportsFit
-----------------------------------------------------------------------------
\* How long before its expiry a connector stops using a token.
Margin == IF source.kind = "openbao" THEN OpenBaoMargin ELSE InfisicalMargin

\* A cached token outlives the time the connector will still use it.
CacheFits ==
    tokenCache # Absent =>
        /\ tokenCache \in [left : Nat, life : Nat, ttl : Nat]
        /\ tokenCache.ttl > Margin /\ tokenCache.left > 0 =>
              tokenCache.life >= tokenCache.left + (Margin - ClientTimeout)

\* What a fetch holds at each of its steps.
FetchFits(x) ==
    /\ x.pc = "login" => x \in [pc : {"login"}, elapsed : 0..ClientTimeout]
    /\ x.pc = "issued" =>
          /\ x \in [pc : {"issued"}, elapsed : 0..ClientTimeout, life : Nat, ttl : Nat]
          /\ x.life + x.elapsed >= x.ttl
    /\ x.pc = "authenticated" /\ x.life # Absent /\ x.ttl > Margin =>
          x.life >= Margin - ClientTimeout
    /\ x.pc = "acquired" => WithinProfile(x.result)

FetchesFit == fetch = [f \in Fetches |-> fetch[f]] /\ \A f \in Fetches : FetchFits(fetch[f])

BackendInv == source \in Sources /\ CacheFits /\ FetchesFit

\* No token is cached and nothing is being fetched: the invariant holds.
LEMMA BackendInitially == BackendInit => BackendInv
BY DEF BackendInit, BackendInv, CacheFits, FetchesFit, FetchFits, NoFetch

\* A backend's margin exceeds the timeout of its client.
LEMMA MarginType ==
    ASSUME source \in Sources
    PROVE  Margin \in Nat /\ ClientTimeout \in Nat /\ Margin > ClientTimeout
BY SecretBackendsAssumption DEF Margin

\* The profile does not change.
LEMMA SourceKept == BackendInv /\ [BackendNext]_backendVars => source' = source
BY DEF BackendNext, backendVars, SecondsPass, Acquire, UseCached, StartLogin, StoreToken,
       LoginFails, LoginTimesOut, DropFetch, HandOver, IssueToken, Answer

\* Every step of clock, backends and fetches keeps it.
LEMMA BackendStep == BackendInv /\ [BackendNext]_backendVars => BackendInv'
<1> SUFFICES ASSUME BackendInv, [BackendNext]_backendVars PROVE BackendInv'
  OBVIOUS
<1>0. source' = source /\ source \in Sources
  BY SourceKept DEF BackendInv
<1>1. Margin' = Margin /\ Margin \in Nat /\ ClientTimeout \in Nat /\ Margin > ClientTimeout
  BY <1>0, MarginType DEF Margin
<1>2. CacheFits /\ FetchesFit
  BY DEF BackendInv
<1>3. ASSUME UNCHANGED tokenCache PROVE CacheFits'
  BY <1>1, <1>2, <1>3 DEF CacheFits
<1>4. ASSUME \A g \in Fetches : FetchFits(fetch'[g]), fetch' = [g \in Fetches |-> fetch'[g]]
      PROVE  FetchesFit'
  BY <1>0, <1>1, <1>4 DEF FetchesFit, FetchFits, WithinProfile
<1>5. ASSUME NEW f \in Fetches, NEW x, fetch' = [fetch EXCEPT ![f] = x], FetchFits(x)
      PROVE  FetchesFit'
  <2>1. \A g \in Fetches : fetch'[g] = fetch[g] \/ fetch'[g] = x
    BY <1>2, <1>5 DEF FetchesFit
  <2>2. \A g \in Fetches : FetchFits(fetch'[g])
    BY <1>2, <1>5, <2>1 DEF FetchesFit
  <2>3. fetch' = [g \in Fetches |-> fetch'[g]]
    BY <1>2, <1>5 DEF FetchesFit
  <2> QED BY <1>4, <2>2, <2>3
<1>6. ASSUME UNCHANGED fetch PROVE FetchesFit'
  BY <1>2, <1>4, <1>6 DEF FetchesFit
<1>7. CASE UNCHANGED backendVars
  BY <1>0, <1>3, <1>6, <1>7 DEF backendVars, BackendInv
<1>8. CASE SecondsPass
  <2>1. ASSUME NEW g \in Fetches PROVE FetchFits(fetch'[g])
    <3>1. /\ FetchFits(fetch[g])
          /\ fetch[g].pc \in {"login", "issued"} => fetch[g].elapsed < ClientTimeout
      BY <1>2, <1>8 DEF FetchesFit, SecondsPass
    <3>2. CASE fetch[g].pc = "login"
      <4>1. fetch'[g] = [fetch[g] EXCEPT !.elapsed = fetch[g].elapsed + 1]
        BY <1>8, <3>2 DEF SecondsPass
      <4> QED BY <1>1, <3>1, <3>2, <4>1 DEF FetchFits
    <3>3. CASE fetch[g].pc = "issued"
      <4>1. fetch'[g] = [fetch[g] EXCEPT !.elapsed = fetch[g].elapsed + 1,
                                         !.life = Less(fetch[g].life)]
        BY <1>8, <3>3 DEF SecondsPass
      <4> DEFINE e == fetch[g].elapsed
                 l == fetch[g].life
                 t == fetch[g].ttl
                 Issued == [pc : {"issued"}, elapsed : 0..ClientTimeout, life : Nat, ttl : Nat]
      <4>2. fetch[g] \in Issued /\ l + e >= t /\ e < ClientTimeout
        BY <3>1, <3>3 DEF FetchFits
      <4>3. e \in Nat /\ l \in Nat /\ t \in Nat
        BY <1>1, <4>2
      <4>4. Less(l) \in Nat /\ Less(l) + (e + 1) >= t /\ e + 1 \in 0..ClientTimeout
        <5> HIDE DEF e, l, t
        <5> QED BY <1>1, <4>2, <4>3 DEF Less
      <4>5. /\ fetch'[g] \in Issued /\ fetch'[g].pc = "issued"
            /\ fetch'[g].elapsed = e + 1 /\ fetch'[g].life = Less(l) /\ fetch'[g].ttl = t
        BY <4>1, <4>2, <4>4
      <4> QED BY <4>4, <4>5 DEF FetchFits
    <3>4. CASE fetch[g].pc \notin {"login", "issued"}
      <4>1. fetch'[g] = fetch[g]
        BY <1>8, <3>4 DEF SecondsPass
      <4> QED BY <3>1, <4>1
    <3> QED BY <3>2, <3>3, <3>4
  <2>2. fetch' = [g \in Fetches |-> fetch'[g]]
    BY <1>8 DEF SecondsPass
  <2>3. CacheFits'
    <3>1. CASE tokenCache = Absent
      BY <1>8, <3>1 DEF CacheFits, SecondsPass
    <3>2. CASE tokenCache # Absent
      <4> DEFINE a == tokenCache.left
                 l == tokenCache.life
                 t == tokenCache.ttl
      <4>1. /\ tokenCache = [left |-> a, life |-> l, ttl |-> t]
            /\ a \in Nat /\ l \in Nat /\ t \in Nat
            /\ t > Margin /\ a > 0 => l >= a + (Margin - ClientTimeout)
        BY <1>2, <3>2 DEF CacheFits
      <4>2. tokenCache' = [tokenCache EXCEPT !.left = Less(a), !.life = Less(l)]
        BY <1>8, <3>2 DEF SecondsPass
      <4>3. tokenCache' = [left |-> Less(a), life |-> Less(l), ttl |-> t]
        BY <4>1, <4>2
      <4> HIDE DEF a, l, t
      <4>4. /\ Less(a) \in Nat /\ Less(l) \in Nat
            /\ t > Margin /\ Less(a) > 0 => Less(l) >= Less(a) + (Margin - ClientTimeout)
        BY <1>1, <4>1 DEF Less
      <4> QED BY <1>1, <4>1, <4>3, <4>4 DEF CacheFits
    <3> QED BY <3>1, <3>2
  <2> QED BY <1>0, <1>4, <2>1, <2>2, <2>3 DEF BackendInv
<1>9. ASSUME NEW f \in Fetches, Acquire(f) PROVE BackendInv'
  <2>1. FetchFits([pc |-> "waiting"]) /\ FetchFits(WithToken(Absent, Absent)) /\ FetchFits(Failed)
    BY DEF FetchFits, WithToken, Failed
  <2>2. FetchesFit'
    BY <1>5, <1>9, <2>1 DEF Acquire
  <2> QED BY <1>0, <1>3, <1>9, <2>2 DEF BackendInv, Acquire
<1>10. ASSUME NEW f \in Fetches, UseCached(f) PROVE BackendInv'
  <2>1. FetchFits(WithToken(tokenCache.life, tokenCache.ttl))
    BY <1>1, <1>2, <1>10 DEF UseCached, CacheFits, FetchFits, WithToken
  <2>2. FetchesFit'
    BY <1>5, <1>10, <2>1 DEF UseCached
  <2> QED BY <1>0, <1>3, <1>10, <2>2 DEF BackendInv, UseCached
<1>11. ASSUME NEW f \in Fetches, StartLogin(f) PROVE BackendInv'
  <2>1. FetchFits([pc |-> "login", elapsed |-> 0]) /\ FetchFits(Failed)
    BY <1>1 DEF FetchFits, Failed
  <2>2. FetchesFit'
    BY <1>5, <1>11, <2>1 DEF StartLogin
  <2> QED BY <1>0, <1>3, <1>11, <2>2 DEF BackendInv, StartLogin
<1>12. ASSUME NEW f \in Fetches, NEW ttl \in TokenLifetimes, IssueToken(f, ttl) PROVE BackendInv'
  <2> DEFINE x == [pc |-> "issued", elapsed |-> fetch[f].elapsed, life |-> ttl, ttl |-> ttl]
  <2>1. ttl \in Nat /\ fetch[f].elapsed \in 0..ClientTimeout
    BY <1>2, <1>12, SecretBackendsAssumption DEF IssueToken, FetchesFit, FetchFits
  <2>2. FetchFits(x)
    BY <1>1, <2>1 DEF FetchFits
  <2>3. fetch' = [fetch EXCEPT ![f] = x]
    BY <1>2, <1>12 DEF IssueToken, FetchesFit
  <2> HIDE DEF x
  <2>4. FetchesFit'
    BY <1>5, <2>2, <2>3
  <2> QED BY <1>0, <1>3, <1>12, <2>4 DEF BackendInv, IssueToken
<1>13. ASSUME NEW f \in Fetches, StoreToken(f) PROVE BackendInv'
  <2> DEFINE t == fetch[f]
  <2>1. /\ t.elapsed \in 0..ClientTimeout /\ t.life \in Nat /\ t.ttl \in Nat
        /\ t.life + t.elapsed >= t.ttl
    BY <1>2, <1>13 DEF StoreToken, FetchesFit, FetchFits
  <2>2. fetch' = [fetch EXCEPT ![f] = WithToken(t.life, t.ttl)]
    BY <1>2, <1>13 DEF StoreToken, FetchesFit
  <2>3. tokenCache' = [left |-> Lifetime(t.ttl), life |-> t.life, ttl |-> t.ttl]
    BY <1>13 DEF StoreToken
  <2> HIDE DEF t
  <2>4. /\ Lifetime(t.ttl) \in Nat
        /\ t.ttl > Margin => Lifetime(t.ttl) = t.ttl - Margin
    BY <1>1, <2>1, SecretBackendsAssumption
    DEF Lifetime, Margin, Greater, OpenBaoLifetime, InfisicalLifetime
  <2>5. t.ttl > Margin => t.life >= t.ttl - ClientTimeout
    BY <1>1, <2>1
  <2>6. CacheFits'
    BY <1>1, <2>1, <2>3, <2>4, <2>5 DEF CacheFits
  <2>7. FetchFits(WithToken(t.life, t.ttl))
    BY <1>1, <2>1, <2>5 DEF FetchFits, WithToken
  <2>8. FetchesFit'
    BY <1>5, <2>2, <2>7
  <2> QED BY <1>0, <2>6, <2>8 DEF BackendInv
<1>14. ASSUME NEW f \in Fetches, LoginFails(f) \/ LoginTimesOut(f) PROVE BackendInv'
  <2>1. FetchFits(Failed)
    BY DEF FetchFits, Failed
  <2>2. FetchesFit'
    BY <1>5, <1>14, <2>1 DEF LoginFails, LoginTimesOut
  <2> QED BY <1>0, <1>3, <1>14, <2>2 DEF BackendInv, LoginFails, LoginTimesOut
<1>15. ASSUME NEW f \in Fetches, DropFetch(f) \/ HandOver(f) PROVE BackendInv'
  <2>1. FetchFits(NoFetch)
    BY DEF FetchFits, NoFetch
  <2>2. FetchesFit'
    BY <1>5, <1>15, <2>1 DEF DropFetch, HandOver
  <2> QED BY <1>0, <1>3, <1>15, <2>2 DEF BackendInv, DropFetch, HandOver
<1>16. ASSUME NEW f \in Fetches, NEW answer \in Answers(source.kind), Answer(f, answer)
       PROVE  BackendInv'
  <2> DEFINE result == Acquired(answer)
             x == IF result = Malformed THEN Failed
                  ELSE IF result.values = Malformed THEN Failed
                  ELSE [pc |-> "acquired", result |-> result]
  <2>1. result # Malformed /\ result.values # Malformed => WithinProfile(result)
    BY <1>0, AcquiredFits
  <2>2. fetch' = [fetch EXCEPT ![f] = x] /\ UNCHANGED tokenCache
    BY <1>16 DEF Answer
  <2> HIDE DEF result
  <2>3. FetchFits(x)
    BY <2>1 DEF FetchFits, Failed
  <2> HIDE DEF x
  <2>4. FetchesFit'
    BY <1>5, <2>2, <2>3
  <2> QED BY <1>0, <1>3, <2>2, <2>4 DEF BackendInv
<1> QED
  BY <1>7, <1>8, <1>9, <1>10, <1>11, <1>12, <1>13, <1>14, <1>15, <1>16 DEF BackendNext

\* The invariant holds throughout.
LEMMA BackendInductive == BackendSpec => []BackendInv
BY BackendInitially, BackendStep, PTL DEF BackendSpec

\* Whatever a backend answers, an acquisition that succeeds has exactly the exported
\* names, or only allowed ones, a lease if and only if the profile is dynamic, of a
\* bounded duration, and no undecodable text (Connector::acquire).
THEOREM AcquisitionsWithinProfile == BackendSpec => []AcquiredWithinProfile
<1>1. BackendInv => AcquiredWithinProfile
  BY DEF BackendInv, FetchesFit, FetchFits, WithinProfile, AcquiredWithinProfile
<1> QED BY BackendInductive, <1>1, PTL

\* A token whose lifetime exceeds the connector's margin has the margin less one client
\* timeout left whenever authenticate returns it, however slow the login was and
\* however old the cached token is.
THEOREM TokensLiveWhenReturned ==
    BackendSpec => [](\A f \in Fetches : TokenLiveWhenReturned(f))
<1>1. BackendInv => \A f \in Fetches : TokenLiveWhenReturned(f)
  BY DEF BackendInv, FetchesFit, FetchFits, Margin, TokenLiveWhenReturned
<1> QED BY BackendInductive, <1>1, PTL

LoggingIn(f) == fetch[f].pc \in {"login", "issued"}

LockFits ==
    /\ lockQueue \in Seq(Fetches) /\ Single(lockQueue)
    /\ \A i \in 1..Len(lockQueue) : fetch[lockQueue[i]].pc \in {"waiting", "login", "issued"}
    /\ LoginsExclusive

\* The fetch that logs in is the one at the head of the lock.
LEMMA LockKept == BackendInv /\ LockFits /\ [BackendNext]_backendVars => LockFits'
<1> SUFFICES ASSUME BackendInv, LockFits, [BackendNext]_backendVars PROVE LockFits'
  OBVIOUS
<1> DEFINE q == lockQueue
           busy == {"waiting", "login", "issued"}
<1>0. /\ fetch = [f \in Fetches |-> fetch[f]] /\ q \in Seq(Fetches) /\ Single(q)
      /\ \A i \in 1..Len(q) : q[i] \in Fetches /\ fetch[q[i]].pc \in busy
      /\ \A f \in Fetches : LoggingIn(f) => q # <<>> /\ Head(q) = f
  BY DEF BackendInv, FetchesFit, LockFits, LoginsExclusive, LoggingIn, HasLock
\* The queue may change in one of three ways.
<1>1. ASSUME NEW f \in Fetches, NEW r, r \in Seq(Fetches), Single(r), lockQueue' = r,
             \A i \in 1..Len(r) : r[i] # f /\ \E j \in 1..Len(q) : r[i] = q[j],
             fetch'[f].pc \notin {"login", "issued"},
             \A g \in Fetches : g # f => fetch'[g] = fetch[g],
             \A g \in Fetches : g # f /\ LoggingIn(g) => r # <<>> /\ Head(r) = g
      PROVE  LockFits'
  <2>1. ASSUME NEW i \in 1..Len(r) PROVE fetch'[r[i]].pc \in busy
    <3>1. PICK j \in 1..Len(q) : r[i] = q[j]
      BY <1>1
    <3> QED BY <1>0, <1>1, <3>1
  <2>2. \A g \in Fetches : fetch'[g].pc \in {"login", "issued"} => r # <<>> /\ Head(r) = g
    BY <1>1 DEF LoggingIn
  <2> QED BY <1>1, <2>1, <2>2 DEF LockFits, LoginsExclusive, LoggingIn, HasLock, Single
<1>2. ASSUME NEW f \in Fetches, HasLock(f), lockQueue' = Tail(lockQueue),
             fetch'[f].pc \notin {"login", "issued"},
             \A g \in Fetches : g # f => fetch'[g] = fetch[g]
      PROVE  LockFits'
  <2>1. q # <<>> /\ Head(q) = f
    BY <1>2 DEF HasLock
  <2>2. \A g \in Fetches : g # f => ~LoggingIn(g)
    BY <1>0, <2>1
  <2>3. lockQueue' = Tail(q)
    BY <1>2
  <2> HIDE DEF q
  <2>4. /\ Tail(q) \in Seq(Fetches) /\ Single(Tail(q))
        /\ \A i \in 1..Len(Tail(q)) : Tail(q)[i] # f /\ \E j \in 1..Len(q) : Tail(q)[i] = q[j]
    BY <1>0, <2>1, ServedFirst
  <2> DEFINE r == Tail(q)
  <2> HIDE DEF r
  <2> QED BY <1>1, <1>2, <2>2, <2>3, <2>4 DEF r
<1>3. ASSUME lockQueue' = lockQueue,
             \A g \in Fetches : fetch[g].pc \in busy => fetch'[g].pc \in busy,
             \A g \in Fetches : fetch'[g].pc \in {"login", "issued"} => LoggingIn(g) \/ HasLock(g)
      PROVE  LockFits'
  BY <1>0, <1>3 DEF LockFits, LoginsExclusive, LoggingIn, HasLock, Single
<1>4. CASE UNCHANGED backendVars
  BY <1>3, <1>4 DEF backendVars, LoggingIn
<1>5. CASE SecondsPass
  <2>1. \A g \in Fetches : fetch'[g].pc = fetch[g].pc
    <3> TAKE g \in Fetches
    <3>1. FetchFits(fetch[g])
      BY DEF BackendInv, FetchesFit
    <3> QED BY <1>5, <3>1 DEF SecondsPass, FetchFits
  <2> QED BY <1>3, <1>5, <2>1 DEF SecondsPass, LoggingIn
<1>6. ASSUME NEW f \in Fetches, Acquire(f) PROVE LockFits'
  <2>1. fetch[f].pc = "idle"
    BY <1>6 DEF Acquire, NoFetch
  <2>2. CASE source.login
    <3>1. fetch' = [fetch EXCEPT ![f] = [pc |-> "waiting"]] /\ lockQueue' = Append(q, f)
      BY <1>6, <2>2 DEF Acquire
    <3>2. \A i \in 1..Len(q) : q[i] # f
      BY <1>0, <2>1
    <3>3. fetch'[f].pc = "waiting" /\ \A g \in Fetches : g # f => fetch'[g] = fetch[g]
      BY <1>0, <3>1
    <3> HIDE DEF q
    <3>4. /\ Append(q, f) \in Seq(Fetches) /\ Single(Append(q, f))
          /\ \A i \in 1..Len(Append(q, f)) :
                Append(q, f)[i] = f \/ \E j \in 1..Len(q) : Append(q, f)[i] = q[j]
          /\ q # <<>> => Append(q, f) # <<>> /\ Head(Append(q, f)) = Head(q)
      BY <1>0, <3>2, JoiningQueue
    <3> DEFINE r == Append(q, f)
    <3>5. lockQueue' = r
      BY <3>1
    <3>6. /\ r \in Seq(Fetches) /\ Single(r)
          /\ \A i \in 1..Len(r) : r[i] = f \/ \E j \in 1..Len(q) : r[i] = q[j]
          /\ q # <<>> => r # <<>> /\ Head(r) = Head(q)
      BY <3>4
    <3> HIDE DEF r
    <3>7. \A i \in 1..Len(r) : fetch'[r[i]].pc \in busy
      BY <1>0, <3>3, <3>6
    <3>8. \A g \in Fetches : fetch'[g].pc \in {"login", "issued"} => r # <<>> /\ Head(r) = g
      BY <1>0, <3>3, <3>6 DEF LoggingIn
    <3> QED BY <3>5, <3>6, <3>7, <3>8 DEF LockFits, LoginsExclusive, LoggingIn, HasLock, Single
  <2>3. CASE ~source.login
    <3>1. lockQueue' = lockQueue /\ fetch'[f].pc \in {"authenticated", "failed"}
      BY <1>0, <1>6, <2>3 DEF Acquire, WithToken, Failed
    <3>2. \A g \in Fetches : g # f => fetch'[g] = fetch[g]
      BY <1>0, <1>6, <2>3 DEF Acquire
    <3> QED BY <1>3, <2>1, <3>1, <3>2 DEF LoggingIn
  <2> QED BY <2>2, <2>3
<1>7. ASSUME NEW f \in Fetches, UseCached(f) PROVE LockFits'
  <2>1. fetch'[f].pc = "authenticated" /\ \A g \in Fetches : g # f => fetch'[g] = fetch[g]
    BY <1>0, <1>7 DEF UseCached, WithToken
  <2> QED BY <1>2, <1>7, <2>1 DEF UseCached
<1>8. ASSUME NEW f \in Fetches, StartLogin(f) PROVE LockFits'
  <2>1. \A g \in Fetches : g # f => fetch'[g] = fetch[g]
    BY <1>0, <1>8 DEF StartLogin
  <2>2. CASE fetch' = [fetch EXCEPT ![f] = Failed] /\ lockQueue' = Tail(lockQueue)
    <3>1. fetch'[f].pc = "failed"
      BY <1>0, <2>2 DEF Failed
    <3> QED BY <1>2, <1>8, <2>1, <2>2, <3>1 DEF StartLogin
  <2>3. CASE fetch' = [fetch EXCEPT ![f] = [pc |-> "login", elapsed |-> 0]] /\ UNCHANGED lockQueue
    <3>1. fetch'[f].pc = "login"
      BY <1>0, <2>3
    <3> QED BY <1>3, <1>8, <2>1, <2>3, <3>1 DEF StartLogin, LoggingIn
  <2> QED BY <1>8, <2>2, <2>3 DEF StartLogin
<1>9. ASSUME NEW f \in Fetches, NEW ttl, IssueToken(f, ttl) PROVE LockFits'
  <2>1. fetch'[f].pc = "issued" /\ \A g \in Fetches : g # f => fetch'[g] = fetch[g]
    BY <1>0, <1>9 DEF IssueToken
  <2> QED BY <1>3, <1>9, <2>1 DEF IssueToken, LoggingIn
<1>10. ASSUME NEW f \in Fetches, StoreToken(f) PROVE LockFits'
  <2>1. fetch'[f].pc = "authenticated" /\ \A g \in Fetches : g # f => fetch'[g] = fetch[g]
    BY <1>0, <1>10 DEF StoreToken, WithToken
  <2>2. HasLock(f)
    BY <1>10 DEF StoreToken, LockFits, LoginsExclusive, LoggingIn
  <2> QED BY <1>2, <1>10, <2>1, <2>2 DEF StoreToken
<1>11. ASSUME NEW f \in Fetches, LoginFails(f) \/ LoginTimesOut(f) PROVE LockFits'
  <2>1. fetch'[f].pc = "failed" /\ \A g \in Fetches : g # f => fetch'[g] = fetch[g]
    BY <1>0, <1>11 DEF LoginFails, LoginTimesOut, Failed
  <2>2. HasLock(f)
    BY <1>11 DEF LoginFails, LoginTimesOut, LockFits, LoginsExclusive, LoggingIn
  <2> QED BY <1>2, <1>11, <2>1, <2>2 DEF LoginFails, LoginTimesOut
<1>12. ASSUME NEW f \in Fetches, DropFetch(f) PROVE LockFits'
  <2>1. fetch'[f].pc = "idle" /\ \A g \in Fetches : g # f => fetch'[g] = fetch[g]
    BY <1>0, <1>12 DEF DropFetch, NoFetch
  <2>2. lockQueue' = Leaves(q, f)
    BY <1>12 DEF DropFetch
  <2> HIDE DEF q
  <2>3. /\ Leaves(q, f) \in Seq(Fetches) /\ Single(Leaves(q, f))
        /\ \A i \in 1..Len(Leaves(q, f)) :
              Leaves(q, f)[i] # f /\ \E j \in 1..Len(q) : Leaves(q, f)[i] = q[j]
    BY <1>0, LeavingQueue
  <2>4. q # <<>> /\ Head(q) # f => Leaves(q, f) # <<>> /\ Head(Leaves(q, f)) = Head(q)
    BY <1>0, LeavingBehind
  <2>5. \A g \in Fetches : g # f /\ LoggingIn(g) => Leaves(q, f) # <<>> /\ Head(Leaves(q, f)) = g
    BY <1>0, <2>4
  <2> DEFINE r == Leaves(q, f)
  <2> HIDE DEF r
  <2> QED BY <1>1, <2>1, <2>2, <2>3, <2>5 DEF r
<1>13. ASSUME NEW f \in Fetches, HandOver(f) PROVE LockFits'
  <2>1. fetch'[f].pc = "idle" /\ \A g \in Fetches : g # f => fetch'[g] = fetch[g]
    BY <1>0, <1>13 DEF HandOver, NoFetch
  <2> QED BY <1>3, <1>13, <2>1 DEF HandOver, LoggingIn
<1>14. ASSUME NEW f \in Fetches, NEW answer, Answer(f, answer) PROVE LockFits'
  <2>1. fetch'[f].pc \in {"failed", "acquired"} /\ \A g \in Fetches : g # f => fetch'[g] = fetch[g]
    BY <1>0, <1>14 DEF Answer, Failed
  <2> QED BY <1>3, <1>14, <2>1 DEF Answer, LoggingIn
<1> QED
  BY <1>4, <1>5, <1>6, <1>7, <1>8, <1>9, <1>10, <1>11, <1>12, <1>13, <1>14 DEF BackendNext

\* Only the fetch at the head of the lock logs in, whichever fetches are dropped while
\* they wait or log in: one login serves those that queued behind it.
THEOREM LoginsAreExclusive == BackendSpec => []LoginsExclusive
<1>1. BackendInit => LockFits
  BY DEF BackendInit, LockFits, LoginsExclusive, LoggingIn, NoFetch, Single
<1>2. LockFits => LoginsExclusive
  BY DEF LockFits
<1> QED BY BackendInductive, LockKept, <1>1, <1>2, PTL DEF BackendSpec
=============================================================================
