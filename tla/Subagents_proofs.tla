--------------------------- MODULE Subagents_proofs ---------------------------
(***************************************************************************)
(* Proofs about SessionDispatch, for every set of messages and sessions,   *)
(* every capacity and both behaviours of asyncio.wait_for; then about      *)
(* Subagents, where messages are dispatched as they are without subagents: *)
(* what SessionDispatch guarantees in every behaviour holds there too.     *)
(***************************************************************************)
EXTENDS Subagents, SequenceTheorems, FiniteSetTheorems, TLAPS

(***************************************************************************)
(* The dispatcher                                                          *)
(***************************************************************************)

\* Routing always yields a session key.
LEMMA EffectiveKeyType == \A m \in Messages : EffectiveKey(m) \in Keys
  BY ConstantsAssumption DEF EffectiveKey

LEMMA CancelKeyType == \A m \in Messages : CancelKey(m) \in Keys
  BY ConstantsAssumption, EffectiveKeyType DEF CancelKey

\* A part of a sequence of messages is a sequence of messages.
LEMMA SubSeqType ==
  ASSUME NEW s \in Seq(Messages), NEW i \in Int, NEW j \in Int,
         1 <= i, j <= Len(s)
  PROVE  SubSeq(s, i, j) \in Seq(Messages)
  <1>1. \A n \in i..j : s[n] \in Messages
    OBVIOUS
  <1> QED
    BY <1>1, SubSeqProperties

\* Taking a cancelled waiter out of a wait queue leaves a wait queue.
LEMMA WithoutWaiterType ==
  ASSUME NEW s \in Seq(Messages), NEW m \in Messages
  PROVE  WithoutWaiter(s, m) \in Seq(Messages)
  <1>1. CASE \E i \in 1..Len(s) : s[i] = m
    <2>1. PICK j : j \in 1..Len(s) /\ j = CHOOSE i \in 1..Len(s) : s[i] = m
      BY <1>1
    <2>2. j \in Int /\ 1 <= j /\ j <= Len(s)
      BY <2>1
    <2>3. SubSeq(s, 1, j - 1) \in Seq(Messages) /\ SubSeq(s, j + 1, Len(s)) \in Seq(Messages)
      BY <2>2, SubSeqType
    <2> QED
      BY <1>1, <2>1, <2>3, ConcatProperties DEF WithoutWaiter, RemoveAt
  <1>2. CASE ~ \E i \in 1..Len(s) : s[i] = m
    BY <1>2 DEF WithoutWaiter
  <1> QED
    BY <1>1, <1>2

\* Cancelling the tasks of a session keeps the types of the tables it touches.
LEMMA CancelActiveType ==
  ASSUME TypeOK, NEW m \in Messages, CancelActive(m, CancelKey(m))
  PROVE  /\ activeTasks' \in [Keys -> SUBSET Messages]
         /\ cancelled' \in SUBSET Messages
         /\ awaited' \in [Messages -> SUBSET Messages]
  BY CancelKeyType DEF TypeOK, CancelActive

\* Every variable keeps its type: type correctness for every step.
LEMMA TypeInductive == TypeOK /\ [Next]_vars => TypeOK'
  <1> SUFFICES ASSUME TypeOK, [Next]_vars PROVE TypeOK'
    OBVIOUS
  <1> USE ConstantsAssumption, EffectiveKeyType, CancelKeyType
  <1>1. ASSUME NEW m \in Messages, Publish(m) PROVE TypeOK'
    BY SMTT(30), <1>1 DEF TypeOK, Publish, taskVars, loopVars, Outcomes
  <1>2. ASSUME NEW m \in Messages, Consume(m) PROVE TypeOK'
    <2> USE DEF TypeOK, Consume, MayConsume, taskVars, loopVars, Outcomes, TaskState
    <2>1. inbound' \in Seq(Messages) /\ LoopAfter(Tail(inbound)) \in {"blocked", "draining"}
      BY <1>2 DEF LoopAfter
    <2>2. CASE RouteToPending(m)
      <3>1. pendingQueues[EffectiveKey(m)] \in Messages
        BY <2>2 DEF RouteToPending
      <3>2. Append(queue[pendingQueues[EffectiveKey(m)]], m) \in Seq(Messages)
        BY <3>1
      <3>3. queue' \in [Messages -> Seq(Messages)]
        BY <2>2, <3>2 DEF RouteToPending
      <3> QED
        BY <1>2, <2>1, <2>2, <3>3 DEF RouteToPending
    <2>3. CASE CreateTask(m)
      BY ZenonT(60), <1>2, <2>1, <2>3 DEF CreateTask
    <2>4. CASE HandleInline(m)
      BY <1>2, <2>1, <2>4, CancelActiveType DEF HandleInline
    <2> QED
      BY <1>2, <2>2, <2>3, <2>4
  <1>3. CASE CommandDone
    BY <1>3 DEF TypeOK, CommandDone, LoopAfter, taskVars, Outcomes
  <1>4. ASSUME NEW m \in Messages, DispatchStart(m) PROVE TypeOK'
    BY <1>4 DEF TypeOK, DispatchStart, loopVars, TaskState
  <1>5. ASSUME NEW m \in Messages, LockAcquire(m) PROVE TypeOK'
    <2>1. Append(gateWaiters, m) \in Seq(Messages)
      BY DEF TypeOK
    <2>2. lockWaiters' \in [Keys -> Seq(Messages)]
      BY <1>5 DEF TypeOK, LockAcquire, FirstInLine
    <2> QED
      BY <1>5, <2>1, <2>2 DEF TypeOK, LockAcquire, loopVars, TaskState
  <1>6. ASSUME NEW m \in Messages, GateAcquire(m) PROVE TypeOK'
    <2>1. gateWaiters' \in Seq(Messages)
      BY <1>6 DEF TypeOK, GateAcquire, FirstInLine
    <2>2. CASE Kind[m] = "chat"
      BY <1>6, <2>1, <2>2 DEF TypeOK, GateAcquire, loopVars, TaskState
    <2>3. CASE Kind[m] = "new"
      <3>1. CancelActive(m, CancelKey(m))
        BY <1>6, <2>3 DEF GateAcquire
      <3>2. task' \in [Messages -> TaskState]
        BY ZenonT(60), <1>6, <2>3 DEF TypeOK, GateAcquire, TaskState
      <3> QED
        BY <1>6, <2>1, <3>1, <3>2, CancelActiveType DEF TypeOK, GateAcquire, loopVars
    <2> QED
      BY <1>6, <2>2, <2>3 DEF GateAcquire
  <1>7. ASSUME NEW m \in Messages, Inject(m) PROVE TypeOK'
    <2> DEFINE n == IF Len(queue[m]) < InjectLimit THEN Len(queue[m]) ELSE InjectLimit
    <2>1. n \in Nat /\ queue[m] \in Seq(Messages)
      BY DEF TypeOK
    <2>2. SubSeq(queue[m], n + 1, Len(queue[m])) \in Seq(Messages)
      BY <2>1, SubSeqType
    <2>3. queue' = [queue EXCEPT ![m] = SubSeq(@, n + 1, Len(@))]
      BY <1>7 DEF Inject
    <2>4. queue' \in [Messages -> Seq(Messages)]
      BY <2>2, <2>3 DEF TypeOK
    <2>5. outcome' \in [Messages -> Outcomes]
      BY <1>7 DEF TypeOK, Inject, Outcomes
    <2> QED
      BY <1>7, <2>4, <2>5 DEF TypeOK, Inject, loopVars
  <1>8. ASSUME NEW m \in Messages, Unregister(EffectiveKey(m))
        PROVE  /\ pendingQueues' \in [Keys -> Messages \cup {None}]
               /\ inbound' \in Seq(Messages)
               /\ queue' \in [Messages -> Seq(Messages)]
    BY <1>8 DEF TypeOK, Unregister
  <1>9. ASSUME NEW m \in Messages, TurnDone(m) PROVE TypeOK'
    BY <1>8, <1>9 DEF TypeOK, TurnDone, ReleaseLock, Finish, loopVars, TaskState, Outcomes
  <1>10. ASSUME NEW m \in Messages, CancelUnstarted(m) PROVE TypeOK'
    BY <1>10 DEF TypeOK, CancelUnstarted, Finish, loopVars, TaskState, Outcomes
  <1>11. ASSUME NEW m \in Messages, CancelStarted(m) PROVE TypeOK'
    BY <1>8, <1>11, WithoutWaiterType
       DEF TypeOK, CancelStarted, ReleaseLock, Finish, loopVars, TaskState, Outcomes
  <1>12. CASE UNCHANGED vars
    BY <1>12 DEF TypeOK, vars, taskVars, loopVars
  <1> QED
    BY <1>1, <1>2, <1>3, <1>4, <1>5, <1>6, <1>7, <1>9, <1>10, <1>11, <1>12
       DEF Next, TaskStep, CancelledError, Quiescent

LEMMA TypeInitial == Init => TypeOK
  BY ConstantsAssumption DEF Init, TypeOK, TaskState, Outcomes

\* Type correctness.
THEOREM TypeCorrect == Spec => []TypeOK
  BY TypeInitial, TypeInductive, PTL DEF Spec

(***************************************************************************)
(* One turn per session.  The invariant is inductive only when it speaks   *)
(* of the owner of the lock, which also covers a task that holds the lock  *)
(* while it waits for the gate.                                            *)
(***************************************************************************)
HoldsLock(m) == task[m] \in {"gate", "running", "waitingPeers"}
LockInv == \A m \in Messages : HoldsLock(m) => lockOwner[EffectiveKey(m)] = m

LEMMA LockInductive == TypeOK /\ LockInv /\ [Next]_vars => LockInv'
  <1> SUFFICES ASSUME TypeOK, LockInv, [Next]_vars PROVE LockInv'
    OBVIOUS
  <1> USE ConstantsAssumption, EffectiveKeyType
  <1>1. CASE UNCHANGED <<task, lockOwner>>
    BY <1>1 DEF LockInv, HoldsLock, EffectiveKey
  <1>2. ASSUME NEW m \in Messages, Consume(m) PROVE LockInv'
    <2>1. CASE CreateTask(m)
      BY <2>1 DEF CreateTask, LockInv, HoldsLock, TypeOK, EffectiveKey
    <2>2. CASE RouteToPending(m) \/ HandleInline(m)
      BY <2>2, <1>1 DEF RouteToPending, HandleInline
    <2> QED
      BY <1>2, <2>1, <2>2 DEF Consume
  <1>3. ASSUME NEW m \in Messages, DispatchStart(m) PROVE LockInv'
    BY <1>3 DEF DispatchStart, LockInv, HoldsLock, TypeOK, EffectiveKey
  <1>4. ASSUME NEW m \in Messages, LockAcquire(m) PROVE LockInv'
    BY <1>4 DEF LockAcquire, LockInv, HoldsLock, TypeOK, EffectiveKey
  <1>5. ASSUME NEW m \in Messages, GateAcquire(m) PROVE LockInv'
    BY <1>5 DEF GateAcquire, LockInv, HoldsLock, TypeOK, EffectiveKey
  <1>6. ASSUME NEW m \in Messages, TurnDone(m) PROVE LockInv'
    BY <1>6 DEF TurnDone, Finish, ReleaseLock, LockInv, HoldsLock, TypeOK, EffectiveKey
  <1>7. ASSUME NEW m \in Messages, CancelUnstarted(m) PROVE LockInv'
    BY <1>7 DEF CancelUnstarted, Finish, LockInv, HoldsLock, TypeOK, EffectiveKey
  <1>8. ASSUME NEW m \in Messages, CancelStarted(m) PROVE LockInv'
    BY <1>8 DEF CancelStarted, Finish, ReleaseLock, LockInv, HoldsLock, TypeOK, EffectiveKey
  <1>9. CASE \/ CommandDone \/ UNCHANGED vars
             \/ \E m \in Messages : Publish(m) \/ Inject(m)
    BY <1>1, <1>9 DEF CommandDone, Publish, Inject, vars, taskVars
  <1> QED
    BY <1>2, <1>3, <1>4, <1>5, <1>6, <1>7, <1>8, <1>9 DEF Next, TaskStep, CancelledError, Quiescent

LEMMA LockCorrect == Spec => []LockInv
<1>1. Init => LockInv
  BY DEF Init, LockInv, HoldsLock
<1> QED
  BY <1>1, TypeCorrect, LockInductive, PTL DEF Spec

\* At most one turn of a session is under way.
THEOREM OneTurn == Spec => []OneTurnPerSession
<1>1. LockInv => OneTurnPerSession
  BY DEF LockInv, HoldsLock, OneTurnPerSession, Running
<1> QED
  BY <1>1, LockCorrect, PTL

(***************************************************************************)
(* A message is in one place.  Queues lose their first message, get one at *)
(* the end, or are put behind another queue.                               *)
(***************************************************************************)
Distinct(s) == \A i, j \in DOMAIN s : s[i] = s[j] => i = j

LEMMA QueueAppend ==
  ASSUME NEW s \in Seq(Messages), NEW m \in Messages, Distinct(s), m \notin Range(s)
  PROVE  Distinct(Append(s, m)) /\ Range(Append(s, m)) = Range(s) \cup {m}
<1>1. /\ DOMAIN s = 1..Len(s) /\ Len(s) \in Nat /\ DOMAIN Append(s, m) = 1..(Len(s) + 1)
      /\ Append(s, m)[Len(s) + 1] = m
      /\ \A i \in 1..Len(s) : Append(s, m)[i] = s[i]
  BY AppendProperties
<1>2. Distinct(Append(s, m))
  BY <1>1 DEF Distinct, Range
<1>3. Range(Append(s, m)) \subseteq Range(s) \cup {m}
  BY <1>1 DEF Range
<1>4. Range(s) \subseteq Range(Append(s, m)) /\ m \in Range(Append(s, m))
  BY <1>1 DEF Range
<1> QED
  BY <1>2, <1>3, <1>4

\* The messages from the n-th on.
LEMMA QueueSuffix ==
  ASSUME NEW s \in Seq(Messages), NEW n \in Nat \ {0}, Distinct(s)
  PROVE  /\ Distinct(SubSeq(s, n, Len(s)))
         /\ Range(SubSeq(s, n, Len(s))) \subseteq Range(s)
         /\ \A i \in DOMAIN s : i < n => s[i] \notin Range(SubSeq(s, n, Len(s)))
<1> DEFINE t == SubSeq(s, n, Len(s))
<1>1. /\ Len(s) \in Nat /\ DOMAIN s = 1..Len(s)
      /\ DOMAIN t = 1..(IF n <= Len(s) THEN Len(s) - n + 1 ELSE 0)
      /\ \A i \in DOMAIN t : t[i] = s[n + i - 1] /\ n + i - 1 \in DOMAIN s
  BY SubSeqProperties
<1> HIDE DEF t
<1>2. Distinct(t)
  BY <1>1 DEF Distinct
<1>3. Range(t) \subseteq Range(s)
  BY <1>1 DEF Range
<1>4. ASSUME NEW i \in DOMAIN s, i < n PROVE s[i] \notin Range(t)
  <2>1. \A j \in DOMAIN t : n + j - 1 # i
    BY <1>1, <1>4
  <2> QED
    BY <1>1, <2>1 DEF Range, Distinct
<1> QED
  BY <1>2, <1>3, <1>4 DEF t

LEMMA QueueTail ==
  ASSUME NEW s \in Seq(Messages), s # <<>>, Distinct(s)
  PROVE  /\ Distinct(Tail(s)) /\ Range(s) = Range(Tail(s)) \cup {Head(s)}
         /\ Head(s) \notin Range(Tail(s))
<1>1. /\ Len(s) \in Nat \ {0} /\ DOMAIN s = 1..Len(s) /\ Head(s) = s[1]
      /\ DOMAIN Tail(s) = 1..(Len(s) - 1)
      /\ \A i \in 1..(Len(s) - 1) : Tail(s)[i] = s[i + 1]
  BY HeadTailProperties
<1>2. Distinct(Tail(s)) /\ Head(s) \notin Range(Tail(s))
  BY <1>1 DEF Distinct, Range
<1>3. ASSUME NEW i \in DOMAIN s PROVE s[i] \in Range(Tail(s)) \cup {Head(s)}
  <2>1. CASE i = 1
    BY <1>1, <2>1
  <2>2. CASE i # 1
    <3>1. i - 1 \in 1..(Len(s) - 1) /\ Tail(s)[i - 1] = s[i]
      BY <1>1, <1>3, <2>2
    <3> QED
      BY <1>1, <3>1 DEF Range
  <2> QED
    BY <2>1, <2>2
<1>4. Range(Tail(s)) \cup {Head(s)} \subseteq Range(s)
  BY <1>1 DEF Range
<1> QED
  BY <1>2, <1>3, <1>4 DEF Range

LEMMA QueueConcat ==
  ASSUME NEW s \in Seq(Messages), NEW t \in Seq(Messages),
         Distinct(s), Distinct(t), Range(s) \cap Range(t) = {}
  PROVE  Distinct(s \o t) /\ Range(s \o t) = Range(s) \cup Range(t)
<1>1. /\ Len(s) \in Nat /\ Len(t) \in Nat /\ DOMAIN s = 1..Len(s) /\ DOMAIN t = 1..Len(t)
      /\ DOMAIN (s \o t) = 1..(Len(s) + Len(t))
      /\ \A i \in 1..(Len(s) + Len(t)) :
           (s \o t)[i] = IF i <= Len(s) THEN s[i] ELSE t[i - Len(s)]
  BY ConcatProperties
<1>2. ASSUME NEW i \in DOMAIN (s \o t)
      PROVE  \/ i \in DOMAIN s /\ (s \o t)[i] = s[i]
             \/ i - Len(s) \in DOMAIN t /\ (s \o t)[i] = t[i - Len(s)]
  BY <1>1
<1>3. ASSUME NEW i \in DOMAIN (s \o t), NEW j \in DOMAIN (s \o t), (s \o t)[i] = (s \o t)[j]
      PROVE  i = j
  <2>1. \A a \in DOMAIN s, b \in DOMAIN t : s[a] # t[b]
    BY DEF Range
  <2> QED
    BY <1>1, <1>2, <1>3, <2>1 DEF Distinct
<1>4. Range(s \o t) \subseteq Range(s) \cup Range(t)
  BY <1>2 DEF Range
<1>5. Range(s) \subseteq Range(s \o t)
  BY <1>1 DEF Range
<1>6. ASSUME NEW i \in DOMAIN t PROVE t[i] \in Range(s \o t)
  <2>1. i + Len(s) \in DOMAIN (s \o t) /\ (s \o t)[i + Len(s)] = t[i]
    BY <1>1, <1>6
  <2> QED
    BY <2>1 DEF Range
<1>7. Range(t) \subseteq Range(s \o t)
  BY <1>6 DEF Range
<1> QED
  BY <1>3, <1>4, <1>5, <1>7 DEF Distinct

\* No message is twice in the queues, and one that is in a queue is neither the
\* subject of a live task nor in the hands of run().
Waiting(m) == m \in Range(inbound) \/ \E t \in Messages : m \in Range(queue[t])
QueuesInv ==
  /\ Distinct(inbound)
  /\ \A t \in Messages : Distinct(queue[t]) /\ Range(queue[t]) \cap Range(inbound) = {}
  /\ \A t, u \in Messages : t # u => Range(queue[t]) \cap Range(queue[u]) = {}
OwnersInv ==
  /\ \A m \in Messages : Waiting(m) => ~Live(m) /\ command # m
  /\ \A m \in Messages : Live(m) => command # m
  /\ \A m \in Messages : outcome[m] = "unsent" => ~Waiting(m) /\ ~Live(m) /\ command # m
HeldInv == QueuesInv /\ OwnersInv

\* What Unregister does to the queues: nothing is lost, nothing is doubled.
LEMMA UnregisterKeepsQueues ==
  ASSUME TypeOK, QueuesInv, NEW k \in Keys, Unregister(k)
  PROVE  QueuesInv' /\ \A m \in Messages : Waiting(m)' <=> Waiting(m)
<1>1. CASE pendingQueues[k] = None
  BY <1>1 DEF Unregister, QueuesInv, Waiting
<1>2. CASE pendingQueues[k] # None
  <2>1. PICK o \in Messages : o = pendingQueues[k]
    BY <1>2 DEF TypeOK
  <2>2. inbound' = inbound \o queue[o] /\ queue' = [queue EXCEPT ![o] = <<>>]
    BY <1>2, <2>1 DEF Unregister
  <2>3. inbound \in Seq(Messages) /\ queue[o] \in Seq(Messages)
    BY DEF TypeOK
  <2>4. Distinct(inbound') /\ Range(inbound') = Range(inbound) \cup Range(queue[o])
    BY <2>2, <2>3, QueueConcat DEF QueuesInv
  <2>5. queue'[o] = <<>> /\ \A t \in Messages \ {o} : queue'[t] = queue[t]
    BY <2>2 DEF TypeOK
  <2>6. Distinct(<<>>) /\ Range(<<>>) = {}
    BY DEF Distinct, Range
  <2>7. QueuesInv'
    <3>1. \A t \in Messages : Distinct(queue'[t]) /\ Range(queue'[t]) \cap Range(inbound') = {}
      BY <2>4, <2>5, <2>6 DEF QueuesInv
    <3>2. \A t, u \in Messages : t # u => Range(queue'[t]) \cap Range(queue'[u]) = {}
      BY <2>5, <2>6 DEF QueuesInv
    <3> QED
      BY <2>4, <3>1, <3>2 DEF QueuesInv
  <2>8. ASSUME NEW m \in Messages PROVE Waiting(m)' <=> Waiting(m)
    BY <2>4, <2>5, <2>6 DEF Waiting
  <2> QED
    BY <2>7, <2>8
<1> QED
  BY <1>1, <1>2

\* A task that ends: only that task stops being live.
LEMMA FinishOwners ==
  ASSUME TypeOK, OwnersInv, NEW m \in Messages, NEW result \in Outcomes \ {"unsent"},
         Finish(m, result), \A x \in Messages : Waiting(x)' <=> Waiting(x)
  PROVE  OwnersInv'
<1>1. /\ \A x \in Messages : Live(x)' => Live(x)
      /\ \A x \in Messages : outcome'[x] = "unsent" => outcome[x] = "unsent"
      /\ command' = command
  BY DEF Finish, Live, TypeOK, TaskState, loopVars, Outcomes
<1> QED
  BY <1>1 DEF OwnersInv

LEMMA HeldInductive == TypeOK /\ HeldInv /\ [Next]_vars => HeldInv'
<1> SUFFICES ASSUME TypeOK, QueuesInv, OwnersInv, [Next]_vars PROVE QueuesInv' /\ OwnersInv'
  BY DEF HeldInv
<1> USE ConstantsAssumption, EffectiveKeyType
<1>1. ASSUME UNCHANGED <<inbound, queue>> PROVE QueuesInv' /\ \A x \in Messages : Waiting(x)' <=> Waiting(x)
  BY <1>1 DEF QueuesInv, Waiting
<1>2. ASSUME NEW m \in Messages, Publish(m) PROVE QueuesInv' /\ OwnersInv'
  <2>1. inbound' = Append(inbound, m) /\ queue' = queue /\ task' = task /\ command' = command
    BY <1>2 DEF Publish, taskVars, loopVars
  <2>2. ~Waiting(m) /\ ~Live(m) /\ command # m
    BY <1>2 DEF Publish, OwnersInv
  <2>3. Distinct(inbound') /\ Range(inbound') = Range(inbound) \cup {m}
    BY <2>1, <2>2, QueueAppend DEF QueuesInv, TypeOK, Waiting
  <2>4. QueuesInv'
    BY ZenonT(40), <2>1, <2>2, <2>3 DEF QueuesInv, Waiting
  <2>5. \A x \in Messages : Waiting(x)' <=> Waiting(x) \/ x = m
    BY <2>1, <2>3 DEF Waiting
  <2>6. \A x \in Messages : outcome'[x] = "unsent" => outcome[x] = "unsent" /\ x # m
    BY <1>2 DEF Publish, TypeOK
  <2>7. \A x \in Messages : Live(x)' <=> Live(x)
    BY <2>1 DEF Live
  <2> QED
    BY <2>1, <2>2, <2>4, <2>5, <2>6, <2>7 DEF OwnersInv
<1>3. ASSUME NEW m \in Messages, Consume(m) PROVE QueuesInv' /\ OwnersInv'
  <2>1. /\ inbound # <<>> /\ m = Head(inbound) /\ inbound' = Tail(inbound)
        /\ inbound \in Seq(Messages) /\ outcome' = outcome
    BY <1>3 DEF Consume, MayConsume, RouteToPending, CreateTask, HandleInline, TypeOK
  <2>2. /\ Distinct(inbound') /\ Range(inbound) = Range(inbound') \cup {m}
        /\ m \notin Range(inbound')
    BY <2>1, QueueTail DEF QueuesInv
  <2>3. /\ m \in Range(inbound) /\ ~Live(m) /\ command # m /\ outcome[m] # "unsent"
        /\ \A t \in Messages : m \notin Range(queue[t])
    BY <2>2 DEF QueuesInv, OwnersInv, Waiting
  <2>4. CASE RouteToPending(m)
    <3>1. PICK o \in Messages : o = pendingQueues[EffectiveKey(m)]
      BY <2>4 DEF RouteToPending, TypeOK
    <3>2. queue' = [queue EXCEPT ![o] = Append(@, m)] /\ UNCHANGED <<task, command>>
      BY <2>4, <3>1 DEF RouteToPending
    <3>3. queue'[o] = Append(queue[o], m) /\ \A t \in Messages \ {o} : queue'[t] = queue[t]
      BY <3>2 DEF TypeOK
    <3>4. Distinct(queue'[o]) /\ Range(queue'[o]) = Range(queue[o]) \cup {m}
      BY <2>3, <3>3, QueueAppend DEF QueuesInv, TypeOK
    <3>5. ASSUME NEW t \in Messages
          PROVE  Distinct(queue'[t]) /\ Range(queue'[t]) \cap Range(inbound') = {}
      <4>1. Range(queue[t]) \cap Range(inbound) = {} /\ Distinct(queue[t])
        BY DEF QueuesInv
      <4>2. CASE t = o
        BY <2>2, <3>4, <4>1, <4>2
      <4>3. CASE t # o
        BY <2>2, <3>3, <4>1, <4>3
      <4> QED
        BY <4>2, <4>3
    <3>6. ASSUME NEW t \in Messages, NEW u \in Messages, t # u
          PROVE  Range(queue'[t]) \cap Range(queue'[u]) = {}
      <4>1. Range(queue[t]) \cap Range(queue[u]) = {} /\ m \notin Range(queue[t])
            /\ m \notin Range(queue[u])
        BY <2>3, <3>6 DEF QueuesInv
      <4>2. CASE t = o
        <5>1. queue'[u] = queue[u]
          BY <3>3, <3>6, <4>2
        <5> QED
          BY <3>4, <4>1, <4>2, <5>1
      <4>3. CASE u = o
        <5>1. queue'[t] = queue[t]
          BY <3>3, <3>6, <4>3
        <5> QED
          BY <3>4, <4>1, <4>3, <5>1
      <4>4. CASE t # o /\ u # o
        BY <3>3, <4>1, <4>4
      <4> QED
        BY <4>2, <4>3, <4>4
    <3>7. \A x \in Messages : Waiting(x)' <=> Waiting(x)
      BY <2>2, <3>3, <3>4 DEF Waiting
    <3>8. \A x \in Messages : Live(x)' <=> Live(x)
      BY <3>2 DEF Live
    <3> QED
      BY <2>1, <2>2, <3>2, <3>5, <3>6, <3>7, <3>8 DEF QueuesInv, OwnersInv
  <2>5. ASSUME queue' = queue
        PROVE  QueuesInv' /\ \A x \in Messages : Waiting(x)' <=> Waiting(x) /\ x # m
    BY <2>2, <2>3, <2>5 DEF QueuesInv, Waiting
  <2>6. CASE CreateTask(m)
    <3>1. UNCHANGED <<queue, command>> /\ task' = [task EXCEPT ![m] = "created"]
      BY <2>6 DEF CreateTask
    <3>2. \A x \in Messages : Live(x)' <=> Live(x) \/ x = m
      BY <3>1 DEF Live, TypeOK, TaskState
    <3> QED
      BY <2>1, <2>3, <2>5, <3>1, <3>2 DEF OwnersInv
  <2>7. CASE HandleInline(m)
    <3>1. UNCHANGED <<queue, task>> /\ command' = m
      BY <2>7 DEF HandleInline
    <3>2. \A x \in Messages : Live(x)' <=> Live(x)
      BY <3>1 DEF Live
    <3> QED
      BY <2>1, <2>3, <2>5, <3>1, <3>2 DEF OwnersInv
  <2> QED
    BY <1>3, <2>4, <2>6, <2>7 DEF Consume
<1>4. CASE CommandDone
  <2>1. UNCHANGED <<inbound, queue, task>> /\ command' = None
    BY <1>4 DEF CommandDone, taskVars
  <2>2. \A x \in Messages : outcome'[x] = "unsent" => outcome[x] = "unsent"
    BY <1>4 DEF CommandDone, TypeOK
  <2>3. \A x \in Messages : Live(x)' <=> Live(x)
    BY <2>1 DEF Live
  <2> QED
    BY <1>1, <2>1, <2>2, <2>3 DEF OwnersInv
<1>5. ASSUME NEW m \in Messages, DispatchStart(m) \/ LockAcquire(m) \/ GateAcquire(m)
      PROVE  QueuesInv' /\ OwnersInv'
  <2>1. UNCHANGED <<inbound, queue, command, outcome>>
    BY <1>5 DEF DispatchStart, LockAcquire, GateAcquire, loopVars
  <2>2. \A x \in Messages : Live(x)' <=> Live(x)
    <3>1. task[m] \in {"created", "lock", "gate"}
      BY <1>5 DEF DispatchStart, LockAcquire, GateAcquire
    <3>2. PICK s \in {"lock", "gate", "running", "waitingPeers"} : task' = [task EXCEPT ![m] = s]
      BY <1>5 DEF DispatchStart, LockAcquire, GateAcquire
    <3> QED
      BY <3>1, <3>2 DEF Live, TypeOK, TaskState
  <2> QED
    BY <1>1, <2>1, <2>2 DEF OwnersInv
<1>6. ASSUME NEW m \in Messages, Inject(m) PROVE QueuesInv' /\ OwnersInv'
  <2> DEFINE n == IF Len(queue[m]) < InjectLimit THEN Len(queue[m]) ELSE InjectLimit
             rest == SubSeq(queue[m], n + 1, Len(queue[m]))
  <2>1. queue[m] \in Seq(Messages) /\ n \in Nat
    BY DEF TypeOK
  <2>2. Distinct(rest) /\ Range(rest) \subseteq Range(queue[m])
    BY <2>1, QueueSuffix DEF QueuesInv
  <2>3. queue' = [queue EXCEPT ![m] = rest] /\ UNCHANGED <<inbound, task, command>>
    BY <1>6 DEF Inject, loopVars
  <2>4. PICK r : r = rest
    OBVIOUS
  <2>5. queue'[m] = r /\ \A t \in Messages \ {m} : queue'[t] = queue[t]
    BY <2>3, <2>4 DEF TypeOK
  <2>6. \A t \in Messages : Distinct(queue'[t]) /\ Range(queue'[t]) \subseteq Range(queue[t])
    BY <2>2, <2>4, <2>5 DEF QueuesInv
  <2>7. QueuesInv' /\ \A x \in Messages : Waiting(x)' => Waiting(x)
    BY <2>3, <2>6 DEF QueuesInv, Waiting
  <2>8. \A x \in Messages : outcome'[x] = "unsent" => outcome[x] = "unsent"
    BY <1>6 DEF Inject
  <2>9. \A x \in Messages : Live(x)' <=> Live(x)
    BY <2>3 DEF Live
  <2> QED
    BY <2>3, <2>7, <2>8, <2>9 DEF OwnersInv
<1>7. ASSUME NEW m \in Messages, TurnDone(m) PROVE QueuesInv' /\ OwnersInv'
  BY <1>7, UnregisterKeepsQueues, FinishOwners DEF TurnDone, Outcomes
<1>8. ASSUME NEW m \in Messages, CancelUnstarted(m) PROVE QueuesInv' /\ OwnersInv'
  BY <1>1, <1>8, FinishOwners DEF CancelUnstarted, Outcomes
<1>9. ASSUME NEW m \in Messages, CancelStarted(m) PROVE QueuesInv' /\ OwnersInv'
  BY <1>9, UnregisterKeepsQueues, FinishOwners DEF CancelStarted, Outcomes
<1>10. CASE UNCHANGED vars
  BY <1>10 DEF vars, taskVars, loopVars, QueuesInv, OwnersInv, Waiting, Live
<1> QED
  BY <1>2, <1>3, <1>4, <1>5, <1>6, <1>7, <1>8, <1>9, <1>10
     DEF Next, TaskStep, CancelledError, Quiescent

LEMMA HeldInitial == Init => HeldInv
  BY ConstantsAssumption
     DEF Init, HeldInv, QueuesInv, OwnersInv, Waiting, Live, Distinct, Range, TaskState

LEMMA HeldCorrect == Spec => []HeldInv
  BY HeldInitial, TypeCorrect, HeldInductive, PTL DEF Spec

\* A set whose elements are all the same has at most one.
LEMMA AtMostOne ==
  ASSUME NEW S, \A x, y \in S : x = y
  PROVE  Cardinality(S) \in {0, 1} /\ (S = {} => Cardinality(S) = 0)
<1>1. CASE S = {}
  BY <1>1, FS_EmptySet
<1>2. CASE S # {}
  <2>1. PICK x \in S : S = {x}
    BY <1>2
  <2> QED
    BY <2>1, FS_Singleton
<1> QED
  BY <1>1, <1>2

\* A message waits in one place only: routing, injection, overflow and the
\* re-publication of leftovers never process a message twice.
THEOREM MessagesHeldOnce == Spec => []HeldOnce
<1>1. TypeOK /\ HeldInv => HeldOnce
  <2> SUFFICES ASSUME TypeOK, HeldInv, NEW m \in Messages
               PROVE  Cardinality(Occurrences(inbound, m))
                        + Cardinality({q \in Messages \X (1..Cardinality(Messages)) :
                                         q[2] \in Occurrences(queue[q[1]], m)})
                        + (IF Live(m) THEN 1 ELSE 0) + (IF command = m THEN 1 ELSE 0) <= 1
    BY DEF HeldOnce
  <2> DEFINE A == Occurrences(inbound, m)
             B == {q \in Messages \X (1..Cardinality(Messages)) :
                     q[2] \in Occurrences(queue[q[1]], m)}
  <2>1. A # {} => m \in Range(inbound)
    BY DEF Occurrences, Range
  <2>2. B # {} => \E t \in Messages : m \in Range(queue[t])
    BY DEF Occurrences, Range
  <2>3. \A x, y \in A : x = y
    BY DEF Occurrences, HeldInv, QueuesInv, Distinct
  <2>4. \A x, y \in B : x = y
    <3> SUFFICES ASSUME NEW x \in B, NEW y \in B PROVE x = y
      OBVIOUS
    <3>1. PICK t \in Messages, i \in 1..Cardinality(Messages) :
                x = <<t, i>> /\ i \in Occurrences(queue[t], m)
      OBVIOUS
    <3>2. PICK u \in Messages, j \in 1..Cardinality(Messages) :
                y = <<u, j>> /\ j \in Occurrences(queue[u], m)
      OBVIOUS
    <3>3. m \in Range(queue[t]) /\ m \in Range(queue[u])
      BY <3>1, <3>2 DEF Occurrences, Range
    <3>4. t = u
      BY <3>3 DEF HeldInv, QueuesInv
    <3>5. i = j
      BY <3>1, <3>2, <3>4 DEF Occurrences, HeldInv, QueuesInv, Distinct
    <3> QED
      BY <3>1, <3>2, <3>4, <3>5
  <2>5. /\ Cardinality(A) \in {0, 1} /\ (A = {} => Cardinality(A) = 0)
        /\ Cardinality(B) \in {0, 1} /\ (B = {} => Cardinality(B) = 0)
    BY <2>3, <2>4, AtMostOne
  <2>6. /\ ~(A # {} /\ B # {})
        /\ (A # {} \/ B # {}) => ~Live(m) /\ command # m
        /\ Live(m) => command # m
    BY <2>1, <2>2 DEF HeldInv, QueuesInv, OwnersInv, Waiting
  <2> HIDE DEF A, B
  <2>7. Cardinality(A) + Cardinality(B) \in {0, 1}
    BY <2>5, <2>6
  <2>8. Cardinality(A) + Cardinality(B) = 1 => ~Live(m) /\ command # m
    BY <2>5, <2>6
  <2>9. Cardinality(A) + Cardinality(B) + (IF Live(m) THEN 1 ELSE 0)
          + (IF command = m THEN 1 ELSE 0) <= 1
    BY <2>6, <2>7, <2>8
  <2> QED
    BY <2>9 DEF A, B
<1> QED
  BY <1>1, TypeCorrect, HeldCorrect, PTL

(***************************************************************************)
(* /stop.  A live task is in the table of its session, unless somebody has *)
(* taken it out to wait for its end: a /new turn, or the command that      *)
(* run() is handling.                                                      *)
(***************************************************************************)
CommandInv ==
  /\ command # None <=> loop = "stopping"
  /\ command # None => activeTasks[CancelKey(command)] = {}
ActiveInv ==
  \A t \in Messages : Live(t) =>
    \/ t \in activeTasks[EffectiveKey(t)] \/ InsideNew(t)
    \/ command # None /\ t \in awaited[command]

LEMMA CommandInductive == TypeOK /\ CommandInv /\ [Next]_vars => CommandInv'
<1> SUFFICES ASSUME TypeOK, CommandInv, [Next]_vars PROVE CommandInv'
  OBVIOUS
<1> USE ConstantsAssumption, EffectiveKeyType, CancelKeyType
<1>1. ASSUME UNCHANGED loopVars, \A k \in Keys : activeTasks'[k] \subseteq activeTasks[k]
      PROVE  CommandInv'
  <2>1. CancelKey(command)' = CancelKey(command)
    BY <1>1 DEF CancelKey, EffectiveKey, loopVars
  <2> QED
    BY <1>1, <2>1 DEF CommandInv, loopVars, TypeOK
<1>2. ASSUME NEW m \in Messages, Consume(m) PROVE CommandInv'
  <2>1. command = None
    BY <1>2 DEF Consume, MayConsume, CommandInv
  <2>2. CASE RouteToPending(m) \/ CreateTask(m)
    BY <2>1, <2>2 DEF RouteToPending, CreateTask, CommandInv, LoopAfter
  <2>3. CASE HandleInline(m)
    <3>1. /\ command' = m /\ loop' = "stopping" /\ CancelKey(m) \in Keys
          /\ activeTasks' = [activeTasks EXCEPT ![CancelKey(m)] = {}]
      BY <2>3 DEF HandleInline, CancelActive
    <3>2. CancelKey(command)' = CancelKey(m)
      BY <3>1 DEF CancelKey, EffectiveKey
    <3> QED
      BY <3>1, <3>2 DEF CommandInv, TypeOK
  <2> QED
    BY <1>2, <2>2, <2>3 DEF Consume
<1>3. CASE CommandDone
  BY <1>3 DEF CommandDone, CommandInv, LoopAfter
<1>4. ASSUME NEW m \in Messages, GateAcquire(m) PROVE CommandInv'
  BY <1>1, <1>4 DEF GateAcquire, CancelActive, TypeOK
<1>5. ASSUME NEW m \in Messages, TurnDone(m) \/ CancelUnstarted(m) \/ CancelStarted(m)
      PROVE  CommandInv'
  <2>1. UNCHANGED loopVars /\ activeTasks' = [activeTasks EXCEPT ![EffectiveKey(m)] = @ \ {m}]
    BY <1>5 DEF TurnDone, CancelUnstarted, CancelStarted, Finish
  <2> QED
    BY <1>1, <2>1 DEF TypeOK
<1>6. CASE \/ UNCHANGED vars
           \/ \E m \in Messages : Publish(m) \/ DispatchStart(m) \/ LockAcquire(m) \/ Inject(m)
  BY <1>1, <1>6 DEF Publish, DispatchStart, LockAcquire, Inject, vars, taskVars
<1> QED
  BY <1>2, <1>3, <1>4, <1>5, <1>6 DEF Next, TaskStep, CancelledError, Quiescent

\* A step that leaves the tables and the waiting commands alone.
LEMMA ActiveUntouched ==
  ASSUME TypeOK, ActiveInv, UNCHANGED <<command, awaited>>,
         \A t \in Messages : Live(t)' => Live(t),
         \A k \in Keys, t \in Messages : t \in activeTasks[k] /\ Live(t)' => t \in activeTasks'[k],
         \A n \in Messages : task[n] = "waitingPeers" => task'[n] = "waitingPeers"
  PROVE  ActiveInv'
<1> SUFFICES ASSUME NEW t \in Messages, Live(t)'
             PROVE  \/ t \in activeTasks'[EffectiveKey(t)] \/ InsideNew(t)'
                    \/ command # None /\ t \in awaited[command]
  BY DEF ActiveInv, EffectiveKey
<1>1. InsideNew(t) => InsideNew(t)'
  BY DEF InsideNew
<1> QED
  BY <1>1, EffectiveKeyType DEF ActiveInv

LEMMA ActiveInductive ==
  TypeOK /\ HeldInv /\ CommandInv /\ ActiveInv /\ [Next]_vars => ActiveInv'
<1> SUFFICES ASSUME TypeOK, OwnersInv, CommandInv, ActiveInv, [Next]_vars PROVE ActiveInv'
  BY DEF HeldInv
<1> USE ConstantsAssumption, EffectiveKeyType, CancelKeyType
<1>1. ASSUME NEW m \in Messages, Consume(m) PROVE ActiveInv'
  <2>1. command = None /\ ~Live(m)
    <3>1. m \in Range(inbound)
      BY <1>1 DEF Consume, MayConsume, Range, TypeOK
    <3> QED
      BY <1>1, <3>1 DEF Consume, MayConsume, CommandInv, OwnersInv, Waiting
  <2>2. CASE RouteToPending(m)
    BY <2>2, ActiveUntouched, <1>1 DEF Consume, RouteToPending, Live
  <2>3. CASE CreateTask(m)
    <3>1. /\ UNCHANGED <<command, awaited>> /\ task' = [task EXCEPT ![m] = "created"]
          /\ activeTasks' = [activeTasks EXCEPT ![EffectiveKey(m)] = @ \cup {m}]
      BY <2>3, <1>1 DEF Consume, CreateTask
    <3>2. ASSUME NEW t \in Messages, Live(t)' PROVE t \in activeTasks'[EffectiveKey(t)] \/ InsideNew(t)'
      <4>1. CASE t = m
        BY <3>1, <4>1 DEF TypeOK
      <4>2. CASE t # m
        <5>1. Live(t)
          BY <3>1, <3>2, <4>2 DEF Live, TypeOK
        <5>2. InsideNew(t) => InsideNew(t)'
          BY <3>1, <2>1 DEF InsideNew, TypeOK, Live, TaskState
        <5> QED
          BY <3>1, <5>1, <5>2, <2>1 DEF ActiveInv, TypeOK
      <4> QED
        BY <4>1, <4>2
    <3> QED
      BY <3>2 DEF ActiveInv, EffectiveKey
  <2>4. CASE HandleInline(m)
    <3>1. /\ UNCHANGED task /\ command' = m
          /\ activeTasks' = [activeTasks EXCEPT ![CancelKey(m)] = {}]
          /\ awaited' = [awaited EXCEPT ![m] = activeTasks[CancelKey(m)] \ {m}]
      BY <2>4 DEF HandleInline, CancelActive
    <3>2. ASSUME NEW t \in Messages, Live(t)'
          PROVE  \/ t \in activeTasks'[EffectiveKey(t)] \/ InsideNew(t)' \/ t \in awaited'[m]
      <4>1. Live(t) /\ t # m
        BY <2>1, <3>1, <3>2 DEF Live
      <4>2. InsideNew(t) => InsideNew(t)'
        BY <2>1, <3>1 DEF InsideNew, TypeOK, Live, TaskState
      <4>3. CASE EffectiveKey(t) = CancelKey(m) /\ t \in activeTasks[EffectiveKey(t)]
        BY <3>1, <4>1, <4>3 DEF TypeOK
      <4>4. CASE EffectiveKey(t) # CancelKey(m) /\ t \in activeTasks[EffectiveKey(t)]
        BY <3>1, <4>4 DEF TypeOK
      <4> QED
        BY <2>1, <4>1, <4>2, <4>3, <4>4 DEF ActiveInv
    <3> QED
      BY <3>1, <3>2 DEF ActiveInv, EffectiveKey
  <2> QED
    BY <1>1, <2>2, <2>3, <2>4 DEF Consume
<1>2. CASE CommandDone
  <2>1. /\ UNCHANGED <<task, awaited, activeTasks>> /\ command' = None
        /\ command \in Messages /\ \A t \in awaited[command] : task[t] = "done"
    BY <1>2 DEF CommandDone, taskVars, CommandInv, TypeOK
  <2>2. \A t \in Messages : Live(t) => t \notin awaited[command]
    BY <2>1 DEF Live
  <2> QED
    BY <2>1, <2>2 DEF ActiveInv, InsideNew, Live, EffectiveKey
<1>3. ASSUME NEW m \in Messages, GateAcquire(m) PROVE ActiveInv'
  <2>1. CASE Kind[m] = "chat"
    <3>1. UNCHANGED <<command, awaited, activeTasks>> /\ task' = [task EXCEPT ![m] = "running"]
          /\ task[m] = "gate"
      BY <1>3, <2>1 DEF GateAcquire, loopVars
    <3> QED
      BY <3>1, ActiveUntouched DEF Live, TypeOK, TaskState
  <2>2. CASE Kind[m] = "new"
    <3>1. /\ UNCHANGED command /\ task[m] = "gate" /\ task' = [task EXCEPT ![m] = "waitingPeers"]
          /\ activeTasks' = [activeTasks EXCEPT ![CancelKey(m)] = {}]
          /\ awaited' = [awaited EXCEPT ![m] = activeTasks[CancelKey(m)] \ {m}]
      BY <1>3, <2>2 DEF GateAcquire, CancelActive, loopVars
    <3>2. task'[m] = "waitingPeers" /\ awaited'[m] = activeTasks[CancelKey(m)] \ {m}
      BY <3>1 DEF TypeOK, TaskState
    <3>3. ASSUME NEW t \in Messages, Live(t)'
          PROVE  \/ t \in activeTasks'[EffectiveKey(t)] \/ InsideNew(t)'
                 \/ command # None /\ t \in awaited'[command]
      <4>1. Live(t) /\ Live(m)
        BY <3>1, <3>3 DEF Live, TypeOK, TaskState
      <4>2. CASE t = m \/ t \in activeTasks[CancelKey(m)]
        BY <3>2, <4>2 DEF InsideNew
      <4>3. CASE InsideNew(t)
        <5>1. PICK n \in Messages : task[n] = "waitingPeers" /\ (t = n \/ t \in awaited[n])
          BY <4>3 DEF InsideNew
        <5>2. n # m /\ task'[n] = "waitingPeers" /\ awaited'[n] = awaited[n]
          BY <3>1, <5>1 DEF TypeOK
        <5> QED
          BY <5>1, <5>2 DEF InsideNew
      <4>4. CASE command # None /\ t \in awaited[command]
        <5>1. command # m /\ command \in Messages
          BY <4>1, <4>4 DEF OwnersInv, TypeOK
        <5>2. awaited'[command] = awaited[command]
          BY <3>1, <5>1 DEF TypeOK
        <5> QED
          BY <4>4, <5>2
      <4>5. CASE t \in activeTasks[EffectiveKey(t)] /\ EffectiveKey(t) # CancelKey(m)
        BY <3>1, <4>5 DEF TypeOK
      <4> QED
        BY <4>1, <4>2, <4>3, <4>4, <4>5 DEF ActiveInv
    <3> QED
      BY <3>1, <3>3 DEF ActiveInv, EffectiveKey
  <2> QED
    BY <1>3, <2>1, <2>2 DEF GateAcquire
<1>4. ASSUME NEW m \in Messages, TurnDone(m) \/ CancelUnstarted(m) \/ CancelStarted(m)
      PROVE  ActiveInv'
  <2>1. /\ task' = [task EXCEPT ![m] = "done"] /\ UNCHANGED <<command, awaited>>
        /\ activeTasks' = [activeTasks EXCEPT ![EffectiveKey(m)] = @ \ {m}]
    BY <1>4 DEF TurnDone, CancelUnstarted, CancelStarted, Finish, loopVars
  <2>2. task[m] = "waitingPeers" => \A t \in awaited[m] : task[t] = "done"
    BY <1>4 DEF TurnDone, CancelUnstarted, CancelStarted
  <2>3. ASSUME NEW t \in Messages, Live(t)'
        PROVE  \/ t \in activeTasks'[EffectiveKey(t)] \/ InsideNew(t)'
               \/ command # None /\ t \in awaited[command]
    <3>1. t # m /\ Live(t) /\ task[t] # "done"
      BY <2>1, <2>3 DEF Live, TypeOK
    <3>2. InsideNew(t) => InsideNew(t)'
      BY <2>1, <2>2, <3>1 DEF InsideNew, TypeOK
    <3> QED
      BY <2>1, <3>1, <3>2 DEF ActiveInv, TypeOK
  <2> QED
    BY <2>1, <2>3 DEF ActiveInv, EffectiveKey
<1>5. ASSUME NEW m \in Messages, DispatchStart(m) \/ LockAcquire(m) PROVE ActiveInv'
  <2>1. PICK s \in {"lock", "gate"} :
          /\ task' = [task EXCEPT ![m] = s] /\ task[m] \in {"created", "lock"}
          /\ UNCHANGED <<command, awaited, activeTasks>>
    BY <1>5 DEF DispatchStart, LockAcquire, loopVars
  <2> QED
    BY <2>1, ActiveUntouched DEF Live, TypeOK, TaskState
<1>6. CASE UNCHANGED vars \/ \E m \in Messages : Publish(m) \/ Inject(m)
  BY <1>6, ActiveUntouched DEF Publish, Inject, vars, taskVars, loopVars, Live
<1> QED
  BY <1>1, <1>2, <1>3, <1>4, <1>5, <1>6 DEF Next, TaskStep, CancelledError, Quiescent

LEMMA ActiveCorrect == Spec => [](CommandInv /\ ActiveInv)
<1>1. Init => CommandInv /\ ActiveInv
  BY ConstantsAssumption DEF Init, CommandInv, ActiveInv, Live, TaskState
<1> QED
  BY <1>1, TypeCorrect, HeldCorrect, CommandInductive, ActiveInductive, PTL DEF Spec

\* When /stop is answered, no task of the sender's session is left, except a
\* /new under way and what that one waits for.  The session is the one /stop
\* looks up only when sessions are not unified.
THEOREM StopCompletes == ASSUME ~UnifiedSession PROVE Spec => StopIsComplete
<1>1. ASSUME TypeOK, CommandInv, ActiveInv, [Next]_vars, StopAnswered,
             NEW t \in Messages, Live(t), EffectiveKey(t) = EffectiveKey(command)
      PROVE  InsideNew(t)
  <2>1. command # None /\ activeTasks[CancelKey(command)] = {}
    BY <1>1 DEF StopAnswered, CommandInv
  <2>2. CommandDone
    <3>1. CASE CommandDone
      BY <3>1
    <3>2. CASE UNCHANGED vars
      BY <1>1, <3>2 DEF StopAnswered, vars, loopVars
    <3>3. ASSUME NEW m \in Messages, Consume(m) PROVE FALSE
      BY <1>1, <3>3 DEF StopAnswered, Consume, MayConsume
    <3>4. ASSUME NEW m \in Messages, Publish(m) \/ TaskStep(m) PROVE loop' = loop
      <4>1. CASE Publish(m) \/ DispatchStart(m) \/ LockAcquire(m) \/ GateAcquire(m) \/ Inject(m)
        BY <4>1 DEF Publish, DispatchStart, LockAcquire, GateAcquire, Inject, loopVars
      <4>2. CASE TurnDone(m) \/ CancelledError(m)
        BY <4>2 DEF TurnDone, CancelledError, CancelUnstarted, CancelStarted, Finish, loopVars
      <4> QED
        BY <3>4, <4>1, <4>2 DEF TaskStep
    <3> QED
      BY <1>1, <3>1, <3>2, <3>3, <3>4 DEF Next, StopAnswered, Quiescent
  <2>3. t \notin awaited[command]
    BY <1>1, <2>2 DEF CommandDone, Live
  <2>4. CancelKey(command) = EffectiveKey(command)
    BY <1>1 DEF StopAnswered, CancelKey, EffectiveKey
  <2> QED
    BY <1>1, <2>1, <2>3, <2>4 DEF ActiveInv
<1>2. TypeOK /\ CommandInv /\ ActiveInv /\ [Next]_vars =>
        [StopAnswered =>
           \A t \in Messages :
             Live(t) /\ EffectiveKey(t) = EffectiveKey(command) => InsideNew(t)]_vars
  BY <1>1
<1> QED
  BY <1>2, TypeCorrect, ActiveCorrect, PTL DEF Spec, StopIsComplete

(***************************************************************************)
(* Messages are kept.  Whatever the capacity, a pending message is with    *)
(* run(), in a task, or in a queue.  That its queue belongs to a live turn *)
(* is true while no pending queue overflows and run() yields before it     *)
(* drains: then a session has one task at a time, and the registered queue *)
(* is that task's.                                                         *)
(***************************************************************************)
KeptInv == \A m \in Messages : outcome[m] = "pending" => command = m \/ Live(m) \/ Waiting(m)

LEMMA KeptInductive == TypeOK /\ HeldInv /\ CommandInv /\ KeptInv /\ [Next]_vars => KeptInv'
<1> SUFFICES ASSUME TypeOK, QueuesInv, CommandInv, KeptInv, [Next]_vars PROVE KeptInv'
  BY DEF HeldInv
<1> USE ConstantsAssumption, EffectiveKeyType
<1>1. ASSUME NEW m \in Messages, Publish(m) PROVE KeptInv'
  <2>1. /\ inbound' = Append(inbound, m) /\ UNCHANGED <<queue, task, command>>
        /\ outcome' = [outcome EXCEPT ![m] = "pending"] /\ inbound \in Seq(Messages)
    BY <1>1 DEF Publish, taskVars, loopVars, TypeOK
  <2>2. m \in Range(inbound') /\ Range(inbound) \subseteq Range(inbound')
    BY SMTT(30), <2>1, AppendProperties DEF Range
  <2> QED
    BY <2>1, <2>2 DEF KeptInv, Waiting, Live, TypeOK
<1>2. ASSUME NEW m \in Messages, Consume(m) PROVE KeptInv'
  <2>1. /\ inbound # <<>> /\ m = Head(inbound) /\ inbound' = Tail(inbound)
        /\ inbound \in Seq(Messages) /\ outcome' = outcome /\ command = None
    BY <1>2 DEF Consume, MayConsume, RouteToPending, CreateTask, HandleInline, TypeOK, CommandInv
  <2>2. Range(inbound) = Range(inbound') \cup {m}
    BY <2>1, QueueTail DEF QueuesInv
  <2>3. CASE RouteToPending(m)
    <3>1. PICK o \in Messages : o = pendingQueues[EffectiveKey(m)]
      BY <2>3 DEF RouteToPending, TypeOK
    <3>2. queue'[o] = Append(queue[o], m) /\ UNCHANGED <<task, command>>
          /\ \A t \in Messages \ {o} : queue'[t] = queue[t]
      BY <2>3, <3>1 DEF RouteToPending, TypeOK
    <3>3. m \in Range(queue'[o]) /\ Range(queue[o]) \subseteq Range(queue'[o])
      <4>1. queue[o] \in Seq(Messages) /\ Distinct(queue[o])
        BY DEF TypeOK, QueuesInv
      <4>2. m \notin Range(queue[o])
        BY <2>2 DEF QueuesInv
      <4>3. Range(queue'[o]) = Range(queue[o]) \cup {m}
        BY <3>2, <4>1, <4>2, QueueAppend
      <4> QED
        BY <4>3
    <3>4. \A x \in Messages : Waiting(x) => Waiting(x)'
      BY <2>2, <3>2, <3>3 DEF Waiting
    <3> QED
      BY <2>1, <3>2, <3>4 DEF KeptInv, Live
  <2>4. CASE CreateTask(m)
    <3>1. UNCHANGED <<queue, command>> /\ task' = [task EXCEPT ![m] = "created"]
      BY <2>4 DEF CreateTask
    <3>2. \A x \in Messages : Live(x)' <=> Live(x) \/ x = m
      BY <3>1 DEF Live, TypeOK, TaskState
    <3> QED
      BY <2>1, <2>2, <3>1, <3>2 DEF KeptInv, Waiting
  <2>5. CASE HandleInline(m)
    BY <2>1, <2>2, <2>5 DEF HandleInline, KeptInv, Waiting, Live
  <2> QED
    BY <1>2, <2>3, <2>4, <2>5 DEF Consume
<1>3. CASE CommandDone
  <2>1. UNCHANGED <<inbound, queue, task>> /\ outcome' = [outcome EXCEPT ![command] = "handled"]
        /\ command \in Messages
    BY <1>3 DEF CommandDone, taskVars, CommandInv, TypeOK
  <2> QED
    BY <2>1 DEF KeptInv, Waiting, Live, TypeOK
<1>4. ASSUME NEW m \in Messages, DispatchStart(m) \/ LockAcquire(m) \/ GateAcquire(m)
      PROVE  KeptInv'
  <2>1. UNCHANGED <<inbound, queue, command, outcome>>
    BY <1>4 DEF DispatchStart, LockAcquire, GateAcquire, loopVars
  <2>2. PICK s \in {"lock", "gate", "running", "waitingPeers"} : task' = [task EXCEPT ![m] = s]
    BY <1>4 DEF DispatchStart, LockAcquire, GateAcquire
  <2>3. \A x \in Messages : Live(x) => Live(x)'
    BY <2>2 DEF Live, TypeOK, TaskState
  <2> QED
    BY <2>1, <2>3 DEF KeptInv, Waiting
<1>5. ASSUME NEW m \in Messages, Inject(m) PROVE KeptInv'
  <2> DEFINE n == IF Len(queue[m]) < InjectLimit THEN Len(queue[m]) ELSE InjectLimit
  <2>1. queue[m] \in Seq(Messages) /\ n \in Nat /\ n <= Len(queue[m]) /\ Len(queue[m]) \in Nat
    BY DEF TypeOK
  <2>2. /\ queue' = [queue EXCEPT ![m] = SubSeq(queue[m], n + 1, Len(queue[m]))]
        /\ UNCHANGED <<inbound, task, command>>
        /\ outcome' = [x \in Messages |->
                         IF \E i \in 1..n : queue[m][i] = x THEN "injected" ELSE outcome[x]]
    BY <1>5 DEF Inject, loopVars
  <2> DEFINE rest == SubSeq(queue[m], n + 1, Len(queue[m]))
  <2>3. PICK r : r = rest
    OBVIOUS
  <2>4. queue'[m] = r /\ \A t \in Messages \ {m} : queue'[t] = queue[t]
    BY <2>2, <2>3 DEF TypeOK
  <2>5. ASSUME NEW x \in Messages, x \in Range(queue[m]), outcome'[x] = "pending"
        PROVE  x \in Range(r)
    <3>1. PICK i \in 1..Len(queue[m]) : queue[m][i] = x
      BY <2>1, <2>5 DEF Range
    <3>2. i \notin 1..n
      BY <2>2, <2>5, <3>1
    <3>3. i - n \in DOMAIN r /\ r[i - n] = x
      BY <2>1, <2>3, <3>1, <3>2, SubSeqProperties
    <3> QED
      BY <3>3 DEF Range
  <2>6. \A x \in Messages : outcome'[x] = "pending" => outcome[x] = "pending"
    BY <2>2
  <2>7. \A x \in Messages : outcome'[x] = "pending" /\ Waiting(x) => Waiting(x)'
    BY <2>2, <2>4, <2>5 DEF Waiting
  <2> QED
    BY <2>2, <2>6, <2>7 DEF KeptInv, Live
<1>6. ASSUME NEW m \in Messages, NEW result \in Outcomes \ {"unsent", "pending"},
             Finish(m, result), \A x \in Messages : Waiting(x)' <=> Waiting(x)
      PROVE  KeptInv'
  <2>1. \A x \in Messages : outcome'[x] = "pending" =>
          outcome[x] = "pending" /\ (Live(x) => Live(x)') /\ command' = command
    BY <1>6 DEF Finish, Live, TypeOK, TaskState, loopVars, Outcomes
  <2> QED
    BY <1>6, <2>1 DEF KeptInv
<1>7. ASSUME NEW m \in Messages, TurnDone(m) PROVE KeptInv'
  BY <1>6, <1>7, UnregisterKeepsQueues DEF TurnDone, Outcomes
<1>8. ASSUME NEW m \in Messages, CancelUnstarted(m) PROVE KeptInv'
  <2>1. \A x \in Messages : Waiting(x)' <=> Waiting(x)
    BY <1>8 DEF CancelUnstarted, Waiting
  <2> QED
    BY <1>6, <1>8, <2>1 DEF CancelUnstarted, Outcomes
<1>9. ASSUME NEW m \in Messages, CancelStarted(m) PROVE KeptInv'
  BY <1>6, <1>9, UnregisterKeepsQueues DEF CancelStarted, Outcomes
<1>10. CASE UNCHANGED vars
  BY <1>10 DEF vars, taskVars, loopVars, KeptInv, Waiting, Live
<1> QED
  BY <1>1, <1>2, <1>3, <1>4, <1>5, <1>7, <1>8, <1>9, <1>10
     DEF Next, TaskStep, CancelledError, Quiescent

\* No task is started for a follow-up because its session's queue is full.
NoOverflow ==
  \A m \in Messages : Consume(m) /\ CreateTask(m) => pendingQueues[EffectiveKey(m)] = None

\* A session has one live task, and the queue registered for it is that task's.
SingleInv ==
  /\ loop # "draining"
  /\ \A m, n \in Messages : Live(m) /\ Live(n) /\ EffectiveKey(m) = EffectiveKey(n) => m = n
  /\ \A m \in Messages :
       /\ task[m] = "created" => pendingQueues[EffectiveKey(m)] = None
       /\ Live(m) /\ task[m] # "created" => pendingQueues[EffectiveKey(m)] = m
       /\ queue[m] # <<>> => pendingQueues[EffectiveKey(m)] = m
  /\ \A k \in Keys, m \in Messages : pendingQueues[k] = m => Live(m) /\ EffectiveKey(m) = k

\* The end of a task that was the registered one of its session.
LEMMA SingleFinish ==
  ASSUME TypeOK, SingleInv, NEW m \in Messages, NEW result \in Outcomes, Finish(m, result),
         Live(m), task[m] # "created", Unregister(EffectiveKey(m))
  PROVE  SingleInv'
<1> DEFINE k == EffectiveKey(m)
<1> USE EffectiveKeyType
<1>1. pendingQueues[k] = m
  BY DEF SingleInv
<1>2. /\ pendingQueues' = [pendingQueues EXCEPT ![k] = None]
      /\ queue' = [queue EXCEPT ![m] = <<>>] /\ task' = [task EXCEPT ![m] = "done"]
      /\ loop' = loop
  BY <1>1, ConstantsAssumption DEF Unregister, Finish, loopVars
<1>3. /\ ~Live(m)' /\ queue'[m] = <<>> /\ pendingQueues'[k] = None /\ task'[m] = "done"
      /\ \A x \in Messages \ {m} : /\ queue'[x] = queue[x] /\ task'[x] = task[x]
                                   /\ Live(x)' <=> Live(x)
      /\ \A j \in Keys \ {k} : pendingQueues'[j] = pendingQueues[j]
  BY <1>2 DEF Live, TypeOK, TaskState
<1>4. ASSUME NEW x \in Messages, x # m, Live(x) PROVE EffectiveKey(x) # k
  BY <1>4 DEF SingleInv
<1>5. ASSUME NEW x \in Messages, x # m, queue[x] # <<>> PROVE EffectiveKey(x) # k
  BY <1>1, <1>5 DEF SingleInv
<1>6. \A x, y \in Messages : Live(x)' /\ Live(y)' /\ EffectiveKey(x) = EffectiveKey(y) => x = y
  BY <1>3 DEF SingleInv
<1>7. ASSUME NEW x \in Messages
      PROVE  /\ task'[x] = "created" => pendingQueues'[EffectiveKey(x)] = None
             /\ Live(x)' /\ task'[x] # "created" => pendingQueues'[EffectiveKey(x)] = x
             /\ queue'[x] # <<>> => pendingQueues'[EffectiveKey(x)] = x
  <2>1. CASE x = m
    BY <1>3, <2>1
  <2>2. CASE x # m
    <3>1. Live(x)' => pendingQueues'[EffectiveKey(x)] = pendingQueues[EffectiveKey(x)]
      BY <1>3, <1>4, <2>2
    <3>2. queue'[x] # <<>> => pendingQueues'[EffectiveKey(x)] = pendingQueues[EffectiveKey(x)]
      BY <1>3, <1>5, <2>2
    <3>3. task'[x] = "created" => Live(x)'
      BY DEF Live, TaskState
    <3> QED
      BY <1>3, <2>2, <3>1, <3>2, <3>3 DEF SingleInv
  <2> QED
    BY <2>1, <2>2
<1>8. ASSUME NEW j \in Keys, NEW x \in Messages, pendingQueues'[j] = x
      PROVE  Live(x)' /\ EffectiveKey(x) = j
  <2>1. j # k /\ pendingQueues[j] = x
    BY <1>3, <1>8, ConstantsAssumption
  <2>2. Live(x) /\ EffectiveKey(x) = j
    BY <2>1 DEF SingleInv
  <2> QED
    BY <1>3, <2>1, <2>2
<1>9. loop' # "draining"
  BY <1>2 DEF SingleInv
<1>10. \A x \in Messages : EffectiveKey(x)' = EffectiveKey(x)
  BY DEF EffectiveKey
<1> QED
  BY <1>6, <1>7, <1>8, <1>9, <1>10 DEF SingleInv

\* A step that changes neither tables nor queues, and no task's liveness.
LEMMA SingleUntouched ==
  ASSUME TypeOK, SingleInv, UNCHANGED <<pendingQueues, queue>>, loop' # "draining",
         \A x \in Messages : (Live(x)' <=> Live(x)) /\ (task'[x] = "created" <=> task[x] = "created")
  PROVE  SingleInv'
BY DEF SingleInv, EffectiveKey

LEMMA SingleInductive ==
  ASSUME ~EagerConsume
  PROVE  TypeOK /\ SingleInv /\ [Next]_vars /\ [NoOverflow]_vars => SingleInv'
<1> SUFFICES ASSUME TypeOK, SingleInv, [Next]_vars, [NoOverflow]_vars PROVE SingleInv'
  OBVIOUS
<1> USE ConstantsAssumption, EffectiveKeyType
<1>1. CASE UNCHANGED vars
  BY <1>1, SingleUntouched DEF vars, taskVars, loopVars, Live, SingleInv
<1>2. CASE CommandDone
  BY <1>2, SingleUntouched DEF CommandDone, taskVars, Live, LoopAfter
<1>3. ASSUME NEW m \in Messages, Publish(m) PROVE SingleInv'
  BY <1>3, SingleUntouched DEF Publish, taskVars, loopVars, Live, SingleInv
<1>4. ASSUME NEW m \in Messages, Consume(m) PROVE SingleInv'
  <2>1. CASE HandleInline(m)
    BY <2>1, SingleUntouched DEF HandleInline, Live
  <2>2. CASE RouteToPending(m)
    <3>1. PICK o \in Messages : o = pendingQueues[EffectiveKey(m)]
      BY <2>2 DEF RouteToPending, TypeOK
    <3>2. /\ queue' = [queue EXCEPT ![o] = Append(@, m)] /\ UNCHANGED <<task, pendingQueues>>
          /\ loop' = "blocked" /\ EffectiveKey(o) = EffectiveKey(m)
      BY <2>2, <3>1 DEF RouteToPending, LoopAfter, SingleInv
    <3>3. \A x \in Messages \ {o} : queue'[x] = queue[x]
      BY <3>2 DEF TypeOK
    <3> QED
      BY <3>1, <3>2, <3>3 DEF SingleInv, Live, EffectiveKey
  <2>3. CASE CreateTask(m)
    <3> DEFINE k == EffectiveKey(m)
    <3>1. pendingQueues[k] = None
      <4>1. CASE UNCHANGED vars
        <5>1. inbound' = inbound /\ inbound' = Tail(inbound) /\ inbound # <<>> /\ inbound \in Seq(Messages)
          BY <1>4, <4>1 DEF Consume, MayConsume, vars, TypeOK
        <5> QED
          BY <5>1, HeadTailProperties
      <4> QED
        BY <1>4, <2>3, <4>1 DEF NoOverflow
    <3>2. /\ UNCHANGED <<pendingQueues, queue>> /\ loop' = "blocked"
          /\ task' = [task EXCEPT ![m] = "created"]
          /\ \A t \in Messages : task[t] # "created"
      BY <1>4, <2>3 DEF Consume, MayConsume, CreateTask, LoopAfter, SingleInv
    <3>3. \A x \in Messages : Live(x) => EffectiveKey(x) # k
      BY <3>1, <3>2 DEF SingleInv
    <3>4. task'[m] = "created" /\ Live(m)'
          /\ \A x \in Messages \ {m} : task'[x] = task[x] /\ (Live(x)' <=> Live(x))
      BY <3>2 DEF Live, TypeOK, TaskState
    <3>5. queue[m] = <<>>
      BY <3>1 DEF SingleInv
    <3>6. \A x, y \in Messages : Live(x)' /\ Live(y)' /\ EffectiveKey(x) = EffectiveKey(y) => x = y
      BY <3>3, <3>4 DEF SingleInv
    <3>7. \A x \in Messages :
            /\ task'[x] = "created" => pendingQueues'[EffectiveKey(x)] = None
            /\ Live(x)' /\ task'[x] # "created" => pendingQueues'[EffectiveKey(x)] = x
            /\ queue'[x] # <<>> => pendingQueues'[EffectiveKey(x)] = x
      BY <3>1, <3>2, <3>4, <3>5 DEF SingleInv
    <3>8. \A j \in Keys, x \in Messages : pendingQueues'[j] = x => Live(x)' /\ EffectiveKey(x) = j
      BY <3>2, <3>4 DEF SingleInv
    <3> QED
      BY <3>2, <3>6, <3>7, <3>8 DEF SingleInv, EffectiveKey
  <2> QED
    BY <1>4, <2>1, <2>2, <2>3 DEF Consume
<1>5. ASSUME NEW m \in Messages, DispatchStart(m) PROVE SingleInv'
  <2> DEFINE k == EffectiveKey(m)
  <2>1. /\ task[m] = "created" /\ task' = [task EXCEPT ![m] = "lock"] /\ UNCHANGED <<queue, loop>>
        /\ pendingQueues' = [pendingQueues EXCEPT ![k] = m]
    BY <1>5 DEF DispatchStart, loopVars
  <2>2. pendingQueues[k] = None /\ Live(m)
    BY <2>1 DEF SingleInv, Live, TaskState
  <2>3. /\ task'[m] = "lock" /\ Live(m)' /\ pendingQueues'[k] = m
        /\ \A x \in Messages \ {m} : task'[x] = task[x] /\ (Live(x)' <=> Live(x))
        /\ \A j \in Keys \ {k} : pendingQueues'[j] = pendingQueues[j]
    BY <2>1 DEF Live, TypeOK, TaskState
  <2>4. ASSUME NEW x \in Messages, x # m, Live(x) \/ queue[x] # <<>> PROVE EffectiveKey(x) # k
    BY <2>2, <2>4 DEF SingleInv
  <2>5. ASSUME NEW x \in Messages
        PROVE  /\ task'[x] = "created" => pendingQueues'[EffectiveKey(x)] = None
               /\ Live(x)' /\ task'[x] # "created" => pendingQueues'[EffectiveKey(x)] = x
               /\ queue'[x] # <<>> => pendingQueues'[EffectiveKey(x)] = x
    <3>1. CASE x = m
      BY <2>3, <3>1
    <3>2. CASE x # m
      <4>1. task'[x] = "created" => Live(x)'
        BY DEF Live, TaskState
      <4> QED
        BY <2>1, <2>3, <2>4, <3>2, <4>1 DEF SingleInv
    <3> QED
      BY <3>1, <3>2
  <2>6. \A x, y \in Messages : Live(x)' /\ Live(y)' /\ EffectiveKey(x) = EffectiveKey(y) => x = y
    BY <2>2, <2>3 DEF SingleInv
  <2>7. \A j \in Keys, x \in Messages : pendingQueues'[j] = x => Live(x)' /\ EffectiveKey(x) = j
    BY <2>2, <2>3 DEF SingleInv
  <2> QED
    BY <2>1, <2>5, <2>6, <2>7 DEF SingleInv, EffectiveKey
<1>6. ASSUME NEW m \in Messages, LockAcquire(m) \/ GateAcquire(m) PROVE SingleInv'
  <2>1. /\ UNCHANGED <<pendingQueues, queue, loop>> /\ task[m] \in {"lock", "gate"}
    BY <1>6 DEF LockAcquire, GateAcquire, loopVars
  <2>2. PICK s \in {"gate", "running", "waitingPeers"} : task' = [task EXCEPT ![m] = s]
    BY <1>6 DEF LockAcquire, GateAcquire
  <2>3. \A x \in Messages : (Live(x)' <=> Live(x)) /\ (task'[x] = "created" <=> task[x] = "created")
    BY <2>1, <2>2 DEF Live, TypeOK, TaskState
  <2> QED
    BY <2>1, <2>3, SingleUntouched DEF SingleInv
<1>7. ASSUME NEW m \in Messages, Inject(m) PROVE SingleInv'
  <2>1. /\ UNCHANGED <<pendingQueues, task, loop>> /\ task[m] = "running"
        /\ \A x \in Messages \ {m} : queue'[x] = queue[x]
    BY <1>7 DEF Inject, loopVars, TypeOK
  <2>2. pendingQueues[EffectiveKey(m)] = m
    BY <2>1 DEF SingleInv, Live, TaskState
  <2> QED
    BY <2>1, <2>2 DEF SingleInv, Live, EffectiveKey
<1>8. ASSUME NEW m \in Messages, TurnDone(m) \/ CancelStarted(m) PROVE SingleInv'
  <2>1. Live(m) /\ task[m] # "created" /\ Unregister(EffectiveKey(m))
    BY <1>8 DEF TurnDone, CancelStarted, Live, TaskState
  <2> QED
    BY <1>8, <2>1, SingleFinish DEF TurnDone, CancelStarted, Outcomes
<1>9. ASSUME NEW m \in Messages, CancelUnstarted(m) PROVE SingleInv'
  <2>1. /\ task[m] = "created" /\ task' = [task EXCEPT ![m] = "done"]
        /\ UNCHANGED <<pendingQueues, queue, loop>>
    BY <1>9 DEF CancelUnstarted, Finish, loopVars
  <2>2. /\ ~Live(m)' /\ task'[m] = "done"
        /\ \A x \in Messages \ {m} : task'[x] = task[x] /\ (Live(x)' <=> Live(x))
    BY <2>1 DEF Live, TypeOK, TaskState
  <2>3. \A k \in Keys : pendingQueues[k] # m
    BY <2>1 DEF SingleInv
  <2> QED
    BY <2>1, <2>2, <2>3 DEF SingleInv, EffectiveKey
<1> QED
  BY <1>1, <1>2, <1>3, <1>4, <1>5, <1>6, <1>7, <1>8, <1>9
     DEF Next, TaskStep, CancelledError, Quiescent

LEMMA SingleInitial == Init => SingleInv /\ KeptInv /\ CommandInv
  BY ConstantsAssumption
     DEF Init, SingleInv, KeptInv, CommandInv, Live, TaskState

\* While no queue overflows, every follow-up routed during a turn is in the
\* queue that turn drains.
THEOREM TurnsOwnTheirQueues ==
  ASSUME ~EagerConsume PROVE Spec /\ [][NoOverflow]_vars => []TurnOwnsPendingQueue
<1>1. SingleInv => TurnOwnsPendingQueue
  BY DEF SingleInv, TurnOwnsPendingQueue, Running, Live, TaskState
<1> QED
  BY <1>1, SingleInitial, SingleInductive, TypeCorrect, PTL DEF Spec

\* While no queue overflows, a message that is not answered is on the bus, in
\* work, or in the queue of a task that will inject or re-publish it.
THEOREM NothingIsLost ==
  ASSUME ~EagerConsume PROVE Spec /\ [][NoOverflow]_vars => []NoMessageLost
<1>1. TypeOK /\ SingleInv /\ KeptInv => NoMessageLost
  <2> SUFFICES ASSUME TypeOK, SingleInv, KeptInv, NEW m \in Messages, outcome[m] = "pending",
                      Waiting(m)
               PROVE  \/ Occurrences(inbound, m) # {}
                      \/ \E t \in Messages : Live(t) /\ Occurrences(queue[t], m) # {}
    BY DEF KeptInv, NoMessageLost
  <2>1. CASE m \in Range(inbound)
    BY <2>1 DEF Range, Occurrences
  <2>2. ASSUME NEW t \in Messages, m \in Range(queue[t])
        PROVE  Live(t) /\ Occurrences(queue[t], m) # {}
    <3>1. queue[t] # <<>> /\ Occurrences(queue[t], m) # {}
      BY <2>2 DEF Range, Occurrences
    <3>2. Live(t)
      BY <3>1, EffectiveKeyType DEF SingleInv
    <3> QED
      BY <3>1, <3>2
  <2> QED
    BY <2>1, <2>2 DEF Waiting
<1> QED
  BY <1>1, SingleInitial, SingleInductive, KeptInductive, CommandInductive, HeldCorrect,
     TypeCorrect, PTL DEF Spec

\* With no more messages than a queue holds, none overflows: a message that is
\* consumed is in no queue, and no queue holds a message twice.
LEMMA FewMessagesFit ==
  ASSUME IsFiniteSet(Messages), Cardinality(Messages) <= PendingCapacity
  PROVE  TypeOK /\ HeldInv => NoOverflow
<1> SUFFICES ASSUME TypeOK, QueuesInv, NEW m \in Messages, Consume(m), CreateTask(m),
                    pendingQueues[EffectiveKey(m)] # None
             PROVE  FALSE
  BY DEF NoOverflow, HeldInv
<1>1. PICK o \in Messages : o = pendingQueues[EffectiveKey(m)]
  BY EffectiveKeyType DEF TypeOK
<1>2. Len(queue[o]) = PendingCapacity
  BY <1>1 DEF CreateTask
<1>3. m \notin Range(queue[o])
  <2>1. m \in Range(inbound)
    BY DEF Consume, MayConsume, Range, TypeOK
  <2> QED
    BY <2>1 DEF QueuesInv
<1>4. PICK s \in Seq(Messages) : s = queue[o]
  BY DEF TypeOK
<1>5. Distinct(s) /\ DOMAIN s = 1..Len(s) /\ Len(s) = PendingCapacity
  BY <1>2, <1>4 DEF QueuesInv
<1>6. s \in [1..Len(s) -> Messages \ {m}]
  BY <1>3, <1>4 DEF Range
<1>7. /\ IsFiniteSet(1..Len(s)) /\ Cardinality(1..Len(s)) = Len(s)
      /\ IsFiniteSet(Messages \ {m}) /\ Cardinality(Messages \ {m}) < Len(s)
  <2>1. PendingCapacity \in Nat \ {0} /\ Cardinality(Messages) \in Nat
    BY ConstantsAssumption, FS_CardinalityType
  <2>2. IsFiniteSet(1..Len(s)) /\ Cardinality(1..Len(s)) = Len(s)
    <3>1. Len(s) \in Int /\ 1 \in Int /\ ~(1 > Len(s)) /\ Len(s) - 1 + 1 = Len(s)
      BY <1>5, <2>1
    <3> QED
      BY <3>1, FS_Interval
  <2>3. IsFiniteSet(Messages \ {m}) /\ Cardinality(Messages \ {m}) = Cardinality(Messages) - 1
    BY FS_RemoveElement
  <2> QED
    BY <1>5, <2>1, <2>2, <2>3
<1>8. PICK i, j \in 1..Len(s) : i # j /\ s[i] = s[j]
  BY <1>6, <1>7, FS_PigeonHole
<1> QED
  BY <1>5, <1>8 DEF Distinct

LEMMA FewMessagesNoOverflow ==
  ASSUME IsFiniteSet(Messages), Cardinality(Messages) <= PendingCapacity
  PROVE  Spec => [][NoOverflow]_vars
<1>1. TypeOK /\ HeldInv => [NoOverflow]_vars
  BY FewMessagesFit
<1> QED
  BY <1>1, TypeCorrect, HeldCorrect, PTL

\* Both hold without a condition when the messages fit into one queue.
COROLLARY FewMessagesKept ==
  ASSUME ~EagerConsume, IsFiniteSet(Messages), Cardinality(Messages) <= PendingCapacity
  PROVE  Spec => [](TurnOwnsPendingQueue /\ NoMessageLost)
BY FewMessagesNoOverflow, TurnsOwnTheirQueues, NothingIsLost, PTL

-----------------------------------------------------------------------------
(***************************************************************************)
(* The dispatcher with subagents                                           *)
(***************************************************************************)

\* What happens to subagents only is a stutter of the dispatcher, and an action
\* that is taken over does what it does there.
LEMMA SubagentStep == [SubagentsNext]_allVars => [Next]_vars
<1> SUFFICES ASSUME [SubagentsNext]_allVars PROVE Next \/ UNCHANGED vars
  OBVIOUS
<1>1. CASE AnswerCommand
  BY <1>1 DEF AnswerCommand, Next
<1>2. ASSUME NEW m \in Messages, Dispatch(m)
      PROVE  Next
  BY <1>2 DEF Dispatch, Next, TaskStep
<1>3. ASSUME NEW m \in Messages, WaitForResult(m) \/ WaitTimedOut(m) \/ Cancelling(m)
      PROVE  UNCHANGED vars
  BY <1>3 DEF WaitForResult, WaitTimedOut, Cancelling, CancelBySession
<1>4. ASSUME NEW m \in Messages, Drain(m) \/ EndTurn(m) \/ CancelTurn(m)
      PROVE  Next
  BY <1>4 DEF Drain, EndTurn, CancelTurn, Next, TaskStep
<1>5. ASSUME NEW m \in Messages, NEW r \in Results, Spawn(m, r)
      PROVE  UNCHANGED vars
  BY <1>5 DEF Spawn
<1>6. ASSUME NEW r \in Results, Report(r)
      PROVE  Next
  BY <1>6, SubagentsAssumption DEF Report, Next
<1>7. ASSUME NEW r \in Results, CancelTask(r) \/ EndCancelled(r)
      PROVE  UNCHANGED vars
  BY <1>7 DEF CancelTask, EndCancelled
<1>8. CASE SubagentsQuiescent \/ UNCHANGED allVars
  BY <1>8 DEF SubagentsQuiescent, allVars
<1> QED
  BY <1>1, <1>2, <1>3, <1>4, <1>5, <1>6, <1>7, <1>8 DEF SubagentsNext

\* The loop with subagents implements the loop whose results are messages of a
\* channel: every safety property of SessionDispatch carries over.
THEOREM SubagentsImplementDispatch == SubagentsSpec => Spec
<1>1. SubagentsInit => Init
  BY DEF SubagentsInit
<1> QED
  BY <1>1, SubagentStep, PTL DEF SubagentsSpec, Spec

\* At most one turn of a session is under way, whatever subagents its turns
\* spawn and whenever their results arrive, are cancelled or overflow.
THEOREM OneTurnWithSubagents == SubagentsSpec => []OneTurnPerSession
  BY SubagentsImplementDispatch, OneTurn

(***************************************************************************)
(* The wait for results, and what /stop does to subagents.  They rest on   *)
(* what the dispatcher guarantees, and on a few facts about it more.       *)
(***************************************************************************)
LoopInv == TypeOK /\ HeldInv /\ CommandInv /\ ActiveInv /\ LockInv

LEMMA LoopCorrect == SubagentsSpec => []LoopInv
  BY SubagentsImplementDispatch, TypeCorrect, HeldCorrect, ActiveCorrect, LockCorrect, PTL
     DEF LoopInv

\* A message that is somewhere is pending; who is awaited was cancelled; only
\* /new waits inside a turn; a queue is registered for the session of its task.
DispatchFacts ==
  /\ \A m \in Messages : Waiting(m) \/ Live(m) \/ command = m => outcome[m] = "pending"
  /\ \A n \in Messages : awaited[n] \subseteq cancelled
  /\ \A n \in Messages : task[n] = "waitingPeers" => Kind[n] = "new"
  /\ \A k \in Keys, m \in Messages : pendingQueues[k] = m => EffectiveKey(m) = k

LEMMA PendingInductive ==
  LoopInv /\ DispatchFacts /\ [Next]_vars =>
    \A m \in Messages : Waiting(m)' \/ Live(m)' \/ command' = m => outcome'[m] = "pending"
<1> SUFFICES ASSUME TypeOK, QueuesInv, OwnersInv, CommandInv, DispatchFacts, [Next]_vars
             PROVE \A m \in Messages :
                     Waiting(m)' \/ Live(m)' \/ command' = m => outcome'[m] = "pending"
  BY DEF LoopInv, HeldInv
<1> USE ConstantsAssumption, EffectiveKeyType
<1> DEFINE Somewhere(x) == Waiting(x) \/ Live(x) \/ command = x
<1>1. \A x \in Messages : Somewhere(x) => outcome[x] = "pending"
  BY DEF DispatchFacts
<1>2. ASSUME NEW m \in Messages, Publish(m), NEW x \in Messages, Somewhere(x)'
      PROVE  outcome'[x] = "pending"
  <2>1. /\ inbound' = Append(inbound, m) /\ UNCHANGED <<queue, task, command>>
        /\ outcome' = [outcome EXCEPT ![m] = "pending"]
    BY <1>2 DEF Publish, taskVars, loopVars
  <2>2. Range(inbound') = Range(inbound) \cup {m}
    <3>1. m \notin Range(inbound)
      BY <1>2 DEF Publish, OwnersInv, Waiting
    <3> QED
      BY <2>1, <3>1, QueueAppend DEF TypeOK, QueuesInv
  <2>3. Somewhere(x) \/ x = m
    BY <1>2, <2>1, <2>2 DEF Waiting, Live
  <2> QED
    BY <1>1, <2>1, <2>3 DEF TypeOK
<1>3. ASSUME NEW m \in Messages, Consume(m), NEW x \in Messages, Somewhere(x)'
      PROVE  outcome'[x] = "pending"
  <2>1. /\ inbound # <<>> /\ m = Head(inbound) /\ inbound' = Tail(inbound)
        /\ inbound \in Seq(Messages) /\ outcome' = outcome
    BY <1>3 DEF Consume, MayConsume, RouteToPending, CreateTask, HandleInline, TypeOK
  <2>2. Range(inbound) = Range(inbound') \cup {m} /\ Somewhere(m)
    BY <2>1, QueueTail DEF QueuesInv, Waiting
  <2>3. Somewhere(x)
    <3>1. CASE RouteToPending(m)
      <4>1. PICK o \in Messages : o = pendingQueues[EffectiveKey(m)]
        BY <3>1 DEF RouteToPending, TypeOK
      <4>2. queue'[o] = Append(queue[o], m) /\ UNCHANGED <<task, command>>
            /\ \A t \in Messages \ {o} : queue'[t] = queue[t]
        BY <3>1, <4>1 DEF RouteToPending, TypeOK
      <4>3. m \notin Range(queue[o]) /\ Distinct(queue[o]) /\ queue[o] \in Seq(Messages)
        BY <2>2 DEF QueuesInv, TypeOK
      <4>4. Range(queue'[o]) = Range(queue[o]) \cup {m}
        BY <4>2, <4>3, QueueAppend
      <4> QED
        BY <1>3, <2>2, <4>2, <4>4 DEF Waiting, Live
    <3>2. CASE CreateTask(m)
      <4>1. UNCHANGED <<queue, command>> /\ task' = [task EXCEPT ![m] = "created"]
        BY <3>2 DEF CreateTask
      <4> QED
        BY <1>3, <2>2, <4>1 DEF Waiting, Live, TypeOK
    <3>3. CASE HandleInline(m)
      BY <1>3, <2>2, <3>3 DEF HandleInline, Waiting, Live
    <3> QED
      BY <1>3, <3>1, <3>2, <3>3 DEF Consume
  <2> QED
    BY <1>1, <2>1, <2>3
<1>4. ASSUME CommandDone, NEW x \in Messages, Somewhere(x)' PROVE outcome'[x] = "pending"
  <2>1. UNCHANGED <<inbound, queue, task>> /\ outcome' = [outcome EXCEPT ![command] = "handled"]
        /\ command \in Messages /\ command' = None
    BY <1>4 DEF CommandDone, taskVars, CommandInv, TypeOK
  <2>2. Somewhere(x) /\ x # command
    BY <1>4, <2>1 DEF Waiting, Live, OwnersInv
  <2> QED
    BY <1>1, <2>1, <2>2 DEF TypeOK
<1>5. ASSUME NEW m \in Messages, DispatchStart(m) \/ LockAcquire(m) \/ GateAcquire(m),
             NEW x \in Messages, Somewhere(x)'
      PROVE  outcome'[x] = "pending"
  <2>1. UNCHANGED <<inbound, queue, command, outcome>> /\ Live(m)
    BY <1>5 DEF DispatchStart, LockAcquire, GateAcquire, loopVars, Live, TaskState
  <2>2. PICK s : task' = [task EXCEPT ![m] = s]
    BY <1>5 DEF DispatchStart, LockAcquire, GateAcquire
  <2>3. Somewhere(x)
    BY <1>5, <2>1, <2>2 DEF Waiting, Live, TypeOK
  <2> QED
    BY <1>1, <2>1, <2>3
<1>6. ASSUME NEW m \in Messages, Inject(m), NEW x \in Messages, Somewhere(x)'
      PROVE  outcome'[x] = "pending"
  <2> DEFINE n == IF Len(queue[m]) < InjectLimit THEN Len(queue[m]) ELSE InjectLimit
             rest == SubSeq(queue[m], n + 1, Len(queue[m]))
  <2>1. queue[m] \in Seq(Messages) /\ n \in Nat /\ Len(queue[m]) \in Nat /\ n <= Len(queue[m])
    BY DEF TypeOK
  <2>2. /\ queue' = [queue EXCEPT ![m] = rest] /\ UNCHANGED <<inbound, task, command>>
        /\ outcome' = [y \in Messages |->
                         IF \E i \in 1..n : queue[m][i] = y THEN "injected" ELSE outcome[y]]
    BY <1>6 DEF Inject, loopVars
  <2>3. /\ Range(rest) \subseteq Range(queue[m])
        /\ \A i \in DOMAIN queue[m] : i < n + 1 => queue[m][i] \notin Range(rest)
    BY <2>1, QueueSuffix DEF QueuesInv
  <2>4. PICK r : r = rest
    OBVIOUS
  <2>5. queue'[m] = r /\ \A t \in Messages \ {m} : queue'[t] = queue[t]
    BY <2>2, <2>4 DEF TypeOK
  <2>6. Somewhere(x)
    BY <1>6, <2>2, <2>3, <2>4, <2>5 DEF Waiting, Live
  <2>7. ASSUME NEW i \in 1..n, queue[m][i] = x PROVE FALSE
    <3>1. x \in Range(queue[m]) /\ x \notin Range(r)
      <4>1. i \in DOMAIN queue[m] /\ i < n + 1
        BY <2>1
      <4> QED
        BY <2>3, <2>4, <2>7, <4>1 DEF Range
    <3>2. \A t \in Messages \ {m} : x \notin Range(queue[t])
      BY <3>1 DEF QueuesInv
    <3>3. x \notin Range(inbound) /\ ~Live(x) /\ command # x
      BY <3>1 DEF QueuesInv, OwnersInv, Waiting
    <3> QED
      BY <1>6, <2>2, <2>5, <3>1, <3>2, <3>3 DEF Waiting, Live
  <2> QED
    BY <1>1, <2>2, <2>6, <2>7
<1>7. ASSUME NEW m \in Messages, NEW result \in Outcomes, Finish(m, result), Live(m),
             \A y \in Messages : Waiting(y)' <=> Waiting(y),
             NEW x \in Messages, Somewhere(x)'
      PROVE  outcome'[x] = "pending"
  <2>1. Somewhere(x) /\ x # m
    BY <1>7 DEF Finish, Live, TypeOK, loopVars, OwnersInv
  <2> QED
    BY <1>1, <1>7, <2>1 DEF Finish, TypeOK
<1>8. ASSUME NEW m \in Messages, TurnDone(m) \/ CancelUnstarted(m) \/ CancelStarted(m),
             NEW x \in Messages, Somewhere(x)'
      PROVE  outcome'[x] = "pending"
  <2>1. Live(m) /\ \E result \in Outcomes : Finish(m, result)
    BY <1>8 DEF TurnDone, CancelUnstarted, CancelStarted, Live, TaskState, Outcomes
  <2>2. \A y \in Messages : Waiting(y)' <=> Waiting(y)
    <3>1. CASE CancelUnstarted(m)
      BY <3>1 DEF CancelUnstarted, Waiting
    <3>2. CASE TurnDone(m) \/ CancelStarted(m)
      BY <3>2, UnregisterKeepsQueues DEF TurnDone, CancelStarted
    <3> QED
      BY <1>8, <3>1, <3>2
  <2> QED
    BY <1>7, <1>8, <2>1, <2>2
<1>9. ASSUME UNCHANGED vars, NEW x \in Messages, Somewhere(x)' PROVE outcome'[x] = "pending"
  BY <1>1, <1>9 DEF vars, taskVars, loopVars, Waiting, Live
<1> QED
  BY <1>2, <1>3, <1>4, <1>5, <1>6, <1>8, <1>9 DEF Next, TaskStep, CancelledError, Quiescent

LEMMA FactsInductive == LoopInv /\ DispatchFacts /\ [Next]_vars => DispatchFacts'
<1> SUFFICES ASSUME LoopInv, DispatchFacts, [Next]_vars PROVE DispatchFacts'
  OBVIOUS
<1> USE ConstantsAssumption, EffectiveKeyType
<1> USE DEF LoopInv, TypeOK
<1>1. \A n \in Messages : awaited'[n] \subseteq cancelled'
  <2>1. CASE UNCHANGED <<awaited, cancelled>>
    BY <2>1 DEF DispatchFacts
  <2>2. ASSUME NEW m \in Messages, NEW key, CancelActive(m, key)
        PROVE  \A n \in Messages : awaited'[n] \subseteq cancelled'
    BY <2>2 DEF CancelActive, DispatchFacts
  <2>3. CASE CommandDone \/ UNCHANGED vars
    BY <2>1, <2>3 DEF CommandDone, vars, taskVars
  <2>4. ASSUME NEW m \in Messages, Publish(m) \/ DispatchStart(m) \/ LockAcquire(m) \/ Inject(m)
        PROVE  UNCHANGED <<awaited, cancelled>>
    BY <2>4 DEF Publish, DispatchStart, LockAcquire, Inject, taskVars
  <2>5. ASSUME NEW m \in Messages, TurnDone(m) \/ CancelledError(m)
        PROVE  UNCHANGED <<awaited, cancelled>>
    BY <2>5 DEF TurnDone, CancelledError, CancelUnstarted, CancelStarted, Finish
  <2>6. ASSUME NEW m \in Messages, GateAcquire(m) \/ Consume(m)
        PROVE  UNCHANGED <<awaited, cancelled>> \/ \E key : CancelActive(m, key)
    BY <2>6 DEF GateAcquire, Consume, RouteToPending, CreateTask, HandleInline
  <2> QED
    BY <2>1, <2>2, <2>3, <2>4, <2>5, <2>6 DEF Next, TaskStep, Quiescent
<1>2. \A n \in Messages : task'[n] = "waitingPeers" => Kind[n] = "new"
  <2>1. CASE CommandDone \/ UNCHANGED vars
    BY <2>1 DEF CommandDone, vars, taskVars, DispatchFacts
  <2>2. ASSUME NEW m \in Messages, Publish(m) \/ Inject(m) PROVE UNCHANGED task
    BY <2>2 DEF Publish, Inject, taskVars
  <2>3. ASSUME NEW m \in Messages, GateAcquire(m)
        PROVE  \A n \in Messages : task'[n] = "waitingPeers" => Kind[n] = "new"
    BY <2>3 DEF GateAcquire, DispatchFacts
  <2>4. ASSUME NEW m \in Messages, DispatchStart(m) \/ LockAcquire(m) \/ Consume(m)
        PROVE  \A n \in Messages : task'[n] = "waitingPeers" => task[n] = "waitingPeers"
    BY <2>4 DEF DispatchStart, LockAcquire, Consume, RouteToPending, CreateTask, HandleInline
  <2>5. ASSUME NEW m \in Messages, TurnDone(m) \/ CancelledError(m)
        PROVE  \A n \in Messages : task'[n] = "waitingPeers" => task[n] = "waitingPeers"
    BY <2>5 DEF TurnDone, CancelledError, CancelUnstarted, CancelStarted, Finish
  <2> QED
    BY <2>1, <2>2, <2>3, <2>4, <2>5 DEF Next, TaskStep, Quiescent, DispatchFacts
<1>3. \A k \in Keys, m \in Messages : pendingQueues'[k] = m => EffectiveKey(m) = k
  <2>1. CASE CommandDone \/ UNCHANGED vars
    BY <2>1 DEF CommandDone, vars, taskVars, DispatchFacts
  <2>2. ASSUME NEW m \in Messages,
               Publish(m) \/ Consume(m) \/ LockAcquire(m) \/ GateAcquire(m) \/ Inject(m)
        PROVE  UNCHANGED pendingQueues
    BY <2>2 DEF Publish, Consume, RouteToPending, CreateTask, HandleInline, LockAcquire,
                GateAcquire, Inject, taskVars
  <2>3. ASSUME NEW m \in Messages, NEW owner \in {m, None},
               pendingQueues' = [pendingQueues EXCEPT ![EffectiveKey(m)] = owner]
        PROVE  \A k \in Keys, x \in Messages : pendingQueues'[k] = x => EffectiveKey(x) = k
    BY <2>3 DEF DispatchFacts
  <2>4. ASSUME NEW m \in Messages, DispatchStart(m)
        PROVE  pendingQueues' = [pendingQueues EXCEPT ![EffectiveKey(m)] = m]
    BY <2>4 DEF DispatchStart
  <2>5. ASSUME NEW m \in Messages, TurnDone(m) \/ CancelledError(m)
        PROVE  \/ UNCHANGED pendingQueues
               \/ pendingQueues' = [pendingQueues EXCEPT ![EffectiveKey(m)] = None]
    BY <2>5 DEF TurnDone, CancelledError, CancelUnstarted, CancelStarted, Unregister
  <2>6. CASE UNCHANGED pendingQueues
    BY <2>6 DEF DispatchFacts
  <2>7. ASSUME NEW m \in Messages, TaskStep(m)
        PROVE  \A k \in Keys, x \in Messages : pendingQueues'[k] = x => EffectiveKey(x) = k
    BY <2>2, <2>3, <2>4, <2>5, <2>6, <2>7 DEF TaskStep
  <2> QED
    BY <2>1, <2>2, <2>6, <2>7 DEF Next, Quiescent
<1>4. \A m \in Messages : EffectiveKey(m)' = EffectiveKey(m)
  BY DEF EffectiveKey
<1> QED
  BY <1>1, <1>2, <1>3, <1>4, PendingInductive DEF DispatchFacts

LEMMA FactsCorrect == SubagentsSpec => [](LoopInv /\ DispatchFacts)
<1>1. Init => DispatchFacts
  BY ConstantsAssumption DEF Init, DispatchFacts, Waiting, Live, Range, TaskState
<1>2. SubagentsInit => Init
  BY DEF SubagentsInit
<1> QED
  BY <1>1, <1>2, LoopCorrect, FactsInductive, SubagentStep, PTL DEF SubagentsSpec

(***************************************************************************)
(* The subagents themselves.                                               *)
(***************************************************************************)
SubagentTypes ==
  /\ agent \in [Results -> {"none", "running", "reported", "cancelled"}]
  /\ parent \in [Results -> Messages \cup {None}]
  /\ doomed \subseteq Results
  /\ waiting \subseteq Messages
  /\ reaping \in [Messages -> (SUBSET Results) \cup {None}]

LEMMA RunningForType == \A key : RunningFor(key) \subseteq Results
  BY DEF RunningFor

LEMMA SubagentTypesInductive == SubagentTypes /\ [SubagentsNext]_allVars => SubagentTypes'
<1> SUFFICES ASSUME SubagentTypes, [SubagentsNext]_allVars PROVE SubagentTypes'
  OBVIOUS
<1> USE SubagentsAssumption, RunningForType DEF SubagentTypes
<1>1. CASE UNCHANGED subagentVars
  BY <1>1 DEF subagentVars
<1>2. CASE AnswerCommand \/ SubagentsQuiescent \/ UNCHANGED allVars
  BY <1>1, <1>2 DEF AnswerCommand, SubagentsQuiescent, allVars
<1>3. ASSUME NEW m \in Messages, Dispatch(m) \/ EndTurn(m) PROVE SubagentTypes'
  BY <1>1, <1>3 DEF Dispatch, EndTurn
<1>4. ASSUME NEW m \in Messages,
             WaitForResult(m) \/ Drain(m) \/ WaitTimedOut(m) \/ CancelTurn(m)
      PROVE  SubagentTypes'
  BY <1>4 DEF WaitForResult, Drain, WaitTimedOut, CancelTurn
<1>5. ASSUME NEW m \in Messages, Cancelling(m) PROVE SubagentTypes'
  BY <1>5 DEF Cancelling, CancelBySession
<1>6. ASSUME NEW m \in Messages, NEW r \in Results, Spawn(m, r) PROVE SubagentTypes'
  BY <1>6 DEF Spawn
<1>7. ASSUME NEW r \in Results, Report(r) \/ CancelTask(r) \/ EndCancelled(r)
      PROVE  SubagentTypes'
  BY <1>7 DEF Report, CancelTask, EndCancelled
<1> QED
  BY <1>2, <1>3, <1>4, <1>5, <1>6, <1>7 DEF SubagentsNext

\* A result is sent by the subagent it belongs to, under the key its parent
\* gave it.
ResultInv ==
  /\ \A r \in Results : outcome[r] # "unsent" => agent[r] = "reported"
  /\ \A r \in Results : agent[r] # "none" =>
       /\ ChatKey[r] = SpawnKey(r)
       /\ parent[r] \in Messages /\ SpawnKey(parent[r]) = SpawnKey(r)

\* The messages that a step of the dispatcher sends.
LEMMA OnlyPublished ==
  ASSUME TypeOK, OwnersInv, NEW m \in Messages, NEW x \in Messages, outcome[x] = "unsent",
         CommandDone \/ Consume(m) \/ TaskStep(m)
  PROVE  outcome'[x] = "unsent"
<1>1. ~Waiting(x) /\ ~Live(x) /\ command # x
  BY DEF OwnersInv
<1>2. CASE CommandDone
  BY <1>1, <1>2 DEF CommandDone, TypeOK
<1>3. CASE Consume(m) \/ DispatchStart(m) \/ LockAcquire(m) \/ GateAcquire(m)
  BY <1>3 DEF Consume, RouteToPending, CreateTask, HandleInline, DispatchStart, LockAcquire,
              GateAcquire
<1>4. CASE Inject(m)
  <2> DEFINE n == IF Len(queue[m]) < InjectLimit THEN Len(queue[m]) ELSE InjectLimit
  <2>1. queue[m] \in Seq(Messages) /\ n \in Nat /\ n <= Len(queue[m]) /\ Len(queue[m]) \in Nat
    BY ConstantsAssumption DEF TypeOK
  <2>2. \A i \in 1..n : queue[m][i] \in Range(queue[m])
    BY <2>1 DEF Range
  <2>3. \A i \in 1..n : queue[m][i] # x
    BY <1>1, <2>2 DEF Waiting
  <2> QED
    BY <1>4, <2>3 DEF Inject
<1>5. CASE TurnDone(m) \/ CancelUnstarted(m) \/ CancelStarted(m)
  <2>1. Live(m)
    BY <1>5 DEF TurnDone, CancelUnstarted, CancelStarted, Live, TaskState
  <2>2. x # m
    BY <1>1, <2>1
  <2> QED
    BY <1>5, <2>2 DEF TurnDone, CancelUnstarted, CancelStarted, Finish, TypeOK
<1> QED
  BY <1>2, <1>3, <1>4, <1>5 DEF TaskStep, CancelledError

LEMMA ResultInductive ==
  LoopInv /\ SubagentTypes /\ ResultInv /\ [SubagentsNext]_allVars => ResultInv'
<1> SUFFICES ASSUME TypeOK, OwnersInv, CommandInv, SubagentTypes, ResultInv,
                    [SubagentsNext]_allVars
             PROVE  ResultInv'
  BY DEF LoopInv, HeldInv
<1> USE SubagentsAssumption
<1>1. ASSUME UNCHANGED <<agent, parent>>,
             \A r \in Results : outcome[r] = "unsent" => outcome'[r] = "unsent"
      PROVE  ResultInv'
  BY <1>1 DEF ResultInv, SpawnKey
<1>2. CASE AnswerCommand
  <2>1. UNCHANGED <<agent, parent>> /\ CommandDone /\ command \in Messages
    BY <1>2 DEF AnswerCommand, subagentVars, CommandInv, TypeOK
  <2> QED
    BY <1>1, <2>1, OnlyPublished
<1>3. ASSUME NEW m \in Messages, Dispatch(m) PROVE ResultInv'
  <2>1. UNCHANGED <<agent, parent>>
    BY <1>3 DEF Dispatch, subagentVars
  <2>2. CASE m \notin Results /\ Publish(m)
    BY <1>1, <2>1, <2>2 DEF Publish, TypeOK
  <2>3. CASE Consume(m) \/ TaskStep(m)
    BY <1>1, <2>1, <2>3, OnlyPublished
  <2> QED
    BY <1>3, <2>2, <2>3 DEF Dispatch, TaskStep
<1>4. ASSUME NEW m \in Messages, Drain(m) \/ EndTurn(m) \/ CancelTurn(m) PROVE ResultInv'
  <2>1. UNCHANGED <<agent, parent>> /\ TaskStep(m)
    BY <1>4 DEF Drain, EndTurn, CancelTurn, subagentVars, TaskStep
  <2> QED
    BY <1>1, <2>1, OnlyPublished
<1>5. ASSUME NEW m \in Messages, WaitForResult(m) \/ WaitTimedOut(m) \/ Cancelling(m)
      PROVE  ResultInv'
  <2>1. UNCHANGED <<agent, parent, outcome>>
    BY <1>5 DEF WaitForResult, WaitTimedOut, Cancelling, CancelBySession, vars
  <2> QED
    BY <1>1, <2>1
<1>6. ASSUME NEW m \in Messages, NEW r \in Results, Spawn(m, r) PROVE ResultInv'
  <2>1. /\ outcome' = outcome /\ agent[r] = "none"
        /\ agent' = [agent EXCEPT ![r] = "running"] /\ parent' = [parent EXCEPT ![r] = m]
        /\ ChatKey[r] = SpawnKey(m) /\ ChatOf[r] = ChatOf[m]
    BY <1>6 DEF Spawn, vars
  <2>2. SpawnKey(m) = SpawnKey(r) /\ \A x \in Messages : SpawnKey(x)' = SpawnKey(x)
    BY <2>1 DEF SpawnKey
  <2>3. /\ agent'[r] = "running" /\ parent'[r] = m /\ outcome[r] = "unsent"
        /\ \A x \in Results \ {r} : agent'[x] = agent[x] /\ parent'[x] = parent[x]
    BY <2>1 DEF SubagentTypes, ResultInv
  <2>4. \A x \in Results : outcome'[x] # "unsent" => agent'[x] = "reported"
    BY <2>1, <2>3 DEF ResultInv
  <2>5. ASSUME NEW x \in Results, agent'[x] # "none"
        PROVE  ChatKey[x] = SpawnKey(x) /\ parent'[x] \in Messages /\ SpawnKey(parent'[x]) = SpawnKey(x)
    <3>1. CASE x = r
      BY <2>1, <2>2, <2>3, <3>1
    <3>2. CASE x # r
      BY <2>3, <2>5, <3>2 DEF ResultInv
    <3> QED
      BY <3>1, <3>2
  <2> QED
    BY <2>4, <2>5 DEF ResultInv, SpawnKey
<1>7. ASSUME NEW r \in Results, Report(r) PROVE ResultInv'
  <2>1. /\ agent[r] = "running" /\ agent' = [agent EXCEPT ![r] = "reported"] /\ parent' = parent
        /\ outcome' = [outcome EXCEPT ![r] = "pending"]
    BY <1>7 DEF Report, Publish
  <2> QED
    BY <2>1 DEF ResultInv, SpawnKey, SubagentTypes, TypeOK
<1>8. ASSUME NEW r \in Results, CancelTask(r) \/ EndCancelled(r) PROVE ResultInv'
  <2>1. /\ UNCHANGED <<parent, outcome>> /\ agent[r] = "running"
        /\ agent' = agent \/ agent' = [agent EXCEPT ![r] = "cancelled"]
    BY <1>8 DEF CancelTask, EndCancelled, vars
  <2> QED
    BY <2>1 DEF ResultInv, SpawnKey, SubagentTypes
<1>9. CASE SubagentsQuiescent \/ UNCHANGED allVars
  <2>1. UNCHANGED <<agent, parent, outcome>>
    BY <1>9 DEF SubagentsQuiescent, allVars, subagentVars, vars
  <2> QED
    BY <1>1, <2>1
<1> QED
  BY <1>2, <1>3, <1>4, <1>5, <1>6, <1>7, <1>8, <1>9 DEF SubagentsNext

\* A command holds the session's table empty while it waits for subagents.
CommandHolds(c) == command = c /\ \A t \in awaited[c] : task[t] = "done"
Claims(c, r) == reaping[c] # None /\ r \in reaping[c]
ReapInv ==
  /\ \A c \in Messages : reaping[c] # None =>
       CommandHolds(c) \/ task[c] = "waitingPeers" \/ outcome[c] = "handled"
  /\ \A c \in Messages, r \in Results : Claims(c, r) =>
       /\ agent[r] # "none"
       /\ agent[r] = "running" =>
            ChatKey[r] = CancelKey(c) /\ (CommandHolds(c) \/ task[c] = "waitingPeers")

\* No turn of the session goes on meanwhile: the tasks are done, or cancelled
\* by a /new that waits for them, or they have not got the lock.
LEMMA NoTurnLeft ==
  ASSUME LoopInv, DispatchFacts, NEW c \in Messages,
         CommandHolds(c) \/ task[c] = "waitingPeers",
         NEW m \in Messages, task[m] = "running", m \notin cancelled
  PROVE  EffectiveKey(m) # CancelKey(c)
<1> SUFFICES ASSUME EffectiveKey(m) = CancelKey(c) PROVE FALSE
  OBVIOUS
<1>1. CASE task[c] = "waitingPeers"
  <2>1. EffectiveKey(c) = EffectiveKey(m)
    BY <1>1 DEF CancelKey, DispatchFacts
  <2>2. lockOwner[EffectiveKey(c)] = c /\ lockOwner[EffectiveKey(m)] = m
    BY <1>1 DEF LoopInv, LockInv, HoldsLock
  <2> QED
    BY <1>1, <2>1, <2>2
<1>2. CASE CommandHolds(c)
  <2>1. command # None /\ activeTasks[EffectiveKey(m)] = {}
    BY <1>2, ConstantsAssumption DEF CommandHolds, LoopInv, CommandInv
  <2>2. Live(m) /\ m \notin awaited[c]
    BY <1>2 DEF CommandHolds, Live, TaskState
  <2>3. ~InsideNew(m)
    BY DEF InsideNew, DispatchFacts
  <2> QED
    BY <1>2, <2>1, <2>2, <2>3 DEF LoopInv, ActiveInv, CommandHolds
<1> QED
  BY <1>1, <1>2

\* A step that neither ends a task, nor answers a command, nor claims.
LEMMA ReapUntouched ==
  ASSUME ReapInv, UNCHANGED <<reaping, command>>,
         \A r \in Results : agent'[r] # agent[r] => agent'[r] \notin {"none", "running"},
         \A c \in Messages : CommandHolds(c) => CommandHolds(c)',
         \A c \in Messages : task[c] = "waitingPeers" => task'[c] = "waitingPeers",
         \A c \in Messages : outcome[c] = "handled" => outcome'[c] = "handled"
  PROVE  ReapInv'
<1>1. \A c \in Messages, r \in Results : Claims(c, r)' <=> Claims(c, r)
  BY DEF Claims
<1>2. \A c \in Messages : reaping'[c] # None =>
        CommandHolds(c)' \/ task'[c] = "waitingPeers" \/ outcome'[c] = "handled"
  BY DEF ReapInv
<1>3. ASSUME NEW c \in Messages, NEW r \in Results, Claims(c, r)'
      PROVE  /\ agent'[r] # "none"
             /\ agent'[r] = "running" =>
                  ChatKey[r] = CancelKey(c) /\ (CommandHolds(c)' \/ task'[c] = "waitingPeers")
  <2>1. Claims(c, r)
    BY <1>1, <1>3
  <2>2. agent[r] # "none"
    BY <2>1 DEF ReapInv
  <2>3. agent'[r] # "none"
    BY <2>2
  <2>4. ASSUME agent'[r] = "running"
        PROVE ChatKey[r] = CancelKey(c) /\ (CommandHolds(c)' \/ task'[c] = "waitingPeers")
    <3>1. agent[r] = "running"
      BY <2>4
    <3> QED
      BY <2>1, <3>1 DEF ReapInv
  <2> QED
    BY <2>3, <2>4
<1> QED
  BY <1>2, <1>3 DEF ReapInv, CancelKey, EffectiveKey

LEMMA ReapInductive ==
  LoopInv /\ DispatchFacts /\ SubagentTypes /\ ReapInv /\ [SubagentsNext]_allVars => ReapInv'
<1> SUFFICES ASSUME LoopInv, DispatchFacts, SubagentTypes, ReapInv, [SubagentsNext]_allVars
             PROVE  ReapInv'
  OBVIOUS
<1>0. TypeOK /\ OwnersInv /\ CommandInv
  BY DEF LoopInv, HeldInv
<1> USE ConstantsAssumption, SubagentsAssumption
<1>1. CASE AnswerCommand
  <2>1. PICK d \in Messages : command = d
    BY <1>0, <1>1 DEF AnswerCommand, CommandInv, TypeOK
  <2>2. /\ UNCHANGED <<reaping, agent, task, awaited>> /\ command' = None
        /\ outcome' = [outcome EXCEPT ![d] = "handled"] /\ Reaped(d)
    BY <1>1, <2>1 DEF AnswerCommand, CommandDone, subagentVars, taskVars
  <2>3. \A c \in Messages : outcome[c] = "handled" \/ c = d => outcome'[c] = "handled"
    BY <1>0, <2>2 DEF TypeOK
  <2>4. \A c \in Messages : CommandHolds(c) => c = d
    BY <2>1 DEF CommandHolds
  <2>5. \A c \in Messages : reaping'[c] # None =>
          CommandHolds(c)' \/ task'[c] = "waitingPeers" \/ outcome'[c] = "handled"
    BY <2>2, <2>3, <2>4 DEF ReapInv
  <2>6. \A r \in Results : Claims(d, r) => agent[r] # "running"
    BY <2>2 DEF Claims, Reaped
  <2>7. ASSUME NEW c \in Messages, NEW r \in Results, Claims(c, r)'
        PROVE  /\ agent'[r] # "none"
               /\ agent'[r] = "running" => ChatKey[r] = CancelKey(c) /\ task'[c] = "waitingPeers"
    <3>1. Claims(c, r)
      BY <2>2, <2>7 DEF Claims
    <3> QED
      BY <2>2, <2>4, <2>6, <3>1 DEF ReapInv
  <2> QED
    BY <2>5, <2>7 DEF ReapInv, CancelKey, EffectiveKey
<1>2. ASSUME NEW m \in Messages, m \notin Results \/ agent[m] = "running", Publish(m),
             UNCHANGED reaping,
             \A r \in Results : agent'[r] # agent[r] => agent'[r] \notin {"none", "running"}
      PROVE  ReapInv'
  <2>1. /\ UNCHANGED <<task, awaited, command>> /\ outcome[m] = "unsent"
        /\ outcome' = [outcome EXCEPT ![m] = "pending"]
    BY <1>2 DEF Publish, taskVars, loopVars
  <2>2. \A c \in Messages : outcome[c] = "handled" => outcome'[c] = "handled"
    BY <1>0, <2>1 DEF TypeOK
  <2>3. \A c \in Messages : CommandHolds(c) => CommandHolds(c)'
    BY <2>1 DEF CommandHolds
  <2> QED
    BY <1>2, <2>1, <2>2, <2>3, ReapUntouched
<1>3. ASSUME NEW m \in Messages, Consume(m), UNCHANGED subagentVars PROVE ReapInv'
  <2>1. command = None /\ Waiting(m) /\ outcome' = outcome
    <3>1. /\ loop # "stopping" /\ inbound # <<>> /\ m = Head(inbound)
          /\ RouteToPending(m) \/ CreateTask(m) \/ HandleInline(m)
      BY <1>3 DEF Consume, MayConsume
    <3>2. command = None
      BY <1>0, <3>1 DEF CommandInv
    <3>3. m \in Range(inbound)
      BY <1>0, <3>1 DEF TypeOK, Range
    <3>4. outcome' = outcome
      BY <3>1 DEF RouteToPending, CreateTask, HandleInline
    <3> QED
      BY <3>2, <3>3, <3>4 DEF Waiting
  <2>2. outcome[m] = "pending" /\ ~Live(m) /\ command # m
    BY <1>0, <2>1 DEF DispatchFacts, OwnersInv
  <2>3. reaping[m] = None
    BY <2>1, <2>2 DEF ReapInv, CommandHolds, Live, TaskState
  <2>4. \A c \in Messages \ {m} : task'[c] = task[c]
    BY <1>0, <1>3 DEF Consume, RouteToPending, CreateTask, HandleInline, TypeOK
  <2>5. UNCHANGED <<reaping, agent>>
    BY <1>3 DEF subagentVars
  <2>6. \A c \in Messages : ~CommandHolds(c)
    BY <2>1 DEF CommandHolds
  <2>7. ASSUME NEW c \in Messages, reaping'[c] # None
        PROVE  task'[c] = "waitingPeers" \/ outcome'[c] = "handled"
    <3>1. c # m
      BY <2>3, <2>5, <2>7
    <3> QED
      BY <2>1, <2>4, <2>5, <2>6, <2>7, <3>1 DEF ReapInv
  <2>8. ASSUME NEW c \in Messages, NEW r \in Results, Claims(c, r)'
        PROVE  /\ agent'[r] # "none"
               /\ agent'[r] = "running" => ChatKey[r] = CancelKey(c) /\ task'[c] = "waitingPeers"
    <3>1. Claims(c, r) /\ c # m
      BY <2>3, <2>5, <2>8 DEF Claims
    <3> QED
      BY <2>4, <2>5, <2>6, <3>1 DEF ReapInv
  <2> QED
    BY <2>7, <2>8 DEF ReapInv, CancelKey, EffectiveKey
<1>4. ASSUME NEW m \in Messages, DispatchStart(m) \/ LockAcquire(m) \/ GateAcquire(m),
             UNCHANGED subagentVars
      PROVE  ReapInv'
  <2>1. /\ UNCHANGED <<reaping, agent, command, outcome>> /\ Live(m)
        /\ task[m] \in {"created", "lock", "gate"}
    BY <1>4 DEF DispatchStart, LockAcquire, GateAcquire, subagentVars, loopVars, Live, TaskState
  <2>2. \A c \in Messages \ {m} : task'[c] = task[c] /\ awaited'[c] = awaited[c]
    BY <1>0, <1>4 DEF DispatchStart, LockAcquire, GateAcquire, CancelActive, TypeOK
  <2>3. ASSUME NEW c \in Messages, CommandHolds(c) PROVE CommandHolds(c)'
    <3>1. c # m
      BY <1>0, <2>1, <2>3 DEF OwnersInv, CommandHolds
    <3>2. \A t \in awaited[c] : t # m
      BY <2>1, <2>3 DEF CommandHolds
    <3>3. awaited[c] \subseteq Messages
      BY <1>0 DEF TypeOK
    <3> QED
      BY <2>1, <2>2, <2>3, <3>1, <3>2, <3>3 DEF CommandHolds
  <2> QED
    BY <2>1, <2>2, <2>3, ReapUntouched
<1>5. ASSUME NEW m \in Messages, Dispatch(m) PROVE ReapInv'
  <2>1. UNCHANGED subagentVars
    BY <1>5 DEF Dispatch
  <2>2. UNCHANGED <<reaping, agent>>
    BY <2>1 DEF subagentVars
  <2> QED
    BY <1>2, <1>3, <1>4, <1>5, <2>1, <2>2 DEF Dispatch
<1>6. ASSUME UNCHANGED <<vars, reaping>>,
             \A r \in Results : agent'[r] # agent[r] => agent'[r] \notin {"none", "running"}
      PROVE  ReapInv'
  BY <1>6, ReapUntouched DEF vars, loopVars, taskVars, CommandHolds
<1>7. ASSUME NEW m \in Messages, WaitForResult(m) \/ WaitTimedOut(m) PROVE ReapInv'
  BY <1>6, <1>7 DEF WaitForResult, WaitTimedOut
<1>8. ASSUME NEW m \in Messages, Drain(m) PROVE ReapInv'
  <2>1. /\ UNCHANGED <<reaping, agent, command, task, awaited>>
    BY <1>8 DEF Drain, Inject, loopVars
  <2>2. \A c \in Messages : outcome[c] = "handled" => outcome'[c] = "handled"
    <3> DEFINE n == IF Len(queue[m]) < InjectLimit THEN Len(queue[m]) ELSE InjectLimit
    <3>1. queue[m] \in Seq(Messages) /\ n \in Nat /\ n <= Len(queue[m]) /\ Len(queue[m]) \in Nat
      BY <1>0 DEF TypeOK
    <3>2. \A i \in 1..n : queue[m][i] \in Messages /\ Waiting(queue[m][i])
      BY <3>1 DEF Waiting, Range
    <3>3. \A i \in 1..n : outcome[queue[m][i]] = "pending"
      BY <3>2 DEF DispatchFacts
    <3> QED
      BY <1>8, <3>3 DEF Drain, Inject
  <2>3. \A c \in Messages : CommandHolds(c) => CommandHolds(c)'
    BY <2>1 DEF CommandHolds
  <2> QED
    BY <2>1, <2>2, <2>3, ReapUntouched
<1>9. ASSUME NEW d \in Messages, Cancelling(d) PROVE ReapInv'
  <2>1. /\ UNCHANGED <<agent, command, task, awaited, outcome>> /\ reaping[d] = None
        /\ reaping' = [reaping EXCEPT ![d] = RunningFor(CancelKey(d))]
        /\ CommandHolds(d) \/ task[d] = "waitingPeers"
    BY <1>9 DEF Cancelling, CancelBySession, vars, loopVars, taskVars, CommandHolds
  <2>2. /\ reaping'[d] = RunningFor(CancelKey(d))
        /\ \A c \in Messages \ {d} : reaping'[c] = reaping[c]
    BY <2>1 DEF SubagentTypes
  <2>3. \A c \in Messages : CommandHolds(c)' <=> CommandHolds(c)
    BY <2>1 DEF CommandHolds
  <2>4. ASSUME NEW c \in Messages, reaping'[c] # None
        PROVE  CommandHolds(c) \/ task[c] = "waitingPeers" \/ outcome[c] = "handled"
    BY <2>1, <2>2, <2>4 DEF ReapInv
  <2>5. ASSUME NEW c \in Messages, NEW r \in Results, Claims(c, r)'
        PROVE  /\ agent[r] # "none"
               /\ agent[r] = "running" =>
                    ChatKey[r] = CancelKey(c) /\ (CommandHolds(c) \/ task[c] = "waitingPeers")
    <3>1. CASE c = d
      BY <2>1, <2>2, <2>5, <3>1 DEF Claims, RunningFor
    <3>2. CASE c # d
      <4>1. Claims(c, r)
        BY <2>2, <2>5, <3>2 DEF Claims
      <4> QED
        BY <4>1 DEF ReapInv
    <3> QED
      BY <3>1, <3>2
  <2> QED
    BY <2>1, <2>3, <2>4, <2>5 DEF ReapInv, CancelKey, EffectiveKey
<1>10. ASSUME NEW m \in Messages, NEW result \in {"handled", "cancelled"}, Finish(m, result),
              Live(m), task[m] = "waitingPeers" => result = "handled" /\ Reaped(m),
              UNCHANGED <<reaping, agent>>
       PROVE  ReapInv'
  <2>1. /\ task' = [task EXCEPT ![m] = "done"] /\ UNCHANGED <<command, awaited>>
        /\ outcome' = [outcome EXCEPT ![m] = result]
    BY <1>10 DEF Finish, loopVars
  <2>2. /\ task'[m] = "done" /\ outcome'[m] = result
        /\ \A c \in Messages \ {m} : task'[c] = task[c] /\ outcome'[c] = outcome[c]
    BY <1>0, <2>1 DEF TypeOK, TaskState
  <2>3. ASSUME NEW c \in Messages, CommandHolds(c) PROVE CommandHolds(c)' /\ c # m
    <3>1. c # m
      BY <1>0, <1>10, <2>3 DEF OwnersInv, CommandHolds
    <3>2. \A t \in awaited[c] : t \in Messages /\ task'[t] = "done"
      BY <1>0, <2>2, <2>3 DEF CommandHolds, TypeOK
    <3> QED
      BY <2>1, <2>3, <3>1, <3>2 DEF CommandHolds
  <2>4. outcome[m] # "handled"
    BY <1>10 DEF DispatchFacts
  <2>5. ASSUME NEW c \in Messages, reaping'[c] # None
        PROVE  CommandHolds(c)' \/ task'[c] = "waitingPeers" \/ outcome'[c] = "handled"
    BY <1>10, <2>2, <2>3, <2>4, <2>5 DEF ReapInv
  <2>6. ASSUME NEW c \in Messages, NEW r \in Results, Claims(c, r)'
        PROVE  /\ agent'[r] # "none"
               /\ agent'[r] = "running" =>
                    ChatKey[r] = CancelKey(c) /\ (CommandHolds(c)' \/ task'[c] = "waitingPeers")
    <3>1. Claims(c, r)
      BY <1>10, <2>6 DEF Claims
    <3>2. CASE c = m /\ agent[r] = "running"
      <4>1. task[m] = "waitingPeers"
        BY <2>3, <3>1, <3>2 DEF ReapInv
      <4> QED
        BY <1>10, <3>1, <3>2, <4>1 DEF Reaped, Claims
    <3>3. CASE c # m \/ agent[r] # "running"
      BY <1>10, <2>2, <2>3, <3>1, <3>3 DEF ReapInv
    <3> QED
      BY <3>2, <3>3
  <2> QED
    BY <2>5, <2>6 DEF ReapInv, CancelKey, EffectiveKey
<1>11. ASSUME NEW m \in Messages, EndTurn(m) PROVE ReapInv'
  BY <1>10, <1>11 DEF EndTurn, TurnDone, Live, TaskState, subagentVars
<1>12. ASSUME NEW m \in Messages, CancelTurn(m) PROVE ReapInv'
  <2>1. Finish(m, "cancelled") /\ Live(m) /\ task[m] # "waitingPeers"
    BY <1>12 DEF CancelTurn, CancelledError, CancelUnstarted, CancelStarted, Live, TaskState
  <2>2. UNCHANGED <<reaping, agent>>
    BY <1>12 DEF CancelTurn
  <2> QED
    BY <1>10, <2>1, <2>2
<1>13. ASSUME NEW m \in Messages, NEW r \in Results, Spawn(m, r) PROVE ReapInv'
  <2>1. /\ UNCHANGED vars /\ reaping' = reaping /\ agent[r] = "none"
        /\ agent' = [agent EXCEPT ![r] = "running"]
    BY <1>13 DEF Spawn
  <2>2. /\ agent'[r] = "running" /\ \A x \in Results \ {r} : agent'[x] = agent[x]
        /\ \A c \in Messages : ~Claims(c, r)
    BY <2>1 DEF SubagentTypes, ReapInv
  <2>3. UNCHANGED <<command, task, awaited, outcome>>
    BY <2>1 DEF vars, loopVars, taskVars
  <2>4. \A c \in Messages, x \in Results : Claims(c, x)' <=> Claims(c, x)
    BY <2>1 DEF Claims
  <2>5. \A c \in Messages : CommandHolds(c)' <=> CommandHolds(c)
    BY <2>3 DEF CommandHolds
  <2>6. \A c \in Messages : reaping'[c] # None =>
          CommandHolds(c)' \/ task'[c] = "waitingPeers" \/ outcome'[c] = "handled"
    BY <2>1, <2>3, <2>5 DEF ReapInv
  <2>7. ASSUME NEW c \in Messages, NEW x \in Results, Claims(c, x)'
        PROVE  /\ agent'[x] # "none"
               /\ agent'[x] = "running" =>
                    ChatKey[x] = CancelKey(c) /\ (CommandHolds(c)' \/ task'[c] = "waitingPeers")
    <3>1. Claims(c, x) /\ x # r
      BY <2>2, <2>4, <2>7
    <3> QED
      BY <2>2, <2>3, <2>5, <3>1 DEF ReapInv
  <2> QED
    BY <2>6, <2>7 DEF ReapInv, CancelKey, EffectiveKey
<1>14. ASSUME NEW r \in Results, Report(r) PROVE ReapInv'
  <2>1. /\ Publish(r) /\ agent[r] = "running" /\ UNCHANGED reaping
        /\ agent' = [agent EXCEPT ![r] = "reported"]
    BY <1>14 DEF Report
  <2>2. \A x \in Results : agent'[x] # agent[x] => agent'[x] \notin {"none", "running"}
    BY <2>1 DEF SubagentTypes
  <2> QED
    BY <1>2, <2>1, <2>2
<1>15. ASSUME NEW r \in Results, CancelTask(r) \/ EndCancelled(r) PROVE ReapInv'
  <2>1. /\ UNCHANGED <<vars, reaping>>
        /\ agent' = agent \/ agent' = [agent EXCEPT ![r] = "cancelled"]
    BY <1>15 DEF CancelTask, EndCancelled
  <2>2. \A x \in Results : agent'[x] # agent[x] => agent'[x] \notin {"none", "running"}
    BY <2>1 DEF SubagentTypes
  <2> QED
    BY <1>6, <2>1, <2>2
<1>16. CASE SubagentsQuiescent \/ UNCHANGED allVars
  <2>1. UNCHANGED <<vars, reaping, agent>>
    BY <1>16 DEF SubagentsQuiescent, allVars, subagentVars
  <2> QED
    BY <1>6, <2>1
<1> QED
  BY <1>1, <1>5, <1>7, <1>8, <1>9, <1>11, <1>12, <1>13, <1>14, <1>15, <1>16 DEF SubagentsNext

\* Something will wake turn m: a message in its queue, one on the way that will
\* get there, or a subagent of its session. It may wait for nothing only when
\* the queue registered for its session is not its own, or when a subagent was
\* cancelled that no command has claimed.
ComingIn(m, i) == EffectiveKey(inbound[i]) = EffectiveKey(m) /\ Kind[inbound[i]] = "chat"
NewsComing(m) ==
  \/ queue[m] # <<>> \/ \E i \in DOMAIN inbound : ComingIn(m, i)
  \/ RunningFor(SessionOf(m)) # {}
SilentlyCancelled == \E r \in doomed : agent[r] = "cancelled" /\ \A c \in Messages : ~Claims(c, r)
WaitReason(m) == NewsComing(m) \/ pendingQueues[EffectiveKey(m)] # m \/ SilentlyCancelled
WaitInv ==
  /\ \A m \in waiting : task[m] = "running"
  /\ \A m \in waiting \ cancelled : WaitReason(m)

\* A subagent of the session a turn works on reports to that turn's session.
LEMMA SessionKey ==
  ASSUME ResultInv, NEW m \in Messages, outcome[m] # "unsent",
         NEW r \in Results, agent[r] # "none", ChatKey[r] = SessionOf(m)
  PROVE  EffectiveKey(r) = EffectiveKey(m)
BY SubagentsAssumption DEF ResultInv, SessionOf, EffectiveKey, SpawnKey

\* Steps that touch neither queues nor registrations nor running subagents.
LEMMA ReasonUntouched ==
  ASSUME NEW m \in Messages, WaitReason(m), UNCHANGED <<inbound, queue, pendingQueues>>,
         \A r \in Results : agent[r] \in {"running", "cancelled"} => agent'[r] = agent[r],
         doomed \subseteq doomed', doomed \subseteq Results,
         \A c \in Messages, r \in Results : Claims(c, r)' /\ ~Claims(c, r) => agent[r] = "running"
  PROVE  WaitReason(m)'
<1>1. SessionOf(m)' = SessionOf(m)
  BY DEF EffectiveKey, SessionOf
<1>2. RunningFor(SessionOf(m)) \subseteq RunningFor(SessionOf(m))'
  BY <1>1 DEF RunningFor
<1>3. SilentlyCancelled => SilentlyCancelled'
  BY DEF SilentlyCancelled
<1> QED
  BY <1>2, <1>3 DEF WaitReason, NewsComing, ComingIn, EffectiveKey

\* Steps of the dispatcher that leave the subagents alone: what is in m's queue
\* or on the way stays, or the registration of m ends.
LEMMA ReasonKept ==
  ASSUME NEW m \in Messages, WaitReason(m), UNCHANGED <<agent, doomed, reaping>>,
         pendingQueues[EffectiveKey(m)] # m => pendingQueues'[EffectiveKey(m)] # m,
         queue[m] # <<>> => queue'[m] # <<>> \/ pendingQueues'[EffectiveKey(m)] # m,
         \A i \in DOMAIN inbound : ComingIn(m, i) =>
           \/ \E j \in DOMAIN inbound' : inbound'[j] = inbound[i]
           \/ queue'[m] # <<>> \/ pendingQueues'[EffectiveKey(m)] # m
  PROVE  WaitReason(m)'
<1>1. SilentlyCancelled' = SilentlyCancelled
  BY DEF SilentlyCancelled, Claims
<1>2. RunningFor(SessionOf(m))' = RunningFor(SessionOf(m))
  BY DEF RunningFor, SessionOf, EffectiveKey
<1> QED
  BY <1>1, <1>2 DEF WaitReason, NewsComing, ComingIn, EffectiveKey

LEMMA AppendedNotEmpty ==
  ASSUME NEW s \in Seq(Messages), NEW x \in Messages
  PROVE  Append(s, x) # <<>>
<1>1. Len(Append(s, x)) = Len(s) + 1 /\ Len(s) \in Nat /\ Len(<<>>) = 0
  BY AppendProperties
<1> QED
  BY <1>1

\* What run() does with the next message, for a turn that waits.
LEMMA ReasonConsume ==
  ASSUME TypeOK, NEW m \in Messages, WaitReason(m), NEW x \in Messages, Consume(x),
         UNCHANGED subagentVars
  PROVE  WaitReason(m)'
<1> USE ConstantsAssumption, EffectiveKeyType
<1>1. /\ inbound # <<>> /\ x = Head(inbound) /\ inbound' = Tail(inbound)
      /\ inbound \in Seq(Messages) /\ UNCHANGED pendingQueues
      /\ UNCHANGED <<agent, doomed, reaping>>
  BY DEF Consume, MayConsume, RouteToPending, CreateTask, HandleInline, TypeOK, subagentVars
<1>2. ASSUME NEW i \in DOMAIN inbound, i # 1
      PROVE  \E j \in DOMAIN inbound' : inbound'[j] = inbound[i]
  <2>1. i - 1 \in DOMAIN inbound' /\ inbound'[i - 1] = inbound[i]
    BY <1>1, <1>2
  <2> QED
    BY <2>1
<1>3. inbound[1] = x
  BY <1>1
<1>4. queue[m] # <<>> => queue'[m] # <<>>
  <2>1. CASE UNCHANGED queue
    BY <2>1
  <2>2. CASE RouteToPending(x)
    <3>1. PICK o \in Messages : o = pendingQueues[EffectiveKey(x)]
      BY <2>2 DEF RouteToPending, TypeOK
    <3>2. queue'[o] = Append(queue[o], x) /\ \A t \in Messages \ {o} : queue'[t] = queue[t]
      BY <2>2, <3>1 DEF RouteToPending, TypeOK
    <3>3. Append(queue[o], x) # <<>>
      BY AppendedNotEmpty DEF TypeOK
    <3> QED
      BY <3>2, <3>3
  <2> QED
    BY <2>1, <2>2 DEF Consume, CreateTask, HandleInline
<1>5. ASSUME ComingIn(m, 1), pendingQueues[EffectiveKey(m)] = m PROVE queue'[m] # <<>>
  <2>1. EffectiveKey(x) = EffectiveKey(m) /\ Kind[x] = "chat" /\ m # None
    BY <1>3, <1>5 DEF ComingIn
  <2>2. CASE RouteToPending(x)
    <3>1. queue'[m] = Append(queue[m], x)
      BY <1>5, <2>1, <2>2 DEF RouteToPending, TypeOK
    <3>2. Append(queue[m], x) # <<>>
      BY AppendedNotEmpty DEF TypeOK
    <3> QED
      BY <3>1, <3>2
  <2>3. CASE CreateTask(x)
    <3>1. Len(queue[m]) = PendingCapacity /\ queue' = queue
      BY <1>5, <2>1, <2>3 DEF CreateTask
    <3>2. PendingCapacity # 0 /\ Len(<<>>) = 0
      OBVIOUS
    <3>3. queue[m] # <<>>
      BY <3>1, <3>2
    <3> QED
      BY <3>1, <3>3
  <2>4. CASE HandleInline(x)
    BY <2>1, <2>4 DEF HandleInline
  <2> QED
    BY <2>2, <2>3, <2>4 DEF Consume
<1>6. \A i \in DOMAIN inbound : ComingIn(m, i) =>
        \/ \E j \in DOMAIN inbound' : inbound'[j] = inbound[i]
        \/ queue'[m] # <<>> \/ pendingQueues'[EffectiveKey(m)] # m
  BY <1>1, <1>2, <1>5
<1> QED
  BY <1>1, <1>4, <1>6, ReasonKept

\* The end of another turn of the loop.
LEMMA ReasonUnregister ==
  ASSUME TypeOK, DispatchFacts, NEW m \in Messages, WaitReason(m),
         NEW k \in Keys, Unregister(k), UNCHANGED <<agent, doomed, reaping>>
  PROVE  WaitReason(m)'
<1> USE ConstantsAssumption, EffectiveKeyType
<1>1. pendingQueues' = [pendingQueues EXCEPT ![k] = None]
  BY DEF Unregister
<1>2. pendingQueues[EffectiveKey(m)] # m => pendingQueues'[EffectiveKey(m)] # m
  BY <1>1 DEF TypeOK
<1>3. queue'[m] = queue[m] \/ pendingQueues'[EffectiveKey(m)] # m
  <2>1. CASE pendingQueues[k] = m
    <3>1. EffectiveKey(m) = k
      BY <2>1 DEF DispatchFacts
    <3> QED
      BY <1>1, <3>1 DEF TypeOK
  <2>2. CASE pendingQueues[k] # m
    BY <2>2 DEF Unregister, TypeOK
  <2> QED
    BY <2>1, <2>2
<1>4. \A i \in DOMAIN inbound : \E j \in DOMAIN inbound' : inbound'[j] = inbound[i]
  <2>1. CASE pendingQueues[k] = None
    BY <2>1 DEF Unregister
  <2>2. CASE pendingQueues[k] # None
    <3>1. PICK b \in Seq(Messages), s \in Seq(Messages) : b = inbound /\ inbound' = b \o s
      BY <2>2 DEF Unregister, TypeOK
    <3>2. \A i \in DOMAIN b : i \in DOMAIN (b \o s) /\ (b \o s)[i] = b[i]
      BY ConcatProperties
    <3> QED
      BY <3>1, <3>2
  <2> QED
    BY <2>1, <2>2
<1> QED
  BY <1>2, <1>3, <1>4, ReasonKept

\* A result that arrives, for a turn that waits for it.
LEMMA ReasonReport ==
  ASSUME TypeOK, SubagentTypes, ResultInv, NEW m \in Messages, WaitReason(m),
         outcome[m] # "unsent", NEW r \in Results, Report(r)
  PROVE  WaitReason(m)'
<1> USE SubagentsAssumption
<1>1. /\ inbound' = Append(inbound, r) /\ UNCHANGED <<queue, pendingQueues, doomed, reaping>>
      /\ agent[r] = "running" /\ agent' = [agent EXCEPT ![r] = "reported"]
      /\ inbound \in Seq(Messages)
  BY DEF Report, Publish, taskVars, TypeOK
<1>2. /\ \A i \in DOMAIN inbound : i \in DOMAIN inbound' /\ inbound'[i] = inbound[i]
      /\ Len(inbound) + 1 \in DOMAIN inbound' /\ inbound'[Len(inbound) + 1] = r
  BY <1>1, AppendProperties
<1>3. \A x \in Results \ {r} : agent'[x] = agent[x]
  BY <1>1 DEF SubagentTypes
<1>4. CASE r \in RunningFor(SessionOf(m))
  <2>1. EffectiveKey(r) = EffectiveKey(m) /\ Kind[r] = "chat"
    BY <1>1, <1>4, SessionKey DEF RunningFor
  <2>2. PICK i : i = Len(inbound) + 1
    OBVIOUS
  <2>3. i \in DOMAIN inbound' /\ ComingIn(m, i)'
    BY <1>2, <2>1, <2>2 DEF ComingIn, EffectiveKey
  <2> QED
    BY <2>3 DEF WaitReason, NewsComing
<1>5. CASE r \notin RunningFor(SessionOf(m))
  <2>1. RunningFor(SessionOf(m)) \subseteq RunningFor(SessionOf(m))'
    BY <1>1, <1>3, <1>5 DEF RunningFor, SessionOf, EffectiveKey
  <2>2. SilentlyCancelled => SilentlyCancelled'
    BY <1>1, <1>3 DEF SilentlyCancelled, Claims, SubagentTypes
  <2> QED
    BY <1>1, <1>2, <2>1, <2>2 DEF WaitReason, NewsComing, ComingIn, EffectiveKey
<1> QED
  BY <1>4, <1>5

\* A subagent that ends without a result: a command that claimed it has ended
\* the turns of its session before.
LEMMA ReasonEndCancelled ==
  ASSUME LoopInv, DispatchFacts, SubagentTypes, ResultInv, ReapInv,
         NEW m \in Messages, WaitReason(m), task[m] = "running", m \notin cancelled,
         NEW r \in Results, EndCancelled(r)
  PROVE  WaitReason(m)'
<1>1. /\ UNCHANGED <<inbound, queue, pendingQueues, doomed, reaping>>
      /\ r \in doomed /\ agent[r] = "running" /\ agent' = [agent EXCEPT ![r] = "cancelled"]
  BY DEF EndCancelled, vars, taskVars
<1>2. agent'[r] = "cancelled" /\ \A x \in Results \ {r} : agent'[x] = agent[x]
  BY <1>1 DEF SubagentTypes
<1>3. SilentlyCancelled => SilentlyCancelled'
  BY <1>1, <1>2 DEF SilentlyCancelled, Claims, SubagentTypes
<1>4. CASE \E c \in Messages : Claims(c, r)
  <2>1. PICK c \in Messages : Claims(c, r)
    BY <1>4
  <2>2. ChatKey[r] = CancelKey(c) /\ (CommandHolds(c) \/ task[c] = "waitingPeers")
    BY <1>1, <2>1 DEF ReapInv
  <2>3. EffectiveKey(m) # CancelKey(c)
    BY <2>2, NoTurnLeft
  <2>4. ChatKey[r] # SessionOf(m)
    <3>1. outcome[m] # "unsent"
      BY DEF DispatchFacts, Live, TaskState
    <3>2. ASSUME ChatKey[r] = SessionOf(m) PROVE EffectiveKey(m) = ChatKey[r]
      <4>1. EffectiveKey(r) = EffectiveKey(m)
        BY <1>1, <3>1, <3>2, SessionKey
      <4>2. ChatKey[r] = SpawnKey(r)
        BY <1>1 DEF ResultInv
      <4> QED
        BY <4>1, <4>2 DEF EffectiveKey, SpawnKey
    <3> QED
      BY <2>2, <2>3, <3>2
  <2>5. RunningFor(SessionOf(m)) \subseteq RunningFor(SessionOf(m))'
    BY <1>2, <2>4 DEF RunningFor, SessionOf, EffectiveKey
  <2> QED
    BY <1>1, <1>3, <2>5 DEF WaitReason, NewsComing, ComingIn, EffectiveKey
<1>5. CASE ~ \E c \in Messages : Claims(c, r)
  <2>1. SilentlyCancelled'
    BY <1>1, <1>2, <1>5 DEF SilentlyCancelled, Claims
  <2> QED
    BY <2>1 DEF WaitReason
<1> QED
  BY <1>4, <1>5

SubagentInv == LoopInv /\ DispatchFacts /\ SubagentTypes /\ ResultInv /\ ReapInv

\* A turn that waits is inside the lock, so it leaves its wait before it ends.
LEMMA WaitersRun ==
  SubagentInv /\ WaitInv /\ [SubagentsNext]_allVars => \A m \in waiting' : task'[m] = "running"
<1> SUFFICES ASSUME SubagentInv, WaitInv, [SubagentsNext]_allVars, NEW m \in waiting'
             PROVE  task'[m] = "running"
  OBVIOUS
<1>0. TypeOK /\ OwnersInv /\ CommandInv /\ SubagentTypes
  BY DEF SubagentInv, LoopInv, HeldInv
<1>1. m \in waiting => task[m] = "running" /\ m \in Messages
  BY <1>0 DEF WaitInv, SubagentTypes
<1>2. CASE UNCHANGED <<task, waiting>>
  BY <1>1, <1>2
<1>3. CASE AnswerCommand \/ SubagentsQuiescent \/ UNCHANGED allVars
  BY <1>2, <1>3 DEF AnswerCommand, CommandDone, SubagentsQuiescent, allVars, vars, taskVars,
                    subagentVars
<1>4. ASSUME NEW x \in Messages, Dispatch(x) PROVE task'[m] = "running"
  <2>1. m \in waiting
    BY <1>4 DEF Dispatch, subagentVars
  <2>2. x # m => task'[m] = task[m]
    BY <1>0, <1>1, <1>4, <2>1 DEF Dispatch, Publish, Consume, RouteToPending, CreateTask,
       HandleInline, DispatchStart, LockAcquire, GateAcquire, taskVars, TypeOK
  <2>3. CASE x = m
    <3>1. CASE Publish(m)
      BY <1>1, <2>1, <3>1 DEF Publish, taskVars
    <3>2. CASE Consume(m)
      <4>1. ~Live(m)
        BY <1>0, <1>1, <2>1, <3>2 DEF Consume, MayConsume, OwnersInv, Waiting, Range, TypeOK
      <4> QED
        BY <1>1, <2>1, <4>1 DEF Live, TaskState
    <3>3. CASE DispatchStart(m) \/ LockAcquire(m) \/ GateAcquire(m)
      BY <1>1, <2>1, <3>3 DEF DispatchStart, LockAcquire, GateAcquire
    <3> QED
      BY <1>4, <2>3, <3>1, <3>2, <3>3 DEF Dispatch
  <2> QED
    BY <1>1, <2>1, <2>2, <2>3
<1>5. ASSUME NEW x \in Messages, WaitForResult(x) \/ WaitTimedOut(x) \/ Cancelling(x)
      PROVE  task'[m] = "running"
  BY <1>1, <1>5 DEF WaitForResult, WaitTimedOut, Cancelling, CancelBySession, InTurn, vars, taskVars
<1>6. ASSUME NEW x \in Messages, Drain(x) PROVE task'[m] = "running"
  BY <1>1, <1>6 DEF Drain, Inject
<1>7. ASSUME NEW x \in Messages, EndTurn(x) \/ CancelTurn(x) PROVE task'[m] = "running"
  <2>1. m \in waiting /\ m # x
    BY <1>7 DEF EndTurn, CancelTurn, subagentVars
  <2> QED
    BY <1>0, <1>1, <1>7, <2>1 DEF EndTurn, TurnDone, CancelTurn, CancelledError, CancelUnstarted,
       CancelStarted, Finish, TypeOK
<1>8. ASSUME NEW x \in Messages, NEW r \in Results, Spawn(x, r) PROVE task'[m] = "running"
  BY <1>2, <1>8 DEF Spawn, vars, taskVars
<1>9. ASSUME NEW r \in Results, Report(r) \/ CancelTask(r) \/ EndCancelled(r)
      PROVE  task'[m] = "running"
  BY <1>2, <1>9 DEF Report, Publish, CancelTask, EndCancelled, vars, taskVars
<1> QED
  BY <1>3, <1>4, <1>5, <1>6, <1>7, <1>8, <1>9 DEF SubagentsNext

\* What was cancelled stays cancelled.
LEMMA CancelledGrows == [Next]_vars => cancelled \subseteq cancelled'
<1> SUFFICES ASSUME [Next]_vars PROVE cancelled \subseteq cancelled'
  OBVIOUS
<1>1. CASE CommandDone \/ UNCHANGED vars
  BY <1>1 DEF CommandDone, vars, taskVars
<1>2. ASSUME NEW m \in Messages, Publish(m) \/ DispatchStart(m) \/ LockAcquire(m) \/ Inject(m)
      PROVE  UNCHANGED cancelled
  BY <1>2 DEF Publish, DispatchStart, LockAcquire, Inject, taskVars
<1>3. ASSUME NEW m \in Messages, TurnDone(m) \/ CancelledError(m) PROVE UNCHANGED cancelled
  BY <1>3 DEF TurnDone, CancelledError, CancelUnstarted, CancelStarted, Finish
<1>4. ASSUME NEW m \in Messages, GateAcquire(m) \/ Consume(m) PROVE cancelled \subseteq cancelled'
  BY <1>4 DEF GateAcquire, Consume, RouteToPending, CreateTask, HandleInline, CancelActive
<1> QED
  BY <1>1, <1>2, <1>3, <1>4 DEF Next, TaskStep, Quiescent

LEMMA WaitInductive == SubagentInv /\ WaitInv /\ [SubagentsNext]_allVars => WaitInv'
<1> SUFFICES ASSUME SubagentInv, WaitInv, [SubagentsNext]_allVars,
                    NEW m \in waiting', m \notin cancelled'
             PROVE  WaitReason(m)'
  BY WaitersRun DEF WaitInv
<1>0. /\ LoopInv /\ DispatchFacts /\ SubagentTypes /\ ResultInv /\ ReapInv
      /\ TypeOK /\ OwnersInv /\ CommandInv /\ SubagentTypes
  BY DEF SubagentInv, LoopInv, HeldInv
<1> USE SubagentsAssumption
<1>1. m \notin cancelled
  BY SubagentStep, CancelledGrows
<1>2. m \in waiting => m \in Messages /\ task[m] = "running" /\ WaitReason(m) /\ outcome[m] = "pending"
  BY <1>0, <1>1 DEF WaitInv, SubagentTypes, DispatchFacts, Live, TaskState
<1>3. ASSUME UNCHANGED <<inbound, queue, pendingQueues, agent, doomed, reaping>>, m \in waiting
      PROVE  WaitReason(m)'
  BY <1>2, <1>3, ReasonKept
<1>4. CASE AnswerCommand \/ SubagentsQuiescent \/ UNCHANGED allVars
  BY <1>3, <1>4 DEF AnswerCommand, CommandDone, SubagentsQuiescent, allVars, vars, taskVars,
                    subagentVars
<1>5. ASSUME NEW x \in Messages, Dispatch(x) PROVE WaitReason(m)'
  <2>1. m \in waiting /\ UNCHANGED subagentVars /\ UNCHANGED <<agent, doomed, reaping>>
    BY <1>5 DEF Dispatch, subagentVars
  <2>2. CASE Publish(x)
    <3>1. UNCHANGED <<queue, pendingQueues>> /\ inbound' = Append(inbound, x)
      BY <2>2 DEF Publish, taskVars
    <3>2. \A i \in DOMAIN inbound : i \in DOMAIN inbound' /\ inbound'[i] = inbound[i]
      BY <1>0, <3>1, AppendProperties DEF TypeOK
    <3> QED
      BY <1>2, <2>1, <3>1, <3>2, ReasonKept
  <2>3. CASE Consume(x)
    BY <1>0, <1>2, <2>1, <2>3, ReasonConsume
  <2>4. CASE DispatchStart(x)
    <3>1. /\ UNCHANGED <<queue, inbound>> /\ task[x] = "created"
          /\ pendingQueues' = [pendingQueues EXCEPT ![EffectiveKey(x)] = x]
      BY <2>4 DEF DispatchStart
    <3>2. x # m
      BY <1>2, <2>1, <3>1
    <3>3. pendingQueues[EffectiveKey(m)] # m => pendingQueues'[EffectiveKey(m)] # m
      BY <1>0, <1>2, <2>1, <3>1, <3>2, EffectiveKeyType DEF TypeOK
    <3> QED
      BY <1>2, <2>1, <3>1, <3>3, ReasonKept
  <2>5. CASE LockAcquire(x) \/ GateAcquire(x)
    BY <1>3, <2>1, <2>5 DEF LockAcquire, GateAcquire
  <2> QED
    BY <1>5, <2>2, <2>3, <2>4, <2>5 DEF Dispatch
<1>6. ASSUME NEW x \in Messages, WaitForResult(x) PROVE WaitReason(m)'
  <2>1. /\ UNCHANGED <<inbound, queue, pendingQueues, agent, doomed, reaping>>
        /\ RunningFor(SessionOf(x)) # {} /\ waiting' = waiting \cup {x}
    BY <1>6 DEF WaitForResult, vars, taskVars
  <2>2. CASE m = x
    <3>1. RunningFor(SessionOf(m))' = RunningFor(SessionOf(m))
      BY <2>1 DEF RunningFor, SessionOf, EffectiveKey
    <3> QED
      BY <2>1, <2>2, <3>1 DEF WaitReason, NewsComing
  <2> QED
    BY <1>3, <2>1, <2>2
<1>7. ASSUME NEW x \in Messages, WaitTimedOut(x) PROVE WaitReason(m)'
  BY <1>3, <1>7 DEF WaitTimedOut, vars, taskVars
<1>8. ASSUME NEW x \in Messages, Drain(x) PROVE WaitReason(m)'
  <2>1. /\ m \in waiting /\ m # x /\ UNCHANGED <<inbound, pendingQueues, agent, doomed, reaping>>
        /\ queue'[m] = queue[m]
    BY <1>0, <1>2, <1>8 DEF Drain, Inject, TypeOK
  <2> QED
    BY <1>2, <2>1, ReasonKept
<1>9. ASSUME NEW d \in Messages, Cancelling(d) PROVE WaitReason(m)'
  <2>1. /\ UNCHANGED <<inbound, queue, pendingQueues, agent, waiting>> /\ doomed \subseteq doomed'
        /\ reaping' = [reaping EXCEPT ![d] = RunningFor(CancelKey(d))]
    BY <1>9 DEF Cancelling, CancelBySession, vars, taskVars
  <2>2. \A c \in Messages, r \in Results : Claims(c, r)' /\ ~Claims(c, r) => agent[r] = "running"
    BY <1>0, <2>1 DEF Claims, SubagentTypes, RunningFor
  <2> QED
    BY <1>0, <1>2, <2>1, <2>2, ReasonUntouched DEF SubagentTypes
<1>10. ASSUME NEW x \in Messages, EndTurn(x) \/ CancelTurn(x) PROVE WaitReason(m)'
  <2>1. m \in waiting /\ UNCHANGED <<agent, doomed, reaping>>
    BY <1>10 DEF EndTurn, CancelTurn, subagentVars
  <2>2. CASE CancelUnstarted(x)
    BY <1>3, <2>1, <2>2 DEF CancelUnstarted
  <2>3. CASE Unregister(EffectiveKey(x))
    BY <1>0, <1>2, <2>1, <2>3, EffectiveKeyType, ReasonUnregister
  <2> QED
    BY <1>10, <2>2, <2>3 DEF EndTurn, TurnDone, CancelTurn, CancelledError, CancelStarted
<1>11. ASSUME NEW x \in Messages, NEW r \in Results, Spawn(x, r) PROVE WaitReason(m)'
  <2>1. /\ UNCHANGED <<inbound, queue, pendingQueues, doomed, reaping, waiting>>
        /\ agent[r] = "none" /\ agent' = [agent EXCEPT ![r] = "running"]
    BY <1>11 DEF Spawn, vars, taskVars
  <2>2. \A y \in Results : agent[y] \in {"running", "cancelled"} => agent'[y] = agent[y]
    BY <1>0, <2>1 DEF SubagentTypes
  <2>3. \A c \in Messages, y \in Results : Claims(c, y)' <=> Claims(c, y)
    BY <2>1 DEF Claims
  <2> QED
    BY <1>0, <1>2, <2>1, <2>2, <2>3, ReasonUntouched DEF SubagentTypes
<1>12. ASSUME NEW r \in Results, Report(r) PROVE WaitReason(m)'
  <2>1. m \in waiting
    BY <1>12 DEF Report
  <2> QED
    BY <1>0, <1>2, <1>12, <2>1, ReasonReport
<1>13. ASSUME NEW r \in Results, CancelTask(r) PROVE WaitReason(m)'
  <2>1. /\ UNCHANGED <<inbound, queue, pendingQueues, agent, reaping, waiting>>
        /\ doomed \subseteq doomed'
    BY <1>13 DEF CancelTask, vars, taskVars
  <2>2. \A c \in Messages, y \in Results : Claims(c, y)' <=> Claims(c, y)
    BY <2>1 DEF Claims
  <2> QED
    BY <1>0, <1>2, <2>1, <2>2, ReasonUntouched DEF SubagentTypes
<1>14. ASSUME NEW r \in Results, EndCancelled(r) PROVE WaitReason(m)'
  <2>1. m \in waiting
    BY <1>14 DEF EndCancelled
  <2> QED
    BY <1>0, <1>1, <1>2, <1>14, <2>1, ReasonEndCancelled
<1> QED
  BY <1>4, <1>5, <1>6, <1>7, <1>8, <1>9, <1>10, <1>11, <1>12, <1>13, <1>14 DEF SubagentsNext

LEMMA SubagentCorrect == SubagentsSpec => [](SubagentInv /\ WaitInv)
<1>1. SubagentsInit => SubagentTypes /\ ResultInv /\ ReapInv /\ WaitInv
  <2> SUFFICES ASSUME SubagentsInit PROVE SubagentTypes /\ ResultInv /\ ReapInv /\ WaitInv
    OBVIOUS
  <2> USE SubagentsAssumption DEF SubagentsInit
  <2>1. SubagentTypes
    BY DEF SubagentTypes
  <2>2. \A r \in Results : outcome[r] = "unsent" /\ agent[r] = "none"
    BY DEF Init
  <2>3. ResultInv
    BY <2>2 DEF ResultInv
  <2>4. ReapInv /\ WaitInv
    BY DEF ReapInv, Claims, WaitInv
  <2> QED
    BY <2>1, <2>3, <2>4
<1> QED
  BY <1>1, FactsCorrect, SubagentTypesInductive, ResultInductive, ReapInductive, WaitInductive,
     PTL DEF SubagentsSpec, SubagentInv

\* A turn never waits for results that cannot come, unless the console has
\* cancelled a subagent or another task took over the registration.
THEOREM WaitsAreUseful == SubagentsSpec => []WaitIsUseful
<1>1. SubagentInv /\ WaitInv => WaitIsUseful
  <2> SUFFICES ASSUME SubagentInv, WaitInv, NEW m \in waiting \ cancelled
               PROVE  Expecting(m) \/ CancelledByConsole \/ pendingQueues[EffectiveKey(m)] # m
    BY DEF WaitIsUseful
  <2>1. NewsComing(m) => Expecting(m)
    BY DEF NewsComing, ComingIn, Expecting
  <2>2. SilentlyCancelled => CancelledByConsole
    BY DEF SilentlyCancelled, CancelledByConsole, Claims
  <2> QED
    BY <2>1, <2>2 DEF WaitInv, WaitReason
<1> QED
  BY <1>1, SubagentCorrect, PTL

\* While /stop is being answered, it has claimed every subagent that a turn of
\* its session has running.
StopReapInv ==
  \A c \in Messages : command = c /\ reaping[c] # None /\ Kind[c] = "stop" =>
    \A r \in Results :
      agent[r] = "running" /\ EffectiveKey(parent[r]) = EffectiveKey(c) => Claims(c, r)

LEMMA StopReapInductive ==
  ASSUME ~UnifiedSession, \A m \in Messages : ChatOf[m] = ChatKey[m]
  PROVE  SubagentInv /\ StopReapInv /\ [SubagentsNext]_allVars => StopReapInv'
<1> SUFFICES ASSUME SubagentInv, StopReapInv, [SubagentsNext]_allVars,
                    NEW c \in Messages, command' = c, reaping'[c] # None, Kind[c] = "stop",
                    NEW r \in Results, agent'[r] = "running",
                    EffectiveKey(parent'[r]) = EffectiveKey(c)
             PROVE  Claims(c, r)'
  BY DEF StopReapInv, EffectiveKey
<1>0. /\ LoopInv /\ DispatchFacts /\ SubagentTypes /\ ResultInv /\ ReapInv
      /\ TypeOK /\ OwnersInv /\ CommandInv
  BY DEF SubagentInv, LoopInv, HeldInv
<1> USE SubagentsAssumption
<1>1. ASSUME command = c, UNCHANGED <<reaping, parent>>, agent[r] = "running" PROVE Claims(c, r)'
  BY <1>1 DEF StopReapInv, Claims
<1>2. CASE AnswerCommand
  BY <1>2, ConstantsAssumption DEF AnswerCommand, CommandDone
<1>3. ASSUME NEW m \in Messages, Dispatch(m) PROVE Claims(c, r)'
  <2>1. UNCHANGED <<agent, parent, reaping>>
    BY <1>3 DEF Dispatch, subagentVars
  <2>2. CASE command = c
    BY <1>1, <2>1, <2>2
  <2>3. CASE command # c
    <3>1. Consume(m) /\ HandleInline(m) /\ m = c
      BY <1>0, <1>3, <2>3, ConstantsAssumption DEF Dispatch, Publish, Consume, RouteToPending, CreateTask, HandleInline,
         DispatchStart, LockAcquire, GateAcquire, loopVars
    <3>2. Waiting(c) /\ command = None
      BY <1>0, <3>1 DEF Consume, MayConsume, CommandInv, Waiting, Range, TypeOK
    <3>3. outcome[c] = "pending" /\ ~Live(c)
      BY <1>0, <3>2 DEF DispatchFacts, OwnersInv
    <3>4. reaping[c] = None
      BY <1>0, <2>3, <3>3 DEF ReapInv, CommandHolds, Live, TaskState
    <3> QED
      BY <2>1, <3>4
  <2> QED
    BY <2>2, <2>3
<1>4. ASSUME NEW m \in Messages,
             WaitForResult(m) \/ WaitTimedOut(m) \/ Drain(m) \/ EndTurn(m) \/ CancelTurn(m)
      PROVE  Claims(c, r)'
  <2>1. UNCHANGED <<agent, parent, reaping, command>>
    BY <1>4 DEF WaitForResult, WaitTimedOut, Drain, Inject, EndTurn, TurnDone, CancelTurn,
       CancelledError, CancelUnstarted, CancelStarted, Finish, subagentVars, vars, loopVars
  <2> QED
    BY <1>1, <2>1
<1>5. ASSUME NEW d \in Messages, Cancelling(d) PROVE Claims(c, r)'
  <2>1. /\ UNCHANGED <<agent, parent, command>>
        /\ reaping' = [reaping EXCEPT ![d] = RunningFor(CancelKey(d))]
    BY <1>5 DEF Cancelling, CancelBySession, vars, loopVars
  <2>2. CASE d # c
    BY <1>0, <2>1, <2>2 DEF StopReapInv, Claims, SubagentTypes
  <2>3. CASE d = c
    <3>1. agent[r] = "running" /\ parent[r] \in Messages /\ ChatKey[r] = SpawnKey(parent[r])
      BY <1>0, <2>1 DEF ResultInv
    <3>2. ChatKey[r] = CancelKey(c)
      BY <2>1, <3>1 DEF SpawnKey, CancelKey, EffectiveKey
    <3>3. r \in RunningFor(CancelKey(c))
      BY <3>1, <3>2 DEF RunningFor
    <3>4. reaping'[c] = RunningFor(CancelKey(c))
      BY <1>0, <2>1, <2>3 DEF SubagentTypes
    <3> QED
      BY <3>3, <3>4 DEF Claims
  <2> QED
    BY <2>2, <2>3
<1>6. ASSUME NEW m \in Messages, NEW x \in Results, Spawn(m, x) PROVE Claims(c, r)'
  <2>1. /\ UNCHANGED <<command, reaping>> /\ task[m] = "running" /\ m \notin cancelled
        /\ agent' = [agent EXCEPT ![x] = "running"] /\ parent' = [parent EXCEPT ![x] = m]
    BY <1>6 DEF Spawn, InTurn, vars, loopVars
  <2>2. CASE x = r
    <3>1. parent'[r] = m
      BY <1>0, <2>1, <2>2 DEF SubagentTypes
    <3>2. CommandHolds(c) \/ task[c] = "waitingPeers" \/ outcome[c] = "handled"
      BY <1>0, <2>1 DEF ReapInv
    <3>3. outcome[c] = "pending"
      BY <1>0, <2>1 DEF DispatchFacts
    <3>4. EffectiveKey(m) # CancelKey(c)
      BY <1>0, <2>1, <3>2, <3>3, NoTurnLeft
    <3>5. CancelKey(c) = EffectiveKey(c)
      BY DEF CancelKey, EffectiveKey
    <3> QED
      BY <3>1, <3>4, <3>5
  <2>3. CASE x # r
    <3>1. agent[r] = "running" /\ parent'[r] = parent[r]
      BY <1>0, <2>1, <2>3 DEF SubagentTypes
    <3> QED
      BY <2>1, <3>1 DEF StopReapInv, Claims
  <2> QED
    BY <2>2, <2>3
<1>7. ASSUME NEW x \in Results, Report(x) \/ CancelTask(x) \/ EndCancelled(x)
      PROVE  Claims(c, r)'
  <2>1. /\ UNCHANGED <<parent, reaping, command>>
        /\ \/ agent' = agent \/ agent' = [agent EXCEPT ![x] = "reported"]
           \/ agent' = [agent EXCEPT ![x] = "cancelled"]
    BY <1>7 DEF Report, Publish, CancelTask, EndCancelled, vars, loopVars
  <2>2. agent[r] = "running"
    BY <1>0, <2>1 DEF SubagentTypes
  <2> QED
    BY <1>1, <2>1, <2>2
<1>8. CASE SubagentsQuiescent \/ UNCHANGED allVars
  <2>1. UNCHANGED <<agent, parent, reaping, command>>
    BY <1>8 DEF SubagentsQuiescent, allVars, subagentVars, vars, loopVars
  <2> QED
    BY <1>1, <2>1
<1> QED
  BY <1>2, <1>3, <1>4, <1>5, <1>6, <1>7, <1>8 DEF SubagentsNext

\* When /stop is answered, no subagent of its session is running, wherever its
\* turns and their results stand. Sessions are not unified and no message is
\* written in a thread: only then is the key of the command the subagents' key.
THEOREM StopReachesSubagents ==
  ASSUME ~UnifiedSession, \A m \in Messages : ChatOf[m] = ChatKey[m]
  PROVE  SubagentsSpec => StopLeavesNoSubagent
<1>1. ASSUME SubagentInv, StopReapInv, [SubagentsNext]_allVars, StopAnswered,
             NEW r \in Results, agent'[r] = "running",
             EffectiveKey(parent[r]) = EffectiveKey(command)
      PROVE  FALSE
  <2>1. CommandInv /\ TypeOK
    BY <1>1 DEF SubagentInv, LoopInv
  <2>2. command \in Messages /\ loop = "stopping" /\ loop' # "stopping" /\ Kind[command] = "stop"
    BY <1>1, <2>1 DEF StopAnswered, CommandInv, TypeOK
  <2>3. AnswerCommand
    <3>1. ASSUME NEW m \in Messages, Dispatch(m) \/ Drain(m) \/ EndTurn(m) \/ CancelTurn(m)
          PROVE  loop' = "stopping"
      <4>1. ~Consume(m)
        BY <2>2 DEF Consume, MayConsume
      <4>2. CASE Publish(m) \/ DispatchStart(m) \/ LockAcquire(m) \/ GateAcquire(m) \/ Inject(m)
        BY <2>2, <4>2 DEF Publish, DispatchStart, LockAcquire, GateAcquire, Inject, loopVars
      <4>3. CASE TurnDone(m) \/ CancelledError(m)
        BY <2>2, <4>3 DEF TurnDone, CancelledError, CancelUnstarted, CancelStarted, Finish, loopVars
      <4> QED
        BY <3>1, <4>1, <4>2, <4>3 DEF Dispatch, Drain, EndTurn, CancelTurn
    <3>2. ASSUME NEW x \in Results, Report(x) PROVE loop' = "stopping"
      BY <2>2, <3>2 DEF Report, Publish, loopVars
    <3>3. ASSUME NEW m \in Messages, WaitForResult(m) \/ WaitTimedOut(m) \/ Cancelling(m)
          PROVE  loop' = "stopping"
      BY <2>2, <3>3 DEF WaitForResult, WaitTimedOut, Cancelling, CancelBySession, vars, loopVars
    <3>4. ASSUME NEW m \in Messages, NEW x \in Results, Spawn(m, x) PROVE loop' = "stopping"
      BY <2>2, <3>4 DEF Spawn, vars, loopVars
    <3>5. ASSUME NEW x \in Results, CancelTask(x) \/ EndCancelled(x) PROVE loop' = "stopping"
      BY <2>2, <3>5 DEF CancelTask, EndCancelled, vars, loopVars
    <3>6. CASE SubagentsQuiescent \/ UNCHANGED allVars
      BY <2>2, <3>6 DEF SubagentsQuiescent, allVars, vars, loopVars
    <3> QED
      BY <1>1, <2>2, <3>1, <3>2, <3>3, <3>4, <3>5, <3>6 DEF SubagentsNext
  <2>4. Reaped(command) /\ agent' = agent
    BY <2>3 DEF AnswerCommand, subagentVars
  <2>5. Claims(command, r)
    BY <1>1, <2>2, <2>4 DEF StopReapInv, Reaped
  <2> QED
    BY <1>1, <2>4, <2>5 DEF Claims, Reaped
<1>2. SubagentInv /\ StopReapInv /\ [SubagentsNext]_allVars =>
        [StopAnswered =>
           \A r \in Results :
             agent'[r] = "running" => EffectiveKey(parent[r]) # EffectiveKey(command)]_allVars
  BY <1>1
<1>3. SubagentsInit => StopReapInv
  BY ConstantsAssumption DEF SubagentsInit, Init, StopReapInv
<1> QED
  BY <1>2, <1>3, SubagentCorrect, StopReapInductive, PTL DEF SubagentsSpec, StopLeavesNoSubagent
=============================================================================
