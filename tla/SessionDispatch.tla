-------------------------- MODULE SessionDispatch --------------------------
(***************************************************************************)
(* The inbound side of AgentLoop (openpawlet/agent/loop.py): the run()     *)
(* coroutine that takes messages off the bus, the _dispatch() tasks it     *)
(* spawns, the per-session lock, the concurrency gate, the per-session     *)
(* pending queues used for mid-turn injection, and the /stop and /new      *)
(* commands that cancel the tasks of a session.                            *)
(*                                                                         *)
(* Everything runs on one asyncio event loop, so an action is the code     *)
(* between two points where a coroutine really yields.  A _dispatch() task *)
(* is named by the message it was created for: a message is the subject of *)
(* at most one task.                                                       *)
(***************************************************************************)
EXTENDS Naturals, FiniteSets, Sequences, SequencesExt

CONSTANTS
  Messages,         \* inbound messages
  Keys,             \* session keys
  ChatKey,          \* [Messages -> Keys]: InboundMessage.session_key
  Kind,             \* [Messages -> {"chat", "stop", "new"}]
  UnifiedSession,   \* agents.defaults.unified_session
  UnifiedKey,       \* UNIFIED_SESSION_KEY
  PendingCapacity,  \* maxsize of a pending queue (20 in the code)
  InjectLimit,      \* _MAX_INJECTIONS_PER_TURN
  MaxConcurrent,    \* OPENPAWLET_MAX_CONCURRENT_REQUESTS; 0 is "no gate"
  EagerConsume,     \* TRUE: asyncio.wait_for of Python >= 3.12, which does not
                    \* yield when the queue holds an item; FALSE: Python 3.11,
                    \* which always yields to the tasks that are ready
  None              \* no task

ASSUME ConstantsAssumption ==
  /\ ChatKey \in [Messages -> Keys]
  /\ Kind \in [Messages -> {"chat", "stop", "new"}]
  /\ UnifiedSession \in BOOLEAN
  /\ UnifiedKey \in Keys
  /\ PendingCapacity \in Nat \ {0}
  /\ InjectLimit \in Nat \ {0}
  /\ MaxConcurrent \in Nat
  /\ EagerConsume \in BOOLEAN
  /\ None \notin Messages

VARIABLES
  inbound,        \* MessageBus.inbound
  loop,           \* run(): "blocked" in consume_inbound, "draining" (about to
                  \* take the next item without yielding), "stopping" in the
                  \* handler of a command
  command,        \* the command run() is handling, or None
  awaited,        \* [Messages -> SUBSET Messages]: the tasks a command handler,
                  \* named by its message, has cancelled and waits for
  task,           \* [Messages -> TaskState]
  cancelled,      \* tasks whose cancellation was requested
  pendingQueues,  \* [Keys -> task whose queue is registered, or None]
  queue,          \* [Messages -> the pending queue that task created]
  lockOwner,      \* [Keys -> task holding the session lock, or None]
  lockWaiters,    \* [Keys -> FIFO of the tasks waiting for the lock]
  gateWaiters,    \* FIFO of the tasks waiting for the gate
  activeTasks,    \* [Keys -> set of tasks]: _active_tasks
  outcome         \* history: what became of each message

taskVars == <<task, cancelled, queue, pendingQueues, lockOwner, lockWaiters,
              gateWaiters, activeTasks>>
loopVars == <<loop, command>>
vars == <<inbound, loopVars, awaited, taskVars, outcome>>

TaskState == {"none", "created", "lock", "gate", "running", "waitingPeers",
              "done"}
Live(m) == task[m] \in TaskState \ {"none", "done"}
Outcomes == {"unsent", "pending", "handled", "injected", "cancelled"}

\* _effective_session_key: the key run() and _dispatch() route by.
EffectiveKey(m) == IF UnifiedSession THEN UnifiedKey ELSE ChatKey[m]

\* The tasks inside "async with lock, gate".
Running == {m \in Messages : task[m] \in {"running", "waitingPeers"}}
GateFree == MaxConcurrent = 0 \/ Cardinality(Running) < MaxConcurrent

TypeOK ==
  /\ inbound \in Seq(Messages)
  /\ loop \in {"blocked", "draining", "stopping"}
  /\ command \in Messages \cup {None}
  /\ awaited \in [Messages -> SUBSET Messages]
  /\ task \in [Messages -> TaskState]
  /\ cancelled \in SUBSET Messages
  /\ pendingQueues \in [Keys -> Messages \cup {None}]
  /\ queue \in [Messages -> Seq(Messages)]
  /\ lockOwner \in [Keys -> Messages \cup {None}]
  /\ lockWaiters \in [Keys -> Seq(Messages)]
  /\ gateWaiters \in Seq(Messages)
  /\ activeTasks \in [Keys -> SUBSET Messages]
  /\ outcome \in [Messages -> Outcomes]

Init ==
  /\ inbound = <<>>
  /\ loop = "blocked"
  /\ command = None
  /\ awaited = [m \in Messages |-> {}]
  /\ task = [m \in Messages |-> "none"]
  /\ cancelled = {}
  /\ pendingQueues = [k \in Keys |-> None]
  /\ queue = [m \in Messages |-> <<>>]
  /\ lockOwner = [k \in Keys |-> None]
  /\ lockWaiters = [k \in Keys |-> <<>>]
  /\ gateWaiters = <<>>
  /\ activeTasks = [k \in Keys |-> {}]
  /\ outcome = [m \in Messages |-> "unsent"]

(***************************************************************************)
(* Channels                                                                *)
(***************************************************************************)

\* run() keeps the event loop while it drains: nobody else takes a step.
EventLoopFree == loop # "draining"

\* MessageBus.publish_inbound by a channel.
Publish(m) ==
  /\ EventLoopFree
  /\ outcome[m] = "unsent"
  /\ inbound' = Append(inbound, m)
  /\ outcome' = [outcome EXCEPT ![m] = "pending"]
  /\ UNCHANGED <<loopVars, awaited, taskVars>>

(***************************************************************************)
(* run()                                                                   *)
(***************************************************************************)

\* A coroutine blocked in consume_inbound is resumed behind the tasks that
\* were created before it blocked, so those have taken their first step.
MayConsume ==
  /\ inbound # <<>>
  /\ \/ loop = "draining"
     \/ loop = "blocked" /\ \A t \in Messages : task[t] # "created"

\* Where run() is when its next iteration reaches consume_inbound.
LoopAfter(rest) ==
  IF EagerConsume /\ rest # <<>> THEN "draining" ELSE "blocked"

\* The follow-up goes to the pending queue registered for its session.
RouteToPending(m) ==
  LET owner == pendingQueues[EffectiveKey(m)] IN
  /\ Kind[m] = "chat"
  /\ owner # None
  /\ Len(queue[owner]) < PendingCapacity
  /\ queue' = [queue EXCEPT ![owner] = Append(@, m)]
  /\ loop' = LoopAfter(Tail(inbound))
  /\ UNCHANGED <<command, awaited, task, cancelled, pendingQueues, lockOwner,
                 lockWaiters, gateWaiters, activeTasks, outcome>>

\* Fault: run() starts a task without looking at the registration.
CreateTaskUnrouted(m) ==
  /\ Kind[m] \in {"chat", "new"}
  /\ task' = [task EXCEPT ![m] = "created"]
  /\ activeTasks' = [activeTasks EXCEPT ![EffectiveKey(m)] = @ \cup {m}]
  /\ loop' = LoopAfter(Tail(inbound))
  /\ UNCHANGED <<command, awaited, cancelled, pendingQueues, queue, lockOwner,
                 lockWaiters, gateWaiters, outcome>>

\* No registration, or (QueueFull) a follow-up that does not fit: a new task.
CreateTask(m) ==
  LET k == EffectiveKey(m) IN
  /\ \/ Kind[m] \in {"chat", "new"} /\ pendingQueues[k] = None
     \/ /\ Kind[m] = "chat"
        /\ pendingQueues[k] # None
        /\ Len(queue[pendingQueues[k]]) = PendingCapacity
  /\ task' = [task EXCEPT ![m] = "created"]
  /\ activeTasks' = [activeTasks EXCEPT ![k] = @ \cup {m}]
  /\ loop' = LoopAfter(Tail(inbound))
  /\ UNCHANGED <<command, awaited, cancelled, pendingQueues, queue, lockOwner,
                 lockWaiters, gateWaiters, outcome>>

\* _cancel_active_tasks(key), first half, by the handler of command c: the
\* tasks leave the table and are cancelled; the handler then awaits them.
CancelActive(c, key) ==
  LET tasks == activeTasks[key] \ {c} IN
  /\ activeTasks' = [activeTasks EXCEPT ![key] = {}]
  /\ cancelled' = cancelled \cup tasks
  /\ awaited' = [awaited EXCEPT ![c] = tasks]

\* The key under which /stop looks the tasks up: cmd_stop passes
\* msg.session_key, cmd_new the effective key of its CommandContext.
CancelKey(m) == IF Kind[m] = "stop" THEN ChatKey[m] ELSE EffectiveKey(m)

\* /stop always, and /new while a turn of its session is registered, are
\* handled inside run(), which awaits every cancelled task.
HandleInline(m) ==
  /\ \/ Kind[m] = "stop"
     \/ Kind[m] = "new" /\ pendingQueues[EffectiveKey(m)] # None
  /\ CancelActive(m, CancelKey(m))
  /\ loop' = "stopping"
  /\ command' = m
  /\ UNCHANGED <<task, pendingQueues, queue, lockOwner, lockWaiters,
                 gateWaiters, outcome>>

Consume(m) ==
  /\ MayConsume
  /\ m = Head(inbound)
  /\ inbound' = Tail(inbound)
  /\ RouteToPending(m) \/ CreateTask(m) \/ HandleInline(m)

\* Fault: the command is answered without awaiting the cancelled tasks.
CommandDoneAtOnce ==
  /\ loop = "stopping"
  /\ loop' = LoopAfter(inbound)
  /\ command' = None
  /\ outcome' = [outcome EXCEPT ![command] = "handled"]
  /\ UNCHANGED <<inbound, awaited, taskVars>>

\* Every awaited task is done: the command is answered.
CommandDone ==
  /\ loop = "stopping"
  /\ \A t \in awaited[command] : task[t] = "done"
  /\ loop' = LoopAfter(inbound)
  /\ command' = None
  /\ outcome' = [outcome EXCEPT ![command] = "handled"]
  /\ UNCHANGED <<inbound, awaited, taskVars>>

(***************************************************************************)
(* _dispatch(m)                                                            *)
(***************************************************************************)

\* First step of the task: it registers its own pending queue, whatever is
\* registered already, and queues for the session lock.
DispatchStart(m) ==
  LET k == EffectiveKey(m) IN
  /\ EventLoopFree
  /\ task[m] = "created"
  /\ m \notin cancelled
  /\ task' = [task EXCEPT ![m] = "lock"]
  /\ pendingQueues' = [pendingQueues EXCEPT ![k] = m]
  /\ lockWaiters' = [lockWaiters EXCEPT ![k] = Append(@, m)]
  /\ UNCHANGED <<inbound, loopVars, awaited, cancelled, queue, lockOwner,
                 gateWaiters, activeTasks, outcome>>

FirstInLine(s, m) == s # <<>> /\ Head(s) = m

\* asyncio.Lock hands over in FIFO order; the new owner queues for the gate.
LockAcquire(m) ==
  LET k == EffectiveKey(m) IN
  /\ EventLoopFree
  /\ task[m] = "lock"
  /\ m \notin cancelled
  /\ lockOwner[k] = None
  /\ FirstInLine(lockWaiters[k], m)
  /\ lockOwner' = [lockOwner EXCEPT ![k] = m]
  /\ lockWaiters' = [lockWaiters EXCEPT ![k] = Tail(@)]
  /\ gateWaiters' = Append(gateWaiters, m)
  /\ task' = [task EXCEPT ![m] = "gate"]
  /\ UNCHANGED <<inbound, loopVars, awaited, cancelled, pendingQueues, queue,
                 activeTasks, outcome>>

\* asyncio.Semaphore, also FIFO: the turn begins.  A turn whose message is
\* /new has no await before it cancels the other tasks of its session; it is
\* in the table itself, but its own cancellation is consumed by the suppress()
\* around the await of its own task.
GateAcquire(m) ==
  /\ EventLoopFree
  /\ task[m] = "gate"
  /\ m \notin cancelled
  /\ GateFree
  /\ FirstInLine(gateWaiters, m)
  /\ gateWaiters' = Tail(gateWaiters)
  /\ \/ /\ Kind[m] = "chat"
        /\ task' = [task EXCEPT ![m] = "running"]
        /\ UNCHANGED <<activeTasks, cancelled, awaited>>
     \/ /\ Kind[m] = "new"
        /\ task' = [task EXCEPT ![m] = "waitingPeers"]
        /\ CancelActive(m, CancelKey(m))
  /\ UNCHANGED <<inbound, loopVars, pendingQueues, queue, lockOwner,
                 lockWaiters, outcome>>

\* _drain_pending at a checkpoint of the runner: up to InjectLimit follow-ups
\* leave the turn's own queue and become part of the turn.
Inject(m) ==
  LET n == IF Len(queue[m]) < InjectLimit THEN Len(queue[m]) ELSE InjectLimit IN
  /\ EventLoopFree
  /\ task[m] = "running"
  /\ m \notin cancelled
  /\ queue[m] # <<>>
  /\ queue' = [queue EXCEPT ![m] = SubSeq(@, n + 1, Len(@))]
  /\ outcome' = [x \in Messages |->
                   IF \E i \in 1..n : queue[m][i] = x THEN "injected"
                   ELSE outcome[x]]
  /\ UNCHANGED <<inbound, loopVars, awaited, task, cancelled, pendingQueues,
                 lockOwner, lockWaiters, gateWaiters, activeTasks>>

\* Faults: the items are published but left in the queue; the queue is dropped
\* with its items.
UnregisterCopy(k) ==
  LET owner == pendingQueues[k] IN
  /\ pendingQueues' = [pendingQueues EXCEPT ![k] = None]
  /\ inbound' = IF owner = None THEN inbound ELSE inbound \o queue[owner]
  /\ UNCHANGED queue
UnregisterDrop(k) ==
  /\ pendingQueues' = [pendingQueues EXCEPT ![k] = None]
  /\ UNCHANGED <<inbound, queue>>

\* The finally block: whatever queue is registered for the session is popped
\* and its messages are published again.
Unregister(k) ==
  LET owner == pendingQueues[k] IN
  /\ pendingQueues' = [pendingQueues EXCEPT ![k] = None]
  /\ inbound' = IF owner = None THEN inbound ELSE inbound \o queue[owner]
  /\ queue' = IF owner = None THEN queue ELSE [queue EXCEPT ![owner] = <<>>]

\* The task ends, with a reply, an error reply or (cancelled) none.
Finish(m, result) ==
  LET k == EffectiveKey(m) IN
  /\ task' = [task EXCEPT ![m] = "done"]
  /\ activeTasks' = [activeTasks EXCEPT ![k] = @ \ {m}]
  /\ outcome' = [outcome EXCEPT ![m] = result]
  /\ UNCHANGED <<loopVars, awaited, cancelled>>

\* Faults: a cancelled waiter releases a lock it does not own; nobody does.
ReleaseLockAnyway(m) == lockOwner' = [lockOwner EXCEPT ![EffectiveKey(m)] = None]
ReleaseLockNever(m) == UNCHANGED lockOwner

ReleaseLock(m) ==
  lockOwner' = [lockOwner EXCEPT ![EffectiveKey(m)] = IF @ = m THEN None ELSE @]

TurnDone(m) ==
  /\ EventLoopFree
  /\ \/ task[m] = "running" /\ m \notin cancelled
     \/ task[m] = "waitingPeers" /\ \A t \in awaited[m] : task[t] = "done"
  /\ Unregister(EffectiveKey(m))
  /\ ReleaseLock(m)
  /\ Finish(m, "handled")
  /\ UNCHANGED <<lockWaiters, gateWaiters>>

\* A task that never ran: its body, finally block included, is not executed.
CancelUnstarted(m) ==
  /\ task[m] = "created"
  /\ Finish(m, "cancelled")
  /\ UNCHANGED <<inbound, queue, pendingQueues, lockOwner, lockWaiters,
                 gateWaiters>>

WithoutWaiter(s, m) ==
  IF \E i \in 1..Len(s) : s[i] = m
  THEN RemoveAt(s, CHOOSE i \in 1..Len(s) : s[i] = m)
  ELSE s

\* At the lock, at the gate or inside the turn.
CancelStarted(m) ==
  LET k == EffectiveKey(m) IN
  /\ task[m] \in {"lock", "gate", "running"}
  /\ Unregister(k)
  /\ ReleaseLock(m)
  /\ lockWaiters' = [lockWaiters EXCEPT ![k] = WithoutWaiter(@, m)]
  /\ gateWaiters' = WithoutWaiter(gateWaiters, m)
  /\ Finish(m, "cancelled")

\* CancelledError is raised in the task.
CancelledError(m) ==
  /\ EventLoopFree
  /\ m \in cancelled
  /\ CancelUnstarted(m) \/ CancelStarted(m)

TaskStep(m) ==
  \/ DispatchStart(m) \/ LockAcquire(m) \/ GateAcquire(m) \/ Inject(m)
  \/ TurnDone(m) \/ CancelledError(m)

\* Every message was dealt with and run() waits for the next one.
Quiescent ==
  /\ loop = "blocked" /\ inbound = <<>>
  /\ \A m \in Messages : outcome[m] # "unsent" /\ ~Live(m)
  /\ UNCHANGED vars

Next ==
  \/ CommandDone
  \/ \E m \in Messages : Publish(m) \/ Consume(m) \/ TaskStep(m)
  \/ Quiescent

(***************************************************************************)
(* The event loop runs every ready coroutine; a turn ends because every    *)
(* model request and tool call it awaits has a timeout.                    *)
(***************************************************************************)
Fairness ==
  /\ WF_vars(CommandDone)
  /\ \A m \in Messages :
       /\ WF_vars(Consume(m))
       /\ WF_vars(DispatchStart(m) \/ LockAcquire(m) \/ GateAcquire(m))
       /\ WF_vars(TurnDone(m))
       /\ WF_vars(CancelledError(m))

Spec == Init /\ [][Next]_vars
FairSpec == Spec /\ Fairness

-----------------------------------------------------------------------------
(***************************************************************************)
(* Properties                                                              *)
(***************************************************************************)

\* At most one turn of a session is under way, whatever is cancelled, queued
\* or overflows: _process_message is never re-entered for a session key.
OneTurnPerSession ==
  \A m, n \in Running : EffectiveKey(m) = EffectiveKey(n) => m = n

Occurrences(s, m) == {i \in DOMAIN s : s[i] = m}

\* A message waits in one place only: on the bus, in one pending queue, as the
\* subject of one task, or in the hands of run().  Routing and the
\* re-publication of leftovers never process a message twice.
HeldOnce ==
  \A m \in Messages :
    Cardinality(Occurrences(inbound, m))
      + Cardinality({q \in Messages \X (1..Cardinality(Messages)) :
                       q[2] \in Occurrences(queue[q[1]], m)})
      + (IF Live(m) THEN 1 ELSE 0) + (IF command = m THEN 1 ELSE 0) <= 1

\* A message that is neither answered nor cancelled is still on the bus, in
\* work, or in the queue of a task that can still inject or re-publish it:
\* leftovers are processed as fresh messages rather than silently lost.
NoMessageLost ==
  \A m \in Messages :
    outcome[m] = "pending" =>
      \/ command = m \/ Live(m)
      \/ Occurrences(inbound, m) # {}
      \/ \E t \in Messages : Live(t) /\ Occurrences(queue[t], m) # {}

\* The queue registered for a session is the one its turn drains, so every
\* follow-up routed during a turn can reach that turn.
TurnOwnsPendingQueue ==
  \A m \in Running : pendingQueues[EffectiveKey(m)] = m

\* is_session_busy(key) is true for the full duration of a turn; the console
\* and the idle compaction rely on it.
SessionBusyDuringTurn ==
  \A m \in Running : pendingQueues[EffectiveKey(m)] # None

\* A /new turn under way, or a task it has cancelled and is waiting for.
InsideNew(t) ==
  \E n \in Messages : task[n] = "waitingPeers" /\ (t = n \/ t \in awaited[n])

StopAnswered == loop = "stopping" /\ loop' # "stopping" /\ Kind[command] = "stop"

\* When /stop is answered no task of the sender's session is left, except a
\* /new already under way and the tasks that one is waiting to see cancelled.
StopIsComplete ==
  [][StopAnswered =>
       \A t \in Messages :
         Live(t) /\ EffectiveKey(t) = EffectiveKey(command) => InsideNew(t)]_vars

\* Every message put on the bus is eventually answered, injected into a turn
\* or cancelled by a command: no lock, gate or pending queue holds it forever.
EveryMessageResolved ==
  \A m \in Messages :
    outcome[m] = "pending" ~> outcome[m] \in {"handled", "injected", "cancelled"}

=============================================================================
