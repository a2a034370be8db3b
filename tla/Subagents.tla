------------------------------- MODULE Subagents -------------------------------
(***************************************************************************)
(* Background subagents (openpawlet/agent/subagent.py) on top of the       *)
(* inbound side of the agent loop: a turn spawns them with the spawn tool, *)
(* each publishes its result as an inbound message of its parent's         *)
(* session, a turn that drains an empty queue waits for them, and /stop    *)
(* and /new cancel those of their session.                                 *)
(*                                                                         *)
(* A subagent is named by the message that carries its result. Actions of  *)
(* SessionDispatch are taken over with what they do to the subagents.      *)
(***************************************************************************)
EXTENDS SessionDispatch

CONSTANTS
  Results,  \* the messages that are results of subagents
  ChatOf    \* [Messages -> Keys]: channel:chat_id, which is not the session
            \* key of a message written in a thread or topic

ASSUME SubagentsAssumption ==
  /\ Results \subseteq Messages
  /\ \A r \in Results : Kind[r] = "chat"
  /\ ChatOf \in [Messages -> Keys]

VARIABLES
  agent,     \* [Results -> {"none", "running", "reported", "cancelled"}]
  parent,    \* [Results -> the task that spawned it, or None]
  doomed,    \* subagents whose cancellation was requested
  waiting,   \* turns blocked in pending_queue.get()
  reaping    \* [Messages -> what the command has cancelled of them, or None]

subagentVars == <<agent, parent, doomed, waiting, reaping>>
allVars == <<vars, subagentVars>>

SubagentsInit ==
  /\ Init
  /\ agent = [r \in Results |-> "none"]
  /\ parent = [r \in Results |-> None]
  /\ doomed = {}
  /\ waiting = {}
  /\ reaping = [m \in Messages |-> None]

\* The key that _set_tool_context gives the spawn tool: the result carries it
\* as its session_key_override, and the subagent is filed under it.
SpawnKey(m) == IF UnifiedSession THEN UnifiedKey ELSE ChatOf[m]

\* get_running_count_by_session
RunningFor(key) == {r \in Results : agent[r] = "running" /\ ChatKey[r] = key}

\* The session a turn works on: a result taken on its own (a system message)
\* is processed in the session of the chat it came from.
SessionOf(m) == IF m \in Results THEN ChatOf[m] ELSE EffectiveKey(m)

(***************************************************************************)
(* The subagents                                                           *)
(***************************************************************************)

InTurn(m) == EventLoopFree /\ task[m] = "running" /\ m \notin cancelled

Spawn(m, r) ==
  /\ InTurn(m) /\ m \notin waiting
  /\ agent[r] = "none"
  /\ ChatKey[r] = SpawnKey(m) /\ ChatOf[r] = ChatOf[m]
  /\ agent' = [agent EXCEPT ![r] = "running"]
  /\ parent' = [parent EXCEPT ![r] = m]
  /\ UNCHANGED <<vars, doomed, waiting, reaping>>

\* _announce_result, after success or failure alike.
Report(r) ==
  /\ agent[r] = "running" /\ r \notin doomed
  /\ agent' = [agent EXCEPT ![r] = "reported"]
  /\ Publish(r)
  /\ UNCHANGED <<parent, doomed, waiting, reaping>>

\* cancel_task, by the console.
CancelTask(r) ==
  /\ EventLoopFree
  /\ agent[r] = "running"
  /\ doomed' = doomed \cup {r}
  /\ UNCHANGED <<vars, agent, parent, waiting, reaping>>

\* CancelledError is no Exception: nothing is announced.
EndCancelled(r) ==
  /\ EventLoopFree
  /\ agent[r] = "running" /\ r \in doomed
  /\ agent' = [agent EXCEPT ![r] = "cancelled"]
  /\ UNCHANGED <<vars, parent, doomed, waiting, reaping>>

(***************************************************************************)
(* The turn's wait                                                         *)
(***************************************************************************)

\* Fault: the turn waits whether or not a subagent runs.
WaitForAny(m) ==
  /\ InTurn(m) /\ m \notin waiting
  /\ queue[m] = <<>>
  /\ waiting' = waiting \cup {m}
  /\ UNCHANGED <<vars, agent, parent, doomed, reaping>>

\* _drain_pending finds nothing while subagents of its session run.
WaitForResult(m) ==
  /\ InTurn(m) /\ m \notin waiting
  /\ queue[m] = <<>>
  /\ RunningFor(SessionOf(m)) # {}
  /\ waiting' = waiting \cup {m}
  /\ UNCHANGED <<vars, agent, parent, doomed, reaping>>

\* A drain that finds messages, at once or at the end of its wait.
Drain(m) ==
  /\ Inject(m)
  /\ waiting' = waiting \ {m}
  /\ UNCHANGED <<agent, parent, doomed, reaping>>

\* 300 seconds have passed.
WaitTimedOut(m) ==
  /\ InTurn(m) /\ m \in waiting
  /\ waiting' = waiting \ {m}
  /\ UNCHANGED <<vars, agent, parent, doomed, reaping>>

(***************************************************************************)
(* Commands and ends of turns                                              *)
(***************************************************************************)

\* Fault: the command stops the turns only.
CancelBySessionNone(c) ==
  /\ reaping[c] = None
  /\ \A t \in awaited[c] : task[t] = "done"
  /\ reaping' = [reaping EXCEPT ![c] = {}]
  /\ UNCHANGED <<vars, agent, parent, doomed, waiting>>

\* _cancel_active_tasks, second half, for command c: once the cancelled tasks
\* are done, cancel_by_session.
CancelBySession(c) ==
  /\ reaping[c] = None
  /\ \A t \in awaited[c] : task[t] = "done"
  /\ reaping' = [reaping EXCEPT ![c] = RunningFor(CancelKey(c))]
  /\ doomed' = doomed \cup RunningFor(CancelKey(c))
  /\ UNCHANGED <<vars, agent, parent, waiting>>

Cancelling(c) ==
  /\ EventLoopFree
  /\ \/ loop = "stopping" /\ command = c
     \/ task[c] = "waitingPeers"
  /\ CancelBySession(c)

\* Command c awaits no subagent any more.
Reaped(c) == reaping[c] # None /\ \A r \in reaping[c] : agent[r] # "running"

AnswerCommand ==
  /\ loop = "stopping" /\ Reaped(command)
  /\ CommandDone
  /\ UNCHANGED subagentVars

EndTurn(m) ==
  /\ m \notin waiting
  /\ task[m] = "waitingPeers" => Reaped(m)
  /\ TurnDone(m)
  /\ UNCHANGED subagentVars

CancelTurn(m) ==
  /\ CancelledError(m)
  /\ waiting' = waiting \ {m}
  /\ UNCHANGED <<agent, parent, doomed, reaping>>

\* What leaves the subagents alone.
Dispatch(m) ==
  /\ \/ m \notin Results /\ Publish(m)
     \/ Consume(m) \/ DispatchStart(m) \/ LockAcquire(m) \/ GateAcquire(m)
  /\ UNCHANGED subagentVars

SubagentsQuiescent ==
  /\ loop = "blocked" /\ inbound = <<>>
  /\ \A m \in Messages : ~Live(m) /\ (m \notin Results => outcome[m] # "unsent")
  /\ \A r \in Results : agent[r] # "running"
  /\ UNCHANGED allVars

SubagentsNext ==
  \/ AnswerCommand
  \/ \E m \in Messages :
       \/ Dispatch(m) \/ WaitForResult(m) \/ Drain(m) \/ WaitTimedOut(m)
       \/ Cancelling(m) \/ EndTurn(m) \/ CancelTurn(m)
  \/ \E m \in Messages, r \in Results : Spawn(m, r)
  \/ \E r \in Results : Report(r) \/ CancelTask(r) \/ EndCancelled(r)
  \/ SubagentsQuiescent

SubagentsSpec == SubagentsInit /\ [][SubagentsNext]_allVars

-----------------------------------------------------------------------------
(***************************************************************************)
(* Properties                                                              *)
(***************************************************************************)

\* "Cancel all active tasks and subagents for the session" (cmd_stop): when
\* /stop is answered, no subagent that a turn of its session spawned is
\* running, those of the turns it has just cancelled included.
StopLeavesNoSubagent ==
  [][StopAnswered =>
       \A r \in Results :
         agent'[r] = "running" => EffectiveKey(parent[r]) # EffectiveKey(command)]_allVars

\* A message is in the queue of turn m or on its way to its session, or a
\* subagent of the session runs.
Expecting(m) ==
  \/ queue[m] # <<>>
  \/ \E i \in DOMAIN inbound : EffectiveKey(inbound[i]) = EffectiveKey(m)
  \/ RunningFor(SessionOf(m)) # {}

\* The console cancelled a subagent, which then announces nothing.
CancelledByConsole == \E r \in doomed : \A c \in Messages : reaping[c] = None \/ r \notin reaping[c]

\* A turn does not wait out the 300 seconds for nothing: while it waits, a
\* message is in its queue or on the way or a subagent of its session runs
\* ("Keeps the runner loop alive so subsequent completions are injected
\* in-order", agent/loop.py). Exceptions: the console cancelled a subagent;
\* another task of the session took over the registration.
WaitIsUseful ==
  \A m \in waiting \ cancelled :
    Expecting(m) \/ CancelledByConsole \/ pendingQueues[EffectiveKey(m)] # m

\* The same without the second exception: a result is "routed to the correct
\* pending queue (mid-turn injection) instead of being dispatched as a competing
\* independent task" (agent/subagent.py).
ResultReachesWaiter ==
  \A m \in waiting \ cancelled : Expecting(m) \/ CancelledByConsole

\* A result comes back to the session whose turn spawned the subagent: "Compute
\* the effective session key (accounts for unified sessions) so that subagent
\* results route to the correct pending queue" (agent/loop.py).
ResultComesHome ==
  \A r \in Results : parent[r] # None =>
    EffectiveKey(r) = EffectiveKey(parent[r]) /\ SessionOf(r) = SessionOf(parent[r])
=============================================================================
