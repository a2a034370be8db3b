-------------------------- MODULE TurnPersistence --------------------------
(***************************************************************************)
(* What one turn does to the session it runs in: _process_message()        *)
(* (openpawlet/agent/loop.py), the runner's loop over model requests and   *)
(* tool calls (agent/runner.py), the runtime checkpoint, and its repair    *)
(* when the turn was interrupted.                                          *)
(*                                                                         *)
(* One session.  Which messages start a turn and which are routed to the   *)
(* pending queue is SessionDispatch's subject: here a message waits in     *)
(* "inbox" until a turn begins with it or a running turn drains it.        *)
(*                                                                         *)
(* The code saves the session before every await that follows a change of  *)
(* it, so the session in memory and the session file agree wherever a turn *)
(* can be interrupted: "rows", "pendingUser" and "checkpoint" are both.    *)
(***************************************************************************)
EXTENDS Naturals, FiniteSets, Sequences, SequencesExt

CONSTANTS
  Messages,       \* inbound messages
  Kind,           \* [Messages -> {"user", "subagent", "new"}]
  Ops,            \* what may happen in this instance of the model
  PendingQueue,   \* FALSE: turns of process_direct(), which drain nothing
  InjectLimit,    \* _MAX_INJECTIONS_PER_TURN
  MaxCycles,      \* _MAX_INJECTION_CYCLES
  MaxIterations,  \* max_tool_iterations
  None            \* no message

ASSUME ConstantsAssumption ==
  /\ Kind \in [Messages -> {"user", "subagent", "new"}]
  /\ PendingQueue \in BOOLEAN
  /\ InjectLimit \in Nat \ {0} /\ MaxCycles \in Nat
  /\ MaxIterations \in Nat \ {0}
  /\ IsFiniteSet(Messages) /\ None \notin Messages

VARIABLES
  inbox,        \* messages published and not yet taken by a turn
  unsent,       \* messages nobody has written yet
  rows,         \* Session.messages
  pendingUser,  \* metadata["pending_user_turn"]
  checkpoint,   \* metadata["runtime_checkpoint"], as the rows it restores
  turn,         \* the message the turn under way began with, or None
  pc,           \* where that turn is
  msgs,         \* the runner's "messages", without the system prompt
  skip,         \* save_skip, without the system prompt
  iter,         \* the runner's "iteration"
  cycles,       \* injection_cycles
  injected,     \* history: messages this turn has drained
  prompts,      \* history: messages that began a turn since /new
  absorbed,     \* history: messages that joined a turn since /new
  forgotten     \* history: messages sent before the last /new was answered

session == <<rows, pendingUser, checkpoint>>
runner == <<msgs, skip, iter, cycles, injected>>
channels == <<inbox, unsent>>
history == <<prompts, absorbed, forgotten>>
vars == <<channels, session, turn, pc, runner, history>>

(***************************************************************************)
(* Rows                                                                    *)
(***************************************************************************)

\* The step of a turn that wrote an assistant row and made its tool calls.
Steps == (Messages \cup {None}) \X (0..MaxIterations)
NoStep == <<None, 0>>

Row == [role : {"user", "assistant", "tool"}, texts : SUBSET Messages,
        step : Steps, calls : SUBSET {"tool", "ask"}]

User(texts) ==
  [role |-> "user", texts |-> texts, step |-> NoStep, calls |-> {}]
Assistant(step, calls) ==
  [role |-> "assistant", texts |-> {}, step |-> step, calls |-> calls]
Result(step, call, texts) ==
  [role |-> "tool", texts |-> texts, step |-> step, calls |-> {call}]
FollowUp(m) == [Assistant(NoStep, {}) EXCEPT !.texts = {m}]

\* The results of a step's calls, in call order (ask_user is the last call).
Results(step, calls) ==
  (IF "tool" \in calls THEN <<Result(step, "tool", {})>> ELSE <<>>)
    \o (IF "ask" \in calls THEN <<Result(step, "ask", {})>> ELSE <<>>)

EndsWith(s, role) == s # <<>> /\ Last(s).role = role
Texts(s) == UNION {s[i].texts : i \in DOMAIN s}

TypeOK ==
  /\ inbox \subseteq Messages /\ unsent \subseteq Messages
  /\ inbox \cap unsent = {}
  /\ rows \in Seq(Row) /\ checkpoint \in Seq(Row) /\ msgs \in Seq(Row)
  /\ pendingUser \in BOOLEAN
  /\ turn \in Messages \cup {None}
  /\ pc \in {"idle", "preparing", "model", "tools", "drain", "closing", "ending"}
  /\ pc = "idle" <=> turn = None
  /\ pc \in {"tools", "drain"} => checkpoint # <<>>
  /\ skip \in Nat
  /\ iter \in 0..MaxIterations
  /\ cycles \in 0..MaxCycles
  /\ {injected, prompts, absorbed, forgotten} \subseteq SUBSET Messages

Init ==
  /\ inbox = {} /\ unsent = Messages
  /\ rows = <<>> /\ pendingUser = FALSE /\ checkpoint = <<>>
  /\ turn = None /\ pc = "idle"
  /\ msgs = <<>> /\ skip = 0 /\ iter = 0 /\ cycles = 0
  /\ injected = {} /\ prompts = {} /\ absorbed = {} /\ forgotten = {}

(***************************************************************************)
(* Repair of an interrupted turn                                           *)
(***************************************************************************)

\* _restore_runtime_checkpoint: the rows of the checkpoint, less those the
\* session already ends with.
Overlap ==
  CHOOSE n \in 0..Len(checkpoint) :
    /\ IsSuffix(SubSeq(checkpoint, 1, n), rows)
    /\ \A i \in (n + 1)..Len(checkpoint) :
         ~IsSuffix(SubSeq(checkpoint, 1, i), rows)
WithCheckpoint ==
  rows \o SubSeq(checkpoint, Overlap + 1, Len(checkpoint))

\* Fault: a prompt that got no answer is left as it is.
RestoredUnanswered == IF checkpoint # <<>> THEN WithCheckpoint ELSE rows

\* Both repairs: the checkpoint clears the pending-user flag, so the second
\* one answers a prompt only when the turn had not got to a checkpoint.
Restored ==
  IF checkpoint # <<>> THEN WithCheckpoint
  ELSE IF pendingUser /\ EndsWith(rows, "user")
  THEN Append(rows, Assistant(NoStep, {}))
  ELSE rows

\* pending_ask_user_id: the steps whose ask_user call has no result.
Asked(s) ==
  {s[i].step : i \in {x \in DOMAIN s : s[x].role = "assistant" /\ "ask" \in s[x].calls}}
    \ {s[i].step : i \in {x \in DOMAIN s : s[x].role = "tool" /\ "ask" \in s[x].calls}}
LastAsked(s) ==
  s[CHOOSE i \in DOMAIN s :
      /\ s[i].step \in Asked(s)
      /\ \A j \in DOMAIN s : s[j].step \in Asked(s) => j <= i].step

(***************************************************************************)
(* Around the runner                                                       *)
(***************************************************************************)

\* The turn ends and its local variables with it.
TurnOver ==
  /\ turn' = None /\ pc' = "idle"
  /\ msgs' = <<>> /\ skip' = 0 /\ iter' = 0 /\ cycles' = 0 /\ injected' = {}

Send(m) ==
  /\ m \in unsent
  /\ unsent' = unsent \ {m}
  /\ inbox' = inbox \cup {m}
  /\ UNCHANGED <<session, turn, pc, runner, history>>

\* _process_message up to the consolidation it awaits: the last turn is
\* repaired if it was interrupted.
BeginTurn(m) ==
  /\ pc = "idle"
  /\ m \in inbox /\ Kind[m] # "new"
  /\ inbox' = inbox \ {m}
  /\ rows' = Restored /\ pendingUser' = FALSE /\ checkpoint' = <<>>
  /\ turn' = m /\ pc' = "preparing"
  /\ UNCHANGED <<unsent, runner, history>>

\* The reply to an ask_user question becomes the result of the call and is
\* not saved before the turn ends.
AnswerQuestion ==
  /\ Kind[turn] = "user" /\ Asked(rows) # {}
  /\ msgs' = Append(rows, Result(LastAsked(rows), "ask", {turn}))
  /\ skip' = Len(rows)
  /\ UNCHANGED <<session, prompts>>

\* Faults: the prompt is not saved before the turn ends; save_skip is one too
\* many in every turn.
PersistPromptLate ==
  /\ Kind[turn] = "user" /\ Asked(rows) = {}
  /\ pendingUser' = TRUE
  /\ msgs' = Append(rows, User({turn})) /\ skip' = Len(rows)
  /\ prompts' = prompts \cup {turn}
  /\ UNCHANGED <<rows, checkpoint>>

PersistPromptSkip ==
  /\ Kind[turn] = "user" /\ Asked(rows) = {}
  /\ rows' = Append(rows, User({turn}))
  /\ pendingUser' = TRUE
  /\ msgs' = rows' /\ skip' = Len(rows) + 2
  /\ prompts' = prompts \cup {turn}
  /\ UNCHANGED checkpoint

\* Otherwise the prompt is saved at once.  build_messages merges it into the
\* last row of the history when that is a user row, save_skip counts it still.
PersistPrompt ==
  /\ Kind[turn] = "user" /\ Asked(rows) = {}
  /\ rows' = Append(rows, User({turn}))
  /\ pendingUser' = TRUE
  /\ msgs' = IF EndsWith(rows, "user")
             THEN [rows EXCEPT ![Len(rows)].texts = @ \cup {turn}]
             ELSE rows'
  /\ skip' = Len(rows) + 1
  /\ prompts' = prompts \cup {turn}
  /\ UNCHANGED checkpoint

\* A subagent's result is saved as an assistant row and prompts the turn.
PersistFollowUp ==
  /\ Kind[turn] = "subagent"
  /\ rows' = Append(rows, FollowUp(turn))
  /\ msgs' = rows' /\ skip' = Len(rows')
  /\ prompts' = prompts \cup {turn}
  /\ UNCHANGED <<pendingUser, checkpoint>>

Prepare ==
  /\ pc = "preparing"
  /\ AnswerQuestion \/ PersistPrompt \/ PersistFollowUp
  /\ pc' = "model"
  /\ UNCHANGED <<channels, turn, iter, cycles, injected, absorbed, forgotten>>

\* _save_turn: what the runner appended behind save_skip.
TurnRows == SubSeq(msgs, skip + 1, Len(msgs))

\* Faults: the last row before the turn is saved again; injected rows are taken
\* for runtime context and stripped.
SaveTurnTwice ==
  /\ pc = "ending"
  /\ rows' = rows \o SubSeq(msgs, skip, Len(msgs))
  /\ pendingUser' = FALSE /\ checkpoint' = <<>>
  /\ prompts' = prompts \cup {turn} /\ absorbed' = absorbed \cup injected
  /\ TurnOver
  /\ UNCHANGED <<channels, forgotten>>
SaveTurnStripped ==
  LET Kept(row) == row.role # "user" IN
  /\ pc = "ending"
  /\ rows' = rows \o SelectSeq(TurnRows, Kept)
  /\ pendingUser' = FALSE /\ checkpoint' = <<>>
  /\ prompts' = prompts \cup {turn} /\ absorbed' = absorbed \cup injected
  /\ TurnOver
  /\ UNCHANGED <<channels, forgotten>>

\* The end of _process_message: the turn is saved and no longer marked.
SaveTurn ==
  /\ pc = "ending"
  /\ rows' = rows \o TurnRows
  /\ pendingUser' = FALSE /\ checkpoint' = <<>>
  /\ prompts' = prompts \cup {turn} /\ absorbed' = absorbed \cup injected
  /\ TurnOver
  /\ UNCHANGED <<channels, forgotten>>

\* Cancelled by /stop, or failed: what the session holds is left as it is.
Interrupt ==
  /\ "interrupt" \in Ops
  /\ pc # "idle"
  /\ TurnOver
  /\ UNCHANGED <<channels, session, history>>

\* The process dies, and with it the bus and the pending queues.
Crash ==
  /\ "crash" \in Ops
  /\ pc # "idle"
  /\ TurnOver
  /\ inbox' = {}
  /\ UNCHANGED <<unsent, session, history>>

Forget(m) ==
  /\ inbox' = inbox \ {m}
  /\ rows' = <<>>
  /\ prompts' = {} /\ absorbed' = {}
  /\ forgotten' = Messages \ (unsent \cup inbox')
  /\ TurnOver
  /\ UNCHANGED unsent

\* cmd_new.  As a turn of its own it follows the repair, which empties the
\* metadata; during a turn it cancels it and leaves the metadata alone.
New(m) ==
  /\ m \in inbox /\ Kind[m] = "new"
  /\ Forget(m)
  /\ \/ pc = "idle" /\ pendingUser' = FALSE /\ checkpoint' = <<>>
     \/ pc # "idle" /\ "inlineNew" \in Ops /\ UNCHANGED <<pendingUser, checkpoint>>

(***************************************************************************)
(* The runner                                                              *)
(***************************************************************************)

Step == <<turn, iter>>

\* What _drain_injections returns: any messages of the inbox, at most
\* InjectLimit, and all of them when they are fewer.
Drainable ==
  IF ~PendingQueue \/ cycles >= MaxCycles THEN {{}}
  ELSE LET open == {m \in inbox : Kind[m] # "new"} IN
       {S \in SUBSET open :
          Cardinality(S) = IF Cardinality(open) < InjectLimit
                           THEN Cardinality(open) ELSE InjectLimit}

\* _append_injected_messages: a user row at the end takes them in.
Inject(s, S) ==
  IF EndsWith(s, "user") THEN [s EXCEPT ![Len(s)].texts = @ \cup S]
  ELSE Append(s, User(S))

\* _append_final_message and _append_model_error_placeholder: an assistant row
\* without calls at the end is replaced or left as it is.
WithPlaceholder(s) ==
  IF EndsWith(s, "assistant") /\ Last(s).calls = {} THEN s
  ELSE Append(s, Assistant(Step, {}))
WithLimitMessage(s) ==
  IF EndsWith(s, "assistant") /\ Last(s).calls = {} THEN s
  ELSE Append(s, Assistant(<<turn, MaxIterations>>, {}))

\* "continue": the next iteration, or what the for statement's else does.  An
\* instance without "maxIterations" stops short of the limit: it is a bound.
Continue(s) ==
  \/ /\ iter + 1 < MaxIterations
     /\ msgs' = s /\ iter' = iter + 1 /\ pc' = "model"
  \/ /\ iter + 1 = MaxIterations
     /\ "maxIterations" \in Ops
     /\ msgs' = WithLimitMessage(s) /\ iter' = MaxIterations /\ pc' = "closing"

\* A drain that found messages; and one that found none.
Drained(S) ==
  /\ S # {}
  /\ inbox' = inbox \ S
  /\ injected' = injected \cup S
  /\ cycles' = cycles + 1
  /\ UNCHANGED unsent
NothingDrained ==
  /\ {} \in Drainable
  /\ UNCHANGED <<channels, injected, cycles>>

\* Fault: no checkpoint before the tools run.
ToolCallsUnsaved(calls) ==
  /\ pc = "model" /\ calls # {}
  /\ "ask" \in calls => "ask" \in Ops
  /\ msgs' = Append(msgs, Assistant(Step, calls))
  /\ pc' = "tools"
  /\ UNCHANGED <<channels, session, turn, skip, iter, cycles, injected, history>>

\* The response has tool calls: the checkpoint answers each of them with
\* "interrupted before this tool finished".
ToolCalls(calls) ==
  /\ pc = "model" /\ calls # {}
  /\ "ask" \in calls => "ask" \in Ops
  /\ msgs' = Append(msgs, Assistant(Step, calls))
  /\ checkpoint' = <<Assistant(Step, calls)>> \o Results(Step, calls)
  /\ pc' = "tools"
  /\ UNCHANGED <<channels, rows, pendingUser, turn, skip, iter, cycles, injected, history>>

\* The tools ran.  A question ends the turn, without a result of its own.
ToolsDone ==
  LET calls == Last(msgs).calls
      results == Results(Step, calls \ {"ask"})
  IN /\ pc = "tools"
     /\ msgs' = msgs \o results
     /\ \/ "ask" \in calls /\ pc' = "ending" /\ UNCHANGED checkpoint
        \/ /\ "ask" \notin calls
           /\ pc' = "drain"
           /\ checkpoint' = <<Last(msgs)>> \o results
     /\ UNCHANGED <<channels, rows, pendingUser, turn, skip, iter, cycles,
                    injected, history>>

\* A fatal tool error, or a policy abort, which skips the calls behind it and
\* ends the turn without another drain.
ToolFails ==
  LET calls == Last(msgs).calls IN
  /\ "toolError" \in Ops
  /\ pc = "tools" /\ "tool" \in calls
  /\ \/ msgs' = WithPlaceholder(msgs \o Results(Step, calls)) /\ pc' = "closing"
     \/ msgs' = WithPlaceholder(msgs \o Results(Step, {"tool"})) /\ pc' = "ending"
  /\ UNCHANGED <<channels, session, turn, skip, iter, cycles, injected, history>>

\* After the tools: follow-ups are injected (the drain may wait for a running
\* subagent), and the model is asked again.
DrainAfterTools ==
  /\ pc = "drain"
  /\ \/ \E S \in Drainable : Drained(S) /\ Continue(Inject(msgs, S))
     \/ NothingDrained /\ Continue(msgs)
  /\ UNCHANGED <<session, turn, skip, history>>

\* A text response: with follow-ups the turn goes on, otherwise it is final.
Answer ==
  LET s == Append(msgs, Assistant(Step, {})) IN
  /\ pc = "model"
  /\ checkpoint' = <<Assistant(Step, {})>>
  /\ \/ \E S \in Drainable : Drained(S) /\ Continue(Inject(s, S))
     \/ /\ NothingDrained
        /\ msgs' = s /\ pc' = "ending" /\ UNCHANGED iter
  /\ UNCHANGED <<rows, pendingUser, turn, skip, history>>

\* A failed request, or one that stayed blank: follow-ups are injected without
\* an assistant row, otherwise a placeholder closes the turn.
NoAnswer ==
  /\ "noAnswer" \in Ops
  /\ pc = "model"
  /\ \/ \E S \in Drainable : Drained(S) /\ Continue(Inject(msgs, S))
     \/ /\ NothingDrained
        /\ msgs' = WithPlaceholder(msgs) /\ pc' = "closing" /\ UNCHANGED iter
  /\ UNCHANGED <<session, turn, skip, history>>

\* A blank response that is retried; one cut at the length limit, which the
\* runner keeps and follows with a request to go on.
Retry ==
  /\ "retry" \in Ops
  /\ pc = "model"
  /\ \/ Continue(msgs)
     \/ Continue(msgs \o <<Assistant(Step, {}), User({})>>)
  /\ UNCHANGED <<channels, session, turn, skip, cycles, injected, history>>

\* Fault: the turn is reopened although nothing was drained.
CloseReopens ==
  /\ pc = "closing"
  /\ NothingDrained
  /\ pc' = "model"
  /\ UNCHANGED <<msgs, iter>>
  /\ UNCHANGED <<session, turn, skip, history>>

\* The last drain: after an error it may reopen the turn, after the last
\* iteration the messages are only appended.
Close ==
  /\ pc = "closing"
  /\ \/ \E S \in Drainable :
          /\ Drained(S)
          /\ \/ iter < MaxIterations /\ Continue(Inject(msgs, S))
             \/ /\ iter = MaxIterations
                /\ msgs' = Inject(msgs, S) /\ pc' = "ending" /\ UNCHANGED iter
     \/ NothingDrained /\ pc' = "ending" /\ UNCHANGED <<msgs, iter>>
  /\ UNCHANGED <<session, turn, skip, history>>

TurnStep ==
  \/ Prepare \/ ToolsDone \/ ToolFails \/ DrainAfterTools
  \/ Answer \/ NoAnswer \/ Retry \/ Close \/ SaveTurn
  \/ \E calls \in SUBSET {"tool", "ask"} : ToolCalls(calls)

\* Every message was sent and dealt with.
Quiescent ==
  /\ pc = "idle" /\ inbox = {} /\ unsent = {}
  /\ UNCHANGED vars

Next ==
  \/ \E m \in Messages : Send(m) \/ BeginTurn(m) \/ New(m)
  \/ TurnStep \/ Interrupt \/ Crash
  \/ Quiescent

Spec == Init /\ [][Next]_vars

\* Every await of a turn has a timeout.
FairSpec == Spec /\ WF_vars(TurnStep)

-----------------------------------------------------------------------------
(***************************************************************************)
(* Properties                                                              *)
(***************************************************************************)

\* The message a turn began with is in the session from before the first
\* request on, an answer to a question from the end of its turn: no failure,
\* /stop, crash or repair takes it out again.
PromptsSaved == prompts \subseteq Texts(rows)

\* So are the follow-ups that joined a turn, from its end; and no message is in
\* the session twice.
HeldMessagesSaved ==
  /\ PromptsSaved /\ absorbed \subseteq Texts(rows)
  /\ \A i, j \in DOMAIN rows : i # j => rows[i].texts \cap rows[j].texts = {}

\* A tool result is never without its call.  get_history() drops everything up
\* to an orphan, so one would cost the model the whole conversation before it.
NoOrphanResult ==
  \A i \in DOMAIN rows :
    rows[i].role = "tool" =>
      \E j \in 1..(i - 1) :
        /\ rows[j].role = "assistant" /\ rows[j].step = rows[i].step
        /\ rows[i].calls \subseteq rows[j].calls

\* No step of the runner, and no result of a call, is in the session twice: a
\* checkpoint is restored only when its turn was not saved.
StepsOnce ==
  \A i, j \in DOMAIN rows :
    i # j /\ rows[i].step # NoStep => rows[i] # rows[j]

\* Two prompts are never adjacent: an interrupted turn is answered before the
\* next prompt, which some providers require.
PromptsAlternate ==
  \A i \in 1..(Len(rows) - 1) :
    ~(rows[i].role = "user" /\ rows[i + 1].role = "user")

\* "Start a fresh session": nothing of the conversation before /new comes back.
NewIsFresh ==
  \A i \in DOMAIN rows :
    rows[i].texts \cap forgotten = {} /\ rows[i].step[1] \notin forgotten

\* The runner's loop ends, however many follow-ups and tool calls keep it going.
TurnEnds == pc # "idle" ~> pc = "idle"

=============================================================================
