---------------------------- MODULE RequestReply ----------------------------
(***************************************************************************)
(* What a request to another agent promises its caller, as                 *)
(* MessageBus.request_event (openpawlet/bus/queue.py) and the tool         *)
(* send_to_agent_wait_reply state it: the request is published up to       *)
(* 1 + MaxRetries times, it succeeds only with an answer to itself, it     *)
(* gives up only when every attempt went unanswered in time, and it ends.  *)
(***************************************************************************)
EXTENDS Naturals

CONSTANTS
  Requests,    \* calls of request_event, each with a correlation id of its own
  MaxRetries   \* max_retries: attempts after the first

VARIABLES
  status,      \* [Requests -> Statuses]
  asked,       \* [Requests -> how often the request was published]
  answers      \* [Requests -> how many answers its peer has published]

vars == <<status, asked, answers>>

Statuses == {"idle", "pending", "ok", "timeout", "cancelled"}
Ended == {"ok", "timeout", "cancelled"}

TypeOK ==
  /\ status \in [Requests -> Statuses]
  /\ asked \in [Requests -> 0..(1 + MaxRetries)]
  /\ answers \in [Requests -> Nat]

Init ==
  /\ status = [r \in Requests |-> "idle"]
  /\ asked = [r \in Requests |-> 0]
  /\ answers = [r \in Requests |-> 0]

Ask(r) ==
  /\ status[r] = "idle" \/ (status[r] = "pending" /\ asked[r] <= MaxRetries)
  /\ status' = [status EXCEPT ![r] = "pending"]
  /\ asked' = [asked EXCEPT ![r] = @ + 1]
  /\ UNCHANGED answers

\* A peer can answer only what it was asked, and may do so too late.
Answer(r) ==
  /\ asked[r] > 0
  /\ answers' = [answers EXCEPT ![r] = @ + 1]
  /\ UNCHANGED <<status, asked>>

Succeed(r) ==
  /\ status[r] = "pending" /\ answers[r] > 0
  /\ status' = [status EXCEPT ![r] = "ok"]
  /\ UNCHANGED <<asked, answers>>

GiveUp(r) ==
  /\ status[r] = "pending" /\ asked[r] = 1 + MaxRetries
  /\ status' = [status EXCEPT ![r] = "timeout"]
  /\ UNCHANGED <<asked, answers>>

\* The turn that asked is cancelled (/stop, /new, a runtime that stops).
Cancel(r) ==
  /\ status[r] = "pending"
  /\ status' = [status EXCEPT ![r] = "cancelled"]
  /\ UNCHANGED <<asked, answers>>

Next ==
  \E r \in Requests : Ask(r) \/ Answer(r) \/ Succeed(r) \/ GiveUp(r) \/ Cancel(r)

Safety == Init /\ [][Next]_vars

Progress(r) ==
  /\ status[r] = "pending"
  /\ Ask(r) \/ Succeed(r) \/ GiveUp(r)

Spec == Safety /\ \A r \in Requests : WF_vars(Progress(r))

\* Every request comes back to its caller.
RequestsEnd == \A r \in Requests : status[r] = "pending" ~> status[r] \in Ended
=============================================================================
