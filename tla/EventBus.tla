------------------------------ MODULE EventBus ------------------------------
(***************************************************************************)
(* Agent events (openpawlet/bus/queue.py, agent/tools/events.py): direct   *)
(* messages fanned out to the subscriptions of their agent or kept in its  *)
(* mailbox while nobody listens, requests that wait for a correlated reply *)
(* and retry, the event loop of each team member or standalone agent       *)
(* (agent/team_serve.py), and the subscribe_event tool of the gateway      *)
(* agent.                                                                  *)
(*                                                                         *)
(* The bus runs on one asyncio event loop and none of its locks is held    *)
(* over an await, so publishing, subscribing, listing and acknowledging    *)
(* are each one step.                                                      *)
(***************************************************************************)
EXTENDS Naturals, FiniteSets, SequencesExt

CONSTANTS
  Members,     \* agents served by run_team_member_event_loop
  Gateway,     \* an agent that listens with the subscribe_event tool only
  Directs,     \* messages sent with send_to_agent or publish_event
  Receiver,    \* [Directs -> agent, or Everyone]
  Requests,    \* calls of send_to_agent_wait_reply
  Asker,       \* [Requests -> agent whose turn makes the call]
  Callee,      \* [Requests -> member that is asked]
  Plans,       \* the sets of calls, among which a behaviour makes one: of
               \* direct messages, requests and subscriptions of the gateway
  MaxRetries,  \* max_retries of the calls
  MaxReplies,  \* bound: replies published for one request
  MaxStarts,   \* bound: how often a member's loop is started
  None         \* no event, no request

Agents == Members \cup {Gateway}
Everyone == "broadcast"

ASSUME ConstantsAssumption ==
  /\ Gateway \notin Members /\ Everyone \notin Agents
  /\ Members \cap {"pump", "inline"} = {}
  /\ Receiver \in [Directs -> Agents \cup {Everyone}]
  /\ Asker \in [Requests -> Agents]
  /\ Callee \in [Requests -> Members]
  /\ Plans \subseteq SUBSET (Directs \cup Requests \cup {"pump", "inline"})
  /\ MaxRetries \in Nat /\ MaxReplies \in Nat /\ MaxStarts \in Nat
  /\ None \notin Requests

VARIABLES
  plan,      \* the calls of this behaviour, chosen at the start
  sent,      \* the direct messages sent so far
  open,      \* _event_subs: the open subscriptions
  dead,      \* members with a subscription left in _event_subs by a loop that
             \* is gone
  queue,     \* [Subscriptions -> their events, oldest first]
  mailbox,   \* _direct_mailbox: [Agents -> unacknowledged events]
  waiters,   \* _request_waiters: requests with an entry (at most one future)
  request,   \* [Requests -> state of the call and the attempt it is at]
  replies,   \* [Requests -> replies published for it]
  member,    \* [Members -> state of the member's event loop]
  starts,    \* [Members -> how often it was started]
  handled    \* history: pairs of an agent and an event it has handled

busVars == <<open, dead, queue, mailbox, waiters>>
vars == <<plan, sent, busVars, request, replies, member, starts, handled>>

\* The gateway subscribes in the background ("pump") and inline, within a turn
\* that waits for the next event; a member's subscription bears its name.
Subscriptions == Members \cup {"pump", "inline"}
Subscriber(s) == IF s \in Members THEN s ELSE Gateway

Direct(d) == [kind |-> "direct", of |-> d, try |-> 0, to |-> Receiver[d]]
Attempt(r, k) == [kind |-> "request", of |-> r, try |-> k, to |-> Callee[r]]
Reply(r, n) == [kind |-> "reply", of |-> r, try |-> n, to |-> Asker[r]]

Events ==
  {Direct(d) : d \in Directs}
    \cup {Attempt(r, k) : r \in Requests, k \in 1..(1 + MaxRetries)}
    \cup {Reply(r, n) : r \in Requests, n \in 1..MaxReplies}

ASSUME NoneAssumption == None \notin Events

RequestStates ==
  {"idle", "waiting", "answered", "expired", "backoff", "ok", "timeout", "cancelled"}
MemberStates == {"off", "connecting", "running", "cancelling"}

Calls == [st : RequestStates, try : 0..(1 + MaxRetries)]
Loops == [pc : MemberStates, replay : Seq(Events),
          event : Events \cup {None}, call : Requests \cup {None}]

TypeOK ==
  /\ plan \in Plans
  /\ sent \in SUBSET Directs
  /\ open \in SUBSET Subscriptions
  /\ dead \in SUBSET Members
  /\ queue \in [Subscriptions -> Seq(Events)]
  /\ mailbox \in [Agents -> Seq(Events)]
  /\ waiters \in SUBSET Requests
  /\ request \in [Requests -> Calls]
  /\ replies \in [Requests -> 0..MaxReplies]
  /\ member \in [Members -> Loops]
  /\ starts \in [Members -> 0..MaxStarts]
  /\ handled \in SUBSET (Agents \X Events)

Off == [pc |-> "off", replay |-> <<>>, event |-> None, call |-> None]

Init ==
  /\ plan \in Plans
  /\ sent = {}
  /\ open = {} /\ dead = {}
  /\ queue = [s \in Subscriptions |-> <<>>]
  /\ mailbox = [a \in Agents |-> <<>>]
  /\ waiters = {}
  /\ request = [r \in Requests |-> [st |-> "idle", try |-> 0]]
  /\ replies = [r \in Requests |-> 0]
  /\ member = [a \in Members |-> Off]
  /\ starts = [a \in Members |-> 0]
  /\ handled = {}

(***************************************************************************)
(* The bus                                                                 *)
(***************************************************************************)

\* _event_matches
Matches(s, e) == e.to \in {Everyone, Subscriber(s)}

\* Fault: the mailbox keeps what a listener has got as well.
FanOutAndKeep(e) ==
  /\ queue' = [s \in Subscriptions |->
                 IF s \in open /\ Matches(s, e) THEN Append(queue[s], e) ELSE queue[s]]
  /\ mailbox' = IF e.to = Everyone THEN mailbox
                ELSE [mailbox EXCEPT ![e.to] = Append(@, e)]

\* _fan_out_event: every listener gets a copy; a direct message that reaches
\* no subscription, not even a dead one, is kept for the next subscriber, and
\* a broadcast never.
FanOut(e) ==
  LET listeners == {s \in open : Matches(s, e)}
      delivered == listeners # {} \/ e.to \in dead \cup {Everyone}
  IN /\ queue' = [s \in Subscriptions |->
                    IF s \in listeners THEN Append(queue[s], e) ELSE queue[s]]
     /\ mailbox' = IF delivered THEN mailbox
                   ELSE [mailbox EXCEPT ![e.to] = Append(@, e)]

Contents(s) == {s[i] : i \in DOMAIN s}

\* The mailbox without an event, of which it holds one at most: it is a
\* dictionary of message ids.
Without(s, e) ==
  IF e \in Contents(s) THEN RemoveAt(s, CHOOSE i \in DOMAIN s : s[i] = e) ELSE s

\* Fault: nothing is removed.
AckNothing(a, e) == UNCHANGED mailbox

\* ack_pending_direct_event
Ack(a, e) == mailbox' = [mailbox EXCEPT ![a] = Without(@, e)]

\* send_to_agent and publish_event, from any turn.
SendDirect(d) ==
  /\ d \in plan \ sent
  /\ sent' = sent \cup {d}
  /\ FanOut(Direct(d))
  /\ UNCHANGED <<plan, open, dead, waiters, request, replies, member, starts, handled>>

(***************************************************************************)
(* Requests (request_event)                                                *)
(***************************************************************************)

\* An attempt: a future registered under the correlation id, and the request
\* published under a message id of its own.
Publish(r) ==
  /\ request' = [request EXCEPT ![r] = [st |-> "waiting", try |-> @.try + 1]]
  /\ waiters' = waiters \cup {r}
  /\ FanOut(Attempt(r, request[r].try + 1))

\* A turn of the asker makes the call; a member's loop is blocked in that turn.
Ask(r) ==
  /\ r \in plan /\ request[r].st = "idle"
  /\ \/ Asker[r] = Gateway /\ UNCHANGED member
     \/ LET a == Asker[r] IN
          /\ a \in Members
          /\ member[a].pc = "running" /\ member[a].event # None /\ member[a].call = None
          /\ member' = [member EXCEPT ![a].call = r]
  /\ Publish(r)
  /\ UNCHANGED <<plan, sent, open, dead, replies, starts, handled>>

\* publish_event of a reply.  It goes to the registered future; if that one is
\* already done the reply is swallowed; with no entry left it is an event like
\* any other (_try_fulfill_request_reply).
PublishReply(r, e) ==
  IF r \in waiters
  THEN /\ waiters' = waiters \ {r}
       /\ request' = IF request[r].st = "waiting"
                     THEN [request EXCEPT ![r].st = "answered"] ELSE request
       /\ UNCHANGED <<queue, mailbox>>
  ELSE /\ FanOut(e)
       /\ UNCHANGED <<waiters, request>>

\* reply_to_agent_request in the turn that serves the request.
Answer(a) ==
  /\ member[a].pc = "running" /\ member[a].event # None /\ member[a].call = None
  /\ member[a].event.kind = "request"
  /\ LET r == member[a].event.of IN
       /\ replies[r] < MaxReplies
       /\ replies' = [replies EXCEPT ![r] = @ + 1]
       /\ PublishReply(r, Reply(r, replies[r] + 1))
  /\ UNCHANGED <<plan, sent, open, dead, member, starts, handled>>

\* The call is over: its caller's turn goes on.
Return(r, outcome) ==
  /\ request' = [request EXCEPT ![r].st = outcome]
  /\ member' = [a \in Members |->
                  IF member[a].call = r THEN [member[a] EXCEPT !.call = None] ELSE member[a]]

Answered(r) ==
  /\ request[r].st = "answered"
  /\ Return(r, "ok")
  /\ UNCHANGED <<plan, sent, busVars, replies, starts, handled>>

\* Fault: a wait without a time limit.
ExpireNever(r) == request[r].st = "answered" /\ r \in waiters /\ UNCHANGED vars

\* The timer of asyncio.wait_for fires.  It cancels the future, whose entry
\* stays until the caller has run again; from Python 3.12 on it also discards
\* an answer that has arrived but has not been picked up.
Expire(r) ==
  /\ request[r].st \in {"waiting", "answered"}
  /\ request' = [request EXCEPT ![r].st = "expired"]
  /\ UNCHANGED <<plan, sent, busVars, replies, member, starts, handled>>

\* Faults: one attempt too few; the entry is not removed.
TimedOutAfter(r, last) ==
  /\ request[r].st = "expired"
  /\ waiters' = waiters \ {r}
  /\ IF request[r].try >= last
     THEN Return(r, "timeout")
     ELSE request' = [request EXCEPT ![r].st = "backoff"] /\ UNCHANGED member
  /\ UNCHANGED <<plan, sent, open, dead, queue, mailbox, replies, starts, handled>>
TimedOutEarly(r) == TimedOutAfter(r, MaxRetries)
TimedOutRegistered(r) ==
  /\ request[r].st = "expired"
  /\ IF request[r].try > MaxRetries
     THEN Return(r, "timeout")
     ELSE request' = [request EXCEPT ![r].st = "backoff"] /\ UNCHANGED member
  /\ UNCHANGED <<plan, sent, busVars, replies, starts, handled>>

TimedOut(r) ==
  /\ request[r].st = "expired"
  /\ waiters' = waiters \ {r}
  /\ IF request[r].try > MaxRetries
     THEN Return(r, "timeout")
     ELSE /\ request' = [request EXCEPT ![r].st = "backoff"]
          /\ UNCHANGED member
  /\ UNCHANGED <<plan, sent, open, dead, queue, mailbox, replies, starts, handled>>

Retry(r) ==
  /\ request[r].st = "backoff"
  /\ Publish(r)
  /\ UNCHANGED <<plan, sent, open, dead, replies, member, starts, handled>>

Pending == {"waiting", "answered", "expired", "backoff"}

\* A cancelled call keeps its entry, with a future that is done.
Abandon(r) == request' = [request EXCEPT ![r].st = "cancelled"]

CancelGatewayTurn(r) ==
  /\ Asker[r] = Gateway /\ request[r].st \in Pending
  /\ Abandon(r)
  /\ UNCHANGED <<plan, sent, busVars, replies, member, starts, handled>>

(***************************************************************************)
(* A member's event loop (run_team_member_event_loop)                      *)
(***************************************************************************)

Start(a) ==
  /\ member[a].pc = "off" /\ starts[a] < MaxStarts
  /\ starts' = [starts EXCEPT ![a] = @ + 1]
  /\ member' = [member EXCEPT ![a].pc = "connecting"]
  /\ UNCHANGED <<plan, sent, busVars, request, replies, handled>>

\* MCP is connected: subscribe and list the mailbox, with no await between.
Subscribe(a) ==
  /\ member[a].pc = "connecting"
  /\ member' = [member EXCEPT ![a].pc = "running", ![a].replay = mailbox[a]]
  /\ open' = open \cup {a}
  /\ UNCHANGED <<plan, sent, dead, queue, mailbox, waiters, request, replies, starts, handled>>

\* The next turn: the mailbox is replayed first, then the queue is served.
Take(a) ==
  /\ member[a].pc = "running" /\ member[a].event = None
  /\ \/ /\ member[a].replay # <<>>
        /\ member' = [member EXCEPT ![a].event = Head(member[a].replay)]
        /\ UNCHANGED queue
     \/ /\ member[a].replay = <<>> /\ queue[a] # <<>>
        /\ member' = [member EXCEPT ![a].event = Head(queue[a])]
        /\ queue' = [queue EXCEPT ![a] = Tail(@)]
  /\ UNCHANGED <<plan, sent, open, dead, mailbox, waiters, request, replies, starts, handled>>

\* _process_message returns or raises; only success acknowledges.
EndTurn(a, ok) ==
  /\ member[a].pc = "running" /\ member[a].event # None /\ member[a].call = None
  /\ LET rest == member[a].replay IN
       member' = [member EXCEPT ![a].event = None,
                                ![a].replay = IF rest = <<>> THEN rest ELSE Tail(rest)]
  /\ IF ok THEN Ack(a, member[a].event) ELSE UNCHANGED mailbox
  /\ handled' = IF ok THEN handled \cup {<<a, member[a].event>>} ELSE handled
  /\ UNCHANGED <<plan, sent, open, dead, queue, waiters, request, replies, starts>>

\* The reconciler or the runtime's stop() cancels the loop.  A turn under way
\* unwinds, and with it the call it is blocked in.
CancelLoop(a) ==
  /\ member[a].pc \in {"connecting", "running"}
  /\ member' = IF member[a].pc = "connecting" THEN [member EXCEPT ![a] = Off]
               ELSE [member EXCEPT ![a].pc = "cancelling", ![a].call = None]
  /\ IF member[a].call # None /\ request[member[a].call].st \in Pending
     THEN Abandon(member[a].call) ELSE UNCHANGED request
  /\ UNCHANGED <<plan, sent, busVars, replies, starts, handled>>

\* The loop ends.  The subscription is closed, and what waits in it is dropped;
\* but the replay runs outside of the try whose finally clause closes it, so a
\* loop cancelled in a replayed turn leaves its subscription behind.
LoopEnds(a) ==
  /\ member[a].pc = "cancelling"
  /\ member' = [member EXCEPT ![a] = Off]
  /\ open' = open \ {a}
  /\ queue' = [queue EXCEPT ![a] = <<>>]
  /\ dead' = IF member[a].replay # <<>> THEN dead \cup {a} ELSE dead
  /\ UNCHANGED <<plan, sent, mailbox, waiters, request, replies, starts, handled>>

(***************************************************************************)
(* The gateway's subscribe_event tool                                      *)
(***************************************************************************)

\* Each pending event is injected as an inbound message and acknowledged.
ReplayPending ==
  /\ handled' = handled \cup ({Gateway} \X Contents(mailbox[Gateway]))
  /\ mailbox' = [mailbox EXCEPT ![Gateway] = <<>>]

\* _install_background: subscribe, then replay the mailbox.
Install ==
  /\ "pump" \in plan \ open
  /\ open' = open \cup {"pump"}
  /\ ReplayPending
  /\ UNCHANGED <<plan, sent, dead, queue, waiters, request, replies, member, starts>>

\* _pump_background: the next event becomes an inbound message.
Pump ==
  /\ queue["pump"] # <<>>
  /\ handled' = handled \cup {<<Gateway, Head(queue["pump"])>>}
  /\ queue' = [queue EXCEPT !["pump"] = Tail(@)]
  /\ UNCHANGED <<plan, sent, open, dead, mailbox, waiters, request, replies, member, starts>>

\* _await_inline: the oldest pending event, or a subscription for the next one.
AwaitInline ==
  /\ "inline" \in plan \ open
  /\ IF mailbox[Gateway] # <<>>
     THEN /\ handled' = handled \cup {<<Gateway, Head(mailbox[Gateway])>>}
          /\ Ack(Gateway, Head(mailbox[Gateway]))
          /\ UNCHANGED open
     ELSE /\ open' = open \cup {"inline"}
          /\ UNCHANGED <<mailbox, handled>>
  /\ UNCHANGED <<plan, sent, dead, queue, waiters, request, replies, member, starts>>

\* The tool returns with the event, or with nothing after timeout_s, and closes
\* its subscription: further events in it are dropped.
InlineReturns ==
  /\ "inline" \in open
  /\ handled' = IF queue["inline"] = <<>> THEN handled
                ELSE handled \cup {<<Gateway, Head(queue["inline"])>>}
  /\ open' = open \ {"inline"}
  /\ queue' = [queue EXCEPT !["inline"] = <<>>]
  /\ UNCHANGED <<plan, sent, dead, mailbox, waiters, request, replies, member, starts>>

(***************************************************************************)
(* Specification                                                           *)
(***************************************************************************)

CallStep(r) == Answered(r) \/ Expire(r) \/ TimedOut(r) \/ Retry(r)
TurnEnds(a) == \E ok \in BOOLEAN : EndTurn(a, ok)
MemberStep(a) ==
  \/ Start(a) \/ Subscribe(a) \/ Take(a) \/ Answer(a) \/ TurnEnds(a)
  \/ CancelLoop(a) \/ LoopEnds(a)

\* Nobody is in a turn and nothing is left to deliver.
Quiescent ==
  /\ \A a \in Members : member[a].event = None /\ member[a].pc \in {"off", "running"}
  /\ \A r \in Requests : request[r].st \notin Pending
  /\ UNCHANGED vars

Next ==
  \/ \E d \in Directs : SendDirect(d)
  \/ \E r \in Requests : Ask(r) \/ CallStep(r) \/ CancelGatewayTurn(r)
  \/ \E a \in Members : MemberStep(a)
  \/ Install \/ Pump \/ AwaitInline \/ InlineReturns
  \/ Quiescent

Spec == Init /\ [][Next]_vars

\* A timer fires, a caller whose wait is over runs, and a turn that is not
\* blocked in a call ends: the provider's calls and the tools have time limits.
FairSpec ==
  /\ Spec
  /\ \A r \in Requests : WF_vars(CallStep(r))
  /\ \A a \in Members :
       /\ WF_vars(Take(a)) /\ WF_vars(Subscribe(a))
       /\ WF_vars(TurnEnds(a)) /\ WF_vars(LoopEnds(a))

(***************************************************************************)
(* Properties                                                              *)
(***************************************************************************)

\* A request keeps its promise to the caller whatever the interleaving of
\* timers, retries, late or repeated replies and cancellations.
RR == INSTANCE RequestReply WITH
        status <- [r \in Requests |->
                     IF request[r].st \in Pending THEN "pending" ELSE request[r].st],
        asked <- [r \in Requests |-> request[r].try],
        answers <- replies
ImplementsRequestReply == RR!Spec

\* A waiting call can be reached: its future is registered.  An entry whose
\* call is over can only be that of a cancelled turn.
WaitersMatchCalls ==
  \A r \in Requests :
    /\ request[r].st = "waiting" => r \in waiters
    /\ r \in waiters => request[r].st \in {"waiting", "expired", "cancelled"}

\* An event a member has handled is gone for good: it is in no queue and no
\* mailbox of that member and no turn is at it, so replay and live delivery
\* together never handle a message twice.
HandledOnce ==
  \A a \in Members : \A e \in Events :
    <<a, e>> \in handled =>
      /\ e \notin Contents(mailbox[a])
      /\ a \in open => e \notin Contents(queue[a])
      /\ member[a].event # e

\* No message is stranded in the mailbox of a member that listens: what is
\* there was there when the loop started.
ListeningMemberHasNoNewMail ==
  [][\A a \in Members :
       a \in open => Contents(mailbox'[a]) \subseteq Contents(mailbox[a])]_vars

\* Two members that wait for each other's reply do not wait forever: a loop
\* empties its queue, or it ends.
QueuedEventsServed ==
  \A a \in Members :
    (a \in open /\ queue[a] # <<>>) ~> (a \notin open \/ queue[a] = <<>>)

\* No subscription outlives its loop: what is sent to an agent that is offline
\* waits in its mailbox.  Fails: see LoopEnds.
OfflineMailIsKept == \A a \in Members : member[a].pc = "off" => a \notin dead
=============================================================================
