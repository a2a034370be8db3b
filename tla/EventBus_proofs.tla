--------------------------- MODULE EventBus_proofs ---------------------------
(***************************************************************************)
(* Proofs about EventBus, for all agents, messages, plans of calls and     *)
(* limits: no message is handled twice, a listening agent gets no new      *)
(* mail, and a request keeps the promise of RequestReply.                  *)
(***************************************************************************)
EXTENDS EventBus, SequenceTheorems, TLAPS

-----------------------------------------------------------------------------
(***************************************************************************)
(* Queues and mailboxes as sequences                                       *)
(***************************************************************************)

Distinct(s) == \A i, j \in DOMAIN s : s[i] = s[j] => i = j

LEMMA ContentsAppend ==
  ASSUME NEW S, NEW s \in Seq(S), NEW e \in S
  PROVE  /\ Append(s, e) \in Seq(S)
         /\ Contents(Append(s, e)) = Contents(s) \cup {e}
         /\ Distinct(s) /\ e \notin Contents(s) => Distinct(Append(s, e))
<1>1. /\ Append(s, e) \in Seq(S)
      /\ DOMAIN Append(s, e) = 1..(Len(s) + 1) /\ DOMAIN s = 1..Len(s)
      /\ Append(s, e)[Len(s) + 1] = e
      /\ \A i \in 1..Len(s) : Append(s, e)[i] = s[i]
  BY AppendProperties
<1>2. Len(s) \in Nat
  OBVIOUS
<1>3. Contents(Append(s, e)) = Contents(s) \cup {e}
  BY <1>1, <1>2 DEF Contents
<1>4. ASSUME Distinct(s), e \notin Contents(s) PROVE Distinct(Append(s, e))
  BY <1>1, <1>2, <1>4 DEF Contents, Distinct
<1> QED
  BY <1>1, <1>3, <1>4

LEMMA ContentsTail ==
  ASSUME NEW S, NEW s \in Seq(S), s # <<>>
  PROVE  /\ Head(s) \in S /\ Tail(s) \in Seq(S)
         /\ Contents(Tail(s)) \subseteq Contents(s)
         /\ Head(s) \in Contents(s)
         /\ Distinct(s) => Distinct(Tail(s)) /\ Head(s) \notin Contents(Tail(s))
<1>1. /\ Head(s) \in S /\ Tail(s) \in Seq(S)
      /\ Len(s) \in Nat /\ Len(s) > 0 /\ Head(s) = s[1]
      /\ DOMAIN Tail(s) = 1..(Len(s) - 1) /\ DOMAIN s = 1..Len(s)
      /\ \A i \in 1..(Len(s) - 1) : Tail(s)[i] = s[i + 1]
  BY HeadTailProperties, LenProperties, EmptySeq
<1>2. Contents(Tail(s)) \subseteq Contents(s) /\ Head(s) \in Contents(s)
  BY <1>1 DEF Contents
<1>3. ASSUME Distinct(s) PROVE Distinct(Tail(s)) /\ Head(s) \notin Contents(Tail(s))
  BY <1>1, <1>3 DEF Contents, Distinct
<1> QED
  BY <1>1, <1>2, <1>3

\* What is before a position that is removed stays, and the rest moves up.
LEMMA RemoveAtProperties ==
  ASSUME NEW S, NEW s \in Seq(S), NEW k \in 1..Len(s)
  PROVE  /\ RemoveAt(s, k) \in Seq(S)
         /\ DOMAIN RemoveAt(s, k) = 1..(Len(s) - 1)
         /\ \A i \in 1..(k - 1) : RemoveAt(s, k)[i] = s[i]
         /\ \A i \in k..(Len(s) - 1) : RemoveAt(s, k)[i] = s[i + 1]
<1> DEFINE left == SubSeq(s, 1, k - 1)
           right == SubSeq(s, k + 1, Len(s))
           t == left \o right
<1>1. k \in Nat /\ k > 0 /\ Len(s) \in Nat /\ k <= Len(s)
  BY LenProperties
<1>2. \A i \in 1..Len(s) : s[i] \in S
  BY ElementOfSeq
<1>3. /\ left \in Seq(S) /\ Len(left) = k - 1
      /\ \A i \in 1..(k - 1) : left[i] = s[i]
  <2>1. \A i \in 1..(k - 1) : s[i] \in S
    BY <1>1, <1>2
  <2>2. /\ left \in Seq(S)
        /\ Len(left) = IF 1 <= k - 1 THEN k - 1 - 1 + 1 ELSE 0
        /\ \A i \in 1..(k - 1 - 1 + 1) : left[i] = s[1 + i - 1]
    BY <1>1, <2>1, SubSeqProperties
  <2> QED
    BY <1>1, <2>2
<1>4. /\ right \in Seq(S) /\ Len(right) = Len(s) - k
      /\ \A i \in 1..(Len(s) - k) : right[i] = s[k + i]
  <2>1. \A i \in (k + 1)..Len(s) : s[i] \in S
    BY <1>1, <1>2
  <2>2. /\ right \in Seq(S)
        /\ Len(right) = IF k + 1 <= Len(s) THEN Len(s) - (k + 1) + 1 ELSE 0
        /\ \A i \in 1..(Len(s) - (k + 1) + 1) : right[i] = s[(k + 1) + i - 1]
    BY <1>1, <2>1, SubSeqProperties
  <2> QED
    BY <1>1, <2>2
<1> HIDE DEF left, right
<1>5. /\ t \in Seq(S) /\ Len(t) = Len(s) - 1
      /\ \A i \in 1..(Len(s) - 1) : t[i] = IF i <= k - 1 THEN left[i] ELSE right[i - (k - 1)]
  <2>1. /\ t \in Seq(S) /\ Len(t) = Len(left) + Len(right)
        /\ \A i \in 1..(Len(left) + Len(right)) :
             t[i] = IF i <= Len(left) THEN left[i] ELSE right[i - Len(left)]
    BY <1>3, <1>4, ConcatProperties
  <2>2. Len(left) = k - 1 /\ Len(left) + Len(right) = Len(s) - 1
    BY <1>1, <1>3, <1>4
  <2> HIDE DEF t
  <2> QED
    BY <1>1, <2>1, <2>2
<1> HIDE DEF t
<1>6. DOMAIN t = 1..(Len(s) - 1)
  BY <1>5, LenProperties
<1>7. \A i \in 1..(k - 1) : t[i] = s[i]
  BY SMTT(30), <1>1, <1>3, <1>5
<1>8. ASSUME NEW i \in k..(Len(s) - 1) PROVE t[i] = s[i + 1]
  <2>1. t[i] = right[i - (k - 1)] /\ i - (k - 1) \in 1..(Len(s) - k)
    BY <1>1, <1>5
  <2>2. k + (i - (k - 1)) = i + 1
    BY <1>1
  <2> QED
    BY <1>4, <2>1, <2>2
<1>9. RemoveAt(s, k) = t
  BY DEF RemoveAt, t, left, right
<1> QED
  BY <1>5, <1>6, <1>7, <1>8, <1>9

\* A dictionary without one of its keys.
LEMMA ContentsWithout ==
  ASSUME NEW S, NEW s \in Seq(S), NEW e
  PROVE  /\ Without(s, e) \in Seq(S)
         /\ Distinct(s) => /\ Distinct(Without(s, e))
                           /\ Contents(Without(s, e)) = Contents(s) \ {e}
<1>1. CASE e \notin Contents(s)
  BY <1>1 DEF Without
<1>2. CASE e \in Contents(s)
  <2>1. PICK k : k \in DOMAIN s /\ k = (CHOOSE i \in DOMAIN s : s[i] = e) /\ s[k] = e
    BY <1>2 DEF Contents
  <2>2. k \in 1..Len(s) /\ Len(s) \in Nat /\ DOMAIN s = 1..Len(s)
    BY <2>1, LenProperties
  <2> DEFINE t == RemoveAt(s, k)
  <2>3. /\ t \in Seq(S) /\ DOMAIN t = 1..(Len(s) - 1)
        /\ \A i \in 1..(k - 1) : t[i] = s[i]
        /\ \A i \in k..(Len(s) - 1) : t[i] = s[i + 1]
    BY <2>2, RemoveAtProperties
  <2>4. Without(s, e) = t
    BY <1>2, <2>1 DEF Without
  <2> HIDE DEF t
  <2>5. ASSUME Distinct(s) PROVE Distinct(t)
    <3> SUFFICES ASSUME NEW i \in 1..(Len(s) - 1), NEW j \in 1..(Len(s) - 1), t[i] = t[j]
                 PROVE  i = j
      BY <2>3 DEF Distinct
    <3> DEFINE up(n) == IF n < k THEN n ELSE n + 1
    <3>1. ASSUME NEW n \in 1..(Len(s) - 1) PROVE up(n) \in DOMAIN s /\ t[n] = s[up(n)]
      <4>1. CASE n < k
        BY <2>2, <2>3, <4>1
      <4>2. CASE ~ (n < k)
        BY <2>2, <2>3, <4>2
      <4> QED
        BY <4>1, <4>2
    <3>2. up(i) = up(j)
      <4> HIDE DEF up
      <4> QED
        BY <2>5, <3>1 DEF Distinct
    <3> QED
      BY <2>2, <3>2
  <2>6. ASSUME Distinct(s), NEW x PROVE x \in Contents(t) <=> x \in Contents(s) \ {e}
    <3>1. ASSUME x \in Contents(t) PROVE x \in Contents(s) \ {e}
      <4>1. PICK i \in 1..(Len(s) - 1) : x = t[i]
        BY <2>3, <3>1 DEF Contents
      <4>2. PICK j \in 1..Len(s) : x = s[j] /\ j # k
        BY <2>2, <2>3, <4>1
      <4>3. x # s[k]
        BY <2>2, <2>6, <4>2 DEF Distinct
      <4> QED
        BY <2>1, <2>2, <4>2, <4>3 DEF Contents
    <3>2. ASSUME x \in Contents(s) \ {e} PROVE x \in Contents(t)
      <4>1. PICK i \in 1..Len(s) : s[i] = x /\ i # k
        BY <2>1, <2>2, <3>2 DEF Contents
      <4>2. CASE i < k
        <5>1. i \in 1..(Len(s) - 1) /\ t[i] = x
          BY <2>2, <2>3, <4>1, <4>2
        <5> QED
          BY <2>3, <5>1 DEF Contents
      <4>3. CASE i > k
        <5>1. i - 1 \in 1..(Len(s) - 1) /\ t[i - 1] = x
          BY <2>2, <2>3, <4>1, <4>3
        <5> QED
          BY <2>3, <5>1 DEF Contents
      <4> QED
        BY <2>2, <4>1, <4>2, <4>3
    <3> QED
      BY <3>1, <3>2
  <2> QED
    BY <2>3, <2>4, <2>5, <2>6
<1> QED
  BY <1>1, <1>2

-----------------------------------------------------------------------------
(***************************************************************************)
(* The invariant                                                           *)
(***************************************************************************)

Published(e) ==
  /\ e.kind = "direct" => e.of \in sent
  /\ e.kind = "request" => e.try <= request[e.of].try
  /\ e.kind = "reply" => e.try <= replies[e.of]

\* Where a member still has an event before it.
At(a) == Contents(mailbox[a]) \cup Contents(queue[a]) \cup {member[a].event}

\* The attempts of a call are counted, and an answered one was answered.
CallInv ==
  \A r \in Requests :
    /\ request[r].st = "idle" <=> request[r].try = 0
    /\ request[r].st = "backoff" => request[r].try <= MaxRetries
    /\ request[r].st = "answered" => replies[r] > 0

\* Only what was published is on its way to a member or was handled by it.
PublishedInv(a) ==
  \A e \in Events : e \in At(a) \/ <<a, e>> \in handled => Published(e)

\* An event of a member is in one place: in its mailbox, in its queue, or taken
\* out of the queue by the turn under way.
PlaceInv(a) ==
  /\ Distinct(mailbox[a]) /\ Distinct(queue[a])
  /\ Contents(mailbox[a]) \cap Contents(queue[a]) = {}
  /\ member[a].event \notin Contents(queue[a])
  /\ member[a].replay = <<>> => member[a].event \notin Contents(mailbox[a])

\* A replayed event stays in the mailbox until its turn has succeeded, and at
\* the head of the replay until its turn is over.
ReplayInv(a) ==
  /\ Distinct(member[a].replay)
  /\ Contents(member[a].replay) \subseteq Contents(mailbox[a])
  /\ member[a].replay # <<>> /\ member[a].event # None =>
       member[a].event = Head(member[a].replay)
  /\ member[a].pc \in {"off", "connecting"} =>
       member[a].replay = <<>> /\ member[a].event = None

HandledInv(a) == \A e \in Events : <<a, e>> \in handled => e \notin At(a)

Delivery(a) == PublishedInv(a) /\ PlaceInv(a) /\ ReplayInv(a) /\ HandledInv(a)
DeliveryInv == \A a \in Members : Delivery(a)

BusInv == TypeOK /\ CallInv /\ DeliveryInv

-----------------------------------------------------------------------------
(***************************************************************************)
(* Types                                                                   *)
(***************************************************************************)

LEMMA EventTypes ==
  /\ \A d \in Directs : Direct(d) \in Events
  /\ \A r \in Requests : \A k \in 1..(1 + MaxRetries) : Attempt(r, k) \in Events
  /\ \A r \in Requests : \A n \in 1..MaxReplies : Reply(r, n) \in Events
  BY DEF Events

\* What is known of an event of each kind.
LEMMA EventFields ==
  ASSUME NEW e \in Events
  PROVE  /\ e.to \in Agents \cup {Everyone}
         /\ e.kind = "direct" => e.of \in Directs /\ e = Direct(e.of)
         /\ e.kind = "request" =>
              e.of \in Requests /\ e.try \in 1..(1 + MaxRetries) /\ e = Attempt(e.of, e.try)
         /\ e.kind = "reply" =>
              e.of \in Requests /\ e.try \in 1..MaxReplies /\ e = Reply(e.of, e.try)
         /\ e.kind \in {"direct", "request", "reply"}
<1>1. CASE \E d \in Directs : e = Direct(d)
  BY <1>1, ConstantsAssumption DEF Direct
<1>2. CASE \E r \in Requests, k \in 1..(1 + MaxRetries) : e = Attempt(r, k)
  BY <1>2, ConstantsAssumption DEF Attempt, Agents
<1>3. CASE \E r \in Requests, n \in 1..MaxReplies : e = Reply(r, n)
  BY <1>3, ConstantsAssumption DEF Reply
<1> QED
  BY <1>1, <1>2, <1>3 DEF Events

LEMMA FanOutType ==
  ASSUME TypeOK, NEW e \in Events, FanOut(e)
  PROVE  /\ queue' \in [Subscriptions -> Seq(Events)]
         /\ mailbox' \in [Agents -> Seq(Events)]
<1>1. \A s \in Subscriptions : Append(queue[s], e) \in Seq(Events)
  BY ContentsAppend DEF TypeOK
<1>2. e.to # Everyone => e.to \in Agents /\ Append(mailbox[e.to], e) \in Seq(Events)
  BY EventFields, ContentsAppend DEF TypeOK
<1> QED
  BY <1>1, <1>2 DEF TypeOK, FanOut

LEMMA AckType ==
  ASSUME TypeOK, NEW a \in Agents, NEW e, Ack(a, e)
  PROVE  mailbox' \in [Agents -> Seq(Events)]
<1>1. Without(mailbox[a], e) \in Seq(Events)
  BY ContentsWithout DEF TypeOK
<1> QED
  BY <1>1 DEF TypeOK, Ack

LEMMA PublishType ==
  ASSUME TypeOK, NEW r \in Requests, request[r].try <= MaxRetries, Publish(r)
  PROVE  /\ request' \in [Requests -> Calls]
         /\ waiters' \in SUBSET Requests
         /\ queue' \in [Subscriptions -> Seq(Events)]
         /\ mailbox' \in [Agents -> Seq(Events)]
<1>1. request[r].try + 1 \in 1..(1 + MaxRetries)
  BY ConstantsAssumption DEF TypeOK, Calls
<1>2. Attempt(r, request[r].try + 1) \in Events
  BY <1>1, EventTypes
<1>3. request' \in [Requests -> Calls]
  <2>1. [st |-> "waiting", try |-> request[r].try + 1] \in Calls
    BY <1>1 DEF Calls, RequestStates
  <2> QED
    BY <2>1 DEF TypeOK, Publish
<1> QED
  BY <1>2, <1>3, FanOutType DEF TypeOK, Publish

LEMMA OffType == Off \in Loops
BY EmptySeq DEF Off, Loops, MemberStates

\* The state of one member changes.
LEMMA LoopUpdate ==
  ASSUME TypeOK, NEW a \in Members
  PROVE  /\ \A l \in Loops : [member EXCEPT ![a] = l] \in [Members -> Loops]
         /\ \A pc \in MemberStates :
              [member EXCEPT ![a].pc = pc] \in [Members -> Loops]
         /\ \A e \in Events \cup {None} :
              [member EXCEPT ![a].event = e] \in [Members -> Loops]
         /\ \A r \in Requests \cup {None} :
              [member EXCEPT ![a].call = r] \in [Members -> Loops]
<1>1. member \in [Members -> Loops] /\ member[a] \in Loops
  BY DEF TypeOK
<1>2. ASSUME NEW pc \in MemberStates PROVE [member[a] EXCEPT !.pc = pc] \in Loops
  BY <1>1 DEF Loops
<1>3. ASSUME NEW e \in Events \cup {None} PROVE [member[a] EXCEPT !.event = e] \in Loops
  BY <1>1 DEF Loops
<1>4. ASSUME NEW r \in Requests \cup {None} PROVE [member[a] EXCEPT !.call = r] \in Loops
  BY <1>1 DEF Loops
<1> QED
  BY <1>1, <1>2, <1>3, <1>4

\* The state of one call changes.
LEMMA CallUpdate ==
  ASSUME TypeOK, NEW r \in Requests, NEW st \in RequestStates
  PROVE  [request EXCEPT ![r].st = st] \in [Requests -> Calls]
<1>1. request \in [Requests -> Calls] /\ request[r] \in Calls
  BY DEF TypeOK
<1>2. [request[r] EXCEPT !.st = st] \in Calls
  BY <1>1 DEF Calls
<1> QED
  BY <1>1, <1>2

\* A call returns to the loop that made it.
LEMMA ReturnType ==
  ASSUME TypeOK, NEW r \in Requests, NEW outcome \in RequestStates, Return(r, outcome)
  PROVE  request' \in [Requests -> Calls] /\ member' \in [Members -> Loops]
<1>1. ASSUME NEW a \in Members PROVE [member[a] EXCEPT !.call = None] \in Loops
  BY DEF TypeOK, Loops
<1>2. member' \in [Members -> Loops]
  BY <1>1 DEF Return, TypeOK
<1> QED
  BY <1>2, CallUpdate DEF Return

\* Every step keeps the types.
LEMMA TypeStep == BusInv /\ [Next]_vars => TypeOK'
<1> SUFFICES ASSUME TypeOK, CallInv, [Next]_vars PROVE TypeOK'
  BY DEF BusInv
<1> USE ConstantsAssumption
<1>1. ASSUME NEW d \in Directs, SendDirect(d) PROVE TypeOK'
  BY <1>1, EventTypes, FanOutType DEF TypeOK, SendDirect
<1>2. ASSUME NEW r \in Requests, Ask(r) PROVE TypeOK'
  <2>1. request[r].try <= MaxRetries
    BY <1>2 DEF Ask, CallInv
  <2>2. member' \in [Members -> Loops]
    <3>1. CASE UNCHANGED member
      BY <3>1 DEF TypeOK
    <3>2. CASE Asker[r] \in Members /\ member' = [member EXCEPT ![Asker[r]].call = r]
      BY <3>2, LoopUpdate
    <3> QED
      BY <1>2, <3>1, <3>2 DEF Ask
  <2> QED
    BY <1>2, <2>1, <2>2, PublishType DEF TypeOK, Ask, Publish
<1>3. ASSUME NEW r \in Requests, Answered(r) PROVE TypeOK'
  BY <1>3, ReturnType DEF TypeOK, Answered, busVars, RequestStates
<1>4. ASSUME NEW r \in Requests, Expire(r) \/ CancelGatewayTurn(r) PROVE TypeOK'
  <2>1. request' \in [Requests -> Calls]
    <3>1. CASE Expire(r)
      BY <3>1, CallUpdate DEF Expire, RequestStates
    <3>2. CASE CancelGatewayTurn(r)
      BY <3>2, CallUpdate DEF CancelGatewayTurn, Abandon, RequestStates
    <3> QED
      BY <1>4, <3>1, <3>2
  <2> QED
    BY <1>4, <2>1 DEF TypeOK, Expire, CancelGatewayTurn, busVars
<1>5. ASSUME NEW r \in Requests, TimedOut(r) PROVE TypeOK'
  <2>1. CASE Return(r, "timeout")
    BY <1>5, <2>1, ReturnType DEF TypeOK, TimedOut, RequestStates
  <2>2. CASE request' = [request EXCEPT ![r].st = "backoff"] /\ UNCHANGED member
    BY <1>5, <2>2, CallUpdate DEF TypeOK, TimedOut, RequestStates
  <2> QED
    BY <1>5, <2>1, <2>2 DEF TimedOut
<1>6. ASSUME NEW r \in Requests, Retry(r) PROVE TypeOK'
  <2>1. request[r].try <= MaxRetries
    BY <1>6 DEF Retry, CallInv
  <2> QED
    BY <1>6, <2>1, PublishType DEF TypeOK, Retry, Publish
<1>7. ASSUME NEW a \in Members, Start(a) PROVE TypeOK'
  <2>1. member' \in [Members -> Loops]
    BY <1>7, LoopUpdate DEF Start, MemberStates
  <2>2. starts' \in [Members -> 0..MaxStarts]
    BY <1>7 DEF TypeOK, Start
  <2> QED
    BY <1>7, <2>1, <2>2 DEF TypeOK, Start, busVars
<1>8. ASSUME NEW a \in Members, Subscribe(a) PROVE TypeOK'
  <2>1. mailbox[a] \in Seq(Events) /\ a \in Subscriptions /\ member[a] \in Loops
    BY DEF TypeOK, Agents, Subscriptions
  <2>2. [member[a] EXCEPT !.pc = "running", !.replay = mailbox[a]] \in Loops
    BY <2>1 DEF Loops, MemberStates
  <2>3. member' = [member EXCEPT ![a] = [member[a] EXCEPT !.pc = "running", !.replay = mailbox[a]]]
    BY <1>8 DEF Subscribe
  <2>4. member' \in [Members -> Loops]
    BY <2>2, <2>3, LoopUpdate
  <2> QED
    BY <1>8, <2>1, <2>4 DEF TypeOK, Subscribe
<1>9. ASSUME NEW a \in Members, Take(a) PROVE TypeOK'
  <2>1. member[a] \in Loops /\ queue[a] \in Seq(Events)
    BY DEF TypeOK, Subscriptions
  <2>2. CASE member[a].replay # <<>>
    <3>1. Head(member[a].replay) \in Events
      BY <2>1, <2>2, ContentsTail DEF Loops
    <3>2. member' = [member EXCEPT ![a].event = Head(member[a].replay)] /\ UNCHANGED queue
      BY <1>9, <2>2 DEF Take
    <3>3. member' \in [Members -> Loops]
      BY <3>1, <3>2, LoopUpdate
    <3> QED
      BY <1>9, <3>2, <3>3 DEF TypeOK, Take
  <2>3. CASE member[a].replay = <<>>
    <3>1. queue[a] # <<>> /\ Head(queue[a]) \in Events /\ Tail(queue[a]) \in Seq(Events)
      BY <1>9, <2>1, <2>3, ContentsTail DEF Take
    <3>2. /\ member' = [member EXCEPT ![a].event = Head(queue[a])]
          /\ queue' = [queue EXCEPT ![a] = Tail(@)]
      BY <1>9, <2>3 DEF Take
    <3>3. member' \in [Members -> Loops]
      BY <3>1, <3>2, LoopUpdate
    <3>4. queue' \in [Subscriptions -> Seq(Events)]
      BY <3>1, <3>2 DEF TypeOK
    <3> QED
      BY <1>9, <3>3, <3>4 DEF TypeOK, Take
  <2> QED
    BY <2>2, <2>3
<1>10. ASSUME NEW a \in Members, Answer(a) PROVE TypeOK'
  <2> DEFINE r == member[a].event.of
             n == replies[r] + 1
  <2>1. member[a].event \in Events /\ r \in Requests
    <3>1. member[a].event \in Events /\ member[a].event.kind = "request"
      BY <1>10 DEF TypeOK, Answer, Loops
    <3> QED
      BY <3>1, EventFields
  <2>2. n \in 1..MaxReplies /\ Reply(r, n) \in Events
    <3>1. n \in 1..MaxReplies
      BY <1>10, <2>1 DEF TypeOK, Answer
    <3> QED
      BY <2>1, <3>1, EventTypes
  <2>3. PublishReply(r, Reply(r, n)) /\ replies' = [replies EXCEPT ![r] = n]
    BY <1>10 DEF Answer
  <2> HIDE DEF r, n
  <2>4. replies' \in [Requests -> 0..MaxReplies]
    BY <2>1, <2>2, <2>3 DEF TypeOK
  <2>5. CASE r \in waiters
    <3>1. waiters' \in SUBSET Requests
      BY <2>3, <2>5 DEF TypeOK, PublishReply
    <3>2. request' \in [Requests -> Calls]
      <4>1. UNCHANGED request \/ request' = [request EXCEPT ![r].st = "answered"]
        BY <2>3, <2>5 DEF PublishReply
      <4>2. [request EXCEPT ![r].st = "answered"] \in [Requests -> Calls]
        BY <2>1, CallUpdate DEF RequestStates
      <4> QED
        BY <4>1, <4>2 DEF TypeOK
    <3> QED
      BY SMTT(30), <1>10, <2>3, <2>4, <2>5, <3>1, <3>2 DEF TypeOK, Answer, PublishReply
  <2>6. CASE r \notin waiters
    BY <1>10, <2>2, <2>3, <2>4, <2>6, FanOutType DEF TypeOK, Answer, PublishReply
  <2> QED
    BY <2>5, <2>6
<1>11. ASSUME NEW a \in Members, NEW ok \in BOOLEAN, EndTurn(a, ok) PROVE TypeOK'
  <2> DEFINE rest == IF member[a].replay = <<>> THEN <<>> ELSE Tail(member[a].replay)
  <2>1. a \in Agents /\ member[a] \in Loops /\ member[a].event \in Events
    BY <1>11 DEF TypeOK, EndTurn, Agents, Loops
  <2>2. rest \in Seq(Events)
    BY <2>1, ContentsTail, EmptySeq DEF Loops
  <2>3. member' = [member EXCEPT ![a] = [member[a] EXCEPT !.event = None, !.replay = rest]]
    BY <1>11 DEF EndTurn
  <2> HIDE DEF rest
  <2>4. [member[a] EXCEPT !.event = None, !.replay = rest] \in Loops
    BY <2>1, <2>2 DEF Loops
  <2>5. member' \in [Members -> Loops]
    BY <2>3, <2>4, LoopUpdate
  <2>6. mailbox' \in [Agents -> Seq(Events)]
    BY <1>11, <2>1, AckType DEF TypeOK, EndTurn
  <2>7. handled' \in SUBSET (Agents \X Events)
    BY <1>11, <2>1 DEF TypeOK, EndTurn
  <2> QED
    BY <1>11, <2>5, <2>6, <2>7 DEF TypeOK, EndTurn
<1>12. ASSUME NEW a \in Members, CancelLoop(a) PROVE TypeOK'
  <2>1. member[a] \in Loops
    BY DEF TypeOK
  <2>2. member' \in [Members -> Loops]
    <3>1. CASE member[a].pc = "connecting"
      BY <1>12, <3>1, OffType, LoopUpdate DEF CancelLoop
    <3>2. CASE member[a].pc = "running"
      <4>1. [member[a] EXCEPT !.pc = "cancelling", !.call = None] \in Loops
        BY <2>1 DEF Loops, MemberStates
      <4>2. member' = [member EXCEPT ![a] = [member[a] EXCEPT !.pc = "cancelling", !.call = None]]
        BY <1>12, <3>2 DEF CancelLoop
      <4> QED
        BY <4>1, <4>2, LoopUpdate
    <3> QED
      BY <1>12, <3>1, <3>2 DEF CancelLoop
  <2>3. request' \in [Requests -> Calls]
    <3>1. CASE UNCHANGED request
      BY <3>1 DEF TypeOK
    <3>2. CASE member[a].call # None /\ Abandon(member[a].call)
      <4>1. member[a].call \in Requests
        BY <2>1, <3>2 DEF Loops
      <4> QED
        BY <3>2, <4>1, CallUpdate DEF Abandon, RequestStates
    <3> QED
      BY <1>12, <3>1, <3>2 DEF CancelLoop
  <2> QED
    BY <1>12, <2>2, <2>3 DEF TypeOK, CancelLoop, busVars
<1>13. ASSUME NEW a \in Members, LoopEnds(a) PROVE TypeOK'
  <2>1. member' \in [Members -> Loops]
    BY <1>13, OffType, LoopUpdate DEF LoopEnds
  <2>2. queue' \in [Subscriptions -> Seq(Events)]
    BY <1>13, EmptySeq DEF TypeOK, LoopEnds
  <2> QED
    BY <1>13, <2>1, <2>2 DEF TypeOK, LoopEnds
<1>14. CASE Install
  <2>1. Contents(mailbox[Gateway]) \subseteq Events /\ Gateway \in Agents
    BY DEF TypeOK, Contents, Agents
  <2> QED
    BY <1>14, <2>1, EmptySeq DEF TypeOK, Install, ReplayPending, Subscriptions
<1>15. CASE Pump
  <2>1. "pump" \in Subscriptions /\ Gateway \in Agents
    BY DEF Subscriptions, Agents
  <2>2. Head(queue["pump"]) \in Events /\ Tail(queue["pump"]) \in Seq(Events)
    BY <1>15, <2>1, ContentsTail DEF TypeOK, Pump
  <2> QED
    BY <1>15, <2>1, <2>2 DEF TypeOK, Pump
<1>16. CASE AwaitInline
  <2>1. Gateway \in Agents
    BY DEF Agents
  <2>2. mailbox[Gateway] # <<>> =>
          /\ Head(mailbox[Gateway]) \in Events
          /\ Ack(Gateway, Head(mailbox[Gateway])) => mailbox' \in [Agents -> Seq(Events)]
    BY <2>1, ContentsTail, AckType DEF TypeOK
  <2> QED
    BY <1>16, <2>1, <2>2 DEF TypeOK, AwaitInline, Subscriptions
<1>17. CASE InlineReturns
  <2>1. "inline" \in Subscriptions /\ Gateway \in Agents
    BY DEF Subscriptions, Agents
  <2>2. queue["inline"] # <<>> => Head(queue["inline"]) \in Events
    BY <2>1, ContentsTail DEF TypeOK
  <2> QED
    BY <1>17, <2>1, <2>2, EmptySeq DEF TypeOK, InlineReturns
<1>18. CASE Quiescent \/ UNCHANGED vars
  BY <1>18 DEF TypeOK, Quiescent, vars, busVars
<1> QED
  BY <1>1, <1>2, <1>3, <1>4, <1>5, <1>6, <1>7, <1>8, <1>9, <1>10, <1>11, <1>12, <1>13,
     <1>14, <1>15, <1>16, <1>17, <1>18 DEF Next, CallStep, MemberStep, TurnEnds

-----------------------------------------------------------------------------
(***************************************************************************)
(* Calls                                                                   *)
(***************************************************************************)

\* Calls that end, expire or are abandoned keep their attempts.
LEMMA CallEnds ==
  ASSUME TypeOK, CallInv, NEW r \in Requests, NEW st \in RequestStates,
         request' = [request EXCEPT ![r].st = st], UNCHANGED replies,
         request[r].st # "idle", st # "idle", st # "answered",
         st = "backoff" => request[r].try <= MaxRetries
  PROVE  CallInv'
<1> SUFFICES ASSUME NEW q \in Requests
             PROVE  /\ request'[q].st = "idle" <=> request'[q].try = 0
                    /\ request'[q].st = "backoff" => request'[q].try <= MaxRetries
                    /\ request'[q].st = "answered" => replies'[q] > 0
  BY DEF CallInv
<1>1. request[q] \in Calls /\ request[r] \in Calls /\ request \in [Requests -> Calls]
  BY DEF TypeOK
<1>2. CASE q = r
  <2>1. request'[q] = [request[r] EXCEPT !.st = st]
    BY <1>1, <1>2
  <2>2. request'[q].st = st /\ request'[q].try = request[r].try
    BY <1>1, <2>1 DEF Calls
  <2> QED
    BY <2>2 DEF CallInv
<1>3. CASE q # r
  BY <1>1, <1>3 DEF CallInv
<1> QED
  BY <1>2, <1>3

LEMMA PublishCall ==
  ASSUME TypeOK, CallInv, NEW r \in Requests, Publish(r), UNCHANGED replies
  PROVE  CallInv'
<1>1. request \in [Requests -> Calls] /\ request[r].try \in Nat
  BY ConstantsAssumption DEF TypeOK, Calls
<1>2. request' = [request EXCEPT ![r] = [st |-> "waiting", try |-> request[r].try + 1]]
  BY DEF Publish
<1>3. /\ request'[r].st = "waiting" /\ request'[r].try = request[r].try + 1
      /\ \A q \in Requests \ {r} : request'[q] = request[q]
  BY <1>1, <1>2
<1> QED
  BY <1>1, <1>3 DEF CallInv

LEMMA CallInvStep == BusInv /\ [Next]_vars => CallInv'
<1> SUFFICES ASSUME TypeOK, CallInv, [Next]_vars PROVE CallInv'
  BY DEF BusInv
<1>1. ASSUME UNCHANGED <<request, replies>> PROVE CallInv'
  BY <1>1 DEF CallInv
<1>2. ASSUME NEW r \in Requests, Ask(r) \/ Retry(r) PROVE CallInv'
  BY <1>2, PublishCall DEF Ask, Retry
<1>3. ASSUME NEW r \in Requests, Answered(r) PROVE CallInv'
  BY <1>3, CallEnds DEF Answered, Return, RequestStates
<1>4. ASSUME NEW r \in Requests, Expire(r) PROVE CallInv'
  <2>1. request[r].st # "idle" /\ "expired" \in RequestStates
    BY <1>4 DEF Expire, RequestStates
  <2> QED
    BY <1>4, <2>1, CallEnds DEF Expire
<1>5. ASSUME NEW r \in Requests, TimedOut(r) PROVE CallInv'
  <2>1. /\ request[r].st # "idle" /\ "timeout" \in RequestStates /\ "backoff" \in RequestStates
        /\ UNCHANGED replies
    BY <1>5 DEF TimedOut, RequestStates
  <2>2. request[r].try \in Nat /\ MaxRetries \in Nat
    BY ConstantsAssumption DEF TypeOK, Calls
  <2>3. CASE Return(r, "timeout")
    BY <2>1, <2>3, CallEnds DEF Return
  <2>4. CASE request' = [request EXCEPT ![r].st = "backoff"] /\ ~ (request[r].try > MaxRetries)
    <3>1. request[r].try <= MaxRetries
      BY <2>2, <2>4
    <3>2. "backoff" # "idle" /\ "backoff" # "answered"
      OBVIOUS
    <3> QED
      BY <2>1, <2>4, <3>1, <3>2, CallEnds
  <2> QED
    BY <1>5, <2>3, <2>4 DEF TimedOut
<1>6. ASSUME NEW r \in Requests, request[r].st \in Pending, Abandon(r), UNCHANGED replies
      PROVE  CallInv'
  <2>1. request[r].st # "idle" /\ "cancelled" \in RequestStates
    BY <1>6 DEF Pending, RequestStates
  <2> QED
    BY <1>6, <2>1, CallEnds DEF Abandon
<1>7. ASSUME NEW r \in Requests, CancelGatewayTurn(r) PROVE CallInv'
  BY <1>6, <1>7 DEF CancelGatewayTurn
<1>8. ASSUME NEW a \in Members, CancelLoop(a) PROVE CallInv'
  <2>1. CASE UNCHANGED request
    BY <1>1, <1>8, <2>1 DEF CancelLoop
  <2>2. CASE /\ member[a].call # None /\ request[member[a].call].st \in Pending
             /\ Abandon(member[a].call)
    <3>1. member[a].call \in Requests
      BY <2>2 DEF TypeOK, Loops
    <3> QED
      BY <1>6, <1>8, <2>2, <3>1 DEF CancelLoop
  <2> QED
    BY <1>8, <2>1, <2>2 DEF CancelLoop
<1>9. ASSUME NEW a \in Members, Answer(a) PROVE CallInv'
  <2> DEFINE r == member[a].event.of
  <2>1. member[a].event \in Events /\ member[a].event.kind = "request"
    BY <1>9 DEF TypeOK, Answer, Loops
  <2>2. r \in Requests /\ replies[r] \in Nat
    BY <2>1, EventFields, ConstantsAssumption DEF TypeOK
  <2>3. /\ replies' = [replies EXCEPT ![r] = @ + 1]
        /\ request' = request \/ (request[r].st = "waiting"
                                  /\ request' = [request EXCEPT ![r].st = "answered"])
    BY <1>9 DEF Answer, PublishReply
  <2> HIDE DEF r
  <2>4. /\ replies'[r] > 0
        /\ \A q \in Requests : replies[q] > 0 => replies'[q] > 0
    BY <2>2, <2>3, ConstantsAssumption DEF TypeOK
  <2>5. CASE request' = request
    BY <2>4, <2>5 DEF CallInv
  <2>6. CASE request[r].st = "waiting" /\ request' = [request EXCEPT ![r].st = "answered"]
    <3>1. request \in [Requests -> Calls] /\ request[r] \in Calls
      BY <2>2 DEF TypeOK
    <3>2. request'[r].st = "answered" /\ request'[r].try = request[r].try
      BY <2>2, <2>6, <3>1 DEF Calls
    <3>3. \A q \in Requests \ {r} : request'[q] = request[q]
      BY <2>6, <3>1
    <3> QED
      BY <2>2, <2>4, <2>6, <3>2, <3>3 DEF CallInv
  <2> QED
    BY <2>3, <2>5, <2>6
<1> QED
  BY <1>1, <1>2, <1>3, <1>4, <1>5, <1>7, <1>8, <1>9 DEF Next, CallStep, MemberStep, TurnEnds,
     SendDirect, Start, Subscribe, Take, EndTurn, LoopEnds, Install, Pump, AwaitInline,
     InlineReturns, Quiescent, vars

-----------------------------------------------------------------------------
(***************************************************************************)
(* Deliveries                                                              *)
(***************************************************************************)

\* An event that is fanned out reaches the queue of a member or its mailbox or
\* neither, and of a member that listens never the mailbox.
LEMMA FanOutEffect ==
  ASSUME TypeOK, NEW e \in Events, FanOut(e), NEW a \in Members
  PROVE  /\ \/ mailbox'[a] = mailbox[a] /\ queue'[a] = queue[a]
            \/ mailbox'[a] = Append(mailbox[a], e) /\ queue'[a] = queue[a]
            \/ mailbox'[a] = mailbox[a] /\ queue'[a] = Append(queue[a], e)
         /\ a \in open => mailbox'[a] = mailbox[a]
<1>1. a \in Subscriptions /\ a \in Agents /\ Subscriber(a) = a
  BY DEF Subscriptions, Agents, Subscriber
<1>2. /\ queue \in [Subscriptions -> Seq(Events)]
      /\ mailbox \in [Agents -> Seq(Events)]
  BY DEF TypeOK
<1>3. CASE e.to = a /\ a \in open
  <2>1. a \in {s \in open : Matches(s, e)}
    BY <1>1, <1>3 DEF Matches
  <2>2. UNCHANGED mailbox
    BY <2>1 DEF FanOut
  <2> QED
    BY <1>1, <1>2, <2>1, <2>2 DEF FanOut
<1>4. CASE e.to = a /\ a \notin open
  <2>1. queue'[a] = queue[a]
    BY <1>1, <1>2, <1>4 DEF FanOut
  <2>2. mailbox' = mailbox \/ mailbox' = [mailbox EXCEPT ![a] = Append(mailbox[a], e)]
    BY <1>4 DEF FanOut
  <2> QED
    BY <1>1, <1>2, <1>4, <2>1, <2>2
<1>5. CASE e.to # a
  <2>1. mailbox'[a] = mailbox[a]
    BY <1>1, <1>2, <1>5 DEF FanOut
  <2> QED
    BY <1>1, <1>2, <2>1 DEF FanOut
<1> QED
  BY <1>3, <1>4, <1>5

\* Nothing is taken, replayed or handled by a member.
Still(a) ==
  /\ member'[a].event = member[a].event
  /\ member'[a].replay = member[a].replay
  /\ member'[a].pc \in {"off", "connecting"} => member[a].pc \in {"off", "connecting"}
  /\ \A e \in Events : <<a, e>> \in handled' => <<a, e>> \in handled

\* A member to which nothing happens.
LEMMA StillDelivery ==
  ASSUME NEW a \in Members, Delivery(a), Still(a),
         mailbox'[a] = mailbox[a], queue'[a] = queue[a],
         \A f \in Events : Published(f) => Published(f)'
  PROVE  Delivery(a)'
<1>1. At(a)' = At(a)
  BY DEF At, Still
<1>2. PublishedInv(a)'
  BY <1>1 DEF Delivery, PublishedInv, Still
<1>3. PlaceInv(a)'
  BY DEF Delivery, PlaceInv, Still
<1>4. ReplayInv(a)'
  BY DEF Delivery, ReplayInv, Still
<1>5. HandledInv(a)'
  BY <1>1 DEF Delivery, HandledInv, Still
<1> QED
  BY <1>2, <1>3, <1>4, <1>5 DEF Delivery

\* A new event is nowhere yet, so that it comes to be in one place.
LEMMA FanOutDelivery ==
  ASSUME TypeOK, NEW a \in Members, Delivery(a), Still(a),
         NEW e \in Events, FanOut(e), ~ Published(e), Published(e)',
         \A f \in Events : Published(f) => Published(f)'
  PROVE  Delivery(a)'
<1>1. \/ mailbox'[a] = mailbox[a] /\ queue'[a] = queue[a]
      \/ mailbox'[a] = Append(mailbox[a], e) /\ queue'[a] = queue[a]
      \/ mailbox'[a] = mailbox[a] /\ queue'[a] = Append(queue[a], e)
  BY FanOutEffect
<1>2. /\ mailbox[a] \in Seq(Events) /\ queue[a] \in Seq(Events)
      /\ e \notin At(a) /\ <<a, e>> \notin handled
      /\ e \notin Contents(mailbox[a]) /\ e \notin Contents(queue[a])
      /\ e # member[a].event
  BY DEF TypeOK, Agents, Subscriptions, Delivery, PublishedInv, At
<1>3. /\ Contents(mailbox'[a]) \cup Contents(queue'[a])
           \subseteq Contents(mailbox[a]) \cup Contents(queue[a]) \cup {e}
      /\ Contents(mailbox[a]) \subseteq Contents(mailbox'[a])
      /\ Contents(mailbox'[a]) \subseteq Contents(mailbox[a]) \cup {e}
      /\ Contents(queue'[a]) \subseteq Contents(queue[a]) \cup {e}
      /\ Distinct(mailbox'[a]) /\ Distinct(queue'[a])
      /\ Contents(mailbox'[a]) \cap Contents(queue'[a]) = {}
  <2>1. /\ Distinct(mailbox[a]) /\ Distinct(queue[a])
        /\ Contents(mailbox[a]) \cap Contents(queue[a]) = {}
    BY DEF Delivery, PlaceInv
  <2>2. /\ Contents(Append(mailbox[a], e)) = Contents(mailbox[a]) \cup {e}
        /\ Distinct(Append(mailbox[a], e))
    BY <1>2, <2>1, ContentsAppend
  <2>3. /\ Contents(Append(queue[a], e)) = Contents(queue[a]) \cup {e}
        /\ Distinct(Append(queue[a], e))
    BY <1>2, <2>1, ContentsAppend
  <2> QED
    BY <1>1, <1>2, <2>1, <2>2, <2>3
<1>4. At(a)' \subseteq At(a) \cup {e}
  BY <1>3 DEF At, Still
<1>5. PublishedInv(a)'
  BY <1>4 DEF Delivery, PublishedInv, Still
<1>6. PlaceInv(a)'
  <2>1. /\ member[a].event \notin Contents(queue[a])
        /\ member[a].replay = <<>> => member[a].event \notin Contents(mailbox[a])
    BY DEF Delivery, PlaceInv
  <2> QED
    BY <1>2, <1>3, <2>1 DEF PlaceInv, Still
<1>7. ReplayInv(a)'
  BY <1>3 DEF Delivery, ReplayInv, Still
<1>8. HandledInv(a)'
  BY <1>2, <1>4 DEF Delivery, HandledInv, Still
<1> QED
  BY <1>5, <1>6, <1>7, <1>8 DEF Delivery

\* A call keeps its attempts, or makes another one.
LEMMA AttemptsGrow ==
  ASSUME TypeOK, [Next]_vars
  PROVE  \A r \in Requests : request'[r].try \in {request[r].try, request[r].try + 1}
<1> SUFFICES ASSUME NEW q \in Requests
             PROVE  request'[q].try \in {request[q].try, request[q].try + 1}
  OBVIOUS
<1> DEFINE Kept == request'[q].try = request[q].try
<1>1. request \in [Requests -> Calls] /\ request[q] \in Calls
  BY DEF TypeOK
<1>2. ASSUME NEW r, NEW st, request' = [request EXCEPT ![r].st = st] PROVE Kept
  <2>1. CASE q = r
    <3>1. request'[q] = [request[q] EXCEPT !.st = st]
      BY <1>1, <1>2, <2>1
    <3> QED
      BY <1>1, <3>1 DEF Calls
  <2>2. CASE q # r
    BY <1>1, <1>2, <2>2
  <2> QED
    BY <2>1, <2>2
<1>3. ASSUME UNCHANGED request PROVE Kept
  BY <1>3
<1> HIDE DEF Kept
<1>4. ASSUME NEW r \in Requests, Publish(r)
      PROVE  request'[q].try \in {request[q].try, request[q].try + 1}
  BY <1>1, <1>4 DEF Publish
<1>5. ASSUME NEW r \in Requests, Ask(r) \/ Retry(r)
      PROVE  request'[q].try \in {request[q].try, request[q].try + 1}
  BY <1>4, <1>5 DEF Ask, Retry
<1>6. ASSUME NEW r \in Requests,
             Answered(r) \/ Expire(r) \/ TimedOut(r) \/ CancelGatewayTurn(r)
      PROVE  Kept
  BY <1>2, <1>6 DEF Answered, Expire, TimedOut, CancelGatewayTurn, Return, Abandon
<1>7. ASSUME NEW a \in Members, CancelLoop(a) PROVE Kept
  BY <1>2, <1>3, <1>7 DEF CancelLoop, Abandon
<1>8. ASSUME NEW a \in Members, Answer(a) PROVE Kept
  BY SMTT(30), <1>2, <1>3, <1>8 DEF Answer, PublishReply
<1>9. Kept => request'[q].try \in {request[q].try, request[q].try + 1}
  BY DEF Kept
<1> QED
  BY <1>3, <1>5, <1>6, <1>7, <1>8, <1>9 DEF Next, CallStep, MemberStep, TurnEnds,
     SendDirect, Start, Subscribe, Take, EndTurn, LoopEnds, Install, Pump, AwaitInline,
     InlineReturns, Quiescent, vars

\* Replies are only added.
LEMMA RepliesGrow ==
  ASSUME TypeOK, [Next]_vars
  PROVE  \A r \in Requests : replies'[r] \in {replies[r], replies[r] + 1}
<1>1. ASSUME NEW a \in Members, Answer(a)
      PROVE  \A r \in Requests : replies'[r] \in {replies[r], replies[r] + 1}
  BY <1>1 DEF TypeOK, Answer
<1> QED
  BY <1>1 DEF Next, CallStep, MemberStep, TurnEnds, busVars,
     SendDirect, Ask, Answered, Expire, TimedOut, Retry, CancelGatewayTurn, Start, Subscribe,
     Take, EndTurn, CancelLoop, LoopEnds, Install, Pump, AwaitInline, InlineReturns,
     Quiescent, vars

\* What is published stays published.
LEMMA PublishedGrows ==
  ASSUME TypeOK, [Next]_vars
  PROVE  \A f \in Events : Published(f) => Published(f)'
<1> SUFFICES ASSUME NEW f \in Events, Published(f) PROVE Published(f)'
  BY SMTT(30)
<1>1. sent \subseteq sent'
  BY DEF Next, CallStep, MemberStep, TurnEnds, busVars,
     SendDirect, Ask, Answered, Expire, TimedOut, Retry, CancelGatewayTurn, Start, Subscribe,
     Take, Answer, EndTurn, CancelLoop, LoopEnds, Install, Pump, AwaitInline, InlineReturns,
     Quiescent, vars
<1>2. ASSUME f.kind = "request" PROVE f.try <= request'[f.of].try
  <2>1. f.of \in Requests /\ f.try \in Nat /\ f.try <= request[f.of].try
    BY <1>2, EventFields, ConstantsAssumption DEF Published
  <2>2. request[f.of].try \in Nat
    BY <2>1, ConstantsAssumption DEF TypeOK, Calls
  <2> QED
    BY <2>1, <2>2, AttemptsGrow
<1>3. ASSUME f.kind = "reply" PROVE f.try <= replies'[f.of]
  <2>1. f.of \in Requests /\ f.try \in Nat /\ f.try <= replies[f.of]
    BY <1>3, EventFields, ConstantsAssumption DEF Published
  <2>2. replies[f.of] \in Nat
    BY <2>1, ConstantsAssumption DEF TypeOK
  <2> QED
    BY <2>1, <2>2, RepliesGrow
<1> QED
  BY <1>1, <1>2, <1>3 DEF Published

\* A member whose loop subscribes replays what waits in its mailbox.
LEMMA SubscribeDelivery ==
  ASSUME TypeOK, NEW a \in Members, Delivery(a), Subscribe(a)
  PROVE  Delivery(a)'
<1>1. member[a] \in Loops /\ member \in [Members -> Loops] /\ mailbox[a] \in Seq(Events)
  BY DEF TypeOK, Agents
<1>2. /\ member'[a].event = None /\ member'[a].replay = mailbox[a]
      /\ member'[a].pc = "running" /\ member[a].event = None
      /\ UNCHANGED <<mailbox, queue, handled, sent, request, replies>>
  BY <1>1 DEF Subscribe, Loops, Delivery, ReplayInv
<1>3. None \notin Contents(mailbox[a])
  BY <1>1, NoneAssumption DEF Contents
<1>4. At(a)' = At(a)
  BY <1>2 DEF At
<1>5. PublishedInv(a)'
  BY <1>2, <1>4 DEF Delivery, PublishedInv, Published
<1>6. PlaceInv(a)' /\ ReplayInv(a)'
  BY <1>2, <1>3 DEF Delivery, PlaceInv, ReplayInv
<1>7. HandledInv(a)'
  BY <1>2, <1>4 DEF Delivery, HandledInv
<1> QED
  BY <1>5, <1>6, <1>7 DEF Delivery

\* The next turn takes an event out of the queue, or begins with one that stays
\* in the mailbox.
LEMMA TakeDelivery ==
  ASSUME TypeOK, NEW a \in Members, Delivery(a), Take(a)
  PROVE  Delivery(a)'
<1>1. /\ member[a] \in Loops /\ member \in [Members -> Loops]
      /\ a \in Subscriptions /\ queue \in [Subscriptions -> Seq(Events)]
      /\ mailbox[a] \in Seq(Events) /\ queue[a] \in Seq(Events)
      /\ member[a].replay \in Seq(Events)
  BY DEF TypeOK, Agents, Subscriptions, Loops
<1>2. member[a].pc = "running" /\ UNCHANGED <<mailbox, handled, sent, request, replies>>
  BY DEF Take
<1>3. CASE member[a].replay # <<>>
  <2>1. /\ member'[a].event = Head(member[a].replay)
        /\ member'[a].replay = member[a].replay /\ member'[a].pc = "running"
        /\ queue' = queue
    BY <1>1, <1>3 DEF Take, Loops
  <2>2. Head(member[a].replay) \in Contents(mailbox[a])
    BY <1>1, <1>3, ContentsTail DEF Delivery, ReplayInv
  <2>3. At(a)' \subseteq At(a)
    BY <1>2, <2>1, <2>2 DEF At
  <2>4. PublishedInv(a)' /\ HandledInv(a)'
    BY <1>2, <2>3 DEF Delivery, PublishedInv, HandledInv, Published
  <2>5. PlaceInv(a)' /\ ReplayInv(a)'
    BY <1>2, <1>3, <2>1, <2>2 DEF Delivery, PlaceInv, ReplayInv
  <2> QED
    BY <2>4, <2>5 DEF Delivery
<1>4. CASE member[a].replay = <<>>
  <2>1. /\ queue[a] # <<>>
        /\ member'[a].event = Head(queue[a])
        /\ member'[a].replay = member[a].replay /\ member'[a].pc = "running"
        /\ queue'[a] = Tail(queue[a])
    BY <1>1, <1>4 DEF Take, Loops
  <2>2. /\ Head(queue[a]) \in Contents(queue[a])
        /\ Contents(Tail(queue[a])) \subseteq Contents(queue[a])
        /\ Distinct(Tail(queue[a])) /\ Head(queue[a]) \notin Contents(Tail(queue[a]))
    BY <1>1, <2>1, ContentsTail DEF Delivery, PlaceInv
  <2>3. At(a)' \subseteq At(a)
    BY <1>2, <2>1, <2>2 DEF At
  <2>4. PublishedInv(a)' /\ HandledInv(a)'
    BY <1>2, <2>3 DEF Delivery, PublishedInv, HandledInv, Published
  <2>5. PlaceInv(a)' /\ ReplayInv(a)'
    BY <1>2, <1>4, <2>1, <2>2 DEF Delivery, PlaceInv, ReplayInv
  <2> QED
    BY <2>4, <2>5 DEF Delivery
<1> QED
  BY <1>3, <1>4

\* A turn that succeeds takes its event out of the mailbox, and a turn that
\* fails has it out of the queue already.
LEMMA EndTurnDelivery ==
  ASSUME TypeOK, NEW a \in Members, Delivery(a), NEW ok \in BOOLEAN, EndTurn(a, ok)
  PROVE  Delivery(a)'
<1> DEFINE e == member[a].event
           rest == IF member[a].replay = <<>> THEN <<>> ELSE Tail(member[a].replay)
<1>1. /\ member[a] \in Loops /\ member \in [Members -> Loops] /\ e \in Events
      /\ a \in Agents /\ mailbox \in [Agents -> Seq(Events)] /\ mailbox[a] \in Seq(Events)
      /\ member[a].replay \in Seq(Events) /\ queue[a] \in Seq(Events)
  BY DEF TypeOK, Agents, Subscriptions, Loops, EndTurn
<1>2. /\ member'[a].event = None /\ member'[a].replay = rest /\ member'[a].pc = "running"
      /\ UNCHANGED <<queue, sent, request, replies>>
      /\ \A f \in Events : <<a, f>> \in handled' => <<a, f>> \in handled \/ (ok /\ f = e)
  BY <1>1 DEF EndTurn, Loops
<1>3. /\ Distinct(rest) /\ Contents(rest) \subseteq Contents(member[a].replay)
      /\ e \notin Contents(rest)
  <2>1. CASE member[a].replay = <<>>
    BY <2>1 DEF Distinct, Contents
  <2>2. CASE member[a].replay # <<>>
    BY <1>1, <2>2, NoneAssumption, ContentsTail DEF Delivery, ReplayInv
  <2> QED
    BY <2>1, <2>2
<1> HIDE DEF rest
<1>4. /\ Distinct(mailbox'[a])
      /\ Contents(mailbox'[a]) = Contents(mailbox[a]) \ (IF ok THEN {e} ELSE {})
  <2>1. Distinct(mailbox[a])
    BY DEF Delivery, PlaceInv
  <2>2. CASE ok
    <3>1. mailbox'[a] = Without(mailbox[a], e)
      BY <1>1, <2>2 DEF EndTurn, Ack
    <3> QED
      BY <1>1, <2>1, <2>2, <3>1, ContentsWithout
  <2>3. CASE ~ ok
    BY <2>1, <2>3 DEF EndTurn
  <2> QED
    BY <2>2, <2>3
<1>5. None \notin Contents(mailbox'[a]) /\ None \notin Contents(queue[a])
  <2>1. Contents(mailbox[a]) \subseteq Events /\ Contents(queue[a]) \subseteq Events
    BY <1>1 DEF Contents
  <2> QED
    BY <1>4, <2>1, NoneAssumption
<1>6. e \notin Contents(queue[a])
  BY DEF Delivery, PlaceInv
<1> HIDE DEF e
<1>7. At(a)' \subseteq (At(a) \cup {None}) \ (IF ok THEN {e} ELSE {})
  BY <1>1, <1>2, <1>4, <1>6, NoneAssumption DEF At
<1>8. PublishedInv(a)'
  <2>1. e \in At(a)
    BY DEF At, e
  <2> QED
    BY <1>2, <1>7, <2>1, NoneAssumption DEF Delivery, PublishedInv, Published
<1>9. HandledInv(a)'
  BY <1>2, <1>7, NoneAssumption DEF Delivery, HandledInv
<1>10. PlaceInv(a)'
  BY <1>2, <1>4, <1>5 DEF Delivery, PlaceInv
<1>11. ReplayInv(a)'
  BY <1>2, <1>3, <1>4 DEF Delivery, ReplayInv
<1> QED
  BY <1>8, <1>9, <1>10, <1>11 DEF Delivery

\* A loop that ends drops its queue, never its mailbox.
LEMMA LoopEndsDelivery ==
  ASSUME TypeOK, NEW a \in Members, Delivery(a),
         member' = [member EXCEPT ![a] = Off],
         queue'[a] \in {<<>>, queue[a]},
         UNCHANGED <<mailbox, handled, sent>>,
         \A f \in Events : Published(f) => Published(f)'
  PROVE  Delivery(a)'
<1>1. /\ member'[a] = Off /\ mailbox[a] \in Seq(Events) /\ queue[a] \in Seq(Events)
  BY DEF TypeOK, Agents, Subscriptions
<1>2. /\ member'[a].event = None /\ member'[a].replay = <<>>
  BY <1>1 DEF Off
<1>3. /\ Distinct(queue'[a]) /\ Contents(queue'[a]) \subseteq Contents(queue[a])
      /\ Distinct(<<>>) /\ Contents(<<>>) = {}
      /\ None \notin Contents(queue[a]) /\ None \notin Contents(mailbox[a])
  BY <1>1, NoneAssumption DEF Distinct, Contents, Delivery, PlaceInv
<1>4. At(a)' \subseteq At(a) \cup {None}
  BY <1>2, <1>3 DEF At
<1>5. PublishedInv(a)' /\ HandledInv(a)'
  BY <1>4, NoneAssumption DEF Delivery, PublishedInv, HandledInv
<1>6. PlaceInv(a)' /\ ReplayInv(a)'
  BY <1>2, <1>3 DEF Delivery, PlaceInv, ReplayInv
<1> QED
  BY <1>5, <1>6 DEF Delivery

LEMMA DeliveryStep == BusInv /\ [Next]_vars => DeliveryInv'
<1> SUFFICES ASSUME TypeOK, CallInv, DeliveryInv, [Next]_vars,
                    NEW b \in Members, Delivery(b)
             PROVE  Delivery(b)'
  BY DEF BusInv, DeliveryInv
<1> DEFINE Unmoved == Still(b) /\ mailbox'[b] = mailbox[b] /\ queue'[b] = queue[b]
<1>1. \A f \in Events : Published(f) => Published(f)'
  BY PublishedGrows
<1>2. Unmoved => Delivery(b)'
  BY <1>1, StillDelivery
<1>3. /\ member \in [Members -> Loops] /\ member[b] \in Loops
      /\ b \in Agents /\ b \in Subscriptions /\ b # Gateway /\ b # "pump" /\ b # "inline"
      /\ mailbox \in [Agents -> Seq(Events)] /\ queue \in [Subscriptions -> Seq(Events)]
  BY ConstantsAssumption DEF TypeOK, Agents, Subscriptions
<1>4. ASSUME NEW d \in Directs, SendDirect(d) PROVE Delivery(b)'
  <2>1. Direct(d) \in Events /\ ~ Published(Direct(d)) /\ Published(Direct(d))'
    BY <1>4, EventTypes DEF SendDirect, Published, Direct
  <2>2. Still(b) /\ FanOut(Direct(d))
    BY <1>4 DEF SendDirect, Still
  <2> QED
    BY <1>1, <2>1, <2>2, FanOutDelivery
<1>5. ASSUME NEW r \in Requests, Ask(r) \/ Retry(r) PROVE Delivery(b)'
  <2>1. request \in [Requests -> Calls] /\ request[r].try \in Nat
    BY ConstantsAssumption DEF TypeOK, Calls
  <2>2. PICK k : k = request[r].try + 1
    OBVIOUS
  <2>3. k \in 1..(1 + MaxRetries)
    BY <1>5, <2>1, <2>2, ConstantsAssumption DEF CallInv, Ask, Retry
  <2>4. request' = [request EXCEPT ![r] = [st |-> "waiting", try |-> k]]
    BY <1>5, <2>2 DEF Ask, Retry, Publish
  <2>5. request'[r].try = k
    BY <2>1, <2>4
  <2>6. ~ (k <= request[r].try)
    BY <2>1, <2>2
  <2>7. PICK e : e = Attempt(r, k)
    OBVIOUS
  <2>8. e \in Events /\ ~ Published(e) /\ Published(e)'
    BY <2>3, <2>5, <2>6, <2>7, EventTypes DEF Published, Attempt
  <2>9. FanOut(e) /\ UNCHANGED handled
    BY <1>5, <2>2, <2>7 DEF Ask, Retry, Publish
  <2>10. member'[b] = member[b] \/ \E q : member'[b] = [member[b] EXCEPT !.call = q]
    <3>1. CASE UNCHANGED member
      BY <3>1
    <3>2. CASE member' = [member EXCEPT ![Asker[r]].call = r]
      <4>1. CASE Asker[r] = b
        <5>1. member'[b] = [member[b] EXCEPT !.call = r]
          BY <1>3, <3>2, <4>1
        <5> QED
          BY <5>1
      <4>2. CASE Asker[r] # b
        BY <1>3, <3>2, <4>2
      <4> QED
        BY <4>1, <4>2
    <3> QED
      BY <1>5, <3>1, <3>2 DEF Ask, Retry
  <2>11. Still(b)
    BY <1>3, <2>9, <2>10 DEF Still, Loops
  <2> QED
    BY <1>1, <2>8, <2>9, <2>11, FanOutDelivery
<1>6. ASSUME NEW a \in Members, Answer(a) PROVE Delivery(b)'
  <2>1. PICK r : r = member[a].event.of
    OBVIOUS
  <2>2. r \in Requests
    <3>1. member[a].event \in Events /\ member[a].event.kind = "request"
      BY <1>6 DEF TypeOK, Answer, Loops
    <3> QED
      BY <2>1, <3>1, EventFields
  <2>3. PICK n : n = replies[r] + 1
    OBVIOUS
  <2>4. /\ replies[r] \in Nat /\ n \in 1..MaxReplies /\ replies'[r] = n
        /\ PublishReply(r, Reply(r, n)) /\ UNCHANGED <<member, handled>>
    BY <1>6, <2>1, <2>2, <2>3, ConstantsAssumption DEF TypeOK, Answer
  <2>5. PICK e : e = Reply(r, n)
    OBVIOUS
  <2>6. ~ (n <= replies[r])
    BY <2>3, <2>4
  <2>7. e \in Events /\ ~ Published(e) /\ Published(e)'
    BY <2>2, <2>4, <2>5, <2>6, EventTypes DEF Published, Reply
  <2>8. Still(b)
    BY <2>4 DEF Still
  <2>9. CASE FanOut(e)
    BY <1>1, <2>7, <2>8, <2>9, FanOutDelivery
  <2>10. CASE UNCHANGED <<queue, mailbox>>
    BY <1>2, <2>8, <2>10
  <2> QED
    BY <2>4, <2>5, <2>9, <2>10 DEF PublishReply
<1>7. ASSUME NEW r \in Requests, Answered(r) \/ TimedOut(r) PROVE Delivery(b)'
  <2>1. UNCHANGED <<mailbox, queue, handled>>
    BY <1>7 DEF Answered, TimedOut, busVars
  <2>2. member'[b] = member[b] \/ member'[b] = [member[b] EXCEPT !.call = None]
    BY <1>3, <1>7 DEF Answered, TimedOut, Return
  <2>3. Still(b)
    BY <1>3, <2>1, <2>2 DEF Still, Loops
  <2> QED
    BY <1>2, <2>1, <2>3
<1>8. ASSUME NEW r \in Requests, Expire(r) \/ CancelGatewayTurn(r) PROVE Delivery(b)'
  BY <1>2, <1>8 DEF Expire, CancelGatewayTurn, busVars, Still
<1>9. ASSUME NEW a \in Members, Start(a) PROVE Delivery(b)'
  BY <1>2, <1>3, <1>9 DEF Start, busVars, Still, Loops
<1>10. ASSUME NEW a \in Members, b # a,
              Subscribe(a) \/ Take(a) \/ TurnEnds(a) \/ CancelLoop(a) \/ LoopEnds(a)
       PROVE  Delivery(b)'
  <2>1. member'[b] = member[b]
    BY <1>3, <1>10 DEF Subscribe, Take, TurnEnds, EndTurn, CancelLoop, LoopEnds
  <2>2. mailbox'[b] = mailbox[b]
    BY <1>3, <1>10 DEF Subscribe, Take, TurnEnds, EndTurn, Ack, CancelLoop, LoopEnds, busVars
  <2>3. queue'[b] = queue[b]
    BY <1>3, <1>10 DEF Subscribe, Take, TurnEnds, EndTurn, CancelLoop, LoopEnds, busVars
  <2>4. \A e : <<b, e>> \in handled' => <<b, e>> \in handled
    BY <1>10 DEF Subscribe, Take, TurnEnds, EndTurn, CancelLoop, LoopEnds
  <2> QED
    BY <1>2, <2>1, <2>2, <2>3, <2>4 DEF Still
<1>11. ASSUME Subscribe(b) \/ Take(b) \/ TurnEnds(b) PROVE Delivery(b)'
  BY <1>11, SubscribeDelivery, TakeDelivery, EndTurnDelivery DEF TurnEnds
<1>12. ASSUME LoopEnds(b) PROVE Delivery(b)'
  BY <1>1, <1>3, <1>12, LoopEndsDelivery DEF LoopEnds
<1>13. ASSUME CancelLoop(b) PROVE Delivery(b)'
  <2>1. UNCHANGED <<mailbox, queue, handled, sent>>
    BY <1>13 DEF CancelLoop, busVars
  <2>2. CASE member[b].pc = "connecting"
    BY <1>1, <1>13, <2>1, <2>2, LoopEndsDelivery DEF CancelLoop
  <2>3. CASE member[b].pc = "running"
    <3>1. member'[b] = [member[b] EXCEPT !.pc = "cancelling", !.call = None]
      BY <1>3, <1>13, <2>3 DEF CancelLoop
    <3>2. Still(b)
      BY <1>3, <2>1, <3>1 DEF Still, Loops
    <3> QED
      BY <1>2, <2>1, <3>2
  <2> QED
    BY <1>13, <2>2, <2>3 DEF CancelLoop
<1>14. ASSUME Install \/ Pump \/ AwaitInline \/ InlineReturns PROVE Delivery(b)'
  <2>1. UNCHANGED member /\ mailbox'[b] = mailbox[b] /\ queue'[b] = queue[b]
    BY <1>3, <1>14 DEF Install, ReplayPending, Pump, AwaitInline, InlineReturns, Ack
  <2>2. \A e : <<b, e>> \in handled' => <<b, e>> \in handled
    BY <1>3, <1>14 DEF Install, ReplayPending, Pump, AwaitInline, InlineReturns
  <2> QED
    BY <1>2, <2>1, <2>2 DEF Still
<1>15. CASE Quiescent \/ UNCHANGED vars
  BY <1>2, <1>15 DEF Quiescent, vars, busVars, Still
<1> HIDE DEF Unmoved
<1> QED
  BY <1>4, <1>5, <1>6, <1>7, <1>8, <1>9, <1>10, <1>11, <1>12, <1>13, <1>14, <1>15
     DEF Next, CallStep, MemberStep

-----------------------------------------------------------------------------
(***************************************************************************)
(* Theorems                                                                *)
(***************************************************************************)

LEMMA InitInv == Init => BusInv
<1> SUFFICES ASSUME Init PROVE BusInv
  OBVIOUS
<1>1. TypeOK
  BY ConstantsAssumption, OffType, EmptySeq DEF Init, TypeOK, Calls, RequestStates
<1>2. CallInv
  BY DEF Init, CallInv
<1>3. ASSUME NEW a \in Members PROVE Delivery(a)
  <2>1. /\ member[a].event = None /\ member[a].replay = <<>> /\ handled = {}
        /\ mailbox[a] = <<>> /\ queue[a] = <<>>
    BY <1>3 DEF Init, Off, Agents, Subscriptions
  <2>2. Contents(<<>>) = {} /\ Distinct(<<>>)
    BY DEF Contents, Distinct
  <2>3. At(a) = {None}
    BY <2>1, <2>2 DEF At
  <2> QED
    BY <2>1, <2>2, <2>3, NoneAssumption
       DEF Delivery, PublishedInv, PlaceInv, ReplayInv, HandledInv
<1> QED
  BY <1>1, <1>2, <1>3 DEF BusInv, DeliveryInv

LEMMA Invariance == Spec => []BusInv
<1>1. BusInv /\ [Next]_vars => BusInv'
  BY TypeStep, CallInvStep, DeliveryStep DEF BusInv
<1> QED
  BY InitInv, <1>1, PTL DEF Spec

\* The bus, its subscriptions, the calls and the loops keep their types.
THEOREM TypeCorrect == Spec => []TypeOK
<1>1. BusInv => TypeOK
  BY DEF BusInv
<1> QED
  BY Invariance, <1>1, PTL

\* No member handles an event twice: once its turn has succeeded, the event is
\* in no queue, no mailbox and no other turn of the member, however its loop is
\* cancelled, restarted and replayed.
THEOREM NothingHandledTwice == Spec => []HandledOnce
<1>1. BusInv => HandledOnce
  BY DEF BusInv, DeliveryInv, Delivery, HandledInv, HandledOnce, At
<1> QED
  BY Invariance, <1>1, PTL

LEMMA MailStep ==
  ASSUME BusInv, [Next]_vars, NEW a \in Members, a \in open
  PROVE  Contents(mailbox'[a]) \subseteq Contents(mailbox[a])
<1>1. /\ a \in Agents /\ a # Gateway /\ mailbox \in [Agents -> Seq(Events)] /\ TypeOK
      /\ mailbox[a] \in Seq(Events) /\ Distinct(mailbox[a])
  BY ConstantsAssumption DEF BusInv, TypeOK, Agents, DeliveryInv, Delivery, PlaceInv
<1>2. ASSUME NEW e \in Events, FanOut(e) PROVE mailbox'[a] = mailbox[a]
  BY <1>1, <1>2, FanOutEffect
<1>3. ASSUME NEW d \in Directs, SendDirect(d) PROVE mailbox'[a] = mailbox[a]
  BY <1>2, <1>3, EventTypes DEF SendDirect
<1>4. ASSUME NEW r \in Requests, Ask(r) \/ Retry(r) PROVE mailbox'[a] = mailbox[a]
  <2>1. request[r].try + 1 \in 1..(1 + MaxRetries)
    BY <1>4, ConstantsAssumption DEF BusInv, TypeOK, Calls, CallInv, Ask, Retry
  <2>2. Attempt(r, request[r].try + 1) \in Events
    BY <2>1, EventTypes
  <2> QED
    BY <1>2, <1>4, <2>2 DEF Ask, Retry, Publish
<1>5. ASSUME NEW b \in Members, Answer(b) PROVE mailbox'[a] = mailbox[a]
  <2>1. PICK r : r = member[b].event.of
    OBVIOUS
  <2>2. r \in Requests
    <3>1. member[b].event \in Events /\ member[b].event.kind = "request"
      BY <1>5 DEF BusInv, TypeOK, Answer, Loops
    <3> QED
      BY <2>1, <3>1, EventFields
  <2>3. replies[r] + 1 \in 1..MaxReplies /\ PublishReply(r, Reply(r, replies[r] + 1))
    BY <1>5, <2>1, <2>2, ConstantsAssumption DEF BusInv, TypeOK, Answer
  <2>4. Reply(r, replies[r] + 1) \in Events
    BY <2>2, <2>3, EventTypes
  <2> QED
    BY <1>2, <2>3, <2>4 DEF PublishReply
<1>6. ASSUME NEW b \in Members, NEW ok \in BOOLEAN, EndTurn(b, ok)
      PROVE  Contents(mailbox'[a]) \subseteq Contents(mailbox[a])
  <2>1. mailbox'[a] = mailbox[a] \/ mailbox'[a] = Without(mailbox[a], member[a].event)
    BY <1>1, <1>6 DEF EndTurn, Ack
  <2> QED
    BY <1>1, <2>1, ContentsWithout
<1>7. ASSUME Install \/ AwaitInline PROVE mailbox'[a] = mailbox[a]
  BY <1>1, <1>7 DEF Install, ReplayPending, AwaitInline, Ack
<1> QED
  BY <1>3, <1>4, <1>5, <1>6, <1>7 DEF Next, CallStep, MemberStep, TurnEnds, busVars, Answered,
     Expire, TimedOut, CancelGatewayTurn, Start, Subscribe, Take, CancelLoop, LoopEnds, Pump,
     InlineReturns, Quiescent, vars

\* Nothing is put into the mailbox of a member while it listens: no message is
\* stranded there until the next start of the loop.
THEOREM NoMailWhileListening == Spec => ListeningMemberHasNoNewMail
<1>1. BusInv /\ [Next]_vars
        => [\A a \in Members :
              a \in open => Contents(mailbox'[a]) \subseteq Contents(mailbox[a])]_vars
  BY MailStep
<1> QED
  BY Invariance, <1>1, PTL DEF Spec, ListeningMemberHasNoNewMail

-----------------------------------------------------------------------------
(***************************************************************************)
(* Refinement                                                              *)
(***************************************************************************)

Status(st) == IF st \in Pending THEN "pending" ELSE st
status == [r \in Requests |-> Status(request[r].st)]
asked == [r \in Requests |-> request[r].try]

LEMMA MapsTo ==
  /\ RR!Init <=> /\ status = [r \in Requests |-> "idle"]
                 /\ asked = [r \in Requests |-> 0]
                 /\ replies = [r \in Requests |-> 0]
  /\ UNCHANGED RR!vars <=> UNCHANGED <<status, asked, replies>>
  /\ \A r \in Requests :
       /\ RR!Ask(r) <=> /\ status[r] = "idle" \/ (status[r] = "pending" /\ asked[r] <= MaxRetries)
                        /\ status' = [status EXCEPT ![r] = "pending"]
                        /\ asked' = [asked EXCEPT ![r] = @ + 1]
                        /\ UNCHANGED replies
       /\ RR!Answer(r) <=> /\ asked[r] > 0
                           /\ replies' = [replies EXCEPT ![r] = @ + 1]
                           /\ UNCHANGED <<status, asked>>
       /\ RR!Succeed(r) <=> /\ status[r] = "pending" /\ replies[r] > 0
                            /\ status' = [status EXCEPT ![r] = "ok"]
                            /\ UNCHANGED <<asked, replies>>
       /\ RR!GiveUp(r) <=> /\ status[r] = "pending" /\ asked[r] = 1 + MaxRetries
                           /\ status' = [status EXCEPT ![r] = "timeout"]
                           /\ UNCHANGED <<asked, replies>>
       /\ RR!Cancel(r) <=> /\ status[r] = "pending"
                           /\ status' = [status EXCEPT ![r] = "cancelled"]
                           /\ UNCHANGED <<asked, replies>>
BY DEF RR!Init, RR!vars, RR!Ask, RR!Answer, RR!Succeed, RR!GiveUp, RR!Cancel,
   status, asked, Status

\* What a step that changes the state of a call only is in the abstract.
LEMMA StatusChange ==
  ASSUME TypeOK, NEW r \in Requests, NEW st, request' = [request EXCEPT ![r].st = st]
  PROVE  /\ status' = [status EXCEPT ![r] = Status(st)]
         /\ asked' = asked
         /\ status[r] = Status(request[r].st) /\ asked[r] = request[r].try
         /\ st \in Pending /\ request[r].st \in Pending => status' = status
<1>1. request \in [Requests -> Calls] /\ request[r] \in Calls
  BY DEF TypeOK
<1>2. /\ request'[r].st = st /\ request'[r].try = request[r].try
      /\ \A q \in Requests \ {r} : request'[q] = request[q]
  BY <1>1 DEF Calls
<1>3. status' = [status EXCEPT ![r] = Status(st)] /\ asked' = asked
  <2>1. status' = [q \in Requests |-> Status(request'[q].st)]
    BY DEF status, Status
  <2>2. [status EXCEPT ![r] = Status(st)]
          = [q \in Requests |-> IF q = r THEN Status(st) ELSE Status(request[q].st)]
    BY DEF status
  <2>3. asked' = asked
    BY <1>2 DEF asked
  <2> QED
    BY <1>2, <2>1, <2>2, <2>3
<1>4. status[r] = Status(request[r].st) /\ asked[r] = request[r].try
  BY DEF status, asked
<1>5. ASSUME st \in Pending, request[r].st \in Pending PROVE status' = status
  BY <1>2, <1>5 DEF status, Status
<1> QED
  BY <1>3, <1>4, <1>5

LEMMA RequestStep == BusInv /\ [Next]_vars => [RR!Next]_(RR!vars)
<1> SUFFICES ASSUME BusInv, [Next]_vars PROVE RR!Next \/ UNCHANGED RR!vars
  OBVIOUS
<1>1. TypeOK /\ CallInv /\ request \in [Requests -> Calls]
  BY DEF BusInv, TypeOK
<1>2. ASSUME UNCHANGED <<request, replies>> PROVE UNCHANGED RR!vars
  BY <1>2, MapsTo DEF status, asked
<1>3. ASSUME NEW r \in Requests, Ask(r) \/ Retry(r) PROVE RR!Ask(r)
  <2>1. /\ request[r].st = "idle" \/ (request[r].st = "backoff" /\ request[r].try <= MaxRetries)
        /\ UNCHANGED replies
    BY <1>1, <1>3 DEF CallInv, Ask, Retry
  <2>2. status[r] = "idle" \/ (status[r] = "pending" /\ asked[r] <= MaxRetries)
    BY <2>1 DEF status, asked, Status, Pending
  <2>3. request' = [request EXCEPT ![r] = [st |-> "waiting", try |-> request[r].try + 1]]
    BY <1>3 DEF Ask, Retry, Publish
  <2>4. /\ request'[r].st = "waiting" /\ request'[r].try = request[r].try + 1
        /\ \A q \in Requests \ {r} : request'[q] = request[q]
    BY <1>1, <2>3
  <2>5. status' = [status EXCEPT ![r] = "pending"]
    BY <2>4 DEF status, Status, Pending
  <2>6. asked' = [asked EXCEPT ![r] = asked[r] + 1]
    BY <2>4 DEF asked
  <2> QED
    BY <2>1, <2>2, <2>5, <2>6, MapsTo
<1>4. ASSUME NEW a \in Members, Answer(a) PROVE \E r \in Requests : RR!Answer(r)
  <2>1. PICK r : r = member[a].event.of
    OBVIOUS
  <2>2. /\ member[a].event \in Events /\ member[a].event.kind = "request"
        /\ r \in Requests /\ member[a].event.try >= 1 /\ member[a].event.try \in Nat
    <3>1. member[a].event \in Events /\ member[a].event.kind = "request"
      BY <1>1, <1>4 DEF TypeOK, Answer, Loops
    <3> QED
      BY <2>1, <3>1, EventFields, ConstantsAssumption
  <2>3. member[a].event.try <= request[r].try
    BY <2>1, <2>2 DEF BusInv, DeliveryInv, Delivery, PublishedInv, At, Published
  <2>4. request[r].try \in Nat
    BY <1>1, <2>2, ConstantsAssumption DEF Calls
  <2>5. asked[r] > 0
    BY <2>2, <2>3, <2>4 DEF asked
  <2>6. /\ replies' = [replies EXCEPT ![r] = @ + 1]
        /\ \/ UNCHANGED request
           \/ request[r].st = "waiting" /\ request' = [request EXCEPT ![r].st = "answered"]
    BY <1>4, <2>1 DEF Answer, PublishReply
  <2>7. UNCHANGED <<status, asked>>
    <3>1. CASE UNCHANGED request
      BY <3>1 DEF status, asked
    <3>2. CASE request[r].st = "waiting" /\ request' = [request EXCEPT ![r].st = "answered"]
      <4>1. "answered" \in Pending /\ request[r].st \in Pending
        BY <3>2 DEF Pending
      <4> QED
        BY <1>1, <2>2, <3>2, <4>1, StatusChange
    <3> QED
      BY <2>6, <3>1, <3>2
  <2> QED
    BY <2>2, <2>5, <2>6, <2>7, MapsTo
<1>5. ASSUME NEW r \in Requests, Answered(r) PROVE RR!Succeed(r)
  <2>1. /\ request[r].st = "answered" /\ replies[r] > 0 /\ UNCHANGED replies
        /\ request' = [request EXCEPT ![r].st = "ok"]
    BY <1>1, <1>5 DEF CallInv, Answered, Return
  <2>2. Status("answered") = "pending" /\ Status("ok") = "ok"
    BY DEF Status, Pending
  <2>3. /\ status' = [status EXCEPT ![r] = Status("ok")] /\ asked' = asked
        /\ status[r] = Status(request[r].st)
    BY <1>1, <2>1, StatusChange
  <2> QED
    BY <2>1, <2>2, <2>3, MapsTo
<1>6. ASSUME NEW r \in Requests, Expire(r) PROVE UNCHANGED RR!vars
  <2>1. request[r].st \in Pending /\ "expired" \in Pending
    BY <1>6 DEF Expire, Pending
  <2>2. status' = status /\ asked' = asked
    BY <1>1, <1>6, <2>1, StatusChange DEF Expire
  <2> QED
    BY <1>6, <2>2, MapsTo DEF Expire
<1>7. ASSUME NEW r \in Requests, TimedOut(r) PROVE RR!GiveUp(r) \/ UNCHANGED RR!vars
  <2>1. request[r].st = "expired" /\ UNCHANGED replies
    BY <1>7 DEF TimedOut
  <2>2. Status("expired") = "pending" /\ Status("timeout") = "timeout"
    BY DEF Status, Pending
  <2>3. CASE request[r].try > MaxRetries
    <3>1. request[r].try = 1 + MaxRetries
      BY <1>1, <2>3, ConstantsAssumption DEF Calls
    <3>2. request' = [request EXCEPT ![r].st = "timeout"]
      BY <1>7, <2>3 DEF TimedOut, Return
    <3>3. /\ status' = [status EXCEPT ![r] = Status("timeout")] /\ asked' = asked
          /\ status[r] = Status(request[r].st) /\ asked[r] = request[r].try
      BY <1>1, <3>2, StatusChange
    <3> QED
      BY <2>1, <2>2, <3>1, <3>3, MapsTo
  <2>4. CASE ~ (request[r].try > MaxRetries)
    <3>1. request' = [request EXCEPT ![r].st = "backoff"]
      BY <1>7, <2>4 DEF TimedOut
    <3>2. request[r].st \in Pending /\ "backoff" \in Pending
      BY <2>1 DEF Pending
    <3>3. status' = status /\ asked' = asked
      BY <1>1, <3>1, <3>2, StatusChange
    <3> QED
      BY <2>1, <3>3, MapsTo
  <2> QED
    BY <2>3, <2>4
<1>8. ASSUME NEW r \in Requests, request[r].st \in Pending, Abandon(r), UNCHANGED replies
      PROVE  RR!Cancel(r)
  <2>1. Status(request[r].st) = "pending" /\ Status("cancelled") = "cancelled"
    BY <1>8 DEF Status, Pending
  <2>2. /\ status' = [status EXCEPT ![r] = Status("cancelled")] /\ asked' = asked
        /\ status[r] = Status(request[r].st)
    BY <1>1, <1>8, StatusChange DEF Abandon
  <2> QED
    BY <1>8, <2>1, <2>2, MapsTo
<1>9. ASSUME NEW a \in Members, CancelLoop(a)
      PROVE  (\E r \in Requests : RR!Cancel(r)) \/ UNCHANGED RR!vars
  <2>1. CASE UNCHANGED request
    BY <1>2, <1>9, <2>1 DEF CancelLoop
  <2>2. CASE /\ member[a].call # None /\ request[member[a].call].st \in Pending
             /\ Abandon(member[a].call)
    <3>1. member[a].call \in Requests
      BY <1>1, <2>2 DEF TypeOK, Loops
    <3> QED
      BY <1>8, <1>9, <2>2, <3>1 DEF CancelLoop
  <2> QED
    BY <1>9, <2>1, <2>2 DEF CancelLoop
<1>10. ASSUME NEW r \in Requests, CancelGatewayTurn(r) PROVE RR!Cancel(r)
  BY <1>8, <1>10 DEF CancelGatewayTurn
<1>11. \/ \E r \in Requests : Ask(r) \/ Retry(r) \/ Answered(r) \/ Expire(r) \/ TimedOut(r)
                              \/ CancelGatewayTurn(r)
       \/ \E a \in Members : Answer(a) \/ CancelLoop(a)
       \/ UNCHANGED <<request, replies>>
  BY DEF Next, CallStep, MemberStep, TurnEnds, SendDirect, Start, Subscribe, Take, EndTurn,
     LoopEnds, Install, Pump, AwaitInline, InlineReturns, Quiescent, vars
<1>12. \A r \in Requests : RR!Ask(r) \/ RR!Answer(r) \/ RR!Succeed(r) \/ RR!GiveUp(r)
                           \/ RR!Cancel(r) => RR!Next
  BY DEF RR!Next
<1> QED
  BY <1>2, <1>3, <1>4, <1>5, <1>6, <1>7, <1>9, <1>10, <1>11, <1>12

\* A call of request_event does what RequestReply says, whatever the timers,
\* the retries, late and repeated replies and cancellations do: it is published
\* at most 1 + MaxRetries times, it succeeds only with an answer to itself and
\* times out only after the last attempt.
THEOREM ImplementsRequestReplySafety == Spec => RR!Safety
<1>1. Init => RR!Init
  <2> SUFFICES ASSUME Init PROVE RR!Init
    OBVIOUS
  <2>1. status = [r \in Requests |-> "idle"] /\ asked = [r \in Requests |-> 0]
    BY DEF Init, status, asked, Status, Pending
  <2> QED
    BY <2>1, MapsTo DEF Init
<1> QED
  BY Invariance, RequestStep, <1>1, PTL DEF Spec, RR!Safety
=============================================================================
