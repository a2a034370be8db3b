-------------------------- MODULE OutboundDispatch --------------------------
(***************************************************************************)
(* The outbound side of the gateway: ChannelManager's dispatcher           *)
(* (channels/manager.py) takes messages from the outbound queue, merges    *)
(* consecutive stream deltas, and gives each message to its channel with   *)
(* retries; the channel adapters (telegram.py, discord.py, matrix.py,      *)
(* feishu.py, websocket.py) turn stream deltas into messages of their      *)
(* service, which they send, edit and split.                               *)
(*                                                                         *)
(* Text is a sequence of parts, each published once. What the user sees is *)
(* the list of bubbles the service has been told to show. A call to the    *)
(* service may fail; a call that fails shows nothing. The interval between *)
(* edits is nondeterministic: any edit of a stream may be skipped. The     *)
(* adapters are connected: what comes before that they drop with a log     *)
(* line. Markup that a service refuses, and is sent plain, is left out.    *)
(***************************************************************************)
EXTENDS Integers, SequencesExt

CONSTANTS
  Chats,        \* chats of the one channel
  Streams,      \* values of _stream_id
  Plans,        \* sequences of messages the agents publish, and the adapter
  Limit,        \* longest bubble of Telegram and Discord, in parts
  Chunk,        \* delta_chunk_chars of the WebSocket channel, in parts
  MaxAttempts,  \* max(send_max_retries, 1)
  MaxFaults,    \* bound: number of failing calls
  None          \* no stream, no buffer, no message

VARIABLES
  adapter,   \* "telegram", "discord", "matrix", "feishu" or "websocket"
  script,    \* what the agents have still to publish
  outbound,  \* bus.outbound
  pending,   \* the dispatcher's buffer in front of the queue
  current,   \* the message being sent and its attempt number, or None
  buf,       \* _stream_bufs / _delta_buffers of the adapter
  shown,     \* the bubbles of the service, oldest first
  faults,    \* history: number of calls that failed
  owed,      \* history: the messages published to be shown
  spoiled    \* history: streams that met one of the known losses, None for what
             \* is not streamed

dispatcher == <<pending, current>>
history == <<faults, owed, spoiled>>
vars == <<adapter, script, outbound, dispatcher, buf, shown, history>>

Kinds == {"delta", "end", "plain", "final", "progress", "elsewhere"}
Parts == Seq(Nat)
Message == [kind : Kinds, chat : Chats, stream : Streams \cup {None}, text : Parts]
Buffer == [stream : Streams, text : Parts, bubble : Nat]
Keys == Chats \X (Streams \cup {None})
Bubble == [chat : Chats, stream : Streams \cup {None}, text : Parts, final : BOOLEAN]

Sending == [msg : Message, attempt : 1..MaxAttempts]

Adapters == {"telegram", "discord", "matrix", "feishu", "websocket"}

\* The texts of a sequence of messages that are to be shown are rising, each
\* one after those in front of it.
Told(m) == m.kind \in {"delta", "end", "plain"}
Rising(text) == \A a, b \in DOMAIN text : a < b => text[a] < text[b]
Below(A, B) == \A a \in A, b \in B : a < b
InOrder(q) ==
  \A i \in DOMAIN q : Told(q[i]) =>
    /\ Rising(q[i].text)
    /\ \A j \in DOMAIN q :
         i < j /\ Told(q[j]) => Below(Range(q[i].text), Range(q[j].text))

\* AgentLoop._dispatch publishes no empty delta, and deltas and ends with the
\* identifier of a stream.
Published(m) ==
  /\ m \in Message
  /\ m.kind \in {"delta", "end"} => m.stream \in Streams
  /\ m.kind = "delta" => m.text # <<>>
  /\ m.kind = "plain" => m.stream = None

ASSUME ConstantsAssumption ==
  /\ None \notin Chats \cup Streams \cup Buffer \cup Sending
  /\ Limit \in Nat \ {0} /\ Chunk \in Nat \ {0}
  /\ MaxAttempts \in Nat \ {0} /\ MaxFaults \in Nat

\* Every part is published once, in order.
ASSUME PlansAssumption ==
  \A p \in Plans : /\ p.adapter \in Adapters
                   /\ p.messages \in Seq(Message)
                   /\ \A i \in DOMAIN p.messages : Published(p.messages[i])
                   /\ InOrder(p.messages)

TypeOK ==
  /\ adapter \in Adapters
  /\ {script, outbound, pending} \subseteq Seq(Message) /\ Len(pending) <= 1
  /\ current \in Sending \cup {None}
  /\ buf \in [Keys -> Buffer \cup {None}]
  /\ shown \in Seq(Bubble)
  /\ faults \in 0..MaxFaults /\ owed \subseteq Message /\ spoiled \subseteq Streams \cup {None}

Init ==
  /\ \E p \in Plans : adapter = p.adapter /\ script = p.messages
  /\ outbound = <<>> /\ pending = <<>> /\ current = None
  /\ buf = [k \in Keys |-> None]
  /\ shown = <<>> /\ faults = 0 /\ owed = {} /\ spoiled = {}

(***************************************************************************)
(* The dispatcher                                                          *)
(***************************************************************************)

Publish ==
  /\ script # <<>>
  /\ outbound' = Append(outbound, Head(script))
  /\ script' = Tail(script)
  /\ owed' = IF Head(script).kind \in {"delta", "plain"}
             THEN owed \cup {Head(script)} ELSE owed
  /\ UNCHANGED <<adapter, dispatcher, buf, shown, faults, spoiled>>

\* _stream_coalesce_key: the same channel, chat and stream.
SameStream(m, n) ==
  n.kind \in {"delta", "end"} /\ n.chat = m.chat /\ n.stream = m.stream

\* How many messages of q a delta m takes with it: the run of deltas of its
\* stream, and the end of the stream if that comes next.
Absorbed(m, q) ==
  LET run == {n \in 0..Len(q) :
                /\ \A i \in 1..n : SameStream(m, q[i])
                /\ \A i \in 1..(n - 1) : q[i].kind = "delta"}
  IN CHOOSE n \in run : \A k \in run : k <= n

\* The text of m with those of the first 0, 1, 2, ... messages of q.
Combined(m, q) ==
  LET text[n \in 0..Len(q)] == IF n = 0 THEN m.text ELSE text[n - 1] \o q[n].text
  IN text

\* Fault: the message at which coalescing stops is not handed back.
CoalescedDropBoundary(m, q) ==
  LET n == Absorbed(m, q)
  IN [msg  |-> [m EXCEPT !.text = Combined(m, q)[n],
                         !.kind = IF n > 0 THEN q[n].kind ELSE "delta"],
      back |-> <<>>,
      rest |-> SubSeq(q, n + 2, Len(q))]

\* _coalesce_stream_deltas: the merged message, the boundary message that was
\* taken out of the queue, and the rest of the queue.
Coalesced(m, q) ==
  LET n == Absorbed(m, q)
      ended == n > 0 /\ q[n].kind = "end"
      crossed == ~ended /\ n < Len(q)
  IN [msg  |-> [m EXCEPT !.text = Combined(m, q)[n],
                         !.kind = IF ended THEN "end" ELSE "delta"],
      back |-> IF crossed THEN <<q[n + 1]>> ELSE <<>>,
      rest |-> SubSeq(q, IF crossed THEN n + 2 ELSE n + 1, Len(q))]

\* _dispatch_outbound: the buffer first, then the queue. Progress is filtered
\* out, so are the messages for a channel that is not registered.
Take ==
  /\ current = None
  /\ \/ pending # <<>>
     \/ outbound # <<>>
  /\ LET m == IF pending # <<>> THEN Head(pending) ELSE Head(outbound)
         q == IF pending # <<>> THEN outbound ELSE Tail(outbound)
         c == Coalesced(m, q)
     IN \/ /\ m.kind = "delta"
           /\ current' = [msg |-> c.msg, attempt |-> 1]
           /\ pending' = c.back /\ outbound' = c.rest
        \/ /\ m.kind \in {"end", "plain", "final"}
           /\ current' = [msg |-> m, attempt |-> 1]
           /\ pending' = <<>> /\ outbound' = q
        \/ /\ m.kind \in {"progress", "elsewhere"}
           /\ current' = None
           /\ pending' = <<>> /\ outbound' = q
  /\ UNCHANGED <<adapter, script, buf, shown, history>>

(***************************************************************************)
(* The calls to the service                                                *)
(***************************************************************************)

SendCall(m, text) == [op |-> "send", chat |-> m.chat, stream |-> m.stream,
                      text |-> text, final |-> TRUE, at |-> 0]
Preview(m, text) == [SendCall(m, text) EXCEPT !.final = FALSE]
EditCall(m, at, text, final) ==
  [SendCall(m, text) EXCEPT !.op = "edit", !.at = at, !.final = final]
Frame(m, text) == [SendCall(m, text) EXCEPT !.op = "frame"]

\* The client joins the frames of one stream.
Joined(bubbles, c) ==
  LET own == {i \in DOMAIN bubbles :
                bubbles[i].chat = c.chat /\ bubbles[i].stream = c.stream}
  IN IF own = {} \/ c.stream = None THEN 0 ELSE CHOOSE i \in own : TRUE

Perform(bubbles, c) ==
  CASE c.op = "edit" -> [bubbles EXCEPT ![c.at].text = c.text, ![c.at].final = c.final]
    [] c.op = "frame" /\ Joined(bubbles, c) # 0 ->
         [bubbles EXCEPT ![Joined(bubbles, c)].text = @ \o c.text]
    [] OTHER -> Append(bubbles, [chat |-> c.chat, stream |-> c.stream,
                                 text |-> c.text, final |-> c.final])

\* The bubbles after the first 0, 1, 2, ... calls.
After(calls) ==
  LET bubbles[n \in 0..Len(calls)] ==
        IF n = 0 THEN shown ELSE Perform(bubbles[n - 1], calls[n])
  IN bubbles

\* The outcomes of calls made one after the other until one of them fails:
\* done and failed are what they leave in the buffers.
Try(calls, done, failed) ==
  {[shown |-> After(calls)[Len(calls)], buf |-> done, fault |-> 0, ok |-> TRUE]}
  \cup {[shown |-> After(calls)[k], buf |-> failed, fault |-> 1, ok |-> FALSE] :
          k \in 0..(Len(calls) - 1)}

\* Failures are logged, not raised: the dispatcher takes them for successes.
Unreported(outcomes) == {[r EXCEPT !.ok = TRUE] : r \in outcomes}

\* No call is made.
Quietly(left) == {[shown |-> shown, buf |-> left, fault |-> 0, ok |-> TRUE]}

\* The channel is looked up before a call, or between two, and not found: that
\* is logged, and the adapter returns as if it had sent the text.
Unresolved(bubbles, left) ==
  {[shown |-> bubbles, buf |-> left, fault |-> 1, ok |-> TRUE]}

\* Calls the service always refuses.
Refused(left) == {[shown |-> shown, buf |-> left, fault |-> 0, ok |-> FALSE]}

\* split_message.
Chunks(text, size) ==
  [i \in 1..((Len(text) + size - 1) \div size) |->
     SubSeq(text, (i - 1) * size + 1,
            IF i * size < Len(text) THEN i * size ELSE Len(text))]

\* WebSocket keys its buffers by stream, Feishu by the message that is
\* answered, whose streams come one after the other, the rest by chat.
Key(m) == <<m.chat, IF adapter \in {"websocket", "feishu"} THEN m.stream ELSE None>>
Put(m, b) == [buf EXCEPT ![Key(m)] = b]

\* The buffer after the text of m: a new one if the chat has none or, where
\* the adapter compares the streams, if the one it has is of another stream.
Buffered(m, comparing) ==
  LET b == buf[Key(m)] IN
  IF b = None \/ (comparing /\ b.stream # m.stream)
  THEN [stream |-> m.stream, text |-> m.text, bubble |-> 0]
  ELSE [b EXCEPT !.text = @ \o m.text]

\* The buffer that the end of stream m refers to, or None: there must be one
\* and a bubble for it.
Ended(m, comparing) ==
  LET b == buf[Key(m)] IN
  IF b = None \/ b.bubble = 0 \/ (comparing /\ b.stream # m.stream) THEN None ELSE b

(***************************************************************************)
(* Telegram: one bubble per stream, edited as the text grows. The buffer   *)
(* keeps the text of a call that failed. A text over the limit goes on in  *)
(* a new bubble.                                                           *)
(***************************************************************************)

TelegramDelta(m) ==
  LET b == Buffered(m, TRUE)
      parts == Chunks(b.text, Limit)
      more == [i \in 1..(Len(parts) - 1) |-> Preview(m, parts[i + 1])]
  IN IF b.bubble = 0
     THEN IF Len(b.text) > Limit
          THEN Refused(Put(m, b))
          ELSE Try(<<Preview(m, b.text)>>,
                   Put(m, [b EXCEPT !.bubble = Len(shown) + 1]), Put(m, b))
     ELSE Quietly(Put(m, b)) \cup
          Try(<<EditCall(m, b.bubble, parts[1], FALSE)>> \o more,
              Put(m, [b EXCEPT !.bubble = IF more = <<>> THEN @
                                          ELSE Len(shown) + Len(more),
                               !.text = IF more = <<>> THEN @
                                        ELSE parts[Len(parts)]]),
              Put(m, b))

\* An edit that changes nothing is refused as "not modified": the buffer is
\* dropped and what would have followed is not sent. It changes nothing if the
\* bubble shows the first chunk with its markup, or, of a text without markup,
\* if the last preview was that chunk.
TelegramEnd(m) ==
  LET b == Ended(m, TRUE) IN
  IF b = None THEN Quietly(buf)
  ELSE LET parts == Chunks(b.text, Limit)
           more == [i \in 1..(Len(parts) - 1) |-> SendCall(m, parts[i + 1])]
           edit == EditCall(m, b.bubble, parts[1], TRUE)
           same == shown[b.bubble].text = parts[1]
       IN (IF same THEN Try(<<edit>>, Put(m, None), buf) ELSE {})
          \cup (IF same /\ shown[b.bubble].final THEN {}
                ELSE Try(<<edit>> \o more, Put(m, None), buf))

(***************************************************************************)
(* Discord: the bubble shows the first chunk until the end of the stream   *)
(* sends the others. A delta looks the channel up once it has its text in  *)
(* the buffer; an end, whose bubble has the channel, only if it has not.   *)
(***************************************************************************)

DiscordDelta(m) ==
  LET b == Buffered(m, TRUE) IN
  Unresolved(shown, Put(m, b)) \cup
  (IF b.bubble = 0
   THEN IF Len(b.text) > Limit
        THEN Refused(Put(m, b))
        ELSE Try(<<Preview(m, b.text)>>,
                 Put(m, [b EXCEPT !.bubble = Len(shown) + 1]), Put(m, b))
   ELSE Quietly(Put(m, b)) \cup
        Try(<<EditCall(m, b.bubble, Chunks(b.text, Limit)[1], FALSE)>>,
            Put(m, b), Put(m, b)))

\* Fault: the follow-ups start with the chunk the bubble already shows.
DiscordEndRepeats(m) ==
  LET b == Ended(m, TRUE) IN
  IF b = None THEN Quietly(buf)
  ELSE LET parts == Chunks(b.text, Limit)
       IN Try([i \in 1..Len(parts) |-> SendCall(m, parts[i])],
              Put(m, None), buf)

DiscordEnd(m) ==
  LET b == Ended(m, TRUE) IN
  IF b = None THEN Quietly(buf)
  ELSE LET parts == Chunks(b.text, Limit)
           more == [i \in 1..(Len(parts) - 1) |-> SendCall(m, parts[i + 1])]
           edit == EditCall(m, b.bubble, parts[1], TRUE)
       IN Try(<<edit>> \o more, Put(m, None), buf)
          \cup Unresolved(Perform(shown, edit), Put(m, None))

(***************************************************************************)
(* Matrix: one event per chat, edited; the streams of a chat are not told  *)
(* apart. A delta that fails is not reported, an end drops the buffer      *)
(* before it sends.                                                        *)
(***************************************************************************)

MatrixDelta(m) ==
  LET b == Buffered(m, FALSE)
      calls == IF b.bubble = 0 THEN <<Preview(m, b.text)>>
               ELSE <<EditCall(m, b.bubble, b.text, FALSE)>>
      kept == [b EXCEPT !.bubble = IF @ = 0 THEN Len(shown) + 1 ELSE @]
  IN (IF b.bubble = 0 THEN {} ELSE Quietly(Put(m, b)))
     \cup Unreported(Try(calls, Put(m, kept), Put(m, b)))

MatrixEnd(m) ==
  LET b == Ended(m, FALSE) IN
  IF b = None THEN Quietly(Put(m, None))
  ELSE Try(<<EditCall(m, b.bubble, b.text, TRUE)>>, Put(m, None), Put(m, None))

(***************************************************************************)
(* Feishu: a card per answer, updated as the text grows. No failure is     *)
(* reported; an end whose update fails sends the text in a message.        *)
(***************************************************************************)

\* _create_streaming_card_sync and the first update: all right, no card, or a
\* card that stays empty.
FeishuCard(m, b) ==
  LET carded == Put(m, [b EXCEPT !.bubble = Len(shown) + 1])
  IN Try(<<Preview(m, b.text)>>, carded, Put(m, b))
     \cup {[shown |-> Perform(shown, Preview(m, <<>>)), buf |-> carded,
            fault |-> 1, ok |-> FALSE]}

FeishuDelta(m) ==
  LET b == Buffered(m, FALSE) IN
  IF b.bubble = 0 THEN Unreported(FeishuCard(m, b))
  ELSE Quietly(Put(m, b))
       \cup Unreported(Try(<<EditCall(m, b.bubble, b.text, FALSE)>>, Put(m, b), Put(m, b)))

FeishuEnd(m) ==
  LET b == buf[Key(m)]
      left == Put(m, None)
      message == Unreported(Try(<<SendCall(m, b.text)>>, left, left))
      updated == {r \in Try(<<EditCall(m, b.bubble, b.text, TRUE)>>, left, left) : r.ok}
  IN IF b = None THEN Quietly(left)
     ELSE IF b.bubble = 0 THEN message
     ELSE updated \cup {[r EXCEPT !.fault = @ + 1] : r \in message}

(***************************************************************************)
(* WebSocket: frames of Chunk parts; the rest waits in a buffer per chat   *)
(* and stream, which the end empties before it sends.                      *)
(***************************************************************************)

Waiting(m) == IF buf[Key(m)] = None THEN <<>> ELSE buf[Key(m)].text

WebSocketDelta(m) ==
  LET text == Waiting(m) \o m.text
      full == Len(text) \div Chunk
      rest == SubSeq(text, full * Chunk + 1, Len(text))
  IN Try([i \in 1..full |-> Frame(m, Chunks(text, Chunk)[i])],
         Put(m, [stream |-> m.stream, text |-> rest, bubble |-> 0]), buf)

\* The last call is the stream_end frame, which shows nothing.
WebSocketEnd(m) ==
  LET frames == Chunks(Waiting(m) \o m.text, Chunk)
  IN Try([i \in 1..Len(frames) |-> Frame(m, frames[i])] \o <<Frame(m, <<>>)>>,
         Put(m, None), Put(m, None))

(***************************************************************************)
(* Sending with retries                                                    *)
(***************************************************************************)

\* A plain message is sent in chunks, in one event, or in frames.
Plain(m) ==
  LET parts == CASE adapter \in {"matrix", "feishu"} -> <<m.text>>
                 [] adapter = "websocket" -> Chunks(m.text, Chunk)
                 [] OTHER -> Chunks(m.text, Limit)
      sent == Try([i \in 1..Len(parts) |-> SendCall(m, parts[i])], buf, buf)
  IN CASE adapter = "feishu" -> Unreported(sent)
       [] adapter = "discord" -> sent \cup Unresolved(shown, buf)
       [] OTHER -> sent

\* _send_once. Of a reply that was streamed nothing more is sent.
SendOnce(m) ==
  CASE m.kind = "final" -> Quietly(buf)
    [] m.kind = "plain" -> Plain(m)
    [] m.kind = "delta" ->
         CASE adapter = "telegram" -> TelegramDelta(m)
           [] adapter = "discord" -> DiscordDelta(m)
           [] adapter = "matrix" -> MatrixDelta(m)
           [] adapter = "feishu" -> FeishuDelta(m)
           [] OTHER -> WebSocketDelta(m)
    [] OTHER ->
         CASE adapter = "telegram" -> TelegramEnd(m)
           [] adapter = "discord" -> DiscordEnd(m)
           [] adapter = "matrix" -> MatrixEnd(m)
           [] adapter = "feishu" -> FeishuEnd(m)
           [] OTHER -> WebSocketEnd(m)

\* The streams whose text a known loss takes when m is sent: the text merged
\* into an end is ignored; a first bubble over the limit is refused each time
\* it is tried; a stream that interrupts another takes over its buffer; a final
\* edit that may change nothing has more chunks behind it.
Spoils(m) ==
  LET b == buf[Key(m)]
      e == Ended(m, TRUE)
      editing == adapter \in {"telegram", "discord"} IN
  IF adapter # "websocket" /\ m.kind = "end" /\ m.text # <<>> THEN {m.stream}
  ELSE IF editing /\ m.kind = "delta"
  THEN (IF b # None /\ b.stream # m.stream THEN {b.stream} ELSE {})
       \cup (IF Buffered(m, TRUE).bubble = 0 /\ Len(Buffered(m, TRUE).text) > Limit
             THEN {m.stream} ELSE {})
  ELSE IF adapter = "telegram" /\ m.kind = "end" /\ e # None
  THEN IF Len(Chunks(e.text, Limit)) > 1 /\ shown[e.bubble].text = Chunks(e.text, Limit)[1]
       THEN {m.stream} ELSE {}
  ELSE {}

\* The message, by its stream, of which Discord may leave text out and does not
\* report it: a failure that is not raised is a channel it did not find. A stream
\* with a bubble shows the text later; an end without follow-ups has shown it.
Unsent(m, r) ==
  IF /\ adapter = "discord" /\ r.ok /\ r.fault = 1
     /\ m.kind = "delta" => Buffered(m, TRUE).bubble = 0
     /\ m.kind = "end" => Len(Chunks(Ended(m, TRUE).text, Limit)) > 1
  THEN {m.stream} ELSE {}

\* One attempt of _send_with_retry: a message is given up after the last.
Attempt ==
  /\ current # None
  /\ \E r \in SendOnce(current.msg) :
       /\ faults + r.fault <= MaxFaults
       /\ shown' = r.shown /\ buf' = r.buf /\ faults' = faults + r.fault
       /\ spoiled' = spoiled \cup Spoils(current.msg) \cup Unsent(current.msg, r)
       /\ \/ r.ok /\ current' = None
          \/ ~r.ok /\ current.attempt = MaxAttempts /\ current' = None
          \/ /\ ~r.ok /\ current.attempt < MaxAttempts
             /\ current' = [current EXCEPT !.attempt = @ + 1]
  /\ UNCHANGED <<adapter, script, outbound, pending, owed>>

AllHandled ==
  script = <<>> /\ outbound = <<>> /\ pending = <<>> /\ current = None

Quiescent == AllHandled /\ UNCHANGED vars

Next == Publish \/ Take \/ Attempt \/ Quiescent

Spec == Init /\ [][Next]_vars

(***************************************************************************)
(* Properties                                                              *)
(***************************************************************************)

\* While no call fails every part is shown at most once and in the order it was
\* published: neither the merging of deltas with the message that is put back,
\* nor the edits, splits and follow-ups of an adapter repeat or swap text. For
\* Matrix, which edits one event and never reports a failed delta, this holds
\* whatever fails.
ShownOnce ==
  faults = 0 \/ adapter = "matrix" =>
    /\ \A i \in DOMAIN shown :
         \A a, b \in DOMAIN shown[i].text :
           a < b => shown[i].text[a] < shown[i].text[b]
    /\ \A i, j \in DOMAIN shown :
         i # j => Range(shown[i].text) \cap Range(shown[j].text) = {}

\* Every delta is followed by the end of its stream: the runner ends a stream
\* after each answer of the model. A turn that is cancelled ends none.
Closes(m, n) == n.kind = "end" /\ n.chat = m.chat /\ n.stream = m.stream
Closed(q) ==
  \A i \in DOMAIN q :
    q[i].kind = "delta" => \E j \in DOMAIN q : i < j /\ Closes(q[i], q[j])
ClosedPlans == \A p \in Plans : Closed(p.messages)

ShownParts == UNION {Range(shown[i].text) : i \in DOMAIN shown}

\* What a message survives: on Discord calls may fail as long as one attempt of
\* each message succeeds (base.py: adapters raise so that the manager can apply
\* the retry policy), but for the lookup of its channel, which spoils it; a
\* stream on Feishu survives one failing call.
Survives(o) ==
  \/ faults = 0
  \/ adapter = "discord" /\ faults < MaxAttempts
  \/ adapter = "feishu" /\ o.stream # None /\ faults < 2

\* Once everything is handled, every part that was published is shown, apart
\* from the streams that met a known loss.
ShownComplete ==
  AllHandled => \A o \in owed :
    Survives(o) => o.stream \in spoiled \/ Range(o.text) \subseteq ShownParts

\* The same without the exception: "Main reply was already delivered via
\* send_delta" (channels/manager.py), which is why the reply itself is not sent.
StreamedRepliesDelivered ==
  AllHandled /\ faults = 0 => \A o \in owed : Range(o.text) \subseteq ShownParts

=============================================================================
