------------------------- MODULE MCOutboundDispatch -------------------------
(***************************************************************************)
(* Instances of OutboundDispatch: what is published, for each adapter.     *)
(***************************************************************************)
EXTENDS OutboundDispatch, TLC

CONSTANTS chatC, chatD, s1, s2

Delta(s, part) == [kind |-> "delta", chat |-> chatC, stream |-> s, text |-> <<part>>]
End(s) == [kind |-> "end", chat |-> chatC, stream |-> s, text |-> <<>>]
Other(kind, text) == [kind |-> kind, chat |-> chatC, stream |-> None, text |-> text]
Elsewhere(m) == [m EXCEPT !.chat = chatD]

\* A turn with two segments: text, a tool hint, more text, the streamed reply;
\* then a long message sent whole.
Turn == <<Delta(s1, 1), Delta(s1, 2), End(s1), Other("progress", <<3>>),
          Delta(s2, 4), Delta(s2, 5), Delta(s2, 6), End(s2),
          Other("final", <<4, 5, 6>>), Other("plain", <<7, 8, 9>>)>>

\* Two chats stream at once, with a message of another channel in between.
TwoChats == <<Delta(s1, 1), Elsewhere(Delta(s2, 2)), Delta(s1, 3),
              Other("elsewhere", <<4>>), Elsewhere(Delta(s2, 5)), End(s1),
              Elsewhere(End(s2))>>

\* Two streams of one chat interleave, as topics of one group do.
Topics == <<Delta(s1, 1), Delta(s1, 2), Delta(s2, 3), End(s1), Delta(s2, 4),
            End(s2), Other("plain", <<5>>)>>

\* One answer, generated faster than the channel is served.
Burst == <<Delta(s1, 1), Delta(s1, 2), Delta(s1, 3), Delta(s1, 4), Delta(s1, 5),
           End(s1), Other("final", <<1, 2, 3, 4, 5>>)>>

MCPlans == [adapter : Adapters, messages : {Turn, TwoChats, Topics, Burst}]
MCBurst == [adapter : Adapters, messages : {Burst}]

\* The hypothesis of the theorem about ShownComplete.
ASSUME ClosedPlansAssumption == ClosedPlans
=============================================================================
