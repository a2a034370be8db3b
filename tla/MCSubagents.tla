------------------------------ MODULE MCSubagents ------------------------------
(***************************************************************************)
(* Instances of Subagents: two messages, commands and two results of one   *)
(* chat; in Threads, the messages are written in a thread of that chat.    *)
(***************************************************************************)
EXTENDS Subagents, TLC

CONSTANTS a1, a2, r1, r2, stop, new, chatA, threadA, unified

MCKind == [m \in Messages |->
             IF m = stop THEN "stop" ELSE IF m = new THEN "new" ELSE "chat"]
MCChatOf == [m \in Messages |-> chatA]
MCChatKey == MCChatOf
MCThreads == [m \in Messages |-> IF m \in Results THEN chatA ELSE threadA]
MCUnified == [m \in Messages |-> IF m \in Results THEN unified ELSE chatA]
=============================================================================
