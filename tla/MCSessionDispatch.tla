------------------------- MODULE MCSessionDispatch -------------------------
(***************************************************************************)
(* Instances of SessionDispatch: which message is written in which chat,   *)
(* and which of them are commands.                                         *)
(***************************************************************************)
EXTENDS SessionDispatch, TLC

CONSTANTS a1, a2, a3, b1, stop, new, chatA, chatB, unified

\* Three messages of chat A, one of chat B, /stop and /new written in chat A.
MCChatKey == [m \in Messages |-> IF m = b1 THEN chatB ELSE chatA]
MCKind == [m \in Messages |->
             IF m = stop THEN "stop" ELSE IF m = new THEN "new" ELSE "chat"]
=============================================================================
