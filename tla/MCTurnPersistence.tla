------------------------- MODULE MCTurnPersistence -------------------------
(***************************************************************************)
(* Instances of TurnPersistence: prompts of the user, a subagent's result  *)
(* and a /new command.                                                     *)
(***************************************************************************)
EXTENDS TurnPersistence

CONSTANTS m1, m2, m3, sub, new

MCKind == [m \in Messages |-> IF m = sub THEN "subagent"
                              ELSE IF m = new THEN "new" ELSE "user"]
=============================================================================
