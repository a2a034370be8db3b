--------------------------- MODULE MCSessionStore ---------------------------
(***************************************************************************)
(* An instance of SessionStore.  A plan names what may happen to the       *)
(* session in one behaviour.                                               *)
(***************************************************************************)
EXTENDS SessionStore

CONSTANTS j1, j2

Roomy == MaxRows + 1  \* a budget that is never reached
Plan(ops, lanes, budget) == [ops |-> ops, lanes |-> lanes, budget |-> budget, quiet |-> FALSE]
Quiet(ops, budget) == [ops |-> ops, lanes |-> {"dispatch"}, budget |-> budget, quiet |-> TRUE]

MCPlans == {
  Plan({"cancel", "crash", "stop"}, {"dispatch"}, 3),
  Plan({"cancel"}, {"dispatch", "direct"}, 3),
  Plan({"trim", "stop"}, {"direct"}, 3),
  Plan({"create", "new", "cancel", "stop"}, {"dispatch"}, Roomy),
  Plan({"delete", "cancel", "stop", "crash"}, {"dispatch"}, Roomy),
  Quiet({"compact", "new", "cancel", "delete", "stop"}, 3)}

\* Without quiet, an object kept over an await overwrites what happened since.
MCCompactPlans == {Plan({"compact"}, {"dispatch"}, Roomy)}
MCNewPlans == {Plan({"new"}, {"dispatch"}, 3)}
MCDeletePlans == {Plan({"delete"}, {"dispatch"}, 3)}
=============================================================================
