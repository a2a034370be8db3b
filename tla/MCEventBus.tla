----------------------------- MODULE MCEventBus -----------------------------
(***************************************************************************)
(* An instance of EventBus.  In one plan two members ask each other; in    *)
(* the others the gateway asks a member, and listens in one of two ways.   *)
(***************************************************************************)
EXTENDS EventBus

CONSTANTS ann, bob, gw, d1, d2, d3, r1, r2, r3

MCReceiver == [d \in Directs |-> IF d = d1 THEN ann ELSE IF d = d2 THEN gw ELSE Everyone]
MCAsker == [r \in Requests |-> IF r = r1 THEN ann ELSE IF r = r2 THEN bob ELSE gw]
MCCallee == [r \in Requests |-> IF r = r1 THEN bob ELSE ann]
MCPlans == {{d1, r1, r2}, {d2, d3, "pump"}, {d2, r3, "inline"}}
MCOnePlan == {{d1, r1}}
=============================================================================
