--------------------------- MODULE MCCronService ---------------------------
(***************************************************************************)
(* Instances of CronService: a repeating job, a one-shot that is disabled  *)
(* after its run, one that is deleted, and a system job.                   *)
(***************************************************************************)
EXTENDS CronService

CONSTANTS rep, once, del, sys

MCKind == [j \in Jobs |-> IF j = once THEN "at"
                          ELSE IF j = del THEN "atDelete" ELSE "every"]

\* The one-shots are due at instant 1, the others every second instant.
MCAt == [j \in Jobs |-> IF j \in {once, del} THEN 1 ELSE 2]
=============================================================================
