--------------------------- MODULE MCTaskPipeline ---------------------------
(* Instances of the task pipeline for TLC: a command given in a comment on *)
(* a pull request and a pushed commit of it, with the webhook deliveries   *)
(* that ask for them.                                                      *)
EXTENDS TaskPipeline

CONSTANTS push, command, analysis, p1, c1, c2, pr

MCType == [k \in Keys |-> IF k = analysis THEN "analyze" ELSE "review"]
MCPlace == [k \in Keys |-> pr]
MCKey == [d \in Deliveries |-> IF d = p1 THEN push ELSE command]
=============================================================================
