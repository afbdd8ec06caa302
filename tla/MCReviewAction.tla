-------------------------- MODULE MCReviewAction --------------------------
(* Two jobs on a pull request whose model can report one finding, a minor  *)
(* one on the line of a secret, beside the two of the scanners.            *)
EXTENDS ReviewAction

MCSeverity ==
  [f \in Issue |-> CASE f = "secret" -> "critical" [] f = "sca" -> "important" [] OTHER -> "minor"]
MCLine == [f \in Issue |-> IF f = "sca" THEN "lockfile" ELSE "source"]
=============================================================================
