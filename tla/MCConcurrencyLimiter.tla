------------------------ MODULE MCConcurrencyLimiter ------------------------
(* Instances of the concurrency limiter for TLC: four outermost calls and  *)
(* two that a command makes inside its own slot, one within the other.     *)
EXTENDS ConcurrencyLimiter

CONSTANTS a, b, c, d, review, autofix

MCRuns == {a, b, c, d, review, autofix}
MCInside == [r \in MCRuns |-> IF r = review THEN a ELSE IF r = autofix THEN review ELSE r]
=============================================================================
