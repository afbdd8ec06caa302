-------------------------- MODULE MCCircuitBreaker --------------------------
(* Three concurrent callers, two failures to trip, two successes to close. *)
EXTENDS CircuitBreaker

CONSTANTS c1, c2, c3

MCCallers == {c1, c2, c3}
=============================================================================
