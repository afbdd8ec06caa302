----------------------------- MODULE MCEventBus -----------------------------
(* Instances of the event bus for TLC: overlapping publishes of two        *)
(* batches, the watched subscriber in the first with one neighbour.        *)
EXTENDS EventBus

CONSTANTS e1, e2, e3, s1, s2

MCEvents == {e1, e2, e3}
MCOthers == <<{s1}, {s2}>>
=============================================================================
