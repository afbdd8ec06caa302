------------------------------ MODULE SlotPool ------------------------------
(***************************************************************************)
(* What the concurrency limiter of app/src/utils/concurrency.ts promises:  *)
(* at any time at most Limit runs hold a slot, and a slot given up is      *)
(* either free or in the hands of exactly one other run.                   *)
(***************************************************************************)
EXTENDS Naturals, FiniteSets

CONSTANTS Runs, Limit

VARIABLE holders

Init == holders = {}

Take(r) == /\ r \notin holders
           /\ Cardinality(holders) < Limit
           /\ holders' = holders \union {r}

Give(r) == r \in holders /\ holders' = holders \ {r}

HandOver(r, s) == /\ r \in holders
                  /\ s \notin holders
                  /\ holders' = (holders \ {r}) \union {s}

Next == \/ \E r \in Runs : Take(r) \/ Give(r)
        \/ \E r, s \in Runs : HandOver(r, s)

Spec == Init /\ [][Next]_holders
=============================================================================
