--------------------------- MODULE MCJsonDatabase ---------------------------
(* Instances of the JSON store for TLC.                                    *)
EXTENDS JsonDatabase

CONSTANTS u1, u2, x1, x2, w1, w2
=============================================================================
