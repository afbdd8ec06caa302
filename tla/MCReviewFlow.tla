---------------------------- MODULE MCReviewFlow ----------------------------
(* Instances of the review flow for TLC.                                   *)
EXTENDS ReviewFlow

CONSTANTS c1, c2

MCCommands == {c1, c2}
=============================================================================
