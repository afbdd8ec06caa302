---------------------------- MODULE MCFixAction ----------------------------
(* Instances of the fix modes for TLC.                                     *)
EXTENDS FixAction
=============================================================================
