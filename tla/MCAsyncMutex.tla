---------------------------- MODULE MCAsyncMutex ----------------------------
(* Instances of the FIFO mutex for TLC.                                    *)
EXTENDS AsyncMutex

CONSTANTS c1, c2, c3, c4

MCCalls == {c1, c2, c3, c4}
MCUnbounded == {c4}
=============================================================================
