-------------------------- MODULE MCOpenCodeRunner --------------------------
(* Instances of the runner for TLC: one run with every option the retries  *)
(* are about, one with fewer.                                              *)
EXTENDS OpenCodeRunner

CONSTANTS r1, r2

MCRuns == {r1, r2}
MCFirst == {r1}
MCSecond == {r2}
=============================================================================
