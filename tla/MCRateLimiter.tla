--------------------------- MODULE MCRateLimiter ---------------------------
(* Instances of the rate limiter for TLC: two commands of two users and an *)
(* interactive action of the first, all on one pull request.               *)
EXTENDS RateLimiter

CONSTANTS r1, r2, r3, alice, bob, repo

MCRequests == {r1, r2, r3}
MCUnbounded == {}
MCRepo == [r \in MCRequests |-> repo]
MCPr == [r \in MCRequests |-> 1]
MCUser == [r \in MCRequests |-> IF r = r2 THEN bob ELSE alice]
MCTier == [r \in MCRequests |-> IF r = r3 THEN "interactive" ELSE "command"]
MCCooldown == [t \in Tiers |-> IF t = "command" THEN 2 ELSE 0]
MCEstimate == [t \in Tiers |-> IF t = "command" THEN 2 ELSE 1]
MCFailOpen == {r1}
MCActual == {0, 3}
MCReadFailures == {{}, {"repo"}, {"user", "tokens"}}
=============================================================================
