--------------------------- MODULE MCRunRegistry ---------------------------
\* RunRegistry with four calls.  In the safety run the first two carry one run
\* id; in the liveness run all ids differ, so that two runs wait for two slots.
EXTENDS RunRegistry

CONSTANTS r1, r2, r3, r4, a, b, c, d

SharedId == [r \in Reqs |-> CASE r \in {r1, r2} -> a [] r = r3 -> b [] OTHER -> c]

OwnIds == [r \in Reqs |-> CASE r = r1 -> a [] r = r2 -> b [] r = r3 -> c [] OTHER -> d]

=============================================================================
