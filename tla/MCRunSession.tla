---------------------------- MODULE MCRunSession ----------------------------
\* RunSession with two runs, one slot and one node.
EXTENDS RunSession

CONSTANTS r1, r2, n1

=============================================================================
