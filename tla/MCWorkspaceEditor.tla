-------------------------- MODULE MCWorkspaceEditor --------------------------
\* WorkspaceEditor with two files.  Of operations under way, of things that went
\* wrong with the files and of the states in which the editor saves in another way
\* or not at all there are at most two together.
EXTENDS WorkspaceEditor, TLC, FiniteSets

CONSTANTS a, b, s1, s2

MCOperations == Cardinality(opening) + Cardinality({s \in Slots : saves[s] # Idle})

\* A scan missed a graph, a fingerprint is gone, a graph was replaced.
MCFaults ==
  Cardinality(lost) + Cardinality(unguarded)
    + Cardinality({f \in Files : disk[f].graph # f})

MCModes ==
  Cardinality({m \in {<<"paused", paused>>, <<"dialog", dialog>>, <<"force", force>>,
                      <<"failed", failed>>, <<"blocking", blocking>>} : m[2]})

MCBound == MCOperations + MCFaults + MCModes <= 2

MCSymmetry == Permutations({a, b}) \cup Permutations({s1, s2})

=============================================================================
