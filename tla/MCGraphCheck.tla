---------------------------- MODULE MCGraphCheck ----------------------------
\* GraphCheck for documents of three nodes with at most two edges (with three where
\* the start node is fixed), for every workspace of three graphs and for graphs
\* directories that are the same workspace, another one or none, and for edits of
\* no, one and two nodes.
EXTENDS GraphCheck, TLC

CONSTANTS a, b, c, g1, g2, g3

NoRefs == [g \in GraphIds |-> {}]
OneCycle == [g \in GraphIds |-> IF g = g1 THEN {g2} ELSE IF g = g2 THEN {g1} ELSE {}]
Pairs == {p \in Nodes \X Nodes : p[1] # p[2]}

Input(purpose, type, edges) ==
  [purpose |-> purpose, type |-> type, edges |-> edges, edited |-> {},
   cached |-> {b, c}, graphId |-> TRUE, refs |-> NoRefs, linked |-> FALSE,
   runDir |-> "unset", runRefs |-> NoRefs]

\* At most one edge between two nodes in one direction, and at most max edges.
EdgeSets(max) ==
  UNION {{{<<p[1], p[2], h[p]>> : p \in P} : h \in [P -> Handles]} :
           P \in {Q \in SUBSET Pairs : Cardinality(Q) <= max}}

MCDocuments ==
  {Input("gate", t, E) :
     t \in [Nodes -> {"start", "task", "trigger_webhook", "trigger_error", "comment"}],
     E \in EdgeSets(2)}

MCForks ==
  {[Input("gate", (a :> "start") @@ (b :> t) @@ (c :> "task"), E) EXCEPT !.graphId = id] :
     t \in {"merge", "fork", "ai_route", "exit", "trigger_schedule"}, E \in EdgeSets(3),
     id \in BOOLEAN}

\* What a run may get: no directory, one that cannot be indexed, the workspace of
\* the editor, one with a cycle, one without references.
MCRuns(refs) ==
  {<<"unset", NoRefs>>, <<"broken", NoRefs>>} \cup ({"indexed"} \X {refs, OneCycle, NoRefs})

MCWorkspaces ==
  {[Input("gate", (a :> "start") @@ (b :> "task") @@ (c :> "task"),
          {<<a, b, "out_default">>, <<a, c, "out_default">>})
      EXCEPT !.refs = w[1], !.linked = w[2], !.runDir = w[3][1], !.runRefs = w[3][2]] :
     w \in ({NoRefs} \X {FALSE} \X MCRuns(NoRefs))
           \cup UNION {{refs} \X {TRUE} \X MCRuns(refs) :
                         refs \in [GraphIds -> SUBSET GraphIds]}}

MCEdits ==
  {[Input("dirty", (a :> "start") @@ (b :> "task") @@ (c :> "ai_route"), E)
      EXCEPT !.edited = edited] :
     E \in EdgeSets(3), edited \in {{}, {a}, {b, c}}}

MCInputs == MCDocuments \cup MCForks \cup MCWorkspaces \cup MCEdits

=============================================================================
