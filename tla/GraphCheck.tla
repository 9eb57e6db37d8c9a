----------------------------- MODULE GraphCheck -----------------------------
(***************************************************************************)
(* What the editor computes about an open document: the structure issues  *)
(* that gate Run (findStructureIssues of graph/structureWarnings.ts and    *)
(* the reference cycles of the workspace, AppShell.tsx), and the nodes     *)
(* whose step cache an edit makes stale (graph/stepCacheDirtyGraph.ts).    *)
(* It composes the searches of modules GraphReach and GraphRefCycle.       *)
(*                                                                         *)
(* An edge is <<source, target, source handle>>.  An issue is its kind; of *)
(* the kinds that never block a run, those about the fields of single      *)
(* nodes (empty URLs, prompts, ...) are left out.                          *)
(***************************************************************************)
EXTENDS GraphReach, GraphRefCycle

CONSTANT Inputs   \* what is computed, and the document it is computed for

NodeTypes == {"start", "exit", "task", "merge", "fork", "ai_route", "comment",
              "trigger_webhook", "trigger_schedule", "trigger_error"}
Handles == {"out_default", "out_error"}

ASSUME InputsAssumption ==
  \A in \in Inputs :
    /\ in.purpose \in {"gate", "dirty"}
    /\ in.type \in [Nodes -> NodeTypes]
    /\ in.edges \subseteq Nodes \X Nodes \X Handles
    /\ in.edited \subseteq Nodes    \* the nodes an edit was made to
    /\ in.cached \subseteq Nodes    \* the nodes with data.stepCache
    /\ in.graphId \in BOOLEAN       \* has it an id of its own: else "default" is sent
    /\ in.refs \in [GraphIds -> SUBSET GraphIds]   \* the index of the workspace
    /\ in.linked \in BOOLEAN        \* a workspace is open, and its index not empty
    \* The graphs directory that is sent with a run, a setting of its own, may be
    \* unset, without a valid index, or with one whose references are runRefs.
    /\ in.runDir \in {"unset", "broken", "indexed"}
    /\ in.runRefs \in [GraphIds -> SUBSET GraphIds]

VARIABLES
  doc,     \* the input
  phase,   \* "reach", "cycle", "done"
  issues,  \* structureIssues
  dirty    \* the result of transitiveStepCacheDirtyNodeIds

checkVars == <<doc, phase, issues, dirty>>
vars == <<doc, phase, issues, dirty, reachVars, cycleVars>>

-----------------------------------------------------------------------------
(* The document.                                                           *)

OfType(d, types) == {n \in Nodes : d.type[n] \in types}
Frames == {"comment", "group"}

HasIncoming(d, n) == \E e \in d.edges : e[2] = n

Targets(d, u) == {e[2] : e \in {x \in d.edges : x[1] = u}}
AllEdges(d) == [u \in Nodes |-> Targets(d, u)]
SuccessPath(d) ==
  [u \in Nodes |-> {v \in Nodes : <<u, v, "out_default">> \in d.edges}]

StartsWalk(d) ==
  {s \in OfType(d, {"start"}) :
     OfType(d, {"start"}) = {s} /\ ~HasIncoming(d, s)}

StructureIssuesOf(d, unreachable) ==
  LET starts == OfType(d, {"start"})
      In(m) == {e \in d.edges : e[2] = m /\ d.type[e[1]] \notin Frames}
      Out(f) == {e \in d.edges : /\ e[1] = f
                                 /\ e[3] # "out_error"
                                 /\ d.type[e[2]] \notin Frames}
  IN {kind \in {"no_start", "multiple_starts", "start_has_incoming",
                "trigger_has_incoming", "unreachable_nodes",
                "merge_few_inputs", "fork_few_outputs",
                "ai_route_no_outgoing"} :
        \/ kind = "no_start" /\ starts = {}
        \/ kind = "multiple_starts" /\ Cardinality(starts) > 1
        \/ kind = "start_has_incoming" /\ \E s \in starts : HasIncoming(d, s)
        \/ /\ kind = "trigger_has_incoming"
           /\ \E n \in OfType(d, {"trigger_webhook", "trigger_schedule"}) :
                HasIncoming(d, n)
        \/ kind = "unreachable_nodes" /\ unreachable # {}
        \/ /\ kind = "merge_few_inputs"
           /\ \E m \in OfType(d, {"merge"}) : Cardinality(In(m)) < 2
        \/ /\ kind = "fork_few_outputs"
           /\ \E f \in OfType(d, {"fork"}) : Cardinality(Out(f)) < 2
        \/ /\ kind = "ai_route_no_outgoing"
           /\ \E r \in OfType(d, {"ai_route"}) : Out(r) = {}}

WantsStepCache(d) == OfType(d, {"task", "ai_route"}) \cap d.cached

BlockingWithReach ==
  {"no_start", "multiple_starts", "start_has_incoming", "trigger_has_incoming",
   "graph_ref_workspace_cycle", "unreachable_nodes"}

(* isBlockingStructureIssue                                                *)
Blocking ==
  {"no_start", "multiple_starts", "start_has_incoming", "trigger_has_incoming",
   "graph_ref_workspace_cycle"}

BlocksRun == issues \cap Blocking # {}

-----------------------------------------------------------------------------
Init ==
  /\ doc \in Inputs
  /\ phase = "reach"
  /\ issues = {}
  /\ dirty = {}
  /\ IF doc.purpose = "gate" THEN ReachInit(AllEdges(doc), StartsWalk(doc))
                             ELSE ReachInit(SuccessPath(doc), doc.edited)
  /\ CycleInit(doc.refs)

Visit ==
  /\ phase = "reach"
  /\ ReachNext
  /\ UNCHANGED <<checkVars, cycleVars>>

FindStructureIssues ==
  LET unreachable == IF seeds = {} THEN {}
                     ELSE (Nodes \ OfType(doc, Frames)) \ visited
  IN  /\ phase = "reach"
      /\ doc.purpose = "gate"
      /\ queue = {}
      /\ issues' = StructureIssuesOf(doc, unreachable)
      /\ phase' = IF doc.linked THEN "cycle" ELSE "done"
      /\ UNCHANGED <<doc, dirty, reachVars, cycleVars>>

FindDirty ==
  /\ phase = "reach"
  /\ doc.purpose = "dirty"
  /\ queue = {}
  /\ dirty' = visited \cap WantsStepCache(doc)
  /\ phase' = "done"
  /\ UNCHANGED <<doc, issues, reachVars, cycleVars>>

SearchCycle ==
  /\ phase = "cycle"
  /\ CycleNext
  /\ UNCHANGED <<checkVars, reachVars>>

AddCycleIssue ==
  /\ phase = "cycle"
  /\ CycleDone
  /\ issues' = issues \cup (IF found = <<>> THEN {} ELSE {"graph_ref_workspace_cycle"})
  /\ phase' = "done"
  /\ UNCHANGED <<doc, dirty, reachVars, cycleVars>>

Next == Visit \/ FindStructureIssues \/ FindDirty \/ SearchCycle \/ AddCycleIssue

Spec == Init /\ [][Next]_vars

-----------------------------------------------------------------------------
(* The runner's own checks: validate_graph_structure of validate.py, and   *)
(* for a run with a graphs directory the cycle check of cli/commands/run.py.*)

AllowedSource(t) ==
  CASE t \in {"start", "trigger_webhook", "trigger_schedule",
              "merge", "fork", "ai_route"} -> {"out_default"}
    [] t \in {"exit"} \cup Frames -> {}
    [] OTHER -> Handles

TakesEdges(t) ==
  t \notin {"start", "trigger_webhook", "trigger_schedule"} \cup Frames

(* findHandleCompatibilityIssues, a warning in the editor and an error of  *)
(* the runner.                                                             *)
HandlesFit(d) ==
  \A e \in d.edges :
    \/ {d.type[e[1]], d.type[e[2]]} \cap Frames # {}
    \/ e[3] \in AllowedSource(d.type[e[1]]) /\ TakesEdges(d.type[e[2]])

(* validate_graph_structure: what is wrong with the document itself.       *)
DocumentErrors(d) ==
  {why \in {"start", "trigger", "trigger_error", "graph_id", "handles"} :
     \/ /\ why = "start"
        /\ ~\E s \in Nodes : OfType(d, {"start"}) = {s} /\ ~HasIncoming(d, s)
     \/ /\ why = "trigger"
        /\ \E n \in OfType(d, {"trigger_webhook", "trigger_schedule"}) :
             HasIncoming(d, n)
     \/ /\ why = "trigger_error"
        /\ \E n \in OfType(d, {"trigger_error"}) : HasIncoming(d, n)
     \/ why = "graph_id" /\ ~d.graphId
     \/ why = "handles" /\ ~HandlesFit(d)}

(* What run finds in the graphs directory it was given, if it was.          *)
WorkspaceErrors(d) ==
  {why \in {"workspace_index", "cycle"} :
     \/ why = "workspace_index" /\ d.runDir = "broken"
     \/ why = "cycle" /\ d.runDir = "indexed" /\ ~Acyclic(d.runRefs)}

(* Why the runner refuses a document.                                      *)
Refusals(d) == DocumentErrors(d) \cup WorkspaceErrors(d)

(* Does a run get the workspace that is open, as it was last scanned.      *)
SameWorkspace(d) == d.linked /\ d.runDir = "indexed" /\ d.runRefs = d.refs

(* The editor refuses a document that the runner would run only for a cycle *)
(* in a workspace the run does not get.  What it lets run the runner       *)
(* refuses only for what the editor merely warns of or does not know:      *)
(* handles, edges into a trigger_error node, the id of the document, a     *)
(* graphs directory that cannot be indexed, and a cycle in a workspace     *)
(* that is not the open one.                                               *)
GateAgrees ==
  phase = "done" /\ doc.purpose = "gate" =>
    /\ BlocksRun => \/ Refusals(doc) # {}
                    \/ /\ issues \cap Blocking = {"graph_ref_workspace_cycle"}
                       /\ ~SameWorkspace(doc)
    /\ ~BlocksRun => Refusals(doc) \subseteq
                       {"handles", "trigger_error", "graph_id", "workspace_index"}
                       \cup (IF SameWorkspace(doc) THEN {} ELSE {"cycle"})

=============================================================================
