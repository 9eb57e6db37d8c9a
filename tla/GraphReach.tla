----------------------------- MODULE GraphReach -----------------------------
(***************************************************************************)
(* The breadth-first searches of the editor: findUnreachableWorkflowNodeIds *)
(* of graph/reachability.ts from the start node over all edges, and        *)
(* collectDownstreamNodeIds of graph/stepCacheDirtyGraph.ts from the nodes *)
(* with a stale step cache over the success path.                          *)
(*                                                                         *)
(* The queue is a set: what is visited in the end does not depend on the   *)
(* order in which it is served.                                            *)
(***************************************************************************)

EXTENDS FiniteSets

CONSTANT Nodes   \* node ids

ASSUME NodesAssumption == IsFiniteSet(Nodes)

VARIABLES
  adj,      \* the adjacency
  seeds,    \* where the search starts
  visited,  \* visited of both functions
  queue     \* q of both functions

reachVars == <<adj, seeds, visited, queue>>

ReachInit(graph, from) ==
  /\ adj = graph
  /\ seeds = from
  /\ visited = from
  /\ queue = from

PushOrBreak(u, new) == queue' = IF adj[u] = {} THEN {} ELSE (queue \ {u}) \cup new
PushAndShift(u, new) == queue' = (queue \ {u}) \cup new

Dequeue(u) ==
  LET new == adj[u] \ visited IN
  /\ u \in queue
  /\ visited' = visited \cup new
  /\ PushAndShift(u, new)
  /\ UNCHANGED <<adj, seeds>>

ReachNext == \E u \in Nodes : Dequeue(u)

Closed(S) == \A u \in S : adj[u] \subseteq S

(* When the queue is empty, the search has visited the nodes that can be   *)
(* reached from its seeds, all of them and no other: the least set that    *)
(* holds the seeds and that no edge leaves.                                *)
ReachIsLeast ==
  queue = {} =>
    /\ seeds \subseteq visited
    /\ Closed(visited)
    /\ \A S \in SUBSET Nodes : seeds \subseteq S /\ Closed(S) => visited \subseteq S

=============================================================================
