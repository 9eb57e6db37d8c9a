---------------------------- MODULE GraphRefCycle ----------------------------
(***************************************************************************)
(* findWorkspaceGraphRefCycle of graph/workspaceGraphRefCycles.ts: the     *)
(* depth-first search for a cycle of graph_ref nodes over the documents of *)
(* a workspace.  graph_ref_workspace.py holds the same search.             *)
(*                                                                         *)
(* A call of dfs is the last element of stack, its loop over the targets   *)
(* takes them from todo.  The order of the roots and of the targets only   *)
(* decides which cycle is found, and so does the rotation of the result    *)
(* (_canonRotateCycle); both are left open.                                *)
(***************************************************************************)
EXTENDS Naturals, Sequences, FiniteSets

CONSTANT GraphIds   \* vertexSet: the indexed graphs and what they refer to

ASSUME GraphIdsAssumption == IsFiniteSet(GraphIds)

VARIABLES
  targets,  \* adj: the graphs that a graph refers to
  color,    \* _WHITE, _GRAY, _BLACK
  stack,    \* the calls of dfs
  todo,     \* the targets that the loop of a graph has not looked at
  found     \* the cycle, or <<>>

cycleVars == <<targets, color, stack, todo, found>>

CycleInit(refs) ==
  /\ targets = refs
  /\ color = [v \in GraphIds |-> "white"]
  /\ stack = <<>>
  /\ todo = refs
  /\ found = <<>>

Enter(v) ==
  /\ color' = [color EXCEPT ![v] = "gray"]
  /\ stack' = Append(stack, v)

Root(v) ==
  /\ stack = <<>>
  /\ found = <<>>
  /\ color[v] = "white"
  /\ Enter(v)
  /\ UNCHANGED <<targets, todo, found>>

FindWhole(v) == found' = stack

(* stack.slice(stackPos.get(v))                                            *)
FindFrom(v) ==
  \E i \in 1 .. Len(stack) :
    stack[i] = v /\ found' = SubSeq(stack, i, Len(stack))

Look(v) ==
  LET u == stack[Len(stack)] IN
  /\ stack # <<>>
  /\ found = <<>>
  /\ v \in todo[u]
  /\ todo' = [todo EXCEPT ![u] = @ \ {v}]
  /\ \/ color[v] = "white" /\ Enter(v) /\ UNCHANGED found
     \/ color[v] = "gray" /\ FindFrom(v) /\ UNCHANGED <<color, stack>>
     \/ color[v] = "black" /\ UNCHANGED <<color, stack, found>>
  /\ UNCHANGED targets

Return ==
  LET u == stack[Len(stack)] IN
  /\ stack # <<>>
  /\ found # <<>> \/ todo[u] = {}
  /\ color' = [color EXCEPT ![u] = "black"]
  /\ stack' = SubSeq(stack, 1, Len(stack) - 1)
  /\ UNCHANGED <<targets, todo, found>>

CycleNext ==
  \/ \E v \in GraphIds : Root(v) \/ Look(v)
  \/ Return

CycleDone ==
  /\ stack = <<>>
  /\ found # <<>> \/ \A v \in GraphIds : color[v] # "white"

IsCycle(c) ==
  /\ \A i \in 1 .. Len(c) - 1 : c[i + 1] \in targets[c[i]]
  /\ c[1] \in targets[c[Len(c)]]
  /\ \A i, j \in 1 .. Len(c) : i # j => c[i] # c[j]

(* No graph refers to itself over others: every set of graphs has one that *)
(* refers to none of the set.                                              *)
Acyclic(refs) ==
  \A S \in SUBSET GraphIds : S # {} => \E v \in S : refs[v] \cap S = {}

(* What the search reports is a cycle of references without repetition,    *)
(* and when it reports none, there is none.                                *)
CycleVerdict ==
  /\ found # <<>> => IsCycle(found)
  /\ CycleDone /\ found = <<>> => Acyclic(targets)

=============================================================================
