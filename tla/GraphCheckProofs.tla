-------------------------- MODULE GraphCheckProofs --------------------------
(***************************************************************************)
(* Proofs about module GraphCheck: for every document and every workspace, *)
(* whatever the size, the breadth-first search visits what can be reached  *)
(* and nothing else, and the depth-first search reports a cycle of         *)
(* references if and only if there is one.                                 *)
(***************************************************************************)
EXTENDS GraphCheck, SequenceTheorems, FiniteSetTheorems, TLAPS

-----------------------------------------------------------------------------
(* The breadth-first search.  A node leaves the queue when its targets have *)
(* been visited, and nothing enters that a closed set around the seeds     *)
(* would not hold.                                                         *)

ReachInv ==
  /\ adj \in [Nodes -> SUBSET Nodes]
  /\ visited \subseteq Nodes
  /\ seeds \subseteq visited
  /\ queue \subseteq visited
  /\ \A u \in visited \ queue : adj[u] \subseteq visited
  /\ \A S \in SUBSET Nodes : seeds \subseteq S /\ Closed(S) => visited \subseteq S

(* The invariant holds for every graph and every set of seeds to begin     *)
(* with.                                                                   *)
LEMMA ReachInitInv ==
  ASSUME NEW graph \in [Nodes -> SUBSET Nodes], NEW from \in SUBSET Nodes,
         ReachInit(graph, from)
  PROVE  ReachInv
BY DEF ReachInit, ReachInv

(* Serving one node of the queue keeps the invariant.                      *)
LEMMA ReachStep == ReachInv /\ ReachNext => ReachInv'
<1> SUFFICES ASSUME ReachInv, NEW u \in Nodes, Dequeue(u)
             PROVE  ReachInv'
  BY DEF ReachNext
<1> DEFINE new == adj[u] \ visited
<1>1. /\ u \in queue
      /\ visited' = visited \cup new
      /\ queue' = (queue \ {u}) \cup new
      /\ adj' = adj /\ seeds' = seeds
  BY DEF Dequeue, PushAndShift
<1>2. u \in visited /\ adj[u] \subseteq Nodes
  BY <1>1 DEF ReachInv
<1>3. /\ adj' \in [Nodes -> SUBSET Nodes]
      /\ visited' \subseteq Nodes
      /\ seeds' \subseteq visited'
      /\ queue' \subseteq visited'
  BY <1>1, <1>2 DEF ReachInv
<1>4. ASSUME NEW w \in visited' \ queue'
      PROVE  adj'[w] \subseteq visited'
  <2>1. CASE w = u
    BY <1>1, <2>1
  <2>2. CASE w # u
    BY <1>1, <2>2 DEF ReachInv
  <2> QED BY <2>1, <2>2
<1>5. ASSUME NEW S \in SUBSET Nodes, seeds' \subseteq S, Closed(S)'
      PROVE  visited' \subseteq S
  <2>1. visited \subseteq S /\ Closed(S)
    BY <1>1, <1>5 DEF ReachInv, Closed
  <2>2. adj[u] \subseteq S
    BY <1>2, <2>1 DEF Closed
  <2> QED BY <1>1, <2>1, <2>2
<1> QED BY <1>3, <1>4, <1>5 DEF ReachInv, Closed

(* The inputs that Init chooses from are graphs over the nodes.            *)
LEMMA ReachAtStart == Init => ReachInv
<1> SUFFICES ASSUME Init PROVE ReachInv
  OBVIOUS
<1>1. /\ doc \in Inputs
      /\ doc.edges \subseteq Nodes \X Nodes \X Handles
      /\ doc.edited \subseteq Nodes
  BY InputsAssumption DEF Init
<1>2. AllEdges(doc) \in [Nodes -> SUBSET Nodes]
  <2>1. ASSUME NEW u \in Nodes PROVE Targets(doc, u) \subseteq Nodes
    BY <1>1 DEF Targets
  <2> QED BY <2>1 DEF AllEdges
<1>3. SuccessPath(doc) \in [Nodes -> SUBSET Nodes]
  BY DEF SuccessPath
<1>4. StartsWalk(doc) \in SUBSET Nodes
  BY DEF StartsWalk, OfType
<1>5. CASE doc.purpose = "gate"
  BY <1>2, <1>4, <1>5, ReachInitInv DEF Init
<1>6. CASE doc.purpose # "gate"
  BY <1>1, <1>3, <1>6, ReachInitInv DEF Init
<1> QED BY <1>5, <1>6

(* ReachIsLeast for every document: findUnreachableWorkflowNodeIds and     *)
(* collectDownstreamNodeIds compute reachability, whatever the graph.      *)
THEOREM ReachCorrect == Spec => []ReachIsLeast
<1>1. ReachInv /\ [Next]_vars => ReachInv'
  <2> SUFFICES ASSUME ReachInv, [Next]_vars PROVE ReachInv'
    OBVIOUS
  <2>1. CASE Visit
    BY <2>1, ReachStep DEF Visit
  <2>2. CASE UNCHANGED reachVars
    BY <2>2 DEF reachVars, ReachInv, Closed
  <2> QED BY <2>1, <2>2 DEF Next, FindStructureIssues, FindDirty, SearchCycle,
                            AddCycleIssue, vars
<1>2. ReachInv => ReachIsLeast
  BY DEF ReachInv, ReachIsLeast, Closed
<1> QED BY <1>1, <1>2, ReachAtStart, PTL DEF Spec

-----------------------------------------------------------------------------
(* The depth-first search.  The gray graphs are those on the stack, which  *)
(* is a path of references; of a graph on the stack, the targets that were *)
(* looked at are black, but for the one that is next on the stack.  Black  *)
(* graphs refer to black graphs only, and among them there is no cycle.    *)

CycleType ==
  /\ targets \in [GraphIds -> SUBSET GraphIds]
  /\ color \in [GraphIds -> {"white", "gray", "black"}]
  /\ stack \in Seq(GraphIds)
  /\ todo \in [GraphIds -> SUBSET GraphIds]
  /\ found \in Seq(GraphIds)

StackIsGray ==
  \A v \in GraphIds :
    color[v] = "gray" <=> \E i \in 1 .. Len(stack) : stack[i] = v

StackIsPath ==
  /\ \A i, j \in 1 .. Len(stack) : i # j => stack[i] # stack[j]
  /\ \A i \in 1 .. Len(stack) - 1 : stack[i + 1] \in targets[stack[i]]

TodoIsLeft ==
  \A v \in GraphIds :
    /\ todo[v] \subseteq targets[v]
    /\ color[v] = "white" => todo[v] = targets[v]

LookedAt ==
  \A i \in 1 .. Len(stack) : \A v \in targets[stack[i]] \ todo[stack[i]] :
    color[v] = "black" \/ (i < Len(stack) /\ v = stack[i + 1])

Black == {v \in GraphIds : color[v] = "black"}

BlackIsDone ==
  /\ \A v \in Black : targets[v] \subseteq Black
  /\ \A S \in SUBSET Black : S # {} => \E v \in S : targets[v] \cap S = {}

CycleInv ==
  /\ CycleType
  /\ StackIsGray
  /\ StackIsPath
  /\ TodoIsLeft
  /\ found = <<>> => LookedAt /\ BlackIsDone
  /\ found # <<>> => IsCycle(found)

(* Before the search nothing is coloured.                                  *)
LEMMA CycleInitInv ==
  ASSUME NEW refs \in [GraphIds -> SUBSET GraphIds], CycleInit(refs)
  PROVE  CycleInv
BY DEF CycleInit, CycleInv, CycleType, StackIsGray, StackIsPath, TodoIsLeft,
       LookedAt, BlackIsDone, Black

(* A graph that is entered is white, and becomes the top of the stack.     *)
LEMMA EnterStack ==
  ASSUME CycleInv, NEW v \in GraphIds, color[v] = "white", Enter(v),
         targets' = targets,
         stack # <<>> => v \in targets[stack[Len(stack)]]
  PROVE  /\ stack' \in Seq(GraphIds)
         /\ Len(stack') = Len(stack) + 1
         /\ stack'[Len(stack')] = v
         /\ \A i \in 1 .. Len(stack) : stack'[i] = stack[i]
         /\ color' \in [GraphIds -> {"white", "gray", "black"}]
         /\ StackIsGray'
         /\ StackIsPath'
         /\ Black' = Black
<1>1. /\ stack' \in Seq(GraphIds)
      /\ Len(stack') = Len(stack) + 1
      /\ stack'[Len(stack) + 1] = v
      /\ \A i \in 1 .. Len(stack) : stack'[i] = stack[i]
      /\ Len(stack) \in Nat
      /\ \A i \in 1 .. Len(stack) : stack[i] \in GraphIds
  BY DEF CycleInv, CycleType, Enter
<1>2. /\ color' \in [GraphIds -> {"white", "gray", "black"}]
      /\ color'[v] = "gray"
      /\ \A w \in GraphIds : w # v => color'[w] = color[w]
  BY DEF CycleInv, CycleType, Enter
<1>3. \A i \in 1 .. Len(stack) : stack[i] # v
  BY <1>1 DEF CycleInv, StackIsGray
<1>4. StackIsGray'
  <2> SUFFICES ASSUME NEW w \in GraphIds
               PROVE  color'[w] = "gray" <=> \E i \in 1 .. Len(stack') : stack'[i] = w
    BY DEF StackIsGray
  <2>1. CASE w = v
    BY <1>1, <1>2, <2>1
  <2>2. CASE w # v
    BY <1>1, <1>2, <2>2 DEF CycleInv, StackIsGray
  <2> QED BY <2>1, <2>2
<1>5. StackIsPath'
  <2>1. ASSUME NEW i \in 1 .. Len(stack'), NEW j \in 1 .. Len(stack'), i # j
        PROVE  stack'[i] # stack'[j]
    BY <1>1, <1>3, <2>1 DEF CycleInv, StackIsPath
  <2>2. ASSUME NEW i \in 1 .. Len(stack') - 1
        PROVE  stack'[i + 1] \in targets'[stack'[i]]
    <3>1. CASE i < Len(stack)
      BY <1>1, <3>1 DEF CycleInv, StackIsPath
    <3>2. CASE i = Len(stack)
      BY <1>1, <3>2
    <3> QED BY <1>1, <3>1, <3>2
  <2> QED BY <2>1, <2>2 DEF StackIsPath
<1>6. Black' = Black
  BY <1>2 DEF Black
<1> QED BY <1>1, <1>2, <1>4, <1>5, <1>6

(* A root of the search.                                                   *)
LEMMA RootStep ==
  ASSUME CycleInv, NEW v \in GraphIds, Root(v)
  PROVE  CycleInv'
<1>1. /\ stack = <<>> /\ found = <<>> /\ color[v] = "white" /\ Enter(v)
      /\ targets' = targets /\ todo' = todo /\ found' = found
  BY DEF Root
<1>2. /\ stack' \in Seq(GraphIds) /\ Len(stack') = 1 /\ stack'[1] = v
      /\ color' \in [GraphIds -> {"white", "gray", "black"}]
      /\ StackIsGray' /\ StackIsPath' /\ Black' = Black
  BY <1>1, EnterStack
<1>3. CycleType'
  BY <1>1, <1>2 DEF CycleInv, CycleType
<1>4. TodoIsLeft'
  BY <1>1 DEF CycleInv, CycleType, TodoIsLeft, Enter
<1>5. LookedAt'
  BY <1>1, <1>2 DEF CycleInv, TodoIsLeft, LookedAt
<1>6. BlackIsDone'
  BY <1>1, <1>2 DEF CycleInv, BlackIsDone
<1> QED BY <1>1, <1>2, <1>3, <1>4, <1>5, <1>6 DEF CycleInv

(* One turn of the loop over the targets of the graph on top.              *)
LEMMA LookStep ==
  ASSUME CycleInv, NEW v \in GraphIds, Look(v)
  PROVE  CycleInv'
<1> DEFINE n == Len(stack)
           u == stack[n]
<1>1. /\ n \in Nat \ {0} /\ u \in GraphIds
      /\ found = <<>> /\ v \in todo[u] /\ targets' = targets
      /\ todo' = [todo EXCEPT ![u] = @ \ {v}]
      /\ color[u] = "gray"
      /\ \A i \in 1 .. n : stack[i] \in GraphIds
  BY DEF Look, CycleInv, CycleType, StackIsGray
<1>2. v \in targets[u]
  BY <1>1 DEF CycleInv, TodoIsLeft
<1>3. /\ todo' \in [GraphIds -> SUBSET GraphIds]
      /\ todo'[u] = todo[u] \ {v}
      /\ \A w \in GraphIds : w # u => todo'[w] = todo[w]
  BY <1>1 DEF CycleInv, CycleType
<1>4. \A i \in 1 .. n - 1 : stack[i] # u
  BY <1>1 DEF CycleInv, StackIsPath
<1>5. CASE color[v] = "white" /\ Enter(v) /\ UNCHANGED found
  <2>1. /\ stack' \in Seq(GraphIds) /\ Len(stack') = n + 1 /\ stack'[n + 1] = v
        /\ \A i \in 1 .. n : stack'[i] = stack[i]
        /\ color' \in [GraphIds -> {"white", "gray", "black"}]
        /\ StackIsGray' /\ StackIsPath' /\ Black' = Black
    BY <1>1, <1>2, <1>5, EnterStack
  <2>2. CycleType'
    BY <1>1, <1>3, <1>5, <2>1 DEF CycleInv, CycleType
  <2>3. TodoIsLeft'
    BY <1>1, <1>3, <1>5 DEF CycleInv, CycleType, TodoIsLeft, Enter
  <2>4. \A w \in GraphIds : color[w] = "black" => color'[w] = "black"
    BY <1>5 DEF CycleInv, CycleType, Enter
  <2>5. LookedAt'
    <3> SUFFICES ASSUME NEW i \in 1 .. n + 1,
                        NEW w \in targets[stack'[i]] \ todo'[stack'[i]]
                 PROVE  color'[w] = "black" \/ (i < n + 1 /\ w = stack'[i + 1])
      BY <1>1, <2>1 DEF LookedAt
    <3>1. CASE i = n + 1
      BY <1>1, <1>3, <1>5, <2>1, <3>1 DEF CycleInv, TodoIsLeft
    <3>2. CASE i = n
      <4>1. w = v \/ w \in targets[u] \ todo[u]
        BY <1>1, <1>3, <2>1, <3>2
      <4>2. w \in GraphIds
        BY <1>1, <4>1 DEF CycleInv, CycleType
      <4> QED BY <1>1, <2>1, <2>4, <3>2, <4>1, <4>2 DEF CycleInv, LookedAt
    <3>3. CASE i < n
      <4>1. /\ stack'[i] = stack[i] /\ stack'[i + 1] = stack[i + 1]
            /\ w \in targets[stack[i]] \ todo[stack[i]]
        BY <1>1, <1>3, <1>4, <2>1, <3>3
      <4>2. w \in GraphIds
        BY <1>1, <3>3, <4>1 DEF CycleInv, CycleType
      <4> QED BY <1>1, <2>4, <3>3, <4>1, <4>2 DEF CycleInv, LookedAt
    <3> QED BY <1>1, <3>1, <3>2, <3>3
  <2>6. BlackIsDone'
    BY <1>1, <2>1 DEF CycleInv, BlackIsDone
  <2> QED BY <1>1, <1>5, <2>1, <2>2, <2>3, <2>5, <2>6 DEF CycleInv
<1>6. CASE color[v] = "gray" /\ FindFrom(v) /\ UNCHANGED <<color, stack>>
  <2>1. PICK i \in 1 .. n : stack[i] = v /\ found' = SubSeq(stack, i, n)
    BY <1>6 DEF FindFrom
  <2>2. /\ found' \in Seq(GraphIds) /\ Len(found') = n - i + 1
        /\ \A j \in 1 .. n - i + 1 : found'[j] = stack[i + j - 1]
    BY <1>1, <2>1 DEF CycleInv, CycleType
  <2>3. IsCycle(found)'
    <3>1. \A j \in 1 .. Len(found') - 1 : found'[j + 1] \in targets[found'[j]]
      <4> SUFFICES ASSUME NEW j \in 1 .. Len(found') - 1
                   PROVE  found'[j + 1] \in targets[found'[j]]
        OBVIOUS
      <4>1. /\ i + j - 1 \in 1 .. n - 1
            /\ found'[j] = stack[i + j - 1]
            /\ found'[j + 1] = stack[(i + j - 1) + 1]
        BY <1>1, <2>2
      <4> QED BY <4>1 DEF CycleInv, StackIsPath
    <3>2. found'[1] = v /\ found'[Len(found')] = u
      BY <1>1, <2>1, <2>2
    <3>3. \A j, k \in 1 .. Len(found') : j # k => found'[j] # found'[k]
      BY <1>1, <2>2 DEF CycleInv, StackIsPath
    <3> QED BY <1>1, <1>2, <3>1, <3>2, <3>3 DEF IsCycle
  <2>4. CycleType' /\ StackIsGray' /\ StackIsPath'
    BY <1>1, <1>3, <1>6, <2>2 DEF CycleInv, CycleType, StackIsGray, StackIsPath
  <2>5. TodoIsLeft'
    BY <1>1, <1>3, <1>6 DEF CycleInv, CycleType, TodoIsLeft
  <2>6. found' # <<>>
    BY <1>1, <2>2
  <2> QED BY <2>3, <2>4, <2>5, <2>6 DEF CycleInv
<1>7. CASE color[v] = "black" /\ UNCHANGED <<color, stack, found>>
  <2>1. CycleType' /\ StackIsGray' /\ StackIsPath' /\ BlackIsDone'
    BY <1>1, <1>3, <1>7 DEF CycleInv, CycleType, StackIsGray, StackIsPath,
                            BlackIsDone, Black
  <2>2. TodoIsLeft'
    BY <1>1, <1>3, <1>7 DEF CycleInv, CycleType, TodoIsLeft
  <2>3. LookedAt'
    <3> SUFFICES ASSUME NEW i \in 1 .. n,
                        NEW w \in targets[stack[i]] \ todo'[stack[i]]
                 PROVE  color[w] = "black" \/ (i < n /\ w = stack[i + 1])
      BY <1>1, <1>7 DEF LookedAt
    <3>1. w = v \/ w \in targets[stack[i]] \ todo[stack[i]]
      BY <1>1, <1>3
    <3> QED BY <1>1, <1>7, <3>1 DEF CycleInv, LookedAt
  <2> QED BY <1>1, <1>7, <2>1, <2>2, <2>3 DEF CycleInv
<1> QED BY <1>5, <1>6, <1>7 DEF Look

(* The end of a call of dfs: if no cycle was found, all targets of the     *)
(* graph are black, and it is the end of no cycle.                         *)
LEMMA ReturnStep ==
  ASSUME CycleInv, Return
  PROVE  CycleInv'
<1> DEFINE n == Len(stack)
           u == stack[n]
<1>1. /\ n \in Nat \ {0} /\ u \in GraphIds
      /\ found # <<>> \/ todo[u] = {}
      /\ color' = [color EXCEPT ![u] = "black"]
      /\ stack' = SubSeq(stack, 1, n - 1)
      /\ targets' = targets /\ todo' = todo /\ found' = found
      /\ color[u] = "gray"
      /\ \A i \in 1 .. n : stack[i] \in GraphIds
  BY DEF Return, CycleInv, CycleType, StackIsGray
<1>2. /\ stack' \in Seq(GraphIds) /\ Len(stack') = n - 1
      /\ \A i \in 1 .. n - 1 : stack'[i] = stack[i]
  <2>1. \A i \in 1 .. n - 1 : stack[i] \in GraphIds
    BY <1>1
  <2>2. /\ SubSeq(stack, 1, n - 1) \in Seq(GraphIds)
        /\ Len(SubSeq(stack, 1, n - 1)) = IF 1 <= n - 1 THEN (n - 1) - 1 + 1 ELSE 0
        /\ \A i \in 1 .. (n - 1) - 1 + 1 :
             SubSeq(stack, 1, n - 1)[i] = stack[1 + i - 1]
    <3> HIDE DEF n, u
    <3> QED BY <1>1, <2>1, SubSeqProperties
  <2> HIDE DEF n, u
  <2> QED BY <1>1, <2>2
<1>3. /\ color' \in [GraphIds -> {"white", "gray", "black"}]
      /\ color'[u] = "black"
      /\ \A w \in GraphIds : w # u => color'[w] = color[w]
  BY <1>1 DEF CycleInv, CycleType
<1>4. \A i \in 1 .. n - 1 : stack[i] # u
  BY <1>1 DEF CycleInv, StackIsPath
<1>5. CycleType'
  BY <1>1, <1>2, <1>3 DEF CycleInv, CycleType
<1>6. StackIsGray'
  <2> SUFFICES ASSUME NEW w \in GraphIds
               PROVE  color'[w] = "gray" <=> \E i \in 1 .. n - 1 : stack[i] = w
    BY <1>1, <1>2 DEF StackIsGray
  <2>1. CASE w = u
    BY <1>3, <1>4, <2>1
  <2>2. CASE w # u
    BY <1>1, <1>3, <2>2 DEF CycleInv, StackIsGray
  <2> QED BY <2>1, <2>2
<1>7. StackIsPath'
  <2>1. ASSUME NEW i \in 1 .. n - 1, NEW j \in 1 .. n - 1, i # j
        PROVE  stack'[i] # stack'[j]
    BY <1>1, <1>2, <2>1 DEF CycleInv, StackIsPath
  <2>2. ASSUME NEW i \in 1 .. (n - 1) - 1
        PROVE  stack'[i + 1] \in targets'[stack'[i]]
    <3>1. i \in 1 .. n - 1 /\ i + 1 \in 1 .. n - 1
      BY <1>1
    <3> QED BY <1>1, <1>2, <3>1 DEF CycleInv, StackIsPath
  <2> QED BY <1>2, <2>1, <2>2 DEF StackIsPath
<1>8. TodoIsLeft'
  BY <1>1, <1>3 DEF CycleInv, TodoIsLeft
<1>9. ASSUME found = <<>> PROVE LookedAt' /\ BlackIsDone'
  <2>1. targets[u] \subseteq Black
    BY <1>1, <1>9 DEF CycleInv, CycleType, LookedAt, Black
  <2>2. Black' = Black \cup {u} /\ u \notin Black
    BY <1>1, <1>3 DEF Black
  <2>3. LookedAt'
    <3> SUFFICES ASSUME NEW i \in 1 .. n - 1,
                        NEW w \in targets[stack[i]] \ todo[stack[i]]
                 PROVE  color'[w] = "black" \/ (i < n - 1 /\ w = stack[i + 1])
      BY <1>1, <1>2 DEF LookedAt
    <3>1. w \in GraphIds
      BY <1>1 DEF CycleInv, CycleType
    <3>2. color[w] = "black" \/ w = stack[i + 1]
      BY <1>1, <1>9 DEF CycleInv, LookedAt
    <3> QED BY <1>1, <1>3, <3>1, <3>2
  <2>4. \A w \in Black' : targets'[w] \subseteq Black'
    BY <1>1, <1>9, <2>1, <2>2 DEF CycleInv, BlackIsDone
  <2>5. ASSUME NEW S \in SUBSET Black', S # {}
        PROVE  \E w \in S : targets'[w] \cap S = {}
    <3>1. CASE S = {u}
      BY <1>1, <2>1, <2>2, <3>1
    <3>2. CASE S # {u}
      <4>1. S \ {u} \in SUBSET Black /\ S \ {u} # {}
        BY <2>2, <2>5, <3>2
      <4>2. PICK w \in S \ {u} : targets[w] \cap (S \ {u}) = {}
        BY <1>9, <4>1 DEF CycleInv, BlackIsDone
      <4>3. targets[w] \subseteq Black
        BY <1>9, <4>1 DEF CycleInv, BlackIsDone
      <4> QED BY <1>1, <2>2, <4>2, <4>3
    <3> QED BY <3>1, <3>2
  <2> QED BY <2>3, <2>4, <2>5 DEF BlackIsDone
<1>10. found # <<>> => IsCycle(found)'
  BY <1>1 DEF CycleInv, IsCycle
<1> QED BY <1>1, <1>5, <1>6, <1>7, <1>8, <1>9, <1>10 DEF CycleInv

(* The searches of GraphCheck keep the invariant.                          *)
LEMMA CycleInvariant == Spec => []CycleInv
<1>1. Init => CycleInv
  <2>1. Init => doc.refs \in [GraphIds -> SUBSET GraphIds]
    BY InputsAssumption DEF Init
  <2> QED BY <2>1, CycleInitInv DEF Init
<1>2. CycleInv /\ [Next]_vars => CycleInv'
  <2> SUFFICES ASSUME CycleInv, [Next]_vars PROVE CycleInv'
    OBVIOUS
  <2>1. CASE SearchCycle
    BY <2>1, RootStep, LookStep, ReturnStep DEF SearchCycle, CycleNext
  <2>2. CASE UNCHANGED cycleVars
    BY <2>2 DEF cycleVars, CycleInv, CycleType, StackIsGray, StackIsPath,
                TodoIsLeft, LookedAt, BlackIsDone, Black, IsCycle
  <2> QED BY <2>1, <2>2 DEF Next, Visit, FindStructureIssues, FindDirty,
                            AddCycleIssue, vars
<1> QED BY <1>1, <1>2, PTL DEF Spec

(* At the end of a search without result everything is black.              *)
LEMMA CycleInvVerdict == CycleInv => CycleVerdict
<1> SUFFICES ASSUME CycleInv PROVE CycleVerdict
  OBVIOUS
<1>1. ASSUME CycleDone, found = <<>> PROVE Acyclic(targets)
  <2>1. \A v \in GraphIds : color[v] = "black"
    BY <1>1 DEF CycleDone, CycleInv, CycleType, StackIsGray
  <2>2. Black = GraphIds
    BY <2>1 DEF Black
  <2> QED BY <1>1, <2>2 DEF CycleInv, BlackIsDone, Acyclic
<1> QED BY <1>1 DEF CycleInv, CycleVerdict

(* CycleVerdict for every workspace: the check that gates Run and          *)
(* `graph-caster run -g` reports a cycle of references, and exactly when   *)
(* there is one.                                                           *)
THEOREM CycleCorrect == Spec => []CycleVerdict
BY CycleInvariant, CycleInvVerdict, PTL

-----------------------------------------------------------------------------
(* The gate.                                                               *)

(* The graphs of a cycle all refer to one another.                         *)
LEMMA CycleIsNotAcyclic ==
  ASSUME CycleInv, found # <<>>
  PROVE  ~Acyclic(targets)
<1> DEFINE S == {found[i] : i \in 1 .. Len(found)}
<1>1. /\ found \in Seq(GraphIds) /\ Len(found) \in Nat \ {0} /\ IsCycle(found)
      /\ \A i \in 1 .. Len(found) : found[i] \in GraphIds
  BY DEF CycleInv, CycleType
<1>2. S \in SUBSET GraphIds /\ S # {}
  BY <1>1
<1>3. ASSUME NEW i \in 1 .. Len(found)
      PROVE  targets[found[i]] \cap S # {}
  <2>1. CASE i = Len(found)
    <3>1. found[1] \in S /\ found[1] \in targets[found[i]]
      BY <1>1, <2>1 DEF IsCycle
    <3> QED BY <3>1
  <2>2. CASE i < Len(found)
    <3>1. found[i + 1] \in S /\ found[i + 1] \in targets[found[i]]
      BY <1>1, <2>2 DEF IsCycle
    <3> QED BY <3>1
  <2> QED BY <1>1, <2>1, <2>2
<1>4. \A v \in S : targets[v] \cap S # {}
  BY <1>3
<1> HIDE DEF S
<1> QED BY <1>2, <1>4 DEF Acyclic

(* The issues of the document itself block a run exactly when the runner   *)
(* refuses it for its start node or for its triggers.                      *)
LEMMA StructureIssuesBlock ==
  ASSUME NEW d \in Inputs, NEW unreachable
  PROVE  /\ "graph_ref_workspace_cycle" \notin StructureIssuesOf(d, unreachable)
         /\ StructureIssuesOf(d, unreachable) \cap Blocking # {} <=>
              Refusals(d) \cap {"start", "trigger"} # {}
<1> DEFINE starts == OfType(d, {"start"})
           hooks == OfType(d, {"trigger_webhook", "trigger_schedule"})
           structure == StructureIssuesOf(d, unreachable)
<1>1. IsFiniteSet(starts)
  BY NodesAssumption, FS_Subset DEF OfType
<1>2. Cardinality(starts) > 1 <=> starts # {} /\ ~\E s \in Nodes : starts = {s}
  <2>1. Cardinality(starts) \in Nat
    BY <1>1, FS_CardinalityType
  <2>2. Cardinality(starts) = 0 <=> starts = {}
    BY <1>1, FS_EmptySet
  <2>3. Cardinality(starts) = 1 <=> \E s : starts = {s}
    BY <1>1, FS_Singleton
  <2>4. (\E s : starts = {s}) <=> \E s \in Nodes : starts = {s}
    BY DEF OfType
  <2> HIDE DEF starts
  <2> QED BY <2>1, <2>2, <2>3, <2>4
<1>3. /\ "no_start" \in structure <=> starts = {}
      /\ "multiple_starts" \in structure <=> Cardinality(starts) > 1
      /\ "start_has_incoming" \in structure <=> \E s \in starts : HasIncoming(d, s)
      /\ "trigger_has_incoming" \in structure <=> \E n \in hooks : HasIncoming(d, n)
      /\ "graph_ref_workspace_cycle" \notin structure
  BY DEF StructureIssuesOf
<1>4. /\ "start" \in Refusals(d) <=>
           ~\E s \in Nodes : starts = {s} /\ ~HasIncoming(d, s)
      /\ "trigger" \in Refusals(d) <=> \E n \in hooks : HasIncoming(d, n)
  BY DEF Refusals, DocumentErrors, WorkspaceErrors
<1>5. (~\E s \in Nodes : starts = {s} /\ ~HasIncoming(d, s)) <=>
        \/ starts = {}
        \/ Cardinality(starts) > 1
        \/ \E s \in starts : HasIncoming(d, s)
  BY <1>2
<1> HIDE DEF starts, hooks, structure
<1>6. structure \cap Blocking # {} <=>
        \/ "no_start" \in structure \/ "multiple_starts" \in structure
        \/ "start_has_incoming" \in structure \/ "trigger_has_incoming" \in structure
  BY <1>3 DEF Blocking
<1>7. structure \cap Blocking # {} <=> Refusals(d) \cap {"start", "trigger"} # {}
  BY <1>3, <1>4, <1>5, <1>6
<1> QED BY <1>3, <1>7 DEF structure

(* What the issues are in each phase.                                      *)
GateInv ==
  LET entry == Refusals(doc) \cap {"start", "trigger"} # {}
      cycle == "graph_ref_workspace_cycle"
  IN
  /\ doc \in Inputs
  /\ targets = doc.refs
  /\ doc.purpose = "gate" =>
       /\ phase \in {"reach", "cycle", "done"}
       /\ phase = "cycle" =>
            /\ doc.linked
            /\ cycle \notin issues
            /\ issues \cap Blocking # {} <=> entry
       /\ phase = "done" =>
            /\ cycle \in issues <=> doc.linked /\ ~Acyclic(doc.refs)
            /\ (issues \ {cycle}) \cap Blocking # {} <=> entry

(* GateAgrees for every document, workspace and graphs directory: where    *)
(* the run gets the open workspace, the editor refuses only what the       *)
(* runner refuses too and lets no cycle through.                           *)
THEOREM GateCorrect == Spec => []GateAgrees
<1>1. Init => GateInv
  BY DEF Init, GateInv, CycleInit
<1>2. CycleInv /\ GateInv /\ [Next]_vars => GateInv'
  <2> SUFFICES ASSUME CycleInv, GateInv, [Next]_vars PROVE GateInv'
    OBVIOUS
  <2>1. CASE FindStructureIssues
    <3>1. /\ doc.purpose = "gate" /\ doc' = doc /\ doc \in Inputs
          /\ targets' = targets
          /\ phase' = IF doc.linked THEN "cycle" ELSE "done"
      BY <2>1 DEF FindStructureIssues, cycleVars, GateInv
    <3>2. PICK U : issues' = StructureIssuesOf(doc, U)
      BY <2>1 DEF FindStructureIssues
    <3>3. /\ "graph_ref_workspace_cycle" \notin issues'
          /\ issues' \cap Blocking # {} <=> Refusals(doc) \cap {"start", "trigger"} # {}
      BY <3>1, <3>2, StructureIssuesBlock
    <3>4. issues' \ {"graph_ref_workspace_cycle"} = issues'
      BY <3>3
    <3>5. doc.linked \in BOOLEAN
      BY <3>1, InputsAssumption
    <3> QED BY <3>1, <3>3, <3>4, <3>5 DEF GateInv
  <2>2. CASE AddCycleIssue
    <3>1. /\ phase = "cycle" /\ CycleDone /\ phase' = "done"
          /\ issues' = issues \cup (IF found = <<>> THEN {}
                                    ELSE {"graph_ref_workspace_cycle"})
          /\ doc' = doc /\ targets' = targets
      BY <2>2 DEF AddCycleIssue, cycleVars
    <3>2. found = <<>> <=> Acyclic(targets)
      BY <3>1, CycleInvVerdict, CycleIsNotAcyclic DEF CycleVerdict
    <3>3. CASE doc.purpose = "gate"
      <4>1. /\ doc.linked /\ "graph_ref_workspace_cycle" \notin issues
            /\ issues \cap Blocking # {} <=> Refusals(doc) \cap {"start", "trigger"} # {}
            /\ targets = doc.refs
        BY <3>1, <3>3 DEF GateInv
      <4>2. issues' \ {"graph_ref_workspace_cycle"} = issues
        BY <3>1, <4>1
      <4>3. "graph_ref_workspace_cycle" \in issues' <=> ~Acyclic(doc.refs)
        BY <3>1, <3>2, <4>1
      <4> QED BY <3>1, <4>1, <4>2, <4>3 DEF GateInv
    <3>4. CASE doc.purpose # "gate"
      BY <3>1, <3>4 DEF GateInv
    <3> QED BY <3>3, <3>4
  <2>3. CASE FindDirty
    BY <2>3 DEF FindDirty, GateInv, cycleVars
  <2>4. CASE Visit
    BY <2>4 DEF Visit, GateInv, checkVars, cycleVars
  <2>5. CASE SearchCycle
    <3>1. targets' = targets /\ UNCHANGED <<doc, phase, issues>>
      BY <2>5 DEF SearchCycle, CycleNext, Root, Look, Return, checkVars
    <3> QED BY <3>1 DEF GateInv
  <2>6. CASE UNCHANGED vars
    BY <2>6 DEF vars, GateInv, cycleVars
  <2> QED BY <2>1, <2>2, <2>3, <2>4, <2>5, <2>6 DEF Next
<1>3. GateInv => GateAgrees
  <2> SUFFICES ASSUME GateInv, phase = "done", doc.purpose = "gate"
               PROVE  GateAgrees
    BY DEF GateAgrees
  <2> DEFINE cycle == "graph_ref_workspace_cycle"
             own == issues \ {cycle}
  <2>1. /\ cycle \in issues <=> doc.linked /\ ~Acyclic(doc.refs)
        /\ own \cap Blocking # {} <=> Refusals(doc) \cap {"start", "trigger"} # {}
        /\ cycle \in Blocking
    BY DEF GateInv, Blocking
  <2>2. SameWorkspace(doc) => (cycle \in issues <=> "cycle" \in Refusals(doc))
    BY <2>1 DEF SameWorkspace, Refusals, DocumentErrors, WorkspaceErrors
  <2>3. Refusals(doc) \subseteq {"start", "trigger", "trigger_error", "graph_id",
                                "handles", "workspace_index", "cycle"}
    BY DEF Refusals, DocumentErrors, WorkspaceErrors
  <2>4. BlocksRun <=> cycle \in issues \/ own \cap Blocking # {}
    BY <2>1 DEF BlocksRun
  <2>5. cycle \in issues /\ own \cap Blocking = {} => issues \cap Blocking = {cycle}
    BY <2>1
  <2> HIDE DEF cycle, own
  <2>6. BlocksRun => \/ Refusals(doc) # {}
                     \/ issues \cap Blocking = {cycle} /\ ~SameWorkspace(doc)
    BY <2>1, <2>2, <2>4, <2>5
  <2>7. ~BlocksRun => Refusals(doc) \subseteq
                        {"handles", "trigger_error", "graph_id", "workspace_index"}
                        \cup (IF SameWorkspace(doc) THEN {} ELSE {"cycle"})
    BY <2>1, <2>2, <2>3, <2>4
  <2> QED BY <2>6, <2>7 DEF GateAgrees, cycle
<1> QED BY <1>1, <1>2, <1>3, CycleInvariant, PTL DEF Spec

=============================================================================
