------------------------------ MODULE RunEngine ------------------------------
(***************************************************************************)
(* The loop of GraphRunner (runner/graph_runner.py) in one worker process: *)
(* the step queue with its UX-friendly pick, forks with and without branch *)
(* threads, barrier merges, error routes, cooperative cancellation, the    *)
(* pause at a human_input node, the final status; and `graph-caster        *)
(* resume`, which starts a new process at the paused node.                 *)
(*                                                                         *)
(* A graph is its nodes with their kinds and, for each node, the success   *)
(* and the error edges in document order.  What a condition on an edge     *)
(* evaluates to, and how a visit ends, are choices.  "task" stands for all *)
(* executable node types, "start" and "merge" (passthrough) for the types  *)
(* without a visit, "ref" for a nested graph.                              *)
(***************************************************************************)
EXTENDS Naturals, Sequences, FiniteSets, SequencesExt

CONSTANTS
  Nodes,    \* node ids
  None,     \* no node
  GraphIds, \* ids of the documents
  Graphs    \* the documents, each with the options of a run

Kinds == {"absent", "start", "exit", "fork", "barrier", "merge", "task", "human", "ref"}
Edges == [to : Nodes, cond : BOOLEAN]

ASSUME NodesAssumption == IsFiniteSet(Nodes) /\ None \notin Nodes
ASSUME GraphsAssumption ==
  /\ DOMAIN Graphs = GraphIds
  /\ \A id \in GraphIds : LET g == Graphs[id] IN
       /\ g.kind \in [Nodes -> Kinds]
       /\ g.out \in [Nodes -> Seq(Edges)]
       /\ g.err \in [Nodes -> Seq(Edges)]
       /\ g.start \in Nodes /\ g.kind[g.start] = "start"
       /\ g.stop \in Nodes \cup {None}   \* --until-node
       /\ g.parallel \in BOOLEAN         \* is the fork limit at least 2
       /\ g.fifo \in BOOLEAN             \* --scheduler fifo
       /\ g.faults \in BOOLEAN           \* may a visit raise, and a checkpoint be lost

VARIABLES
  doc,        \* the id of the document that is run
  board,      \* the step queue, and the arrivals at and scheduling of barriers
  guard,      \* visited_guard
  pc,         \* where the loop is
  node,       \* the node it visits
  pending,    \* the edges of a fork still to be traversed
  worker,     \* where the branch thread of a node is
  cancel,     \* the cancel_event: "no", "yes", or "never" without a session
  flags,      \* _run_success, _run_cancelled, ... and _gc_process_cancelled of ctx
  answered,   \* human_input nodes with an answer in node_outputs
  checkpoint, \* the node of this document's checkpoint on disk
  visits,     \* visits of each node in this process, up to "2 or more"
  done,       \* nodes with a visit that ended well, in any process
  reasons,    \* what the events of this process say about its end
  status      \* the status of run_finished or run_paused

progress == <<visits, done, reasons>>
disk == <<answered, checkpoint>>
vars == <<doc, board, guard, pc, node, pending, worker, cancel, flags, answered,
          checkpoint, visits, done, reasons, status>>

graph == Graphs[doc]
Kind(n) == graph.kind[n]
MaxSteps == 4 * Cardinality({n \in Nodes : Kind(n) # "absent"})

EmptyBoard(start) ==
  [queue |-> <<start>>, arrived |-> [m \in Nodes |-> {}], scheduled |-> {}]

Init ==
  /\ doc \in GraphIds
  /\ board = EmptyBoard(graph.start)
  /\ guard = 0
  /\ pc = "top"
  /\ node = None
  /\ pending = {}
  /\ worker = [n \in Nodes |-> "idle"]
  /\ cancel = "no"
  /\ flags = {}
  /\ answered = {}
  /\ checkpoint = None
  /\ visits = [n \in Nodes |-> 0]
  /\ done = {}
  /\ reasons = {}
  /\ status = "running"

-----------------------------------------------------------------------------
\* Edges and barriers

\* evaluate_next_edge: edge i is the first one whose condition holds.
Chosen(edges, i) == i \in DOMAIN edges /\ \A j \in 1..(i - 1) : edges[j].cond
NoneChosen(edges) == \A i \in DOMAIN edges : edges[i].cond

\* fork_unconditional_edges: their places in document order.
Unconditional(n) == {i \in DOMAIN graph.out[n] : ~graph.out[n][i].cond}

\* _barrier_required_sources
Required(m) == {n \in Nodes : \E i \in DOMAIN graph.out[n] : graph.out[n][i].to = m}

\* A barrier is complete, given who arrived.
CompleteOnAny(m, arrived) == arrived # {}
Complete(m, arrived) == Required(m) \subseteq arrived

\* _merge_barrier_arrive, under the state lock.
ArriveForgetting(b, m, from) ==
  IF Complete(m, {from}) /\ m \notin b.scheduled
  THEN [b EXCEPT !.arrived[m] = {from}, !.scheduled = @ \cup {m}, !.queue = Append(@, m)]
  ELSE [b EXCEPT !.arrived[m] = {from}]
ArriveRepeatedly(b, m, from) ==
  LET arrived == b.arrived[m] \cup {from} IN
  IF Complete(m, arrived)
  THEN [b EXCEPT !.arrived[m] = arrived, !.scheduled = @ \cup {m}, !.queue = Append(@, m)]
  ELSE [b EXCEPT !.arrived[m] = arrived]
Arrive(b, m, from) ==
  LET arrived == b.arrived[m] \cup {from} IN
  IF Complete(m, arrived) /\ m \notin b.scheduled
  THEN [b EXCEPT !.arrived[m] = arrived, !.scheduled = @ \cup {m}, !.queue = Append(@, m)]
  ELSE [b EXCEPT !.arrived[m] = arrived]

\* _traverse_chosen_edge on a success edge.
Send(b, from, to) ==
  IF Kind(to) = "barrier" THEN Arrive(b, to, from) ELSE [b EXCEPT !.queue = Append(@, to)]

\* _follow_edges_from, _traverse_chosen_edge on an error edge: an error edge into
\* a barrier leads nowhere, but counts as taken.
ErrorRoute(n, i) ==
  LET to == graph.err[n][i].to IN
  /\ Chosen(graph.err[n], i)
  /\ IF Kind(to) = "barrier"
     THEN board' = board /\ reasons' = reasons \cup {"visit", "error_path"}
     ELSE board' = [board EXCEPT !.queue = Append(@, to)] /\ reasons' = reasons \cup {"visit"}

NoErrorRoute(n) ==
  /\ NoneChosen(graph.err[n])
  /\ reasons' = reasons \cup {"visit"}
  /\ board' = board

\* _has_incomplete_barrier
IncompleteBarrier ==
  \E m \in Nodes : /\ board.arrived[m] # {}
                   /\ m \notin board.scheduled
                   /\ board.arrived[m] # Required(m)

-----------------------------------------------------------------------------
\* The loop

Visited(n) == visits' = [visits EXCEPT ![n] = IF @ = 0 THEN 1 ELSE 2]

\* pick_next_frame: the first frame of the best bucket, or the first of all.
Priority(n) ==
  CASE Kind(n) = "exit" -> 1
    [] Kind(n) \in {"fork", "barrier", "merge", "task"} -> 4
    [] OTHER -> 5
Ahead(i, j) ==
  LET p == Priority(board.queue[i])
      q == Priority(board.queue[j]) IN
  IF graph.fifo THEN i <= j ELSE p < q \/ (p = q /\ i <= j)
PickNext(i) == i \in DOMAIN board.queue /\ \A j \in DOMAIN board.queue : Ahead(i, j)

LoopDoneLate == board.queue = <<>> \/ guard > MaxSteps
LoopDone == board.queue = <<>> \/ guard >= MaxSteps
NotCounted == guard
Counted == guard + 1
CancelIgnored == FALSE
CancelRequested == cancel = "yes"

LeaveLoop ==
  /\ pc = "top"
  /\ LoopDone
  /\ pc' = "end"
  /\ UNCHANGED <<doc, board, guard, node, pending, worker, cancel, flags, disk, progress, status>>

StopOnCancel ==
  /\ pc = "top"
  /\ ~LoopDone
  /\ CancelRequested
  /\ guard' = Counted
  /\ flags' = flags \cup {"cancelled"}
  /\ reasons' = reasons \cup {"cancel"}
  /\ pc' = "end"
  /\ UNCHANGED <<doc, board, node, pending, worker, cancel, disk, visits, done, status>>

Pop ==
  /\ pc = "top"
  /\ ~LoopDone
  /\ ~CancelRequested
  /\ guard' = Counted
  /\ pc' = "visit"
  /\ \E i \in DOMAIN board.queue :
       /\ PickNext(i)
       /\ node' = board.queue[i]
       /\ Visited(board.queue[i])
       /\ board' = [board EXCEPT !.queue = RemoveAt(@, i)]
  /\ UNCHANGED <<doc, pending, worker, cancel, flags, disk, done, reasons, status>>

\* The run ends after this node: --until-node.
Stops(fl) == node = graph.stop /\ "cancelled" \notin fl

\* What follows a visit that ended well and left the flags fl.
Leave(fl) ==
  /\ done' = done \cup {node}
  /\ \/ /\ Stops(fl)
        /\ flags' = fl \cup {"partial"}
        /\ pc' = "end"
        /\ UNCHANGED <<board, reasons>>
     \/ /\ ~Stops(fl)
        /\ \E i \in DOMAIN graph.out[node] :
             /\ Chosen(graph.out[node], i)
             /\ board' = Send(board, node, graph.out[node][i].to)
        /\ flags' = fl
        /\ pc' = "top"
        /\ UNCHANGED reasons
     \/ /\ ~Stops(fl)
        /\ NoneChosen(graph.out[node])
        /\ flags' = fl
        /\ reasons' = reasons \cup {"no_edge"}
        /\ pc' = "end"
        /\ UNCHANGED board

VisitPlain ==
  /\ pc = "visit"
  /\ Kind(node) \in {"start", "merge", "barrier"}
  /\ Leave(flags)
  /\ UNCHANGED <<doc, guard, node, pending, worker, cancel, disk, visits, status>>

VisitExit ==
  /\ pc = "visit"
  /\ Kind(node) = "exit"
  /\ done' = done \cup {node}
  /\ flags' = flags \cup {"success"}
  /\ pc' = "end"
  /\ UNCHANGED <<doc, board, guard, node, pending, worker, cancel, disk, visits, reasons, status>>

\* What follows a visit that failed: an error edge if there is one that applies.
RouteError ==
  /\ UNCHANGED <<flags, done>>
  /\ \/ pc' = "top" /\ \E i \in DOMAIN graph.err[node] : ErrorRoute(node, i)
     \/ pc' = "end" /\ NoErrorRoute(node)

BreakWith(fl) ==
  /\ flags' = fl
  /\ pc' = "end"
  /\ UNCHANGED <<board, done, reasons>>

Raise ==
  /\ graph.faults
  /\ pc' = "abort"
  /\ reasons' = reasons \cup {"raise"}
  /\ UNCHANGED <<board, flags, done>>

\* run_subprocess_task_visit and its like.
VisitTask ==
  /\ pc = "visit"
  /\ Kind(node) = "task"
  /\ \/ Leave(flags)
     \/ "killed" \notin flags /\ RouteError
     \/ (cancel = "yes" \/ "killed" \in flags) /\ BreakWith(flags \cup {"cancelled", "killed"})
     \/ Raise
  /\ UNCHANGED <<doc, guard, node, pending, worker, cancel, disk, visits, status>>

\* _execute_graph_ref.  A branch that raises in the nested graph marks this run
\* as cancelled, even when the nested one succeeds.
NestedFlags == IF graph.faults THEN {flags, flags \cup {"cancelled"}} ELSE {flags}
VisitRef ==
  /\ pc = "visit"
  /\ Kind(node) = "ref"
  /\ \/ \E fl \in NestedFlags : Leave(fl)
     \/ "cancelled" \notin flags /\ RouteError
     \/ \E fl \in NestedFlags \cup {flags \cup {"cancelled"}} :
          /\ "cancelled" \in fl
          /\ cancel = "yes" \/ fl \in NestedFlags
          /\ BreakWith(fl)
     \/ Raise
  /\ UNCHANGED <<doc, guard, node, pending, worker, cancel, disk, visits, status>>

\* _run_human_input_visit, unless the answer is there.  An error while the
\* checkpoint is written is swallowed, and without artifacts_base there is none.
VisitHuman ==
  /\ pc = "visit"
  /\ Kind(node) = "human"
  /\ \/ node \in answered /\ Leave(flags) /\ checkpoint' = checkpoint
     \/ /\ node \notin answered
        /\ \/ checkpoint' = node
           \/ graph.faults /\ checkpoint' = checkpoint
        /\ flags' = flags \cup {"paused"}
        /\ pc' = "abort"
        /\ UNCHANGED <<board, done, reasons>>
  /\ UNCHANGED <<doc, guard, node, pending, worker, cancel, answered, visits, status>>

-----------------------------------------------------------------------------
\* Forks

\* build_fork_parallel_plans, for the branches that are run in threads: one task
\* each, all into one barrier that has no other predecessor.
Branches(f) == {graph.out[f][i].to : i \in Unconditional(f)}
RunsInThreads(f) ==
  /\ graph.parallel
  /\ graph.stop = None
  /\ Cardinality(Unconditional(f)) >= 2
  /\ Cardinality(Branches(f)) = Cardinality(Unconditional(f))
  /\ \E m \in Nodes :
       /\ Kind(m) = "barrier"
       /\ Required(m) = Branches(f)
       /\ \A b \in Branches(f) :
            /\ Kind(b) = "task"
            /\ \E i \in DOMAIN graph.out[b] :
                 Unconditional(b) = {i} /\ graph.out[b][i].to = m

VisitFork ==
  /\ pc = "visit"
  /\ Kind(node) = "fork"
  /\ done' = done \cup {node}
  /\ \/ /\ Stops(flags)
        /\ flags' = flags \cup {"partial"}
        /\ pc' = "end"
        /\ UNCHANGED <<pending, worker, reasons>>
     \/ /\ ~Stops(flags)
        /\ Unconditional(node) = {}
        /\ reasons' = reasons \cup {"no_edge"}
        /\ pc' = "end"
        /\ UNCHANGED <<flags, pending, worker>>
     \/ /\ ~Stops(flags)
        /\ Unconditional(node) # {}
        /\ ~RunsInThreads(node)
        /\ pending' = Unconditional(node)
        /\ pc' = "fanout"
        /\ UNCHANGED <<flags, worker, reasons>>
     \/ /\ ~Stops(flags)
        /\ RunsInThreads(node)
        /\ worker' = [n \in Nodes |-> IF n \in Branches(node) THEN "ready" ELSE "idle"]
        /\ pc' = "join"
        /\ UNCHANGED <<flags, pending, reasons>>
  /\ UNCHANGED <<doc, board, guard, node, cancel, disk, visits, status>>

\* The branches of a fork without threads: one edge after the other.
FanOut ==
  /\ pc = "fanout"
  /\ \E i \in pending :
       /\ \A j \in pending : i <= j
       /\ board' = Send(board, node, graph.out[node][i].to)
       /\ pending' = pending \ {i}
  /\ pc' = IF pending' = {} THEN "top" ELSE "fanout"
  /\ UNCHANGED <<doc, guard, node, worker, cancel, flags, disk, progress, status>>

\* as_completed
JoinBranches ==
  /\ pc = "join"
  /\ \A n \in Nodes : worker[n] = "idle"
  /\ pc' = "top"
  /\ UNCHANGED <<doc, board, guard, node, pending, worker, cancel, flags, disk, progress, status>>

\* _fork_parallel_branch_worker

\* A visit in a branch notices the cancellation, or that another branch raised.
KilledAnyhow == TRUE
Killed == cancel = "yes" \/ "cancelled" \in flags

WorkerBegin(n) ==
  /\ worker[n] = "ready"
  /\ \/ /\ "cancelled" \in flags
        /\ worker' = [worker EXCEPT ![n] = "idle"]
        /\ UNCHANGED visits
     \/ /\ "cancelled" \notin flags
        /\ worker' = [worker EXCEPT ![n] = "visiting"]
        /\ Visited(n)
  /\ UNCHANGED <<doc, board, guard, pc, node, pending, cancel, flags, disk, done, reasons, status>>

WorkerOk(n) ==
  /\ worker[n] = "visiting"
  /\ done' = done \cup {n}
  /\ worker' = [worker EXCEPT ![n] = IF "cancelled" \in flags THEN "idle" ELSE "arriving"]
  /\ UNCHANGED <<doc, board, guard, pc, node, pending, cancel, flags, disk, visits, reasons, status>>

WorkerArrive(n) ==
  /\ worker[n] = "arriving"
  /\ worker' = [worker EXCEPT ![n] = "idle"]
  /\ \E i \in Unconditional(n) : board' = Arrive(board, graph.out[n][i].to, n)
  /\ UNCHANGED <<doc, guard, pc, node, pending, cancel, flags, disk, progress, status>>

WorkerFail(n) ==
  /\ worker[n] = "visiting"
  /\ worker' = [worker EXCEPT ![n] = "idle"]
  /\ \/ /\ "killed" \notin flags
        /\ \/ \E i \in DOMAIN graph.err[n] : ErrorRoute(n, i)
           \/ NoErrorRoute(n)
        /\ UNCHANGED flags
     \/ /\ Killed
        /\ flags' = flags \cup {"cancelled", "killed"}
        /\ UNCHANGED <<board, reasons>>
     \/ /\ graph.faults
        /\ flags' = flags \cup {"cancelled"}
        /\ UNCHANGED <<board, reasons>>
  /\ UNCHANGED <<doc, guard, pc, node, pending, cancel, disk, visits, done, status>>

-----------------------------------------------------------------------------
\* The end of the process, a request to cancel, and the next process

EndErrors ==
  CASE guard >= MaxSteps -> {"cycle_guard"}
    [] guard < MaxSteps /\ flags \cap {"success", "cancelled", "partial"} = {}
                        /\ IncompleteBarrier -> {"incomplete"}
    [] OTHER -> {}

\* _run_from_root_finally
Finish ==
  /\ pc \in {"end", "abort"}
  /\ pc' = "done"
  /\ reasons' = reasons \cup (IF pc = "end" THEN EndErrors ELSE {})
  /\ status' = CASE "paused" \in flags -> "paused"
                 [] "paused" \notin flags /\ "cancelled" \in flags -> "cancelled"
                 [] flags \cap {"paused", "cancelled"} = {} /\ "partial" \in flags -> "partial"
                 [] flags \cap {"paused", "cancelled", "partial"} = {}
                      /\ "success" \in flags -> "success"
                 [] OTHER -> "failed"
  /\ UNCHANGED <<doc, board, guard, node, pending, worker, cancel, flags, disk, visits, done>>

RequestCancel ==
  /\ status = "running"
  /\ cancel = "no"
  /\ cancel' = "yes"
  /\ UNCHANGED <<doc, board, guard, pc, node, pending, worker, flags, disk, progress, status>>

\* `graph-caster resume` of a paused run: the checkpoint is deleted and the same
\* document is run again from its node, with the answer, without --track-session.
Resume ==
  /\ status = "paused"
  /\ checkpoint # None
  /\ answered' = answered \cup {checkpoint}
  /\ checkpoint' = None
  /\ board' = EmptyBoard(checkpoint)
  /\ guard' = 0
  /\ pc' = "top"
  /\ cancel' = "never"
  /\ flags' = {}
  /\ visits' = [n \in Nodes |-> 0]
  /\ reasons' = {}
  /\ status' = "running"
  /\ UNCHANGED <<doc, node, pending, worker, done>>

-----------------------------------------------------------------------------
Loop ==
  \/ LeaveLoop \/ StopOnCancel \/ Pop
  \/ VisitPlain \/ VisitExit \/ VisitTask \/ VisitRef \/ VisitHuman \/ VisitFork
  \/ FanOut \/ JoinBranches \/ Finish

Worker(n) == WorkerBegin(n) \/ WorkerOk(n) \/ WorkerArrive(n) \/ WorkerFail(n)

Next == Loop \/ (\E n \in Nodes : Worker(n)) \/ RequestCancel \/ Resume

Spec == Init /\ [][Next]_vars

\* The threads of the process run on, and each visit ends: it has a timeout.
Fairness == WF_vars(Loop) /\ \A n \in Nodes : WF_vars(Worker(n))

FairSpec == Spec /\ Fairness

-----------------------------------------------------------------------------
Board == [queue : Seq(Nodes), arrived : [Nodes -> SUBSET Nodes], scheduled : SUBSET Nodes]

\* Type invariant; the loop never exceeds its budget of visits.
TypeOK ==
  /\ doc \in GraphIds
  /\ board \in Board
  /\ guard \in 0..MaxSteps
  /\ pc \in {"top", "visit", "fanout", "join", "end", "abort", "done"}
  /\ node \in Nodes \cup {None}
  /\ pending \subseteq Nat
  /\ worker \in [Nodes -> {"idle", "ready", "visiting", "arriving"}]
  /\ cancel \in {"no", "yes", "never"}
  /\ flags \subseteq {"success", "cancelled", "partial", "paused", "killed"}
  /\ answered \subseteq Nodes
  /\ checkpoint \in Nodes \cup {None}
  /\ visits \in [Nodes -> 0..2]
  /\ done \subseteq Nodes
  /\ reasons \subseteq {"visit", "error_path", "no_edge", "cancel", "raise",
                        "cycle_guard", "incomplete"}
  /\ status \in {"running", "success", "failed", "cancelled", "partial", "paused"}

-----------------------------------------------------------------------------
\* A barrier merge is visited only after a visit of every one of its success
\* predecessors has ended well, whether they ran one by one or in threads.
MergeAfterAll ==
  \A m \in Nodes : Kind(m) = "barrier" /\ visits[m] > 0 => Required(m) \subseteq done

\* ... and only once in a process, however often the predecessors are visited
\* and whichever of them arrive at the same time.
MergeOnce == \A m \in Nodes : Kind(m) = "barrier" => visits[m] <= 1

\* No edge has a condition, and only a fork has several.
TakesEveryEdge ==
  \A n \in Nodes : /\ Unconditional(n) = DOMAIN graph.out[n]
                   /\ Kind(n) = "fork" \/ Len(graph.out[n]) <= 1
                   /\ graph.out[n] = <<>> => Kind(n) \in {"exit", "absent"}

\* Every predecessor of a barrier is on the way from the start, and not behind a
\* barrier that waits for it: it is in each set with the start that is closed
\* under the taking of edges, where a barrier follows on all its predecessors.
ClosedUnderEdges(S) ==
  /\ graph.start \in S
  /\ \A n \in Nodes \ S :
       IF Kind(n) = "barrier" THEN Required(n) = {} \/ ~(Required(n) \subseteq S)
       ELSE Required(n) \cap S = {}
BarriersAttainable ==
  \A m \in Nodes : Kind(m) = "barrier" =>
    \A S \in SUBSET Nodes : ClosedUnderEdges(S) => Required(m) \subseteq S

\* If a run takes every edge and each barrier's predecessors can be reached without
\* it, a barrier stays incomplete only because a visit failed: no arrival is lost.
\* (A resumed process starts with no arrivals.)
JoinsComplete ==
  /\ "incomplete" \in reasons
  /\ answered = {}
  /\ TakesEveryEdge
  /\ BarriersAttainable
  => "visit" \in reasons

\* A run that has said run_success ends as a success, if no branch raised.
SuccessStands ==
  ~graph.faults /\ pc = "done" /\ "success" \in flags => status = "success"

\* A run ends as cancelled only if someone asked for it, if no branch raised.
CancelledOnRequest == ~graph.faults /\ status = "cancelled" => cancel = "yes"

\* A run that failed has said why: an error, a failed visit, or a run_end.  Not
\* claimed: a barrier in a loop swallows the arrivals of the second round.
FailureExplained == status = "failed" => reasons # {}

\* A resumed run whose visits all end well does not fail.
ResumedRunSucceeds == answered # {} /\ status = "failed" => "visit" \in reasons

\* Every process comes to its end, cyclic graphs and branch threads included.
RunEnds == status = "running" ~> status # "running"

=============================================================================
