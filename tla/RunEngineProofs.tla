-------------------------- MODULE RunEngineProofs --------------------------
(***************************************************************************)
(* Proofs about RunEngine, for every set of documents and every way their  *)
(* conditions, visits, branch threads, cancellations and resumes turn out. *)
(***************************************************************************)
EXTENDS RunEngine, FiniteSetTheorems, TLAPS

-----------------------------------------------------------------------------
\* Facts about the step queue as a sequence.

Occurs(x, s) == \E i \in 1..Len(s) : s[i] = x
AtMostOnce(x, s) == \A i, j \in 1..Len(s) : s[i] = x /\ s[j] = x => i = j

\* StepQueue.enqueue
LEMMA AppendFacts ==
  ASSUME NEW S, NEW s \in Seq(S), NEW x \in S
  PROVE  /\ Append(s, x) \in Seq(S)
         /\ \A y : Occurs(y, Append(s, x)) <=> Occurs(y, s) \/ y = x
         /\ \A y : AtMostOnce(y, s) /\ y # x => AtMostOnce(y, Append(s, x))
         /\ ~Occurs(x, s) => AtMostOnce(x, Append(s, x))
BY DEF Occurs, AtMostOnce

\* pick_next_frame: the frame at place i leaves the queue.
LEMMA RemoveAtFacts ==
  ASSUME NEW S, NEW s \in Seq(S), NEW i \in 1..Len(s)
  PROVE  /\ RemoveAt(s, i) \in Seq(S)
         /\ \A y : Occurs(y, RemoveAt(s, i)) => Occurs(y, s)
         /\ \A y : AtMostOnce(y, s) => AtMostOnce(y, RemoveAt(s, i))
         /\ AtMostOnce(s[i], s) => ~Occurs(s[i], RemoveAt(s, i))
<1> DEFINE before == SubSeq(s, 1, i - 1)
           after == SubSeq(s, i + 1, Len(s))
           t == before \o after
           Pos(k) == IF k < i THEN k ELSE k + 1
<1>1. before \in Seq(S) /\ after \in Seq(S)
  OBVIOUS
<1>2. Len(before) = i - 1 /\ \A k \in 1..(i - 1) : before[k] = s[k]
  OBVIOUS
<1>3. Len(after) = Len(s) - i /\ \A k \in 1..(Len(s) - i) : after[k] = s[k + i]
  OBVIOUS
<1>4. RemoveAt(s, i) = t
  BY DEF RemoveAt
<1> HIDE DEF before, after
<1>5. t \in Seq(S) /\ Len(t) = Len(before) + Len(after)
  BY <1>1
<1>6. \A k \in 1..Len(t) : t[k] = IF k <= Len(before) THEN before[k] ELSE after[k - Len(before)]
  BY <1>1
<1> HIDE DEF t
<1>7. ASSUME NEW k \in 1..Len(t)
      PROVE  Pos(k) \in 1..Len(s) /\ Pos(k) # i /\ t[k] = s[Pos(k)]
  <2>1. Len(t) = Len(s) - 1
    BY <1>2, <1>3, <1>5
  <2>2. CASE k < i
    <3>1. k \in 1..(i - 1) /\ k <= Len(before)
      BY <2>2, <1>2, <2>1
    <3>2. t[k] = before[k] /\ before[k] = s[k]
      BY <3>1, <1>2, <1>6
    <3> QED BY <2>1, <2>2, <3>2
  <2>3. CASE ~(k < i)
    <3> DEFINE m == k - Len(before)
    <3>1. m \in 1..(Len(s) - i) /\ m + i = k + 1 /\ ~(k <= Len(before))
      BY <2>3, <1>2, <2>1
    <3>2. t[k] = after[m] /\ after[m] = s[m + i]
      BY <3>1, <1>3, <1>6
    <3> QED BY <2>1, <2>3, <3>1, <3>2
  <2> QED BY <2>2, <2>3
<1>8. \A k, m \in 1..Len(t) : Pos(k) = Pos(m) => k = m
  BY <1>5
<1> HIDE DEF Pos
<1>9. (\A y : Occurs(y, t) => Occurs(y, s)) /\ (AtMostOnce(s[i], s) => ~Occurs(s[i], t))
  BY <1>7 DEF Occurs, AtMostOnce
<1>10. \A y : AtMostOnce(y, s) => AtMostOnce(y, t)
  BY <1>7, <1>8 DEF AtMostOnce
<1> QED BY <1>4, <1>5, <1>9, <1>10

-----------------------------------------------------------------------------
\* What the loop and the branch threads know of the node they are at.
LoopInv ==
  /\ pc \in {"visit", "fanout"} => node \in Nodes
  /\ pc = "fanout" => node \in done /\ pending \subseteq DOMAIN graph.out[node]
  /\ \A n \in Nodes : worker[n] # "idle" => Kind(n) = "task"
  /\ \A n \in Nodes : worker[n] = "arriving" => n \in done
  /\ checkpoint # None => Kind(checkpoint) = "human"

(***************************************************************************)
(* Where a barrier is between its first arrival and its visit, with board  *)
(* b, visits v and the nodes d that have been visited well: it is in the   *)
(* queue at most once, and only before its visit; it gets there, and to    *)
(* its visit, when it is scheduled; and only nodes of d have arrived.      *)
(***************************************************************************)
Staged(m, b, v, d) ==
  /\ AtMostOnce(m, b.queue)
  /\ Occurs(m, b.queue) => m \in b.scheduled /\ v[m] = 0
  /\ v[m] > 0 => v[m] = 1 /\ m \in b.scheduled
  /\ b.arrived[m] \subseteq d
  /\ m \in b.scheduled => Required(m) \subseteq b.arrived[m]

AllStaged(b, v, d) == \A m \in Nodes : Kind(m) = "barrier" => Staged(m, b, v, d)

MergeInv == AllStaged(board, visits, done)

IInv == TypeOK /\ LoopInv /\ MergeInv

-----------------------------------------------------------------------------
\* What an arrival, an enqueued frame and a popped frame do to the barriers.

\* A barrier is put into the queue when it becomes scheduled, and never again.
LEMMA ArriveStages ==
  ASSUME NEW b \in Board, NEW v \in [Nodes -> 0..2], NEW d \in SUBSET Nodes,
         NEW from \in d, NEW to \in Nodes, AllStaged(b, v, d)
  PROVE  Arrive(b, to, from) \in Board /\ AllStaged(Arrive(b, to, from), v, d)
<1> DEFINE arrived == b.arrived[to] \cup {from}
           c == Arrive(b, to, from)
<1>1. b.queue \in Seq(Nodes) /\ b.arrived \in [Nodes -> SUBSET Nodes] /\ b.scheduled \subseteq Nodes
  BY DEF Board
<1>2. CASE Complete(to, arrived) /\ to \notin b.scheduled
  <2>1. c = [b EXCEPT !.arrived[to] = arrived, !.scheduled = @ \cup {to}, !.queue = Append(@, to)]
    BY <1>2 DEF Arrive
  <2>2. /\ c.queue = Append(b.queue, to)
        /\ c.arrived = [b.arrived EXCEPT ![to] = arrived]
        /\ c.scheduled = b.scheduled \cup {to}
    BY <2>1 DEF Board
  <2>3. c \in Board
    <3>1. Append(b.queue, to) \in Seq(Nodes) /\ arrived \subseteq Nodes
      BY <1>1
    <3> HIDE DEF arrived
    <3>2. c = [queue |-> Append(b.queue, to), arrived |-> [b.arrived EXCEPT ![to] = arrived],
               scheduled |-> b.scheduled \cup {to}]
      BY <2>1 DEF Board
    <3> QED BY <3>1, <3>2, <1>1 DEF Board
  <2>4. ASSUME NEW m \in Nodes, Kind(m) = "barrier" PROVE Staged(m, c, v, d)
    <3>1. Staged(m, b, v, d)
      BY <2>4 DEF AllStaged
    <3>2. CASE m = to
      <4>1. ~Occurs(m, b.queue) /\ v[m] = 0
        BY <3>1, <3>2, <1>2 DEF Staged
      <4>2. AtMostOnce(m, c.queue)
        BY <4>1, <3>2, <2>2, <1>1, AppendFacts
      <4>3. c.arrived[m] = arrived /\ arrived \subseteq d /\ Required(m) \subseteq arrived
        BY <3>1, <3>2, <2>2, <1>1, <1>2 DEF Staged, Complete
      <4> QED BY <4>1, <4>2, <4>3, <3>2, <2>2 DEF Staged
    <3>3. CASE m # to
      <4>1. c.arrived[m] = b.arrived[m] /\ (m \in c.scheduled <=> m \in b.scheduled)
        BY <3>3, <2>2, <1>1
      <4>2. (Occurs(m, c.queue) <=> Occurs(m, b.queue)) /\ AtMostOnce(m, c.queue)
        BY <3>1, <3>3, <2>2, <1>1, AppendFacts DEF Staged
      <4> QED BY <4>1, <4>2, <3>1 DEF Staged
    <3> QED BY <3>2, <3>3
  <2> QED BY <2>3, <2>4 DEF AllStaged
<1>3. CASE ~(Complete(to, arrived) /\ to \notin b.scheduled)
  <2>1. c = [b EXCEPT !.arrived[to] = arrived]
    BY <1>3 DEF Arrive
  <2>2. /\ c.queue = b.queue
        /\ c.arrived = [b.arrived EXCEPT ![to] = arrived]
        /\ c.scheduled = b.scheduled
    BY <2>1 DEF Board
  <2>3. c \in Board
    BY <2>1, <2>2, <1>1 DEF Board
  <2>4. ASSUME NEW m \in Nodes, Kind(m) = "barrier" PROVE Staged(m, c, v, d)
    <3>1. Staged(m, b, v, d)
      BY <2>4 DEF AllStaged
    <3>2. b.arrived[m] \subseteq c.arrived[m] /\ c.arrived[m] \subseteq d
      BY <3>1, <2>2, <1>1 DEF Staged
    <3> QED BY <3>1, <3>2, <2>2 DEF Staged
  <2> QED BY <2>3, <2>4 DEF AllStaged
<1> QED BY <1>2, <1>3

\* Enqueueing a node that is no barrier leaves the barriers alone.
LEMMA EnqueueStages ==
  ASSUME NEW b \in Board, NEW v, NEW d, NEW n \in Nodes, Kind(n) # "barrier",
         AllStaged(b, v, d)
  PROVE  LET c == [b EXCEPT !.queue = Append(@, n)] IN c \in Board /\ AllStaged(c, v, d)
<1> DEFINE c == [b EXCEPT !.queue = Append(@, n)]
<1>1. b.queue \in Seq(Nodes)
  BY DEF Board
<1>2. c.queue = Append(b.queue, n) /\ c.arrived = b.arrived /\ c.scheduled = b.scheduled
  BY DEF Board
<1>3. c \in Board
  BY <1>1, <1>2, AppendFacts DEF Board
<1>4. ASSUME NEW m \in Nodes, Kind(m) = "barrier" PROVE Staged(m, c, v, d)
  <2>1. Staged(m, b, v, d) /\ m # n
    BY <1>4 DEF AllStaged
  <2>2. (Occurs(m, c.queue) <=> Occurs(m, b.queue)) /\ AtMostOnce(m, c.queue)
    BY <2>1, <1>1, <1>2, AppendFacts DEF Staged
  <2> QED BY <2>1, <2>2, <1>2 DEF Staged
<1> QED BY <1>3, <1>4 DEF AllStaged

\* A success edge that is taken, into a barrier or not.
LEMMA SendStages ==
  ASSUME NEW b \in Board, NEW v \in [Nodes -> 0..2], NEW d \in SUBSET Nodes,
         NEW from \in d, NEW to \in Nodes, AllStaged(b, v, d)
  PROVE  Send(b, from, to) \in Board /\ AllStaged(Send(b, from, to), v, d)
BY ArriveStages, EnqueueStages DEF Send

\* A barrier that is popped has not been visited, and is gone from the queue.
LEMMA PopStages ==
  ASSUME NEW b \in Board, NEW v \in [Nodes -> 0..2], NEW d, NEW i \in 1..Len(b.queue),
         AllStaged(b, v, d)
  PROVE  LET n == b.queue[i]
             c == [b EXCEPT !.queue = RemoveAt(@, i)]
             w == [v EXCEPT ![n] = IF @ = 0 THEN 1 ELSE 2]
         IN  c \in Board /\ w \in [Nodes -> 0..2] /\ AllStaged(c, w, d)
<1> DEFINE n == b.queue[i]
           c == [b EXCEPT !.queue = RemoveAt(@, i)]
           w == [v EXCEPT ![n] = IF @ = 0 THEN 1 ELSE 2]
<1>1. b.queue \in Seq(Nodes) /\ n \in Nodes
  BY DEF Board
<1>2. c.queue = RemoveAt(b.queue, i) /\ c.arrived = b.arrived /\ c.scheduled = b.scheduled
  BY DEF Board
<1>3. c \in Board
  BY <1>1, <1>2, RemoveAtFacts DEF Board
<1>4. w \in [Nodes -> 0..2] /\ (\A m \in Nodes : m # n => w[m] = v[m]) /\ (v[n] = 0 => w[n] = 1)
  BY <1>1
<1> HIDE DEF c, w
<1>5. ASSUME NEW m \in Nodes, Kind(m) = "barrier" PROVE Staged(m, c, w, d)
  <2>1. Staged(m, b, v, d)
    BY <1>5 DEF AllStaged
  <2>2. (Occurs(m, c.queue) => Occurs(m, b.queue)) /\ AtMostOnce(m, c.queue)
    BY <2>1, <1>1, <1>2, RemoveAtFacts DEF Staged
  <2>3. CASE m = n
    <3>1. Occurs(m, b.queue)
      BY <2>3 DEF Occurs
    <3>2. ~Occurs(m, c.queue)
      <4>1. AtMostOnce(b.queue[i], b.queue)
        BY <2>1, <2>3 DEF Staged
      <4>2. ~Occurs(b.queue[i], RemoveAt(b.queue, i))
        BY <4>1, <1>1, RemoveAtFacts
      <4> QED BY <4>2, <2>3, <1>2
    <3> QED BY <3>1, <3>2, <2>1, <2>2, <2>3, <1>2, <1>4 DEF Staged
  <2>4. CASE m # n
    BY <2>1, <2>2, <2>4, <1>2, <1>4 DEF Staged
  <2> QED BY <2>3, <2>4
<1>6. AllStaged(c, w, d)
  BY <1>5 DEF AllStaged
<1> QED BY <1>3, <1>4, <1>6 DEF c, w

\* Visits that end well, and visits of other nodes, do not harm.
LEMMA GrowStages ==
  ASSUME NEW b, NEW v, NEW w, NEW d, NEW e, AllStaged(b, v, d), d \subseteq e,
         \A m \in Nodes : Kind(m) = "barrier" => w[m] = v[m]
  PROVE  AllStaged(b, w, e)
BY DEF AllStaged, Staged

\* A process starts with one frame, and not at a barrier.
LEMMA EmptyStages ==
  ASSUME NEW n \in Nodes, Kind(n) # "barrier", NEW d
  PROVE  /\ EmptyBoard(n) \in Board
         /\ AllStaged(EmptyBoard(n), [m \in Nodes |-> 0], d)
<1>1. <<n>> \in Seq(Nodes) /\ Len(<<n>>) = 1 /\ <<n>>[1] = n
  OBVIOUS
<1>2. \A m : Occurs(m, <<n>>) => m = n
  BY <1>1 DEF Occurs
<1>3. \A m : AtMostOnce(m, <<n>>)
  BY <1>1 DEF AtMostOnce
<1> DEFINE b == EmptyBoard(n)
<1>4. b.queue = <<n>> /\ b.scheduled = {} /\ b.arrived = [m \in Nodes |-> {}]
  BY DEF EmptyBoard
<1>5. b \in Board
  BY <1>1 DEF EmptyBoard, Board
<1> HIDE DEF b
<1>6. ASSUME NEW m \in Nodes, Kind(m) = "barrier" PROVE Staged(m, b, [k \in Nodes |-> 0], d)
  BY <1>2, <1>3, <1>4, <1>6 DEF Staged
<1> QED BY <1>5, <1>6 DEF AllStaged, b

-----------------------------------------------------------------------------
\* The types, and what the loop knows of its node.

\* The budget of visits is a number.
LEMMA MaxStepsType == MaxSteps \in Nat
<1> DEFINE here == {n \in Nodes : Kind(n) # "absent"}
<1>1. IsFiniteSet(here)
  BY NodesAssumption, FS_Subset
<1>2. Cardinality(here) \in Nat
  BY <1>1, FS_CardinalityType
<1> HIDE DEF here
<1>3. 4 * Cardinality(here) \in Nat
  BY <1>2
<1> QED BY <1>3 DEF MaxSteps, here

\* The edges of a node lead to nodes.
LEMMA EdgeTypes ==
  ASSUME TypeOK, NEW n \in Nodes
  PROVE  /\ DOMAIN graph.out[n] \subseteq Nat
         /\ \A i \in DOMAIN graph.out[n] : graph.out[n][i].to \in Nodes
         /\ \A i \in DOMAIN graph.err[n] : graph.err[n][i].to \in Nodes
<1>1. graph.out[n] \in Seq(Edges) /\ graph.err[n] \in Seq(Edges)
  BY GraphsAssumption DEF TypeOK, graph
<1>2. ASSUME NEW s \in Seq(Edges)
      PROVE  DOMAIN s \subseteq Nat /\ \A i \in DOMAIN s : s[i] \in Edges
  OBVIOUS
<1>3. \A e \in Edges : e.to \in Nodes
  BY DEF Edges
<1> QED BY <1>1, <1>2, <1>3

Flags == {"success", "cancelled", "partial", "paused", "killed"}
Reasons == {"visit", "error_path", "no_edge", "cancel", "raise", "cycle_guard", "incomplete"}

(***************************************************************************)
(* The steps as the barriers see them: a step leaves the board as it is,   *)
(* enqueues a node that is no barrier, or takes a success edge of a node   *)
(* whose visit has ended well.                                             *)
(***************************************************************************)
Moved(b, d) ==
  \/ board' = b
  \/ \E n \in Nodes : Kind(n) # "barrier" /\ board' = [b EXCEPT !.queue = Append(@, n)]
  \/ \E from \in d, to \in Nodes : board' = Send(b, from, to) \/ board' = Arrive(b, to, from)

LEMMA MovedStages ==
  ASSUME TypeOK, MergeInv, doc' = doc, done' \in SUBSET Nodes, done \subseteq done',
         Moved(board, done'),
         \A m \in Nodes : Kind(m) = "barrier" => visits'[m] = visits[m]
  PROVE  board' \in Board /\ MergeInv'
<1>1. board \in Board /\ visits \in [Nodes -> 0..2] /\ AllStaged(board, visits, done')
  BY GrowStages DEF TypeOK, MergeInv
<1>2. board' \in Board /\ AllStaged(board', visits, done')
  <2>1. CASE board' = board
    BY <2>1, <1>1
  <2>2. CASE \E n \in Nodes : Kind(n) # "barrier" /\ board' = [board EXCEPT !.queue = Append(@, n)]
    BY <2>2, <1>1, EnqueueStages
  <2>3. ASSUME NEW from \in done', NEW to \in Nodes, board' = Send(board, from, to)
        PROVE  board' \in Board /\ AllStaged(board', visits, done')
    BY <2>3, <1>1, SendStages
  <2>4. ASSUME NEW from \in done', NEW to \in Nodes, board' = Arrive(board, to, from)
        PROVE  board' \in Board /\ AllStaged(board', visits, done')
    BY <2>4, <1>1, ArriveStages
  <2> QED BY <2>1, <2>2, <2>3, <2>4 DEF Moved
<1>3. AllStaged(board', visits', done')
  BY <1>2, GrowStages
<1>4. MergeInv' <=> AllStaged(board', visits', done')
  BY DEF MergeInv, AllStaged, Staged, Required, Kind, graph
<1> QED BY <1>2, <1>3, <1>4

\* What follows a visit in the loop.
LEMMA LeaveType ==
  ASSUME TypeOK, NEW fl \in SUBSET Flags, Leave(fl), node \in Nodes
  PROVE  /\ done' = done \cup {node}
         /\ flags' \in SUBSET Flags /\ reasons' \in SUBSET Reasons
         /\ pc' \in {"top", "end"}
         /\ Moved(board, done')
BY EdgeTypes DEF Leave, TypeOK, Flags, Reasons, Moved, Chosen

LEMMA RouteErrorType ==
  ASSUME TypeOK, RouteError, node \in Nodes
  PROVE  /\ done' = done /\ flags' = flags /\ reasons' \in SUBSET Reasons
         /\ pc' \in {"top", "end"}
         /\ Moved(board, done')
BY EdgeTypes DEF RouteError, ErrorRoute, NoErrorRoute, TypeOK, Reasons, Moved, Chosen

-----------------------------------------------------------------------------
\* Every step preserves IInv.

\* Nothing but Init chooses the document.
LEMMA SameDocument ==
  ASSUME doc' = doc
  PROVE  /\ MaxSteps' = MaxSteps /\ graph' = graph
         /\ \A n : Kind(n)' = Kind(n)
BY DEF MaxSteps, Kind, graph

\* The initial states.
LEMMA InitIInv == Init => IInv
<1> SUFFICES ASSUME Init PROVE IInv
  OBVIOUS
<1>1. graph.start \in Nodes /\ Kind(graph.start) # "barrier" /\ None \notin Nodes
  BY GraphsAssumption, NodesAssumption DEF Init, Kind, graph
<1>2. board \in Board /\ MergeInv
  BY <1>1, EmptyStages DEF Init, MergeInv
<1>3. TypeOK
  BY <1>2, MaxStepsType DEF Init, TypeOK
<1>4. LoopInv
  BY DEF Init, LoopInv
<1> QED BY <1>2, <1>3, <1>4 DEF IInv

\* How a visit in the loop leaves the barriers, the flags and the reasons.
LeftWell ==
  /\ pc' \in {"top", "end", "abort"}
  /\ flags' \in SUBSET Flags /\ reasons' \in SUBSET Reasons
  /\ done' \in SUBSET Nodes /\ done \subseteq done'
  /\ Moved(board, done')

LEMMA LeaveLeftWell ==
  ASSUME TypeOK, node \in Nodes, NEW fl \in SUBSET Flags, Leave(fl)
  PROVE  LeftWell
<1>1. done \in SUBSET Nodes
  BY DEF TypeOK
<1> QED BY <1>1, LeaveType DEF LeftWell

LEMMA RouteErrorLeftWell ==
  ASSUME TypeOK, node \in Nodes, RouteError
  PROVE  LeftWell
<1>1. done \in SUBSET Nodes /\ flags \in SUBSET Flags
  BY DEF TypeOK, Flags
<1> QED BY <1>1, RouteErrorType DEF LeftWell

LEMMA BreakLeftWell ==
  ASSUME TypeOK, NEW fl \in SUBSET Flags, BreakWith(fl) \/ (Raise /\ fl = flags)
  PROVE  LeftWell
BY DEF TypeOK, Flags, Reasons, BreakWith, Raise, LeftWell, Moved

\* A visit that changes the checkpoint only to the human_input node it is at.
LEMMA VisitIInv ==
  ASSUME IInv, LeftWell, doc' = doc, node' = node, worker' = worker, visits' = visits,
         UNCHANGED <<guard, pending, cancel, answered, status>>,
         checkpoint' = checkpoint \/ (checkpoint' = node /\ node \in Nodes /\ Kind(node) = "human")
  PROVE  IInv'
<1>1. board' \in Board /\ MergeInv'
  BY MovedStages DEF IInv, LeftWell
<1>2. TypeOK'
  BY <1>1, SameDocument DEF IInv, LeftWell, TypeOK, Flags, Reasons, Board
<1>3. LoopInv'
  BY SameDocument DEF IInv, LeftWell, LoopInv
<1> QED BY <1>1, <1>2, <1>3 DEF IInv

LEMMA VisitsIInv ==
  ASSUME IInv, VisitPlain \/ VisitExit \/ VisitTask \/ VisitRef \/ VisitHuman
  PROVE  IInv'
<1>1. TypeOK /\ node \in Nodes /\ flags \in SUBSET Flags
  BY DEF IInv, TypeOK, LoopInv, Flags, VisitPlain, VisitExit, VisitTask, VisitRef, VisitHuman
<1>2. CASE VisitPlain
  <2>1. LeftWell
    BY <1>1, <1>2, LeaveLeftWell DEF VisitPlain
  <2> QED BY <1>2, <2>1, VisitIInv DEF VisitPlain, disk
<1>3. CASE VisitExit
  <2>1. LeftWell
    BY <1>1, <1>3 DEF VisitExit, LeftWell, Moved, TypeOK, Flags, Reasons
  <2> QED BY <1>3, <2>1, VisitIInv DEF VisitExit, disk
<1>4. CASE VisitTask
  <2>1. flags \cup {"cancelled", "killed"} \in SUBSET Flags
    BY <1>1 DEF Flags
  <2>2. LeftWell
    BY <1>1, <1>4, <2>1, LeaveLeftWell, RouteErrorLeftWell, BreakLeftWell DEF VisitTask
  <2> QED BY <1>4, <2>2, VisitIInv DEF VisitTask, disk
<1>5. CASE VisitRef
  <2>1. \A fl \in NestedFlags \cup {flags \cup {"cancelled"}} : fl \in SUBSET Flags
    BY <1>1 DEF Flags, NestedFlags
  <2>2. LeftWell
    BY <1>1, <1>5, <2>1, LeaveLeftWell, RouteErrorLeftWell, BreakLeftWell DEF VisitRef
  <2> QED BY <1>5, <2>2, VisitIInv DEF VisitRef, disk
<1>6. CASE VisitHuman
  <2>1. CASE node \in answered /\ Leave(flags) /\ checkpoint' = checkpoint
    <3>1. LeftWell
      BY <1>1, <2>1, LeaveLeftWell
    <3> QED BY <1>6, <2>1, <3>1, VisitIInv DEF VisitHuman
  <2>2. CASE ~(node \in answered /\ Leave(flags) /\ checkpoint' = checkpoint)
    <3>1. /\ pc' = "abort" /\ flags' = flags \cup {"paused"}
          /\ UNCHANGED <<board, done, reasons>>
          /\ checkpoint' = checkpoint \/ checkpoint' = node
      BY <1>6, <2>2 DEF VisitHuman
    <3>2. LeftWell
      BY <1>1, <3>1 DEF LeftWell, Moved, TypeOK, Flags, Reasons
    <3> QED BY <1>1, <1>6, <3>1, <3>2, VisitIInv DEF VisitHuman
  <2> QED BY <2>1, <2>2
<1> QED BY <1>2, <1>3, <1>4, <1>5, <1>6

\* Steps that touch neither the board nor the visits.
LEMMA QuietIInv ==
  ASSUME IInv, LeaveLoop \/ StopOnCancel \/ JoinBranches \/ Finish \/ RequestCancel \/ VisitFork
               \/ UNCHANGED vars
  PROVE  IInv'
<1> USE DEF IInv, disk, progress
<1>1. /\ doc' = doc /\ board' = board /\ visits' = visits /\ done \subseteq done'
      /\ node' = node /\ checkpoint' = checkpoint /\ answered' = answered
      /\ pc \in {"visit", "fanout"} => node \in Nodes
      /\ done' \in SUBSET Nodes
  BY DEF LeaveLoop, StopOnCancel, JoinBranches, Finish, RequestCancel, VisitFork, vars, TypeOK,
         LoopInv
<1>2. board' \in Board /\ MergeInv'
  BY <1>1, MovedStages DEF Moved
<1>3. CASE VisitFork
  <2>1. node \in Nodes /\ node \in done' /\ Unconditional(node) \subseteq DOMAIN graph.out[node]
        /\ DOMAIN graph.out[node] \subseteq Nat
    BY <1>1, <1>3, EdgeTypes DEF VisitFork, Unconditional
  <2>2. RunsInThreads(node) => \A n \in Branches(node) : Kind(n) = "task"
    BY DEF RunsInThreads
  <2>3. TypeOK'
    BY <1>1, <1>2, <1>3, <2>1, SameDocument DEF VisitFork, TypeOK
  <2>4. LoopInv'
    BY <1>1, <1>3, <2>1, <2>2, SameDocument DEF VisitFork, LoopInv
  <2> QED BY <1>2, <2>3, <2>4
<1>4. CASE LeaveLoop \/ JoinBranches \/ RequestCancel \/ UNCHANGED vars
  <2>1. TypeOK'
    BY <1>1, <1>2, <1>4, SameDocument
       DEF LeaveLoop, JoinBranches, RequestCancel, vars, TypeOK
  <2>2. LoopInv'
    BY <1>1, <1>4, SameDocument DEF LeaveLoop, JoinBranches, RequestCancel, vars, LoopInv
  <2> QED BY <1>2, <2>1, <2>2
<1>5. CASE StopOnCancel
  <2>1. guard' \in 0..MaxSteps
    BY <1>5, MaxStepsType DEF StopOnCancel, LoopDone, Counted, TypeOK
  <2>2. TypeOK'
    BY <1>1, <1>2, <1>5, <2>1, SameDocument DEF StopOnCancel, TypeOK
  <2>3. LoopInv'
    BY <1>1, <1>5, SameDocument DEF StopOnCancel, LoopInv
  <2> QED BY <1>2, <2>2, <2>3
<1>6. CASE Finish
  <2>1. status' \in {"success", "failed", "cancelled", "partial", "paused"}
    BY <1>6 DEF Finish
  <2>2. EndErrors \in SUBSET {"cycle_guard", "incomplete"}
    BY DEF EndErrors
  <2>3. reasons' \in SUBSET Reasons
    BY <1>6, <2>2 DEF Finish, TypeOK, Reasons
  <2>4. TypeOK'
    BY <1>1, <1>2, <1>6, <2>1, <2>3, SameDocument DEF Finish, TypeOK, Reasons
  <2>5. LoopInv'
    BY <1>1, <1>6, SameDocument DEF Finish, LoopInv
  <2> QED BY <1>2, <2>4, <2>5
<1> QED BY <1>3, <1>4, <1>5, <1>6

LEMMA PopIInv ==
  ASSUME IInv, Pop
  PROVE  IInv'
<1> USE DEF IInv, disk
<1>1. PICK i \in DOMAIN board.queue :
        /\ node' = board.queue[i]
        /\ Visited(board.queue[i])
        /\ board' = [board EXCEPT !.queue = RemoveAt(@, i)]
  BY DEF Pop
<1>2. board \in Board /\ visits \in [Nodes -> 0..2] /\ i \in 1..Len(board.queue)
      /\ board.queue[i] \in Nodes
  BY <1>1 DEF TypeOK, Board
<1>3. /\ doc' = doc /\ done' = done /\ worker' = worker /\ checkpoint' = checkpoint
      /\ node' \in Nodes /\ pc' = "visit"
  BY <1>1, <1>2 DEF Pop
<1>4. board' \in Board /\ visits' \in [Nodes -> 0..2] /\ AllStaged(board', visits', done)
  BY <1>1, <1>2, PopStages DEF Visited, MergeInv
<1>5. MergeInv'
  BY <1>3, <1>4 DEF MergeInv, AllStaged, Staged, Required, Kind, graph
<1>6. guard' \in 0..MaxSteps
  BY MaxStepsType DEF Pop, LoopDone, Counted, TypeOK
<1>7. TypeOK'
  BY <1>3, <1>4, <1>6, SameDocument DEF Pop, TypeOK
<1>8. LoopInv'
  BY <1>3, SameDocument DEF LoopInv
<1> QED BY <1>5, <1>7, <1>8

LEMMA FanOutIInv ==
  ASSUME IInv, FanOut
  PROVE  IInv'
<1> USE DEF IInv, disk, progress
<1>1. PICK i \in pending : board' = Send(board, node, graph.out[node][i].to)
                           /\ pending' = pending \ {i}
  BY DEF FanOut
<1>2. /\ doc' = doc /\ done' = done /\ worker' = worker /\ checkpoint' = checkpoint
      /\ visits' = visits /\ node' = node /\ pc' \in {"top", "fanout"}
      /\ node \in Nodes /\ node \in done /\ pending \subseteq DOMAIN graph.out[node]
      /\ done' \in SUBSET Nodes
  BY DEF FanOut, LoopInv, TypeOK
<1>3. graph.out[node][i].to \in Nodes
  BY <1>1, <1>2, EdgeTypes
<1>4. Moved(board, done')
  BY <1>1, <1>2, <1>3 DEF Moved
<1>5. board' \in Board /\ MergeInv'
  BY <1>2, <1>4, MovedStages
<1>6. TypeOK'
  BY <1>1, <1>2, <1>5, SameDocument DEF FanOut, TypeOK
<1>7. LoopInv'
  BY <1>1, <1>2, SameDocument DEF LoopInv
<1> QED BY <1>5, <1>6, <1>7

\* The branch threads: only executable nodes run in them, never a barrier.
LEMMA WorkerIInv ==
  ASSUME IInv, NEW n \in Nodes, Worker(n)
  PROVE  IInv'
<1> USE DEF IInv, disk, progress
<1>1. /\ Kind(n) = "task" /\ done \subseteq done' /\ done' \in SUBSET Nodes
      /\ UNCHANGED <<doc, guard, pc, node, pending, cancel, disk, status>>
  BY DEF Worker, WorkerBegin, WorkerOk, WorkerArrive, WorkerFail, LoopInv, TypeOK
<1>2. /\ flags' \in SUBSET Flags /\ reasons' \in SUBSET Reasons
      /\ Moved(board, done')
  <2>1. flags \in SUBSET Flags /\ reasons \in SUBSET Reasons
    BY DEF TypeOK, Flags, Reasons
  <2>2. CASE WorkerBegin(n) \/ WorkerOk(n)
    BY <2>1, <2>2 DEF WorkerBegin, WorkerOk, Moved
  <2>3. CASE WorkerArrive(n)
    <3>1. PICK i \in Unconditional(n) : board' = Arrive(board, graph.out[n][i].to, n)
      BY <2>3 DEF WorkerArrive
    <3>2. n \in done' /\ graph.out[n][i].to \in Nodes
      BY <2>3, <3>1, <1>1, EdgeTypes DEF WorkerArrive, LoopInv, Unconditional
    <3> QED BY <2>1, <2>3, <3>1, <3>2 DEF WorkerArrive, Moved
  <2>4. CASE WorkerFail(n)
    BY <2>1, <2>4, EdgeTypes
       DEF WorkerFail, ErrorRoute, NoErrorRoute, Moved, Chosen, Flags, Reasons
  <2> QED BY <2>2, <2>3, <2>4 DEF Worker
<1>3. /\ visits' \in [Nodes -> 0..2]
      /\ \A m \in Nodes : Kind(m) = "barrier" => visits'[m] = visits[m]
  BY <1>1 DEF Worker, WorkerBegin, WorkerOk, WorkerArrive, WorkerFail, Visited, TypeOK
<1>4. /\ worker' \in [Nodes -> {"idle", "ready", "visiting", "arriving"}]
      /\ \A m \in Nodes : worker'[m] # "idle" => Kind(m) = "task"
      /\ \A m \in Nodes : worker'[m] = "arriving" => m \in done'
  BY <1>1 DEF Worker, WorkerBegin, WorkerOk, WorkerArrive, WorkerFail, LoopInv, TypeOK
<1>5. board' \in Board /\ MergeInv'
  BY <1>1, <1>2, <1>3, MovedStages
<1>6. TypeOK'
  BY <1>1, <1>2, <1>3, <1>4, <1>5, SameDocument DEF TypeOK, Flags, Reasons
<1>7. LoopInv'
  BY <1>1, <1>4, SameDocument DEF LoopInv
<1> QED BY <1>5, <1>6, <1>7

\* The next process starts at a human_input node, with no arrivals.
LEMMA ResumeIInv ==
  ASSUME IInv, Resume
  PROVE  IInv'
<1> USE DEF IInv
<1>1. checkpoint \in Nodes /\ Kind(checkpoint) # "barrier" /\ doc' = doc /\ done' = done
  BY DEF Resume, LoopInv, TypeOK
<1>2. board' \in Board /\ AllStaged(board', visits', done)
  BY <1>1, EmptyStages DEF Resume
<1>3. MergeInv'
  BY <1>1, <1>2 DEF MergeInv, AllStaged, Staged, Required, Kind, graph
<1>4. TypeOK'
  BY <1>1, <1>2, MaxStepsType, SameDocument DEF Resume, TypeOK
<1>5. LoopInv'
  BY <1>1, SameDocument DEF Resume, LoopInv
<1> QED BY <1>3, <1>4, <1>5

LEMMA StepIInv ==
  ASSUME IInv, [Next]_vars
  PROVE  IInv'
BY VisitsIInv, QuietIInv, PopIInv, FanOutIInv, WorkerIInv, ResumeIInv DEF Next, Loop

\* The inductive invariant.
THEOREM EngineInvariant == Spec => []IInv
BY InitIInv, StepIInv, PTL DEF Spec

-----------------------------------------------------------------------------
\* The types, and the budget of visits: the loop, which an edge may lead into a
\* cycle, never exceeds max_steps, for any graph.
THEOREM EngineTypeOK == Spec => []TypeOK
<1>1. IInv => TypeOK
  BY DEF IInv
<1> QED BY <1>1, EngineInvariant, PTL

\* _merge_barrier_arrive: for any graph, with or without branch threads, a barrier
\* is visited only after all its success predecessors have been visited well.
THEOREM EngineMergeAfterAll == Spec => []MergeAfterAll
<1>1. IInv => MergeAfterAll
  BY DEF IInv, TypeOK, MergeInv, AllStaged, Staged, MergeAfterAll
<1> QED BY <1>1, EngineInvariant, PTL

\* ... and at most once in a process: arrivals that come late or at the same time
\* do not schedule it again.
THEOREM EngineMergeOnce == Spec => []MergeOnce
<1>1. IInv => MergeOnce
  BY DEF IInv, TypeOK, MergeInv, AllStaged, Staged, MergeOnce
<1> QED BY <1>1, EngineInvariant, PTL

-----------------------------------------------------------------------------
(***************************************************************************)
(* What the flags say of the end of a run in which no branch thread        *)
(* raises: a run that is still visiting has none, "cancelled" comes from   *)
(* the cancel_event alone, and run_success stands by itself.               *)
(***************************************************************************)
VerdictInv ==
  /\ \A n \in Nodes : worker[n] # "idle" => pc = "join"
  /\ status # "running" => pc = "done"
  /\ ~graph.faults =>
       /\ {"cancelled", "killed"} \cap flags # {} => cancel = "yes"
       /\ pc \in {"visit", "fanout"} => flags = {}
       /\ pc \in {"top", "join"} => flags \subseteq {"cancelled", "killed"}
       /\ "success" \in flags => flags = {"success"}
       /\ pc = "done" /\ "success" \in flags => status = "success"
       /\ status = "cancelled" => cancel = "yes"

\* A visit does not touch the threads, the request to cancel or the status.
LEMMA VisitVerdict ==
  ASSUME TypeOK, VerdictInv,
         VisitPlain \/ VisitExit \/ VisitTask \/ VisitRef \/ VisitHuman
  PROVE  VerdictInv'
<1>1. /\ pc = "visit" /\ UNCHANGED <<doc, worker, cancel, status>>
  BY DEF VisitPlain, VisitExit, VisitTask, VisitRef, VisitHuman, disk
<1>2. \A n \in Nodes : worker[n] = "idle"
  BY <1>1 DEF VerdictInv
<1>3. status = "running" /\ pc' \in {"top", "end", "abort"}
  BY <1>1 DEF VerdictInv, TypeOK, VisitPlain, VisitExit, VisitTask, VisitRef, VisitHuman,
              Leave, RouteError, BreakWith, Raise
<1>4. ASSUME ~graph.faults
      PROVE  /\ {"cancelled", "killed"} \cap flags' # {} => cancel = "yes"
             /\ pc' = "top" => flags' = {}
             /\ "success" \in flags' => flags' = {"success"}
  <2>1. flags = {}
    BY <1>1, <1>4 DEF VerdictInv
  <2>2. NestedFlags = {{}}
    BY <1>4, <2>1 DEF NestedFlags
  <2>3. ASSUME Leave({}) PROVE flags' \in {{}, {"partial"}} /\ (pc' = "top" => flags' = {})
    BY <2>3 DEF Leave
  <2>4. ASSUME RouteError PROVE flags' = {}
    BY <2>1, <2>4 DEF RouteError
  <2>5. ASSUME NEW fl, BreakWith(fl) PROVE flags' = fl /\ pc' = "end"
    BY <2>5 DEF BreakWith
  <2>6. ~Raise
    BY <1>4 DEF Raise
  <2>7. CASE VisitPlain
    BY <2>1, <2>3, <2>7 DEF VisitPlain
  <2>8. CASE VisitExit
    BY <2>1, <2>8 DEF VisitExit
  <2>9. CASE VisitTask
    BY <2>1, <2>3, <2>4, <2>5, <2>6, <2>9 DEF VisitTask
  <2>10. CASE VisitRef
    BY <2>1, <2>2, <2>3, <2>4, <2>5, <2>6, <2>10 DEF VisitRef
  <2>11. CASE VisitHuman
    BY <2>1, <2>3, <2>11 DEF VisitHuman
  <2> QED BY <2>7, <2>8, <2>9, <2>10, <2>11
<1>5. graph' = graph
  BY <1>1, SameDocument
<1> QED BY <1>1, <1>2, <1>3, <1>4, <1>5 DEF VerdictInv

LEMMA QuietVerdict ==
  ASSUME TypeOK, VerdictInv,
         \/ LeaveLoop \/ StopOnCancel \/ Pop \/ VisitFork \/ FanOut \/ JoinBranches
         \/ RequestCancel \/ Resume \/ UNCHANGED vars
  PROVE  VerdictInv'
<1> USE DEF VerdictInv, disk, progress
<1>1. doc' = doc /\ graph' = graph
  BY SameDocument DEF LeaveLoop, StopOnCancel, Pop, VisitFork, FanOut, JoinBranches,
                      RequestCancel, Resume, vars
<1>2. CASE LeaveLoop
  BY <1>1, <1>2 DEF LeaveLoop, TypeOK
<1>3. CASE StopOnCancel
  BY <1>1, <1>3 DEF StopOnCancel, CancelRequested, TypeOK
<1>4. CASE Pop
  BY <1>1, <1>4 DEF Pop, CancelRequested, TypeOK
<1>5. CASE VisitFork
  BY <1>1, <1>5 DEF VisitFork, TypeOK
<1>6. CASE FanOut
  BY <1>1, <1>6 DEF FanOut, TypeOK
<1>7. CASE JoinBranches
  BY <1>1, <1>7 DEF JoinBranches, TypeOK
<1>8. CASE RequestCancel
  BY <1>1, <1>8 DEF RequestCancel, TypeOK
<1>9. CASE Resume
  BY <1>1, <1>9 DEF Resume, TypeOK
<1>10. CASE UNCHANGED vars
  BY <1>1, <1>10 DEF vars
<1> QED BY <1>2, <1>3, <1>4, <1>5, <1>6, <1>7, <1>8, <1>9, <1>10

\* The final status is what _run_from_root_finally makes of the flags.
LEMMA FinishVerdict ==
  ASSUME TypeOK, VerdictInv, Finish
  PROVE  VerdictInv'
<1>1. graph' = graph
  BY SameDocument DEF Finish
<1>2. /\ pc \in {"end", "abort"} /\ pc' = "done"
      /\ worker' = worker /\ flags' = flags /\ cancel' = cancel
  BY DEF Finish
<1>3. flags = {"success"} => status' = "success"
  BY DEF Finish
<1>4. status' = "cancelled" => "cancelled" \in flags
  BY DEF Finish
<1> QED BY <1>1, <1>2, <1>3, <1>4 DEF VerdictInv

LEMMA WorkerVerdict ==
  ASSUME TypeOK, VerdictInv, NEW n \in Nodes, Worker(n)
  PROVE  VerdictInv'
<1>1. /\ pc = "join" /\ UNCHANGED <<doc, pc, cancel, status>> /\ status = "running"
      /\ \A m \in Nodes : worker'[m] # "idle" => pc = "join"
  BY DEF Worker, WorkerBegin, WorkerOk, WorkerArrive, WorkerFail, VerdictInv, disk, TypeOK
<1>2. graph' = graph
  BY <1>1, SameDocument
<1>3. ASSUME ~graph.faults
      PROVE  flags' = flags \/ (flags' = flags \cup {"cancelled", "killed"} /\ cancel = "yes")
  BY <1>3 DEF Worker, WorkerBegin, WorkerOk, WorkerArrive, WorkerFail, Killed, VerdictInv
<1> QED BY <1>1, <1>2, <1>3 DEF VerdictInv

LEMMA RunVerdicts == Spec => []VerdictInv
<1>1. Init => VerdictInv
  BY DEF Init, VerdictInv
<1>2. TypeOK /\ VerdictInv /\ [Next]_vars => VerdictInv'
  BY VisitVerdict, QuietVerdict, FinishVerdict, WorkerVerdict DEF Next, Loop
<1> QED BY <1>1, <1>2, EngineTypeOK, PTL DEF Spec

\* A run without a raising branch that has said run_success ends as a success: no
\* late cancellation, whenever it comes, takes it back.
THEOREM EngineSuccessStands == Spec => []SuccessStands
<1>1. VerdictInv => SuccessStands
  BY DEF VerdictInv, SuccessStands
<1> QED BY <1>1, RunVerdicts, PTL

\* A run without a raising branch ends as cancelled only if someone asked for it.
THEOREM EngineCancelledOnRequest == Spec => []CancelledOnRequest
<1>1. VerdictInv => CancelledOnRequest
  BY DEF VerdictInv, CancelledOnRequest
<1> QED BY <1>1, RunVerdicts, PTL

-----------------------------------------------------------------------------
(***************************************************************************)
(* Why no arrival is lost.  As long as nothing has failed and the run has  *)
(* not come to an end of its own, every node that a success edge of a      *)
(* visited node leads to is still underway: in the queue, at its visit, in *)
(* a branch thread or visited; or, if it is a barrier, it knows of the     *)
(* arrival.  A barrier that knows of all of them is scheduled.             *)
(***************************************************************************)
Underway ==
  {n \in Nodes : \/ Occurs(n, board.queue)
                 \/ n \in done
                 \/ pc = "visit" /\ node = n
                 \/ worker[n] # "idle"}

\* The edges of visited nodes that a fork or a branch thread has yet to take.
YetToTake ==
  {e \in Nodes \X Nat :
     /\ e[2] \in DOMAIN graph.out[e[1]]
     /\ \/ pc = "fanout" /\ node = e[1] /\ e[2] \in pending
        \/ worker[e[1]] = "arriving"}

Taken(b, n, t, underway) ==
  IF Kind(t) = "barrier" THEN n \in b.arrived[t] ELSE t \in underway

Flows(b, d, underway, rest) ==
  /\ graph.start \in underway
  /\ \A n \in d : \A i \in DOMAIN graph.out[n] :
       <<n, i>> \in rest \/ Taken(b, n, graph.out[n][i].to, underway)
  /\ \A m \in Nodes : Kind(m) = "barrier" =>
       /\ m \in b.scheduled => m \in underway
       /\ b.arrived[m] # {} /\ Required(m) \subseteq b.arrived[m] => m \in b.scheduled

NothingFailed ==
  /\ answered = {}
  /\ "visit" \notin reasons
  /\ flags \cap {"success", "cancelled", "partial", "paused"} = {}

FlowInv ==
  /\ \A n \in Nodes : worker[n] # "idle" =>
       \A i \in Unconditional(n) : Kind(graph.out[n][i].to) = "barrier"
  /\ "killed" \in flags => "cancelled" \in flags
  /\ "paused" \in flags => pc \in {"abort", "done"}
  /\ \A m \in Nodes : board.arrived[m] # {} => Kind(m) = "barrier"
  /\ NothingFailed /\ TakesEveryEdge /\ pc \notin {"abort", "done"} =>
       /\ Flows(board, done, Underway, YetToTake)
       /\ pc = "end" => board.queue = <<>> \/ guard >= MaxSteps

\* More nodes underway and fewer edges taken.
LEMMA GrowFlows ==
  ASSUME NEW b, NEW c, NEW d, NEW u, NEW v, NEW rest, NEW more,
         Flows(b, d, u, rest), u \subseteq v, rest \subseteq more,
         c.arrived = b.arrived, c.scheduled = b.scheduled
  PROVE  Flows(c, d, v, more)
BY DEF Flows, Taken

\* An arrival that is recorded.
LEMMA ArriveFlows ==
  ASSUME NEW b \in Board, NEW d, NEW from \in Nodes, NEW i,
         NEW u, NEW v \in SUBSET Nodes, NEW rest, NEW more,
         graph.out[from][i].to \in Nodes, Kind(graph.out[from][i].to) = "barrier",
         Flows(b, d, u, more), more \subseteq rest \cup {<<from, i>>}, u \subseteq v,
         \A n \in Nodes : Occurs(n, Arrive(b, graph.out[from][i].to, from).queue) => n \in v
  PROVE  Flows(Arrive(b, graph.out[from][i].to, from), d, v, rest)
<1> DEFINE to == graph.out[from][i].to
           arrived == b.arrived[to] \cup {from}
           c == Arrive(b, to, from)
<1>1. b.queue \in Seq(Nodes) /\ b.arrived \in [Nodes -> SUBSET Nodes] /\ b.scheduled \subseteq Nodes
      /\ to \in Nodes
  BY DEF Board
<1>2. /\ c.arrived = [b.arrived EXCEPT ![to] = arrived]
      /\ c.scheduled = IF Complete(to, arrived) THEN b.scheduled \cup {to} ELSE b.scheduled
      /\ Complete(to, arrived) /\ to \notin b.scheduled => c.queue = Append(b.queue, to)
  BY DEF Arrive, Board
<1> HIDE DEF c
<1>3. Complete(to, arrived) => to \in u \/ Occurs(to, c.queue)
  <2>1. to \in b.scheduled => to \in u
    BY <1>1 DEF Flows
  <2>2. Occurs(to, Append(b.queue, to))
    BY <1>1, AppendFacts
  <2> HIDE DEF arrived, to
  <2> QED BY <1>2, <2>1, <2>2
<1>4. c.arrived[to] = arrived /\ \A m \in Nodes : m # to => c.arrived[m] = b.arrived[m]
  BY <1>1, <1>2
<1>5. graph.start \in v
  BY DEF Flows
<1>6. ASSUME NEW n \in d, NEW j \in DOMAIN graph.out[n], <<n, j>> \notin rest
      PROVE  Taken(c, n, graph.out[n][j].to, v)
  <2>1. CASE n = from /\ j = i
    BY <2>1, <1>4 DEF Taken
  <2>2. CASE ~(n = from /\ j = i)
    <3>1. <<n, j>> # <<from, i>>
      BY <2>2
    <3>2. Taken(b, n, graph.out[n][j].to, u)
      BY <1>6, <3>1 DEF Flows
    <3> QED BY <3>2, <1>1, <1>2 DEF Taken
  <2> QED BY <2>1, <2>2
<1>7. ASSUME NEW m \in Nodes, Kind(m) = "barrier"
      PROVE  /\ m \in c.scheduled => m \in v
             /\ c.arrived[m] # {} /\ Required(m) \subseteq c.arrived[m] => m \in c.scheduled
  <2>1. CASE m = to
    <3>1. m \in b.scheduled => m \in v
      BY <1>7 DEF Flows
    <3>2. Complete(to, arrived) => m \in v
      BY <2>1, <1>1, <1>3 DEF c
    <3> QED BY <2>1, <3>1, <3>2, <1>2, <1>4 DEF Complete
  <2>2. CASE m # to
    BY <2>2, <1>2, <1>4, <1>7 DEF Flows
  <2> QED BY <2>1, <2>2
<1>8. Flows(c, d, v, rest)
  BY <1>5, <1>6, <1>7 DEF Flows
<1> QED BY <1>8 DEF c

\* A success edge that is taken.
LEMMA SendFlows ==
  ASSUME NEW b \in Board, NEW d, NEW from \in Nodes, NEW i,
         NEW u, NEW v \in SUBSET Nodes, NEW rest, NEW more,
         graph.out[from][i].to \in Nodes,
         Flows(b, d, u, more), more \subseteq rest \cup {<<from, i>>}, u \subseteq v,
         \A n \in Nodes : Occurs(n, Send(b, from, graph.out[from][i].to).queue) => n \in v
  PROVE  Flows(Send(b, from, graph.out[from][i].to), d, v, rest)
<1> DEFINE to == graph.out[from][i].to
           c == [b EXCEPT !.queue = Append(@, to)]
<1>1. CASE Kind(to) = "barrier"
  BY <1>1, ArriveFlows DEF Send
<1>2. CASE Kind(to) # "barrier"
  <2>1. b.queue \in Seq(Nodes) /\ Send(b, from, to) = c
    BY <1>2 DEF Board, Send
  <2>2. c.queue = Append(b.queue, to) /\ c.arrived = b.arrived /\ c.scheduled = b.scheduled
    BY DEF Board
  <2>3. to \in v
    BY <2>1, <2>2, AppendFacts
  <2>4. Flows(c, d, v, rest)
    <3>1. graph.start \in v
      BY DEF Flows
    <3>2. ASSUME NEW n \in d, NEW j \in DOMAIN graph.out[n], <<n, j>> \notin rest
          PROVE  Taken(c, n, graph.out[n][j].to, v)
      <4>1. CASE n = from /\ j = i
        BY <4>1, <1>2, <2>3 DEF Taken
      <4>2. CASE ~(n = from /\ j = i)
        <5>1. <<n, j>> # <<from, i>>
          BY <4>2
        <5>2. Taken(b, n, graph.out[n][j].to, u)
          BY <3>2, <5>1 DEF Flows
        <5> QED BY <5>2, <2>2 DEF Taken
      <4> QED BY <4>1, <4>2
    <3> QED BY <3>1, <3>2, <2>2 DEF Flows
  <2> QED BY <2>1, <2>4
<1> QED BY <1>1, <1>2

\* The frames that are not picked stay in the queue.
LEMMA RemoveAtKeeps ==
  ASSUME NEW S, NEW s \in Seq(S), NEW i \in 1..Len(s), NEW y, Occurs(y, s), y # s[i]
  PROVE  Occurs(y, RemoveAt(s, i))
<1> DEFINE before == SubSeq(s, 1, i - 1)
           after == SubSeq(s, i + 1, Len(s))
<1>1. PICK k \in 1..Len(s) : s[k] = y
  BY DEF Occurs
<1>2. /\ before \in Seq(S) /\ Len(before) = i - 1
      /\ \A j \in 1..(i - 1) : before[j] = s[j]
  OBVIOUS
<1>3. /\ after \in Seq(S) /\ Len(after) = Len(s) - i
      /\ \A j \in 1..(Len(s) - i) : after[j] = s[j + i]
  OBVIOUS
<1>4. RemoveAt(s, i) = before \o after
  BY DEF RemoveAt
<1> HIDE DEF before, after
<1>5. Len(before \o after) = Len(s) - 1
  <2>1. before \in Seq(S) /\ after \in Seq(S)
    BY <1>2, <1>3
  <2>2. Len(before \o after) = Len(before) + Len(after)
    BY <2>1
  <2> QED BY <2>2, <1>2, <1>3
<1>6. CASE k < i
  <2>1. (before \o after)[k] = before[k] /\ k \in 1..(Len(s) - 1)
    BY <1>2, <1>3, <1>6
  <2>2. before[k] = y
    BY <1>1, <1>2, <1>6
  <2> QED BY <2>1, <2>2, <1>4, <1>5 DEF Occurs
<1>7. CASE k > i
  <2>1. /\ (before \o after)[k - 1] = after[k - i] /\ k - 1 \in 1..(Len(s) - 1)
        /\ k - i \in 1..(Len(s) - i)
    BY <1>2, <1>3, <1>7
  <2>2. after[k - i] = y
    BY <1>1, <1>3, <1>7, <2>1
  <2> QED BY <2>1, <2>2, <1>4, <1>5 DEF Occurs
<1> QED BY <1>1, <1>6, <1>7

\* The queue only grows when an edge is taken.
LEMMA SendGrows ==
  ASSUME NEW b \in Board, NEW from, NEW to \in Nodes, NEW n, Occurs(n, b.queue)
  PROVE  Occurs(n, Send(b, from, to).queue) /\ Occurs(n, Arrive(b, to, from).queue)
<1>1. b.queue \in Seq(Nodes)
  BY DEF Board
<1>2. Occurs(n, Append(b.queue, to))
  BY <1>1, AppendFacts
<1>3. Arrive(b, to, from).queue \in {b.queue, Append(b.queue, to)}
  BY DEF Arrive, Board
<1>4. Send(b, from, to).queue \in {b.queue, Append(b.queue, to)}
  BY <1>3 DEF Send, Board
<1> QED BY <1>2, <1>3, <1>4

\* A step that has not failed starts from where nothing had failed.
LEMMA StillFlows ==
  ASSUME FlowInv, doc' = doc, answered' = answered, flags \subseteq flags',
         reasons \subseteq reasons', pc \notin {"abort", "done"},
         NothingFailed', TakesEveryEdge'
  PROVE  /\ Flows(board, done, Underway, YetToTake)
         /\ pc = "end" => board.queue = <<>> \/ guard >= MaxSteps
         /\ TakesEveryEdge
<1>1. NothingFailed
  BY DEF NothingFailed
<1>2. TakesEveryEdge
  BY DEF TakesEveryEdge, Unconditional, Kind, graph
<1> QED BY <1>1, <1>2 DEF FlowInv

LEMMA FlowsAfter ==
  ASSUME doc' = doc
  PROVE  /\ Flows(board, done, Underway, YetToTake)'
              <=> Flows(board', done', Underway', YetToTake')
         /\ TakesEveryEdge' <=> TakesEveryEdge
BY DEF Flows, Taken, Kind, Required, graph, TakesEveryEdge, Unconditional

\* Steps that leave the board alone, and no visit ends in them.
LEMMA UnmovedFlows ==
  ASSUME Flows(board, done, Underway, YetToTake), doc' = doc, done' = done,
         board'.arrived = board.arrived, board'.scheduled = board.scheduled,
         Underway \subseteq Underway', YetToTake \subseteq YetToTake'
  PROVE  Flows(board, done, Underway, YetToTake)'
BY GrowFlows, FlowsAfter

\* What FlowInv says of a run in which nothing has failed.
Going == NothingFailed /\ TakesEveryEdge /\ pc \notin {"abort", "done"}

FlowsWell ==
  /\ Flows(board, done, Underway, YetToTake)
  /\ pc = "end" => board.queue = <<>> \/ guard >= MaxSteps

\* The edges of a node that has some.
LEMMA EdgePlaces ==
  ASSUME NEW S, NEW s \in Seq(S), s # <<>>
  PROVE  /\ DOMAIN s # {}
         /\ Len(s) <= 1 => Len(s) = 1 /\ DOMAIN s = {1}
<1>1. Len(s) \in Nat \ {0} /\ DOMAIN s = 1..Len(s)
  OBVIOUS
<1>2. 1 \in DOMAIN s
  BY <1>1
<1>3. Len(s) <= 1 => Len(s) = 1
  BY <1>1
<1>4. \A i \in 1..1 : i = 1
  OBVIOUS
<1> QED BY <1>1, <1>2, <1>3, <1>4

\* A visit ends well and its one edge is taken.
LEMMA LeaveFlows ==
  ASSUME IInv, VerdictInv, FlowInv, pc = "visit", node \in Nodes,
         Kind(node) \notin {"exit", "absent", "fork"},
         doc' = doc, node' = node, worker' = worker, answered' = answered,
         NEW fl, Leave(fl), flags \subseteq fl, Going'
  PROVE  FlowsWell'
<1>1. flags \subseteq flags' /\ reasons \subseteq reasons'
  BY DEF Leave
<1>2. Flows(board, done, Underway, YetToTake) /\ TakesEveryEdge
  BY <1>1, StillFlows DEF Going
<1>3. ~Stops(fl)
  BY DEF Leave, Going, NothingFailed
<1>4. Len(graph.out[node]) = 1 /\ DOMAIN graph.out[node] = {1}
      /\ ~graph.out[node][1].cond
  <2>1. graph.out[node] \in Seq(Edges)
    BY GraphsAssumption DEF IInv, TypeOK, graph
  <2>2. graph.out[node] # <<>> /\ Len(graph.out[node]) <= 1
    BY <1>2 DEF TakesEveryEdge
  <2>3. Len(graph.out[node]) = 1 /\ DOMAIN graph.out[node] = {1}
    BY <2>1, <2>2, EdgePlaces
  <2> QED BY <2>3, <1>2 DEF TakesEveryEdge, Unconditional
<1> DEFINE to == graph.out[node][1].to
<1>5. /\ done' = done \cup {node} /\ pc' = "top"
      /\ board' = Send(board, node, to)
  BY <1>3, <1>4 DEF Leave, NoneChosen, Chosen
<1>6. to \in Nodes /\ board \in Board /\ done \subseteq Nodes
  BY <1>4, EdgeTypes DEF IInv, TypeOK
<1>7. YetToTake = {}
  BY DEF VerdictInv, YetToTake
<1>8. Underway \subseteq Underway'
  BY <1>5, <1>6, SendGrows DEF Underway
<1>9. \A n \in Nodes : Occurs(n, board'.queue) => n \in Underway'
  BY DEF Underway
<1>10. Flows(board, done', Underway, {<<node, 1>>})
  BY <1>2, <1>4, <1>5, <1>7 DEF Flows
<1>11. Flows(Send(board, node, to), done', Underway', YetToTake')
  <2>1. Underway' \in SUBSET Nodes
    BY DEF Underway
  <2> HIDE DEF to
  <2>2. {<<node, 1>>} \subseteq YetToTake' \cup {<<node, 1>>}
    OBVIOUS
  <2> QED BY <2>1, <2>2, <1>5, <1>6, <1>8, <1>9, <1>10, SendFlows DEF to
<1> QED BY <1>5, <1>11, FlowsAfter DEF FlowsWell

\* A fork, which takes its edges one after the other or leaves them to threads.
LEMMA ForkFlows ==
  ASSUME IInv, VerdictInv, FlowInv, VisitFork, Going'
  PROVE  FlowsWell'
<1>1. /\ doc' = doc /\ node' = node /\ board' = board /\ answered' = answered
      /\ done' = done \cup {node} /\ pc = "visit" /\ Kind(node) = "fork"
      /\ flags \subseteq flags' /\ reasons \subseteq reasons' /\ node \in Nodes
  BY DEF VisitFork, disk, IInv, LoopInv
<1>2. Flows(board, done, Underway, YetToTake) /\ TakesEveryEdge
  BY <1>1, StillFlows DEF Going
<1>3. YetToTake = {} /\ \A n \in Nodes : worker[n] = "idle"
  BY <1>1 DEF VerdictInv, YetToTake
<1>4. Underway \subseteq Underway'
  BY <1>1, <1>3 DEF Underway
<1>5. Unconditional(node) = DOMAIN graph.out[node] /\ graph.out[node] # <<>>
      /\ graph.out[node] \in Seq(Edges)
  BY <1>1, <1>2, GraphsAssumption DEF TakesEveryEdge, IInv, TypeOK, graph
<1>6. ~Stops(flags) /\ Unconditional(node) # {}
  <2>1. ~Stops(flags)
    BY DEF VisitFork, Going, NothingFailed
  <2>2. DOMAIN graph.out[node] # {}
    BY <1>5, EdgePlaces
  <2> QED BY <1>5, <2>1, <2>2
<1>7. graph' = graph
  BY <1>1, SameDocument
<1>8. /\ pc' \in {"fanout", "join"}
      /\ \A i \in DOMAIN graph.out[node] :
           <<node, i>> \in YetToTake' \/ Taken(board, node, graph.out[node][i].to, Underway')
  <2>1. CASE RunsInThreads(node)
    <3>1. /\ worker' = [n \in Nodes |-> IF n \in Branches(node) THEN "ready" ELSE "idle"]
          /\ pc' = "join"
      BY <1>6, <2>1 DEF VisitFork
    <3>2. ASSUME NEW i \in DOMAIN graph.out[node]
          PROVE  Taken(board, node, graph.out[node][i].to, Underway')
      <4>1. graph.out[node][i].to \in Branches(node) /\ graph.out[node][i].to \in Nodes
        BY <1>1, <1>5, EdgeTypes DEF Branches, IInv
      <4>2. Kind(graph.out[node][i].to) = "task"
        BY <4>1, <2>1 DEF RunsInThreads
      <4>3. graph.out[node][i].to \in Underway'
        BY <4>1, <3>1 DEF Underway
      <4> QED BY <4>2, <4>3 DEF Taken
    <3> QED BY <3>1, <3>2
  <2>2. CASE ~RunsInThreads(node)
    <3>1. pending' = Unconditional(node) /\ pc' = "fanout"
      BY <1>6, <2>2 DEF VisitFork
    <3>2. \A i \in DOMAIN graph.out[node] : i \in Nat
      BY <1>5
    <3> QED BY <1>1, <1>5, <1>7, <3>1, <3>2 DEF YetToTake
  <2> QED BY <2>1, <2>2
<1>9. Flows(board, done', Underway', YetToTake')
  <2>1. ASSUME NEW n \in done', NEW i \in DOMAIN graph.out[n]
        PROVE  <<n, i>> \in YetToTake' \/ Taken(board, n, graph.out[n][i].to, Underway')
    <3>1. CASE n = node
      BY <3>1, <1>8
    <3>2. CASE n # node
      BY <3>2, <1>1, <1>2, <1>3, <1>4 DEF Flows, Taken
    <3> QED BY <3>1, <3>2
  <2> QED BY <2>1, <1>2, <1>4 DEF Flows
<1> QED BY <1>1, <1>8, <1>9, FlowsAfter DEF FlowsWell

\* The next edge of a fork.
LEMMA FanOutFlows ==
  ASSUME IInv, VerdictInv, FlowInv, FanOut, Going'
  PROVE  FlowsWell'
<1>1. /\ doc' = doc /\ node' = node /\ answered' = answered /\ done' = done
      /\ worker' = worker /\ flags' = flags /\ reasons' = reasons
      /\ pc = "fanout" /\ pc' \in {"top", "fanout"}
      /\ pending' # {} => pc' = "fanout"
  BY DEF FanOut, disk, progress
<1>2. PICK i \in pending : /\ board' = Send(board, node, graph.out[node][i].to)
                           /\ pending' = pending \ {i}
  BY DEF FanOut
<1>3. Flows(board, done, Underway, YetToTake)
  BY <1>1, StillFlows DEF Going
<1>4. node \in Nodes /\ pending \subseteq DOMAIN graph.out[node]
  BY <1>1 DEF IInv, LoopInv
<1>5. graph.out[node][i].to \in Nodes /\ board \in Board
  BY <1>4, EdgeTypes DEF IInv, TypeOK
<1>6. YetToTake \subseteq YetToTake' \cup {<<node, i>>}
  <2>1. ASSUME NEW e \in YetToTake, e # <<node, i>> PROVE e \in YetToTake'
    <3>1. e \in Nodes \X Nat /\ e[2] \in DOMAIN graph.out[e[1]]
      BY DEF YetToTake
    <3>2. e = <<e[1], e[2]>>
      BY <3>1
    <3>3. e[1] = node => e[2] # i
      BY <2>1, <3>2
    <3>4. graph' = graph
      BY <1>1, SameDocument
    <3>5. CASE worker[e[1]] = "arriving"
      BY <3>1, <3>4, <3>5, <1>1 DEF YetToTake
    <3>6. CASE node = e[1] /\ e[2] \in pending
      BY <3>1, <3>3, <3>4, <3>6, <1>1, <1>2 DEF YetToTake
    <3> QED BY <3>5, <3>6 DEF YetToTake
  <2> QED BY <2>1
<1>7. Underway \subseteq Underway'
  BY <1>1, <1>2, <1>5, SendGrows DEF Underway
<1>8. \A n \in Nodes : Occurs(n, board'.queue) => n \in Underway'
  BY DEF Underway
<1>9. Flows(board', done, Underway', YetToTake')
  <2>1. Underway' \in SUBSET Nodes
    BY DEF Underway
  <2> QED BY <2>1, <1>2, <1>3, <1>4, <1>5, <1>6, <1>7, <1>8, SendFlows
<1> QED BY <1>1, <1>9, FlowsAfter DEF FlowsWell

\* Steps of the loop between visits.
LEMMA BetweenFlows ==
  ASSUME IInv, VerdictInv, FlowInv, Going',
         LeaveLoop \/ StopOnCancel \/ Pop \/ JoinBranches \/ RequestCancel \/ UNCHANGED vars
  PROVE  FlowsWell'
<1> USE DEF disk, progress
<1>1. /\ doc' = doc /\ answered' = answered /\ done' = done /\ worker' = worker
      /\ pending' = pending /\ pc \notin {"abort", "done"}
      /\ flags \subseteq flags' /\ reasons \subseteq reasons'
      /\ guard' = guard \/ pc' # "end"
  BY DEF LeaveLoop, StopOnCancel, Pop, JoinBranches, RequestCancel, vars, Going, NothingFailed
<1>2. /\ Flows(board, done, Underway, YetToTake)
      /\ pc = "end" => board.queue = <<>> \/ guard >= MaxSteps
  BY <1>1, StillFlows DEF Going
<1>3. ~StopOnCancel
  BY DEF StopOnCancel, Going, NothingFailed
<1>4. graph' = graph /\ MaxSteps' = MaxSteps
  BY <1>1, SameDocument
<1>5. CASE Pop
  <2>1. PICK i \in DOMAIN board.queue :
          /\ node' = board.queue[i]
          /\ board' = [board EXCEPT !.queue = RemoveAt(@, i)]
    BY <1>5 DEF Pop
  <2>2. board.queue \in Seq(Nodes) /\ i \in 1..Len(board.queue) /\ board \in Board
    BY <2>1 DEF IInv, TypeOK, Board
  <2>3. /\ board'.queue = RemoveAt(board.queue, i)
        /\ board'.arrived = board.arrived /\ board'.scheduled = board.scheduled
    BY <2>1, <2>2 DEF Board
  <2>4. pc = "top" /\ pc' = "visit"
    BY <1>5 DEF Pop
  <2>5. Underway \subseteq Underway'
    <3>1. \A n \in Nodes : Occurs(n, board.queue) => Occurs(n, board'.queue) \/ n = node'
      BY <2>1, <2>2, <2>3, RemoveAtKeeps
    <3> QED BY <3>1, <2>4, <1>1 DEF Underway
  <2>6. YetToTake \subseteq YetToTake'
    BY <1>1, <1>4, <2>4 DEF YetToTake
  <2> QED BY <1>1, <1>2, <2>3, <2>4, <2>5, <2>6, UnmovedFlows DEF FlowsWell
<1>6. CASE ~Pop
  <2>1. /\ board' = board /\ node' = node
        /\ pc' = pc \/ (pc \in {"top", "join"} /\ pc' \in {"top", "end"})
        /\ pc' = "end" => board.queue = <<>> \/ guard >= MaxSteps
    BY <1>2, <1>3, <1>6
       DEF LeaveLoop, LoopDone, JoinBranches, RequestCancel, vars
  <2>2. Underway \subseteq Underway' /\ YetToTake \subseteq YetToTake'
    BY <1>1, <1>4, <2>1 DEF Underway, YetToTake
  <2>3. pc' = "end" => board'.queue = <<>> \/ guard' >= MaxSteps'
    BY <1>1, <1>4, <2>1 DEF LeaveLoop, JoinBranches, RequestCancel, vars
  <2> QED BY <1>1, <1>2, <2>1, <2>2, <2>3, UnmovedFlows DEF FlowsWell
<1> QED BY <1>5, <1>6

\* The steps of a branch thread.
LEMMA WorkerFlows ==
  ASSUME IInv, VerdictInv, FlowInv, Going', NEW n \in Nodes, Worker(n)
  PROVE  FlowsWell'
<1> USE DEF disk, progress
<1>1. /\ doc' = doc /\ answered' = answered /\ node' = node /\ pending' = pending
      /\ pc' = pc /\ pc = "join" /\ Kind(n) = "task"
      /\ flags \subseteq flags' /\ reasons \subseteq reasons'
  BY DEF Worker, WorkerBegin, WorkerOk, WorkerArrive, WorkerFail, VerdictInv, IInv, LoopInv,
         ErrorRoute, NoErrorRoute
<1>2. Flows(board, done, Underway, YetToTake) /\ TakesEveryEdge
  BY <1>1, StillFlows DEF Going
<1>3. graph' = graph
  BY <1>1, SameDocument
<1>4. /\ worker \in [Nodes -> {"idle", "ready", "visiting", "arriving"}]
      /\ board \in Board /\ done \subseteq Nodes
  BY DEF IInv, TypeOK
<1>5. "cancelled" \notin flags /\ "cancelled" \notin flags' /\ "visit" \notin reasons'
  BY <1>1 DEF Going, NothingFailed
<1>6. CASE WorkerBegin(n)
  <2>1. /\ worker' = [worker EXCEPT ![n] = "visiting"] /\ worker[n] = "ready"
        /\ board' = board /\ done' = done
    BY <1>5, <1>6 DEF WorkerBegin
  <2>2. Underway \subseteq Underway' /\ YetToTake \subseteq YetToTake'
    BY <1>1, <1>3, <1>4, <2>1 DEF Underway, YetToTake
  <2> QED BY <1>1, <1>2, <2>1, <2>2, UnmovedFlows DEF FlowsWell
<1>7. CASE WorkerOk(n)
  <2>1. /\ worker' = [worker EXCEPT ![n] = "arriving"] /\ worker[n] = "visiting"
        /\ board' = board /\ done' = done \cup {n}
    BY <1>5, <1>7 DEF WorkerOk
  <2>2. Underway \subseteq Underway' /\ YetToTake \subseteq YetToTake'
    BY <1>1, <1>3, <1>4, <2>1 DEF Underway, YetToTake
  <2>3. \A i \in DOMAIN graph.out[n] : <<n, i>> \in YetToTake'
    <3>1. DOMAIN graph.out[n] \subseteq Nat
      BY EdgeTypes DEF IInv
    <3> QED BY <3>1, <1>3, <1>4, <2>1 DEF YetToTake
  <2>4. Flows(board', done', Underway', YetToTake')
    <3>1. ASSUME NEW k \in done', NEW i \in DOMAIN graph.out[k]
          PROVE  <<k, i>> \in YetToTake' \/ Taken(board, k, graph.out[k][i].to, Underway')
      <4>1. CASE k = n
        BY <4>1, <2>3
      <4>2. CASE k # n
        BY <4>2, <1>2, <2>1, <2>2 DEF Flows, Taken
      <4> QED BY <4>1, <4>2
    <3> QED BY <3>1, <1>2, <2>1, <2>2 DEF Flows
  <2> QED BY <1>1, <2>4, FlowsAfter DEF FlowsWell
<1>8. CASE WorkerArrive(n)
  <2>1. PICK i \in Unconditional(n) : board' = Arrive(board, graph.out[n][i].to, n)
    BY <1>8 DEF WorkerArrive
  <2>2. /\ worker' = [worker EXCEPT ![n] = "idle"] /\ worker[n] = "arriving"
        /\ done' = done /\ n \in done
    BY <1>8 DEF WorkerArrive, IInv, LoopInv
  <2>3. /\ Kind(graph.out[n][i].to) = "barrier" /\ graph.out[n][i].to \in Nodes
        /\ i \in DOMAIN graph.out[n]
    BY <2>2, EdgeTypes DEF FlowInv, Unconditional, IInv
  <2>4. \A j \in DOMAIN graph.out[n] : j = i
    <3>1. Len(graph.out[n]) <= 1 /\ graph.out[n] \in Seq(Edges)
      BY <1>1, <1>2, GraphsAssumption DEF TakesEveryEdge, IInv, TypeOK, graph
    <3>2. graph.out[n] # <<>>
      BY <2>3
    <3> QED BY <3>1, <3>2, <2>3, EdgePlaces
  <2>5. YetToTake \subseteq YetToTake' \cup {<<n, i>>}
    <3>1. ASSUME NEW e \in YetToTake, e # <<n, i>> PROVE e \in YetToTake'
      <4>1. e \in Nodes \X Nat /\ e[2] \in DOMAIN graph.out[e[1]]
        BY DEF YetToTake
      <4>2. e[1] # n
        BY <3>1, <4>1, <2>4
      <4> QED BY <4>1, <4>2, <1>1, <1>3, <1>4, <2>2 DEF YetToTake
    <3> QED BY <3>1
  <2>6. Underway \subseteq Underway'
    BY <1>1, <1>4, <2>1, <2>2, <2>3, SendGrows DEF Underway
  <2>7. \A k \in Nodes : Occurs(k, board'.queue) => k \in Underway'
    BY DEF Underway
  <2>8. Flows(board', done, Underway', YetToTake')
    <3>1. Underway' \in SUBSET Nodes
      BY DEF Underway
    <3> QED BY <3>1, <1>2, <1>4, <2>1, <2>3, <2>5, <2>6, <2>7, ArriveFlows
  <2> QED BY <1>1, <2>2, <2>8, FlowsAfter DEF FlowsWell
<1>9. ~WorkerFail(n)
  BY <1>5 DEF WorkerFail, ErrorRoute, NoErrorRoute
<1> QED BY <1>6, <1>7, <1>8, <1>9 DEF Worker

\* The visits in the loop.
LEMMA VisitFlows ==
  ASSUME IInv, VerdictInv, FlowInv, Going',
         VisitPlain \/ VisitExit \/ VisitTask \/ VisitRef \/ VisitHuman
  PROVE  FlowsWell'
<1> USE DEF disk
<1>1. /\ pc = "visit" /\ node \in Nodes
      /\ UNCHANGED <<doc, node, worker>>
  BY DEF VisitPlain, VisitExit, VisitTask, VisitRef, VisitHuman, IInv, LoopInv
<1>2. "visit" \notin reasons' /\ pc' # "abort" /\ answered' = {}
      /\ flags' \cap {"success", "cancelled", "partial", "paused"} = {}
  BY DEF Going, NothingFailed
<1>3. ~RouteError /\ ~Raise
  BY <1>2 DEF RouteError, ErrorRoute, NoErrorRoute, Raise
<1>4. ~VisitExit
  BY <1>2 DEF VisitExit
<1>5. CASE VisitPlain
  BY <1>1, <1>5, LeaveFlows DEF VisitPlain
<1>6. CASE VisitTask
  <2>1. Leave(flags)
    BY <1>2, <1>3, <1>6 DEF VisitTask, BreakWith
  <2> QED BY <1>1, <1>6, <2>1, LeaveFlows DEF VisitTask
<1>7. CASE VisitRef
  <2>1. \E fl \in NestedFlags : Leave(fl)
    BY <1>2, <1>3, <1>7 DEF VisitRef, BreakWith
  <2>2. \A fl \in NestedFlags : flags \subseteq fl
    BY DEF NestedFlags
  <2> QED BY <1>1, <1>7, <2>1, <2>2, LeaveFlows DEF VisitRef
<1>8. ~VisitHuman
  BY <1>2 DEF VisitHuman
<1> QED BY <1>4, <1>5, <1>6, <1>7, <1>8

\* The branches of a fork that are run in threads end at a barrier.
LEMMA ThreadsMeet ==
  ASSUME NEW f, RunsInThreads(f), NEW b \in Branches(f), NEW i \in Unconditional(b)
  PROVE  Kind(graph.out[b][i].to) = "barrier"
BY DEF RunsInThreads

LEMMA FlowSides ==
  ASSUME IInv, VerdictInv, FlowInv, [Next]_vars
  PROVE  /\ \A n \in Nodes : worker'[n] # "idle" =>
              \A i \in Unconditional(n)' : Kind(graph.out[n][i].to)' = "barrier"
         /\ "killed" \in flags' => "cancelled" \in flags'
         /\ "paused" \in flags' => pc' \in {"abort", "done"}
<1> USE DEF disk, progress
<1>1. /\ "killed" \in flags => "cancelled" \in flags
      /\ "paused" \in flags => pc \in {"abort", "done"}
      /\ \A n \in Nodes : worker[n] # "idle" =>
           \A i \in Unconditional(n) : Kind(graph.out[n][i].to) = "barrier"
      /\ \A n \in Nodes : worker[n] # "idle" => pc = "join"
      /\ worker \in [Nodes -> {"idle", "ready", "visiting", "arriving"}]
  BY DEF FlowInv, VerdictInv, IInv, TypeOK
<1>2. doc' = doc
  BY DEF Next, Loop, Worker, WorkerBegin, WorkerOk, WorkerArrive, WorkerFail, LeaveLoop,
         StopOnCancel, Pop, VisitPlain, VisitExit, VisitTask, VisitRef, VisitHuman, VisitFork,
         FanOut, JoinBranches, Finish, RequestCancel, Resume, vars
<1>3. \A n \in Nodes : /\ Unconditional(n)' = Unconditional(n)
                       /\ \A i : Kind(graph.out[n][i].to)' = Kind(graph.out[n][i].to)
  BY <1>2 DEF Unconditional, Kind, graph
<1>4. \A n \in Nodes : worker'[n] # "idle" =>
        \A i \in Unconditional(n) : Kind(graph.out[n][i].to) = "barrier"
  <2>1. CASE VisitFork
    <3>1. CASE RunsInThreads(node) /\ worker' # worker
      <4>1. worker' = [n \in Nodes |-> IF n \in Branches(node) THEN "ready" ELSE "idle"]
        BY <2>1, <3>1 DEF VisitFork
      <4> QED BY <3>1, <4>1, ThreadsMeet
    <3>2. CASE worker' = worker
      BY <3>2, <1>1
    <3> QED BY <2>1, <3>1, <3>2 DEF VisitFork
  <2>2. ASSUME NEW n \in Nodes, Worker(n)
        PROVE  \A k \in Nodes : worker'[k] # "idle" => worker[k] # "idle"
    BY <2>2, <1>1 DEF Worker, WorkerBegin, WorkerOk, WorkerArrive, WorkerFail
  <2>3. CASE ~VisitFork /\ ~(\E n \in Nodes : Worker(n))
    <3>1. worker' = worker
      BY <2>3 DEF Next, Loop, LeaveLoop, StopOnCancel, Pop, VisitPlain, VisitExit, VisitTask,
                  VisitRef, VisitHuman, FanOut, JoinBranches, Finish, RequestCancel, Resume, vars
    <3> QED BY <3>1, <1>1
  <2> QED BY <2>1, <2>2, <2>3, <1>1
<1>5. /\ "killed" \in flags' => "cancelled" \in flags'
      /\ "paused" \in flags' => pc' \in {"abort", "done"}
  <2>1. ASSUME NEW n \in Nodes, Worker(n)
        PROVE  /\ "killed" \in flags' => "cancelled" \in flags'
               /\ "paused" \in flags' => pc' \in {"abort", "done"}
    <3>1. flags' = flags \/ ("cancelled" \in flags' /\ "paused" \notin flags')
      BY <1>1, <2>1 DEF Worker, WorkerBegin, WorkerOk, WorkerArrive, WorkerFail
    <3>2. pc' = pc
      BY <2>1 DEF Worker, WorkerBegin, WorkerOk, WorkerArrive, WorkerFail
    <3> QED BY <1>1, <3>1, <3>2
  <2>2. CASE VisitPlain \/ VisitTask \/ VisitRef
    <3>1. /\ "killed" \notin flags \/ "cancelled" \in flags
          /\ "paused" \notin flags
      BY <1>1, <2>2 DEF VisitPlain, VisitTask, VisitRef
    <3>2. ASSUME NEW fl, Leave(fl) \/ BreakWith(fl)
          PROVE  flags' = fl \/ flags' = fl \cup {"partial"}
      BY <3>2 DEF Leave, BreakWith
    <3>3. RouteError \/ Raise => flags' = flags
      BY DEF RouteError, Raise
    <3>4. \A fl \in NestedFlags : fl = flags \/ fl = flags \cup {"cancelled"}
      BY DEF NestedFlags
    <3>5. \/ flags' \in {flags, flags \cup {"partial"}}
          \/ flags' \in {flags \cup {"cancelled"}, flags \cup {"cancelled"} \cup {"partial"}}
          \/ flags' \in {flags \cup {"cancelled", "killed"}}
      <4>1. CASE VisitPlain
        BY <4>1, <3>2 DEF VisitPlain
      <4>2. CASE VisitTask
        <5>1. ASSUME BreakWith(flags \cup {"cancelled", "killed"})
              PROVE  flags' = flags \cup {"cancelled", "killed"}
          BY <5>1 DEF BreakWith
        <5> QED BY <4>2, <5>1, <3>2, <3>3 DEF VisitTask
      <4>3. CASE VisitRef
        BY <4>3, <3>2, <3>3, <3>4 DEF VisitRef
      <4> QED BY <2>2, <4>1, <4>2, <4>3
    <3> QED BY <3>1, <3>5
  <2>3. CASE VisitHuman \/ VisitExit \/ VisitFork
    BY <1>1, <2>3 DEF VisitHuman, VisitExit, VisitFork, Leave
  <2>4. CASE LeaveLoop \/ StopOnCancel \/ Pop \/ FanOut \/ JoinBranches \/ Finish \/ RequestCancel
             \/ Resume \/ UNCHANGED vars
    BY <1>1, <2>4 DEF LeaveLoop, StopOnCancel, Pop, FanOut, JoinBranches, Finish, RequestCancel,
                      Resume, vars
  <2> QED BY <2>1, <2>2, <2>3, <2>4 DEF Next, Loop
<1> QED BY <1>3, <1>4, <1>5

\* Only barriers know of arrivals.
LEMMA ArrivalsStep ==
  ASSUME IInv, FlowInv, [Next]_vars
  PROVE  \A m \in Nodes : board'.arrived[m] # {} => Kind(m)' = "barrier"
<1> USE DEF disk, progress
<1>1. /\ board \in Board /\ \A m \in Nodes : board.arrived[m] # {} => Kind(m) = "barrier"
      /\ \A n \in Nodes : worker[n] # "idle" =>
           \A i \in Unconditional(n) : Kind(graph.out[n][i].to) = "barrier"
  BY DEF FlowInv, IInv, TypeOK
<1>2. doc' = doc
  BY DEF Next, Loop, Worker, WorkerBegin, WorkerOk, WorkerArrive, WorkerFail, LeaveLoop,
         StopOnCancel, Pop, VisitPlain, VisitExit, VisitTask, VisitRef, VisitHuman, VisitFork,
         FanOut, JoinBranches, Finish, RequestCancel, Resume, vars
<1>3. \A m : Kind(m)' = Kind(m)
  BY <1>2, SameDocument
<1>4. ASSUME NEW from, NEW to, Kind(to) = "barrier", NEW m \in Nodes, m # to
      PROVE  Arrive(board, to, from).arrived[m] = board.arrived[m]
  BY <1>1, <1>4 DEF Arrive, Board
<1>5. ASSUME NEW from, NEW to, NEW m \in Nodes, Kind(m) # "barrier"
      PROVE  Send(board, from, to).arrived[m] = board.arrived[m]
  <2>1. CASE Kind(to) = "barrier"
    BY <1>4, <1>5, <2>1 DEF Send
  <2>2. CASE Kind(to) # "barrier"
    BY <1>1, <2>2 DEF Send, Board
  <2> QED BY <2>1, <2>2
<1>6. ASSUME NEW m \in Nodes, Kind(m) # "barrier" PROVE board'.arrived[m] \in {board.arrived[m], {}}
  <2>1. ASSUME NEW q, board' = [board EXCEPT !.queue = q] PROVE board'.arrived = board.arrived
    BY <1>1, <2>1 DEF Board
  <2>2. ASSUME NEW fl, Leave(fl) PROVE board'.arrived[m] = board.arrived[m]
    BY <1>5, <1>6, <2>2 DEF Leave
  <2>3. RouteError => board'.arrived[m] = board.arrived[m]
    BY <2>1 DEF RouteError, ErrorRoute, NoErrorRoute
  <2>4. ASSUME NEW n \in Nodes, Worker(n) PROVE board'.arrived[m] = board.arrived[m]
    <3>1. CASE WorkerArrive(n)
      BY <1>1, <1>4, <1>6, <3>1 DEF WorkerArrive
    <3>2. CASE WorkerFail(n)
      BY <2>1, <3>2 DEF WorkerFail, ErrorRoute, NoErrorRoute
    <3>3. CASE WorkerBegin(n) \/ WorkerOk(n)
      BY <3>3 DEF WorkerBegin, WorkerOk
    <3> QED BY <2>4, <3>1, <3>2, <3>3 DEF Worker
  <2>5. CASE VisitPlain \/ VisitExit \/ VisitTask \/ VisitRef \/ VisitHuman \/ VisitFork
    BY <2>2, <2>3, <2>5 DEF VisitPlain, VisitExit, VisitTask, VisitRef, VisitHuman, VisitFork,
                            BreakWith, Raise
  <2>6. CASE Pop \/ FanOut
    BY <1>5, <1>6, <2>1, <2>6 DEF Pop, FanOut
  <2>7. CASE LeaveLoop \/ StopOnCancel \/ JoinBranches \/ Finish \/ RequestCancel
             \/ Resume \/ UNCHANGED vars
    BY <2>7 DEF LeaveLoop, StopOnCancel, JoinBranches, Finish, RequestCancel, Resume, vars,
                EmptyBoard
  <2> QED BY <2>4, <2>5, <2>6, <2>7 DEF Next, Loop
<1> QED BY <1>1, <1>3, <1>6

LEMMA FlowStep == IInv /\ VerdictInv /\ FlowInv /\ [Next]_vars => FlowInv'
<1> SUFFICES ASSUME IInv, VerdictInv, FlowInv, [Next]_vars PROVE FlowInv'
  OBVIOUS
<1>1. ASSUME Going' PROVE FlowsWell'
  <2>1. ~Finish /\ ~Resume
    BY <1>1 DEF Finish, Resume, Going, NothingFailed
  <2> QED BY <1>1, <2>1, VisitFlows, ForkFlows, FanOutFlows, BetweenFlows, WorkerFlows
          DEF Next, Loop
<1> QED BY <1>1, FlowSides, ArrivalsStep DEF FlowInv, Going, FlowsWell

LEMMA FlowInit == Init => FlowInv
<1> SUFFICES ASSUME Init PROVE FlowInv
  OBVIOUS
<1>1. /\ board.queue = <<graph.start>> /\ board.scheduled = {}
      /\ board.arrived = [m \in Nodes |-> {}]
      /\ graph.start \in Nodes /\ done = {} /\ flags = {} /\ pc = "top"
      /\ \A n \in Nodes : worker[n] = "idle"
  BY GraphsAssumption DEF Init, EmptyBoard, graph
<1>2. Occurs(graph.start, board.queue)
  <2>1. Len(<<graph.start>>) = 1 /\ <<graph.start>>[1] = graph.start
    OBVIOUS
  <2> QED BY <1>1, <2>1 DEF Occurs
<1>3. Flows(board, done, Underway, YetToTake)
  BY <1>1, <1>2 DEF Flows, Underway
<1> QED BY <1>1, <1>3 DEF FlowInv

\* When the queue has run empty the nodes that have been visited are closed under
\* the taking of edges.
LEMMA DoneIsClosed ==
  ASSUME Flows(board, done, done, {})
  PROVE  ClosedUnderEdges(done)
<1>1. ASSUME NEW n \in Nodes \ done, Kind(n) # "barrier" PROVE Required(n) \cap done = {}
  <2>1. ASSUME NEW k \in Required(n), k \in done PROVE FALSE
    <3>1. PICK i \in DOMAIN graph.out[k] : graph.out[k][i].to = n
      BY DEF Required
    <3>2. Taken(board, k, n, done)
      BY <2>1, <3>1 DEF Flows
    <3> QED BY <1>1, <3>2 DEF Taken
  <2> QED BY <2>1
<1>2. ASSUME NEW n \in Nodes \ done, Kind(n) = "barrier"
      PROVE  Required(n) = {} \/ ~(Required(n) \subseteq done)
  <2> SUFFICES ASSUME Required(n) # {}, Required(n) \subseteq done PROVE FALSE
    OBVIOUS
  <2>1. ASSUME NEW k \in Required(n) PROVE k \in board.arrived[n]
    <3>1. PICK i \in DOMAIN graph.out[k] : graph.out[k][i].to = n
      BY DEF Required
    <3>2. Taken(board, k, n, done)
      BY <3>1 DEF Flows
    <3> QED BY <1>2, <3>2 DEF Taken
  <2>2. n \in board.scheduled
    BY <1>2, <2>1 DEF Flows
  <2> QED BY <1>2, <2>2 DEF Flows
<1> QED BY <1>1, <1>2 DEF ClosedUnderEdges, Flows

LEMMA FinishJoins ==
  ASSUME IInv, VerdictInv, FlowInv, JoinsComplete, Finish
  PROVE  JoinsComplete'
<1> SUFFICES ASSUME "incomplete" \in reasons', answered' = {}, TakesEveryEdge',
                    BarriersAttainable', "visit" \notin reasons'
             PROVE  FALSE
  BY DEF JoinsComplete
<1>1. /\ doc' = doc /\ answered = {} /\ reasons \subseteq reasons' /\ pc # "done"
  BY DEF Finish, disk
<1>2. TakesEveryEdge /\ BarriersAttainable
  BY <1>1 DEF TakesEveryEdge, BarriersAttainable, ClosedUnderEdges, Required, Unconditional,
              Kind, graph
<1>3. "incomplete" \notin reasons /\ "visit" \notin reasons
  BY <1>1, <1>2 DEF JoinsComplete
<1>4. pc = "end" /\ "incomplete" \in EndErrors
  BY <1>3 DEF Finish
<1>5. /\ guard < MaxSteps /\ IncompleteBarrier
      /\ flags \cap {"success", "cancelled", "partial"} = {}
  BY <1>4 DEF EndErrors
<1>6. /\ Flows(board, done, Underway, YetToTake)
      /\ board.queue = <<>> \/ guard >= MaxSteps
  <2>1. "paused" \notin flags
    BY <1>4 DEF FlowInv
  <2> QED BY <1>1, <1>2, <1>3, <1>4, <1>5, <2>1 DEF FlowInv, NothingFailed
<1>7. guard \in Nat /\ MaxSteps \in Nat /\ done \subseteq Nodes
  BY MaxStepsType DEF IInv, TypeOK
<1>8. Len(board.queue) = 0 /\ \A n \in Nodes : worker[n] = "idle"
  BY <1>4, <1>5, <1>6, <1>7 DEF VerdictInv
<1>9. Underway = done /\ YetToTake = {}
  BY <1>4, <1>7, <1>8 DEF Underway, YetToTake, Occurs
<1>10. ClosedUnderEdges(done)
  BY <1>6, <1>9, DoneIsClosed
<1>11. PICK m \in Nodes : /\ board.arrived[m] # {}
                          /\ m \notin board.scheduled
                          /\ board.arrived[m] # Required(m)
  BY <1>5 DEF IncompleteBarrier
<1>12. Kind(m) = "barrier"
  BY <1>11 DEF FlowInv
<1>13. Required(m) \subseteq done
  <2>1. done \in SUBSET Nodes
    BY <1>7
  <2> QED BY <2>1, <1>2, <1>10, <1>12 DEF BarriersAttainable
<1>14. ASSUME NEW k \in Required(m) PROVE k \in board.arrived[m]
  <2>1. PICK i \in DOMAIN graph.out[k] : graph.out[k][i].to = m
    BY DEF Required
  <2>2. Taken(board, k, m, done)
    BY <1>6, <1>9, <1>13, <2>1 DEF Flows
  <2> QED BY <1>12, <2>2 DEF Taken
<1> QED BY <1>6, <1>9, <1>11, <1>12, <1>14 DEF Flows

LEMMA JoinsStep ==
  IInv /\ VerdictInv /\ FlowInv /\ JoinsComplete /\ [Next]_vars => JoinsComplete'
<1> SUFFICES ASSUME IInv, VerdictInv, FlowInv, JoinsComplete, [Next]_vars, ~Finish
             PROVE  JoinsComplete'
  BY FinishJoins
<1> USE DEF disk, progress
<1>1. /\ doc' = doc
      /\ answered' = answered \/ reasons' = {}
      /\ reasons \subseteq reasons' \/ reasons' = {}
      /\ "incomplete" \in reasons' => "incomplete" \in reasons
  <2>1. ASSUME NEW fl, Leave(fl) \/ BreakWith(fl) \/ RouteError \/ Raise
        PROVE  /\ reasons \subseteq reasons'
               /\ "incomplete" \in reasons' => "incomplete" \in reasons
    BY <2>1 DEF Leave, BreakWith, RouteError, Raise, ErrorRoute, NoErrorRoute
  <2>2. CASE VisitPlain \/ VisitExit \/ VisitTask \/ VisitRef \/ VisitHuman
    BY <2>1, <2>2 DEF VisitPlain, VisitExit, VisitTask, VisitRef, VisitHuman
  <2>3. ASSUME NEW n \in Nodes, Worker(n)
        PROVE  /\ doc' = doc /\ answered' = answered /\ reasons \subseteq reasons'
               /\ "incomplete" \in reasons' => "incomplete" \in reasons
    BY <2>3 DEF Worker, WorkerBegin, WorkerOk, WorkerArrive, WorkerFail, ErrorRoute,
                NoErrorRoute
  <2>4. CASE LeaveLoop \/ StopOnCancel \/ Pop \/ VisitFork \/ FanOut \/ JoinBranches
             \/ RequestCancel \/ Resume \/ UNCHANGED vars
    BY <2>4 DEF LeaveLoop, StopOnCancel, Pop, VisitFork, FanOut, JoinBranches, RequestCancel,
                Resume, vars
  <2> QED BY <2>2, <2>3, <2>4 DEF Next, Loop
<1>2. /\ TakesEveryEdge' <=> TakesEveryEdge
      /\ BarriersAttainable' <=> BarriersAttainable
  BY <1>1 DEF TakesEveryEdge, BarriersAttainable, ClosedUnderEdges, Required, Unconditional,
              Kind, graph
<1> QED BY <1>1, <1>2 DEF JoinsComplete

\* JoinsComplete for every document: in a run that takes every edge, with or
\* without branch threads, a barrier whose predecessors all lie on the way stays
\* incomplete only because a visit failed.
THEOREM EngineJoinsComplete == Spec => []JoinsComplete
<1>1. Init => JoinsComplete
  BY DEF Init, JoinsComplete
<1> QED BY <1>1, FlowInit, FlowStep, JoinsStep, EngineInvariant, RunVerdicts, PTL DEF Spec

=============================================================================
