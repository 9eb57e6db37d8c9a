---------------------------- MODULE MCRunEngine ----------------------------
\* RunEngine with a family of small graphs.
EXTENDS RunEngine

MCNodes == {"s", "f", "a", "b", "p", "m", "x"}

To(n) == [to |-> n, cond |-> FALSE]
If(n) == [to |-> n, cond |-> TRUE]

\* A graph from the kinds of its nodes and its edges; the rest are defaults.
Doc(kind, out, err) ==
  [kind |-> [n \in MCNodes |-> IF n \in DOMAIN kind THEN kind[n] ELSE "absent"],
   out |-> [n \in MCNodes |-> IF n \in DOMAIN out THEN out[n] ELSE <<>>],
   err |-> [n \in MCNodes |-> IF n \in DOMAIN err THEN err[n] ELSE <<>>],
   start |-> "s", stop |-> None, parallel |-> FALSE, fifo |-> FALSE, faults |-> FALSE]

NoErr == [n \in {} |-> <<>>]

\* start, fork, two nodes, barrier, exit.
JoinKinds == [s |-> "start", f |-> "fork", a |-> "task", b |-> "task", m |-> "barrier", x |-> "exit"]
JoinOut == [s |-> <<To("f")>>, f |-> <<To("a"), To("b")>>, a |-> <<To("m")>>,
            b |-> <<To("m")>>, m |-> <<To("x")>>]

\* Both branches pass one node, which arrives at the barrier twice.
Twice == Doc([p |-> "merge"] @@ JoinKinds,
             [p |-> <<To("m")>>] @@ [JoinOut EXCEPT !.a = <<To("p")>>, !.b = <<To("p")>>], NoErr)
\* A loop without a barrier.
Cycle == Doc([s |-> "start", a |-> "ref", x |-> "exit"],
             [s |-> <<To("a")>>, a |-> <<If("x"), To("s")>>], [a |-> <<If("x")>>])
\* A join with a predecessor that no edge leads to; a fork with a branch that leads
\* nowhere, which ends the run before the join.
Orphan == Doc([p |-> "task"] @@ JoinKinds, [p |-> <<To("m")>>] @@ JoinOut, NoErr)
DeadEnd == Doc([p |-> "task"] @@ JoinKinds,
               [JoinOut EXCEPT !.f = <<To("a"), To("p"), To("b")>>], NoErr)
\* Acyclic variants of the join: what the nodes between fork and barrier are,
\* where their edges lead, whether the fork is one, and the options of the run.
Variants ==
  [shape : {"join"},
   ka : {"task", "human"}, kb : {"task", "ref"}, kf : {"fork", "merge"},
   oa : {<<To("m")>>, <<To("b")>>, <<If("x"), To("m")>>},
   of : {<<To("a"), To("b")>>, <<If("a"), To("b")>>},
   ea : {<<>>, <<To("x")>>, <<To("m")>>}, eb : {<<>>, <<If("x")>>},
   par : BOOLEAN, stop : {None}, fifo : {FALSE}, faults : BOOLEAN]

Plain ==
  [shape |-> "join", ka |-> "task", kb |-> "task", kf |-> "fork", oa |-> <<To("m")>>,
   of |-> <<To("a"), To("b")>>, ea |-> <<>>, eb |-> <<>>,
   par |-> TRUE, stop |-> None, fifo |-> FALSE, faults |-> FALSE]

Document(v) ==
  CASE v.shape = "twice" -> [Twice EXCEPT !.fifo = TRUE]
    [] v.shape = "cycle" -> Cycle
    [] v.shape = "orphan" -> Orphan
    [] v.shape = "dead_end" -> DeadEnd
    [] OTHER -> [Doc([JoinKinds EXCEPT !.a = v.ka, !.b = v.kb, !.f = v.kf],
                     [JoinOut EXCEPT !.a = v.oa, !.f = v.of],
                     [a |-> v.ea, b |-> v.eb])
                   EXCEPT !.parallel = v.par, !.stop = v.stop, !.fifo = v.fifo,
                          !.faults = v.faults]

MCGraphIds ==
  Variants \cup {[Plain EXCEPT !.shape = shape] : shape \in {"twice", "cycle", "orphan", "dead_end"}}
           \cup {[Plain EXCEPT !.stop = n, !.fifo = fifo] : n \in {"f", "a", "m"}, fifo \in BOOLEAN}
           \cup {[Plain EXCEPT !.of = <<If("x")>>]}
MCGraphs == [v \in GraphIds |-> Document(v)]

\* A human_input node in a branch.
MCOneId == {"doc"}
MCAsk == "doc" :> Doc([JoinKinds EXCEPT !.b = "human"], JoinOut, NoErr)

=============================================================================
