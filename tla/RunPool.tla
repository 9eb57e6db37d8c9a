------------------------------ MODULE RunPool ------------------------------
(***************************************************************************)
(* What the run broker promises about runs, without threads, processes,    *)
(* queue or Redis: a request is refused, or becomes a run that waits       *)
(* and/or runs and then ends; no two live runs share a run id; at most     *)
(* MaxRuns run at a time; and nothing ever leaves "refused" or "ended".    *)
(***************************************************************************)
EXTENDS Naturals, FiniteSets

CONSTANTS Reqs, RunIdOf, MaxRuns

VARIABLE life   \* life[r]: where request r is

Live == {r \in Reqs : life[r] \in {"waiting", "running"}}
RunningNow == {r \in Reqs : life[r] = "running"}

Move(r, from, to) ==
  /\ life[r] = from
  /\ life' = [life EXCEPT ![r] = to]

\* The run id of r is not in use by a live run.
IdFree(r) == \A s \in Live : RunIdOf[s] # RunIdOf[r]

Init == life = [r \in Reqs |-> "new"]

Refuse(r) == Move(r, "new", "refused")
Queue(r) == IdFree(r) /\ Move(r, "new", "waiting")
Start(r) ==
  /\ Cardinality(RunningNow) < MaxRuns
  /\ \/ IdFree(r) /\ Move(r, "new", "running")
     \/ Move(r, "waiting", "running")
Cancel(r) == Move(r, "waiting", "ended")
Finish(r) == Move(r, "running", "ended")

Next == \E r \in Reqs : Refuse(r) \/ Queue(r) \/ Start(r) \/ Cancel(r) \/ Finish(r)

Spec == Init /\ [][Next]_life

=============================================================================
