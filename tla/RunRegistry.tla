---------------------------- MODULE RunRegistry ----------------------------
(***************************************************************************)
(* Admission, queueing, promotion, cancellation and retirement of worker   *)
(* processes by RunBrokerRegistry (run_broker/registry.py), with the Redis *)
(* cluster-wide slot counter of run_broker/redis_coord.py.                 *)
(*                                                                         *)
(* One element of Reqs is one call of spawn_from_body and, if the call     *)
(* registers one, its RegisteredRun object; RunIdOf gives its run id, and  *)
(* two calls may carry the same id.  Each section the code runs under      *)
(* `with self._lock` is one action, and so is each Popen, which it runs    *)
(* without the lock.  Threads inside _promote_fill have no identity the    *)
(* code looks at, so they are counted: `scanning` of them are about to     *)
(* take the lock, and spawning[e] / spawned[e] hold entry e before / after *)
(* their Popen.                                                            *)
(***************************************************************************)
EXTENDS Naturals, Sequences, FiniteSets

CONSTANTS
  Reqs,         \* calls of spawn_from_body
  RunIds,       \* run identifiers
  RunIdOf,      \* the run id each call carries
  None,         \* no entry registered
  MaxRuns,      \* GC_RUN_BROKER_MAX_RUNS
  PendingMax,   \* GC_RUN_BROKER_PENDING_MAX
  UseRedis,     \* is GC_RUN_BROKER_REDIS_URL set
  GlobalLimit,  \* GC_RUN_BROKER_REDIS_GLOBAL_MAX_RUNS
  Strict,       \* GC_RUN_BROKER_REDIS_STRICT = 1
  RedisFaults,  \* may a Redis call raise
  SpawnFaults   \* may Popen raise OSError

ASSUME ReqsAssumption == IsFiniteSet(Reqs) /\ None \notin Reqs
ASSUME RunIdsAssumption == IsFiniteSet(RunIds) /\ RunIdOf \in [Reqs -> RunIds]
\* The clamps of _max_concurrent_runs, _pending_max and redis_coord_config.
ASSUME LimitsAssumption ==
  /\ MaxRuns \in Nat \ {0}
  /\ PendingMax \in Nat \ {0}
  /\ GlobalLimit \in Nat \ {0}
ASSUME FlagsAssumption ==
  /\ UseRedis \in BOOLEAN
  /\ Strict \in BOOLEAN
  /\ RedisFaults \in BOOLEAN
  /\ SpawnFaults \in BOOLEAN

VARIABLES
  runs,       \* _runs: the entry registered under each run id, or None
  fifo,       \* _pending_fifo
  hasProc,    \* entry.proc is not None
  caller,     \* where the thread in spawn_from_body is
  waiter,     \* where the waiter thread of the entry's worker is
  canceller,  \* where a thread in cancel of the queued entry is
  scanning,   \* threads at the top of the loop of _promote_fill
  spawning,   \* threads of _promote_fill about to Popen for an entry
  spawned,    \* threads of _promote_fill with a process for an entry
  files,      \* calls whose temporary document is on disk
  exits,      \* "exit" frames broadcast for an entry
  slots,      \* global_active_workers in Redis
  foreign     \* slots held by the workers of other brokers

registry == <<runs, fifo, hasProc>>
promoters == <<scanning, spawning, spawned>>
redis == <<slots, foreign>>
vars == <<runs, fifo, hasProc, caller, waiter, canceller, scanning, spawning,
          spawned, files, exits, slots, foreign>>

Rejected == {"duplicate", "full", "failed"}

Init ==
  /\ runs = [id \in RunIds |-> None]
  /\ fifo = <<>>
  /\ hasProc = [r \in Reqs |-> FALSE]
  /\ caller = [r \in Reqs |-> "new"]
  /\ waiter = [r \in Reqs |-> "none"]
  /\ canceller = [r \in Reqs |-> "none"]
  /\ scanning = 0
  /\ spawning = [r \in Reqs |-> 0]
  /\ spawned = [r \in Reqs |-> 0]
  /\ files = {}
  /\ exits = [r \in Reqs |-> 0]
  /\ slots = 0
  /\ foreign = 0

-----------------------------------------------------------------------------
\* Entries that count as running, and the local limit.
Running == {r \in Reqs : runs[RunIdOf[r]] = r /\ hasProc[r]}
AtCapacityOffByOne == Cardinality(Running) > MaxRuns
AtCapacity == Cardinality(Running) >= MaxRuns

\* What _promote_fill skips at the head of the FIFO.
Stale(id) == runs[id] = None \/ hasProc[runs[id]]

(***************************************************************************)
(* try_acquire_global_run_slot: the granted flag and the new counter.  The *)
(* Lua script is atomic in Redis.  A call that raises may or may not have  *)
(* been executed; the exception is turned into a refusal (strict) or a     *)
(* grant (default).                                                        *)
(***************************************************************************)
\* Value of the counter after the script, whether or not it granted a slot.
Acquired == IF slots < GlobalLimit THEN slots + 1 ELSE slots
AcquireSlotFailOpen(granted, n) ==
  \/ granted = (slots < GlobalLimit) /\ n = Acquired
  \/ granted = TRUE /\ n = slots
AcquireSlot(granted, n) ==
  \/ /\ ~UseRedis
     /\ granted = TRUE /\ n = slots
  \/ /\ UseRedis
     /\ granted = (slots < GlobalLimit) /\ n = Acquired
  \/ /\ UseRedis /\ RedisFaults
     /\ granted = ~Strict /\ n \in {slots, Acquired}

\* release_global_run_slot: never below zero, and an exception is swallowed.
ReleaseSlot ==
  \/ ~UseRedis /\ slots' = slots
  \/ UseRedis /\ slots' = IF slots >= 1 THEN slots - 1 ELSE slots
  \/ UseRedis /\ RedisFaults /\ slots' = slots

-----------------------------------------------------------------------------
\* spawn_from_body

\* Rejection under the lock: the temporary document is removed.
Reject(r, why) ==
  /\ caller' = [caller EXCEPT ![r] = why]
  /\ files' = files \ {r}
  /\ UNCHANGED <<registry, promoters, waiter, canceller, exits, foreign>>

\* Registration without a process, at the back of the FIFO.
Enqueue(r) ==
  /\ Len(fifo) < PendingMax
  /\ runs' = [runs EXCEPT ![RunIdOf[r]] = r]
  /\ fifo' = Append(fifo, RunIdOf[r])
  /\ caller' = [caller EXCEPT ![r] = "queued"]
  /\ files' = files \cup {r}
  /\ UNCHANGED <<hasProc, promoters, waiter, canceller, exits, foreign>>

EnqueueOrReject(r) ==
  \/ Enqueue(r)
  \/ Len(fifo) >= PendingMax /\ Reject(r, "full")

\* Write the temporary document; first section under the lock.
Submit(r) ==
  /\ caller[r] = "new"
  /\ slots' = slots
  /\ \/ /\ runs[RunIdOf[r]] # None
        /\ Reject(r, "duplicate")
     \/ /\ runs[RunIdOf[r]] = None
        /\ AtCapacity
        /\ EnqueueOrReject(r)
     \/ /\ runs[RunIdOf[r]] = None
        /\ ~AtCapacity
        /\ caller' = [caller EXCEPT ![r] = "popen"]
        /\ files' = files \cup {r}
        /\ UNCHANGED <<registry, promoters, waiter, canceller, exits, foreign>>

\* Popen outside the lock.
CallerPopen(r) ==
  /\ caller[r] = "popen"
  /\ \/ /\ caller' = [caller EXCEPT ![r] = "started"]
        /\ files' = files
     \/ /\ SpawnFaults
        /\ caller' = [caller EXCEPT ![r] = "failed"]
        /\ files' = files \ {r}
  /\ UNCHANGED <<registry, promoters, waiter, canceller, exits, redis>>

\* An entry gets its process; the pumps and the waiter are attached to it.
Launch(e) ==
  /\ hasProc' = [hasProc EXCEPT ![e] = TRUE]
  /\ waiter' = [waiter EXCEPT ![e] = "wait"]

\* Second section under the lock; a process that may not run is terminated.
Register(r) ==
  /\ caller[r] = "started"
  /\ \/ /\ runs[RunIdOf[r]] # None
        /\ Reject(r, "duplicate")
        /\ slots' = slots
     \/ /\ runs[RunIdOf[r]] = None
        /\ AtCapacity
        /\ EnqueueOrReject(r)
        /\ slots' = slots
     \/ /\ runs[RunIdOf[r]] = None
        /\ ~AtCapacity
        /\ \E granted \in BOOLEAN :
             /\ AcquireSlot(granted, slots')
             /\ \/ /\ ~granted
                   /\ EnqueueOrReject(r)
                \/ /\ granted
                   /\ runs' = [runs EXCEPT ![RunIdOf[r]] = r]
                   /\ Launch(r)
                   /\ caller' = [caller EXCEPT ![r] = "running"]
                   /\ UNCHANGED <<fifo, promoters, canceller, files, exits, foreign>>

-----------------------------------------------------------------------------
\* _promote_fill

\* The first live entry of the FIFO is at position i.
FirstLive(i) ==
  /\ i \in 1..Len(fifo)
  /\ ~Stale(fifo[i])
  /\ \A j \in 1..(i - 1) : Stale(fifo[j])

AllStale == \A i \in 1..Len(fifo) : Stale(fifo[i])

\* Section that picks an entry; the thread leaves when it finds none.
PromotePick ==
  /\ scanning > 0
  /\ scanning' = scanning - 1
  /\ \/ /\ AtCapacity
        /\ UNCHANGED <<fifo, spawning>>
     \/ /\ ~AtCapacity
        /\ AllStale
        /\ fifo' = <<>>
        /\ UNCHANGED spawning
     \/ /\ ~AtCapacity
        /\ \E i \in 1..Len(fifo) :
             /\ FirstLive(i)
             /\ fifo' = SubSeq(fifo, i + 1, Len(fifo))
             /\ spawning' = [spawning EXCEPT ![runs[fifo[i]]] = @ + 1]
  /\ UNCHANGED <<runs, hasProc, caller, waiter, canceller, spawned, files, exits, redis>>

\* The entry is still the registered one, and still has no process.
StillWaitingById(e) == runs[RunIdOf[e]] # None /\ ~hasProc[e]
StillWaiting(e) == runs[RunIdOf[e]] = e /\ ~hasProc[e]

\* appendleft
PutBackEntry(e) == fifo' = <<e>> \o fifo
PutBackLost(e) == fifo' = fifo
PutBack(e) == fifo' = <<RunIdOf[e]>> \o fifo

\* Popen outside the lock; after an OSError the entry returns to the head.
PromotePopen(e) ==
  /\ spawning[e] > 0
  /\ spawning' = [spawning EXCEPT ![e] = @ - 1]
  /\ \/ /\ spawned' = [spawned EXCEPT ![e] = @ + 1]
        /\ UNCHANGED <<fifo, scanning>>
     \/ /\ SpawnFaults
        /\ scanning' = scanning + 1
        /\ \/ StillWaiting(e) /\ PutBack(e)
           \/ ~StillWaiting(e) /\ UNCHANGED fifo
        /\ UNCHANGED spawned
  /\ UNCHANGED <<runs, hasProc, caller, waiter, canceller, files, exits, redis>>

\* Section that gives the process to the entry, or terminates the process.
PromoteCommit(e) ==
  /\ spawned[e] > 0
  /\ spawned' = [spawned EXCEPT ![e] = @ - 1]
  /\ scanning' = scanning + 1
  /\ \/ /\ ~StillWaiting(e)
        /\ UNCHANGED <<fifo, hasProc, waiter, slots>>
     \/ /\ StillWaiting(e)
        /\ AtCapacity
        /\ PutBack(e)
        /\ UNCHANGED <<hasProc, waiter, slots>>
     \/ /\ StillWaiting(e)
        /\ ~AtCapacity
        /\ \E granted \in BOOLEAN :
             /\ AcquireSlot(granted, slots')
             /\ \/ ~granted /\ PutBack(e) /\ UNCHANGED <<hasProc, waiter>>
                \/ granted /\ Launch(e) /\ UNCHANGED fifo
  /\ UNCHANGED <<runs, caller, canceller, spawning, files, exits, foreign>>

-----------------------------------------------------------------------------
\* The exit frame of an entry.
NoExit(e) == UNCHANGED exits
BroadcastExit(e) == exits' = [exits EXCEPT ![e] = @ + 1]

\* A thread outside calls _promote_fill.
SkipPromoteFill == UNCHANGED scanning
EnterPromoteFill == scanning' = scanning + 1

\* cancel of a queued run.  For a running one cancel only writes a line to the
\* worker's stdin and changes nothing here.

\* _remove_from_pending_fifo_unlocked: the first occurrence, if there is one.
RemoveNone(id) == UNCHANGED fifo
RemoveFirst(id) ==
  \/ /\ \A i \in 1..Len(fifo) : fifo[i] # id
     /\ UNCHANGED fifo
  \/ \E i \in 1..Len(fifo) :
       /\ fifo[i] = id
       /\ \A j \in 1..(i - 1) : fifo[j] # id
       /\ fifo' = SubSeq(fifo, 1, i - 1) \o SubSeq(fifo, i + 1, Len(fifo))

CancelQueued(id) ==
  /\ runs[id] # None
  /\ ~hasProc[runs[id]]
  /\ runs' = [runs EXCEPT ![id] = None]
  /\ RemoveFirst(id)
  /\ canceller' = [canceller EXCEPT ![runs[id]] = "popped"]
  /\ UNCHANGED <<hasProc, promoters, caller, waiter, files, exits, redis>>

\* Outside the lock: exit frame, clean-up, and on to _promote_fill.
CancelFinish(e) ==
  /\ canceller[e] = "popped"
  /\ canceller' = [canceller EXCEPT ![e] = "done"]
  /\ BroadcastExit(e)
  /\ files' = files \ {e}
  /\ EnterPromoteFill
  /\ UNCHANGED <<registry, caller, waiter, spawning, spawned, redis>>

-----------------------------------------------------------------------------
\* waiter

\* A pump, or the waiter with its exit frame, waits in a put on the full queue of
\* a client that has left, which never returns.  The waiter gives the pumps up
\* after a while, but a worker whose stdout nobody reads need not end, so the
\* waiter may never come to its exit frame, or never past it.
PutBlocks(e) ==
  /\ waiter[e] = "wait"
  /\ waiter' = [waiter EXCEPT ![e] = "blocked"]
  /\ UNCHANGED <<registry, promoters, caller, canceller, files, exits, redis>>

\* The process has ended, the pumps are joined or given up, and every queue has
\* taken the exit frame.
WorkerExit(e) ==
  /\ waiter[e] = "wait"
  /\ waiter' = [waiter EXCEPT ![e] = "exited"]
  /\ BroadcastExit(e)
  /\ UNCHANGED <<registry, promoters, caller, canceller, files, redis>>

Unregister(e) ==
  /\ waiter[e] = "exited"
  /\ waiter' = [waiter EXCEPT ![e] = "popped"]
  /\ runs' = [runs EXCEPT ![RunIdOf[e]] = None]
  /\ UNCHANGED <<fifo, hasProc, promoters, caller, canceller, files, exits, redis>>

\* Return the slot, remove the files, and on to _promote_fill.
Retire(e) ==
  /\ waiter[e] = "popped"
  /\ waiter' = [waiter EXCEPT ![e] = "done"]
  /\ ReleaseSlot
  /\ files' = files \ {e}
  /\ EnterPromoteFill
  /\ UNCHANGED <<registry, caller, canceller, spawning, spawned, exits, foreign>>

-----------------------------------------------------------------------------
\* Other brokers, whose Redis calls are taken to succeed.

ForeignAcquire ==
  /\ UseRedis
  /\ slots < GlobalLimit
  /\ slots' = slots + 1
  /\ foreign' = foreign + 1
  /\ UNCHANGED <<registry, promoters, caller, waiter, canceller, files, exits>>

ForeignRelease ==
  /\ foreign > 0
  /\ slots' = IF slots >= 1 THEN slots - 1 ELSE slots
  /\ foreign' = foreign - 1
  /\ UNCHANGED <<registry, promoters, caller, waiter, canceller, files, exits>>

-----------------------------------------------------------------------------
Next ==
  \/ \E r \in Reqs : Submit(r) \/ CallerPopen(r) \/ Register(r)
  \/ PromotePick
  \/ \E e \in Reqs : PromotePopen(e) \/ PromoteCommit(e)
  \/ \E id \in RunIds : CancelQueued(id)
  \/ \E e \in Reqs : \/ CancelFinish(e) \/ PutBlocks(e)
                       \/ WorkerExit(e) \/ Unregister(e) \/ Retire(e)
  \/ ForeignAcquire
  \/ ForeignRelease

Spec == Init /\ [][Next]_vars

(***************************************************************************)
(* Threads of the broker keep running, and workers and foreign workers end *)
(* (the run timeout and cancellation are what ends them), unless a put     *)
(* blocks: PutBlocks disables WorkerExit for good, and nothing here        *)
(* prevents it.  Nothing makes a client submit, cancel or leave.           *)
(***************************************************************************)
Fairness ==
  /\ \A r \in Reqs : WF_vars(CallerPopen(r) \/ Register(r))
  /\ WF_vars(PromotePick)
  /\ \A e \in Reqs : WF_vars(PromotePopen(e)) /\ WF_vars(PromoteCommit(e))
  /\ \A e \in Reqs : WF_vars(CancelFinish(e) \/ WorkerExit(e) \/ Unregister(e) \/ Retire(e))
  /\ WF_vars(ForeignRelease)

FairSpec == Spec /\ Fairness

-----------------------------------------------------------------------------
\* Type invariant of the registry, its threads and the shared counter.
TypeOK ==
  /\ runs \in [RunIds -> Reqs \cup {None}]
  /\ fifo \in Seq(RunIds)
  /\ hasProc \in [Reqs -> BOOLEAN]
  /\ caller \in [Reqs -> {"new", "popen", "started", "queued", "running"} \cup Rejected]
  /\ waiter \in [Reqs -> {"none", "wait", "blocked", "exited", "popped", "done"}]
  /\ canceller \in [Reqs -> {"none", "popped", "done"}]
  /\ scanning \in Nat
  /\ spawning \in [Reqs -> Nat]
  /\ spawned \in [Reqs -> Nat]
  /\ files \in SUBSET Reqs
  /\ exits \in [Reqs -> Nat]
  /\ slots \in Nat
  /\ foreign \in Nat

-----------------------------------------------------------------------------
Registered(r) == runs[RunIdOf[r]] = r
Waiting(r) == Registered(r) /\ ~hasProc[r]
InFifo(id) == \E i \in 1..Len(fifo) : fifo[i] = id
Holders(r) == spawning[r] + spawned[r]

\* Workers for which this broker owes Redis a release.
Workers == {r \in Reqs : waiter[r] \in {"wait", "blocked", "exited", "popped"}}

\* Workers that never retire and keep their local slots.
Stuck == {r \in Reqs : waiter[r] = "blocked"}
AllStuck == Cardinality(Stuck) >= MaxRuns

\* The broker never holds more registered workers than GC_RUN_BROKER_MAX_RUNS,
\* although callers and any number of promoting threads start processes
\* without the lock and decide what to do with them later.
RunningCap == Cardinality(Running) <= MaxRuns

\* A registered run without a process is in the FIFO, or some promoting thread
\* holds it: no interleaving of promotion, cancellation and reuse of a run id
\* forgets it.
NoLostRun == \A r \in Reqs : Waiting(r) => InFifo(RunIdOf[r]) \/ Holders(r) > 0

\* ... and in one place only: the FIFO repeats no id and lists only waiting
\* runs, at most one thread holds an entry, and what a thread holds is not in
\* the FIFO.  A run placed twice would get two workers.
PlacedOnce ==
  /\ \A i, j \in 1..Len(fifo) : fifo[i] = fifo[j] => i = j
  /\ \A i \in 1..Len(fifo) : runs[fifo[i]] # None /\ ~hasProc[runs[fifo[i]]]
  /\ \A r \in Reqs : Holders(r) <= 1
  /\ \A r \in Reqs : Waiting(r) /\ Holders(r) > 0 => ~InFifo(RunIdOf[r])

\* Once cancel has taken a queued run out of the registry no worker is ever
\* attached to it, whatever a promoting thread was doing with it.
CancelledNeverRuns == \A r \in Reqs : canceller[r] # "none" => waiter[r] = "none"

\* A run gets its exit frame once, and only when it was cancelled in the queue
\* or its worker has ended.
ExitOnce ==
  \A r \in Reqs :
    exits[r] = IF waiter[r] \in {"exited", "popped", "done"} \/ canceller[r] = "done"
               THEN 1 ELSE 0

\* In strict mode, or when no Redis call fails, the shared counter is never
\* less than the workers of all brokers and never above the limit, so the
\* cluster-wide cap holds: lost replies and lost releases only waste slots.
ClusterCap ==
  UseRedis /\ (Strict \/ ~RedisFaults) =>
    /\ foreign + Cardinality(Workers) <= slots
    /\ slots <= GlobalLimit

\* A queued run is eventually started or cancelled, if other brokers
\* eventually leave the cluster-wide slots alone and clients that have left do
\* not keep every local slot: one free slot is enough to serve the whole FIFO.
QueuedIsServed ==
  <>[](foreign = 0) => \A r \in Reqs : Waiting(r) ~> ~Waiting(r) \/ AllStuck

\* Every run the broker accepted eventually gets its exit frame, under the same
\* conditions, unless it is itself one that a client that has left keeps.
AcceptedRunExits ==
  <>[](foreign = 0) =>
    \A r \in Reqs :
      caller[r] \in {"queued", "running"} ~>
        exits[r] = 1 \/ r \in Stuck \/ AllStuck

\* What a client can tell of a request, as the abstract pool sees it.
Life ==
  [r \in Reqs |->
    CASE Waiting(r) -> "waiting"
      [] Registered(r) /\ hasProc[r] -> "running"
      [] canceller[r] # "none" \/ waiter[r] \in {"popped", "done"} -> "ended"
      [] caller[r] \in Rejected -> "refused"
      [] OTHER -> "new"]

Pool == INSTANCE RunPool WITH life <- Life

\* The registry implements the abstract pool: whatever its threads interleave,
\* a client sees requests refused, queued, started, cancelled and ended within
\* the limits of RunPool.
ImplementsPool == Pool!Spec

\* The FIFO holds at most GC_RUN_BROKER_PENDING_MAX runs.  Not claimed: the
\* appendleft of a promoter breaks it when a newcomer has taken the free place.
PendingCap == Len(fifo) <= PendingMax

=============================================================================
