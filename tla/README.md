# GraphCaster in TLA+

A verification development for GraphCaster: a visual editor of executable
graphs (`ui/`), a Python runner that executes them (`python/graph_caster`), and
a run broker (`graph_caster serve`) that starts runner processes for clients,
queues them, streams their output and cancels them.

The modules follow one run from the canvas to the worker and back: the document
in the editor and its files, the checks that gate Run, the run sessions of the
browser, the broker with its registry and its streams, the runner's loop, and
the feed of events into the browser's console. These are the parts in which
threads, processes, callbacks, clients and other programs act on shared state.
Paths refer to `src/python/graph_caster/`, those that begin with `ui:` to
`src/ui/src/`.

## 1. The system

| Component | State it keeps | Operations | Who it talks to |
|---|---|---|---|
| `run_broker/registry.py` `RunBrokerRegistry` | `_runs`, `_pending_fifo`, `entry.proc`, temporary documents | `spawn_from_body`, `_promote_fill`, `cancel`, the waiter and the pumps of a worker | HTTP/WebSocket handlers call it; it starts worker processes; it takes slots in Redis |
| `run_broker/redis_coord.py` | the counter `global_active_workers` in Redis | two Lua scripts, strict and default mode | all brokers of a cluster |
| `run_broker/broadcaster.py` `RunBroadcaster` | ring `_replay`, list `_subs`, per subscriber a queue and drop counters | `broadcast`, `subscribe`, `subscribe_with_replay`, `unsubscribe`, back-pressure warnings | pumps and waiter write; stream handlers read |
| `run_broker/worker_lost.py` | "was there a `run_finished`" | track a line, decide about a synthetic `run_finished` | stdout pump and waiter |
| `run_broker/routes/{sse,ws,http}.py` | one stream per connection | subscribe, replay, read, disconnect, cancel | registry, broadcaster |
| `runner/graph_runner.py` `GraphRunner` | step queue, barrier arrivals, visit budget, flags in `ctx` | the loop, forks with branch threads, barriers, error routes, pause, final status | one worker process per run; events to stdout |
| `runner/{edge_routing,scheduler_priority}.py`, `step_queue.py`, `fork_parallel.py` | none of their own / the queue | pick an edge, pick a frame, plan branch threads | the loop |
| `runner/node_visits.py`, `process_exec.py` | retries, circuit breaker, step cache | one visit of a node | the loop, child processes |
| `run_sessions.py` | sessions with a cancel event and a heartbeat | register, request_cancel, complete, reap | control stdin, the loop |
| `pause_resume.py`, `cli/commands/resume.py` | checkpoint files and their index | save, load, delete, list; start the resumed process | the loop, the CLI |
| `run_broker/bounded_queue.py` | heap with a bound | put, try_put, get | broadcaster, when configured (it is not by default) |
| `run_broker/idempotency.py` | keys of webhooks with expiry | get, remember | webhook handler |
| `run_broker/heartbeat.py`, `resilience/` | last heartbeat, fired thresholds | tick, heartbeat | supervised processes |
| `scaling/`, `execution/` | leases in Redis or memory | acquire, refresh, release | optional job workers |
| `run_broker_redis_bus.py`, `run_broker/relay/` | a channel and a stream per run | publish, subscribe, replay | other brokers |
| `run_broker_{scheduler,poller,fs_watcher}.py`, `triggers/` | timers and watch state | fire | `spawn_from_body` |
| ui: `run/runSessionStore.ts`, `run/runCommands.ts`, `layout/hooks/useRunSessionController.ts` | live runs, focus, pending starts, per-run consoles | Run, Stop, focus, start, abort, exit | POSTs to the broker; exit events of the transports |
| ui: `run/stepCacheDirtyStore.ts`, `run/nestedStepCacheDirtyBubble.ts` | ids of nodes with a stale step cache | mark, mark parents, clear | edits mark; a run carries the marks and clears them |
| ui: `run/webRunBroker.ts`, `run/transport/*`, `run/ndjsonSeqReorder.ts` | a transport per run, its reconnects, last `seq`, reorder buffer | open, line, reconnect, exit, exhaust, close, sweep | the broker's streams; the session |
| ui: `layout/AppShell.tsx`, `lib/workspaceFs.ts`, `graph/documentHistory.ts`, `layout/hooks/useGraphDocumentHistory.ts`, `components/GraphSaveModal.tsx` | document, history, active file, fingerprint, index, autosave timer and flags | open, edit, undo, redo, autosave, save, overwrite, resolve a conflict | the files of the workspace, which other programs write too |
| ui: `graph/structureWarnings.ts`, `graph/reachability.ts`, `graph/workspaceGraphRefCycles.ts`, `graph/stepCacheDirtyGraph.ts`, `graph/handleContract.ts` | none | issues of a document, cycles of a workspace, downstream nodes | the gate of Run; marks of the step cache; mirrored by `validate.py` |
| ui: `run/nodeRunOverlay.ts`, `graph/*` canvas helpers, `components/`, `pages/`, `app/`, `i18n/` | view state | rendering, forms, REST requests | the stores above; the REST API |
| ui: `collab/` | a Yjs document | merge | not used by the application |
| validation, expressions, artifacts, auth, tenancy, credentials, LLM, RAG, MCP, plugins, observability | files and databases | request-local | single nodes or requests |
| `ui-embed/`, `ui/src-tauri` | one embedded view, one local run | start, kill | broker, or a local worker |

How they interact: the editor autosaves the document to a file and gates Run by
the structure issues; Run starts a job or queues it in the session, a job POSTs
the document and the marks of the step cache, and its transport brings lines and
the exit, which frees the slot for the next job. At the broker a client's POST becomes `spawn_from_body`, which starts a
worker or queues the run. Each worker has two pump threads (stdout, stderr) and
a waiter thread. The pumps call `broadcast`, which puts each line on the queue
of each subscriber; the stream handlers empty these queues. When a worker ends,
the waiter joins the pumps, sends the exit frame, forgets the run, returns the
slot and promotes queued runs. Inside the worker, `GraphRunner` runs the graph;
a cancel request reaches it through stdin as an event it looks at between visits.

Hard behaviours, and what makes each component correct:

* **Registry** - processes are started without the lock, by any number of
  threads at once, while runs are cancelled and ids reused. Correct: the caps
  hold, no run is lost, doubled or revived, each accepted run ends with one exit
  frame, every queued run is served.
* **Redis slots** - lost replies, outages, other brokers. Correct: in strict
  mode the counter never falls below the number of workers.
* **Stream** - three writers, clients that come and go at any moment, bounded
  queues. Correct: nothing structured is missed between replay and live, lines
  stay in order, drops are accounted for, `run_finished` comes once and before
  the exit frame, streams end.
* **Runner** - branch threads that arrive at one barrier, cancellation at any
  moment, cycles, exceptions, pause and resume. Correct: a barrier opens once
  and only after all its predecessors succeeded, the final status agrees with
  what happened and a failure is explained, every process ends.
* **Browser sessions** - answers, exits, errors and timers arrive in any order,
  each for a run that may have left already. Correct: the cap holds, no slot is
  free while a job waits, per-run state goes with the run, a mark of the step
  cache is cleared only by a run that carries it.
* **Event feed** - broken connections, replays, swapped and repeated lines, a
  bounded reorder buffer. Correct: each line once and in order; what is not
  shown never came; the feed ends.
* **Editor and files** - saves that span several awaits while the user edits,
  undoes, opens other files, and other programs write the same files. Correct:
  files keep their graphs, outside changes are not overwritten unasked, unsaved
  work is pending or its failure was told.
* **Graph checks** - a second implementation of the runner's rules, and searches
  over cyclic graphs. Correct: the gate refuses what the runner refuses.
* **Checkpoint store, sessions, leases, idempotency, heartbeats** - expiry and
  check-then-act across files, keys and clocks. Correct: an index never hides a
  checkpoint, a live run is never reaped, a lease has one holder.

`PROJECT.json` lists the hazards one by one with their lines.

## 2. Modules

| Module | What it is |
|---|---|
| `RunPool` | abstract: what a client is promised about its requests |
| `RunRegistry` | registry, waiter threads, promoters, Redis counter, a second broker |
| `RunStream` | one run's pumps, waiter, broadcaster, replay ring and clients |
| `RunEngine` | one worker: the loop, branch threads, cancellation, pause, resume |
| `RunSession` | the runs of one browser session and the marks of the step cache |
| `EventFeed` | one run's transport, reconnects, gap detector and reorder sink |
| `WorkspaceEditor` | the document, its history, autosave and saves, the files and other programs |
| `GraphReach`, `GraphRefCycle` | the editor's searches: breadth first over a document, depth first over a workspace |
| `GraphCheck` | composes both searches into the editor's gate and the marks of an edit, beside the runner's own validation |
| `RunRegistryProofs`, `RunStreamProofs`, `RunEngineProofs`, `RunSessionProofs`, `EventFeedProofs`, `WorkspaceEditorProofs`, `GraphCheckProofs` | theorems about the module they are named after |
| `MC...` | constants for TLC |

`RunPool` is implemented by `RunRegistry` (`ImplementsPool`, refinement mapping
`Life`). `RunStream` details what `RunRegistry` shows as one step (`WorkerExit`:
the process has ended, the pumps are joined, the exit frame is sent), and
`RunEngine` what happens inside one worker; the interface between them is the
`run_finished` line and the end of the process. `RunSession` sees the broker as
answers and streams, `EventFeed` sees it as numbered lines: what they assume of
it (a replay above `since_seq`, an exit frame last, a line sent twice at the seam
of replay and live) is what `RunStream` shows or fails to show.

### RunRegistry

An element of `Reqs` is one call of `spawn_from_body` and the `RegisteredRun` it
may create; `RunIdOf` gives the id, which calls may share, because the code's
checks for identity (`cur is not entry`) exist for reused ids.

| Code | TLA+ |
|---|---|
| `_runs`, `_pending_fifo`, `entry.proc is not None` | `runs`, `fifo`, `hasProc` |
| `spawn_from_body`: first section, Popen, second section | `Submit`, `CallerPopen`, `Register` |
| `_promote_fill`: pick, Popen, commit | `PromotePick`, `PromotePopen`, `PromoteCommit` |
| `cancel` of a queued run: under the lock, after it | `CancelQueued`, `CancelFinish` |
| waiter: exit frame, `_runs.pop`, the rest | `WorkerExit`, `Unregister`, `Retire` |
| a put on the queue of a client that has left (`broadcaster.py`) | `PutBlocks`: the waiter never comes past its exit frame |
| `try_acquire_global_run_slot`, `release_global_run_slot` | `AcquireSlot`, `ReleaseSlot` |
| other brokers | `ForeignAcquire`, `ForeignRelease` |

Promoting threads are anonymous in the code, so they are counted (`scanning`,
`spawning`, `spawned`). `exits` is a history variable. A cancel request to a
running worker only writes a line to its stdin and changes nothing here.

### RunStream

| Code | TLA+ |
|---|---|
| `broadcast`: stamp, ring, snapshot of `_subs`, deliveries | `Stamp`, `Record`, `Fanout`, then `Deliver` or `Drop` per subscriber |
| `_maybe_emit_backpressure`: section under `bp_lock`, the put | `TakeDrops`, `Warn` |
| `pump_out`, `pump_err` | `Read`, `PumpReturn`, `Eof` |
| waiter: joins, synthetic `run_finished`, exit, pop | `Join`, `WaiterSend`, `WaiterReturn`, `Pop` |
| `subscribe`, `subscribe_with_replay` | `Subscribe` |
| stream handlers | `Get`, `Leave`, `GhostGet` (a thread left behind in `q.get`) |

A line is its class, which is all the code looks at. A worker writes at most one
`run_finished` (`FinishedAssumption`): only the outermost of the nested runners
emits it (`runner/graph_runner.py:1328`). `base`, `got`, `told` and
`timedOut` are history variables for the properties. Deliveries to different
subscribers happen in any order, as in the thread pool; with a single subscriber
the code delivers in the calling thread, which is the same here. The pool's limit
of 16 threads, the relay hook, the priority queue path and the run's queued
notice (which has no subscriber yet) are left out.

### RunEngine

A document is the kinds of its nodes and their success and error edges in
document order, with the options of the run; which condition holds and how a
visit ends are choices.

| Code | TLA+ |
|---|---|
| head of the loop: budget, cancel, pick | `LeaveLoop`, `StopOnCancel`, `Pop` |
| `_dispatch_node_by_type` and what follows a visit | `VisitPlain`, `VisitExit`, `VisitTask`, `VisitRef`, `VisitHuman`, `VisitFork`, `Leave` |
| `_enqueue_fork_branches`, sequential | `FanOut` per edge |
| `_fork_parallel_branch_worker` | `WorkerBegin`, `WorkerOk`, `WorkerArrive`, `WorkerFail`; the loop waits in `JoinBranches` |
| `_merge_barrier_arrive` under the state lock | `Arrive` |
| `_run_from_root_finally` | `Finish` |
| `request_cancel` | `RequestCancel`, at any moment |
| `graph-caster resume` | `Resume`: a new process, the old answers |

`visits`, `done` and `reasons` are history variables (`reasons` is what the
events of the process say about its end). A nested graph is one visit with any
outcome, so its own checkpoint and events are not seen here. Not modelled: the
step cache, pins, retries inside a visit, `ai_route`'s choice of an edge (a
condition like any other), a run id that is already registered.

### RunSession

| Code | TLA+ |
|---|---|
| `liveRunOrder`, `focusedRunId`, `pendingStarts`, `consoleByRunId` | `live`, `focused`, `pending`, `buffers` |
| Run, Stop, focus selector, step-cache checkbox | `Run` (`LaunchNow` or `Enqueue`), `Stop`, `Focus`, `ToggleStepCache` |
| `launchGcStartJob` before its await, after it, its catch | `Launch`, `StartOk`, `StartFailed` |
| `runSessionAbortRegisteredRun`, `runSessionOnRunProcessExited` | `RemoveAndPromote` |
| transport events `line`, `exit`, `close` | `Line`, `ExitFrame`, `Exhausted`; then `ExitProcessed` after the dynamic import |
| `cancelWebBrokerRun`, its failure, the sweep, unmounting | `CancelAnswered`, `CancelFailed`, `Sweep`, `LeaveEditor` |
| `addStepCacheDirtyIds`, the chain of `markStepCacheDirtyWithBubble` | `MarkDirty`, `BubbleMark` |

Callbacks of a browser run one at a time, so a callback up to its first await is
one action. With `SilentStreams` an open stream may end without a frame
(`FallsSilent`), as `EventFeed` and `RunRegistry` show it can. `late` is a history variable: the nodes marked while a start request
was in flight. Left out: replay of saved runs, overlays, settled visuals, the
trimming of consoles, the desktop bridge.

### EventFeed

| Code | TLA+ |
|---|---|
| `withReconnect`: open, inner close, timer, close | `Connected`, `Disconnected` (`Reopen`), `TimerFires`, `Close` |
| sink: `nextSeq`, `pending`, `tryDrain`, the overflow branch | `next`, `held`, `Drain`, `Overflows` in `Accept` |
| `maybeLogSeqGap` | `LogGap` |
| transport `line` and `exit` handlers | `LineArrives`, `ExitArrives` |
| the broker: `broadcast`, its relay hook, exit frame, `_runs.pop`, a blocked put | `Issue`, `IssueSwapped`, `BrokerExit`, `BrokerForgets`, `BrokerStalls` |
| its ring and `subscribe_with_replay` | `Kept`, `Replayed`, `ExitReplayed` in `Connected` |

A line is its `seq`. `missed` and `late` are history variables: lines no
connection brings any more, and whether the last connection was made too late for
the exit frame. The frame is recorded in the ring under the `seq` of the last
line, so a client that connects between the fan-out and `_runs.pop` gets it if it
asks for a line as well, and else waits for good. Lines without `seq` pass through the sink and are left out. The broker
swaps at most two neighbours; it drops only lines of `Droppable`.

### WorkspaceEditor

| Code | TLA+ |
|---|---|
| `graphDocument`, history, `activeWorkspaceFile`, `workspaceDiskBaselineRef`, `workspaceIndex` | `doc`, `past`, `future`, `active`, `baseline`, `index` |
| the autosave effect: dependencies, timer, fingerprint or none, write, fingerprint or none | `Arms`, `AutosaveFires`, `Check` or `CheckBlind`, `Write` or `WriteFails`, `SaveDone` (`BaselineAfterSave`) |
| `saveDocumentToWorkspace`, the save dialog | `SaveTo`, `SaveAnyway`, `SaveCancelled`, `Rescanned`, and the same steps |
| conflict dialog | `Reload`, `Overwrite`, `Pause` |
| `onOpenWorkspaceGraph`, `onNewGraph`, `onFileChange` | `Open`, `OpenDone`, `OpenFails`, `NewGraph` |
| other programs | `OutsideWrite` |

What a handler does between two awaits is one action. A fingerprint is modelled
by whether it is still that of the file, so two different contents never have
the same fingerprint (the code compares time and size). Any read may fail: a scan
passes over such files (`index` is a partial function), a fingerprint is then
missing (`CheckBlind`, and the choice `taken` in `SaveDone`), an open ends. Other
programs may put the graph of one file into another. `unseen`, `lost` and
`unguarded` are history variables that name what the code cannot know: an outside
change nobody was told about, a graph that some scan has not found in its file, a
file that was left open without a fingerprint.

### GraphReach, GraphRefCycle, GraphCheck

A document is the types of its nodes and edges `<<source, target, handle>>`; a
workspace is the relation of references between graph ids. `Visit` is one round
of the breadth-first search, `SearchCycle` one step of the depth-first search
(call, look at a target, return). `FindStructureIssues`, `FindDirty` and
`AddCycleIssue` are what the callers make of the results. `Refusals` is the same
document judged by the other implementation: `DocumentErrors` is the runner's
`validate_graph_structure`, `WorkspaceErrors` what `run` finds in the graphs
directory it is given. That directory is a setting of its own, so an input has the
opened workspace (`linked`, `refs`) and the run's (`runDir`, `runRefs`) apart. Of the issues about the fields of
single nodes, none blocks a run, and they are left out.

## 3. What the runs check

| Run | Bounds | Result |
|---|---|---|
| `registry_safety` | 4 calls, 3 ids (2 calls share one), 2 local slots, FIFO of 1, strict Redis with faults and limit 2, one foreign counter, Popen faults | holds |
| `registry_live` | 4 calls with 4 ids, 2 slots, FIFO of 2, no Redis, blocked puts; fairness | holds, refinement included |
| `stream_safety` | 1 client, queue of 1, ring of 2, 3 stdout lines, 1 stderr line | holds |
| `stream_live` | 2 clients, 2 lines; fairness | holds |
| `engine_safety` | 1163 documents of at most 7 nodes; fairness | holds |
| `engine_resume` | one document | `ResumedRunSucceeds` violated |
| `session` | 2 runs, 1 slot, 1 node, WebSocket, silent streams; fairness | holds |
| `session_stop` | 2 runs, 1 slot, server-sent events, no silent streams; fairness | `QueuedJobStarts` violated |
| `feed` | 8 lines, ring of 4, buffer of 1, 3 reconnects in a row, 2 droppable lines; fairness | holds |
| `editor` | 2 files, 2 save slots, history of 1, 2 versions; at most 2 of operations under way, faults of files and special modes together (`MCBound`); both sets symmetric | holds |
| `editor_undo` | 1 file, 1 save slot, history of 2 | `UndoStands` violated |
| `graph` | 14715 inputs: documents of 3 nodes, workspaces of 3 graphs, 5 kinds of graphs directory | holds |

Why the bounds suffice to be interesting. In the registry two promoters, a
canceller and a caller need to meet around one entry, and a reused id needs a
second call: three calls do it, the fourth fills the slot meanwhile. The FIFO of
one overflows with the first entry put back. For progress two slots are the least:
one may be blocked for good, and the other has to serve a FIFO of two. In the stream a queue of one is
full after one line, a ring of two evicts, and a stderr line lets two pumps
interleave. The engine's documents combine every kind of node with conditional,
error and shared edges around one fork and one barrier; cycles, partial runs and
the plain scheduler have documents of their own, and so have a barrier with a
predecessor that no edge leads to and a fork with a dead end, which show why
`JoinsComplete` needs its hypotheses (it fails on them without). The budget `MaxSteps` is the
code's own (four times the nodes). Most passing runs stop when all work is done,
so deadlock is not an error in them; liveness covers "nothing more happens".

In the session one slot makes every second job queue, and the two runs can be in
any two stages, so a late answer, exit or exhaustion of one always meets a
promotion of the other; a node is enough because marks do not interact. In the
feed a buffer of one overflows with the second line kept, two neighbours swapped
before a reconnect put a held line between the last flushed and the last seen,
and a ring of four loses lines that an eight-line run still has to pass. In the
editor two files and two overlapping operations give every pair of save, open
and outside write. Its constraint (`MCBound`) counts operations under way, faults
of the files (a graph that a scan has lost, a missing fingerprint, a graph of
another file) and modes (paused, conflict dialog, force flag, failure banner, a run
that blocks) and keeps states with at most two of them, so every pair of them
occurs and a third is cut off; the theorems do not have that bound. Three nodes make a cycle, a join, a chain and an
unreachable node; three graphs make cycles of every length up to three, with
tails.

What the properties say:

* `NoLostRun`, `PlacedOnce` - a waiting run is in the FIFO or in the hands of
  exactly one promoter. `CancelledNeverRuns`, `ExitOnce` - cancellation against
  promotion, with reuse of the id. `RunningCap`, `ClusterCap` - the caps,
  although processes start outside the lock and Redis replies are lost.
  `QueuedIsServed`, `AcceptedRunExits` - progress, although a put on the queue of a
  client that has left may block a run for good: one slot that is not blocked is
  enough to serve the queue, and a run that is not blocked gets its exit frame.
  `ImplementsPool` - the refinement of `RunPool`.
* `NoGap`, `CompleteAtExit`, `InOrder` - a client, whenever it connects, misses
  and reorders nothing structured. `DropsAccounted` - the arithmetic of the
  drop counters across the lock's release. `OneRunFinished` - worker's own or
  synthetic. `StreamEndsIfAllStay` - the exit frame arrives.
* `MergeAfterAll`, `MergeOnce`, `JoinsComplete` - barriers. `SuccessStands`,
  `CancelledOnRequest` - the final status. `RunEnds` - termination.
* `NoIdleSlotWithQueue`, `PerRunStateReleased` - the session's bookkeeping across
  aborts, exits and double exits. `DirtyReachesRun` - no mark of the step cache
  is lost to a run that does not carry it, except marks made while a start
  request is in flight, which the code does lose. `QueueMovesUnlessCut` - the
  queue moves unless a stream was closed without its exit or fell silent.
* `InOrderOnce`, `HolesAreMissed`, `WithheldOnlyIfMissed` - the reorder sink
  together with reconnects. `FeedEnds` - no endless reconnecting and no endless
  silence, unless the broker's run is blocked in a put or the last connection was
  made between the exit frame and `_runs.pop`, and gets no frame from the ring.
* `FileKeepsGraph` - no save puts a graph into another file, not even a late one
  or one of a document that another program has put into the wrong file, as long
  as every scan has found the graph in its own file. `AutosaveAsksFirst` - the
  fingerprint is compared with the one the save began with, whenever there was one
  to compare. `UnsavedIsPending` - nothing unsaved without a timer, a save that can
  succeed, or a message, except a document whose graph the index has in another
  file. Each exception is one the code makes, and without it TLC shows a
  violation.
* `ReachIsLeast`, `CycleVerdict` - the searches against their definitions (least
  closed set; acyclic = every set has a sink). `GateAgrees` - two
  implementations of one rule set. What the editor refuses the runner refuses,
  unless the only issue is a cycle and the run does not get the opened workspace.
  What the editor lets run the runner refuses only for handles that do not fit (a
  warning in the editor), edges into a `trigger_error` node and a missing graph id
  (which the editor does not look at and exports as `default`), a graphs directory
  that cannot be indexed, or a cycle in a workspace that is not the opened one.

`InOrder`, `CompleteAtExit` and `OneRunFinished` exclude runs in which the 60 s
join of a pump timed out; `SuccessStands` and `CancelledOnRequest` exclude
documents whose visits raise unexpected exceptions, because a raising branch
marks the run as cancelled. `JoinsComplete` is about runs that were not resumed,
in documents whose edges are all taken and without dead ends (`TakesEveryEdge`)
and whose barriers wait only for nodes that can be reached without them
(`BarriersAttainable`): a barrier with an unreachable predecessor, or one ended
early by a branch without an edge, is incomplete although no visit failed, and the
engine says so (`merge_barrier_incomplete`), which is what it should do.

What these properties do not reach: the order of events after a timed-out join,
marks made during a start request, cancellations between two attempts inside a
visit, a workspace index older than its files. `PROJECT.json` lists these hazards
with the reason.

### Disagreements found

Three runs end in a violation; `findings` in `PROJECT.json` quotes the lines.

* `engine_resume`: a pause inside a fork cannot be resumed successfully.
* `session_stop`: Stop closes the stream whose exit event frees the slot; the
  cancelled run stays live in the session and the queue stands still.
* `editor_undo`: an autosave puts its document back on the canvas after three
  awaits; an undo or an edit made meanwhile is lost.

### Known disagreements without a run

These statements are definitions of the modules that no run claims, because the
code breaks them. Each can be reproduced by naming the definition in a
configuration with the constants given here.

| Statement | Says so | What happens |
|---|---|---|
| `QueuedIsServed` (`RunRegistry`), with `UseRedis` and `GlobalLimit = 1` | `src/python/README.md:57`: a start without a free slot goes into the FIFO | a run queued because another broker holds the last slot of the cluster is looked at again only when a run of its own broker ends (`registry.py:509-524`, 295, 554) |
| `PendingCap` (`RunRegistry`), `MaxRuns = 1`, `PendingMax = 1` | the same line: 503 when the FIFO is full | an entry put back with `appendleft` exceeds the limit when a newcomer took its place (`registry.py:380`, 389) |
| `NoDoubleDelivery` (`RunStream`) | docstring `broadcaster.py:281-283` | a client that subscribes between `_record_for_replay` and the fan-out gets the line twice |
| `DropsTold` (`RunStream`) | comment `broadcaster.py:205-207`: the client must learn about drops | the warning times out or is rate limited and nothing retries it |
| `StreamEnds` (`RunStream`), two clients that may leave | `src/doc/IMPLEMENTED_FEATURES.md:501`: one slow client does not block the others | a blocking put on the full queue of a departed client blocks the pump (`broadcaster.py:239`, 317) |
| `FailureExplained` (`RunEngine`), a fork and its barrier on a loop | `src/python/README.md:110`: an open barrier is reported | the second round's arrivals are swallowed and the run fails without an error event (`graph_runner.py:347-373`) |
| `FeedEnds` (`EventFeed`) without `late` | `src/python/README.md:57`: the exit code comes as `event: exit` on `GET /runs/{runId}/stream` | a client that connects after the fan-out of the exit frame (`registry.py:290`) and before `_runs.pop` (292) is accepted; the ring gives it the frame only if its `since_seq` is below the last line, and else it waits in `q.get` for good |
| `GapSurfaced` (`EventFeed`) | comment on `lastSeqByRunId` in ui: `run/webRunBroker.ts` | lines lost before the first or after the last that arrived are not reported (189-204) |

### Fairness

Registry: every thread that has something to do goes on, and workers end (a run
has a timeout, and a client can cancel); nothing makes a client submit or
cancel. A put on the full queue of a client that has gone may block a worker's
pump or waiter for good (`PutBlocks`, which needs no fairness and ends that of
`WorkerExit`); the two liveness properties speak of the runs for which a slot
without such a worker is left. `QueuedIsServed` and `AcceptedRunExits` assume in addition that other
brokers eventually leave the slots alone. Stream: threads of the broker run on,
the worker ends, a connected client reads; nothing makes a client connect or
leave. Session: a request is answered or fails, a worker ends, an open stream
reports the end or gives up unless it has fallen silent, a scheduled callback runs; nothing makes a user
press a button. Feed: the worker issues its lines and ends, the broker forgets a run it has sent the exit
of, a connection is made or fails, a timer
fires, and what was sent on a connection arrives unless it breaks; it may break
at any time, which the bounded count of attempts answers. A put may block the
broker before or after the exit frame, and nothing ever has to end a connection
on which nothing more comes. Editor and graph runs
check safety only. Engine: the threads of the process run on and each visit ends, because
visits have timeouts; nothing makes anyone cancel or resume. All of it is weak
fairness of one thread's steps; no strong fairness is needed.

## 4. Proofs

`RunRegistryProofs` proves for all values of the constants (any finite set of
calls, any ids, limits, with and without Redis, strictness and faults):

| Theorem | Property |
|---|---|
| `TypeCorrect` | `TypeOK` |
| `RunningCapCorrect` | `RunningCap` |
| `ExitOnceCorrect` | `ExitOnce` |
| `CancelledNeverRunsCorrect` | `CancelledNeverRuns` |
| `PlacedOnceCorrect` | `PlacedOnce` |
| `NoLostRunCorrect` | `NoLostRun` |
| `ClusterCapCorrect` | `ClusterCap` |
| `ImplementsPoolCorrect` | `ImplementsPool`, the refinement of `RunPool` |

Assumptions: those of `RunRegistry` (`ReqsAssumption`, `RunIdsAssumption`,
`LimitsAssumption`, `FlagsAssumption`), which are the clamps of the code's
configuration and are evaluated by TLC on every run.

None of the properties is inductive by itself. `ExitOnce` and
`CancelledNeverRuns` depend on how far each entry has come, so `Lifecycle` ties
an entry's stage to all variables that mention it: whether it is registered, has
a process, where its caller, waiter and canceller are, and how many exit frames
it has. `NoLostRun` and `PlacedOnce` are each other's induction hypothesis (an
entry put back may be doubled unless it was in no other place), so they are
proved together as `Placed`, which also says that everything in the FIFO waits
and that a promoter's entry has been queued. Lemmas about appending, prepending,
removing and cutting (`AppendFacts`, `PrependFacts`, `RemoveFacts`, `TailFacts`,
`CutFacts`) say what each change of the FIFO does to its elements; `NextEffect`
lists once what a step may do.

`ClusterCap` is inductive given `Lifecycle`: without it a worker could be launched
for an entry that has one, or retired twice. `SlotStepCases` reduces every action
to five moves of the pair of workers and counter, and one count of a finite set
decides each. `ImplementsPool` is proved step by step: the initial states map to
that of the pool, and `PoolEffect` shows for each action which step of `RunPool`
it is, or that the lives do not change. The cases of the mapping `Life` exclude
each other only under `Lifecycle` (`LifeValue`), and a start stays within
`MaxRuns` because the registered workers are exactly the pool's running requests
(`RoomInPool`), so the refinement rests on the same invariant.

`RunStreamProofs` proves for any finite set of connections, any lines of the
worker with at most one `run_finished`, any queue depth and any ring, also none:

| Theorem | Property |
|---|---|
| `StreamTypeOK` | `TypeOK`, with the bounds of the ring and the queues |
| `StreamNoGap` | `NoGap` |
| `StreamInOrder` | `InOrder` |
| `StreamCompleteAtExit` | `CompleteAtExit` |
| `StreamOneRunFinished` | `OneRunFinished` |
| `StreamDropsAccounted` | `DropsAccounted` |

Assumptions: `ConnsAssumption`, `LinesAssumption`, `FinishedAssumption`,
`SizesAssumption`.

* `StreamInv`: every message anywhere has a key, and a number that is its place in
  `issued`, and a delivery is under way only while its thread is in the fan-out.
* `NoGap` is inductive with `RingInv`: each numbered line is in the ring, has
  fallen out of it, or is about to be filed. Its hard step is `Subscribe`, where the
  promise begins: what the ring still has beyond `since_seq` is replayed
  (`FiledAfterFacts`), what was evicted was not promised, and what is stamped but
  not filed is in flight to whoever is subscribed by the time of its snapshot.
* `WaiterInv` says which message each thread broadcasts in each of its states and
  that the pumps are at their end when the waiter is past an untimed join. From it
  `FinInv` follows the tracker: `saw`, or the line in the pump's hands, says whether
  `run_finished` was read, so the waiter's choice is right at the moment it looks.
* `LatestInv`: a numbered message that is being broadcast has the highest number of
  all, because only one thread at a time gives numbers unless a join timed out.
  Hence `OrderInv`: ring, queue and what was sent are sorted, and the queue comes
  after what was sent. `IdleInv` says nobody delivers to a connection before it
  subscribes.
* `ExitInv`: the exit frame is the last message of a queue, and by then nothing
  else is under way (`Quiet`), so `NoGap` leaves only the queue and the client as
  places for a structured line.
* `DropsInv` writes the account of `DropsAccounted` as a sum over the connections
  of sums over the threads; it needs `OwedInv`, that only a warning being put owes
  anything, or a fan-out could forget it. A step changes one entry
  (`AccountChange`). The lemmas on sums (`SummedExists`, `SummedChange`, `SumOfIs`)
  show what the folds of the community modules compute, by the smallest
  counterexample among the cardinalities of subsets, because the library's induction
  theorems cannot be used.

`RunEngineProofs` proves for every finite set of nodes and every set of
documents, whatever their conditions, visits, branch threads, cancellations and
resumes turn out to be:

| Theorem | Property |
|---|---|
| `EngineTypeOK` | `TypeOK`, with the budget of visits |
| `EngineMergeAfterAll` | `MergeAfterAll` |
| `EngineMergeOnce` | `MergeOnce` |
| `EngineSuccessStands` | `SuccessStands` |
| `EngineCancelledOnRequest` | `CancelledOnRequest` |
| `EngineJoinsComplete` | `JoinsComplete` |

Assumptions: `NodesAssumption` and `GraphsAssumption`, of which the proofs need
that edges lead to nodes of the document and that a run starts at a start node
(the engine's validation of a document; `run --start` skips it and may start at
a barrier, and is not modelled).

`MergeOnce` says nothing about the step queue, where a barrier waits between its
last arrival and its visit. `Staged` follows one barrier all the way: it is in
the queue at most once and only while unvisited, it has been scheduled whenever
it is queued or visited, its arrivals are nodes whose visit ended well, and they
cover its predecessors once it is scheduled. `LoopInv` says what makes the
arrivals honest: the loop and the branch threads report only for nodes in
`done`, threads never run a barrier, a resumed process never starts at one. The
lemmas `ArriveStages`, `EnqueueStages`, `SendStages` and `PopStages` show what
each change of the board does to a barrier, so that the step lemmas only have to
say which change an action makes (`Moved`). The two properties of the final
status follow from `VerdictInv`: a run that still visits has no flags, except
those a branch thread left after a request to cancel, and such a run does not
visit again.

`JoinsComplete` relates the end of a run to its whole past. `FlowInv` says that as
long as nothing failed, for every edge of every node whose visit ended well the
target is underway (queued, visited or in a thread), or the barrier at its end
knows of the arrival, or the edge is one the loop or a thread has yet to take.
When such a run comes to its end with an empty queue, the nodes whose visits
ended well are closed under the taking of edges, so by `BarriersAttainable` every
barrier's predecessors are among them, it knows of all of them, and has been
scheduled. A loop that stopped on its budget reports that instead (`EndErrors`).

`RunSessionProofs`, `EventFeedProofs` and `WorkspaceEditorProofs` prove for any
number of runs, slots, nodes, lines, reconnects, files, saves and versions:

| Theorem | Property |
|---|---|
| `SessionTypeCorrect`, `SessionNoIdleSlot`, `SessionStateReleased`, `SessionDirtyReachesRun` | `TypeOK`, `NoIdleSlotWithQueue`, `PerRunStateReleased`, `DirtyReachesRun` |
| `FeedTypeCorrect`, `FeedInOrderOnce`, `FeedHolesAreMissed`, `FeedWithheldOnlyIfMissed` | `TypeOK`, `InOrderOnce`, `HolesAreMissed`, `WithheldOnlyIfMissed` |
| `EditorFileKeepsGraph`, `EditorAutosaveAsksFirst`, `EditorUnsavedIsPending` | `FileKeepsGraph`, `AutosaveAsksFirst`, `UnsavedIsPending` |
| `ReachCorrect`, `CycleCorrect`, `GateCorrect` (`GraphCheckProofs`) | `ReachIsLeast`, `CycleVerdict`, `GateAgrees` |

Their assumptions are the named ones of the modules (`RunsAssumption`,
`CapAssumption`, `TransportAssumption`; `LastSeqAssumption`, `BrokerAssumption`,
`LimitsAssumption`; `FilesAssumption`, `DepthAssumption`, `VersionAssumption`;
`NodesAssumption`, `GraphIdsAssumption`, `InputsAssumption`): finite sets of ids,
positive limits, the clamp of `getMaxConcurrentRuns`.

* `SessionInv` adds to the properties that a run which was not started has no
  transport and no state anywhere (`Known`), that an open stream belongs to a
  live run and an exit comes from a stream that brings no more lines (`Wired`),
  and `Carried`: while a request that will clear the marks is in flight, every
  earlier mark is in its job and in those queued behind it, and the step cache
  is on. Without `Carried` the clearing in `StartOk` could drop any mark; it needs
  the editor's lock, which lets marks and the checkbox change only between runs.
* `HoleInv` of the feed says that every line from the expected one on is held,
  missed or on the wire, that the wire ascends but for swapped neighbours and is
  above everything held, and that a reconnect asks from the line before the
  expected one. An overflow can then skip only missed lines. With the exit frame
  last on the wire (`ExitLast`), nothing is on the wire when it arrives, so what
  the sink still expects then is held or missed (`EndAccounted`).
* `EditorInv` names the shape of a save in each phase, ties a
  fingerprint that is still the file's to a file nobody changed since (`Seen`), says
  that the index knows every graph no scan has lost and that a save under way is of
  the graph of its file, of a draft or of a lost one (`Graphs`), and contains
  `UnsavedIsPending` itself.
* The searches: everything visited is in every closed set that holds the seeds,
  and an edge that leaves a visited node not in the queue ends in a visited node;
  the stack of the depth-first search is a path of gray nodes, and a black node's
  targets are black until a cycle is found. Among the black graphs every set
  has one that refers to none of the set, because a graph turns black after all
  it refers to. The same statement is the definition of `Acyclic`.
  `GateCorrect` composes `CycleCorrect` with the definition of the issues.

Only model-checked: liveness (`QueuedIsServed`, `AcceptedRunExits`,
`StreamEndsIfAllStay`, `RunEnds`, `QueueMovesUnlessCut`, `FeedEnds`), because
fairness and ENABLED are beyond the prover, and the statements that the three
violation runs refute. Every invariant, the action properties and the refinement
that a passing run checks is also a theorem.

## 5. Not modelled

Of the Python side: crashes of the broker process (nothing of its state
survives), the optional event bus between brokers, the stores behind
authentication, tenancy and credentials, node implementations, the checkpoint
files and their index, leases, heartbeats and idempotency keys.
`runner/run_state_machine.py` repeats helpers of the runner that the CLI and the
broker do not use.

Of the TypeScript, most is not a state machine worth a model. Of the 72 000 lines
under `ui:`, the larger part are pages, panels, dialogs, settings forms, menus,
styles, translations, layout and drawing of the canvas: a component asks the REST
API, shows the answer in a list and sends a form back. What such a component can
get wrong (a label, a field, a missing refresh) is not a property of an
interleaving, and a model of it would repeat its fields. The map therefore names
the modules in which several actors meet the same state (session, transports,
editor and files) and the algorithms with a definition to check against (the
searches and the gate), a few per cent of the lines, and does not try for
more by widening ranges. `AppShell.tsx` is mapped where it opens, saves, marks and
gates; its other handlers move panels and selections. `runSessionStore.ts` is
mapped where it changes live runs, focus, queue and consoles; overlays, settled
visuals and output snapshots are per-run display data that leave with the run.
`nodeRunOverlay.ts` folds events into colours; a node that failed once keeps the
mark although a retry succeeds, which no document excludes. The collaboration
provider is imported by nothing in the application.

See the components in `PROJECT.json` for the reason of each.

## 6. Plan

Done, in this order: `RunPool` and `RunRegistry` (the system's core) with their
proofs, the refinement included; `RunStream` with its proofs; `RunEngine` with the
proofs about its barriers and its final status; `RunSession`, `EventFeed`,
`WorkspaceEditor` and the graph checks with theirs.

What remains worth doing:

1. `CheckpointStore`: the checkpoint files and their index (`pause_resume.py`)
   under concurrent save, load, rebuild and delete, with crashes between writes;
   abstract specification: a set of paused runs.
2. `Leases`: leader election and worker slots under expiry.
3. Proofs about these two; a statement of what the stream still promises after a
   join has timed out, which `InOrder`, `CompleteAtExit` and `OneRunFinished`
   exclude.
