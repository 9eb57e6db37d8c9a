----------------------------- MODULE RunSession -----------------------------
(***************************************************************************)
(* The runs of one browser session: runSessionStore.ts with its live runs, *)
(* its focus and its queue of pending starts, launchGcStartJob of          *)
(* runCommands.ts, the transports of webRunBroker.ts, the Run and Stop     *)
(* buttons of useRunSessionController.ts and the set of nodes whose step   *)
(* cache is dirty (stepCacheDirtyStore.ts, nestedStepCacheDirtyBubble.ts). *)
(*                                                                         *)
(* Callbacks of the browser run one at a time, so a callback up to its     *)
(* first await is one action.  The broker is seen only through what its    *)
(* answers and its streams do to the session: modules RunRegistry and      *)
(* RunStream model its inside.                                             *)
(***************************************************************************)
EXTENDS Integers, Sequences, FiniteSets, SequencesExt

CONSTANTS
  Runs,           \* the run ids that crypto.randomUUID hands out
  MaxConcurrent,  \* getMaxConcurrentRuns()
  Nodes,          \* nodes that can be marked dirty
  None,           \* no run: the null of focusedRunId
  WebSocket,      \* is the transport a WebSocket rather than an EventSource
  SilentStreams   \* may an open stream end without a frame of the broker

ASSUME RunsAssumption == IsFiniteSet(Runs) /\ None \notin Runs
ASSUME CapAssumption == MaxConcurrent \in 1 .. 32
ASSUME TransportAssumption == WebSocket \in BOOLEAN /\ SilentStreams \in BOOLEAN

VARIABLES
  used,       \* run ids that were handed out
  live,       \* liveRunOrder
  focused,    \* focusedRunId
  pending,    \* pendingStarts
  buffers,    \* the runs consoleByRunId has an entry for
  post,       \* runs whose POST /runs is not answered yet
  server,     \* the run at the broker
  transport,  \* the transport attachTransport made for the run
  exiting,    \* runs whose exit waits for the import in scheduleLaunchAfterRunExit
  cancel,     \* runs whose POST /cancel is not answered yet
  csv,        \* the nodes in the stepCacheDirty of a run's job
  clears,     \* does the run's afterSuccessfulStart clear the dirty nodes
  dirty,      \* the ids of the dirty store
  bubble,     \* marks that wait for documents to be read
  late,       \* dirty nodes that were marked while a POST was in flight
  stepCache   \* is the step cache switched on

store == <<live, focused, pending, buffers>>
marks == <<dirty, bubble, late>>
vars == <<used, live, focused, pending, buffers, post, server, transport,
          exiting, cancel, csv, clears, dirty, bubble, late, stepCache>>

TransportStates ==
  {"none", "open", "closing", "dead",  \* not attached, attached, exhausted
   "silent",                           \* attached, and no exit will come
   "ended",                            \* closed after the exit was reported
   "cut"}                              \* closed without an exit

Init ==
  /\ used = {}
  /\ live = <<>>
  /\ focused = None
  /\ pending = <<>>
  /\ buffers = {}
  /\ post = {}
  /\ server = [r \in Runs |-> "none"]
  /\ transport = [r \in Runs |-> "none"]
  /\ exiting = {}
  /\ cancel = {}
  /\ csv = [r \in Runs |-> {}]
  /\ clears = [r \in Runs |-> FALSE]
  /\ dirty = {}
  /\ bubble = {}
  /\ late = {}
  /\ stepCache \in BOOLEAN

Blocking == live # <<>> \/ pending # <<>>

CanStartAnotherLive == Len(live) < MaxConcurrent

KeepFocusAfterRemove(order, prev) == prev

PickFocusAfterRemove(order, prev) ==
  IF prev \in Range(order) THEN prev
  ELSE IF order = <<>> THEN None ELSE Last(order)

TakesNextBeforeRemove(order) ==
  pending # <<>> /\ Len(order) + 1 < MaxConcurrent

TakesNext(order) == pending # <<>> /\ Len(order) < MaxConcurrent

(* launchGcStartJob up to its await, after the runs of order stayed live:  *)
(* registers the run, writes its host lines and sends the POST.            *)
Launch(r, order, freed, clear) ==
  /\ live' = Append(order, r)
  /\ focused' = r
  /\ buffers' = (buffers \ freed) \cup {r}
  /\ post' = (post \ freed) \cup {r}
  /\ clears' = [clears EXCEPT ![r] = clear]

(* The filter of liveRunOrder, in which no run occurs twice.               *)
Without(order, r) ==
  LET at == CHOOSE i \in DOMAIN order : order[i] = r
  IN  [i \in 1 .. Len(order) - 1 |->
         IF i < at THEN order[i] ELSE order[i + 1]]

(* runSessionAbortRegisteredRun and runSessionOnRunProcessExited: a live   *)
(* run gives up its slot and its per-run state, and the caller launches    *)
(* the job that is returned.                                               *)
RemoveAndPromote(r, clear) ==
  LET rest == Without(live, r) IN
  IF TakesNext(rest)
    THEN /\ pending' = Tail(pending)
         /\ Launch(Head(pending), rest, {r}, clear)
    ELSE /\ live' = rest
         /\ focused' = PickFocusAfterRemove(rest, focused)
         /\ buffers' = buffers \ {r}
         /\ post' = post \ {r}
         /\ UNCHANGED <<pending, clears>>

-----------------------------------------------------------------------------
(* The buttons.                                                            *)

Enqueue(r) ==
  /\ ~CanStartAnotherLive
  /\ pending' = Append(pending, r)
  /\ UNCHANGED <<live, focused, buffers, post, clears>>

LaunchNow(r) ==
  /\ CanStartAnotherLive
  /\ Launch(r, live, {}, csv'[r] # {})
  /\ UNCHANGED pending

Run(r) ==
  /\ r \notin used
  /\ used' = used \cup {r}
  /\ csv' = [csv EXCEPT ![r] = IF stepCache THEN dirty ELSE {}]
  /\ Enqueue(r) \/ LaunchNow(r)
  /\ UNCHANGED <<server, transport, exiting, cancel, marks, stepCache>>

Stop ==
  /\ focused # None
  /\ cancel' = cancel \cup {focused}
  /\ UNCHANGED <<used, store, post, server, transport, exiting, csv, clears,
                 marks, stepCache>>

Focus(r) ==
  /\ r \in Range(live)
  /\ focused' = r
  /\ UNCHANGED <<used, live, pending, buffers, post, server, transport,
                 exiting, cancel, csv, clears, marks, stepCache>>

ToggleStepCache ==
  /\ ~Blocking
  /\ stepCache' = ~stepCache
  /\ UNCHANGED <<used, store, post, server, transport, exiting, cancel, csv,
                 clears, marks>>

-----------------------------------------------------------------------------
(* The dirty store.                                                        *)

AddUnlessStarting(ns) ==
  /\ dirty' = IF post = {} THEN dirty \cup ns ELSE dirty
  /\ late' = IF post = {} THEN late ELSE late \cup (ns \ dirty)

AddStepCacheDirtyIds(ns) ==
  /\ dirty' = dirty \cup ns
  /\ late' = IF post = {} THEN late ELSE late \cup (ns \ dirty)

(* The user edits a node: it is marked at once, or after the reads of an   *)
(* earlier edit, and after it the nodes of the parent documents that can   *)
(* be read (the promise chain of markStepCacheDirtyWithBubble).            *)
MarkDirty(n, parents) ==
  /\ ~Blocking
  /\ \/ /\ bubble = {}
        /\ AddStepCacheDirtyIds({n})
        /\ bubble' = parents
     \/ /\ AddStepCacheDirtyIds({})
        /\ bubble' = bubble \cup parents \cup {n}
  /\ UNCHANGED <<used, store, post, server, transport, exiting, cancel, csv,
                 clears, stepCache>>

BubbleMark(n) ==
  /\ n \in bubble
  /\ bubble' = bubble \ {n}
  /\ AddStepCacheDirtyIds({n})
  /\ UNCHANGED <<used, store, post, server, transport, exiting, cancel, csv,
                 clears, stepCache>>

-----------------------------------------------------------------------------
(* The answer of the broker to POST /runs.                                 *)

BrokerStarts(r) ==
  /\ r \in post
  /\ server[r] = "none"
  /\ server' = [server EXCEPT ![r] = "running"]
  /\ UNCHANGED <<used, store, post, transport, exiting, cancel, csv, clears,
                 marks, stepCache>>

(* A transport is attached and the dirty nodes are cleared, all of them;   *)
(* the job is not needed any more.                                         *)
StartOk(r) ==
  /\ r \in post
  /\ server[r] # "none"
  /\ post' = post \ {r}
  /\ transport' = [transport EXCEPT ![r] = "open"]
  /\ IF clears[r]
       THEN dirty' = {} /\ late' = {}
       ELSE UNCHANGED <<dirty, late>>
  /\ csv' = [csv EXCEPT ![r] = {}]
  /\ clears' = [clears EXCEPT ![r] = FALSE]
  /\ UNCHANGED <<used, store, server, exiting, cancel, bubble, stepCache>>

(* The broker refused, or its answer was lost: the run is aborted and the  *)
(* next job is launched with the options of the failed one.                *)
StartFailed(r) ==
  /\ r \in post
  /\ IF r \in Range(live)
       THEN RemoveAndPromote(r, clears[r])
       ELSE post' = post \ {r} /\ UNCHANGED <<store, clears>>
  /\ csv' = [csv EXCEPT ![r] = {}]
  /\ UNCHANGED <<used, server, transport, exiting, cancel, marks, stepCache>>

-----------------------------------------------------------------------------
(* The stream.                                                             *)

BrokerExits(r) ==
  /\ server[r] = "running"
  /\ server' = [server EXCEPT ![r] = "exited"]
  /\ UNCHANGED <<used, store, post, transport, exiting, cancel, csv, clears,
                 marks, stepCache>>

(* The stream reconnects after the broker has sent the exit frame and      *)
(* before it forgets the run, or a put on the queue of a client that has   *)
(* left blocks the waiter: the stream stays open, and no frame ends it.    *)
FallsSilent(r) ==
  /\ SilentStreams
  /\ transport[r] = "open"
  /\ transport' = [transport EXCEPT ![r] = "silent"]
  /\ UNCHANGED <<used, store, post, server, exiting, cancel, csv, clears,
                 marks, stepCache>>

Line(r) ==
  /\ transport[r] \in {"open", "silent"}
  /\ buffers' = buffers \cup {r}
  /\ UNCHANGED <<used, live, focused, pending, post, server, transport,
                 exiting, cancel, csv, clears, marks, stepCache>>

ExitFrameDropped(r) ==
  /\ transport[r] = "open"
  /\ server[r] = "exited"
  /\ transport' = [transport EXCEPT ![r] = "ended"]
  /\ UNCHANGED <<used, store, post, server, exiting, cancel, csv, clears,
                 marks, stepCache>>

ExitFrame(r) ==
  /\ transport[r] = "open"
  /\ server[r] = "exited"
  /\ transport' = [transport EXCEPT ![r] = "ended"]
  /\ exiting' = exiting \cup {r}
  /\ UNCHANGED <<used, store, post, server, cancel, csv, clears, marks,
                 stepCache>>

(* The last reconnect failed.  A WebSocket reports the error first and its *)
(* close in a later callback, and each of them counts as exhausted.        *)
Exhausted(r) ==
  /\ \/ /\ transport[r] \in {"open", "silent"}
        /\ transport' = [transport EXCEPT ![r] =
                           IF WebSocket THEN "closing" ELSE "dead"]
     \/ /\ transport[r] = "closing"
        /\ transport' = [transport EXCEPT ![r] = "dead"]
  /\ buffers' = buffers \cup {r}
  /\ exiting' = exiting \cup {r}
  /\ UNCHANGED <<used, live, focused, pending, post, server, cancel, csv,
                 clears, marks, stepCache>>

ClearsAfterPromote == TRUE

\* scheduleLaunchAfterRunExit passes no options.
ClearsAfterExit == FALSE

ExitProcessed(r) ==
  /\ r \in exiting
  /\ exiting' = exiting \ {r}
  /\ IF r \in Range(live)
       THEN RemoveAndPromote(r, ClearsAfterExit)
       ELSE UNCHANGED <<store, post, clears>>
  /\ UNCHANGED <<used, server, transport, cancel, csv, marks, stepCache>>

(* closeWebRunBrokerStreamForRun, for every run of rs: no event follows.   *)
CloseStreams(rs) ==
  transport' = [r \in Runs |->
    IF r \notin rs \/ transport[r] = "none" THEN transport[r]
    ELSE IF transport[r] \in {"open", "silent", "cut"} THEN "cut" ELSE "ended"]

CancelAnswered(r) ==
  /\ r \in cancel
  /\ cancel' = cancel \ {r}
  /\ CloseStreams({r})
  /\ UNCHANGED <<used, store, post, server, exiting, csv, clears, marks,
                 stepCache>>

(* The request failed: the console of the focused run says so.             *)
CancelFailed(r) ==
  /\ r \in cancel
  /\ cancel' = cancel \ {r}
  /\ buffers' = buffers \cup ({focused} \ {None})
  /\ UNCHANGED <<used, live, focused, pending, post, server, transport,
                 exiting, csv, clears, marks, stepCache>>

(* The sweep closes a stream that is older than MAX_STREAM_LIFETIME_MS.    *)
Sweep(r) ==
  /\ transport[r] \in {"open", "silent", "closing", "dead"}
  /\ CloseStreams({r})
  /\ UNCHANGED <<used, store, post, server, exiting, cancel, csv, clears,
                 marks, stepCache>>

(* The editor is unmounted; the store outlives it.                         *)
LeaveEditor ==
  /\ CloseStreams(Runs)
  /\ UNCHANGED <<used, store, post, server, exiting, cancel, csv, clears,
                 marks, stepCache>>

-----------------------------------------------------------------------------
Next ==
  \/ \E r \in Runs : Run(r)
  \/ \E r \in Runs : Focus(r)
  \/ Stop
  \/ ToggleStepCache
  \/ \E n \in Nodes, parents \in SUBSET Nodes : MarkDirty(n, parents)
  \/ \E n \in Nodes : BubbleMark(n)
  \/ \E r \in Runs : BrokerStarts(r)
  \/ \E r \in Runs : StartOk(r)
  \/ \E r \in Runs : StartFailed(r)
  \/ \E r \in Runs : BrokerExits(r)
  \/ \E r \in Runs : FallsSilent(r)
  \/ \E r \in Runs : Line(r)
  \/ \E r \in Runs : ExitFrame(r)
  \/ \E r \in Runs : Exhausted(r)
  \/ \E r \in Runs : ExitProcessed(r)
  \/ \E r \in Runs : CancelAnswered(r)
  \/ \E r \in Runs : CancelFailed(r)
  \/ \E r \in Runs : Sweep(r)
  \/ LeaveEditor

Spec == Init /\ [][Next]_vars

(* A request is answered or fails, a worker ends, an open stream reports   *)
(* the end or gives up unless it falls silent, and a scheduled callback    *)
(* runs.                                                                   *)
Fairness ==
  \A r \in Runs :
    /\ WF_vars(StartOk(r) \/ StartFailed(r))
    /\ WF_vars(BrokerExits(r))
    /\ WF_vars(transport[r] # "silent" /\ (ExitFrame(r) \/ Exhausted(r)))
    /\ WF_vars(ExitProcessed(r))

FairSpec == Spec /\ Fairness

-----------------------------------------------------------------------------
(* Type correctness of the session's state.                                *)
TypeOK ==
  /\ used \subseteq Runs
  /\ live \in Seq(Runs)
  /\ focused \in Runs \cup {None}
  /\ pending \in Seq(Runs)
  /\ buffers \subseteq Runs
  /\ post \subseteq Runs
  /\ server \in [Runs -> {"none", "running", "exited"}]
  /\ transport \in [Runs -> TransportStates]
  /\ exiting \subseteq Runs
  /\ cancel \subseteq Runs
  /\ csv \in [Runs -> SUBSET Nodes]
  /\ clears \in [Runs -> BOOLEAN]
  /\ dirty \subseteq Nodes
  /\ bubble \subseteq Nodes
  /\ late \subseteq dirty
  /\ stepCache \in BOOLEAN

(* A job waits only while every slot is taken, no run is live or pending   *)
(* twice, and the cap holds: a job that Run starts at once never overtakes *)
(* one of pendingStarts, whatever aborts, exits and double exits happened. *)
NoIdleSlotWithQueue ==
  /\ Len(live) <= MaxConcurrent
  /\ pending # <<>> => Len(live) = MaxConcurrent
  /\ IsInjective(live \o pending)

(* What the session keeps per run is released with the run: the focus is a *)
(* live run whenever there is one, a run whose request is in flight is     *)
(* live, and only live runs have a console, but for a WebSocket that       *)
(* reported its exhaustion twice.                                          *)
PerRunStateReleased ==
  /\ IF live = <<>> THEN focused = None ELSE focused \in Range(live)
  /\ post \subseteq Range(live)
  /\ Range(live) \subseteq buffers
  /\ \A r \in buffers \ Range(live) :
       WebSocket /\ transport[r] \in {"dead", "ended"}

(* A node leaves the dirty store only because a run was started that       *)
(* carries it, unless it was marked while the request was in flight.       *)
DirtyReachesRun ==
  [][\A n \in dirty \ dirty' :
       n \in late \/ \E r \in post \ post' : n \in csv[r]]_vars

(* A queued job is started, unless the stream of a live run was closed     *)
(* without its exit - by the answer to a cancel, by the sweep or by        *)
(* leaving the editor - or fell silent.                                    *)
QueueMovesUnlessCut ==
  \A r \in Runs :
    r \in Range(pending) ~>
      \/ r \notin Range(pending)
      \/ \E q \in Range(live) : transport[q] \in {"cut", "silent"}

(* "FIFO starts next pending when a live run exits": every queued job is   *)
(* started.                                                                *)
QueuedJobStarts ==
  \A r \in Runs : r \in Range(pending) ~> r \notin Range(pending)

=============================================================================
