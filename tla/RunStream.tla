------------------------------ MODULE RunStream ------------------------------
(***************************************************************************)
(* The output of one worker on its way to the clients of a run: the pump   *)
(* and waiter threads of _attach_worker_pumps (run_broker/registry.py),    *)
(* the RunBroadcaster with its replay ring and bounded subscriber queues   *)
(* (run_broker/broadcaster.py, with the plain queue.Queue the registry     *)
(* configures), the coordinator-worker-lost tracker (worker_lost.py) and   *)
(* the streams of the SSE and WebSocket handlers (routes/sse.py, ws.py).   *)
(*                                                                         *)
(* A line is the class the code tells it by: "event", "finished" and       *)
(* "chunk" (process_output) are JSON objects, "text" is any other stdout   *)
(* line.  Each section of the code under a lock is one action.             *)
(***************************************************************************)
EXTENDS Integers, Sequences, FiniteSets, FiniteSetsExt, SequencesExt

CONSTANTS
  Conns,       \* connections of clients, each used for one stream
  OutLines,    \* the lines of a complete stdout of the worker
  ErrLines,    \* the lines of its stderr
  Depth,       \* max_sub_queue_depth
  ReplaySize   \* replay_buffer_size, 0 when replay is disabled

ASSUME ConnsAssumption == IsFiniteSet(Conns)
ASSUME LinesAssumption ==
  /\ OutLines \in Seq({"event", "finished", "chunk", "text"})
  /\ ErrLines \in Seq({"err"})
\* Only the outermost run of a worker emits run_finished, and only once.
ASSUME FinishedAssumption ==
  \A i, j \in 1..Len(OutLines) : OutLines[i] = "finished" /\ OutLines[j] = "finished" => i = j
ASSUME SizesAssumption == Depth \in Nat \ {0} /\ ReplaySize \in Nat

VARIABLES
  next,      \* the line a pump reads next
  waiter,    \* where the waiter thread is
  timedOut,  \* a join of a pump ran into its timeout
  saw,       \* tracker["saw_run_finished"]
  issued,    \* the classes of the lines with seq 1, 2, ...: the sequence counter
  replay,    \* _replay
  evicted,   \* the highest seq that fell out of _replay
  pc,        \* where a thread is in broadcast
  msg,       \* the message it broadcasts, and its key in the replay ring
  stage,     \* how far its delivery to a subscriber is
  owed,      \* the drops that the warning it is putting announces
  queue,     \* the queue of a subscriber slot
  dropped,   \* dropped_since_emit of the slot
  warned,    \* is the slot's last warning perhaps less than the interval old
  drops,     \* _droppable_output_drops
  told,      \* the drops announced by warnings put into the slot's queue
  conn,      \* where the handler of a connection is
  base,      \* the seq up to which the connection was not promised anything
  got        \* the messages sent to the client

waiting == <<waiter, timedOut, saw>>
ring == <<issued, replay, evicted>>
thread == <<pc, msg>>
delivery == <<stage, owed>>
slot == <<queue, dropped, warned, drops, told>>
client == <<conn, base, got>>
vars == <<next, waiter, timedOut, saw, issued, replay, evicted, pc,
          msg, stage, owed, queue, dropped, warned, drops, told, conn,
          base, got>>

Pumps == {"out", "err"}
Threads == Pumps \cup {"waiter"}
Lines == [out |-> OutLines, err |-> ErrLines]

Stamped == {"event", "finished", "chunk"}
Droppable == {"chunk", "text"}
Classes == Stamped \cup Droppable \cup {"err", "exit", "warn"}

NoMsg == [class |-> "text", seq |-> 0, key |-> 0]

Init ==
  /\ next = [p \in Pumps |-> 1]
  /\ waiter = "join"
  /\ timedOut = FALSE
  /\ saw = FALSE
  /\ issued = <<>>
  /\ replay = <<>>
  /\ evicted = 0
  /\ pc = [t \in Threads |-> "idle"]
  /\ msg = [t \in Threads |-> NoMsg]
  /\ stage = [e \in Threads \X Conns |-> "none"]
  /\ owed = [e \in Threads \X Conns |-> 0]
  /\ queue = [c \in Conns |-> <<>>]
  /\ dropped = [c \in Conns |-> 0]
  /\ warned = [c \in Conns |-> FALSE]
  /\ drops = 0
  /\ told = [c \in Conns |-> 0]
  /\ conn = [c \in Conns |-> "idle"]
  /\ base = [c \in Conns |-> 0]
  /\ got = [c \in Conns |-> <<>>]

Subs == {c \in Conns : conn[c] = "live"}
HasRoomOffByOne(c) == Len(queue[c]) <= Depth
HasRoom(c) == Len(queue[c]) < Depth
Put(c, m) == queue' = [queue EXCEPT ![c] = Append(@, m)]
SetStage(t, c, to) == stage' = [stage EXCEPT ![<<t, c>>] = to]

-----------------------------------------------------------------------------
\* broadcast

\* _stamp_json_out, and the sequence number _record_for_replay files a message
\* without one under.
Stamp(t, class) ==
  LET n == Len(issued) + (IF class \in Stamped THEN 1 ELSE 0) IN
  /\ pc[t] = "idle"
  /\ pc' = [pc EXCEPT ![t] = "stamped"]
  /\ issued' = IF class \in Stamped THEN Append(issued, class) ELSE issued
  /\ msg' = [msg EXCEPT ![t] = [class |-> class, key |-> n,
                                seq |-> IF class \in Stamped THEN n ELSE 0]]
  /\ UNCHANGED <<replay, evicted>>

\* _record_for_replay: the ring forgets its oldest message when it is full.
Record(t) ==
  LET all == Append(replay, msg[t])
      out == Max({0, Len(all) - ReplaySize}) IN
  /\ pc[t] = "stamped"
  /\ pc' = [pc EXCEPT ![t] = "recorded"]
  /\ replay' = SubSeq(all, out + 1, Len(all))
  /\ evicted' = Max({evicted} \cup {all[i].seq : i \in 1..out})
  /\ UNCHANGED <<next, waiting, issued, msg, delivery, slot, client>>

\* The snapshot of _subs, under the lock of its own.
Fanout(t) ==
  /\ pc[t] = "recorded"
  /\ pc' = [pc EXCEPT ![t] = "sending"]
  /\ stage' = [e \in Threads \X Conns |->
                 IF e[1] = t /\ e[2] \in Subs THEN "put" ELSE stage[e]]
  /\ UNCHANGED <<next, waiting, ring, msg, owed, slot, client>>

-----------------------------------------------------------------------------
\* _deliver_to_sub and _maybe_emit_backpressure, for all subscribers at once

\* put blocks until there is room; put_nowait needs it.
Deliver(t, c) ==
  /\ stage[<<t, c>>] = "put"
  /\ HasRoom(c)
  /\ Put(c, msg[t])
  /\ SetStage(t, c, "none")
  /\ UNCHANGED <<next, waiting, ring, thread, owed, dropped, warned, drops, told, client>>

\* queue.Full for a droppable message.
Drop(t, c) ==
  /\ stage[<<t, c>>] = "put"
  /\ msg[t].class \in Droppable
  /\ ~HasRoom(c)
  /\ drops' = drops + 1
  /\ dropped' = [dropped EXCEPT ![c] = @ + 1]
  /\ SetStage(t, c, "dropped")
  /\ UNCHANGED <<next, waiting, ring, thread, owed, queue, warned, told, client>>

\* The section under bp_lock: nothing to tell, or too early to tell it, or all
\* drops so far are taken.
TakeDrops(t, c) ==
  /\ stage[<<t, c>>] = "dropped"
  /\ \/ /\ dropped[c] = 0 \/ warned[c]
        /\ SetStage(t, c, "none")
        /\ UNCHANGED <<owed, dropped, warned>>
     \/ /\ dropped[c] > 0
        /\ owed' = [owed EXCEPT ![<<t, c>>] = dropped[c]]
        /\ dropped' = [dropped EXCEPT ![c] = 0]
        /\ warned' = [warned EXCEPT ![c] = TRUE]
        /\ SetStage(t, c, "warning")
  /\ UNCHANGED <<next, waiting, ring, thread, queue, drops, told, client>>

\* The put of the warning, or its timeout, which gives the drops back.
WarnForgetting(t, c) ==
  /\ stage[<<t, c>>] = "warning"
  /\ owed' = [owed EXCEPT ![<<t, c>>] = 0]
  /\ SetStage(t, c, "none")
  /\ \/ /\ HasRoom(c)
        /\ Put(c, [NoMsg EXCEPT !.class = "warn"])
        /\ told' = [told EXCEPT ![c] = @ + owed[<<t, c>>]]
        /\ UNCHANGED <<dropped, warned>>
     \/ /\ ~HasRoom(c)
        /\ UNCHANGED <<queue, told, dropped, warned>>
  /\ UNCHANGED <<next, waiting, ring, thread, drops, client>>
Warn(t, c) ==
  /\ stage[<<t, c>>] = "warning"
  /\ owed' = [owed EXCEPT ![<<t, c>>] = 0]
  /\ SetStage(t, c, "none")
  /\ \/ /\ HasRoom(c)
        /\ Put(c, [NoMsg EXCEPT !.class = "warn"])
        /\ told' = [told EXCEPT ![c] = @ + owed[<<t, c>>]]
        /\ UNCHANGED <<dropped, warned>>
     \/ /\ ~HasRoom(c)
        /\ dropped' = [dropped EXCEPT ![c] = @ + owed[<<t, c>>]]
        /\ warned' = [warned EXCEPT ![c] = FALSE]
        /\ UNCHANGED <<queue, told>>
  /\ UNCHANGED <<next, waiting, ring, thread, drops, client>>

Sent(t) == pc[t] = "sending" /\ \A c \in Conns : stage[<<t, c>>] = "none"

-----------------------------------------------------------------------------
\* _attach_worker_pumps

\* pump_out, pump_err: the next line.
Read(p) ==
  /\ next[p] <= Len(Lines[p])
  /\ next' = [next EXCEPT ![p] = @ + 1]
  /\ Stamp(p, Lines[p][next[p]])
  /\ UNCHANGED <<waiting, delivery, slot, client>>

\* The worker has ended, with or without writing the rest of its lines.
Eof(p) ==
  /\ pc[p] = "idle"
  /\ pc' = [pc EXCEPT ![p] = "eof"]
  /\ UNCHANGED <<next, waiting, ring, msg, delivery, slot, client>>

\* broadcast returns to the pump; pump_out tracks the line only now.
TrackNothing(p) == saw' = saw
Track(p) == saw' = (saw \/ (p = "out" /\ msg[p].class = "finished"))
PumpReturn(p) ==
  /\ Sent(p)
  /\ pc' = [pc EXCEPT ![p] = "idle"]
  /\ msg' = [msg EXCEPT ![p] = NoMsg]
  /\ Track(p)
  /\ UNCHANGED <<next, waiter, timedOut, ring, delivery, slot, client>>

\* proc.wait, th_out.join, th_err.join and the look at the tracker.  A join
\* times out on a pump that is stuck in a blocking put.
NotJoined == TRUE
Joined == \A p \in Pumps : pc[p] = "eof"
JoinTimeout ==
  \E p \in Pumps, c \in Conns :
    stage[<<p, c>>] = "put" /\ ~HasRoom(c) /\ msg[p].class \notin Droppable
Join ==
  /\ waiter = "join"
  /\ \/ Joined /\ timedOut' = timedOut
     \/ JoinTimeout /\ timedOut' = TRUE
  /\ waiter' = IF saw THEN "exit" ELSE "lost"
  /\ UNCHANGED <<next, saw, ring, thread, delivery, slot, client>>

\* The synthetic run_finished if it is due, then the exit frame.
WaiterSend ==
  /\ \/ waiter = "lost" /\ waiter' = "losing" /\ Stamp("waiter", "finished")
     \/ waiter = "exit" /\ waiter' = "exiting" /\ Stamp("waiter", "exit")
  /\ UNCHANGED <<next, timedOut, saw, delivery, slot, client>>

AfterSyntheticNothing == "pop"
AfterSynthetic == "exit"
WaiterReturn ==
  /\ Sent("waiter")
  /\ pc' = [pc EXCEPT !["waiter"] = "idle"]
  /\ msg' = [msg EXCEPT !["waiter"] = NoMsg]
  /\ waiter' = IF waiter = "losing" THEN AfterSynthetic ELSE "pop"
  /\ UNCHANGED <<next, timedOut, saw, ring, delivery, slot, client>>

\* _runs.pop, the slot and the files: the run is over for the registry.
Pop ==
  /\ waiter = "pop"
  /\ waiter' = "done"
  /\ UNCHANGED <<next, timedOut, saw, ring, thread, delivery, slot, client>>

-----------------------------------------------------------------------------
\* Handlers of GET /runs/{id}/stream and of the WebSocket

\* What the ring still has for a client that has seen everything up to since.
FiledAfter(key) ==
  LET kept[i \in 0..Len(replay)] ==
        IF i = 0 THEN <<>>
        ELSE IF replay[i].key > key THEN Append(kept[i - 1], replay[i]) ELSE kept[i - 1]
  IN  kept[Len(replay)]
ReplayAfterNext(since) == FiledAfter(since + 1)
ReplaySince(since) == FiledAfter(since)

\* subscribe_with_replay, and subscribe (no `since_seq`).  A handler that looked
\* the run up before it was popped may come here at any later time.
Subscribe(c) ==
  /\ conn[c] = "idle"
  /\ conn' = [conn EXCEPT ![c] = "live"]
  /\ \/ /\ base' = [base EXCEPT ![c] = Len(issued)]
        /\ UNCHANGED got
     \/ \E since \in 0..Len(issued) :
          /\ got' = [got EXCEPT ![c] = ReplaySince(since)]
          /\ base' = [base EXCEPT ![c] = Max({since, evicted})]
  /\ UNCHANGED <<next, waiting, ring, thread, delivery, slot>>

\* stream_queue, pump_out of ws_run: one message; the stream ends after "exit".
Get(c) ==
  /\ conn[c] = "live"
  /\ queue[c] # <<>>
  /\ got' = [got EXCEPT ![c] = Append(@, Head(queue[c]))]
  /\ queue' = [queue EXCEPT ![c] = Tail(@)]
  /\ conn' = [conn EXCEPT ![c] = IF Head(queue[c]).class = "exit" THEN "ended" ELSE @]
  /\ UNCHANGED <<next, waiting, ring, thread, delivery, dropped, warned, drops, told, base>>

\* The client disconnects and the handler unsubscribes.  A thread that is
\* blocked in q.get at that moment still takes one message.
Leave(c) ==
  /\ conn[c] = "live"
  /\ \E to \in (IF queue[c] = <<>> THEN {"gone", "ghost"} ELSE {"gone"}) :
       conn' = [conn EXCEPT ![c] = to]
  /\ base' = [base EXCEPT ![c] = 0]
  /\ got' = [got EXCEPT ![c] = <<>>]
  /\ UNCHANGED <<next, waiting, ring, thread, delivery, slot>>

GhostGet(c) ==
  /\ conn[c] = "ghost"
  /\ queue[c] # <<>>
  /\ queue' = [queue EXCEPT ![c] = Tail(@)]
  /\ conn' = [conn EXCEPT ![c] = "gone"]
  /\ UNCHANGED <<next, waiting, ring, thread, delivery, dropped, warned, drops, told, base, got>>

-----------------------------------------------------------------------------
Broker ==
  \/ \E p \in Pumps : Read(p) \/ PumpReturn(p) \/ Eof(p)
  \/ \E t \in Threads : Record(t) \/ Fanout(t)
  \/ \E t \in Threads, c \in Conns :
       Deliver(t, c) \/ Drop(t, c) \/ TakeDrops(t, c) \/ Warn(t, c)
  \/ Join \/ WaiterSend \/ WaiterReturn \/ Pop

Client == \E c \in Conns : Subscribe(c) \/ Get(c) \/ Leave(c) \/ GhostGet(c)

Next == Broker \/ Client

Spec == Init /\ [][Next]_vars

(***************************************************************************)
(* Every thread of the broker runs on, the worker ends, and a client reads *)
(* its stream as long as it is connected.  Nothing makes a client connect. *)
(***************************************************************************)
Fairness ==
  /\ \A p \in Pumps : WF_vars(Read(p) \/ PumpReturn(p) \/ Eof(p))
  /\ \A t \in Threads : WF_vars(Record(t) \/ Fanout(t))
  /\ \A t \in Threads, c \in Conns :
       WF_vars(Deliver(t, c) \/ Drop(t, c) \/ TakeDrops(t, c) \/ Warn(t, c))
  /\ WF_vars(Join \/ WaiterSend \/ WaiterReturn \/ Pop)
  /\ \A c \in Conns : WF_vars(Get(c) \/ GhostGet(c))

FairSpec == Spec /\ Fairness

-----------------------------------------------------------------------------
Msg == [class : Classes, seq : Nat, key : Nat]

\* Type invariant of the threads, the ring and the subscriber slots.
TypeOK ==
  /\ next \in [Pumps -> Nat \ {0}]
  /\ waiter \in {"join", "lost", "losing", "exit", "exiting", "pop", "done"}
  /\ timedOut \in BOOLEAN
  /\ saw \in BOOLEAN
  /\ issued \in Seq(Stamped)
  /\ replay \in Seq(Msg) /\ Len(replay) <= ReplaySize
  /\ evicted \in Nat
  /\ pc \in [Threads -> {"idle", "stamped", "recorded", "sending", "eof"}]
  /\ msg \in [Threads -> Msg]
  /\ stage \in [Threads \X Conns -> {"none", "put", "dropped", "warning"}]
  /\ owed \in [Threads \X Conns -> Nat]
  /\ queue \in [Conns -> Seq(Msg)] /\ \A c \in Conns : Len(queue[c]) <= Depth
  /\ dropped \in [Conns -> Nat]
  /\ warned \in [Conns -> BOOLEAN]
  /\ drops \in Nat
  /\ told \in [Conns -> Nat]
  /\ conn \in [Conns -> {"idle", "live", "ended", "gone", "ghost"}]
  /\ base \in [Conns -> Nat]
  /\ got \in [Conns -> Seq(Msg)]

-----------------------------------------------------------------------------
Has(s, q) == \E i \in 1..Len(s) : s[i].seq = q
Structured(q) == issued[q] \notin Droppable

\* The message with seq q is on its way to c.
InFlight(c, q) ==
  \E t \in Threads :
    /\ msg[t].seq = q
    /\ pc[t] \in {"stamped", "recorded"} \/ stage[<<t, c>>] = "put"

\* A connected client misses no structured event: whatever is later than the
\* point it asked for, and was still in the ring then, is sent to it, waits in
\* its queue, or is being delivered.
NoGap ==
  \A c \in Subs : \A q \in (base[c] + 1)..Len(issued) :
    Structured(q) => Has(got[c], q) \/ Has(queue[c], q) \/ InFlight(c, q)

\* A client whose stream has ended was sent all of them, unless a join timed out.
CompleteAtExit ==
  ~timedOut => \A c \in Conns : conn[c] = "ended" =>
    \A q \in (base[c] + 1)..Len(issued) : Structured(q) => Has(got[c], q)

\* A client gets the numbered lines in the order of their numbers, replayed and
\* live ones together, unless a join timed out.
InOrder ==
  ~timedOut => \A c \in Conns : \A i, j \in 1..Len(got[c]) :
    i < j /\ got[c][i].seq > 0 /\ got[c][j].seq > 0 => got[c][i].seq <= got[c][j].seq

\* Every dropped line is counted once: in a warning put into the queue, in one
\* that is being put, or in the count the next warning will be made from.
DropsAccounted ==
  drops = MapThenSumSet(LAMBDA c : told[c] + dropped[c]
            + MapThenSumSet(LAMBDA t : owed[<<t, c>>], Threads), Conns)

\* A run has exactly one run_finished by the time of its exit frame, the
\* worker's own or the synthetic one, unless a join timed out.
OneRunFinished ==
  ~timedOut /\ waiter \in {"exiting", "pop", "done"} =>
    Cardinality({q \in 1..Len(issued) : issued[q] = "finished"}) = 1

\* The snapshot of subscribers for the exit frame is still to be taken.
ExitPending ==
  \/ waiter \in {"join", "lost", "losing", "exit"}
  \/ waiter = "exiting" /\ pc["waiter"] # "sending"

\* The stream of a client that is connected before the exit frame is fanned out
\* and stays connected comes to its end...
StreamEnds == \A c \in Conns : c \in Subs /\ ExitPending ~> c \notin Subs

\* ... if no client disconnects.
StreamEndsIfAllStay ==
  [](\A c \in Conns : conn[c] \notin {"gone", "ghost"}) => StreamEnds

\* No client is sent the same numbered line twice.  Not claimed: one that
\* subscribes between _record_for_replay and the fan-out of a line gets it twice.
NoDoubleDelivery ==
  \A c \in Conns : \A i, j \in 1..Len(got[c]) :
    got[c][i].seq > 0 /\ got[c][i].seq = got[c][j].seq => i = j

\* A client whose stream has ended was told of every line dropped on it.  Not
\* claimed: a warning that timed out is not tried again.
DropsTold == \A c \in Conns : conn[c] = "ended" => dropped[c] = 0

=============================================================================
