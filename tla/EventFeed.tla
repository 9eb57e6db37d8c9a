----------------------------- MODULE EventFeed ------------------------------
(***************************************************************************)
(* The events of one run in the browser: the transport that               *)
(* attachTransport of webRunBroker.ts opens (SseTransport.ts,              *)
(* WsTransport.ts), the reconnects of withReconnect.ts, the gap detector   *)
(* maybeLogSeqGap and the sink of ndjsonSeqReorder.ts that puts the lines  *)
(* of the console into the order of their seq.                             *)
(*                                                                         *)
(* A line is its seq.  The broker is the one of module RunStream, as far   *)
(* as a client can tell: it numbers the lines from 1, replays those of its *)
(* ring above a since_seq, may drop a chunk, may send the last line of the *)
(* replay once more, sends the exit frame and then forgets the run.  In    *)
(* the ring the frame has the seq of the last line, so a connection made   *)
(* between the two gets it only if it asks for a line as well.             *)
(***************************************************************************)
EXTENDS Integers, Sequences, FiniteSets

CONSTANTS
  LastSeq,      \* the seq of the last line of the run
  ReplaySize,   \* lines the broker's ring keeps
  Droppable,    \* lines the broker may drop when the client is slow
  MaxPending,   \* NDJSON_SEQ_REORDER_MAX_PENDING
  MaxAttempts   \* RECONNECT_MAX_ATTEMPTS

ASSUME LastSeqAssumption == LastSeq \in Nat \ {0}
ASSUME BrokerAssumption == ReplaySize \in Nat /\ Droppable \subseteq 1 .. LastSeq
ASSUME LimitsAssumption == MaxPending \in Nat \ {0} /\ MaxAttempts \in Nat \ {0}

VARIABLES
  issued,    \* the lines the broker has numbered
  broker,    \* the run at the broker
  phase,     \* the transport
  attempt,   \* attempt of withReconnect
  wire,      \* messages on their way to the client, lines and Exit
  next,      \* nextSeq of the sink
  held,      \* pending of the sink
  shown,     \* the lines flushed to the console, in this order
  seen,      \* lastSeqByRunId
  reported,  \* the console has an "event gap" line
  missed,    \* lines that no connection brings any more
  late       \* the last connection was made too late for the exit frame

sink == <<next, held, shown>>
gap == <<seen, reported>>
vars == <<issued, broker, phase, attempt, wire, next, held, shown, seen,
          reported, missed, late>>

Lines == 1 .. LastSeq
Exit == 0

BrokerStates == {"runs", "stalled",  \* and no more will come
                 "exited", "hung",   \* the exit frame was sent
                 "gone"}
Phases == {"connecting", "up", "waiting",  \* for the timer of a reconnect
           "exhausted", "ended", "closed"}

Init ==
  /\ issued = 0
  /\ broker = "runs"
  /\ phase = "connecting"
  /\ attempt = 0
  /\ wire = <<>>
  /\ next = 1
  /\ held = {}
  /\ shown = <<>>
  /\ seen = 0
  /\ reported = FALSE
  /\ missed = {}
  /\ late = FALSE

Shown == {shown[i] : i \in 1 .. Len(shown)}

HighestSeen == seen
LastFlushedSeq == IF shown = <<>> THEN 0 ELSE shown[Len(shown)]

-----------------------------------------------------------------------------
(* The broker.                                                             *)

Issue ==
  /\ broker = "runs"
  /\ issued < LastSeq
  /\ issued' = issued + 1
  /\ \/ /\ phase = "up"
        /\ wire' = Append(wire, issued + 1)
        /\ UNCHANGED missed
     \/ /\ phase = "up"
        /\ issued + 1 \in Droppable
        /\ missed' = missed \cup {issued + 1}
        /\ UNCHANGED wire
     \/ /\ phase # "up"
        /\ UNCHANGED <<wire, missed>>
  /\ UNCHANGED <<broker, phase, attempt, sink, gap, late>>

(* Two lines that the relay between brokers delivers in the wrong order.   *)
IssueSwapped ==
  /\ broker = "runs"
  /\ phase = "up"
  /\ issued + 2 <= LastSeq
  /\ issued' = issued + 2
  /\ wire' = wire \o <<issued + 2, issued + 1>>
  /\ UNCHANGED <<broker, phase, attempt, sink, gap, missed, late>>

(* The waiter broadcasts the exit frame to the connections there are ...   *)
BrokerExit ==
  /\ broker = "runs"
  /\ issued = LastSeq
  /\ broker' = "exited"
  /\ wire' = IF phase = "up" THEN Append(wire, Exit) ELSE wire
  /\ UNCHANGED <<issued, phase, attempt, sink, gap, missed, late>>

(* ... and takes the run out of the registry, which then knows no such run.*)
BrokerForgets ==
  /\ broker = "exited"
  /\ broker' = "gone"
  /\ UNCHANGED <<issued, phase, attempt, wire, sink, gap, missed, late>>

(* A put on the full queue of a connection that has gone, this client's or *)
(* another's, blocks a pump or the waiter for good, before the exit frame  *)
(* or while it is sent.                                                    *)
BrokerStalls ==
  /\ \/ broker = "runs" /\ broker' = "stalled"
     \/ broker = "exited" /\ broker' = "hung"
  /\ UNCHANGED <<issued, phase, attempt, wire, sink, gap, missed, late>>

-----------------------------------------------------------------------------
(* Connections.                                                            *)

ExitSent == broker \in {"exited", "hung"}

(* The exit frame takes a place in the ring.                               *)
Kept == IF ExitSent /\ ReplaySize > 0 THEN ReplaySize - 1 ELSE ReplaySize

Replayed(since) ==
  {n \in Lines : since < n /\ issued - Kept < n /\ n <= issued}

ExitReplayed(since) ==
  ExitSent /\ ReplaySize > 0 /\ 0 < since /\ since < issued

Ascending(from, to) == [i \in 1 .. to - from |-> from + i - 1]

(* The stream is opened with since_seq only if a line was flushed before;  *)
(* without it the broker replays nothing.                                  *)
Connected ==
  LET since == LastFlushedSeq
      replay == IF since = 0 THEN {} ELSE Replayed(since)
      first == IF since > issued - Kept THEN since + 1 ELSE issued - Kept + 1
      lines == IF since = 0 THEN <<>> ELSE Ascending(first, issued + 1)
  IN  /\ phase = "connecting"
      /\ broker # "gone"
      /\ phase' = "up"
      /\ \/ ~ExitReplayed(since) /\ wire' = lines
         \/ ExitReplayed(since) /\ wire' = Append(lines, Exit)
         \/ ~ExitSent /\ replay # {} /\ wire' = Append(lines, issued)
      /\ late' = (ExitSent /\ ~ExitReplayed(since))
      /\ missed' = (missed \cup (since + 1 .. issued)) \ (replay \cup held)
      /\ UNCHANGED <<issued, broker, attempt, sink, gap>>

Exhausts == attempt >= MaxAttempts

ReopenAnew == phase' = "waiting" /\ attempt' = 1

Reopen ==
  \/ Exhausts /\ phase' = "exhausted" /\ UNCHANGED attempt
  \/ ~Exhausts /\ phase' = "waiting" /\ attempt' = attempt + 1

(* An error or a transient close; what was on its way is lost.             *)
Disconnected ==
  /\ phase \in {"connecting", "up"}
  /\ Reopen
  /\ wire' = <<>>
  /\ UNCHANGED <<issued, broker, sink, gap, missed, late>>

TimerFires ==
  /\ phase = "waiting"
  /\ phase' = "connecting"
  /\ UNCHANGED <<issued, broker, attempt, wire, sink, gap, missed, late>>

(* A cancel, the sweep or leaving the editor closes the stream.            *)
Close ==
  /\ phase \in {"connecting", "up", "waiting"}
  /\ phase' = "closed"
  /\ wire' = <<>>
  /\ UNCHANGED <<issued, broker, attempt, sink, gap, missed, late>>

-----------------------------------------------------------------------------
(* The sink.                                                               *)

DrainKeeping(from, lines) ==
  \E k \in from .. LastSeq + 1 :
    /\ \A n \in from .. k - 1 : n \in lines
    /\ k \notin lines
    /\ shown' = shown \o Ascending(from, k)
    /\ next' = k
    /\ held' = lines

(* tryDrain with nextSeq = from: flushes from, from + 1, ... as far as     *)
(* lines holds them.                                                       *)
Drain(from, lines) ==
  \E k \in from .. LastSeq + 1 :
    /\ \A n \in from .. k - 1 : n \in lines
    /\ k \notin lines
    /\ shown' = shown \o Ascending(from, k)
    /\ next' = k
    /\ held' = lines \ (from .. k - 1)

OverflowsEarly(lines) == Cardinality(lines) >= MaxPending
Overflows(lines) == Cardinality(lines) > MaxPending

FlushDuplicate(n) == shown' = Append(shown, n) /\ UNCHANGED <<next, held>>

DropStale(n) == UNCHANGED sink

Accept(n) ==
  LET lines == held \cup {n} IN
  \/ n < next /\ DropStale(n)
  \/ n = next /\ Drain(n, lines)
  \/ /\ n > next
     /\ ~Overflows(lines)
     /\ held' = lines
     /\ UNCHANGED <<next, shown>>
  \/ /\ n > next
     /\ Overflows(lines)
     /\ \E m \in lines : (\A l \in lines : m <= l) /\ Drain(m, lines)

LogGap(n) ==
  /\ reported' = (reported \/ (n > seen + 1 /\ seen > 0))
  /\ seen' = IF n > seen THEN n ELSE seen

LineArrives(n) ==
  /\ phase = "up"
  /\ wire # <<>>
  /\ wire[1] = n
  /\ wire' = Tail(wire)
  /\ attempt' = 0
  /\ LogGap(n)
  /\ Accept(n)
  /\ missed' = missed \ {n}
  /\ UNCHANGED <<issued, broker, phase, late>>

(* The exit frame closes the transport and resets the sink.                *)
ExitArrives ==
  /\ phase = "up"
  /\ wire # <<>>
  /\ wire[1] = Exit
  /\ phase' = "ended"
  /\ wire' = <<>>
  /\ UNCHANGED <<issued, broker, attempt, sink, gap, missed, late>>

-----------------------------------------------------------------------------
Next ==
  \/ Issue
  \/ IssueSwapped
  \/ BrokerExit
  \/ BrokerForgets
  \/ BrokerStalls
  \/ Connected
  \/ Disconnected
  \/ TimerFires
  \/ Close
  \/ \E n \in Lines : LineArrives(n)
  \/ ExitArrives

Spec == Init /\ [][Next]_vars

(* The worker ends, a connection is made or fails, a timer fires, and what *)
(* was sent on a connection arrives unless it breaks.  Nothing keeps the   *)
(* broker from stalling, and nothing ends a connection that stays silent.  *)
Fairness ==
  /\ WF_vars(Issue)
  /\ WF_vars(BrokerExit)
  /\ WF_vars(BrokerForgets)
  /\ WF_vars(phase = "connecting" /\ (Connected \/ Disconnected))
  /\ WF_vars(TimerFires)
  /\ WF_vars((\E n \in Lines : LineArrives(n)) \/ ExitArrives)

FairSpec == Spec /\ Fairness

-----------------------------------------------------------------------------
(* Type correctness, and what the sink keeps is ahead of what it expects.  *)
TypeOK ==
  /\ issued \in 0 .. LastSeq
  /\ broker \in BrokerStates
  /\ phase \in Phases
  /\ attempt \in 0 .. MaxAttempts
  /\ wire \in Seq(Lines \cup {Exit})
  /\ next \in 1 .. LastSeq + 1
  /\ held \subseteq next + 1 .. LastSeq
  /\ shown \in Seq(Lines)
  /\ seen \in 0 .. LastSeq
  /\ reported \in BOOLEAN
  /\ missed \subseteq Lines
  /\ late \in BOOLEAN

(* The console gets every line at most once and in the order of seq, after *)
(* any reconnects, replays, repeated and swapped lines.                    *)
InOrderOnce ==
  \A i, j \in 1 .. Len(shown) : i < j => shown[i] < shown[j]

(* The sink skips a line only if it did not come, and never one that two   *)
(* swapped neighbours only delayed.                                        *)
HolesAreMissed ==
  \A n \in 1 .. next - 1 : n \in Shown \cup missed

(* When the exit frame has come, a line is withheld only because it or an  *)
(* earlier one did not come: what a broken connection lost is asked for    *)
(* again by since_seq.                                                     *)
WithheldOnlyIfMissed ==
  phase = "ended" =>
    \A n \in Lines \ Shown : \E m \in missed : m <= n

(* The feed of a run ends - with the exit frame, by giving up, or because  *)
(* it was closed - unless the broker stalls, or the connection it is left  *)
(* with was made too late for the exit frame: no other silence lasts,      *)
(* whatever connections break before, at and after the end of the run.     *)
Over == phase \in {"ended", "exhausted", "closed"}
FeedEnds ==
  \/ <>[](Over \/ (phase = "up" /\ late))
  \/ <>(broker \in {"stalled", "hung"})

(* "used to detect server-side seq gaps and surface them to the console":  *)
(* when the run has ended and lines of it are not on the console, the      *)
(* console says so.  Not claimed: a comment of webRunBroker.ts says it of   *)
(* maybeLogSeqGap, which is silent before the first line and after the last.*)
GapSurfaced == phase = "ended" /\ Shown # Lines => reported

=============================================================================
