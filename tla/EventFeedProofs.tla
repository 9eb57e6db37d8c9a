--------------------------- MODULE EventFeedProofs ---------------------------
(***************************************************************************)
(* Proofs about module EventFeed: for every length of the run, size of the *)
(* broker's ring, bound of the sink and number of reconnects, whatever the *)
(* broker drops, repeats or swaps, the console shows every line at most    *)
(* once and in order.                                                      *)
(***************************************************************************)
EXTENDS EventFeed, SequenceTheorems, FiniteSetTheorems, TLAPS

(* Consecutive lines are a sequence of lines.                              *)
LEMMA AscendingLines ==
  ASSUME NEW from \in Int, NEW to \in Int, 0 < from, to <= LastSeq + 1
  PROVE  /\ Ascending(from, to) \in Seq(Lines)
         /\ Len(Ascending(from, to)) = IF from <= to THEN to - from ELSE 0
         /\ \A i \in 1 .. to - from : Ascending(from, to)[i] = from + i - 1
<1> DEFINE n == IF from <= to THEN to - from ELSE 0
<1>1. n \in Nat /\ 1 .. n = 1 .. to - from
  OBVIOUS
<1>2. \A i \in 1 .. n : from + i - 1 \in Lines
  BY LastSeqAssumption DEF Lines
<1>3. Ascending(from, to) = [i \in 1 .. n |-> from + i - 1]
  BY <1>1 DEF Ascending
<1> HIDE DEF n
<1>4. [i \in 1 .. n |-> from + i - 1] \in Seq(Lines)
  BY <1>1, <1>2
<1>5. Len([i \in 1 .. n |-> from + i - 1]) = n
  BY <1>1, <1>2
<1> QED BY <1>1, <1>3, <1>4, <1>5 DEF n

-----------------------------------------------------------------------------
(* The sink never goes back: what it has shown is below what it expects.   *)

ShownBelowNext == \A i \in 1 .. Len(shown) : shown[i] < next

FeedInv == TypeOK /\ InOrderOnce /\ ShownBelowNext

LEMMA FeedInit == Init => FeedInv
<1> SUFFICES ASSUME Init PROVE FeedInv
  OBVIOUS
<1>1. /\ wire = <<>> /\ wire \in Seq(Lines \cup {Exit})
      /\ shown = <<>> /\ shown \in Seq(Lines) /\ Len(shown) = 0
  BY DEF Init
<1>2. /\ issued \in 0 .. LastSeq /\ next \in 1 .. LastSeq + 1
      /\ seen \in 0 .. LastSeq /\ attempt \in 0 .. MaxAttempts
  BY LastSeqAssumption, LimitsAssumption DEF Init
<1>3. /\ broker \in BrokerStates /\ late \in BOOLEAN /\ reported \in BOOLEAN /\ phase \in Phases
      /\ held \subseteq next + 1 .. LastSeq /\ missed \subseteq Lines
  BY DEF Init, Phases, BrokerStates
<1>4. TypeOK
  BY <1>1, <1>2, <1>3 DEF TypeOK
<1> QED BY <1>1, <1>4 DEF FeedInv, InOrderOnce, ShownBelowNext

(* Flushing from a line at or above the expected one keeps the order.      *)
LEMMA DrainStep ==
  ASSUME FeedInv, NEW from \in Int, next <= from,
         NEW lines \in SUBSET (from .. LastSeq), Drain(from, lines)
  PROVE  /\ next' \in 1 .. LastSeq + 1
         /\ held' \subseteq next' + 1 .. LastSeq
         /\ shown' \in Seq(Lines)
         /\ InOrderOnce'
         /\ ShownBelowNext'
<1>1. PICK k \in from .. LastSeq + 1 :
        /\ k \notin lines
        /\ shown' = shown \o Ascending(from, k)
        /\ next' = k
        /\ held' = lines \ (from .. k - 1)
  BY DEF Drain
<1>2. /\ next \in 1 .. LastSeq + 1 /\ shown \in Seq(Lines)
      /\ LastSeq \in Nat /\ from \in Nat /\ k \in Nat /\ Len(shown) \in Nat
      /\ \A i \in 1 .. Len(shown) : shown[i] \in Lines /\ shown[i] < next
      /\ \A i, j \in 1 .. Len(shown) : i < j => shown[i] < shown[j]
  BY <1>1, LastSeqAssumption DEF FeedInv, TypeOK, ShownBelowNext, InOrderOnce
<1>3. /\ Ascending(from, k) \in Seq(Lines)
      /\ Len(Ascending(from, k)) = k - from
      /\ \A i \in 1 .. k - from : Ascending(from, k)[i] = from + i - 1
  BY <1>1, <1>2, AscendingLines
<1>4. /\ shown' \in Seq(Lines)
      /\ Len(shown') = Len(shown) + (k - from)
      /\ \A i \in 1 .. Len(shown) : shown'[i] = shown[i]
      /\ \A i \in Len(shown) + 1 .. Len(shown') :
           shown'[i] = from + (i - Len(shown)) - 1
  <2> DEFINE new == Ascending(from, k)
  <2>1. new \in Seq(Lines) /\ shown' = shown \o new
    BY <1>1, <1>3
  <2>2. Len(new) = k - from /\ \A i \in 1 .. k - from : new[i] = from + i - 1
    BY <1>3
  <2> HIDE DEF new
  <2>3. /\ shown' \in Seq(Lines)
        /\ Len(shown') = Len(shown) + Len(new)
        /\ \A i \in 1 .. Len(shown) + Len(new) :
             shown'[i] = IF i <= Len(shown) THEN shown[i] ELSE new[i - Len(shown)]
    BY <1>2, <2>1, ConcatProperties
  <2>4. ASSUME NEW i \in Len(shown) + 1 .. Len(shown')
        PROVE  shown'[i] = from + (i - Len(shown)) - 1
    <3>1. i - Len(shown) \in 1 .. k - from
      BY <1>1, <1>2, <2>2, <2>3
    <3>2. shown'[i] = new[i - Len(shown)]
      BY <1>2, <2>2, <2>3
    <3> QED BY <2>2, <3>1, <3>2
  <2> QED BY <1>1, <1>2, <2>2, <2>3, <2>4
<1>5. ShownBelowNext'
  <2> SUFFICES ASSUME NEW i \in 1 .. Len(shown') PROVE shown'[i] < k
    BY <1>1 DEF ShownBelowNext
  <2>1. CASE i <= Len(shown)
    BY <1>1, <1>2, <1>4, <2>1 DEF Lines
  <2>2. CASE i > Len(shown)
    BY <1>1, <1>2, <1>4, <2>2
  <2> QED BY <1>2, <2>1, <2>2
<1>6. InOrderOnce'
  <2> SUFFICES ASSUME NEW i \in 1 .. Len(shown'), NEW j \in 1 .. Len(shown'), i < j
               PROVE  shown'[i] < shown'[j]
    BY DEF InOrderOnce
  <2>1. CASE j <= Len(shown)
    BY <1>2, <1>4, <2>1
  <2>2. CASE i <= Len(shown) /\ j > Len(shown)
    <3>1. shown'[i] = shown[i] /\ shown[i] < next /\ shown[i] \in Int
      BY <1>2, <1>4, <2>2 DEF Lines
    <3>2. shown'[j] = from + (j - Len(shown)) - 1 /\ j - Len(shown) \in Nat \ {0}
      BY <1>1, <1>2, <1>4, <2>2
    <3> QED BY <1>2, <3>1, <3>2
  <2>3. CASE i > Len(shown)
    BY <1>1, <1>2, <1>4, <2>3
  <2> QED BY <1>2, <2>1, <2>2, <2>3
<1>7. held' \subseteq next' + 1 .. LastSeq
  BY <1>1, <1>2
<1> QED BY <1>1, <1>2, <1>4, <1>5, <1>6, <1>7

(* One line at the sink: dropped, flushed with its successors, held, or    *)
(* the reason to skip a hole.                                              *)
LEMMA AcceptStep ==
  ASSUME FeedInv, NEW n \in Lines, Accept(n)
  PROVE  /\ next' \in 1 .. LastSeq + 1
         /\ held' \subseteq next' + 1 .. LastSeq
         /\ shown' \in Seq(Lines)
         /\ InOrderOnce'
         /\ ShownBelowNext'
<1> DEFINE lines == held \cup {n}
<1>1. /\ next \in 1 .. LastSeq + 1 /\ held \subseteq next + 1 .. LastSeq
      /\ n \in 1 .. LastSeq /\ LastSeq \in Nat
  BY LastSeqAssumption DEF FeedInv, TypeOK, Lines
<1>2. CASE n < next /\ DropStale(n)
  BY <1>2 DEF DropStale, sink, FeedInv, TypeOK, InOrderOnce, ShownBelowNext
<1>3. CASE n = next /\ Drain(n, lines)
  <2>1. lines \in SUBSET (n .. LastSeq) /\ n \in Int /\ next <= n
    BY <1>1, <1>3
  <2> HIDE DEF lines
  <2> QED BY <1>3, <2>1, DrainStep
<1>4. CASE n > next /\ held' = lines /\ UNCHANGED <<next, shown>>
  BY <1>1, <1>4 DEF FeedInv, TypeOK, InOrderOnce, ShownBelowNext
<1>5. CASE n > next /\ \E m \in lines : (\A l \in lines : m <= l) /\ Drain(m, lines)
  <2>1. PICK m \in lines : (\A l \in lines : m <= l) /\ Drain(m, lines)
    BY <1>5
  <2>2. lines \in SUBSET (m .. LastSeq) /\ m \in Int /\ next <= m
    BY <1>1, <1>5, <2>1
  <2> HIDE DEF lines
  <2> QED BY <2>1, <2>2, DrainStep
<1> QED BY <1>2, <1>3, <1>4, <1>5 DEF Accept

(* A reconnect counts its attempt, up to the limit.                        *)
LEMMA ReopenStep ==
  TypeOK /\ Reopen => phase' \in Phases /\ attempt' \in 0 .. MaxAttempts
BY LimitsAssumption DEF TypeOK, Reopen, Exhausts, Phases

(* What is asked for with since_seq is what the console has; the exit      *)
(* frame comes after the lines of the replay.                              *)
LEMMA ConnectedStep ==
  TypeOK /\ Connected =>
    /\ \E lines \in Seq(Lines) :
         wire' = lines \/ (ExitReplayed(LastFlushedSeq) /\ wire' = Append(lines, Exit))
    /\ wire' \in Seq(Lines \cup {Exit})
    /\ missed' \subseteq Lines
<1> SUFFICES ASSUME TypeOK, Connected
             PROVE  /\ \E lines \in Seq(Lines) :
                         \/ wire' = lines
                         \/ ExitReplayed(LastFlushedSeq) /\ wire' = Append(lines, Exit)
                    /\ missed' \subseteq Lines
  BY DEF Exit
<1> DEFINE since == LastFlushedSeq
           first == IF since > issued - Kept THEN since + 1 ELSE issued - Kept + 1
           replay == IF since = 0 THEN {} ELSE Replayed(since)
           all == Ascending(first, issued + 1)
<1>1. /\ issued \in 0 .. LastSeq /\ LastSeq \in Nat /\ Kept \in Nat
      /\ shown \in Seq(Lines) /\ missed \subseteq Lines
  BY LastSeqAssumption, BrokerAssumption DEF TypeOK, Kept
<1>2. since \in 0 .. LastSeq
  <2>1. CASE shown = <<>>
    BY <1>1, <2>1 DEF LastFlushedSeq
  <2>2. CASE shown # <<>>
    <3>1. shown[Len(shown)] \in Lines
      BY <1>1, <2>2
    <3> QED BY <1>1, <2>2, <3>1 DEF LastFlushedSeq, Lines
  <2> QED BY <2>1, <2>2
<1>3. first \in Int /\ 0 < first
  BY <1>1, <1>2
<1>4. all \in Seq(Lines)
  <2> HIDE DEF first
  <2>1. issued + 1 \in Int /\ issued + 1 <= LastSeq + 1
    BY <1>1
  <2> QED BY <1>3, <2>1, AscendingLines
<1>5. /\ \/ wire' = IF since = 0 THEN <<>> ELSE all
         \/ /\ ExitReplayed(since)
            /\ wire' = Append(IF since = 0 THEN <<>> ELSE all, Exit)
         \/ replay # {} /\ wire' = Append(all, issued)
      /\ missed' = (missed \cup (since + 1 .. issued)) \ (replay \cup held)
  BY DEF Connected, Replayed
<1>6. replay # {} => issued \in Lines
  BY <1>1, <1>2 DEF Replayed, Lines
<1> HIDE DEF all, replay, since
<1>7. missed' \subseteq Lines
  <2>1. since + 1 .. issued \subseteq Lines
    BY <1>1, <1>2 DEF Lines
  <2> QED BY <1>1, <1>5, <2>1
<1>8. all \in Seq(Lines) /\ <<>> \in Seq(Lines)
  BY <1>4
<1>9. \E lines \in Seq(Lines) :
        wire' = lines \/ (ExitReplayed(since) /\ wire' = Append(lines, Exit))
  <2>1. (IF since = 0 THEN <<>> ELSE all) \in Seq(Lines)
    BY <1>8
  <2>2. CASE replay # {} /\ wire' = Append(all, issued)
    BY <1>6, <1>8, <2>2
  <2> QED BY <1>5, <2>1, <2>2
<1> QED BY <1>7, <1>9 DEF since

(* Every step keeps the invariant.                                         *)
LEMMA FeedStep == FeedInv /\ [Next]_vars => FeedInv'
<1> SUFFICES ASSUME FeedInv, [Next]_vars PROVE FeedInv'
  OBVIOUS
<1> USE LastSeqAssumption, LimitsAssumption
<1>1. CASE Issue
  <2>1. issued + 1 \in Lines /\ issued' \in 0 .. LastSeq
    BY <1>1 DEF Issue, FeedInv, TypeOK, Lines
  <2>2. wire' \in Seq(Lines \cup {Exit}) /\ missed' \subseteq Lines
    <3>1. wire \in Seq(Lines \cup {Exit}) /\ missed \subseteq Lines
      BY DEF FeedInv, TypeOK
    <3>2. wire' \in {wire, Append(wire, issued + 1)} /\ missed' \in {missed, missed \cup {issued + 1}}
      BY <1>1 DEF Issue
    <3> QED BY <2>1, <3>1, <3>2
  <2> QED BY <1>1, <2>1, <2>2 DEF Issue, FeedInv, TypeOK, InOrderOnce,
                                  ShownBelowNext, sink, gap
<1>2. CASE IssueSwapped
  <2>1. issued + 2 \in Lines /\ issued + 1 \in Lines
    BY <1>2 DEF IssueSwapped, FeedInv, TypeOK, Lines
  <2>2. wire' \in Seq(Lines \cup {Exit})
    BY <1>2, <2>1 DEF IssueSwapped, FeedInv, TypeOK
  <2> QED BY <1>2, <2>2 DEF IssueSwapped, FeedInv, TypeOK, InOrderOnce,
                            ShownBelowNext, sink, gap
<1>3. CASE BrokerExit \/ BrokerForgets \/ BrokerStalls
  <2>1. wire \in Seq(Lines \cup {Exit})
    BY DEF FeedInv, TypeOK
  <2>2. wire' \in Seq(Lines \cup {Exit})
    <3>1. wire' \in {wire, Append(wire, Exit)}
      BY <1>3 DEF BrokerExit, BrokerForgets, BrokerStalls
    <3> QED BY <2>1, <3>1
  <2>3. /\ broker' \in BrokerStates
        /\ UNCHANGED <<issued, phase, attempt, next, held, shown, seen, reported, missed, late>>
    BY <1>3 DEF BrokerExit, BrokerForgets, BrokerStalls, BrokerStates, sink, gap
  <2> QED BY <2>2, <2>3 DEF FeedInv, TypeOK, InOrderOnce, ShownBelowNext
<1>4. CASE Connected
  <2>1. wire' \in Seq(Lines \cup {Exit}) /\ missed' \subseteq Lines
    BY <1>4, ConnectedStep DEF FeedInv
  <2>2. late' \in BOOLEAN
    BY <1>4 DEF Connected
  <2> QED BY <1>4, <2>1, <2>2 DEF Connected, FeedInv, TypeOK, InOrderOnce,
                            ShownBelowNext, sink, gap, Phases
<1>5. CASE Disconnected
  BY <1>5, ReopenStep DEF Disconnected, FeedInv, TypeOK, InOrderOnce,
                          ShownBelowNext, sink, gap
<1>6. CASE TimerFires
  BY <1>6 DEF TimerFires, FeedInv, TypeOK, InOrderOnce, ShownBelowNext, sink,
              gap, Phases
<1>7. CASE Close
  BY <1>7 DEF Close, FeedInv, TypeOK, InOrderOnce, ShownBelowNext, sink, gap,
              Phases
<1>8. ASSUME NEW n \in Lines, LineArrives(n) PROVE FeedInv'
  <2>1. /\ next' \in 1 .. LastSeq + 1 /\ held' \subseteq next' + 1 .. LastSeq
        /\ shown' \in Seq(Lines) /\ InOrderOnce' /\ ShownBelowNext'
    BY <1>8, AcceptStep DEF LineArrives
  <2>2. wire' \in Seq(Lines \cup {Exit})
    BY <1>8 DEF LineArrives, FeedInv, TypeOK
  <2>3. seen' \in 0 .. LastSeq /\ reported' \in BOOLEAN
    BY <1>8 DEF LineArrives, LogGap, FeedInv, TypeOK, Lines
  <2>4. /\ issued' = issued /\ broker' = broker /\ phase' = phase /\ late' = late
        /\ attempt' \in 0 .. MaxAttempts /\ missed' \subseteq Lines
    BY <1>8 DEF LineArrives, FeedInv, TypeOK
  <2> QED BY <2>1, <2>2, <2>3, <2>4 DEF FeedInv, TypeOK
<1>9. CASE ExitArrives
  BY <1>9 DEF ExitArrives, FeedInv, TypeOK, InOrderOnce, ShownBelowNext, sink,
              gap, Phases
<1>10. CASE UNCHANGED vars
  BY <1>10 DEF vars, FeedInv, TypeOK, InOrderOnce, ShownBelowNext
<1> QED BY <1>1, <1>2, <1>3, <1>4, <1>5, <1>6, <1>7, <1>8, <1>9, <1>10 DEF Next

(* The type invariant, for all values of the constants.                    *)
THEOREM FeedTypeCorrect == Spec => []TypeOK
BY FeedInit, FeedStep, PTL DEF Spec, FeedInv

(* InOrderOnce for all values of the constants: createNdjsonSeqReorder     *)
(* puts the lines into order and drops what comes again, after any number  *)
(* of reconnects and replays.                                              *)
THEOREM FeedInOrderOnce == Spec => []InOrderOnce
BY FeedInit, FeedStep, PTL DEF Spec, FeedInv

-----------------------------------------------------------------------------
(* Why a hole is a line that did not come.  On an open connection every    *)
(* line from the expected one on is held, missed, or on the wire.  The     *)
(* wire is in order but for swapped neighbours, and of such a pair nothing *)
(* has come yet: so when a line overflows the sink, one before the held    *)
(* ones cannot be on the wire behind it.                                   *)

Flushed == LastFlushedSeq = next - 1

IssuedOnly ==
  /\ held \subseteq 1 .. issued
  /\ missed \subseteq 1 .. issued
  /\ \A i \in 1 .. Len(wire) : wire[i] <= issued

OnWire(n) == \E i \in 1 .. Len(wire) : wire[i] = n

WireNotMissed == \A n \in missed : ~OnWire(n)

SwappedPair(i, j) ==
  /\ j = i + 1
  /\ wire[i] = wire[j] + 1
  /\ \A k \in 1 .. i - 1 : wire[k] < wire[j]
  /\ \A h \in held : h < wire[j]

WireOrder ==
  \A i, j \in 1 .. Len(wire) :
    i < j /\ wire[j] # Exit => wire[i] <= wire[j] \/ SwappedPair(i, j)

NothingLost ==
  phase = "up" =>
    \A n \in next .. issued : n \in held \cup missed \/ OnWire(n)

HoleInv ==
  /\ FeedInv
  /\ HolesAreMissed
  /\ Flushed
  /\ IssuedOnly
  /\ WireNotMissed
  /\ WireOrder
  /\ NothingLost

LEMMA HoleInit == Init => HoleInv
<1> SUFFICES ASSUME Init PROVE HoleInv
  OBVIOUS
<1>1. FeedInv
  BY FeedInit
<1>2. wire = <<>> /\ Len(wire) = 0 /\ next = 1 /\ shown = <<>> /\ held = {} /\ missed = {}
  BY DEF Init
<1>3. phase # "up"
  BY DEF Init
<1> QED BY <1>1, <1>2, <1>3
        DEF HoleInv, HolesAreMissed, Flushed, LastFlushedSeq, IssuedOnly,
            WireNotMissed, WireOrder, NothingLost

(* Flushing from a line that is there: the lines up to the new expected    *)
(* one are shown, and nothing that was shown is lost.                      *)
LEMMA DrainShows ==
  ASSUME FeedInv, NEW from \in Int, next <= from,
         NEW lines \in SUBSET (from .. LastSeq), from \in lines, Drain(from, lines)
  PROVE  \E k \in Int :
           /\ next' = k /\ from < k
           /\ held' = lines \ (from .. k - 1)
           /\ Shown \subseteq Shown'
           /\ from .. k - 1 \subseteq Shown'
           /\ Flushed'
<1>1. PICK k \in from .. LastSeq + 1 :
        /\ k \notin lines
        /\ shown' = shown \o Ascending(from, k)
        /\ next' = k
        /\ held' = lines \ (from .. k - 1)
  BY DEF Drain
<1>2. /\ next \in 1 .. LastSeq + 1 /\ shown \in Seq(Lines)
      /\ LastSeq \in Nat /\ from \in Nat /\ k \in Nat /\ Len(shown) \in Nat
      /\ from < k
  BY <1>1, LastSeqAssumption DEF FeedInv, TypeOK
<1> DEFINE new == Ascending(from, k)
<1>3. /\ new \in Seq(Lines) /\ Len(new) = k - from
      /\ \A i \in 1 .. k - from : new[i] = from + i - 1
  BY <1>1, <1>2, AscendingLines
<1>4. shown' = shown \o new
  BY <1>1
<1> HIDE DEF new
<1>5. /\ Len(shown') = Len(shown) + (k - from)
      /\ \A i \in 1 .. Len(shown) + (k - from) :
           shown'[i] = IF i <= Len(shown) THEN shown[i] ELSE new[i - Len(shown)]
  <2>1. /\ Len(shown') = Len(shown) + Len(new)
        /\ \A i \in 1 .. Len(shown) + Len(new) :
             shown'[i] = IF i <= Len(shown) THEN shown[i] ELSE new[i - Len(shown)]
    BY <1>2, <1>3, <1>4, ConcatProperties
  <2> QED BY <1>3, <2>1
<1>6. Shown \subseteq Shown'
  <2>1. \A i \in 1 .. Len(shown) : i \in 1 .. Len(shown') /\ shown'[i] = shown[i]
    BY <1>2, <1>5
  <2> QED BY <2>1 DEF Shown
<1>7. ASSUME NEW q \in from .. k - 1 PROVE q \in Shown'
  <2>1. /\ Len(shown) + (q - from + 1) \in 1 .. Len(shown')
        /\ shown'[Len(shown) + (q - from + 1)] = new[q - from + 1]
    BY <1>2, <1>5
  <2>2. new[q - from + 1] = q
    BY <1>2, <1>3
  <2> QED BY <2>1, <2>2 DEF Shown
<1>8. Flushed'
  <2>1. /\ Len(shown') \in 1 .. Len(shown') /\ shown' # <<>>
        /\ shown'[Len(shown')] = new[k - from]
    BY <1>2, <1>5
  <2>2. new[k - from] = k - 1
    BY <1>2, <1>3
  <2> QED BY <1>1, <2>1, <2>2 DEF Flushed, LastFlushedSeq
<1> QED BY <1>1, <1>2, <1>6, <1>7, <1>8

(* When the sink overflows it holds a line besides the one that came.      *)
LEMMA OverflowHolds ==
  ASSUME NEW n, Overflows(held \cup {n})
  PROVE  \E h \in held : h # n
<1> SUFFICES ASSUME held \subseteq {n} PROVE FALSE
  OBVIOUS
<1>1. held \cup {n} = {n}
  OBVIOUS
<1>2. Cardinality({n}) = 1
  BY FS_Singleton
<1> QED BY <1>1, <1>2, LimitsAssumption DEF Overflows

(* The wire without its first line.                                        *)
LEMMA TailFacts ==
  ASSUME wire \in Seq(Lines \cup {Exit}), wire # <<>>, wire' = Tail(wire)
  PROVE  /\ Len(wire') = Len(wire) - 1 /\ Len(wire) \in Nat \ {0}
         /\ \A i \in 1 .. Len(wire') : wire'[i] = wire[i + 1]
         /\ \A i \in 1 .. Len(wire) : wire[i] \in Lines \cup {Exit}
OBVIOUS

(* The arrival of a line keeps the invariant.                              *)
LEMMA ArriveKeepsHoles ==
  ASSUME HoleInv, FeedInv', NEW n \in Lines, LineArrives(n)
  PROVE  HoleInv'
<1> DEFINE lines == held \cup {n}
<1>0. PICK top \in Int : top = next'
  BY DEF FeedInv, TypeOK
<1>1. /\ wire \in Seq(Lines \cup {Exit}) /\ wire # <<>> /\ wire[1] = n
      /\ wire' = Tail(wire) /\ missed' = missed \ {n}
      /\ issued' = issued /\ phase' = phase /\ phase = "up"
      /\ issued \in Int /\ next \in Int /\ n \in Int
      /\ held \subseteq next + 1 .. LastSeq /\ n <= LastSeq /\ LastSeq \in Int
      /\ FeedInv /\ Accept(n)
      /\ \A i \in 1 .. Len(wire) : wire[i] \in Int
  BY LastSeqAssumption DEF LineArrives, HoleInv, FeedInv, TypeOK, Lines, Exit
<1>2. /\ Len(wire') = Len(wire) - 1 /\ Len(wire) \in Nat \ {0}
      /\ \A i \in 1 .. Len(wire') : wire'[i] = wire[i + 1]
  BY <1>1, TailFacts
<1>3. /\ \A i \in 1 .. Len(wire') : i + 1 \in 1 .. Len(wire)
      /\ \A i \in 1 .. Len(wire) : i # 1 => i - 1 \in 1 .. Len(wire') /\ wire'[i - 1] = wire[i]
      /\ 1 \in 1 .. Len(wire)
  BY <1>2
<1>4. n \in 1 .. issued /\ n \notin missed
  BY <1>1, <1>3 DEF HoleInv, IssuedOnly, WireNotMissed, OnWire, Lines
<1>5. \A q : OnWire(q) => q = n \/ OnWire(q)'
  BY <1>1, <1>3 DEF OnWire
<1>6. \A q : OnWire(q)' => OnWire(q)
  BY <1>2, <1>3 DEF OnWire
(* What the sink does, in the three ways that matter here.                 *)
<1>7. \/ n < next /\ UNCHANGED <<next, held, shown>>
      \/ n > next /\ held' = lines /\ UNCHANGED <<next, shown>>
      \/ \E f \in lines :
           /\ next <= f
           /\ f # next => f <= n /\ \E h \in held : h # n /\ f <= h
           /\ f = next \/ \A l \in lines : f <= l
           /\ f < top
           /\ held' = lines \ (f .. top - 1)
           /\ Shown \subseteq Shown'
           /\ f .. top - 1 \subseteq Shown'
           /\ Flushed'
  <2>1. CASE n < next /\ DropStale(n)
    BY <2>1 DEF DropStale, sink
  <2>2. CASE n = next /\ Drain(n, lines)
    <3>1. lines \in SUBSET (n .. LastSeq) /\ n \in lines
      BY <1>1, <2>2
    <3> HIDE DEF lines
    <3>2. PICK e \in Int :
            /\ next' = e /\ n < e
            /\ held' = lines \ (n .. e - 1)
            /\ Shown \subseteq Shown'
            /\ n .. e - 1 \subseteq Shown'
            /\ Flushed'
      BY <1>1, <2>2, <3>1, DrainShows
    <3>3. e = top
      BY <1>0, <3>2
    <3> QED BY <1>1, <2>2, <3>1, <3>2, <3>3
  <2>3. CASE n > next /\ held' = lines /\ UNCHANGED <<next, shown>>
    BY <2>3
  <2>4. CASE /\ n > next /\ Overflows(lines)
             /\ \E m \in lines : (\A l \in lines : m <= l) /\ Drain(m, lines)
    <3>1. PICK m \in lines : (\A l \in lines : m <= l) /\ Drain(m, lines)
      BY <2>4
    <3>2. lines \in SUBSET (m .. LastSeq) /\ m \in Int /\ next <= m /\ m <= n
      BY <1>1, <2>4, <3>1
    <3>3. PICK h \in held : h # n
      BY <2>4, OverflowHolds
    <3>4. m <= h
      BY <3>1, <3>3
    <3> HIDE DEF lines
    <3>5. /\ m < top
          /\ held' = lines \ (m .. top - 1)
          /\ Shown \subseteq Shown'
          /\ m .. top - 1 \subseteq Shown'
          /\ Flushed'
      <4>1. PICK e \in Int :
              /\ next' = e /\ m < e
              /\ held' = lines \ (m .. e - 1)
              /\ Shown \subseteq Shown'
              /\ m .. e - 1 \subseteq Shown'
              /\ Flushed'
        BY <1>1, <3>1, <3>2, DrainShows
      <4>2. e = top
        BY <1>0, <4>1
      <4> QED BY <4>1, <4>2
    <3> QED BY <3>1, <3>2, <3>3, <3>4, <3>5
  <2> QED BY <1>1, <2>1, <2>2, <2>3, <2>4 DEF Accept
<1>8. held' \subseteq lines /\ next <= top
  <2>1. CASE n < next /\ UNCHANGED <<next, held, shown>>
    BY <1>0, <1>1, <2>1
  <2>2. CASE n > next /\ held' = lines /\ UNCHANGED <<next, shown>>
    BY <1>0, <1>1, <2>2
  <2>3. ASSUME NEW f \in lines, next <= f, f < top, held' = lines \ (f .. top - 1)
        PROVE  held' \subseteq lines /\ next <= top
    <3>1. f \in Int
      BY <1>1
    <3> QED BY <1>1, <2>3, <3>1
  <2> QED BY <1>7, <2>1, <2>2, <2>3
<1>10. Shown \subseteq Shown'
  BY <1>7 DEF Shown
(* A line that is skipped is missed.                                       *)
<1>11. ASSUME NEW q \in next .. top - 1 PROVE q \in Shown' \cup missed'
  <2>1. PICK f \in lines :
          /\ next <= f
          /\ f # next => f <= n /\ \E h \in held : h # n /\ f <= h
          /\ f = next \/ \A l \in lines : f <= l
          /\ f .. top - 1 \subseteq Shown'
    <3>1. next < top
      BY <1>1
    <3>2. next # next'
      BY <1>0, <1>1, <3>1
    <3> QED BY <1>7, <3>2
  <2>5. f \in Int /\ q \in Int
    BY <1>1, <1>8
  <2>2. CASE q >= f
    <3>1. q \in f .. top - 1
      BY <1>1, <1>8, <2>2, <2>5
    <3> QED BY <2>1, <3>1
  <2>3. CASE q < f
    <3>1. PICK h \in held : h # n /\ f <= h /\ f <= n
      BY <1>1, <2>1, <2>3
    <3>2. q \notin held /\ q # n /\ q \in next .. issued
      BY <1>1, <1>4, <1>8, <2>1, <2>3, <3>1
    <3>3. q \in missed \/ OnWire(q)
      BY <1>1, <3>2 DEF HoleInv, NothingLost
    <3>4. ASSUME OnWire(q) PROVE FALSE
      <4>1. PICK j \in 1 .. Len(wire) : wire[j] = q
        BY <3>4 DEF OnWire
      <4>2. 1 < j /\ wire[j] # Exit /\ ~(wire[1] <= wire[j])
        BY <1>1, <1>2, <1>8, <2>1, <2>3, <3>1, <3>2, <4>1 DEF HoleInv, FeedInv, TypeOK, Exit
      <4>3. SwappedPair(1, j)
        BY <1>3, <4>1, <4>2 DEF HoleInv, WireOrder
      <4>4. h < q
        BY <4>1, <4>3 DEF SwappedPair
      <4> QED BY <1>1, <2>1, <2>3, <3>1, <4>4
    <3> QED BY <3>2, <3>3, <3>4, <1>1
  <2> QED BY <2>2, <2>3, <2>5
<1>12. HolesAreMissed'
  <2> SUFFICES ASSUME NEW q \in 1 .. top - 1 PROVE q \in Shown' \cup missed'
    BY <1>0, Zenon DEF HolesAreMissed
  <2>1. CASE q < next
    <3>1. q \in Shown \cup missed
      BY <1>1, <1>8, <2>1 DEF HoleInv, HolesAreMissed
    <3> QED BY <1>1, <1>4, <1>10, <3>1
  <2>2. CASE q >= next
    <3>1. q \in next .. top - 1
      BY <1>1, <1>8, <2>2
    <3> QED BY <1>11, <3>1
  <2> QED BY <1>1, <1>8, <2>1, <2>2
<1>13. Flushed'
  BY <1>7 DEF HoleInv, Flushed, LastFlushedSeq
<1>14. IssuedOnly'
  BY <1>1, <1>2, <1>3, <1>4, <1>8 DEF HoleInv, IssuedOnly
<1>15. WireNotMissed'
  BY <1>1, <1>6 DEF HoleInv, WireNotMissed
<1>16. WireOrder'
  <2> SUFFICES ASSUME NEW i \in 1 .. Len(wire'), NEW j \in 1 .. Len(wire'),
                      i < j, wire'[j] # Exit
               PROVE  wire'[i] <= wire'[j] \/ SwappedPair(i, j)'
    BY DEF WireOrder, SwappedPair, Exit
  <2>1. /\ i + 1 \in 1 .. Len(wire) /\ j + 1 \in 1 .. Len(wire)
        /\ wire'[i] = wire[i + 1] /\ wire'[j] = wire[j + 1]
        /\ i + 1 < j + 1
    BY <1>2, <1>3
  <2>2. wire[i + 1] <= wire[j + 1] \/ SwappedPair(i + 1, j + 1)
    BY <2>1 DEF HoleInv, WireOrder
  <2>3. ASSUME SwappedPair(i + 1, j + 1) PROVE SwappedPair(i, j)'
    <3>1. /\ j + 1 = (i + 1) + 1
          /\ wire[i + 1] = wire[j + 1] + 1
          /\ \A k \in 1 .. (i + 1) - 1 : wire[k] < wire[j + 1]
          /\ \A h \in held : h < wire[j + 1]
      BY <2>3 DEF SwappedPair
    <3>2. \A k \in 1 .. i - 1 : wire'[k] < wire'[j]
      <4> SUFFICES ASSUME NEW k \in 1 .. i - 1 PROVE wire'[k] < wire'[j]
        OBVIOUS
      <4>1. k + 1 \in 1 .. (i + 1) - 1 /\ wire'[k] = wire[k + 1]
        BY <1>2
      <4> QED BY <2>1, <3>1, <4>1
    <3>3. n < wire'[j]
      BY <1>1, <2>1, <3>1
    <3>4. \A h \in held' : h < wire'[j]
      BY <1>8, <2>1, <3>1, <3>3
    <3> QED BY <2>1, <3>1, <3>2, <3>4 DEF SwappedPair
  <2> QED BY <2>1, <2>2, <2>3
<1>17. NothingLost'
  <2> SUFFICES ASSUME NEW q \in top .. issued
               PROVE  q \in held' \cup missed' \/ OnWire(q)'
    BY <1>0, <1>1 DEF NothingLost, OnWire
  <2>1. q \in held \cup missed \/ OnWire(q)
    BY <1>1, <1>8 DEF HoleInv, NothingLost
  <2>2. q = n \/ q \in held \cup missed' \/ OnWire(q)'
    BY <1>1, <1>5, <2>1
  <2>3. ASSUME q \in lines PROVE q \in held'
    <3>1. q \in Int /\ top <= q
      BY <1>8
    <3>2. CASE n < next /\ UNCHANGED <<next, held, shown>>
      BY <1>0, <1>1, <2>3, <3>1, <3>2
    <3>3. CASE held' = lines
      BY <2>3, <3>3
    <3>4. ASSUME NEW f \in lines, held' = lines \ (f .. top - 1)
          PROVE  q \in held'
      <4>1. f \in Int
        BY <1>1
      <4>2. q \notin f .. top - 1
        BY <3>1, <4>1
      <4> QED BY <2>3, <3>4, <4>2
    <3> QED BY <1>7, <3>2, <3>3, <3>4
  <2> QED BY <2>2, <2>3
<1> QED BY <1>12, <1>13, <1>14, <1>15, <1>16, <1>17 DEF HoleInv

(* A line of the run, or the two of a swapped pair, or the exit frame at    *)
(* the end of the wire.                                                    *)
LEMMA AppendFacts ==
  ASSUME NEW x \in Lines \cup {Exit}, wire \in Seq(Lines \cup {Exit}),
         wire' = Append(wire, x)
  PROVE  /\ Len(wire') = Len(wire) + 1 /\ Len(wire) \in Nat
         /\ wire'[Len(wire) + 1] = x
         /\ \A i \in 1 .. Len(wire) : wire'[i] = wire[i]
         /\ \A i \in 1 .. Len(wire) : wire[i] \in Lines \cup {Exit}
OBVIOUS

(* The broker numbers a line, and sends it, drops it or has no client.     *)
LEMMA IssueKeepsHoles ==
  ASSUME HoleInv, FeedInv', Issue
  PROVE  HoleInv'
<1> DEFINE x == issued + 1
<1>1. /\ issued' = x /\ issued \in Nat /\ x \in Lines
      /\ UNCHANGED <<broker, phase, attempt, next, held, shown, seen, reported>>
      /\ wire \in Seq(Lines \cup {Exit})
      /\ held \subseteq next + 1 .. LastSeq /\ next \in Int /\ LastSeq \in Int
      /\ held \subseteq 1 .. issued /\ missed \subseteq 1 .. issued
      /\ \A i \in 1 .. Len(wire) : wire[i] \in Int /\ wire[i] <= issued
  BY LastSeqAssumption
     DEF Issue, HoleInv, FeedInv, TypeOK, IssuedOnly, sink, gap, Lines, Exit
<1>2. HolesAreMissed' /\ Flushed'
  BY <1>1 DEF Issue, HoleInv, HolesAreMissed, Flushed, LastFlushedSeq, Shown
<1>3. CASE phase = "up" /\ wire' = Append(wire, x) /\ UNCHANGED missed
  <2>1. /\ Len(wire') = Len(wire) + 1 /\ Len(wire) \in Nat
        /\ wire'[Len(wire) + 1] = x
        /\ \A i \in 1 .. Len(wire) : wire'[i] = wire[i]
    BY <1>1, <1>3, AppendFacts
  <2>2. IssuedOnly'
    <3>1. \A i \in 1 .. Len(wire') : wire'[i] <= x
      BY <1>1, <2>1
    <3> QED BY <1>1, <1>3, <3>1 DEF IssuedOnly
  <2>3. WireNotMissed'
    <3> SUFFICES ASSUME NEW n \in missed, NEW i \in 1 .. Len(wire') PROVE wire'[i] # n
      BY <1>3 DEF WireNotMissed, OnWire
    <3>1. n # x
      BY <1>1
    <3> QED BY <2>1, <3>1 DEF HoleInv, WireNotMissed, OnWire
  <2>4. WireOrder'
    <3> SUFFICES ASSUME NEW i \in 1 .. Len(wire'), NEW j \in 1 .. Len(wire'),
                        i < j, wire'[j] # Exit
                 PROVE  wire'[i] <= wire'[j] \/ SwappedPair(i, j)'
      BY DEF WireOrder, SwappedPair, Exit
    <3>1. CASE j = Len(wire) + 1
      BY <1>1, <2>1, <3>1
    <3>2. CASE j # Len(wire) + 1
      <4>1. i \in 1 .. Len(wire) /\ j \in 1 .. Len(wire)
        BY <2>1, <3>2
      <4>2. wire[i] <= wire[j] \/ SwappedPair(i, j)
        BY <2>1, <4>1 DEF HoleInv, WireOrder
      <4>3. \A k \in 1 .. i - 1 : wire'[k] = wire[k]
        BY <2>1, <4>1
      <4>4. SwappedPair(i, j) => SwappedPair(i, j)'
        BY <1>1, <2>1, <4>1, <4>3 DEF SwappedPair
      <4> QED BY <2>1, <4>1, <4>2, <4>4
    <3> QED BY <3>1, <3>2
  <2>5. NothingLost'
    <3> SUFFICES ASSUME NEW n \in next .. x
                 PROVE  n \in held \cup missed \/ \E i \in 1 .. Len(wire') : wire'[i] = n
      BY <1>1, <1>3 DEF NothingLost, OnWire
    <3>1. CASE n = x
      BY <2>1, <3>1
    <3>2. CASE n # x
      <4>1. n \in next .. issued
        BY <1>1, <3>2
      <4>2. n \in held \cup missed \/ OnWire(n)
        BY <1>3, <4>1 DEF HoleInv, NothingLost
      <4> QED BY <2>1, <4>2 DEF OnWire
    <3> QED BY <3>1, <3>2
  <2> QED BY <1>2, <2>2, <2>3, <2>4, <2>5 DEF HoleInv
<1>4. CASE phase = "up" /\ missed' = missed \cup {x} /\ UNCHANGED wire
  <2>1. IssuedOnly'
    BY <1>1, <1>4 DEF IssuedOnly
  <2>2. WireNotMissed'
    BY <1>1, <1>4 DEF HoleInv, WireNotMissed, OnWire
  <2>3. WireOrder'
    BY <1>1, <1>4 DEF HoleInv, WireOrder, SwappedPair
  <2>4. NothingLost'
    <3> SUFFICES ASSUME NEW n \in next .. x
                 PROVE  n \in held \cup missed' \/ OnWire(n)
      BY <1>1, <1>4 DEF NothingLost, OnWire
    <3>1. n = x \/ n \in next .. issued
      BY <1>1
    <3> QED BY <1>4, <3>1 DEF HoleInv, NothingLost
  <2> QED BY <1>2, <1>4, <2>1, <2>2, <2>3, <2>4 DEF HoleInv, HolesAreMissed
<1>5. CASE phase # "up" /\ UNCHANGED <<wire, missed>>
  <2>1. IssuedOnly'
    BY <1>1, <1>5 DEF IssuedOnly
  <2> QED BY <1>1, <1>2, <1>5, <2>1 DEF HoleInv, WireNotMissed, OnWire,
                                        WireOrder, SwappedPair, NothingLost
<1> QED BY <1>3, <1>4, <1>5 DEF Issue

(* The relay swaps two lines: nothing else is on the wire behind them, and *)
(* nothing held comes after them.                                          *)
LEMMA SwapKeepsHoles ==
  ASSUME HoleInv, FeedInv', IssueSwapped
  PROVE  HoleInv'
<1> DEFINE x == issued + 1
           y == issued + 2
           n == Len(wire)
<1>1. /\ issued' = y /\ issued \in Nat /\ x \in Lines /\ y \in Lines
      /\ UNCHANGED <<broker, phase, attempt, next, held, shown, seen, reported, missed>>
      /\ phase = "up"
      /\ wire \in Seq(Lines \cup {Exit}) /\ n \in Nat
      /\ next \in Int
      /\ held \subseteq 1 .. issued /\ missed \subseteq 1 .. issued
      /\ \A i \in 1 .. n : wire[i] \in Int /\ wire[i] <= issued
  BY LastSeqAssumption
     DEF IssueSwapped, HoleInv, FeedInv, TypeOK, IssuedOnly, sink, gap, Lines, Exit
<1>2. /\ Len(wire') = n + 2
      /\ wire'[n + 1] = y /\ wire'[n + 2] = x
      /\ \A i \in 1 .. n : wire'[i] = wire[i]
  BY <1>1 DEF IssueSwapped
<1> HIDE DEF n
<1>3. HolesAreMissed' /\ Flushed'
  BY <1>1 DEF HoleInv, HolesAreMissed, Flushed, LastFlushedSeq, Shown
<1>4. ASSUME NEW i \in 1 .. Len(wire')
      PROVE  i \in 1 .. n \/ i = n + 1 \/ i = n + 2
  BY <1>1, <1>2
<1>5. IssuedOnly'
  <2>1. \A i \in 1 .. Len(wire') : wire'[i] <= y
    BY <1>1, <1>2, <1>4
  <2> QED BY <1>1, <2>1 DEF IssuedOnly
<1>6. WireNotMissed'
  <2> SUFFICES ASSUME NEW m \in missed, NEW i \in 1 .. Len(wire') PROVE wire'[i] # m
    BY <1>1 DEF WireNotMissed, OnWire
  <2>1. m # x /\ m # y
    BY <1>1
  <2> QED BY <1>2, <1>4, <2>1 DEF HoleInv, WireNotMissed, OnWire, n
<1>7. WireOrder'
  <2> SUFFICES ASSUME NEW i \in 1 .. Len(wire'), NEW j \in 1 .. Len(wire'),
                      i < j, wire'[j] # Exit
               PROVE  wire'[i] <= wire'[j] \/ SwappedPair(i, j)'
    BY DEF WireOrder, SwappedPair, Exit
  <2>1. CASE j \in 1 .. n
    <3>1. i \in 1 .. n
      BY <1>1, <1>2, <2>1
    <3>2. wire[i] <= wire[j] \/ SwappedPair(i, j)
      BY <1>2, <2>1, <3>1 DEF HoleInv, WireOrder, n
    <3>3. \A k \in 1 .. i - 1 : wire'[k] = wire[k]
      BY <1>1, <1>2, <3>1
    <3>4. SwappedPair(i, j) => SwappedPair(i, j)'
      BY <1>1, <1>2, <2>1, <3>1, <3>3 DEF SwappedPair
    <3> QED BY <1>2, <2>1, <3>1, <3>2, <3>4
  <2>2. CASE i \in 1 .. n /\ j \notin 1 .. n
    BY <1>1, <1>2, <1>4, <2>2
  <2>3. CASE i = n + 1
    <3>1. j = i + 1 /\ j = n + 2
      BY <1>1, <1>2, <2>3
    <3>2. \A k \in 1 .. i - 1 : wire'[k] < wire'[j]
      BY <1>1, <1>2, <2>3, <3>1
    <3>3. \A h \in held' : h < wire'[j]
      BY <1>1, <1>2, <3>1
    <3>4. wire'[i] = wire'[j] + 1
      BY <1>1, <1>2, <2>3, <3>1
    <3> QED BY <3>1, <3>2, <3>3, <3>4 DEF SwappedPair
  <2> QED BY <1>1, <1>2, <1>4, <2>1, <2>2, <2>3
<1>8. NothingLost'
  <2> SUFFICES ASSUME NEW m \in next .. y
               PROVE  m \in held \cup missed \/ \E i \in 1 .. Len(wire') : wire'[i] = m
    BY <1>1 DEF NothingLost, OnWire
  <2>1. CASE m = x \/ m = y
    BY <1>1, <1>2, <2>1
  <2>2. CASE m # x /\ m # y
    <3>1. m \in next .. issued
      BY <1>1, <2>2
    <3>2. m \in held \cup missed \/ OnWire(m)
      BY <1>1, <3>1 DEF HoleInv, NothingLost
    <3> QED BY <1>1, <1>2, <3>2 DEF OnWire, n
  <2> QED BY <2>1, <2>2
<1> QED BY <1>3, <1>5, <1>6, <1>7, <1>8 DEF HoleInv

(* The exit frame is put behind the last line.                             *)
LEMMA ExitKeepsHoles ==
  ASSUME HoleInv, FeedInv', BrokerExit
  PROVE  HoleInv'
<1>1. /\ wire \in Seq(Lines \cup {Exit})
      /\ UNCHANGED <<issued, phase, next, held, shown, missed>>
      /\ missed \subseteq Lines /\ Exit \notin Lines /\ 0 <= issued
  BY DEF BrokerExit, HoleInv, FeedInv, TypeOK, sink, gap, Lines, Exit
<1>2. CASE wire' = wire
  BY <1>1, <1>2 DEF HoleInv, HolesAreMissed, Flushed, LastFlushedSeq, Shown,
                    IssuedOnly, WireNotMissed, OnWire, WireOrder, SwappedPair,
                    NothingLost
<1>3. CASE wire' = Append(wire, Exit)
  <2>1. /\ Len(wire') = Len(wire) + 1 /\ Len(wire) \in Nat
        /\ wire'[Len(wire) + 1] = Exit
        /\ \A i \in 1 .. Len(wire) : wire'[i] = wire[i]
    BY <1>1, <1>3, AppendFacts
  <2>2. IssuedOnly'
    <3>1. \A i \in 1 .. Len(wire') : wire'[i] <= issued
      BY <1>1, <2>1 DEF HoleInv, IssuedOnly, Exit
    <3> QED BY <1>1, <3>1 DEF HoleInv, IssuedOnly
  <2>3. WireNotMissed'
    BY <1>1, <2>1 DEF HoleInv, WireNotMissed, OnWire
  <2>4. WireOrder'
    <3> SUFFICES ASSUME NEW i \in 1 .. Len(wire'), NEW j \in 1 .. Len(wire'),
                        i < j, wire'[j] # Exit
                 PROVE  wire'[i] <= wire'[j] \/ SwappedPair(i, j)'
      BY DEF WireOrder, SwappedPair, Exit
    <3>1. i \in 1 .. Len(wire) /\ j \in 1 .. Len(wire)
      BY <2>1
    <3>2. wire[i] <= wire[j] \/ SwappedPair(i, j)
      BY <2>1, <3>1 DEF HoleInv, WireOrder
    <3>3. \A k \in 1 .. i - 1 : wire'[k] = wire[k]
      BY <2>1, <3>1
    <3>4. SwappedPair(i, j) => SwappedPair(i, j)'
      BY <1>1, <2>1, <3>1, <3>3 DEF SwappedPair
    <3> QED BY <2>1, <3>1, <3>2, <3>4
  <2>5. NothingLost'
    BY <1>1, <2>1 DEF HoleInv, NothingLost, OnWire
  <2>6. HolesAreMissed' /\ Flushed'
    BY <1>1 DEF HoleInv, HolesAreMissed, Flushed, LastFlushedSeq, Shown
  <2> QED BY <2>2, <2>3, <2>4, <2>5, <2>6 DEF HoleInv
<1> QED BY <1>2, <1>3 DEF BrokerExit

(* A connection brings what the ring still holds of the lines above the    *)
(* last one flushed; the rest is missed.                                   *)
LEMMA ConnectKeepsHoles ==
  ASSUME HoleInv, FeedInv', Connected
  PROVE  HoleInv'
<1> DEFINE since == LastFlushedSeq
           first == IF since > issued - Kept THEN since + 1 ELSE issued - Kept + 1
           replay == IF since = 0 THEN {} ELSE Replayed(since)
           all == Ascending(first, issued + 1)
<1>1. /\ issued \in 0 .. LastSeq /\ LastSeq \in Nat /\ Kept \in Nat
      /\ UNCHANGED <<issued, next, held, shown>>
      /\ next \in 1 .. LastSeq + 1 /\ held \subseteq next + 1 .. LastSeq
      /\ since = next - 1
      /\ held \subseteq 1 .. issued /\ missed \subseteq 1 .. issued
  BY LastSeqAssumption, BrokerAssumption
     DEF Connected, HoleInv, FeedInv, TypeOK, Flushed, IssuedOnly, sink, gap, Kept
<1>2. /\ \E w :
           /\ \/ w = (IF since = 0 THEN <<>> ELSE all)
              \/ replay # {} /\ w = Append(all, issued)
           /\ wire' \in {w, Append(w, Exit)}
      /\ missed' = (missed \cup (since + 1 .. issued)) \ (replay \cup held)
  BY DEF Connected, Replayed
<1>3. first \in Int /\ 0 < first /\ next <= first
  BY <1>1
<1>4. \A m : m \in replay <=> since # 0 /\ m \in first .. issued
  <2>1. \A m \in Int : m \in Lines /\ since < m /\ issued - Kept < m /\ m <= issued
                        <=> m \in first .. issued
    BY <1>1, <1>3 DEF Lines
  <2> QED BY <1>1, <2>1 DEF Replayed, Lines
<1> HIDE DEF since, first, replay
<1>5. /\ all \in Seq(Lines) /\ Len(all) = IF first <= issued + 1 THEN issued + 1 - first ELSE 0
      /\ \A i \in 1 .. issued + 1 - first : all[i] = first + i - 1
  <2> DEFINE to == issued + 1
  <2>1. to \in Int /\ to <= LastSeq + 1
    BY <1>1
  <2> HIDE DEF to
  <2>2. /\ Ascending(first, to) \in Seq(Lines)
        /\ Len(Ascending(first, to)) = IF first <= to THEN to - first ELSE 0
        /\ \A i \in 1 .. to - first : Ascending(first, to)[i] = first + i - 1
    BY <1>3, <2>1, AscendingLines
  <2>3. all = Ascending(first, to) /\ to = issued + 1
    BY DEF to
  <2> HIDE DEF all
  <2> QED BY <1>1, <1>3, <2>1, <2>2, <2>3
<1> HIDE DEF all
<1>6. PICK w :
        /\ \/ w = (IF since = 0 THEN <<>> ELSE all)
           \/ replay # {} /\ w = Append(all, issued)
        /\ wire' \in {w, Append(w, Exit)}
  BY <1>2
<1>7. /\ Len(w) \in Nat
      /\ \A i \in 1 .. Len(w) : /\ w[i] \in first .. issued
                                /\ \/ w[i] = first + i - 1
                                   \/ w[i] = issued /\ i = Len(w)
                                /\ since # 0
      /\ since # 0 => \A m \in first .. issued : \E i \in 1 .. Len(w) : w[i] = m
  <2>1. CASE since = 0 /\ w = <<>>
    BY <2>1
  <2>2. CASE since # 0 /\ w = all
    <3>1. \A m \in first .. issued : m - first + 1 \in 1 .. Len(all) /\ all[m - first + 1] = m
      BY <1>1, <1>3, <1>5
    <3>2. Len(all) \in Nat /\ \A i \in 1 .. Len(all) : all[i] = first + i - 1 /\ all[i] \in first .. issued
      BY <1>1, <1>3, <1>5
    <3> QED BY <2>2, <3>1, <3>2
  <2>3. CASE replay # {} /\ w = Append(all, issued)
    <3>1. since # 0 /\ first <= issued
      BY <1>1, <1>3, <1>4, <2>3
    <3>2. /\ Len(all) = issued + 1 - first
          /\ \A i \in 1 .. Len(all) : all[i] = first + i - 1 /\ all[i] \in first .. issued
          /\ \A m \in first .. issued : m - first + 1 \in 1 .. Len(all) /\ all[m - first + 1] = m
      BY <1>1, <1>3, <1>5, <3>1
    <3>3. /\ Len(w) = Len(all) + 1 /\ w[Len(all) + 1] = issued
          /\ \A i \in 1 .. Len(all) : w[i] = all[i]
      BY <1>5, <2>3
    <3>4. Len(w) \in Nat /\ issued \in first .. issued
      BY <1>1, <1>3, <3>1, <3>2, <3>3
    <3>5. ASSUME NEW i \in 1 .. Len(w)
          PROVE  /\ w[i] \in first .. issued
                 /\ w[i] = first + i - 1 \/ (w[i] = issued /\ i = Len(w))
      <4>1. i \in 1 .. Len(all) \/ i = Len(all) + 1
        BY <1>5, <3>3
      <4> QED BY <3>2, <3>3, <3>4, <4>1
    <3>6. ASSUME NEW m \in first .. issued
          PROVE  \E i \in 1 .. Len(w) : w[i] = m
      <4>1. m - first + 1 \in 1 .. Len(all) /\ m - first + 1 \in 1 .. Len(w)
        BY <1>5, <3>2, <3>3
      <4> QED BY <3>2, <3>3, <4>1
    <3> QED BY <3>1, <3>4, <3>5, <3>6
  <2> QED BY <1>6, <2>1, <2>2, <2>3
<1>8. w \in Seq(Lines)
  <2>1. <<>> \in Seq(Lines) /\ (replay # {} => issued \in Lines)
    BY <1>1, <1>3, <1>4 DEF Lines
  <2>2. CASE replay # {} /\ w = Append(all, issued)
    BY <1>5, <2>1, <2>2
  <2>3. CASE w = IF since = 0 THEN <<>> ELSE all
    BY <1>5, <2>1, <2>3
  <2> QED BY <1>6, <2>2, <2>3
<1>9. /\ Len(wire') \in Nat
      /\ \A i \in 1 .. Len(wire') :
           \/ i \in 1 .. Len(w) /\ wire'[i] = w[i]
           \/ i = Len(wire') /\ wire'[i] = Exit
      /\ \A i \in 1 .. Len(w) : i \in 1 .. Len(wire') /\ wire'[i] = w[i]
  <2>1. CASE wire' = w
    BY <1>7, <2>1
  <2>2. CASE wire' = Append(w, Exit)
    BY <1>8, <2>2
  <2> QED BY <1>6, <2>1, <2>2
<1>10. HolesAreMissed'
  <2> SUFFICES ASSUME NEW q \in 1 .. next - 1 PROVE q \in Shown \cup missed'
    BY <1>1 DEF HolesAreMissed, Shown
  <2>1. q \in Shown \cup missed
    BY DEF HoleInv, HolesAreMissed
  <2>2. q \notin replay /\ q \notin held
    BY <1>1, <1>3, <1>4
  <2> QED BY <1>2, <2>1, <2>2
<1>11. Flushed'
  BY <1>1 DEF HoleInv, Flushed, LastFlushedSeq
<1>12. IssuedOnly'
  <2>1. \A i \in 1 .. Len(wire') : wire'[i] <= issued
    BY <1>1, <1>3, <1>7, <1>9 DEF Exit
  <2>2. since + 1 .. issued \subseteq 1 .. issued
    BY <1>1
  <2>3. missed' \subseteq 1 .. issued
    BY <1>1, <1>2, <2>2
  <2> QED BY <1>1, <2>1, <2>3 DEF IssuedOnly
<1>13. WireNotMissed'
  <2>1. \A i \in 1 .. Len(wire') : wire'[i] \in replay \cup {Exit}
    BY <1>4, <1>7, <1>9
  <2>2. Exit \notin missed'
    BY <1>1, <1>2 DEF Exit
  <2> QED BY <1>2, <2>1, <2>2 DEF WireNotMissed, OnWire
<1>14. WireOrder'
  <2> SUFFICES ASSUME NEW i \in 1 .. Len(wire'), NEW j \in 1 .. Len(wire'), i < j,
                      wire'[j] # Exit
               PROVE  wire'[i] <= wire'[j] \/ SwappedPair(i, j)'
    BY DEF WireOrder, SwappedPair, Exit
  <2>1. /\ i \in 1 .. Len(w) /\ wire'[i] = w[i]
        /\ j \in 1 .. Len(w) /\ wire'[j] = w[j]
    BY <1>9
  <2>2. w[i] \in first .. issued /\ w[j] \in first .. issued
    BY <1>7, <2>1
  <2>3. w[i] = first + i - 1
    BY <1>7, <2>1
  <2>4. w[j] = first + j - 1 \/ w[j] = issued
    BY <1>7, <2>1
  <2> QED BY <1>1, <1>3, <2>1, <2>2, <2>3, <2>4
<1>15. NothingLost'
  <2> SUFFICES ASSUME NEW q \in next .. issued
               PROVE  q \in held \cup missed' \/ \E i \in 1 .. Len(wire') : wire'[i] = q
    BY <1>1 DEF NothingLost, OnWire
  <2>1. q \in since + 1 .. issued
    BY <1>1
  <2>2. CASE q \in replay
    BY <1>4, <1>7, <1>9, <2>2
  <2> QED BY <1>2, <2>1, <2>2
<1> QED BY <1>10, <1>11, <1>12, <1>13, <1>14, <1>15 DEF HoleInv

(* Losing or closing the connection empties the wire.                      *)
LEMMA CutKeepsHoles ==
  ASSUME HoleInv, FeedInv', wire' = <<>>, phase' # "up",
         UNCHANGED <<issued, next, held, shown, missed>>
  PROVE  HoleInv'
<1>1. Len(wire') = 0
  OBVIOUS
<1> QED BY <1>1 DEF HoleInv, HolesAreMissed, Flushed, LastFlushedSeq, Shown,
                    IssuedOnly, WireNotMissed, OnWire, WireOrder, NothingLost

LEMMA HoleStep == HoleInv /\ [Next]_vars => HoleInv'
<1> SUFFICES ASSUME HoleInv, [Next]_vars PROVE HoleInv'
  OBVIOUS
<1>1. FeedInv'
  BY FeedStep DEF HoleInv
<1>2. CASE Issue
  BY <1>1, <1>2, IssueKeepsHoles
<1>3. CASE IssueSwapped
  BY <1>1, <1>3, SwapKeepsHoles
<1>4. CASE BrokerExit
  BY <1>1, <1>4, ExitKeepsHoles
<1>5. CASE Connected
  BY <1>1, <1>5, ConnectKeepsHoles
<1>6. CASE Disconnected
  BY <1>1, <1>6, CutKeepsHoles DEF Disconnected, Reopen, sink
<1>7. CASE Close
  BY <1>1, <1>7, CutKeepsHoles DEF Close, sink
<1>8. CASE ExitArrives
  BY <1>1, <1>8, CutKeepsHoles DEF ExitArrives, sink
<1>9. CASE TimerFires \/ BrokerForgets \/ BrokerStalls \/ UNCHANGED vars
  <2>1. /\ UNCHANGED <<issued, wire, next, held, shown, missed>>
        /\ phase' = "up" => phase = "up"
    BY <1>9 DEF TimerFires, BrokerForgets, BrokerStalls, vars, sink
  <2>2. HolesAreMissed' /\ Flushed' /\ IssuedOnly'
    BY <2>1 DEF HoleInv, HolesAreMissed, Flushed, LastFlushedSeq, Shown, IssuedOnly
  <2>3. WireNotMissed' /\ WireOrder' /\ NothingLost'
    BY <2>1 DEF HoleInv, WireNotMissed, OnWire, WireOrder, SwappedPair, NothingLost
  <2> QED BY <1>1, <2>2, <2>3 DEF HoleInv
<1>10. CASE \E n \in Lines : LineArrives(n)
  BY <1>1, <1>10, ArriveKeepsHoles
<1> QED BY <1>2, <1>3, <1>4, <1>5, <1>6, <1>7, <1>8, <1>9, <1>10 DEF Next

(* HolesAreMissed for all values of the constants: with any bound of at    *)
(* least one held line, the sink never skips a line that is on its way.    *)
THEOREM FeedHolesAreMissed == Spec => []HolesAreMissed
BY HoleInit, HoleStep, PTL DEF Spec, HoleInv

-----------------------------------------------------------------------------
(* The end of the feed.  The exit frame is the last message of the broker, *)
(* so when it comes nothing of the run is on the wire any more, and what   *)
(* the sink still expects is held or missed.                               *)

ExitLast ==
  /\ ExitSent => issued = LastSeq
  /\ \A i \in 1 .. Len(wire) :
       wire[i] = Exit => broker # "runs" /\ issued = LastSeq /\ i = Len(wire)

EndAccounted ==
  phase = "ended" => \A n \in next .. LastSeq : n \in held \cup missed

LEMMA EndInit == Init => ExitLast /\ EndAccounted
<1>1. Init => Len(wire) = 0 /\ phase # "ended" /\ ~ExitSent
  BY DEF Init, ExitSent
<1> QED BY <1>1 DEF ExitLast, EndAccounted

(* After the end nothing the sink or the broker still does matters.        *)
LEMMA EndedStays ==
  ASSUME ExitLast, TypeOK, [Next]_vars, phase = "ended"
  PROVE  UNCHANGED <<next, held, missed>>
BY LastSeqAssumption
   DEF ExitLast, TypeOK, Next, Issue, IssueSwapped, BrokerExit, BrokerForgets,
       BrokerStalls, Connected, Disconnected,
       TimerFires, Close, LineArrives, ExitArrives, vars, sink

(* The exit frame comes alone.                                             *)
LEMMA ExitComesLast ==
  ASSUME HoleInv, ExitLast, ExitArrives
  PROVE  \A n \in next .. LastSeq : n \in held' \cup missed'
<1>1. /\ wire \in Seq(Lines \cup {Exit}) /\ wire # <<>> /\ wire[1] = Exit
      /\ phase = "up" /\ UNCHANGED <<held, missed>>
  BY DEF ExitArrives, HoleInv, FeedInv, TypeOK, sink
<1>2. Len(wire) = 1 /\ issued = LastSeq
  <2>1. 1 \in 1 .. Len(wire)
    BY <1>1
  <2>2. issued = LastSeq /\ 1 = Len(wire)
    BY <1>1, <2>1 DEF ExitLast
  <2> QED BY <2>2 DEF ExitLast
<1>3. \A n \in next .. LastSeq : ~OnWire(n)
  <2>1. \A n \in next .. LastSeq : n # Exit
    BY DEF HoleInv, FeedInv, TypeOK, Exit
  <2> QED BY <1>1, <1>2, <2>1 DEF OnWire
<1> QED BY <1>1, <1>2, <1>3 DEF HoleInv, NothingLost

LEMMA ExitLastStep == HoleInv /\ ExitLast /\ [Next]_vars => ExitLast'
<1> SUFFICES ASSUME HoleInv, ExitLast, [Next]_vars PROVE ExitLast'
  OBVIOUS
<1>0. /\ wire \in Seq(Lines \cup {Exit}) /\ issued \in Nat /\ LastSeq \in Nat
      /\ Exit \notin Lines /\ TypeOK
  BY LastSeqAssumption DEF HoleInv, FeedInv, TypeOK, Lines, Exit
<1>12. broker' = broker /\ issued' = issued => (ExitSent => issued = LastSeq)'
  BY DEF ExitLast, ExitSent
<1>1. CASE Issue
  <2>1. broker = "runs" /\ broker' = broker
    BY <1>1 DEF Issue
  <2>2. CASE wire' = wire
    BY <1>1, <2>1, <2>2 DEF ExitLast, ExitSent
  <2>3. CASE wire' = Append(wire, issued + 1)
    <3>1. issued + 1 \in Lines
      BY <1>0, <1>1, LastSeqAssumption DEF Issue, Lines, TypeOK
    <3>2. \A i \in 1 .. Len(wire') : wire'[i] # Exit
      BY <1>0, <2>1, <2>3, <3>1 DEF ExitLast, ExitSent
    <3> QED BY <2>1, <3>2 DEF ExitLast, ExitSent
  <2> QED BY <1>1, <2>2, <2>3 DEF Issue
<1>2. CASE IssueSwapped
  <2>1. broker = "runs" /\ broker' = broker /\ wire' = wire \o <<issued + 2, issued + 1>>
    BY <1>0, <1>2 DEF IssueSwapped, ExitLast
  <2>2. issued + 1 # Exit /\ issued + 2 # Exit
    BY <1>0 DEF Exit
  <2>3. \A i \in 1 .. Len(wire') : wire'[i] # Exit
    BY <1>0, <2>1, <2>2 DEF ExitLast, ExitSent
  <2> QED BY <2>1, <2>3 DEF ExitLast, ExitSent
<1>3. CASE BrokerExit
  <2>1. \A i \in 1 .. Len(wire) : wire[i] # Exit
    BY <1>3 DEF BrokerExit, ExitLast
  <2>2. broker' # "runs" /\ issued' = LastSeq
    BY <1>3 DEF BrokerExit
  <2>3. \A i \in 1 .. Len(wire') : wire'[i] = Exit => i = Len(wire')
    <3>1. CASE wire' = wire
      BY <2>1, <3>1
    <3>2. CASE wire' = Append(wire, Exit)
      BY <1>0, <2>1, <3>2
    <3> QED BY <1>3, <3>1, <3>2 DEF BrokerExit
  <2> QED BY <2>2, <2>3 DEF ExitLast, ExitSent
<1>4. CASE Connected
  <2>1. UNCHANGED <<issued, broker>>
    BY <1>4 DEF Connected
  <2>2. PICK lines \in Seq(Lines) :
          wire' = lines \/ (ExitReplayed(LastFlushedSeq) /\ wire' = Append(lines, Exit))
    BY <1>0, <1>4, ConnectedStep
  <2>3. CASE wire' = lines
    <3>1. \A i \in 1 .. Len(wire') : wire'[i] # Exit
      BY <1>0, <2>3
    <3> QED BY <1>12, <2>1, <3>1 DEF ExitLast
  <2>4. CASE ExitReplayed(LastFlushedSeq) /\ wire' = Append(lines, Exit)
    <3>1. broker # "runs" /\ issued = LastSeq
      BY <2>4 DEF ExitReplayed, ExitSent, ExitLast
    <3>2. \A i \in 1 .. Len(wire') : wire'[i] = Exit => i = Len(wire')
      BY <1>0, <2>4
    <3> QED BY <1>12, <2>1, <3>1, <3>2 DEF ExitLast
  <2> QED BY <2>2, <2>3, <2>4
<1>5. CASE Disconnected \/ Close \/ ExitArrives
  <2>1. UNCHANGED <<issued, broker>> /\ Len(wire') = 0
    BY <1>5 DEF Disconnected, Close, ExitArrives
  <2> QED BY <2>1 DEF ExitLast, ExitSent
<1>6. ASSUME NEW n \in Lines, LineArrives(n) PROVE ExitLast'
  <2>1. UNCHANGED <<issued, broker>> /\ wire # <<>> /\ wire' = Tail(wire)
    BY <1>6 DEF LineArrives
  <2>2. \A i \in 1 .. Len(wire') : wire'[i] = wire[i + 1] /\ i + 1 \in 1 .. Len(wire)
    BY <1>0, <2>1
  <2>3. Len(wire') = Len(wire) - 1 /\ Len(wire) \in Nat
    BY <1>0, <2>1
  <2>4. ASSUME NEW i \in 1 .. Len(wire'), wire'[i] = Exit
        PROVE  broker' # "runs" /\ issued' = LastSeq /\ i = Len(wire')
    <3>1. wire[i + 1] = Exit /\ i + 1 \in 1 .. Len(wire)
      BY <2>2, <2>4
    <3>2. broker # "runs" /\ issued = LastSeq /\ i + 1 = Len(wire)
      BY <3>1 DEF ExitLast, ExitSent
    <3>3. i = Len(wire')
      BY <2>3, <3>2
    <3>4. broker' # "runs" /\ issued' = LastSeq
      BY <2>1, <3>2
    <3> QED BY <3>3, <3>4
  <2> QED BY <2>1, <2>4 DEF ExitLast, ExitSent
<1>7. CASE TimerFires \/ BrokerForgets \/ BrokerStalls \/ UNCHANGED vars
  BY <1>7 DEF TimerFires, BrokerForgets, BrokerStalls, vars, ExitLast, ExitSent
<1> QED BY <1>1, <1>2, <1>3, <1>4, <1>5, <1>6, <1>7 DEF Next

LEMMA EndAccountedStep ==
  HoleInv /\ ExitLast /\ EndAccounted /\ [Next]_vars => EndAccounted'
<1> SUFFICES ASSUME HoleInv, ExitLast, EndAccounted, [Next]_vars, phase' = "ended"
             PROVE  \A n \in next' .. LastSeq : n \in held' \cup missed'
  BY DEF EndAccounted
<1>1. CASE phase = "ended"
  BY <1>1, EndedStays DEF EndAccounted, HoleInv, FeedInv
<1>2. CASE ExitArrives
  <2>1. next' = next
    BY <1>2 DEF ExitArrives, sink
  <2> QED BY <1>2, <2>1, ExitComesLast
<1>3. phase = "ended" \/ ExitArrives
  BY DEF Next, Issue, IssueSwapped, BrokerExit, BrokerForgets, BrokerStalls,
         Connected, Disconnected, Reopen,
         TimerFires, Close, LineArrives, vars
<1> QED BY <1>1, <1>2, <1>3

(* WithheldOnlyIfMissed for all values of the constants: after the exit    *)
(* frame a line is kept from the console only behind one that did not come.*)
THEOREM FeedWithheldOnlyIfMissed == Spec => []WithheldOnlyIfMissed
<1>1. HoleInv /\ EndAccounted => WithheldOnlyIfMissed
  <2> SUFFICES ASSUME HoleInv, EndAccounted, phase = "ended", NEW n \in Lines \ Shown
               PROVE  \E m \in missed : m <= n
    BY DEF WithheldOnlyIfMissed
  <2>1. /\ next \in 1 .. LastSeq + 1 /\ held \subseteq next + 1 .. LastSeq
        /\ n \in 1 .. LastSeq /\ LastSeq \in Nat
    BY LastSeqAssumption DEF HoleInv, FeedInv, TypeOK, Lines
  <2>2. CASE n < next
    BY <2>1, <2>2 DEF HoleInv, HolesAreMissed
  <2>3. CASE next <= n
    <3>1. next \in next .. LastSeq /\ next \notin held
      BY <2>1, <2>3
    <3>2. next \in missed
      BY <3>1 DEF EndAccounted
    <3> QED BY <2>3, <3>2
  <2> QED BY <2>1, <2>2, <2>3
<1> QED
  BY <1>1, HoleInit, HoleStep, EndInit, ExitLastStep, EndAccountedStep, PTL DEF Spec

=============================================================================
