------------------------- MODULE RunRegistryProofs -------------------------
(***************************************************************************)
(* Proofs about RunRegistry, for all sets of calls and run ids, all limits *)
(* and all settings of the Redis and fault flags.                          *)
(***************************************************************************)
EXTENDS RunRegistry, FiniteSetTheorems, TLAPS

-----------------------------------------------------------------------------
\* Facts about the sequence operations the FIFO is changed with.

Occurs(x, s) == \E i \in 1..Len(s) : s[i] = x
NoRepeat(s) == \A i, j \in 1..Len(s) : s[i] = s[j] => i = j

\* deque.append
LEMMA AppendFacts ==
  ASSUME NEW S, NEW s \in Seq(S), NEW x \in S
  PROVE  /\ Append(s, x) \in Seq(S)
         /\ \A y : Occurs(y, Append(s, x)) <=> Occurs(y, s) \/ y = x
         /\ NoRepeat(s) /\ ~Occurs(x, s) => NoRepeat(Append(s, x))
BY DEF Occurs, NoRepeat

\* deque.appendleft
LEMMA PrependFacts ==
  ASSUME NEW S, NEW s \in Seq(S), NEW x \in S
  PROVE  /\ <<x>> \o s \in Seq(S)
         /\ \A y : Occurs(y, <<x>> \o s) <=> Occurs(y, s) \/ y = x
         /\ NoRepeat(s) /\ ~Occurs(x, s) => NoRepeat(<<x>> \o s)
<1> DEFINE t == <<x>> \o s
<1>1. t \in Seq(S) /\ Len(t) = Len(s) + 1
  OBVIOUS
<1>2. \A i \in 1..Len(t) : t[i] = IF i = 1 THEN x ELSE s[i - 1]
  OBVIOUS
<1>3. \A i \in 1..Len(s) : i + 1 \in 1..Len(t) /\ t[i + 1] = s[i]
  BY <1>1, <1>2
<1>4. 1 \in 1..Len(t) /\ t[1] = x
  BY <1>1, <1>2
<1>5. \A i \in 1..Len(t) : i # 1 => i - 1 \in 1..Len(s) /\ t[i] = s[i - 1]
  BY <1>1, <1>2
<1> HIDE DEF t
<1>6. ASSUME NEW y PROVE Occurs(y, t) <=> Occurs(y, s) \/ y = x
  <2>1. ASSUME Occurs(y, s) PROVE Occurs(y, t)
    <3>1. PICK i \in 1..Len(s) : s[i] = y
      BY <2>1 DEF Occurs
    <3> QED BY <3>1, <1>3 DEF Occurs
  <2>2. y = x => Occurs(y, t)
    BY <1>4 DEF Occurs
  <2>3. ASSUME Occurs(y, t), y # x PROVE Occurs(y, s)
    <3>1. PICK i \in 1..Len(t) : t[i] = y
      BY <2>3 DEF Occurs
    <3>2. i # 1
      BY <3>1, <2>3, <1>4
    <3> QED BY <3>1, <3>2, <1>5 DEF Occurs
  <2> QED BY <2>1, <2>2, <2>3
<1>7. NoRepeat(s) /\ ~Occurs(x, s) => NoRepeat(t)
  <2> SUFFICES ASSUME NoRepeat(s), ~Occurs(x, s),
                      NEW i \in 1..Len(t), NEW j \in 1..Len(t), t[i] = t[j]
               PROVE  i = j
    BY DEF NoRepeat
  <2>1. CASE i = 1 /\ j # 1
    BY <2>1, <1>4, <1>5 DEF Occurs
  <2>2. CASE i # 1 /\ j = 1
    BY <2>2, <1>4, <1>5 DEF Occurs
  <2>3. CASE i # 1 /\ j # 1
    <3>1. i - 1 = j - 1
      BY <2>3, <1>5 DEF NoRepeat
    <3> QED BY <3>1
  <2> QED BY <2>1, <2>2, <2>3
<1> QED
  BY <1>1, <1>6, <1>7 DEF t

\* Dropping the element at position i.
LEMMA RemoveFacts ==
  ASSUME NEW S, NEW s \in Seq(S), NEW i \in 1..Len(s), NoRepeat(s),
         NEW t \in Seq(S), Len(t) = Len(s) - 1,
         \A k \in 1..Len(t) : t[k] = IF k < i THEN s[k] ELSE s[k + 1]
  PROVE  /\ \A y : Occurs(y, t) <=> Occurs(y, s) /\ y # s[i]
         /\ NoRepeat(t)
<1> DEFINE Pos(k) == IF k < i THEN k ELSE k + 1
<1>1. \A k \in 1..Len(t) : Pos(k) \in 1..Len(s) /\ Pos(k) # i /\ t[k] = s[Pos(k)]
  OBVIOUS
<1>2. \A k, m \in 1..Len(t) : Pos(k) = Pos(m) => k = m
  OBVIOUS
<1>3. \A m \in 1..Len(s) : m # i => \E k \in 1..Len(t) : Pos(k) = m
  <2> SUFFICES ASSUME NEW m \in 1..Len(s), m # i
               PROVE  \E k \in 1..Len(t) : Pos(k) = m
    OBVIOUS
  <2>1. CASE m < i
    <3>1. m \in 1..Len(t) /\ Pos(m) = m
      BY <2>1
    <3> QED BY <3>1
  <2>2. CASE m > i
    <3>1. m - 1 \in 1..Len(t) /\ Pos(m - 1) = m
      BY <2>2
    <3> QED BY <3>1
  <2> QED BY <2>1, <2>2
<1> HIDE DEF Pos
<1>4. ASSUME NEW y PROVE Occurs(y, t) <=> Occurs(y, s) /\ y # s[i]
  <2>1. Occurs(y, t) => Occurs(y, s) /\ y # s[i]
    BY <1>1 DEF Occurs, NoRepeat
  <2>2. ASSUME Occurs(y, s), y # s[i] PROVE Occurs(y, t)
    <3>1. PICK m \in 1..Len(s) : s[m] = y
      BY <2>2 DEF Occurs
    <3>2. m # i
      BY <3>1, <2>2
    <3>3. PICK k \in 1..Len(t) : Pos(k) = m
      BY <3>2, <1>3
    <3> QED BY <3>1, <3>3, <1>1 DEF Occurs
  <2> QED BY <2>1, <2>2
<1>5. NoRepeat(t)
  BY <1>1, <1>2 DEF NoRepeat
<1> QED BY <1>4, <1>5

\* deque.popleft
LEMMA TailFacts ==
  ASSUME NEW S, NEW s \in Seq(S), Len(s) >= 1, NoRepeat(s)
  PROVE  /\ SubSeq(s, 2, Len(s)) \in Seq(S)
         /\ \A y : Occurs(y, SubSeq(s, 2, Len(s))) <=> Occurs(y, s) /\ y # s[1]
         /\ NoRepeat(SubSeq(s, 2, Len(s)))
<1> DEFINE t == SubSeq(s, 2, Len(s))
<1>1. t \in Seq(S) /\ 1 \in 1..Len(s)
  OBVIOUS
<1>2. Len(t) = Len(s) - 1
  <2>1. \A i, k \in Nat : i = k + 1 /\ k >= 1 /\ k <= Len(s) => Len(SubSeq(s, i, Len(s))) = Len(s) - k
    OBVIOUS
  <2> HIDE DEF t
  <2>2. 2 \in Nat /\ 1 \in Nat /\ 2 = 1 + 1 /\ 1 >= 1
    OBVIOUS
  <2> QED BY <2>1, <2>2, <1>1 DEF t
<1>3. \A k \in 1..Len(t) : t[k] = IF k < 1 THEN s[k] ELSE s[k + 1]
  OBVIOUS
<1> HIDE DEF t
<1>4. (\A y : Occurs(y, t) <=> Occurs(y, s) /\ y # s[1]) /\ NoRepeat(t)
  BY <1>1, <1>2, <1>3, RemoveFacts
<1> QED BY <1>1, <1>4 DEF t

\* deque.remove
LEMMA CutFacts ==
  ASSUME NEW S, NEW s \in Seq(S), NEW i \in 1..Len(s), NoRepeat(s)
  PROVE  LET t == SubSeq(s, 1, i - 1) \o SubSeq(s, i + 1, Len(s)) IN
         /\ t \in Seq(S)
         /\ \A y : Occurs(y, t) <=> Occurs(y, s) /\ y # s[i]
         /\ NoRepeat(t)
<1> DEFINE before == SubSeq(s, 1, i - 1)
           after == SubSeq(s, i + 1, Len(s))
           t == before \o after
<1>1. before \in Seq(S) /\ after \in Seq(S)
  OBVIOUS
<1>2. Len(before) = i - 1 /\ \A k \in 1..(i - 1) : before[k] = s[k]
  OBVIOUS
<1>3. Len(after) = Len(s) - i /\ \A k \in 1..(Len(s) - i) : after[k] = s[k + i]
  OBVIOUS
<1> HIDE DEF before, after
<1>4. t \in Seq(S) /\ Len(t) = Len(before) + Len(after)
  BY <1>1
<1>5. \A k \in 1..Len(t) : t[k] = IF k <= Len(before) THEN before[k] ELSE after[k - Len(before)]
  BY <1>1
<1> HIDE DEF t
<1>6. Len(t) = Len(s) - 1
  BY <1>2, <1>3, <1>4
<1>7. \A k \in 1..Len(t) : t[k] = IF k < i THEN s[k] ELSE s[k + 1]
  <2> SUFFICES ASSUME NEW k \in 1..Len(t)
               PROVE  t[k] = IF k < i THEN s[k] ELSE s[k + 1]
    OBVIOUS
  <2>1. CASE k < i
    <3>1. k \in 1..(i - 1) /\ k <= Len(before)
      BY <2>1, <1>2, <1>6
    <3>2. t[k] = before[k] /\ before[k] = s[k]
      BY <3>1, <1>2, <1>5
    <3> QED BY <2>1, <3>2
  <2>2. CASE ~(k < i)
    <3> DEFINE m == k - Len(before)
    <3>1. m \in 1..(Len(s) - i) /\ m + i = k + 1 /\ ~(k <= Len(before))
      BY <2>2, <1>2, <1>6
    <3>2. t[k] = after[m] /\ after[m] = s[m + i]
      BY <3>1, <1>3, <1>5
    <3> QED BY <2>2, <3>1, <3>2
  <2> QED BY <2>1, <2>2
<1>8. (\A y : Occurs(y, t) <=> Occurs(y, s) /\ y # s[i]) /\ NoRepeat(t)
  BY <1>4, <1>6, <1>7, RemoveFacts
<1> QED BY <1>4, <1>8 DEF t, before, after

-----------------------------------------------------------------------------
(***************************************************************************)
(* The effect of a step on everything but the shared counter: every step   *)
(* of the registry is one of these.                                        *)
(***************************************************************************)

\* spawn_from_body refuses r, or its Popen fails.
Refused(r) ==
  /\ caller[r] \in {"new", "popen", "started"}
  /\ \E why \in Rejected : caller' = [caller EXCEPT ![r] = why]
  /\ files' = files \ {r}
  /\ UNCHANGED <<registry, promoters, waiter, canceller, exits>>

\* spawn_from_body goes on to Popen, or past it.
Advanced(r) ==
  /\ \/ /\ caller[r] = "new"
        /\ caller' = [caller EXCEPT ![r] = "popen"]
        /\ files' = files \cup {r}
     \/ /\ caller[r] = "popen"
        /\ caller' = [caller EXCEPT ![r] = "started"]
        /\ files' = files
  /\ UNCHANGED <<registry, promoters, waiter, canceller, exits>>

\* spawn_from_body registers r without a process.
Enqueued(r) ==
  /\ caller[r] \in {"new", "started"}
  /\ runs[RunIdOf[r]] = None
  /\ Enqueue(r)
  /\ UNCHANGED exits

\* spawn_from_body registers r with a process.
Admitted(r) ==
  /\ caller[r] = "started"
  /\ runs[RunIdOf[r]] = None
  /\ ~AtCapacity
  /\ runs' = [runs EXCEPT ![RunIdOf[r]] = r]
  /\ Launch(r)
  /\ caller' = [caller EXCEPT ![r] = "running"]
  /\ UNCHANGED <<fifo, promoters, canceller, files, exits>>

\* A promoting thread leaves.
Left ==
  /\ scanning > 0
  /\ scanning' = scanning - 1
  /\ \/ AtCapacity /\ fifo' = fifo
     \/ ~AtCapacity /\ AllStale /\ fifo' = <<>>
  /\ UNCHANGED <<runs, hasProc, caller, waiter, canceller, spawning, spawned, files, exits>>

\* A promoting thread takes the entry at position i.
Picked(i) ==
  /\ scanning > 0
  /\ scanning' = scanning - 1
  /\ FirstLive(i)
  /\ fifo' = SubSeq(fifo, i + 1, Len(fifo))
  /\ spawning' = [spawning EXCEPT ![runs[fifo[i]]] = @ + 1]
  /\ UNCHANGED <<runs, hasProc, caller, waiter, canceller, spawned, files, exits>>

\* A promoting thread has started a process for e.
Forked(e) ==
  /\ spawning[e] > 0
  /\ spawning' = [spawning EXCEPT ![e] = @ - 1]
  /\ spawned' = [spawned EXCEPT ![e] = @ + 1]
  /\ UNCHANGED <<registry, scanning, caller, waiter, canceller, files, exits>>

\* A promoting thread is done with e, one way or another.
LetGo(e) ==
  /\ \/ /\ spawning[e] > 0
        /\ spawning' = [spawning EXCEPT ![e] = @ - 1]
        /\ UNCHANGED spawned
     \/ /\ spawned[e] > 0
        /\ spawned' = [spawned EXCEPT ![e] = @ - 1]
        /\ UNCHANGED spawning
  /\ scanning' = scanning + 1
  /\ UNCHANGED <<runs, caller, canceller, files, exits>>
Returned(e) == LetGo(e) /\ StillWaiting(e) /\ PutBack(e) /\ UNCHANGED <<hasProc, waiter>>
Dropped(e) == LetGo(e) /\ ~StillWaiting(e) /\ UNCHANGED <<fifo, hasProc, waiter>>
Promoted(e) == LetGo(e) /\ StillWaiting(e) /\ ~AtCapacity /\ Launch(e) /\ UNCHANGED fifo

\* Foreign brokers and Redis only touch the counter.
Elsewhere == UNCHANGED <<registry, promoters, caller, waiter, canceller, files, exits>>

LEMMA SubmitCases ==
  ASSUME NEW r \in Reqs, Submit(r)
  PROVE  Refused(r) \/ Advanced(r) \/ Enqueued(r)
BY DEF Submit, EnqueueOrReject, Reject, Rejected, Refused, Advanced, Enqueued, Enqueue

LEMMA CallerPopenCases ==
  ASSUME NEW r \in Reqs, CallerPopen(r)
  PROVE  Refused(r) \/ Advanced(r)
BY DEF CallerPopen, Rejected, Refused, Advanced

LEMMA RegisterCases ==
  ASSUME NEW r \in Reqs, Register(r)
  PROVE  Refused(r) \/ Enqueued(r) \/ Admitted(r)
<1>1. CASE runs[RunIdOf[r]] # None
  BY <1>1 DEF Register, Reject, Rejected, Refused
<1>2. CASE runs[RunIdOf[r]] = None /\ EnqueueOrReject(r)
  BY <1>2 DEF Register, EnqueueOrReject, Reject, Rejected, Refused, Enqueued, Enqueue
<1>3. CASE runs[RunIdOf[r]] = None /\ ~EnqueueOrReject(r)
  BY <1>3 DEF Register, Admitted
<1> QED BY <1>1, <1>2, <1>3

LEMMA PromoteCases ==
  /\ PromotePick => Left \/ \E i \in 1..Len(fifo) : Picked(i)
  /\ \A e \in Reqs : PromotePopen(e) => Forked(e) \/ Returned(e) \/ Dropped(e)
  /\ \A e \in Reqs : PromoteCommit(e) => Returned(e) \/ Dropped(e) \/ Promoted(e)
<1>1. PromotePick => Left \/ \E i \in 1..Len(fifo) : Picked(i)
  BY DEF PromotePick, Left, Picked
<1>2. ASSUME NEW e \in Reqs, PromotePopen(e)
      PROVE  Forked(e) \/ Returned(e) \/ Dropped(e)
  BY <1>2 DEF PromotePopen, Forked, Returned, Dropped, LetGo, registry
<1>3. ASSUME NEW e \in Reqs, PromoteCommit(e)
      PROVE  Returned(e) \/ Dropped(e) \/ Promoted(e)
  BY <1>3 DEF PromoteCommit, Returned, Dropped, Promoted, LetGo
<1> QED BY <1>1, <1>2, <1>3

\* One of the steps above, or of the actions that need no case analysis.
Effect ==
  \/ \E r \in Reqs : Refused(r) \/ Advanced(r) \/ Enqueued(r) \/ Admitted(r)
  \/ Left
  \/ \E i \in 1..Len(fifo) : Picked(i)
  \/ \E e \in Reqs : Forked(e) \/ Returned(e) \/ Dropped(e) \/ Promoted(e)
  \/ \E id \in RunIds : CancelQueued(id)
  \/ \E e \in Reqs : \/ CancelFinish(e) \/ PutBlocks(e)
                     \/ WorkerExit(e) \/ Unregister(e) \/ Retire(e)
  \/ Elsewhere

LEMMA NextEffect == [Next]_vars => Effect
<1> SUFFICES ASSUME [Next]_vars PROVE Effect
  OBVIOUS
<1>1. CASE \E r \in Reqs : Submit(r) \/ CallerPopen(r) \/ Register(r)
  BY <1>1, SubmitCases, CallerPopenCases, RegisterCases DEF Effect
<1>2. CASE PromotePick
  BY <1>2, PromoteCases DEF Effect
<1>3. CASE \E e \in Reqs : PromotePopen(e) \/ PromoteCommit(e)
  BY <1>3, PromoteCases DEF Effect
<1>4. CASE ForeignAcquire \/ ForeignRelease
  BY <1>4 DEF ForeignAcquire, ForeignRelease, Elsewhere, Effect
<1>5. CASE UNCHANGED vars
  BY <1>5 DEF vars, registry, promoters, Elsewhere, Effect
<1> QED
  BY <1>1, <1>2, <1>3, <1>4, <1>5 DEF Next, Effect

-----------------------------------------------------------------------------
(***************************************************************************)
(* The stages of an entry.  The registry pops an entry only by its id, so  *)
(* what makes cancel, promotion and the waiter touch the right one is that *)
(* a call is registered exactly from its admission until its cancellation  *)
(* or its worker's end, and has one retiring thread at most.               *)
(***************************************************************************)
Stage(r) ==
  /\ caller[r] \notin {"queued", "running"} =>
       waiter[r] = "none" /\ canceller[r] = "none" /\ spawning[r] = 0 /\ spawned[r] = 0
  /\ hasProc[r] <=> waiter[r] # "none"
  /\ Registered(r) <=> /\ caller[r] \in {"queued", "running"}
                       /\ canceller[r] = "none"
                       /\ waiter[r] \in {"none", "wait", "blocked", "exited"}
  /\ caller[r] = "running" => waiter[r] # "none" /\ spawning[r] = 0 /\ spawned[r] = 0
  /\ canceller[r] # "none" => waiter[r] = "none"

Lifecycle ==
  /\ \A id \in RunIds : runs[id] # None => RunIdOf[runs[id]] = id
  /\ \A r \in Reqs : Stage(r)

-----------------------------------------------------------------------------
LEMMA TypeInit == Init => TypeOK
BY DEF Init, TypeOK, Rejected

LEMMA TypeEffect == TypeOK /\ Effect /\ slots' \in Nat /\ foreign' \in Nat => TypeOK'
<1> SUFFICES ASSUME TypeOK, Effect, slots' \in Nat, foreign' \in Nat PROVE TypeOK'
  OBVIOUS
<1> USE ReqsAssumption, RunIdsAssumption DEF TypeOK
<1>1. ASSUME NEW r \in Reqs, Refused(r) PROVE TypeOK'
  BY <1>1 DEF Refused, Rejected, registry, promoters
<1>2. ASSUME NEW r \in Reqs, Advanced(r) PROVE TypeOK'
  BY <1>2 DEF Advanced, Rejected, registry, promoters
<1>3. ASSUME NEW r \in Reqs, Enqueued(r) PROVE TypeOK'
  <2>1. fifo' \in Seq(RunIds)
    BY <1>3 DEF Enqueued, Enqueue
  <2>2. runs' \in [RunIds -> Reqs \cup {None}]
    BY <1>3 DEF Enqueued, Enqueue
  <2> QED BY <1>3, <2>1, <2>2 DEF Enqueued, Enqueue, promoters
<1>4. ASSUME NEW r \in Reqs, Admitted(r) PROVE TypeOK'
  <2>1. runs' \in [RunIds -> Reqs \cup {None}]
    BY <1>4 DEF Admitted
  <2>2. hasProc' \in [Reqs -> BOOLEAN] /\ waiter' \in [Reqs -> {"none", "wait", "blocked", "exited", "popped", "done"}]
    BY <1>4 DEF Admitted, Launch
  <2>3. caller' \in [Reqs -> {"new", "popen", "started", "queued", "running"} \cup Rejected]
    BY <1>4 DEF Admitted
  <2>4. UNCHANGED <<fifo, scanning, spawning, spawned, canceller, files, exits>>
    BY <1>4 DEF Admitted, promoters
  <2> QED BY <2>1, <2>2, <2>3, <2>4
<1>5. CASE Left
  <2>1. scanning' \in Nat
    BY <1>5 DEF Left
  <2>2. <<>> \in Seq(RunIds)
    OBVIOUS
  <2>3. fifo' \in Seq(RunIds)
    BY <1>5, <2>2 DEF Left
  <2> QED BY <1>5, <2>1, <2>3 DEF Left
<1>6. ASSUME NEW i \in 1..Len(fifo), Picked(i) PROVE TypeOK'
  <2>1. fifo[i] \in RunIds
    OBVIOUS
  <2>2. runs[fifo[i]] \in Reqs
    BY <1>6, <2>1 DEF Picked, FirstLive, Stale
  <2>3. fifo' \in Seq(RunIds)
    BY <1>6 DEF Picked
  <2>4. spawning' \in [Reqs -> Nat]
    BY <1>6, <2>2 DEF Picked
  <2> QED BY <1>6, <2>3, <2>4 DEF Picked
<1>7. ASSUME NEW e \in Reqs, Forked(e) PROVE TypeOK'
  BY <1>7 DEF Forked, registry
<1>8. ASSUME NEW e \in Reqs, LetGo(e)
      PROVE  scanning' \in Nat /\ spawning' \in [Reqs -> Nat] /\ spawned' \in [Reqs -> Nat]
  <2>1. spawning[e] \in Nat /\ spawned[e] \in Nat
    OBVIOUS
  <2>2. spawning[e] > 0 => [spawning EXCEPT ![e] = @ - 1] \in [Reqs -> Nat]
    BY <2>1
  <2>3. spawned[e] > 0 => [spawned EXCEPT ![e] = @ - 1] \in [Reqs -> Nat]
    BY <2>1
  <2>4. CASE spawning[e] > 0 /\ spawning' = [spawning EXCEPT ![e] = @ - 1] /\ UNCHANGED spawned
    BY <1>8, <2>2, <2>4 DEF LetGo
  <2>5. CASE spawned[e] > 0 /\ spawned' = [spawned EXCEPT ![e] = @ - 1] /\ UNCHANGED spawning
    BY <1>8, <2>3, <2>5 DEF LetGo
  <2> QED BY <1>8, <2>4, <2>5 DEF LetGo
<1>9. ASSUME NEW e \in Reqs, Returned(e) PROVE TypeOK'
  <2>1. fifo' \in Seq(RunIds)
    BY <1>9 DEF Returned, PutBack
  <2> QED BY <1>8, <1>9, <2>1 DEF Returned, LetGo
<1>10. ASSUME NEW e \in Reqs, Dropped(e) PROVE TypeOK'
  BY <1>8, <1>10 DEF Dropped, LetGo
<1>11. ASSUME NEW e \in Reqs, Promoted(e) PROVE TypeOK'
  BY <1>8, <1>11 DEF Promoted, Launch, LetGo
<1>12. ASSUME NEW id \in RunIds, CancelQueued(id) PROVE TypeOK'
  <2>1. fifo' \in Seq(RunIds)
    <3>1. ASSUME NEW i \in 1..Len(fifo)
          PROVE SubSeq(fifo, 1, i - 1) \o SubSeq(fifo, i + 1, Len(fifo)) \in Seq(RunIds)
      <4>1. SubSeq(fifo, 1, i - 1) \in Seq(RunIds)
        OBVIOUS
      <4>2. SubSeq(fifo, i + 1, Len(fifo)) \in Seq(RunIds)
        OBVIOUS
      <4> QED BY <4>1, <4>2
    <3> QED BY <1>12, <3>1 DEF CancelQueued, RemoveFirst
  <2> QED BY <1>12, <2>1 DEF CancelQueued, promoters
<1>13. ASSUME NEW e \in Reqs, CancelFinish(e) PROVE TypeOK'
  BY <1>13 DEF CancelFinish, BroadcastExit, EnterPromoteFill, registry
<1>14. ASSUME NEW e \in Reqs, WorkerExit(e) PROVE TypeOK'
  BY <1>14 DEF WorkerExit, BroadcastExit, registry, promoters
<1>15. ASSUME NEW e \in Reqs, Unregister(e) PROVE TypeOK'
  BY <1>15 DEF Unregister, promoters
<1>16. ASSUME NEW e \in Reqs, Retire(e) PROVE TypeOK'
  BY <1>16 DEF Retire, EnterPromoteFill, registry
<1>17. CASE Elsewhere
  BY <1>17 DEF Elsewhere, registry, promoters
<1>18. ASSUME NEW e \in Reqs, PutBlocks(e) PROVE TypeOK'
  BY <1>18 DEF PutBlocks, registry, promoters
<1> QED
  BY <1>1, <1>2, <1>3, <1>4, <1>5, <1>6, <1>7, <1>9, <1>10, <1>11, <1>12, <1>13, <1>14,
     <1>15, <1>16, <1>17, <1>18 DEF Effect

\* The counter stays a natural number.
LEMMA SlotsType == TypeOK /\ [Next]_vars => slots' \in Nat /\ foreign' \in Nat
<1> SUFFICES ASSUME TypeOK, [Next]_vars PROVE slots' \in Nat /\ foreign' \in Nat
  OBVIOUS
<1> USE LimitsAssumption DEF TypeOK
<1>1. ASSUME NEW granted, AcquireSlot(granted, slots') PROVE slots' \in Nat
  BY <1>1 DEF AcquireSlot, Acquired
<1>2. ASSUME NEW r \in Reqs, Submit(r) \/ CallerPopen(r) \/ Register(r)
      PROVE  slots' \in Nat /\ foreign' \in Nat
  BY <1>1, <1>2 DEF Submit, CallerPopen, Register, EnqueueOrReject, Enqueue, Reject, redis
<1>3. ASSUME NEW e \in Reqs, PromotePick \/ PromotePopen(e) \/ PromoteCommit(e)
      PROVE  slots' \in Nat /\ foreign' \in Nat
  BY <1>1, <1>3 DEF PromotePick, PromotePopen, PromoteCommit, redis
<1>4. ASSUME NEW id \in RunIds, CancelQueued(id) PROVE slots' \in Nat /\ foreign' \in Nat
  BY <1>4 DEF CancelQueued, redis
<1>5. ASSUME NEW e \in Reqs,
             CancelFinish(e) \/ PutBlocks(e) \/ WorkerExit(e) \/ Unregister(e) \/ Retire(e)
      PROVE  slots' \in Nat /\ foreign' \in Nat
  BY <1>5 DEF CancelFinish, PutBlocks, WorkerExit, Unregister, Retire, ReleaseSlot, redis
<1>6. CASE ForeignAcquire \/ ForeignRelease
  BY <1>6 DEF ForeignAcquire, ForeignRelease
<1>7. CASE UNCHANGED vars
  BY <1>7 DEF vars
<1>8. CASE PromotePick
  BY <1>8 DEF PromotePick, redis
<1> QED
  BY <1>2, <1>3, <1>4, <1>5, <1>6, <1>7, <1>8 DEF Next

\* Type correctness of the registry, its threads and the shared counter.
THEOREM TypeCorrect == Spec => []TypeOK
<1>1. TypeOK /\ [Next]_vars => TypeOK'
  BY NextEffect, SlotsType, TypeEffect
<1> QED
  BY TypeInit, <1>1, PTL DEF Spec

-----------------------------------------------------------------------------
LEMMA LifecycleInit == Init => Lifecycle
BY ReqsAssumption, RunIdsAssumption DEF Init, Lifecycle, Stage, Registered

LEMMA LifecycleEffect == TypeOK /\ Lifecycle /\ Effect => Lifecycle'
<1> SUFFICES ASSUME TypeOK, Lifecycle, Effect PROVE Lifecycle'
  OBVIOUS
<1> USE ReqsAssumption, RunIdsAssumption DEF TypeOK, Lifecycle, Stage, Registered
<1>1. ASSUME NEW r \in Reqs, Refused(r) PROVE Lifecycle'
  BY <1>1 DEF Refused, Rejected, registry, promoters
<1>2. ASSUME NEW r \in Reqs, Advanced(r) PROVE Lifecycle'
  BY <1>2 DEF Advanced, registry, promoters
<1>3. ASSUME NEW r \in Reqs, Enqueued(r) PROVE Lifecycle'
  BY <1>3 DEF Enqueued, Enqueue, promoters
<1>4. ASSUME NEW r \in Reqs, Admitted(r) PROVE Lifecycle'
  BY <1>4 DEF Admitted, Launch, promoters
<1>5. CASE Left
  BY <1>5 DEF Left
<1>6. ASSUME NEW i \in 1..Len(fifo), Picked(i) PROVE Lifecycle'
  <2> DEFINE e == runs[fifo[i]]
  <2>1. fifo[i] \in RunIds
    OBVIOUS
  <2>2. e \in Reqs /\ ~hasProc[e]
    BY <1>6, <2>1 DEF Picked, FirstLive, Stale
  <2>3. RunIdOf[e] = fifo[i]
    BY <2>1, <2>2
  <2>3a. Registered(e)
    BY <2>3
  <2>4. caller[e] = "queued"
    BY <2>2, <2>3a
  <2> HIDE DEF e
  <2>5. spawning' = [spawning EXCEPT ![e] = @ + 1]
    BY <1>6 DEF Picked, e
  <2> QED BY <1>6, <2>2, <2>4, <2>5 DEF Picked
<1>7. ASSUME NEW e \in Reqs, Forked(e) PROVE Lifecycle'
  BY <1>7 DEF Forked, registry
<1>8. ASSUME NEW e \in Reqs, LetGo(e)
      PROVE  /\ \A r \in Reqs : spawning[r] = 0 => spawning'[r] = 0
             /\ \A r \in Reqs : spawned[r] = 0 => spawned'[r] = 0
             /\ spawning[e] > 0 \/ spawned[e] > 0
             /\ UNCHANGED <<runs, caller, canceller>>
  BY <1>8 DEF LetGo
<1>9. ASSUME NEW e \in Reqs, Returned(e) PROVE Lifecycle'
  BY <1>8, <1>9 DEF Returned
<1>10. ASSUME NEW e \in Reqs, Dropped(e) PROVE Lifecycle'
  BY <1>8, <1>10 DEF Dropped
<1>11. ASSUME NEW e \in Reqs, Promoted(e) PROVE Lifecycle'
  BY <1>8, <1>11 DEF Promoted, Launch, StillWaiting
<1>12. ASSUME NEW id \in RunIds, CancelQueued(id) PROVE Lifecycle'
  <2> DEFINE e == runs[id]
  <2>1. e \in Reqs /\ ~hasProc[e] /\ RunIdOf[e] = id /\ Registered(e)
    BY <1>12 DEF CancelQueued
  <2>2. caller[e] \in {"queued", "running"} /\ waiter[e] = "none"
    BY <2>1
  <2>3. /\ runs' = [runs EXCEPT ![id] = None]
        /\ canceller' = [canceller EXCEPT ![e] = "popped"]
        /\ UNCHANGED <<hasProc, spawning, spawned, caller, waiter>>
    BY <1>12 DEF CancelQueued, promoters
  <2> HIDE DEF e
  <2>4. \A j \in RunIds : runs'[j] # None => RunIdOf[runs'[j]] = j
    BY <2>3
  <2>5. ASSUME NEW r \in Reqs PROVE Stage(r)'
    BY <2>1, <2>2, <2>3
  <2> QED BY <2>4, <2>5
<1>13. ASSUME NEW e \in Reqs, CancelFinish(e) PROVE Lifecycle'
  BY <1>13 DEF CancelFinish, registry
<1>14. ASSUME NEW e \in Reqs, WorkerExit(e) PROVE Lifecycle'
  BY <1>14 DEF WorkerExit, registry, promoters
<1>15. ASSUME NEW e \in Reqs, Unregister(e) PROVE Lifecycle'
  <2>1. Registered(e) /\ caller[e] \in {"queued", "running"} /\ waiter[e] = "exited"
    <3>1. waiter[e] = "exited"
      BY <1>15 DEF Unregister
    <3> QED BY <3>1
  <2>2. /\ runs' = [runs EXCEPT ![RunIdOf[e]] = None]
        /\ waiter' = [waiter EXCEPT ![e] = "popped"]
        /\ UNCHANGED <<hasProc, spawning, spawned, caller, canceller>>
    BY <1>15 DEF Unregister, promoters
  <2>3. \A id \in RunIds : runs'[id] # None => RunIdOf[runs'[id]] = id
    BY <2>2
  <2>4. ASSUME NEW r \in Reqs PROVE Stage(r)'
    <3>1. CASE r = e
      BY <2>1, <2>2, <3>1
    <3>2. CASE r # e
      <4>1. Registered(r)' <=> Registered(r)
        BY <2>1, <2>2, <3>2
      <4> QED BY <2>2, <3>2, <4>1
    <3> QED BY <3>1, <3>2
  <2> QED BY <2>3, <2>4
<1>16. ASSUME NEW e \in Reqs, Retire(e) PROVE Lifecycle'
  BY <1>16 DEF Retire, registry
<1>17. CASE Elsewhere
  BY <1>17 DEF Elsewhere, registry, promoters
<1>18. ASSUME NEW e \in Reqs, PutBlocks(e) PROVE Lifecycle'
  BY <1>18 DEF PutBlocks, registry, promoters
<1> QED
  BY <1>1, <1>2, <1>3, <1>4, <1>5, <1>6, <1>7, <1>9, <1>10, <1>11, <1>12, <1>13, <1>14,
     <1>15, <1>16, <1>17, <1>18 DEF Effect

LEMMA LifecycleCorrect == Spec => []Lifecycle
<1>1. TypeOK /\ Lifecycle /\ [Next]_vars => Lifecycle'
  BY NextEffect, LifecycleEffect
<1> QED
  BY LifecycleInit, <1>1, TypeCorrect, PTL DEF Spec

\* Once a queued run is cancelled no worker is attached to it: the promoting
\* thread that holds its entry finds another entry, or none, under its id.
THEOREM CancelledNeverRunsCorrect == Spec => []CancelledNeverRuns
<1>1. Lifecycle => CancelledNeverRuns
  BY DEF Lifecycle, Stage, CancelledNeverRuns
<1> QED
  BY <1>1, LifecycleCorrect, PTL

-----------------------------------------------------------------------------
\* A step adds at most one running entry, and none at the limit.
LEMMA RunningGrowth ==
  ASSUME TypeOK, Lifecycle, Effect
  PROVE  \/ Running' \subseteq Running
         \/ ~AtCapacity /\ \E e \in Reqs : Running' \subseteq Running \cup {e}
<1> USE ReqsAssumption, RunIdsAssumption DEF TypeOK, Running
<1>1. ASSUME NEW r \in Reqs, Refused(r) \/ Advanced(r) PROVE Running' \subseteq Running
  BY <1>1 DEF Refused, Advanced, registry
<1>2. ASSUME NEW r \in Reqs, Enqueued(r) PROVE Running' \subseteq Running
  <2>1. ~hasProc[r]
    BY <1>2 DEF Enqueued, Lifecycle, Stage
  <2> QED BY <1>2, <2>1 DEF Enqueued, Enqueue
<1>3. ASSUME NEW r \in Reqs, Admitted(r)
      PROVE  ~AtCapacity /\ Running' \subseteq Running \cup {r}
  BY <1>3 DEF Admitted, Launch
<1>4. CASE Left \/ (\E i \in 1..Len(fifo) : Picked(i)) \/ Elsewhere
  BY <1>4 DEF Left, Picked, Elsewhere, registry
<1>5. ASSUME NEW e \in Reqs, Forked(e) \/ Returned(e) \/ Dropped(e)
      PROVE  Running' \subseteq Running
  BY <1>5 DEF Forked, Returned, Dropped, LetGo, registry
<1>6. ASSUME NEW e \in Reqs, Promoted(e)
      PROVE  ~AtCapacity /\ Running' \subseteq Running \cup {e}
  BY <1>6 DEF Promoted, LetGo, Launch
<1>7. ASSUME NEW id \in RunIds, CancelQueued(id) PROVE Running' \subseteq Running
  BY <1>7 DEF CancelQueued
<1>8. ASSUME NEW e \in Reqs,
             CancelFinish(e) \/ PutBlocks(e) \/ WorkerExit(e) \/ Unregister(e) \/ Retire(e)
      PROVE  Running' \subseteq Running
  BY <1>8 DEF CancelFinish, PutBlocks, WorkerExit, Unregister, Retire, registry
<1> QED
  BY <1>1, <1>2, <1>3, <1>4, <1>5, <1>6, <1>7, <1>8 DEF Effect

\* The local limit holds however callers and promoting threads interleave,
\* because every grant re-reads the count in the section that makes it.
THEOREM RunningCapCorrect == Spec => []RunningCap
<1>1. Init => RunningCap
  <2> SUFFICES ASSUME Init PROVE RunningCap
    OBVIOUS
  <2>1. Running = {}
    BY DEF Init, Running
  <2> QED BY <2>1, FS_EmptySet, LimitsAssumption DEF RunningCap
<1>2. TypeOK /\ Lifecycle /\ RunningCap /\ [Next]_vars => RunningCap'
  <2> SUFFICES ASSUME TypeOK, Lifecycle, RunningCap, [Next]_vars PROVE RunningCap'
    OBVIOUS
  <2>1. IsFiniteSet(Running)
    BY ReqsAssumption, FS_Subset DEF Running
  <2>2. Cardinality(Running) \in Nat
    BY <2>1, FS_CardinalityType
  <2>3. CASE Running' \subseteq Running
    BY <2>1, <2>2, <2>3, FS_Subset, FS_CardinalityType, LimitsAssumption DEF RunningCap
  <2>4. ASSUME ~AtCapacity, NEW e \in Reqs, Running' \subseteq Running \cup {e}
        PROVE  RunningCap'
    <3>1. /\ IsFiniteSet(Running \cup {e})
          /\ Cardinality(Running \cup {e}) <= Cardinality(Running) + 1
      <4>1. /\ IsFiniteSet(Running \cup {e})
            /\ \/ Cardinality(Running \cup {e}) = Cardinality(Running)
               \/ Cardinality(Running \cup {e}) = Cardinality(Running) + 1
        BY <2>1, FS_AddElement
      <4> QED BY <2>2, <4>1
    <3>2. /\ Cardinality(Running') <= Cardinality(Running \cup {e})
          /\ Cardinality(Running') \in Nat
          /\ Cardinality(Running \cup {e}) \in Nat
      BY <2>4, <3>1, FS_Subset, FS_CardinalityType
    <3>3. Cardinality(Running) < MaxRuns
      BY <2>2, <2>4, LimitsAssumption DEF AtCapacity
    <3> QED BY <2>2, <3>1, <3>2, <3>3, LimitsAssumption DEF RunningCap
  <2> QED BY <2>3, <2>4, NextEffect, RunningGrowth
<1> QED
  BY <1>1, <1>2, TypeCorrect, LifecycleCorrect, PTL DEF Spec

\* A run gets one exit frame: from the thread that cancelled it in the queue
\* or from its waiter, never from both and never twice.
THEOREM ExitOnceCorrect == Spec => []ExitOnce
<1>1. Init => ExitOnce
  BY DEF Init, ExitOnce
<1>2. TypeOK /\ Lifecycle /\ ExitOnce /\ [Next]_vars => ExitOnce'
  <2> SUFFICES ASSUME TypeOK, Lifecycle, ExitOnce, Effect PROVE ExitOnce'
    BY NextEffect
  <2> USE DEF TypeOK, ExitOnce
  <2>1. ASSUME NEW r \in Reqs, Refused(r) \/ Advanced(r) \/ Enqueued(r) PROVE ExitOnce'
    BY <2>1 DEF Refused, Advanced, Enqueued, Enqueue
  <2>2. ASSUME NEW r \in Reqs, Admitted(r) PROVE ExitOnce'
    <3>1. waiter[r] = "none"
      BY <2>2 DEF Admitted, Lifecycle, Stage
    <3> QED BY <2>2, <3>1 DEF Admitted, Launch
  <2>3. CASE Left \/ (\E i \in 1..Len(fifo) : Picked(i)) \/ Elsewhere
    BY <2>3 DEF Left, Picked, Elsewhere
  <2>4. ASSUME NEW e \in Reqs, Forked(e) \/ Returned(e) \/ Dropped(e) PROVE ExitOnce'
    BY <2>4 DEF Forked, Returned, Dropped, LetGo
  <2>5. ASSUME NEW e \in Reqs, Promoted(e) PROVE ExitOnce'
    <3>1. waiter[e] = "none"
      BY <2>5 DEF Promoted, StillWaiting, Lifecycle, Stage
    <3> QED BY <2>5, <3>1 DEF Promoted, LetGo, Launch
  <2>6. ASSUME NEW id \in RunIds, CancelQueued(id) PROVE ExitOnce'
    <3> DEFINE e == runs[id]
    <3>1. e \in Reqs /\ Registered(e)
      BY <2>6, ReqsAssumption DEF CancelQueued, Lifecycle, Registered
    <3>2. canceller[e] = "none"
      BY <3>1 DEF Lifecycle, Stage
    <3> QED BY <2>6, <3>2 DEF CancelQueued
  <2>7. ASSUME NEW e \in Reqs, CancelFinish(e) PROVE ExitOnce'
    <3>1. waiter[e] = "none" /\ canceller[e] = "popped"
      BY <2>7 DEF CancelFinish, Lifecycle, Stage
    <3> QED BY <2>7, <3>1 DEF CancelFinish, BroadcastExit
  <2>8. ASSUME NEW e \in Reqs, WorkerExit(e) PROVE ExitOnce'
    <3>1. waiter[e] = "wait" /\ canceller[e] = "none"
      BY <2>8 DEF WorkerExit, Lifecycle, Stage
    <3> QED BY <2>8, <3>1 DEF WorkerExit, BroadcastExit
  <2>9. ASSUME NEW e \in Reqs, PutBlocks(e) \/ Unregister(e) \/ Retire(e) PROVE ExitOnce'
    <3>1. PutBlocks(e) => waiter[e] = "wait"
      BY DEF PutBlocks
    <3> QED BY <2>9, <3>1 DEF PutBlocks, Unregister, Retire
  <2> QED
    BY <2>1, <2>2, <2>3, <2>4, <2>5, <2>6, <2>7, <2>8, <2>9 DEF Effect
<1> QED
  BY <1>1, <1>2, TypeCorrect, LifecycleCorrect, PTL DEF Spec

-----------------------------------------------------------------------------
(***************************************************************************)
(* PlacedOnce and NoLostRun are one inductive invariant: that a queued run *)
(* is in exactly one place keeps it from being dropped with a stale entry, *)
(* and that it is in some place keeps the head of the FIFO live.           *)
(***************************************************************************)
Placed ==
  /\ NoRepeat(fifo)
  /\ \A id \in RunIds : Occurs(id, fifo) => runs[id] # None /\ ~hasProc[runs[id]]
  /\ \A r \in Reqs : Holders(r) <= 1
  /\ \A r \in Reqs : Waiting(r) => (Holders(r) = 0 <=> Occurs(RunIdOf[r], fifo))

LEMMA PlacedIsBoth == TypeOK => (Placed <=> PlacedOnce /\ NoLostRun)
<1> SUFFICES ASSUME TypeOK PROVE Placed <=> PlacedOnce /\ NoLostRun
  OBVIOUS
<1>1. \A i \in 1..Len(fifo) : fifo[i] \in RunIds
  BY DEF TypeOK
<1>2. \A r \in Reqs : Holders(r) \in Nat
  BY DEF TypeOK, Holders
<1>3. \A id : InFifo(id) <=> Occurs(id, fifo)
  BY DEF InFifo, Occurs
<1>4. (\A id \in RunIds : Occurs(id, fifo) => runs[id] # None /\ ~hasProc[runs[id]])
        <=> \A i \in 1..Len(fifo) : runs[fifo[i]] # None /\ ~hasProc[runs[fifo[i]]]
  BY <1>1 DEF Occurs
<1>5. \A r \in Reqs : (Holders(r) = 0 <=> Occurs(RunIdOf[r], fifo))
        <=> /\ InFifo(RunIdOf[r]) \/ Holders(r) > 0
            /\ Holders(r) > 0 => ~InFifo(RunIdOf[r])
  BY <1>2, <1>3
<1> QED
  BY <1>4, <1>5 DEF Placed, PlacedOnce, NoLostRun, NoRepeat

LEMMA PlacedInit == Init => Placed
BY RunIdsAssumption, ReqsAssumption
DEF Init, Placed, NoRepeat, Occurs, Holders, Waiting, Registered

\* A step that leaves the entries, the FIFO and the holders alone.
LEMMA PlacedFrame ==
  ASSUME Placed, UNCHANGED registry, \A r \in Reqs : Holders(r)' = Holders(r)
  PROVE  Placed'
BY DEF Placed, Waiting, Registered, registry

LEMMA PlacedEffect == TypeOK /\ Lifecycle /\ Placed /\ Effect => Placed'
<1> SUFFICES ASSUME TypeOK, Lifecycle, Placed, Effect PROVE Placed'
  OBVIOUS
<1> USE ReqsAssumption, RunIdsAssumption DEF TypeOK
<1>h. \A r \in Reqs : spawning[r] \in Nat /\ spawned[r] \in Nat /\ Holders(r) \in Nat
  BY DEF Holders
<1>f. \A j \in 1..Len(fifo) : fifo[j] \in RunIds /\ ~Stale(fifo[j])
  <2>1. \A j \in 1..Len(fifo) : fifo[j] \in RunIds /\ Occurs(fifo[j], fifo)
    BY DEF Occurs
  <2> QED BY <2>1 DEF Placed, Stale
<1>n. NoRepeat(fifo) /\ \A r \in Reqs : Holders(r) <= 1
  BY DEF Placed
<1>1. ASSUME NEW r \in Reqs, Refused(r) \/ Advanced(r) PROVE Placed'
  BY <1>1, PlacedFrame DEF Refused, Advanced, promoters, Holders
<1>2. ASSUME NEW r \in Reqs, Enqueued(r) PROVE Placed'
  <2> DEFINE id == RunIdOf[r]
  <2>1. /\ runs[id] = None /\ runs' = [runs EXCEPT ![id] = r]
        /\ fifo' = Append(fifo, id)
        /\ UNCHANGED <<hasProc, spawning, spawned>>
    BY <1>2 DEF Enqueued, Enqueue, promoters
  <2>2. ~hasProc[r] /\ Holders(r) = 0
    <3>1. caller[r] \notin {"queued", "running"} /\ Stage(r)
      BY <1>2 DEF Enqueued, Lifecycle
    <3>2. waiter[r] = "none" /\ spawning[r] = 0 /\ spawned[r] = 0
      BY <3>1 DEF Stage
    <3>3. ~hasProc[r]
      BY <3>1, <3>2 DEF Stage
    <3>4. Holders(r) = 0
      BY <3>2 DEF Holders
    <3> QED BY <3>3, <3>4
  <2>3. ~Occurs(id, fifo)
    BY <2>1 DEF Placed
  <2>4. /\ \A y : Occurs(y, fifo') <=> Occurs(y, fifo) \/ y = id
        /\ NoRepeat(fifo')
    BY <2>1, <2>3, AppendFacts DEF Placed
  <2>5. \A s \in Reqs : Holders(s)' = Holders(s)
    BY <2>1 DEF Holders
  <2>6. \A s \in Reqs : Waiting(s)' <=> s = r \/ (Waiting(s) /\ RunIdOf[s] # id)
    BY <2>1, <2>2 DEF Waiting, Registered
  <2>7. \A j \in RunIds : Occurs(j, fifo)' => runs'[j] # None /\ ~hasProc'[runs'[j]]
    BY <2>1, <2>2, <2>4 DEF Placed
  <2> QED BY <2>2, <2>4, <2>5, <2>6, <2>7 DEF Placed
<1>3. ASSUME NEW r \in Reqs, Admitted(r) PROVE Placed'
  <2>1. /\ runs[RunIdOf[r]] = None /\ runs' = [runs EXCEPT ![RunIdOf[r]] = r]
        /\ hasProc' = [hasProc EXCEPT ![r] = TRUE]
        /\ UNCHANGED <<fifo, spawning, spawned>>
    BY <1>3 DEF Admitted, Launch, promoters
  <2>2. ~Occurs(RunIdOf[r], fifo)
    BY <2>1 DEF Placed
  <2>3. \A s \in Reqs : Waiting(s)' => Waiting(s)
    BY <2>1 DEF Waiting, Registered
  <2>4. \A j \in RunIds : runs[j] # r
    <3>1. caller[r] = "started" /\ Stage(r)
      BY <1>3 DEF Admitted, Lifecycle
    <3>2. ~Registered(r)
      BY <3>1 DEF Stage
    <3> QED BY <3>2 DEF Registered, Lifecycle
  <2>5. \A j \in RunIds : Occurs(j, fifo)' => runs'[j] # None /\ ~hasProc'[runs'[j]]
    BY <2>1, <2>2, <2>4 DEF Placed
  <2>6. \A s \in Reqs : Holders(s)' = Holders(s)
    BY <2>1 DEF Holders
  <2> QED BY <2>1, <2>3, <2>5, <2>6 DEF Placed
<1>4. CASE Left
  <2>1. ASSUME AllStale PROVE fifo = <<>>
    <3>1. Len(fifo) # 0 => 1 \in 1..Len(fifo)
      OBVIOUS
    <3>2. Len(fifo) = 0
      BY <2>1, <3>1, <1>f DEF AllStale
    <3> QED BY <3>2
  <2> QED BY <1>4, <2>1, PlacedFrame DEF Left, registry, Holders
<1>5. ASSUME NEW i \in 1..Len(fifo), Picked(i) PROVE Placed'
  <2>1. \A j \in 1..Len(fifo) : fifo[j] \in RunIds /\ ~Stale(fifo[j])
    BY <1>f
  <2>2. i = 1
    BY <1>5, <2>1 DEF Picked, FirstLive
  <2>3. fifo[1] \in RunIds /\ Occurs(fifo[1], fifo) /\ ~Stale(fifo[1]) /\ Len(fifo) >= 1
    BY <2>1, <2>2 DEF Occurs
  <2>e. PICK e \in Reqs : e = runs[fifo[1]]
    BY <2>3 DEF Stale
  <2>4. RunIdOf[e] = fifo[1] /\ Waiting(e) /\ Holders(e) = 0
    <3>1. RunIdOf[e] = fifo[1] /\ Waiting(e)
      BY <2>3, <2>e DEF Stale, Waiting, Registered, Lifecycle
    <3> QED BY <2>3, <3>1 DEF Placed
  <2>5. /\ fifo' = SubSeq(fifo, 2, Len(fifo))
        /\ spawning' = [spawning EXCEPT ![e] = @ + 1]
        /\ UNCHANGED <<runs, hasProc, spawned>>
    BY <1>5, <2>2, <2>e DEF Picked
  <2>7. /\ \A y : Occurs(y, fifo') <=> Occurs(y, fifo) /\ y # fifo[1]
        /\ NoRepeat(fifo')
    BY <2>3, <2>5, <1>n, TailFacts
  <2>8. \A s \in Reqs : Holders(s)' = IF s = e THEN 1 ELSE Holders(s)
    BY <2>4, <2>5, <1>h DEF Holders
  <2>9. \A s \in Reqs : Waiting(s)' <=> Waiting(s)
    BY <2>5 DEF Waiting, Registered
  <2>10. \A s \in Reqs : Waiting(s) /\ RunIdOf[s] = fifo[1] => s = e
    BY <2>4 DEF Waiting, Registered
  <2>11. \A j \in RunIds : Occurs(j, fifo') => runs'[j] # None /\ ~hasProc'[runs'[j]]
    BY <2>5, <2>7 DEF Placed
  <2>12. \A s \in Reqs : Holders(s)' <= 1
    <3> HIDE DEF TypeOK
    <3> QED BY <2>8, <1>n
  <2>13. \A s \in Reqs : Waiting(s)' => (Holders(s)' = 0 <=> Occurs(RunIdOf[s], fifo'))
    <3>1. ASSUME NEW s \in Reqs, Waiting(s), s # e
          PROVE  Holders(s)' = 0 <=> Occurs(RunIdOf[s], fifo')
      <4>1. Holders(s) = 0 <=> Occurs(RunIdOf[s], fifo)
        BY <3>1 DEF Placed
      <4>2. RunIdOf[s] # fifo[1]
        BY <3>1, <2>10
      <4> QED BY <4>1, <4>2, <3>1, <2>7, <2>8
    <3>2. Holders(e)' = 1 /\ ~Occurs(RunIdOf[e], fifo')
      BY <2>4, <2>7, <2>8
    <3> QED BY <3>1, <3>2, <2>9
  <2> QED BY <2>7, <2>11, <2>12, <2>13 DEF Placed, Occurs, NoRepeat
<1>6. ASSUME NEW e \in Reqs, Forked(e) PROVE Placed'
  <2>1. \A r \in Reqs : Holders(r)' = Holders(r)
    BY <1>6, <1>h DEF Forked, Holders
  <2> QED BY <1>6, <2>1, PlacedFrame DEF Forked
<1>7. ASSUME NEW e \in Reqs, LetGo(e)
      PROVE  Holders(e) = 1 /\ \A r \in Reqs : Holders(r)' = IF r = e THEN 0 ELSE Holders(r)
  <2>1. Holders(e) = 1
    BY <1>7, <1>h DEF LetGo, Holders, Placed
  <2>2. \A r \in Reqs : Holders(r)' = IF r = e THEN Holders(e) - 1 ELSE Holders(r)
    BY <1>7, <1>h DEF LetGo, Holders
  <2> QED BY <2>1, <2>2
<1>8. ASSUME NEW e \in Reqs, Returned(e) PROVE Placed'
  <2>1. Holders(e) = 1 /\ \A r \in Reqs : Holders(r)' = IF r = e THEN 0 ELSE Holders(r)
    BY <1>7, <1>8 DEF Returned
  <2>2. Waiting(e) /\ fifo' = <<RunIdOf[e]>> \o fifo /\ UNCHANGED <<runs, hasProc>>
    BY <1>8 DEF Returned, LetGo, StillWaiting, PutBack, Waiting, Registered
  <2>3. ~Occurs(RunIdOf[e], fifo)
    BY <2>1, <2>2 DEF Placed
  <2>4. /\ \A y : Occurs(y, fifo') <=> Occurs(y, fifo) \/ y = RunIdOf[e]
        /\ NoRepeat(fifo')
    BY <2>2, <2>3, PrependFacts DEF Placed
  <2>5. \A s \in Reqs : (Waiting(s)' <=> Waiting(s)) /\ (Waiting(s) /\ RunIdOf[s] = RunIdOf[e] => s = e)
    BY <2>2 DEF Waiting, Registered
  <2>6. \A j \in RunIds : Occurs(j, fifo') => runs'[j] # None /\ ~hasProc'[runs'[j]]
    <3>1. runs[RunIdOf[e]] = e /\ ~hasProc[e] /\ e # None
      BY <2>2 DEF Waiting, Registered
    <3> QED BY <2>2, <2>4, <3>1 DEF Placed
  <2>7. \A s \in Reqs : Holders(s)' <= 1
    <3> HIDE DEF TypeOK
    <3> QED BY <2>1, <1>n
  <2>8. \A s \in Reqs : Waiting(s)' => (Holders(s)' = 0 <=> Occurs(RunIdOf[s], fifo'))
    <3>1. ASSUME NEW s \in Reqs, Waiting(s), s # e
          PROVE  Holders(s)' = 0 <=> Occurs(RunIdOf[s], fifo')
      <4>1. Holders(s) = 0 <=> Occurs(RunIdOf[s], fifo)
        BY <3>1 DEF Placed
      <4> QED BY <4>1, <3>1, <2>1, <2>4, <2>5
    <3>2. Holders(e)' = 0 /\ Occurs(RunIdOf[e], fifo')
      BY <2>1, <2>4
    <3> QED BY <3>1, <3>2, <2>5
  <2> QED BY <2>4, <2>6, <2>7, <2>8 DEF Placed, Occurs, NoRepeat
<1>9. ASSUME NEW e \in Reqs, Dropped(e) PROVE Placed'
  <2>1. \A r \in Reqs : Holders(r)' = IF r = e THEN 0 ELSE Holders(r)
    BY <1>7, <1>9 DEF Dropped
  <2>2. ~Waiting(e) /\ UNCHANGED <<runs, hasProc, fifo>>
    BY <1>9 DEF Dropped, LetGo, StillWaiting, Waiting, Registered
  <2>3. \A s \in Reqs : Waiting(s)' <=> Waiting(s)
    BY <2>2 DEF Waiting, Registered
  <2>4. \A s \in Reqs : Holders(s)' <= 1
    <3> HIDE DEF TypeOK
    <3> QED BY <2>1, <1>n
  <2>5. \A s \in Reqs : Waiting(s) => s # e /\ Holders(s)' = Holders(s)
    BY <2>1, <2>2
  <2>6. \A s \in Reqs : Waiting(s)' => (Holders(s)' = 0 <=> Occurs(RunIdOf[s], fifo'))
    BY <2>2, <2>3, <2>5 DEF Placed
  <2>7. \A j \in RunIds : Occurs(j, fifo') => runs'[j] # None /\ ~hasProc'[runs'[j]]
    BY <2>2 DEF Placed
  <2> QED BY <2>2, <2>4, <2>6, <2>7 DEF Placed, Occurs, NoRepeat
<1>10. ASSUME NEW e \in Reqs, Promoted(e) PROVE Placed'
  <2>1. Holders(e) = 1 /\ \A r \in Reqs : Holders(r)' = IF r = e THEN 0 ELSE Holders(r)
    BY <1>7, <1>10 DEF Promoted
  <2>2. /\ Waiting(e) /\ hasProc' = [hasProc EXCEPT ![e] = TRUE]
        /\ UNCHANGED <<runs, fifo>>
    BY <1>10 DEF Promoted, LetGo, StillWaiting, Launch, Waiting, Registered
  <2>3. ~Occurs(RunIdOf[e], fifo)
    BY <2>1, <2>2 DEF Placed
  <2>4. \A s \in Reqs : Waiting(s)' <=> Waiting(s) /\ s # e
    BY <2>2 DEF Waiting, Registered
  <2>5. \A j \in RunIds : Occurs(j, fifo) => runs[j] # e
    BY <2>2, <2>3 DEF Lifecycle, Waiting, Registered
  <2>6. \A j \in RunIds : Occurs(j, fifo)' => runs'[j] # None /\ ~hasProc'[runs'[j]]
    BY <2>2, <2>5 DEF Placed
  <2>7. \A s \in Reqs : Holders(s)' <= 1
    <3> HIDE DEF TypeOK
    <3> QED BY <2>1, <1>n
  <2>8. \A s \in Reqs : Waiting(s)' => (Holders(s)' = 0 <=> Occurs(RunIdOf[s], fifo'))
    BY <2>1, <2>2, <2>4 DEF Placed
  <2> QED BY <2>2, <2>6, <2>7, <2>8 DEF Placed, Occurs, NoRepeat
<1>11. ASSUME NEW id \in RunIds, CancelQueued(id) PROVE Placed'
  <2>1. runs' = [runs EXCEPT ![id] = None] /\ UNCHANGED <<hasProc, spawning, spawned>>
    BY <1>11 DEF CancelQueued, promoters
  <2>2. NoRepeat(fifo') /\ \A y : Occurs(y, fifo') <=> Occurs(y, fifo) /\ y # id
    <3>1. CASE ~Occurs(id, fifo)
      BY <1>11, <3>1 DEF CancelQueued, RemoveFirst, Occurs, Placed
    <3>2. ASSUME NEW i \in 1..Len(fifo), fifo[i] = id,
                 fifo' = SubSeq(fifo, 1, i - 1) \o SubSeq(fifo, i + 1, Len(fifo))
          PROVE  NoRepeat(fifo') /\ \A y : Occurs(y, fifo') <=> Occurs(y, fifo) /\ y # id
      BY <3>2, <1>n, CutFacts
    <3> QED BY <1>11, <3>1, <3>2 DEF CancelQueued, RemoveFirst, Occurs
  <2>3. \A s \in Reqs : Waiting(s)' <=> Waiting(s) /\ RunIdOf[s] # id
    BY <2>1 DEF Waiting, Registered
  <2>4. \A s \in Reqs : Holders(s)' = Holders(s)
    BY <2>1 DEF Holders
  <2> QED BY <2>1, <2>2, <2>3, <2>4 DEF Placed
<1>12. ASSUME NEW e \in Reqs, CancelFinish(e) \/ PutBlocks(e) \/ WorkerExit(e) \/ Retire(e)
       PROVE  Placed'
  BY <1>12, PlacedFrame DEF CancelFinish, PutBlocks, WorkerExit, Retire, promoters, Holders
<1>13. ASSUME NEW e \in Reqs, Unregister(e) PROVE Placed'
  <2>1. Registered(e) /\ hasProc[e]
    BY <1>13 DEF Unregister, Lifecycle, Stage
  <2>2. /\ runs' = [runs EXCEPT ![RunIdOf[e]] = None]
        /\ UNCHANGED <<hasProc, fifo, spawning, spawned>>
    BY <1>13 DEF Unregister, promoters
  <2>3. ~Occurs(RunIdOf[e], fifo)
    BY <2>1 DEF Placed, Registered
  <2>4. \A s \in Reqs : (Waiting(s)' <=> Waiting(s)) /\ Holders(s)' = Holders(s)
    BY <2>1, <2>2 DEF Waiting, Registered, Holders
  <2> QED BY <2>2, <2>3, <2>4 DEF Placed
<1>14. CASE Elsewhere
  BY <1>14, PlacedFrame DEF Elsewhere, promoters, Holders
<1> QED
  BY <1>1, <1>2, <1>3, <1>4, <1>5, <1>6, <1>8, <1>9, <1>10, <1>11, <1>12, <1>13, <1>14
  DEF Effect

LEMMA PlacedCorrect == Spec => []Placed
<1>1. TypeOK /\ Lifecycle /\ Placed /\ [Next]_vars => Placed'
  BY PlacedEffect, NextEffect
<1> QED
  BY <1>1, PlacedInit, TypeCorrect, LifecycleCorrect, PTL DEF Spec

\* A waiting run is in one place only: no run is started twice.
THEOREM PlacedOnceCorrect == Spec => []PlacedOnce
<1>1. TypeOK /\ Placed => PlacedOnce
  BY PlacedIsBoth
<1> QED BY <1>1, TypeCorrect, PlacedCorrect, PTL

\* A waiting run is in some place: no run is forgotten.
THEOREM NoLostRunCorrect == Spec => []NoLostRun
<1>1. TypeOK /\ Placed => NoLostRun
  BY PlacedIsBoth
<1> QED BY <1>1, TypeCorrect, PlacedCorrect, PTL

-----------------------------------------------------------------------------
(***************************************************************************)
(* The shared counter.  With strict Redis, or without faults, a worker is  *)
(* launched only with a slot of its own, and Retire returns one slot per   *)
(* worker at most.                                                         *)
(***************************************************************************)
FaithfulRedis == UseRedis /\ (Strict \/ ~RedisFaults)

\* One more worker here, or on another broker, for one more slot; one less for
\* at most one slot; or the counter alone moves, up to the limit.
SlotStep ==
  \/ /\ Workers' = Workers /\ foreign' = foreign
     /\ slots' \in {slots, Acquired}
  \/ /\ \E e \in Reqs \ Workers : Workers' = Workers \cup {e}
     /\ foreign' = foreign
     /\ slots < GlobalLimit /\ slots' = slots + 1
  \/ /\ \E e \in Workers : Workers' = Workers \ {e}
     /\ foreign' = foreign
     /\ slots' \in {slots, IF slots >= 1 THEN slots - 1 ELSE slots}
  \/ /\ Workers' = Workers /\ foreign' = foreign + 1
     /\ slots < GlobalLimit /\ slots' = slots + 1
  \/ /\ Workers' = Workers /\ foreign > 0 /\ foreign' = foreign - 1
     /\ slots' = IF slots >= 1 THEN slots - 1 ELSE slots

\* try_acquire_global_run_slot grants only what the counter covers.
LEMMA GrantCounted ==
  ASSUME FaithfulRedis, NEW granted \in BOOLEAN, AcquireSlot(granted, slots')
  PROVE  /\ granted => slots < GlobalLimit /\ slots' = slots + 1
         /\ slots' \in {slots, Acquired}
BY FlagsAssumption DEF FaithfulRedis, AcquireSlot, Acquired

LEMMA LaunchAdds ==
  ASSUME TypeOK, NEW e \in Reqs, waiter[e] = "none", Launch(e)
  PROVE  e \in Reqs \ Workers /\ Workers' = Workers \cup {e}
BY DEF TypeOK, Launch, Workers

LEMMA SlotStepCases ==
  ASSUME TypeOK, Lifecycle, FaithfulRedis, [Next]_vars
  PROVE  SlotStep
<1> USE DEF TypeOK
<1>1. ASSUME UNCHANGED <<waiter, slots, foreign>> PROVE SlotStep
  BY <1>1 DEF SlotStep, Workers
<1>2. ASSUME NEW r \in Reqs, Submit(r) \/ CallerPopen(r) PROVE SlotStep
  BY <1>1, <1>2 DEF Submit, CallerPopen, EnqueueOrReject, Enqueue, Reject, redis
<1>3. ASSUME NEW r \in Reqs, Register(r) PROVE SlotStep
  <2>1. waiter[r] = "none"
    BY <1>3 DEF Register, Lifecycle, Stage
  <2>2. CASE slots' = slots /\ (Reject(r, "duplicate") \/ EnqueueOrReject(r))
    BY <1>1, <2>2 DEF EnqueueOrReject, Enqueue, Reject
  <2>3. ASSUME NEW granted \in BOOLEAN, AcquireSlot(granted, slots'), ~granted, EnqueueOrReject(r)
        PROVE  SlotStep
    <3>1. UNCHANGED <<waiter, foreign>>
      BY <2>3 DEF EnqueueOrReject, Enqueue, Reject
    <3> QED BY <2>3, <3>1, GrantCounted DEF SlotStep, Workers
  <2>4. ASSUME NEW granted \in BOOLEAN, AcquireSlot(granted, slots'), granted,
               Launch(r), foreign' = foreign
        PROVE  SlotStep
    BY <2>1, <2>4, GrantCounted, LaunchAdds DEF SlotStep
  <2> QED BY <1>3, <2>2, <2>3, <2>4 DEF Register
<1>4. CASE PromotePick
  BY <1>1, <1>4 DEF PromotePick, redis
<1>5. ASSUME NEW e \in Reqs, PromotePopen(e) PROVE SlotStep
  BY <1>1, <1>5 DEF PromotePopen, redis
<1>6. ASSUME NEW e \in Reqs, PromoteCommit(e) PROVE SlotStep
  <2>1. foreign' = foreign
    BY <1>6 DEF PromoteCommit
  <2>2. CASE UNCHANGED <<waiter, slots>>
    BY <1>1, <2>1, <2>2
  <2>3. ASSUME NEW granted \in BOOLEAN, AcquireSlot(granted, slots'), ~granted, waiter' = waiter
        PROVE  SlotStep
    BY <2>1, <2>3, GrantCounted DEF SlotStep, Workers
  <2>4. ASSUME NEW granted \in BOOLEAN, AcquireSlot(granted, slots'), granted,
               StillWaiting(e), Launch(e)
        PROVE  SlotStep
    <3>1. waiter[e] = "none"
      BY <2>4 DEF StillWaiting, Lifecycle, Stage
    <3> QED BY <2>1, <2>4, <3>1, GrantCounted, LaunchAdds DEF SlotStep
  <2> QED BY <1>6, <2>2, <2>3, <2>4 DEF PromoteCommit
<1>7. ASSUME NEW id \in RunIds, CancelQueued(id) PROVE SlotStep
  BY <1>1, <1>7 DEF CancelQueued, redis
<1>8. ASSUME NEW e \in Reqs, CancelFinish(e) PROVE SlotStep
  BY <1>1, <1>8 DEF CancelFinish, redis
<1>9. ASSUME NEW e \in Reqs, PutBlocks(e) \/ WorkerExit(e) \/ Unregister(e) PROVE SlotStep
  <2>1. Workers' = Workers /\ UNCHANGED <<slots, foreign>>
    BY <1>9 DEF PutBlocks, WorkerExit, Unregister, Workers, redis
  <2> QED BY <2>1 DEF SlotStep
<1>10. ASSUME NEW e \in Reqs, Retire(e) PROVE SlotStep
  <2>1. e \in Workers /\ Workers' = Workers \ {e} /\ foreign' = foreign
    BY <1>10 DEF Retire, Workers
  <2>2. slots' \in {slots, IF slots >= 1 THEN slots - 1 ELSE slots}
    BY <1>10 DEF Retire, ReleaseSlot
  <2> QED BY <2>1, <2>2 DEF SlotStep
<1>11. CASE ForeignAcquire \/ ForeignRelease
  BY <1>11 DEF ForeignAcquire, ForeignRelease, SlotStep, Workers
<1>12. CASE UNCHANGED vars
  BY <1>1, <1>12 DEF vars
<1> QED
  BY <1>2, <1>3, <1>4, <1>5, <1>6, <1>7, <1>8, <1>9, <1>10, <1>11, <1>12 DEF Next

\* The cluster-wide cap: with strict Redis, or without faults, the workers of
\* all brokers together never outnumber the slots taken, nor the slots the
\* limit, whatever replies and releases are lost.
THEOREM ClusterCapCorrect == Spec => []ClusterCap
<1>1. Init => ClusterCap
  <2> SUFFICES ASSUME Init PROVE ClusterCap
    OBVIOUS
  <2>1. Workers = {}
    BY DEF Init, Workers
  <2> QED BY <2>1, FS_EmptySet, LimitsAssumption DEF Init, ClusterCap
<1>2. TypeOK /\ Lifecycle /\ ClusterCap /\ [Next]_vars => ClusterCap'
  <2> SUFFICES ASSUME TypeOK, Lifecycle, ClusterCap, FaithfulRedis, [Next]_vars
               PROVE  foreign' + Cardinality(Workers') <= slots' /\ slots' <= GlobalLimit
    BY DEF ClusterCap, FaithfulRedis
  <2>1. IsFiniteSet(Workers)
    BY ReqsAssumption, FS_Subset DEF Workers
  <2>2. Cardinality(Workers) \in Nat
    BY <2>1, FS_CardinalityType
  <2>3. /\ foreign + Cardinality(Workers) <= slots /\ slots <= GlobalLimit
        /\ slots \in Nat /\ foreign \in Nat /\ GlobalLimit \in Nat
    BY LimitsAssumption DEF ClusterCap, FaithfulRedis, TypeOK
  <2>4. ASSUME NEW e \in Reqs \ Workers, Workers' = Workers \cup {e}
        PROVE  Cardinality(Workers') = Cardinality(Workers) + 1
    BY <2>1, <2>4, FS_AddElement
  <2>5. ASSUME NEW e \in Workers, Workers' = Workers \ {e}
        PROVE  Cardinality(Workers') = Cardinality(Workers) - 1 /\ Cardinality(Workers') \in Nat
    BY <2>1, <2>5, FS_RemoveElement, FS_CardinalityType
  <2> QED
    BY <2>2, <2>3, <2>4, <2>5, SlotStepCases DEF SlotStep, Acquired
<1> QED
  BY <1>1, <1>2, TypeCorrect, LifecycleCorrect, PTL DEF Spec

-----------------------------------------------------------------------------
(***************************************************************************)
(* The refinement of RunPool.  Live runs of the pool are the registered    *)
(* entries, so each step above is one step of the pool, or none.           *)
(***************************************************************************)
Over(r) == canceller[r] # "none" \/ waiter[r] \in {"popped", "done"}

\* The value of the mapping, case by case.
LifeCases ==
  \A r \in Reqs :
    /\ Registered(r) /\ ~hasProc[r] => Life[r] = "waiting"
    /\ Registered(r) /\ hasProc[r] => Life[r] = "running"
    /\ ~Registered(r) /\ Over(r) => Life[r] = "ended"
    /\ ~Registered(r) /\ ~Over(r) /\ caller[r] \in Rejected => Life[r] = "refused"
    /\ ~Registered(r) /\ ~Over(r) /\ caller[r] \notin Rejected => Life[r] = "new"

\* No two cases of the mapping hold at once: this is what Lifecycle is for.
LEMMA LifeValue ==
  /\ Lifecycle => LifeCases
  /\ Lifecycle' => LifeCases'
<1> DEFINE Value(wait, runn, over, refused) ==
             CASE wait -> "waiting" [] runn -> "running" [] over -> "ended"
               [] refused -> "refused" [] OTHER -> "new"
<1>1. ASSUME NEW wait \in BOOLEAN, NEW runn \in BOOLEAN, NEW over \in BOOLEAN,
             NEW refused \in BOOLEAN, wait => ~runn,
             wait \/ runn => ~over /\ ~refused, over => ~refused
      PROVE  LET v == Value(wait, runn, over, refused) IN
             /\ wait => v = "waiting"
             /\ runn => v = "running"
             /\ over => v = "ended"
             /\ refused => v = "refused"
             /\ ~wait /\ ~runn /\ ~over /\ ~refused => v = "new"
  BY <1>1
<1>2. ASSUME NEW r \in Reqs
      PROVE  /\ Life[r] = Value(Waiting(r), Registered(r) /\ hasProc[r],
                               Over(r), caller[r] \in Rejected)
             /\ Life'[r] = Value(Waiting(r)', Registered(r)' /\ hasProc'[r],
                                Over(r)', caller'[r] \in Rejected)
  BY DEF Life, Over
<1> HIDE DEF Value
<1>3. ASSUME NEW r \in Reqs, Stage(r)
      PROVE  /\ Registered(r) => ~Over(r) /\ caller[r] \notin Rejected
             /\ Over(r) => caller[r] \notin Rejected
  BY <1>3 DEF Stage, Over, Rejected
<1>4. ASSUME NEW r \in Reqs, Stage(r)'
      PROVE  /\ Registered(r)' => ~Over(r)' /\ caller'[r] \notin Rejected
             /\ Over(r)' => caller'[r] \notin Rejected
  BY <1>4 DEF Stage, Over, Rejected
<1>5. ASSUME Lifecycle PROVE LifeCases
  <2>1. ASSUME NEW r \in Reqs
        PROVE  /\ Waiting(r) \in BOOLEAN /\ (Registered(r) /\ hasProc[r]) \in BOOLEAN
               /\ Over(r) \in BOOLEAN /\ (caller[r] \in Rejected) \in BOOLEAN
    BY DEF Waiting, Registered, Over
  <2>2. ASSUME NEW r \in Reqs
        PROVE  /\ Waiting(r) <=> Registered(r) /\ ~hasProc[r]
               /\ Registered(r) => ~Over(r) /\ caller[r] \notin Rejected
               /\ Over(r) => caller[r] \notin Rejected
    BY <1>3, <1>5 DEF Waiting, Lifecycle
  <2> QED BY <1>1, <1>2, <2>1, <2>2 DEF LifeCases
<1>6. ASSUME Lifecycle' PROVE LifeCases'
  <2>1. ASSUME NEW r \in Reqs
        PROVE  /\ Waiting(r)' \in BOOLEAN /\ (Registered(r)' /\ hasProc'[r]) \in BOOLEAN
               /\ Over(r)' \in BOOLEAN /\ (caller'[r] \in Rejected) \in BOOLEAN
    BY DEF Waiting, Registered, Over
  <2>2. ASSUME NEW r \in Reqs
        PROVE  /\ Waiting(r)' <=> Registered(r)' /\ ~hasProc'[r]
               /\ Registered(r)' => ~Over(r)' /\ caller'[r] \notin Rejected
               /\ Over(r)' => caller'[r] \notin Rejected
    BY <1>4, <1>6 DEF Waiting, Lifecycle
  <2> QED BY <1>1, <1>2, <2>1, <2>2 DEF LifeCases
<1> QED BY <1>5, <1>6

\* A call's life does not change unless what it is read from does.
LEMMA LifeFrame ==
  ASSUME TypeOK, Lifecycle, Lifecycle', NEW r \in Reqs,
         Registered(r)' <=> Registered(r), hasProc'[r] = hasProc[r],
         Over(r)' <=> Over(r), caller'[r] \in Rejected <=> caller[r] \in Rejected
  PROVE  Life'[r] = Life[r]
<1>1. hasProc[r] \in BOOLEAN
  BY DEF TypeOK
<1> QED BY <1>1, LifeValue DEF LifeCases

LEMMA LifeMove ==
  ASSUME NEW r \in Reqs, NEW to, Life'[r] = to,
         \A s \in Reqs \ {r} : Life'[s] = Life[s]
  PROVE  Life' = [Life EXCEPT ![r] = to]
<1>1. Life = [s \in Reqs |-> Life[s]] /\ Life' = [s \in Reqs |-> Life'[s]]
  BY DEF Life
<1> QED BY <1>1

\* What the pool looks at: live runs are the registered ones, and the running
\* ones are those that count for the local limit.
LEMMA PoolView ==
  ASSUME TypeOK, Lifecycle
  PROVE  /\ Pool!Live = {r \in Reqs : Registered(r)}
         /\ Pool!RunningNow = Running
<1>1. ASSUME NEW r \in Reqs
      PROVE  /\ Life[r] \in {"waiting", "running"} <=> Registered(r)
             /\ Life[r] = "running" <=> Registered(r) /\ hasProc[r]
  <2>1. hasProc[r] \in BOOLEAN
    BY DEF TypeOK
  <2> QED BY <2>1, LifeValue DEF LifeCases
<1> QED
  BY <1>1 DEF Pool!Live, Pool!RunningNow, Running, Registered

\* An id nobody is registered under is free in the pool.
LEMMA FreeId ==
  ASSUME TypeOK, Lifecycle, NEW r \in Reqs, runs[RunIdOf[r]] = None
  PROVE  Pool!IdFree(r)
BY PoolView, ReqsAssumption DEF Pool!IdFree, Registered

\* The pool counts with the operator of its own instance of FiniteSets.
LEMMA SameCardinality == \A S : Pool!Cardinality(S) = Cardinality(S)
BY DEF Pool!Cardinality, Cardinality, Pool!IsFiniteSet, IsFiniteSet

LEMMA RoomInPool ==
  TypeOK /\ Lifecycle /\ ~AtCapacity => Pool!Cardinality(Pool!RunningNow) < MaxRuns
<1> SUFFICES ASSUME TypeOK, Lifecycle, ~AtCapacity PROVE Cardinality(Running) < MaxRuns
  BY PoolView, SameCardinality
<1>1. Cardinality(Running) \in Nat
  BY ReqsAssumption, FS_Subset, FS_CardinalityType DEF Running
<1> QED BY <1>1, LimitsAssumption DEF AtCapacity

LEMMA PoolEffect ==
  ASSUME TypeOK, TypeOK', Lifecycle, Lifecycle', Effect
  PROVE  Pool!Next \/ UNCHANGED Life
<1> USE ReqsAssumption, RunIdsAssumption
<1>t. \A r \in Reqs : hasProc[r] \in BOOLEAN /\ hasProc'[r] \in BOOLEAN
  BY DEF TypeOK
<1>s. ASSUME \A r \in Reqs : Life'[r] = Life[r] PROVE UNCHANGED Life
  BY <1>s DEF Life
<1>o. ASSUME UNCHANGED <<runs, hasProc, caller, waiter, canceller>> PROVE UNCHANGED Life
  BY <1>o DEF Life, Waiting, Registered
\* A call that is not yet decided.
<1>n. ASSUME NEW r \in Reqs, caller[r] \in {"new", "popen", "started"}
      PROVE  ~Registered(r) /\ ~Over(r) /\ ~hasProc[r] /\ Life[r] = "new"
  <2>1. ~Registered(r) /\ ~Over(r) /\ ~hasProc[r]
    BY <1>n DEF Lifecycle, Stage, Over
  <2> QED BY <1>n, <2>1, LifeValue DEF LifeCases, Rejected
<1>1. ASSUME NEW r \in Reqs, Refused(r) PROVE Pool!Next
  <2>1. ~Registered(r)' /\ ~Over(r)' /\ caller'[r] \in Rejected /\ Life[r] = "new"
    BY <1>1, <1>n DEF Refused, Registered, Over, registry, TypeOK
  <2>2. Life'[r] = "refused"
    BY <2>1, LifeValue DEF LifeCases
  <2>3. ASSUME NEW s \in Reqs \ {r} PROVE Life'[s] = Life[s]
    BY <1>1, LifeFrame DEF Refused, Registered, Over, registry, TypeOK
  <2> QED BY <2>1, <2>2, <2>3, LifeMove DEF Pool!Next, Pool!Refuse, Pool!Move
<1>2. ASSUME NEW r \in Reqs, Advanced(r) PROVE UNCHANGED Life
  <2>1. ASSUME NEW s \in Reqs PROVE Life'[s] = Life[s]
    BY <1>2, LifeFrame DEF Advanced, Registered, Over, Rejected, registry, TypeOK
  <2> QED BY <2>1, <1>s
<1>3. ASSUME NEW r \in Reqs, Enqueued(r) PROVE Pool!Next
  <2>1. Life[r] = "new" /\ ~hasProc[r] /\ Pool!IdFree(r)
    BY <1>3, <1>n, FreeId DEF Enqueued
  <2>2. /\ runs[RunIdOf[r]] = None /\ runs' = [runs EXCEPT ![RunIdOf[r]] = r]
        /\ caller' = [caller EXCEPT ![r] = "queued"]
        /\ UNCHANGED <<hasProc, waiter, canceller>>
    BY <1>3 DEF Enqueued, Enqueue
  <2>3. Registered(r)' /\ ~hasProc'[r]
    BY <2>1, <2>2 DEF Registered, TypeOK
  <2>4. Life'[r] = "waiting"
    BY <2>3, LifeValue DEF LifeCases
  <2>5. ASSUME NEW s \in Reqs \ {r} PROVE Life'[s] = Life[s]
    <3>1. Registered(s)' <=> Registered(s)
      BY <2>2 DEF Registered, TypeOK
    <3> QED BY <2>2, <3>1, LifeFrame DEF Over, TypeOK
  <2> QED BY <2>1, <2>4, <2>5, LifeMove DEF Pool!Next, Pool!Queue, Pool!Move
<1>4. ASSUME NEW r \in Reqs, Admitted(r) PROVE Pool!Next
  <2>1. Life[r] = "new" /\ Pool!IdFree(r) /\ Pool!Cardinality(Pool!RunningNow) < MaxRuns
    BY <1>4, <1>n, FreeId, RoomInPool DEF Admitted
  <2>2. /\ runs[RunIdOf[r]] = None /\ runs' = [runs EXCEPT ![RunIdOf[r]] = r]
        /\ caller' = [caller EXCEPT ![r] = "running"]
        /\ hasProc' = [hasProc EXCEPT ![r] = TRUE]
        /\ waiter' = [waiter EXCEPT ![r] = "wait"]
        /\ canceller' = canceller
    BY <1>4 DEF Admitted, Launch
  <2>3. Registered(r)' /\ hasProc'[r]
    BY <2>2 DEF Registered, TypeOK
  <2>4. Life'[r] = "running"
    BY <2>3, LifeValue DEF LifeCases
  <2>5. ASSUME NEW s \in Reqs \ {r} PROVE Life'[s] = Life[s]
    <3>1. Registered(s)' <=> Registered(s)
      BY <2>2 DEF Registered, TypeOK
    <3>2. /\ hasProc'[s] = hasProc[s] /\ caller'[s] = caller[s]
          /\ waiter'[s] = waiter[s] /\ canceller' = canceller
      BY <2>2 DEF TypeOK
    <3>3. Over(s)' <=> Over(s)
      BY <3>2 DEF Over
    <3> QED BY <3>1, <3>2, <3>3, LifeFrame
  <2>6. Life' = [Life EXCEPT ![r] = "running"]
    BY <2>4, <2>5, LifeMove
  <2>7. Pool!Start(r)
    BY <2>1, <2>6 DEF Pool!Start, Pool!Move
  <2> QED BY <2>7 DEF Pool!Next
<1>5. CASE Left \/ (\E i \in 1..Len(fifo) : Picked(i)) \/ Elsewhere
  BY <1>5, <1>o DEF Left, Picked, Elsewhere, registry
<1>6. ASSUME NEW e \in Reqs, Forked(e) \/ Returned(e) \/ Dropped(e) PROVE UNCHANGED Life
  BY <1>6, <1>o DEF Forked, Returned, Dropped, LetGo, registry
<1>7. ASSUME NEW e \in Reqs, Promoted(e) PROVE Pool!Next
  <2>1. /\ Registered(e) /\ ~hasProc[e] /\ Pool!Cardinality(Pool!RunningNow) < MaxRuns
        /\ hasProc' = [hasProc EXCEPT ![e] = TRUE]
        /\ waiter' = [waiter EXCEPT ![e] = "wait"]
        /\ UNCHANGED <<runs, caller, canceller>>
    BY <1>7, RoomInPool DEF Promoted, LetGo, StillWaiting, Launch, Registered
  <2>2. Life[e] = "waiting" /\ Life'[e] = "running"
    <3>1. Registered(e)' /\ hasProc'[e]
      BY <2>1 DEF Registered, TypeOK
    <3> QED BY <2>1, <3>1, LifeValue DEF LifeCases
  <2>3. ASSUME NEW s \in Reqs \ {e} PROVE Life'[s] = Life[s]
    BY <2>1, LifeFrame DEF Registered, Over, TypeOK
  <2> QED BY <2>1, <2>2, <2>3, LifeMove DEF Pool!Next, Pool!Start, Pool!Move
<1>8. ASSUME NEW id \in RunIds, CancelQueued(id) PROVE Pool!Next
  <2>e. PICK e \in Reqs : e = runs[id]
    BY <1>8 DEF CancelQueued, TypeOK
  <2>1. RunIdOf[e] = id /\ Registered(e) /\ ~hasProc[e]
    BY <1>8, <2>e DEF CancelQueued, Lifecycle, Registered, TypeOK
  <2>2. /\ runs' = [runs EXCEPT ![id] = None]
        /\ canceller' = [canceller EXCEPT ![e] = "popped"]
        /\ UNCHANGED <<hasProc, caller, waiter>>
    BY <1>8, <2>e DEF CancelQueued
  <2>3. Life[e] = "waiting" /\ Life'[e] = "ended"
    <3>1. ~Registered(e)' /\ Over(e)'
      BY <2>1, <2>2 DEF Registered, Over, TypeOK
    <3> QED BY <2>1, <3>1, LifeValue DEF LifeCases
  <2>4. ASSUME NEW s \in Reqs \ {e} PROVE Life'[s] = Life[s]
    <3>1. Registered(s)' <=> Registered(s)
      BY <2>1, <2>2 DEF Registered, TypeOK
    <3> QED BY <2>2, <3>1, LifeFrame DEF Over, TypeOK
  <2> QED BY <2>1, <2>3, <2>4, LifeMove DEF Pool!Next, Pool!Cancel, Pool!Move
<1>9. ASSUME NEW e \in Reqs, CancelFinish(e) \/ PutBlocks(e) \/ WorkerExit(e) \/ Retire(e)
      PROVE  UNCHANGED Life
  <2>1. ASSUME NEW s \in Reqs PROVE Life'[s] = Life[s]
    BY <1>9, LifeFrame DEF CancelFinish, PutBlocks, WorkerExit, Retire, Registered, Over, registry, TypeOK
  <2> QED BY <2>1, <1>s
<1>10. ASSUME NEW e \in Reqs, Unregister(e) PROVE Pool!Next
  <2>1. /\ Registered(e) /\ hasProc[e]
        /\ runs' = [runs EXCEPT ![RunIdOf[e]] = None]
        /\ waiter' = [waiter EXCEPT ![e] = "popped"]
        /\ UNCHANGED <<hasProc, caller, canceller>>
    BY <1>10 DEF Unregister, Lifecycle, Stage
  <2>2. Life[e] = "running" /\ Life'[e] = "ended"
    <3>1. ~Registered(e)' /\ Over(e)'
      BY <2>1 DEF Registered, Over, TypeOK
    <3> QED BY <2>1, <3>1, LifeValue DEF LifeCases
  <2>3. ASSUME NEW s \in Reqs \ {e} PROVE Life'[s] = Life[s]
    <3>1. Registered(s)' <=> Registered(s)
      BY <2>1 DEF Registered, TypeOK
    <3> QED BY <2>1, <3>1, LifeFrame DEF Over, TypeOK
  <2> QED BY <2>2, <2>3, LifeMove DEF Pool!Next, Pool!Finish, Pool!Move
<1> QED
  BY <1>1, <1>2, <1>3, <1>4, <1>5, <1>6, <1>7, <1>8, <1>9, <1>10 DEF Effect

\* The registry implements the abstract pool: every interleaving of callers,
\* promoting threads, cancellers and waiters is a behaviour of RunPool.
THEOREM ImplementsPoolCorrect == Spec => ImplementsPool
<1>1. Init => Pool!Init
  <2> SUFFICES ASSUME Init PROVE \A r \in Reqs : Life[r] = "new"
    BY DEF Pool!Init, Life
  <2> QED
    BY LifecycleInit, LifeValue, ReqsAssumption, RunIdsAssumption
    DEF Init, LifeCases, Registered, Over, Rejected
<1>2. TypeOK /\ TypeOK' /\ Lifecycle /\ Lifecycle' /\ [Next]_vars => [Pool!Next]_Life
  BY NextEffect, PoolEffect
<1> QED
  BY <1>1, <1>2, TypeCorrect, LifecycleCorrect, PTL DEF Spec, ImplementsPool, Pool!Spec

=============================================================================
