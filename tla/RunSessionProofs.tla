-------------------------- MODULE RunSessionProofs --------------------------
(***************************************************************************)
(* Proofs about module RunSession: for every set of run ids, every cap and *)
(* both kinds of transport, a job waits only while every slot is taken,    *)
(* the state of a run is released with it, and a dirty mark is dropped     *)
(* only for a run that carries it.                                         *)
(***************************************************************************)
EXTENDS RunSession, SequenceTheorems, TLAPS

-----------------------------------------------------------------------------
(* Sequences of runs.                                                      *)

(* The range of a sequence are its elements.                               *)
LEMMA ElementsOfRuns ==
  ASSUME NEW s \in Seq(Runs)
  PROVE  /\ \A x : x \in Range(s) <=> \E i \in 1 .. Len(s) : s[i] = x
         /\ Range(s) \subseteq Runs
         /\ DOMAIN s = 1 .. Len(s)
         /\ Len(s) \in Nat
<1>1. Len(s) \in Nat /\ DOMAIN s = 1 .. Len(s)
  OBVIOUS
<1>2. \A i \in 1 .. Len(s) : s[i] \in Runs
  BY ElementOfSeq
<1>3. \A x : x \in Range(s) <=> \E i \in 1 .. Len(s) : s[i] = x
  BY <1>1 DEF Range
<1>4. Range(s) \subseteq Runs
  BY <1>2, <1>3
<1> QED BY <1>1, <1>3, <1>4

(* Only the empty sequence has an empty range.                             *)
LEMMA EmptyRange ==
  ASSUME NEW s \in Seq(Runs)
  PROVE  /\ s = <<>> <=> Range(s) = {}
         /\ s = <<>> <=> Len(s) = 0
<1>1. /\ \A x : x \in Range(s) <=> \E i \in 1 .. Len(s) : s[i] = x
      /\ Len(s) \in Nat
  BY ElementsOfRuns
<1>2. s = <<>> <=> Len(s) = 0
  OBVIOUS
<1>3. Len(s) = 0 => Range(s) = {}
  BY <1>1
<1>4. Len(s) # 0 => s[1] \in Range(s)
  BY <1>1
<1> QED BY <1>2, <1>3, <1>4

(* A run that is appended is new in the range.                             *)
LEMMA AppendRun ==
  ASSUME NEW s \in Seq(Runs), NEW r \in Runs
  PROVE  /\ Append(s, r) \in Seq(Runs)
         /\ Len(Append(s, r)) = Len(s) + 1
         /\ Range(Append(s, r)) = Range(s) \cup {r}
         /\ IsInjective(s) /\ r \notin Range(s) => IsInjective(Append(s, r))
<1> DEFINE t == Append(s, r)
<1>1. /\ t \in Seq(Runs) /\ Len(t) = Len(s) + 1 /\ t[Len(s) + 1] = r
      /\ \A i \in 1 .. Len(s) : t[i] = s[i]
      /\ Len(s) \in Nat
  OBVIOUS
<1> HIDE DEF t
<1>a. /\ DOMAIN t = 1 .. Len(t)
      /\ \A x : x \in Range(t) <=> \E i \in 1 .. Len(t) : t[i] = x
  BY <1>1, ElementsOfRuns
<1>2. /\ DOMAIN t = 1 .. Len(s) + 1 /\ DOMAIN s = 1 .. Len(s)
      /\ \A x : x \in Range(t) <=> \E i \in 1 .. Len(s) + 1 : t[i] = x
      /\ \A x : x \in Range(s) <=> \E i \in 1 .. Len(s) : s[i] = x
  BY <1>1, <1>a, ElementsOfRuns
<1>3. Range(t) = Range(s) \cup {r}
  <2>1. ASSUME NEW x \in Range(t) PROVE x \in Range(s) \cup {r}
    <3>1. PICK i \in 1 .. Len(s) + 1 : x = t[i]
      BY <1>2
    <3>2. i \in 1 .. Len(s) \/ i = Len(s) + 1
      BY <1>1
    <3> QED BY <1>1, <1>2, <3>1, <3>2
  <2>2. ASSUME NEW x \in Range(s) PROVE x \in Range(t)
    <3>1. PICK i \in 1 .. Len(s) : x = s[i]
      BY <1>2
    <3>2. i \in 1 .. Len(s) + 1 /\ t[i] = x
      BY <1>1, <3>1
    <3> QED BY <1>2, <3>2
  <2>3. r \in Range(t)
    BY <1>1, <1>2
  <2> QED BY <2>1, <2>2, <2>3
<1>4. ASSUME IsInjective(s), r \notin Range(s) PROVE IsInjective(t)
  <2>1. SUFFICES ASSUME NEW a \in 1 .. Len(s) + 1, NEW b \in 1 .. Len(s) + 1,
                        t[a] = t[b]
                 PROVE  a = b
    BY <1>2 DEF IsInjective
  <2>2. \A i \in 1 .. Len(s) : t[i] # r
    BY <1>1, <1>2, <1>4
  <2>3. CASE a \in 1 .. Len(s) /\ b \in 1 .. Len(s)
    BY <1>1, <1>2, <1>4, <2>1, <2>3 DEF IsInjective
  <2>4. CASE a = Len(s) + 1
    BY <1>1, <2>1, <2>2, <2>4
  <2>5. CASE b = Len(s) + 1
    BY <1>1, <2>1, <2>2, <2>5
  <2> QED BY <1>1, <2>3, <2>4, <2>5
<1> QED BY <1>1, <1>3, <1>4 DEF t

(* The head leaves a sequence without repetitions.                         *)
LEMMA TailRuns ==
  ASSUME NEW s \in Seq(Runs), s # <<>>, IsInjective(s)
  PROVE  /\ Head(s) \in Range(s)
         /\ Tail(s) \in Seq(Runs)
         /\ Len(Tail(s)) = Len(s) - 1
         /\ Range(Tail(s)) = Range(s) \ {Head(s)}
         /\ IsInjective(Tail(s))
<1> DEFINE t == Tail(s)
           h == Head(s)
           n == Len(s)
<1>1. /\ t \in Seq(Runs) /\ Len(t) = n - 1 /\ h = s[1]
      /\ n \in Nat /\ n > 0
  BY EmptyRange, ElementsOfRuns
<1>2. \A i \in 1 .. n - 1 : t[i] = s[i + 1]
  BY <1>1, HeadTailProperties
<1> HIDE DEF t, h, n
<1>3. /\ DOMAIN t = 1 .. n - 1 /\ DOMAIN s = 1 .. n
      /\ \A x : x \in Range(t) <=> \E i \in 1 .. n - 1 : t[i] = x
      /\ \A x : x \in Range(s) <=> \E i \in 1 .. n : s[i] = x
  BY <1>1, ElementsOfRuns DEF n
<1>4. h \in Range(s)
  BY <1>1, <1>3
<1>5. Range(t) = Range(s) \ {h}
  <2>1. ASSUME NEW x \in Range(t) PROVE x \in Range(s) \ {h}
    <3>1. PICK i \in 1 .. n - 1 : x = t[i]
      BY <1>3
    <3>2. i + 1 \in 1 .. n /\ x = s[i + 1] /\ i + 1 # 1
      BY <1>1, <1>2, <3>1
    <3>3. x # s[1]
      BY <1>1, <1>3, <3>2 DEF IsInjective
    <3> QED BY <1>1, <1>3, <3>2, <3>3
  <2>2. ASSUME NEW x \in Range(s) \ {h} PROVE x \in Range(t)
    <3>1. PICK i \in 1 .. n : x = s[i]
      BY <1>3
    <3>2. i # 1
      BY <1>1, <2>2, <3>1
    <3>3. PICK j \in 1 .. n - 1 : j + 1 = i
      BY <1>1, <3>1, <3>2
    <3> QED BY <1>2, <1>3, <3>1, <3>3
  <2> QED BY <2>1, <2>2
<1>6. IsInjective(t)
  <2>1. SUFFICES ASSUME NEW a \in 1 .. n - 1, NEW b \in 1 .. n - 1,
                        t[a] = t[b]
                 PROVE  a = b
    BY <1>3 DEF IsInjective
  <2>2. a + 1 \in 1 .. n /\ b + 1 \in 1 .. n /\ s[a + 1] = s[b + 1]
    BY <1>1, <1>2, <2>1
  <2>3. a + 1 = b + 1
    BY <1>3, <2>2 DEF IsInjective
  <2> QED BY <2>3
<1> QED BY <1>1, <1>4, <1>5, <1>6 DEF t, h, n

(* The filter removes one run and keeps the others.                        *)
LEMMA WithoutRun ==
  ASSUME NEW s \in Seq(Runs), IsInjective(s), NEW r \in Range(s)
  PROVE  /\ Without(s, r) \in Seq(Runs)
         /\ Len(Without(s, r)) = Len(s) - 1
         /\ Range(Without(s, r)) = Range(s) \ {r}
         /\ IsInjective(Without(s, r))
<1> DEFINE n == Len(s)
           at == CHOOSE i \in DOMAIN s : s[i] = r
           t == Without(s, r)
<1>1. /\ n \in Nat /\ DOMAIN s = 1 .. n
      /\ \A x : x \in Range(s) <=> \E i \in 1 .. n : s[i] = x
      /\ \A i \in 1 .. n : s[i] \in Runs
  BY ElementsOfRuns
<1>2. /\ at \in 1 .. n /\ s[at] = r
  BY <1>1
<1>3. t = [i \in 1 .. n - 1 |-> IF i < at THEN s[i] ELSE s[i + 1]]
  BY DEF Without
<1> HIDE DEF n, at, t
<1>4. n - 1 \in Nat
  BY <1>1, <1>2
<1>5. \A i \in 1 .. n - 1 :
        t[i] = (IF i < at THEN s[i] ELSE s[i + 1]) /\ t[i] \in Runs
  BY <1>1, <1>2, <1>3
<1>6. t \in Seq(Runs) /\ Len(t) = n - 1
  BY <1>3, <1>4, <1>5
<1>7. /\ DOMAIN t = 1 .. n - 1
      /\ \A x : x \in Range(t) <=> \E i \in 1 .. n - 1 : t[i] = x
  BY <1>6, ElementsOfRuns
<1>8. \A i, j \in 1 .. n : s[i] = s[j] => i = j
  BY <1>1 DEF IsInjective
<1>9. Range(t) = Range(s) \ {r}
  <2>1. ASSUME NEW x \in Range(t) PROVE x \in Range(s) \ {r}
    <3>1. PICK i \in 1 .. n - 1 : x = t[i]
      BY <1>7
    <3>2. PICK j \in 1 .. n : j # at /\ x = s[j]
      BY <1>1, <1>2, <1>5, <3>1
    <3> QED BY <1>1, <1>2, <1>8, <3>2
  <2>2. ASSUME NEW x \in Range(s) \ {r} PROVE x \in Range(t)
    <3>1. PICK j \in 1 .. n : x = s[j] /\ j # at
      BY <1>1, <1>2
    <3>2. CASE j < at
      <4>1. j \in 1 .. n - 1 /\ t[j] = s[j]
        BY <1>1, <1>2, <1>5, <3>1, <3>2
      <4> QED BY <1>7, <3>1, <4>1
    <3>3. CASE j > at
      <4>1. PICK k \in 1 .. n - 1 : k + 1 = j
        BY <1>1, <1>2, <3>1, <3>3
      <4>2. t[k] = s[k + 1]
        BY <1>1, <1>2, <1>5, <3>3, <4>1
      <4> QED BY <1>7, <3>1, <4>1, <4>2
    <3> QED BY <1>1, <1>2, <3>1, <3>2, <3>3
  <2> QED BY <2>1, <2>2
<1>10. IsInjective(t)
  <2>1. SUFFICES ASSUME NEW a \in 1 .. n - 1, NEW b \in 1 .. n - 1,
                        t[a] = t[b]
                 PROVE  a = b
    BY <1>7 DEF IsInjective
  <2> DEFINE From(i) == IF i < at THEN i ELSE i + 1
  <2>2. /\ From(a) \in 1 .. n /\ From(b) \in 1 .. n
        /\ t[a] = s[From(a)] /\ t[b] = s[From(b)]
    BY <1>1, <1>2, <1>5
  <2>3. From(a) = From(b)
    BY <1>8, <2>1, <2>2
  <2> QED BY <1>1, <1>2, <2>3
<1> QED BY <1>6, <1>9, <1>10 DEF n, t

(* Two sequences repeat nothing together if neither does and they share    *)
(* nothing.                                                                *)
LEMMA ConcatInjective ==
  ASSUME NEW s \in Seq(Runs), NEW t \in Seq(Runs)
  PROVE  IsInjective(s \o t) <=>
           /\ IsInjective(s) /\ IsInjective(t)
           /\ Range(s) \cap Range(t) = {}
<1> DEFINE u == s \o t
           m == Len(s)
           n == Len(t)
<1>1. /\ u \in Seq(Runs) /\ Len(u) = m + n /\ m \in Nat /\ n \in Nat
      /\ \A i \in 1 .. m : u[i] = s[i]
      /\ \A i \in 1 .. n : u[m + i] = t[i]
  BY ConcatProperties
<1>2. /\ DOMAIN u = 1 .. m + n /\ DOMAIN s = 1 .. m /\ DOMAIN t = 1 .. n
      /\ \A x : x \in Range(s) <=> \E i \in 1 .. m : s[i] = x
      /\ \A x : x \in Range(t) <=> \E i \in 1 .. n : t[i] = x
  BY <1>1, ElementsOfRuns
<1> HIDE DEF u, m, n
<1>3. ASSUME IsInjective(u)
      PROVE  IsInjective(s) /\ IsInjective(t) /\ Range(s) \cap Range(t) = {}
  <2>0. \A i, j \in 1 .. m + n : u[i] = u[j] => i = j
    BY <1>2, <1>3 DEF IsInjective
  <2>1. IsInjective(s)
    BY <1>1, <1>2, <2>0 DEF IsInjective
  <2>2. ASSUME NEW a \in 1 .. n, NEW b \in 1 .. n, t[a] = t[b] PROVE a = b
    <3>1. /\ m + a \in 1 .. m + n /\ m + b \in 1 .. m + n
          /\ u[m + a] = u[m + b]
      BY <1>1, <2>2
    <3>2. m + a = m + b
      BY <2>0, <3>1
    <3> QED BY <1>1, <3>2
  <2>3. ASSUME NEW a \in 1 .. m, NEW b \in 1 .. n, s[a] = t[b] PROVE FALSE
    <3>1. /\ a \in 1 .. m + n /\ m + b \in 1 .. m + n
          /\ u[a] = u[m + b]
      BY <1>1, <2>3
    <3>2. a = m + b
      BY <2>0, <3>1
    <3> QED BY <1>1, <3>2
  <2> QED BY <1>2, <2>1, <2>2, <2>3 DEF IsInjective
<1>4. ASSUME IsInjective(s), IsInjective(t), Range(s) \cap Range(t) = {}
      PROVE  IsInjective(u)
  <2>1. SUFFICES ASSUME NEW a \in 1 .. m + n, NEW b \in 1 .. m + n,
                        u[a] = u[b]
                 PROVE  a = b
    BY <1>2 DEF IsInjective
  <2>2. /\ \A i, j \in 1 .. m : s[i] = s[j] => i = j
        /\ \A i, j \in 1 .. n : t[i] = t[j] => i = j
        /\ \A i \in 1 .. m, j \in 1 .. n : s[i] # t[j]
    BY <1>2, <1>4 DEF IsInjective
  <2>3. \A i \in 1 .. m + n : i \in 1 .. m \/ \E j \in 1 .. n : i = m + j
    BY <1>1
  <2>4. CASE a \in 1 .. m /\ b \in 1 .. m
    BY <1>1, <2>1, <2>2, <2>4
  <2>5. ASSUME NEW i \in 1 .. n, a = m + i, b \in 1 .. m PROVE FALSE
    BY <1>1, <2>1, <2>2, <2>5
  <2>6. ASSUME NEW j \in 1 .. n, b = m + j, a \in 1 .. m PROVE FALSE
    BY <1>1, <2>1, <2>2, <2>6
  <2>7. ASSUME NEW i \in 1 .. n, a = m + i, NEW j \in 1 .. n, b = m + j
        PROVE  a = b
    <3>1. u[m + i] = t[i] /\ u[m + j] = t[j]
      BY <1>1
    <3>2. t[i] = t[j]
      BY <2>1, <2>7, <3>1
    <3> QED BY <2>2, <2>7, <3>2
  <2> QED BY <2>3, <2>4, <2>5, <2>6, <2>7
<1> QED BY <1>3, <1>4 DEF u

-----------------------------------------------------------------------------
(* The inductive invariant.                                                *)

(* NoIdleSlotWithQueue without the concatenation.                          *)
Slots ==
  /\ Len(live) <= MaxConcurrent
  /\ pending # <<>> => Len(live) = MaxConcurrent
  /\ IsInjective(live) /\ IsInjective(pending)
  /\ Range(live) \cap Range(pending) = {}

(* A run that was not started has no transport.                            *)
Known ==
  /\ Range(live) \cup Range(pending) \subseteq used
  /\ \A r \in Runs :
       r \notin used \/ r \in Range(pending) \/ r \in post =>
         transport[r] = "none"

(* A stream that can still bring lines belongs to a live run, and an exit  *)
(* is reported by a stream that brings no more.                            *)
Wired ==
  /\ \A r \in Runs : transport[r] \in {"open", "silent"} => r \in Range(live)
  /\ \A r \in exiting : transport[r] \in {"closing", "dead", "ended"}
  /\ \A r \in Runs : transport[r] = "closing" => WebSocket

(* While a request that clears the dirty nodes is in flight, every node    *)
(* that was dirty before it is in its job and in the jobs behind it.       *)
Carried ==
  \A r \in post :
    clears[r] =>
      /\ stepCache
      /\ dirty \ late \subseteq csv[r]
      /\ \A h \in Range(pending) : dirty \ late \subseteq csv[h]

SessionInv ==
  TypeOK /\ Slots /\ Known /\ PerRunStateReleased /\ Wired /\ Carried

LEMMA SlotsIsNoIdle ==
  ASSUME TypeOK
  PROVE  Slots <=> NoIdleSlotWithQueue
BY ConcatInjective DEF TypeOK, Slots, NoIdleSlotWithQueue

LEMMA SessionInit == Init => SessionInv
<1> SUFFICES ASSUME Init PROVE SessionInv
  OBVIOUS
<1>1. <<>> \in Seq(Runs) /\ Len(<<>>) = 0 /\ Range(<<>>) = {}
  <2>1. <<>> \in Seq(Runs) /\ Len(<<>>) = 0
    OBVIOUS
  <2> QED BY <2>1, EmptyRange
<1>2. IsInjective(<<>>)
  BY DEF IsInjective
<1>3. TypeOK
  BY <1>1 DEF Init, TypeOK, TransportStates
<1>4. Slots
  BY <1>1, <1>2, CapAssumption DEF Init, Slots
<1>5. Known /\ Wired /\ Carried /\ PerRunStateReleased
  BY <1>1 DEF Init, Known, Wired, Carried, PerRunStateReleased
<1> QED BY <1>3, <1>4, <1>5 DEF SessionInv

-----------------------------------------------------------------------------
(* What the store does to live, focused, pending, buffers and post.        *)

(* What every change of the store keeps, gone being the run that leaves.   *)
StoreKeeps(gone) ==
  /\ live' \in Seq(Runs) /\ pending' \in Seq(Runs)
  /\ focused' \in Runs \cup {None} /\ buffers' \subseteq Runs
  /\ post' \subseteq Runs /\ clears' \in [Runs -> BOOLEAN]
  /\ Slots'
  /\ IF live' = <<>> THEN focused' = None ELSE focused' \in Range(live')
  /\ post' \subseteq Range(live') /\ Range(live') \subseteq buffers'
  /\ buffers' \ Range(live') \subseteq buffers \ Range(live)
  /\ Range(live) \ gone \subseteq Range(live')

(* A live run gives up its slot, and the head of the queue takes it.       *)
LEMMA PromoteKeeps ==
  ASSUME SessionInv, NEW r \in Range(live), NEW clear \in BOOLEAN,
         RemoveAndPromote(r, clear)
  PROVE  /\ StoreKeeps({r})
         /\ r \notin Range(live')
         /\ Range(live') \subseteq Range(live) \cup Range(pending)
         /\ Range(pending') \subseteq Range(pending)
         /\ \A h \in post' :
              \/ h \in post /\ clears'[h] = clears[h]
              \/ h \in Range(pending) /\ clears'[h] = clear
<1> DEFINE rest == Without(live, r)
<1>1. /\ live \in Seq(Runs) /\ pending \in Seq(Runs)
      /\ focused \in Runs \cup {None} /\ buffers \subseteq Runs
      /\ post \subseteq Runs /\ clears \in [Runs -> BOOLEAN]
      /\ MaxConcurrent \in Nat /\ MaxConcurrent > 0
      /\ Range(live) \subseteq Runs /\ r \in Runs
      /\ Len(live) \in Nat /\ Len(pending) \in Nat
  BY CapAssumption, ElementsOfRuns DEF SessionInv, TypeOK
<1>2. /\ Len(live) <= MaxConcurrent
      /\ pending # <<>> => Len(live) = MaxConcurrent
      /\ IsInjective(live) /\ IsInjective(pending)
      /\ Range(live) \cap Range(pending) = {}
      /\ post \subseteq Range(live) /\ Range(live) \subseteq buffers
      /\ IF live = <<>> THEN focused = None ELSE focused \in Range(live)
  BY DEF SessionInv, Slots, PerRunStateReleased
<1>3. /\ rest \in Seq(Runs)
      /\ Len(rest) = Len(live) - 1
      /\ Range(rest) = Range(live) \ {r}
      /\ IsInjective(rest)
  BY <1>1, <1>2, WithoutRun
<1>4. IF TakesNext(rest)
        THEN /\ pending' = Tail(pending)
             /\ Launch(Head(pending), rest, {r}, clear)
        ELSE /\ live' = rest
             /\ focused' = PickFocusAfterRemove(rest, focused)
             /\ buffers' = buffers \ {r}
             /\ post' = post \ {r}
             /\ UNCHANGED <<pending, clears>>
  BY DEF RemoveAndPromote
<1> HIDE DEF rest
<1>5. CASE TakesNext(rest)
  <2> DEFINE h == Head(pending)
  <2>1. pending # <<>> /\ Len(live) = MaxConcurrent
    BY <1>2, <1>5 DEF TakesNext
  <2>2. /\ h \in Range(pending) /\ Tail(pending) \in Seq(Runs)
        /\ Range(Tail(pending)) = Range(pending) \ {h}
        /\ IsInjective(Tail(pending))
    BY <1>1, <1>2, <2>1, TailRuns
  <2>3. h \in Runs /\ h \notin Range(live)
    BY <1>1, <1>2, <2>2, ElementsOfRuns
  <2>4. /\ pending' = Tail(pending)
        /\ live' = Append(rest, h)
        /\ focused' = h
        /\ buffers' = (buffers \ {r}) \cup {h}
        /\ post' = (post \ {r}) \cup {h}
        /\ clears' = [clears EXCEPT ![h] = clear]
    BY <1>4, <1>5 DEF Launch
  <2> HIDE DEF h
  <2>5. /\ Append(rest, h) \in Seq(Runs)
        /\ Len(Append(rest, h)) = Len(rest) + 1
        /\ Range(Append(rest, h)) = Range(rest) \cup {h}
        /\ IsInjective(Append(rest, h))
    BY <1>3, <2>3, AppendRun
  <2>6. Len(live') = MaxConcurrent /\ live' # <<>>
    BY <1>1, <1>3, <2>1, <2>4, <2>5, EmptyRange
  <2>7. Slots'
    BY <1>1, <1>2, <1>3, <2>2, <2>3, <2>4, <2>5, <2>6 DEF Slots
  <2>8. StoreKeeps({r})
    BY <1>1, <1>2, <1>3, <2>2, <2>3, <2>4, <2>5, <2>6, <2>7 DEF StoreKeeps
  <2>9. \A q \in post' :
          \/ q \in post /\ clears'[q] = clears[q]
          \/ q \in Range(pending) /\ clears'[q] = clear
    BY <1>1, <1>2, <2>2, <2>3, <2>4
  <2> QED BY <1>3, <2>2, <2>3, <2>4, <2>5, <2>8, <2>9
<1>6. CASE ~TakesNext(rest)
  <2>1. /\ live' = rest /\ focused' = PickFocusAfterRemove(rest, focused)
        /\ buffers' = buffers \ {r} /\ post' = post \ {r}
        /\ pending' = pending /\ clears' = clears
    BY <1>4, <1>6
  <2>2. pending = <<>>
    BY <1>1, <1>2, <1>3, <1>6 DEF TakesNext
  <2>3. IF rest = <<>> THEN focused' = None ELSE focused' \in Range(rest)
    <3>1. CASE focused \in Range(rest)
      BY <1>3, <2>1, <3>1, EmptyRange DEF PickFocusAfterRemove
    <3>2. CASE focused \notin Range(rest) /\ rest # <<>>
      <4>1. Len(rest) \in 1 .. Len(rest) /\ Len(rest) \in Nat
        BY <1>1, <1>3, <3>2, EmptyRange
      <4>2. rest[Len(rest)] \in Range(rest)
        BY <1>3, <4>1, ElementsOfRuns
      <4> QED BY <2>1, <3>2, <4>2 DEF PickFocusAfterRemove, Last
    <3>3. CASE focused \notin Range(rest) /\ rest = <<>>
      BY <2>1, <3>3 DEF PickFocusAfterRemove
    <3> QED BY <3>1, <3>2, <3>3
  <2>4. Slots'
    BY <1>1, <1>2, <1>3, <2>1, <2>2 DEF Slots
  <2>5. focused' \in Runs \cup {None}
    BY <1>1, <1>3, <2>3
  <2>6. StoreKeeps({r})
    BY <1>1, <1>2, <1>3, <2>1, <2>3, <2>4, <2>5 DEF StoreKeeps
  <2> QED BY <1>1, <1>2, <1>3, <2>1, <2>6
<1> QED BY <1>5, <1>6

(* A new run waits for a slot or takes a free one.                         *)
LEMMA RunKeeps ==
  ASSUME SessionInv, NEW r \in Runs \ used, csv' \in [Runs -> SUBSET Nodes],
         Enqueue(r) \/ LaunchNow(r)
  PROVE  /\ StoreKeeps({})
         /\ Range(live') \cup Range(pending')
              = Range(live) \cup Range(pending) \cup {r}
         /\ \/ /\ UNCHANGED <<live, buffers, post, clears>>
               /\ Range(pending') = Range(pending) \cup {r}
            \/ /\ pending' = <<>> /\ post' = post \cup {r}
               /\ clears' = [clears EXCEPT ![r] = csv'[r] # {}]
<1>1. /\ live \in Seq(Runs) /\ pending \in Seq(Runs)
      /\ focused \in Runs \cup {None} /\ buffers \subseteq Runs
      /\ post \subseteq Runs /\ clears \in [Runs -> BOOLEAN]
      /\ MaxConcurrent \in Nat /\ MaxConcurrent > 0
      /\ Range(live) \subseteq Runs /\ Range(pending) \subseteq Runs
      /\ Len(live) \in Nat /\ Len(pending) \in Nat
  BY CapAssumption, ElementsOfRuns DEF SessionInv, TypeOK
<1>2. /\ Len(live) <= MaxConcurrent
      /\ pending # <<>> => Len(live) = MaxConcurrent
      /\ IsInjective(live) /\ IsInjective(pending)
      /\ Range(live) \cap Range(pending) = {}
      /\ post \subseteq Range(live) /\ Range(live) \subseteq buffers
      /\ IF live = <<>> THEN focused = None ELSE focused \in Range(live)
  BY DEF SessionInv, Slots, PerRunStateReleased
<1>3. r \notin Range(live) /\ r \notin Range(pending)
  BY DEF SessionInv, Known
<1>4. CASE Enqueue(r)
  <2>1. /\ pending' = Append(pending, r) /\ live' = live
        /\ focused' = focused /\ buffers' = buffers /\ post' = post
        /\ clears' = clears /\ ~CanStartAnotherLive
    BY <1>4 DEF Enqueue
  <2>2. /\ Append(pending, r) \in Seq(Runs)
        /\ Range(Append(pending, r)) = Range(pending) \cup {r}
        /\ IsInjective(Append(pending, r))
    BY <1>1, <1>2, <1>3, AppendRun
  <2>3. Slots'
    BY <1>1, <1>2, <1>3, <2>1, <2>2 DEF Slots, CanStartAnotherLive
  <2>4. StoreKeeps({})
    BY <1>1, <1>2, <1>3, <2>1, <2>2, <2>3 DEF StoreKeeps
  <2> QED BY <2>1, <2>2, <2>4
<1>5. CASE LaunchNow(r)
  <2>1. /\ CanStartAnotherLive /\ pending' = pending
        /\ live' = Append(live, r) /\ focused' = r
        /\ buffers' = buffers \cup {r} /\ post' = post \cup {r}
        /\ clears' = [clears EXCEPT ![r] = csv'[r] # {}]
    BY <1>5 DEF LaunchNow, Launch
  <2>2. pending = <<>>
    BY <1>1, <1>2, <2>1 DEF CanStartAnotherLive
  <2>3. /\ Append(live, r) \in Seq(Runs)
        /\ Len(Append(live, r)) = Len(live) + 1
        /\ Range(Append(live, r)) = Range(live) \cup {r}
        /\ IsInjective(Append(live, r))
    BY <1>1, <1>2, <1>3, AppendRun
  <2>4. live' # <<>>
    BY <1>1, <2>1, <2>3, EmptyRange
  <2>5. Slots'
    BY <1>1, <1>2, <1>3, <2>1, <2>2, <2>3 DEF Slots, CanStartAnotherLive
  <2>6. StoreKeeps({})
    BY <1>1, <1>2, <1>3, <2>1, <2>3, <2>4, <2>5 DEF StoreKeeps
  <2> QED BY <2>1, <2>2, <2>3, <2>6
<1> QED BY <1>4, <1>5

-----------------------------------------------------------------------------
(* Every step keeps the invariant.                                         *)

(* Steps that leave the store, the requests and the jobs alone.            *)
LEMMA QuietSteps ==
  ASSUME SessionInv,
         \/ Stop \/ ToggleStepCache \/ \E r \in Runs : BrokerStarts(r)
         \/ \E r \in Runs : BrokerExits(r)
  PROVE  SessionInv'
<1>1. CASE Stop
  BY <1>1 DEF Stop, store, marks, SessionInv,
     TypeOK, Slots, Known, PerRunStateReleased, Wired, Carried
<1>2. CASE ToggleStepCache
  <2>1. live = <<>> /\ live' = live
    BY <1>2 DEF ToggleStepCache, Blocking, store
  <2>2. Range(live) = {}
    BY <2>1, EmptyRange DEF SessionInv, TypeOK
  <2>3. post = {}
    BY <2>2 DEF SessionInv, PerRunStateReleased
  <2> QED BY <1>2, <2>3 DEF ToggleStepCache, store, marks, SessionInv,
     TypeOK, Slots, Known, PerRunStateReleased, Wired, Carried
<1>3. ASSUME NEW r \in Runs, BrokerStarts(r) PROVE SessionInv'
  BY <1>3 DEF BrokerStarts, store, marks, SessionInv,
     TypeOK, Slots, Known, PerRunStateReleased, Wired, Carried
<1>4. ASSUME NEW r \in Runs, BrokerExits(r) PROVE SessionInv'
  BY <1>4 DEF BrokerExits, store, marks, SessionInv,
     TypeOK, Slots, Known, PerRunStateReleased, Wired, Carried
<1> QED BY <1>1, <1>2, <1>3, <1>4

LEMMA FocusStep ==
  ASSUME SessionInv, NEW r \in Runs, Focus(r)
  PROVE  SessionInv'
<1>1. r \in Range(live) /\ live # <<>>
  BY EmptyRange DEF Focus, SessionInv, TypeOK
<1> QED BY <1>1 DEF Focus, marks, SessionInv,
     TypeOK, Slots, Known, PerRunStateReleased, Wired, Carried

(* Marks: nothing that was dirty before the requests is added.             *)
LEMMA MarkSteps ==
  ASSUME SessionInv,
         \/ \E n \in Nodes, parents \in SUBSET Nodes : MarkDirty(n, parents)
         \/ \E n \in Nodes : BubbleMark(n)
  PROVE  SessionInv'
<1>1. PICK ns \in SUBSET Nodes : AddStepCacheDirtyIds(ns)
  <2>1. CASE \E n \in Nodes : BubbleMark(n)
    BY <2>1 DEF BubbleMark
  <2>2. CASE \E n \in Nodes, parents \in SUBSET Nodes : MarkDirty(n, parents)
    BY <2>2 DEF MarkDirty
  <2> QED BY <2>1, <2>2
<1>2. /\ UNCHANGED <<used, live, focused, pending, buffers, post, server,
                     transport, exiting, cancel, csv, clears, stepCache>>
      /\ bubble' \subseteq Nodes
  BY DEF MarkDirty, BubbleMark, store, SessionInv, TypeOK
<1>3. /\ dirty' = dirty \cup ns
      /\ late' = IF post = {} THEN late ELSE late \cup (ns \ dirty)
  BY <1>1 DEF AddStepCacheDirtyIds
<1>4. Carried'
  <2>1. CASE post = {}
    BY <1>2, <2>1 DEF Carried
  <2>2. CASE post # {}
    <3>1. dirty' \ late' \subseteq dirty \ late
      BY <1>3, <2>2
    <3> QED BY <1>2, <3>1 DEF SessionInv, Carried
  <2> QED BY <2>1, <2>2
<1>5. TypeOK'
  BY <1>2, <1>3 DEF SessionInv, TypeOK
<1> QED BY <1>2, <1>4, <1>5 DEF SessionInv, Slots, Known, Wired, PerRunStateReleased

(* Run: the job carries every node that is dirty now.                      *)
LEMMA RunStep ==
  ASSUME SessionInv, NEW r \in Runs, Run(r)
  PROVE  SessionInv'
<1>1. /\ r \in Runs \ used /\ used' = used \cup {r}
      /\ csv' = [csv EXCEPT ![r] = IF stepCache THEN dirty ELSE {}]
      /\ Enqueue(r) \/ LaunchNow(r)
      /\ UNCHANGED <<server, transport, exiting, cancel, dirty, bubble, late,
                     stepCache>>
  BY DEF Run, marks
<1>2. TypeOK /\ Slots /\ Known /\ PerRunStateReleased /\ Wired /\ Carried
  BY DEF SessionInv
<1>3. csv' \in [Runs -> SUBSET Nodes]
  BY <1>1, <1>2 DEF TypeOK
<1>4. /\ StoreKeeps({})
      /\ Range(live') \cup Range(pending')
           = Range(live) \cup Range(pending) \cup {r}
      /\ \/ /\ UNCHANGED <<live, buffers, post, clears>>
            /\ Range(pending') = Range(pending) \cup {r}
         \/ /\ pending' = <<>> /\ post' = post \cup {r}
            /\ clears' = [clears EXCEPT ![r] = csv'[r] # {}]
  BY <1>1, <1>3, RunKeeps
<1>5. TypeOK'
  BY <1>1, <1>2, <1>3, <1>4 DEF TypeOK, StoreKeeps
<1>6. Slots'
  BY <1>4 DEF StoreKeeps
<1>7. Known'
  <2>1. post' \subseteq post \cup {r} /\ transport[r] = "none"
    BY <1>1, <1>2, <1>4 DEF Known
  <2>2. Range(live') \cup Range(pending') \subseteq used'
    BY <1>1, <1>2, <1>4 DEF Known
  <2>3. Range(pending') \subseteq Range(pending) \cup {r}
    <3>1. CASE pending' = <<>>
      BY <1>5, <3>1, EmptyRange DEF TypeOK
    <3> QED BY <1>4, <3>1
  <2> QED BY <1>1, <1>2, <2>1, <2>2, <2>3 DEF Known
<1>8. PerRunStateReleased'
  BY <1>1, <1>2, <1>4 DEF PerRunStateReleased, StoreKeeps
<1>9. Wired'
  BY <1>1, <1>2, <1>4 DEF Wired, StoreKeeps
<1>10. Carried'
  <2>1. r \notin post /\ r \notin Range(pending)
    BY <1>1, <1>2 DEF Known, PerRunStateReleased
  <2>2. \A q \in Runs \ {r} : csv'[q] = csv[q]
    BY <1>1, <1>2 DEF TypeOK
  <2>3. csv'[r] = IF stepCache THEN dirty ELSE {}
    BY <1>1, <1>2 DEF TypeOK
  <2>4. CASE /\ UNCHANGED <<live, buffers, post, clears>>
             /\ Range(pending') = Range(pending) \cup {r}
    <3> SUFFICES ASSUME NEW q \in post', clears'[q]
                 PROVE  /\ stepCache'
                        /\ dirty' \ late' \subseteq csv'[q]
                        /\ \A h \in Range(pending)' : dirty' \ late' \subseteq csv'[h]
      BY DEF Carried
    <3>1. /\ stepCache /\ dirty \ late \subseteq csv[q] /\ q \in Runs \ {r}
          /\ \A h \in Range(pending) : h \in Runs /\ dirty \ late \subseteq csv[h]
      BY <1>2, <2>1, <2>4, ElementsOfRuns DEF Carried, TypeOK
    <3> QED BY <1>1, <2>1, <2>2, <2>3, <2>4, <3>1
  <2>5. CASE /\ pending' = <<>> /\ post' = post \cup {r}
             /\ clears' = [clears EXCEPT ![r] = csv'[r] # {}]
    <3>1. Range(pending') = {}
      BY <1>5, <2>5, EmptyRange DEF TypeOK
    <3> SUFFICES ASSUME NEW q \in post', clears'[q]
                 PROVE  /\ stepCache'
                        /\ dirty' \ late' \subseteq csv'[q]
      BY <3>1 DEF Carried
    <3>2. CASE q = r
      BY <1>1, <1>2, <2>3, <2>5, <3>2 DEF TypeOK
    <3>3. CASE q # r
      BY <1>1, <1>2, <2>2, <2>5, <3>3 DEF TypeOK, Carried
    <3> QED BY <3>2, <3>3
  <2> QED BY <1>4, <2>4, <2>5
<1> QED BY <1>5, <1>6, <1>7, <1>8, <1>9, <1>10 DEF SessionInv

(* The request is answered: the run has a stream.                          *)
LEMMA StartOkStep ==
  ASSUME SessionInv, NEW r \in Runs, StartOk(r)
  PROVE  SessionInv'
<1>1. /\ r \in post /\ post' = post \ {r}
      /\ transport' = [transport EXCEPT ![r] = "open"]
      /\ IF clears[r]
           THEN dirty' = {} /\ late' = {}
           ELSE UNCHANGED <<dirty, late>>
      /\ csv' = [csv EXCEPT ![r] = {}]
      /\ clears' = [clears EXCEPT ![r] = FALSE]
      /\ UNCHANGED <<used, live, focused, pending, buffers, server, exiting,
                     cancel, bubble, stepCache>>
  BY DEF StartOk, store
<1>2. TypeOK /\ Slots /\ Known /\ PerRunStateReleased /\ Wired /\ Carried
  BY DEF SessionInv
<1>3. r \in Range(live) /\ r \notin Range(pending) /\ r \in used
      /\ transport[r] = "none"
  BY <1>1, <1>2 DEF PerRunStateReleased, Slots, Known
<1>4. TypeOK'
  BY <1>1, <1>2 DEF TypeOK, TransportStates
<1>5. Slots' /\ Known'
  BY <1>1, <1>2, <1>3 DEF TypeOK, Slots, Known
<1>6. PerRunStateReleased'
  BY <1>1, <1>2, <1>3 DEF TypeOK, PerRunStateReleased
<1>7. Wired'
  BY <1>1, <1>2, <1>3 DEF TypeOK, Wired
<1>8. Carried'
  <2>1. dirty' \ late' \subseteq dirty \ late
    BY <1>1
  <2>2. \A q \in Runs \ {r} : csv'[q] = csv[q] /\ clears'[q] = clears[q]
    BY <1>1, <1>2 DEF TypeOK
  <2>3. \A h \in Range(pending) : h \in Runs \ {r}
    BY <1>2, <1>3, ElementsOfRuns DEF TypeOK
  <2> QED BY <1>1, <1>2, <2>1, <2>2, <2>3 DEF TypeOK, Carried
<1> QED BY <1>4, <1>5, <1>6, <1>7, <1>8 DEF SessionInv

(* The request failed: the run is removed, and the next one carries on.    *)
LEMMA StartFailedStep ==
  ASSUME SessionInv, NEW r \in Runs, StartFailed(r)
  PROVE  SessionInv'
<1>1. TypeOK /\ Slots /\ Known /\ PerRunStateReleased /\ Wired /\ Carried
  BY DEF SessionInv
<1>2. r \in post /\ r \in Range(live) /\ r \notin Range(pending)
      /\ transport[r] = "none" /\ clears[r] \in BOOLEAN
  BY <1>1 DEF StartFailed, PerRunStateReleased, Known, Slots, TypeOK
<1>3. /\ RemoveAndPromote(r, clears[r])
      /\ csv' = [csv EXCEPT ![r] = {}]
      /\ UNCHANGED <<used, server, transport, exiting, cancel, dirty, bubble,
                     late, stepCache>>
  BY <1>2 DEF StartFailed, marks
<1>4. /\ StoreKeeps({r}) /\ r \notin Range(live')
      /\ Range(live') \subseteq Range(live) \cup Range(pending)
      /\ Range(pending') \subseteq Range(pending)
      /\ \A h \in post' :
           \/ h \in post /\ clears'[h] = clears[h]
           \/ h \in Range(pending) /\ clears'[h] = clears[r]
  BY <1>2, <1>3, PromoteKeeps
<1>5. TypeOK'
  BY <1>1, <1>3, <1>4 DEF TypeOK, StoreKeeps
<1>6. Slots'
  BY <1>4 DEF StoreKeeps
<1>7. Known'
  BY <1>1, <1>3, <1>4 DEF Known
<1>8. PerRunStateReleased'
  BY <1>1, <1>3, <1>4 DEF PerRunStateReleased, StoreKeeps
<1>9. Wired'
  BY <1>1, <1>2, <1>3, <1>4 DEF Wired, StoreKeeps
<1>10. Carried'
  <2>1. \A q \in Runs \ {r} : csv'[q] = csv[q]
    BY <1>1, <1>3 DEF TypeOK
  <2>2. \A h \in Range(pending) : h \in Runs \ {r}
    BY <1>1, <1>2, ElementsOfRuns DEF TypeOK
  <2>3. r \notin post'
    BY <1>4 DEF StoreKeeps
  <2> SUFFICES ASSUME NEW q \in post', clears'[q]
               PROVE  /\ stepCache'
                      /\ dirty' \ late' \subseteq csv'[q]
                      /\ \A h \in Range(pending)' : dirty' \ late' \subseteq csv'[h]
    BY DEF Carried
  <2>4. CASE q \in post /\ clears'[q] = clears[q]
    <3>1. q \in Runs \ {r}
      BY <1>1, <2>3, <2>4 DEF TypeOK
    <3> QED BY <1>1, <1>3, <1>4, <2>1, <2>2, <2>4, <3>1 DEF Carried
  <2>5. CASE q \in Range(pending) /\ clears'[q] = clears[r]
    BY <1>1, <1>2, <1>3, <1>4, <2>1, <2>2, <2>5 DEF Carried
  <2> QED BY <1>4, <2>4, <2>5
<1> QED BY <1>5, <1>6, <1>7, <1>8, <1>9, <1>10 DEF SessionInv

(* An exit is processed: the next job starts without clearing the marks.   *)
LEMMA ExitProcessedStep ==
  ASSUME SessionInv, NEW r \in Runs, ExitProcessed(r)
  PROVE  SessionInv'
<1>1. TypeOK /\ Slots /\ Known /\ PerRunStateReleased /\ Wired /\ Carried
  BY DEF SessionInv
<1>2. /\ r \in exiting /\ exiting' = exiting \ {r}
      /\ UNCHANGED <<used, server, transport, cancel, csv, dirty, bubble, late,
                     stepCache>>
      /\ transport[r] \notin {"open", "silent"}
  BY <1>1 DEF ExitProcessed, marks, Wired
<1>3. CASE r \in Range(live)
  <2>1. RemoveAndPromote(r, FALSE)
    BY <1>3 DEF ExitProcessed, ClearsAfterExit
  <2>2. /\ StoreKeeps({r}) /\ r \notin Range(live')
        /\ Range(live') \subseteq Range(live) \cup Range(pending)
        /\ Range(pending') \subseteq Range(pending)
        /\ \A h \in post' :
             \/ h \in post /\ clears'[h] = clears[h]
             \/ h \in Range(pending) /\ clears'[h] = FALSE
    BY <1>3, <2>1, PromoteKeeps
  <2>3. TypeOK'
    BY <1>1, <1>2, <2>2 DEF TypeOK, StoreKeeps
  <2>4. Slots'
    BY <2>2 DEF StoreKeeps
  <2>5. Known'
    BY <1>1, <1>2, <2>2 DEF Known
  <2>6. PerRunStateReleased'
    BY <1>1, <1>2, <2>2 DEF PerRunStateReleased, StoreKeeps
  <2>7. Wired'
    BY <1>1, <1>2, <2>2 DEF Wired, StoreKeeps
  <2>8. Carried'
    BY <1>1, <1>2, <2>2 DEF Carried
  <2> QED BY <2>3, <2>4, <2>5, <2>6, <2>7, <2>8 DEF SessionInv
<1>4. CASE r \notin Range(live)
  <2>1. UNCHANGED <<live, focused, pending, buffers, post, clears>>
    BY <1>4 DEF ExitProcessed, store
  <2> QED BY <1>1, <1>2, <2>1 DEF SessionInv, TypeOK, Slots, Known,
           PerRunStateReleased, Wired, Carried
<1> QED BY <1>3, <1>4

(* What a stream reports while it is attached.                             *)
LEMMA StreamSteps ==
  ASSUME SessionInv, NEW r \in Runs,
         Line(r) \/ FallsSilent(r) \/ ExitFrame(r) \/ Exhausted(r)
  PROVE  SessionInv'
<1>1. TypeOK /\ Slots /\ Known /\ PerRunStateReleased /\ Wired /\ Carried
  BY DEF SessionInv
<1>2. CASE Line(r)
  BY <1>1, <1>2 DEF Line, marks, SessionInv, TypeOK, Slots, Known,
     PerRunStateReleased, Wired, Carried
<1>3. CASE ExitFrame(r)
  BY <1>1, <1>3 DEF ExitFrame, store, marks, SessionInv, TypeOK, Slots,
     Known, PerRunStateReleased, Wired, Carried, TransportStates
<1>4. CASE Exhausted(r)
  <2>1. /\ transport[r] \in {"open", "silent", "closing"}
        /\ transport' = [transport EXCEPT ![r] = transport'[r]]
        /\ transport'[r] \in {"closing", "dead"}
        /\ transport'[r] = "closing" => WebSocket
        /\ transport[r] = "closing" => transport'[r] = "dead"
    BY <1>1, <1>4 DEF Exhausted, TypeOK
  <2>2. /\ buffers' = buffers \cup {r} /\ exiting' = exiting \cup {r}
        /\ UNCHANGED <<used, live, focused, pending, post, server, cancel, csv,
                       clears, dirty, bubble, late, stepCache>>
    BY <1>4 DEF Exhausted, marks
  <2>3. TypeOK'
    BY <1>1, <2>1, <2>2 DEF TypeOK, TransportStates
  <2>4. Slots' /\ Carried'
    BY <1>1, <2>2 DEF Slots, Carried
  <2>5. Known'
    BY <1>1, <2>1, <2>2 DEF TypeOK, Known
  <2>6. PerRunStateReleased'
    BY <1>1, <2>1, <2>2 DEF TypeOK, PerRunStateReleased, Wired
  <2>7. Wired'
    BY <1>1, <2>1, <2>2 DEF TypeOK, Wired
  <2> QED BY <2>3, <2>4, <2>5, <2>6, <2>7 DEF SessionInv
<1>5. CASE FallsSilent(r)
  BY <1>1, <1>5 DEF FallsSilent, store, marks, SessionInv, TypeOK, Slots,
     Known, PerRunStateReleased, Wired, Carried, TransportStates
<1> QED BY <1>2, <1>3, <1>4, <1>5

(* A stream that is closed reports nothing more.                           *)
LEMMA CloseSteps ==
  ASSUME SessionInv,
         \/ \E r \in Runs : CancelAnswered(r)
         \/ \E r \in Runs : Sweep(r)
         \/ LeaveEditor
  PROVE  SessionInv'
<1>1. TypeOK /\ Slots /\ Known /\ PerRunStateReleased /\ Wired /\ Carried
  BY DEF SessionInv
<1>2. PICK rs \in SUBSET Runs : CloseStreams(rs)
  BY DEF CancelAnswered, Sweep, LeaveEditor
<1>3. /\ UNCHANGED <<used, live, focused, pending, buffers, post, server,
                     exiting, csv, clears, dirty, bubble, late, stepCache>>
      /\ cancel' \subseteq Runs
  BY <1>1 DEF CancelAnswered, Sweep, LeaveEditor, store, marks, TypeOK
<1>4. /\ transport' \in [Runs -> TransportStates]
      /\ \A r \in Runs :
           \/ transport'[r] = transport[r]
           \/ transport[r] \in {"open", "silent"} /\ transport'[r] = "cut"
           \/ transport[r] \in {"closing", "dead", "ended"}
              /\ transport'[r] = "ended"
  BY <1>1, <1>2 DEF CloseStreams, TypeOK, TransportStates
<1>5. TypeOK' /\ Slots' /\ Carried'
  BY <1>1, <1>3, <1>4 DEF TypeOK, Slots, Carried
<1>6. Known'
  BY <1>1, <1>3, <1>4 DEF Known
<1>7. PerRunStateReleased'
  BY <1>1, <1>3, <1>4 DEF PerRunStateReleased, TypeOK
<1>8. Wired'
  BY <1>1, <1>3, <1>4 DEF Wired, TypeOK
<1> QED BY <1>5, <1>6, <1>7, <1>8 DEF SessionInv

LEMMA CancelFailedStep ==
  ASSUME SessionInv, NEW r \in Runs, CancelFailed(r)
  PROVE  SessionInv'
<1>1. TypeOK /\ Slots /\ Known /\ PerRunStateReleased /\ Wired /\ Carried
  BY DEF SessionInv
<1>2. focused # None => focused \in Range(live) /\ focused \in Runs
  BY <1>1, EmptyRange DEF TypeOK, PerRunStateReleased
<1>3. buffers' = buffers
  BY <1>1, <1>2 DEF CancelFailed, PerRunStateReleased
<1> QED BY <1>1, <1>3 DEF CancelFailed, marks, SessionInv, TypeOK, Slots,
         Known, PerRunStateReleased, Wired, Carried

LEMMA SessionStep == SessionInv /\ [Next]_vars => SessionInv'
<1> SUFFICES ASSUME SessionInv, [Next]_vars PROVE SessionInv'
  OBVIOUS
<1>1. CASE UNCHANGED vars
  BY <1>1 DEF vars, SessionInv, TypeOK, Slots, Known, PerRunStateReleased,
     Wired, Carried
<1>2. CASE Next
  BY <1>2, QuietSteps, FocusStep, MarkSteps, RunStep, StartOkStep,
     StartFailedStep, ExitProcessedStep, StreamSteps, CloseSteps,
     CancelFailedStep DEF Next
<1> QED BY <1>1, <1>2

LEMMA SessionInvariant == Spec => []SessionInv
BY SessionInit, SessionStep, PTL DEF Spec

-----------------------------------------------------------------------------
(* The state of the session is well typed.                                 *)
THEOREM SessionTypeCorrect == Spec => []TypeOK
<1>1. SessionInv => TypeOK
  BY DEF SessionInv
<1> QED BY <1>1, SessionInvariant, PTL

(* runSessionStore.ts: a job waits only while every slot is taken, and no  *)
(* run is live or pending twice.                                           *)
THEOREM SessionNoIdleSlot == Spec => []NoIdleSlotWithQueue
<1>1. SessionInv => NoIdleSlotWithQueue
  BY SlotsIsNoIdle DEF SessionInv
<1> QED BY <1>1, SessionInvariant, PTL

(* runSessionStore.ts: the focus, the requests and the consoles of the     *)
(* session are those of its live runs.                                     *)
THEOREM SessionStateReleased == Spec => []PerRunStateReleased
<1>1. SessionInv => PerRunStateReleased
  BY DEF SessionInv
<1> QED BY <1>1, SessionInvariant, PTL

(* stepCacheDirtyStore.ts: a mark leaves the store only for a run that     *)
(* carries it, unless it arrived while the request was in flight.          *)
THEOREM SessionDirtyReachesRun == Spec => DirtyReachesRun
<1> DEFINE Reached ==
      \A n \in dirty \ dirty' :
        n \in late \/ \E r \in post \ post' : n \in csv[r]
<1>1. SessionInv /\ [Next]_vars => [Reached]_vars
  <2> SUFFICES ASSUME SessionInv, Next PROVE Reached
    OBVIOUS
  <2>1. ASSUME NEW r \in Runs, StartOk(r) PROVE Reached
    <3>1. r \in post \ post'
      BY <2>1 DEF StartOk
    <3>2. CASE clears[r]
      BY <2>1, <3>1, <3>2 DEF SessionInv, Carried
    <3>3. CASE ~clears[r]
      BY <2>1, <3>3 DEF StartOk
    <3> QED BY <3>2, <3>3
  <2>2. CASE ~\E r \in Runs : StartOk(r)
    <3>1. dirty \subseteq dirty'
      BY <2>2 DEF Next, Run, Stop, Focus, ToggleStepCache, MarkDirty, BubbleMark,
         AddStepCacheDirtyIds, BrokerStarts, StartFailed, BrokerExits, Line,
         FallsSilent, ExitFrame, Exhausted, ExitProcessed, CancelAnswered, CancelFailed,
         Sweep, LeaveEditor, marks
    <3> QED BY <3>1
  <2> QED BY <2>1, <2>2
<1> QED BY <1>1, SessionInvariant, PTL DEF Spec, DirtyReachesRun

=============================================================================
