-------------------------- MODULE RunStreamProofs --------------------------
(***************************************************************************)
(* Proofs about RunStream, for any number of clients, any output of the    *)
(* worker, any depth of the subscriber queues and any size of the ring.    *)
(***************************************************************************)
EXTENDS RunStream, FiniteSetTheorems, WellFoundedInduction, TLAPS

-----------------------------------------------------------------------------
\* Smallest and largest numbers.

LEMMA LessThan == OpToRel(<, Nat) = {ss \in Nat \X Nat : ss[1] < ss[2]}
BY DEF OpToRel

LEMMA SmallestNumber ==
  ASSUME NEW T, T \subseteq Nat, T # {}
  PROVE  \E m \in T : \A n \in T : m <= n
<1> DEFINE R == OpToRel(<, Nat)
<1>1. IsWellFoundedOn(R, Nat)
  BY NatLessThanWellFounded
<1>2. \A m, n \in Nat : n < m => <<n, m>> \in R
  <2>1. ASSUME NEW m \in Nat, NEW n \in Nat, n < m PROVE <<n, m>> \in R
    <3>1. <<n, m>> \in {ss \in Nat \X Nat : ss[1] < ss[2]}
      BY <2>1
    <3> QED BY <3>1, LessThan
  <2> QED BY <2>1
<1> HIDE DEF R
<1>3. PICK m \in T : \A n \in T : <<n, m>> \notin R
  BY <1>1, WFMin
<1>4. ASSUME NEW n \in T PROVE m <= n
  <2>1. m \in Nat /\ n \in Nat
    OBVIOUS
  <2>2. ~(n < m)
    BY <1>2, <1>3, <2>1
  <2> QED BY <2>1, <2>2
<1> QED BY <1>4

\* The Max of a nonempty set of numbers that has an upper bound.
LEMMA MaxOfBounded ==
  ASSUME NEW S, S \subseteq Nat, S # {}, NEW b \in Nat, \A x \in S : x <= b
  PROVE  Max(S) \in S /\ \A x \in S : x <= Max(S)
<1> DEFINE T == {u \in Nat : \A x \in S : x <= u}
<1>1. PICK m \in T : \A u \in T : m <= u
  BY SmallestNumber
<1>2. m \in S
  <2> SUFFICES ASSUME m \notin S PROVE FALSE
    OBVIOUS
  <2>1. \A x \in S : x < m
    BY <1>1
  <2>2. m - 1 \in Nat
    <3>1. PICK x \in S : TRUE
      OBVIOUS
    <3>2. x \in Nat /\ x < m /\ m \in Nat
      BY <2>1
    <3> QED BY <3>2
  <2>3. \A x \in S : x <= m - 1
    BY <2>1
  <2>4. m - 1 \in T
    BY <2>2, <2>3
  <2> QED BY <1>1, <2>4
<1>3. \E x \in S : \A y \in S : x >= y
  BY <1>1, <1>2
<1> QED BY <1>3 DEF Max

LEMMA MaxOfTwo ==
  ASSUME NEW a \in Int, NEW b \in Int
  PROVE  /\ Max({a, b}) \in {a, b} /\ Max({a, b}) >= a /\ Max({a, b}) >= b
<1>1. \E x \in {a, b} : \A y \in {a, b} : x >= y
  OBVIOUS
<1> QED BY <1>1 DEF Max

-----------------------------------------------------------------------------
(***************************************************************************)
(* FiledAfter picks the messages of the ring with a later key, all of them *)
(* and in their order.  kept is a recursive function: that there is one is *)
(* shown by the smallest number of messages for which there would be none. *)
(***************************************************************************)
Kept(s, key, n, f) ==
  f = [i \in 0..n |-> IF i = 0 THEN <<>>
                      ELSE IF s[i].key > key THEN Append(f[i - 1], s[i]) ELSE f[i - 1]]

LEMMA KeptExists ==
  ASSUME NEW s, NEW key, NEW n \in Nat
  PROVE  \E f : Kept(s, key, n, f)
<1> DEFINE T == {k \in Nat : ~\E f : Kept(s, key, k, f)}
<1> SUFFICES ASSUME T # {} PROVE FALSE
  OBVIOUS
<1>1. PICK m \in T : \A k \in T : m <= k
  BY SmallestNumber
<1>2. m # 0
  <2>1. ASSUME m = 0 PROVE Kept(s, key, m, [i \in 0..0 |-> <<>>])
    BY <2>1 DEF Kept
  <2> QED BY <2>1
<1>3. m - 1 \in Nat /\ m - 1 \notin T
  BY <1>1, <1>2
<1>4. PICK f : Kept(s, key, m - 1, f)
  BY <1>3
<1> DEFINE g == [i \in 0..m |-> IF i < m THEN f[i]
                                ELSE IF s[m].key > key THEN Append(f[m - 1], s[m]) ELSE f[m - 1]]
           h == [i \in 0..m |-> IF i = 0 THEN <<>>
                                ELSE IF s[i].key > key THEN Append(g[i - 1], s[i]) ELSE g[i - 1]]
<1>5. \A i \in 0..(m - 1) : f[i] = IF i = 0 THEN <<>>
                                   ELSE IF s[i].key > key THEN Append(f[i - 1], s[i]) ELSE f[i - 1]
  BY <1>3, <1>4 DEF Kept
<1>6. ASSUME NEW i \in 0..m PROVE g[i] = h[i]
  <2>1. CASE i = 0
    BY <2>1, <1>2, <1>3, <1>5
  <2>2. CASE i # 0 /\ i < m
    <3>1. i - 1 \in 0..m /\ i - 1 < m /\ i \in 0..(m - 1)
      BY <2>2, <1>3
    <3>2. g[i - 1] = f[i - 1] /\ g[i] = f[i]
      BY <3>1, <2>2
    <3> QED BY <2>2, <3>1, <3>2, <1>5
  <2>3. CASE i = m
    <3>1. i - 1 \in 0..m /\ i - 1 < m
      BY <2>3, <1>3
    <3>2. g[i - 1] = f[i - 1]
      BY <3>1
    <3> QED BY <2>3, <3>2, <1>2
  <2> QED BY <1>3, <2>1, <2>2, <2>3
<1>7. g = h
  BY <1>6
<1> HIDE DEF g
<1>8. Kept(s, key, m, g)
  BY <1>7 DEF Kept
<1> QED BY <1>8

\* The messages of t are those of s up to n with a key later than key.
Picked(t, s, key, n) ==
  /\ \A k \in 1..Len(t) : \E i \in 1..n : t[k] = s[i]
  /\ \A i \in 1..n : s[i].key > key => \E k \in 1..Len(t) : t[k] = s[i]
  /\ \A k, l \in 1..Len(t) : k < l => \E i, j \in 1..n : i < j /\ t[k] = s[i] /\ t[l] = s[j]

LEMMA KeptPicks ==
  ASSUME NEW S, NEW s \in Seq(S), NEW key, NEW f, Kept(s, key, Len(s), f)
  PROVE  f[Len(s)] \in Seq(S) /\ Picked(f[Len(s)], s, key, Len(s))
<1> DEFINE Good(n) == f[n] \in Seq(S) /\ Picked(f[n], s, key, n)
           T == {n \in 0..Len(s) : ~Good(n)}
<1>1. Len(s) \in Nat
  OBVIOUS
<1> SUFFICES ASSUME T # {} PROVE FALSE
  BY <1>1
<1>2. T \subseteq Nat
  BY <1>1
<1>3. PICK m \in T : \A k \in T : m <= k
  BY <1>2, SmallestNumber
<1>4. \A i \in 0..Len(s) : f[i] = IF i = 0 THEN <<>>
                                  ELSE IF s[i].key > key THEN Append(f[i - 1], s[i]) ELSE f[i - 1]
  BY <1>1 DEF Kept
<1>5. m # 0
  <2>1. f[0] = <<>>
    BY <1>1, <1>4
  <2>2. Good(0)
    BY <2>1 DEF Picked
  <2> QED BY <2>2
<1>6. m \in 1..Len(s) /\ m - 1 \in 0..Len(s) /\ m - 1 \notin T
  BY <1>1, <1>3, <1>5
<1> DEFINE r == f[m - 1]
           t == f[m]
<1>7. r \in Seq(S) /\ Picked(r, s, key, m - 1)
  BY <1>6
<1>8. t = IF s[m].key > key THEN Append(r, s[m]) ELSE r
  BY <1>4, <1>5, <1>6
<1>9. ~(t \in Seq(S) /\ Picked(t, s, key, m))
  OBVIOUS
<1> HIDE DEF r, t, Good, T
<1>10. CASE ~(s[m].key > key)
  <2>1. t = r
    BY <1>8, <1>10
  <2>2. Picked(t, s, key, m)
    <3>1. \A i \in 1..m : i \in 1..(m - 1) \/ i = m
      BY <1>6
    <3>2. \A i \in 1..(m - 1) : i \in 1..m
      BY <1>6
    <3> QED BY <2>1, <3>1, <3>2, <1>7, <1>10 DEF Picked
  <2> QED BY <1>7, <1>9, <2>1, <2>2
<1>11. CASE s[m].key > key
  <2>1. /\ s[m] \in S /\ t = Append(r, s[m]) /\ t \in Seq(S) /\ Len(r) \in Nat
        /\ Len(t) = Len(r) + 1 /\ t[Len(t)] = s[m]
        /\ \A k \in 1..Len(r) : t[k] = r[k]
    BY <1>6, <1>7, <1>8, <1>11
  <2>2. \A k \in 1..Len(t) : \E i \in 1..m : t[k] = s[i]
    <3>1. ASSUME NEW k \in 1..Len(t) PROVE \E i \in 1..m : t[k] = s[i]
      <4>1. CASE k = Len(t)
        BY <4>1, <2>1, <1>6
      <4>2. CASE k \in 1..Len(r)
        <5>1. PICK i \in 1..(m - 1) : r[k] = s[i]
          BY <4>2, <1>7 DEF Picked
        <5>2. i \in 1..m
          BY <1>6
        <5> QED BY <5>1, <5>2, <4>2, <2>1
      <4> QED BY <2>1, <4>1, <4>2
    <3> QED BY <3>1
  <2>3. ASSUME NEW i \in 1..m, s[i].key > key PROVE \E k \in 1..Len(t) : t[k] = s[i]
    <3>1. CASE i = m
      <4>1. Len(t) \in 1..Len(t)
        BY <2>1
      <4> QED BY <3>1, <4>1, <2>1
    <3>2. CASE i # m
      <4>1. i \in 1..(m - 1)
        BY <3>2, <1>6
      <4>2. PICK k \in 1..Len(r) : r[k] = s[i]
        BY <4>1, <2>3, <1>7 DEF Picked
      <4>3. k \in 1..Len(t)
        BY <2>1
      <4> QED BY <4>2, <4>3, <2>1
    <3> QED BY <3>1, <3>2
  <2>4. ASSUME NEW k \in 1..Len(t), NEW l \in 1..Len(t), k < l
        PROVE  \E i, j \in 1..m : i < j /\ t[k] = s[i] /\ t[l] = s[j]
    <3>1. k \in 1..Len(r)
      BY <2>1, <2>4
    <3>2. CASE l \in 1..Len(r)
      <4>1. PICK i, j \in 1..(m - 1) : i < j /\ r[k] = s[i] /\ r[l] = s[j]
        BY <3>1, <3>2, <2>4, <1>7 DEF Picked
      <4>2. i \in 1..m /\ j \in 1..m
        BY <1>6
      <4> QED BY <3>1, <3>2, <4>1, <4>2, <2>1
    <3>3. CASE l = Len(t)
      <4>1. PICK i \in 1..(m - 1) : r[k] = s[i]
        BY <3>1, <1>7 DEF Picked
      <4>2. i \in 1..m /\ m \in 1..m /\ i < m
        BY <1>6
      <4> QED BY <3>1, <3>3, <4>1, <4>2, <2>1
    <3> QED BY <2>1, <3>2, <3>3
  <2> QED BY <1>9, <2>1, <2>2, <2>3, <2>4 DEF Picked
<1> QED BY <1>10, <1>11

LEMMA FiledAfterFacts ==
  ASSUME replay \in Seq(Msg), NEW key
  PROVE  FiledAfter(key) \in Seq(Msg) /\ Picked(FiledAfter(key), replay, key, Len(replay))
<1> DEFINE f == CHOOSE kept : Kept(replay, key, Len(replay), kept)
<1>1. Len(replay) \in Nat
  OBVIOUS
<1>2. Kept(replay, key, Len(replay), f)
  BY <1>1, KeptExists
<1>3. FiledAfter(key) = f[Len(replay)]
  BY DEF FiledAfter, Kept
<1> HIDE DEF f
<1> QED BY <1>2, <1>3, KeptPicks

-----------------------------------------------------------------------------
(***************************************************************************)
(* What a message knows of the numbers: a numbered one carries the class   *)
(* that was issued under its number and is filed under it, another one is  *)
(* of a class that gets none.                                              *)
(***************************************************************************)
Fine(m, seqs) ==
  /\ m.seq \in 0..Len(seqs) /\ m.key \in 0..Len(seqs)
  /\ m.seq = 0 => m.class \notin Stamped
  /\ m.seq # 0 => m.key = m.seq /\ m.class = seqs[m.seq]

AllFine(s) == \A i \in 1..Len(s) : Fine(s[i], issued)

StreamInv ==
  /\ \A t \in Threads : Fine(msg[t], issued)
  /\ AllFine(replay)
  /\ \A c \in Conns : AllFine(queue[c]) /\ AllFine(got[c])
  /\ evicted <= Len(issued)
  /\ \A t \in Threads, c \in Conns : stage[<<t, c>>] # "none" => pc[t] = "sending"

LEMMA FineLonger ==
  ASSUME NEW seqs \in Seq(Stamped), NEW class \in Stamped, NEW m \in Msg, Fine(m, seqs)
  PROVE  Fine(m, Append(seqs, class))
<1>1. /\ Len(Append(seqs, class)) = Len(seqs) + 1 /\ Len(seqs) \in Nat
      /\ \A q \in 1..Len(seqs) : Append(seqs, class)[q] = seqs[q]
  OBVIOUS
<1>2. m.seq \in Nat /\ m.key \in Nat
  BY DEF Msg
<1>3. m.seq # 0 => m.seq \in 1..Len(seqs)
  BY <1>1, <1>2 DEF Fine
<1> QED BY <1>1, <1>2, <1>3 DEF Fine

LEMMA LinesType ==
  ASSUME NEW p \in Pumps
  PROVE  /\ Lines[p] \in Seq({"event", "finished", "chunk", "text", "err"})
         /\ p = "err" => Lines[p] \in Seq({"err"})
         /\ p = "out" => Lines[p] = OutLines
<1>1. CASE p = "out"
  BY <1>1, LinesAssumption DEF Lines
<1>2. CASE p = "err"
  BY <1>2, LinesAssumption DEF Lines
<1> QED BY <1>1, <1>2 DEF Pumps

LEMMA NoMsgType == NoMsg \in Msg /\ NoMsg.class = "text" /\ NoMsg.seq = 0 /\ NoMsg.key = 0
BY DEF NoMsg, Msg, Classes, Stamped, Droppable

\* The number and the key of a message, and what is issued.
LEMMA StampFacts ==
  ASSUME TypeOK, NEW t \in Threads, NEW class \in Classes, Stamp(t, class)
  PROVE  /\ pc[t] = "idle" /\ pc' = [pc EXCEPT ![t] = "stamped"]
         /\ issued' \in Seq(Stamped) /\ Len(issued') \in Nat
         /\ msg'[t] \in Msg /\ msg' \in [Threads -> Msg]
         /\ \A u \in Threads : u # t => msg'[u] = msg[u]
         /\ msg'[t].class = class /\ msg'[t].key = Len(issued')
         /\ class \notin Stamped => issued' = issued /\ msg'[t].seq = 0
         /\ class \in Stamped => /\ issued' = Append(issued, class)
                                 /\ Len(issued') = Len(issued) + 1
                                 /\ msg'[t].seq = Len(issued')
         /\ UNCHANGED <<replay, evicted>>
<1> DEFINE n == Len(issued) + (IF class \in Stamped THEN 1 ELSE 0)
           m == [class |-> class, key |-> n, seq |-> IF class \in Stamped THEN n ELSE 0]
<1>1. /\ issued \in Seq(Stamped) /\ Len(issued) \in Nat /\ n \in Nat
      /\ pc \in [Threads -> {"idle", "stamped", "recorded", "sending", "eof"}]
      /\ msg \in [Threads -> Msg]
  BY DEF TypeOK
<1>2. m \in Msg
  BY <1>1 DEF Msg
<1>3. /\ pc[t] = "idle" /\ pc' = [pc EXCEPT ![t] = "stamped"]
      /\ issued' = IF class \in Stamped THEN Append(issued, class) ELSE issued
      /\ msg' = [msg EXCEPT ![t] = m] /\ UNCHANGED <<replay, evicted>>
  BY DEF Stamp
<1>4. /\ issued' \in Seq(Stamped) /\ Len(issued') = n
      /\ class \in Stamped => issued' = Append(issued, class) /\ n = Len(issued) + 1
      /\ class \notin Stamped => issued' = issued /\ n = Len(issued)
  BY <1>1, <1>3
<1>5. m.class = class /\ m.key = n /\ m.seq = IF class \in Stamped THEN n ELSE 0
  OBVIOUS
<1> HIDE DEF m, n
<1>6. /\ msg'[t] = m /\ msg' \in [Threads -> Msg]
      /\ \A u \in Threads : u # t => msg'[u] = msg[u]
  BY <1>1, <1>2, <1>3
<1> QED BY <1>1, <1>2, <1>3, <1>4, <1>5, <1>6

\* The ring and the messages that fall out of it.
LEMMA RecordFacts ==
  ASSUME TypeOK, StreamInv, NEW t \in Threads, Record(t)
  PROVE  LET all == Append(replay, msg[t])
         IN  /\ all \in Seq(Msg) /\ Len(all) = Len(replay) + 1 /\ Len(replay) \in Nat
             /\ \A i \in 1..Len(all) : Fine(all[i], issued)
             /\ \E out \in 0..Len(all) :
                  /\ replay' \in Seq(Msg) /\ Len(replay') = Len(all) - out
                  /\ Len(replay') <= ReplaySize
                  /\ \A i \in 1..Len(replay') : replay'[i] = all[i + out]
                  /\ \A i \in 1..out : all[i].seq <= evicted'
             /\ evicted' \in Nat /\ evicted <= evicted' /\ evicted' <= Len(issued)
<1> DEFINE all == Append(replay, msg[t])
           out == Max({0, Len(all) - ReplaySize})
           S == {evicted} \cup {all[i].seq : i \in 1..out}
<1>1. /\ replay \in Seq(Msg) /\ msg[t] \in Msg /\ ReplaySize \in Nat /\ evicted \in Nat
      /\ issued \in Seq(Stamped) /\ Len(issued) \in Nat
  BY SizesAssumption DEF TypeOK
<1>2. /\ all \in Seq(Msg) /\ Len(all) = Len(replay) + 1 /\ Len(replay) \in Nat
      /\ Len(all) \in Nat
  BY <1>1
<1>3. \A i \in 1..Len(all) : Fine(all[i], issued)
  <2>1. \A i \in 1..Len(replay) : all[i] = replay[i]
    BY <1>1
  <2>2. all[Len(replay) + 1] = msg[t]
    BY <1>1
  <2>3. Fine(msg[t], issued) /\ \A i \in 1..Len(replay) : Fine(replay[i], issued)
    BY DEF StreamInv, AllFine
  <2>4. \A i \in 1..Len(all) : i \in 1..Len(replay) \/ i = Len(replay) + 1
    BY <1>2
  <2> HIDE DEF all
  <2> QED BY <2>1, <2>2, <2>3, <2>4
<1>4. replay' = SubSeq(all, out + 1, Len(all)) /\ evicted' = Max(S)
  BY DEF Record
<1> HIDE DEF all
<1>5. out \in 0..Len(all) /\ Len(all) - out <= ReplaySize
  <2> DEFINE d == Len(all) - ReplaySize
  <2>1. d \in Int
    BY <1>1, <1>2
  <2>2. out \in {0, d} /\ out >= 0 /\ out >= d
    <3> HIDE DEF d
    <3>0. 0 \in Int
      OBVIOUS
    <3>1. Max({0, d}) \in {0, d} /\ Max({0, d}) >= 0 /\ Max({0, d}) >= d
      BY <2>1, <3>0, MaxOfTwo, Zenon
    <3> QED BY <3>1 DEF d
  <2> HIDE DEF out
  <2> QED BY <1>1, <1>2, <2>2
<1> HIDE DEF out
<1>6. /\ replay' \in Seq(Msg) /\ Len(replay') = Len(all) - out
      /\ \A i \in 1..Len(replay') : replay'[i] = all[i + out]
  BY <1>2, <1>4, <1>5
<1>7. evicted' \in S /\ \A x \in S : x <= evicted'
  <2>1. ASSUME NEW x \in S PROVE x \in Nat /\ x <= Len(issued)
    <3>1. CASE x = evicted
      BY <3>1, <1>1 DEF StreamInv
    <3>2. ASSUME NEW i \in 1..out, x = all[i].seq PROVE x \in Nat /\ x <= Len(issued)
      <4>1. i \in 1..Len(all)
        BY <1>2, <1>5
      <4> QED BY <3>2, <4>1, <1>1, <1>3 DEF Fine
    <3> QED BY <3>1, <3>2
  <2>2. S # {} /\ S \subseteq Nat
    BY <2>1
  <2> HIDE DEF S
  <2> QED BY <1>1, <1>4, <2>1, <2>2, MaxOfBounded
<1>8. evicted' \in Nat /\ evicted' <= Len(issued)
  <2>1. ASSUME NEW i \in 1..out, evicted' = all[i].seq
        PROVE  evicted' \in Nat /\ evicted' <= Len(issued)
    <3>1. i \in 1..Len(all)
      BY <1>2, <1>5
    <3> QED BY <2>1, <3>1, <1>1, <1>3 DEF Fine
  <2> QED BY <2>1, <1>1, <1>7 DEF StreamInv
<1>9. evicted <= evicted' /\ \A i \in 1..out : all[i].seq <= evicted'
  BY <1>7
<1> QED BY <1>2, <1>3, <1>5, <1>6, <1>8, <1>9 DEF all

-----------------------------------------------------------------------------
\* The types.

LEMMA InitType == Init => TypeOK
<1> SUFFICES ASSUME Init PROVE TypeOK
  OBVIOUS
<1>1. /\ stage \in [Threads \X Conns -> {"none", "put", "dropped", "warning"}]
      /\ owed \in [Threads \X Conns -> Nat]
  BY DEF Init
<1>2. /\ replay \in Seq(Msg) /\ issued \in Seq(Stamped) /\ Len(replay) = 0
      /\ queue \in [Conns -> Seq(Msg)] /\ got \in [Conns -> Seq(Msg)]
      /\ \A c \in Conns : Len(queue[c]) = 0
  BY DEF Init
<1>3. msg \in [Threads -> Msg]
  BY NoMsgType DEF Init
<1>4. next \in [Pumps -> Nat \ {0}]
  BY DEF Init
<1>5. pc \in [Threads -> {"idle", "stamped", "recorded", "sending", "eof"}]
  BY DEF Init
<1>6. warned \in [Conns -> BOOLEAN] /\ timedOut \in BOOLEAN /\ saw \in BOOLEAN
  BY DEF Init
<1>7. /\ dropped \in [Conns -> Nat] /\ told \in [Conns -> Nat] /\ base \in [Conns -> Nat]
      /\ conn \in [Conns -> {"idle", "live", "ended", "gone", "ghost"}]
      /\ drops \in Nat /\ evicted \in Nat
      /\ waiter \in {"join", "lost", "losing", "exit", "exiting", "pop", "done"}
  BY DEF Init
<1>8. Len(replay) <= ReplaySize /\ \A c \in Conns : Len(queue[c]) <= Depth
  BY <1>2, SizesAssumption
<1> QED BY <1>1, <1>2, <1>3, <1>4, <1>5, <1>6, <1>7, <1>8 DEF TypeOK

LEMMA ReadLine ==
  ASSUME TypeOK, NEW p \in Pumps, Read(p)
  PROVE  /\ Lines[p][next[p]] \in {"event", "finished", "chunk", "text", "err"}
         /\ p = "err" => Lines[p][next[p]] = "err"
         /\ Lines[p][next[p]] \in Classes
         /\ next' \in [Pumps -> Nat \ {0}]
<1>1. next[p] \in Nat \ {0} /\ next \in [Pumps -> Nat \ {0}]
  BY DEF TypeOK
<1>2. next[p] <= Len(Lines[p]) /\ next' = [next EXCEPT ![p] = @ + 1]
  BY DEF Read
<1>3. next[p] + 1 \in Nat \ {0}
  BY <1>1
<1>4. next' \in [Pumps -> Nat \ {0}]
  BY <1>1, <1>2, <1>3
<1>5. /\ Lines[p] \in Seq({"event", "finished", "chunk", "text", "err"})
      /\ p = "err" => Lines[p] \in Seq({"err"})
  BY LinesType
<1>6. /\ Lines[p][next[p]] \in {"event", "finished", "chunk", "text", "err"}
      /\ p = "err" => Lines[p][next[p]] \in {"err"}
  BY <1>1, <1>2, <1>5
<1> QED BY <1>4, <1>6 DEF Classes, Stamped, Droppable

\* Messages without a number are fine whatever was issued.
LEMMA NumberlessFine ==
  ASSUME NEW seqs \in Seq(Stamped)
  PROVE  /\ Fine(NoMsg, seqs)
         /\ [NoMsg EXCEPT !.class = "warn"] \in Msg
         /\ [NoMsg EXCEPT !.class = "warn"].class = "warn"
         /\ [NoMsg EXCEPT !.class = "warn"].seq = 0
         /\ Fine([NoMsg EXCEPT !.class = "warn"], seqs)
BY DEF Fine, NoMsg, Msg, Classes, Stamped, Droppable

\* A message put into a queue or sent to a client.
LEMMA AppendFacts ==
  ASSUME NEW S, NEW s \in Seq(S), NEW m \in S
  PROVE  /\ Append(s, m) \in Seq(S) /\ Len(Append(s, m)) = Len(s) + 1 /\ Len(s) \in Nat
         /\ Append(s, m)[Len(s) + 1] = m
         /\ \A i \in 1..Len(s) : Append(s, m)[i] = s[i]
         /\ \A i \in 1..Len(Append(s, m)) : i \in 1..Len(s) \/ i = Len(s) + 1
OBVIOUS

LEMMA TailFacts ==
  ASSUME NEW S, NEW s \in Seq(S), s # <<>>
  PROVE  /\ Tail(s) \in Seq(S) /\ Len(Tail(s)) = Len(s) - 1 /\ Len(s) \in Nat \ {0}
         /\ Head(s) = s[1] /\ Head(s) \in S
         /\ \A i \in 1..Len(Tail(s)) : Tail(s)[i] = s[i + 1] /\ i + 1 \in 1..Len(s)
OBVIOUS

LEMMA StampStep ==
  ASSUME TypeOK, StreamInv, NEW t \in Threads, NEW class \in Classes, Stamp(t, class),
         UNCHANGED <<stage, queue, got>>
  PROVE  /\ issued' \in Seq(Stamped) /\ msg' \in [Threads -> Msg]
         /\ pc' \in [Threads -> {"idle", "stamped", "recorded", "sending", "eof"}]
         /\ StreamInv'
<1> DEFINE F == issued'
<1>1. /\ issued \in Seq(Stamped) /\ Len(issued) \in Nat /\ evicted \in Nat
      /\ pc \in [Threads -> {"idle", "stamped", "recorded", "sending", "eof"}]
      /\ msg \in [Threads -> Msg] /\ replay \in Seq(Msg)
      /\ queue \in [Conns -> Seq(Msg)] /\ got \in [Conns -> Seq(Msg)]
  BY DEF TypeOK
<1>2. /\ pc[t] = "idle" /\ pc' = [pc EXCEPT ![t] = "stamped"]
      /\ issued' \in Seq(Stamped) /\ Len(issued') \in Nat
      /\ msg'[t] \in Msg /\ msg' \in [Threads -> Msg]
      /\ \A u \in Threads : u # t => msg'[u] = msg[u]
      /\ msg'[t].class = class /\ msg'[t].key = Len(issued')
      /\ class \notin Stamped => issued' = issued /\ msg'[t].seq = 0
      /\ class \in Stamped => /\ issued' = Append(issued, class)
                              /\ Len(issued') = Len(issued) + 1
                              /\ msg'[t].seq = Len(issued')
      /\ UNCHANGED <<replay, evicted>>
  BY StampFacts
<1>3. pc' \in [Threads -> {"idle", "stamped", "recorded", "sending", "eof"}]
  BY <1>1, <1>2
<1>4. ASSUME NEW m \in Msg, Fine(m, issued) PROVE Fine(m, issued')
  <2>1. CASE class \in Stamped
    BY <2>1, <1>1, <1>2, <1>4, FineLonger
  <2>2. CASE class \notin Stamped
    BY <2>2, <1>2, <1>4
  <2> QED BY <2>1, <2>2
<1>5. Fine(msg'[t], issued')
  <2>1. CASE class \in Stamped
    <3>1. /\ msg'[t].seq = Len(issued') /\ Len(issued') = Len(issued) + 1
          /\ issued' = Append(issued, class) /\ msg'[t].key = Len(issued')
          /\ msg'[t].class = class
      BY <2>1, <1>2
    <3>2. issued'[Len(issued')] = class
      BY <2>1, <3>1, <1>1
    <3>3. Len(issued') # 0 /\ Len(issued') \in 0..Len(issued')
      BY <3>1, <1>1, <1>2
    <3> QED BY <3>1, <3>2, <3>3 DEF Fine
  <2>2. CASE class \notin Stamped
    BY <2>2, <1>2 DEF Fine
  <2> QED BY <2>1, <2>2
<1>6. StreamInv'
  <2>1. \A u \in Threads : Fine(msg'[u], issued')
    <3>1. ASSUME NEW u \in Threads PROVE Fine(msg'[u], issued')
      <4>1. CASE u = t
        BY <4>1, <1>5
      <4>2. CASE u # t
        <5>1. msg[u] \in Msg /\ Fine(msg[u], issued) /\ msg'[u] = msg[u]
          BY <4>2, <1>1, <1>2 DEF StreamInv
        <5> QED BY <5>1, <1>4
      <4> QED BY <4>1, <4>2
    <3> QED BY <3>1
  <2>2. ASSUME NEW s \in Seq(Msg), AllFine(s) PROVE \A i \in 1..Len(s) : Fine(s[i], issued')
    <3>1. ASSUME NEW i \in 1..Len(s) PROVE Fine(s[i], issued')
      <4>1. s[i] \in Msg
        OBVIOUS
      <4>2. Fine(s[i], issued)
        BY <2>2 DEF AllFine
      <4> QED BY <4>1, <4>2, <1>4
    <3> QED BY <3>1
  <2>3. \A i \in 1..Len(replay') : Fine(replay'[i], issued')
    <3>1. AllFine(replay) /\ replay' = replay /\ replay \in Seq(Msg)
      BY <1>1, <1>2 DEF StreamInv
    <3> QED BY <3>1, <2>2
  <2>4. ASSUME NEW c \in Conns
        PROVE  /\ \A i \in 1..Len(queue'[c]) : Fine(queue'[c][i], issued')
               /\ \A i \in 1..Len(got'[c]) : Fine(got'[c][i], issued')
    <3>1. /\ AllFine(queue[c]) /\ queue'[c] = queue[c] /\ queue[c] \in Seq(Msg)
          /\ AllFine(got[c]) /\ got'[c] = got[c] /\ got[c] \in Seq(Msg)
      BY <1>1 DEF StreamInv
    <3> QED BY <3>1, <2>2
  <2>5. evicted' <= Len(issued')
    <3>1. Len(issued) <= Len(issued') /\ evicted <= Len(issued) /\ evicted' = evicted
      <4>1. class \in Stamped \/ class \notin Stamped
        OBVIOUS
      <4> QED BY <4>1, <1>1, <1>2 DEF StreamInv
    <3> QED BY <3>1, <1>1, <1>2
  <2>6. \A u \in Threads, c \in Conns : stage'[<<u, c>>] # "none" => pc'[u] = "sending"
    <3>1. \A u \in Threads, c \in Conns : stage[<<u, c>>] # "none" => pc[u] = "sending"
      BY DEF StreamInv
    <3>2. \A u \in Threads : pc[u] = "sending" => pc'[u] = "sending"
      BY <1>1, <1>2
    <3> QED BY <3>1, <3>2
  <2> QED BY <2>1, <2>3, <2>4, <2>5, <2>6 DEF StreamInv, AllFine
<1> QED BY <1>2, <1>3, <1>6

\* What the types and StreamInv say, in the form the steps use it.
LEMMA TypeFacts ==
  ASSUME TypeOK
  PROVE  /\ issued \in Seq(Stamped) /\ Len(issued) \in Nat /\ evicted \in Nat
         /\ pc \in [Threads -> {"idle", "stamped", "recorded", "sending", "eof"}]
         /\ msg \in [Threads -> Msg] /\ replay \in Seq(Msg) /\ Len(replay) \in Nat
         /\ stage \in [Threads \X Conns -> {"none", "put", "dropped", "warning"}]
         /\ owed \in [Threads \X Conns -> Nat]
         /\ queue \in [Conns -> Seq(Msg)] /\ got \in [Conns -> Seq(Msg)]
         /\ \A c \in Conns : Len(queue[c]) \in Nat /\ Len(got[c]) \in Nat
         /\ conn \in [Conns -> {"idle", "live", "ended", "gone", "ghost"}]
         /\ base \in [Conns -> Nat]
         /\ dropped \in [Conns -> Nat] /\ told \in [Conns -> Nat] /\ drops \in Nat
         /\ Depth \in Nat \ {0}
BY SizesAssumption DEF TypeOK

LEMMA RecordType ==
  ASSUME TypeOK, StreamInv, NEW t \in Threads, Record(t)
  PROVE  TypeOK' /\ StreamInv'
<1> DEFINE all == Append(replay, msg[t])
<1>1. /\ all \in Seq(Msg) /\ Len(all) = Len(replay) + 1 /\ Len(replay) \in Nat
      /\ \A i \in 1..Len(all) : Fine(all[i], issued)
      /\ \E out \in 0..Len(all) :
           /\ replay' \in Seq(Msg) /\ Len(replay') = Len(all) - out
           /\ Len(replay') <= ReplaySize
           /\ \A i \in 1..Len(replay') : replay'[i] = all[i + out]
           /\ \A i \in 1..out : all[i].seq <= evicted'
      /\ evicted' \in Nat /\ evicted <= evicted' /\ evicted' <= Len(issued)
  BY RecordFacts
<1> HIDE DEF all
<1>2. PICK out \in 0..Len(all) :
           /\ replay' \in Seq(Msg) /\ Len(replay') = Len(all) - out
           /\ Len(replay') <= ReplaySize
           /\ \A i \in 1..Len(replay') : replay'[i] = all[i + out]
  BY <1>1
<1>3. /\ pc[t] = "stamped" /\ pc' = [pc EXCEPT ![t] = "recorded"]
      /\ UNCHANGED <<next, waiting, issued, msg, delivery, slot, client>>
  BY DEF Record
<1>4. pc' \in [Threads -> {"idle", "stamped", "recorded", "sending", "eof"}]
  BY <1>3, TypeFacts
<1>5. TypeOK'
  BY <1>1, <1>2, <1>3, <1>4 DEF TypeOK, waiting, delivery, slot, client
<1>6. \A i \in 1..Len(replay') : Fine(replay'[i], issued)
  <2>1. ASSUME NEW i \in 1..Len(replay') PROVE Fine(replay'[i], issued)
    <3>1. i + out \in 1..Len(all)
      BY <1>1, <1>2
    <3> QED BY <3>1, <1>1, <1>2
  <2> QED BY <2>1
<1>7. \A u \in Threads, c \in Conns : stage[<<u, c>>] # "none" => pc'[u] = "sending"
  BY <1>3, TypeFacts DEF StreamInv
<1> QED BY <1>1, <1>3, <1>5, <1>6, <1>7 DEF StreamInv, AllFine, delivery, slot, client

LEMMA FanoutType ==
  ASSUME TypeOK, StreamInv, NEW t \in Threads, Fanout(t)
  PROVE  TypeOK' /\ StreamInv'
<1>1. /\ pc[t] = "recorded" /\ pc' = [pc EXCEPT ![t] = "sending"]
      /\ stage' = [e \in Threads \X Conns |->
                     IF e[1] = t /\ e[2] \in Subs THEN "put" ELSE stage[e]]
      /\ UNCHANGED <<next, waiting, ring, msg, owed, slot, client>>
  BY DEF Fanout
<1>2. /\ pc' \in [Threads -> {"idle", "stamped", "recorded", "sending", "eof"}]
      /\ stage' \in [Threads \X Conns -> {"none", "put", "dropped", "warning"}]
  BY <1>1, TypeFacts
<1>3. TypeOK'
  BY <1>1, <1>2 DEF TypeOK, waiting, ring, slot, client
<1>4. \A u \in Threads, c \in Conns : stage'[<<u, c>>] # "none" => pc'[u] = "sending"
  BY <1>1, TypeFacts DEF StreamInv
<1> QED BY <1>1, <1>3, <1>4 DEF StreamInv, AllFine, ring, slot, client

LEMMA DeliveryType ==
  ASSUME TypeOK, StreamInv, NEW t \in Threads, NEW c \in Conns,
         Deliver(t, c) \/ Drop(t, c) \/ TakeDrops(t, c) \/ Warn(t, c)
  PROVE  TypeOK' /\ StreamInv'
<1>1. ASSUME NEW m \in Msg, Fine(m, issued), Put(c, m), HasRoom(c)
      PROVE  /\ queue' \in [Conns -> Seq(Msg)]
             /\ \A d \in Conns : Len(queue'[d]) <= Depth
             /\ \A d \in Conns : \A i \in 1..Len(queue'[d]) : Fine(queue'[d][i], issued)
  <2>1. queue' = [queue EXCEPT ![c] = Append(queue[c], m)] /\ queue[c] \in Seq(Msg)
    BY <1>1, TypeFacts DEF Put
  <2>2. /\ Append(queue[c], m) \in Seq(Msg) /\ Len(Append(queue[c], m)) = Len(queue[c]) + 1
        /\ Append(queue[c], m)[Len(queue[c]) + 1] = m
        /\ \A i \in 1..Len(queue[c]) : Append(queue[c], m)[i] = queue[c][i]
        /\ \A i \in 1..Len(Append(queue[c], m)) : i \in 1..Len(queue[c]) \/ i = Len(queue[c]) + 1
    BY <2>1, AppendFacts
  <2>3. Len(queue[c]) + 1 <= Depth
    BY <1>1, TypeFacts DEF HasRoom
  <2>4. \A i \in 1..Len(Append(queue[c], m)) : Fine(Append(queue[c], m)[i], issued)
    <3>1. \A i \in 1..Len(queue[c]) : Fine(queue[c][i], issued)
      BY DEF StreamInv, AllFine
    <3> QED BY <2>2, <3>1, <1>1
  <2>5. /\ queue'[c] = Append(queue[c], m)
        /\ \A d \in Conns : d # c => queue'[d] = queue[d]
        /\ queue' \in [Conns -> Seq(Msg)]
    BY <2>1, <2>2, TypeFacts
  <2>6. \A d \in Conns : Len(queue[d]) <= Depth /\ \A i \in 1..Len(queue[d]) : Fine(queue[d][i], issued)
    BY DEF StreamInv, AllFine, TypeOK
  <2> QED BY <2>2, <2>3, <2>4, <2>5, <2>6
<1>2. ASSUME NEW to \in {"none", "put", "dropped", "warning"}, SetStage(t, c, to), pc' = pc,
             stage[<<t, c>>] # "none"
      PROVE  /\ stage' \in [Threads \X Conns -> {"none", "put", "dropped", "warning"}]
             /\ \A u \in Threads, d \in Conns : stage'[<<u, d>>] # "none" => pc'[u] = "sending"
  <2>1. /\ stage' = [stage EXCEPT ![<<t, c>>] = to] /\ pc[t] = "sending"
        /\ \A u \in Threads, d \in Conns : stage[<<u, d>>] # "none" => pc[u] = "sending"
    BY <1>2 DEF StreamInv, SetStage
  <2> QED BY <1>2, <2>1, TypeFacts
<1>3. CASE Deliver(t, c)
  <2>1. /\ stage[<<t, c>>] = "put" /\ HasRoom(c) /\ Put(c, msg[t]) /\ SetStage(t, c, "none")
        /\ UNCHANGED <<next, waiting, ring, thread, owed, dropped, warned, drops, told, client>>
    BY <1>3 DEF Deliver
  <2>2. msg[t] \in Msg /\ Fine(msg[t], issued)
    BY TypeFacts DEF StreamInv
  <2>3. /\ queue' \in [Conns -> Seq(Msg)]
        /\ \A d \in Conns : Len(queue'[d]) <= Depth
        /\ \A d \in Conns : \A i \in 1..Len(queue'[d]) : Fine(queue'[d][i], issued)
    BY <1>1, <2>1, <2>2
  <2>4. /\ stage' \in [Threads \X Conns -> {"none", "put", "dropped", "warning"}]
        /\ \A u \in Threads, d \in Conns : stage'[<<u, d>>] # "none" => pc'[u] = "sending"
    BY <1>2, <2>1 DEF thread
  <2> QED BY <2>1, <2>3, <2>4 DEF TypeOK, StreamInv, AllFine, waiting, ring, thread, client
<1>4. CASE Drop(t, c)
  <2>1. /\ stage[<<t, c>>] = "put" /\ SetStage(t, c, "dropped")
        /\ drops' = drops + 1 /\ dropped' = [dropped EXCEPT ![c] = @ + 1]
        /\ UNCHANGED <<next, waiting, ring, thread, owed, queue, warned, told, client>>
    BY <1>4 DEF Drop
  <2>2. /\ stage' \in [Threads \X Conns -> {"none", "put", "dropped", "warning"}]
        /\ \A u \in Threads, d \in Conns : stage'[<<u, d>>] # "none" => pc'[u] = "sending"
    BY <1>2, <2>1 DEF thread
  <2>3. drops' \in Nat /\ dropped' \in [Conns -> Nat]
    BY <2>1, TypeFacts
  <2> QED BY <2>1, <2>2, <2>3 DEF TypeOK, StreamInv, AllFine, waiting, ring, thread, client
<1>5. CASE TakeDrops(t, c)
  <2>1. /\ stage[<<t, c>>] = "dropped"
        /\ UNCHANGED <<next, waiting, ring, thread, queue, drops, told, client>>
    BY <1>5 DEF TakeDrops
  <2>2. CASE SetStage(t, c, "none") /\ UNCHANGED <<owed, dropped, warned>>
    <3>1. /\ stage' \in [Threads \X Conns -> {"none", "put", "dropped", "warning"}]
          /\ \A u \in Threads, d \in Conns : stage'[<<u, d>>] # "none" => pc'[u] = "sending"
      BY <1>2, <2>1, <2>2 DEF thread
    <3> QED BY <2>1, <2>2, <3>1 DEF TypeOK, StreamInv, AllFine, waiting, ring, thread, client
  <2>3. CASE /\ owed' = [owed EXCEPT ![<<t, c>>] = dropped[c]]
             /\ dropped' = [dropped EXCEPT ![c] = 0]
             /\ warned' = [warned EXCEPT ![c] = TRUE]
             /\ SetStage(t, c, "warning")
    <3>1. /\ stage' \in [Threads \X Conns -> {"none", "put", "dropped", "warning"}]
          /\ \A u \in Threads, d \in Conns : stage'[<<u, d>>] # "none" => pc'[u] = "sending"
      BY <1>2, <2>1, <2>3 DEF thread
    <3>2. owed' \in [Threads \X Conns -> Nat] /\ dropped' \in [Conns -> Nat]
      BY <2>3, TypeFacts
    <3>3. warned' \in [Conns -> BOOLEAN]
      BY <2>3 DEF TypeOK
    <3> QED BY <2>1, <3>1, <3>2, <3>3 DEF TypeOK, StreamInv, AllFine, waiting, ring, thread, client
  <2> QED BY <1>5, <2>2, <2>3 DEF TakeDrops
<1>6. CASE Warn(t, c)
  <2>1. /\ stage[<<t, c>>] = "warning" /\ SetStage(t, c, "none")
        /\ owed' = [owed EXCEPT ![<<t, c>>] = 0]
        /\ UNCHANGED <<next, waiting, ring, thread, drops, client>>
    BY <1>6 DEF Warn
  <2>2. /\ stage' \in [Threads \X Conns -> {"none", "put", "dropped", "warning"}]
        /\ \A u \in Threads, d \in Conns : stage'[<<u, d>>] # "none" => pc'[u] = "sending"
    BY <1>2, <2>1 DEF thread
  <2>3. owed' \in [Threads \X Conns -> Nat] /\ owed[<<t, c>>] \in Nat
    BY <2>1, TypeFacts
  <2>4. CASE /\ HasRoom(c) /\ Put(c, [NoMsg EXCEPT !.class = "warn"])
             /\ told' = [told EXCEPT ![c] = @ + owed[<<t, c>>]]
             /\ UNCHANGED <<dropped, warned>>
    <3>1. /\ [NoMsg EXCEPT !.class = "warn"] \in Msg
          /\ Fine([NoMsg EXCEPT !.class = "warn"], issued)
      BY TypeFacts, NumberlessFine
    <3>2. /\ queue' \in [Conns -> Seq(Msg)]
          /\ \A d \in Conns : Len(queue'[d]) <= Depth
          /\ \A d \in Conns : \A i \in 1..Len(queue'[d]) : Fine(queue'[d][i], issued)
      BY <1>1, <2>4, <3>1
    <3>3. told' \in [Conns -> Nat]
      BY <2>3, <2>4, TypeFacts
    <3> QED BY <2>1, <2>2, <2>3, <2>4, <3>2, <3>3
            DEF TypeOK, StreamInv, AllFine, waiting, ring, thread, client
  <2>5. CASE /\ dropped' = [dropped EXCEPT ![c] = @ + owed[<<t, c>>]]
             /\ warned' = [warned EXCEPT ![c] = FALSE]
             /\ UNCHANGED <<queue, told>>
    <3>1. dropped' \in [Conns -> Nat]
      BY <2>3, <2>5, TypeFacts
    <3>2. warned' \in [Conns -> BOOLEAN]
      BY <2>5 DEF TypeOK
    <3> QED BY <2>1, <2>2, <2>3, <2>5, <3>1, <3>2
            DEF TypeOK, StreamInv, AllFine, waiting, ring, thread, client
  <2> QED BY <1>6, <2>4, <2>5 DEF Warn
<1> QED BY <1>3, <1>4, <1>5, <1>6


LEMMA PumpType ==
  ASSUME TypeOK, StreamInv, NEW p \in Pumps, Read(p) \/ PumpReturn(p) \/ Eof(p)
  PROVE  TypeOK' /\ StreamInv'
<1> p \in Threads
  BY DEF Threads
<1>1. CASE Read(p)
  <2>1. /\ Lines[p][next[p]] \in Classes /\ next' \in [Pumps -> Nat \ {0}]
    BY <1>1, ReadLine
  <2>2. Stamp(p, Lines[p][next[p]]) /\ UNCHANGED <<waiting, delivery, slot, client>>
    BY <1>1 DEF Read
  <2>3. UNCHANGED <<stage, queue, got>>
    BY <2>2 DEF delivery, slot, client
  <2>4. /\ issued' \in Seq(Stamped) /\ msg' \in [Threads -> Msg]
        /\ pc' \in [Threads -> {"idle", "stamped", "recorded", "sending", "eof"}]
        /\ StreamInv'
    BY <2>1, <2>2, <2>3, StampStep
  <2>5. UNCHANGED <<replay, evicted>>
    BY <2>2 DEF Stamp
  <2> QED BY <2>1, <2>2, <2>4, <2>5 DEF TypeOK, waiting, delivery, slot, client
<1>2. CASE PumpReturn(p)
  <2>1. /\ Sent(p) /\ pc' = [pc EXCEPT ![p] = "idle"] /\ msg' = [msg EXCEPT ![p] = NoMsg]
        /\ saw' = (saw \/ (p = "out" /\ msg[p].class = "finished"))
        /\ UNCHANGED <<next, waiter, timedOut, ring, delivery, slot, client>>
    BY <1>2 DEF PumpReturn, Track
  <2>2. /\ pc' \in [Threads -> {"idle", "stamped", "recorded", "sending", "eof"}]
        /\ msg' \in [Threads -> Msg]
    BY <2>1, TypeFacts, NoMsgType
  <2>3. saw' \in BOOLEAN
    BY <2>1, Zenon DEF TypeOK
  <2>4. \A u \in Threads : Fine(msg'[u], issued)
    BY <2>1, TypeFacts, NumberlessFine DEF StreamInv
  <2>5. \A u \in Threads, d \in Conns : stage[<<u, d>>] # "none" => pc'[u] = "sending"
    BY <2>1, TypeFacts DEF StreamInv, Sent
  <2> QED BY <2>1, <2>2, <2>3, <2>4, <2>5
          DEF TypeOK, StreamInv, AllFine, ring, delivery, slot, client
<1>3. CASE Eof(p)
  <2>1. /\ pc[p] = "idle" /\ pc' = [pc EXCEPT ![p] = "eof"]
        /\ UNCHANGED <<next, waiting, ring, msg, delivery, slot, client>>
    BY <1>3 DEF Eof
  <2>2. pc' \in [Threads -> {"idle", "stamped", "recorded", "sending", "eof"}]
    BY <2>1, TypeFacts
  <2>3. \A u \in Threads, d \in Conns : stage[<<u, d>>] # "none" => pc'[u] = "sending"
    BY <2>1, TypeFacts DEF StreamInv
  <2> QED BY <2>1, <2>2, <2>3 DEF TypeOK, StreamInv, AllFine, waiting, ring, delivery, slot, client
<1> QED BY <1>1, <1>2, <1>3

LEMMA WaiterType ==
  ASSUME TypeOK, StreamInv, Join \/ WaiterSend \/ WaiterReturn \/ Pop
  PROVE  TypeOK' /\ StreamInv'
<1> "waiter" \in Threads
  BY DEF Threads
<1>1. CASE Join
  <2>1. /\ waiter' \in {"exit", "lost"} /\ timedOut' \in BOOLEAN
        /\ UNCHANGED <<next, saw, ring, thread, delivery, slot, client>>
    BY <1>1 DEF Join, TypeOK
  <2> QED BY <2>1 DEF TypeOK, StreamInv, AllFine, ring, thread, delivery, slot, client
<1>2. CASE WaiterSend
  <2>1. PICK class \in {"finished", "exit"} : Stamp("waiter", class)
    BY <1>2 DEF WaiterSend
  <2>2. /\ waiter' \in {"losing", "exiting"}
        /\ UNCHANGED <<next, timedOut, saw, delivery, slot, client>>
    BY <1>2 DEF WaiterSend
  <2>3. class \in Classes
    BY DEF Classes, Stamped
  <2>4. UNCHANGED <<stage, queue, got>>
    BY <2>2 DEF delivery, slot, client
  <2>5. /\ issued' \in Seq(Stamped) /\ msg' \in [Threads -> Msg]
        /\ pc' \in [Threads -> {"idle", "stamped", "recorded", "sending", "eof"}]
        /\ StreamInv'
    BY <2>1, <2>3, <2>4, StampStep
  <2>6. UNCHANGED <<replay, evicted>>
    BY <2>1 DEF Stamp
  <2> QED BY <2>2, <2>5, <2>6 DEF TypeOK, delivery, slot, client
<1>3. CASE WaiterReturn
  <2>1. /\ Sent("waiter") /\ pc' = [pc EXCEPT !["waiter"] = "idle"]
        /\ msg' = [msg EXCEPT !["waiter"] = NoMsg] /\ waiter' \in {"exit", "pop"}
        /\ UNCHANGED <<next, timedOut, saw, ring, delivery, slot, client>>
    BY <1>3 DEF WaiterReturn, AfterSynthetic
  <2>2. /\ pc' \in [Threads -> {"idle", "stamped", "recorded", "sending", "eof"}]
        /\ msg' \in [Threads -> Msg]
    BY <2>1, TypeFacts, NoMsgType
  <2>3. \A u \in Threads : Fine(msg'[u], issued)
    BY <2>1, TypeFacts, NumberlessFine DEF StreamInv
  <2>4. \A u \in Threads, d \in Conns : stage[<<u, d>>] # "none" => pc'[u] = "sending"
    BY <2>1, TypeFacts DEF StreamInv, Sent
  <2> QED BY <2>1, <2>2, <2>3, <2>4
          DEF TypeOK, StreamInv, AllFine, ring, delivery, slot, client
<1>4. CASE Pop
  <2>1. waiter' = "done" /\ UNCHANGED <<next, timedOut, saw, ring, thread, delivery, slot, client>>
    BY <1>4 DEF Pop
  <2> QED BY <2>1 DEF TypeOK, StreamInv, AllFine, ring, thread, delivery, slot, client
<1> QED BY <1>1, <1>2, <1>3, <1>4

\* What a client that subscribes gets at once.
LEMMA SubscribeFacts ==
  ASSUME TypeOK, StreamInv, NEW c \in Conns, NEW since \in 0..Len(issued)
  PROVE  /\ ReplaySince(since) \in Seq(Msg)
         /\ AllFine(ReplaySince(since))
         /\ Picked(ReplaySince(since), replay, since, Len(replay))
         /\ Max({since, evicted}) \in Nat
         /\ Max({since, evicted}) >= since /\ Max({since, evicted}) >= evicted
<1>1. /\ ReplaySince(since) \in Seq(Msg)
      /\ Picked(ReplaySince(since), replay, since, Len(replay))
  BY FiledAfterFacts, TypeFacts DEF ReplaySince
<1>2. AllFine(ReplaySince(since))
  <2>1. \A i \in 1..Len(replay) : Fine(replay[i], issued)
    BY DEF StreamInv, AllFine
  <2> QED BY <1>1, <2>1 DEF AllFine, Picked
<1>3. since \in Int /\ evicted \in Int /\ since \in Nat /\ evicted \in Nat
  BY TypeFacts
<1>4. /\ Max({since, evicted}) \in {since, evicted}
      /\ Max({since, evicted}) >= since /\ Max({since, evicted}) >= evicted
  BY <1>3, MaxOfTwo, Zenon
<1>5. Max({since, evicted}) \in Nat
  BY <1>3, <1>4
<1> QED BY <1>1, <1>2, <1>4, <1>5

LEMMA ClientType ==
  ASSUME TypeOK, StreamInv, NEW c \in Conns,
         Subscribe(c) \/ Get(c) \/ Leave(c) \/ GhostGet(c)
  PROVE  TypeOK' /\ StreamInv'
<1>1. CASE Subscribe(c)
  <2>1. /\ conn' = [conn EXCEPT ![c] = "live"]
        /\ UNCHANGED <<next, waiting, ring, thread, delivery, slot>>
    BY <1>1 DEF Subscribe
  <2>2. conn' \in [Conns -> {"idle", "live", "ended", "gone", "ghost"}]
    BY <2>1, TypeFacts
  <2>3. /\ base' \in [Conns -> Nat] /\ got' \in [Conns -> Seq(Msg)]
        /\ \A d \in Conns : \A i \in 1..Len(got'[d]) : Fine(got'[d][i], issued)
    <3>1. CASE base' = [base EXCEPT ![c] = Len(issued)] /\ UNCHANGED got
      BY <3>1, TypeFacts DEF StreamInv, AllFine
    <3>2. ASSUME NEW since \in 0..Len(issued),
                 got' = [got EXCEPT ![c] = ReplaySince(since)],
                 base' = [base EXCEPT ![c] = Max({since, evicted})]
          PROVE  /\ base' \in [Conns -> Nat] /\ got' \in [Conns -> Seq(Msg)]
                /\ \A d \in Conns : \A i \in 1..Len(got'[d]) : Fine(got'[d][i], issued)
      <4>1. /\ ReplaySince(since) \in Seq(Msg) /\ AllFine(ReplaySince(since))
            /\ Max({since, evicted}) \in Nat
        BY SubscribeFacts
      <4>2. /\ got' \in [Conns -> Seq(Msg)] /\ got'[c] = ReplaySince(since)
            /\ \A d \in Conns : d # c => got'[d] = got[d]
        BY <3>2, <4>1, TypeFacts
      <4>3. base' \in [Conns -> Nat]
        BY <3>2, <4>1, TypeFacts
      <4>4. \A d \in Conns : \A i \in 1..Len(got[d]) : Fine(got[d][i], issued)
        BY DEF StreamInv, AllFine
      <4> QED BY <4>1, <4>2, <4>3, <4>4 DEF AllFine
    <3> QED BY <1>1, <3>1, <3>2 DEF Subscribe
  <2> QED BY <2>1, <2>2, <2>3 DEF TypeOK, StreamInv, AllFine, waiting, ring, thread, delivery, slot
<1>2. ASSUME queue[c] # <<>>, queue' = [queue EXCEPT ![c] = Tail(queue[c])]
      PROVE  /\ queue' \in [Conns -> Seq(Msg)]
             /\ \A d \in Conns : Len(queue'[d]) <= Depth
             /\ \A d \in Conns : \A i \in 1..Len(queue'[d]) : Fine(queue'[d][i], issued)
             /\ Head(queue[c]) \in Msg /\ Fine(Head(queue[c]), issued)
  <2>1. /\ Tail(queue[c]) \in Seq(Msg) /\ Len(Tail(queue[c])) = Len(queue[c]) - 1
        /\ Len(queue[c]) \in Nat \ {0}
        /\ Head(queue[c]) = queue[c][1] /\ Head(queue[c]) \in Msg
        /\ \A i \in 1..Len(Tail(queue[c])) : /\ Tail(queue[c])[i] = queue[c][i + 1]
                                             /\ i + 1 \in 1..Len(queue[c])
    BY <1>2, TypeFacts, TailFacts
  <2>2. /\ queue' \in [Conns -> Seq(Msg)] /\ queue'[c] = Tail(queue[c])
        /\ \A d \in Conns : d # c => queue'[d] = queue[d]
    BY <1>2, <2>1, TypeFacts
  <2>3. \A d \in Conns : Len(queue[d]) <= Depth /\ \A i \in 1..Len(queue[d]) : Fine(queue[d][i], issued)
    BY DEF StreamInv, AllFine, TypeOK
  <2>4. 1 \in 1..Len(queue[c]) /\ Len(queue[c]) - 1 <= Depth
    <3>1. Len(queue[c]) <= Depth
      BY <2>3
    <3> QED BY <2>1, <3>1, TypeFacts
  <2>5. ASSUME NEW d \in Conns
        PROVE  Len(queue'[d]) <= Depth /\ \A i \in 1..Len(queue'[d]) : Fine(queue'[d][i], issued)
    <3>1. CASE d = c
      BY <3>1, <2>1, <2>2, <2>3, <2>4
    <3>2. CASE d # c
      BY <3>2, <2>2, <2>3
    <3> QED BY <3>1, <3>2
  <2>6. Fine(Head(queue[c]), issued)
    BY <2>1, <2>3, <2>4
  <2> QED BY <2>1, <2>2, <2>5, <2>6
<1>3. CASE Get(c)
  <2>1. /\ queue[c] # <<>> /\ got' = [got EXCEPT ![c] = Append(got[c], Head(queue[c]))]
        /\ queue' = [queue EXCEPT ![c] = Tail(queue[c])]
        /\ conn' = [conn EXCEPT ![c] = IF Head(queue[c]).class = "exit" THEN "ended" ELSE @]
        /\ UNCHANGED <<next, waiting, ring, thread, delivery, dropped, warned, drops, told, base>>
    BY <1>3 DEF Get
  <2>2. /\ queue' \in [Conns -> Seq(Msg)]
        /\ \A d \in Conns : Len(queue'[d]) <= Depth
        /\ \A d \in Conns : \A i \in 1..Len(queue'[d]) : Fine(queue'[d][i], issued)
        /\ Head(queue[c]) \in Msg /\ Fine(Head(queue[c]), issued)
    BY <1>2, <2>1
  <2>3. /\ Append(got[c], Head(queue[c])) \in Seq(Msg)
        /\ Append(got[c], Head(queue[c]))[Len(got[c]) + 1] = Head(queue[c])
        /\ \A i \in 1..Len(got[c]) : Append(got[c], Head(queue[c]))[i] = got[c][i]
        /\ \A i \in 1..Len(Append(got[c], Head(queue[c]))) : i \in 1..Len(got[c]) \/ i = Len(got[c]) + 1
    BY <2>2, TypeFacts, AppendFacts
  <2>4. /\ got' \in [Conns -> Seq(Msg)] /\ got'[c] = Append(got[c], Head(queue[c]))
        /\ \A d \in Conns : d # c => got'[d] = got[d]
    BY <2>1, <2>3, TypeFacts
  <2>5. \A d \in Conns : \A i \in 1..Len(got'[d]) : Fine(got'[d][i], issued)
    <3>1. \A d \in Conns : \A i \in 1..Len(got[d]) : Fine(got[d][i], issued)
      BY DEF StreamInv, AllFine
    <3>2. \A i \in 1..Len(got'[c]) : Fine(got'[c][i], issued)
      BY <2>2, <2>3, <2>4, <3>1
    <3> QED BY <2>4, <3>1, <3>2
  <2>6. conn' \in [Conns -> {"idle", "live", "ended", "gone", "ghost"}]
    BY <2>1, TypeFacts
  <2> QED BY <2>1, <2>2, <2>4, <2>5, <2>6
          DEF TypeOK, StreamInv, AllFine, waiting, ring, thread, delivery
<1>4. CASE Leave(c)
  <2>1. /\ \E to \in {"gone", "ghost"} : conn' = [conn EXCEPT ![c] = to]
        /\ base' = [base EXCEPT ![c] = 0] /\ got' = [got EXCEPT ![c] = <<>>]
        /\ UNCHANGED <<next, waiting, ring, thread, delivery, slot>>
    BY <1>4 DEF Leave
  <2>2. /\ conn' \in [Conns -> {"idle", "live", "ended", "gone", "ghost"}]
        /\ base' \in [Conns -> Nat]
    BY <2>1, TypeFacts
  <2>3. <<>> \in Seq(Msg) /\ Len(<<>>) = 0
    OBVIOUS
  <2>4. /\ got' \in [Conns -> Seq(Msg)] /\ got'[c] = <<>>
        /\ \A d \in Conns : d # c => got'[d] = got[d]
    BY <2>1, <2>3, TypeFacts
  <2>5. \A d \in Conns : \A i \in 1..Len(got'[d]) : Fine(got'[d][i], issued)
    BY <2>3, <2>4 DEF StreamInv, AllFine
  <2> QED BY <2>1, <2>2, <2>4, <2>5 DEF TypeOK, StreamInv, AllFine, waiting, ring, thread, delivery, slot
<1>5. CASE GhostGet(c)
  <2>1. /\ queue[c] # <<>> /\ queue' = [queue EXCEPT ![c] = Tail(queue[c])]
        /\ conn' = [conn EXCEPT ![c] = "gone"]
        /\ UNCHANGED <<next, waiting, ring, thread, delivery, dropped, warned, drops, told, base, got>>
    BY <1>5 DEF GhostGet
  <2>2. /\ queue' \in [Conns -> Seq(Msg)]
        /\ \A d \in Conns : Len(queue'[d]) <= Depth
        /\ \A d \in Conns : \A i \in 1..Len(queue'[d]) : Fine(queue'[d][i], issued)
    BY <1>2, <2>1
  <2>3. conn' \in [Conns -> {"idle", "live", "ended", "gone", "ghost"}]
    BY <2>1, TypeFacts
  <2> QED BY <2>1, <2>2, <2>3 DEF TypeOK, StreamInv, AllFine, waiting, ring, thread, delivery
<1> QED BY <1>1, <1>3, <1>4, <1>5

LEMMA InitInv == Init => StreamInv
<1> SUFFICES ASSUME Init PROVE StreamInv
  OBVIOUS
<1>1. issued = <<>> /\ replay = <<>> /\ evicted = 0 /\ Len(<<>>) = 0 /\ <<>> \in Seq(Stamped)
  BY DEF Init
<1>2. \A t \in Threads : msg[t] = NoMsg
  BY DEF Init
<1>3. \A c \in Conns : queue[c] = <<>> /\ got[c] = <<>>
  BY DEF Init
<1>4. \A t \in Threads, c \in Conns : stage[<<t, c>>] = "none"
  BY DEF Init
<1>5. \A t \in Threads : Fine(msg[t], issued)
  BY <1>1, <1>2, NumberlessFine
<1>6. AllFine(replay) /\ \A c \in Conns : AllFine(queue[c]) /\ AllFine(got[c])
  BY <1>1, <1>3 DEF AllFine
<1>7. evicted <= Len(issued)
  BY <1>1
<1> QED BY <1>4, <1>5, <1>6, <1>7 DEF StreamInv

LEMMA TypeStep == TypeOK /\ StreamInv /\ [Next]_vars => TypeOK' /\ StreamInv'
<1> SUFFICES ASSUME TypeOK, StreamInv, [Next]_vars PROVE TypeOK' /\ StreamInv'
  OBVIOUS
<1>1. CASE UNCHANGED vars
  BY <1>1 DEF TypeOK, StreamInv, AllFine, vars
<1>2. CASE Broker
  BY <1>2, PumpType, RecordType, FanoutType, DeliveryType, WaiterType DEF Broker
<1>3. CASE Client
  BY <1>3, ClientType DEF Client
<1> QED BY <1>1, <1>2, <1>3 DEF Next

LEMMA StreamTypes == Spec => [](TypeOK /\ StreamInv)
<1>1. Init => TypeOK /\ StreamInv
  BY InitType, InitInv
<1> QED BY <1>1, TypeStep, PTL DEF Spec

\* The variables keep their types, whatever the worker writes and the clients do.
THEOREM StreamTypeOK == Spec => []TypeOK
BY StreamTypes, PTL

-----------------------------------------------------------------------------
(***************************************************************************)
(* No gaps.  NoGap needs to know where the numbered lines are that a new   *)
(* subscriber asks for: each is in the ring, or fell out of it, or waits   *)
(* for being filed in it.                                                  *)
(***************************************************************************)
RingInv ==
  \A q \in 1..Len(issued) :
    \/ q <= evicted
    \/ Has(replay, q)
    \/ \E t \in Threads : pc[t] = "stamped" /\ msg[t].seq = q

LEMMA HasAppend ==
  ASSUME NEW s \in Seq(Msg), NEW m \in Msg, NEW q, Has(s, q) \/ m.seq = q
  PROVE  Has(Append(s, m), q)
<1>1. CASE Has(s, q)
  <2>1. PICK i \in 1..Len(s) : s[i].seq = q
    BY <1>1 DEF Has
  <2>2. Append(s, m)[i] = s[i] /\ i \in 1..Len(Append(s, m))
    OBVIOUS
  <2> QED BY <2>1, <2>2 DEF Has
<1>2. CASE m.seq = q
  <2>1. Append(s, m)[Len(s) + 1] = m /\ Len(s) + 1 \in 1..Len(Append(s, m))
    OBVIOUS
  <2> QED BY <1>2, <2>1 DEF Has
<1> QED BY <1>1, <1>2

LEMMA HasTail ==
  ASSUME NEW s \in Seq(Msg), s # <<>>, NEW q, Has(s, q)
  PROVE  Head(s).seq = q \/ Has(Tail(s), q)
<1>1. PICK i \in 1..Len(s) : s[i].seq = q
  BY DEF Has
<1>2. CASE i = 1
  BY <1>1, <1>2
<1>3. CASE i # 1
  <2>1. Tail(s)[i - 1] = s[i] /\ i - 1 \in 1..Len(Tail(s))
    BY <1>3
  <2> QED BY <1>1, <2>1 DEF Has
<1> QED BY <1>2, <1>3

\* A step that stamps, or one that ends a delivery, changes the message of a
\* thread only when that message is on its way to nobody.
LEMMA FreshMsg ==
  ASSUME TypeOK, StreamInv, NEW t \in Threads, pc[t] \in {"idle", "eof"} \/ Sent(t)
  PROVE  /\ pc[t] \notin {"stamped", "recorded"}
         /\ \A c \in Conns : stage[<<t, c>>] = "none"
BY DEF StreamInv, Sent

LEMMA RingStamp ==
  ASSUME TypeOK, StreamInv, RingInv, NEW t \in Threads, NEW class \in Classes, Stamp(t, class)
  PROVE  RingInv'
<1>1. /\ pc[t] = "idle" /\ pc' = [pc EXCEPT ![t] = "stamped"]
      /\ issued' \in Seq(Stamped) /\ Len(issued') \in Nat
      /\ \A u \in Threads : u # t => msg'[u] = msg[u]
      /\ class \notin Stamped => issued' = issued /\ msg'[t].seq = 0
      /\ class \in Stamped => /\ issued' = Append(issued, class)
                              /\ Len(issued') = Len(issued) + 1
                              /\ msg'[t].seq = Len(issued')
      /\ UNCHANGED <<replay, evicted>>
  BY StampFacts
<1>2. pc'[t] = "stamped" /\ \A u \in Threads : u # t => pc'[u] = pc[u]
  BY <1>1, TypeFacts
<1>3. ASSUME NEW q \in 1..Len(issued')
      PROVE  q <= evicted' \/ Has(replay', q) \/ \E u \in Threads : pc'[u] = "stamped" /\ msg'[u].seq = q
  <2>1. CASE q \in 1..Len(issued)
    <3>1. \/ q <= evicted \/ Has(replay, q)
          \/ \E u \in Threads : pc[u] = "stamped" /\ msg[u].seq = q
      BY <2>1 DEF RingInv
    <3>2. \A u \in Threads : pc[u] = "stamped" => u # t
      BY <1>1
    <3> QED BY <3>1, <3>2, <1>1, <1>2
  <2>2. CASE q \notin 1..Len(issued)
    <3>1. class \in Stamped /\ q = Len(issued')
      BY <2>2, <1>1, TypeFacts
    <3> QED BY <3>1, <1>1, <1>2
  <2> QED BY <2>1, <2>2
<1> QED BY <1>3 DEF RingInv

LEMMA RingRecord ==
  ASSUME TypeOK, StreamInv, RingInv, NEW t \in Threads, Record(t)
  PROVE  RingInv'
<1> DEFINE all == Append(replay, msg[t])
<1>1. /\ all \in Seq(Msg) /\ Len(all) = Len(replay) + 1 /\ Len(replay) \in Nat
      /\ \E out \in 0..Len(all) :
           /\ replay' \in Seq(Msg) /\ Len(replay') = Len(all) - out
           /\ Len(replay') <= ReplaySize
           /\ \A i \in 1..Len(replay') : replay'[i] = all[i + out]
           /\ \A i \in 1..out : all[i].seq <= evicted'
      /\ evicted' \in Nat /\ evicted <= evicted'
  BY RecordFacts
<1>2. ASSUME NEW q, Has(replay, q) \/ msg[t].seq = q PROVE Has(all, q)
  BY <1>2, HasAppend, TypeFacts
<1> HIDE DEF all
<1>3. PICK out \in 0..Len(all) :
           /\ Len(replay') = Len(all) - out
           /\ \A i \in 1..Len(replay') : replay'[i] = all[i + out]
           /\ \A i \in 1..out : all[i].seq <= evicted'
  BY <1>1
<1>4. ASSUME NEW q, Has(all, q) PROVE q <= evicted' \/ Has(replay', q)
  <2>1. PICK i \in 1..Len(all) : all[i].seq = q
    BY <1>4 DEF Has
  <2>2. CASE i \in 1..out
    BY <2>1, <2>2, <1>3
  <2>3. CASE i \notin 1..out
    <3>1. i - out \in 1..Len(replay') /\ (i - out) + out = i
      BY <2>3, <1>1, <1>3
    <3>2. replay'[i - out] = all[i]
      BY <3>1, <1>3
    <3> QED BY <2>1, <3>1, <3>2 DEF Has
  <2> QED BY <2>2, <2>3
<1>5. pc' = [pc EXCEPT ![t] = "recorded"] /\ msg' = msg /\ issued' = issued
  BY DEF Record
<1>6. ASSUME NEW q \in 1..Len(issued)
      PROVE  q <= evicted' \/ Has(replay', q) \/ \E u \in Threads : pc'[u] = "stamped" /\ msg'[u].seq = q
  <2>1. CASE q <= evicted
    BY <2>1, <1>1, TypeFacts
  <2>2. CASE Has(replay, q) \/ msg[t].seq = q
    BY <2>2, <1>2, <1>4
  <2>3. CASE \E u \in Threads : pc[u] = "stamped" /\ msg[u].seq = q /\ u # t
    BY <2>3, <1>5, TypeFacts
  <2> QED BY <2>1, <2>2, <2>3 DEF RingInv
<1> QED BY <1>5, <1>6 DEF RingInv

\* Any other step leaves the ring and the stamped messages alone.
LEMMA RingSame ==
  ASSUME TypeOK, RingInv, UNCHANGED ring,
         \A u \in Threads : pc[u] = "stamped" => pc'[u] = "stamped" /\ msg'[u] = msg[u]
  PROVE  RingInv'
BY DEF RingInv, ring

LEMMA RingStep ==
  TypeOK /\ StreamInv /\ RingInv /\ [Next]_vars => RingInv'
<1> SUFFICES ASSUME TypeOK, StreamInv, RingInv, [Next]_vars PROVE RingInv'
  OBVIOUS
<1> USE TypeFacts
<1>1. CASE UNCHANGED vars
  BY <1>1, RingSame DEF vars, ring
<1>2. ASSUME NEW p \in Pumps, Read(p) PROVE RingInv'
  <2>1. p \in Threads /\ Lines[p][next[p]] \in Classes /\ Stamp(p, Lines[p][next[p]])
    BY <1>2, ReadLine DEF Read, Threads
  <2> QED BY <2>1, RingStamp
<1>3. ASSUME WaiterSend PROVE RingInv'
  <2>1. PICK class \in {"finished", "exit"} : Stamp("waiter", class)
    BY <1>3 DEF WaiterSend
  <2>2. "waiter" \in Threads /\ class \in Classes
    BY DEF Threads, Classes, Stamped
  <2> QED BY <2>1, <2>2, RingStamp
<1>4. ASSUME NEW t \in Threads, Record(t) PROVE RingInv'
  BY <1>4, RingRecord
<1>5. ASSUME NEW t \in Threads, Fanout(t) PROVE RingInv'
  BY <1>5, RingSame DEF Fanout
<1>6. ASSUME NEW p \in Pumps, PumpReturn(p) PROVE RingInv'
  BY <1>6, RingSame DEF PumpReturn, Sent
<1>7. ASSUME WaiterReturn PROVE RingInv'
  BY <1>7, RingSame DEF WaiterReturn, Sent
<1>8. ASSUME NEW p \in Pumps, Eof(p) PROVE RingInv'
  BY <1>8, RingSame DEF Eof
<1>9. ASSUME NEW t \in Threads, NEW c \in Conns,
             Deliver(t, c) \/ Drop(t, c) \/ TakeDrops(t, c) \/ Warn(t, c)
      PROVE  RingInv'
  BY <1>9, RingSame DEF Deliver, Drop, TakeDrops, Warn, thread
<1>10. ASSUME Join \/ Pop PROVE RingInv'
  BY <1>10, RingSame DEF Join, Pop, thread
<1>11. ASSUME NEW c \in Conns, Subscribe(c) \/ Get(c) \/ Leave(c) \/ GhostGet(c) PROVE RingInv'
  BY <1>11, RingSame DEF Subscribe, Get, Leave, GhostGet, thread
<1> QED BY <1>1, <1>2, <1>3, <1>4, <1>5, <1>6, <1>7, <1>8, <1>9, <1>10, <1>11
        DEF Next, Broker, Client

\* The queues in a delivery step: a message is added at the end of one, or none changes.
LEMMA DeliveryQueues ==
  ASSUME TypeOK, NEW t \in Threads, NEW c \in Conns,
         Deliver(t, c) \/ Drop(t, c) \/ TakeDrops(t, c) \/ Warn(t, c)
  PROVE  /\ stage[<<t, c>>] # "none"
         /\ UNCHANGED <<next, waiting, ring, thread, client>>
         /\ \A u \in Threads, d \in Conns : <<u, d>> # <<t, c>> => stage'[<<u, d>>] = stage[<<u, d>>]
         /\ \/ queue' = queue
            \/ \E m \in Msg : /\ m = msg[t] \/ (m.class = "warn" /\ m.seq = 0)
                              /\ queue' = [queue EXCEPT ![c] = Append(queue[c], m)]
         /\ stage[<<t, c>>] = "put" => \/ msg[t].class \in Droppable
                                       \/ queue' = [queue EXCEPT ![c] = Append(queue[c], msg[t])]
<1> USE TypeFacts
<1>1. CASE Deliver(t, c)
  BY <1>1 DEF Deliver, Put, SetStage
<1>2. CASE Drop(t, c)
  BY <1>2 DEF Drop, SetStage
<1>3. CASE TakeDrops(t, c)
  BY <1>3 DEF TakeDrops, SetStage
<1>4. CASE Warn(t, c)
  <2>1. /\ stage[<<t, c>>] = "warning" /\ SetStage(t, c, "none")
        /\ UNCHANGED <<next, waiting, ring, thread, client>>
        /\ Put(c, [NoMsg EXCEPT !.class = "warn"]) \/ queue' = queue
    BY <1>4 DEF Warn
  <2>2. /\ [NoMsg EXCEPT !.class = "warn"] \in Msg
        /\ [NoMsg EXCEPT !.class = "warn"].class = "warn"
        /\ [NoMsg EXCEPT !.class = "warn"].seq = 0
    BY NumberlessFine
  <2>3. \/ queue' = queue
        \/ \E m \in Msg : /\ m.class = "warn" /\ m.seq = 0
                          /\ queue' = [queue EXCEPT ![c] = Append(queue[c], m)]
    BY <2>1, <2>2 DEF Put
  <2> QED BY <2>1, <2>3 DEF SetStage
<1> QED BY <1>1, <1>2, <1>3, <1>4

\* A numbered message that a thread has is of the class issued under its number.
LEMMA MsgClass ==
  ASSUME StreamInv, NEW t \in Threads, msg[t].seq # 0
  PROVE  msg[t].class = issued[msg[t].seq]
BY DEF StreamInv, Fine

\* InFlight, of messages, threads and deliveries to be named.
OnWay(m, p, s, c, q) ==
  \E u \in Threads : m[u].seq = q /\ (p[u] \in {"stamped", "recorded"} \/ s[<<u, c>>] = "put")

LEMMA GapStamp ==
  ASSUME TypeOK, StreamInv, NoGap, NEW t \in Threads, NEW class \in Classes, Stamp(t, class),
         UNCHANGED <<stage, queue, client>>
  PROVE  NoGap'
<1>1. /\ pc[t] = "idle" /\ pc' = [pc EXCEPT ![t] = "stamped"]
      /\ issued' \in Seq(Stamped) /\ Len(issued') \in Nat
      /\ \A u \in Threads : u # t => msg'[u] = msg[u]
      /\ class \notin Stamped => issued' = issued /\ msg'[t].seq = 0
      /\ class \in Stamped => /\ issued' = Append(issued, class)
                              /\ Len(issued') = Len(issued) + 1
                              /\ msg'[t].seq = Len(issued')
  BY StampFacts
<1>2. pc'[t] = "stamped" /\ \A u \in Threads : u # t => pc'[u] = pc[u]
  BY <1>1, TypeFacts
<1>3. \A c \in Conns : stage[<<t, c>>] = "none"
  BY <1>1, FreshMsg
<1>4. ASSUME NEW c \in Conns, conn'[c] = "live", NEW q \in (base'[c] + 1)..Len(issued'),
             issued'[q] \notin Droppable
      PROVE  \/ Has(got'[c], q) \/ Has(queue'[c], q)
             \/ OnWay(msg', pc', stage', c, q)
  <2>1. CASE q \in 1..Len(issued)
    <3>1. issued[q] = issued'[q]
      <4>1. CASE class \in Stamped
        <5>1. issued' = Append(issued, class) /\ issued \in Seq(Stamped)
          BY <4>1, <1>1, TypeFacts
        <5> QED BY <2>1, <5>1
      <4>2. CASE class \notin Stamped
        BY <4>2, <1>1
      <4> QED BY <4>1, <4>2
    <3>2. c \in Subs /\ q \in (base[c] + 1)..Len(issued) /\ Structured(q)
      BY <2>1, <3>1, <1>4 DEF Subs, Structured, client
    <3>3. Has(got[c], q) \/ Has(queue[c], q) \/ InFlight(c, q)
      BY <3>2 DEF NoGap
    <3>4. CASE InFlight(c, q)
      <4>1. PICK u \in Threads : /\ msg[u].seq = q
                                 /\ pc[u] \in {"stamped", "recorded"} \/ stage[<<u, c>>] = "put"
        BY <3>4 DEF InFlight
      <4>2. u # t
        BY <4>1, <1>1, <1>3
      <4> QED BY <4>1, <4>2, <1>1, <1>2 DEF OnWay
    <3> QED BY <3>3, <3>4 DEF client
  <2>2. CASE q \notin 1..Len(issued)
    <3>1. base'[c] \in Nat
      BY TypeFacts DEF client
    <3>2. class \in Stamped /\ q = Len(issued')
      BY <2>2, <3>1, <1>1, TypeFacts
    <3> QED BY <3>2, <1>1, <1>2 DEF OnWay
  <2> QED BY <2>1, <2>2
<1> QED BY <1>4 DEF NoGap, Subs, Structured, InFlight, OnWay

\* A step that issues nothing and lets no client in or out.
LEMMA GapSame ==
  ASSUME TypeOK, StreamInv, NoGap, UNCHANGED <<issued, client>>,
         \A c \in Conns : \A q \in Nat \ {0} :
           /\ Has(queue[c], q) => Has(queue'[c], q)
           /\ conn[c] = "live" /\ InFlight(c, q) /\ Structured(q) =>
                \/ Has(queue'[c], q)
                \/ OnWay(msg', pc', stage', c, q)
  PROVE  NoGap'
<1>1. ASSUME NEW c \in Conns, conn'[c] = "live", NEW q \in (base'[c] + 1)..Len(issued'),
             issued'[q] \notin Droppable
      PROVE  \/ Has(got'[c], q) \/ Has(queue'[c], q)
             \/ OnWay(msg', pc', stage', c, q)
  <2>1. c \in Subs /\ q \in (base[c] + 1)..Len(issued) /\ Structured(q) /\ conn[c] = "live"
    BY <1>1 DEF Subs, Structured, client
  <2>2. Has(got[c], q) \/ Has(queue[c], q) \/ InFlight(c, q)
    BY <2>1 DEF NoGap
  <2>3. base[c] \in Nat /\ q \in Nat \ {0}
    BY <2>1, TypeFacts
  <2> QED BY <2>1, <2>2, <2>3 DEF client
<1> QED BY <1>1 DEF NoGap, Subs, Structured, InFlight, OnWay

LEMMA GapDelivery ==
  ASSUME TypeOK, StreamInv, NoGap, NEW t \in Threads, NEW c \in Conns,
         Deliver(t, c) \/ Drop(t, c) \/ TakeDrops(t, c) \/ Warn(t, c)
  PROVE  NoGap'
<1>1. /\ UNCHANGED <<ring, thread, client>>
      /\ \A u \in Threads, d \in Conns : <<u, d>> # <<t, c>> => stage'[<<u, d>>] = stage[<<u, d>>]
      /\ \/ queue' = queue
         \/ \E m \in Msg : /\ m = msg[t] \/ (m.class = "warn" /\ m.seq = 0)
                           /\ queue' = [queue EXCEPT ![c] = Append(queue[c], m)]
      /\ stage[<<t, c>>] = "put" => \/ msg[t].class \in Droppable
                                    \/ queue' = [queue EXCEPT ![c] = Append(queue[c], msg[t])]
  BY DeliveryQueues
<1>2. ASSUME NEW m \in Msg, queue' = [queue EXCEPT ![c] = Append(queue[c], m)],
             NEW d \in Conns, NEW q, Has(queue[d], q) \/ (d = c /\ m.seq = q)
      PROVE  Has(queue'[d], q)
  <2>1. CASE d = c
    <3>1. queue'[c] = Append(queue[c], m) /\ queue[c] \in Seq(Msg)
      BY <1>2, TypeFacts
    <3> QED BY <2>1, <3>1, <1>2, HasAppend
  <2>2. CASE d # c
    <3>1. queue'[d] = queue[d]
      BY <2>2, <1>2, TypeFacts
    <3> QED BY <2>2, <3>1, <1>2
  <2> QED BY <2>1, <2>2
<1>3. ASSUME NEW d \in Conns, NEW q, Has(queue[d], q) PROVE Has(queue'[d], q)
  BY <1>1, <1>2, <1>3
<1>4. ASSUME NEW d \in Conns, NEW q \in Nat \ {0}, InFlight(d, q), Structured(q)
      PROVE  \/ Has(queue'[d], q)
             \/ OnWay(msg', pc', stage', d, q)
  <2>1. PICK u \in Threads : /\ msg[u].seq = q
                             /\ pc[u] \in {"stamped", "recorded"} \/ stage[<<u, d>>] = "put"
    BY <1>4 DEF InFlight
  <2>2. pc' = pc /\ msg' = msg
    BY <1>1 DEF thread
  <2>3. CASE pc[u] \in {"stamped", "recorded"} \/ <<u, d>> # <<t, c>>
    BY <2>1, <2>2, <2>3, <1>1 DEF OnWay
  <2>4. CASE u = t /\ d = c /\ stage[<<t, c>>] = "put"
    <3>1. msg[t].class \notin Droppable
      BY <2>1, <2>4, <1>4, MsgClass DEF Structured
    <3>2. queue' = [queue EXCEPT ![c] = Append(queue[c], msg[t])] /\ msg[t] \in Msg
      BY <2>4, <3>1, <1>1, TypeFacts
    <3> QED BY <2>1, <2>4, <3>2, <1>2
  <2> QED BY <2>1, <2>3, <2>4
<1> QED BY <1>1, <1>3, <1>4, GapSame DEF ring

LEMMA GapClient ==
  ASSUME TypeOK, StreamInv, RingInv, NoGap, NEW c \in Conns,
         Subscribe(c) \/ Get(c) \/ Leave(c) \/ GhostGet(c)
  PROVE  NoGap'
<1>1. UNCHANGED <<ring, thread, stage>> /\ \A d \in Conns : d # c => /\ conn'[d] = conn[d] /\ base'[d] = base[d]
                                                               /\ got'[d] = got[d] /\ queue'[d] = queue[d]
  BY TypeFacts DEF Subscribe, Get, Leave, GhostGet, delivery, slot
<1>2. issued' = issued /\ pc' = pc /\ msg' = msg
  BY <1>1 DEF ring, thread
<1>3. ASSUME conn'[c] = "live", NEW q \in (base'[c] + 1)..Len(issued), Structured(q)
      PROVE  Has(got'[c], q) \/ Has(queue'[c], q) \/ InFlight(c, q)
  <2>1. CASE Subscribe(c)
    <3>1. CASE base' = [base EXCEPT ![c] = Len(issued)]
      <4>1. base'[c] = Len(issued)
        BY <3>1, TypeFacts
      <4> QED BY <4>1, <1>3, TypeFacts
    <3>2. ASSUME NEW since \in 0..Len(issued),
                 got' = [got EXCEPT ![c] = ReplaySince(since)],
                 base' = [base EXCEPT ![c] = Max({since, evicted})]
          PROVE  Has(got'[c], q) \/ InFlight(c, q)
      <4>1. /\ Picked(ReplaySince(since), replay, since, Len(replay))
            /\ Max({since, evicted}) \in Nat
            /\ Max({since, evicted}) >= since /\ Max({since, evicted}) >= evicted
        BY SubscribeFacts
      <4>2. got'[c] = ReplaySince(since) /\ base'[c] = Max({since, evicted})
        BY <3>2, TypeFacts
      <4>3. q \in 1..Len(issued) /\ q > since /\ ~(q <= evicted)
        <5> DEFINE b == Max({since, evicted})
        <5>1. b \in Nat /\ b >= since /\ b >= evicted /\ q \in (b + 1)..Len(issued)
          BY <4>1, <4>2, <1>3
        <5> HIDE DEF b
        <5> QED BY <5>1, TypeFacts
      <4>4. CASE Has(replay, q)
        <5>1. PICK i \in 1..Len(replay) : replay[i].seq = q
          BY <4>4 DEF Has
        <5>2. replay[i].key > since
          <6>1. Fine(replay[i], issued)
            BY DEF StreamInv, AllFine
          <6>2. q # 0
            BY <4>3
          <6>3. replay[i].key = q
            BY <5>1, <6>1, <6>2 DEF Fine
          <6> QED BY <6>3, <4>3
        <5>3. PICK k \in 1..Len(ReplaySince(since)) : ReplaySince(since)[k] = replay[i]
          BY <5>2, <4>1 DEF Picked
        <5> QED BY <5>1, <5>3, <4>2 DEF Has
      <4>5. CASE \E u \in Threads : pc[u] = "stamped" /\ msg[u].seq = q
        BY <4>5 DEF InFlight
      <4> QED BY <4>3, <4>4, <4>5 DEF RingInv
    <3> QED BY <2>1, <3>1, <3>2 DEF Subscribe
  <2>2. CASE Get(c)
    <3>1. /\ queue[c] # <<>> /\ got' = [got EXCEPT ![c] = Append(got[c], Head(queue[c]))]
          /\ queue' = [queue EXCEPT ![c] = Tail(queue[c])] /\ conn[c] = "live" /\ base' = base
      BY <2>2 DEF Get
    <3>2. /\ got'[c] = Append(got[c], Head(queue[c])) /\ queue'[c] = Tail(queue[c])
          /\ queue[c] \in Seq(Msg) /\ got[c] \in Seq(Msg) /\ Head(queue[c]) \in Msg
      <4>1. Head(queue[c]) \in Msg
        BY <3>1, TypeFacts, TailFacts
      <4> QED BY <3>1, <4>1, TypeFacts
    <3>3. Has(got[c], q) \/ Has(queue[c], q) \/ InFlight(c, q)
      BY <3>1, <1>3 DEF NoGap, Subs
    <3>4. CASE Has(got[c], q)
      BY <3>2, <3>4, HasAppend
    <3>5. CASE Has(queue[c], q)
      <4>1. Head(queue[c]).seq = q \/ Has(Tail(queue[c]), q)
        BY <3>1, <3>2, <3>5, HasTail
      <4> QED BY <3>2, <4>1, HasAppend
    <3> QED BY <3>3, <3>4, <3>5
  <2>3. CASE Leave(c)
    BY <2>3, <1>3, TypeFacts DEF Leave
  <2>4. CASE GhostGet(c)
    BY <2>4, <1>3, TypeFacts DEF GhostGet
  <2> QED BY <2>1, <2>2, <2>3, <2>4
<1>4. ASSUME NEW d \in Conns, d # c, conn'[d] = "live", NEW q \in (base'[d] + 1)..Len(issued), Structured(q)
      PROVE  Has(got'[d], q) \/ Has(queue'[d], q) \/ InFlight(d, q)
  BY <1>1, <1>4 DEF NoGap, Subs
<1>5. ASSUME NEW d \in Conns, conn'[d] = "live", NEW q \in (base'[d] + 1)..Len(issued'),
             issued'[q] \notin Droppable
      PROVE  \/ Has(got'[d], q) \/ Has(queue'[d], q)
             \/ OnWay(msg', pc', stage', d, q)
  <2>1. Has(got'[d], q) \/ Has(queue'[d], q) \/ InFlight(d, q)
    <3>1. Structured(q) /\ q \in (base'[d] + 1)..Len(issued)
      BY <1>2, <1>5 DEF Structured
    <3>2. CASE d = c
      BY <3>1, <3>2, <1>3, <1>5
    <3>3. CASE d # c
      BY <3>1, <3>3, <1>4, <1>5
    <3> QED BY <3>2, <3>3
  <2>2. CASE Has(got'[d], q) \/ Has(queue'[d], q)
    BY <2>2
  <2>3. CASE InFlight(d, q)
    <3>1. PICK u \in Threads : /\ msg[u].seq = q
                               /\ pc[u] \in {"stamped", "recorded"} \/ stage[<<u, d>>] = "put"
      BY <2>3 DEF InFlight
    <3> QED BY <3>1, <1>1, <1>2 DEF OnWay
  <2> QED BY <2>1, <2>2, <2>3
<1> QED BY <1>5 DEF NoGap, Subs, Structured, InFlight, OnWay

LEMMA GapStep ==
  TypeOK /\ StreamInv /\ RingInv /\ NoGap /\ [Next]_vars => NoGap'
<1> SUFFICES ASSUME TypeOK, StreamInv, RingInv, NoGap, [Next]_vars PROVE NoGap'
  OBVIOUS
<1> USE TypeFacts
<1>0. ASSUME UNCHANGED <<issued, client, queue>>,
             \A t \in Threads : \/ msg'[t] = msg[t] /\ (pc[t] \in {"stamped", "recorded"} => pc'[t] \in {"stamped", "recorded"})
                                                    /\ \A c \in Conns : stage'[<<t, c>>] = stage[<<t, c>>]
                                \/ pc[t] \notin {"stamped", "recorded"} /\ \A c \in Conns : stage[<<t, c>>] = "none"
      PROVE  NoGap'
  <2>1. ASSUME NEW c \in Conns, NEW q, InFlight(c, q)
        PROVE  OnWay(msg', pc', stage', c, q)
    <3>1. PICK u \in Threads : /\ msg[u].seq = q
                               /\ pc[u] \in {"stamped", "recorded"} \/ stage[<<u, c>>] = "put"
      BY <2>1 DEF InFlight
    <3> QED BY <3>1, <1>0 DEF OnWay
  <2>2. \A c \in Conns : queue'[c] = queue[c]
    BY <1>0
  <2>3. \A c \in Conns : \A q \in Nat \ {0} :
           /\ Has(queue[c], q) => Has(queue'[c], q)
           /\ conn[c] = "live" /\ InFlight(c, q) /\ Structured(q) =>
                \/ Has(queue'[c], q)
                \/ OnWay(msg', pc', stage', c, q)
    <3>1. ASSUME NEW c \in Conns, NEW q \in Nat \ {0}, Has(queue[c], q) PROVE Has(queue'[c], q)
      BY <2>2, <3>1
    <3>2. ASSUME NEW c \in Conns, NEW q \in Nat \ {0}, InFlight(c, q)
          PROVE  OnWay(msg', pc', stage', c, q)
      BY <2>1, <3>2
    <3> QED BY <3>1, <3>2
  <2>4. UNCHANGED <<issued, client>>
    BY <1>0
  <2> QED BY <2>3, <2>4, GapSame
<1>1. CASE UNCHANGED vars
  BY <1>0, <1>1 DEF vars, client
<1>2. ASSUME NEW p \in Pumps, Read(p) PROVE NoGap'
  <2>1. p \in Threads /\ Lines[p][next[p]] \in Classes /\ Stamp(p, Lines[p][next[p]])
    BY <1>2, ReadLine DEF Read, Threads
  <2>2. UNCHANGED <<stage, queue, client>>
    BY <1>2 DEF Read, delivery, slot
  <2> QED BY <2>1, <2>2, GapStamp
<1>3. ASSUME WaiterSend PROVE NoGap'
  <2>1. PICK class \in {"finished", "exit"} : Stamp("waiter", class)
    BY <1>3 DEF WaiterSend
  <2>2. "waiter" \in Threads /\ class \in Classes
    BY DEF Threads, Classes, Stamped
  <2>3. UNCHANGED <<stage, queue, client>>
    BY <1>3 DEF WaiterSend, delivery, slot
  <2> QED BY <2>1, <2>2, <2>3, GapStamp
<1>4. ASSUME NEW t \in Threads, Record(t) PROVE NoGap'
  <2>1. /\ pc[t] = "stamped" /\ pc' = [pc EXCEPT ![t] = "recorded"]
        /\ UNCHANGED <<issued, msg, stage, queue, client>>
    BY <1>4 DEF Record, delivery, slot
  <2> QED BY <2>1, <1>0
<1>5. ASSUME NEW t \in Threads, Fanout(t) PROVE NoGap'
  <2>1. /\ pc[t] = "recorded" /\ pc' = [pc EXCEPT ![t] = "sending"]
        /\ stage' = [e \in Threads \X Conns |->
                     IF e[1] = t /\ e[2] \in Subs THEN "put" ELSE stage[e]]
        /\ UNCHANGED <<issued, msg, queue, client>>
    BY <1>5 DEF Fanout, ring, slot
  <2>2. ASSUME NEW c \in Conns, conn[c] = "live", NEW q, InFlight(c, q)
        PROVE  OnWay(msg', pc', stage', c, q)
    <3>1. PICK u \in Threads : /\ msg[u].seq = q
                               /\ pc[u] \in {"stamped", "recorded"} \/ stage[<<u, c>>] = "put"
      BY <2>2 DEF InFlight
    <3>2. c \in Subs
      BY <2>2 DEF Subs
    <3>3. CASE u = t
      <4>1. stage'[<<t, c>>] = "put"
        BY <2>1, <3>2
      <4> QED BY <2>1, <3>1, <3>3, <4>1 DEF OnWay
    <3>4. CASE u # t
      <4>1. stage'[<<u, c>>] = stage[<<u, c>>] /\ pc'[u] = pc[u] /\ msg'[u] = msg[u]
        BY <2>1, <3>4
      <4> QED BY <3>1, <4>1 DEF OnWay
    <3> QED BY <3>3, <3>4
  <2>3. \A c \in Conns : queue'[c] = queue[c]
    BY <2>1
  <2>4. \A c \in Conns : \A q \in Nat \ {0} :
           /\ Has(queue[c], q) => Has(queue'[c], q)
           /\ conn[c] = "live" /\ InFlight(c, q) /\ Structured(q) =>
                \/ Has(queue'[c], q)
                \/ OnWay(msg', pc', stage', c, q)
    <3>1. ASSUME NEW c \in Conns, NEW q \in Nat \ {0}, Has(queue[c], q) PROVE Has(queue'[c], q)
      BY <2>3, <3>1
    <3>2. ASSUME NEW c \in Conns, NEW q \in Nat \ {0}, conn[c] = "live", InFlight(c, q)
          PROVE  OnWay(msg', pc', stage', c, q)
      BY <2>2, <3>2
    <3> QED BY <3>1, <3>2
  <2> QED BY <2>1, <2>4, GapSame
<1>6. ASSUME NEW t \in Threads, Sent(t), \A u \in Threads : u # t => msg'[u] = msg[u] /\ pc'[u] = pc[u],
             UNCHANGED <<issued, stage, queue, client>>
      PROVE  NoGap'
  <2>1. pc[t] \notin {"stamped", "recorded"} /\ \A c \in Conns : stage[<<t, c>>] = "none"
    BY <1>6 DEF Sent
  <2> QED BY <1>0, <1>6, <2>1
<1>7. ASSUME NEW p \in Pumps, PumpReturn(p) PROVE NoGap'
  <2>1. p \in Threads
    BY DEF Threads
  <2>2. /\ Sent(p) /\ pc' = [pc EXCEPT ![p] = "idle"] /\ msg' = [msg EXCEPT ![p] = NoMsg]
        /\ UNCHANGED <<issued, stage, queue, client>>
    BY <1>7 DEF PumpReturn, ring, delivery, slot
  <2> QED BY <2>1, <2>2, <1>6
<1>8. ASSUME WaiterReturn PROVE NoGap'
  <2>1. "waiter" \in Threads
    BY DEF Threads
  <2>2. /\ Sent("waiter") /\ pc' = [pc EXCEPT !["waiter"] = "idle"]
        /\ msg' = [msg EXCEPT !["waiter"] = NoMsg]
        /\ UNCHANGED <<issued, stage, queue, client>>
    BY <1>8 DEF WaiterReturn, ring, delivery, slot
  <2> QED BY <2>1, <2>2, <1>6
<1>9. ASSUME NEW p \in Pumps, Eof(p) PROVE NoGap'
  <2>1. /\ pc[p] = "idle" /\ pc' = [pc EXCEPT ![p] = "eof"]
        /\ UNCHANGED <<issued, msg, stage, queue, client>>
    BY <1>9 DEF Eof, ring, delivery, slot
  <2> QED BY <2>1, <1>0
<1>10. ASSUME Join \/ Pop PROVE NoGap'
  <2>1. UNCHANGED <<issued, pc, msg, stage, queue, client>>
    BY <1>10 DEF Join, Pop, ring, thread, delivery, slot
  <2> QED BY <2>1, <1>0
<1>11. CASE Broker
  BY <1>11, <1>2, <1>3, <1>4, <1>5, <1>7, <1>8, <1>9, <1>10, GapDelivery DEF Broker
<1>12. CASE Client
  BY <1>12, GapClient DEF Client
<1> QED BY <1>1, <1>11, <1>12 DEF Next

LEMMA RingCorrect == Spec => []RingInv
<1>1. Init => RingInv
  <2> SUFFICES ASSUME Init PROVE RingInv
    OBVIOUS
  <2>1. issued = <<>>
    BY DEF Init
  <2> QED BY <2>1 DEF RingInv
<1> QED BY <1>1, RingStep, StreamTypes, PTL DEF Spec

\* A connected client misses no structured event later than the point it asked
\* for: between the ring, the queue and the broadcasting threads none is lost.
THEOREM StreamNoGap == Spec => []NoGap
<1>1. Init => NoGap
  <2> SUFFICES ASSUME Init PROVE NoGap
    OBVIOUS
  <2>1. Subs = {}
    BY DEF Init, Subs
  <2> QED BY <2>1 DEF NoGap
<1> QED BY <1>1, GapStep, RingCorrect, StreamTypes, PTL DEF Spec

-----------------------------------------------------------------------------
(***************************************************************************)
(* The waiter: what it is broadcasting in each of its states, what a pump  *)
(* may be broadcasting, and that the pumps are done once it has joined     *)
(* them.                                                                   *)
(***************************************************************************)
WaiterInv ==
  /\ waiter \in {"losing", "exiting"} <=> pc["waiter"] # "idle"
  /\ pc["waiter"] # "eof"
  /\ waiter = "exiting" => msg["waiter"].class = "exit"
  /\ waiter = "losing" => msg["waiter"].class = "finished"
  /\ msg["err"].class \in {"err", "text"}
  /\ msg["out"].class \in {"event", "finished", "chunk", "text"}
  /\ \A t \in Threads : pc[t] \in {"idle", "eof"} => msg[t] = NoMsg
  /\ ~timedOut /\ waiter # "join" => \A p \in Pumps : pc[p] = "eof"

LEMMA ThreadNames ==
  /\ "waiter" \in Threads /\ "out" \in Threads /\ "err" \in Threads
  /\ "out" \in Pumps /\ "err" \in Pumps
  /\ \A p \in Pumps : p \in Threads /\ p # "waiter" /\ p \in {"out", "err"}
  /\ \A t \in Threads : t \in {"out", "err", "waiter"}
BY DEF Threads, Pumps

\* A step of one thread that leaves the waiter where it is.
LEMMA WaiterSame ==
  ASSUME TypeOK, WaiterInv, NEW t \in Threads, UNCHANGED <<waiter, timedOut>>,
         \A u \in Threads : u # t => pc'[u] = pc[u] /\ msg'[u] = msg[u],
         msg'[t] = msg[t], pc[t] \notin {"idle", "eof"}, pc'[t] \notin {"idle", "eof"}
  PROVE  WaiterInv'
BY ThreadNames DEF WaiterInv

LEMMA WaiterRead ==
  ASSUME TypeOK, WaiterInv, NEW p \in Pumps, Read(p)
  PROVE  WaiterInv'
<1>1. /\ Lines[p][next[p]] \in {"event", "finished", "chunk", "text", "err"}
      /\ p = "err" => Lines[p][next[p]] = "err"
      /\ p = "out" => Lines[p][next[p]] # "err"
      /\ Lines[p][next[p]] \in Classes
  <2>1. ASSUME p = "out" PROVE Lines[p][next[p]] # "err"
    <3>1. next[p] \in Nat \ {0} /\ next[p] <= Len(Lines[p])
      BY DEF Read, TypeOK
    <3>2. Lines[p] = OutLines
      BY <2>1, LinesType
    <3> QED BY <3>1, <3>2, LinesAssumption
  <2> QED BY <2>1, ReadLine
<1>2. Stamp(p, Lines[p][next[p]]) /\ UNCHANGED waiting
  BY DEF Read
<1>3. p \in Threads /\ p # "waiter"
  BY ThreadNames
<1>4. /\ pc[p] = "idle" /\ pc' = [pc EXCEPT ![p] = "stamped"]
      /\ \A u \in Threads : u # p => msg'[u] = msg[u]
      /\ msg'[p].class = Lines[p][next[p]]
  BY <1>1, <1>2, <1>3, StampFacts
<1>5. pc'[p] = "stamped" /\ \A u \in Threads : u # p => pc'[u] = pc[u]
  BY <1>3, <1>4, TypeFacts
<1>6. waiter' = waiter /\ timedOut' = timedOut
  BY <1>2 DEF waiting
<1>7. ~(~timedOut /\ waiter # "join")
  BY <1>4 DEF WaiterInv
<1>8. /\ msg'["err"].class \in {"err", "text"}
      /\ msg'["out"].class \in {"event", "finished", "chunk", "text"}
  BY <1>1, <1>4, ThreadNames DEF WaiterInv
<1>9. /\ pc'["waiter"] = pc["waiter"] /\ msg'["waiter"] = msg["waiter"]
  BY <1>3, <1>4, <1>5, ThreadNames
<1>10. \A t \in Threads : pc'[t] \in {"idle", "eof"} => msg'[t] = NoMsg
  BY <1>4, <1>5 DEF WaiterInv
<1> QED BY <1>6, <1>7, <1>8, <1>9, <1>10 DEF WaiterInv

LEMMA WaiterStep ==
  TypeOK /\ WaiterInv /\ [Next]_vars => WaiterInv'
<1> SUFFICES ASSUME TypeOK, WaiterInv, [Next]_vars PROVE WaiterInv'
  OBVIOUS
<1> USE ThreadNames
<1>0. ASSUME UNCHANGED <<waiting, thread>> PROVE WaiterInv'
  BY <1>0 DEF WaiterInv, waiting, thread
<1>1. CASE UNCHANGED vars
  BY <1>0, <1>1 DEF vars, waiting, thread
<1>2. ASSUME NEW p \in Pumps, Read(p) PROVE WaiterInv'
  BY <1>2, WaiterRead
<1>3. ASSUME NEW p \in Pumps, PumpReturn(p) PROVE WaiterInv'
  <2>1. /\ pc[p] = "sending" /\ pc' = [pc EXCEPT ![p] = "idle"]
        /\ msg' = [msg EXCEPT ![p] = NoMsg] /\ waiter' = waiter /\ timedOut' = timedOut
    BY <1>3 DEF PumpReturn, Sent
  <2>2. /\ pc'[p] = "idle" /\ msg'[p] = NoMsg
        /\ \A u \in Threads : u # p => pc'[u] = pc[u] /\ msg'[u] = msg[u]
    BY <2>1, TypeFacts
  <2>3. ~(~timedOut /\ waiter # "join")
    BY <2>1 DEF WaiterInv
  <2>4. msg'["err"].class \in {"err", "text"}
    BY <2>2, NoMsgType DEF WaiterInv
  <2>5. msg'["out"].class \in {"event", "finished", "chunk", "text"}
    BY <2>2, NoMsgType DEF WaiterInv
  <2> QED BY <2>1, <2>2, <2>3, <2>4, <2>5 DEF WaiterInv
<1>4. ASSUME NEW p \in Pumps, Eof(p) PROVE WaiterInv'
  <2>1. /\ pc[p] = "idle" /\ pc' = [pc EXCEPT ![p] = "eof"]
        /\ msg' = msg /\ waiter' = waiter /\ timedOut' = timedOut
    BY <1>4 DEF Eof, waiting
  <2>2. pc'[p] = "eof" /\ \A u \in Threads : u # p => pc'[u] = pc[u]
    BY <2>1, TypeFacts
  <2> QED BY <2>1, <2>2 DEF WaiterInv
<1>5. ASSUME NEW t \in Threads, Record(t) PROVE WaiterInv'
  <2>1. /\ pc[t] = "stamped" /\ pc' = [pc EXCEPT ![t] = "recorded"]
        /\ msg' = msg /\ waiter' = waiter /\ timedOut' = timedOut
    BY <1>5 DEF Record, waiting
  <2>2. pc'[t] = "recorded" /\ \A u \in Threads : u # t => pc'[u] = pc[u]
    BY <2>1, TypeFacts
  <2> QED BY <2>1, <2>2, WaiterSame
<1>6. ASSUME NEW t \in Threads, Fanout(t) PROVE WaiterInv'
  <2>1. /\ pc[t] = "recorded" /\ pc' = [pc EXCEPT ![t] = "sending"]
        /\ msg' = msg /\ waiter' = waiter /\ timedOut' = timedOut
    BY <1>6 DEF Fanout, waiting
  <2>2. pc'[t] = "sending" /\ \A u \in Threads : u # t => pc'[u] = pc[u]
    BY <2>1, TypeFacts
  <2> QED BY <2>1, <2>2, WaiterSame
<1>7. ASSUME NEW t \in Threads, NEW c \in Conns,
             Deliver(t, c) \/ Drop(t, c) \/ TakeDrops(t, c) \/ Warn(t, c)
      PROVE  WaiterInv'
  BY <1>0, <1>7 DEF Deliver, Drop, TakeDrops, Warn
<1>8. ASSUME Join PROVE WaiterInv'
  <2>1. /\ waiter = "join" /\ waiter' \in {"exit", "lost"} /\ pc' = pc /\ msg' = msg
        /\ (\A p \in Pumps : pc[p] = "eof") \/ timedOut' = TRUE
    BY <1>8 DEF Join, Joined, thread
  <2> QED BY <2>1 DEF WaiterInv
<1>9. ASSUME WaiterSend PROVE WaiterInv'
  <2>1. PICK class \in {"finished", "exit"} :
          /\ Stamp("waiter", class)
          /\ \/ waiter = "lost" /\ waiter' = "losing" /\ class = "finished"
             \/ waiter = "exit" /\ waiter' = "exiting" /\ class = "exit"
    BY <1>9 DEF WaiterSend
  <2>2. timedOut' = timedOut
    BY <1>9 DEF WaiterSend
  <2>3. class \in Classes
    BY DEF Classes, Stamped
  <2>4. /\ pc["waiter"] = "idle" /\ pc' = [pc EXCEPT !["waiter"] = "stamped"]
        /\ \A u \in Threads : u # "waiter" => msg'[u] = msg[u]
        /\ msg'["waiter"].class = class
    BY <2>1, <2>3, StampFacts
  <2>5. pc'["waiter"] = "stamped" /\ \A u \in Threads : u # "waiter" => pc'[u] = pc[u]
    BY <2>4, TypeFacts
  <2> QED BY <2>1, <2>2, <2>4, <2>5 DEF WaiterInv
<1>10. ASSUME WaiterReturn PROVE WaiterInv'
  <2>1. /\ pc["waiter"] = "sending" /\ pc' = [pc EXCEPT !["waiter"] = "idle"]
        /\ msg' = [msg EXCEPT !["waiter"] = NoMsg] /\ waiter' \in {"exit", "pop"}
        /\ timedOut' = timedOut
    BY <1>10 DEF WaiterReturn, Sent, AfterSynthetic
  <2>2. /\ pc'["waiter"] = "idle" /\ msg'["waiter"] = NoMsg
        /\ \A u \in Threads : u # "waiter" => pc'[u] = pc[u] /\ msg'[u] = msg[u]
    BY <2>1, TypeFacts
  <2>3. waiter # "join"
    BY <2>1 DEF WaiterInv
  <2> QED BY <2>1, <2>2, <2>3 DEF WaiterInv
<1>11. ASSUME Pop PROVE WaiterInv'
  <2>1. waiter = "pop" /\ waiter' = "done" /\ timedOut' = timedOut /\ pc' = pc /\ msg' = msg
    BY <1>11 DEF Pop, thread
  <2> QED BY <2>1 DEF WaiterInv
<1>12. ASSUME NEW c \in Conns, Subscribe(c) \/ Get(c) \/ Leave(c) \/ GhostGet(c) PROVE WaiterInv'
  BY <1>0, <1>12 DEF Subscribe, Get, Leave, GhostGet
<1>13. CASE Broker
  BY <1>13, <1>2, <1>3, <1>4, <1>5, <1>6, <1>7, <1>8, <1>9, <1>10, <1>11 DEF Broker
<1>14. CASE Client
  BY <1>14, <1>12 DEF Client
<1> QED BY <1>1, <1>13, <1>14 DEF Next

LEMMA WaiterCorrect == Spec => []WaiterInv
<1>1. Init => WaiterInv
  <2> SUFFICES ASSUME Init PROVE WaiterInv
    OBVIOUS
  <2>1. waiter = "join" /\ \A t \in Threads : pc[t] = "idle" /\ msg[t] = NoMsg
    BY DEF Init
  <2> QED BY <2>1, ThreadNames, NoMsgType DEF WaiterInv
<1> QED BY <1>1, WaiterStep, StreamTypes, PTL DEF Spec

-----------------------------------------------------------------------------
(***************************************************************************)
(* One run_finished.  As long as the waiter joins, the worker's own one is *)
(* issued exactly if the pump has read it; what the tracker saw decides    *)
(* whether the waiter adds the synthetic one.                              *)
(***************************************************************************)
NoneIn(seqs) == \A q \in 1..Len(seqs) : seqs[q] # "finished"
OneIn(seqs) ==
  \E q \in 1..Len(seqs) :
    seqs[q] = "finished" /\ \A r \in 1..Len(seqs) : seqs[r] = "finished" => r = q

WroteUpTo(n) == \E i \in 1..(n - 1) : OutLines[i] = "finished"

FinInv ==
  /\ next["out"] <= Len(OutLines) + 1
  /\ (saw \/ msg["out"].class = "finished") <=> WroteUpTo(next["out"])
  /\ ~timedOut =>
       /\ waiter = "join" /\ WroteUpTo(next["out"]) => OneIn(issued)
       /\ waiter = "join" /\ ~WroteUpTo(next["out"]) => NoneIn(issued)
       /\ waiter = "lost" => NoneIn(issued)
       /\ waiter \notin {"join", "lost"} => OneIn(issued)

LEMMA FinAppend ==
  ASSUME NEW seqs \in Seq(Stamped), NEW class \in Stamped
  PROVE  /\ class # "finished" /\ NoneIn(seqs) => NoneIn(Append(seqs, class))
         /\ class # "finished" /\ OneIn(seqs) => OneIn(Append(seqs, class))
         /\ class = "finished" /\ NoneIn(seqs) => OneIn(Append(seqs, class))
<1> DEFINE s == Append(seqs, class)
<1>1. /\ Len(seqs) \in Nat /\ Len(s) = Len(seqs) + 1 /\ s[Len(s)] = class
      /\ \A q \in 1..Len(seqs) : s[q] = seqs[q] /\ q \in 1..Len(s) /\ q # Len(s)
      /\ \A q \in 1..Len(s) : q \in 1..Len(seqs) \/ q = Len(s)
      /\ Len(s) \in 1..Len(s)
  OBVIOUS
<1> HIDE DEF s
<1>2. class # "finished" /\ NoneIn(seqs) => NoneIn(s)
  BY <1>1 DEF NoneIn
<1>3. ASSUME class # "finished", OneIn(seqs) PROVE OneIn(s)
  <2>1. PICK q \in 1..Len(seqs) :
          seqs[q] = "finished" /\ \A r \in 1..Len(seqs) : seqs[r] = "finished" => r = q
    BY <1>3 DEF OneIn
  <2>2. \A r \in 1..Len(s) : s[r] = "finished" => r = q
    BY <2>1, <1>1, <1>3
  <2> QED BY <2>1, <2>2, <1>1 DEF OneIn
<1>4. ASSUME class = "finished", NoneIn(seqs) PROVE OneIn(s)
  <2>1. \A r \in 1..Len(s) : s[r] = "finished" => r = Len(s)
    BY <1>1, <1>4 DEF NoneIn
  <2> QED BY <2>1, <1>1, <1>4 DEF OneIn
<1> QED BY <1>2, <1>3, <1>4 DEF s

\* A step that issues nothing, reads nothing and tracks nothing.
LEMMA FinSame ==
  ASSUME FinInv, UNCHANGED <<issued, waiter, timedOut>>, next'["out"] = next["out"],
         saw' = saw, msg'["out"] = msg["out"]
  PROVE  FinInv'
BY DEF FinInv

LEMMA FinRead ==
  ASSUME TypeOK, WaiterInv, FinInv, NEW p \in Pumps, Read(p)
  PROVE  FinInv'
<1>0. PICK class : class = Lines[p][next[p]]
  OBVIOUS
<1>1. class \in Classes /\ (p = "err" => class = "err")
  BY <1>0, ReadLine
<1>2. /\ Stamp(p, class) /\ next' = [next EXCEPT ![p] = @ + 1]
      /\ next[p] <= Len(Lines[p]) /\ UNCHANGED waiting
  BY <1>0 DEF Read
<1>3. p \in Threads
  BY ThreadNames
<1>4. /\ pc[p] = "idle"
      /\ \A u \in Threads : u # p => msg'[u] = msg[u]
      /\ msg'[p].class = class
      /\ class \notin Stamped => issued' = issued
      /\ class \in Stamped => issued' = Append(issued, class)
  BY <1>1, <1>2, <1>3, StampFacts
<1>5. waiter' = waiter /\ timedOut' = timedOut /\ saw' = saw
  BY <1>2 DEF waiting
<1>6. CASE p = "err"
  <2>1. class \notin Stamped
    BY <1>1, <1>6 DEF Stamped
  <2>2. next'["out"] = next["out"]
    BY <1>2, <1>6, ThreadNames DEF TypeOK
  <2> QED BY <2>1, <2>2, <1>4, <1>5, <1>6, FinSame, ThreadNames
<1>7. CASE p = "out"
  <2> DEFINE n == next["out"]
  <2>1. /\ n \in Nat \ {0} /\ next'["out"] = n + 1
        /\ class = OutLines[n] /\ n <= Len(OutLines) /\ Len(OutLines) \in Nat
    BY <1>0, <1>2, <1>7, LinesType, LinesAssumption, ThreadNames DEF TypeOK
  <2>2. msg["out"] = NoMsg /\ NoMsg.class # "finished"
    BY <1>4, <1>7, ThreadNames, NoMsgType DEF WaiterInv
  <2>3. ~timedOut => waiter = "join"
    BY <1>4, <1>7 DEF WaiterInv
  <2>4. saw <=> WroteUpTo(n)
    BY <2>2 DEF FinInv
  <2>5. WroteUpTo(n + 1) <=> WroteUpTo(n) \/ class = "finished"
    <3>1. \A i \in 1..n : i \in 1..(n - 1) \/ i = n
      BY <2>1
    <3>2. (n + 1) - 1 = n /\ n \in 1..n /\ \A i \in 1..(n - 1) : i \in 1..n
      BY <2>1
    <3> HIDE DEF n
    <3> QED BY <3>1, <3>2, <2>1 DEF WroteUpTo
  <2>6. class = "finished" => ~WroteUpTo(n)
    <3> SUFFICES ASSUME class = "finished", NEW i \in 1..(n - 1), OutLines[i] = "finished"
                 PROVE  FALSE
      BY DEF WroteUpTo
    <3>1. i \in 1..Len(OutLines) /\ n \in 1..Len(OutLines) /\ i # n
      BY <2>1
    <3> QED BY <3>1, <2>1, FinishedAssumption
  <2> HIDE DEF n
  <2>7. issued \in Seq(Stamped) /\ n = next["out"]
    BY TypeFacts DEF n
  <2>8. (saw' \/ msg'["out"].class = "finished") <=> WroteUpTo(n + 1)
    BY <2>4, <2>5, <1>4, <1>5, <1>7
  <2>9. "finished" \in Stamped
    BY DEF Stamped
  <2>10. ASSUME ~timedOut
         PROVE  /\ WroteUpTo(n + 1) => OneIn(issued')
                /\ ~WroteUpTo(n + 1) => NoneIn(issued')
    <3>1. /\ WroteUpTo(n) => OneIn(issued)
          /\ ~WroteUpTo(n) => NoneIn(issued)
      BY <2>3, <2>7, <2>10 DEF FinInv
    <3>2. CASE class = "finished"
      <4>1. NoneIn(issued) /\ issued' = Append(issued, class) /\ class \in Stamped
        BY <3>1, <3>2, <2>6, <2>9, <1>4
      <4> QED BY <4>1, <3>2, <2>5, <2>7, FinAppend
    <3>3. CASE class # "finished" /\ class \in Stamped
      <4>1. issued' = Append(issued, class)
        BY <3>3, <1>4
      <4> QED BY <4>1, <3>1, <3>3, <2>5, <2>7, FinAppend
    <3>4. CASE class \notin Stamped
      BY <3>1, <3>4, <2>5, <2>9, <1>4
    <3> QED BY <3>2, <3>3, <3>4
  <2>11. n + 1 <= Len(OutLines) + 1
    BY <2>1, <2>7
  <2> QED BY <2>1, <2>3, <2>8, <2>10, <2>11, <1>5 DEF FinInv
<1> QED BY <1>6, <1>7, ThreadNames

LEMMA FinStep ==
  TypeOK /\ WaiterInv /\ FinInv /\ [Next]_vars => FinInv'
<1> SUFFICES ASSUME TypeOK, WaiterInv, FinInv, [Next]_vars PROVE FinInv'
  OBVIOUS
<1> USE ThreadNames
<1>1. CASE UNCHANGED vars
  BY <1>1, FinSame DEF vars
<1>2. ASSUME NEW p \in Pumps, Read(p) PROVE FinInv'
  BY <1>2, FinRead
<1>3. ASSUME NEW p \in Pumps, PumpReturn(p) PROVE FinInv'
  <2>1. /\ msg' = [msg EXCEPT ![p] = NoMsg]
        /\ saw' = (saw \/ (p = "out" /\ msg[p].class = "finished"))
        /\ UNCHANGED <<issued, waiter, timedOut, next>>
    BY <1>3 DEF PumpReturn, Track, ring
  <2>2. CASE p = "err"
    <3>1. msg'["out"] = msg["out"]
      BY <2>1, <2>2, TypeFacts
    <3>2. saw' = saw
      <4>1. p # "out" /\ saw \in BOOLEAN
        BY <2>2 DEF TypeOK
      <4> QED BY <2>1, <4>1, Zenon
    <3> QED BY <2>1, <3>1, <3>2, FinSame
  <2>3. CASE p = "out"
    <3>1. msg'["out"] = NoMsg /\ NoMsg.class # "finished"
      BY <2>1, <2>3, TypeFacts, NoMsgType
    <3>2. saw' <=> (saw \/ msg["out"].class = "finished")
      BY <2>1, <2>3, Zenon
    <3>3. (saw' \/ msg'["out"].class = "finished") <=> WroteUpTo(next["out"])
      BY <3>1, <3>2 DEF FinInv
    <3> QED BY <2>1, <3>3 DEF FinInv
  <2> QED BY <2>2, <2>3
<1>4. ASSUME NEW p \in Pumps, Eof(p) PROVE FinInv'
  BY <1>4, FinSame DEF Eof, waiting, ring
<1>5. ASSUME NEW t \in Threads, Record(t) PROVE FinInv'
  BY <1>5, FinSame DEF Record, waiting
<1>6. ASSUME NEW t \in Threads, Fanout(t) PROVE FinInv'
  BY <1>6, FinSame DEF Fanout, waiting, ring
<1>7. ASSUME NEW t \in Threads, NEW c \in Conns,
             Deliver(t, c) \/ Drop(t, c) \/ TakeDrops(t, c) \/ Warn(t, c)
      PROVE  FinInv'
  BY <1>7, FinSame DEF Deliver, Drop, TakeDrops, Warn, waiting, ring, thread
<1>8. ASSUME Join PROVE FinInv'
  <2>1. /\ waiter = "join"
        /\ ((\A p \in Pumps : pc[p] = "eof") /\ timedOut' = timedOut) \/ timedOut' = TRUE
        /\ waiter' = IF saw THEN "exit" ELSE "lost"
        /\ UNCHANGED <<next, saw, issued, msg>>
    BY <1>8 DEF Join, Joined, ring, thread
  <2>2. ASSUME ~timedOut'
        PROVE  /\ waiter' = "exit" => OneIn(issued)
               /\ waiter' = "lost" => NoneIn(issued)
    <3>1. ~timedOut /\ pc["out"] = "eof"
      BY <2>1, <2>2
    <3>2. msg["out"] = NoMsg /\ NoMsg.class # "finished"
      BY <3>1, NoMsgType DEF WaiterInv
    <3>3. saw <=> WroteUpTo(next["out"])
      BY <3>2 DEF FinInv
    <3>4. CASE saw
      <4>1. waiter' = "exit"
        BY <2>1, <3>4
      <4>2. OneIn(issued)
        BY <2>1, <3>1, <3>3, <3>4 DEF FinInv
      <4> QED BY <4>1, <4>2
    <3>5. CASE ~saw
      <4>1. waiter' = "lost"
        BY <2>1, <3>5
      <4>2. NoneIn(issued)
        BY <2>1, <3>1, <3>3, <3>5 DEF FinInv
      <4> QED BY <4>1, <4>2
    <3> QED BY <3>4, <3>5
  <2>3. waiter' \in {"exit", "lost"}
    BY <2>1
  <2> QED BY <2>1, <2>2, <2>3 DEF FinInv
<1>9. ASSUME WaiterSend PROVE FinInv'
  <2>1. PICK class \in {"finished", "exit"} :
          /\ Stamp("waiter", class)
          /\ \/ waiter = "lost" /\ waiter' = "losing" /\ class = "finished"
             \/ waiter = "exit" /\ waiter' = "exiting" /\ class = "exit"
    BY <1>9 DEF WaiterSend
  <2>2. UNCHANGED <<next, timedOut, saw>>
    BY <1>9 DEF WaiterSend
  <2>3. class \in Classes /\ "finished" \in Stamped /\ "exit" \notin Stamped
    BY DEF Classes, Stamped, Droppable
  <2>4. /\ \A u \in Threads : u # "waiter" => msg'[u] = msg[u]
        /\ class \notin Stamped => issued' = issued
        /\ class \in Stamped => issued' = Append(issued, class)
    BY <2>1, <2>3, StampFacts
  <2>5. msg'["out"] = msg["out"] /\ issued \in Seq(Stamped)
    BY <2>4, TypeFacts
  <2>6. ASSUME ~timedOut PROVE waiter' \notin {"join", "lost"} /\ OneIn(issued')
    <3>1. CASE waiter = "lost" /\ waiter' = "losing" /\ class = "finished"
      <4>1. NoneIn(issued) /\ issued' = Append(issued, class)
        BY <2>3, <2>4, <2>6, <3>1 DEF FinInv
      <4>2. OneIn(issued')
        BY <4>1, <3>1, <2>3, <2>5, FinAppend
      <4> QED BY <4>2, <3>1
    <3>2. CASE waiter = "exit" /\ waiter' = "exiting" /\ class = "exit"
      BY <3>2, <2>3, <2>4, <2>6 DEF FinInv
    <3> QED BY <2>1, <3>1, <3>2
  <2>7. waiter' \notin {"join", "lost"}
    BY <2>1
  <2> QED BY <2>2, <2>5, <2>6, <2>7 DEF FinInv
<1>10. ASSUME WaiterReturn PROVE FinInv'
  <2>1. /\ pc["waiter"] = "sending" /\ msg' = [msg EXCEPT !["waiter"] = NoMsg]
        /\ waiter' \in {"exit", "pop"} /\ UNCHANGED <<next, timedOut, saw, issued>>
    BY <1>10 DEF WaiterReturn, Sent, AfterSynthetic, ring
  <2>2. msg'["out"] = msg["out"]
    BY <2>1, TypeFacts
  <2>3. waiter \notin {"join", "lost"}
    BY <2>1 DEF WaiterInv
  <2> QED BY <2>1, <2>2, <2>3 DEF FinInv
<1>11. ASSUME Pop PROVE FinInv'
  <2>1. waiter = "pop" /\ waiter' = "done" /\ UNCHANGED <<next, timedOut, saw, issued, msg>>
    BY <1>11 DEF Pop, ring, thread
  <2> QED BY <2>1 DEF FinInv
<1>12. ASSUME NEW c \in Conns, Subscribe(c) \/ Get(c) \/ Leave(c) \/ GhostGet(c) PROVE FinInv'
  BY <1>12, FinSame DEF Subscribe, Get, Leave, GhostGet, waiting, ring, thread
<1>13. CASE Broker
  BY <1>13, <1>2, <1>3, <1>4, <1>5, <1>6, <1>7, <1>8, <1>9, <1>10, <1>11 DEF Broker
<1>14. CASE Client
  BY <1>14, <1>12 DEF Client
<1> QED BY <1>1, <1>13, <1>14 DEF Next

\* By the time of its exit frame a run has exactly one run_finished, the one the
\* worker wrote or the synthetic one, unless a join timed out.
THEOREM StreamOneRunFinished == Spec => []OneRunFinished
<1>1. Init => FinInv
  <2> SUFFICES ASSUME Init PROVE FinInv
    OBVIOUS
  <2>1. /\ next["out"] = 1 /\ saw = FALSE /\ msg["out"] = NoMsg /\ issued = <<>>
        /\ waiter = "join" /\ NoMsg.class # "finished"
    BY ThreadNames, NoMsgType DEF Init
  <2>2. ~WroteUpTo(1)
    BY DEF WroteUpTo
  <2>3. NoneIn(issued)
    BY <2>1 DEF NoneIn
  <2>4. 1 <= Len(OutLines) + 1
    BY LinesAssumption
  <2> QED BY <2>1, <2>2, <2>3, <2>4 DEF FinInv
<1>2. TypeOK /\ FinInv => OneRunFinished
  <2> SUFFICES ASSUME TypeOK, FinInv, ~timedOut, waiter \in {"exiting", "pop", "done"}
               PROVE  Cardinality({q \in 1..Len(issued) : issued[q] = "finished"}) = 1
    BY DEF OneRunFinished
  <2>1. PICK q \in 1..Len(issued) :
          issued[q] = "finished" /\ \A r \in 1..Len(issued) : issued[r] = "finished" => r = q
    BY DEF FinInv, OneIn
  <2>2. {r \in 1..Len(issued) : issued[r] = "finished"} = {q}
    BY <2>1
  <2> QED BY <2>2, FS_Singleton
<1> QED BY <1>1, <1>2, FinStep, WaiterCorrect, StreamTypes, PTL DEF Spec

-----------------------------------------------------------------------------
(***************************************************************************)
(* Order.  Unless a join timed out only one thread at a time has a         *)
(* numbered line, the latest one, so lines are filed and put in order.     *)
(***************************************************************************)
Sorted(s) ==
  \A i, j \in 1..Len(s) : i < j /\ s[i].seq > 0 /\ s[j].seq > 0 => s[i].seq <= s[j].seq
Before(s, t) ==
  \A i \in 1..Len(s), j \in 1..Len(t) : s[i].seq > 0 /\ t[j].seq > 0 => s[i].seq <= t[j].seq

\* Nothing was put or sent to a connection that has not subscribed yet.
IdleInv ==
  \A c \in Conns : conn[c] = "idle" =>
    queue[c] = <<>> /\ got[c] = <<>> /\ \A t \in Threads : stage[<<t, c>>] = "none"

LatestInv == ~timedOut => \A t \in Threads : msg[t].seq > 0 => msg[t].seq = Len(issued)

OrderInv ==
  ~timedOut =>
    /\ Sorted(replay)
    /\ \A c \in Conns : Sorted(got[c]) /\ Sorted(queue[c]) /\ Before(got[c], queue[c])

LEMMA SortedAppend ==
  ASSUME NEW s \in Seq(Msg), NEW m \in Msg, Sorted(s),
         \A i \in 1..Len(s) : s[i].seq > 0 /\ m.seq > 0 => s[i].seq <= m.seq
  PROVE  Sorted(Append(s, m))
<1> DEFINE t == Append(s, m)
<1>1. /\ Len(s) \in Nat /\ Len(t) = Len(s) + 1 /\ t[Len(t)] = m
      /\ \A i \in 1..Len(s) : t[i] = s[i]
  OBVIOUS
<1> HIDE DEF t
<1>2. ASSUME NEW i \in 1..Len(t), NEW j \in 1..Len(t), i < j, t[i].seq > 0, t[j].seq > 0
      PROVE  t[i].seq <= t[j].seq
  <2>1. i \in 1..Len(s)
    BY <1>1, <1>2
  <2>2. CASE j \in 1..Len(s)
    BY <1>1, <1>2, <2>1, <2>2 DEF Sorted
  <2>3. CASE j = Len(t)
    BY <1>1, <1>2, <2>1, <2>3
  <2> QED BY <1>1, <2>2, <2>3
<1>3. Sorted(t)
  BY <1>2 DEF Sorted
<1> QED BY <1>3 DEF t

LEMMA SortedTail ==
  ASSUME NEW s \in Seq(Msg), s # <<>>, Sorted(s)
  PROVE  /\ Sorted(Tail(s))
         /\ \A i \in 1..Len(Tail(s)) :
              Head(s).seq > 0 /\ Tail(s)[i].seq > 0 => Head(s).seq <= Tail(s)[i].seq
<1> DEFINE t == Tail(s)
<1>1. /\ Len(t) = Len(s) - 1 /\ Len(s) \in Nat \ {0} /\ Head(s) = s[1]
      /\ \A i \in 1..Len(t) : t[i] = s[i + 1] /\ i + 1 \in 1..Len(s)
  BY TailFacts
<1> HIDE DEF t
<1>2. ASSUME NEW i \in 1..Len(t), NEW j \in 1..Len(t), i < j, t[i].seq > 0, t[j].seq > 0
      PROVE  t[i].seq <= t[j].seq
  <2>1. i + 1 < j + 1
    BY <1>1, <1>2
  <2> QED BY <1>1, <1>2, <2>1 DEF Sorted
<1>3. ASSUME NEW i \in 1..Len(t), Head(s).seq > 0, t[i].seq > 0
      PROVE  Head(s).seq <= t[i].seq
  <2>1. 1 \in 1..Len(s) /\ 1 < i + 1
    BY <1>1
  <2> QED BY <1>1, <1>3, <2>1 DEF Sorted
<1>4. Sorted(t)
  BY <1>2 DEF Sorted
<1> QED BY <1>3, <1>4 DEF t

LEMMA SortedPicked ==
  ASSUME NEW s, NEW t, NEW key, Sorted(s), Picked(t, s, key, Len(s))
  PROVE  Sorted(t)
<1>1. ASSUME NEW k \in 1..Len(t), NEW l \in 1..Len(t), k < l, t[k].seq > 0, t[l].seq > 0
      PROVE  t[k].seq <= t[l].seq
  <2>1. PICK i, j \in 1..Len(s) : i < j /\ t[k] = s[i] /\ t[l] = s[j]
    BY <1>1 DEF Picked
  <2> QED BY <1>1, <2>1 DEF Sorted
<1> QED BY <1>1 DEF Sorted

\* A got before a queue, when the queue gets another message at its end.
LEMMA BeforeAppend ==
  ASSUME NEW s, NEW t \in Seq(Msg), NEW m \in Msg, Before(s, t),
         \A i \in 1..Len(s) : s[i].seq > 0 /\ m.seq > 0 => s[i].seq <= m.seq
  PROVE  Before(s, Append(t, m))
<1>1. /\ Append(t, m)[Len(t) + 1] = m
      /\ \A i \in 1..Len(t) : Append(t, m)[i] = t[i]
      /\ \A i \in 1..Len(Append(t, m)) : i \in 1..Len(t) \/ i = Len(t) + 1
  BY AppendFacts
<1> QED BY <1>1 DEF Before

\* The head of the queue moves to the end of got.
LEMMA OrderMove ==
  ASSUME NEW s \in Seq(Msg), NEW t \in Seq(Msg), t # <<>>,
         Sorted(s), Sorted(t), Before(s, t)
  PROVE  /\ Sorted(Append(s, Head(t))) /\ Sorted(Tail(t))
         /\ Before(Append(s, Head(t)), Tail(t))
<1> DEFINE m == Head(t)
           r == Tail(t)
           a == Append(s, m)
<1>1. /\ r \in Seq(Msg) /\ Len(t) \in Nat \ {0} /\ m = t[1] /\ m \in Msg
      /\ \A i \in 1..Len(r) : r[i] = t[i + 1] /\ i + 1 \in 1..Len(t)
  BY TailFacts
<1>2. /\ Sorted(r)
      /\ \A i \in 1..Len(r) : m.seq > 0 /\ r[i].seq > 0 => m.seq <= r[i].seq
  BY SortedTail
<1>3. 1 \in 1..Len(t)
  BY <1>1
<1> HIDE DEF m, r
<1>4. \A i \in 1..Len(s) : s[i].seq > 0 /\ m.seq > 0 => s[i].seq <= m.seq
  BY <1>1, <1>3 DEF Before
<1>5. Sorted(a)
  BY <1>1, <1>4, SortedAppend
<1>6. /\ a[Len(s) + 1] = m
      /\ \A i \in 1..Len(s) : a[i] = s[i]
      /\ \A i \in 1..Len(a) : i \in 1..Len(s) \/ i = Len(s) + 1
  BY <1>1, AppendFacts
<1> HIDE DEF a
<1>7. Before(a, r)
  <2>1. ASSUME NEW i \in 1..Len(a), NEW j \in 1..Len(r), a[i].seq > 0, r[j].seq > 0
        PROVE  a[i].seq <= r[j].seq
    <3>1. CASE i = Len(s) + 1
      BY <3>1, <2>1, <1>2, <1>6
    <3>2. CASE i \in 1..Len(s)
      BY <3>2, <2>1, <1>1, <1>6 DEF Before
    <3> QED BY <3>1, <3>2, <1>6
  <2> QED BY <2>1 DEF Before
<1> QED BY <1>2, <1>5, <1>7 DEF m, r, a

LEMMA IdleStep ==
  TypeOK /\ IdleInv /\ [Next]_vars => IdleInv'
<1> SUFFICES ASSUME TypeOK, IdleInv, [Next]_vars PROVE IdleInv'
  OBVIOUS
<1> USE TypeFacts
<1>0. ASSUME UNCHANGED <<conn, queue, got, stage>> PROVE IdleInv'
  BY <1>0 DEF IdleInv
<1>1. CASE UNCHANGED vars
  BY <1>0, <1>1 DEF vars
<1>2. ASSUME NEW t \in Threads, Fanout(t) PROVE IdleInv'
  <2>1. /\ stage' = [e \in Threads \X Conns |->
                     IF e[1] = t /\ e[2] \in Subs THEN "put" ELSE stage[e]]
        /\ UNCHANGED <<conn, queue, got>>
    BY <1>2 DEF Fanout, slot, client
  <2>2. \A c \in Conns : conn[c] = "idle" => \A u \in Threads : stage'[<<u, c>>] = stage[<<u, c>>]
    BY <2>1 DEF Subs
  <2> QED BY <2>1, <2>2 DEF IdleInv
<1>3. ASSUME NEW t \in Threads, NEW c \in Conns,
             Deliver(t, c) \/ Drop(t, c) \/ TakeDrops(t, c) \/ Warn(t, c)
      PROVE  IdleInv'
  <2>1. /\ stage[<<t, c>>] # "none" /\ UNCHANGED <<conn, got>>
        /\ \A u \in Threads, d \in Conns : <<u, d>> # <<t, c>> => stage'[<<u, d>>] = stage[<<u, d>>]
        /\ \/ queue' = queue
           \/ \E m \in Msg : /\ m = msg[t] \/ (m.class = "warn" /\ m.seq = 0)
                             /\ queue' = [queue EXCEPT ![c] = Append(queue[c], m)]
    BY <1>3, DeliveryQueues DEF client
  <2>2. conn[c] # "idle"
    BY <2>1 DEF IdleInv
  <2>3. \A d \in Conns : d # c => queue'[d] = queue[d]
    BY <2>1
  <2> QED BY <2>1, <2>2, <2>3 DEF IdleInv
<1>4. ASSUME NEW c \in Conns, Subscribe(c) \/ Get(c) \/ Leave(c) \/ GhostGet(c)
      PROVE  IdleInv'
  <2>1. /\ stage' = stage
        /\ \A d \in Conns : d # c => conn'[d] = conn[d] /\ queue'[d] = queue[d] /\ got'[d] = got[d]
    BY <1>4 DEF Subscribe, Get, Leave, GhostGet, delivery, slot
  <2>2. conn'[c] # "idle"
    BY <1>4 DEF Subscribe, Get, Leave, GhostGet
  <2> QED BY <2>1, <2>2 DEF IdleInv
<1>5. CASE Broker
  <2>1. ASSUME NEW p \in Pumps, Read(p) \/ PumpReturn(p) \/ Eof(p) PROVE IdleInv'
    BY <1>0, <2>1 DEF Read, PumpReturn, Eof, delivery, slot, client
  <2>2. ASSUME NEW t \in Threads, Record(t) PROVE IdleInv'
    BY <1>0, <2>2 DEF Record, delivery, slot, client
  <2>3. ASSUME Join \/ WaiterSend \/ WaiterReturn \/ Pop PROVE IdleInv'
    BY <1>0, <2>3 DEF Join, WaiterSend, WaiterReturn, Pop, delivery, slot, client
  <2> QED BY <1>2, <1>3, <1>5, <2>1, <2>2, <2>3 DEF Broker
<1>6. CASE Client
  BY <1>4, <1>6 DEF Client
<1> QED BY <1>1, <1>5, <1>6 DEF Next

LEMMA IdleCorrect == Spec => []IdleInv
<1>1. Init => IdleInv
  BY DEF Init, IdleInv
<1> QED BY <1>1, IdleStep, StreamTypes, PTL DEF Spec

LEMMA LatestStamp ==
  ASSUME TypeOK, NEW t \in Threads, NEW class \in Classes, Stamp(t, class),
         LatestInv, UNCHANGED timedOut,
         class \in Stamped /\ ~timedOut => \A u \in Threads : u # t => msg[u].seq = 0
  PROVE  LatestInv'
<1>1. /\ \A u \in Threads : u # t => msg'[u] = msg[u]
      /\ class \notin Stamped => issued' = issued /\ msg'[t].seq = 0
      /\ class \in Stamped => msg'[t].seq = Len(issued')
  BY StampFacts
<1> QED BY <1>1 DEF LatestInv

LEMMA LatestStep ==
  TypeOK /\ StreamInv /\ WaiterInv /\ LatestInv /\ [Next]_vars => LatestInv'
<1> SUFFICES ASSUME TypeOK, StreamInv, WaiterInv, LatestInv, [Next]_vars PROVE LatestInv'
  OBVIOUS
<1> USE ThreadNames
<1>0. ASSUME UNCHANGED <<timedOut, issued>>, \A t \in Threads : msg'[t] = msg[t] \/ msg'[t] = NoMsg
      PROVE  LatestInv'
  BY <1>0, NoMsgType DEF LatestInv
<1>1. CASE UNCHANGED vars
  BY <1>0, <1>1 DEF vars
<1>2. ASSUME NEW p \in Pumps, Read(p) PROVE LatestInv'
  <2>1. PICK class \in Classes : class = Lines[p][next[p]] /\ (p = "err" => class = "err")
    BY <1>2, ReadLine
  <2>2. Stamp(p, class) /\ UNCHANGED timedOut /\ pc[p] = "idle"
    BY <1>2, <2>1 DEF Read, waiting, Stamp
  <2>3. ASSUME class \in Stamped, ~timedOut, NEW u \in Threads, u # p PROVE msg[u].seq = 0
    <3>1. p = "out"
      BY <2>1, <2>3 DEF Stamped
    <3>2. CASE u = "waiter"
      <4>1. waiter = "join"
        BY <2>2, <2>3 DEF WaiterInv
      <4>2. msg["waiter"] = NoMsg
        BY <4>1 DEF WaiterInv
      <4> QED BY <3>2, <4>2, NoMsgType
    <3>3. CASE u = "err"
      <4>1. msg["err"].class \notin Stamped /\ msg["err"].seq \in Nat
        BY TypeFacts DEF WaiterInv, Stamped, Msg
      <4>2. msg["err"].seq # 0 =>
              msg["err"].class = issued[msg["err"].seq] /\ msg["err"].seq \in 1..Len(issued)
        BY <4>1, TypeFacts DEF StreamInv, Fine
      <4>3. \A q \in 1..Len(issued) : issued[q] \in Stamped
        BY TypeFacts
      <4> QED BY <3>3, <4>1, <4>2, <4>3
    <3> QED BY <2>3, <3>1, <3>2, <3>3
  <2> QED BY <2>2, <2>3, LatestStamp
<1>3. ASSUME WaiterSend PROVE LatestInv'
  <2>1. PICK class \in {"finished", "exit"} : Stamp("waiter", class) /\ waiter # "join"
    BY <1>3 DEF WaiterSend
  <2>2. class \in Classes /\ UNCHANGED timedOut
    BY <1>3 DEF Classes, Stamped, WaiterSend
  <2>3. ASSUME ~timedOut, NEW u \in Threads, u # "waiter" PROVE msg[u].seq = 0
    <3>1. u \in Pumps
      BY <2>3
    <3>2. pc[u] = "eof"
      BY <2>1, <2>3, <3>1 DEF WaiterInv
    <3>3. msg[u] = NoMsg
      BY <3>2 DEF WaiterInv
    <3> QED BY <3>3, NoMsgType
  <2> QED BY <2>1, <2>2, <2>3, LatestStamp
<1>4. ASSUME NEW p \in Pumps, PumpReturn(p) \/ Eof(p) PROVE LatestInv'
  BY <1>0, <1>4, TypeFacts DEF PumpReturn, Eof, waiting, ring
<1>5. ASSUME NEW t \in Threads, Record(t) \/ Fanout(t) PROVE LatestInv'
  BY <1>0, <1>5 DEF Record, Fanout, waiting, ring
<1>6. ASSUME NEW t \in Threads, NEW c \in Conns,
             Deliver(t, c) \/ Drop(t, c) \/ TakeDrops(t, c) \/ Warn(t, c)
      PROVE  LatestInv'
  BY <1>0, <1>6 DEF Deliver, Drop, TakeDrops, Warn, waiting, ring, thread
<1>7. ASSUME Join PROVE LatestInv'
  <2>1. (timedOut' = timedOut \/ timedOut' = TRUE) /\ UNCHANGED <<issued, msg>>
    BY <1>7 DEF Join, ring, thread
  <2> QED BY <2>1 DEF LatestInv
<1>8. ASSUME WaiterReturn \/ Pop PROVE LatestInv'
  BY <1>0, <1>8, TypeFacts DEF WaiterReturn, Pop, ring, thread
<1>9. ASSUME NEW c \in Conns, Subscribe(c) \/ Get(c) \/ Leave(c) \/ GhostGet(c) PROVE LatestInv'
  BY <1>0, <1>9 DEF Subscribe, Get, Leave, GhostGet, waiting, ring, thread
<1>10. CASE Broker
  BY <1>10, <1>2, <1>3, <1>4, <1>5, <1>6, <1>7, <1>8 DEF Broker
<1>11. CASE Client
  BY <1>9, <1>11 DEF Client
<1> QED BY <1>1, <1>10, <1>11 DEF Next

LEMMA LatestCorrect == Spec => []LatestInv
<1>1. Init => LatestInv
  <2>1. Init => \A t \in Threads : msg[t].seq = 0
    BY NoMsgType DEF Init
  <2> QED BY <2>1 DEF LatestInv
<1> QED BY <1>1, LatestStep, WaiterCorrect, StreamTypes, PTL DEF Spec

\* No message of a sequence is later than the one that is added now.
LEMMA NoneLater ==
  ASSUME StreamInv, LatestInv, ~timedOut, NEW t \in Threads,
         NEW s \in Seq(Msg), AllFine(s), NEW i \in 1..Len(s), msg[t].seq > 0
  PROVE  s[i].seq <= msg[t].seq
<1>1. s[i].seq \in 0..Len(issued)
  BY DEF AllFine, Fine
<1>2. msg[t].seq = Len(issued)
  BY DEF LatestInv
<1> QED BY <1>1, <1>2

LEMMA OrderRecord ==
  ASSUME TypeOK, StreamInv, LatestInv, OrderInv, ~timedOut, NEW t \in Threads, Record(t)
  PROVE  Sorted(replay')
<1> DEFINE all == Append(replay, msg[t])
<1>1. /\ all \in Seq(Msg) /\ Len(all) = Len(replay) + 1 /\ Len(replay) \in Nat
      /\ \E out \in 0..Len(all) :
           /\ replay' \in Seq(Msg) /\ Len(replay') = Len(all) - out
           /\ Len(replay') <= ReplaySize
           /\ \A i \in 1..Len(replay') : replay'[i] = all[i + out]
           /\ \A i \in 1..out : all[i].seq <= evicted'
  BY RecordFacts
<1>2. \A i \in 1..Len(replay) : replay[i].seq > 0 /\ msg[t].seq > 0 => replay[i].seq <= msg[t].seq
  BY TypeFacts, NoneLater DEF StreamInv
<1>3. Sorted(all)
  BY <1>2, TypeFacts, SortedAppend DEF OrderInv
<1> HIDE DEF all
<1>4. PICK out \in 0..Len(all) :
           /\ replay' \in Seq(Msg) /\ Len(replay') = Len(all) - out
           /\ \A i \in 1..Len(replay') : replay'[i] = all[i + out]
  BY <1>1
<1>5. ASSUME NEW i \in 1..Len(replay'), NEW j \in 1..Len(replay'), i < j,
             replay'[i].seq > 0, replay'[j].seq > 0
      PROVE  replay'[i].seq <= replay'[j].seq
  <2>1. i + out \in 1..Len(all) /\ j + out \in 1..Len(all) /\ i + out < j + out
    BY <1>1, <1>4, <1>5
  <2> QED BY <1>3, <1>4, <1>5, <2>1 DEF Sorted
<1> QED BY <1>5 DEF Sorted

LEMMA OrderDelivery ==
  ASSUME TypeOK, StreamInv, LatestInv, OrderInv, ~timedOut, NEW t \in Threads, NEW c \in Conns,
         Deliver(t, c) \/ Drop(t, c) \/ TakeDrops(t, c) \/ Warn(t, c)
  PROVE  \A d \in Conns : Sorted(got'[d]) /\ Sorted(queue'[d]) /\ Before(got'[d], queue'[d])
<1>1. /\ got' = got
      /\ \/ queue' = queue
         \/ \E m \in Msg : /\ m = msg[t] \/ (m.class = "warn" /\ m.seq = 0)
                           /\ queue' = [queue EXCEPT ![c] = Append(queue[c], m)]
  BY DeliveryQueues DEF client
<1>2. \A d \in Conns : Sorted(got[d]) /\ Sorted(queue[d]) /\ Before(got[d], queue[d])
  BY DEF OrderInv
<1>3. CASE queue' = queue
  BY <1>1, <1>2, <1>3
<1>4. ASSUME NEW m \in Msg, m = msg[t] \/ (m.class = "warn" /\ m.seq = 0),
             queue' = [queue EXCEPT ![c] = Append(queue[c], m)]
      PROVE  \A d \in Conns : Sorted(got'[d]) /\ Sorted(queue'[d]) /\ Before(got'[d], queue'[d])
  <2>1. ASSUME NEW s \in Seq(Msg), AllFine(s), NEW i \in 1..Len(s), s[i].seq > 0, m.seq > 0
        PROVE  s[i].seq <= m.seq
    BY <1>4, <2>1, NoneLater
  <2>2. /\ queue[c] \in Seq(Msg) /\ got[c] \in Seq(Msg) /\ AllFine(queue[c]) /\ AllFine(got[c])
        /\ queue'[c] = Append(queue[c], m) /\ \A d \in Conns : d # c => queue'[d] = queue[d]
    BY <1>4, TypeFacts DEF StreamInv
  <2>3. Sorted(queue'[c]) /\ Before(got[c], queue'[c])
    <3>1. \A i \in 1..Len(queue[c]) : queue[c][i].seq > 0 /\ m.seq > 0 => queue[c][i].seq <= m.seq
      BY <2>1, <2>2
    <3>2. \A i \in 1..Len(got[c]) : got[c][i].seq > 0 /\ m.seq > 0 => got[c][i].seq <= m.seq
      BY <2>1, <2>2
    <3>3. Sorted(queue[c]) /\ Before(got[c], queue[c])
      BY <1>2
    <3>4. Sorted(Append(queue[c], m))
      BY <2>2, <3>1, <3>3, SortedAppend
    <3>5. Before(got[c], Append(queue[c], m))
      BY <2>2, <3>2, <3>3, BeforeAppend
    <3> QED BY <2>2, <3>4, <3>5
  <2> QED BY <1>1, <1>2, <2>2, <2>3
<1> QED BY <1>1, <1>3, <1>4

LEMMA OrderClient ==
  ASSUME TypeOK, StreamInv, IdleInv, OrderInv, ~timedOut, NEW c \in Conns,
         Subscribe(c) \/ Get(c) \/ Leave(c) \/ GhostGet(c)
  PROVE  \A d \in Conns : Sorted(got'[d]) /\ Sorted(queue'[d]) /\ Before(got'[d], queue'[d])
<1>1. \A d \in Conns : d # c => got'[d] = got[d] /\ queue'[d] = queue[d]
  BY TypeFacts DEF Subscribe, Get, Leave, GhostGet, slot
<1>2. \A d \in Conns : Sorted(got[d]) /\ Sorted(queue[d]) /\ Before(got[d], queue[d])
  BY DEF OrderInv
<1>3. Len(<<>>) = 0 /\ Sorted(<<>>) /\ \A s : Before(<<>>, s)
  BY DEF Sorted, Before
<1>4. Sorted(got'[c]) /\ Sorted(queue'[c]) /\ Before(got'[c], queue'[c])
  <2>1. CASE Subscribe(c)
    <3>1. conn[c] = "idle" /\ queue' = queue
      BY <2>1 DEF Subscribe, slot
    <3>2. queue'[c] = <<>>
      BY <3>1 DEF IdleInv
    <3>3. \A s : Before(s, <<>>)
      BY <1>3 DEF Before
    <3>4. Sorted(got'[c])
      <4>1. CASE got' = got
        BY <4>1, <1>2
      <4>2. ASSUME NEW since \in 0..Len(issued), got' = [got EXCEPT ![c] = ReplaySince(since)]
            PROVE  Sorted(got'[c])
        <5>1. Picked(ReplaySince(since), replay, since, Len(replay))
          BY SubscribeFacts
        <5>2. Sorted(ReplaySince(since))
          BY <5>1, SortedPicked DEF OrderInv
        <5> QED BY <4>2, <5>2, TypeFacts
      <4> QED BY <2>1, <4>1, <4>2 DEF Subscribe
    <3> QED BY <1>3, <3>2, <3>3, <3>4
  <2>2. CASE Get(c)
    <3>1. /\ queue[c] # <<>> /\ queue[c] \in Seq(Msg) /\ got[c] \in Seq(Msg)
          /\ got'[c] = Append(got[c], Head(queue[c])) /\ queue'[c] = Tail(queue[c])
      BY <2>2, TypeFacts DEF Get
    <3> QED BY <1>2, <3>1, OrderMove
  <2>3. CASE Leave(c)
    <3>1. got'[c] = <<>> /\ queue'[c] = queue[c]
      BY <2>3, TypeFacts DEF Leave, slot
    <3> QED BY <1>2, <1>3, <3>1
  <2>4. CASE GhostGet(c)
    <3>1. /\ queue[c] # <<>> /\ queue[c] \in Seq(Msg) /\ got[c] \in Seq(Msg)
          /\ got'[c] = got[c] /\ queue'[c] = Tail(queue[c])
      BY <2>4, TypeFacts DEF GhostGet
    <3>2. /\ \A i \in 1..Len(Tail(queue[c])) : /\ Tail(queue[c])[i] = queue[c][i + 1]
                                               /\ i + 1 \in 1..Len(queue[c])
      BY <3>1, TailFacts
    <3>3. Before(got[c], Tail(queue[c]))
      BY <1>2, <3>2 DEF Before
    <3>4. Sorted(Tail(queue[c]))
      BY <1>2, <3>1, SortedTail
    <3> QED BY <1>2, <3>1, <3>3, <3>4
  <2> QED BY <2>1, <2>2, <2>3, <2>4
<1> QED BY <1>1, <1>2, <1>4

LEMMA OrderStep ==
  TypeOK /\ StreamInv /\ LatestInv /\ IdleInv /\ OrderInv /\ [Next]_vars => OrderInv'
<1> SUFFICES ASSUME TypeOK, StreamInv, LatestInv, IdleInv, OrderInv, [Next]_vars, ~timedOut'
             PROVE  /\ Sorted(replay')
                    /\ \A c \in Conns : Sorted(got'[c]) /\ Sorted(queue'[c]) /\ Before(got'[c], queue'[c])
  BY DEF OrderInv
<1> DEFINE Goal == /\ Sorted(replay')
                   /\ \A c \in Conns : Sorted(got'[c]) /\ Sorted(queue'[c]) /\ Before(got'[c], queue'[c])
<1>0. ASSUME UNCHANGED <<replay, queue, got>>, ~timedOut PROVE Goal
  BY <1>0 DEF OrderInv
<1>1. CASE UNCHANGED vars
  BY <1>0, <1>1 DEF vars
<1>2. ASSUME NEW p \in Pumps, Read(p) \/ PumpReturn(p) \/ Eof(p) PROVE Goal
  BY <1>0, <1>2 DEF Read, PumpReturn, Eof, Stamp, waiting, ring, slot, client
<1>3. ASSUME NEW t \in Threads, Record(t) PROVE Goal
  <2>1. ~timedOut /\ UNCHANGED <<queue, got>>
    BY <1>3 DEF Record, waiting, slot, client
  <2>2. Sorted(replay')
    BY <1>3, <2>1, OrderRecord
  <2> QED BY <2>1, <2>2 DEF OrderInv
<1>4. ASSUME NEW t \in Threads, Fanout(t) PROVE Goal
  BY <1>0, <1>4 DEF Fanout, waiting, ring, slot, client
<1>5. ASSUME NEW t \in Threads, NEW c \in Conns,
             Deliver(t, c) \/ Drop(t, c) \/ TakeDrops(t, c) \/ Warn(t, c)
      PROVE  Goal
  <2>1. UNCHANGED <<waiting, ring>>
    BY <1>5, DeliveryQueues
  <2>2. ~timedOut /\ replay' = replay
    BY <2>1 DEF waiting, ring
  <2>3. \A d \in Conns : Sorted(got'[d]) /\ Sorted(queue'[d]) /\ Before(got'[d], queue'[d])
    BY <1>5, <2>2, OrderDelivery
  <2> QED BY <2>2, <2>3 DEF OrderInv
<1>6. ASSUME Join \/ WaiterSend \/ WaiterReturn \/ Pop PROVE Goal
  <2>1. UNCHANGED <<replay, queue, got>>
    BY <1>6 DEF Join, WaiterSend, WaiterReturn, Pop, Stamp, ring, slot, client
  <2>2. ~timedOut
    BY <1>6 DEF Join, WaiterSend, WaiterReturn, Pop
  <2> QED BY <1>0, <2>1, <2>2
<1>7. ASSUME NEW c \in Conns, Subscribe(c) \/ Get(c) \/ Leave(c) \/ GhostGet(c) PROVE Goal
  <2>1. ~timedOut /\ replay' = replay
    BY <1>7 DEF Subscribe, Get, Leave, GhostGet, waiting, ring
  <2>2. \A d \in Conns : Sorted(got'[d]) /\ Sorted(queue'[d]) /\ Before(got'[d], queue'[d])
    BY <1>7, <2>1, OrderClient
  <2> QED BY <2>1, <2>2 DEF OrderInv
<1>8. CASE Broker
  BY <1>8, <1>2, <1>3, <1>4, <1>5, <1>6 DEF Broker
<1>9. CASE Client
  BY <1>7, <1>9 DEF Client
<1> QED BY <1>1, <1>8, <1>9 DEF Next

\* A client gets the numbered lines in the order of their numbers, those of the
\* ring and the live ones together, unless a join timed out.
THEOREM StreamInOrder == Spec => []InOrder
<1>1. Init => OrderInv
  <2> SUFFICES ASSUME Init PROVE OrderInv
    OBVIOUS
  <2>1. replay = <<>> /\ \A c \in Conns : got[c] = <<>> /\ queue[c] = <<>>
    BY DEF Init
  <2>2. Len(<<>>) = 0
    OBVIOUS
  <2> QED BY <2>1, <2>2 DEF OrderInv, Sorted, Before
<1>2. OrderInv => InOrder
  BY DEF OrderInv, InOrder, Sorted
<1> QED BY <1>1, <1>2, OrderStep, LatestCorrect, IdleCorrect, StreamTypes, PTL DEF Spec

-----------------------------------------------------------------------------
(***************************************************************************)
(* The end of a stream.  Unless a join timed out the exit frame is the     *)
(* last message of a live queue, and everything owed to that client is     *)
(* before it: the pumps are done when it is fanned out, and nothing is in  *)
(* flight but the frame itself.                                            *)
(***************************************************************************)
NoExit(s) == \A i \in 1..Len(s) : s[i].class # "exit"
ExitLast(s) ==
  s # <<>> /\ s[Len(s)].class = "exit" /\ \A i \in 1..(Len(s) - 1) : s[i].class # "exit"

SentAll(s, b, seqs) == \A q \in (b + 1)..Len(seqs) : seqs[q] \notin Droppable => Has(s, q)
SentOrQueued(s, t, b, seqs) ==
  \A q \in (b + 1)..Len(seqs) : seqs[q] \notin Droppable => Has(s, q) \/ Has(t, q)

ExitInv ==
  ~timedOut => \A c \in Conns :
    /\ conn[c] = "live" =>
         \/ NoExit(queue[c])
         \/ /\ ExitLast(queue[c]) /\ ~ExitPending /\ stage[<<"waiter", c>>] = "none"
            /\ SentOrQueued(got[c], queue[c], base[c], issued)
    /\ conn[c] = "ended" => ~ExitPending /\ SentAll(got[c], base[c], issued)

LEMMA ExitAppend ==
  ASSUME NEW s \in Seq(Msg), NoExit(s), NEW m \in Msg
  PROVE  /\ m.class # "exit" => NoExit(Append(s, m))
         /\ m.class = "exit" => ExitLast(Append(s, m))
<1> DEFINE t == Append(s, m)
<1>1. /\ Len(t) = Len(s) + 1 /\ Len(s) \in Nat /\ t[Len(s) + 1] = m
      /\ \A i \in 1..Len(s) : t[i] = s[i]
      /\ \A i \in 1..Len(t) : i \in 1..Len(s) \/ i = Len(s) + 1
  BY AppendFacts
<1>0. Len(t) # Len(<<>>)
  BY <1>1
<1> HIDE DEF t
<1>2. m.class # "exit" => NoExit(t)
  BY <1>1 DEF NoExit
<1>3. m.class = "exit" => ExitLast(t)
  <2>1. t # <<>>
    BY <1>0
  <2> QED BY <2>1, <1>1 DEF NoExit, ExitLast
<1> QED BY <1>2, <1>3 DEF t

LEMMA ExitTail ==
  ASSUME NEW s \in Seq(Msg), s # <<>>
  PROVE  /\ NoExit(s) => NoExit(Tail(s)) /\ Head(s).class # "exit"
         /\ ExitLast(s) /\ Head(s).class # "exit" => ExitLast(Tail(s))
         /\ ExitLast(s) /\ Head(s).class = "exit" => Len(s) = 1
<1> DEFINE t == Tail(s)
<1>1. /\ t \in Seq(Msg) /\ Len(t) = Len(s) - 1 /\ Len(s) \in Nat \ {0} /\ Head(s) = s[1]
      /\ \A i \in 1..Len(t) : t[i] = s[i + 1] /\ i + 1 \in 1..Len(s)
      /\ 1 \in 1..Len(s)
  BY TailFacts
<1> HIDE DEF t
<1>2. NoExit(s) => NoExit(t) /\ Head(s).class # "exit"
  BY <1>1 DEF NoExit
<1>3. ASSUME ExitLast(s), Head(s).class # "exit" PROVE ExitLast(t)
  <2>1. Len(s) # 1
    BY <1>1, <1>3 DEF ExitLast
  <2>2. Len(t) \in 1..Len(t) /\ Len(t) + 1 = Len(s)
    BY <1>1, <2>1
  <2>3. t # <<>> /\ t[Len(t)].class = "exit"
    BY <1>1, <1>3, <2>2 DEF ExitLast
  <2>4. \A i \in 1..(Len(t) - 1) : i \in 1..Len(t) /\ i + 1 \in 1..(Len(s) - 1)
    BY <1>1, <2>2
  <2>5. \A i \in 1..(Len(t) - 1) : t[i].class # "exit"
    BY <1>1, <1>3, <2>4 DEF ExitLast
  <2> QED BY <2>3, <2>5 DEF ExitLast
<1>4. ASSUME ExitLast(s), Head(s).class = "exit" PROVE Len(s) = 1
  <2> SUFFICES ASSUME Len(s) # 1 PROVE FALSE
    OBVIOUS
  <2>1. 1 \in 1..(Len(s) - 1)
    BY <1>1
  <2> QED BY <1>1, <1>4, <2>1 DEF ExitLast
<1> QED BY <1>2, <1>3, <1>4 DEF t

LEMMA SentMove ==
  ASSUME NEW s \in Seq(Msg), NEW t \in Seq(Msg), t # <<>>, NEW b, NEW seqs,
         SentOrQueued(s, t, b, seqs)
  PROVE  /\ SentOrQueued(Append(s, Head(t)), Tail(t), b, seqs)
         /\ Len(t) = 1 => SentAll(Append(s, Head(t)), b, seqs)
<1>1. /\ Head(t) \in Msg /\ Tail(t) \in Seq(Msg) /\ Len(Tail(t)) = Len(t) - 1
      /\ Len(t) \in Nat \ {0}
  BY TailFacts
<1>2. ASSUME NEW q, Has(s, q) \/ Has(t, q) PROVE Has(Append(s, Head(t)), q) \/ Has(Tail(t), q)
  <2>1. Has(s, q) \/ Head(t).seq = q \/ Has(Tail(t), q)
    BY <1>2, HasTail
  <2> QED BY <2>1, <1>1, HasAppend
<1>3. ASSUME Len(t) = 1, NEW q PROVE ~Has(Tail(t), q)
  <2> DEFINE r == Tail(t)
  <2>1. Len(r) = 0
    BY <1>1, <1>3
  <2> HIDE DEF r
  <2>2. ~Has(r, q)
    BY <2>1 DEF Has
  <2> QED BY <2>2 DEF r
<1> QED BY <1>2, <1>3 DEF SentOrQueued, SentAll

\* Once the exit frame is fanned out, nothing else is on its way.
LEMMA Quiet ==
  ASSUME TypeOK, StreamInv, WaiterInv, ~timedOut, ~ExitPending
  PROVE  /\ waiter \in {"exiting", "pop", "done"}
         /\ waiter = "exiting" => pc["waiter"] = "sending"
         /\ waiter # "exiting" => pc["waiter"] = "idle"
         /\ \A p \in Pumps : pc[p] = "eof"
         /\ \A p \in Pumps, c \in Conns : stage[<<p, c>>] = "none"
         /\ \A t \in Threads : pc[t] \notin {"stamped", "recorded"}
         /\ \A t \in Threads : msg[t].seq = 0
         /\ \A t \in Threads : pc[t] = "sending" => t = "waiter" /\ msg[t].class = "exit"
<1>1. waiter \in {"exiting", "pop", "done"} /\ (waiter = "exiting" => pc["waiter"] = "sending")
  BY DEF ExitPending, TypeOK
<1>2. waiter # "exiting" => pc["waiter"] = "idle"
  BY <1>1 DEF WaiterInv
<1>3. \A p \in Pumps : pc[p] = "eof" /\ msg[p] = NoMsg
  BY <1>1, ThreadNames DEF WaiterInv
<1>4. \A p \in Pumps, c \in Conns : stage[<<p, c>>] = "none"
  BY <1>3, ThreadNames DEF StreamInv
<1>5. waiter = "exiting" => msg["waiter"].class = "exit"
  BY DEF WaiterInv
<1>6. msg["waiter"].seq = 0
  <2>1. CASE waiter = "exiting"
    <3>1. msg["waiter"].seq # 0 => msg["waiter"].class = issued[msg["waiter"].seq]
                                   /\ msg["waiter"].seq \in 1..Len(issued)
      BY ThreadNames, TypeFacts DEF StreamInv, Fine
    <3>2. \A q \in 1..Len(issued) : issued[q] # "exit"
      <4>1. \A q \in 1..Len(issued) : issued[q] \in Stamped
        BY TypeFacts
      <4> QED BY <4>1 DEF Stamped
    <3> QED BY <2>1, <1>5, <3>1, <3>2
  <2>2. CASE waiter # "exiting"
    BY <2>2, <1>2, ThreadNames, NoMsgType DEF WaiterInv
  <2> QED BY <2>1, <2>2
<1>7. ASSUME NEW t \in Threads
      PROVE  /\ pc[t] \notin {"stamped", "recorded"} /\ msg[t].seq = 0
             /\ pc[t] = "sending" => t = "waiter" /\ msg[t].class = "exit"
  <2>1. CASE t \in Pumps
    BY <2>1, <1>3, NoMsgType
  <2>2. CASE t = "waiter"
    BY <2>2, <1>1, <1>2, <1>5, <1>6
  <2> QED BY <2>1, <2>2 DEF Threads
<1> QED BY <1>1, <1>2, <1>3, <1>4, <1>7

\* Only a waiter that has fanned out the exit frame delivers it.
LEMMA ExitDeliverer ==
  ASSUME TypeOK, StreamInv, WaiterInv, NEW t \in Threads, NEW c \in Conns,
         stage[<<t, c>>] # "none", msg[t].class = "exit"
  PROVE  t = "waiter" /\ waiter = "exiting" /\ pc["waiter"] = "sending" /\ ~ExitPending
<1>1. pc[t] = "sending"
  BY DEF StreamInv
<1>2. t = "waiter"
  BY ThreadNames DEF WaiterInv
<1>3. waiter \in {"losing", "exiting"} /\ waiter # "losing"
  BY <1>1, <1>2 DEF WaiterInv
<1> QED BY <1>1, <1>2, <1>3 DEF ExitPending

LEMMA ExitSame ==
  ASSUME ExitInv, UNCHANGED <<timedOut, queue, client>>,
         ~timedOut /\ ~ExitPending =>
           /\ ~ExitPending' /\ issued' = issued
           /\ \A c \in Conns : stage[<<"waiter", c>>] = "none" => stage'[<<"waiter", c>>] = "none"
  PROVE  ExitInv'
BY DEF ExitInv, client

LEMMA ExitDelivery ==
  ASSUME TypeOK, StreamInv, WaiterInv, NoGap, ExitInv, NEW t \in Threads, NEW c \in Conns,
         Deliver(t, c) \/ Drop(t, c) \/ TakeDrops(t, c) \/ Warn(t, c)
  PROVE  ExitInv'
<1>1. /\ stage[<<t, c>>] # "none"
      /\ UNCHANGED <<waiting, ring, thread, client>>
      /\ \A u \in Threads, d \in Conns : <<u, d>> # <<t, c>> => stage'[<<u, d>>] = stage[<<u, d>>]
      /\ \/ queue' = queue
         \/ \E m \in Msg : /\ m = msg[t] \/ (m.class = "warn" /\ m.seq = 0)
                           /\ queue' = [queue EXCEPT ![c] = Append(queue[c], m)]
  BY DeliveryQueues
<1>2. UNCHANGED <<waiter, timedOut, issued, pc, conn, got, base>>
  BY <1>1 DEF waiting, ring, thread, client
<1>3. ExitPending' = ExitPending
  BY <1>2 DEF ExitPending
<1>4. \A d \in Conns : d # c => queue'[d] = queue[d] /\ stage'[<<"waiter", d>>] = stage[<<"waiter", d>>]
  <2>1. \A d \in Conns : d # c => queue'[d] = queue[d]
    BY <1>1, TypeFacts
  <2>2. ASSUME NEW d \in Conns, d # c PROVE stage'[<<"waiter", d>>] = stage[<<"waiter", d>>]
    <3>1. <<"waiter", d>> # <<t, c>>
      BY <2>2
    <3> QED BY <3>1, <1>1, ThreadNames
  <2> QED BY <2>1, <2>2
<1>5. ASSUME ~timedOut, conn[c] = "live"
      PROVE  \/ NoExit(queue'[c])
             \/ /\ ExitLast(queue'[c]) /\ ~ExitPending /\ stage'[<<"waiter", c>>] = "none"
                /\ SentOrQueued(got[c], queue'[c], base[c], issued)
  <2>1. \/ NoExit(queue[c])
        \/ ExitLast(queue[c]) /\ ~ExitPending /\ stage[<<"waiter", c>>] = "none"
    BY <1>5 DEF ExitInv
  <2>2. NoExit(queue[c])
    <3> SUFFICES ASSUME ~ExitPending, stage[<<"waiter", c>>] = "none" PROVE FALSE
      BY <2>1
    <3>1. \A p \in Pumps : stage[<<p, c>>] = "none"
      BY <1>5, Quiet
    <3>2. stage[<<t, c>>] = "none"
      BY <3>1 DEF Threads
    <3> QED BY <1>1, <3>2
  <2>3. CASE queue' = queue
    BY <2>2, <2>3
  <2>4. ASSUME NEW m \in Msg, m.class # "exit", queue' = [queue EXCEPT ![c] = Append(queue[c], m)]
        PROVE  NoExit(queue'[c])
    <3>1. queue'[c] = Append(queue[c], m) /\ queue[c] \in Seq(Msg)
      BY <2>4, TypeFacts
    <3> QED BY <2>2, <2>4, <3>1, ExitAppend
  <2>5. ASSUME msg[t].class = "exit", queue' = [queue EXCEPT ![c] = Append(queue[c], msg[t])]
        PROVE  /\ ExitLast(queue'[c]) /\ ~ExitPending /\ stage'[<<"waiter", c>>] = "none"
               /\ SentOrQueued(got[c], queue'[c], base[c], issued)
    <3>1. /\ queue'[c] = Append(queue[c], msg[t]) /\ queue[c] \in Seq(Msg) /\ msg[t] \in Msg
          /\ Len(queue'[c]) # Len(queue[c])
      BY <2>5, TypeFacts
    <3>2. t = "waiter" /\ ~ExitPending
      BY <2>5, <1>1, ExitDeliverer
    <3>3. stage'[<<"waiter", c>>] = "none"
      <4>1. CASE Deliver(t, c)
        BY <4>1, <3>2, TypeFacts DEF Deliver, SetStage
      <4>2. CASE Warn(t, c)
        BY <4>2, <3>2, TypeFacts DEF Warn, SetStage
      <4>3. CASE Drop(t, c) \/ TakeDrops(t, c)
        BY <4>3, <3>1 DEF Drop, TakeDrops
      <4> QED BY <4>1, <4>2, <4>3
    <3>4. ExitLast(queue'[c])
      BY <2>2, <2>5, <3>1, ExitAppend
    <3>5. ASSUME NEW q \in (base[c] + 1)..Len(issued), issued[q] \notin Droppable
          PROVE  Has(got[c], q) \/ Has(queue'[c], q)
      <4>1. c \in Subs /\ Structured(q)
        BY <1>5, <3>5 DEF Subs, Structured
      <4>2. Has(got[c], q) \/ Has(queue[c], q) \/ InFlight(c, q)
        BY <4>1, <3>5 DEF NoGap
      <4>3. ~InFlight(c, q)
        <5>1. \A u \in Threads : msg[u].seq = 0
          BY <1>5, <3>2, Quiet
        <5>2. q # 0
          BY <3>5, TypeFacts
        <5> QED BY <5>1, <5>2 DEF InFlight
      <4>4. Has(queue[c], q) => Has(queue'[c], q)
        BY <3>1, HasAppend
      <4> QED BY <4>2, <4>3, <4>4
    <3> QED BY <3>2, <3>3, <3>4, <3>5 DEF SentOrQueued
  <2>6. ASSUME NEW m \in Msg, m = msg[t] \/ (m.class = "warn" /\ m.seq = 0),
               queue' = [queue EXCEPT ![c] = Append(queue[c], m)]
        PROVE  \/ NoExit(queue'[c])
               \/ /\ ExitLast(queue'[c]) /\ ~ExitPending /\ stage'[<<"waiter", c>>] = "none"
                  /\ SentOrQueued(got[c], queue'[c], base[c], issued)
    <3>1. CASE m.class # "exit"
      BY <2>4, <2>6, <3>1
    <3>2. CASE m.class = "exit"
      BY <2>5, <2>6, <3>2
    <3> QED BY <3>1, <3>2
  <2> QED BY <1>1, <2>3, <2>6
<1> QED BY <1>2, <1>3, <1>4, <1>5 DEF ExitInv

LEMMA ExitClient ==
  ASSUME TypeOK, IdleInv, ExitInv, NEW c \in Conns,
         Subscribe(c) \/ Get(c) \/ Leave(c) \/ GhostGet(c)
  PROVE  ExitInv'
<1>1. /\ UNCHANGED <<waiter, timedOut, issued, pc, stage>>
      /\ \A d \in Conns : d # c => /\ conn'[d] = conn[d] /\ base'[d] = base[d]
                                   /\ got'[d] = got[d] /\ queue'[d] = queue[d]
  BY TypeFacts DEF Subscribe, Get, Leave, GhostGet, waiting, ring, thread, delivery, slot
<1>2. ExitPending' = ExitPending
  BY <1>1 DEF ExitPending
<1>3. ASSUME ~timedOut
      PROVE  /\ conn'[c] = "live" =>
                  \/ NoExit(queue'[c])
                  \/ /\ ExitLast(queue'[c]) /\ ~ExitPending /\ stage[<<"waiter", c>>] = "none"
                     /\ SentOrQueued(got'[c], queue'[c], base'[c], issued)
             /\ conn'[c] = "ended" => ~ExitPending /\ SentAll(got'[c], base'[c], issued)
  <2>1. CASE Subscribe(c)
    <3>1. conn[c] = "idle" /\ conn'[c] = "live" /\ queue' = queue
      BY <2>1, TypeFacts DEF Subscribe, slot
    <3>2. queue'[c] = <<>> /\ Len(<<>>) = 0
      BY <3>1 DEF IdleInv
    <3>3. NoExit(queue'[c])
      BY <3>2 DEF NoExit
    <3> QED BY <3>1, <3>3
  <2>2. CASE Get(c)
    <3>1. /\ queue[c] # <<>> /\ queue[c] \in Seq(Msg) /\ got[c] \in Seq(Msg)
          /\ got'[c] = Append(got[c], Head(queue[c])) /\ queue'[c] = Tail(queue[c])
          /\ base'[c] = base[c] /\ conn[c] = "live"
          /\ conn'[c] = IF Head(queue[c]).class = "exit" THEN "ended" ELSE "live"
      BY <2>2, TypeFacts DEF Get
    <3>2. CASE NoExit(queue[c])
      <4>1. NoExit(Tail(queue[c])) /\ Head(queue[c]).class # "exit"
        BY <3>1, <3>2, ExitTail
      <4> QED BY <3>1, <4>1
    <3>3. CASE /\ ExitLast(queue[c]) /\ ~ExitPending /\ stage[<<"waiter", c>>] = "none"
               /\ SentOrQueued(got[c], queue[c], base[c], issued)
      <4>1. /\ SentOrQueued(got'[c], queue'[c], base'[c], issued)
            /\ Len(queue[c]) = 1 => SentAll(got'[c], base'[c], issued)
        BY <3>1, <3>3, SentMove
      <4>2. CASE Head(queue[c]).class = "exit"
        <5>1. Len(queue[c]) = 1
          BY <3>1, <3>3, <4>2, ExitTail
        <5> QED BY <3>1, <3>3, <4>1, <4>2, <5>1
      <4>3. CASE Head(queue[c]).class # "exit"
        <5>1. ExitLast(queue'[c])
          BY <3>1, <3>3, <4>3, ExitTail
        <5> QED BY <3>1, <3>3, <4>1, <4>3, <5>1
      <4> QED BY <4>2, <4>3
    <3> QED BY <1>3, <3>1, <3>2, <3>3 DEF ExitInv
  <2>3. CASE Leave(c)
    <3>1. conn'[c] \in {"gone", "ghost"}
      BY <2>3, TypeFacts DEF Leave
    <3> QED BY <3>1
  <2>4. CASE GhostGet(c)
    <3>1. conn'[c] = "gone"
      BY <2>4, TypeFacts DEF GhostGet
    <3> QED BY <3>1
  <2> QED BY <2>1, <2>2, <2>3, <2>4
<1> QED BY <1>1, <1>2, <1>3 DEF ExitInv

LEMMA ExitStep ==
  TypeOK /\ StreamInv /\ WaiterInv /\ IdleInv /\ NoGap /\ ExitInv /\ [Next]_vars => ExitInv'
<1> SUFFICES ASSUME TypeOK, StreamInv, WaiterInv, IdleInv, NoGap, ExitInv, [Next]_vars
             PROVE  ExitInv'
  OBVIOUS
<1> USE ThreadNames
<1>0. ASSUME UNCHANGED <<waiter, pc, timedOut, queue, client, issued, stage>> PROVE ExitInv'
  <2>1. ExitPending' = ExitPending
    BY <1>0 DEF ExitPending
  <2> QED BY <1>0, <2>1, ExitSame
<1>1. CASE UNCHANGED vars
  BY <1>0, <1>1 DEF vars, client
<1>2. ASSUME NEW p \in Pumps, Read(p) \/ PumpReturn(p) \/ Eof(p) PROVE ExitInv'
  <2>1. UNCHANGED <<timedOut, queue, client>> /\ pc[p] # "eof"
    BY <1>2 DEF Read, PumpReturn, Eof, Stamp, Sent, waiting, slot
  <2>2. timedOut \/ ExitPending
    BY <2>1, Quiet
  <2> QED BY <2>1, <2>2, ExitSame
<1>3. ASSUME NEW t \in Threads, Record(t) \/ Fanout(t) PROVE ExitInv'
  <2>1. UNCHANGED <<timedOut, queue, client>> /\ pc[t] \in {"stamped", "recorded"}
    BY <1>3 DEF Record, Fanout, waiting, slot
  <2>2. timedOut \/ ExitPending
    BY <2>1, Quiet
  <2> QED BY <2>1, <2>2, ExitSame
<1>4. ASSUME NEW t \in Threads, NEW c \in Conns,
             Deliver(t, c) \/ Drop(t, c) \/ TakeDrops(t, c) \/ Warn(t, c)
      PROVE  ExitInv'
  BY <1>4, ExitDelivery
<1>5. ASSUME Join PROVE ExitInv'
  <2>1. /\ waiter = "join" /\ UNCHANGED <<queue, client>>
        /\ timedOut' = timedOut \/ timedOut' = TRUE
    BY <1>5 DEF Join, slot
  <2>2. ExitPending
    BY <2>1 DEF ExitPending
  <2>3. CASE timedOut' = timedOut
    BY <2>1, <2>2, <2>3, ExitSame
  <2>4. CASE timedOut' = TRUE
    BY <2>4 DEF ExitInv
  <2> QED BY <2>1, <2>3, <2>4
<1>6. ASSUME WaiterSend PROVE ExitInv'
  <2>1. waiter \in {"lost", "exit"} /\ UNCHANGED <<timedOut, queue, client>>
    BY <1>6 DEF WaiterSend, slot
  <2>2. ExitPending
    BY <2>1 DEF ExitPending
  <2> QED BY <2>1, <2>2, ExitSame
<1>7. ASSUME WaiterReturn \/ Pop PROVE ExitInv'
  <2>1. UNCHANGED <<timedOut, queue, client, issued, stage>>
    BY <1>7 DEF WaiterReturn, Pop, ring, delivery, slot
  <2>2. ASSUME ~timedOut, ~ExitPending PROVE ~ExitPending'
    <3>1. waiter \in {"exiting", "pop", "done"}
      BY <2>2, Quiet
    <3>2. waiter' \in {"pop", "done"}
      BY <1>7, <3>1 DEF WaiterReturn, Pop
    <3> QED BY <3>2 DEF ExitPending
  <2> QED BY <2>1, <2>2, ExitSame
<1>8. CASE Broker
  BY <1>8, <1>2, <1>3, <1>4, <1>5, <1>6, <1>7 DEF Broker
<1>9. CASE Client
  BY <1>9, ExitClient DEF Client
<1> QED BY <1>1, <1>8, <1>9 DEF Next

\* A client whose stream has ended was sent all structured events it was promised,
\* unless a join timed out.
THEOREM StreamCompleteAtExit == Spec => []CompleteAtExit
<1>1. Init => ExitInv
  BY DEF Init, ExitInv
<1>2. ExitInv => CompleteAtExit
  BY DEF ExitInv, CompleteAtExit, SentAll, Structured
<1> QED BY <1>1, <1>2, ExitStep, WaiterCorrect, IdleCorrect, StreamNoGap, StreamTypes, PTL DEF Spec

-----------------------------------------------------------------------------
(***************************************************************************)
(* Sums over finite sets.  Summed is what the fold of MapThenSumSet says   *)
(* of the function it is computed with; that there is such a function is   *)
(* shown as for FiledAfter, by the cardinality of the sets it is given.    *)
(***************************************************************************)
Pick(s) == CHOOSE x \in s : TRUE
Summand(f, g, s) == IF s = {} THEN 0 ELSE f[Pick(s)] + g[s \ {Pick(s)}]
Summed(f, S, g) == g = [s \in SUBSET S |-> Summand(f, g, s)]
SumOf(f, S) == (CHOOSE g : Summed(f, S, g))[S]

Small(S, n) == {s \in SUBSET S : Cardinality(s) <= n}

LEMMA PickFacts ==
  ASSUME NEW S, IsFiniteSet(S), NEW s \in SUBSET S, s # {}
  PROVE  /\ Pick(s) \in s /\ Pick(s) \in S /\ s \ {Pick(s)} \in SUBSET S
         /\ Cardinality(s) \in Nat \ {0}
         /\ Cardinality(s \ {Pick(s)}) = Cardinality(s) - 1
<1>1. Pick(s) \in s
  BY DEF Pick
<1>2. IsFiniteSet(s)
  BY FS_Subset
<1>3. Cardinality(s \ {Pick(s)}) = Cardinality(s) - 1
  BY <1>1, <1>2, FS_RemoveElement
<1>4. Cardinality(s) \in Nat /\ Cardinality(s) # 0
  BY <1>2, FS_CardinalityType, FS_EmptySet
<1> QED BY <1>1, <1>3, <1>4

LEMMA SummedExists ==
  ASSUME NEW S, IsFiniteSet(S), NEW f
  PROVE  \E g : Summed(f, S, g)
<1> DEFINE Part(n, g) == g = [s \in Small(S, n) |-> Summand(f, g, s)]
           T == {n \in Nat : ~\E g : Part(n, g)}
<1>1. T = {}
  <2> SUFFICES ASSUME T # {} PROVE FALSE
    OBVIOUS
  <2>1. PICK m \in T : \A k \in T : m <= k
    BY SmallestNumber
  <2>2. m \in Nat
    OBVIOUS
  <2>3. m # 0
    <3>1. ASSUME m = 0 PROVE Part(m, [s \in Small(S, 0) |-> 0])
      <4>1. \A s \in Small(S, 0) : s = {}
        <5> SUFFICES ASSUME NEW s \in SUBSET S, Cardinality(s) <= 0, s # {} PROVE FALSE
          BY DEF Small
        <5>1. Cardinality(s) \in Nat \ {0}
          BY PickFacts
        <5> QED BY <5>1
      <4>2. \A s \in Small(S, 0) : Summand(f, [u \in Small(S, 0) |-> 0], s) = 0
        BY <4>1 DEF Summand
      <4> QED BY <3>1, <4>2
    <3> QED BY <3>1
  <2>4. m - 1 \in Nat /\ m - 1 \notin T
    BY <2>1, <2>2, <2>3
  <2>5. PICK g : Part(m - 1, g)
    BY <2>4
  <2> DEFINE h == [s \in Small(S, m) |-> Summand(f, g, s)]
  <2>6. ASSUME NEW s \in Small(S, m) PROVE h[s] = Summand(f, h, s)
    <3>1. CASE s = {}
      BY <3>1 DEF Summand
    <3>2. CASE s # {}
      <4> DEFINE r == s \ {Pick(s)}
      <4>1. /\ s \in SUBSET S /\ Cardinality(s) <= m /\ r \in SUBSET S
            /\ Cardinality(s) \in Nat \ {0} /\ Cardinality(r) = Cardinality(s) - 1
        BY <3>2, PickFacts DEF Small
      <4> HIDE DEF r
      <4>2. r \in Small(S, m - 1) /\ r \in Small(S, m)
        BY <2>2, <4>1 DEF Small
      <4>3. g[r] = Summand(f, g, r) /\ h[r] = Summand(f, g, r)
        BY <2>5, <4>2
      <4>4. h[s] = f[Pick(s)] + g[r]
        BY <3>2 DEF Summand, r
      <4>5. Summand(f, h, s) = f[Pick(s)] + h[r]
        BY <3>2 DEF Summand, r
      <4> QED BY <4>3, <4>4, <4>5
    <3> QED BY <3>1, <3>2
  <2>7. h = [s \in Small(S, m) |-> Summand(f, h, s)]
    BY <2>6
  <2> HIDE DEF h
  <2>8. Part(m, h)
    BY <2>7
  <2> QED BY <2>1, <2>8
<1>2. Cardinality(S) \in Nat
  BY FS_CardinalityType
<1>3. PICK g : Part(Cardinality(S), g)
  BY <1>1, <1>2
<1>4. Small(S, Cardinality(S)) = SUBSET S
  BY FS_Subset DEF Small
<1> QED BY <1>3, <1>4 DEF Summed

\* What adding up needs to know of one summand.
LEMMA SummedChange ==
  ASSUME NEW S, IsFiniteSet(S), NEW x, NEW f \in [S -> Int], NEW e \in [S -> Int],
         \A y \in S : y # x => e[y] = f[y],
         NEW g, Summed(f, S, g), NEW h, Summed(e, S, h)
  PROVE  g[S] \in Int /\ h[S] = g[S] + (IF x \in S THEN e[x] - f[x] ELSE 0)
<1> DEFINE Good(s) == /\ g[s] \in Int
                      /\ h[s] = g[s] + (IF x \in s THEN e[x] - f[x] ELSE 0)
           T == {Cardinality(s) : s \in {u \in SUBSET S : ~Good(u)}}
<1>1. \A s \in SUBSET S : Cardinality(s) \in Nat
  BY FS_Subset, FS_CardinalityType
<1>2. T = {}
  <2> SUFFICES ASSUME T # {} PROVE FALSE
    OBVIOUS
  <2>1. T \subseteq Nat
    BY <1>1
  <2>2. PICK m \in T : \A k \in T : m <= k
    BY <2>1, SmallestNumber
  <2>3. PICK s \in SUBSET S : ~Good(s) /\ Cardinality(s) = m
    OBVIOUS
  <2>4. g[s] = Summand(f, g, s) /\ h[s] = Summand(e, h, s)
    BY DEF Summed
  <2>5. s # {}
    <3> SUFFICES ASSUME s = {} PROVE Good(s)
      BY <2>3
    <3>1. g[s] = 0 /\ h[s] = 0
      BY <2>4 DEF Summand
    <3> QED BY <3>1
  <2> DEFINE p == Pick(s)
             r == s \ {p}
  <2>6. /\ p \in s /\ p \in S /\ r \in SUBSET S
        /\ Cardinality(s) \in Nat \ {0} /\ Cardinality(r) = Cardinality(s) - 1
    BY <2>5, PickFacts
  <2>7. Good(r)
    <3> SUFFICES ASSUME ~Good(r) PROVE FALSE
      OBVIOUS
    <3>1. Cardinality(r) \in T
      BY <2>6
    <3>2. m <= Cardinality(r)
      BY <2>2, <3>1
    <3> HIDE DEF r, T, Good
    <3> QED BY <2>3, <2>6, <3>2
  <2>8. g[s] = f[p] + g[r] /\ h[s] = e[p] + h[r]
    BY <2>4, <2>5 DEF Summand
  <2>9. /\ g[r] \in Int
        /\ h[r] = g[r] + (IF x \in r THEN e[x] - f[x] ELSE 0)
    BY <2>7
  <2>10. f[p] \in Int /\ e[p] \in Int /\ (p # x => e[p] = f[p])
    BY <2>6
  <2>11. x \in r <=> x \in s /\ x # p
    OBVIOUS
  <2>12. x \in S => e[x] \in Int /\ f[x] \in Int
    OBVIOUS
  <2> HIDE DEF p, r, Good, T
  <2>13. g[s] \in Int
    BY <2>8, <2>9, <2>10
  <2>14. h[s] = g[s] + (IF x \in s THEN e[x] - f[x] ELSE 0)
    <3>1. CASE x = p
      <4>1. x \in s /\ x \notin r /\ x \in S
        BY <3>1, <2>6, <2>11
      <4>2. h[r] = g[r]
        BY <4>1, <2>9
      <4> QED BY <3>1, <4>1, <4>2, <2>8, <2>9, <2>10
    <3>2. CASE x # p /\ x \in s
      <4>1. x \in r /\ x \in S
        BY <3>2, <2>11
      <4>2. h[r] = g[r] + (e[x] - f[x])
        BY <4>1, <2>9
      <4> QED BY <3>2, <4>1, <4>2, <2>8, <2>9, <2>10, <2>12
    <3>3. CASE x \notin s
      <4>1. x \notin r /\ x # p
        BY <3>3, <2>6, <2>11
      <4>2. h[r] = g[r]
        BY <4>1, <2>9
      <4> QED BY <3>3, <4>1, <4>2, <2>8, <2>9, <2>10
    <3> QED BY <3>1, <3>2, <3>3
  <2>15. Good(s)
    BY <2>13, <2>14 DEF Good
  <2> QED BY <2>3, <2>15
<1>3. Good(S)
  BY <1>2
<1> QED BY <1>3

LEMMA SumOfIs ==
  ASSUME NEW S, IsFiniteSet(S), NEW f \in [S -> Int], NEW g, Summed(f, S, g)
  PROVE  g[S] = SumOf(f, S) /\ SumOf(f, S) \in Int
<1> DEFINE h == CHOOSE k : Summed(f, S, k)
<1>1. Summed(f, S, h)
  OBVIOUS
<1>2. h[S] = SumOf(f, S)
  BY DEF SumOf
<1> HIDE DEF h
<1>3. \A x : g[S] \in Int /\ h[S] = g[S] + (IF x \in S THEN f[x] - f[x] ELSE 0)
  BY <1>1, SummedChange
<1>4. h[S] = g[S] /\ g[S] \in Int
  <2>1. S \notin S \/ S \in S
    OBVIOUS
  <2>2. \A x \in S : f[x] - f[x] = 0
    OBVIOUS
  <2> QED BY <1>3, <2>2
<1> QED BY <1>2, <1>4

\* One summand changes.
LEMMA SumOfChange ==
  ASSUME NEW S, IsFiniteSet(S), NEW x \in S, NEW f \in [S -> Int], NEW e \in [S -> Int],
         \A y \in S : y # x => e[y] = f[y]
  PROVE  SumOf(f, S) \in Int /\ SumOf(e, S) = SumOf(f, S) + (e[x] - f[x])
<1>1. PICK g : Summed(f, S, g)
  BY SummedExists
<1>2. PICK h : Summed(e, S, h)
  BY SummedExists
<1>3. g[S] = SumOf(f, S) /\ h[S] = SumOf(e, S)
  BY <1>1, <1>2, SumOfIs
<1>4. g[S] \in Int /\ h[S] = g[S] + (IF x \in S THEN e[x] - f[x] ELSE 0)
  BY <1>1, <1>2, SummedChange
<1> QED BY <1>3, <1>4

LEMMA SumOfZeros ==
  ASSUME NEW S, IsFiniteSet(S)
  PROVE  SumOf([x \in S |-> 0], S) = 0
<1> DEFINE f == [x \in S |-> 0]
           g == [s \in SUBSET S |-> 0]
<1>1. ASSUME NEW s \in SUBSET S PROVE Summand(f, g, s) = 0
  <2>1. CASE s = {}
    BY <2>1 DEF Summand
  <2>2. CASE s # {}
    <3>1. f[Pick(s)] = 0 /\ g[s \ {Pick(s)}] = 0
      BY <2>2, PickFacts
    <3> QED BY <2>2, <3>1 DEF Summand
  <2> QED BY <2>1, <2>2
<1>2. Summed(f, S, g)
  BY <1>1 DEF Summed
<1>3. f \in [S -> Int] /\ g[S] = 0
  OBVIOUS
<1> HIDE DEF f, g
<1>4. SumOf(f, S) = 0
  BY <1>2, <1>3, SumOfIs
<1> QED BY <1>4 DEF f

-----------------------------------------------------------------------------
(***************************************************************************)
(* Dropped lines.  What a subscriber was told of, what its next warning    *)
(* will be made from, and what the warnings that are being put announce    *)
(* add up to the drops.                                                    *)
(***************************************************************************)
Owes(o, c) == SumOf([t \in Threads |-> o[<<t, c>>]], Threads)
Account(a, b, o) == [c \in Conns |-> a[c] + b[c] + Owes(o, c)]

DropsInv == drops = SumOf(Account(told, dropped, owed), Conns)

\* Only a warning that is being put announces drops.
OwedInv == \A t \in Threads, c \in Conns : stage[<<t, c>>] # "warning" => owed[<<t, c>>] = 0

LEMMA ThreadsFinite == IsFiniteSet(Threads)
<1>1. Threads = (({} \cup {"out"}) \cup {"err"}) \cup {"waiter"}
  BY DEF Threads, Pumps
<1> QED BY <1>1, FS_EmptySet, FS_AddElement

LEMMA OwesChange ==
  ASSUME NEW o \in [Threads \X Conns -> Nat], NEW n \in [Threads \X Conns -> Nat],
         NEW t \in Threads, NEW c \in Conns,
         \A u \in Threads, d \in Conns : <<u, d>> # <<t, c>> => n[<<u, d>>] = o[<<u, d>>]
  PROVE  /\ \A d \in Conns : Owes(o, d) \in Int
         /\ \A d \in Conns : d # c => Owes(n, d) = Owes(o, d)
         /\ Owes(n, c) = Owes(o, c) + (n[<<t, c>>] - o[<<t, c>>])
<1> DEFINE F(d) == [u \in Threads |-> o[<<u, d>>]]
           G(d) == [u \in Threads |-> n[<<u, d>>]]
<1>1. \A d \in Conns : F(d) \in [Threads -> Int] /\ G(d) \in [Threads -> Int]
  OBVIOUS
<1>2. ASSUME NEW d \in Conns
      PROVE  /\ Owes(o, d) \in Int
             /\ Owes(n, d) = Owes(o, d) + (G(d)[t] - F(d)[t])
  <2>1. \A u \in Threads : u # t => G(d)[u] = F(d)[u]
    <3>1. ASSUME NEW u \in Threads, u # t PROVE n[<<u, d>>] = o[<<u, d>>]
      <4>1. <<u, d>> # <<t, c>>
        BY <3>1
      <4> QED BY <4>1
    <3> QED BY <3>1
  <2>2. F(d) \in [Threads -> Int] /\ G(d) \in [Threads -> Int]
    BY <1>1
  <2> HIDE DEF F, G
  <2>3. /\ SumOf(F(d), Threads) \in Int
        /\ SumOf(G(d), Threads) = SumOf(F(d), Threads) + (G(d)[t] - F(d)[t])
    BY <2>1, <2>2, ThreadsFinite, SumOfChange
  <2> QED BY <2>3 DEF Owes, F, G
<1>3. ASSUME NEW d \in Conns, d # c PROVE Owes(n, d) = Owes(o, d)
  <2>1. \A u \in Threads : <<u, d>> # <<t, c>>
    BY <1>3
  <2>2. G(d)[t] = n[<<t, d>>] /\ F(d)[t] = o[<<t, d>>] /\ n[<<t, d>>] = o[<<t, d>>]
    BY <2>1
  <2>3. G(d)[t] - F(d)[t] = 0
    BY <2>2
  <2> HIDE DEF F, G
  <2> QED BY <1>2, <2>3
<1>4. G(c)[t] = n[<<t, c>>] /\ F(c)[t] = o[<<t, c>>]
  OBVIOUS
<1> HIDE DEF F, G
<1> QED BY <1>2, <1>3, <1>4

\* Only the entries of c and of <<t, c>> differ.
SameBut(a2, b2, o2, a, b, o, t, c) ==
  /\ \A d \in Conns : d # c => a2[d] = a[d] /\ b2[d] = b[d]
  /\ \A u \in Threads, d \in Conns : <<u, d>> # <<t, c>> => o2[<<u, d>>] = o[<<u, d>>]

Entry(a, b, o, t, c) == a[c] + b[c] + o[<<t, c>>]
Change(a2, b2, o2, a, b, o, t, c) == Entry(a2, b2, o2, t, c) - Entry(a, b, o, t, c)

Follows(a2, b2, o2, a, b, o, t, c) ==
  SumOf(Account(a2, b2, o2), Conns)
    = SumOf(Account(a, b, o), Conns) + Change(a2, b2, o2, a, b, o, t, c)

\* The account of one subscriber changes.
LEMMA AccountChange ==
  ASSUME NEW a \in [Conns -> Nat], NEW b \in [Conns -> Nat], NEW o \in [Threads \X Conns -> Nat],
         NEW a2 \in [Conns -> Nat], NEW b2 \in [Conns -> Nat], NEW o2 \in [Threads \X Conns -> Nat],
         NEW t \in Threads, NEW c \in Conns,
         SameBut(a2, b2, o2, a, b, o, t, c)
  PROVE  Follows(a2, b2, o2, a, b, o, t, c)
<1> DEFINE f == Account(a, b, o)
           e == Account(a2, b2, o2)
<1>0. /\ \A d \in Conns : d # c => a2[d] = a[d] /\ b2[d] = b[d]
      /\ \A u \in Threads, d \in Conns : <<u, d>> # <<t, c>> => o2[<<u, d>>] = o[<<u, d>>]
  BY DEF SameBut
<1>1. /\ \A d \in Conns : Owes(o, d) \in Int /\ Owes(o2, d) \in Int
      /\ \A d \in Conns : d # c => Owes(o2, d) = Owes(o, d)
      /\ Owes(o2, c) = Owes(o, c) + (o2[<<t, c>>] - o[<<t, c>>])
  <2>1. /\ \A d \in Conns : Owes(o, d) \in Int
        /\ \A d \in Conns : d # c => Owes(o2, d) = Owes(o, d)
        /\ Owes(o2, c) = Owes(o, c) + (o2[<<t, c>>] - o[<<t, c>>])
    BY <1>0, OwesChange
  <2>2. \A d \in Conns : Owes(o2, d) \in Int
    <3>1. \A u \in Threads, d \in Conns : <<u, d>> # <<t, c>> => o2[<<u, d>>] = o2[<<u, d>>]
      OBVIOUS
    <3> QED BY <3>1, OwesChange
  <2> QED BY <2>1, <2>2
<1>2. f \in [Conns -> Int] /\ e \in [Conns -> Int]
  BY <1>1 DEF Account
<1>3. \A d \in Conns : d # c => e[d] = f[d]
  BY <1>0, <1>1 DEF Account
<1>4. e[c] - f[c] = (a2[c] + b2[c] + o2[<<t, c>>]) - (a[c] + b[c] + o[<<t, c>>])
  <2>1. e[c] = a2[c] + b2[c] + Owes(o2, c) /\ f[c] = a[c] + b[c] + Owes(o, c)
    BY DEF Account
  <2>2. /\ a2[c] \in Int /\ b2[c] \in Int /\ a[c] \in Int /\ b[c] \in Int
        /\ o2[<<t, c>>] \in Int /\ o[<<t, c>>] \in Int /\ Owes(o, c) \in Int
    BY <1>1
  <2> HIDE DEF e, f
  <2> QED BY <1>1, <2>1, <2>2
<1> HIDE DEF e, f
<1>5. SumOf(f, Conns) \in Int /\ SumOf(e, Conns) = SumOf(f, Conns) + (e[c] - f[c])
  BY <1>2, <1>3, ConnsAssumption, SumOfChange
<1>6. e[c] - f[c] = Change(a2, b2, o2, a, b, o, t, c)
  BY <1>4 DEF Change, Entry
<1>7. SumOf(e, Conns) = SumOf(f, Conns) + Change(a2, b2, o2, a, b, o, t, c)
  BY <1>5, <1>6
<1> QED BY <1>7, Zenon DEF Follows, e, f

LEMMA DropsInit == Init => DropsInv /\ OwedInv
<1> SUFFICES ASSUME Init PROVE DropsInv /\ OwedInv
  OBVIOUS
<1>1. /\ told = [c \in Conns |-> 0] /\ dropped = [c \in Conns |-> 0]
      /\ owed = [e \in Threads \X Conns |-> 0] /\ drops = 0
  BY DEF Init
<1>2. ASSUME NEW c \in Conns PROVE Owes(owed, c) = 0
  <2>1. [t \in Threads |-> owed[<<t, c>>]] = [t \in Threads |-> 0]
    BY <1>1
  <2> QED BY <2>1, ThreadsFinite, SumOfZeros DEF Owes
<1>3. Account(told, dropped, owed) = [c \in Conns |-> 0]
  BY <1>1, <1>2 DEF Account
<1>4. drops = SumOf(Account(told, dropped, owed), Conns)
  BY <1>1, <1>3, ConnsAssumption, SumOfZeros
<1>5. OwedInv
  BY <1>1 DEF OwedInv
<1> QED BY <1>4, <1>5 DEF DropsInv

LEMMA DropsDelivery ==
  ASSUME TypeOK, DropsInv, OwedInv, NEW t \in Threads, NEW c \in Conns,
         Deliver(t, c) \/ Drop(t, c) \/ TakeDrops(t, c) \/ Warn(t, c)
  PROVE  DropsInv' /\ OwedInv'
<1> USE TypeFacts
<1> DEFINE E == <<t, c>>
<1>0. E \in Threads \X Conns
  OBVIOUS
<1>1. ASSUME drops' \in Nat, told' \in [Conns -> Nat], dropped' \in [Conns -> Nat],
             owed' \in [Threads \X Conns -> Nat],
             \A d \in Conns : d # c => told'[d] = told[d] /\ dropped'[d] = dropped[d],
             \A u \in Threads, d \in Conns : <<u, d>> # <<t, c>> => owed'[<<u, d>>] = owed[<<u, d>>],
             drops' = drops + ((told'[c] + dropped'[c] + owed'[<<t, c>>])
                                 - (told[c] + dropped[c] + owed[<<t, c>>]))
      PROVE  DropsInv'
  <2>1. SumOf(Account(told', dropped', owed'), Conns) = SumOf(Account(told, dropped, owed), Conns)
          + ((told'[c] + dropped'[c] + owed'[<<t, c>>]) - (told[c] + dropped[c] + owed[<<t, c>>]))
    <3>1. SameBut(told', dropped', owed', told, dropped, owed, t, c)
      BY <1>1 DEF SameBut
    <3>2. /\ told \in [Conns -> Nat] /\ dropped \in [Conns -> Nat]
          /\ owed \in [Threads \X Conns -> Nat]
      OBVIOUS
    <3> HIDE TypeFacts
    <3>3. Follows(told', dropped', owed', told, dropped, owed, t, c)
      BY <1>1, <3>1, <3>2, AccountChange
    <3> QED BY <3>3 DEF Follows, Change, Entry
  <2>2. drops' = SumOf(Account(told', dropped', owed'), Conns)
    BY <1>1, <2>1 DEF DropsInv
  <2> QED BY <2>2 DEF DropsInv
<1>2. \A u \in Threads, d \in Conns : stage[<<u, d>>] # "warning" => owed[<<u, d>>] = 0
  BY DEF OwedInv
<1>3. ASSUME NEW to, SetStage(t, c, to), NEW v, owed' = [owed EXCEPT ![<<t, c>>] = v],
             to = "warning" \/ v = 0
      PROVE  OwedInv'
  <2>1. stage' = [stage EXCEPT ![<<t, c>>] = to]
    BY <1>3 DEF SetStage
  <2>2. ASSUME NEW u \in Threads, NEW d \in Conns, stage'[<<u, d>>] # "warning"
        PROVE  owed'[<<u, d>>] = 0
    <3>1. CASE <<u, d>> = <<t, c>>
      BY <3>1, <2>1, <2>2, <1>3
    <3>2. CASE <<u, d>> # <<t, c>>
      BY <3>2, <2>1, <2>2, <1>2, <1>3
    <3> QED BY <3>1, <3>2
  <2> QED BY <2>2 DEF OwedInv
<1>4. ASSUME owed' = owed, NEW to, SetStage(t, c, to), stage[<<t, c>>] # "warning"
      PROVE  OwedInv'
  <2>1. owed[<<t, c>>] = 0
    BY <1>4, <1>2
  <2>2. owed' = [owed EXCEPT ![<<t, c>>] = 0]
    BY <1>4, <2>1
  <2> QED BY <1>3, <1>4, <2>2
<1>5. CASE Deliver(t, c)
  <2>1. /\ stage[<<t, c>>] = "put" /\ SetStage(t, c, "none")
        /\ UNCHANGED <<drops, told, dropped, owed>>
    BY <1>5 DEF Deliver
  <2>2. DropsInv'
    BY <2>1 DEF DropsInv
  <2> QED BY <2>1, <2>2, <1>4
<1>6. CASE Drop(t, c)
  <2>1. /\ stage[<<t, c>>] = "put" /\ SetStage(t, c, "dropped") /\ drops' = drops + 1
        /\ dropped' = [dropped EXCEPT ![c] = dropped[c] + 1] /\ UNCHANGED <<told, owed>>
    BY <1>6 DEF Drop
  <2>2. /\ dropped' \in [Conns -> Nat] /\ dropped'[c] = dropped[c] + 1 /\ drops' \in Nat
        /\ \A d \in Conns : d # c => dropped'[d] = dropped[d]
        /\ dropped[c] \in Nat /\ told[c] \in Nat /\ owed[<<t, c>>] \in Nat
    BY <2>1
  <2>3. DropsInv'
    BY <2>1, <2>2, <1>1
  <2> QED BY <2>1, <2>3, <1>4
<1>7. CASE TakeDrops(t, c)
  <2>1. stage[<<t, c>>] = "dropped" /\ UNCHANGED <<drops, told>>
    BY <1>7 DEF TakeDrops
  <2>2. CASE SetStage(t, c, "none") /\ UNCHANGED <<owed, dropped>>
    <3>1. DropsInv'
      BY <2>1, <2>2 DEF DropsInv
    <3> QED BY <2>1, <2>2, <3>1, <1>4
  <2>3. CASE /\ owed' = [owed EXCEPT ![<<t, c>>] = dropped[c]]
             /\ dropped' = [dropped EXCEPT ![c] = 0] /\ SetStage(t, c, "warning")
    <3>1. owed[<<t, c>>] = 0 /\ dropped[c] \in Nat /\ told[c] \in Nat
      BY <2>1, <1>2
    <3>2. /\ owed' \in [Threads \X Conns -> Nat] /\ owed'[<<t, c>>] = dropped[c]
          /\ \A u \in Threads, d \in Conns : <<u, d>> # <<t, c>> => owed'[<<u, d>>] = owed[<<u, d>>]
      BY <2>3
    <3>3. /\ dropped' \in [Conns -> Nat] /\ dropped'[c] = 0
          /\ \A d \in Conns : d # c => dropped'[d] = dropped[d]
      BY <2>3
    <3>4. DropsInv'
      BY <2>1, <3>1, <3>2, <3>3, <1>1
    <3> QED BY <2>3, <3>4, <1>3
  <2> QED BY <1>7, <2>2, <2>3 DEF TakeDrops
<1>8. CASE Warn(t, c)
  <2>1. /\ SetStage(t, c, "none") /\ owed' = [owed EXCEPT ![<<t, c>>] = 0] /\ drops' = drops
    BY <1>8 DEF Warn
  <2>2. /\ owed' \in [Threads \X Conns -> Nat] /\ owed'[<<t, c>>] = 0
        /\ \A u \in Threads, d \in Conns : <<u, d>> # <<t, c>> => owed'[<<u, d>>] = owed[<<u, d>>]
        /\ dropped[c] \in Nat /\ told[c] \in Nat /\ owed[<<t, c>>] \in Nat
    BY <2>1
  <2>3. CASE told' = [told EXCEPT ![c] = told[c] + owed[<<t, c>>]] /\ dropped' = dropped
    <3>1. /\ told' \in [Conns -> Nat] /\ told'[c] = told[c] + owed[<<t, c>>]
          /\ \A d \in Conns : d # c => told'[d] = told[d]
      BY <2>2, <2>3
    <3>2. drops' = drops + ((told'[c] + dropped'[c] + owed'[<<t, c>>])
                              - (told[c] + dropped[c] + owed[<<t, c>>]))
      BY <2>1, <2>2, <2>3, <3>1
    <3>3. DropsInv'
      BY <2>1, <2>2, <2>3, <3>1, <3>2, <1>1
    <3>4. OwedInv'
      BY <2>1, <1>3
    <3> QED BY <3>3, <3>4
  <2>4. CASE dropped' = [dropped EXCEPT ![c] = dropped[c] + owed[<<t, c>>]] /\ told' = told
    <3>1. /\ dropped' \in [Conns -> Nat] /\ dropped'[c] = dropped[c] + owed[<<t, c>>]
          /\ \A d \in Conns : d # c => dropped'[d] = dropped[d]
      BY <2>2, <2>4
    <3>2. drops' = drops + ((told'[c] + dropped'[c] + owed'[<<t, c>>])
                              - (told[c] + dropped[c] + owed[<<t, c>>]))
      BY <2>1, <2>2, <2>4, <3>1
    <3>3. DropsInv'
      BY <2>1, <2>2, <2>4, <3>1, <3>2, <1>1
    <3>4. OwedInv'
      BY <2>1, <1>3
    <3> QED BY <3>3, <3>4
  <2> QED BY <1>8, <2>3, <2>4 DEF Warn
<1> QED BY <1>5, <1>6, <1>7, <1>8

LEMMA DropsStep ==
  TypeOK /\ StreamInv /\ DropsInv /\ OwedInv /\ [Next]_vars => DropsInv' /\ OwedInv'
<1> SUFFICES ASSUME TypeOK, StreamInv, DropsInv, OwedInv, [Next]_vars
             PROVE  DropsInv' /\ OwedInv'
  OBVIOUS
<1>0. ASSUME UNCHANGED <<drops, told, dropped, owed, stage>> PROVE DropsInv' /\ OwedInv'
  BY <1>0 DEF DropsInv, OwedInv
<1>1. CASE UNCHANGED vars
  BY <1>0, <1>1 DEF vars
<1>2. ASSUME NEW p \in Pumps, Read(p) \/ PumpReturn(p) \/ Eof(p) PROVE DropsInv' /\ OwedInv'
  BY <1>0, <1>2 DEF Read, PumpReturn, Eof, delivery, slot
<1>3. ASSUME NEW t \in Threads, Record(t) PROVE DropsInv' /\ OwedInv'
  BY <1>0, <1>3 DEF Record, delivery, slot
<1>4. ASSUME NEW t \in Threads, Fanout(t) PROVE DropsInv' /\ OwedInv'
  <2>1. pc[t] = "recorded" /\ UNCHANGED <<drops, told, dropped, owed>>
    BY <1>4 DEF Fanout, slot
  <2>2. \A u \in Threads, c \in Conns :
          stage'[<<u, c>>] = IF u = t /\ c \in Subs THEN "put" ELSE stage[<<u, c>>]
    BY <1>4 DEF Fanout
  <2>3. \A c \in Conns : stage[<<t, c>>] = "none"
    BY <2>1 DEF StreamInv
  <2>4. ASSUME NEW u \in Threads, NEW c \in Conns, stage'[<<u, c>>] # "warning"
        PROVE  owed'[<<u, c>>] = 0
    <3>1. stage[<<u, c>>] # "warning"
      <4>1. CASE u = t
        BY <4>1, <2>3
      <4>2. CASE u # t
        BY <4>2, <2>2, <2>4
      <4> QED BY <4>1, <4>2
    <3> QED BY <3>1, <2>1 DEF OwedInv
  <2>5. OwedInv'
    BY <2>4 DEF OwedInv
  <2>6. DropsInv'
    BY <2>1 DEF DropsInv
  <2> QED BY <2>5, <2>6
<1>5. ASSUME NEW t \in Threads, NEW c \in Conns,
             Deliver(t, c) \/ Drop(t, c) \/ TakeDrops(t, c) \/ Warn(t, c)
      PROVE  DropsInv' /\ OwedInv'
  BY <1>5, DropsDelivery
<1>6. ASSUME Join \/ WaiterSend \/ WaiterReturn \/ Pop PROVE DropsInv' /\ OwedInv'
  BY <1>0, <1>6 DEF Join, WaiterSend, WaiterReturn, Pop, delivery, slot
<1>7. ASSUME NEW c \in Conns, Subscribe(c) \/ Get(c) \/ Leave(c) \/ GhostGet(c)
      PROVE  DropsInv' /\ OwedInv'
  BY <1>0, <1>7 DEF Subscribe, Get, Leave, GhostGet, delivery, slot
<1>8. CASE Broker
  BY <1>8, <1>2, <1>3, <1>4, <1>5, <1>6 DEF Broker
<1>9. CASE Client
  BY <1>9, <1>7 DEF Client
<1> QED BY <1>1, <1>8, <1>9 DEF Next

\* The two folds of DropsAccounted, with their definitions expanded.
OwesFold(iter, o, c) ==
  iter = [s \in SUBSET Threads |->
            IF s = {} THEN 0
            ELSE o[<<CHOOSE x \in s : TRUE, c>>] + iter[s \ {CHOOSE x \in s : TRUE}]]
OwesSum(o, c) == (CHOOSE iter : OwesFold(iter, o, c))[Threads]

DropsFold(iter, a, b, o) ==
  iter = [s \in SUBSET Conns |->
            IF s = {} THEN 0
            ELSE a[CHOOSE x \in s : TRUE] + b[CHOOSE x \in s : TRUE]
                   + OwesSum(o, CHOOSE x \in s : TRUE) + iter[s \ {CHOOSE x \in s : TRUE}]]
DropsSum(a, b, o) == (CHOOSE iter : DropsFold(iter, a, b, o))[Conns]

LEMMA OwesSumIs ==
  ASSUME NEW o \in [Threads \X Conns -> Nat], NEW c \in Conns
  PROVE  OwesSum(o, c) = Owes(o, c) /\ Owes(o, c) \in Int
<1> DEFINE f == [t \in Threads |-> o[<<t, c>>]]
<1>1. ASSUME NEW g PROVE Summed(f, Threads, g) <=> OwesFold(g, o, c)
  <2> DEFINE Fold(s) == IF s = {} THEN 0
                        ELSE o[<<CHOOSE x \in s : TRUE, c>>] + g[s \ {CHOOSE x \in s : TRUE}]
  <2>1. ASSUME NEW s \in SUBSET Threads PROVE Summand(f, g, s) = Fold(s)
    <3>1. CASE s = {}
      BY <3>1 DEF Summand
    <3>2. CASE s # {}
      <4>1. f[Pick(s)] = o[<<Pick(s), c>>]
        BY <3>2, ThreadsFinite, PickFacts
      <4> HIDE DEF f
      <4> QED BY <3>2, <4>1 DEF Summand, Pick
    <3> QED BY <3>1, <3>2
  <2>2. [s \in SUBSET Threads |-> Summand(f, g, s)] = [s \in SUBSET Threads |-> Fold(s)]
    BY <2>1
  <2> QED BY <2>2 DEF Summed, OwesFold
<1>2. f \in [Threads -> Int]
  OBVIOUS
<1>3. Owes(o, c) = SumOf(f, Threads)
  BY DEF Owes
<1> HIDE DEF f
<1>4. PICK g : Summed(f, Threads, g)
  BY ThreadsFinite, SummedExists
<1>5. OwesFold(CHOOSE iter : OwesFold(iter, o, c), o, c)
  BY <1>1, <1>4
<1>6. Summed(f, Threads, CHOOSE iter : OwesFold(iter, o, c))
  BY <1>1, <1>5
<1> QED BY <1>2, <1>3, <1>6, ThreadsFinite, SumOfIs DEF OwesSum

LEMMA DropsSumIs ==
  ASSUME NEW a \in [Conns -> Nat], NEW b \in [Conns -> Nat], NEW o \in [Threads \X Conns -> Nat]
  PROVE  DropsSum(a, b, o) = SumOf(Account(a, b, o), Conns)
<1> DEFINE f == Account(a, b, o)
<1>0. \A c \in Conns : OwesSum(o, c) = Owes(o, c) /\ Owes(o, c) \in Int
  BY OwesSumIs
<1>1. ASSUME NEW g PROVE Summed(f, Conns, g) <=> DropsFold(g, a, b, o)
  <2> DEFINE Fold(s) == IF s = {} THEN 0
                        ELSE a[CHOOSE x \in s : TRUE] + b[CHOOSE x \in s : TRUE]
                               + OwesSum(o, CHOOSE x \in s : TRUE) + g[s \ {CHOOSE x \in s : TRUE}]
  <2>1. ASSUME NEW s \in SUBSET Conns PROVE Summand(f, g, s) = Fold(s)
    <3>1. CASE s = {}
      BY <3>1 DEF Summand
    <3>2. CASE s # {}
      <4>1. Pick(s) \in Conns
        BY <3>2, ConnsAssumption, PickFacts
      <4>2. f[Pick(s)] = a[Pick(s)] + b[Pick(s)] + OwesSum(o, Pick(s))
        BY <4>1, <1>0 DEF Account
      <4> HIDE DEF f
      <4> QED BY <3>2, <4>2 DEF Summand, Pick
    <3> QED BY <3>1, <3>2
  <2>2. [s \in SUBSET Conns |-> Summand(f, g, s)] = [s \in SUBSET Conns |-> Fold(s)]
    BY <2>1
  <2> QED BY <2>2 DEF Summed, DropsFold
<1>2. f \in [Conns -> Int]
  BY <1>0 DEF Account
<1> HIDE DEF f
<1>4. PICK g : Summed(f, Conns, g)
  BY ConnsAssumption, SummedExists
<1>5. DropsFold(CHOOSE iter : DropsFold(iter, a, b, o), a, b, o)
  BY <1>1, <1>4
<1>6. Summed(f, Conns, CHOOSE iter : DropsFold(iter, a, b, o))
  BY <1>1, <1>5
<1>7. DropsSum(a, b, o) = SumOf(f, Conns)
  BY <1>2, <1>6, ConnsAssumption, SumOfIs DEF DropsSum
<1> QED BY <1>7 DEF f

\* The fold over the threads, as DropsAccounted writes it.
LEMMA OwesSumForm ==
  \A c : MapThenSumSet(LAMBDA t : owed[<<t, c>>], Threads) = OwesSum(owed, c)
BY DEF MapThenSumSet, MapThenFoldSet, OwesSum, OwesFold

LEMMA DropsSumForm ==
  MapThenSumSet(LAMBDA c : told[c] + dropped[c]
    + MapThenSumSet(LAMBDA t : owed[<<t, c>>], Threads), Conns) = DropsSum(told, dropped, owed)
BY DEF MapThenSumSet, MapThenFoldSet, DropsSum, DropsFold, OwesSum, OwesFold

\* Every dropped line is counted once: in a warning put into the queue, in one that
\* is being put, or in the count the next warning will be made from.
THEOREM StreamDropsAccounted == Spec => []DropsAccounted
<1>1. TypeOK /\ DropsInv => DropsAccounted
  <2> SUFFICES ASSUME TypeOK, DropsInv PROVE DropsAccounted
    OBVIOUS
  <2>1. DropsSum(told, dropped, owed) = SumOf(Account(told, dropped, owed), Conns)
    BY TypeFacts, DropsSumIs
  <2>2. drops = DropsSum(told, dropped, owed)
    BY <2>1 DEF DropsInv
  <2> QED BY <2>2, DropsSumForm DEF DropsAccounted
<1> QED BY <1>1, DropsInit, DropsStep, StreamTypes, PTL DEF Spec

=============================================================================
