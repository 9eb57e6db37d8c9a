------------------------ MODULE WorkspaceEditorProofs ------------------------
(***************************************************************************)
(* Proofs about module WorkspaceEditor: for every set of files, number of  *)
(* saves under way, depth of the history and number of versions.           *)
(***************************************************************************)
EXTENDS WorkspaceEditor, SequenceTheorems, TLAPS

Kinds == {"idle", "auto", "manual", "overwrite"}
Phases == {"idle", "check", "ask", "write", "blind", "after", "scan"}
SaveRecords ==
  [kind : Kinds, file : Files \cup {None}, doc : Documents,
   current : BOOLEAN, phase : Phases]

TypeOK ==
  /\ doc \in Documents
  /\ past \in Seq(Documents) /\ future \in Seq(Documents)
  /\ active \in Files \cup {None}
  /\ baseline \in [file : Files \cup {None}, current : BOOLEAN]
  /\ disk \in [Files -> Documents]
  /\ DOMAIN index \subseteq Files
  /\ armed \in BOOLEAN /\ paused \in BOOLEAN /\ dialog \in BOOLEAN
  /\ force \in BOOLEAN /\ failed \in BOOLEAN /\ blocking \in BOOLEAN
  /\ opening \subseteq Files
  /\ saves \in [Slots -> SaveRecords]
  /\ made \in 0 .. MaxVersion
  /\ unseen \subseteq Files
  /\ lost \subseteq Files /\ unguarded \subseteq Files

(* A save that is under way is of a file.                                  *)
Shape ==
  /\ \A s \in Slots :
       /\ saves[s].kind = "idle" <=> saves[s].phase = "idle"
       /\ saves[s].kind # "idle" => saves[s].file \in Files
       /\ saves[s].phase \in {"ask", "scan"} => saves[s].kind = "manual"
       /\ saves[s].phase = "check" => saves[s].kind # "overwrite"
  /\ armed => active # None

(* The index has every graph that was always found in its file, and a save *)
(* is of the graph of its file, of a draft or of one that was not.         *)
Graphs ==
  /\ \A f \in Files \ lost : f \in DOMAIN index /\ index[f] = f
  /\ \A s \in Slots : saves[s].kind # "idle" =>
       saves[s].doc.graph \in {None, saves[s].file} \cup lost

(* The active file has its fingerprint, or is known to have none, and a    *)
(* fingerprint that is the one of the file leaves no change unseen.        *)
Guarded == IF baseline.file = active THEN active \notin unguarded
           ELSE active \in unguarded \cup {None}

Seen ==
  /\ Guarded
  /\ baseline.current => baseline.file \notin unseen
  /\ \A s \in Slots :
       /\ saves[s].phase = "check" /\ saves[s].current =>
            saves[s].file \notin unseen
       /\ saves[s].phase = "write" /\ saves[s].kind = "auto" =>
            saves[s].file \notin unseen \ unguarded
       /\ saves[s].phase = "after" => saves[s].file \notin unseen

Depth == Len(past) + Len(future) <= MaxDepth

EditorInv ==
  TypeOK /\ Depth /\ Shape /\ Graphs /\ Seen /\ UnsavedIsPending

LEMMA EditorInit == Init => EditorInv
<1> SUFFICES ASSUME Init PROVE EditorInv
  OBVIOUS
<1>1. Draft \in Documents
  BY VersionAssumption DEF Draft, Documents
<1>2. Idle \in SaveRecords /\ Idle.kind = "idle" /\ Idle.phase = "idle"
  BY <1>1 DEF Idle, Save, SaveRecords, Kinds, Phases
<1>3. \A f \in Files : [graph |-> f, ver |-> 0] \in Documents
  BY VersionAssumption DEF Documents
<1>4. TypeOK
  <2>1. disk \in [Files -> Documents] /\ DOMAIN index \subseteq Files
    BY <1>3 DEF Init
  <2>2. saves \in [Slots -> SaveRecords]
    BY <1>2 DEF Init
  <2>3. baseline \in [file : Files \cup {None}, current : BOOLEAN]
    BY DEF Init
  <2>4. past \in Seq(Documents) /\ future \in Seq(Documents)
    BY DEF Init
  <2>5. /\ armed \in BOOLEAN /\ paused \in BOOLEAN /\ dialog \in BOOLEAN
        /\ force \in BOOLEAN /\ failed \in BOOLEAN /\ blocking \in BOOLEAN
        /\ lost \subseteq Files /\ unguarded \subseteq Files
    BY DEF Init
  <2>6. /\ doc \in Documents /\ active \in Files \cup {None}
        /\ opening \subseteq Files /\ unseen \subseteq Files
        /\ made \in 0 .. MaxVersion
    BY <1>1, VersionAssumption DEF Init
  <2> QED BY <2>1, <2>2, <2>3, <2>4, <2>5, <2>6 DEF TypeOK
<1>5. Depth /\ Shape
  BY <1>2, DepthAssumption DEF Init, Depth, Shape
<1>6. Graphs
  BY <1>2 DEF Init, Graphs
<1>8. Seen /\ UnsavedIsPending
  BY <1>2 DEF Init, Seen, Guarded, UnsavedIsPending
<1> QED BY <1>4, <1>5, <1>6, <1>8 DEF EditorInv

-----------------------------------------------------------------------------
(* The history.                                                            *)

(* A snapshot adds at most one document, and none beyond the limit.        *)
LEMMA SnapshotBounded ==
  ASSUME NEW stack \in Seq(Documents), NEW d \in Documents,
         Len(stack) <= MaxDepth
  PROVE  LET new == SnapshotBeforeChange(stack, d) IN
         /\ new \in Seq(Documents)
         /\ Len(new) <= MaxDepth
         /\ \A i \in 1 .. Len(new) :
              new[i] = d \/ \E j \in 1 .. Len(stack) : new[i] = stack[j]
<1> DEFINE new == SnapshotBeforeChange(stack, d)
<1>1. CASE stack # <<>> /\ stack[Len(stack)] = d
  BY <1>1 DEF SnapshotBeforeChange
<1>2. CASE ~(stack # <<>> /\ stack[Len(stack)] = d) /\ Len(stack) < MaxDepth
  <2>1. new = Append(stack, d)
    BY <1>2 DEF SnapshotBeforeChange
  <2>2. /\ Append(stack, d) \in Seq(Documents)
        /\ Len(Append(stack, d)) = Len(stack) + 1
        /\ Append(stack, d)[Len(stack) + 1] = d
        /\ \A i \in 1 .. Len(stack) : Append(stack, d)[i] = stack[i]
        /\ Len(stack) \in Nat
    OBVIOUS
  <2> QED BY <1>2, <2>1, <2>2, DepthAssumption
<1>3. CASE /\ ~(stack # <<>> /\ stack[Len(stack)] = d)
           /\ ~(Len(stack) < MaxDepth)
  <2>1. new = Append(Tail(stack), d)
    BY <1>3 DEF SnapshotBeforeChange
  <2>2. Len(stack) \in Nat /\ Len(stack) = MaxDepth /\ stack # <<>>
    BY <1>3, DepthAssumption
  <2> DEFINE t == Tail(stack)
             n == Len(stack)
  <2>3. /\ t \in Seq(Documents) /\ Len(t) = n - 1 /\ n \in Nat /\ n > 0
    BY <2>2
  <2>4. \A i \in 1 .. n - 1 : t[i] = stack[i + 1]
    BY <2>2, <2>3, HeadTailProperties
  <2> HIDE DEF t, n
  <2>5. /\ Append(t, d) \in Seq(Documents)
        /\ Len(Append(t, d)) = n
        /\ Append(t, d)[n] = d
        /\ \A i \in 1 .. n - 1 : Append(t, d)[i] = t[i]
    BY <2>3
  <2>6. \A i \in 1 .. n :
          Append(t, d)[i] = d \/ \E j \in 1 .. n : Append(t, d)[i] = stack[j]
    <3> SUFFICES ASSUME NEW i \in 1 .. n
                 PROVE  \/ Append(t, d)[i] = d
                        \/ \E j \in 1 .. n : Append(t, d)[i] = stack[j]
      OBVIOUS
    <3>1. CASE i = n
      BY <2>5, <3>1
    <3>2. CASE i # n
      <4>1. i \in 1 .. n - 1 /\ i + 1 \in 1 .. n
        BY <2>3, <3>2
      <4>2. Append(t, d)[i] = stack[i + 1]
        BY <2>4, <2>5, <4>1
      <4> QED BY <4>1, <4>2
    <3> QED BY <3>1, <3>2
  <2>7. n = MaxDepth /\ new = Append(t, d)
    BY <2>1, <2>2 DEF n, t
  <2> QED BY <2>5, <2>6, <2>7, DepthAssumption DEF n
<1> QED BY <1>1, <1>2, <1>3

(* Undo moves the document to the future, redo moves it back.              *)
LEMMA UndoMoves ==
  ASSUME TypeOK, Undo
  PROVE  /\ doc' \in Documents /\ past' \in Seq(Documents)
         /\ future' \in Seq(Documents)
         /\ Len(past') + Len(future') = Len(past) + Len(future)
         /\ \E i \in 1 .. Len(past) : doc' = past[i]
         /\ \A i \in 1 .. Len(past') : past'[i] = past[i]
         /\ Len(past') <= Len(past)
         /\ \A i \in 1 .. Len(future') :
              future'[i] = doc \/ \E j \in 1 .. Len(future) : future'[i] = future[j]
<1> DEFINE n == Len(past)
           m == Len(future)
<1>1. /\ past \in Seq(Documents) /\ future \in Seq(Documents)
      /\ doc \in Documents /\ past # <<>>
      /\ doc' = past[n] /\ past' = SubSeq(past, 1, n - 1)
      /\ future' = <<doc>> \o future
  BY DEF TypeOK, Undo
<1>2. n \in Nat /\ n > 0 /\ m \in Nat
  BY <1>1
<1>3. \A i \in 1 .. n : past[i] \in Documents
  BY <1>1
<1> HIDE DEF n, m
<1>4. PICK k \in Nat : k + 1 = n
  BY <1>2
<1>5. n - 1 = k /\ past' = SubSeq(past, 1, k)
  BY <1>1, <1>2, <1>4
<1>6. /\ SubSeq(past, 1, k) \in Seq(Documents)
      /\ Len(SubSeq(past, 1, k)) = k
      /\ \A i \in 1 .. k : SubSeq(past, 1, k)[i] = past[i]
  BY <1>2, <1>3, <1>4, SubSeqProperties
<1>7. /\ <<doc>> \in Seq(Documents) /\ Len(<<doc>>) = 1 /\ <<doc>>[1] = doc
  BY <1>1
<1>8. /\ <<doc>> \o future \in Seq(Documents)
      /\ Len(<<doc>> \o future) = 1 + m
      /\ \A i \in 1 .. 1 + m : (<<doc>> \o future)[i] =
           IF i <= 1 THEN <<doc>>[i] ELSE future[i - 1]
  BY <1>1, <1>7, ConcatProperties DEF m
<1>9. \A i \in 1 .. 1 + m :
        (<<doc>> \o future)[i] = doc
        \/ \E j \in 1 .. m : (<<doc>> \o future)[i] = future[j]
  <2>1. \A i \in 1 .. 1 + m : i = 1 \/ (~(i <= 1) /\ i - 1 \in 1 .. m)
    BY <1>2
  <2> QED BY <1>7, <1>8, <2>1
<1>10. n \in 1 .. n /\ past' = SubSeq(past, 1, k) /\ doc' = past[n]
  BY <1>1, <1>2, <1>5
<1>11. Len(past') = k /\ Len(future') = 1 + m
  BY <1>1, <1>5, <1>6, <1>8
<1>12. /\ doc' \in Documents /\ past' \in Seq(Documents)
       /\ future' \in Seq(Documents)
  BY <1>1, <1>3, <1>6, <1>8, <1>10
<1>13. Len(past') + Len(future') = n + m /\ Len(past') <= n
  BY <1>2, <1>4, <1>11
<1>14. \A i \in 1 .. Len(past') : past'[i] = past[i]
  BY <1>6, <1>10, <1>11
<1>15. \A i \in 1 .. Len(future') :
         future'[i] = doc \/ \E j \in 1 .. m : future'[i] = future[j]
  BY <1>1, <1>9, <1>11
<1> QED BY <1>10, <1>12, <1>13, <1>14, <1>15 DEF n, m

LEMMA RedoMoves ==
  ASSUME TypeOK, Redo
  PROVE  /\ doc' \in Documents /\ past' \in Seq(Documents)
         /\ future' \in Seq(Documents)
         /\ Len(past') + Len(future') = Len(past) + Len(future)
         /\ \E i \in 1 .. Len(future) : doc' = future[i]
         /\ \A i \in 1 .. Len(past') :
              past'[i] = doc \/ \E j \in 1 .. Len(past) : past'[i] = past[j]
         /\ \A i \in 1 .. Len(future') :
              \E j \in 1 .. Len(future) : future'[i] = future[j]
<1> DEFINE n == Len(past)
           m == Len(future)
<1>1. /\ past \in Seq(Documents) /\ future \in Seq(Documents)
      /\ doc \in Documents /\ future # <<>>
      /\ doc' = Head(future) /\ past' = Append(past, doc)
      /\ future' = Tail(future)
  BY DEF TypeOK, Redo
<1>2. n \in Nat /\ m \in Nat /\ m > 0 /\ Head(future) = future[1]
  BY <1>1
<1>3. /\ Head(future) \in Documents /\ Tail(future) \in Seq(Documents)
      /\ Len(Tail(future)) = m - 1
      /\ \A i \in 1 .. Len(Tail(future)) : Tail(future)[i] = future[i + 1]
  BY <1>1, HeadTailProperties
<1>4. /\ Append(past, doc) \in Seq(Documents)
      /\ Len(Append(past, doc)) = n + 1
      /\ Append(past, doc)[n + 1] = doc
      /\ \A i \in 1 .. n : Append(past, doc)[i] = past[i]
  BY <1>1
<1> HIDE DEF n, m
<1>5. \A i \in 1 .. n + 1 : i = n + 1 \/ i \in 1 .. n
  BY <1>2
<1>6. \A i \in 1 .. m - 1 : i + 1 \in 1 .. m
  BY <1>2
<1>7. Len(past') + Len(future') = n + m
  <2>1. Len(past') = n + 1 /\ Len(future') = m - 1
    BY <1>1, <1>3, <1>4
  <2> QED BY <1>2, <2>1
<1>8. \A i \in 1 .. n + 1 : Append(past, doc)[i] = doc
        \/ \E j \in 1 .. n : Append(past, doc)[i] = past[j]
  BY <1>4, <1>5
<1>9. \A i \in 1 .. m - 1 : \E j \in 1 .. m : Tail(future)[i] = future[j]
  BY <1>3, <1>6
<1>10. 1 \in 1 .. m
  BY <1>2
<1> QED BY <1>1, <1>2, <1>3, <1>4, <1>7, <1>8, <1>9, <1>10 DEF n, m

(* The saves of a file that is written have an old fingerprint.            *)
LEMMA SavesAfterWriteKeeps ==
  ASSUME NEW f \in Files, NEW all \in [Slots -> SaveRecords]
  PROVE  LET new == SavesAfterWrite(f, all) IN
         /\ new \in [Slots -> SaveRecords]
         /\ \A s \in Slots :
              /\ new[s].kind = all[s].kind /\ new[s].file = all[s].file
              /\ new[s].phase = all[s].phase /\ new[s].doc = all[s].doc
              /\ all[s].file = f => ~new[s].current
              /\ all[s].file # f => new[s] = all[s]
<1> DEFINE new == SavesAfterWrite(f, all)
<1>1. new = [s \in Slots |-> IF all[s].file = f
                             THEN [all[s] EXCEPT !.current = FALSE] ELSE all[s]]
  BY DEF SavesAfterWrite
<1> HIDE DEF new
<1>2. ASSUME NEW s \in Slots
      PROVE  /\ new[s] \in SaveRecords
             /\ new[s].kind = all[s].kind /\ new[s].file = all[s].file
             /\ new[s].phase = all[s].phase /\ new[s].doc = all[s].doc
             /\ all[s].file = f => ~new[s].current
             /\ all[s].file # f => new[s] = all[s]
  <2>1. all[s] \in SaveRecords
    OBVIOUS
  <2>2. CASE all[s].file = f
    <3>1. new[s] = [all[s] EXCEPT !.current = FALSE]
      BY <1>1, <2>2
    <3> QED BY <2>1, <2>2, <3>1 DEF SaveRecords
  <2>3. CASE all[s].file # f
    BY <1>1, <2>1, <2>3
  <2> QED BY <2>2, <2>3
<1>3. new \in [Slots -> SaveRecords]
  BY <1>1, <1>2
<1> QED BY <1>2, <1>3 DEF new

-----------------------------------------------------------------------------
(* Every step keeps the invariant.                                         *)

(* Steps that change the document and its history.                         *)
LEMMA HistorySteps ==
  ASSUME EditorInv, Edit \/ Undo \/ Redo
  PROVE  EditorInv'
<1>1. TypeOK /\ Depth /\ Shape /\ Graphs /\ Seen
  BY DEF EditorInv
<1>2. /\ ~ModalOpen /\ armed' = Arms(active, paused, blocking)
      /\ UNCHANGED <<active, baseline, disk, index, paused, dialog, force,
                     failed, blocking, opening, saves, unseen, lost, unguarded>>
      /\ made' \in 0 .. MaxVersion
  BY <1>1, VersionAssumption DEF Edit, Undo, Redo, TypeOK
<1>3. /\ doc' \in Documents /\ past' \in Seq(Documents)
      /\ future' \in Seq(Documents)
      /\ Len(past') + Len(future') <= MaxDepth
  <2>1. CASE Edit
    <3>1. /\ doc' = [doc EXCEPT !.ver = made + 1] /\ future' = <<>>
          /\ past' = SnapshotBeforeChange(past, doc)
          /\ made < MaxVersion
      BY <2>1 DEF Edit
    <3>2. Len(past) \in Nat /\ Len(future) \in Nat /\ Len(past) <= MaxDepth
      BY <1>1, DepthAssumption DEF TypeOK, Depth
    <3>3. /\ past' \in Seq(Documents) /\ Len(past') <= MaxDepth
          /\ \A i \in 1 .. Len(past') :
               past'[i] = doc \/ \E j \in 1 .. Len(past) : past'[i] = past[j]
      BY <1>1, <3>1, <3>2, SnapshotBounded DEF TypeOK
    <3>4. doc' \in Documents
      <4>1. made + 1 \in 0 .. MaxVersion /\ doc \in Documents
        BY <1>1, <3>1, VersionAssumption DEF TypeOK
      <4> QED BY <3>1, <4>1 DEF Documents
    <3>5. future' \in Seq(Documents) /\ Len(future') = 0 /\ Len(past') \in Nat
      BY <3>1, <3>3
    <3> QED BY <3>3, <3>4, <3>5, DepthAssumption
  <2>2. CASE Undo \/ Redo
    <3>1. /\ doc' \in Documents /\ past' \in Seq(Documents)
          /\ future' \in Seq(Documents)
          /\ Len(past') + Len(future') = Len(past) + Len(future)
      BY <1>1, <2>2, UndoMoves, RedoMoves
    <3>3. Len(past') + Len(future') <= MaxDepth
      BY <1>1, <3>1 DEF Depth
    <3> QED BY <3>1, <3>3
  <2> QED BY <2>1, <2>2
<1>4. TypeOK'
  <2>1. armed' \in BOOLEAN
    BY <1>2 DEF Arms
  <2> QED BY <1>1, <1>2, <1>3, <2>1 DEF TypeOK
<1>5. Depth'
  BY <1>3 DEF Depth
<1>6. Shape'
  BY <1>1, <1>2 DEF Shape, Arms
<1>7. Graphs'
  BY <1>1, <1>2 DEF Graphs
<1>9. Seen'
  BY <1>1, <1>2 DEF Seen, Guarded
<1>10. UnsavedIsPending'
  BY <1>2 DEF UnsavedIsPending, Arms
<1> QED BY <1>4, <1>5, <1>6, <1>7, <1>9, <1>10 DEF EditorInv

(* Steps that leave documents, files and saves alone.                      *)
LEMMA QuietSteps ==
  ASSUME EditorInv,
         \/ ToggleBlocking \/ Reload \/ Pause
         \/ \E f \in Files : Open(f) \/ OpenFails(f)
  PROVE  EditorInv'
<1>1. TypeOK /\ Depth /\ Shape /\ Graphs /\ Seen /\ UnsavedIsPending
  BY DEF EditorInv
<1>2. /\ UNCHANGED <<doc, past, future, active, baseline, disk, index, force,
                     failed, saves, made, unseen, lost, unguarded>>
      /\ opening' \subseteq Files
      /\ dialog' \in BOOLEAN /\ paused' \in BOOLEAN /\ blocking' \in BOOLEAN
  BY <1>1 DEF ToggleBlocking, Reload, Pause, Open, OpenFails, history, TypeOK
<1>3. /\ armed' \in BOOLEAN
      /\ armed' => active # None
      /\ \/ armed' = Arms(active, paused', blocking')
         \/ paused'
         \/ UNCHANGED <<armed, paused, blocking>>
  <2>1. CASE ToggleBlocking
    BY <1>1, <2>1 DEF ToggleBlocking, Arms
  <2>2. CASE Reload
    <3>1. CASE paused
      BY <2>2, <3>1 DEF Reload, AfterUnpause, Arms
    <3>2. CASE ~paused
      <4>1. paused' = paused /\ armed' = armed /\ blocking' = blocking
        BY <1>1, <2>2, <3>2 DEF Reload, AfterUnpause, TypeOK
      <4> QED BY <1>1, <4>1 DEF TypeOK, Shape
    <3> QED BY <3>1, <3>2
  <2>3. CASE Pause
    BY <2>3 DEF Pause
  <2>4. CASE \E f \in Files : Open(f) \/ OpenFails(f)
    BY <1>1, <2>4 DEF Open, OpenFails, TypeOK, Shape
  <2> QED BY <2>1, <2>2, <2>3, <2>4
<1>4. TypeOK'
  <2>1. armed' \in BOOLEAN /\ opening' \subseteq Files
        /\ dialog' \in BOOLEAN /\ paused' \in BOOLEAN /\ blocking' \in BOOLEAN
    BY <1>2, <1>3
  <2>2. /\ doc' \in Documents
        /\ past' \in Seq(Documents) /\ future' \in Seq(Documents)
        /\ active' \in Files \cup {None}
        /\ baseline' \in [file : Files \cup {None}, current : BOOLEAN]
        /\ disk' \in [Files -> Documents]
        /\ DOMAIN index' \subseteq Files
        /\ force' \in BOOLEAN /\ failed' \in BOOLEAN
        /\ saves' \in [Slots -> SaveRecords]
        /\ made' \in 0 .. MaxVersion /\ unseen' \subseteq Files
        /\ lost' \subseteq Files /\ unguarded' \subseteq Files
    BY <1>1, <1>2 DEF TypeOK
  <2> QED BY <2>1, <2>2 DEF TypeOK
<1>5. Depth' /\ Shape' /\ Graphs' /\ Seen'
  BY <1>1, <1>2, <1>3 DEF Depth, Shape, Graphs, Seen, Guarded
<1>6. UnsavedIsPending'
  <2>1. CASE paused'
    BY <2>1 DEF UnsavedIsPending
  <2>2. CASE UNCHANGED <<armed, paused, blocking>>
    BY <1>1, <1>2, <2>2 DEF UnsavedIsPending, IdConflict
  <2>3. CASE armed' = Arms(active, paused', blocking') /\ ~paused'
    BY <1>2, <2>3 DEF UnsavedIsPending, Arms
  <2> QED BY <1>3, <2>1, <2>2, <2>3
<1> QED BY <1>4, <1>5, <1>6 DEF EditorInv

(* A document is opened, or a new one begun.                               *)
LEMMA OpenDoneStep ==
  ASSUME EditorInv, NEW f \in Files, OpenDone(f)
  PROVE  EditorInv'
<1>1. TypeOK /\ Depth /\ Shape /\ Graphs /\ Seen
  BY DEF EditorInv
<1>2. /\ doc' = disk[f] /\ past' = <<>> /\ future' = <<>> /\ active' = f
      /\ baseline' = [file |-> f, current |-> TRUE]
      /\ opening' \subseteq Files /\ unseen' = unseen \ {f}
      /\ unguarded' = unguarded \ {f}
      /\ paused' = FALSE /\ dialog' = FALSE /\ armed' = Arms(f, FALSE, blocking)
      /\ UNCHANGED <<disk, index, force, failed, blocking, saves, made, lost>>
  BY <1>1 DEF OpenDone, OpenBaseline, TypeOK
<1>3. f # None /\ <<>> \in Seq(Documents) /\ Len(<<>>) = 0
  BY FilesAssumption
<1>4. TypeOK'
  BY <1>1, <1>2, <1>3 DEF TypeOK, Arms
<1>5. Depth'
  BY <1>2, <1>3, DepthAssumption DEF Depth
<1>6. Shape'
  BY <1>1, <1>2, <1>3 DEF Shape
<1>7. Graphs'
  BY <1>1, <1>2 DEF Graphs
<1>9. Seen'
  BY <1>1, <1>2 DEF Seen, Guarded
<1>10. UnsavedIsPending'
  BY <1>2 DEF UnsavedIsPending
<1> QED BY <1>4, <1>5, <1>6, <1>7, <1>9, <1>10 DEF EditorInv

LEMMA NewGraphStep ==
  ASSUME EditorInv, NewGraph
  PROVE  EditorInv'
<1>1. TypeOK /\ Depth /\ Shape /\ Graphs /\ Seen
  BY DEF EditorInv
<1>2. /\ doc' = Draft /\ past' = <<>> /\ future' = <<>> /\ active' = None
      /\ baseline' = [file |-> None, current |-> FALSE]
      /\ paused' = FALSE /\ dialog' = FALSE /\ armed' = FALSE /\ ~ModalOpen
      /\ UNCHANGED <<disk, index, force, failed, blocking, opening, saves, made,
                     unseen, lost, unguarded>>
  BY DEF NewGraph
<1>3. /\ Draft \in Documents /\ Draft.graph = None
      /\ <<>> \in Seq(Documents) /\ Len(<<>>) = 0
  BY VersionAssumption DEF Draft, Documents
<1>4. TypeOK'
  BY <1>1, <1>2, <1>3 DEF TypeOK
<1>5. Depth'
  BY <1>2, <1>3, DepthAssumption DEF Depth
<1>6. Shape' /\ Graphs'
  BY <1>1, <1>2 DEF Shape, Graphs
<1>8. Seen' /\ UnsavedIsPending'
  BY <1>1, <1>2, FilesAssumption DEF TypeOK, Seen, Guarded, UnsavedIsPending
<1> QED BY <1>4, <1>5, <1>6, <1>8 DEF EditorInv

(* Another program writes: the fingerprints of the file are old ones now.  *)
LEMMA OutsideWriteStep ==
  ASSUME EditorInv, NEW f \in Files, OutsideWrite(f)
  PROVE  EditorInv'
<1>1. TypeOK /\ Depth /\ Shape /\ Graphs /\ Seen /\ UnsavedIsPending
  BY DEF EditorInv
<1>2. /\ made < MaxVersion /\ made' = made + 1
      /\ baseline' = BaselineAfterWrite(f)
      /\ saves' = SavesAfterWrite(f, saves)
      /\ unseen' = IF PastCheck(f) THEN unseen ELSE unseen \cup {f}
      /\ UNCHANGED <<doc, past, future, active, index, armed, paused, dialog,
                     force, failed, blocking, opening, lost, unguarded>>
      /\ \E g \in Files : disk' = [disk EXCEPT ![f] = [graph |-> g, ver |-> made + 1]]
  BY DEF OutsideWrite, history
<1>3. made' \in 0 .. MaxVersion
  BY <1>1, <1>2, VersionAssumption DEF TypeOK
<1>4. /\ disk' \in [Files -> Documents]
      /\ \A g \in Files \ {f} : disk'[g] = disk[g]
  BY <1>1, <1>2, <1>3 DEF TypeOK, Documents
<1>5. /\ baseline' \in [file : Files \cup {None}, current : BOOLEAN]
      /\ baseline'.file = baseline.file
      /\ baseline.file = f => ~baseline'.current
      /\ baseline.file # f => baseline' = baseline
  BY <1>1, <1>2 DEF TypeOK, BaselineAfterWrite
<1>6. /\ saves' \in [Slots -> SaveRecords]
      /\ \A s \in Slots :
           /\ saves'[s].kind = saves[s].kind /\ saves'[s].file = saves[s].file
           /\ saves'[s].phase = saves[s].phase /\ saves'[s].doc = saves[s].doc
           /\ saves[s].file = f => ~saves'[s].current
           /\ saves[s].file # f => saves'[s] = saves[s]
  BY <1>1, <1>2, SavesAfterWriteKeeps DEF TypeOK
<1>7. TypeOK'
  BY <1>1, <1>2, <1>3, <1>4, <1>5, <1>6 DEF TypeOK
<1>8. Depth' /\ Shape'
  BY <1>1, <1>2, <1>6 DEF Depth, Shape
<1>9. Graphs'
  BY <1>1, <1>2, <1>4, <1>6 DEF Graphs
<1>11. Seen'
  BY <1>1, <1>2, <1>5, <1>6 DEF Seen, Guarded, PastCheck
<1>12. UnsavedIsPending'
  <2>1. SUFFICES ASSUME UnsavedIsPending!1' PROVE UnsavedIsPending!2'
    BY DEF UnsavedIsPending
  <2>2. baseline' = [file |-> active, current |-> TRUE] /\ active' = active
    BY <1>2, <2>1
  <2>3. baseline = baseline' /\ active # f
    BY <1>1, <1>5, <2>2 DEF TypeOK
  <2>4. disk'[active] = disk[active]
    BY <1>1, <1>2, <1>4, <2>1, <2>3 DEF TypeOK
  <2>5. UnsavedIsPending!1
    BY <1>2, <2>1, <2>3, <2>4 DEF IdConflict
  <2>6. UnsavedIsPending!2
    BY <1>1, <2>5 DEF UnsavedIsPending
  <2> QED BY <1>2, <1>6, <2>3, <2>6
<1> QED BY <1>7, <1>8, <1>9, <1>11, <1>12 DEF EditorInv

(* The index refuses a graph it knows in another file.                     *)
LEMMA IdConflictFree ==
  ASSUME Graphs, NEW d \in Documents, NEW f \in Files, ~IdConflict(d, f)
  PROVE  d.graph \in {None, f} \cup lost
<1>1. d.graph \in Files \cup {None}
  BY DEF Documents
<1>2. \A g \in Files \ lost : g \in DOMAIN index /\ index[g] = g
  BY DEF Graphs
<1> QED BY <1>1, <1>2 DEF IdConflict

(* A save begins with the document and the fingerprint of the editor.      *)
LEMMA SaveBegins ==
  ASSUME EditorInv, NEW s \in Slots, saves[s] = Idle, NEW f \in Files,
         NEW k \in {"auto", "manual", "overwrite"},
         NEW phase \in {"check", "write"},
         ~IdConflict(doc, f),
         phase = "check" => baseline.file = f,
         k # "manual" => f = active,
         k = "auto" /\ baseline.file = active => phase = "check",
         k = "overwrite" => phase = "write",
         saves' = [saves EXCEPT ![s] = Save(k, f, doc, baseline.current, phase)],
         UNCHANGED <<doc, past, future, active, baseline, disk, index, failed,
                     blocking, opening, made, unseen, lost, unguarded>>,
         armed' \in BOOLEAN, armed' => active # None,
         paused' \in BOOLEAN, dialog' \in BOOLEAN, force' \in BOOLEAN
  PROVE  TypeOK' /\ Depth' /\ Shape' /\ Graphs' /\ Seen'
<1> DEFINE rec == Save(k, f, doc, baseline.current, phase)
<1>1. TypeOK /\ Depth /\ Shape /\ Graphs /\ Seen
  BY DEF EditorInv
<1>2. /\ rec \in SaveRecords /\ rec.kind = k /\ rec.file = f /\ rec.doc = doc
      /\ rec.current = baseline.current /\ rec.phase = phase
  BY <1>1 DEF Save, SaveRecords, Kinds, Phases, TypeOK
<1> HIDE DEF rec
<1>3. /\ saves' \in [Slots -> SaveRecords] /\ saves'[s] = rec
      /\ \A t \in Slots \ {s} : saves'[t] = saves[t]
  BY <1>1, <1>2 DEF TypeOK, rec
<1>4. TypeOK'
  BY <1>1, <1>3 DEF TypeOK
<1>5. Depth' /\ Shape'
  BY <1>1, <1>2, <1>3 DEF Depth, Shape
<1>6. doc.graph \in {None, f} \cup lost
  BY <1>1, IdConflictFree DEF TypeOK
<1>7. Graphs'
  BY <1>1, <1>2, <1>3, <1>6 DEF Graphs
<1>10. Seen'
  BY <1>1, <1>2, <1>3, FilesAssumption DEF Seen, Guarded
<1> QED BY <1>4, <1>5, <1>7, <1>10

LEMMA AutosaveFiresStep ==
  ASSUME EditorInv, NEW s \in Slots, AutosaveFires(s)
  PROVE  EditorInv'
<1>1. TypeOK /\ Depth /\ Shape /\ Graphs /\ Seen /\ UnsavedIsPending
  BY DEF EditorInv
<1>2. /\ armed /\ saves[s] = Idle /\ armed' = FALSE /\ active \in Files
      /\ saves' = IF IdConflict(doc, active) THEN saves
                  ELSE [saves EXCEPT ![s] =
                         Save("auto", active, doc, baseline.current,
                              FirstPhase(baseline.file = active))]
      /\ UNCHANGED <<doc, past, future, active, baseline, disk, index, paused,
                     dialog, force, failed, blocking, opening, made, unseen,
                     lost, unguarded>>
  BY <1>1 DEF AutosaveFires, history, Shape, TypeOK
<1>3. CASE IdConflict(doc, active)
  <2>1. saves' = saves
    BY <1>2, <1>3
  <2>2. TypeOK' /\ Depth' /\ Shape' /\ Graphs' /\ Seen'
    <3>1. armed' \in BOOLEAN /\ ~armed'
      BY <1>2
    <3>2. TypeOK'
      BY <1>1, <1>2, <2>1, <3>1 DEF TypeOK
    <3>3. Depth' /\ Shape' /\ Graphs' /\ Seen'
      BY <1>1, <1>2, <2>1, <3>1 DEF Depth, Shape, Graphs, Seen, Guarded
    <3> QED BY <3>2, <3>3
  <2>4. UnsavedIsPending'
    BY <1>2, <1>3 DEF UnsavedIsPending, IdConflict
  <2> QED BY <2>2, <2>4 DEF EditorInv
<1>4. CASE ~IdConflict(doc, active)
  <2> DEFINE phase == FirstPhase(baseline.file = active)
  <2>1. /\ phase \in {"check", "write"}
        /\ phase = "check" <=> baseline.file = active
    BY DEF FirstPhase
  <2>2. saves' = [saves EXCEPT ![s] =
                   Save("auto", active, doc, baseline.current, phase)]
    BY <1>2, <1>4
  <2> HIDE DEF phase
  <2>3. TypeOK' /\ Depth' /\ Shape' /\ Graphs' /\ Seen'
    <3>1. /\ armed' \in BOOLEAN /\ ~armed' /\ paused' \in BOOLEAN
          /\ dialog' \in BOOLEAN /\ force' \in BOOLEAN
      BY <1>1, <1>2 DEF TypeOK
    <3>2. /\ "auto" \in {"auto", "manual", "overwrite"}
          /\ "auto" # "manual" /\ "auto" # "overwrite"
      OBVIOUS
    <3> QED BY <1>2, <1>4, <2>1, <2>2, <3>1, <3>2, SaveBegins
  <2>4. UnsavedIsPending'
    <3>1. /\ saves'[s].kind = "auto" /\ saves'[s].file = active
          /\ saves'[s].current = baseline.current
      BY <1>1, <2>2 DEF Save, TypeOK
    <3>2. ASSUME baseline' = [file |-> active', current |-> TRUE]
          PROVE  saves'[s].current
      <4>1. baseline = [file |-> active', current |-> TRUE]
        BY <1>2, <3>2
      <4>2. baseline.current = TRUE
        BY <4>1
      <4> QED BY <3>1, <4>2
    <3>3. saves'[s].kind \in {"auto", "overwrite"} /\ saves'[s].file = active'
      BY <1>2, <3>1
    <3> QED BY <3>2, <3>3 DEF UnsavedIsPending
  <2> QED BY <2>3, <2>4 DEF EditorInv
<1> QED BY <1>3, <1>4

LEMMA SaveToStep ==
  ASSUME EditorInv, NEW s \in Slots, NEW f \in Files, SaveTo(s, f)
  PROVE  EditorInv'
<1>1. TypeOK /\ Depth /\ Shape /\ Graphs /\ Seen /\ UnsavedIsPending
  BY DEF EditorInv
<1> DEFINE phase == FirstPhase(~force /\ baseline.file = f /\ f = active)
<1>2. /\ saves[s] = Idle /\ doc.graph \in Files /\ ~IdConflict(doc, f)
      /\ saves' = [saves EXCEPT ![s] =
                     Save("manual", f, doc, baseline.current, phase)]
      /\ UNCHANGED <<doc, past, future, active, baseline, disk, index, armed,
                     paused, dialog, force, failed, blocking, opening, made,
                     unseen, lost, unguarded>>
  BY DEF SaveTo, history
<1>3. /\ phase \in {"check", "write"}
      /\ phase = "check" => baseline.file = f
  BY DEF FirstPhase
<1> HIDE DEF phase
<1>4. "manual" \in {"auto", "manual", "overwrite"}
  OBVIOUS
<1>5. /\ armed' \in BOOLEAN
      /\ armed' => active # None
      /\ paused' \in BOOLEAN /\ dialog' \in BOOLEAN /\ force' \in BOOLEAN
  BY <1>1, <1>2 DEF TypeOK, Shape
<1>6. TypeOK' /\ Depth' /\ Shape' /\ Graphs' /\ Seen'
  BY <1>2, <1>3, <1>4, <1>5, SaveBegins
<1>7. UnsavedIsPending'
  <2>1. saves[s].kind = "idle"
    BY <1>2 DEF Idle, Save
  <2>2. \A t \in Slots \ {s} : saves'[t] = saves[t]
    BY <1>1, <1>2 DEF TypeOK
  <2> QED BY <1>1, <1>2, <2>1, <2>2 DEF UnsavedIsPending, IdConflict
<1> QED BY <1>6, <1>7 DEF EditorInv

LEMMA OverwriteStep ==
  ASSUME EditorInv, NEW s \in Slots, Overwrite(s)
  PROVE  EditorInv'
<1>1. TypeOK /\ Depth /\ Shape /\ Graphs /\ Seen /\ UnsavedIsPending
  BY DEF EditorInv
<1>2. /\ active # None /\ active \in Files /\ saves[s] = Idle
      /\ dialog' = FALSE /\ paused' = FALSE /\ armed' = AfterUnpause
      /\ force' = ~IdConflict(doc, active)
      /\ saves' = IF IdConflict(doc, active) THEN saves
                  ELSE [saves EXCEPT ![s] =
                         Save("overwrite", active, doc, baseline.current, "write")]
      /\ UNCHANGED <<doc, past, future, active, baseline, disk, index, failed,
                     blocking, opening, made, unseen, lost, unguarded>>
  BY <1>1 DEF Overwrite, history, TypeOK
<1>3. armed' \in BOOLEAN /\ force' \in BOOLEAN
  BY <1>1, <1>2 DEF TypeOK, AfterUnpause, Arms
<1>4. CASE IdConflict(doc, active)
  <2>1. saves' = saves
    BY <1>2, <1>4
  <2>2. TypeOK'
    BY <1>1, <1>2, <1>3, <2>1 DEF TypeOK
  <2>3. Depth' /\ Shape' /\ Graphs' /\ Seen'
    BY <1>1, <1>2, <2>1 DEF Depth, Shape, Graphs, Seen, Guarded
  <2>5. UnsavedIsPending'
    BY <1>2, <1>4 DEF UnsavedIsPending, IdConflict
  <2> QED BY <2>2, <2>3, <2>5 DEF EditorInv
<1>5. CASE ~IdConflict(doc, active)
  <2>1. saves' = [saves EXCEPT ![s] =
                   Save("overwrite", active, doc, baseline.current, "write")]
    BY <1>2, <1>5
  <2>2. TypeOK' /\ Depth' /\ Shape' /\ Graphs' /\ Seen'
    BY <1>2, <1>3, <1>5, <2>1, SaveBegins
  <2>3. UnsavedIsPending'
    <3>1. /\ saves'[s].kind = "overwrite" /\ saves'[s].file = active
          /\ saves'[s].phase = "write"
      BY <1>1, <2>1 DEF Save, TypeOK
    <3> QED BY <1>2, <3>1 DEF UnsavedIsPending
  <2> QED BY <2>2, <2>3 DEF EditorInv
<1> QED BY <1>4, <1>5

(* The buttons of the save dialog, and what its save does at the end.      *)
LEMMA DialogSteps ==
  ASSUME EditorInv, NEW s \in Slots,
         SaveAnyway(s) \/ SaveCancelled(s) \/ Rescanned(s)
  PROVE  EditorInv'
<1>1. TypeOK /\ Depth /\ Shape /\ Graphs /\ Seen /\ UnsavedIsPending
  BY DEF EditorInv
<1>2. /\ saves[s].kind = "manual" /\ saves[s].file \in Files
      /\ UNCHANGED <<doc, past, future, active, baseline, disk, paused, dialog,
                     failed, blocking, opening, made, unseen, unguarded>>
      /\ force' \in BOOLEAN
  BY <1>1 DEF SaveAnyway, SaveCancelled, Rescanned, history, Shape, TypeOK
<1>3. /\ armed' \in BOOLEAN
      /\ armed' => active # None
      /\ armed' = armed \/ armed' = Arms(active, paused, blocking)
  <2>1. CASE Rescanned(s)
    BY <2>1 DEF Rescanned, Arms
  <2>2. CASE SaveAnyway(s) \/ SaveCancelled(s)
    <3>1. armed' = armed /\ armed \in BOOLEAN /\ (armed => active # None)
      BY <1>1, <2>2 DEF SaveAnyway, SaveCancelled, Shape, TypeOK
    <3> QED BY <3>1
  <2> QED BY <2>1, <2>2
<1>4. /\ DOMAIN index' \subseteq Files /\ lost' \subseteq Files
      /\ lost \subseteq lost'
      /\ \A f \in Files \ lost' : f \in DOMAIN index' /\ index'[f] = f
  <2>1. CASE Rescanned(s)
    <3>1. PICK F \in SUBSET Files :
            /\ index' = [f \in F |-> disk[f].graph]
            /\ lost' = lost \cup {f \in Files : f \notin F \/ disk[f].graph # f}
      BY <2>1 DEF Rescanned
    <3> QED BY <1>1, <3>1 DEF TypeOK
  <2>2. CASE SaveAnyway(s) \/ SaveCancelled(s)
    BY <1>1, <2>2 DEF SaveAnyway, SaveCancelled, TypeOK, Graphs
  <2> QED BY <2>1, <2>2
<1>5. /\ Idle \in SaveRecords
      /\ Idle.kind = "idle" /\ Idle.phase = "idle" /\ Idle.file = None
  BY VersionAssumption DEF Idle, Save, Draft, Documents, SaveRecords, Kinds, Phases
<1>6. PICK rec \in SaveRecords :
        /\ saves' = [saves EXCEPT ![s] = rec]
        /\ \/ rec = Idle
           \/ /\ rec.kind = "manual" /\ rec.file = saves[s].file
              /\ rec.phase = "write" /\ rec.doc = doc
              /\ ~IdConflict(doc, saves[s].file)
  <2>1. CASE saves' = [saves EXCEPT ![s] = Idle]
    BY <1>5, <2>1
  <2>2. CASE SaveAnyway(s) /\ ~IdConflict(doc, saves[s].file)
    <3> DEFINE rec == [saves[s] EXCEPT !.doc = doc, !.phase = "write"]
    <3>1. saves[s] \in SaveRecords /\ doc \in Documents
      BY <1>1 DEF TypeOK
    <3>2. /\ rec \in SaveRecords /\ rec.kind = "manual"
          /\ rec.file = saves[s].file /\ rec.phase = "write" /\ rec.doc = doc
      BY <1>2, <3>1 DEF SaveRecords, Phases
    <3>3. saves' = [saves EXCEPT ![s] = rec]
      BY <1>1, <2>2 DEF SaveAnyway, TypeOK
    <3> QED BY <2>2, <3>2, <3>3
  <2> QED BY <2>1, <2>2 DEF SaveAnyway, SaveCancelled, Rescanned
<1>7. /\ saves' \in [Slots -> SaveRecords] /\ saves'[s] = rec
      /\ \A t \in Slots \ {s} : saves'[t] = saves[t]
  BY <1>1, <1>6 DEF TypeOK
<1>8. TypeOK'
  BY <1>1, <1>2, <1>3, <1>4, <1>7 DEF TypeOK
<1>9. Depth' /\ Shape'
  BY <1>1, <1>2, <1>3, <1>5, <1>6, <1>7 DEF Depth, Shape
<1>10. rec # Idle => rec.doc.graph \in {None, rec.file} \cup lost
  BY <1>1, <1>2, <1>6, IdConflictFree DEF TypeOK
<1>11. Graphs'
  BY <1>1, <1>2, <1>4, <1>5, <1>6, <1>7, <1>10 DEF Graphs
<1>13. Seen'
  BY <1>1, <1>2, <1>5, <1>6, <1>7 DEF Seen, Guarded
<1>14. UnsavedIsPending'
  <2>1. CASE Rescanned(s)
    <3>1. armed' = Arms(active, paused, blocking)
      BY <2>1 DEF Rescanned
    <3> QED BY <1>2, <3>1 DEF UnsavedIsPending, Arms
  <2>2. CASE SaveAnyway(s) \/ SaveCancelled(s)
    <3>1. armed' = armed /\ index' = index
      BY <2>2 DEF SaveAnyway, SaveCancelled
    <3> QED BY <1>1, <1>2, <1>7, <3>1 DEF UnsavedIsPending, IdConflict
  <2> QED BY <2>1, <2>2
<1> QED BY <1>8, <1>9, <1>11, <1>13, <1>14 DEF EditorInv

(* A save whose fingerprint is not the one of the file is told.            *)
LEMMA CheckStep ==
  ASSUME EditorInv, NEW s \in Slots, Check(s)
  PROVE  EditorInv'
<1>1. TypeOK /\ Depth /\ Shape /\ Graphs /\ Seen /\ UnsavedIsPending
  BY DEF EditorInv
<1>2. /\ saves[s].phase = "check" /\ saves[s].kind # "idle"
      /\ saves[s] \in SaveRecords /\ saves[s].kind \in Kinds
      /\ UNCHANGED <<doc, past, future, active, baseline, disk, index, armed,
                     paused, force, failed, blocking, opening, made, lost,
                     unguarded>>
      /\ unseen' \subseteq unseen /\ dialog' \in BOOLEAN
  BY <1>1 DEF Check, history, Shape, TypeOK, SaveRecords
<1>3. /\ Idle \in SaveRecords
      /\ Idle.kind = "idle" /\ Idle.phase = "idle" /\ Idle.file = None
  BY VersionAssumption DEF Idle, Save, Draft, Documents, SaveRecords, Kinds, Phases
<1>4. PICK rec \in SaveRecords :
        /\ saves' = [saves EXCEPT ![s] = rec]
        /\ \/ rec = Idle /\ ~saves[s].current
           \/ /\ rec.kind = saves[s].kind /\ rec.file = saves[s].file
              /\ rec.doc = saves[s].doc /\ rec.current = saves[s].current
              /\ \/ rec.phase = "write" /\ rec.current
                 \/ rec.phase = "ask" /\ rec.kind = "manual" /\ ~rec.current
  <2>1. CASE saves' = [saves EXCEPT ![s] = Idle] /\ ~saves[s].current
    BY <1>3, <2>1
  <2>2. ASSUME NEW p \in {"write", "ask"}, saves' = [saves EXCEPT ![s].phase = p],
               \/ p = "write" /\ saves[s].current
               \/ p = "ask" /\ saves[s].kind = "manual" /\ ~saves[s].current
        PROVE  \E rec \in SaveRecords :
                 /\ saves' = [saves EXCEPT ![s] = rec]
                 /\ rec.kind = saves[s].kind /\ rec.file = saves[s].file
                 /\ rec.doc = saves[s].doc /\ rec.current = saves[s].current
                 /\ rec.phase = p
    <3> DEFINE rec == [saves[s] EXCEPT !.phase = p]
    <3>1. /\ rec \in SaveRecords
          /\ rec.kind = saves[s].kind /\ rec.file = saves[s].file
          /\ rec.doc = saves[s].doc /\ rec.current = saves[s].current
          /\ rec.phase = p
      BY <1>2 DEF SaveRecords, Phases
    <3>2. saves' = [saves EXCEPT ![s] = rec]
      BY <1>1, <2>2 DEF TypeOK
    <3> QED BY <3>1, <3>2
  <2>3. saves[s].kind # "auto" => saves[s].kind = "manual"
    BY <1>1, <1>2 DEF Shape, Kinds
  <2> QED BY <2>1, <2>2, <2>3 DEF Check, FingerprintConflicts
<1>5. /\ saves' \in [Slots -> SaveRecords] /\ saves'[s] = rec
      /\ \A t \in Slots \ {s} : saves'[t] = saves[t]
  BY <1>1, <1>4 DEF TypeOK
<1>6. TypeOK'
  BY <1>1, <1>2, <1>5 DEF TypeOK
<1>8. Depth' /\ Shape'
  BY <1>1, <1>2, <1>3, <1>4, <1>5 DEF Depth, Shape
<1>9. Graphs'
  BY <1>1, <1>2, <1>3, <1>4, <1>5 DEF Graphs
<1>10. Seen'
  BY <1>1, <1>2, <1>3, <1>4, <1>5 DEF Seen, Guarded
<1>11. UnsavedIsPending'
  BY <1>1, <1>2, <1>3, <1>4, <1>5 DEF UnsavedIsPending, IdConflict
<1> QED BY <1>6, <1>8, <1>9, <1>10, <1>11 DEF EditorInv

(* A save that has no fingerprint to compare goes on.                      *)
LEMMA CheckBlindStep ==
  ASSUME EditorInv, NEW s \in Slots, CheckBlind(s)
  PROVE  EditorInv'
<1>1. TypeOK /\ Depth /\ Shape /\ Graphs /\ Seen /\ UnsavedIsPending
  BY DEF EditorInv
<1>2. /\ saves[s].phase = "check" /\ saves[s].kind # "idle"
      /\ saves[s] \in SaveRecords
      /\ saves' = [saves EXCEPT ![s].phase = "blind"]
      /\ UNCHANGED <<doc, past, future, active, baseline, disk, index, armed,
                     paused, dialog, force, failed, blocking, opening, made,
                     unseen, lost, unguarded>>
  BY <1>1 DEF CheckBlind, history, Shape, TypeOK
<1>3. /\ saves' \in [Slots -> SaveRecords]
      /\ \A t \in Slots \ {s} : saves'[t] = saves[t]
      /\ saves'[s].kind = saves[s].kind /\ saves'[s].file = saves[s].file
      /\ saves'[s].doc = saves[s].doc /\ saves'[s].phase = "blind"
  <2> DEFINE rec == [saves[s] EXCEPT !.phase = "blind"]
  <2>1. /\ rec \in SaveRecords /\ rec.kind = saves[s].kind
        /\ rec.file = saves[s].file /\ rec.doc = saves[s].doc
        /\ rec.phase = "blind"
    BY <1>2 DEF SaveRecords, Phases
  <2>2. saves' = [saves EXCEPT ![s] = rec]
    BY <1>1, <1>2 DEF TypeOK
  <2> HIDE DEF rec
  <2> QED BY <1>1, <2>1, <2>2 DEF TypeOK
<1>4. TypeOK'
  BY <1>1, <1>2, <1>3 DEF TypeOK
<1>5. Depth' /\ Shape' /\ Graphs'
  BY <1>1, <1>2, <1>3 DEF Depth, Shape, Graphs
<1>6. Seen'
  BY <1>1, <1>2, <1>3 DEF Seen, Guarded
<1>7. UnsavedIsPending'
  BY <1>1, <1>2, <1>3 DEF UnsavedIsPending, IdConflict
<1> QED BY <1>4, <1>5, <1>6, <1>7 DEF EditorInv

(* A save writes its file: the fingerprints of the file are old ones now.  *)
LEMMA WriteStep ==
  ASSUME EditorInv, NEW s \in Slots, Write(s)
  PROVE  EditorInv'
<1>1. TypeOK /\ Depth /\ Shape /\ Graphs /\ Seen /\ UnsavedIsPending
  BY DEF EditorInv
<1> DEFINE f == saves[s].file
           all == [saves EXCEPT ![s].phase = "after"]
<1>2. /\ saves[s].phase \in {"write", "blind"} /\ saves[s] \in SaveRecords
      /\ saves[s].kind # "idle" /\ f \in Files /\ saves[s].doc \in Documents
  BY <1>1 DEF Write, Shape, TypeOK, SaveRecords
<1>3. /\ disk' = [disk EXCEPT ![f] = saves[s].doc]
      /\ baseline' = BaselineAfterWrite(f)
      /\ saves' = SavesAfterWrite(f, all)
      /\ unseen' = unseen \ {f}
      /\ force' = (force /\ saves[s].kind = "auto")
      /\ UNCHANGED <<doc, past, future, active, index, armed, paused, dialog,
                     failed, blocking, opening, made, lost, unguarded>>
  BY DEF Write, history
<1>4. /\ all \in [Slots -> SaveRecords]
      /\ all[s].kind = saves[s].kind /\ all[s].file = f /\ all[s].doc = saves[s].doc
      /\ all[s].phase = "after"
      /\ \A t \in Slots \ {s} : all[t] = saves[t]
  <2> DEFINE rec == [saves[s] EXCEPT !.phase = "after"]
  <2>1. /\ rec \in SaveRecords /\ rec.kind = saves[s].kind /\ rec.file = f
        /\ rec.doc = saves[s].doc /\ rec.phase = "after"
    BY <1>2 DEF SaveRecords, Phases
  <2>2. all = [saves EXCEPT ![s] = rec]
    BY <1>1 DEF TypeOK
  <2> HIDE DEF rec, all
  <2> QED BY <1>1, <2>1, <2>2 DEF TypeOK
<1> HIDE DEF f, all
<1>5. /\ baseline' \in [file : Files \cup {None}, current : BOOLEAN]
      /\ baseline'.file = baseline.file
      /\ baseline.file = f => ~baseline'.current
      /\ baseline.file # f => baseline' = baseline
  BY <1>1, <1>3 DEF TypeOK, BaselineAfterWrite
<1>6. /\ saves' \in [Slots -> SaveRecords]
      /\ \A t \in Slots :
           /\ saves'[t].kind = saves[t].kind /\ saves'[t].file = saves[t].file
           /\ saves'[t].doc = saves[t].doc
           /\ saves[t].file = f => ~saves'[t].current
           /\ saves[t].file # f => saves'[t] = saves[t]
           /\ t # s => saves'[t].phase = saves[t].phase
      /\ saves'[s].phase = "after"
  <2>1. /\ saves' \in [Slots -> SaveRecords]
        /\ \A t \in Slots :
             /\ saves'[t].kind = all[t].kind /\ saves'[t].file = all[t].file
             /\ saves'[t].phase = all[t].phase /\ saves'[t].doc = all[t].doc
             /\ all[t].file = f => ~saves'[t].current
             /\ all[t].file # f => saves'[t] = all[t]
    BY <1>2, <1>3, <1>4, SavesAfterWriteKeeps
  <2> QED BY <1>4, <2>1 DEF f
<1>7. /\ disk' \in [Files -> Documents] /\ disk'[f] = saves[s].doc
      /\ \A g \in Files \ {f} : disk'[g] = disk[g]
  BY <1>1, <1>2, <1>3 DEF TypeOK
<1>8. TypeOK'
  <2>1. force' \in BOOLEAN /\ unseen' \subseteq Files
    BY <1>1, <1>3 DEF TypeOK
  <2> QED BY <1>1, <1>3, <1>5, <1>6, <1>7, <2>1 DEF TypeOK
<1>9. Depth' /\ Shape'
  BY <1>1, <1>2, <1>3, <1>6 DEF Depth, Shape
<1>10. Graphs'
  BY <1>1, <1>2, <1>3, <1>6, <1>7 DEF Graphs, f
<1>12. Seen'
  BY <1>1, <1>2, <1>3, <1>5, <1>6 DEF Seen, Guarded, f
<1>13. UnsavedIsPending'
  <2>1. SUFFICES ASSUME UnsavedIsPending!1' PROVE UnsavedIsPending!2'
    BY DEF UnsavedIsPending
  <2>2. baseline' = [file |-> active, current |-> TRUE] /\ active' = active
    BY <1>3, <2>1
  <2>3. baseline = baseline' /\ active # f
    BY <1>1, <1>5, <2>2 DEF TypeOK
  <2>4. disk'[active] = disk[active]
    BY <1>1, <1>3, <1>7, <2>1, <2>3 DEF TypeOK
  <2>5. UnsavedIsPending!1
    BY <1>3, <2>1, <2>3, <2>4 DEF IdConflict
  <2>6. UnsavedIsPending!2
    BY <1>1, <2>5 DEF UnsavedIsPending
  <2> QED BY <1>3, <1>6, <2>3, <2>6
<1> QED BY <1>8, <1>9, <1>10, <1>12, <1>13 DEF EditorInv

(* A save that cannot write tells it, in the banner or in its dialog.      *)
LEMMA WriteFailsStep ==
  ASSUME EditorInv, NEW s \in Slots, WriteFails(s)
  PROVE  EditorInv'
<1>1. TypeOK /\ Depth /\ Shape /\ Graphs /\ Seen /\ UnsavedIsPending
  BY DEF EditorInv
<1>2. /\ failed' = (failed \/ saves[s].kind # "manual")
      /\ saves' = [saves EXCEPT ![s] = Idle]
      /\ UNCHANGED <<doc, past, future, active, baseline, disk, index, armed,
                     paused, dialog, force, blocking, opening, made, unseen,
                     lost, unguarded>>
  BY DEF WriteFails, FailureBanner, history
<1>3. /\ Idle \in SaveRecords
      /\ Idle.kind = "idle" /\ Idle.phase = "idle" /\ Idle.file = None
  BY VersionAssumption DEF Idle, Save, Draft, Documents, SaveRecords, Kinds, Phases
<1>4. /\ saves' \in [Slots -> SaveRecords] /\ saves'[s] = Idle
      /\ \A t \in Slots \ {s} : saves'[t] = saves[t]
  BY <1>1, <1>2, <1>3 DEF TypeOK
<1>5. TypeOK'
  <2>1. failed' \in BOOLEAN
    BY <1>2
  <2> QED BY <1>1, <1>2, <1>4, <2>1 DEF TypeOK
<1>6. Depth' /\ Shape' /\ Graphs' /\ Seen'
  BY <1>1, <1>2, <1>3, <1>4 DEF Depth, Shape, Graphs, Seen, Guarded
<1>7. UnsavedIsPending'
  <2>1. CASE saves[s].kind = "manual"
    BY <1>1, <1>2, <1>4, <2>1 DEF UnsavedIsPending, TypeOK, IdConflict
  <2>2. CASE saves[s].kind # "manual"
    BY <1>2, <2>2 DEF UnsavedIsPending
  <2> QED BY <2>1, <2>2
<1> QED BY <1>5, <1>6, <1>7 DEF EditorInv

(* A save ends: what it saved is the document again.                       *)
LEMMA SaveDoneStep ==
  ASSUME EditorInv, NEW s \in Slots, SaveDone(s)
  PROVE  EditorInv'
<1>1. TypeOK /\ Depth /\ Shape /\ Graphs /\ Seen
  BY DEF EditorInv
<1> DEFINE f == saves[s].file
           manual == saves[s].kind = "manual"
<1>2. /\ saves[s].phase = "after" /\ saves[s] \in SaveRecords
      /\ saves[s].kind # "idle" /\ f \in Files /\ saves[s].doc \in Documents
      /\ f \notin unseen
  BY <1>1 DEF SaveDone, Shape, TypeOK, SaveRecords, Seen, Guarded
<1>3. /\ doc' = saves[s].doc
      /\ active' = IF manual THEN f ELSE active
      /\ unguarded' = IF baseline'.file = active' THEN unguarded \ {active'}
                      ELSE unguarded \cup ({active'} \ {None})
      /\ paused' = (paused /\ ~manual)
      /\ dialog' = (dialog /\ ~manual)
      /\ failed' = FALSE
      /\ armed' = Arms(active', paused', blocking)
      /\ saves' = IF manual THEN [saves EXCEPT ![s].phase = "scan"]
                  ELSE [saves EXCEPT ![s] = Idle]
      /\ UNCHANGED <<past, future, disk, index, force, blocking, opening, made,
                     unseen, lost>>
      /\ \E taken \in BOOLEAN : baseline' = BaselineAfterSave(s, taken)
  BY DEF SaveDone, history
<1>4. /\ Idle \in SaveRecords
      /\ Idle.kind = "idle" /\ Idle.phase = "idle" /\ Idle.file = None
  BY VersionAssumption DEF Idle, Save, Draft, Documents, SaveRecords, Kinds, Phases
<1>5. /\ saves' \in [Slots -> SaveRecords]
      /\ \A t \in Slots \ {s} : saves'[t] = saves[t]
      /\ \/ saves'[s] = Idle
         \/ /\ manual /\ saves'[s].kind = "manual" /\ saves'[s].file = f
            /\ saves'[s].doc = saves[s].doc /\ saves'[s].phase = "scan"
  <2>1. CASE manual
    <3> DEFINE rec == [saves[s] EXCEPT !.phase = "scan"]
    <3>1. /\ rec \in SaveRecords /\ rec.kind = "manual" /\ rec.file = f
          /\ rec.doc = saves[s].doc /\ rec.phase = "scan"
      BY <1>2, <2>1 DEF SaveRecords, Phases
    <3>2. saves' = [saves EXCEPT ![s] = rec]
      BY <1>1, <1>3, <2>1 DEF TypeOK
    <3> HIDE DEF rec
    <3> QED BY <1>1, <2>1, <3>1, <3>2 DEF TypeOK
  <2>2. CASE ~manual
    BY <1>1, <1>3, <1>4, <2>2 DEF TypeOK
  <2> QED BY <2>1, <2>2
<1>6. active' \in Files \cup {None} /\ (active' = active \/ (manual /\ active' = f))
  BY <1>1, <1>2, <1>3 DEF TypeOK
<1> HIDE DEF f, manual
<1>7. TypeOK'
  <2>1. /\ armed' \in BOOLEAN /\ paused' \in BOOLEAN /\ dialog' \in BOOLEAN
        /\ failed' \in BOOLEAN
    BY <1>1, <1>3 DEF TypeOK, Arms
  <2>2. baseline' \in [file : Files \cup {None}, current : BOOLEAN]
    BY <1>1, <1>2, <1>3 DEF BaselineAfterSave, TypeOK, f
  <2>3. unguarded' \subseteq Files
    BY <1>1, <1>3, <1>6 DEF TypeOK
  <2> QED BY <1>1, <1>2, <1>3, <1>5, <1>6, <2>1, <2>2, <2>3 DEF TypeOK
<1>8. Depth'
  BY <1>1, <1>3 DEF Depth
<1>9. Shape'
  BY <1>1, <1>2, <1>3, <1>4, <1>5 DEF Shape, Arms
<1>10. Graphs'
  BY <1>1, <1>2, <1>3, <1>4, <1>5 DEF Graphs, f
<1>11. \/ baseline' = [file |-> f, current |-> TRUE]
       \/ /\ active' = f /\ baseline' = [file |-> None, current |-> FALSE]
       \/ /\ active' = active /\ baseline' = baseline
  BY <1>3 DEF BaselineAfterSave, f, manual
<1>12. Seen'
  <2>1. Guarded'
    BY <1>1, <1>3, <1>6 DEF Guarded, TypeOK
  <2>2. baseline'.current => baseline'.file \notin unseen'
    BY <1>1, <1>2, <1>3, <1>11 DEF Seen, Guarded
  <2>3. ASSUME NEW t \in Slots, saves[t].phase = "write", saves[t].kind = "auto"
        PROVE  saves[t].file \notin unseen' \ unguarded'
    <3>1. saves[t].file \notin unseen \ unguarded /\ unseen' = unseen
      BY <1>1, <1>3, <2>3 DEF Seen, Guarded
    <3>2. unguarded \subseteq unguarded' \/ active' \notin unseen
      <4>1. CASE baseline'.file = active' /\ baseline' = [file |-> f, current |-> TRUE]
        BY <1>2, <4>1
      <4>2. CASE baseline'.file = active' /\ active' = f
                 /\ baseline' = [file |-> None, current |-> FALSE]
        BY <1>2, <4>2, FilesAssumption
      <4>3. CASE baseline'.file = active' /\ active' = active /\ baseline' = baseline
        BY <1>1, <1>3, <4>3 DEF Seen, Guarded
      <4>4. CASE baseline'.file # active'
        BY <1>3, <4>4
      <4> QED BY <1>11, <4>1, <4>2, <4>3, <4>4
    <3>3. unguarded \ {active'} \subseteq unguarded'
      BY <1>3
    <3> QED BY <3>1, <3>2, <3>3
  <2> QED BY <1>1, <1>2, <1>3, <1>4, <1>5, <2>1, <2>2, <2>3 DEF Seen, Guarded
<1>13. UnsavedIsPending'
  BY <1>3 DEF UnsavedIsPending, Arms
<1> QED BY <1>7, <1>8, <1>9, <1>10, <1>12, <1>13 DEF EditorInv

LEMMA EditorStep == EditorInv /\ [Next]_vars => EditorInv'
<1> SUFFICES ASSUME EditorInv, [Next]_vars PROVE EditorInv'
  OBVIOUS
<1>1. CASE UNCHANGED vars
  BY <1>1 DEF vars, history, EditorInv, TypeOK, Depth, Shape, Graphs,
     Seen, Guarded, UnsavedIsPending, IdConflict
<1>2. CASE Next
  BY <1>2, HistorySteps, QuietSteps, OpenDoneStep, NewGraphStep,
     OutsideWriteStep, AutosaveFiresStep, SaveToStep, OverwriteStep, DialogSteps,
     CheckStep, CheckBlindStep, WriteStep, WriteFailsStep, SaveDoneStep DEF Next
<1> QED BY <1>1, <1>2

LEMMA EditorInvariant == Spec => []EditorInv
BY EditorInit, EditorStep, PTL DEF Spec

-----------------------------------------------------------------------------
(* documentHistory.ts: undo and redo together keep at most maxDepth        *)
(* documents.                                                              *)
THEOREM EditorHistoryBounded == Spec => []HistoryBounded
<1>1. EditorInv => HistoryBounded
  BY DEF EditorInv, TypeOK, Depth, HistoryBounded
<1> QED BY <1>1, EditorInvariant, PTL

(* AppShell.tsx, workspaceFs.ts: a save does not put one graph into the    *)
(* file of another.                                                        *)
THEOREM EditorFileKeepsGraph == Spec => FileKeepsGraph
<1>1. ASSUME EditorInv, NEW s \in Slots, Write(s)
      PROVE  disk'[saves[s].file].graph \in {None, saves[s].file} \cup lost
  <2>1. /\ saves[s].kind # "idle" /\ saves[s].file \in Files
        /\ disk' = [disk EXCEPT ![saves[s].file] = saves[s].doc]
    BY <1>1 DEF EditorInv, Shape, Write
  <2>2. disk'[saves[s].file] = saves[s].doc
    BY <1>1, <2>1 DEF EditorInv, TypeOK
  <2> QED BY <1>1, <2>1, <2>2 DEF EditorInv, Graphs
<1>2. EditorInv /\ [Next]_vars =>
        [\A s \in Slots : Write(s) =>
           disk'[saves[s].file].graph \in {None, saves[s].file} \cup lost]_vars
  BY <1>1
<1> QED BY <1>2, EditorInvariant, PTL DEF Spec, FileKeepsGraph

(* AppShell.tsx: an autosave does not overwrite a change nobody was told.  *)
THEOREM EditorAutosaveAsksFirst == Spec => []AutosaveAsksFirst
<1>1. EditorInv => AutosaveAsksFirst
  BY DEF EditorInv, Seen, Guarded, AutosaveAsksFirst
<1> QED BY <1>1, EditorInvariant, PTL

(* AppShell.tsx: a document that differs from its file is going to be      *)
(* saved, or the user was told that it is not.                             *)
THEOREM EditorUnsavedIsPending == Spec => []UnsavedIsPending
<1>1. EditorInv => UnsavedIsPending
  BY DEF EditorInv
<1> QED BY <1>1, EditorInvariant, PTL

=============================================================================
