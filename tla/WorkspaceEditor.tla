--------------------------- MODULE WorkspaceEditor ---------------------------
(***************************************************************************)
(* The document in the editor and the files of the workspace: the handlers *)
(* of AppShell.tsx that open, save, autosave and resolve conflicts, the    *)
(* fingerprints of workspaceFs.ts and the undo history of                  *)
(* documentHistory.ts and useGraphDocumentHistory.ts.                      *)
(*                                                                         *)
(* Callbacks of the browser run one at a time; what a handler does between *)
(* two awaits is one action.  Other programs write the files at any time,  *)
(* and may put the graph of one file into another; a file may be one that  *)
(* cannot be read, for a scan, for an open or for a fingerprint.           *)
(* A graph is named by the file it is in at first.  A document from        *)
(* elsewhere is a draft, whose id is new; saving one under a new name is   *)
(* left out.                                                               *)
(* A fingerprint is modelled by whether it is still the one of the file.   *)
(***************************************************************************)
EXTENDS Integers, Sequences

CONSTANTS
  Files,       \* the files of the graphs directory, and the ids of their graphs
  None,        \* no file, and the id of a draft
  Slots,       \* one for each save that can be under way at a time
  MaxDepth,    \* maxDepth of the history
  MaxVersion   \* bound: how many versions users and other programs make

ASSUME FilesAssumption == None \notin Files
ASSUME DepthAssumption == MaxDepth \in Nat \ {0}
ASSUME VersionAssumption == MaxVersion \in Nat

VARIABLES
  doc,       \* the document on the canvas
  past,      \* what undo goes back to, the latest last
  future,    \* what redo goes forward to, the next first
  active,    \* activeWorkspaceFile
  baseline,  \* workspaceDiskBaselineRef: the file, and is it still the file's
  disk,      \* the document in a file
  index,     \* workspaceIndex: the graph of each file the last scan could read
  armed,     \* is the timer of the autosave effect set
  paused,    \* autosaveDiskConflictPaused
  dialog,    \* workspaceAutosaveConflictOpen
  force,     \* forceOverwriteDiskConflictRef
  failed,    \* autosaveFailed
  blocking,  \* runSessionBlocking
  opening,   \* the files that are being read
  saves,     \* the save in a slot
  made,      \* how many versions there are
  unseen,    \* files with an outside change nobody was told about, made while
             \* no save of the file was past its check
  lost,      \* graphs a scan has not found in their file
  unguarded  \* files left open without a fingerprint: none could be taken
             \* after a save, or the end of another file's save replaced it

history == <<past, future>>
vars == <<doc, past, future, active, baseline, disk, index, armed, paused, dialog,
          force, failed, blocking, opening, saves, made, unseen, lost, unguarded>>

Documents == [graph : Files \cup {None}, ver : 0 .. MaxVersion]
Draft == [graph |-> None, ver |-> 0]

Save(k, f, d, c, p) ==
  [kind |-> k, file |-> f, doc |-> d, current |-> c, phase |-> p]
Idle == Save("idle", None, Draft, FALSE, "idle")

Init ==
  /\ doc = Draft
  /\ past = <<>> /\ future = <<>>
  /\ active = None
  /\ baseline = [file |-> None, current |-> FALSE]
  /\ disk = [f \in Files |-> [graph |-> f, ver |-> 0]]
  /\ \E F \in SUBSET Files : index = [f \in F |-> f] /\ lost = Files \ F
  /\ armed = FALSE
  /\ paused = FALSE /\ dialog = FALSE /\ force = FALSE /\ failed = FALSE
  /\ blocking = FALSE
  /\ opening = {}
  /\ saves = [s \in Slots |-> Idle]
  /\ made = 0
  /\ unseen = {}
  /\ unguarded = {}

-----------------------------------------------------------------------------
(* The history.                                                            *)

(* snapshotBeforeChange: not twice the same, and at most MaxDepth.         *)
SnapshotBeforeChange(stack, d) ==
  IF stack # <<>> /\ stack[Len(stack)] = d THEN stack
  ELSE IF Len(stack) < MaxDepth THEN Append(stack, d)
  ELSE Append(Tail(stack), d)

(* The save dialog is modal while a save of its own is under way.          *)
ModalOpen == \E s \in Slots : saves[s].kind = "manual"

(* The autosave effect, after one of its dependencies has changed.         *)
Arms(file, isPaused, isBlocking) == file # None /\ ~isPaused /\ ~isBlocking

Edit ==
  /\ ~blocking /\ ~ModalOpen
  /\ made < MaxVersion
  /\ made' = made + 1
  /\ past' = SnapshotBeforeChange(past, doc)
  /\ future' = <<>>
  /\ doc' = [doc EXCEPT !.ver = made + 1]
  /\ armed' = Arms(active, paused, blocking)
  /\ UNCHANGED <<active, baseline, disk, index, paused, dialog, force,
                 failed, blocking, opening, saves, unseen, lost, unguarded>>

Undo ==
  /\ ~blocking /\ ~ModalOpen
  /\ past # <<>>
  /\ doc' = past[Len(past)]
  /\ past' = SubSeq(past, 1, Len(past) - 1)
  /\ future' = <<doc>> \o future
  /\ armed' = Arms(active, paused, blocking)
  /\ UNCHANGED <<active, baseline, disk, index, paused, dialog, force,
                 failed, blocking, opening, saves, made, unseen, lost,
                 unguarded>>

Redo ==
  /\ ~blocking /\ ~ModalOpen
  /\ future # <<>>
  /\ doc' = Head(future)
  /\ past' = Append(past, doc)
  /\ future' = Tail(future)
  /\ armed' = Arms(active, paused, blocking)
  /\ UNCHANGED <<active, baseline, disk, index, paused, dialog, force,
                 failed, blocking, opening, saves, made, unseen, lost,
                 unguarded>>

(* A run starts, or the last one ends.                                     *)
ToggleBlocking ==
  /\ ~ModalOpen
  /\ blocking' = ~blocking
  /\ armed' = Arms(active, paused, ~blocking)
  /\ UNCHANGED <<doc, history, active, baseline, disk, index, paused, dialog,
                 force, failed, opening, saves, made, unseen, lost, unguarded>>

-----------------------------------------------------------------------------
(* Opening.                                                                *)

(* A pick in the list of the workspace, or a graph_ref node's graph.        *)
Open(f) ==
  /\ ~blocking /\ ~ModalOpen
  /\ f \in DOMAIN index
  /\ opening' = opening \cup {f}
  /\ UNCHANGED <<doc, history, active, baseline, disk, index, armed, paused,
                 dialog, force, failed, blocking, saves, made, unseen, lost,
                 unguarded>>

OpenBaseline(f) == [file |-> f, current |-> TRUE]

(* onOpenWorkspaceGraph after its await: whatever is open now is replaced. *)
OpenDone(f) ==
  /\ f \in opening
  /\ opening' = opening \ {f}
  /\ doc' = disk[f]
  /\ past' = <<>> /\ future' = <<>>
  /\ active' = f
  /\ baseline' = OpenBaseline(f)
  /\ paused' = FALSE /\ dialog' = FALSE
  /\ armed' = Arms(f, FALSE, blocking)
  /\ unseen' = unseen \ {f}
  /\ unguarded' = unguarded \ {f}
  /\ UNCHANGED <<disk, index, force, failed, blocking, saves, made, lost>>

OpenFails(f) ==
  /\ f \in opening
  /\ opening' = opening \ {f}
  /\ UNCHANGED <<doc, history, active, baseline, disk, index, armed, paused,
                 dialog, force, failed, blocking, saves, made, unseen, lost,
                 unguarded>>

(* onNewGraph, and onFileChange for a file from outside the workspace.     *)
NewGraph ==
  /\ ~ModalOpen
  /\ doc' = Draft
  /\ past' = <<>> /\ future' = <<>>
  /\ active' = None
  /\ baseline' = [file |-> None, current |-> FALSE]
  /\ paused' = FALSE /\ dialog' = FALSE
  /\ armed' = FALSE
  /\ UNCHANGED <<disk, index, force, failed, blocking, opening, saves, made,
                 unseen, lost, unguarded>>

-----------------------------------------------------------------------------
(* Saving.                                                                 *)

NoIdConflict(d, f) == FALSE

(* findWorkspaceGraphIdConflict: the index knows the graph in another file.*)
IdConflict(d, f) ==
  d.graph # None /\ \E g \in DOMAIN index \ {f} : index[g] = d.graph

(* A save starts at the fingerprint if the baseline is for its file.       *)
FirstPhase(checks) == IF checks THEN "check" ELSE "write"

(* The timer of the autosave effect.                                       *)
AutosaveFires(s) ==
  /\ armed
  /\ saves[s] = Idle
  /\ armed' = FALSE
  /\ saves' = IF IdConflict(doc, active) THEN saves
              ELSE [saves EXCEPT ![s] =
                     Save("auto", active, doc, baseline.current,
                          FirstPhase(baseline.file = active))]
  /\ UNCHANGED <<doc, history, active, baseline, disk, index, paused, dialog,
                 force, failed, blocking, opening, made, unseen, lost,
                 unguarded>>

(* saveDocumentToWorkspace, up to its first await.                         *)
SaveTo(s, f) ==
  /\ ~blocking /\ ~ModalOpen
  /\ saves[s] = Idle
  /\ doc.graph \in Files /\ ~IdConflict(doc, f)
  /\ saves' = [saves EXCEPT ![s] =
                Save("manual", f, doc, baseline.current,
                     FirstPhase(~force /\ baseline.file = f /\ f = active))]
  /\ UNCHANGED <<doc, history, active, baseline, disk, index, armed, paused,
                 dialog, force, failed, blocking, opening, made, unseen,
                 lost, unguarded>>

(* The Overwrite button of the save dialog, and its Cancel button.         *)
SaveAnyway(s) ==
  /\ saves[s].kind = "manual" /\ saves[s].phase = "ask"
  /\ force' = TRUE
  /\ saves' = [saves EXCEPT ![s] =
                IF IdConflict(doc, saves[s].file) THEN Idle
                ELSE [@ EXCEPT !.doc = doc, !.phase = "write"]]
  /\ UNCHANGED <<doc, history, active, baseline, disk, index, armed, paused,
                 dialog, failed, blocking, opening, made, unseen, lost,
                 unguarded>>

SaveCancelled(s) ==
  /\ saves[s].kind = "manual" /\ saves[s].phase = "ask"
  /\ saves' = [saves EXCEPT ![s] = Idle]
  /\ UNCHANGED <<doc, history, active, baseline, disk, index, armed, paused,
                 dialog, force, failed, blocking, opening, made, unseen,
                 lost, unguarded>>

(* A fingerprint taken of file f before now is that of an older file.      *)
BaselineAfterWrite(f) ==
  IF baseline.file = f THEN [baseline EXCEPT !.current = FALSE] ELSE baseline

SavesAfterWrite(f, all) ==
  [s \in Slots |-> IF all[s].file = f
                   THEN [all[s] EXCEPT !.current = FALSE] ELSE all[s]]

NeverConflicts(save) == FALSE

(* workspaceDiskFingerprintConflicts, of what the save began with.         *)
FingerprintConflicts(save) == ~save.current

(* The fingerprint is there.  A conflict is told, and ends an autosave.    *)
Check(s) ==
  /\ saves[s].phase = "check"
  /\ IF FingerprintConflicts(saves[s])
       THEN /\ unseen' = unseen \ {saves[s].file}
            /\ IF saves[s].kind = "auto"
                 THEN /\ dialog' = TRUE
                      /\ saves' = [saves EXCEPT ![s] = Idle]
                 ELSE /\ saves' = [saves EXCEPT ![s].phase = "ask"]
                      /\ UNCHANGED dialog
       ELSE /\ saves' = [saves EXCEPT ![s].phase = "write"]
            /\ UNCHANGED <<unseen, dialog>>
  /\ UNCHANGED <<doc, history, active, baseline, disk, index, armed, paused,
                 force, failed, blocking, opening, made, lost, unguarded>>

(* No fingerprint can be taken: the save goes on as if nothing had changed.*)
CheckBlind(s) ==
  /\ saves[s].phase = "check"
  /\ saves' = [saves EXCEPT ![s].phase = "blind"]
  /\ UNCHANGED <<doc, history, active, baseline, disk, index, armed, paused,
                 dialog, force, failed, blocking, opening, made, unseen,
                 lost, unguarded>>

(* writeJsonFileToDir.  Only an autosave leaves the force flag alone.      *)
Write(s) ==
  /\ saves[s].phase \in {"write", "blind"}
  /\ LET f == saves[s].file IN
     /\ disk' = [disk EXCEPT ![f] = saves[s].doc]
     /\ baseline' = BaselineAfterWrite(f)
     /\ saves' = SavesAfterWrite(f, [saves EXCEPT ![s].phase = "after"])
     /\ unseen' = unseen \ {f}
  /\ force' = (force /\ saves[s].kind = "auto")
  /\ UNCHANGED <<doc, history, active, index, armed, paused, dialog, failed,
                 blocking, opening, made, lost, unguarded>>

NoBanner(s) == failed

(* The banner; for a save of the dialog the dialog says it.                *)
FailureBanner(s) == failed \/ saves[s].kind # "manual"

WriteFails(s) ==
  /\ saves[s].phase \in {"write", "blind"}
  /\ failed' = FailureBanner(s)
  /\ saves' = [saves EXCEPT ![s] = Idle]
  /\ UNCHANGED <<doc, history, active, baseline, disk, index, armed, paused,
                 dialog, force, blocking, opening, made, unseen, lost,
                 unguarded>>

(* The fingerprint after the write: if none can be taken, a save of the    *)
(* dialog drops the old one and any other save keeps it.                   *)
BaselineAfterSave(s, taken) ==
  IF taken THEN [file |-> saves[s].file, current |-> TRUE]
  ELSE IF saves[s].kind = "manual" THEN [file |-> None, current |-> FALSE]
  ELSE baseline

(* What was saved becomes the document again, and for a save of the dialog *)
(* its file the active file.                                               *)
SaveDone(s) ==
  /\ saves[s].phase = "after"
  /\ LET f == saves[s].file
         manual == saves[s].kind = "manual"
     IN
     /\ doc' = saves[s].doc
     /\ active' = IF manual THEN f ELSE active
     /\ \E taken \in BOOLEAN :
          /\ baseline' = BaselineAfterSave(s, taken)
          /\ unguarded' = IF baseline'.file = active' THEN unguarded \ {active'}
                          ELSE unguarded \cup ({active'} \ {None})
     /\ paused' = (paused /\ ~manual)
     /\ dialog' = (dialog /\ ~manual)
  /\ failed' = FALSE
  /\ armed' = Arms(active', paused', blocking)
  /\ saves' = IF saves[s].kind = "manual" THEN [saves EXCEPT ![s].phase = "scan"]
              ELSE [saves EXCEPT ![s] = Idle]
  /\ UNCHANGED <<history, disk, index, force, blocking, opening, made,
                 unseen, lost>>

(* rescanWorkspace passes over the files it cannot read; if the scan fails *)
(* there is no index left.  Only then the save dialog closes.              *)
Rescanned(s) ==
  /\ saves[s].phase = "scan"
  /\ \E F \in SUBSET Files :
       /\ index' = [f \in F |-> disk[f].graph]
       /\ lost' = lost \cup {f \in Files : f \notin F \/ disk[f].graph # f}
  /\ armed' = Arms(active, paused, blocking)
  /\ saves' = [saves EXCEPT ![s] = Idle]
  /\ UNCHANGED <<doc, history, active, baseline, disk, paused, dialog, force,
                 failed, blocking, opening, made, unseen, unguarded>>

-----------------------------------------------------------------------------
(* WorkspaceFileConflictModal.                                             *)

AfterUnpause == IF paused THEN Arms(active, FALSE, blocking) ELSE armed

Reload ==
  /\ dialog
  /\ dialog' = FALSE /\ paused' = FALSE
  /\ armed' = AfterUnpause
  /\ opening' = IF active = None THEN opening ELSE opening \cup {active}
  /\ UNCHANGED <<doc, history, active, baseline, disk, index, force, failed,
                 blocking, saves, made, unseen, lost, unguarded>>

(* The write goes out without a check.                                     *)
Overwrite(s) ==
  /\ dialog /\ active # None
  /\ saves[s] = Idle
  /\ dialog' = FALSE /\ paused' = FALSE
  /\ armed' = AfterUnpause
  /\ force' = ~IdConflict(doc, active)
  /\ saves' = IF IdConflict(doc, active) THEN saves
              ELSE [saves EXCEPT ![s] =
                     Save("overwrite", active, doc, baseline.current, "write")]
  /\ UNCHANGED <<doc, history, active, baseline, disk, index, failed,
                 blocking, opening, made, unseen, lost, unguarded>>

Pause ==
  /\ dialog
  /\ dialog' = FALSE /\ paused' = TRUE
  /\ armed' = FALSE
  /\ UNCHANGED <<doc, history, active, baseline, disk, index, force, failed,
                 blocking, opening, saves, made, unseen, lost, unguarded>>

-----------------------------------------------------------------------------
(* Another program writes a file.                                          *)
PastCheck(f) ==
  \E s \in Slots : /\ saves[s].file = f
                   /\ saves[s].phase \in {"write", "blind", "after"}

OutsideWrite(f) ==
  /\ made < MaxVersion
  /\ made' = made + 1
  /\ \E g \in Files : disk' = [disk EXCEPT ![f] = [graph |-> g, ver |-> made + 1]]
  /\ baseline' = BaselineAfterWrite(f)
  /\ saves' = SavesAfterWrite(f, saves)
  /\ unseen' = IF PastCheck(f) THEN unseen ELSE unseen \cup {f}
  /\ UNCHANGED <<doc, history, active, index, armed, paused, dialog, force,
                 failed, blocking, opening, lost, unguarded>>

Next ==
  \/ Edit \/ Undo \/ Redo \/ ToggleBlocking \/ NewGraph
  \/ Reload \/ Pause
  \/ \E f \in Files : Open(f) \/ OpenDone(f) \/ OpenFails(f) \/ OutsideWrite(f)
  \/ \E s \in Slots :
       \/ AutosaveFires(s) \/ SaveAnyway(s) \/ SaveCancelled(s)
       \/ Check(s) \/ CheckBlind(s) \/ Write(s) \/ WriteFails(s) \/ SaveDone(s)
       \/ Rescanned(s) \/ Overwrite(s)
       \/ \E f \in Files : SaveTo(s, f)

Spec == Init /\ [][Next]_vars

-----------------------------------------------------------------------------
\* The documents kept for undo and redo never exceed maxDepth together, and are
\* documents of the editor, although undo and redo do not check the limit.
HistoryBounded ==
  /\ Len(past) + Len(future) <= MaxDepth
  /\ past \in Seq(Documents) /\ future \in Seq(Documents)

\* No save puts the graph of one file into another, whatever undo, a late end of
\* another save or another program has brought into the editor: the index refuses,
\* for every graph that the scans have found in its file.
FileKeepsGraph ==
  [][\A s \in Slots :
       Write(s) => disk'[saves[s].file].graph \in {None, saves[s].file} \cup lost]_vars

\* An autosave that compared fingerprints, or had one to compare, does not
\* overwrite an outside change nobody was told about that was there before.  (One
\* that could take none writes blindly, and so does one of a file left open
\* without a fingerprint.)
AutosaveAsksFirst ==
  \A s \in Slots :
    saves[s].kind = "auto" /\ saves[s].phase = "write"
    => saves[s].file \notin unseen \ unguarded

\* While the editor has the fingerprint of the active file, a document that
\* differs from it is going to be saved by a save that will not be refused at its
\* check, or the user has been told that it is not: a save of the dialog that
\* fails or is cancelled is no excuse, nor is a conflict dialog still open.  Only
\* a document whose graph the index has in another file is refused silently.
UnsavedIsPending ==
  /\ active # None
  /\ baseline = [file |-> active, current |-> TRUE]
  /\ doc # disk[active]
  /\ ~blocking /\ ~paused /\ ~failed
  /\ ~IdConflict(doc, active)
  => armed \/ \E s \in Slots :
                /\ saves[s].kind \in {"auto", "overwrite"}
                /\ saves[s].file = active
                /\ saves[s].phase = "check" => saves[s].current

\* What undo has taken away is not brought back by the end of an autosave.
UndoStands ==
  [][\A s \in Slots :
       saves[s].kind = "auto" /\ saves[s].phase = "after" /\ SaveDone(s)
       => \A i \in 1 .. Len(future) : doc' # future[i]]_vars

=============================================================================
