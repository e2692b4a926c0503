--------------------------- MODULE EditorSession ---------------------------
(***************************************************************************)
(* Editing the open notes of a vault: the autosave of useEditorSession and *)
(* the marks of the pane store (front end), the commands that write and    *)
(* reload a note, and the file watcher (back end), against other programs  *)
(* that write the same files.                                              *)
(*                                                                         *)
(* The commands are synchronous Tauri commands: the main thread runs them  *)
(* in the order of their calls, while the front end goes on.  The watcher  *)
(* has a thread of its own.  Every open note has its text cached, so       *)
(* selecting a tab only changes which note has an editor mounted.          *)
(***************************************************************************)
EXTENDS Naturals, SequencesExt

CONSTANTS Files,      \* the open notes
          Text,       \* the texts of a note
          NoTimer,    \* no autosave is scheduled
          AutoSave,   \* whether the setting autoSaveMs is above 0
          MaxChanges, \* bound: changes of the texts in the editor
          MaxPending  \* bound: calls, answers and events that are pending

(* The text of a note in the editor, and the number of the change that     *)
(* made it, counted over all notes.                                        *)
Edit == [text : Text, at : 0..MaxChanges]

(* A "refresh" is a reload that nobody waits for.                          *)
Call  == [kind : {"write"}, file : Files, edit : Edit]
           \cup [kind : {"reload", "refresh"}, file : Files]
Reply == [kind : {"write", "reload"}, file : Files]

ASSUME EditorAssumption == /\ Files # {}
                           /\ NoTimer \notin [file : Files, edit : Edit]
                           /\ AutoSave \in BOOLEAN
                           /\ MaxChanges \in Nat
                           /\ MaxPending \in Nat

VARIABLES
  disk,       \* disk[f]: the text of the file
  shown,      \* the note whose editor is mounted
  content,    \* editorContents
  changes,    \* number of changes so far
  unsaved,    \* unsavedFiles
  conflict,   \* conflictFiles: notes with the conflict banner
  timer,      \* autoSaveTimer, with what its callback will write
  calls,      \* commands called and not yet run by the main thread
  replies,    \* commands that returned and whose callers have not gone on
  modified,   \* files with a change the watcher has not handled
  muted,      \* files that may be in ignore_paths or within the debounce time
  reloads,    \* "file-reloaded" events on their way to the front end
  saved       \* history: saved[f], the last change of f that was written, or tried to be

diskVars   == <<disk, saved>>
editVars   == <<content, changes, unsaved, conflict, timer>>
callVars   == <<calls, replies>>
watchVars  == <<modified, muted, reloads>>
sessionVars == <<diskVars, shown, editVars, callVars, watchVars>>

EditorTypeOK ==
  /\ disk \in [Files -> Text]
  /\ shown \in Files
  /\ content \in [Files -> Edit]
  /\ changes \in 0..MaxChanges
  /\ unsaved \subseteq Files
  /\ conflict \subseteq Files
  /\ timer \in [file : Files, edit : Edit] \cup {NoTimer}
  /\ calls \in Seq(Call)
  /\ replies \in Seq(Reply)
  /\ modified \subseteq Files
  /\ muted \subseteq Files
  /\ reloads \in Seq([file : Files, text : Text])
  /\ saved \in [Files -> 0..MaxChanges]

(* The texts of two notes are never compared, so they may start alike.     *)
EditorInit ==
  /\ \E text \in Text : disk = [f \in Files |-> text]
  /\ shown \in Files
  /\ content = [f \in Files |-> [text |-> disk[f], at |-> 0]]
  /\ changes = 0
  /\ unsaved = {}
  /\ conflict = {}
  /\ timer = NoTimer
  /\ calls = <<>>
  /\ replies = <<>>
  /\ modified = {}
  /\ muted = {}
  /\ reloads = <<>>
  /\ saved = [f \in Files |-> 0]

-----------------------------------------------------------------------------
(* The front end.                                                          *)

(* handleEditorChange but for the timer: the text is cached and the note   *)
(* marked.                                                                 *)
Changed(f, text) ==
  /\ changes < MaxChanges
  /\ changes' = changes + 1
  /\ content' = [content EXCEPT ![f] = [text |-> text, at |-> changes']]
  /\ unsaved' = unsaved \cup {f}

(* Mutant: the timer that runs is kept, so that it fires in any case.      *)
KeepTimer(f) ==
  timer' = IF timer = NoTimer /\ AutoSave THEN [file |-> f, edit |-> content'[f]] ELSE timer

(* The one timer of all notes is cleared and set again.                    *)
RestartTimer(f) ==
  timer' = IF AutoSave THEN [file |-> f, edit |-> content'[f]] ELSE NoTimer

HandleEditorChange(f, text) == Changed(f, text) /\ RestartTimer(f)

Type ==
  /\ \E text \in Text \ {content[shown].text} : HandleEditorChange(shown, text)
  /\ UNCHANGED <<diskVars, shown, conflict, callVars, watchVars>>

SelectTab(f) ==
  /\ f # shown
  /\ shown' = f
  /\ UNCHANGED <<diskVars, editVars, callVars, watchVars>>

(* The bound: it never holds back an autosave or a command.                *)
FewPending == Len(calls) + Len(replies) + Len(reloads) < MaxPending

Invoke(call) == calls' = Append(calls, call)

Write(f, edit) == [kind |-> "write", file |-> f, edit |-> edit]

(* Mutant: the callback writes only what is on the screen.                 *)
AutoSaveShownOnly ==
  /\ timer # NoTimer
  /\ timer' = NoTimer
  /\ IF timer.file \in conflict \/ timer.file # shown
       THEN UNCHANGED calls
       ELSE Invoke(Write(timer.file, timer.edit))
  /\ UNCHANGED <<diskVars, shown, content, changes, unsaved, conflict, replies, watchVars>>

(* The callback of the timer writes the text it was set with, unless the   *)
(* note has a conflict.  (Nothing in the program suppresses a file.)       *)
AutoSaveFires ==
  /\ timer # NoTimer
  /\ timer' = NoTimer
  /\ IF timer.file \in conflict
       THEN UNCHANGED calls
       ELSE Invoke(Write(timer.file, timer.edit))
  /\ UNCHANGED <<diskVars, shown, content, changes, unsaved, conflict, replies, watchVars>>

(* forceSave looks neither at the conflict nor at the timer.               *)
ForceSave ==
  /\ FewPending
  /\ Invoke(Write(shown, content[shown]))
  /\ UNCHANGED <<diskVars, shown, editVars, replies, watchVars>>

(* resolveConflict with "keep", and the call of it with "reload".          *)
ResolveConflict ==
  /\ shown \in conflict
  /\ \/ /\ conflict' = conflict \ {shown}
        /\ UNCHANGED calls
     \/ /\ FewPending
        /\ Invoke([kind |-> "reload", file |-> shown])
        /\ UNCHANGED conflict
  /\ UNCHANGED <<diskVars, shown, content, changes, unsaved, timer, replies, watchVars>>

(* What follows the await: a save that succeeded clears the mark, a reload *)
(* clears the conflict whether it succeeded or not.                        *)
Resume ==
  \E i \in DOMAIN replies :
    /\ replies' = RemoveAt(replies, i)
    /\ IF replies[i].kind = "write"
         THEN unsaved' = unsaved \ {replies[i].file} /\ UNCHANGED conflict
         ELSE conflict' = conflict \ {replies[i].file} /\ UNCHANGED unsaved
    /\ UNCHANGED <<diskVars, shown, content, changes, timer, calls, watchVars>>

(* "file-reloaded": the pane store shows the banner if the note is marked  *)
(* unsaved, and a mounted editor takes the text, conflict or not, as if it *)
(* had been typed.  Either listener may come first.                        *)
Reloaded ==
  /\ reloads # <<>>
  /\ reloads' = Tail(reloads)
  /\ LET f == Head(reloads).file
         text == Head(reloads).text
     IN /\ IF f = shown /\ content[f].text # text
             THEN HandleEditorChange(f, text)
             ELSE UNCHANGED <<content, changes, unsaved, timer>>
        /\ \E marked \in {unsaved, unsaved'} :
             conflict' = IF f \in marked THEN conflict \cup {f} ELSE conflict
  /\ UNCHANGED <<diskVars, shown, callVars, modified, muted>>

(* The chat store reloads a note that a tool of the chat has updated; the  *)
(* write of the tool is an ExternalWrite, or one that changed nothing.     *)
ToolUpdated(f) ==
  /\ FewPending
  /\ Invoke([kind |-> "refresh", file |-> f])
  /\ UNCHANGED <<diskVars, shown, editVars, replies, watchVars>>

-----------------------------------------------------------------------------
(* The main thread of the back end.                                        *)

(* Mutant: the caller goes on after a write that failed, too.              *)
WriteNoteReplies ==
  /\ calls # <<>>
  /\ Head(calls).kind = "write"
  /\ LET f == Head(calls).file
         edit == Head(calls).edit
     IN /\ muted' = muted \cup {f}
        /\ saved' = [saved EXCEPT ![f] = edit.at]
        /\ \/ /\ disk' = [disk EXCEPT ![f] = edit.text]
              /\ modified' = modified \cup {f}
              /\ replies' = Append(replies, [kind |-> "write", file |-> f])
           \/ /\ replies' = Append(replies, [kind |-> "failed", file |-> f])
              /\ UNCHANGED <<disk, modified>>
  /\ calls' = Tail(calls)
  /\ UNCHANGED <<shown, editVars, reloads>>

(* write_note: the path goes on the ignore list before the file is         *)
(* written; a thread takes it off half a second later, at a time that the  *)
(* model leaves open.                                                      *)
WriteNote ==
  /\ calls # <<>>
  /\ Head(calls).kind = "write"
  /\ LET f == Head(calls).file
         edit == Head(calls).edit
     IN /\ muted' = muted \cup {f}
        /\ saved' = [saved EXCEPT ![f] = edit.at]
        /\ \/ /\ disk' = [disk EXCEPT ![f] = edit.text]
              /\ modified' = modified \cup {f}
              /\ replies' = Append(replies, [kind |-> "write", file |-> f])
           \/ UNCHANGED <<disk, modified, replies>>   \* the write failed
  /\ calls' = Tail(calls)
  /\ UNCHANGED <<shown, editVars, reloads>>

(* force_reload_file: an event with the text of the file, or an error.     *)
ForceReloadFile ==
  /\ calls # <<>>
  /\ Head(calls).kind # "write"
  /\ LET f == Head(calls).file
     IN /\ \/ reloads' = Append(reloads, [file |-> f, text |-> disk[f]])
           \/ UNCHANGED reloads
        /\ replies' = IF Head(calls).kind = "refresh"
                        THEN replies
                        ELSE Append(replies, [kind |-> "reload", file |-> f])
  /\ calls' = Tail(calls)
  /\ UNCHANGED <<diskVars, shown, editVars, modified, muted>>

-----------------------------------------------------------------------------
(* The watcher thread, and other programs.                                 *)

(* A change of f is dropped if f is on the ignore list, or if it comes     *)
(* less than the debounce time after the last that was not; otherwise it   *)
(* is reported with the text of now (or without, if the file cannot be     *)
(* read).  Either time may have passed already, or not yet.                *)
Watch(f) ==
  /\ f \in modified
  /\ FewPending
  /\ modified' = modified \ {f}
  /\ \/ /\ f \in muted
        /\ UNCHANGED <<muted, reloads>>
     \/ /\ muted' = muted \cup {f}
        /\ \/ reloads' = Append(reloads, [file |-> f, text |-> disk[f]])
           \/ UNCHANGED reloads
  /\ UNCHANGED <<diskVars, shown, editVars, callVars>>

ExternalWrite(f) ==
  /\ \E text \in Text : disk' = [disk EXCEPT ![f] = text]
  /\ modified' = modified \cup {f}
  /\ UNCHANGED <<saved, shown, editVars, callVars, muted, reloads>>

-----------------------------------------------------------------------------
FrontEnd == \/ Type
            \/ AutoSaveFires
            \/ ForceSave
            \/ ResolveConflict
            \/ Resume
            \/ Reloaded
            \/ \E f \in Files : SelectTab(f) \/ ToolUpdated(f)

BackEnd == \/ WriteNote
           \/ ForceReloadFile
           \/ \E f \in Files : Watch(f)

EditorNext == FrontEnd \/ BackEnd \/ \E f \in Files : ExternalWrite(f)

EditorSpec == EditorInit /\ [][EditorNext]_sessionVars

(* Timers fire, and the main thread runs its commands.                     *)
Fairness == WF_sessionVars(AutoSaveFires) /\ WF_sessionVars(WriteNote) /\ WF_sessionVars(ForceReloadFile)

EditorFairSpec == EditorSpec /\ Fairness

-----------------------------------------------------------------------------
(* The two ways to save never put an older text of the editor over a newer *)
(* one: autosave and force save overlap, and a forced save leaves the      *)
(* timer running (handleEditorChange, forceSave, write_note).              *)
SavesInOrder == [][\A f \in Files : saved'[f] >= saved[f]]_sessionVars

(* A change with an autosave scheduled for it is written (which may fail), *)
(* unless there is a reason: a newer change, a change of another note,     *)
(* which takes the only timer, or a conflict.                              *)
Reason(f, n) == \/ content[f].at > n
                \/ timer # NoTimer /\ timer.file # f
                \/ f \in conflict

ChangeIsWritten ==
  \A f \in Files, n \in 1..MaxChanges :
    (timer # NoTimer /\ timer.file = f /\ timer.edit.at = n)
      ~> (saved[f] >= n \/ Reason(f, n))

-----------------------------------------------------------------------------
(* What the documentation promises and the code does not keep.             *)

(* While the text of the active tab is not in its file and no save of it   *)
(* is under way, the tab is marked unsaved (the dirty dot, which           *)
(* selectActiveTabUnsaved powers).                                         *)
SaveUnderWay(f) ==
  \/ timer # NoTimer /\ timer.file = f
  \/ \E i \in DOMAIN calls : calls[i].kind = "write" /\ calls[i].file = f

EditIsMarked ==
  LET f == shown
  IN content[f].at > saved[f] /\ content[f].text # disk[f] /\ ~SaveUnderWay(f)
       => f \in unsaved
=============================================================================
