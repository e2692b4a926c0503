------------------------------ MODULE TuiModes ------------------------------
(***************************************************************************)
(* The keyboard of the terminal editor (vim/parser.rs, vim/state.rs and    *)
(* vim/dispatch.rs): a key is parsed by the mode it finds, with what the   *)
(* keys before it left pending, into an action; actions open forms over    *)
(* the note, and two of the forms are modals that show a text of their own *)
(* which takes the place of the note for motions and operators.            *)
(*                                                                         *)
(* Visual and VisualLine are one mode.  A count, a register and the texts  *)
(* are left out.  A key stands for all those that are handled alike in     *)
(* every mode.  The other tabs and panes are not told apart: after a       *)
(* switch the note is any note.  The tree is visible or not: the keys that *)
(* depend on it may do either.                                             *)
(***************************************************************************)
EXTENDS Naturals

CONSTANTS None,
          Pressed,       \* bound: the keys that are pressed, of Keys
          MaxBuilds      \* bound: builds of the index of the content search

(* The modals that have a text of their own, the lists, and the other      *)
(* forms; a form is open as long as its state is there, and has the mode   *)
(* of its name.  The completion popup has no mode.                         *)
Modals == {"DbRowDetail", "HttpResponseDetail"}
Lists  == {"ConnectionPicker", "DbExportPicker", "BlockHistory", "TabPicker",
           "EnvironmentPicker", "Help", "BlockTemplatePicker"}
Forms  == Modals \cup Lists \cup
            {"FenceEdit", "DbSettings", "ContentSearch", "DbConfirmRun",
             "TreePrompt"}
Modes  == Forms \cup {"Normal", "Insert", "Visual", "CommandLine", "Search",
                      "QuickOpen", "Tree"}

(* Where a cursor is: in the prose that every text starts with, in another *)
(* prose, in a block, in its result.                                       *)
Places    == {"first", "prose", "block", "result"}
InProse   == {"first", "prose"}
InABlock  == {"block", "result"}
Text      == [cursor : Places, dirty : BOOLEAN]
Unread    == [cursor |-> "first", dirty |-> FALSE]

Operators == {"delete", "change", "yank"}
Chords    == {"g", "z", "window", "find", "textobj"}
NoPending == [op |-> None, chord |-> None]

ASSUME ModesAssumption == /\ MaxBuilds \in Nat
                          /\ None \notin Operators \cup Chords \cup Places

VARIABLES
  mode,       \* vim.mode
  pending,    \* the operator and the prefix of a chord that wait for a key
  forms,      \* the forms whose state is there, and the popup
  anchor,     \* vim.visual_anchor
  last,       \* vim.last_visual
  note,       \* the text of the active pane
  modal,      \* the text of the modal that is up
  indexed,    \* content_search_index_built
  building,   \* the content search that is open waits for a build
  builds,     \* builds under way
  started,    \* builds started
  dropped     \* history: the last step, a close without force, dropped
              \* unsaved text

keyboard == <<mode, pending, forms, anchor, last>>
texts    == <<note, modal>>
search   == <<indexed, building, builds, started>>
vars     == <<keyboard, texts, search, dropped>>

ModalUp == forms \cap Modals # {}

-----------------------------------------------------------------------------
(* The keys.  The ones with control, and the letter each of them carries:  *)
(* a chord that waits for a letter looks at the letter alone.              *)
Control == [ctrl_c |-> "c", ctrl_d |-> "d", ctrl_e |-> "e", ctrl_f |-> "f",
            ctrl_l |-> "l", ctrl_p |-> "p", ctrl_r |-> "r", ctrl_w |-> "w",
            ctrl_x |-> "x"]

Letter(k) == IF k \in DOMAIN Control THEN Control[k] ELSE k

NoLetter == {"esc", "enter", "tab", "backspace"}
Motions  == {"w", "b", "h", "j", "ctrl_d"}
Finds    == {"f", "t", "T"}

OperatorKeys == [d |-> "delete", c |-> "change", y |-> "yank"]

(* What g, the window prefix and a fresh key start.                        *)
GChord == [t |-> "SwitchTab", T |-> "SwitchTab", d |-> "CycleDisplayMode",
           a |-> "FenceEdit", x |-> "DbExportPicker", s |-> "DbSettings",
           h |-> "BlockHistory", E |-> "EnvironmentPicker",
           question |-> "Help", bracket |-> "JumpBlock",
           N |-> "BlockTemplatePicker", r |-> "RerunLastBlock",
           b |-> "TabPicker", W |-> "WriteAll", v |-> "ReselectVisual"]

WindowChord == [v |-> "Window", s |-> "Window", h |-> "Window",
                j |-> "Window", w |-> "Window", c |-> "WindowClose",
                q |-> "WindowClose"]

Plain == [i |-> "EnterInsert", a |-> "EnterInsert", o |-> "EnterInsert",
          v |-> "EnterVisual", p |-> "Paste", u |-> "Undo", ctrl_r |-> "Undo",
          dot |-> "RepeatChange", slash |-> "EnterSearch",
          question |-> "EnterSearch", n |-> "SearchRepeat",
          N |-> "SearchRepeat", colon |-> "EnterCmdline", ctrl_c |-> "Quit",
          r |-> "RunBlock", enter |-> "OpenResultDetail",
          ctrl_p |-> "EnterQuickOpen", ctrl_e |-> "TreeToggle",
          tab |-> "FocusSwap", ctrl_l |-> "ConnectionPicker",
          ctrl_x |-> "ExplainBlock", ctrl_f |-> "OpenContentSearch"]

(* The capitals and x, s: an operator with its motion in one key.          *)
Shortcut == [D |-> <<"OperatorMotion", "delete">>,
             x |-> <<"OperatorMotion", "delete">>,
             s |-> <<"OperatorMotion", "change">>,
             Y |-> <<"OperatorLinewise", "yank">>,
             S |-> <<"OperatorLinewise", "change">>]

Keys == NoLetter \cup Motions \cup Finds \cup DOMAIN Control
          \cup DOMAIN GChord \cup DOMAIN WindowChord \cup DOMAIN Plain
          \cup DOMAIN Shortcut \cup DOMAIN OperatorKeys
          \cup {"g", "z", "digit", "zero", "ctrl_s", "ctrl_space"}

(* What a parser returns: the action with its operator, and what is        *)
(* pending from then on.                                                   *)
Result(act, op, p) == [act |-> act, op |-> op, pending |-> p]

Wait(op, chord) == Result("Noop", None, [op |-> op, chord |-> chord])

Cancelled == Result("Noop", None, NoPending)

\* Mutant: the operator stays armed after its motion.
MotionKeeping(p) ==
  IF pending.op = None THEN Result("Motion", None, p)
                       ELSE Result("OperatorMotion", pending.op, pending)

(* A motion, which the operator that waits for one takes.                  *)
MotionWith(p) ==
  IF pending.op = None THEN Result("Motion", None, p)
                       ELSE Result("OperatorMotion", pending.op, p)

(* build_textobject: the letters that name an object of text.              *)
IsTextObject(k) == Letter(k) \in {"w", "b", "bracket"}

(* The key that ends a chord of z, the window prefix, find or a text       *)
(* object.                                                                 *)
EndChord(k) ==
  CASE pending.chord = "z" -> Cancelled
    [] pending.chord = "window" ->
         LET command == IF k = "ctrl_w" THEN "w" ELSE k
         IN IF command \in DOMAIN WindowChord
            THEN Result(WindowChord[command], None, NoPending)
            ELSE Cancelled
    [] pending.chord = "find" ->
         IF k \in NoLetter THEN Cancelled ELSE MotionWith(NoPending)
    [] pending.chord = "textobj" ->
         IF IsTextObject(k)
         THEN Result("OperatorTextObject", pending.op, NoPending)
         ELSE Cancelled

(* The second key of a chord of g: the operator stays armed, unless it     *)
(* is gg.                                                                  *)
EndG(k) ==
  IF k = "g" THEN MotionWith(NoPending)
  ELSE Result(GChord[Letter(k)], None, [pending EXCEPT !.chord = None])

\* Mutant: the window prefix is taken while an operator waits.
AfterOperatorWindow(k) ==
  IF k = "ctrl_w" THEN Wait(pending.op, "window")
  ELSE IF k \in Motions THEN MotionWith(NoPending)
  ELSE Cancelled

(* A key after an operator.                                                *)
AfterOperator(k) ==
  IF Letter(k) \in DOMAIN OperatorKeys /\ OperatorKeys[Letter(k)] = pending.op
  THEN Result("OperatorLinewise", pending.op, NoPending)
  ELSE IF k = "g" THEN Wait(pending.op, "g")
  ELSE IF k \in Motions THEN MotionWith(NoPending)
  ELSE IF k \in Finds THEN Wait(pending.op, "find")
  ELSE IF k \in {"i", "a"} THEN Wait(pending.op, "textobj")
  ELSE Cancelled

(* A key when nothing is pending.                                          *)
FreshKey(k) ==
  IF k \in DOMAIN OperatorKeys THEN Wait(OperatorKeys[k], None)
  ELSE IF k \in Finds THEN Wait(None, "find")
  ELSE IF k \in Motions THEN Result("Motion", None, NoPending)
  ELSE IF k = "g" THEN Wait(None, "g")
  ELSE IF k = "ctrl_w" THEN Wait(None, "window")
  ELSE IF k \in DOMAIN Shortcut
  THEN Result(Shortcut[k][1], Shortcut[k][2], NoPending)
  ELSE IF k \in DOMAIN Plain THEN Result(Plain[k], None, NoPending)
  ELSE Cancelled

(* parse_normal.  A key that ends no chord of g drops the g and is read    *)
(* again; zero and the digits are read before that.                        *)
ParseNormal(k) ==
  IF k = "esc" THEN Cancelled
  ELSE IF k = "ctrl_s" THEN Result("WriteFile", None, NoPending)
  ELSE IF pending.chord \in {"z", "window", "find", "textobj"} THEN EndChord(k)
  ELSE IF k = "digit" THEN Result("Noop", None, pending)
  ELSE IF k = "zero" THEN MotionWith([pending EXCEPT !.op = None])
  ELSE IF k = "z" /\ pending = NoPending THEN Wait(None, "z")
  ELSE IF pending.chord = "g" /\ Letter(k) \in DOMAIN GChord \cup {"g"}
  THEN EndG(k)
  ELSE IF pending.op # None THEN AfterOperator(k)
  ELSE FreshKey(k)

(* is_blocked_in_modal: what the modals take from the parser of the        *)
(* normal mode.                                                            *)
Blocked(r) ==
  \/ r.act \in {"EnterInsert", "Paste", "Undo", "RepeatChange", "EnterSearch",
                "SearchRepeat", "EnterCmdline", "Window", "WindowClose",
                "SwitchTab", "FocusSwap", "TreeToggle", "EnterQuickOpen",
                "Quit", "RunBlock", "OpenResultDetail", "ExplainBlock",
                "ConnectionPicker", "EnvironmentPicker", "Help",
                "BlockTemplatePicker", "TabPicker"}
  \/ /\ r.act \in {"OperatorMotion", "OperatorLinewise", "OperatorTextObject"}
     /\ r.op \in {"delete", "change"}

(* parse_db_row_detail and parse_http_response_detail: control-c closes,   *)
(* and Y copies when no operator and no window prefix is pending.          *)
ParseModal(k) ==
  IF k = "ctrl_c" THEN Result("Close", None, pending)
  ELSE IF k = "Y" /\ pending.op = None /\ pending.chord # "window"
  THEN Result("Noop", None, pending)
  ELSE LET r == ParseNormal(k)
       IN IF Blocked(r) THEN [r EXCEPT !.act = "Noop", !.op = None] ELSE r

(* parse_visual.                                                           *)
ParseVisual(k) ==
  IF k = "esc" THEN Result("ExitVisual", None, NoPending)
  ELSE IF pending.chord = "textobj"
  THEN IF IsTextObject(k) THEN Result("SelectTextObject", None, NoPending)
                          ELSE Cancelled
  ELSE IF k = "v" THEN Result("ExitVisual", None, pending)
  ELSE IF k = "zero" THEN Result("Motion", None, pending)
  ELSE IF k = "digit" THEN Result("Noop", None, pending)
  ELSE IF pending.chord = "g"
  THEN Result(IF k = "g" THEN "Motion" ELSE "Noop", None, NoPending)
  ELSE IF k \in DOMAIN OperatorKeys
  THEN Result("VisualOperator", OperatorKeys[k], pending)
  ELSE IF k = "x" THEN Result("VisualOperator", "delete", pending)
  ELSE IF k = "s" THEN Result("VisualOperator", "change", pending)
  ELSE IF k = "o" THEN Result("VisualSwap", None, pending)
  ELSE IF k \in {"i", "a"} THEN Wait(None, "textobj")
  ELSE IF k = "g" THEN Wait(None, "g")
  ELSE IF k \in Motions THEN Result("Motion", None, pending)
  ELSE Result("Noop", None, pending)

(* parse_insert: everything that types is one action.                      *)
ParseInsert(k) ==
  Result(IF k \in {"esc", "ctrl_c"} THEN "ExitInsert"
         ELSE IF k = "ctrl_s" THEN "WriteFile"
         ELSE IF k \in DOMAIN Control \cup {"tab", "ctrl_space"} THEN "Noop"
         ELSE IF k = "enter" THEN "InsertNewline" ELSE "InsertChar",
         None, pending)

(* parse_tree.                                                             *)
ParseTree(k) ==
  Result(IF k \in {"esc", "ctrl_c", "tab"} THEN "FocusSwap"
         ELSE IF k = "ctrl_e" THEN "TreeToggle"
         ELSE IF k = "enter" THEN "TreeActivate"
         ELSE IF k \in {"a", "r", "d", "D"} THEN "TreeAsk" ELSE "Noop",
         None, pending)

(* The parsers of the prompts, where one types: parse_cmdline,             *)
(* parse_search, parse_tree_prompt, parse_fence_edit, parse_quickopen,     *)
(* parse_db_settings_modal and parse_content_search.                       *)
ParsePrompt(k) ==
  Result(CASE k \in {"esc", "ctrl_c"} -> "Close"
           [] k = "enter"             -> "Confirm"
           [] k = "backspace"         -> "Backspace"
           [] OTHER                   -> "Noop", None, pending)

(* The parsers of the lists: nothing is chosen in the help and the history.*)
ParseList(k) ==
  Result(IF k \in {"esc", "ctrl_c"} \/ (mode = "Help" /\ k = "q") THEN "Close"
         ELSE IF k = "enter" /\ mode \notin {"Help", "BlockHistory"}
         THEN "Confirm"
         ELSE IF k = "D" /\ mode = "ConnectionPicker" THEN "DeleteConnection"
         ELSE "Noop", None, pending)

ParseDbConfirmRun(k) ==
  Result(CASE k \in {"esc", "ctrl_c", "n", "N"} -> "Close"
           [] k \in {"y", "Y", "enter"}         -> "Confirm"
           [] OTHER                             -> "Noop", None, pending)

Parse(k) == CASE mode = "Normal" -> ParseNormal(k)
              [] mode = "Insert" -> ParseInsert(k)
              [] mode = "Visual" -> ParseVisual(k)
              [] mode = "Tree"   -> ParseTree(k)
              [] mode \in Modals -> ParseModal(k)
              [] mode \in Lists  -> ParseList(k)
              [] mode = "DbConfirmRun" -> ParseDbConfirmRun(k)
              [] OTHER           -> ParsePrompt(k)

-----------------------------------------------------------------------------
(* document and document_mut: while a modal is up its text stands in for   *)
(* the note.  A cursor of the note that got into a modal stays or goes     *)
(* back into the text.                                                     *)
Doc == IF ModalUp THEN modal ELSE note

(* The text of a modal is prose; more than that has been put there.        *)
HasBlocks == ModalUp => modal.dirty

Reachable == IF ~HasBlocks THEN {modal.cursor, "first"}
             ELSE IF ModalUp THEN Places \ {"result"} ELSE Places

\* Mutant: the text of the modal does not stand in for the note.
SetDocOfNote(c, d) == note' = [cursor |-> c, dirty |-> d] /\ UNCHANGED modal

(* Where such a cursor says that there is a block, the block of the note   *)
(* is swapped for prose, and the cursor of the note may move there.        *)
SetDoc(c, d) ==
  IF ModalUp
  THEN /\ modal' = [cursor |-> c, dirty |-> d]
       /\ note' \in {note} \cup {[note EXCEPT !.cursor = "block"] :
                                  x \in {modal.cursor} \cap {"block"}}
  ELSE note' = [cursor |-> c, dirty |-> d] /\ UNCHANGED modal

(* An edit marks the text as changed when it finds something to change: a  *)
(* snapshot for the undo does not.                                         *)
Moved  == \E c \in Reachable : SetDoc(c, Doc.dirty)
Edited == \E c \in Reachable, d \in {Doc.dirty, TRUE} : SetDoc(c, d)

Typed  == \E d \in {Doc.dirty, TRUE} : SetDoc(Doc.cursor, d)

(* Another note, or the same one, in the active pane.                      *)
OtherNote == note' \in Text /\ UNCHANGED modal

(* enter_normal, enter_insert and the modes that only clear what is        *)
(* pending: the anchor of a selection that is left is kept for gv.         *)
Remember == last' = IF mode = "Visual" THEN anchor ELSE last

EnterNormal ==
  mode' = "Normal" /\ pending' = NoPending /\ anchor' = None /\ Remember

EnterInsert ==
  mode' = "Insert" /\ pending' = NoPending /\ anchor' = None /\ Remember

EnterMode(m) == mode' = m /\ pending' = NoPending /\ UNCHANGED <<anchor, last>>

EnterVisual(at) ==
  mode' = "Visual" /\ pending' = NoPending /\ anchor' = at /\ UNCHANGED last

Stay(r) == pending' = r.pending /\ UNCHANGED <<mode, anchor, last>>

\* Mutant: back in the modal the anchor is still set.
ReturnAnchored ==
  IF "DbRowDetail" \in forms
  THEN mode' = "DbRowDetail" /\ pending' = NoPending /\ UNCHANGED <<anchor, last>>
  ELSE EnterNormal

(* return_from_visual looks for the modal of a row alone.                  *)
ReturnFromVisual ==
  IF "DbRowDetail" \in forms
  THEN /\ mode' = "DbRowDetail" /\ pending' = NoPending /\ anchor' = None
       /\ UNCHANGED last
  ELSE EnterNormal

Open(f)  == forms' = forms \cup {f}
\* Mutant: closing a modal flips the mode alone.
CloseListsOnly(f) == forms' = IF f \in Modals THEN forms ELSE forms \ {f}

Close(f) == forms' = forms \ {f}

(* What the actions below leave alone.                                     *)
KeepRest  == UNCHANGED search /\ dropped' = FALSE
KeepForms == UNCHANGED forms /\ KeepRest

-----------------------------------------------------------------------------
(* Actions of the normal mode and the modals.                              *)
Noop(r) ==
  /\ r.act \in {"Noop", "CycleDisplayMode", "ExplainBlock"}
  /\ Stay(r) /\ UNCHANGED texts /\ KeepForms

Motion(r) ==
  r.act \in {"Motion", "SearchRepeat"} /\ Stay(r) /\ Moved /\ KeepForms

JumpBlock(r) ==
  /\ r.act = "JumpBlock" /\ Stay(r) /\ KeepForms
  /\ \/ UNCHANGED texts
     \/ HasBlocks /\ SetDoc("block", Doc.dirty)

(* A change goes on to insert unless nothing was found.                    *)
Operator(r) ==
  /\ r.act \in {"OperatorMotion", "OperatorLinewise", "OperatorTextObject"}
  /\ IF r.op = "yank" THEN Moved ELSE Edited
  /\ \/ Stay(r)
     \/ r.op = "change" /\ EnterInsert
  /\ KeepForms

Insert(r) == r.act = "EnterInsert" /\ EnterInsert /\ Edited /\ KeepForms

Paste(r) == r.act = "Paste" /\ Stay(r) /\ Edited /\ KeepForms

Undo(r) == r.act = "Undo" /\ Stay(r) /\ Edited /\ KeepForms

(* The dot goes through insert and back; with no change yet it does        *)
(* nothing.                                                                *)
RepeatChange(r) ==
  /\ r.act = "RepeatChange" /\ Edited /\ KeepForms
  /\ Stay(r) \/ EnterNormal

Visual(r) ==
  /\ r.act = "EnterVisual" /\ EnterVisual(Doc.cursor)
  /\ SetDoc(Doc.cursor, Doc.dirty) /\ KeepForms

(* gv puts the cursor at the anchor of the last selection, whichever text  *)
(* that was in.                                                            *)
ReselectVisual(r) ==
  /\ r.act = "ReselectVisual" /\ KeepForms
  /\ IF last = None
     THEN Stay(r) /\ UNCHANGED texts
     ELSE /\ EnterVisual(last)
          /\ IF ModalUp
             THEN modal' = [modal EXCEPT !.cursor = last] /\ UNCHANGED note
             ELSE note' = [note EXCEPT !.cursor = last] /\ UNCHANGED modal

WriteFile(r) ==
  /\ r.act \in {"WriteFile", "WriteAll"} /\ Stay(r) /\ KeepForms
  /\ \E failed \in BOOLEAN :
       note' = [note EXCEPT !.dirty = @ /\ failed]
  /\ UNCHANGED modal

SwitchTab(r) ==
  /\ r.act \in {"SwitchTab", "Window"} /\ Stay(r) /\ OtherNote /\ KeepForms

(* A block runs from the cursor; gr puts the cursor on the block that ran  *)
(* last.  A run may be refused, and takes the slot of TuiQuery otherwise;  *)
(* a destructive one asks first, and that form alone keeps what is         *)
(* pending.                                                                *)
RunBlock(r) ==
  /\ \/ r.act = "RunBlock" /\ UNCHANGED texts
     \/ r.act = "RerunLastBlock" /\ HasBlocks /\ SetDoc("block", Doc.dirty)
  /\ \/ Stay(r) /\ UNCHANGED forms
     \/ /\ HasBlocks /\ (r.act = "RunBlock" => Doc.cursor = "block")
        /\ mode' = "DbConfirmRun" /\ pending' = r.pending
        /\ UNCHANGED <<anchor, last>> /\ Open("DbConfirmRun")
  /\ KeepRest

NothingToRerun(r) ==
  r.act = "RerunLastBlock" /\ Stay(r) /\ UNCHANGED texts /\ KeepForms

-----------------------------------------------------------------------------
(* The forms.  The first ones need a block at the cursor of the text in    *)
(* front, and may find that it has nothing to show.                        *)
OnBlock   == {"ConnectionPicker", "DbExportPicker", "DbSettings",
              "BlockHistory", "FenceEdit"}
Anywhere  == {"EnvironmentPicker", "Help", "BlockTemplatePicker", "TabPicker"}

OpenForm(r) ==
  /\ r.act \in Anywhere \/ (r.act \in OnBlock /\ HasBlocks
                            /\ Doc.cursor \in InABlock)
  /\ EnterMode(r.act) /\ Open(r.act) /\ UNCHANGED texts /\ KeepRest

NoForm(r) ==
  /\ r.act \in OnBlock \cup (Anywhere \ {"Help", "BlockTemplatePicker"})
  /\ Stay(r) /\ UNCHANGED texts /\ KeepForms

(* apply_open_result_detail: a row of a query or a response, with a text   *)
(* of its own.                                                             *)
OpenResultDetail(r) ==
  /\ r.act = "OpenResultDetail" /\ ~ModalUp /\ note.cursor = "result"
  /\ \E f \in Modals : EnterMode(f) /\ Open(f)
  /\ modal' = Unread
  /\ UNCHANGED note /\ KeepRest

NoResultDetail(r) ==
  r.act = "OpenResultDetail" /\ Stay(r) /\ UNCHANGED texts /\ KeepForms

\* Mutant: the search waits for a build although the index is there.
OpenSearchIndexing(r) ==
  /\ r.act = "OpenContentSearch" /\ building' = TRUE
  /\ IF indexed
     THEN UNCHANGED <<builds, started>>
     ELSE started < MaxBuilds /\ builds' = builds + 1 /\ started' = started + 1
  /\ EnterMode("ContentSearch") /\ Open("ContentSearch")
  /\ UNCHANGED <<texts, indexed>> /\ dropped' = FALSE

(* open_content_search: the first one in a session starts a build of the   *)
(* index, and so does any other until a build has ended well.              *)
OpenContentSearch(r) ==
  /\ r.act = "OpenContentSearch"
  /\ IF indexed
     THEN building' = FALSE /\ UNCHANGED <<builds, started>>
     ELSE /\ started < MaxBuilds
          /\ building' = TRUE
          /\ builds' = builds + 1 /\ started' = started + 1
  /\ EnterMode("ContentSearch") /\ Open("ContentSearch")
  /\ UNCHANGED <<texts, indexed>> /\ dropped' = FALSE

(* The prompts that have no state but the mode.                            *)
EnterPrompt(r) ==
  /\ \/ r.act = "EnterSearch" /\ EnterMode("Search")
     \/ r.act = "EnterCmdline" /\ EnterMode("CommandLine")
     \/ r.act = "EnterQuickOpen" /\ EnterMode("QuickOpen")
  /\ UNCHANGED texts /\ KeepForms

(* The tree: control-e shows it with the focus or hides it, tab moves the  *)
(* focus to it when it is visible.                                         *)
FocusTree(r) == mode' = "Tree" /\ pending' = r.pending /\ UNCHANGED <<anchor, last>>

TreeToggle(r) ==
  /\ r.act = "TreeToggle" /\ UNCHANGED texts /\ KeepForms
  /\ IF mode = "Tree" THEN EnterNormal ELSE FocusTree(r) \/ Stay(r)

FocusSwap(r) ==
  /\ r.act = "FocusSwap" /\ UNCHANGED texts /\ KeepForms
  /\ IF mode = "Tree" THEN EnterNormal ELSE FocusTree(r) \/ Stay(r)

TreeActivate(r) ==
  /\ r.act = "TreeActivate" /\ KeepForms
  /\ \/ Stay(r) /\ UNCHANGED texts
     \/ EnterNormal /\ OtherNote

TreeAsk(r) ==
  /\ r.act = "TreeAsk"
  /\ mode' = "TreePrompt" /\ pending' = r.pending
  /\ UNCHANGED <<anchor, last, texts>> /\ Open("TreePrompt") /\ KeepRest

-----------------------------------------------------------------------------
(* Keys inside a form.  Closing one takes its state away; the tree prompt  *)
(* goes back to the tree.                                                  *)
Leave == IF mode = "TreePrompt"
         THEN mode' = "Tree" /\ UNCHANGED <<pending, anchor, last>>
         ELSE EnterNormal

CloseForm(r) ==
  /\ \/ r.act = "Close"
     \/ r.act = "Backspace" /\ mode \in {"CommandLine", "Search", "QuickOpen",
                                         "FenceEdit", "TreePrompt"}
     \/ r.act = "DeleteConnection"
  /\ Leave /\ Close(mode)
  /\ building' = (building /\ mode # "ContentSearch")
  /\ note' = note
  /\ modal' = IF mode \in Modals THEN Unread
                                 ELSE modal
  /\ UNCHANGED <<indexed, builds, started>> /\ dropped' = FALSE

TypeInForm(r) ==
  /\ r.act \in {"Backspace", "DeleteConnection"} /\ Stay(r)
  /\ UNCHANGED texts /\ KeepForms

(* A form that is confirmed closes, then acts; the ones that check what    *)
(* was typed may stay open.  The connection, the alias and the settings    *)
(* go into the note without marking it; a template goes into the text in   *)
(* front.                                                                  *)
Refuse(r) ==
  /\ r.act = "Confirm" /\ mode \in {"FenceEdit", "DbSettings"}
  /\ Stay(r) /\ UNCHANGED texts /\ KeepForms

ConfirmForm(r) ==
  /\ r.act = "Confirm" /\ mode \notin {"CommandLine", "Search"}
  /\ Leave /\ Close(mode)
  /\ building' = (building /\ mode # "ContentSearch")
  /\ CASE mode = "BlockTemplatePicker" ->
            \/ UNCHANGED texts
            \/ Doc.cursor \in InProse /\ SetDoc("block", TRUE)
       [] mode \in {"TabPicker", "QuickOpen", "ContentSearch", "TreePrompt"} ->
            OtherNote
       [] OTHER -> UNCHANGED texts
  /\ UNCHANGED <<indexed, builds, started>> /\ dropped' = FALSE

(* The search runs over the text in front.                                 *)
SearchExecute(r) ==
  /\ r.act = "Confirm" /\ mode = "Search"
  /\ EnterNormal /\ Moved /\ KeepForms

(* A command of the command line: w; the edits; e, whose check reads the   *)
(* note; a line to go to.                                                  *)
Command(r) ==
  /\ r.act = "Confirm" /\ mode = "CommandLine" /\ EnterNormal /\ KeepForms
  /\ \/ UNCHANGED texts
     \/ note' = [note EXCEPT !.dirty = FALSE] /\ UNCHANGED modal
     \/ note' = [cursor |-> "first", dirty |-> TRUE] /\ UNCHANGED modal
     \/ OtherNote
     \/ Moved

(* should_quit: what follows is the next session.                          *)
NewSession ==
  /\ mode' = "Normal" /\ pending' = NoPending /\ forms' = {}
  /\ anchor' = None /\ last' = None
  /\ note' = Unread /\ modal' = Unread
  /\ indexed' = FALSE /\ building' = FALSE /\ builds' = 0 /\ started' = 0

(* The active pane or tab is gone, and another one is active.              *)
PaneGone(r) ==
  /\ \/ r.act = "WindowClose" /\ Stay(r)
     \/ r.act = "Confirm" /\ mode = "CommandLine" /\ EnterNormal
  /\ OtherNote /\ UNCHANGED <<forms, search>>

Closing(r) == \/ r.act = "WindowClose"
              \/ r.act = "Confirm" /\ mode = "CommandLine"

\* Mutant: a close that is not forced checks as little as one that is.
ClosePaneUnchecked(r) ==
  /\ Closing(r) /\ dropped' = note.dirty
  /\ PaneGone(r) \/ NewSession

(* q, or the window command: the focused one of several panes closes       *)
(* unless the text in front is unsaved; an only pane closes its tab unless *)
(* a note in it is; the last tab quits.                                    *)
ClosePane(r) ==
  /\ Closing(r) /\ dropped' = note.dirty
  /\ \/ ~Doc.dirty /\ PaneGone(r)
     \/ ~note.dirty /\ (PaneGone(r) \/ NewSession)

KeepPane(r) ==
  /\ r.act = "WindowClose" /\ (Doc.dirty \/ note.dirty)
  /\ Stay(r) /\ UNCHANGED texts /\ KeepForms

(* q! and control-c check nothing.                                         *)
ForceQuit(r) ==
  /\ r.act = "Quit" \/ (r.act = "Confirm" /\ mode = "CommandLine")
  /\ NewSession /\ dropped' = FALSE

ForceClose(r) ==
  /\ r.act = "Confirm" /\ mode = "CommandLine"
  /\ PaneGone(r) /\ dropped' = FALSE

-----------------------------------------------------------------------------
(* Insert and visual.  Typing in a block of the note opens or closes the   *)
(* popup of the completion.                                                *)
InsertChar(r) ==
  /\ r.act = "InsertChar" /\ Stay(r) /\ KeepRest
  /\ Typed
  /\ \/ Close("Completion")
     \/ HasBlocks /\ Doc.cursor = "block" /\ Open("Completion")

InsertNewline(r) ==
  r.act = "InsertNewline" /\ Stay(r) /\ Typed /\ KeepForms

(* A fence that was typed becomes a block.                                 *)
ExitInsert(r) == r.act = "ExitInsert" /\ EnterNormal /\ Edited /\ KeepForms

ExitVisual(r) ==
  r.act = "ExitVisual" /\ ReturnFromVisual /\ UNCHANGED texts /\ KeepForms

VisualSwap(r) ==
  /\ r.act = "VisualSwap" /\ SetDoc(anchor, Doc.dirty)
  /\ anchor' = Doc.cursor /\ pending' = r.pending
  /\ UNCHANGED <<mode, last>> /\ KeepForms

SelectTextObject(r) ==
  /\ r.act = "SelectTextObject" /\ KeepForms
  /\ \/ Stay(r) /\ UNCHANGED texts
     \/ /\ Doc.cursor \in InProse
        /\ anchor' = Doc.cursor /\ SetDoc(Doc.cursor, Doc.dirty)
        /\ pending' = r.pending /\ UNCHANGED <<mode, last>>

(* An operator on a selection that spans segments rewrites the note, and   *)
(* the text in front gets the cursor; any other works on the text in front.*)
CrossSegment == anchor # Doc.cursor /\ "result" \notin {anchor, Doc.cursor}

VisualOperator(r) ==
  /\ r.act = "VisualOperator" /\ KeepForms
  /\ CASE CrossSegment /\ ModalUp /\ r.op = "yank" ->
            modal' = [modal EXCEPT !.cursor = anchor] /\ UNCHANGED note
       [] CrossSegment /\ ModalUp /\ r.op # "yank" ->
            \/ UNCHANGED texts
            \/ \E c \in Places \ {"result"} :
                 /\ modal' = [modal EXCEPT !.cursor = c]
                 /\ note' = [cursor |-> c, dirty |-> TRUE]
       [] OTHER -> IF r.op = "yank" THEN Moved ELSE Edited
  /\ \/ ReturnFromVisual
     \/ r.op = "change" /\ EnterInsert

-----------------------------------------------------------------------------
(* A key.  While a query runs (TuiQuery) control-c cancels it, in any mode; *)
(* the keys of the popup come before those of the mode.                    *)
CancelQuery(k) == k = "ctrl_c" /\ UNCHANGED <<keyboard, texts>> /\ KeepRest

ForcePopup(k) ==
  /\ k = "ctrl_space" /\ mode = "Insert"
  /\ \/ Close("Completion")
     \/ HasBlocks /\ Doc.cursor = "block" /\ Open("Completion")
  /\ UNCHANGED <<mode, pending, anchor, last, texts>> /\ KeepRest

PopupKeys == {"esc", "ctrl_c", "tab", "enter", "ctrl_p"}

PopupKey(k) ==
  /\ "Completion" \in forms
  /\ \/ /\ k \in {"esc", "ctrl_c"} /\ UNCHANGED texts /\ Close("Completion")
     \/ /\ k \in {"tab", "enter"} /\ Close("Completion")
        /\ note' \in {note, [note EXCEPT !.dirty = TRUE]} /\ UNCHANGED modal
     \/ k = "ctrl_p" /\ UNCHANGED <<texts, forms>>
  /\ UNCHANGED <<mode, pending, anchor, last>> /\ KeepRest

Apply(r) ==
  \/ Noop(r) \/ Motion(r) \/ JumpBlock(r) \/ Operator(r) \/ Insert(r)
  \/ Paste(r) \/ Undo(r) \/ RepeatChange(r) \/ Visual(r) \/ ReselectVisual(r)
  \/ WriteFile(r) \/ SwitchTab(r)
  \/ RunBlock(r) \/ NothingToRerun(r)
  \/ OpenForm(r) \/ NoForm(r) \/ OpenResultDetail(r) \/ NoResultDetail(r)
  \/ OpenContentSearch(r) \/ EnterPrompt(r)
  \/ TreeToggle(r) \/ FocusSwap(r) \/ TreeActivate(r) \/ TreeAsk(r)
  \/ CloseForm(r) \/ TypeInForm(r) \/ Refuse(r) \/ ConfirmForm(r)
  \/ SearchExecute(r) \/ Command(r) \/ ClosePane(r) \/ KeepPane(r)
  \/ ForceQuit(r) \/ ForceClose(r)
  \/ InsertChar(r) \/ InsertNewline(r) \/ ExitInsert(r)
  \/ ExitVisual(r) \/ VisualSwap(r) \/ SelectTextObject(r)
  \/ VisualOperator(r)

Taken(k) == \/ k = "ctrl_space" /\ mode = "Insert"
            \/ k \in PopupKeys /\ "Completion" \in forms

(* Keys for which the parser of the mode returns the same are one step.    *)
HandleKey ==
  LET keys == Pressed \cap Keys
  IN \/ \E k \in keys : CancelQuery(k) \/ ForcePopup(k) \/ PopupKey(k)
     \/ \E r \in {Parse(k) : k \in {j \in keys : ~Taken(j)}} : Apply(r)

(* The other events of the main loop: a build of the index that ended, a   *)
(* change of the file on disk (which reloads a note without unsaved text). *)
BuildEnded ==
  /\ builds > 0 /\ builds' = builds - 1 /\ UNCHANGED started
  /\ \/ /\ indexed' = TRUE /\ building' = FALSE
        /\ UNCHANGED <<mode, pending, anchor, last, forms>>
     \/ /\ building' = FALSE /\ UNCHANGED indexed
        /\ Close("ContentSearch") /\ EnterNormal
  /\ UNCHANGED <<texts>> /\ dropped' = FALSE

FileChanged ==
  /\ ~note.dirty
  /\ note' = [note EXCEPT !.cursor = "first"]
  /\ UNCHANGED <<keyboard, modal>> /\ KeepRest

Init ==
  /\ mode = "Normal" /\ pending = NoPending /\ forms = {}
  /\ anchor = None /\ last = None
  /\ note = Unread /\ modal = Unread
  /\ indexed = FALSE /\ building = FALSE /\ builds = 0 /\ started = 0
  /\ dropped = FALSE

Next == HandleKey \/ BuildEnded \/ FileChanged

Spec == Init /\ [][Next]_vars /\ WF_vars(BuildEnded)

-----------------------------------------------------------------------------
(* Properties.                                                             *)

TypeOK ==
  /\ mode \in Modes
  /\ pending \in [op : Operators \cup {None}, chord : Chords \cup {None}]
  /\ pending.chord \in {"z", "window"} => pending.op = None
  /\ forms \subseteq Forms \cup {"Completion"}
  /\ anchor \in Places \cup {None} /\ last \in Places \cup {None}
  /\ note \in Text /\ modal \in Text
  /\ indexed \in BOOLEAN
  /\ building \in BOOLEAN /\ dropped \in BOOLEAN
  /\ started \in 0..MaxBuilds /\ builds \in 0..started

(* A mode always has what it works on: the mode of a form its form, visual *)
(* and no other mode an anchor; and one modal at most is up, so that there *)
(* is one text in front (every mode flip in dispatch.rs and commands).     *)
ModeHasForm ==
  /\ mode \in Forms => mode \in forms
  /\ mode = "Visual" <=> anchor # None
  /\ Modals \subseteq forms => FALSE

(* A form that stays open keeps its mode: otherwise its keys go elsewhere. *)
(* The one way out is a build of the index that fails while another form   *)
(* is in front; a modal may also give way to a selection of its text, to   *)
(* the content search and, when a block was typed into it, to the forms of *)
(* a block (handle_index_built, is_blocked_in_modal).                      *)
FormKeepsMode ==
  [][\A f \in Forms :
       /\ mode = f /\ mode' # f /\ f \in forms /\ f \in forms'
       => \/ builds' < builds /\ mode' = "Normal"
          \/ f \in Modals /\ (mode' \in {"Visual", "ContentSearch"} \/ modal.dirty)]_vars

(* While a modal is up no key marks the note as changed, whatever chord,   *)
(* selection or insert it takes part in, unless gv, a selection across     *)
(* segments or a fence typed into the modal brought a cursor there that is *)
(* not in its prose, or a failed build left the popup open (document_mut,  *)
(* is_blocked_in_modal, apply_visual_operator, apply_completion_accept).   *)
Foreign == modal.cursor # "first" \/ anchor \notin {None, "first"}

NoteKeptUnderModal ==
  [][/\ ModalUp /\ mode \in Modals \cup {"Visual", "Insert"}
     /\ ~Foreign /\ "Completion" \notin forms
     /\ note'.dirty
     => note.dirty]_vars

(* A key that does something ends the operator that was armed, except the  *)
(* second key of a chord of g, and a key of the popup that a failed build  *)
(* left open in the normal mode (parse_normal, parse_completion_popup_key).*)
OperatorSpent ==
  [][/\ pending.op # None /\ pending'.op # None
     /\ <<mode, forms, note.dirty, modal.dirty>>
          # <<mode', forms', note'.dirty, modal'.dirty>>
     => pending.chord = "g" \/ "Completion" \in forms]_vars

(* A pane or a tab that is closed without force never takes unsaved text   *)
(* with it, except when a modal is up, whose text is then asked in place   *)
(* of the note (quit_or_close, close_focused_pane, close_tab).             *)
DropsOnlyUnderModal == [][dropped' => ModalUp]_vars

(* The content search that says it is indexing comes to an end, or is      *)
(* closed (open_content_search, handle_index_built).                       *)
SearchAnswered == building ~> ~building

-----------------------------------------------------------------------------
(* What the documentation promises and the code does not keep.             *)

(* While a modal is up the keyboard is not the one of the note: the mode   *)
(* flips together with the modal, and the keys of the normal mode that are *)
(* not for a modal never fire (app.rs, is_blocked_in_modal).               *)
ModalInLockstep == ModalUp => mode # "Normal"
=============================================================================
