--------------------------- MODULE TuiModes_proofs ---------------------------
(***************************************************************************)
(* Whatever keys are pressed, in any order, and however many builds of the *)
(* search index end between them, a mode of TuiModes has what it works on, *)
(* an operator that waits is spent by what follows it, and the note behind *)
(* a modal is left alone.                                                  *)
(*                                                                         *)
(* The argument: what a parser may return in each mode is a small set of   *)
(* actions (ParseActs), so what a key may do to the keyboard is one of a   *)
(* few steps (Front), whatever the action does to the texts.  The          *)
(* invariant adds where an operator may wait at all.                       *)
(***************************************************************************)
EXTENDS TuiModes, TLAPS

Waiting == [op : Operators \cup {None}, chord : Chords \cup {None}]

(* What waits, apart from the chords that no operator goes with.           *)
Pending(p) == /\ p \in Waiting
              /\ p.chord \in {"z", "window"} => p.op = None

(* An operator waits where parse_normal reads the next key, and under the  *)
(* question of a run that gr started.                                      *)
Reading        == {"Normal"} \cup Modals
ArmedWhereRead == pending.op # None => mode \in Reading \cup {"DbConfirmRun"}

IInv == TypeOK /\ ModeHasForm /\ ArmedWhereRead

-----------------------------------------------------------------------------
(* What the parsers return.                                                *)

GActs == {"SwitchTab", "CycleDisplayMode", "FenceEdit", "DbExportPicker",
          "DbSettings", "BlockHistory", "EnvironmentPicker", "Help",
          "JumpBlock", "BlockTemplatePicker", "RerunLastBlock", "TabPicker",
          "WriteAll", "ReselectVisual"}

PlainActs == {"EnterInsert", "EnterVisual", "Paste", "Undo", "RepeatChange",
              "EnterSearch", "SearchRepeat", "EnterCmdline", "Quit",
              "RunBlock", "OpenResultDetail", "EnterQuickOpen", "TreeToggle",
              "FocusSwap", "ConnectionPicker", "ExplainBlock",
              "OpenContentSearch"}

OperatorActs == {"OperatorMotion", "OperatorLinewise", "OperatorTextObject"}

NormalActs == GActs \cup PlainActs \cup OperatorActs
                \cup {"Noop", "Motion", "WriteFile", "Window", "WindowClose"}

ModalActs == OperatorActs
               \cup {"Close", "Noop", "Motion", "WriteFile", "WriteAll",
                     "CycleDisplayMode", "FenceEdit", "DbExportPicker",
                     "DbSettings", "BlockHistory", "JumpBlock",
                     "RerunLastBlock", "ReselectVisual", "EnterVisual",
                     "OpenContentSearch"}

VisualActs == {"ExitVisual", "SelectTextObject", "Noop", "Motion",
               "VisualOperator", "VisualSwap"}

InsertActs == {"ExitInsert", "WriteFile", "Noop", "InsertNewline",
               "InsertChar"}

TreeActs == {"FocusSwap", "TreeToggle", "TreeActivate", "TreeAsk", "Noop"}

PromptActs == {"Close", "Confirm", "Backspace", "DeleteConnection", "Noop"}

(* The tables of the parser of the normal mode.                            *)
LEMMA Tables ==
  /\ \A k \in DOMAIN GChord : GChord[k] \in GActs
  /\ \A k \in DOMAIN WindowChord : WindowChord[k] \in {"Window", "WindowClose"}
  /\ \A k \in DOMAIN Plain : Plain[k] \in PlainActs
  /\ \A k \in DOMAIN Shortcut : /\ Shortcut[k][1] \in OperatorActs
                                /\ Shortcut[k][2] \in Operators
  /\ \A k \in DOMAIN OperatorKeys : OperatorKeys[k] \in Operators
<1>1. \A k \in DOMAIN GChord : GChord[k] \in GActs
  BY DEF GChord, GActs
<1>2. \A k \in DOMAIN WindowChord : WindowChord[k] \in {"Window", "WindowClose"}
  BY DEF WindowChord
<1>3. \A k \in DOMAIN Plain : Plain[k] \in PlainActs
  BY DEF Plain, PlainActs
<1>4. \A k \in DOMAIN Shortcut : /\ Shortcut[k][1] \in OperatorActs
                                 /\ Shortcut[k][2] \in Operators
  BY DEF Shortcut, OperatorActs, Operators
<1>5. \A k \in DOMAIN OperatorKeys : OperatorKeys[k] \in Operators
  BY DEF OperatorKeys, Operators
<1>. QED  BY <1>1, <1>2, <1>3, <1>4, <1>5

(* A result of the normal mode: what acts on the note has spent the        *)
(* operator that waited, unless it ends a chord of g; the focus of the     *)
(* tree is taken with nothing pending.                                     *)
NormalResult(r) ==
  /\ r \in [act : NormalActs, op : Operators \cup {None}, pending : Waiting]
  /\ Pending(r.pending)
  /\ r.pending.op # None => pending.chord = "g" \/ r.act = "Noop"
  /\ r.act \in {"TreeToggle", "FocusSwap"} => r.pending.op = None

LEMMA Basic ==
  ASSUME TypeOK
  PROVE  /\ Pending(pending) /\ Pending(NoPending) /\ NoPending.op = None
         /\ None \notin Operators /\ None \notin Chords /\ None \notin Places
         /\ pending.op \in Operators \cup {None}
  BY ModesAssumption DEF TypeOK, Pending, Waiting, NoPending

LEMMA CancelledResult == TypeOK => NormalResult(Cancelled)
  BY Basic DEF NormalResult, Cancelled, Result, NormalActs, NoPending, Pending, Waiting

(* A key that leaves something waiting does nothing else.                  *)
LEMMA WaitResult ==
  ASSUME TypeOK, NEW op \in Operators \cup {None}, NEW chord \in Chords \cup {None},
         chord \in {"z", "window"} => op = None
  PROVE  NormalResult(Wait(op, chord))
  BY Basic DEF NormalResult, Wait, Result, NormalActs, Pending, Waiting

LEMMA MotionResult == TypeOK => NormalResult(MotionWith(NoPending))
  BY Basic DEF NormalResult, MotionWith, Result, NormalActs, OperatorActs, NoPending,
               Pending, Waiting

(* An action that leaves nothing pending.                                  *)
LEMMA SpentResult ==
  ASSUME TypeOK, NEW act \in NormalActs, NEW op \in Operators \cup {None}
  PROVE  NormalResult(Result(act, op, NoPending))
  BY Basic DEF NormalResult, Result, NoPending, Pending, Waiting

LEMMA EndChordResult ==
  ASSUME TypeOK, NEW k \in Keys, pending.chord \in {"z", "window", "find", "textobj"}
  PROVE  NormalResult(EndChord(k))
<1>1. {"Window", "WindowClose", "OperatorTextObject"} \subseteq NormalActs
  BY DEF NormalActs, OperatorActs
<1>2. CASE pending.chord = "z"
  BY <1>2, CancelledResult DEF EndChord
<1>3. CASE pending.chord = "window"
  <2> DEFINE command == IF k = "ctrl_w" THEN "w" ELSE k
  <2>1. EndChord(k) = IF command \in DOMAIN WindowChord
                      THEN Result(WindowChord[command], None, NoPending)
                      ELSE Cancelled
    BY <1>3 DEF EndChord
  <2>2. CASE command \in DOMAIN WindowChord
    <3>1. WindowChord[command] \in NormalActs
      BY <1>1, <2>2, Tables
    <3>. QED  BY <2>1, <2>2, <3>1, SpentResult
  <2>3. CASE command \notin DOMAIN WindowChord
    BY <2>1, <2>3, CancelledResult
  <2>. QED  BY <2>2, <2>3
<1>4. CASE pending.chord = "find"
  BY <1>4, CancelledResult, MotionResult DEF EndChord
<1>5. CASE pending.chord = "textobj"
  BY <1>1, <1>5, Basic, CancelledResult, SpentResult DEF EndChord
<1>. QED  BY <1>2, <1>3, <1>4, <1>5

LEMMA EndGResult ==
  ASSUME TypeOK, NEW k \in Keys, pending.chord = "g", Letter(k) \in DOMAIN GChord \cup {"g"}
  PROVE  NormalResult(EndG(k))
<1>1. CASE k = "g"
  BY <1>1, MotionResult DEF EndG
<1>2. CASE k # "g"
  <2>1. Letter(k) \in DOMAIN GChord
    BY <1>2 DEF Letter, Control, GChord
  <2>2. GChord[Letter(k)] \in GActs
    BY <2>1, Tables
  <2>3. [pending EXCEPT !.chord = None] \in Waiting
    BY DEF TypeOK, Waiting
  <2>4. [pending EXCEPT !.chord = None].chord = None
    BY DEF TypeOK
  <2>5. EndG(k) = Result(GChord[Letter(k)], None, [pending EXCEPT !.chord = None])
    BY <1>2 DEF EndG
  <2>6. GChord[Letter(k)] \in NormalActs \ {"TreeToggle", "FocusSwap"}
    BY <2>2 DEF NormalActs, GActs
  <2> DEFINE p == [pending EXCEPT !.chord = None]
             act == GChord[Letter(k)]
  <2> SUFFICES NormalResult(Result(act, None, p))
    BY <2>5
  <2>7. p \in Waiting /\ p.chord = None /\ act \in NormalActs \ {"TreeToggle", "FocusSwap"}
    BY <2>3, <2>4, <2>6
  <2> HIDE DEF p, act
  <2>. QED
    BY <2>7, ModesAssumption DEF NormalResult, Result, Pending, Chords
<1>. QED  BY <1>1, <1>2

LEMMA AfterOperatorResult ==
  ASSUME TypeOK, NEW k \in Keys, pending.op # None
  PROVE  NormalResult(AfterOperator(k))
<1>1. pending.op \in Operators /\ {"g", "find", "textobj"} \subseteq Chords
  BY Basic DEF Chords
<1>2. NormalResult(Wait(pending.op, "g")) /\ NormalResult(Wait(pending.op, "find"))
        /\ NormalResult(Wait(pending.op, "textobj"))
  BY <1>1, WaitResult
<1>3. NormalResult(Result("OperatorLinewise", pending.op, NoPending))
  BY <1>1, SpentResult DEF NormalActs, OperatorActs
<1>. QED  BY <1>2, <1>3, CancelledResult, MotionResult DEF AfterOperator

LEMMA FreshKeyResult ==
  ASSUME TypeOK, NEW k \in Keys
  PROVE  NormalResult(FreshKey(k))
<1>1. k \in DOMAIN OperatorKeys => NormalResult(Wait(OperatorKeys[k], None))
  BY Tables, WaitResult, ModesAssumption DEF Chords
<1>2. NormalResult(Wait(None, "find")) /\ NormalResult(Wait(None, "g"))
        /\ NormalResult(Wait(None, "window"))
  BY WaitResult DEF Chords
<1>3. NormalResult(Result("Motion", None, NoPending))
  BY SpentResult DEF NormalActs
<1>4. ASSUME k \in DOMAIN Shortcut
      PROVE  NormalResult(Result(Shortcut[k][1], Shortcut[k][2], NoPending))
  <2>1. Shortcut[k][1] \in NormalActs /\ Shortcut[k][2] \in Operators
    BY <1>4, Tables DEF NormalActs
  <2>. QED  BY <2>1, SpentResult
<1>5. ASSUME k \in DOMAIN Plain
      PROVE  NormalResult(Result(Plain[k], None, NoPending))
  <2>1. Plain[k] \in NormalActs
    BY <1>5, Tables DEF NormalActs
  <2>. QED  BY <2>1, SpentResult
<1>. QED  BY <1>1, <1>2, <1>3, <1>4, <1>5, CancelledResult DEF FreshKey

LEMMA ParseNormalResult ==
  ASSUME TypeOK, NEW k \in Keys
  PROVE  NormalResult(ParseNormal(k))
<1>1. NormalResult(Result("WriteFile", None, NoPending))
  BY SpentResult DEF NormalActs
<1>2. NormalResult(Result("Noop", None, pending))
  BY Basic DEF NormalResult, Result, NormalActs, Pending
<1>3. NormalResult(MotionWith([pending EXCEPT !.op = None]))
  <2> DEFINE p == [pending EXCEPT !.op = None]
  <2>1. p \in Waiting /\ p.op = None
    BY DEF TypeOK, Waiting
  <2>2. SUFFICES NormalResult(MotionWith(p))
    OBVIOUS
  <2> HIDE DEF p
  <2>. QED
    BY <2>1, Basic DEF NormalResult, MotionWith, Result, NormalActs, OperatorActs, Pending
<1>4. NormalResult(Wait(None, "z"))
  BY WaitResult DEF Chords
<1>. QED
  BY <1>1, <1>2, <1>3, <1>4, CancelledResult, EndChordResult, EndGResult,
     AfterOperatorResult, FreshKeyResult DEF ParseNormal

(* What any parser returns, by the mode.  A modal takes no operator that   *)
(* changes text; elsewhere nothing begins to wait for an operator.         *)
Parsed(r) ==
  /\ r.op \in Operators \cup {None} /\ Pending(r.pending)
  /\ mode = "Normal" => NormalResult(r)
  /\ mode \in Modals => /\ r.act \in ModalActs
                        /\ r.act \in OperatorActs => r.op \notin {"delete", "change"}
                        /\ r.pending.op # None =>
                             pending.chord = "g" \/ r.act \in {"Noop", "Close"}
  /\ mode \notin Reading => r.pending.op \in {None, pending.op}
  /\ mode = "Visual" => r.act \in VisualActs
  /\ mode = "Insert" => r.act \in InsertActs
  /\ mode = "Tree" => r.act \in TreeActs
  /\ mode \notin Reading \cup {"Visual", "Insert", "Tree"} => r.act \in PromptActs

(* The modals refuse what is not for them.                                 *)
LEMMA ParseModalResult ==
  ASSUME TypeOK, mode \in Modals, NEW k \in Keys
  PROVE  Parsed(ParseModal(k))
<1>1. mode # "Normal" /\ mode \in Reading /\ mode \notin {"Visual", "Insert", "Tree"}
  BY DEF Modals, Reading
<1>2. CASE k = "ctrl_c"
  BY <1>1, <1>2, Basic DEF ParseModal, Parsed, Result, ModalActs, OperatorActs
<1>3. CASE k # "ctrl_c" /\ k = "Y" /\ pending.op = None /\ pending.chord # "window"
  BY <1>1, <1>3, Basic DEF ParseModal, Parsed, Result, ModalActs, OperatorActs
<1>4. CASE k # "ctrl_c" /\ ~(k = "Y" /\ pending.op = None /\ pending.chord # "window")
  <2> DEFINE r == ParseNormal(k)
  <2>1. NormalResult(r)
    BY ParseNormalResult
  <2>2. ParseModal(k) = IF Blocked(r) THEN [r EXCEPT !.act = "Noop", !.op = None] ELSE r
    BY <1>4 DEF ParseModal
  <2> HIDE DEF r
  <2>3. CASE Blocked(r)
    <3>1. /\ ParseModal(k).act = "Noop" /\ ParseModal(k).op = None
          /\ ParseModal(k).pending = r.pending
      BY <2>1, <2>2, <2>3 DEF NormalResult
    <3>. QED
      BY <1>1, <2>1, <3>1, Basic DEF Parsed, NormalResult, ModalActs, OperatorActs
  <2>4. CASE ~Blocked(r)
    <3>1. r.act \in ModalActs
      BY <2>1, <2>4 DEF NormalResult, Blocked, NormalActs, GActs, PlainActs, ModalActs,
                        OperatorActs
    <3>2. r.act \in OperatorActs => r.op \notin {"delete", "change"}
      BY <2>4 DEF Blocked, OperatorActs
    <3>. QED
      BY <1>1, <2>1, <2>2, <2>4, <3>1, <3>2 DEF Parsed, NormalResult
  <2>. QED  BY <2>3, <2>4
<1>. QED  BY <1>2, <1>3, <1>4

LEMMA ParseVisualResult ==
  ASSUME TypeOK, mode = "Visual", NEW k \in Keys
  PROVE  Parsed(ParseVisual(k))
<1>1. mode \notin Reading
  BY DEF Reading, Modals
<1>2. ASSUME NEW act \in VisualActs, NEW op \in Operators \cup {None},
             NEW p \in {pending, NoPending}
      PROVE  Parsed(Result(act, op, p))
  BY <1>1, <1>2, Basic DEF Parsed, Result, Modals
<1>3. Parsed(Cancelled)
  BY <1>1, Basic DEF Cancelled, Parsed, Result, Modals, VisualActs
<1>4. \A chord \in {"textobj", "g"} : Parsed(Wait(None, chord))
  BY <1>1, Basic DEF Wait, Parsed, Result, Modals, VisualActs, Pending, Waiting, Chords
<1>5. k \in DOMAIN OperatorKeys => OperatorKeys[k] \in Operators
  BY Tables
<1>6. {"delete", "change"} \subseteq Operators
  BY DEF Operators
<1>7. /\ Parsed(Result("ExitVisual", None, NoPending))
      /\ Parsed(Result("SelectTextObject", None, NoPending))
      /\ Parsed(Result("ExitVisual", None, pending))
      /\ Parsed(Result("Motion", None, pending)) /\ Parsed(Result("Noop", None, pending))
      /\ Parsed(Result("Motion", None, NoPending)) /\ Parsed(Result("Noop", None, NoPending))
      /\ k \in DOMAIN OperatorKeys =>
           Parsed(Result("VisualOperator", OperatorKeys[k], pending))
      /\ Parsed(Result("VisualOperator", "delete", pending))
      /\ Parsed(Result("VisualOperator", "change", pending))
      /\ Parsed(Result("VisualSwap", None, pending))
  BY <1>2, <1>5, <1>6 DEF VisualActs
<1>. QED  BY <1>3, <1>4, <1>7 DEF ParseVisual

(* In the other modes nothing that waits is read or changed.               *)
LEMMA KeepingResult ==
  ASSUME TypeOK, NEW act, mode \notin Reading \cup {"Visual"},
         mode = "Insert" => act \in InsertActs, mode = "Tree" => act \in TreeActs,
         mode \notin {"Insert", "Tree"} => act \in PromptActs
  PROVE  Parsed(Result(act, None, pending))
  BY Basic DEF Parsed, Result, Reading

LEMMA ParseResult ==
  ASSUME TypeOK, NEW k \in Keys
  PROVE  Parsed(Parse(k))
<1>1. CASE mode = "Normal"
  <2>1. Parse(k) = ParseNormal(k)
    BY <1>1 DEF Parse, Modals, Lists
  <2>2. mode \in Reading /\ mode \notin Modals
    BY <1>1 DEF Reading, Modals
  <2>. QED  BY <1>1, <2>1, <2>2, ParseNormalResult DEF Parsed, NormalResult
<1>2. CASE mode = "Insert"
  <2>1. Parse(k) = ParseInsert(k) /\ mode \notin Reading \cup {"Visual"}
    BY <1>2 DEF Parse, Reading, Modals, Lists
  <2>. QED  BY <1>2, <2>1, KeepingResult DEF ParseInsert, InsertActs
<1>3. CASE mode = "Visual"
  <2>1. Parse(k) = ParseVisual(k)
    BY <1>3 DEF Parse, Modals, Lists
  <2>. QED  BY <1>3, <2>1, ParseVisualResult
<1>4. CASE mode = "Tree"
  <2>1. Parse(k) = ParseTree(k) /\ mode \notin Reading \cup {"Visual"}
    BY <1>4 DEF Parse, Reading, Modals, Lists
  <2>. QED  BY <1>4, <2>1, KeepingResult DEF ParseTree, TreeActs
<1>5. CASE mode \in Modals
  <2>1. Parse(k) = ParseModal(k)
    BY <1>5 DEF Parse, Modals, Lists
  <2>. QED  BY <1>5, <2>1, ParseModalResult
<1>6. CASE mode \in Lists
  <2>1. Parse(k) = ParseList(k) /\ mode \notin Reading \cup {"Visual", "Insert", "Tree"}
    BY <1>6 DEF Parse, Reading, Modals, Lists
  <2>. QED  BY <2>1, KeepingResult DEF ParseList, PromptActs
<1>7. CASE mode = "DbConfirmRun"
  <2>1. Parse(k) = ParseDbConfirmRun(k)
          /\ mode \notin Reading \cup {"Visual", "Insert", "Tree"}
    BY <1>7 DEF Parse, Reading, Modals, Lists
  <2>. QED  BY <2>1, KeepingResult DEF ParseDbConfirmRun, PromptActs
<1>8. CASE mode \notin {"Normal", "Insert", "Visual", "Tree", "DbConfirmRun"}
                        \cup Modals \cup Lists
  <2>1. Parse(k) = ParsePrompt(k) /\ mode \notin Reading \cup {"Visual", "Insert", "Tree"}
    BY <1>8 DEF Parse, Reading
  <2>. QED  BY <2>1, KeepingResult DEF ParsePrompt, PromptActs
<1>. QED  BY <1>1, <1>2, <1>3, <1>4, <1>5, <1>6, <1>7, <1>8

-----------------------------------------------------------------------------
(* What a key does to the keyboard.                                        *)

Quits == /\ mode' = "Normal" /\ pending' = NoPending /\ forms' = {}
         /\ anchor' = None /\ last' = None

(* The steps that keep the forms, but for the popup.                       *)
Keeps(r) ==
  \/ Stay(r) /\ forms' \in {forms, forms \cup {"Completion"}, forms \ {"Completion"}}
  \/ UNCHANGED forms /\ mode \notin Forms /\ EnterNormal
  \/ UNCHANGED forms /\ mode \in {"Normal", "Visual"} /\ EnterInsert
  \/ UNCHANGED forms /\ mode \in Reading /\ \E at \in Places : EnterVisual(at)
  \/ /\ UNCHANGED forms /\ mode = "Normal"
     /\ \E m \in {"Search", "CommandLine", "QuickOpen"} : EnterMode(m)
  \/ UNCHANGED forms /\ mode = "Normal" /\ FocusTree(r) /\ r.pending.op = None
  \/ UNCHANGED forms /\ mode = "Visual" /\ ReturnFromVisual
  \/ /\ UNCHANGED forms /\ mode = "Visual" /\ anchor' \in Places
     /\ pending' = r.pending /\ UNCHANGED <<mode, last>>

(* The steps that open a form, over a modal only when it has a block.      *)
Opens(r) ==
  \/ \E f \in Forms \ Modals :
       /\ EnterMode(f) /\ Open(f) /\ mode \in Reading
       /\ mode \in Modals => f = "ContentSearch" \/ HasBlocks
  \/ \E f \in Modals : EnterMode(f) /\ Open(f) /\ mode = "Normal" /\ ~ModalUp
  \/ /\ mode \in Reading /\ HasBlocks
     /\ mode' = "DbConfirmRun" /\ pending' = r.pending /\ UNCHANGED <<anchor, last>>
     /\ Open("DbConfirmRun")
  \/ /\ mode = "Tree"
     /\ mode' = "TreePrompt" /\ pending' = r.pending /\ UNCHANGED <<anchor, last>>
     /\ Open("TreePrompt")

Leaves == Leave /\ Close(mode) /\ mode \notin {"Normal", "Visual", "Insert", "Tree"}

Front(r) == Keeps(r) \/ Opens(r) \/ Leaves \/ Quits

(* The modes that each action comes from.                                  *)
LEMMA ActModes ==
  ASSUME NEW r, Parsed(r)
  PROVE  /\ r.act \in OperatorActs \cup {"EnterVisual", "OpenContentSearch", "FenceEdit",
                        "DbExportPicker", "DbSettings", "BlockHistory", "JumpBlock",
                        "RerunLastBlock", "ReselectVisual"}
              => mode \in Reading
         /\ r.act \in {"EnterInsert", "Paste", "Undo", "RepeatChange", "EnterSearch",
                       "SearchRepeat", "EnterCmdline", "Quit", "RunBlock",
                       "OpenResultDetail", "EnterQuickOpen", "ConnectionPicker",
                       "EnvironmentPicker", "Help", "BlockTemplatePicker", "TabPicker",
                       "SwitchTab", "Window", "WindowClose"}
              => mode = "Normal"
         /\ r.act \in OperatorActs /\ r.op = "change" => mode = "Normal"
         /\ r.act \in {"TreeToggle", "FocusSwap"} /\ mode # "Tree"
              => mode = "Normal" /\ r.pending.op = None
         /\ r.act \in {"TreeActivate", "TreeAsk"} => mode = "Tree"
         /\ r.act \in {"Close", "Confirm", "Backspace", "DeleteConnection"}
              => mode \notin {"Normal", "Visual", "Insert", "Tree"}
         /\ r.act \in {"Confirm", "Backspace", "DeleteConnection"} => mode \notin Modals
         /\ r.act \in {"InsertChar", "InsertNewline", "ExitInsert"} => mode = "Insert"
         /\ r.act \in {"ExitVisual", "SelectTextObject", "VisualOperator", "VisualSwap"}
              => mode = "Visual"
<1>1. CASE mode = "Normal"
  <2>1. r.act \in NormalActs
    BY <1>1 DEF Parsed, NormalResult
  <2>. QED
    BY <1>1, <2>1 DEF Parsed, NormalResult, Reading, Modals, NormalActs, GActs, PlainActs,
                      OperatorActs
<1>2. CASE mode \in Modals
  BY <1>2 DEF Parsed, Reading, Modals, ModalActs, OperatorActs
<1>3. CASE mode \notin Reading
  BY <1>3 DEF Parsed, Reading, Modals, OperatorActs, VisualActs, InsertActs, TreeActs,
              PromptActs
<1>. QED  BY <1>1, <1>2, <1>3 DEF Reading

LEMMA ApplyFront ==
  ASSUME TypeOK, NEW r, Parsed(r), Apply(r)
  PROVE  Front(r)
<1>1. CASE Noop(r) \/ Motion(r) \/ JumpBlock(r) \/ Paste(r) \/ Undo(r) \/ WriteFile(r)
             \/ SwitchTab(r) \/ NothingToRerun(r) \/ NoForm(r) \/ NoResultDetail(r)
             \/ TypeInForm(r) \/ Refuse(r) \/ KeepPane(r) \/ InsertNewline(r)
  BY <1>1 DEF Front, Keeps, Noop, Motion, JumpBlock, Paste, Undo, WriteFile, SwitchTab,
              NothingToRerun, NoForm, NoResultDetail, TypeInForm, Refuse, KeepPane,
              InsertNewline, KeepForms
<1>2. CASE Operator(r) \/ Insert(r) \/ RepeatChange(r)
  <2>1. \/ Stay(r) /\ UNCHANGED forms
        \/ EnterInsert /\ UNCHANGED forms /\ mode = "Normal"
        \/ EnterNormal /\ UNCHANGED forms /\ mode = "Normal"
    BY <1>2, ActModes DEF Operator, Insert, RepeatChange, KeepForms, OperatorActs
  <2>. QED  BY <2>1 DEF Front, Keeps, Forms, Modals, Lists
<1>3. CASE Visual(r)
  <2>1. Doc.cursor \in Places
    BY DEF TypeOK, Doc, Text
  <2>. QED  BY <1>3, <2>1, ActModes DEF Visual, Front, Keeps, KeepForms
<1>4. CASE ReselectVisual(r)
  <2>1. last # None => last \in Places
    BY DEF TypeOK
  <2>. QED  BY <1>4, <2>1, ActModes DEF ReselectVisual, Front, Keeps, KeepForms
<1>5. CASE RunBlock(r)
  BY <1>5, ActModes DEF RunBlock, Front, Keeps, Opens, Reading
<1>6. CASE OpenForm(r)
  <2>1. r.act \in Forms \ Modals /\ mode \in Reading
    BY <1>6, ActModes DEF OpenForm, Anywhere, OnBlock, Forms, Lists, Modals, Reading
  <2>2. mode \in Modals => HasBlocks
    <3>1. "Normal" \notin Modals
      BY DEF Modals
    <3>. QED  BY <1>6, <3>1, ActModes DEF OpenForm, Anywhere, OnBlock
  <2>. QED  BY <1>6, <2>1, <2>2 DEF OpenForm, Front, Opens
<1>7. CASE OpenResultDetail(r)
  BY <1>7, ActModes DEF OpenResultDetail, Front, Opens
<1>8. CASE OpenContentSearch(r)
  <2>1. "ContentSearch" \in Forms \ Modals /\ mode \in Reading
    BY <1>8, ActModes DEF OpenContentSearch, Forms, Modals
  <2>. QED  BY <1>8, <2>1 DEF OpenContentSearch, Front, Opens
<1>9. CASE EnterPrompt(r)
  BY <1>9, ActModes DEF EnterPrompt, Front, Keeps, KeepForms
<1>10. CASE TreeToggle(r) \/ FocusSwap(r) \/ TreeActivate(r)
  <2>1. "Tree" \notin Forms
    BY DEF Forms, Modals, Lists
  <2>. QED
    BY <1>10, <2>1, ActModes DEF TreeToggle, FocusSwap, TreeActivate, Front, Keeps, KeepForms
<1>11. CASE TreeAsk(r)
  BY <1>11, ActModes DEF TreeAsk, Front, Opens
<1>12. CASE CloseForm(r) \/ ConfirmForm(r)
  BY <1>12, ActModes DEF CloseForm, ConfirmForm, Front, Leaves
<1>13. CASE SearchExecute(r) \/ Command(r)
  BY <1>13 DEF SearchExecute, Command, Front, Keeps, KeepForms, Forms, Modals, Lists
<1>14. CASE ClosePane(r) \/ ForceQuit(r) \/ ForceClose(r)
  <2>1. PaneGone(r) => Front(r)
    BY DEF PaneGone, Front, Keeps, Forms, Modals, Lists
  <2>2. NewSession => Front(r)
    BY DEF NewSession, Front, Quits
  <2>. QED  BY <1>14, <2>1, <2>2 DEF ClosePane, ForceQuit, ForceClose
<1>15. CASE InsertChar(r)
  BY <1>15 DEF InsertChar, Open, Close, Front, Keeps
<1>16. CASE ExitInsert(r)
  BY <1>16, ActModes DEF ExitInsert, Front, Keeps, KeepForms, Forms, Modals, Lists
<1>17. CASE ExitVisual(r)
  BY <1>17, ActModes DEF ExitVisual, Front, Keeps, KeepForms
<1>18. CASE VisualSwap(r) \/ SelectTextObject(r)
  <2>1. Doc.cursor \in Places
    BY DEF TypeOK, Doc, Text
  <2>. QED
    BY <1>18, <2>1, ActModes DEF VisualSwap, SelectTextObject, Front, Keeps, KeepForms
<1>19. CASE VisualOperator(r)
  BY <1>19, ActModes DEF VisualOperator, Front, Keeps, KeepForms
<1>. QED
  BY <1>1, <1>2, <1>3, <1>4, <1>5, <1>6, <1>7, <1>8, <1>9, <1>10, <1>11, <1>12, <1>13,
     <1>14, <1>15, <1>16, <1>17, <1>18, <1>19 DEF Apply

-----------------------------------------------------------------------------
(* The invariant, in the parts that actions keep for different reasons.    *)

KeysOK == /\ mode \in Modes /\ Pending(pending)
          /\ anchor \in Places \cup {None} /\ last \in Places \cup {None}
          /\ mode = "Visual" <=> anchor # None
          /\ ArmedWhereRead

FormsOK == /\ forms \subseteq Forms \cup {"Completion"}
           /\ mode \in Forms => mode \in forms
           /\ ~(Modals \subseteq forms)

TextsOK == note \in Text /\ modal \in Text

SearchOK == /\ indexed \in BOOLEAN /\ building \in BOOLEAN /\ dropped \in BOOLEAN
            /\ started \in 0..MaxBuilds /\ builds \in 0..started

LEMMA Parts == IInv <=> KeysOK /\ FormsOK /\ TextsOK /\ SearchOK
BY DEF IInv, TypeOK, ModeHasForm, KeysOK, FormsOK, TextsOK, SearchOK, Pending, Waiting

(* The steps that several actions share.                                   *)
LEMMA KeysSteps ==
  ASSUME IInv
  PROVE  /\ EnterNormal \/ EnterInsert => KeysOK'
         /\ \A m \in Modes \ {"Visual"} : EnterMode(m) /\ mode # "Visual" => KeysOK'
         /\ \A at \in Places : EnterVisual(at) => KeysOK'
         /\ ReturnFromVisual => KeysOK'
         /\ Quits => KeysOK'
<1> USE Basic, ModesAssumption DEF IInv, TypeOK, ModeHasForm
<1>1. Pending(NoPending) /\ NoPending.op = None /\ {"Normal", "Insert", "Visual"} \subseteq Modes
        /\ "DbRowDetail" \in Modes
  BY DEF Modes, Forms, Modals
<1>2. EnterNormal \/ EnterInsert => KeysOK'
  BY <1>1 DEF EnterNormal, EnterInsert, Remember, KeysOK, ArmedWhereRead
<1>3. \A m \in Modes \ {"Visual"} : EnterMode(m) /\ mode # "Visual" => KeysOK'
  BY <1>1 DEF EnterMode, KeysOK, ArmedWhereRead
<1>4. \A at \in Places : EnterVisual(at) => KeysOK'
  BY <1>1 DEF EnterVisual, KeysOK, ArmedWhereRead
<1>5. ReturnFromVisual => KeysOK'
  BY <1>1, <1>2 DEF ReturnFromVisual, KeysOK, ArmedWhereRead
<1>6. Quits => KeysOK'
  BY <1>1 DEF Quits, KeysOK, ArmedWhereRead
<1>. QED  BY <1>2, <1>3, <1>4, <1>5, <1>6

LEMMA FrontKeys ==
  ASSUME IInv, NEW r, Parsed(r), Front(r)
  PROVE  KeysOK'
<1>1. TypeOK /\ KeysOK /\ Pending(r.pending)
  BY Parts DEF IInv, Parsed
<1>2. mode \notin Reading => r.pending.op \in {None, pending.op}
  BY DEF Parsed
<1>3. mode # "Visual" => anchor = None
  BY <1>1 DEF KeysOK
<1>4. "Visual" \notin Reading \cup Forms /\ "Tree" \notin Reading
  BY DEF Reading, Forms, Modals, Lists
<1>5. CASE Keeps(r)
  <2>1. CASE Stay(r)
    <3>1. r.pending.op # None => mode \in Reading \cup {"DbConfirmRun"}
      BY <1>1, <1>2 DEF KeysOK, ArmedWhereRead
    <3>. QED  BY <1>1, <2>1, <3>1 DEF Stay, KeysOK, ArmedWhereRead
  <2>2. CASE EnterNormal \/ EnterInsert \/ ReturnFromVisual
    BY <2>2, KeysSteps
  <2>3. CASE \E at \in Places : EnterVisual(at)
    BY <2>3, KeysSteps
  <2>4. CASE mode = "Normal" /\ \E m \in {"Search", "CommandLine", "QuickOpen"} : EnterMode(m)
    BY <2>4, KeysSteps DEF Modes
  <2>5. CASE mode = "Normal" /\ FocusTree(r) /\ r.pending.op = None
    BY <1>1, <1>3, <2>5 DEF FocusTree, KeysOK, ArmedWhereRead, Modes
  <2>6. CASE /\ mode = "Visual" /\ anchor' \in Places
             /\ pending' = r.pending /\ UNCHANGED <<mode, last>>
    <3>1. r.pending.op = None /\ None \notin Places
      BY <1>1, <1>2, <1>4, <2>6, ModesAssumption DEF KeysOK, ArmedWhereRead
    <3>. QED  BY <1>1, <2>6, <3>1 DEF KeysOK, ArmedWhereRead
  <2>. QED  BY <1>5, <2>1, <2>2, <2>3, <2>4, <2>5, <2>6 DEF Keeps
<1>6. CASE Opens(r)
  <2>1. CASE \E f \in Forms : EnterMode(f) /\ mode \in Reading
    BY <1>4, <2>1, KeysSteps DEF Modes
  <2>2. CASE /\ mode \in Reading /\ mode' = "DbConfirmRun" /\ pending' = r.pending
             /\ UNCHANGED <<anchor, last>>
    BY <1>1, <1>3, <1>4, <2>2 DEF KeysOK, ArmedWhereRead, Modes, Forms
  <2>3. CASE /\ mode = "Tree" /\ mode' = "TreePrompt" /\ pending' = r.pending
             /\ UNCHANGED <<anchor, last>>
    <3>1. r.pending.op = None
      BY <1>1, <1>2, <1>4, <2>3 DEF KeysOK, ArmedWhereRead
    <3>. QED  BY <1>1, <1>3, <2>3, <3>1 DEF KeysOK, ArmedWhereRead, Modes, Forms
  <2>4. Modals \subseteq Forms /\ "Normal" \in Reading
    BY DEF Forms, Reading
  <2>. QED  BY <1>6, <2>1, <2>2, <2>3, <2>4 DEF Opens
<1>7. CASE Leaves
  <2>1. CASE EnterNormal
    BY <2>1, KeysSteps
  <2>2. CASE mode = "TreePrompt" /\ mode' = "Tree" /\ UNCHANGED <<pending, anchor, last>>
    BY <1>1, <1>3, <2>2 DEF KeysOK, ArmedWhereRead, Reading, Modals, Modes
  <2>. QED  BY <1>7, <2>1, <2>2 DEF Leaves, Leave
<1>8. CASE Quits
  BY <1>8, KeysSteps
<1>. QED  BY <1>5, <1>6, <1>7, <1>8 DEF Front

LEMMA FrontForms ==
  ASSUME IInv, NEW r, Parsed(r), Front(r)
  PROVE  FormsOK'
<1>1. FormsOK /\ mode \in Modes
  BY Parts DEF KeysOK
<1>2. {"Normal", "Insert", "Visual", "Search", "CommandLine", "QuickOpen", "Tree"}
        \cap Forms = {}
  BY DEF Forms, Modals, Lists
<1>3. "Completion" \notin Forms /\ Modals \subseteq Forms /\ Modals # {}
        /\ {"DbConfirmRun", "TreePrompt"} \subseteq Forms \ Modals
  BY DEF Forms, Modals, Lists
<1>4. CASE Keeps(r)
  <2>1. mode' = mode \/ mode' \notin Forms \/ ReturnFromVisual
    BY <1>2, <1>4 DEF Keeps, Stay, EnterNormal, EnterInsert, EnterVisual, EnterMode, FocusTree
  <2>2. forms' \in {forms, forms \cup {"Completion"}, forms \ {"Completion"}}
    BY <1>4 DEF Keeps
  <2>3. CASE mode' = mode \/ mode' \notin Forms
    BY <1>1, <1>3, <2>2, <2>3 DEF FormsOK
  <2>4. ReturnFromVisual =>
           \/ mode' \notin Forms
           \/ mode' = "DbRowDetail" /\ "DbRowDetail" \in forms
    <3>1. ReturnFromVisual =>
             \/ mode' = "Normal"
             \/ mode' = "DbRowDetail" /\ "DbRowDetail" \in forms
      BY DEF ReturnFromVisual, EnterNormal
    <3>2. "Normal" \notin Forms
      BY <1>2
    <3>. QED  BY <3>1, <3>2
  <2>5. CASE mode' = "DbRowDetail" /\ "DbRowDetail" \in forms
    <3>1. "DbRowDetail" # "Completion"
      OBVIOUS
    <3>. QED  BY <1>1, <1>3, <2>2, <2>5, <3>1 DEF FormsOK
  <2>. QED  BY <2>1, <2>3, <2>4, <2>5
<1>5. CASE Opens(r)
  <2>1. CASE \E f \in Forms \ Modals : mode' = f /\ Open(f)
    BY <1>1, <1>3, <2>1 DEF Open, FormsOK
  <2>2. CASE \E f \in Modals : mode' = f /\ Open(f) /\ ~ModalUp
    <3>1. PICK f \in Modals : mode' = f /\ Open(f)
      BY <2>2
    <3>2. \E g \in Modals : g # f
      BY DEF Modals
    <3>3. ~(Modals \subseteq forms')
      BY <2>2, <3>1, <3>2 DEF ModalUp, Open
    <3>. QED  BY <1>1, <1>3, <3>1, <3>3 DEF Open, FormsOK
  <2>. QED  BY <1>3, <1>5, <2>1, <2>2 DEF Opens, EnterMode
<1>6. CASE Leaves
  <2>1. mode' \notin Forms
    BY <1>2, <1>6 DEF Leaves, Leave, EnterNormal
  <2>. QED  BY <1>1, <1>6, <2>1 DEF Leaves, Close, FormsOK
<1>7. CASE Quits
  BY <1>2, <1>3, <1>7 DEF Quits, FormsOK
<1>. QED  BY <1>4, <1>5, <1>6, <1>7 DEF Front

-----------------------------------------------------------------------------
(* The texts.                                                              *)

LEMMA SetDocType ==
  ASSUME TypeOK, NEW c \in Places, NEW d \in BOOLEAN, SetDoc(c, d)
  PROVE  TextsOK'
<1>1. [cursor |-> c, dirty |-> d] \in Text /\ note \in Text /\ modal \in Text
  BY DEF TypeOK, Text
<1>2. [note EXCEPT !.cursor = "block"] \in Text
  BY <1>1 DEF Text, Places
<1>3. CASE ModalUp
  <2>1. note' \in {note, [note EXCEPT !.cursor = "block"]}
    BY <1>3 DEF SetDoc
  <2>2. modal' = [cursor |-> c, dirty |-> d]
    BY <1>3 DEF SetDoc
  <2>. QED  BY <1>1, <1>2, <2>1, <2>2 DEF TextsOK
<1>4. CASE ~ModalUp
  BY <1>1, <1>4 DEF SetDoc, TextsOK
<1>. QED  BY <1>3, <1>4

(* The text in front, and where its cursor may go.                         *)
LEMMA DocType ==
  ASSUME TypeOK
  PROVE  /\ Doc \in Text /\ Doc.cursor \in Places /\ Doc.dirty \in BOOLEAN
         /\ Reachable \subseteq Places /\ "block" \in Places
<1>1. Doc \in Text /\ modal.cursor \in Places
  BY DEF TypeOK, Doc, Text
<1>. QED  BY <1>1 DEF Text, Reachable, Places

LEMMA DocSteps ==
  ASSUME TypeOK
  PROVE  /\ Moved \/ Edited \/ Typed => TextsOK'
         /\ UNCHANGED texts \/ OtherNote => TextsOK'
<1>1. Moved => TextsOK'
  BY DocType, SetDocType DEF Moved
<1>2. Edited => TextsOK'
  <2>1. \A d \in {Doc.dirty, TRUE} : d \in BOOLEAN
    BY DocType
  <2>. QED  BY <2>1, DocType, SetDocType DEF Edited
<1>3. Typed => TextsOK'
  <2>1. \A d \in {Doc.dirty, TRUE} : d \in BOOLEAN
    BY DocType
  <2>. QED  BY <2>1, DocType, SetDocType DEF Typed
<1>4. UNCHANGED texts \/ OtherNote => TextsOK'
  BY DEF texts, OtherNote, TextsOK, TypeOK
<1>. QED  BY <1>1, <1>2, <1>3, <1>4

(* A text whose cursor or mark alone is set.                               *)
LEMMA TextSet ==
  ASSUME TypeOK, NEW c \in Places, NEW d \in BOOLEAN
  PROVE  /\ [note EXCEPT !.cursor = c] \in Text /\ [modal EXCEPT !.cursor = c] \in Text
         /\ [note EXCEPT !.dirty = d] \in Text /\ [cursor |-> c, dirty |-> d] \in Text
         /\ note \in Text /\ modal \in Text /\ Unread \in Text
  BY DEF TypeOK, Text, Unread, Places

LEMMA ApplyTexts ==
  ASSUME IInv, NEW r, Parsed(r), Apply(r)
  PROVE  TextsOK'
<1>1. TypeOK /\ (mode = "Visual" => anchor \in Places)
  BY DEF IInv, TypeOK, ModeHasForm
<1>2. CASE Noop(r) \/ Motion(r) \/ Insert(r) \/ Paste(r) \/ Undo(r) \/ RepeatChange(r)
             \/ SwitchTab(r) \/ NothingToRerun(r) \/ OpenForm(r) \/ NoForm(r)
             \/ NoResultDetail(r) \/ OpenContentSearch(r) \/ EnterPrompt(r) \/ TreeToggle(r)
             \/ FocusSwap(r) \/ TreeActivate(r) \/ TypeInForm(r) \/ Refuse(r)
             \/ SearchExecute(r) \/ KeepPane(r) \/ InsertChar(r) \/ InsertNewline(r)
             \/ ExitInsert(r) \/ ExitVisual(r)
  BY <1>1, <1>2, DocSteps
     DEF Noop, Motion, Insert, Paste, Undo, RepeatChange, SwitchTab, NothingToRerun,
         OpenForm, NoForm, NoResultDetail, OpenContentSearch, EnterPrompt, TreeToggle,
         FocusSwap, TreeActivate, TypeInForm, Refuse, SearchExecute, KeepPane, InsertChar,
         InsertNewline, ExitInsert, ExitVisual
<1>3. CASE Operator(r)
  BY <1>1, <1>3, DocSteps DEF Operator
<1>4. CASE JumpBlock(r) \/ RunBlock(r)
  <2>1. UNCHANGED texts \/ SetDoc("block", Doc.dirty)
    BY <1>4 DEF JumpBlock, RunBlock
  <2>. QED  BY <1>1, <2>1, DocSteps, DocType, SetDocType
<1>5. CASE Visual(r)
  BY <1>1, <1>5, DocType, SetDocType DEF Visual
<1>6. CASE ReselectVisual(r)
  <2>1. last # None => last \in Places
    BY <1>1 DEF TypeOK
  <2>2. CASE last = None
    BY <1>1, <1>6, <2>2, DocSteps DEF ReselectVisual
  <2>3. CASE last # None
    <3>1. \/ modal' = [modal EXCEPT !.cursor = last] /\ note' = note
          \/ note' = [note EXCEPT !.cursor = last] /\ modal' = modal
      BY <1>6, <2>3 DEF ReselectVisual
    <3>. QED  BY <1>1, <2>1, <2>3, <3>1, TextSet DEF TextsOK
  <2>. QED  BY <2>2, <2>3
<1>7. CASE WriteFile(r)
  <2>1. PICK failed \in BOOLEAN : note' = [note EXCEPT !.dirty = note.dirty /\ failed]
    BY <1>7 DEF WriteFile
  <2>2. (note.dirty /\ failed) \in BOOLEAN
    OBVIOUS
  <2>3. note' \in Text
    BY <1>1, <2>1, <2>2 DEF TypeOK, Text
  <2>. QED  BY <1>1, <1>7, <2>3 DEF WriteFile, TextsOK, TypeOK
<1>8. CASE OpenResultDetail(r)
  <2>1. modal' = Unread /\ note' = note /\ Unread \in Text
    BY <1>8 DEF OpenResultDetail, Unread, Text, Places
  <2>. QED  BY <1>1, <2>1 DEF TextsOK, TypeOK
<1>9. CASE TreeAsk(r)
  BY <1>1, <1>9, DocSteps DEF TreeAsk, texts
<1>10. CASE CloseForm(r)
  <2>1. Unread \in Text
    BY DEF Unread, Text, Places
  <2>. QED  BY <1>1, <1>10, <2>1 DEF CloseForm, TextsOK, TypeOK
<1>11. CASE ConfirmForm(r)
  <2>1. UNCHANGED texts \/ OtherNote \/ SetDoc("block", TRUE)
    BY <1>11 DEF ConfirmForm
  <2>. QED  BY <1>1, <2>1, DocSteps, DocType, SetDocType
<1>12. CASE Command(r)
  <2>1. [note EXCEPT !.dirty = FALSE] \in Text /\ [cursor |-> "first", dirty |-> TRUE] \in Text
          /\ modal \in Text
    BY <1>1 DEF TypeOK, Text, Places
  <2>2. CASE UNCHANGED texts \/ OtherNote \/ Moved
    BY <1>1, <2>2, DocSteps
  <2>3. CASE UNCHANGED modal /\ note' \in {[note EXCEPT !.dirty = FALSE],
                                          [cursor |-> "first", dirty |-> TRUE]}
    BY <2>1, <2>3 DEF TextsOK
  <2>. QED  BY <1>12, <2>2, <2>3 DEF Command
<1>13. CASE ClosePane(r) \/ ForceQuit(r) \/ ForceClose(r)
  <2>1. OtherNote \/ NewSession
    BY <1>13 DEF ClosePane, ForceQuit, ForceClose, PaneGone
  <2>2. NewSession => TextsOK'
    BY DEF NewSession, TextsOK, Unread, Text, Places
  <2>. QED  BY <1>1, <2>1, <2>2, DocSteps
<1>14. CASE VisualSwap(r)
  <2>1. anchor \in Places
    BY <1>1, <1>14, ActModes DEF VisualSwap
  <2>. QED  BY <1>1, <1>14, <2>1, DocType, SetDocType DEF VisualSwap
<1>15. CASE SelectTextObject(r)
  BY <1>1, <1>15, DocSteps, DocType, SetDocType DEF SelectTextObject
<1>16. CASE VisualOperator(r)
  <2>1. anchor \in Places
    BY <1>1, <1>16, ActModes DEF VisualOperator
  <2>2. CASE UNCHANGED texts \/ Moved \/ Edited
    BY <1>1, <2>2, DocSteps
  <2>3. CASE modal' = [modal EXCEPT !.cursor = anchor] /\ UNCHANGED note
    BY <1>1, <2>1, <2>3, TextSet DEF TextsOK
  <2>4. CASE \E c \in Places : /\ modal' = [modal EXCEPT !.cursor = c]
                               /\ note' = [cursor |-> c, dirty |-> TRUE]
    BY <1>1, <2>4, TextSet DEF TextsOK
  <2>. QED  BY <1>16, <2>2, <2>3, <2>4 DEF VisualOperator
<1>. QED
  BY <1>2, <1>3, <1>4, <1>5, <1>6, <1>7, <1>8, <1>9, <1>10, <1>11, <1>12, <1>13, <1>14,
     <1>15, <1>16 DEF Apply

-----------------------------------------------------------------------------
(* The index of the search, and what a close drops.                        *)

LEMMA ApplySearch ==
  ASSUME TypeOK, NEW r, Apply(r)
  PROVE  SearchOK' /\ (dropped' => ModalUp)
<1>1. SearchOK /\ MaxBuilds \in Nat
  BY ModesAssumption DEF TypeOK, SearchOK
<1>2. KeepRest => SearchOK' /\ ~dropped'
  BY <1>1 DEF KeepRest, search, SearchOK
<1>3. NewSession /\ dropped' \in BOOLEAN => SearchOK'
  <2>1. NewSession => /\ indexed' \in BOOLEAN /\ building' \in BOOLEAN
                      /\ started' = 0 /\ builds' = 0
    BY DEF NewSession
  <2>2. 0 \in 0..MaxBuilds /\ 0 \in 0..0
    BY <1>1
  <2>. QED  BY <2>1, <2>2 DEF SearchOK
<1>4. UNCHANGED search /\ dropped' \in BOOLEAN => SearchOK'
  BY <1>1 DEF search, SearchOK
<1>5. CASE OpenContentSearch(r)
  <2>1. CASE indexed
    BY <1>1, <1>5, <2>1 DEF OpenContentSearch, SearchOK
  <2>2. CASE ~indexed
    <3>1. started < MaxBuilds /\ started' = started + 1 /\ builds' = builds + 1
      BY <1>5, <2>2 DEF OpenContentSearch
    <3>2. started' \in 0..MaxBuilds /\ builds' \in 0..started'
      BY <1>1, <3>1 DEF SearchOK
    <3>3. building' = TRUE /\ indexed' = indexed /\ dropped' = FALSE
      BY <1>5, <2>2 DEF OpenContentSearch
    <3>. QED  BY <1>1, <3>2, <3>3 DEF SearchOK
  <2>. QED  BY <2>1, <2>2
<1>6. CASE CloseForm(r) \/ ConfirmForm(r)
  <2>1. (building /\ mode # "ContentSearch") \in BOOLEAN
    OBVIOUS
  <2>2. /\ building' = (building /\ mode # "ContentSearch") /\ dropped' = FALSE
        /\ UNCHANGED <<indexed, builds, started>>
    BY <1>6 DEF CloseForm, ConfirmForm
  <2>. QED  BY <1>1, <2>1, <2>2 DEF SearchOK
<1>7. CASE ClosePane(r)
  <2>1. dropped' = note.dirty /\ note.dirty \in BOOLEAN
    BY <1>7 DEF ClosePane, TypeOK, Text
  <2>2. SearchOK'
    BY <1>3, <1>4, <1>7, <2>1 DEF ClosePane, PaneGone
  <2>3. note.dirty => ~Doc.dirty
    BY <1>7 DEF ClosePane
  <2>. QED  BY <2>1, <2>2, <2>3 DEF Doc
<1>8. CASE ForceQuit(r) \/ ForceClose(r)
  BY <1>3, <1>4, <1>8 DEF ForceQuit, ForceClose, PaneGone
<1>9. CASE Noop(r) \/ Motion(r) \/ JumpBlock(r) \/ Operator(r) \/ Insert(r) \/ Paste(r)
             \/ Undo(r) \/ RepeatChange(r) \/ Visual(r) \/ ReselectVisual(r)
             \/ WriteFile(r) \/ SwitchTab(r) \/ RunBlock(r) \/ NothingToRerun(r)
             \/ OpenForm(r) \/ NoForm(r) \/ OpenResultDetail(r) \/ NoResultDetail(r)
  BY <1>2, <1>9
     DEF Noop, Motion, JumpBlock, Operator, Insert, Paste, Undo, RepeatChange, Visual,
         ReselectVisual, WriteFile, SwitchTab, RunBlock, NothingToRerun, OpenForm, NoForm,
         OpenResultDetail, NoResultDetail, KeepForms
<1>10. CASE EnterPrompt(r) \/ TreeToggle(r) \/ FocusSwap(r) \/ TreeActivate(r) \/ TreeAsk(r)
              \/ TypeInForm(r) \/ Refuse(r) \/ SearchExecute(r) \/ Command(r) \/ KeepPane(r)
              \/ InsertChar(r) \/ InsertNewline(r) \/ ExitInsert(r) \/ ExitVisual(r)
              \/ VisualSwap(r) \/ SelectTextObject(r) \/ VisualOperator(r)
  BY <1>2, <1>10
     DEF EnterPrompt, TreeToggle, FocusSwap, TreeActivate, TreeAsk, TypeInForm, Refuse,
         SearchExecute, Command, KeepPane, InsertChar, InsertNewline, ExitInsert,
         ExitVisual, VisualSwap, SelectTextObject, VisualOperator, KeepForms
<1>. QED  BY <1>5, <1>6, <1>7, <1>8, <1>9, <1>10 DEF Apply

-----------------------------------------------------------------------------
(* The invariant is inductive.                                             *)

(* The keys that do not get to the mode: the one that cancels a query and  *)
(* those of the popup.                                                     *)
Aside(k) == CancelQuery(k) \/ ForcePopup(k) \/ PopupKey(k)

LEMMA AsideSteps ==
  ASSUME IInv, NEW k, Aside(k)
  PROVE  /\ UNCHANGED <<mode, pending, anchor, last, modal, search>> /\ dropped' = FALSE
         /\ forms' \in {forms, forms \cup {"Completion"}, forms \ {"Completion"}}
         /\ note' # note => "Completion" \in forms
         /\ forms' # forms => "Completion" \in forms \/ mode = "Insert"
         /\ note' \in Text
<1>1. CASE CancelQuery(k)
  BY <1>1 DEF CancelQuery, keyboard, texts, KeepRest, IInv, TypeOK
<1>2. CASE ForcePopup(k)
  BY <1>2 DEF ForcePopup, texts, KeepRest, Open, Close, IInv, TypeOK
<1>3. CASE PopupKey(k)
  <2>1. note' \in {note, [note EXCEPT !.dirty = TRUE]}
    BY <1>3 DEF PopupKey, texts
  <2>2. [note EXCEPT !.dirty = TRUE] \in Text
    BY DEF IInv, TypeOK, Text
  <2>. QED  BY <1>3, <2>1, <2>2 DEF PopupKey, texts, KeepRest, Close, IInv, TypeOK
<1>. QED  BY <1>1, <1>2, <1>3 DEF Aside

LEMMA AsideInv ==
  ASSUME IInv, NEW k, Aside(k)
  PROVE  IInv'
<1>1. KeysOK /\ FormsOK /\ TextsOK /\ SearchOK
  BY Parts
<1>2. KeysOK'
  BY <1>1, AsideSteps DEF KeysOK, ArmedWhereRead
<1>3. FormsOK'
  <2>1. "Completion" \notin Forms /\ Modals \subseteq Forms
    BY DEF Forms, Modals, Lists
  <2>2. mode' = mode /\ forms' \in {forms, forms \cup {"Completion"}, forms \ {"Completion"}}
    BY AsideSteps
  <2>. QED  BY <1>1, <2>1, <2>2 DEF FormsOK
<1>4. TextsOK'
  BY <1>1, AsideSteps DEF TextsOK
<1>5. SearchOK'
  BY <1>1, AsideSteps DEF SearchOK, search
<1>. QED  BY <1>2, <1>3, <1>4, <1>5, Parts, PTL

(* A key that gets to the mode, with what its parser returns.              *)
LEMMA KeyParsed ==
  ASSUME IInv, HandleKey
  PROVE  (\E k : Aside(k)) \/ \E r : Parsed(r) /\ Apply(r)
<1>1. \A k \in Pressed \cap Keys : Parsed(Parse(k))
  BY ParseResult DEF IInv
<1>. QED  BY <1>1 DEF HandleKey, Aside

LEMMA InitInv == Init => IInv
<1> SUFFICES ASSUME Init PROVE IInv
  OBVIOUS
<1>1. TypeOK
  <2>1. started \in 0..MaxBuilds /\ builds \in 0..started
    BY ModesAssumption DEF Init
  <2>2. mode \in Modes /\ forms \subseteq Forms \cup {"Completion"}
    BY DEF Init, Modes
  <2>3. note \in Text /\ modal \in Text
    BY DEF Init, Unread, Text, Places
  <2>4. /\ pending \in [op : Operators \cup {None}, chord : Chords \cup {None}]
        /\ pending.op = None
    BY DEF Init, NoPending
  <2>5. /\ indexed \in BOOLEAN /\ building \in BOOLEAN /\ dropped \in BOOLEAN
        /\ anchor \in Places \cup {None} /\ last \in Places \cup {None}
    BY DEF Init
  <2>. QED  BY <2>1, <2>2, <2>3, <2>4, <2>5 DEF TypeOK
<1>2. ModeHasForm /\ ArmedWhereRead
  BY DEF Init, ModeHasForm, ArmedWhereRead, NoPending, Forms, Modals, Lists
<1>. QED  BY <1>1, <1>2 DEF IInv

LEMMA NextInv == IInv /\ [Next]_vars => IInv'
<1> SUFFICES ASSUME IInv, [Next]_vars
             PROVE  IInv'
  OBVIOUS
<1>1. KeysOK /\ FormsOK /\ TextsOK /\ SearchOK
  BY Parts
<1>2. CASE HandleKey
  <2>1. ASSUME NEW k, Aside(k)
        PROVE  IInv'
    BY <2>1, AsideInv
  <2>2. ASSUME NEW r, Parsed(r), Apply(r)
        PROVE  IInv'
    <3>1. TypeOK
      BY DEF IInv
    <3>2. Front(r)
      BY <2>2, <3>1, ApplyFront
    <3>3. KeysOK' /\ FormsOK'
      BY <2>2, <3>2, FrontKeys, FrontForms
    <3>4. TextsOK' /\ SearchOK'
      BY <2>2, <3>1, ApplyTexts, ApplySearch
    <3>. QED  BY <3>3, <3>4, Parts, PTL
  <2>. QED  BY <1>2, <2>1, <2>2, KeyParsed
<1>3. CASE BuildEnded
  <2>1. TextsOK'
    BY <1>1, <1>3 DEF BuildEnded, texts, TextsOK
  <2>2. SearchOK'
    <3>1. builds' \in 0..started' /\ started' \in 0..MaxBuilds
      BY <1>1, <1>3, ModesAssumption DEF BuildEnded, SearchOK
    <3>2. indexed' \in BOOLEAN /\ building' \in BOOLEAN /\ dropped' \in BOOLEAN
      BY <1>1, <1>3 DEF BuildEnded, SearchOK
    <3>. QED  BY <3>1, <3>2 DEF SearchOK
  <2>3. CASE UNCHANGED <<mode, pending, anchor, last, forms>>
    <3>1. KeysOK' /\ FormsOK'
      BY <1>1, <2>3 DEF KeysOK, FormsOK, ArmedWhereRead
    <3>. QED  BY <2>1, <2>2, <3>1, Parts, PTL
  <2>4. CASE Close("ContentSearch") /\ EnterNormal
    <3>1. KeysOK'
      BY <2>4, KeysSteps
    <3>2. FormsOK'
      BY <1>1, <2>4 DEF FormsOK, Close, EnterNormal, Forms, Modals, Lists
    <3>. QED  BY <2>1, <2>2, <3>1, <3>2, Parts, PTL
  <2>. QED  BY <1>3, <2>3, <2>4 DEF BuildEnded
<1>4. CASE FileChanged
  <2>1. note' \in Text
    BY <1>1, <1>4 DEF FileChanged, TextsOK, Text, Places
  <2>2. KeysOK' /\ FormsOK' /\ TextsOK'
    BY <1>1, <1>4, <2>1 DEF FileChanged, keyboard, KeysOK, FormsOK, ArmedWhereRead, TextsOK
  <2>3. SearchOK'
    BY <1>1, <1>4 DEF FileChanged, KeepRest, search, SearchOK
  <2>. QED  BY <2>2, <2>3, Parts, PTL
<1>5. CASE UNCHANGED vars
  <2>1. KeysOK' /\ FormsOK' /\ TextsOK'
    BY <1>1, <1>5 DEF vars, keyboard, texts, KeysOK, FormsOK, ArmedWhereRead, TextsOK
  <2>2. SearchOK'
    BY <1>1, <1>5 DEF vars, search, SearchOK
  <2>. QED  BY <2>1, <2>2, Parts, PTL
<1>. QED  BY <1>2, <1>3, <1>4, <1>5 DEF Next

LEMMA Invariance == Spec => []IInv
BY InitInv, NextInv, PTL DEF Spec

(* Every variable of the keyboard keeps its type; no operator waits with a *)
(* chord that takes none (parse_normal).                                   *)
THEOREM TypeCorrect == Spec => []TypeOK
<1>1. IInv => TypeOK
  BY DEF IInv
<1>. QED  BY <1>1, Invariance, PTL

(* The mode of a form has its form, visual mode and no other an anchor,    *)
(* and one modal at most is up, whatever keys, builds and changes of the   *)
(* file there are.                                                         *)
THEOREM ModeHasFormHolds == Spec => []ModeHasForm
<1>1. IInv => ModeHasForm
  BY DEF IInv
<1>. QED  BY <1>1, Invariance, PTL

-----------------------------------------------------------------------------
(* What a step may not do.                                                 *)

(* Every step is one of these.                                             *)
LEMMA Steps ==
  ASSUME IInv, [Next]_vars
  PROVE  \/ \E k : Aside(k)
         \/ \E r : Parsed(r) /\ Apply(r) /\ Front(r)
         \/ BuildEnded \/ FileChanged \/ UNCHANGED vars
<1>1. ASSUME HandleKey
      PROVE  (\E j : Aside(j)) \/ \E r : Parsed(r) /\ Apply(r) /\ Front(r)
  BY <1>1, KeyParsed, ApplyFront DEF IInv
<1>. QED  BY <1>1 DEF Next

(* A close without force drops unsaved text only while a modal is up, with *)
(* any number of panes and tabs (quit_or_close, close_focused_pane).       *)
THEOREM DropsOnlyUnderModalHolds == Spec => DropsOnlyUnderModal
<1>1. IInv /\ [Next]_vars => [dropped' => ModalUp]_vars
  <2> SUFFICES ASSUME IInv, [Next]_vars, vars' # vars
               PROVE  dropped' => ModalUp
    OBVIOUS
  <2>1. ASSUME NEW k, Aside(k)
        PROVE  dropped' => ModalUp
    BY <2>1, AsideSteps
  <2>2. ASSUME NEW r, Apply(r)
        PROVE  dropped' => ModalUp
    BY <2>2, ApplySearch DEF IInv
  <2>3. CASE BuildEnded
    BY <2>3 DEF BuildEnded
  <2>4. CASE FileChanged
    BY <2>4 DEF FileChanged, KeepRest
  <2>. QED  BY <2>1, <2>2, <2>3, <2>4, Steps
<1>. QED  BY <1>1, InitInv, NextInv, PTL DEF Spec, DropsOnlyUnderModal

(* Of the keys, only those that a modal takes lead away from an open form. *)
LEMMA FrontKeepsForm ==
  ASSUME NEW r, Front(r), NEW f \in Forms, mode = f, mode' # f, f \in forms, f \in forms'
  PROVE  f \in Modals /\ (mode' \in {"Visual", "ContentSearch"} \/ modal.dirty)
<1>1. f \notin {"Normal", "Visual", "Tree"}
  BY DEF Forms, Modals, Lists
<1>2. f \in Reading => f \in Modals /\ ModalUp
  BY <1>1 DEF Reading, ModalUp
<1>3. CASE Keeps(r)
  <2>1. mode \in Reading /\ mode' = "Visual"
    BY <1>1, <1>3 DEF Keeps, Stay, EnterVisual
  <2>. QED  BY <1>2, <2>1
<1>4. CASE Opens(r)
  <2>1. mode \in Modals /\ (mode' = "ContentSearch" \/ HasBlocks)
    BY <1>1, <1>2, <1>4 DEF Opens, EnterMode
  <2>. QED  BY <1>2, <2>1 DEF HasBlocks, Reading
<1>5. CASE Leaves
  BY <1>5 DEF Leaves, Close
<1>6. CASE Quits
  BY <1>6 DEF Quits
<1>. QED  BY <1>3, <1>4, <1>5, <1>6 DEF Front

(* A form that stays open keeps the keys, but for a failed build and for   *)
(* what may be opened over a modal (apply_action, handle_index_built).     *)
THEOREM FormKeepsModeHolds == Spec => FormKeepsMode
<1>1. IInv /\ [Next]_vars =>
        [\A f \in Forms :
           /\ mode = f /\ mode' # f /\ f \in forms /\ f \in forms'
           => \/ builds' < builds /\ mode' = "Normal"
              \/ f \in Modals /\ (mode' \in {"Visual", "ContentSearch"} \/ modal.dirty)]_vars
  <2> SUFFICES ASSUME IInv, [Next]_vars, NEW f \in Forms, mode = f, mode' # f,
                      f \in forms, f \in forms'
               PROVE  \/ builds' < builds /\ mode' = "Normal"
                      \/ f \in Modals /\ (mode' \in {"Visual", "ContentSearch"} \/ modal.dirty)
    OBVIOUS
  <2>1. ASSUME NEW k, Aside(k)
        PROVE  FALSE
    BY <2>1, AsideSteps
  <2>2. CASE BuildEnded
    <3>1. builds \in Nat
      BY ModesAssumption DEF IInv, TypeOK
    <3>2. builds' = builds - 1
      BY <2>2 DEF BuildEnded
    <3>3. builds' < builds
      BY <3>1, <3>2
    <3>4. mode' = "Normal"
      BY <2>2 DEF BuildEnded, EnterNormal
    <3>. QED  BY <3>3, <3>4
  <2>3. CASE FileChanged \/ UNCHANGED vars
    BY <2>3 DEF FileChanged, keyboard, vars
  <2>. QED  BY <2>1, <2>2, <2>3, Steps, FrontKeepsForm
<1>. QED  BY <1>1, InitInv, NextInv, PTL DEF Spec, FormKeepsMode

(* A key that leaves an operator waiting is read where operators are, and  *)
(* leaves it as its parser has it.                                         *)
LEMMA FrontArmed ==
  ASSUME IInv, NEW r, Parsed(r), Front(r), pending.op # None, pending'.op # None
  PROVE  pending' = r.pending /\ mode \in Reading \cup {"DbConfirmRun"}
<1>1. mode \in Reading \cup {"DbConfirmRun"} /\ NoPending.op = None
  BY DEF IInv, ArmedWhereRead, NoPending
<1>2. mode \notin {"Visual", "Tree", "TreePrompt"}
  BY <1>1 DEF Reading, Modals
<1>3. pending' # NoPending
  BY <1>1
<1>4. CASE Keeps(r)
  BY <1>1, <1>2, <1>3, <1>4
     DEF Keeps, Stay, EnterNormal, EnterInsert, EnterVisual, EnterMode, FocusTree
<1>5. CASE Opens(r)
  BY <1>2, <1>3, <1>5 DEF Opens, EnterMode
<1>6. CASE Leaves \/ Quits
  BY <1>2, <1>3, <1>6 DEF Leaves, Leave, EnterNormal, Quits
<1>. QED  BY <1>1, <1>4, <1>5, <1>6 DEF Front

(* What is done where nothing was found, and where a form closes.          *)
LEMMA IdleSteps ==
  ASSUME TypeOK, NEW r, Parsed(r), Apply(r),
         \/ mode \in Reading /\ r.act \in {"Noop", "Close"}
         \/ mode = "DbConfirmRun"
  PROVE  UNCHANGED <<mode, forms, note, modal>> \/ Leave
<1>1. r.act \in PromptActs /\ mode \notin {"CommandLine", "Search"}
  BY DEF Parsed, PromptActs, Reading, Modals
<1>2. Noop(r) \/ TypeInForm(r) \/ Refuse(r) \/ CloseForm(r) \/ ConfirmForm(r)
  <2>1. r.act \notin OperatorActs \cup OnBlock \cup Anywhere
          \cup {"Motion", "SearchRepeat", "JumpBlock", "EnterInsert", "Paste", "Undo",
                "RepeatChange", "EnterVisual", "ReselectVisual", "WriteFile", "WriteAll",
                "SwitchTab", "Window", "RunBlock", "RerunLastBlock", "OpenResultDetail",
                "OpenContentSearch", "EnterSearch", "EnterCmdline", "EnterQuickOpen",
                "TreeToggle", "FocusSwap", "TreeActivate", "TreeAsk", "WindowClose",
                "Quit", "InsertChar", "InsertNewline", "ExitInsert", "ExitVisual",
                "VisualSwap", "SelectTextObject", "VisualOperator"}
    BY <1>1 DEF PromptActs, OperatorActs, OnBlock, Anywhere
  <2>2. ~(Motion(r) \/ JumpBlock(r) \/ Operator(r) \/ Insert(r) \/ Paste(r) \/ Undo(r)
          \/ RepeatChange(r) \/ Visual(r) \/ ReselectVisual(r) \/ WriteFile(r)
          \/ SwitchTab(r) \/ RunBlock(r) \/ NothingToRerun(r))
    BY <2>1 DEF Motion, JumpBlock, Operator, Insert, Paste, Undo, RepeatChange, Visual,
                ReselectVisual, WriteFile, SwitchTab, RunBlock, NothingToRerun, OperatorActs
  <2>3. ~(OpenForm(r) \/ NoForm(r) \/ OpenResultDetail(r) \/ NoResultDetail(r)
          \/ OpenContentSearch(r) \/ EnterPrompt(r) \/ TreeToggle(r) \/ FocusSwap(r)
          \/ TreeActivate(r) \/ TreeAsk(r))
    BY <2>1 DEF OpenForm, NoForm, OpenResultDetail, NoResultDetail, OpenContentSearch,
                EnterPrompt, TreeToggle, FocusSwap, TreeActivate, TreeAsk
  <2>4. ~(SearchExecute(r) \/ Command(r) \/ ClosePane(r) \/ KeepPane(r) \/ ForceQuit(r)
          \/ ForceClose(r))
    BY <1>1, <2>1 DEF SearchExecute, Command, ClosePane, Closing, KeepPane, ForceQuit, ForceClose
  <2>5. ~(InsertChar(r) \/ InsertNewline(r) \/ ExitInsert(r) \/ ExitVisual(r)
          \/ VisualSwap(r) \/ SelectTextObject(r) \/ VisualOperator(r))
    BY <2>1 DEF InsertChar, InsertNewline, ExitInsert, ExitVisual, VisualSwap,
                SelectTextObject, VisualOperator
  <2>. QED  BY <2>2, <2>3, <2>4, <2>5 DEF Apply
<1>3. CASE Noop(r) \/ TypeInForm(r) \/ Refuse(r)
  BY <1>3 DEF Noop, TypeInForm, Refuse, Stay, texts, KeepForms
<1>4. CASE CloseForm(r) \/ ConfirmForm(r)
  BY <1>4 DEF CloseForm, ConfirmForm
<1>. QED  BY <1>2, <1>3, <1>4

(* What follows an operator spends it, unless the two were the beginning   *)
(* of a chord of g or a failed build left the popup open (parse_normal,    *)
(* is_blocked_in_modal, parse_completion_popup_key).                       *)
THEOREM OperatorSpentHolds == Spec => OperatorSpent
<1>1. IInv /\ [Next]_vars =>
        [/\ pending.op # None /\ pending'.op # None
         /\ <<mode, forms, note.dirty, modal.dirty>>
              # <<mode', forms', note'.dirty, modal'.dirty>>
         => pending.chord = "g" \/ "Completion" \in forms]_vars
  <2> SUFFICES ASSUME IInv, [Next]_vars, pending.op # None, pending'.op # None,
                      pending.chord # "g", "Completion" \notin forms
               PROVE  /\ mode' = mode /\ forms' = forms
                      /\ note'.dirty = note.dirty /\ modal'.dirty = modal.dirty
    OBVIOUS
  <2>0. mode \in Reading \cup {"DbConfirmRun"} /\ mode # "Insert" /\ mode # "TreePrompt"
          /\ pending' # NoPending
    BY DEF IInv, ArmedWhereRead, Reading, Modals, NoPending
  <2>1. ASSUME NEW k, Aside(k)
        PROVE  UNCHANGED <<mode, forms, note, modal>>
    BY <2>0, <2>1, AsideSteps
  <2>2. ASSUME NEW r, Parsed(r), Apply(r), Front(r)
        PROVE  UNCHANGED <<mode, forms, note, modal>>
    <3>1. pending' = r.pending
      BY <2>2, FrontArmed
    <3>2. mode \in Reading => r.act \in {"Noop", "Close"}
      BY <2>2, <3>1 DEF Parsed, NormalResult, Reading
    <3>3. UNCHANGED <<mode, forms, note, modal>> \/ Leave
      BY <2>0, <2>2, <3>2, IdleSteps DEF IInv
    <3>. QED  BY <2>0, <3>3 DEF Leave, EnterNormal
  <2>3. CASE BuildEnded
    BY <2>0, <2>3 DEF BuildEnded, EnterNormal, texts
  <2>4. CASE FileChanged
    <3>1. [note EXCEPT !.cursor = "first"].dirty = note.dirty
      BY DEF IInv, TypeOK, Text
    <3>. QED  BY <2>4, <3>1 DEF FileChanged, keyboard
  <2>5. CASE UNCHANGED vars
    BY <2>5 DEF vars, keyboard, texts
  <2>. QED  BY <2>1, <2>2, <2>3, <2>4, <2>5, Steps
<1>. QED  BY <1>1, InitInv, NextInv, PTL DEF Spec, OperatorSpent

(* A modal whose cursor is in its prose lets nothing through to the note.  *)
LEMMA SetDocBehind ==
  ASSUME ModalUp, modal.cursor = "first"
  PROVE  /\ \A c, d : SetDoc(c, d) => note' = note
         /\ Moved \/ Edited \/ Typed => note' = note
<1>1. ASSUME NEW c, NEW d, SetDoc(c, d)
      PROVE  note' = note
  <2>1. note' \in {note} \cup {[note EXCEPT !.cursor = "block"] :
                                x \in {modal.cursor} \cap {"block"}}
    BY <1>1 DEF SetDoc
  <2>2. {modal.cursor} \cap {"block"} = {}
    OBVIOUS
  <2>. QED  BY <2>1, <2>2
<1>. QED  BY <1>1 DEF Moved, Edited, Typed

LEMMA ApplyBehind ==
  ASSUME IInv, NEW r, Parsed(r), Apply(r), ModalUp,
         mode \in Modals \cup {"Visual", "Insert"}, ~Foreign
  PROVE  note' = note \/ WriteFile(r)
<1>1. modal.cursor = "first" /\ (mode = "Visual" => anchor = "first") /\ Doc = modal
  BY DEF Foreign, IInv, ModeHasForm, Doc
<1>2. mode \notin {"Normal", "Tree"}
  BY DEF Modals
<1>3. CASE Noop(r) \/ Motion(r) \/ JumpBlock(r) \/ Operator(r) \/ Insert(r) \/ Paste(r)
             \/ Undo(r) \/ RepeatChange(r) \/ Visual(r) \/ RunBlock(r) \/ NothingToRerun(r)
             \/ OpenForm(r) \/ NoForm(r) \/ NoResultDetail(r) \/ OpenContentSearch(r)
             \/ EnterPrompt(r) \/ TreeToggle(r) \/ FocusSwap(r)
  BY <1>1, <1>3, SetDocBehind
     DEF Noop, Motion, JumpBlock, Operator, Insert, Paste, Undo, RepeatChange, Visual,
         RunBlock, NothingToRerun, OpenForm, NoForm, NoResultDetail, OpenContentSearch,
         EnterPrompt, TreeToggle, FocusSwap, texts
<1>4. CASE ReselectVisual(r)
  BY <1>4 DEF ReselectVisual, texts
<1>5. CASE OpenResultDetail(r) \/ TreeAsk(r) \/ CloseForm(r) \/ TypeInForm(r) \/ Refuse(r)
             \/ KeepPane(r)
  BY <1>5 DEF OpenResultDetail, TreeAsk, CloseForm, TypeInForm, Refuse, KeepPane, texts
<1>6. CASE InsertChar(r) \/ InsertNewline(r) \/ ExitInsert(r) \/ ExitVisual(r)
             \/ VisualSwap(r) \/ SelectTextObject(r)
  BY <1>1, <1>6, SetDocBehind
     DEF InsertChar, InsertNewline, ExitInsert, ExitVisual, VisualSwap, SelectTextObject, texts
<1>7. CASE VisualOperator(r)
  <2>1. ~CrossSegment
    BY <1>1, <1>7, ActModes DEF VisualOperator, CrossSegment
  <2>2. Moved \/ Edited
    BY <1>7, <2>1 DEF VisualOperator
  <2>. QED  BY <1>1, <2>2, SetDocBehind
<1>8. CASE SwitchTab(r) \/ TreeActivate(r) \/ ConfirmForm(r) \/ SearchExecute(r) \/ Command(r)
             \/ ClosePane(r) \/ ForceQuit(r) \/ ForceClose(r)
  <2>1. r.act \in {"SwitchTab", "Window", "TreeActivate", "Confirm", "WindowClose", "Quit"}
    BY <1>8 DEF SwitchTab, TreeActivate, ConfirmForm, SearchExecute, Command, ClosePane,
                Closing, ForceQuit, ForceClose
  <2>. QED  BY <1>2, <2>1, ActModes
<1>. QED  BY <1>3, <1>4, <1>5, <1>6, <1>7, <1>8 DEF Apply

(* While a modal is up no key marks the note, unless a cursor that is not  *)
(* in the prose of the modal, or the popup, got there (document_mut).      *)
THEOREM NoteKeptUnderModalHolds == Spec => NoteKeptUnderModal
<1>1. IInv /\ [Next]_vars =>
        [/\ ModalUp /\ mode \in Modals \cup {"Visual", "Insert"}
         /\ ~Foreign /\ "Completion" \notin forms
         /\ note'.dirty
         => note.dirty]_vars
  <2> SUFFICES ASSUME IInv, [Next]_vars, ModalUp, mode \in Modals \cup {"Visual", "Insert"},
                      ~Foreign, "Completion" \notin forms, note'.dirty
               PROVE  note.dirty
    OBVIOUS
  <2>1. ASSUME NEW k, Aside(k)
        PROVE  note.dirty
    BY <2>1, AsideSteps
  <2>2. ASSUME NEW r, Parsed(r), Apply(r)
        PROVE  note.dirty
    <3>1. CASE note' = note
      BY <3>1
    <3>2. CASE WriteFile(r)
      <4>1. PICK failed \in BOOLEAN : note' = [note EXCEPT !.dirty = note.dirty /\ failed]
        BY <3>2 DEF WriteFile
      <4>2. note'.dirty = (note.dirty /\ failed)
        BY <4>1 DEF IInv, TypeOK, Text
      <4>. QED  BY <4>2
    <3>. QED  BY <2>2, <3>1, <3>2, ApplyBehind
  <2>3. CASE BuildEnded \/ UNCHANGED vars
    BY <2>3 DEF BuildEnded, vars, texts
  <2>4. CASE FileChanged
    <3>1. [note EXCEPT !.cursor = "first"].dirty = note.dirty
      BY DEF IInv, TypeOK, Text
    <3>. QED  BY <2>4, <3>1 DEF FileChanged
  <2>. QED  BY <2>1, <2>2, <2>3, <2>4, Steps
<1>. QED  BY <1>1, InitInv, NextInv, PTL DEF Spec, NoteKeptUnderModal
=============================================================================
