---------------------------- MODULE TuiDocument ----------------------------
(***************************************************************************)
(* A note in the terminal editor: the list of prose and block segments     *)
(* (buffer/document.rs), the vim commands that change it, among them the   *)
(* swap that lets them treat a block as prose (InBlockSwap), the forms     *)
(* that change the fields of a block, undo and redo, and the file with its *)
(* watcher.                                                                *)
(*                                                                         *)
(* A text is a sequence of lines; within a line nothing is told apart.     *)
(* The position of the cursor in its segment is left open: a command that  *)
(* depends on it may act on any line of the segment.                       *)
(***************************************************************************)
EXTENDS Naturals, FiniteSets, SequencesExt

CONSTANTS Words,      \* lines that are not part of a fence
          Headers,    \* opening lines of fences of known block types
          Fence,      \* the closing line of a fence
          Texts,      \* what other programs write to the file
          Capacity,   \* capacity of the undo stack
          MaxLines,   \* bound: lines of the note
          MaxEdits    \* bound: commands but for motions and writes, and writes of others

Line == Words \cup Headers \cup {Fence}

ASSUME DocumentAssumption == /\ Fence \notin Headers
                             /\ Texts # {} /\ Texts \subseteq Seq(Line)
                             /\ Capacity \in Nat \ {0}
                             /\ MaxLines \in Nat
                             /\ MaxEdits \in Nat

-----------------------------------------------------------------------------
(* Segments.  The text that a block is saved as comes from its fields (the *)
(* type, alias, display mode and parameters, here in the canonical form    *)
(* that serialize_block gives them); the text that is edited is its raw.   *)

Prose(text) == [kind |-> "prose", raw |-> text, fields |-> <<>>]
Block(text, fields) == [kind |-> "block", raw |-> text, fields |-> fields]

SegmentText(s) == IF s.kind = "prose" THEN s.raw ELSE s.fields

(* to_markdown.                                                            *)
Text(segs) == FlattenSeq([i \in DOMAIN segs |-> SegmentText(segs[i])])

(* parse_blocks: a header starts a block unless it is in one already, and  *)
(* the block goes on to the next closing line, if there is one.            *)
Starts(text) ==
  {i \in DOMAIN text :
     /\ text[i] \in Headers
     /\ \A j \in 1..(i - 1) :
          text[j] \in Headers => \E k \in (j + 1)..(i - 1) : text[k] = Fence}

Ends(text, i) == {k \in (i + 1)..Len(text) : text[k] = Fence}

End(text, i) == CHOOSE k \in Ends(text, i) : \A m \in Ends(text, i) : k <= m

(* What the fields of the block at i serialize to.                         *)
Canonical(text, i) ==
  IF Ends(text, i) = {} THEN Append(SubSeq(text, i, Len(text)), Fence)
                        ELSE SubSeq(text, i, End(text, i))

(* A block without its closing line ends after the last line of the text,  *)
(* and taking the lines up to that end panics.                             *)
Panics(text) == \E i \in Starts(text) : Ends(text, i) = {}

(* from_markdown: blocks, and between them prose, which may be empty.      *)
FromMarkdown(text) ==
  LET n == Cardinality(Starts(text))
      start(b) == CHOOSE i \in Starts(text) : Cardinality(Starts(text) \cap 1..i) = b
      from(b)  == IF b = 0 THEN 1 ELSE End(text, start(b)) + 1
      upTo(b)  == IF b = n THEN Len(text) ELSE start(b + 1) - 1
  IN [m \in 1..(2 * n + 1) |->
        LET b == m \div 2
        IN IF m % 2 = 1 THEN Prose(SubSeq(text, from(b), upTo(b)))
                        ELSE Block(SubSeq(text, start(b), End(text, start(b))),
                                   Canonical(text, start(b)))]

(* A text that is one block, and nothing else.                             *)
IsBlockText(text) == /\ Starts(text) = {1}
                     /\ Ends(text, 1) # {} /\ End(text, 1) = Len(text)

(* reparse_from_raw: a raw that is not exactly one block leaves the fields *)
(* as they were.                                                           *)
ReparseFromRaw(b) ==
  IF \E i \in DOMAIN b.raw : Starts(b.raw) = {i}
    THEN [b EXCEPT !.fields = Canonical(b.raw, CHOOSE i \in Starts(b.raw) : TRUE)]
    ELSE b

IsBlock(segs, i) == i \in DOMAIN segs /\ segs[i].kind = "block"
IsProse(segs, i) == i \in DOMAIN segs /\ segs[i].kind = "prose"

(* Mutant: only the two ends of the note are padded.                       *)
PadEndsOnly(segs) ==
  (IF IsBlock(segs, 1) THEN <<Prose(<<>>)>> ELSE <<>>)
    \o segs \o (IF IsBlock(segs, Len(segs)) THEN <<Prose(<<>>)>> ELSE <<>>)

(* pad_with_prose.                                                         *)
PadWithProse(segs) ==
  FlattenSeq([i \in DOMAIN segs |->
                IF IsBlock(segs, i) /\ ~IsProse(segs, i - 1)
                  THEN <<Prose(<<>>), segs[i]>> ELSE <<segs[i]>>])
    \o (IF IsBlock(segs, Len(segs)) THEN <<Prose(<<>>)>> ELSE <<>>)

-----------------------------------------------------------------------------
(* A document: its segments, and the segment of its cursor.  On the result *)
(* of a block the cursor is of a kind of its own.                          *)

InProse(i)       == [kind |-> "prose", seg |-> i]
InBlock(i)       == [kind |-> "block", seg |-> i]
InBlockResult(i) == [kind |-> "result", seg |-> i]

At(segs, i) == IF segs[i].kind = "prose" THEN InProse(i) ELSE InBlock(i)

Document(segs, cursor) == [segs |-> segs, cursor |-> cursor]

Load(text) == Document(FromMarkdown(text), InProse(1))

WithRaw(d, i, text) == [d EXCEPT !.segs[i].raw = text]

WithoutEmptyProse(segs) ==
  FlattenSeq([i \in DOMAIN segs |->
                IF IsProse(segs, i) /\ segs[i].raw = <<>> THEN <<>> ELSE <<segs[i]>>])

(* reparse_prose_at: the blocks of a prose are spliced in, and the cursor  *)
(* goes to the next prose.                                                 *)
ReparseProseAt(d, i) ==
  IF Starts(d.segs[i].raw) = {} THEN d
  ELSE LET parsed == WithoutEmptyProse(FromMarkdown(d.segs[i].raw))
           segs == PadWithProse(SubSeq(d.segs, 1, i - 1) \o parsed
                                  \o SubSeq(d.segs, i + 1, Len(d.segs)))
           next == CHOOSE k \in i..Len(segs) :
                     segs[k].kind = "prose" /\ \A m \in i..(k - 1) : segs[m].kind = "block"
       IN Document(segs, InProse(next))

(* delete_block_at: prose on both sides of the block becomes one prose.    *)
DeleteBlockAt(d, i) ==
  LET joined == Prose(d.segs[i - 1].raw \o d.segs[i + 1].raw)
      segs   == SubSeq(d.segs, 1, i - 2) \o <<joined>> \o SubSeq(d.segs, i + 2, Len(d.segs))
  IN IF IsProse(d.segs, i - 1) /\ IsProse(d.segs, i + 1)
       THEN Document(PadWithProse(segs), InProse(i - 1))
       ELSE LET rest == PadWithProse(RemoveAt(d.segs, i))
                near == IF IsProse(d.segs, i - 1) THEN i - 1 ELSE i
            IN Document(rest, InProse(IF IsProse(rest, near) THEN near ELSE 1))

(* InBlockSwap: the block under the cursor becomes prose with its raw as   *)
(* text (maybe_enter), the command runs, and whatever prose is then at the *)
(* index becomes the block again (exit); if there is none, the block is    *)
(* put there as it was.                                                    *)
Entered(d) ==
  IF d.cursor.kind # "block" THEN d
  ELSE Document([d.segs EXCEPT ![d.cursor.seg] = Prose(@.raw)], InProse(d.cursor.seg))

(* Mutant: the fields are not derived from the raw again.                  *)
ExitedStale(d, done) ==
  LET i   == d.cursor.seg
      raw == IF IsProse(done.segs, i) THEN done.segs[i].raw ELSE d.segs[i].raw
  IN IF d.cursor.kind # "block" \/ i \notin DOMAIN done.segs THEN done
     ELSE Document([done.segs EXCEPT ![i] = [d.segs[i] EXCEPT !.raw = raw]],
                   IF done.cursor = InProse(i) THEN InBlock(i) ELSE done.cursor)

Exited(d, done) ==
  LET i   == d.cursor.seg
      raw == IF IsProse(done.segs, i) THEN done.segs[i].raw ELSE d.segs[i].raw
  IN IF d.cursor.kind # "block" \/ i \notin DOMAIN done.segs THEN done
     ELSE Document([done.segs EXCEPT ![i] = ReparseFromRaw([d.segs[i] EXCEPT !.raw = raw])],
                   IF done.cursor = InProse(i) THEN InBlock(i) ELSE done.cursor)

-----------------------------------------------------------------------------
VARIABLES
  doc,       \* the segments and the cursor
  dirty,     \* Document::dirty
  past,      \* UndoStack::past, oldest first
  future,    \* UndoStack::future, oldest first
  mode,      \* "normal", "insert", "visual", or "form": a form is open
  anchor,    \* the segment where the selection starts, or of the form, or 0
  register,  \* the unnamed register
  disk,      \* the text of the file
  changed,   \* a change of the file is to be handled
  crashed,   \* the program has panicked
  edits,     \* number of steps so far that MaxEdits bounds
  saved,     \* history: the text last loaded or written
  base,      \* history: the text that undoing every change should give
  lost       \* history: why it may not: the stack was full ("capacity"), an
             \* exit from a swap hit another segment than a prose between two
             \* proses ("slot") or one whose text is not that of a block ("text"),
             \* or a reload came in insert mode, after its snapshot ("reload");
             \* and "form" if a form has changed the fields of a block

undoVars  == <<past, future>>
fileVars  == <<disk, changed>>
histVars  == <<saved, base, lost>>
vars == <<doc, dirty, undoVars, mode, anchor, register, fileVars, crashed, edits, histVars>>

Segment == [kind : {"prose", "block"}, raw : Seq(Line), fields : Seq(Line)]

IsDocument(d) ==
  /\ d.segs \in Seq(Segment)
  /\ d.cursor.kind \in {"prose", "block", "result"}
  /\ d.cursor.seg \in DOMAIN d.segs

TypeOK ==
  /\ IsDocument(doc)
  /\ dirty \in BOOLEAN
  /\ Len(past) <= Capacity /\ \A i \in DOMAIN past : IsDocument(past[i])
  /\ \A i \in DOMAIN future : IsDocument(future[i])
  /\ mode \in {"normal", "insert", "visual", "form"}
  /\ anchor \in Nat
  /\ register \in Seq(Line)
  /\ disk \in Seq(Line)
  /\ changed \in BOOLEAN
  /\ crashed \in BOOLEAN
  /\ edits \in 0..MaxEdits
  /\ saved \in Seq(Line)
  /\ base \in Seq(Line)
  /\ lost \subseteq {"capacity", "slot", "text", "reload", "form"}

Init ==
  /\ disk \in {text \in Texts : ~Panics(text)}
  /\ doc = Load(disk)
  /\ dirty = FALSE
  /\ past = <<>>
  /\ future = <<>>
  /\ mode = "normal"
  /\ anchor = 0
  /\ register = <<>>
  /\ changed = FALSE
  /\ crashed = FALSE
  /\ edits = 0
  /\ saved = disk
  /\ base = disk
  /\ lost = {}
-----------------------------------------------------------------------------
Cursor == doc.cursor
Here   == doc.segs[Cursor.seg]

(* The cursor names a segment of its own kind (a cursor for prose does     *)
(* nothing on a block).                                                    *)
OnText == Cursor = At(doc.segs, Cursor.seg)

Panic ==
  /\ crashed' = TRUE
  /\ UNCHANGED <<doc, dirty, undoVars, mode, anchor, register, fileVars, edits, histVars>>

(* The bounds.                                                             *)
Room(n)   == Len(FlattenSeq([i \in DOMAIN doc.segs |-> doc.segs[i].raw])) + n <= MaxLines
MayEdit   == ~crashed /\ edits < MaxEdits
CountEdit == edits' = edits + 1

(* Mutant: the stack has no capacity.                                      *)
SnapshotUnbounded(d) == past' = Append(past, d) /\ future' = <<>>

(* Mutant: nothing is remembered of a clean note, which is on disk.        *)
SnapshotWhenDirty(d) ==
  /\ past' = IF dirty THEN Append(IF Len(past) = Capacity THEN Tail(past) ELSE past, d) ELSE past
  /\ future' = <<>>

(* snapshot().                                                             *)
Snapshot(d) ==
  /\ past' = Append(IF Len(past) = Capacity THEN Tail(past) ELSE past, d)
  /\ future' = <<>>

Forgotten == IF Len(past) = Capacity THEN {"capacity"} ELSE {}

(* The command is over, with the block, if it was in one, swapped back;    *)
(* the list of segments may be another by then.                            *)
Finish(done) == doc' = Exited(doc, done)

Missed(done) ==
  LET i == Cursor.seg
  IN IF Cursor.kind # "block" \/ i \notin DOMAIN done.segs THEN {}
     ELSE (IF \E k \in {i - 1, i, i + 1} : ~IsProse(done.segs, k) THEN {"slot"} ELSE {})
            \cup (IF IsBlockText(done.segs[i].raw) THEN {} ELSE {"text"})

(* Motions.  Most of them swap; up and down do not.  Any of them may leave *)
(* the segment, and the cursor may stop on the result of a block.          *)
Move ==
  /\ ~crashed
  /\ mode \in {"normal", "visual"}
  /\ \E i \in DOMAIN doc.segs, swap \in BOOLEAN :
       LET d == IF swap THEN Exited(doc, Entered(doc)) ELSE doc
       IN \E c \in {At(d.segs, i)} \cup (IF IsBlock(d.segs, i) THEN {InBlockResult(i)} ELSE {}) :
            doc' = [d EXCEPT !.cursor = c]
  /\ UNCHANGED <<dirty, undoVars, mode, anchor, register, fileVars, crashed, edits, histVars>>

EnterInsert ==
  /\ MayEdit
  /\ mode = "normal"
  /\ mode' = "insert"
  /\ Snapshot(Entered(doc))
  /\ Finish(Entered(doc))
  /\ lost' = lost \cup Forgotten
  /\ CountEdit
  /\ UNCHANGED <<dirty, anchor, register, fileVars, crashed, saved, base>>

(* Insert mode, at the granularity of lines: one is added or taken away.   *)
Typed(text) ==
  {InsertAt(text, i, line) : i \in 1..(Len(text) + 1), line \in (IF Room(1) THEN Line ELSE {})}
    \cup {RemoveAt(text, i) : i \in DOMAIN text}

Type ==
  /\ MayEdit
  /\ mode = "insert"
  /\ OnText
  /\ \E text \in Typed(Here.raw) : Finish(WithRaw(Entered(doc), Cursor.seg, text))
  /\ dirty' = TRUE
  /\ CountEdit
  /\ UNCHANGED <<undoVars, mode, anchor, register, fileVars, crashed, histVars>>

(* Accepting a completion in a block takes a snapshot first, and edits the *)
(* raw itself.                                                             *)
AcceptCompletion ==
  /\ MayEdit
  /\ mode = "insert"
  /\ Cursor.kind = "block"
  /\ Snapshot(doc)
  /\ \E text \in Typed(Here.raw) :
       doc' = [doc EXCEPT !.segs[Cursor.seg] = ReparseFromRaw([@ EXCEPT !.raw = text])]
  /\ dirty' = TRUE
  /\ lost' = lost \cup Forgotten
  /\ CountEdit
  /\ UNCHANGED <<mode, anchor, register, fileVars, crashed, saved, base>>

(* Leaving insert mode in prose turns the fences that have been typed into *)
(* blocks.                                                                 *)
ExitInsert ==
  /\ ~crashed
  /\ mode = "insert"
  /\ IF Cursor.kind = "prose" /\ IsProse(doc.segs, Cursor.seg) /\ Starts(Here.raw) # {}
       THEN \/ Panics(Here.raw) /\ Panic
            \/ /\ ~Panics(Here.raw)
               /\ doc' = ReparseProseAt(doc, Cursor.seg)
               /\ dirty' = TRUE
               /\ mode' = "normal"
               /\ UNCHANGED <<undoVars, anchor, register, fileVars, crashed, edits, histVars>>
       ELSE /\ Finish(Entered(doc))
            /\ mode' = "normal"
            /\ UNCHANGED <<dirty, undoVars, anchor, register, fileVars, crashed, edits, histVars>>

-----------------------------------------------------------------------------
(* Operators: d, c and y over a range of lines of one segment, by a motion,*)
(* a text object or a selection.                                           *)

OperatorMode == mode = "normal" \/ (mode = "visual" /\ anchor = Cursor.seg)

Operator ==
  /\ MayEdit
  /\ OperatorMode
  /\ OnText
  /\ \E i, j \in DOMAIN Here.raw :
       /\ i <= j
       /\ register' = SubSeq(Here.raw, i, j)
       /\ LET rest == SubSeq(Here.raw, 1, i - 1) \o SubSeq(Here.raw, j + 1, Len(Here.raw))
          IN Finish(WithRaw(Entered(doc), Cursor.seg, rest))
  /\ Snapshot(Entered(doc))
  /\ dirty' = TRUE
  /\ mode' \in {"normal", "insert"}
  /\ anchor' = 0
  /\ lost' = lost \cup Forgotten
  /\ CountEdit
  /\ UNCHANGED <<fileVars, crashed, saved, base>>

Yank ==
  /\ MayEdit
  /\ OperatorMode
  /\ OnText
  /\ \E i, j \in DOMAIN Here.raw : i <= j /\ register' = SubSeq(Here.raw, i, j)
  /\ Finish(Entered(doc))
  /\ mode' = "normal"
  /\ anchor' = 0
  /\ CountEdit
  /\ UNCHANGED <<dirty, undoVars, fileVars, crashed, histVars>>

(* dd, cc and yy with the cursor on the result take the whole block.       *)
OperatorOnResult ==
  /\ MayEdit
  /\ mode = "normal"
  /\ Cursor.kind = "result"
  /\ register' = Here.fields
  /\ Snapshot(doc)
  /\ doc' = DeleteBlockAt(doc, Cursor.seg)
  /\ dirty' = TRUE
  /\ mode' \in {"normal", "insert"}
  /\ lost' = lost \cup Forgotten
  /\ CountEdit
  /\ UNCHANGED <<anchor, fileVars, crashed, saved, base>>

YankOnResult ==
  /\ MayEdit
  /\ mode = "normal"
  /\ Cursor.kind = "result"
  /\ register' = Here.fields
  /\ CountEdit
  /\ UNCHANGED <<doc, dirty, undoVars, mode, anchor, fileVars, crashed, histVars>>

(* A paste reparses the prose it went to, the swapped block included.      *)
Paste ==
  /\ MayEdit
  /\ mode = "normal"
  /\ OnText
  /\ register # <<>> /\ Room(Len(register))
  /\ \E i \in 0..Len(Here.raw) :
       LET text == SubSeq(Here.raw, 1, i) \o register \o SubSeq(Here.raw, i + 1, Len(Here.raw))
           done == ReparseProseAt(WithRaw(Entered(doc), Cursor.seg, text), Cursor.seg)
       IN \/ Panics(text) /\ Panic
          \/ /\ ~Panics(text)
             /\ Snapshot(Entered(doc))
             /\ Finish(done)
             /\ dirty' = TRUE
             /\ lost' = lost \cup Forgotten \cup Missed(done)
             /\ CountEdit
             /\ UNCHANGED <<mode, anchor, register, fileVars, crashed, saved, base>>

-----------------------------------------------------------------------------
(* Undo and redo, with the block under the cursor swapped as well.         *)

Undo ==
  /\ MayEdit
  /\ mode = "normal"
  /\ past # <<>>
  /\ past' = Front(past)
  /\ future' = Append(future, Entered(doc))
  /\ Finish(Last(past))
  /\ dirty' = TRUE
  /\ lost' = lost \cup Missed(Last(past))
  /\ CountEdit
  /\ UNCHANGED <<mode, anchor, register, fileVars, crashed, saved, base>>

Redo ==
  /\ MayEdit
  /\ mode = "normal"
  /\ future # <<>>
  /\ future' = Front(future)
  /\ past' = Append(IF Len(past) = Capacity THEN Tail(past) ELSE past, Entered(doc))
  /\ Finish(Last(future))
  /\ dirty' = TRUE
  /\ lost' = lost \cup Forgotten \cup Missed(Last(future))
  /\ CountEdit
  /\ UNCHANGED <<mode, anchor, register, fileVars, crashed, saved, base>>

-----------------------------------------------------------------------------
(* Visual mode.                                                            *)

EnterVisual ==
  /\ ~crashed
  /\ mode = "normal"
  /\ Cursor.kind # "result"
  /\ mode' = "visual"
  /\ anchor' = Cursor.seg
  /\ Finish(Entered(doc))
  /\ UNCHANGED <<dirty, undoVars, register, fileVars, crashed, edits, histVars>>

ExitVisual ==
  /\ ~crashed
  /\ mode = "visual"
  /\ mode' = "normal"
  /\ anchor' = 0
  /\ UNCHANGED <<doc, dirty, undoVars, register, fileVars, crashed, edits, histVars>>

(* global_offset_for: the line of the text where the j-th line of segment  *)
(* i is; in an empty prose, the line that follows it.                      *)
GlobalLine(segs, i, j) ==
  LET before == Len(Text(SubSeq(segs, 1, i - 1)))
      size   == Len(SegmentText(segs[i]))
  IN IF j <= size THEN before + j ELSE before + size + (IF size = 0 THEN 1 ELSE 0)

(* cursor_at_global_offset: the segment of a line of the text, or the end. *)
CursorAtLine(segs, line) ==
  IF line > Len(Text(segs)) THEN InProse(Len(segs))
  ELSE At(segs, CHOOSE i \in DOMAIN segs :
                  /\ Len(Text(SubSeq(segs, 1, i - 1))) < line
                  /\ line <= Len(Text(SubSeq(segs, 1, i))))

(* An operator on a selection over several segments goes through the text  *)
(* of the note, all the time with the block under the cursor swapped.      *)
Selects == /\ mode = "visual"
           /\ anchor # Cursor.seg
           /\ anchor \in DOMAIN doc.segs
           /\ Cursor.kind # "result"

Selection ==
  LET segs == Entered(doc).segs
      a    == IF anchor < Cursor.seg THEN anchor ELSE Cursor.seg
      c    == IF anchor < Cursor.seg THEN Cursor.seg ELSE anchor
      lines(i) == {GlobalLine(segs, i, j) : j \in 1..(Len(segs[i].raw) + 1)}
      total == Len(Text(segs))
  IN {r \in lines(a) \X {IF n > total THEN total ELSE n : n \in lines(c)} : r[1] <= r[2]}

CrossOperator ==
  /\ MayEdit
  /\ Selects
  /\ LET text == Text(Entered(doc).segs)
     IN \E r \in Selection :
          LET rest == SubSeq(text, 1, r[1] - 1) \o SubSeq(text, r[2] + 1, Len(text))
              segs == FromMarkdown(rest)
              done == Document(segs, CursorAtLine(segs, r[1]))
          IN \/ Panics(rest) /\ Panic
             \/ /\ ~Panics(rest)
                /\ register' = SubSeq(text, r[1], r[2])
                /\ Snapshot(Entered(doc))
                /\ Finish(done)
                /\ dirty' = TRUE
                /\ mode' \in {"normal", "insert"}
                /\ anchor' = 0
                /\ lost' = lost \cup Forgotten \cup Missed(done)
                /\ CountEdit
                /\ UNCHANGED <<fileVars, crashed, saved, base>>

(* The cursor goes back to the anchor, which is always one for prose.      *)
CrossYank ==
  /\ MayEdit
  /\ Selects
  /\ LET text == Text(Entered(doc).segs)
     IN \E r \in Selection : register' = SubSeq(text, r[1], r[2])
  /\ Finish([Entered(doc) EXCEPT !.cursor = InProse(anchor)])
  /\ mode' = "normal"
  /\ anchor' = 0
  /\ CountEdit
  /\ UNCHANGED <<dirty, undoVars, fileVars, crashed, histVars>>

-----------------------------------------------------------------------------
(* Forms: the prompt for an alias, the picker of connections, the settings *)
(* of a block and the key that cycles its display mode write to the fields *)
(* of the block only.                                                      *)

OpenForm ==
  /\ MayEdit
  /\ mode = "normal"
  /\ Cursor.kind # "prose"
  /\ mode' = "form"
  /\ anchor' = Cursor.seg
  /\ UNCHANGED <<doc, dirty, undoVars, register, fileVars, crashed, edits, histVars>>

CancelForm ==
  /\ ~crashed
  /\ mode = "form"
  /\ mode' = "normal"
  /\ anchor' = 0
  /\ UNCHANGED <<doc, dirty, undoVars, register, fileVars, crashed, edits, histVars>>

(* The index of the block may be out of date.                              *)
ConfirmForm ==
  /\ MayEdit
  /\ mode = "form"
  /\ mode' = "normal"
  /\ anchor' = 0
  /\ Snapshot(doc)
  /\ IF IsBlock(doc.segs, anchor)
       THEN /\ \E h \in Headers : doc' = [doc EXCEPT !.segs[anchor].fields[1] = h]
            /\ lost' = lost \cup Forgotten \cup {"form"}
       ELSE UNCHANGED doc /\ lost' = lost \cup Forgotten
  /\ CountEdit
  /\ UNCHANGED <<dirty, register, fileVars, crashed, saved, base>>

(* The picker of templates inserts a fence in prose and reparses it.       *)
InsertTemplate ==
  /\ MayEdit
  /\ mode = "normal"
  /\ Cursor.kind = "prose" /\ OnText
  /\ Room(2)
  /\ \E i \in 0..Len(Here.raw), h \in Headers :
       LET text == SubSeq(Here.raw, 1, i) \o <<h, Fence>> \o SubSeq(Here.raw, i + 1, Len(Here.raw))
           done == ReparseProseAt(WithRaw(doc, Cursor.seg, text), Cursor.seg)
       IN \/ Panics(text) /\ Panic
          \/ /\ ~Panics(text)
             /\ Snapshot(doc)
             /\ doc' = [done EXCEPT !.cursor =
                          InBlock(CHOOSE k \in Cursor.seg..Len(done.segs) :
                                    /\ IsBlock(done.segs, k)
                                    /\ \A m \in Cursor.seg..(k - 1) : ~IsBlock(done.segs, m))]
             /\ dirty' = TRUE
             /\ lost' = lost \cup Forgotten
             /\ CountEdit
             /\ UNCHANGED <<mode, anchor, register, fileVars, crashed, saved, base>>

(* :%s builds another document, with nothing to undo.                      *)
Substitute ==
  /\ MayEdit
  /\ mode = "normal"
  /\ \E old \in Range(Text(doc.segs)), new \in Line :
       LET before == Text(doc.segs)
           text   == [i \in DOMAIN before |-> IF before[i] = old THEN new ELSE before[i]]
       IN /\ old # new
          /\ \/ Panics(text) /\ Panic
             \/ /\ ~Panics(text)
                /\ doc' = Load(text)
                /\ dirty' = TRUE
                /\ past' = <<>> /\ future' = <<>>
                /\ base' = text /\ lost' = {}
                /\ CountEdit
                /\ UNCHANGED <<mode, anchor, register, fileVars, crashed, saved>>

-----------------------------------------------------------------------------
(* The file.  The watcher reports the writes of the editor, too.           *)

Write ==
  /\ ~crashed
  /\ mode \in {"normal", "insert"}
  /\ disk' = Text(doc.segs)
  /\ saved' = disk'
  /\ dirty' = FALSE
  /\ changed' = TRUE
  /\ UNCHANGED <<doc, undoVars, mode, anchor, register, crashed, edits, base, lost>>

(* Other programs.                                                         *)
ExternalWrite ==
  /\ MayEdit
  /\ disk' \in Texts \ {disk}
  /\ changed' = TRUE
  /\ CountEdit
  /\ UNCHANGED <<doc, dirty, undoVars, mode, anchor, register, crashed, histVars>>

Reload ==
  /\ doc' = Load(disk)
  /\ dirty' = FALSE
  /\ past' = <<>> /\ future' = <<>>
  /\ saved' = disk /\ base' = disk
  /\ lost' = IF mode = "insert" THEN {"reload"} ELSE {}

(* Mutant: a note that is being edited is reloaded as well.                *)
ReloadAnyway ==
  /\ ~crashed
  /\ changed
  /\ \/ /\ disk # Text(doc.segs) /\ ~Panics(disk)
        /\ Reload
        /\ UNCHANGED crashed
     \/ /\ disk = Text(doc.segs)
        /\ UNCHANGED <<doc, dirty, undoVars, crashed, histVars>>
  /\ changed' = FALSE
  /\ UNCHANGED <<mode, anchor, register, disk, edits>>

(* handle_file_changed_externally: a clean note that differs from its file *)
(* is reloaded without a question, in whatever mode the editor is.         *)
FileChanged ==
  /\ ~crashed
  /\ changed
  /\ \/ disk # Text(doc.segs) /\ ~dirty /\ Panics(disk) /\ Panic
     \/ /\ disk # Text(doc.segs) /\ ~dirty /\ ~Panics(disk)
        /\ Reload
        /\ changed' = FALSE
        /\ UNCHANGED <<mode, anchor, register, disk, crashed, edits>>
     \/ /\ disk = Text(doc.segs) \/ dirty
        /\ changed' = FALSE
        /\ UNCHANGED <<doc, dirty, undoVars, mode, anchor, register, disk, crashed, edits, histVars>>

-----------------------------------------------------------------------------
Edit == \/ Move \/ EnterInsert \/ Type \/ AcceptCompletion \/ ExitInsert
        \/ Operator \/ Yank \/ OperatorOnResult \/ YankOnResult \/ Paste
        \/ Undo \/ Redo
        \/ EnterVisual \/ ExitVisual \/ CrossOperator \/ CrossYank
        \/ OpenForm \/ CancelForm \/ ConfirmForm \/ InsertTemplate \/ Substitute

Next == Edit \/ Write \/ ExternalWrite \/ FileChanged

Spec == Init /\ [][Next]_vars

-----------------------------------------------------------------------------
(* Properties.                                                             *)

(* The cursor always has prose around a block to go to: a note starts and  *)
(* ends with prose and has no two blocks in a row.  Blocks are rebuilt by  *)
(* splicing, deleting, reparsing and swapping; only an exit from a swap    *)
(* that hits another segment than the one it left breaks this              *)
(* (pad_with_prose, delete_block_at, reparse_prose_at).                    *)
Padded ==
  "slot" \notin lost =>
    /\ IsProse(doc.segs, 1) /\ IsProse(doc.segs, Len(doc.segs))
    /\ \A i \in 2..Len(doc.segs) : ~(IsBlock(doc.segs, i - 1) /\ IsBlock(doc.segs, i))

(* Undoing every change gives back the text that was loaded, whatever the  *)
(* changes were and in whatever segment each of them, and the undo itself, *)
(* took place, but for the reasons in lost (Document::snapshot, undo,      *)
(* redo, InBlockSwap).                                                     *)
UndoAllRestores ==
  lost \subseteq {"form"} =>
    Text(IF past = <<>> THEN doc.segs ELSE Head(past).segs) = base

(* A reload never discards text that has not been written, unless a form   *)
(* has changed the fields of a block (handle_file_changed_externally).     *)
UnsavedKept ==
  [][FileChanged /\ "form" \notin lost => doc' = doc \/ Text(doc.segs) = saved]_vars

(* What is saved is what has been edited: the fields of a block are those  *)
(* of its raw, except for a raw that is not one block and after a form     *)
(* (reparse_from_raw).                                                     *)
FieldsFollowRaw ==
  "form" \notin lost =>
    \A i \in DOMAIN doc.segs : IsBlock(doc.segs, i) => ReparseFromRaw(doc.segs[i]) = doc.segs[i]

-----------------------------------------------------------------------------
(* What the documentation promises and the code does not keep.             *)

(* Moving the cursor, selecting and yanking leave the text alone (a motion *)
(* only pretends that the block under the cursor is prose).                *)
MovesKeepText == [][Move => Text(doc'.segs) = Text(doc.segs)]_vars

(* A fence that is half typed does no harm: the editor goes on.            *)
NeverCrashes == ~crashed
=============================================================================
