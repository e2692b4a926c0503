SPECIFICATION Spec
CONSTANTS
  AskTools = {bash}
  WriteTools = {edit}
  ReadTools = {read}
  BlockTools = {block}
  NoteTools = {note}
  AllowedTools = {bash, edit, read}
  NoTool = none
  Sessions = {s1, s2}
  NoSession = null
  Calls = {k1}
  MaxTurns = 2
  MaxResend = 0
  MaxPerm = 2
SYMMETRY ChatSymmetry
INVARIANT AskedIsShown
CHECK_DEADLOCK FALSE
