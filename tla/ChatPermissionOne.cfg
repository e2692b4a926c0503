SPECIFICATION Spec
CONSTANTS
  AskTools = {bash}
  WriteTools = {edit}
  ReadTools = {read}
  BlockTools = {block}
  NoteTools = {note}
  AllowedTools = {bash, edit, read}
  NoTool = none
  Sessions = {s1, s2}
  NoSession = null
  Calls = {k1, k2}
  MaxTurns = 1
  MaxResend = 0
  MaxPerm = 2
SYMMETRY ChatSymmetry
INVARIANTS TypeOK Consent ComposerLocked ReplyUnderWay
CHECK_DEADLOCK FALSE
