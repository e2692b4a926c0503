SPECIFICATION EditorFairSpec
CONSTANTS
  Files = {f1, f2}
  Text = {t1, t2}
  NoTimer = NoTimer
  AutoSave = TRUE
  MaxChanges = 2
  MaxPending = 1
INVARIANT EditorTypeOK
PROPERTIES
  SavesInOrder
  ChangeIsWritten
