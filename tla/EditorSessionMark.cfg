SPECIFICATION EditorSpec
CONSTANTS
  Files = {f1, f2}
  Text = {t1, t2}
  NoTimer = NoTimer
  AutoSave = TRUE
  MaxChanges = 3
  MaxPending = 1
INVARIANT EditIsMarked
