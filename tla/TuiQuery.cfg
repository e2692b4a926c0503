SPECIFICATION Spec
CONSTANTS
  None = None
  f1 = f1
  q1 = q1
  q2 = q2
  del = del
  Files = {f1, f2}
  Reads = {q1, q2}
  Writes = {del}
  Unscoped = {del}
  Requests = {get}
  Open <- MCOpen
  Notes <- MCNotes
  MaxPages = 2
  MaxTasks = 2
  MaxChanges = 1
INVARIANTS
  TypeOK
  SlotIsTask
  CacheHonest
  PagesInOrder
PROPERTIES
  SlotReleased
  BlockSettles
CHECK_DEADLOCK FALSE
