CONSTANTS
  Envs = {dev}
  Keys = {k1, k2}
  Plain = {a}
  Secret = {s}
  Empty = empty
  Prefs = {p}
  Default = p0
  Unset = Unset
  Ref = Ref
  None = None
  Unknown = Unknown
  Tasks = {t1, t2}
  MaxRequests = 3
  MaxUnread = 1
SPECIFICATION Spec
PROPERTIES RerunIsSafe
SYMMETRY Symmetry
CHECK_DEADLOCK FALSE
