SPECIFICATION Spec
CONSTANTS
  None = None
  Texts = {read, write}
  Dangerous = {write}
  Volatile = {write}
  UsesEnv = {read, write}
  Keyed = {read}
  Envs = {dev, prod}
  FirstEnv = dev
  MaxTasks = 2
  MaxChanges = 1
INVARIANT LookupOfEnvironment
CHECK_DEADLOCK FALSE
