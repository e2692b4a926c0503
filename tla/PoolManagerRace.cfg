SPECIFICATION PoolSpec
CONSTANTS
  Vaults = {v1}
  Conns = {c1}
  Calls = {t1}
  Commands = {k1}
  None = None
  MaxRecord = 2
INVARIANT NextPoolIsFresh
