SPECIFICATION PoolSpec
CONSTANTS
  Vaults = {v1}
  Conns = {c1, c2}
  Calls = {t1}
  Commands = {k1, k2}
  None = None
  MaxRecord = 2
INVARIANT OnlyRacesLeaveStale
