SPECIFICATION PoolFairSpec
CONSTANTS
  Vaults = {v1, v2}
  Conns = {c1}
  Calls = {t1, t2}
  Commands = {k1, k2}
  None = None
  MaxRecord = 2
INVARIANT OnlyRacesLeaveStale
PROPERTY IdlePoolEvicted
