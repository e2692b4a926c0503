SPECIFICATION PoolFairSpec
CONSTANTS
  Vaults = {v1, v2}
  Conns = {c1, c2}
  Calls = {t1}
  Commands = {k1}
  None = None
  MaxRecord = 2
INVARIANT OnlyRacesLeaveStale
PROPERTY IdlePoolEvicted
