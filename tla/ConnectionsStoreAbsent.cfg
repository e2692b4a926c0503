SPECIFICATION Spec
CONSTANTS
  Tasks = {t1, t2}
  NoCache = NoCache
  MaxVersion = 2
INVARIANT CacheFollowsDisk
SYMMETRY TaskSymmetry
