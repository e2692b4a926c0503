SPECIFICATION Spec
CONSTANTS
  Tasks = {t1, t2}
  NoCache = NoCache
  MaxVersion = 2
INVARIANTS CacheSound LoadIsCurrent
SYMMETRY TaskSymmetry
