SPECIFICATION Spec
CONSTANTS
  Threads = {t1}
  Loaders = {l1}
  d0 = d0
  d1 = d1
  d2 = d2
  Dirs <- MCDirs
  Debris <- MCDebris
  LibPath = LibPath
INVARIANT
  ThrowsOnlyIfNeitherResolves
CHECK_DEADLOCK FALSE
