SPECIFICATION FairSpec
CONSTANTS
  Threads = {t1, t2}
  Loaders = {l1, l2}
  d0 = d0
  d1 = d1
  d2 = d2
  Dirs <- MCDirs
  Debris <- MCDebris
  LibPath = LibPath
INVARIANTS
  TypeOK
  LoadedOnce
  BundledLibraryLoads
  CalmExitLeavesNothing
PROPERTY
  EveryTouchAnswered
CHECK_DEADLOCK FALSE
