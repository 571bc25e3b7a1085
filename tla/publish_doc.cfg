SPECIFICATION Spec
CONSTANTS
  ci1 = ci1
  ci2 = ci2
  dev = dev
  old = old
  new = new
  Clones = {ci1, ci2, dev}
  Fresh = {ci1, ci2}
  Versions <- MCVersions
  Builds <- MCBuilds
  MaxRuns = 3
INVARIANT PublishedAnywhereIsOnBranch
CHECK_DEADLOCK FALSE
