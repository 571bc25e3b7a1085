SPECIFICATION WfSpec
CONSTANTS
  r1 = r1
  r2 = r2
  r3 = r3
  Clones = {r1, r2}
  Fresh = {r1, r2}
  Versions <- MCVersions
  Builds <- MCBuilds
  VersionAt <- MCVersionAt
  LastSha = 2
  MaxRuns = 2
INVARIANT TagIsSourceOfRelease
CHECK_DEADLOCK FALSE
