SPECIFICATION WfSpec
CONSTANTS
  r1 = r1
  r2 = r2
  r3 = r3
  Clones = {r1, r2, r3}
  Fresh = {r1, r2, r3}
  Versions <- MCVersions
  Builds <- MCBuilds
  VersionAt <- MCVersionAt
  LastSha = 3
  MaxRuns = 3
SYMMETRY MCSymmetry
INVARIANTS
  WfTypeOK
  TaggedIsPublished
  ReleaseIsOfItsTag
  OneSource
CHECK_DEADLOCK FALSE
