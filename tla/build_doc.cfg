SPECIFICATION Spec
CONSTANTS
  Abis <- MCAbis
  LastVersion = 3
INVARIANT FreshCargoBuildIsPickedUp
