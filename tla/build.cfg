SPECIFICATION Spec
CONSTANTS
  Abis <- MCAbis
  LastVersion = 3
INVARIANTS
  TypeOK
  GateTestsTheBuild
  NoStaleAbi
  ShipsWhatWasTested
