SPECIFICATION Spec
CONSTANTS
  Base = 2
  FirstBuffers  <- MCFirstBuffers
  SecondBuffers <- MCSecondBuffers
  RawArrays     <- MCRawArrays
INVARIANTS
  TypeOK
  RoundTrip
  NoMisSplit
  SplitMeetsReference
