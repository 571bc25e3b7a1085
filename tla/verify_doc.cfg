SPECIFICATION Spec
CONSTANTS
  Threads = {t1}
  Arrays = {x, y}
  x = x
  y = y
  NULL = NULL
  Addrs = {a1, a2}
  Base = 4
  PtrMod = 8
  LongMod = 16
  Contents <- MCContents
  Calls <- MCAllCalls
  DefaultMessage <- MCDefaultMessage
  Accepts <- MCAccepts
  Output <- MCOutput
  Reason <- MCReason
INVARIANT
  MalformedVerifyThrows
