SPECIFICATION Spec
CONSTANTS
  Threads = {t1, t2}
  Arrays = {x, y}
  x = x
  y = y
  NULL = NULL
  Addrs = {a1, a2, a3, a4}
  Base = 4
  PtrMod = 8
  LongMod = 16
  Contents <- MCContents
  Calls <- MCThreadCalls
  DefaultMessage <- MCDefaultMessage
  Accepts <- MCAccepts
  Output <- MCOutput
  Reason <- MCReason
INVARIANTS
  TypeOK
  NativeMemoryOwned
PROPERTY
  ImplementsApi
