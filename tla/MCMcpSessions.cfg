\* Two streams and one POST session from two addresses, each cap within reach:
\* a third session, a second one of an address, a third open in a window.
CONSTANTS
  s1 = s1
  s2 = s2
  h1 = h1
  a = a
  b = b
  Sse = {s1, s2}
  Http = {h1}
  Ips = {a, b}
  MaxTotal = 2
  MaxPerIp = 1
  MaxNew = 2
  Window = 2
  MaxTime = 3
SPECIFICATION FairSpec
INVARIANTS
  SlotsAreOwned
  SessionsWithinCaps
  BurstBound
  MInv
PROPERTIES
  KeepsLedger
  UnusedSlotReturns
CHECK_DEADLOCK FALSE
