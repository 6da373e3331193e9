CONSTANTS
  s1 = s1
  s2 = s2
  h1 = h1
  a = a
  b = b
  Sse = {s1, s2}
  Http = {h1}
  Ips = {a, b}
  MaxTotal = 2
  MaxPerIp = 1
  MaxNew = 2
  Window = 2
  MaxTime = 3
SPECIFICATION Spec
INVARIANT ClosedIsReleased
CHECK_DEADLOCK FALSE
