SPECIFICATION QuotaSpec
CONSTANTS
  j1 = j1
  j2 = j2
  j3 = j3
  m1 = m1
  b1 = b1
  Uploads = {j1, j2, j3, m1, b1}
  Jobs = {j1, j2, j3}
  Manual = {m1}
  Size <- MCSize
  Max = 4
  MaxTries = 2
CHECK_DEADLOCK FALSE
INVARIANTS QuotaInv QuotaOvershoot
