\* The relayer as it is: /seal/decrypt finds no credential.
CONSTANTS
  b1 = b1
  b2 = b2
  r1 = r1
  r2 = r2
  q1 = q1
  Blobs = {b1, b2}
  Manual = {b2}
  Restores = {r1}
  Recalls = {q1}
  Limit = 1
  MaxObjects = 1
  MaxRestarts = 1
  Credential = FALSE
SPECIFICATION Spec
PROPERTY CleanedIsExpired
CHECK_DEADLOCK FALSE
