\* One blob written through the queue and one by a client, two restores that
\* overlap each other and a recall; the limit leaves one blob out.  With the
\* credential: without it no restore would get as far as its inserts.
CONSTANTS
  b1 = b1
  b2 = b2
  r1 = r1
  r2 = r2
  q1 = q1
  Blobs = {b1, b2}
  Manual = {b2}
  Restores = {r1, r2}
  Recalls = {q1}
  Limit = 1
  MaxObjects = 1
  MaxRestarts = 1
  Credential = TRUE
SPECIFICATION Spec
SYMMETRY RestoreSymmetry
INVARIANTS
  NoLateCopies
  IndexInv
PROPERTIES
  OnlyGoneRowsVanish
  RequestsAdvance
CHECK_DEADLOCK FALSE
