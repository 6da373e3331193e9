SPECIFICATION FairSpec
CONSTANTS
  s1 = s1
  s2 = s2
  t1 = t1
  t2 = t2
  i1 = i1
  i2 = i2
  Bulk = Bulk
  Singles = {s1, s2}
  RememberRows = {s1}
  Transfers = {t1, t2}
  MetaBlobs = {t1}
  Items = {i1, i2}
  Batch <- MCBatch
  Backlogs <- MCBacklogs
  Losing = {s2}
  Width <- MCWidth
  MaxAttempts = 2
  MaxCrashes = 1
CONSTRAINT Few
CHECK_DEADLOCK FALSE
INVARIANTS LegacyInv EndedRowIsReported
PROPERTIES StepsKeepPromise BacklogEnds BacklogAdvances
