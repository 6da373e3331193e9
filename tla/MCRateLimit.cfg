\* Two requests at a time, two delegate keys, a window of two ticks, one failed call.
CONSTANTS
  r1 = r1
  r2 = r2
  k1 = k1
  k2 = k2
  Requests = {r1, r2}
  Keys = {k1, k2}
  Weights = {2}
  MaxWeight = 2
  KeyLimit = 1
  BurstLimit = 2
  HourLimit = 3
  Minute = 2
  Hour = 3
  MinuteTtl = 2
  HourTtl = 3
  MaxTime = 3
  MaxErrors = 1
SPECIFICATION Spec
SYMMETRY Symmetry
INVARIANTS
  RInv
  OvershootBound
  LayersAgree
PROPERTIES
  ForgetsOnlyOld
CHECK_DEADLOCK FALSE
