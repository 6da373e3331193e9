CONSTANTS
  j1 = j1
  Jobs = {j1}
  MaxAttempts = 2
  MaxCrashes = 1
  MaxLost = 0
SPECIFICATION FairSpec
PROPERTY AcceptedIsSettled
CHECK_DEADLOCK FALSE
