\* One job, whose every retry, timeout, late answer and redelivery is
\* explored: jobs share nothing but a crash.
CONSTANTS
  j1 = j1
  Jobs = {j1}
  MaxAttempts = 3
  MaxCrashes = 2
  MaxLost = 1
SPECIFICATION FairSpec
INVARIANTS
  IndexedIsOwned
  FinishedIsReported
  IInv
PROPERTIES
  DoneIsFinal
  EnqueuedIsSettled
  JobsAdvance
  KeepsPromise
\* A settled job has nothing left to do.
CHECK_DEADLOCK FALSE
