\* Two fair processes, two jobs of one student, a crash and a requeue.
SPECIFICATION FairSpec
INVARIANT PinnedAttemptCurrent PendingClaimable
PROPERTY KeepsLifecycle EveryJobSettles
CONSTANTS
  Jobs = {1, 2}
  Workers = {w1, w2}
  KeyOf <- TwoOfOneKey
  MaxAttempts = 2
  CrashBound = 1
  RequeueBound = 1
CONSTANTS
  NoWorker = NoWorker
  NoJob = NoJob
  k1 = k1
  k2 = k2
  Keys = {k1, k2}
