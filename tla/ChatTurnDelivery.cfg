\* Fair workers; crashes, failures behind the commit and an interrupted stream.
SPECIFICATION FairSpec
CHECK_DEADLOCK FALSE
INVARIANT CompleteTurnAppliedOnce DoneIsApplied
PROPERTY LearnedOrFailed
CONSTANTS
  Turns = {t1, t2}
  Workers = {w1, w2}
  MaxAttempts = 3
  CrashBound = 1
  InterruptBound = 1
  Nobody = Nobody
  NoTurn = NoTurn
  t1 = t1
  t2 = t2
  w1 = w1
  w2 = w2
