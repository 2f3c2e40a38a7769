\* One worker, crashes and the unlocked activation endpoint against edits.
SPECIFICATION FairSpec
CHECK_DEADLOCK FALSE
INVARIANT ReadyIsCurrent  AtMostOneLiveJob
 
CONSTANTS
  Editors = {e1}
  Activators = {a1}
  Workers = {w1}
  JobIds = {1, 2, 3}
  EditKinds = {"relevant", "irrelevant", "anchors", "pursuit"}
  MaxAttempts = 2
  EditBound = 2
  ActivationBound = 1
  CrashBound = 1
  ClaimRace = TRUE
  Nobody = Nobody
  NoJob = NoJob
  NoResult = NoResult
  e1 = e1
  e2 = e2
  a1 = a1
  a2 = a2
  w1 = w1
  w2 = w2
