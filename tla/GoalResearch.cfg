\* A vault edit, then an edit of the goal's anchors, around one refresh.
SPECIFICATION Spec
CHECK_DEADLOCK FALSE
INVARIANT ResearchMatches
CONSTANTS
  Editors = {e1}
  Activators = {}
  Workers = {w1}
  JobIds = {1, 2}
  EditKinds = {"relevant", "irrelevant", "anchors", "pursuit"}
  MaxAttempts = 2
  EditBound = 2
  ActivationBound = 0
  CrashBound = 0
  ClaimRace = FALSE
  Nobody = Nobody
  NoJob = NoJob
  NoResult = NoResult
  e1 = e1
  e2 = e2
  a1 = a1
  a2 = a2
  w1 = w1
  w2 = w2
