\* Two requests at a time and a worker; every commit order of what they read.
SPECIFICATION FairSpec
CHECK_DEADLOCK FALSE
INVARIANT StoredHasRow LiveHasFile RejectedNotApplied ProcessedIsReviewed
PROPERTY DeletedGivesNothingNew JobsKeepLifecycle EveryAnalysisEnds
CONSTANTS
  Clients = {c1, c2}
  Workers = {w1}
  Fields = {f1}
  JobIds = {1, 2}
  RunBound = 2
  RequestBound = 3
  FaultBound = 1
  MaxAttempts = 2
  Nobody = Nobody
  NoJob = NoJob
  c1 = c1
  c2 = c2
  w1 = w1
  f1 = f1
  f2 = f2
