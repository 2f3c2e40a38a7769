SPECIFICATION Spec
INVARIANT SerializedPerKey
CONSTANTS
  Jobs = {1, 2}
  Workers = {w1, w2}
  KeyOf <- TwoOfOneKey
  MaxAttempts = 2
  CrashBound = 0
  RequeueBound = 0
CONSTANTS
  NoWorker = NoWorker
  NoJob = NoJob
  k1 = k1
  k2 = k2
  Keys = {k1, k2}
