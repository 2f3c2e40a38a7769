\* Every order of what is said, edited, scanned and judged, to four transactions.
SPECIFICATION Spec
CHECK_DEADLOCK FALSE
INVARIANT TimelineCurrent
PROPERTY LostClaimStaysOpen JudgementKept DocumentHolds NeverGuesses SittingsKept
CONSTANTS
  Ids = {1, 2, 3}
  Observations <- SomeObservations
  Forms <- SomeForms
  Tests <- SomeTests
  Skills <- SomeSkills
  Overlap <- Words
  LevelNamed <- Levels
  WriteBound = 4
