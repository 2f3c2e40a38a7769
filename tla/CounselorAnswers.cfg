\* Two first turns at once, with up to two rounds of tools.
SPECIFICATION Spec
CHECK_DEADLOCK FALSE
INVARIANT ReplyWithJob StoredIsSeen AsksAnew
PROPERTY TurnEnds
CONSTANTS
  Turns = {t1, t2}
  Requests <- TwoRequests
  MaxRounds = 2
  Fields = {f1}
  Issues = {i1}
  f1 = f1
  i1 = i1
  t1 = t1
  t2 = t2
