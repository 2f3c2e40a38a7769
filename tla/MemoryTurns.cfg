\* Two follow-ups and their embedding calls at once, with redelivery.
SPECIFICATION Spec
CHECK_DEADLOCK FALSE
INVARIANT VersionsChained CountedOnce TurnRemembered VectorQuotes
SYMMETRY Either
CONSTANTS
  Workers = {w1, w2}
  Turns = {1, 2, 3, 4}
  Interrupted = {1}
  Keys = {"city", "degree"}
  Texts <- Said
  Taught <- FourTurns
  SameMeaning <- Alike
  Limit = 2
  Deliveries = 2
  w1 = w1
  w2 = w2
