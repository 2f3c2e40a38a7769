\* Writers that hold the lock of the person, and the endpoint alone.
SPECIFICATION Spec
CHECK_DEADLOCK FALSE
INVARIANT PursuitAgrees
CONSTANTS
  Goals = {g1, g2, g3}
  Holders = {h1, h2}
  Endpoints = {e1}
  RequestBound = 6
  EndpointsAlone = TRUE
  NoGoal = NoGoal
  Nobody = Nobody
  Unread = Unread
  NoThread = NoThread
  g1 = g1
  g2 = g2
  g3 = g3
  h1 = h1
  h2 = h2
  e1 = e1
  e2 = e2
