\* Two clients and one field: every order of looking, asking, locking, writing.
SPECIFICATION Spec
SYMMETRY Interchangeable
INVARIANT HistoryLinear ProposalAppliedOnce AcceptedOverReviewed
PROPERTY NoLostEdit
CONSTANTS
  Clients = {c1, c2}
  Rows = {1, 2, 3}
  Fields = {f1}
  Values = {v1, v2}
  MaxVersion = 4
  None = None
  c1 = c1
  c2 = c2
  f1 = f1
  v1 = v1
  v2 = v2
