\* Three processes at once through sign-in, writes, uploads and deletion.
SPECIFICATION Spec
CHECK_DEADLOCK FALSE
INVARIANT IdentityLast PathsRetained
PROPERTY TombstoneStands
SYMMETRY Either
CONSTANTS
  Procs = {p1, p2, p3}
  Objects = {o1, o2}
  AskBound = 7
