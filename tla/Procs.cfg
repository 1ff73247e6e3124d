CONSTANTS
  Pid = {p1, p2, p3}
  Status = {s0}
  Junk = Junk
  Cell = {c1, c2, c3}
  Nil = Nil
  Recycle = FALSE
SPECIFICATION Spec
INVARIANTS ListIsSound ListMatchesKernel
SYMMETRY Symmetry
CHECK_DEADLOCK FALSE
