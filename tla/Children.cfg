CONSTANTS
  Pid = {p1, p2}
  Status = {s0, s1}
  Junk = Junk
  Cell = {c1, c2}
  Nil = Nil
  Recycle = FALSE
  Commands = 4
  Wires <- MCWires
  MaxFd = 6
  Cap = 2
SPECIFICATION MCSpec
INVARIANT PipesJoin
PROPERTIES Refines WaitEnds PipelinesEnd
CHECK_DEADLOCK FALSE
