CONSTANTS
  NFd = 6
  UserFd = {1, 3, 4, 6}
  File = {tty, f}
  Tty = tty
  Closed = Closed
  Internal = {p1}
  Closable = {3, 4}
  MaxFrames = 2
SPECIFICATION MCLexical
INVARIANTS OwnedOnce UndeferInOrder
PROPERTY Refines
CHECK_DEADLOCK FALSE
