CONSTANTS
  Value = {a, b}
  Settors = {"none", "throws"}
  maxevaldepth = 4
  MaxStack <- MCMaxStack
  MaxBlocked = 3
SPECIFICATION Spec
INVARIANTS StackDiscipline CountsKept
PROPERTIES HiddenKept InnermostCatches
CHECK_DEADLOCK FALSE
