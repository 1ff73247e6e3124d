CONSTANTS
  Name = {x, y}
  Value = {v}
  Closures = {}
  Lexical = {b0, b1}
  Settors = {x}
  Locals = {x, y}
  Noexports = {{}}
  None = None
  MaxStack = 2
SPECIFICATION Spec
INVARIANT EnvCurrent
CHECK_DEADLOCK FALSE
