CONSTANTS
  RawChars = {42, 63, 91, 93, 126, 45, 97, 99}
  QuotedChars = {42, 93, 45}
  MaxPattern = 5
  Words <- MCWordList
  RawGlob = {42, 91, 93, 45, 46, 47, 97, 126}
  QuotedGlob = {42, 97, 46, 126}
  MaxGlob = 4
  Tree <- MCTree
  Root = "top"
  Cwd = "cwd"
  NoFile = "none"
  Home <- MCHome
  Stale <- MCStale
  c1 = c1
  c2 = c2
  Chars = {a, c1, c2}
  NulChar = nul
  Separators <- MCSeparators
  MaxWord = 2
  MaxFed = 2
  IfsSize = 3
  NoWord = NoWord
  MaxLen = 4
  MaxSubs = 3
  NoRange = NoRange
  ES_INT_MAX = 3
  FloatMax = 9
  Key = {1, 2, 3, 4, 5}
  Datum = {v}
  NULL = NULL
  DEAD = DEAD
  HashValue = {0, 7, 15}
  MaxSize = 16
  Name = {x, y}
  Value = {v, c}
  Closures = {c}
  Lexical = {b0, b1}
  Settors = {x}
  Locals = {y}
  Noexports = {{}, {x}, {y}}
  None = None
  MaxStack = 2
SPECIFICATION MCSpec
INVARIANTS MatchesAsDescribed WordsExpand SplitsAsDescribed
INVARIANTS SubscriptsAsDescribed ArithmeticAsChecked DictionariesAgree
INVARIANTS TypeOK EnvCurrent StringsCurrent
CHECK_DEADLOCK FALSE
