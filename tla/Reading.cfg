CONSTANTS
  Char = {a}
  NUL = NUL
  SPACE = SPACE
  BACKSLASH = BACKSLASH
  NL = NL
  EOF = EOF
  Null = Null
  Thrown = Thrown
  MAXUNGET = 2
  MaxText = 3
  MaxRead = 2
  None = None
  MaxFrames = 3
  NameChars = {"a", "b"}
  OtherChars = {}
  Markers <- MCMarkers
  MaxLines = 5
  Letters = {"a", "fn", "for", "local", "let", "%closure", "ifs", "_devfd"}
  Alphabets <- MCAlphabets
  StringAlphabets <- MCStrings
SPECIFICATION MCSpec
INVARIANTS PushbackIsSound ParserAssertions ChainIsSound HereDocsRead
INVARIANTS PrintsBack OperatorsGroup ValuesReadBack
PROPERTY StreamRefined
CHECK_DEADLOCK FALSE
