INIT Init
NEXT Next
CONSTANTS
  Scripts <- MCScripts
  ListItems <- MCItems
  OclassSize = 3
  JVars = {x, y}
  JKeys <- MCKeys
  IndexKey <- MCIndexKey
  HashCode <- MCHash
  HashInit = 1
  ChainLimit = 0
  NodeIds = {1, 2, 3}
  MaxSlots = 3
  JsonTexts <- MCTexts
  MaxJsonDepth = 3
  SVars = {x, y}
  Texts <- MCTexts2
  Cuts <- MCCuts
  MemoSpace = 1
  MemoUnit = 4
  SmallMemo = 3
  ShrinkSlack = 1
  AccumMin = 2
  AccumBig = 3
  BlockIds = {b1, b2}
  MaxLength = 2
  NaturalWords <- MCNatural
  GlobPatterns <- MCPatterns
  GlobWords <- MCGlobWords
  Utf8Words <- MCUtf8
  Utf8Flags <- MCFlags
  CodeWords <- MCCodes
  Messages <- MCMessages
  Programs <- MCPrograms
  InBufSize = 7
  OutCap = 10
  Window = 2
  FirstSeq = 127
SYMMETRY LibrarySymmetry
INVARIANTS
  SpellingsAgree
  RestoreExact
  JsonIsValue
  RefcountsExact
  ChunksAgree
  
  StringIsValue
  BlocksExact
  NaturalOrder
  GlobExact
  ConversionsExact
  MsgpackExact
  RequestsExact
  AnswersArrive
CHECK_DEADLOCK FALSE
