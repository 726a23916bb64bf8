SPECIFICATION Spec

CONSTANTS
  cr = cr
  lf = lf
  x = x
  y = y
  dot = dot
  con = con
  sp = sp
  CR = cr
  LF = lf
  Byte <- Bytes_
  Blank = {dot, sp}
  Space = {sp}
  Reserved <- ReservedNames
  SlugWords = 2
  PrefixBytes = 3
  Padded = 100
  Jobs <- Jobs_
  Chunks = {1, 2, 5}
  GrownChunk = 3
  MatchChunk = 2

INVARIANTS
  LineScanTypeOK
  HandleInPlace
  AnswersAreRight
  SectionsAreTheParts
  NamesDiffer

PROPERTIES
  HandsOverTheLines
  NothingOnceCancelled
  ScanEnds
