CONSTANTS
  CR = CR
  LF = LF
  Blank = {sp, tab}
  Letter = {x}
  Sources <- AllSources
  MaxLength = 4
  MaxBuf = 2
SPECIFICATION Spec
CHECK_DEADLOCK FALSE
INVARIANTS Idempotent
