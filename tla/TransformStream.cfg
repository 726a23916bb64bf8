CONSTANTS
  CR = CR
  LF = LF
  Blank = {sp, tab}
  Letter = {x}
  Sources <- AllSources
  MaxLength = 5
  MaxBuf = 2
SPECIFICATION Spec
CHECK_DEADLOCK FALSE
INVARIANTS StreamTypeOK HeldIsTheTail PassesAgree ResultIsTransformed WouldChangeIsExact IdempotentWithoutCRCR
