CONSTANTS
  t1 = t1
  t2 = t2
  raw = raw
  ended = ended
  trimmed = trimmed
  both = both
  null = null
  Path = {p}
  Op = {t1}
  File = {t1, f}
  Chunk = {raw, ended, trimmed, both, null}
  Binary = {null}
  NoFile = NoFile
  Effect <- One
  Originals <- Contents
  MaxLength = 2
  MaxEdits = 2
SPECIFICATION Spec
PROPERTIES CommitIsWhole OnlyLateEditsAreMissed
