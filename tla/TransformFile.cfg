CONSTANTS
  t1 = t1
  t2 = t2
  raw = raw
  ended = ended
  trimmed = trimmed
  both = both
  null = null
  Path = {p}
  Op = {t1, t2}
  File = {t1, t2, f}
  Chunk = {raw, ended, trimmed, both, null}
  Binary = {null}
  NoFile = NoFile
  Effect <- Both
  Originals <- Contents
  MaxLength = 2
  MaxEdits = 0
SPECIFICATION Spec
INVARIANTS TransformTypeOK LockedWhileReading TempsAccountedFor
PROPERTIES LockedSourceIsStable ImplementsSnapshotStore EveryCallReturns
