CONSTANTS
  Path = {p}
  Op = {o1, o2}
  File = {o1, o2, f}
  Chunk = {a}
  NoFile = NoFile
  MaxWrites = 1
SPECIFICATION Spec
INVARIANTS PublishTypeOK PublishedIsWhole TempsAccountedFor CreateRefusesWhatItFound
PROPERTIES PublishedIsFrozen ImplementsDurableStore EveryCallReturns
