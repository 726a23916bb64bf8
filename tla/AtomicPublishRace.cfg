CONSTANTS
  Path = {p}
  Op = {o1, o2}
  File = {o1, o2, f}
  Chunk = {a}
  NoFile = NoFile
  MaxWrites = 2
SPECIFICATION Spec
PROPERTIES NeverOverwritesUnforced
