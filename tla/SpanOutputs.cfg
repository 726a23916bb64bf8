CONSTANTS
  mark = mark
  end = end
  text = text
  p1 = p1
  p2 = p2
  c1 = c1
  c2 = c2
  c3 = c3
  Cell = {mark, end, text}
  Path = {p1, p2}
  Call = {c1, c2, c3}
  Served = {c1, c2}
  w = w
  Writer = {w}
  Free = Free
  Nothing = Nothing
  Directory = Directory
  Source = Source
  Workloads <- Loads
SPECIFICATION Spec
INVARIANTS SpanOutputsTypeOK OutputsAreOneVersion PublishedIsAPrefix LockedUntilPublished ScanFindsTheSections PreviewKeepsItsWord
PROPERTIES ServedCallsDoNotCollide EveryCallReturns
CHECK_DEADLOCK FALSE
