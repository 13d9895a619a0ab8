\* Two zimsplit runs with the same prefix, and a stranger's files.
CONSTANTS
  s1 = s1
  s2 = s2
  Splitters = {s1, s2}
  foreign = foreign
  Foreign = foreign
  Total = 4
  Top = 4
  MimePos = 1
  MaxParts = 3
  Buf = 2
  Sizes = {1, 3}
SYMMETRY SplitterSymmetry
SPECIFICATION Spec
CHECK_DEADLOCK FALSE
INVARIANTS
  PlanExact
  DoneReassembles
  NoLeftovers
PROPERTY
  OthersKept
