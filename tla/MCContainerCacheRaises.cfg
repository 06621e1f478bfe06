SPECIFICATION Spec
CONSTANTS
  Threads = {t1, t2}
  NoContainer = NoContainer
  Containers = {c1}
  Ttl = 2
  MissTtl = 1
  FetchMax = 1
  MaxTime = 2
  Starts = {"cold"}
INVARIANTS
  LookupsDoNotRaise
SYMMETRY Symmetry
CHECK_DEADLOCK FALSE
