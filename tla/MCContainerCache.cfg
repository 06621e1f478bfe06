SPECIFICATION Spec
CONSTANTS
  Threads = {t1, t2}
  NoContainer = NoContainer
  Containers = {c1, c2}
  Ttl = 1
  MissTtl = 0
  FetchMax = 1
  MaxTime = 4
  Starts = {"warm", "cold", "coldAlone"}
INVARIANTS
  HitsAreFresh
  MissesAreNew
CONSTRAINT FirstLookupsAtOnce
SYMMETRY Symmetry
