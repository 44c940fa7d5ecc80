CONSTANTS
  N = 4
  Funcs = {}
  Kinds <- PreinitKinds
  MaxReads = 1
  MaxWaiting = 12
  f1 = f1
SPECIFICATION Spec
INVARIANT TopologicalWhenAcyclic
CHECK_DEADLOCK FALSE
