CONSTANTS
  N = 3
  Funcs = {}
  Kinds <- PreinitKinds
  MaxReads = 3
  MaxWaiting = 12
  f1 = f1
SPECIFICATION Spec
INVARIANT InitOrderSound
CHECK_DEADLOCK FALSE
