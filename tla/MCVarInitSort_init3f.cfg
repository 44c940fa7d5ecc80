CONSTANTS
  N = 3
  Funcs = {f1}
  Kinds <- InitOnlyKinds
  MaxReads = 4
  MaxWaiting = 12
  f1 = f1
SPECIFICATION Spec
INVARIANT TypeOK
INVARIANT InitOrderSound
INVARIANT NoIteratorOverrun
CHECK_DEADLOCK FALSE
