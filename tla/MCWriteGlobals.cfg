CONSTANTS
  N = 4
  Kinds <- EveryKind
  NImports = 2
  NInitFuncs = 2
  MaxPrio = 2
SPECIFICATION Spec
INVARIANT TypeOK
INVARIANT VecExact
INVARIANT InitStatementOrder
CHECK_DEADLOCK FALSE
