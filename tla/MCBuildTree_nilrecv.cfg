CONSTANTS
  A = A
  B = B
  C = C
  Funcs <- MCFuncs
  Refcounts <- MCRefcounts
  Defers <- MCDefers
  ValueRecv <- MCValueRecv
  RecvInHeap <- MCRecvInHeapQueued
  ParmInHeap <- MCParmInHeap
  Values <- MCValues
  Zero = 0
  NilRecvCalls = TRUE
  MaxDepth = 3
  MaxCalls = 4
SPECIFICATION SpecNoDeferPanic
INVARIANT ChainMatchesStack
CHECK_DEADLOCK FALSE
