CONSTANTS
  I1 = I1
  I2 = I2
  L1 = L1
  H1 = H1
  HB = HB
  R1 = R1
  F = F
  CV = CV
  M = M
  G = G
  GB = GB
  K = K
  TD = TD
  Nil = Nil
  NoObj = Nil
  Objs <- MCObjs
  Class <- MCClass
  Owner <- MCOwner
  ClosureVar <- MCClosureVar
  Broken <- MCBroken
  MaxCalls = 5
  MaxDepth = 4
SPECIFICATION Spec
INVARIANT TypeOK
INVARIANT NoSharedExpr
INVARIANT ContextIsFndecl
INVARIANT BodyOnce
PROPERTY CallsReturn
CHECK_DEADLOCK FALSE
