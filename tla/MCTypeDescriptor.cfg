CONSTANTS
  T = T
  PT = PT
  U = U
  PU = PU
  I = I
  S1 = S1
  S2 = S2
  X1 = X1
  X2 = X2
  FT = FT
  FV = FV
  FU = FU
  E = E
  J = J
  None = None
  NoType = None
  Pkgs <- MCPkgs
  Types <- MCTypes
  Named <- MCNamed
  Builtin <- MCBuiltin
  Owner <- MCOwner
  TypeName <- MCTypeName
  InFunction <- MCInFunction
  PkgName <- MCPkgName
  UniquePrefix <- MCUniquePrefix
  PtrTo <- MCPtrTo
  PtrOf <- MCPtrOf
  Shape <- MCShape
  Kind <- MCKind
  Elem <- MCElem
  Key <- MCKey
  Fields <- MCFields
  Recv <- MCRecv
  Params <- MCParams
  Results <- MCResults
  Methods <- MCMethods
  Uses <- MCUses
  Ifaces <- MCIfaces
  Hidden <- MCHidden
  Impl <- MCImpl
  ImtName <- MCImtName
  Convs <- MCConvs
SPECIFICATION Spec
INVARIANT TypeOK
INVARIANT UniqueDeclNames
INVARIANT NoReentry
INVARIANT LinkComplete
INVARIANT OneDefinition
CHECK_DEADLOCK FALSE
