--------------------------- MODULE MCTypeDescriptor ---------------------------
(* A link of two packages.  Package 1 declares  type T struct { x int }  *)
(* with the pointer method M.  Package 2 declares its own type named T,   *)
(* here U:  type U struct { next *U }, of the same structure as T, with   *)
(* the value method M and the hidden pointer method m, of type func() *U, *)
(* so U's descriptor and *U's are recursive through their fields and      *)
(* through the method types.  Package 1 uses U, *U and []*U; package 2    *)
(* uses *T and two separate Type objects for []*U.  Interface E has only  *)
(* exported methods and both T and U implement it; interface J, of        *)
(* package 2, has the hidden method, which U implements.  Package 1       *)
(* converts T and U to E and U to J; package 2 converts T to E.           *)
(* Function F of package 1 declares a local type X and converts a value   *)
(* of it to an interface, which uses its descriptor.  In MCUsesCollide    *)
(* a second local type X is converted as well; it is declared in G, or in *)
(* MCInFunctionSame in F again (in another block of F, or as the methods  *)
(* T.F and U.F).                                                           *)
EXTENDS TypeDescriptor

CONSTANTS T, PT, U, PU, I, S1, S2, X1, X2, FT, FV, FU, E, J, None

MCPkgs == {1, 2}
MCTypes == {T, PT, U, PU, I, S1, S2, X1, X2, FT, FV, FU}
MCNamed == {T, U, I, X1, X2}
MCBuiltin == {I}
MCOwner == (T :> 1) @@ (U :> 2) @@ (X1 :> 1) @@ (X2 :> 1)
MCTypeName == (T :> "T") @@ (U :> "T") @@ (I :> "int") @@ (X1 :> "X") @@ (X2 :> "X")
MCInFunction == (T :> "") @@ (U :> "") @@ (X1 :> "F") @@ (X2 :> "G")
MCInFunctionSame == (T :> "") @@ (U :> "") @@ (X1 :> "F") @@ (X2 :> "F")
MCPkgName == (1 :> "main") @@ (2 :> "list")
MCUniquePrefix == (1 :> "go") @@ (2 :> "go")
MCPtrTo == [t \in MCTypes |-> CASE t = PT -> T [] t = PU -> U [] OTHER -> None]
MCPtrOf == (T :> PT) @@ (U :> PU)
MCShape == (T :> "struct") @@ (U :> "struct") @@ (PT :> "*T") @@ (PU :> "*U")
           @@ (I :> "int") @@ (S1 :> "[]*U") @@ (S2 :> "[]*U")
           @@ (X1 :> "int") @@ (X2 :> "int")
           @@ (FT :> "func(*T)") @@ (FV :> "func(*U)") @@ (FU :> "func(*U) *U")
MCKind == [t \in MCTypes |->
            CASE t \in {T, U} -> "struct" [] t \in {PT, PU} -> "ptr"
              [] t \in {S1, S2} -> "slice" [] t \in {FT, FV, FU} -> "func"
              [] OTHER -> "int"]
MCElem == [t \in MCTypes |-> IF t \in {S1, S2} THEN PU ELSE None]
MCKey == [t \in MCTypes |-> None]
MCFields == [t \in MCTypes |-> CASE t = T -> <<I>> [] t = U -> <<PU>> [] OTHER -> <<>>]
MCRecv == [t \in MCTypes |-> CASE t = FT -> PT [] t = FV -> U [] t = FU -> PU [] OTHER -> None]
MCParams == [t \in MCTypes |-> <<>>]
MCResults == [t \in MCTypes |-> IF t = FU THEN <<PU>> ELSE <<>>]
\* T's pointer method M; U's value method M and pointer method m, hidden,
\* whose packed name sorts first.
MCMethods == [t \in MCNamed |->
               CASE t = T -> {[rank |-> 2, type |-> FT, value |-> FALSE, ambiguous |-> FALSE]}
                 [] t = U -> {[rank |-> 1, type |-> FU, value |-> FALSE, ambiguous |-> FALSE],
                              [rank |-> 2, type |-> FV, value |-> TRUE, ambiguous |-> FALSE]}
                 [] OTHER -> {}]
MCUses == (1 :> {PU, S1, U, X1}) @@ (2 :> {PT, S1, S2})
MCUsesCollide == (1 :> {PU, S1, U, X1, X2}) @@ (2 :> {PT, S1, S2})
MCIfaces == {E, J}
MCHidden == {J}
MCImpl == {<<E, T>>, <<E, U>>, <<J, U>>}
MCImtName == (<<E, T>> :> "imt_E_T") @@ (<<E, U>> :> "imt_E_U") @@ (<<J, U>> :> "imt_J_U")
MCConvs == (1 :> {<<E, T>>, <<E, U>>, <<J, U>>}) @@ (2 :> {<<E, T>>})
=============================================================================
