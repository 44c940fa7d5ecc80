---------------------------- MODULE MCVarInitSort ----------------------------
(* Model-checking instances of VarInitSort.                               *)
EXTENDS VarInitSort

CONSTANTS f1

\* Only initializer expressions: the dependency test is exact reachability.
InitOnlyKinds == {"init"}
\* All three shapes write_globals can hand to the sort.
AllKinds == {"init", "preinit", "both"}
\* Only pre-init blocks and plain initializers, no function.
PreinitKinds == {"init", "preinit"}
=============================================================================
