---------------------------- MODULE MCWriteGlobals ----------------------------
(* Model-checking instances of WriteGlobals.                              *)
EXTENDS WriteGlobals

\* Every kind of definition.
EveryKind == AllKinds
\* Kinds that lead to variable initialization statements, and one skip.
StmtKinds == {"error", "decl", "var_expr", "var_preinit", "var_zero"}
=============================================================================
