---------------------------- MODULE MCMaterializer ----------------------------
(* A package with two init functions, one of them with a stack local, a    *)
(* heap local and a named result, the other with a broken heap local; a closure with its closure variable;    *)
(* a method declaration whose type is broken; a global variable, a broken one, a constant and  *)
(* an undefined type.                                                      *)
EXTENDS Materializer

CONSTANTS I1, I2, L1, H1, HB, R1, F, CV, M, G, GB, K, TD, Nil

MCObjs == {I1, I2, L1, H1, HB, R1, F, CV, M, G, GB, K, TD}
MCClass ==
  [o \in MCObjs |->
     CASE o \in {I1, I2} -> "initfn"
       [] o = F -> "func"
       [] o = M -> "fdecl"
       [] o \in {L1, CV} -> "lvar"
       [] o \in {H1, HB} -> "hvar"
       [] o = R1 -> "result"
       [] o \in {G, GB} -> "gvar"
       [] o = K -> "const"
       [] o = TD -> "typedecl"]
MCOwner == [o \in MCObjs |-> CASE o = CV -> F [] o = HB -> I2 [] OTHER -> I1]
MCClosureVar == [o \in MCObjs |-> IF o = F THEN CV ELSE Nil]
MCBroken == {GB, HB, M}
=============================================================================
