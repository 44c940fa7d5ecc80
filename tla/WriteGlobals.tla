----------------------------- MODULE WriteGlobals -----------------------------
(***************************************************************************)
(* Gogo::write_globals: the loop over the package's definitions that fills *)
(* the array VEC handed to the middle end, collects the variable           *)
(* initializations, and builds the statement list of the package's        *)
(* initialization function (with Gogo::init_imports and                    *)
(* Gogo::write_initialization_function).                                   *)
(*                                                                         *)
(* A definition is abstracted to what the loop tells apart.  The ordering *)
(* of the variable initializers by sort_var_inits is modelled in          *)
(* VarInitSort; here the sort returns some permutation of its input.      *)
(***************************************************************************)
EXTENDS Integers, Sequences, FiniteSets

CONSTANTS
  N,            \* number of definitions in the package's bindings
  Kinds,        \* the kinds of definition a program may have
  NImports,     \* imported packages with an init function (main only)
  NInitFuncs,   \* the package's own init functions
  MaxPrio       \* priorities of imported init functions are 1..MaxPrio

(* The kinds of definition, by what write_globals does with them:        *)
(*  "package", "imported", "abstract_const": skipped;                     *)
(*  "error": get_tree yields error_mark_node;                             *)
(*  "decl": a constant, type or function: its decl goes into VEC;         *)
(*  "var_const": a variable whose initializer is constant (DECL_INITIAL); *)
(*  "var_none": a variable with neither initializer nor zero-value code;  *)
(*  "var_init_error": get_init_tree yields error_mark_node;               *)
(*  "var_expr", "var_sink": a non-constant initializer, for a variable or *)
(*     for a sink "_" variable;                                           *)
(*  "var_preinit": a variable with a pre-init block;                     *)
(*  "var_zero": no initializer, but a non-constant zero value.           *)
AllKinds == {"package", "imported", "abstract_const", "error", "decl",
             "var_const", "var_none", "var_init_error", "var_expr",
             "var_sink", "var_preinit", "var_zero"}
ASSUME Kinds \subseteq AllKinds /\ N \in Nat \ {0}

VARIABLES
  defs,         \* the kind of each definition, in binding order
  isMain,       \* package_name() == "main"
  prio,         \* priority of each imported init function
  pc,           \* where write_globals is
  p,            \* the definitions iterator (1..N+1)
  i,            \* the index into VEC
  count,        \* the count of entries of VEC
  vec,          \* vec[j], j in 0..N-1: the definition stored, 0 if none
  varInits,     \* the Var_inits list
  initFndecl,   \* init_fndecl has been created
  stmts,        \* init_stmt_list: records [cat, id]
  wrote         \* the initialization function was written

vars == <<defs, isMain, prio, pc, p, i, count, vec, varInits, initFndecl, stmts, wrote>>

Skipped == {"package", "imported", "abstract_const", "error"}
Vars == {"var_const", "var_none", "var_init_error", "var_expr", "var_sink",
         "var_preinit", "var_zero"}

Range(s) == {s[j] : j \in DOMAIN s}

\* The orderings of a sequence of distinct elements.
Perms(s) == {q \in [1..Len(s) -> Range(s)] : Range(q) = Range(s)}

InitFns == [k \in 1..NInitFuncs |-> [cat |-> "initfn", id |-> k]]

(* init_imports copies the set of imported init functions to a vector    *)
(* and sorts it, so the calls run in increasing priority (Import_init's   *)
(* operator<; equal priorities are taken in a fixed order, here by id).   *)
SortedImports ==
  CHOOSE q \in Perms([k \in 1..NImports |-> k]) :
    \A a, b \in 1..NImports :
      a < b => \/ prio[q[a]] < prio[q[b]]
               \/ prio[q[a]] = prio[q[b]] /\ q[a] < q[b]
ImportCalls == [k \in 1..NImports |-> [cat |-> "import", id |-> SortedImports[k]]]

Init ==
  /\ defs \in [1..N -> Kinds]
  /\ isMain \in BOOLEAN
  /\ prio \in [1..NImports -> 1..MaxPrio]
  /\ pc = "start"
  /\ p = 1
  /\ i = 0
  /\ count = N
  /\ vec = [j \in 0..N-1 |-> 0]
  /\ varInits = <<>>
  /\ initFndecl = FALSE
  /\ stmts = <<>>
  /\ wrote = FALSE

-----------------------------------------------------------------------------
(* The main package first calls the imported packages' init functions.   *)
Begin ==
  /\ pc = "start"
  /\ stmts' = IF isMain THEN ImportCalls ELSE <<>>
  /\ pc' = "loop"
  /\ UNCHANGED <<defs, isMain, prio, p, i, count, vec, varInits, initFndecl, wrote>>

\* Mutant: a skipped definition does not reduce the count.
SkipDefKeepCount ==
  /\ pc = "loop"
  /\ p <= N
  /\ defs[p] \in Skipped
  /\ p' = p + 1
  /\ UNCHANGED <<defs, isMain, prio, pc, i, count, vec, varInits, initFndecl, stmts, wrote>>

\* Mutant: the skip decrements the index and the loop's ++i is lost.
SkipDefDecI ==
  /\ pc = "loop"
  /\ p <= N
  /\ defs[p] \in Skipped
  /\ i' = i - 1
  /\ count' = count - 1
  /\ p' = p + 1
  /\ UNCHANGED <<defs, isMain, prio, pc, vec, varInits, initFndecl, stmts, wrote>>

(* A package, an imported object, an abstract constant, or a definition  *)
(* whose get_tree fails: --i and --count, then the loop's ++i.            *)
SkipDef ==
  /\ pc = "loop"
  /\ p <= N
  /\ defs[p] \in Skipped
  /\ count' = count - 1
  /\ p' = p + 1
  /\ UNCHANGED <<defs, isMain, prio, pc, i, vec, varInits, initFndecl, stmts, wrote>>

(* Any other definition: its decl is stored in VEC[i].  For a variable,  *)
(* a constant initializer becomes DECL_INITIAL; a non-constant one, or a *)
(* pre-init block (for which init_fndecl is created), becomes a Var_init; *)
(* a non-constant zero value is appended to the statements at once.      *)
StoreDef ==
  LET d == defs[p] IN
  /\ pc = "loop"
  /\ p <= N
  /\ d \notin Skipped
  /\ vec' = [vec EXCEPT ![i] = p]
  /\ i' = i + 1
  /\ p' = p + 1
  /\ varInits' = IF d \in {"var_expr", "var_sink", "var_preinit"}
                 THEN Append(varInits, p) ELSE varInits
  /\ initFndecl' = (initFndecl \/ d = "var_preinit")
  /\ stmts' = IF d = "var_zero" THEN Append(stmts, [cat |-> "var", id |-> p]) ELSE stmts
  /\ UNCHANGED <<defs, isMain, prio, pc, count, wrote>>

(* sort_var_inits, then one statement per Var_init in the sorted order.  *)
SortVarInits ==
  /\ pc = "loop"
  /\ p = N + 1
  /\ \E q \in Perms(varInits) :
       stmts' = stmts \o [k \in 1..Len(q) |-> [cat |-> "var", id |-> q[k]]]
  /\ pc' = "initfns"
  /\ UNCHANGED <<defs, isMain, prio, p, i, count, vec, varInits, initFndecl, wrote>>

\* Mutant: the init function calls are put in front of the list.
CallInitFnsFirst ==
  /\ pc = "initfns"
  /\ stmts' = InitFns \o stmts
  /\ pc' = "write"
  /\ UNCHANGED <<defs, isMain, prio, p, i, count, vec, varInits, initFndecl, wrote>>

(* After the variables, a call of each of the package's init functions. *)
CallInitFns ==
  /\ pc = "initfns"
  /\ stmts' = stmts \o InitFns
  /\ pc' = "write"
  /\ UNCHANGED <<defs, isMain, prio, p, i, count, vec, varInits, initFndecl, wrote>>

(* write_initialization_function, when there is something to run or the *)
(* package is main; then VEC[0..count) goes to the middle end.           *)
Write ==
  /\ pc = "write"
  /\ wrote' = (stmts # <<>> \/ isMain)
  /\ pc' = "done"
  /\ UNCHANGED <<defs, isMain, prio, p, i, count, vec, varInits, initFndecl, stmts>>

Next == Begin \/ SkipDef \/ StoreDef \/ SortVarInits \/ CallInitFns \/ Write

Spec == Init /\ [][Next]_vars /\ WF_vars(Next)

-----------------------------------------------------------------------------
TypeOK ==
  /\ pc \in {"start", "loop", "initfns", "write", "done"}
  /\ p \in 1..N+1
  /\ i \in 0..N /\ count \in 0..N
  /\ vec \in [0..N-1 -> 0..N]
  /\ varInits \in Seq(1..N)
  /\ stmts \in Seq([cat : {"import", "var", "initfn"}, id : Nat])

Stored == {k \in 1..N : defs[k] \notin Skipped}

(* When the loop is over, VEC[0..count) holds exactly the definitions     *)
(* that produced a decl, in binding order and with no hole, so that       *)
(* wrapup_global_declarations (vec, count) sees each of them once: the   *)
(* --i / --count of every skip keeps index and count in step.            *)
VecExact ==
  pc = "done" =>
    /\ count = i
    /\ {vec[j] : j \in 0..count-1} = Stored
    /\ \A j \in 0..count-2 : vec[j] < vec[j+1]

Rank(c) == CASE c = "import" -> 0 [] c = "var" -> 1 [] c = "initfn" -> 2

(* The initialization function runs the imported packages' init         *)
(* functions (main package only), then every variable initialization,    *)
(* each once, then the package's init functions in order (Go's package  *)
(* initialization order).                                                 *)
InitStatementOrder ==
  /\ \A a, b \in 1..Len(stmts) : a < b => Rank(stmts[a].cat) <= Rank(stmts[b].cat)
  /\ pc = "done" =>
       /\ {k \in 1..Len(stmts) : stmts[k].cat = "initfn"} # {} =>
            SubSeq(stmts, Len(stmts) - NInitFuncs + 1, Len(stmts)) = InitFns
       /\ {s.id : s \in {stmts[k] : k \in {k \in 1..Len(stmts) : stmts[k].cat = "var"}}}
            = {k \in 1..N : defs[k] \in {"var_expr", "var_sink", "var_preinit", "var_zero"}}
       /\ Cardinality({k \in 1..Len(stmts) : stmts[k].cat = "var"})
            = Cardinality({k \in 1..N : defs[k] \in {"var_expr", "var_sink", "var_preinit", "var_zero"}})
=============================================================================
