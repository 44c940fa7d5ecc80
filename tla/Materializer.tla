----------------------------- MODULE Materializer -----------------------------
(***************************************************************************)
(* The Declaration Materializer of gogo-tree.cc: Named_object::get_tree    *)
(* with its cache tree_, Named_object::get_id with the static counter      *)
(* init_index, and Function::get_or_make_decl / Function_declaration::     *)
(* get_or_make_decl with their cache fndecl_.                              *)
(*                                                                         *)
(* The calls nest: get_tree of a local variable calls get_id and           *)
(* get_or_make_decl of its function; get_or_make_decl of a closure calls   *)
(* get_tree of its closure variable; get_tree of a function builds its     *)
(* body, which calls get_tree of the function's locals.  The nesting is an *)
(* explicit call stack of frames, one step of a frame per action.          *)
(*                                                                         *)
(* Trees are abstracted to integers: 0 is NULL_TREE, -1 error_mark_node,   *)
(* n > 0 a node.  A decl may be shared by many uses; an expression node   *)
(* (INDIRECT_REF of a heap variable, COMPONENT_REF of a result) may not.   *)
(***************************************************************************)
EXTENDS Integers, Sequences, FiniteSets

CONSTANTS
  Objs,         \* the named objects
  Class,        \* Class[o]: what kind of object o is (see Classes)
  Owner,        \* Owner[o]: the function a local object belongs to
  ClosureVar,   \* ClosureVar[f]: the closure variable of f, or NoObj
  Broken,       \* objects whose type tree is error_mark_node
  NoObj,        \* no object
  MaxCalls,     \* bound on the calls made by the driver and the bodies
  MaxDepth      \* bound on the depth of the call stack

(* "initfn": a function named init that is not a method (get_id numbers it);
   "func": any other function with a body; "fdecl": a function declaration;
   "gvar": a global variable; "lvar", "hvar": a local variable on the stack,
   in the heap; "result": a named result of a function with several results;
   "const", "type": a constant, a named type; "typedecl": an undefined type. *)
Classes == {"initfn", "func", "fdecl", "gvar", "lvar", "hvar", "result",
            "const", "type", "typedecl"}
Funcs == {o \in Objs : Class[o] \in {"initfn", "func"}}
Locals == {o \in Objs : Class[o] \in {"lvar", "hvar", "result"}}
Globals == Objs \ Locals

ASSUME Class \in [Objs -> Classes]
ASSUME \A o \in Locals : Owner[o] \in Funcs
ASSUME \A f \in Funcs : ClosureVar[f] \in {NoObj} \cup
          {v \in Locals : Class[v] \in {"lvar", "hvar"} /\ Owner[v] = f}

None == 0
Err == -1

VARIABLES
  tree_,        \* Named_object::tree_
  fndecl_,      \* Function::fndecl_ / Function_declaration::fndecl_
  fname,        \* the DECL_NAME each fndecl_ was built with
  context,      \* DECL_CONTEXT of each local's decl
  init_index,   \* the static counter of Named_object::get_id
  nodes,        \* nodes allocated so far (the next one is nodes + 1)
  uses,         \* the expression nodes handed out, in order
  built,        \* times Function::build_tree ran for each function
  errors,       \* diagnostics issued
  stack,        \* the call stack
  calls         \* calls made by the driver and the bodies

vars == <<tree_, fndecl_, fname, context, init_index, nodes, uses, built,
          errors, stack, calls>>

-----------------------------------------------------------------------------
(* Named_object::get_id: local variables, types and ordinary functions are *)
(* named after the object; a non-method "init" of this package gets        *)
(* "pkg.init.N" for the current init_index, which is then incremented.      *)
NextIndex(k) == k + 1

GetIdName(o) == IF Class[o] = "initfn" THEN <<"init", init_index>> ELSE <<"obj", o>>
GetIdIndex(o) == IF Class[o] = "initfn" THEN NextIndex(init_index) ELSE init_index

IsExpr(o) == Class[o] \in {"hvar", "result"}

Top == stack[Len(stack)]
Push(fr) == Append(stack, fr)
Pop == SubSeq(stack, 1, Len(stack) - 1)
Frame(k, o, fn, id) == [k |-> k, o |-> o, fn |-> fn, id |-> id, pc |-> "start"]
SetPc(pc) == [stack EXCEPT ![Len(stack)].pc = pc]

Init ==
  /\ tree_ = [o \in Objs |-> None]
  /\ fndecl_ = [o \in Objs |-> None]
  /\ fname = [o \in Objs |-> <<"none", 0>>]
  /\ context = [o \in Locals |-> None]
  /\ init_index = 0
  /\ nodes = 0
  /\ uses = <<>>
  /\ built = [f \in Funcs |-> 0]
  /\ errors = 0
  /\ stack = <<>>
  /\ calls = 0

-----------------------------------------------------------------------------
(* Callers.  write_globals calls get_tree for every definition (548) and   *)
(* again for every init function (633); a method table or an itable calls *)
(* get_id and get_or_make_decl of a method directly (2367, 3669).          *)
DriverGetTree ==
  /\ stack = <<>> /\ calls < MaxCalls
  /\ \E o \in Globals \ {g \in Objs : Class[g] = "fdecl"} :
       stack' = <<Frame("tree", o, NoObj, <<>>)>>
  /\ calls' = calls + 1
  /\ UNCHANGED <<tree_, fndecl_, fname, context, init_index, nodes, uses, built, errors>>

DriverMakeDecl ==
  /\ stack = <<>> /\ calls < MaxCalls
  /\ \E f \in {g \in Objs : Class[g] \in {"func", "fdecl"}} :
       stack' = <<Frame("make", f, NoObj, GetIdName(f))>>
  /\ calls' = calls + 1
  /\ UNCHANGED <<tree_, fndecl_, fname, context, init_index, nodes, uses, built, errors>>

(* Function::build_tree and Block::get_tree of function f materialize its  *)
(* parameters, locals and named results (1280, 1499, 1533).                *)
BodyGetTree ==
  /\ stack # <<>> /\ Top.k = "tree" /\ Top.pc = "body"
  /\ calls < MaxCalls /\ Len(stack) < MaxDepth
  /\ \E o \in Locals :
       /\ Owner[o] = Top.o
       /\ stack' = Push(Frame("tree", o, Top.o, <<>>))
  /\ calls' = calls + 1
  /\ UNCHANGED <<tree_, fndecl_, fname, context, init_index, nodes, uses, built, errors>>

-----------------------------------------------------------------------------
(* Named_object::get_tree, one frame step per action.                      *)
TreeStart == stack # <<>> /\ Top.k = "tree" /\ Top.pc = "start"

\* Mutant: a heap variable's cached INDIRECT_REF is returned as it is.
TreeCachedShared ==
  /\ TreeStart /\ tree_[Top.o] # None
  /\ uses' = IF IsExpr(Top.o) /\ tree_[Top.o] # Err THEN Append(uses, tree_[Top.o]) ELSE uses
  /\ stack' = Pop
  /\ UNCHANGED <<tree_, fndecl_, fname, context, init_index, nodes, built, errors, calls>>

\* Mutant: the error_mark_node test is dropped for a heap variable.
TreeCachedNoErrCheck ==
  LET o == Top.o IN
  /\ TreeStart /\ tree_[o] # None
  /\ nodes' = IF Class[o] = "hvar" /\ tree_[o] # Err THEN nodes + 1 ELSE nodes
  /\ uses' = CASE Class[o] = "hvar" /\ tree_[o] = Err -> Append(uses, Err)
              [] Class[o] = "hvar" -> Append(uses, nodes + 1)
              [] OTHER -> uses
  /\ stack' = Pop
  /\ UNCHANGED <<tree_, fndecl_, fname, context, init_index, built, errors, calls>>

(* tree_ is set: return it, except that a heap variable gets a fresh       *)
(* INDIRECT_REF over the cached pointer.                                    *)
TreeCached ==
  LET o == Top.o
      fresh == Class[o] = "hvar" /\ tree_[o] # Err
  IN
  /\ TreeStart /\ tree_[o] # None
  /\ nodes' = IF fresh THEN nodes + 1 ELSE nodes
  /\ uses' = IF fresh THEN Append(uses, nodes + 1) ELSE uses
  /\ stack' = Pop
  /\ UNCHANGED <<tree_, fndecl_, fname, context, init_index, built, errors, calls>>

(* NAMED_OBJECT_TYPE_DECLARATION: "reference to undefined type", error    *)
(* returned and nothing cached.                                            *)
TreeTypeDecl ==
  /\ TreeStart /\ tree_[Top.o] = None /\ Class[Top.o] = "typedecl"
  /\ errors' = errors + 1
  /\ stack' = Pop
  /\ UNCHANGED <<tree_, fndecl_, fname, context, init_index, nodes, uses, built, calls>>

(* NAMED_OBJECT_RESULT_VAR: a fresh COMPONENT_REF of the return value,    *)
(* returned before tree_ is set.                                            *)
TreeResult ==
  /\ TreeStart /\ tree_[Top.o] = None /\ Class[Top.o] = "result"
  /\ nodes' = nodes + 1
  /\ uses' = Append(uses, nodes + 1)
  /\ stack' = Pop
  /\ UNCHANGED <<tree_, fndecl_, fname, context, init_index, built, errors, calls>>

(* A constant, a named type or a global variable: a decl, or error_mark_node *)
(* when its type is broken; cached.  (A type's descriptors are TypeDescriptor.) *)
TreeGlobal ==
  LET o == Top.o IN
  /\ TreeStart /\ tree_[o] = None /\ Class[o] \in {"const", "type", "gvar"}
  /\ tree_' = [tree_ EXCEPT ![o] = IF o \in Broken THEN Err ELSE nodes + 1]
  /\ nodes' = IF o \in Broken THEN nodes ELSE nodes + 1
  /\ stack' = Pop
  /\ UNCHANGED <<fndecl_, fname, context, init_index, uses, built, errors, calls>>

(* A local variable whose type is broken: error_mark_node, cached.        *)
TreeLocalBroken ==
  /\ TreeStart /\ tree_[Top.o] = None /\ Class[Top.o] \in {"lvar", "hvar"}
  /\ Top.o \in Broken
  /\ tree_' = [tree_ EXCEPT ![Top.o] = Err]
  /\ stack' = Pop
  /\ UNCHANGED <<fndecl_, fname, context, init_index, nodes, uses, built, errors, calls>>

(* A local variable: DECL_CONTEXT needs the function's decl, so            *)
(* function->get_id () and get_or_make_decl () are called first.           *)
TreeLocal ==
  LET fn == Top.fn IN
  /\ TreeStart /\ tree_[Top.o] = None /\ Class[Top.o] \in {"lvar", "hvar"}
  /\ Top.o \notin Broken
  /\ Len(stack) < MaxDepth
  /\ init_index' = GetIdIndex(fn)
  /\ stack' = Append(SetPc("ctx"), Frame("make", fn, NoObj, GetIdName(fn)))
  /\ UNCHANGED <<tree_, fndecl_, fname, context, nodes, uses, built, errors, calls>>

(* The decl, with DECL_CONTEXT the function's decl; a heap variable is a   *)
(* pointer and its use is an INDIRECT_REF, which is what tree_ caches.     *)
TreeLocalDone ==
  LET o == Top.o IN
  /\ stack # <<>> /\ Top.k = "tree" /\ Top.pc = "ctx"
  /\ context' = [context EXCEPT ![o] = fndecl_[Top.fn]]
  /\ nodes' = IF Class[o] = "hvar" THEN nodes + 2 ELSE nodes + 1
  /\ tree_' = [tree_ EXCEPT ![o] = nodes']
  /\ uses' = IF Class[o] = "hvar" THEN Append(uses, nodes') ELSE uses
  /\ stack' = Pop
  /\ UNCHANGED <<fndecl_, fname, init_index, built, errors, calls>>

\* Mutant: get_tree of a function ignores the cached tree_.
TreeFuncNoCache ==
  /\ stack # <<>> /\ Top.k = "tree" /\ Top.pc = "start"
  /\ Class[Top.o] \in {"initfn", "func"}
  /\ Len(stack) < MaxDepth
  /\ init_index' = GetIdIndex(Top.o)
  /\ stack' = Append(SetPc("made"), Frame("make", Top.o, NoObj, GetIdName(Top.o)))
  /\ UNCHANGED <<tree_, fndecl_, fname, context, nodes, uses, built, errors, calls>>

(* A function: its name from get_id (an init function takes the next      *)
(* init_index), then get_or_make_decl.                                     *)
TreeFunc ==
  /\ TreeStart /\ tree_[Top.o] = None /\ Class[Top.o] \in {"initfn", "func"}
  /\ Len(stack) < MaxDepth
  /\ init_index' = GetIdIndex(Top.o)
  /\ stack' = Append(SetPc("made"), Frame("make", Top.o, NoObj, GetIdName(Top.o)))
  /\ UNCHANGED <<tree_, fndecl_, fname, context, nodes, uses, built, errors, calls>>

(* The decl is built: Function::build_tree lowers the body.               *)
TreeFuncBody ==
  /\ stack # <<>> /\ Top.k = "tree" /\ Top.pc = "made"
  /\ fndecl_[Top.o] # Err
  /\ built' = [built EXCEPT ![Top.o] = @ + 1]
  /\ stack' = SetPc("body")
  /\ UNCHANGED <<tree_, fndecl_, fname, context, init_index, nodes, uses, errors, calls>>

(* The body is done (or the decl is error_mark_node): tree_ caches the decl. *)
TreeFuncDone ==
  /\ stack # <<>> /\ Top.k = "tree"
  /\ \/ Top.pc = "body"
     \/ Top.pc = "made" /\ fndecl_[Top.o] = Err
  /\ tree_' = [tree_ EXCEPT ![Top.o] = fndecl_[Top.o]]
  /\ stack' = Pop
  /\ UNCHANGED <<fndecl_, fname, context, init_index, nodes, uses, built, errors, calls>>

-----------------------------------------------------------------------------
(* Function::get_or_make_decl and Function_declaration::get_or_make_decl. *)
MakeStart == stack # <<>> /\ Top.k = "make" /\ Top.pc = "start"

(* fndecl_ is set: return it; the id passed in is not used.               *)
MakeCached ==
  /\ MakeStart /\ fndecl_[Top.o] # None
  /\ stack' = Pop
  /\ UNCHANGED <<tree_, fndecl_, fname, context, init_index, nodes, uses, built, errors, calls>>

(* The function type is error_mark_node: so is fndecl_.                   *)
MakeBroken ==
  /\ MakeStart /\ fndecl_[Top.o] = None /\ Top.o \in Broken
  /\ fndecl_' = [fndecl_ EXCEPT ![Top.o] = Err]
  /\ stack' = Pop
  /\ UNCHANGED <<tree_, fname, context, init_index, nodes, uses, built, errors, calls>>

HasClosure(f) == Class[f] \in {"initfn", "func"} /\ ClosureVar[f] # NoObj

\* Mutant: fndecl_ is not consulted; a new decl is built on every call.
MakeDeclAlways ==
  LET f == Top.o IN
  /\ MakeStart /\ f \notin Broken
  /\ nodes' = nodes + 1
  /\ fndecl_' = [fndecl_ EXCEPT ![f] = nodes + 1]
  /\ fname' = [fname EXCEPT ![f] = Top.id]
  /\ IF HasClosure(f)
     THEN /\ Len(stack) < MaxDepth
          /\ stack' = Append(SetPc("closure"), Frame("tree", ClosureVar[f], f, <<>>))
     ELSE stack' = Pop
  /\ UNCHANGED <<tree_, context, init_index, uses, built, errors, calls>>

\* Mutant: fndecl_ is stored only after the closure variable is built.
MakeDeclLate ==
  LET f == Top.o IN
  /\ MakeStart /\ fndecl_[f] = None /\ f \notin Broken
  /\ nodes' = nodes + 1
  /\ IF HasClosure(f)
     THEN /\ Len(stack) < MaxDepth
          /\ stack' = Append(SetPc("closure"), Frame("tree", ClosureVar[f], f, <<>>))
          /\ UNCHANGED <<fndecl_, fname>>
     ELSE /\ fndecl_' = [fndecl_ EXCEPT ![f] = nodes + 1]
          /\ fname' = [fname EXCEPT ![f] = Top.id]
          /\ stack' = Pop
  /\ UNCHANGED <<tree_, context, init_index, uses, built, errors, calls>>

(* Build the FUNCTION_DECL named ID and store it in fndecl_ at once; then, *)
(* for a closure, get_tree of the closure variable (static chain).         *)
MakeDecl ==
  LET f == Top.o IN
  /\ MakeStart /\ fndecl_[f] = None /\ f \notin Broken
  /\ nodes' = nodes + 1
  /\ fndecl_' = [fndecl_ EXCEPT ![f] = nodes + 1]
  /\ fname' = [fname EXCEPT ![f] = Top.id]
  /\ IF HasClosure(f)
     THEN /\ Len(stack) < MaxDepth
          /\ stack' = Append(SetPc("closure"), Frame("tree", ClosureVar[f], f, <<>>))
     ELSE stack' = Pop
  /\ UNCHANGED <<tree_, context, init_index, uses, built, errors, calls>>

(* The closure variable's decl is the static chain decl; return.          *)
MakeClosureDone ==
  /\ stack # <<>> /\ Top.k = "make" /\ Top.pc = "closure"
  /\ stack' = Pop
  /\ UNCHANGED <<tree_, fndecl_, fname, context, init_index, nodes, uses, built, errors, calls>>

Next ==
  \/ DriverGetTree \/ DriverMakeDecl \/ BodyGetTree
  \/ TreeCached \/ TreeTypeDecl \/ TreeResult \/ TreeGlobal
  \/ TreeLocalBroken \/ TreeLocal \/ TreeLocalDone
  \/ TreeFunc \/ TreeFuncBody \/ TreeFuncDone
  \/ MakeCached \/ MakeBroken \/ MakeDecl \/ MakeClosureDone

(* The front end is sequential: a call in progress keeps running.        *)
Spec == Init /\ [][Next]_vars /\ WF_vars(Next)

-----------------------------------------------------------------------------
TypeOK ==
  /\ tree_ \in [Objs -> Int] /\ fndecl_ \in [Objs -> Int]
  /\ context \in [Locals -> Int]
  /\ init_index \in Nat /\ nodes \in Nat /\ errors \in Nat
  /\ uses \in Seq(1..nodes)
  /\ built \in [Funcs -> Nat]
  /\ stack \in Seq([k : {"tree", "make"}, o : Objs, fn : Objs \cup {NoObj},
                    id : {<<>>} \cup ({"init"} \X Nat) \cup ({"obj"} \X Objs),
                    pc : {"start", "ctx", "made", "body", "closure"}])

(* Every expression node handed out for a heap variable or a result is    *)
(* used once: get_tree rebuilds the INDIRECT_REF on every call after the  *)
(* first (spec 4.1: never cache the dereference node), so no two uses     *)
(* share a node.                                                           *)
NoSharedExpr == \A a, b \in 1..Len(uses) : a # b => uses[a] # uses[b]

(* The DECL_CONTEXT of every materialized local is the FUNCTION_DECL that *)
(* carries its function's body: get_or_make_decl returns one decl per      *)
(* function however often, and from wherever, it is called.                *)
ContextIsFndecl ==
  \A v \in Locals :
    tree_[v] \notin {None, Err} /\ Class[v] # "result" => context[v] = fndecl_[Owner[v]]

(* Each function body is lowered at most once, although write_globals     *)
(* asks for the tree of an init function twice (548, 633).                 *)
BodyOnce == \A f \in Funcs : built[f] <= 1

(* Every call of get_tree or get_or_make_decl returns: the closure        *)
(* variable's get_tree re-enters get_or_make_decl, which must find fndecl_ *)
(* already set.                                                            *)
CallsReturn == [](stack # <<>> => <>(stack = <<>>))
=============================================================================
