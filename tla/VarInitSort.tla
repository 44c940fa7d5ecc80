------------------------------ MODULE VarInitSort ------------------------------
(***************************************************************************)
(* Ordering of package-level variable initializers in gogo-tree.cc:        *)
(* sort_var_inits() over the std::list<Var_init> built by write_globals(), *)
(* with the dependency test expression_requires() / Find_var.              *)
(*                                                                         *)
(* The program is an input: every variable in the list has an initializer *)
(* expression and/or a pre-init block, each reading a set of objects       *)
(* (variables of the list, or functions of the package whose body reads a *)
(* set of objects).  Init enumerates every such program over the given    *)
(* constants; the sort itself is then deterministic.                      *)
(*                                                                         *)
(* The list is modelled with libstdc++ iterator semantics: positions       *)
(* 1..Len(list) and the end() sentinel 0, where ++end() yields begin().    *)
(* Advancing past end() is undefined in C++; the circular result is what  *)
(* the build produces, and the flag "overrun" records that it happened.   *)
(***************************************************************************)
EXTENDS Integers, Sequences, FiniteSets

CONSTANTS
  N,            \* number of variables with initializers, in declaration order 1..N
  Funcs,        \* functions of the package that initializers may call
  Kinds,        \* the shapes of variable allowed: subset of {"init", "preinit", "both"}
  MaxReads,     \* bound on the objects one initializer or block reads
  MaxWaiting    \* bound on a Var_init::waiting_ counter

ASSUME N \in Nat \ {0}
ASSUME Kinds \subseteq {"init", "preinit", "both"} /\ Kinds # {}
ASSUME MaxReads \in Nat /\ MaxWaiting \in Nat

Vars == 1..N
Objs == Vars \cup Funcs

VARIABLES
  hasInit,      \* var->var_value()->init() != NULL
  initRefs,     \* objects read by the initializer expression
  preRefs,      \* objects read by the pre-init block ({} when there is none)
  body,         \* objects read by each function body
  list,         \* the Var_inits list: a sequence of variables
  waiting,      \* Var_init::waiting_ of each variable
  ready,        \* the READY list, in final initialization order
  errors,       \* diagnostics issued, in order
  overrun       \* an iterator was advanced past end()

prog == <<hasInit, initRefs, preRefs, body>>
vars == <<hasInit, initRefs, preRefs, body, list, waiting, ready, errors, overrun>>

-----------------------------------------------------------------------------
(* Find_var::expression: from a variable with an initializer it descends  *)
(* into that initializer only (never into a pre-init block); from a       *)
(* function it descends into the body.  seen_objects bounds the search,   *)
(* so the result is plain reachability.                                    *)
\* Mutant: Find_var does not descend into variable initializers.
DescendNoInits(o) == IF o \in Funcs THEN body[o] ELSE {}
\* Mutant: Find_var does not traverse the body of a referenced function.
DescendNoFuncs(o) == IF o \in Funcs THEN {} ELSE IF hasInit[o] THEN initRefs[o] ELSE {}

Descend(o) ==
  IF o \in Funcs THEN body[o]
  ELSE IF hasInit[o] THEN initRefs[o] ELSE {}

RECURSIVE Closure(_, _, _)
Closure(Step(_), frontier, seen) ==
  IF frontier = {} THEN seen
  ELSE LET new == UNION {Step(o) : o \in frontier} \ seen
       IN  Closure(Step, new, seen \cup new)

\* A pre-init block without an initializer is the one that stores into the
\* variable, so the block refers to the variable itself.
Refs(v) == initRefs[v] \cup preRefs[v] \cup (IF hasInit[v] THEN {} ELSE {v})

\* expression_requires(init, preinit, var): does the initializer or the
\* pre-init block of v reach w?
Requires(v, w) == w \in Closure(Descend, Refs(v), Refs(v))

-----------------------------------------------------------------------------
(* Iterator arithmetic on the list (position 0 is end()).                 *)
Advance(pos, k) == (pos + k) % (Len(list) + 1)

\* list.splice(p3, list, begin()): move the head in front of position p3.
\* libstdc++ does nothing when p3 is the head itself or its successor.
SpliceHead(p3) ==
  IF p3 \in {1, 2} THEN list
  ELSE IF p3 = 0 THEN Append(Tail(list), Head(list))
  ELSE SubSeq(list, 2, p3 - 1) \o <<Head(list)>> \o SubSeq(list, p3, Len(list))

\* Mutant: the WAITING skip loop is missing.
ScanStartNoSkip(v) == Advance(1, 1)

\* Scan start: p2 = begin(), ++p2, then WAITING more increments.
ScanStart(v) == Advance(1, 1 + waiting[v])
SkipOverruns(v) == 1 + waiting[v] > Len(list)

\* The first position from ScanStart up to end() holding a variable that
\* the head requires (0 if none).
Candidates(v) ==
  IF ScanStart(v) = 0 THEN {}
  ELSE {j \in ScanStart(v)..Len(list) : Requires(v, list[j])}
FirstDep(v) ==
  IF Candidates(v) = {} THEN 0
  ELSE CHOOSE j \in Candidates(v) : \A k \in Candidates(v) : j <= k

\* "initialization expression for %qs depends upon itself", checked only
\* when INIT is not NULL.
SelfCheck(v) ==
  IF hasInit[v] /\ Requires(v, v)
  THEN <<[kind |-> "self", a |-> v, b |-> v]>>
  ELSE <<>>

-----------------------------------------------------------------------------
ReadSets == {r \in SUBSET Objs : Cardinality(r) <= MaxReads}
Shapes ==
  [kind : Kinds, init : ReadSets, pre : ReadSets]

\* A variable reaches sort_var_inits when it has a non-constant
\* initializer or a pre-init block.  A read of a variable by its own
\* pre-init block cannot be told apart from the store into it, so such
\* programs are left out.
ShapeOk(s) ==
  /\ s.kind = "preinit" => s.init = {}
  /\ s.kind = "init" => s.pre = {}
ValidShapes == {s \in Shapes : ShapeOk(s)}

Init ==
  /\ \E shape \in [Vars -> ValidShapes] :
       /\ \A v \in Vars : shape[v].kind = "preinit" => v \notin shape[v].pre
       /\ hasInit  = [v \in Vars |-> shape[v].kind # "preinit"]
       /\ initRefs = [v \in Vars |-> shape[v].init]
       /\ preRefs  = [v \in Vars |-> shape[v].pre]
  /\ body \in [Funcs -> ReadSets]
  /\ list = [i \in 1..N |-> i]
  /\ waiting = [v \in Vars |-> 0]
  /\ ready = <<>>
  /\ errors = <<>>
  /\ overrun = FALSE

(* One iteration of the while loop of sort_var_inits, split by outcome.   *)

\* No later variable is required: check for a self loop and move the head
\* to READY.
Emit ==
  LET v == Head(list) IN
  /\ list # <<>>
  /\ FirstDep(v) = 0
  /\ errors' = errors \o SelfCheck(v)
  /\ ready' = Append(ready, v)
  /\ list' = Tail(list)
  /\ overrun' = (overrun \/ SkipOverruns(v))
  /\ UNCHANGED <<prog, waiting>>

\* The required variable W also requires the head: report the pair, set
\* p2 to end() and fall into the READY branch.
Cycle ==
  LET v == Head(list)
      w == list[FirstDep(v)]
  IN
  /\ list # <<>>
  /\ FirstDep(v) # 0
  /\ Requires(w, v)
  /\ errors' = errors \o <<[kind |-> "cycle", a |-> v, b |-> w]>> \o SelfCheck(v)
  /\ ready' = Append(ready, v)
  /\ list' = Tail(list)
  /\ overrun' = (overrun \/ SkipOverruns(v))
  /\ UNCHANGED <<prog, waiting>>

\* Mutant: p3 is computed before increment_waiting, so the first deferral
\* splices the head back in front of P2.
DeferIncrementLate ==
  LET v == Head(list)
      j == FirstDep(v)
      w == list[j]
  IN
  /\ list # <<>>
  /\ j # 0
  /\ ~Requires(w, v)
  /\ waiting[w] < MaxWaiting
  /\ waiting' = [waiting EXCEPT ![w] = @ + 1]
  /\ list' = SpliceHead(Advance(j, waiting[w]))
  /\ overrun' = (overrun \/ SkipOverruns(v) \/ j + waiting[w] > Len(list) + 1)
  /\ UNCHANGED <<prog, ready, errors>>

\* Mutant: the counter is decremented instead of incremented.
DeferCountDown ==
  LET v == Head(list)
      j == FirstDep(v)
      w == list[j]
  IN
  /\ list # <<>>
  /\ j # 0
  /\ ~Requires(w, v)
  /\ waiting' = [waiting EXCEPT ![w] = @ - 1]
  /\ list' = SpliceHead(Advance(j, waiting[w] - 1))
  /\ overrun' = overrun
  /\ UNCHANGED <<prog, ready, errors>>

\* The head must wait for W: bump W's waiting count and splice the head
\* WAITING positions past W.
Defer ==
  LET v == Head(list)
      j == FirstDep(v)
      w == list[j]
      p3 == Advance(j, waiting[w] + 1)
  IN
  /\ list # <<>>
  /\ j # 0
  /\ ~Requires(w, v)
  /\ waiting[w] < MaxWaiting
  /\ waiting' = [waiting EXCEPT ![w] = @ + 1]
  /\ list' = SpliceHead(p3)
  /\ overrun' = (overrun \/ SkipOverruns(v) \/ j + waiting[w] + 1 > Len(list) + 1)
  /\ UNCHANGED <<prog, ready, errors>>

\* The loop runs until the list is empty; sort_var_inits then returns, so
\* a state with an empty list has no successor.
Next == Emit \/ Cycle \/ Defer

Spec == Init /\ [][Next]_vars /\ WF_vars(Next)

-----------------------------------------------------------------------------
TypeOK ==
  /\ hasInit \in [Vars -> BOOLEAN]
  /\ initRefs \in [Vars -> SUBSET Objs]
  /\ preRefs \in [Vars -> SUBSET Objs]
  /\ body \in [Funcs -> SUBSET Objs]
  /\ list \in Seq(Vars)
  /\ waiting \in [Vars -> Nat]
  /\ ready \in Seq(Vars)
  /\ overrun \in BOOLEAN


-----------------------------------------------------------------------------
(* Reference: what an initializer really reads at run time.  Every read  *)
(* of a variable, through an initializer, a pre-init block or a function *)
(* body, is a dependency (spec section 3 and 4.2).                       *)
Reads(o) == IF o \in Funcs THEN body[o] ELSE initRefs[o] \cup preRefs[o]

DependsOn(v, w) == w \in Closure(Reads, Reads(v), Reads(v))

\* Variables after position i of the final order: the rest of READY and
\* everything still in the list.
Later(i) == {ready[k] : k \in i+1..Len(ready)} \cup {list[k] : k \in 1..Len(list)}

(* While no diagnostic has been issued, an initializer is never          *)
(* scheduled before a variable it reads, nor reads its own variable:      *)
(* write_globals emits the statements in READY order, so a compilation    *)
(* that succeeds runs every initializer after all those it reads.  Once a *)
(* cycle is reported the compilation fails and the order is moot.         *)
InitOrderSound ==
  errors = <<>> =>
    \A i \in 1..Len(ready) :
      \A x \in Later(i) \cup {ready[i]} : ~DependsOn(ready[i], x)

(* Spec section 8: for every acyclic dependency graph the order is a     *)
(* valid topological order.                                               *)
Acyclic == \A v \in Vars : ~DependsOn(v, v)
TopologicalWhenAcyclic ==
  Acyclic =>
    \A i \in 1..Len(ready) : \A x \in Later(i) : ~DependsOn(ready[i], x)

(* sort_var_inits never advances a list iterator past end(): neither the  *)
(* WAITING skip of the scan (p2, 433-434) nor the WAITING advance of the  *)
(* splice point (p3, 460-461).  Both loops count from a position with no  *)
(* check against end(), so this relies on how far the splices have moved *)
(* a variable since its counter last grew.                                *)
NoIteratorOverrun == ~overrun

(* The while loop terminates: the list is eventually empty.               *)
Terminates == <>(list = <<>>)

=============================================================================
