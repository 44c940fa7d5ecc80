# TLA+ models of the gccgo lowering stage (gogo-tree.cc) and its runtime shims

This directory holds TLA+ specifications of the parts of
`src/go/gogo-tree.cc` (the Go front end's conversion of the checked program
into GCC trees) and of the small runtime C files under `src/libgo` that have
behaviour a model checker can explore. Every module is written from the
source; `PROJECT.json` maps each definition to the lines it stands for.

## 1. Inventory

### Parts of the system and how they interact

`Gogo::write_globals` (gogo-tree.cc:492-650) is the driver. It walks the
package's definitions. For each one it asks the **Declaration Materializer**
(`Named_object::get_tree`, `get_id`, `Function::get_or_make_decl`,
`Function_declaration::get_or_make_decl`) for a tree. A global variable
with a non-constant initializer, or with a pre-init block, becomes a
`Var_init` work item. The items go to the **Global Initialization
Scheduler** (`sort_var_inits`, with the dependency test
`expression_requires` / `Find_var`). The initialization function it then
writes runs these statements in order:

1. the imported packages' init functions (main package only), by priority;
2. the variables whose trees were built directly;
3. the sorted `Var_init` items;
4. the package's own `init` functions.

Building a function's tree (`Function::build_tree`, 1253-1428) is **Closure
and Parameter Lowering**. It copies a by-value receiver out of its pointer
parameter. It moves escaping parameters to the heap (`copy_parm_to_heap`).
It sets up the defer stack and the **Reference-count queue**: a queue record
linked into the process-wide chain `__go_refcount_head`, and a flush and
unlink in the `finally` part. `make_trampoline` (3992-4023) builds the stub
for a closure used as a plain function pointer.

The **Type Descriptor Synthesizer** (2089-3612) is used lazily. Any part that
needs a descriptor calls it, and so does `get_tree` for every named type and
the pointer to it. It builds one decl per type, recursing into component
types. It breaks cycles by storing the decl before recursing. It chooses
linkage by `type_descriptor_location`. Method tables and interface method
tables (itables, 3613-3725) go through `get_or_make_decl`.

**Channel lowering** (`send_on_channel`, `receive_from_channel`, 3801-3965)
picks one of four runtime calls by payload size and by the blocking and
select flags. `call_builtin` (3741-3797) declares each runtime function once,
in a static decl cache.

The runtime shims are:

- `go-refcount-increment.c`: pushes one queue record onto the global chain,
  flushes, and pops it.
- `wait.c`: the `WaitStatus` decoders over the Linux wait-status word.
- `syslog_c.c`: a passthrough to `syslog`.

### State, operations and hard behaviours per part

| Part | State | Operations | Hard behaviours |
|---|---|---|---|
| Scheduler | the `Var_inits` list, each item's `waiting_` count, the READY list, diagnostics | one while-loop iteration: emit the head; report a pair cycle; or splice the head later | iterator arithmetic on `std::list`; a skip count that goes stale after splices; a p3 advance with no bound; pre-init blocks the search does not descend |
| Materializer | `tree_` cache per object, `fndecl_` per function, the static `init_index` | `get_tree`, `get_id`, `get_or_make_decl` | memoization against re-entry (a closure variable's `get_tree` re-enters `get_or_make_decl`); a heap variable's INDIRECT_REF rebuilt per use; errors not cached for type declarations |
| Type descriptors | decl per type, the hash table of unnamed types | `type_descriptor_decl`, `build_type_descriptor_decl`, `finish_type_descriptor_decl`, `type_method_table`, `interface_method_table_for_type` | recursion over cyclic types; the decl stored before its constructor is built; linkage choice; sorting and filtering of methods |
| Channel lowering | none (pure choice of call) plus the static decl cache of `call_builtin` | send (blocking / non-blocking, select), receive (select) | the small protocol converts the value to `uint64`, which truncates floats; `int_size_in_bytes` is -1 for variable-size types |
| Function activation | the global chain head, one record per activation, the heap copies of receivers and parameters | copy the receiver and heap parameters and push the record at entry, flush and unlink at every exit | a global head shared by every thread; unlink must restore exactly the previous head; a fault in the copies happens inside the `TRY_FINALLY` before the record is linked |
| wait.c | a 32-bit status word | `Exited`, `Signaled`, `Stopped`, `Continued`, `CoreDump`, `ExitStatus`, `Signal`, `StopSignal`, `TrapCause` | bit-field decoding; exactly one of the four states holds |

## 2. Modules

| Module | Models | MC module and cfgs |
|---|---|---|
| `VarInitSort` | `sort_var_inits`, `Find_var::expression`, `expression_requires` (gogo-tree.cc 264-487) | `MCVarInitSort`, four cfgs |
| `WriteGlobals` | `write_globals`, `init_imports`, the call of `write_initialization_function` (163-260, 492-650) | `MCWriteGlobals` |
| `Materializer` | `Named_object::get_id`, `Named_object::get_tree`, `Function::get_or_make_decl` (660-958, 1023-1096) | `MCMaterializer` |
| `TypeDescriptor` | `type_descriptor_decl`, `build_type_descriptor_decl`, `finish_type_descriptor_decl`, `type_descriptor_location`, `interface_method_table_for_type`, the method tables and the per-kind builders, and the requests from `get_tree` (2228-3611, 3612-3723) | `MCTypeDescriptor` |
| `ChannelLowering` | `send_on_channel`, `receive_from_channel`, composed with a buffered runtime channel (3794-3962) | `MCChannelLowering`, two cfgs |
| `BuildTree` | the receiver and parameter copies (`make_receiver_parm_decl`, `copy_parm_to_heap`) and the init and fini parts that `Function::build_tree` puts around a body (1157-1425), run against the runtime chain `__go_refcount_head`, plus `__go_increment_refcount` | `MCBuildTree`, three cfgs |

Most modules are composed through their interfaces, not by INSTANCE:

- `WriteGlobals` treats the sort as "some permutation", which `VarInitSort`
  checks in detail.
- `Materializer` treats a named type's descriptors as a call that
  `TypeDescriptor` checks.

No abstract specification is refined. The components' promises are stated
directly as invariants over their own state, such as "the chain mirrors the stack" and "VEC holds
exactly the emitted decls".


### VarInitSort

The program is an input. Init chooses, for every variable `1..N`:

- whether it has an initializer expression (`hasInit`);
- the objects the initializer reads (`initRefs`);
- the objects its pre-init block reads (`preRefs`);
- for every package function, the objects its body reads (`body`).

The shapes `write_globals` hands to the sort are three:

- `"init"`: an initializer only.
- `"preinit"`: a pre-init block that stores into the variable (init NULL).
- `"both"`: a block and an initializer.

`list` is the `Var_inits` list. Position 0 stands for `end()`.
`Advance(pos, k)` is `k` increments of a libstdc++ iterator, which wraps from
`end()` to `begin()`. `SpliceHead(p3)` is `splice(p3, list, begin())`. Each
iteration of the while loop is one of three actions:

- `Emit`: the READY branch, with its self-dependency check.
- `Cycle`: the code reports a pair, then falls into READY.
- `Defer`: `waiting_++`, then the splice.

`Requires` is `expression_requires`: reachability over `Descend`, which follows
an initializer but never a pre-init block. The reference semantics
`DependsOn` is what an initializer really reads at run time.

### WriteGlobals

A definition is abstracted to its kind: what the loop tells apart.

- Skipped kinds: package, imported, abstract constant, and `get_tree` failure.
- Other definitions: decl only, constant initializer, no initializer,
  initializer error, non-constant initializer, sink, pre-init block, and
  non-constant zero value.

Init enumerates every package of `N` definitions, main or not, with every
priority of the imported init functions. The actions follow the function's
order:

- `Begin`: `init_imports` for main.
- One loop iteration is `SkipDef` (`--i; --count`) or `StoreDef` (the
  `VAR_DECL` classification).
- `SortVarInits`, then `CallInitFns`, then `Write`.

### Materializer

The nested calls form an explicit stack of frames:

- `get_tree` of a local calls `get_id` and `get_or_make_decl` of its function.
- `get_or_make_decl` of a closure calls `get_tree` of the closure variable.
- `get_tree` of a function builds its body, which calls `get_tree` of the
  function's locals.

Trees are integers: 0 is NULL, -1 is error_mark_node, and n > 0 is a node.
Each frame step is one action:

- `TreeCached`
- `TreeTypeDecl`
- `TreeResult`
- `TreeGlobal`
- `TreeLocal` / `TreeLocalDone`
- `TreeFunc` / `TreeFuncBody` / `TreeFuncDone`
- `MakeCached` / `MakeBroken` / `MakeDecl` / `MakeClosureDone`

The driver's calls are `DriverGetTree` (write_globals 548 and 633) and
`DriverMakeDecl` (method tables, 2367 and 3669).

### TypeDescriptor

Each package of a link is compiled on its own, with its own stack of
descriptor requests. A request passes through the per-type cache, then
`build_type_descriptor_decl`: the hash table of unnamed types, the decl stored
before the components are requested, and the location. Then come the
component requests, then `finish_type_descriptor_decl`. A decl is its
assembler name and linkage, and the link resolves names after every package.

A defined descriptor requests its components in the builder's order,
derived from the type's kind and structure (`Components`):

1. The common part comes first (`type_descriptor_constructor`). A named type
   lists its value methods in the method table; a pointer to a named type
   lists all that type's methods (`TableMethods`). Ambiguous methods are
   left out. The methods are sorted by their packed name, and each entry
   requests the method's function type (`MethodTableRequests`).
2. Then come the kind's own parts (`KindParts`): the pointed-to type, the
   element, the key and then the value, the fields, the interface's
   method types, or the argument of `...`. A function type requests its
   receiver as a pointer, then its parameters, then its results
   (`FunctionParts`).

Method types carry their receiver, so a type with methods is recursive
through its pointer type: `T`'s table requests `func(*T)`, whose receiver
is `*T`, whose table requests `func(*T)` again.

The assembler name is built the way the code builds it. `UnnamedDeclName`
(`unnamed_type_descriptor_decl_name`) is `"__go_td_"` followed by the mangled
name (`Shape`). `NamedDeclName` (`type_descriptor_decl_name`) is
`"__go_tdn_"`, then the unique prefix and package name of the owner, then the
unpacked name of the declaring function if any (`InFunction`), then the
type's name. Mangled names and the hidden-name packing are outside this
repository, so they are constants of the instance. A type declared in a
function is not requested by `get_tree`. Its descriptor is requested by the
code that uses it (`Uses`), and it has no `PtrOf`.

Interface method tables are requested by the conversions of each package
(`Convs`) and, for an interface with a hidden method, by the package that
owns the concrete type (spec section 4.3; `OwnerItables` is spec-modelled).
`Itable` is `interface_method_table_for_type`: the table of an interface
with a hidden method for a foreign type is only an external reference; the
owner's is defined and public; any other table is comdat. The tables touch
no descriptor state, so the model builds them once a package's descriptor
requests are done; any other order only permutes the package's decls.

### ChannelLowering

An element type is its size, whether it is an aggregate, and its kind.

- **Small protocol:** a value of at most 8 bytes that is not an aggregate is
  converted to the `uint64` carrier by `convert_to_integer`. The receiver
  converts it back through the unsigned type of the mode size.
- **Big protocol:** any other value goes by pointer.

TLC's integers are 32 bits wide, so every width is a quarter of the real one:
the carrier has 16 bits and an n-byte element has 2n bits. Floats are
rationals. The sends enter a FIFO buffer of capacity `Cap`, and a receive
takes the oldest.

### BuildTree

`Entry(f)` and `Exit(f)` are the statement sequences `build_tree` emits.
`Exit(f)` is `__go_undefer` and then the flush, inside one `TRY_FINALLY`.
The init part starts with the initializers of `declare_vars`: the copy of
a by-value receiver (`make_receiver_parm_decl`) and the heap copy of a
parameter whose address is taken (`copy_parm_to_heap`). `declare_vars` is
built by prepending, so the parameter's copy runs before the receiver's.
Memory is a sequence of cells: cell 1 is a package-level variable, the
others are heap storage; a local that is not in the heap lives in the
frame. A call site passes as receiver pointer nil, the package variable,
or a heap local of the calling activation. Activations run on one thread:

- `Call` copies the receiver and parameter and links a queue record. A
  receiver not in the heap is `COND_EXPR (parm != NULL, *parm, zero)`
  (`ReceiverCopy`); one in the heap is a fresh cell holding `*parm`
  (`HeapRecvCell`), with no nil test.
- `CallNilReceiver` is that heap copy given nil: the dereference faults
  inside the `TRY_FINALLY`, before `init_queue`, and the activation
  unwinds through its finally part with a record never zeroed nor linked,
  whose `__caller` holds stale stack contents (any earlier record or NULL).
- `StoreReceiver` and `StoreParam` are the body's assignments to its heap
  receiver or parameter.
- `Panic` starts unwinding.
- `BeginExit` enters the finally part, on return or on unwinding.
- The undefer step completes (`UndeferDone`), recovers (`UndeferRecovers`) or
  panics (`UndeferPanics`).
- `Flush` unlinks the record (`head = caller[q]`), and `ExitDone` pops the
  frame.

`IncRefcount` is the runtime shim.

## 3. Runs

| Run | Bounds | Checks | Result |
|---|---|---|---|
| `init3f` | N=3, one function, initializers only, up to 4 reads | `TypeOK`, `InitOrderSound`, `NoIteratorOverrun` | passes |
| `cycle3` | N=3, pre-init blocks | `InitOrderSound` | **violated**: a cycle through pre-init blocks is not reported |
| `acyclic4` | N=4, pre-init blocks, one read each | `TopologicalWhenAcyclic` | **violated**: the stale WAITING skip misorders an acyclic chain |
| `writeglobals` | 4 definitions of every kind, main or not, 2 imported and 2 own init functions, 2 priorities | `TypeOK`, `VecExact`, `InitStatementOrder` | passes (1.7M states) |
| `materializer` | 13 objects (two init functions, a closure, stack, heap, broken and result locals, a broken method declaration, globals, a constant, an undefined type), 5 calls, depth 4 | `TypeOK`, `NoSharedExpr`, `ContextIsFndecl`, `BodyOnce`, `CallsReturn` | passes |
| `typedesc` | 2 packages and 11 types in use. They include a recursive struct, three methods (one hidden) with their function types, two unnamed types of one shape, two package-level types named `T` (one per package), and a local type `X` of function `F`. There are 2 interfaces (one with a hidden method) and 3 method tables requested from both packages | `TypeOK`, `UniqueDeclNames`, `NoReentry`, `LinkComplete`, `OneDefinition` | passes (158k states, 21 s) |
| `tdcollide` | the same, plus a second local type `X` of a function also named `F` | `UniqueDeclNames` | **violated**: both get `__go_tdn_go.main.F.X` |
| `chan_ints` | integer, bool, pointer and aggregate elements, Cap 2, 4 sends, every mode | `TypeOK`, `RoundTrip` | passes |
| `chan_floats` | float32, float64, complex64 | `RoundTrip` | **violated**: 5/2 arrives as 2 |
| `refcount_safe` | 3 functions (queue and defer, defer only, queue only), the first two methods with value receivers, the first with a heap parameter and the second with a heap receiver; nil receivers passed; depth 3, 4 calls, deferred calls that do not panic | `ChainMatchesStack`, `LocalsAreCopies` | passes (1.1M states) |
| `refcount_deferpanic` | the same without nil receivers, deferred calls may panic | `ChainMatchesStack` | **violated**: the head is left on a dead frame's record |
| `nilrecv` | the same as `refcount_safe`, but the method with the queue has the heap receiver | `ChainMatchesStack` | **violated**: a nil receiver faults before the record is linked and the flush sets the head to stale contents |

### What the properties say

- `InitOrderSound`: while no diagnostic has been issued, no initializer is
  emitted before a variable it reads, directly or through functions and
  blocks.
- `TopologicalWhenAcyclic`: spec section 8's claim about acyclic programs.
- `NoIteratorOverrun`: neither WAITING loop of the sort (the scan skip at
  433 and the splice advance at 460-461) steps past `end()`. It holds for
  every program without pre-init blocks. If `p3` were computed before
  `increment_waiting`, the first deferral would put the head back in front
  of the variable it waits for. TLC then finds an overrun, so this is what
  the order of those two statements buys.
- `Terminates`: the sort's loop ends. It is stated, and
  `MCVarInitSort_term3.cfg` checks it (8126 states, 10 s), but no run of the
  project does: runs are limited to twelve, and that slot now goes to
  `tdcollide`. Without pre-init blocks the loop cannot cycle. `Requires` is
  transitive there, so every cycle shows up as a pair of variables that
  require each other, and it is reported instead of deferred. Only pre-init
  programs, which `Find_var` treats asymmetrically, can defer forever.
- `VecExact`: after the loop, `VEC[0..count)` holds exactly the definitions
  that produced a decl, in binding order and with no hole. This holds
  whichever mix of skips, failures and decls the package has.
- `InitStatementOrder`: the initialization function runs imports, then
  variable initializations (each once), then the init functions in order.
- `NoSharedExpr`: no expression node (a heap variable's INDIRECT_REF, a
  result's COMPONENT_REF) is handed to two uses.
- `ContextIsFndecl`: every local's DECL_CONTEXT is the one decl of its
  function, whichever caller made that decl first.
- `BodyOnce`: no body is lowered twice, although `write_globals` asks for an
  init function's tree twice.
- `CallsReturn`: every call returns, because the closure variable's
  re-entry finds `fndecl_` set.
- `UniqueDeclNames`, `NoReentry`, `LinkComplete`,
  `OneDefinition`: the descriptor sharing and linkage policy of spec
  section 4.3, across the packages of a link.
- `RoundTrip`: every received value equals the value sent at that position.
- `ChainMatchesStack`: the chain head is the record of the innermost
  activation whose record is still linked, and each record's `__caller` is
  the next one out.
- `LocalsAreCopies`: every live activation's heap receiver and heap
  parameter hold what that activation last stored in them, and the package
  variable that receivers point at never changes, whatever nested
  activations store.

### Findings

The line references are to gogo-tree.cc unless marked otherwise.

- **Cycles through pre-init blocks go unreported** (`cycle3`, 312).
  `Find_var` never descends into a pre-init block.
- **A stale skip count misorders an acyclic program** (`acyclic4`, 433).
- **Floats and complex values lose their fraction** on the small channel
  protocol (`chan_floats`, 3807). `convert_to_integer` is a value
  conversion, not a bit copy.
- **The refcount flush is skipped when a deferred call panics**
  (`refcount_deferpanic`, 1404). The flush follows `__go_undefer` inside
  the same finally part. Spec section 4.6 requires it on every exit path.
- **A nil receiver in the heap is dereferenced** (`nilrecv`, 1199). With the
  receiver in the heap, `make_receiver_parm_decl` replaces the nil-checking
  `COND_EXPR` by `*space = *parm`. Spec section 4.4 says the receiver is the
  zero value when the pointer is null. The fault is raised inside the
  `TRY_FINALLY` before `init_queue`, so the finally part unlinks a record
  that was never linked: the chain head takes whatever the record's
  `__caller` slot held, here NULL, losing the caller's record.
- **Local types share a descriptor name** (`tdcollide`, 2262).
  `type_descriptor_decl_name` qualifies a type declared in a function by
  `unpack_hidden_name(in_function->name())` alone. A method's name does not
  include its receiver, and the name says nothing of the block. So a type
  `X` declared in two blocks of `F`, or in methods `T.F` and `U.F`, gets
  `__go_tdn_go.main.F.X` twice. `type_descriptor_location` makes both
  `DEFINED`, so `finish_type_descriptor_decl` makes both public and
  protected: two definitions of one symbol in one object file. Spec section 8
  says two distinct named types never share a descriptor. The same name
  feeds the reflection package path (2477).

Further disagreements are documented here but not run:

- **An iterator is advanced past `end()`** (461). The loop that advances
  p3 WAITING times past p2 can step over `end()` of the `std::list`, which
  is undefined behaviour; with libstdc++ the iterator wraps to `begin()`.
  `NoIteratorOverrun` in `VarInitSort` states the property, and TLC finds
  it violated with three variables whose pre-init blocks form a cycle
  (N = 3, `Kinds <- PreinitKinds`, `MaxReads = 3`). `init3f` checks it
  without pre-init blocks, where it holds.
- **`CoreDump` of a continued process** (`wait.c`). `CoreDump` returns
  `WCOREDUMP (*w) != 0` without testing `WIFSIGNALED`. For the continued
  status 0xffff the 0x80 bit is set, so it reports a core dump; glibc
  documents `WCOREDUMP` only for a signalled status, and Go's own `CoreDump`
  is `Signaled() && w&core != 0`.

- **Method tables are ordered by packed name** (2316). `Sort_methods`
  compares the packed names. A hidden method's packed name starts with
  `.`, so it comes before every exported method, while the entry's
  `__name` is the unpacked name. Spec sections 4.3 and 8 say tables are sorted by
  name. `TypeDescriptor` requests the method types in the code's order, so
  `U`'s table holds `m` then `M`.
- **Import order.** `init_imports` runs first in the main package's
  initialization function, so imported packages are initialized *before* the
  package's variables. Spec section 5 says they come last. The code's order is
  Go's, and `InitStatementOrder` checks it.
- **Non-blocking send in a select.** `send_on_channel` asserts that a
  non-blocking send is never for a select (3827, 3882). Spec sections 4.5 and
  6 list every combination. `SendNonBlockingInSelect` models the assertion.

### Bounds

- **VarInitSort:**
  - Four variables are enough for the shortest stale-skip counterexample.
  - Three variables and one function reach every descent rule of `Find_var`.
  - `MaxWaiting = 12` is never approached.
- **WriteGlobals:** four definitions cover a skip before and after a stored
  decl and every pair of initialization kinds. Two imports with two
  priorities cover the sort's tie and its ordering.
- **Materializer:** five calls are enough to materialize a function twice,
  materialize a local through its function, re-enter through the closure,
  reuse a heap variable, and reach a broken object.
  - The deepest legal stack is 4: get_tree of F, make F, get_tree of its
    closure variable, make F cached.
- **TypeDescriptor:** two packages are the least for cross-package linkage.
  `U` is recursive through `*U`, both in its field and through its
  methods' types. `T`'s one method has a pointer receiver, so only the
  request of `get_tree` builds `*T` in package 1, and package 2 refers to
  it. Both packages name a type `T`, so the
  package qualification is needed to keep their names apart. The pass run
  has one local type, because each extra use multiplies the request orders.
  Two local types with one function name are the least instance of the
  collision.
- **ChannelLowering:** `Cap = 2` and four sends fill the buffer. The values
  are chosen at the boundaries of each quarter width.
- **BuildTree:** depth 3 nests a queue-less function between two with
  queues. Four calls include a shim call inside a nested activation, and a
  method passed a pointer to its caller's heap receiver or parameter. Two
  values let a callee store something different from what its caller holds.

### Fairness

Every module is a sequential program: the front end is single-threaded, and
a generated program's activations run on one thread in this model. So the
specifications assume weak fairness of `Next`, meaning "the program keeps
running". The cfgs set `CHECK_DEADLOCK FALSE` for three reasons:

- each modelled function returns;
- the driver's calls are bounded;
- a program with an unrecovered panic stops.

### Mutants

Every property of a passing run is broken by a plausible bug in the
definition it is about (`PROJECT.json`, "mutants"):

- the dropped `--count` or the lost `++i` of a skip;
- init functions prepended;
- the cached INDIRECT_REF returned;
- `fndecl_` not consulted, or stored after the closure variable;
- the function's `tree_` ignored;
- the error test dropped;
- the flush on normal return only;
- `Find_var` without initializers or function bodies;
- no WAITING skip;
- `waiting_` decremented;
- `p3` computed before `increment_waiting` (`NoIteratorOverrun`);
- the descriptor-level mutants (no hash table, hash for named types,
  pointer descriptor not requested, no foreign-type test, no cache check,
  the package left out of a named type's descriptor name);
- the receiver's `< 8` size test (`RoundTrip`);
- an itable's link without the hidden-method test, or without the owner
  test;
- the heap receiver made the incoming pointer itself;
- a send without the full-buffer check.

## 4. What is not modelled, and the plan

Partly modelled:

- `TypeDescriptor` does not model the contents of the constructors: sizes,
  hash and equality functions, reflection strings, and the entries'
  function decls. It keeps, from `type_method_table` and
  `uncommon_type_information`, only which descriptors they request, and in
  what order. Method names are ranks of their packed names; the packing is
  outside this repository. The instance has no ambiguous method: that
  takes a struct embedding two types with a method of one name, and no
  property tells the filter's effect apart. `map_descriptor` (1963-2066)
  and `undefined_type_descriptor_decl` (2810-2830) are not modelled.
  `map_descriptor`'s table is keyed by a hash defined outside this
  repository. `undefined_type_descriptor_decl` is reached only after an
  error.
- `Materializer` leaves out linkage and assembler names, and the
  `builtin_functions` lookup.

Not modelled:

- `make_trampoline` (3992-4023): one call to `__go_allocate_trampoline` and
  stores through target hooks, with no control flow or state to explore.
- `wait.c`: each decoder is one expression over one integer, with no state
  or interaction; every case is a single input a unit test reaches. The
  one doubtful case is described under Findings.
- `syslog_c.c`: `syslog (priority, "%s", msg)`, pure I/O with a constant
  format.
- tree construction details (field lists, constructors, string constants);
- `define_builtin_function_trees`, a table of declarations;
- the runtime functions `init_queue`, `flush_queue`, `__go_undefer` and
  `Type::type_descriptor`. They are outside the repository, and their
  behaviour is taken from the spec (marked `spec_modelled`).

Next, in order:

1. `call_builtin`'s static decl cache, which leaks on its early error
   return.
2. `Function_declaration::get_or_make_decl` in `Materializer` (the
   `builtin_functions` lookup and the assembler name).
