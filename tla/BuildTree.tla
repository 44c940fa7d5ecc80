------------------------------- MODULE BuildTree -------------------------------
(***************************************************************************)
(* A function activation as lowered by Function::build_tree                *)
(* (gogo-tree.cc): its parameters and receiver, and the reference-count   *)
(* queue, run against the runtime's queue chain __go_refcount_head and    *)
(* __go_increment_refcount (go-refcount-increment.c).                      *)
(*                                                                         *)
(* A method whose receiver has a non-pointer type receives a pointer and  *)
(* copies the pointee into a local (make_receiver_parm_decl); a parameter *)
(* whose address is taken is copied into heap storage (copy_parm_to_heap).*)
(* Those copies are the initializers of the variables in declare_vars.    *)
(* build_tree wraps a function's body as                                   *)
(*     TRY_FINALLY (init; body, fini)                                      *)
(* where init declares the variables (running those copies), links a      *)
(* queue record into the chain (init_queue) and declares the defer stack, *)
(* and fini calls __go_undefer and then flushes and unlinks the queue     *)
(* (flush_queue).  Activations run on one thread; a panic unwinds through *)
(* the finally parts.  The deferred calls made by __go_undefer are        *)
(* atomic: they complete, recover the panic in progress, or panic.        *)
(*                                                                         *)
(* Memory: mem is a sequence of cells; cell 1 is a package-level variable *)
(* that receivers may point at, the others are heap storage allocated by  *)
(* the copies; pointer 0 is nil.  A local that is not in the heap lives   *)
(* in the frame (its cell is 0).                                           *)
(***************************************************************************)
EXTENDS Integers, Sequences, FiniteSets

CONSTANTS
  Funcs,        \* the functions of the program
  Refcounts,    \* functions whose refcounts_ queue is not empty
  Defers,       \* functions with a defer stack
  ValueRecv,    \* methods whose receiver has a non-pointer type
  RecvInHeap,   \* of those, the ones whose receiver is_in_heap
  ParmInHeap,   \* functions whose parameter is_in_heap
  Values,       \* non-zero values of the receiver and parameter types
  Zero,         \* the zero value (get_init_tree)
  NilRecvCalls, \* whether a call site may pass a nil receiver pointer
  MaxDepth,     \* bound on nested activations
  MaxCalls      \* bound on calls (of functions and of the runtime shim)

ASSUME /\ Refcounts \subseteq Funcs /\ Defers \subseteq Funcs
       /\ RecvInHeap \subseteq ValueRecv /\ ValueRecv \subseteq Funcs
       /\ ParmInHeap \subseteq Funcs
       /\ Zero \notin Values /\ NilRecvCalls \in BOOLEAN

VARIABLES
  stack,        \* activations: [f, q (its queue record, 0 if none), pc,
                \*   ok (init part completed), r/p (heap cell of the
                \*   receiver/parameter, 0 if a frame local),
                \*   rv/pv (what the activation last stored in them)]
  head,         \* __go_refcount_head (0 is NULL)
  caller,       \* caller[q]: the __caller field of queue record q
  nq,           \* queue records created so far
  mem,          \* the cells
  nilDeref,     \* a nil receiver pointer was dereferenced
  panicking,    \* a panic is unwinding the stack
  calls         \* calls made

vars == <<stack, head, caller, nq, mem, nilDeref, panicking, calls>>

\* The value of the package-level variable at program start.
GInit == CHOOSE v \in Values : TRUE

-----------------------------------------------------------------------------
(* What build_tree emits around the body of f: the init part, and the    *)
(* fini part of the TRY_FINALLY_EXPR, in order.                            *)
Entry(f) ==
  <<"declare_vars">>
  \o (IF f \in Refcounts THEN <<"init_queue">> ELSE <<>>)
  \o (IF f \in Defers THEN <<"defer_init">> ELSE <<>>)

Exit(f) ==
  (IF f \in Defers THEN <<"undefer">> ELSE <<>>)
  \o (IF f \in Refcounts THEN <<"flush">> ELSE <<>>)

\* Activation i has a queue record that init_queue linked and its flush
\* has not yet unlinked (the flush is the last operation of the finally
\* part).
Linked(i) ==
  stack[i].q # 0 /\ stack[i].ok /\ stack[i].pc <= Len(Exit(stack[i].f))

\* The queue of the innermost linked activation below position n, or 0.
QueueBelow(n) ==
  LET qs == {i \in 1..n-1 : Linked(i)} IN
  IF qs = {} THEN 0
  ELSE stack[CHOOSE i \in qs : \A j \in qs : j <= i].q

Top == stack[Len(stack)]
Pop == SubSeq(stack, 1, Len(stack) - 1)
SetTop(r) == [stack EXCEPT ![Len(stack)] = r]

Init ==
  /\ stack = <<>>
  /\ head = 0
  /\ caller = <<>>
  /\ nq = 0
  /\ mem = <<GInit>>
  /\ nilDeref = FALSE
  /\ panicking = FALSE
  /\ calls = 0

-----------------------------------------------------------------------------
\* The pointers a call site passes as a receiver: nil, the package-level
\* variable, or a heap local of the calling activation.
RecvArgs ==
  (IF NilRecvCalls THEN {0} ELSE {})
  \cup {1}
  \cup (IF stack = <<>> THEN {} ELSE {Top.r, Top.p} \ {0})

(* make_receiver_parm_decl, not in the heap: the local is initialized to  *)
(* COND_EXPR (parm != NULL, *parm, zero_init).                            *)
ReceiverCopy(ptr) == IF ptr # 0 THEN mem[ptr] ELSE Zero

\* Mutant: the heap variable is made the incoming pointer itself.
HeapRecvCellAlias(ptr, space) == ptr

(* make_receiver_parm_decl, in the heap: the variable is initialized to  *)
(* COMPOUND_EXPR ( *space = *parm, space) with space = allocate_memory,    *)
(* which drops the COND_EXPR: *parm is read whatever parm is.             *)
HeapRecvCell(ptr, space) == space

(* A call of f passing receiver pointer ptr and argument v.  The init    *)
(* part runs the initializers of declare_vars in chain order; the chain  *)
(* is built by prepending, so the parameter's copy_parm_to_heap copy      *)
(* [space = allocate_memory; *space = v] runs before the receiver's copy. *)
(* Then init_queue zeroes a queue record on the activation's stack frame *)
(* and links it at the head of the chain.                                  *)
Call ==
  /\ ~panicking
  /\ Len(stack) < MaxDepth /\ calls < MaxCalls
  /\ \E f \in Funcs, v \in Values :
     \E ptr \in (IF f \in ValueRecv THEN RecvArgs ELSE {0}) :
       LET linked == "init_queue" \in {Entry(f)[k] : k \in 1..Len(Entry(f))}
           q == IF linked THEN nq + 1 ELSE 0
           pcell == IF f \in ParmInHeap THEN Len(mem) + 1 ELSE 0
           mem1 == IF f \in ParmInHeap THEN Append(mem, v) ELSE mem
           rcell == IF f \in RecvInHeap
                    THEN HeapRecvCell(ptr, Len(mem1) + 1) ELSE 0
           rval == IF f \in RecvInHeap THEN mem[ptr] ELSE ReceiverCopy(ptr)
       IN
       /\ ~(f \in RecvInHeap /\ ptr = 0)
       /\ stack' = Append(stack, [f |-> f, q |-> q, pc |-> 0, ok |-> TRUE,
                                  r |-> rcell, rv |-> rval,
                                  p |-> pcell, pv |-> IF pcell # 0 THEN v ELSE Zero])
       /\ mem' = IF f \in RecvInHeap THEN Append(mem1, mem[ptr]) ELSE mem1
       /\ IF linked
          THEN /\ caller' = Append(caller, head)
               /\ head' = q
               /\ nq' = nq + 1
          ELSE UNCHANGED <<caller, head, nq>>
  /\ calls' = calls + 1
  /\ UNCHANGED <<nilDeref, panicking>>

(* The same call with a nil receiver pointer to a method whose receiver  *)
(* is in the heap: *parm faults in the receiver's initializer.  The      *)
(* fault is inside the TRY_FINALLY, before init_queue and the defer       *)
(* stack's declaration, so the activation unwinds through its finally     *)
(* part with a queue record that was never zeroed nor linked: its         *)
(* __caller holds whatever the stack slot held, a stale record or NULL.   *)
CallNilReceiver ==
  /\ NilRecvCalls /\ ~panicking
  /\ Len(stack) < MaxDepth /\ calls < MaxCalls
  /\ \E f \in RecvInHeap, v \in Values, stale \in 0..nq :
       LET q == IF f \in Refcounts THEN nq + 1 ELSE 0
           pcell == IF f \in ParmInHeap THEN Len(mem) + 1 ELSE 0
       IN
       /\ stack' = Append(stack, [f |-> f, q |-> q, pc |-> 1, ok |-> FALSE,
                                  r |-> 0, rv |-> Zero,
                                  p |-> pcell, pv |-> IF pcell # 0 THEN v ELSE Zero])
       /\ mem' = IF f \in ParmInHeap THEN Append(mem, v) ELSE mem
       /\ IF q # 0
          THEN caller' = Append(caller, stale) /\ nq' = nq + 1
          ELSE UNCHANGED <<caller, nq>>
  /\ nilDeref' = TRUE
  /\ panicking' = TRUE
  /\ calls' = calls + 1
  /\ UNCHANGED head

(* The body assigns to its receiver in the heap, through the heap       *)
(* pointer.  (An assignment to a frame local is seen by no other          *)
(* activation and is left out.)                                           *)
StoreReceiver ==
  /\ ~panicking /\ stack # <<>> /\ Top.pc = 0 /\ Top.r # 0
  /\ \E v \in Values :
       /\ stack' = SetTop([Top EXCEPT !.rv = v])
       /\ mem' = [mem EXCEPT ![Top.r] = v]
  /\ UNCHANGED <<head, caller, nq, nilDeref, panicking, calls>>

(* The body assigns to its parameter in the heap, the same way.          *)
StoreParam ==
  /\ ~panicking /\ stack # <<>> /\ Top.pc = 0 /\ Top.p # 0
  /\ \E v \in Values :
       /\ stack' = SetTop([Top EXCEPT !.pv = v])
       /\ mem' = [mem EXCEPT ![Top.p] = v]
  /\ UNCHANGED <<head, caller, nq, nilDeref, panicking, calls>>

(* __go_increment_refcount: a queue record on its own frame is linked at *)
(* the head (__caller = head; head = queue), flushed, and unlinked        *)
(* (head = queue->__caller).                                               *)
IncRefcount ==
  /\ ~panicking /\ stack # <<>> /\ calls < MaxCalls
  /\ caller' = Append(caller, head)
  /\ head' = caller'[nq + 1]
  /\ nq' = nq + 1
  /\ calls' = calls + 1
  /\ UNCHANGED <<stack, mem, nilDeref, panicking>>

(* The body panics.                                                       *)
Panic ==
  /\ ~panicking /\ stack # <<>> /\ Top.pc = 0
  /\ panicking' = TRUE
  /\ UNCHANGED <<stack, head, caller, nq, mem, nilDeref, calls>>

(* The body returns, or a panic unwinds into the activation: control     *)
(* enters the finally part.                                                *)
BeginExit ==
  /\ stack # <<>> /\ Top.pc = 0
  /\ stack' = SetTop([Top EXCEPT !.pc = 1])
  /\ UNCHANGED <<head, caller, nq, mem, nilDeref, panicking, calls>>

ExitOp == Exit(Top.f)[Top.pc]
AtOp(op) == stack # <<>> /\ Top.pc \in 1..Len(Exit(Top.f)) /\ ExitOp = op
NextOp == stack' = SetTop([Top EXCEPT !.pc = @ + 1])

(* __go_undefer runs the deferred calls, and they complete.               *)
UndeferDone ==
  /\ AtOp("undefer")
  /\ NextOp
  /\ UNCHANGED <<head, caller, nq, mem, nilDeref, panicking, calls>>

(* A deferred call recovers the panic: the activation will return        *)
(* normally to its caller once its finally part is done.                  *)
UndeferRecovers ==
  /\ AtOp("undefer") /\ panicking
  /\ panicking' = FALSE
  /\ NextOp
  /\ UNCHANGED <<head, caller, nq, mem, nilDeref, calls>>

(* A deferred call panics: the new panic leaves the finally part at once, *)
(* skipping what follows __go_undefer in it, and unwinds to the caller.   *)
UndeferPanics ==
  /\ AtOp("undefer")
  /\ panicking' = TRUE
  /\ stack' = Pop
  /\ UNCHANGED <<head, caller, nq, mem, nilDeref, calls>>

(* flush_queue (..., true, ...): flush the queue and unlink it.           *)
Flush ==
  /\ AtOp("flush")
  /\ head' = caller[Top.q]
  /\ NextOp
  /\ UNCHANGED <<caller, nq, mem, nilDeref, panicking, calls>>

\* Mutant: the flush is emitted only on the normal return path.
ExitDoneNoUnwindFlush ==
  /\ stack # <<>> /\ Top.pc >= 1
  /\ \/ Top.pc > Len(Exit(Top.f))
     \/ panicking /\ Top.pc <= Len(Exit(Top.f)) /\ ExitOp = "flush"
  /\ stack' = Pop
  /\ UNCHANGED <<head, caller, nq, mem, nilDeref, panicking, calls>>

(* The finally part is done: the activation returns (or goes on          *)
(* unwinding), and its frame, with its queue record, is gone.              *)
ExitDone ==
  /\ stack # <<>> /\ Top.pc > Len(Exit(Top.f))
  /\ stack' = Pop
  /\ UNCHANGED <<head, caller, nq, mem, nilDeref, panicking, calls>>

NextNoDeferPanic ==
  \/ Call \/ CallNilReceiver \/ StoreReceiver \/ StoreParam
  \/ IncRefcount \/ Panic \/ BeginExit
  \/ UndeferDone \/ UndeferRecovers \/ Flush \/ ExitDone

Next == NextNoDeferPanic \/ UndeferPanics

(* The program is sequential; weak fairness keeps a started exit going.  *)
Spec == Init /\ [][Next]_vars /\ WF_vars(Next)

(* Deferred calls that never panic.                                       *)
SpecNoDeferPanic == Init /\ [][NextNoDeferPanic]_vars /\ WF_vars(NextNoDeferPanic)

-----------------------------------------------------------------------------
(* Spec 4.6: the queue is flushed and unlinked on every exit path, normal *)
(* return and unwinding alike.  So the chain always mirrors the live       *)
(* activations: its head is the queue of the innermost activation whose   *)
(* queue is not yet unlinked, and each live queue's __caller is the next *)
(* one out.  A head                                                        *)
(* naming a record whose frame is gone is a dangling pointer into the      *)
(* stack.                                                                  *)
ChainMatchesStack ==
  /\ head = QueueBelow(Len(stack) + 1)
  /\ \A i \in 1..Len(stack) : Linked(i) => caller[stack[i].q] = QueueBelow(i)

(* Spec 4.4: a receiver of non-pointer type and a parameter whose address *)
(* is taken are copies.  Every live activation's heap receiver and heap    *)
(* parameter hold what that activation last stored in them, whatever its  *)
(* callees store in theirs, and the package-level variable that receivers *)
(* point at is never changed by a method that received a pointer to it.   *)
LocalsAreCopies ==
  /\ mem[1] = GInit
  /\ \A i \in 1..Len(stack) :
       /\ stack[i].r # 0 => mem[stack[i].r] = stack[i].rv
       /\ stack[i].p # 0 => mem[stack[i].p] = stack[i].pv
=============================================================================
