------------------------------ MODULE MCBuildTree ------------------------------
(* Three functions: A has a refcount queue and a defer stack, B only a     *)
(* defer stack, C only a refcount queue.  A and B are methods with a value *)
(* receiver; A's parameter has its address taken.  Either B's receiver is  *)
(* in the heap (a method without a queue), or A's is (a method with one).  *)
EXTENDS BuildTree

CONSTANTS A, B, C

MCFuncs == {A, B, C}
MCRefcounts == {A, C}
MCDefers == {A, B}
MCValueRecv == {A, B}
MCRecvInHeapNoQueue == {B}
MCRecvInHeapQueued == {A}
MCParmInHeap == {A}
MCValues == {1, 2}
=============================================================================
