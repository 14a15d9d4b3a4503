---------------------------- MODULE MCKernelQueue ----------------------------
(* A small instance of KernelQueue for TLC: two receivers of different       *)
(* priority and a sender of the lower one.                                   *)
EXTENDS KernelQueue
CONSTANTS high, low, sender
MCPriority == [t \in Everyone |-> CASE t = high -> 2 [] t = Idle -> 0 [] OTHER -> 1]
Call(op, items, waits) == [op : {op}, item : items, wait : waits]
MCRequests == [t \in Tasks |->
                 CASE t = high -> Call("receive", {1}, {"ticks", "forever"})
                   [] t = low -> Call("receive", {1}, {"none", "forever"})
                   [] OTHER -> Call("send", Items, {"ticks", "forever"})]
=============================================================================
