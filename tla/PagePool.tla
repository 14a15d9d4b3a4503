------------------------------- MODULE PagePool -------------------------------
(***************************************************************************)
(* What the reserved-memory allocator of zynq_cma_device.py promises: each *)
(* page of the region has one owner, a buffer is a run of pages, it gets   *)
(* the lowest run there is, it is refused only when there is none, and     *)
(* what is freed can be given out again.  Pages of a block whose mapping   *)
(* failed are lost: the code has no way to give them back.                 *)
(***************************************************************************)
EXTENDS Integers

CONSTANTS Size,      \* pages in the region
          Buffers,   \* buffer objects
          Needs,     \* numbers of pages that are asked for
          Nobody,    \* owner of a free page
          Lost       \* owner of a page that was reserved and never mapped

VARIABLES owner,     \* who has each page
          answer     \* what the last call answered

poolVars == <<owner, answer>>

PoolInit == /\ owner = [p \in 0 .. Size - 1 |-> Nobody]
            /\ answer = "none"

Room(o, n) == o + n <= Size /\ \A p \in o .. o + n - 1 : owner[p] = Nobody

Lowest(o, n) == Room(o, n) /\ \A q \in 0 .. o - 1 : ~Room(q, n)

Give(o, n, who) == owner' = [p \in 0 .. Size - 1 |->
                               IF p \in o .. o + n - 1 THEN who ELSE owner[p]]

Grant(b, n) == /\ \A p \in 0 .. Size - 1 : owner[p] # b
               /\ \E o \in 0 .. Size - 1 : Lowest(o, n) /\ Give(o, n, b)
               /\ answer' = "buffer"

\* The run was found and could not be mapped.
Lose(n) == /\ \E o \in 0 .. Size - 1 : Lowest(o, n) /\ Give(o, n, Lost)
           /\ answer' = "OSError"

\* An empty buffer is refused only when the region is full.
Refuse(n) == /\ \A o \in 0 .. Size - 1 : ~Room(o, IF n = 0 THEN 1 ELSE n)
             /\ answer' = "MemoryError"
             /\ UNCHANGED owner

Return(b) == /\ owner' = [p \in 0 .. Size - 1 |->
                            IF owner[p] = b THEN Nobody ELSE owner[p]]
             /\ answer' = "none"

PoolNext == \/ \E n \in Needs : (\E b \in Buffers : Grant(b, n)) \/ Lose(n) \/ Refuse(n)
            \/ \E b \in Buffers : Return(b)

PoolSpec == PoolInit /\ [][PoolNext]_poolVars
=============================================================================
