------------------------------- MODULE CmaDevice -------------------------------
(***************************************************************************)
(* The first-fit allocator of zynq_cma_device.py, which hands out slices   *)
(* of a reserved region of memory as DMA buffers.  Offsets and lengths are *)
(* counted in pages.  The free list is kept sorted by offset, so it is     *)
(* given here as the set of its blocks.                                    *)
(***************************************************************************)
EXTENDS Integers

CONSTANTS PageSize,  \* bytes in a page
          Size,      \* pages in the region
          Buffers,   \* buffer objects; each is allocated at most once
          Requests   \* sizes in bytes that are asked for

ASSUME DeviceAssumption == /\ PageSize \in Nat \ {0} /\ Size \in Nat \ {0}
                           /\ Requests \subseteq Nat
                           /\ {"nobody", "lost"} \cap Buffers = {}

VARIABLES free,      \* _free_blocks
          state,     \* of each buffer: not there yet, live, freed
          block,     \* _block of each buffer
          lost,      \* blocks reserved for a mapping that failed (history)
          answer     \* what the last call answered or raised (history)

vars == <<free, state, block, lost, answer>>

End(x) == x.off + x.len

Page == 0 .. Size - 1
Block == {x \in [off : Page, len : 1 .. Size] : End(x) <= Size}

PagesOf(x) == x.off .. End(x) - 1

NoBlock == [off |-> 0, len |-> 0]

Init == /\ free = {[off |-> 0, len |-> Size]}
        /\ state = [b \in Buffers |-> "new"]
        /\ block = [b \in Buffers |-> NoBlock]
        /\ lost = {}
        /\ answer = "none"
-----------------------------------------------------------------------------
\* A buffer takes whole pages.
PagesFor(bytes) == (bytes + PageSize - 1) \div PageSize

\* The first block of the list that is long enough.
Fits(x, n) == x.len >= n
FirstFit(n) == {x \in free : Fits(x, n) /\ \A y \in free : Fits(y, n) => x.off <= y.off}

\* What _reserve takes from the block x, and what it leaves in its place.
Reserved(x, n) == [off |-> x.off, len |-> n]

\* Mutant: a block that fits exactly is shortened to nothing instead of removed.
RemainderMut(x, n) == {[off |-> x.off + n, len |-> x.len - n]}
Remainder(x, n) == IF x.len = n THEN {}
                   ELSE {[off |-> x.off + n, len |-> x.len - n]}

\* allocate
Allocate(b, n) ==
  /\ state[b] = "new" /\ n > 0
  /\ \E x \in FirstFit(n) :
       /\ free' = (free \ {x}) \cup Remainder(x, n)
       /\ block' = [block EXCEPT ![b] = Reserved(x, n)]
  /\ state' = [state EXCEPT ![b] = "live"]
  /\ answer' = "buffer"
  /\ UNCHANGED lost

\* allocate, where /dev/mem cannot be opened or mapped (it never maps a length
\* of 0): the block is off the list and belongs to nobody.
MappingFails(n) ==
  /\ \E x \in FirstFit(n) :
       /\ free' = (free \ {x}) \cup Remainder(x, n)
       /\ lost' = IF n = 0 THEN lost ELSE lost \cup {Reserved(x, n)}
  /\ answer' = "OSError"
  /\ UNCHANGED <<state, block>>

Exhausted(n) == /\ FirstFit(n) = {}
                /\ answer' = "MemoryError"
                /\ UNCHANGED <<free, state, block, lost>>

\* _free: sort and coalesce.  A merged block begins where no block ends and runs
\* to the next end where no block begins.
Coalesce(S) ==
  LET Starts == {y.off : y \in S} \ {End(y) : y \in S}
      Ends == {End(y) : y \in S} \ {y.off : y \in S}
  IN {x \in Block : /\ x.off \in Starts /\ End(x) \in Ends
                    /\ \A e \in Ends : x.off < e => End(x) <= e}

\* The free list with the block of a buffer put back.
\* Mutant: the block is only put on the list.
WithReturnedMut(b) == free \cup {block[b]}
WithReturned(b) == Coalesce(free \cup {block[b]})

\* freebuffer; on a buffer that is freed already it does nothing.
\* Mutant: a buffer can be freed again.
MayFreeMut(b) == state[b] # "new"
MayFree(b) == state[b] = "live"

Free(b) == /\ MayFree(b)
           /\ free' = WithReturned(b)
           /\ state' = [state EXCEPT ![b] = "freed"]
           /\ answer' = "none"
           /\ UNCHANGED <<block, lost>>

Next == \/ \E b \in Buffers, r \in Requests : Allocate(b, PagesFor(r))
        \/ \E r \in Requests : MappingFails(PagesFor(r)) \/ Exhausted(PagesFor(r))
        \/ \E b \in Buffers : Free(b)

Spec == Init /\ [][Next]_vars
-----------------------------------------------------------------------------
(* Properties *)

Live == {b \in Buffers : state[b] = "live"}

TypeOK ==
  /\ free \subseteq Block /\ lost \subseteq Block
  /\ state \in [Buffers -> {"new", "live", "freed"}]
  /\ block \in [Buffers -> Block \cup {NoBlock}]
  /\ \A b \in Buffers : state[b] # "new" => block[b] \in Block
  /\ answer \in {"none", "buffer", "OSError", "MemoryError"}

Overlap(x, y) == x.off < End(y) /\ y.off < End(x)

\* No page is in two blocks, be they free, of live buffers or lost: no two
\* buffers share memory and no memory in use is on the free list.
Disjoint ==
  /\ \A x, y \in free : x # y => ~Overlap(x, y)
  /\ \A x, y \in lost : x # y => ~Overlap(x, y)
  /\ \A a, b \in Live : a # b => ~Overlap(block[a], block[b])
  /\ \A x \in free, y \in lost : ~Overlap(x, y)
  /\ \A b \in Live, x \in free \cup lost : ~Overlap(block[b], x)

\* Every page is in one: only a mapping that failed loses memory.
Covered == \A p \in Page : \/ \E x \in free \cup lost : p \in PagesOf(x)
                           \/ \E b \in Live : p \in PagesOf(block[b])

Partition == Disjoint /\ Covered

\* The allocator is the pool of pages: a buffer gets the lowest run of free pages
\* that is long enough, and is refused only when there is none.
Owner(p) == CASE \E x \in free : p \in PagesOf(x) -> "nobody"
              [] \E b \in Live : p \in PagesOf(block[b]) ->
                   CHOOSE b \in Live : p \in PagesOf(block[b])
              [] OTHER -> "lost"
Pool == INSTANCE PagePool WITH Needs <- {PagesFor(r) : r \in Requests},
                               Nobody <- "nobody", Lost <- "lost",
                               owner <- [p \in Page |-> Owner(p)]
ImplementsPool == Pool!PoolSpec
=============================================================================
