--------------------------- MODULE CmaDeviceProofs ---------------------------
(***************************************************************************)
(* Theorems about CmaDevice, for every size of the region, number of       *)
(* buffers and set of requests.                                            *)
(***************************************************************************)
EXTENDS CmaDevice, FiniteSetTheorems, WellFoundedInduction, TLAPS

-----------------------------------------------------------------------------
(* Least and greatest numbers *)

\* A set of numbers up to n has a least one: of the intervals from 0 to one of
\* them, one has no other in it.
LEMMA LeastNumber ==
  ASSUME NEW n \in Nat, NEW T \in SUBSET (0 .. n), T # {}
  PROVE  \E x \in T : \A y \in T : x <= y
<1> DEFINE W == {w \in SUBSET (0 .. n) : \E x \in T : w = 0 .. x}
           Smaller == StrictSubsetOrdering(0 .. n)
<1>1. W \subseteq FiniteSubsetsOf(0 .. n) /\ W # {}
  <2>1. IsFiniteSet(0 .. n)
    BY FS_Interval
  <2>2. FiniteSubsetsOf(0 .. n) = SUBSET (0 .. n)
    BY <2>1, FS_FiniteSubsetsOfFinite
  <2>3. PICK x \in T : TRUE
    OBVIOUS
  <2>4. 0 .. x \in W
    OBVIOUS
  <2> QED BY <2>2, <2>4
<1>2. PICK w \in W : \A v \in W : <<v, w>> \notin Smaller
  <2> HIDE DEF W, Smaller
  <2>1. IsWellFoundedOn(Smaller, FiniteSubsetsOf(0 .. n))
    BY FS_StrictSubsetOrderingWellFounded DEF Smaller
  <2> QED BY <1>1, <2>1, WFMin
<1>3. PICK x \in T : w = 0 .. x
  OBVIOUS
<1>4. ASSUME NEW y \in T, y < x
      PROVE  FALSE
  <2>1. <<0 .. y, 0 .. x>> \in (SUBSET (0 .. n)) \X (SUBSET (0 .. n))
    OBVIOUS
  <2>2. 0 .. y \subseteq 0 .. x /\ 0 .. y # 0 .. x
    <3>1. x \in 0 .. x /\ x \notin 0 .. y
      BY <1>4
    <3> QED BY <1>4, <3>1
  <2>3. 0 .. y \in W
    OBVIOUS
  <2>4. <<0 .. y, 0 .. x>> \in Smaller
    BY <2>1, <2>2, Zenon DEF StrictSubsetOrdering
  <2> QED BY <1>2, <1>3, <2>3, <2>4
<1> QED BY <1>4

LEMMA GreatestNumber ==
  ASSUME NEW n \in Nat, NEW T \in SUBSET (0 .. n), T # {}
  PROVE  \E x \in T : \A y \in T : y <= x
<1> DEFINE U == {u \in 0 .. n : n - u \in T}
<1>1. U \in SUBSET (0 .. n) /\ U # {}
  <2>1. PICK y \in T : TRUE
    OBVIOUS
  <2>2. n - y \in U
    OBVIOUS
  <2> QED BY <2>2
<1> HIDE DEF U
<1>2. PICK u \in U : \A v \in U : u <= v
  BY <1>1, LeastNumber
<1>3. \A y \in T : n - y \in U
  BY DEF U
<1> QED BY <1>2, <1>3 DEF U
-----------------------------------------------------------------------------
(* Coalescing *)

\* No two blocks of a set share a page, and a page is in a block of a set.
Apart(S) == \A x, y \in S : x # y => ~Overlap(x, y)
In(p, S) == \E x \in S : p \in PagesOf(x)

Offs(S) == {y.off : y \in S}
OnlyEnds(S) == {End(y) : y \in S} \ Offs(S)
OnlyStarts(S) == Offs(S) \ {End(y) : y \in S}

LEMMA BlockFacts ==
  ASSUME NEW x \in Block
  PROVE  /\ x.off \in 0 .. Size /\ x.len \in Nat /\ x.off < End(x) /\ End(x) \in 0 .. Size
         /\ x = [off |-> x.off, len |-> End(x) - x.off]
         /\ x.off \in Int /\ End(x) \in Int
BY DeviceAssumption DEF Block, Page, End

LEMMA BlockMade ==
  ASSUME NEW o \in Nat, NEW e \in Nat, o < e, e <= Size
  PROVE  /\ [off |-> o, len |-> e - o] \in Block
         /\ [off |-> o, len |-> e - o].off = o
         /\ End([off |-> o, len |-> e - o]) = e
BY DeviceAssumption DEF Block, Page, End

LEMMA PageOf ==
  ASSUME NEW x \in Block, NEW p \in Int
  PROVE  p \in PagesOf(x) <=> x.off <= p /\ p < End(x)
BY BlockFacts DEF PagesOf

\* Two blocks overlap exactly when they share a page.
LEMMA SharedPage ==
  ASSUME NEW x \in Block, NEW y \in Block, Overlap(x, y)
  PROVE  \E p \in Int : p \in PagesOf(x) /\ p \in PagesOf(y)
<1>1. x.off \in PagesOf(y) \/ y.off \in PagesOf(x)
  BY BlockFacts, PageOf DEF Overlap
<1>2. x.off \in PagesOf(x) /\ y.off \in PagesOf(y)
  BY BlockFacts, PageOf
<1> QED BY <1>1, <1>2, BlockFacts

LEMMA SharingOverlaps ==
  ASSUME NEW x \in Block, NEW y \in Block, NEW p \in Int, p \in PagesOf(x), p \in PagesOf(y)
  PROVE  Overlap(x, y)
BY BlockFacts, PageOf DEF Overlap

LEMMA CoalesceDef ==
  ASSUME NEW S, NEW x
  PROVE  x \in Coalesce(S) <=> /\ x \in Block /\ x.off \in OnlyStarts(S) /\ End(x) \in OnlyEnds(S)
                              /\ \A e \in OnlyEnds(S) : x.off < e => End(x) <= e
BY DEF Coalesce, OnlyStarts, OnlyEnds, Offs

LEMMA EndFacts ==
  ASSUME NEW S \in SUBSET Block
  PROVE  /\ OnlyEnds(S) \in SUBSET (0 .. Size) /\ OnlyStarts(S) \in SUBSET (0 .. Size)
         /\ Offs(S) \in SUBSET (0 .. Size)
BY BlockFacts DEF OnlyEnds, OnlyStarts, Offs

\* A merged block covers no page that was in none.
LEMMA NothingAdded ==
  ASSUME NEW S \in SUBSET Block, NEW x \in Coalesce(S), NEW p \in PagesOf(x)
  PROVE  In(p, S)
<1>1. x \in Block /\ x.off \in OnlyStarts(S) /\ \A e \in OnlyEnds(S) : x.off < e => End(x) <= e
  BY CoalesceDef
<1>2. p \in Int /\ x.off <= p /\ p < End(x)
  BY <1>1, BlockFacts, PageOf DEF PagesOf
<1> DEFINE T == {o \in Offs(S) : o <= p}
<1>3. T \in SUBSET (0 .. Size) /\ x.off \in T
  BY <1>1, <1>2, EndFacts DEF OnlyStarts
<1>4. PICK o \in T : \A q \in T : q <= o
  <2> HIDE DEF T
  <2>1. Size \in Nat /\ T # {}
    BY <1>3, DeviceAssumption
  <2> QED BY <1>3, <2>1, GreatestNumber
<1>5. PICK y \in S : y.off = o
  BY DEF Offs
<1>6. y \in Block /\ x.off <= y.off /\ y.off <= p
  BY <1>3, <1>4, <1>5
<1>7. CASE p < End(y)
  BY <1>2, <1>5, <1>6, <1>7, PageOf DEF In
<1>8. CASE End(y) <= p
  <2>1. x.off < End(y) /\ End(y) < End(x)
    BY <1>1, <1>2, <1>6, <1>8, BlockFacts
  <2>2. End(y) \notin OnlyEnds(S)
    BY <1>1, <2>1, BlockFacts
  <2>3. End(y) \in T
    BY <1>5, <1>8, <2>2 DEF OnlyEnds
  <2> QED BY <1>4, <1>5, <1>6, <2>3, BlockFacts
<1> QED BY <1>1, <1>2, <1>6, <1>7, <1>8, BlockFacts

\* Every page that was in a block is in a merged one.
LEMMA NothingLost ==
  ASSUME NEW S \in SUBSET Block, Apart(S), NEW p \in Int, In(p, S)
  PROVE  In(p, Coalesce(S))
<1>1. PICK y \in S : p \in PagesOf(y)
  BY DEF In
<1>2. y \in Block /\ y.off <= p /\ p < End(y)
  BY <1>1, PageOf
<1> DEFINE A == {o \in OnlyStarts(S) : o <= p}
           B == {e \in OnlyEnds(S) : p < e}
<1>3. \E o \in A : TRUE
  <2>1. PICK o \in Offs(S) : \A q \in Offs(S) : o <= q
    <3>1. y.off \in Offs(S) /\ Size \in Nat
      BY DeviceAssumption DEF Offs
    <3> QED BY <3>1, EndFacts, LeastNumber
  <2>2. o \notin {End(z) : z \in S}
    <3> SUFFICES ASSUME NEW z \in S, End(z) = o PROVE FALSE
      OBVIOUS
    <3>1. z.off \in Offs(S) /\ z \in Block
      BY DEF Offs
    <3> QED BY <2>1, <3>1, BlockFacts
  <2>3. o <= y.off
    BY <2>1 DEF Offs
  <2>4. o \in Int
    BY EndFacts
  <2> QED BY <1>2, <2>2, <2>3, <2>4, BlockFacts DEF OnlyStarts
<1>4. PICK s \in A : \A o \in A : o <= s
  <2>1. A \in SUBSET (0 .. Size) /\ A # {} /\ Size \in Nat
    BY <1>3, EndFacts, DeviceAssumption
  <2> HIDE DEF A
  <2> QED BY <2>1, GreatestNumber
<1>5. \E e \in B : TRUE
  <2> DEFINE Q == {End(z) : z \in S}
  <2>1. PICK e \in Q : \A q \in Q : q <= e
    <3>1. Q \in SUBSET (0 .. Size) /\ End(y) \in Q /\ Size \in Nat
      BY DeviceAssumption, BlockFacts
    <3> HIDE DEF Q
    <3> QED BY <3>1, GreatestNumber
  <2>2. e \notin Offs(S)
    <3> SUFFICES ASSUME NEW z \in S, z.off = e PROVE FALSE
      BY DEF Offs
    <3> QED BY <2>1, BlockFacts
  <2>3. End(y) <= e /\ e \in Int
    BY <2>1, BlockFacts
  <2> QED BY <1>2, <2>2, <2>3, BlockFacts DEF OnlyEnds
<1>6. PICK e \in B : \A q \in B : e <= q
  <2>1. B \in SUBSET (0 .. Size) /\ B # {} /\ Size \in Nat
    BY <1>5, EndFacts, DeviceAssumption
  <2> HIDE DEF B
  <2> QED BY <2>1, LeastNumber
<1>7. ASSUME NEW f \in OnlyEnds(S), s < f, f <= p
      PROVE  FALSE
  <2>1. PICK u \in S : End(u) = f
    BY DEF OnlyEnds
  <2>2. f \notin Offs(S) /\ f \in Int
    BY EndFacts DEF OnlyEnds
  <2>3. f <= y.off
    <3> SUFFICES ASSUME y.off < f PROVE FALSE
      BY <2>2, BlockFacts
    <3>1. Overlap(u, y) /\ u # y
      BY <1>2, <1>7, <2>1, <2>2, BlockFacts DEF Overlap
    <3> QED BY <3>1 DEF Apart
  <2> DEFINE C == {o \in Offs(S) : f <= o}
  <2>4. PICK o \in C : \A q \in C : o <= q
    <3>1. C \in SUBSET (0 .. Size) /\ y.off \in C /\ Size \in Nat
      BY <2>3, EndFacts, DeviceAssumption DEF Offs
    <3> HIDE DEF C
    <3> QED BY <3>1, LeastNumber
  <2>5. o <= y.off /\ f < o /\ o \in Int
    BY <2>2, <2>3, <2>4, EndFacts DEF Offs
  <2>6. o \notin {End(v) : v \in S}
    <3> SUFFICES ASSUME NEW v \in S, End(v) = o PROVE FALSE
      OBVIOUS
    <3>1. v.off < f
      <4> SUFFICES ASSUME f <= v.off PROVE FALSE
        BY <2>2, BlockFacts
      <4>1. v.off \in C
        BY DEF Offs
      <4> QED BY <2>4, <4>1, BlockFacts
    <3>2. Overlap(u, v) /\ u # v
      BY <2>1, <2>2, <2>5, <3>1, BlockFacts DEF Overlap
    <3> QED BY <3>2 DEF Apart
  <2>7. o \in A
    BY <1>2, <2>5, <2>6, BlockFacts DEF OnlyStarts
  <2> QED BY <1>4, <1>7, <2>2, <2>5, <2>7, EndFacts
<1> DEFINE x == [off |-> s, len |-> e - s]
<1>8. s \in Nat /\ e \in Nat /\ s < e /\ e <= Size /\ s <= p /\ p < e
  BY EndFacts, DeviceAssumption
<1>9. x \in Block /\ x.off = s /\ End(x) = e
  BY <1>8, BlockMade
<1>10. \A f \in OnlyEnds(S) : s < f => e <= f
  <2> SUFFICES ASSUME NEW f \in OnlyEnds(S), s < f PROVE e <= f
    OBVIOUS
  <2>1. p < f
    BY <1>7, EndFacts
  <2> QED BY <1>6, <2>1
<1>11. x \in Coalesce(S)
  <2> HIDE DEF x
  <2> QED BY <1>9, <1>10, CoalesceDef
<1>12. p \in PagesOf(x)
  <2> HIDE DEF x
  <2> QED BY <1>8, <1>9, PageOf
<1> QED BY <1>11, <1>12 DEF In

\* Merged blocks share no page.
LEMMA MergedApart ==
  ASSUME NEW S \in SUBSET Block, Apart(S)
  PROVE  Apart(Coalesce(S))
<1>1. ASSUME NEW x \in Coalesce(S), NEW y \in Coalesce(S), Overlap(x, y), x.off <= y.off
      PROVE  x = y
  <2>1. /\ x \in Block /\ x.off \in OnlyStarts(S) /\ End(x) \in OnlyEnds(S)
        /\ \A e \in OnlyEnds(S) : x.off < e => End(x) <= e
        /\ y \in Block /\ y.off \in OnlyStarts(S) /\ End(y) \in OnlyEnds(S)
        /\ \A e \in OnlyEnds(S) : y.off < e => End(y) <= e
    BY CoalesceDef
  <2>2. y.off < End(x)
    BY <1>1 DEF Overlap
  <2>3. End(x) = End(y)
    BY <1>1, <2>1, <2>2, BlockFacts
  <2>4. CASE x.off < y.off
    <3>1. y.off - 1 \in PagesOf(x)
      BY <2>1, <2>2, <2>4, BlockFacts, PageOf
    <3>2. PICK z \in S : y.off - 1 \in PagesOf(z)
      BY <3>1, NothingAdded DEF In
    <3>3. PICK w \in S : w.off = y.off
      BY <2>1 DEF OnlyStarts, Offs
    <3>4. z.off < y.off /\ y.off <= End(z)
      BY <2>1, <3>2, BlockFacts, PageOf
    <3>5. End(z) # y.off
      BY <2>1 DEF OnlyStarts
    <3>6. Overlap(z, w) /\ z # w
      BY <2>1, <3>3, <3>4, <3>5, BlockFacts DEF Overlap
    <3> QED BY <3>6 DEF Apart
  <2>5. CASE x.off = y.off
    BY <2>1, <2>3, <2>5, BlockFacts
  <2> QED BY <1>1, <2>1, <2>4, <2>5, BlockFacts
<1> SUFFICES ASSUME NEW x \in Coalesce(S), NEW y \in Coalesce(S), x # y, Overlap(x, y)
             PROVE  FALSE
  BY DEF Apart
<1>2. Overlap(y, x) /\ x \in Block /\ y \in Block
  BY CoalesceDef DEF Overlap
<1>3. x.off <= y.off \/ y.off <= x.off
  BY <1>2, BlockFacts
<1> QED BY <1>1, <1>2, <1>3

\* No merged block begins where another ends.
LEMMA MergedCoalesced ==
  ASSUME NEW S \in SUBSET Block, NEW x \in Coalesce(S), NEW y \in Coalesce(S)
  PROVE  End(x) # y.off
BY CoalesceDef DEF OnlyEnds, OnlyStarts
-----------------------------------------------------------------------------
(* What reserving does *)

LEMMA PagesForIsNat ==
  ASSUME NEW r \in Requests
  PROVE  PagesFor(r) \in Nat
<1>1. r \in Nat /\ PageSize \in Nat /\ PageSize > 0
  BY DeviceAssumption
<1>2. r + PageSize - 1 \in Nat
  BY <1>1
<1> QED BY <1>1, <1>2 DEF PagesFor

LEMMA ReservedPages ==
  ASSUME NEW x \in Block, NEW n \in Nat
  PROVE  PagesOf(Reserved(x, n)) = x.off .. x.off + n - 1
<1>1. x.off \in Int
  BY BlockFacts
<1>2. Reserved(x, n).off = x.off /\ Reserved(x, n).len = n
  BY DEF Reserved
<1>3. End(Reserved(x, n)) = x.off + n
  BY <1>2 DEF End
<1> QED BY <1>1, <1>2, <1>3 DEF PagesOf

LEMMA Split ==
  ASSUME NEW x \in Block, NEW n \in Nat, 0 < n, n <= x.len
  PROVE  /\ Reserved(x, n) \in Block /\ Remainder(x, n) \subseteq Block
         /\ \A y \in Remainder(x, n) :
              /\ ~Overlap(Reserved(x, n), y) /\ ~Overlap(y, Reserved(x, n))
              /\ End(y) = End(x) /\ x.off < y.off
         /\ \A z, y \in Remainder(x, n) : z = y
         /\ \A z \in Block, y \in Remainder(x, n) \cup {Reserved(x, n)} :
              /\ Overlap(z, y) => Overlap(z, x)
              /\ Overlap(y, z) => Overlap(x, z)
         /\ \A p \in PagesOf(x) : In(p, Remainder(x, n) \cup {Reserved(x, n)})
<1> DEFINE r == Reserved(x, n)
           y == [off |-> x.off + n, len |-> x.len - n]
<1>1. /\ x.off \in Nat /\ x.len \in Nat /\ End(x) <= Size /\ End(x) = x.off + x.len
      /\ Size \in Nat /\ x.off < Size
  BY DeviceAssumption DEF Block, Page, End
<1>2. r \in Block /\ r.off = x.off /\ End(r) = x.off + n
  BY <1>1, DeviceAssumption DEF Reserved, Block, Page, End
<1>3. CASE x.len = n
  <2>1. Remainder(x, n) = {} /\ r = x
    <3>1. x = [off |-> x.off, len |-> x.len]
      BY DEF Block
    <3> QED BY <1>3, <3>1 DEF Remainder, Reserved
  <2> QED BY <1>2, <2>1 DEF In
<1>4. CASE x.len # n
  <2>1. Remainder(x, n) = {y}
    BY <1>4 DEF Remainder
  <2>2. y \in Block /\ y.off = x.off + n /\ End(y) = End(x)
    BY <1>1, <1>4, DeviceAssumption DEF Block, Page, End
  <2> HIDE DEF y, r
  <2>3. ~Overlap(r, y) /\ ~Overlap(y, r) /\ x.off < y.off
    BY <1>1, <1>2, <2>2, BlockFacts DEF Overlap
  <2>4. ASSUME NEW z \in Block, NEW v \in {y, r}
        PROVE  (Overlap(z, v) => Overlap(z, x)) /\ (Overlap(v, z) => Overlap(x, z))
    BY <1>1, <1>2, <2>2, BlockFacts DEF Overlap
  <2>5. ASSUME NEW p \in PagesOf(x)
        PROVE  In(p, {y, r})
    <3>1. p \in Int /\ x.off <= p /\ p < End(x)
      BY <1>1 DEF PagesOf
    <3>2. p \in PagesOf(r) \/ p \in PagesOf(y)
      BY <1>1, <1>2, <2>2, <3>1 DEF PagesOf
    <3> QED BY <3>2 DEF In
  <2> QED BY <1>2, <2>1, <2>2, <2>3, <2>4, <2>5 DEF r
<1> QED BY <1>3, <1>4

-----------------------------------------------------------------------------
(* The inductive invariant *)

\* Freed blocks are coalesced: no free block begins where another one ends.
Coalesced == \A x, y \in free : End(x) # y.off

Inv == TypeOK /\ Partition /\ Coalesced

\* The free list after a block was split: it has lost what was reserved, and nothing
\* else; and it is still coalesced.
LEMMA Taken ==
  ASSUME Inv, NEW n \in Nat, 0 < n, NEW x \in FirstFit(n),
         free' = (free \ {x}) \cup Remainder(x, n)
  PROVE  /\ free' \subseteq Block /\ Reserved(x, n) \in Block
         /\ \A y, z \in free' : y # z => ~Overlap(y, z)
         /\ \A y \in free' : ~Overlap(y, Reserved(x, n)) /\ ~Overlap(Reserved(x, n), y)
         /\ \A z \in Block : (\A y \in free : ~Overlap(y, z)) =>
              /\ \A y \in free' : ~Overlap(y, z)
              /\ ~Overlap(Reserved(x, n), z)
         /\ \A z \in Block : (\A y \in free : ~Overlap(z, y)) =>
              /\ \A y \in free' : ~Overlap(z, y)
              /\ ~Overlap(z, Reserved(x, n))
         /\ \A p \in Page : In(p, free) => In(p, free') \/ p \in PagesOf(Reserved(x, n))
         /\ \A y, z \in free' : End(y) # z.off
<1> DEFINE r == Reserved(x, n)
           R == Remainder(x, n)
<1>1. x \in free /\ x \in Block /\ n <= x.len
  <2>1. x \in free /\ x \in Block /\ x.len >= n
    BY DEF FirstFit, Fits, Inv, TypeOK
  <2> QED BY <2>1, BlockFacts
<1>2. /\ r \in Block /\ R \subseteq Block
      /\ \A y \in R : ~Overlap(r, y) /\ ~Overlap(y, r) /\ End(y) = End(x) /\ x.off < y.off
      /\ \A z, y \in R : z = y
      /\ \A z \in Block, y \in R \cup {r} : /\ Overlap(z, y) => Overlap(z, x)
                                            /\ Overlap(y, z) => Overlap(x, z)
      /\ \A p \in PagesOf(x) : In(p, R \cup {r})
  BY <1>1, Split
<1>3. /\ \A y, z \in free : (y # z => ~Overlap(y, z)) /\ End(y) # z.off
      /\ free \subseteq Block
  BY DEF Inv, TypeOK, Partition, Disjoint, Coalesced
<1> HIDE DEF r, R
<1>4. free' = (free \ {x}) \cup R
  BY DEF R
<1>5. free' \subseteq Block
  BY <1>2, <1>3, <1>4
<1>6. \A y, z \in free' : y # z => ~Overlap(y, z)
  BY <1>1, <1>2, <1>3, <1>4
<1>7. \A y \in free' : ~Overlap(y, r) /\ ~Overlap(r, y)
  <2> SUFFICES ASSUME NEW y \in free' PROVE ~Overlap(y, r) /\ ~Overlap(r, y)
    OBVIOUS
  <2>1. CASE y \in R
    BY <1>2, <2>1
  <2>2. CASE y \in free \ {x}
    BY <1>1, <1>2, <1>3, <2>2
  <2> QED BY <1>4, <2>1, <2>2
<1>8. \A z \in Block : (\A y \in free : ~Overlap(y, z)) =>
        (\A y \in free' : ~Overlap(y, z)) /\ ~Overlap(r, z)
  BY <1>1, <1>2, <1>4
<1>9. \A z \in Block : (\A y \in free : ~Overlap(z, y)) =>
        (\A y \in free' : ~Overlap(z, y)) /\ ~Overlap(z, r)
  BY <1>1, <1>2, <1>4
<1>10. ASSUME NEW p \in Page, In(p, free)
       PROVE  In(p, free') \/ p \in PagesOf(r)
  BY <1>2, <1>4, <1>10 DEF In
<1>11. ASSUME NEW y \in free', NEW z \in free'
       PROVE  End(y) # z.off
  <2>1. CASE y \in free /\ z \in free
    BY <1>3, <2>1
  <2>2. CASE y \in R /\ z \in free
    BY <1>1, <1>2, <1>3, <2>2
  <2>3. CASE z \in R
    <3>1. z \in Block /\ y \in Block /\ x.off < z.off /\ End(z) = End(x)
      BY <1>2, <1>5, <2>3
    <3> SUFFICES ASSUME End(y) = z.off PROVE FALSE
      OBVIOUS
    <3>2. y # x
      BY <1>1, <3>1, BlockFacts
    <3>3. Overlap(y, x)
      BY <1>1, <3>1, BlockFacts DEF Overlap
    <3>4. y \in free
      BY <1>2, <1>4, <2>3, <3>1, BlockFacts
    <3> QED BY <1>1, <1>3, <3>2, <3>3, <3>4
  <2> QED BY <1>4, <2>1, <2>2, <2>3
<1> QED BY <1>2, <1>5, <1>6, <1>7, <1>8, <1>9, <1>10, <1>11 DEF r
-----------------------------------------------------------------------------
(* The steps *)

LEMMA InitHolds == Init => Inv
<1> SUFFICES ASSUME Init PROVE Inv
  OBVIOUS
<1> DEFINE x == [off |-> 0, len |-> Size]
<1>1. x \in Block /\ x.off = 0 /\ End(x) = Size /\ Size > 0
  BY DeviceAssumption DEF Block, Page, End
<1>2. free = {x} /\ lost = {} /\ Live = {}
  BY DEF Init, Live
<1> HIDE DEF x
<1>3. TypeOK
  BY <1>1, <1>2 DEF Init, TypeOK
<1>4. Disjoint
  BY <1>2 DEF Disjoint
<1>5. Covered
  BY <1>1, <1>2, DeviceAssumption DEF Covered, Page, PagesOf
<1>6. Coalesced
  BY <1>1, <1>2 DEF Coalesced
<1> QED BY <1>3, <1>4, <1>5, <1>6 DEF Inv, Partition

LEMMA AllocateHolds ==
  ASSUME Inv, NEW b \in Buffers, NEW n \in Nat, Allocate(b, n)
  PROVE  Inv'
<1>1. PICK x \in FirstFit(n) : /\ free' = (free \ {x}) \cup Remainder(x, n)
                               /\ block' = [block EXCEPT ![b] = Reserved(x, n)]
  BY DEF Allocate
<1>2. /\ state[b] = "new" /\ 0 < n /\ state' = [state EXCEPT ![b] = "live"]
      /\ answer' = "buffer" /\ lost' = lost
  BY DEF Allocate
<1> DEFINE r == Reserved(x, n)
<1>3. /\ free' \subseteq Block /\ r \in Block
      /\ \A y, z \in free' : y # z => ~Overlap(y, z)
      /\ \A y \in free' : ~Overlap(y, r) /\ ~Overlap(r, y)
      /\ \A z \in Block : (\A y \in free : ~Overlap(y, z)) =>
           (\A y \in free' : ~Overlap(y, z)) /\ ~Overlap(r, z)
      /\ \A z \in Block : (\A y \in free : ~Overlap(z, y)) =>
           (\A y \in free' : ~Overlap(z, y)) /\ ~Overlap(z, r)
      /\ \A p \in Page : In(p, free) => In(p, free') \/ p \in PagesOf(r)
      /\ \A y, z \in free' : End(y) # z.off
  BY <1>1, <1>2, Taken
<1> HIDE DEF r
<1>4. /\ free \subseteq Block /\ lost \subseteq Block
      /\ state \in [Buffers -> {"new", "live", "freed"}]
      /\ block \in [Buffers -> Block \cup {NoBlock}]
      /\ \A a \in Buffers : state[a] # "new" => block[a] \in Block
  BY DEF Inv, TypeOK
<1>5. /\ block' = [block EXCEPT ![b] = r] /\ block'[b] = r
      /\ \A a \in Buffers \ {b} : block'[a] = block[a] /\ state'[a] = state[a]
      /\ state'[b] = "live"
  BY <1>1, <1>2, <1>4 DEF r
<1>6. TypeOK'
  BY <1>2, <1>3, <1>4, <1>5 DEF TypeOK
<1>7. Live' = Live \cup {b} /\ b \notin Live /\ Live \subseteq Buffers
  BY <1>2, <1>5 DEF Live
<1>8. \A a \in Live : block'[a] = block[a] /\ block[a] \in Block
  BY <1>4, <1>5, <1>7 DEF Live
<1>9. /\ \A y, z \in lost : y # z => ~Overlap(y, z)
      /\ \A a, c \in Live : a # c => ~Overlap(block[a], block[c])
      /\ \A y \in free, z \in lost : ~Overlap(y, z)
      /\ \A a \in Live, y \in free \cup lost : ~Overlap(block[a], y)
  BY DEF Inv, Partition, Disjoint
<1>10. \A y, z : Overlap(y, z) <=> Overlap(z, y)
  BY DEF Overlap
<1>11. Disjoint'
  <2>1. \A y \in free', z \in lost' : ~Overlap(y, z)
    BY <1>2, <1>3, <1>4, <1>9
  <2>2. \A a \in Live', y \in free' \cup lost' : ~Overlap(block'[a], y)
    <3>1. \A y \in free' \cup lost : ~Overlap(r, y)
      BY <1>3, <1>4, <1>9
    <3>2. \A a \in Live, y \in free' \cup lost : ~Overlap(block[a], y)
      BY <1>3, <1>4, <1>8, <1>9
    <3> QED BY <1>2, <1>5, <1>7, <1>8, <3>1, <3>2
  <2>3. \A a, c \in Live' : a # c => ~Overlap(block'[a], block'[c])
    <3>1. \A a \in Live : ~Overlap(block[a], r)
      BY <1>3, <1>8, <1>9
    <3> QED BY <1>5, <1>7, <1>8, <1>9, <1>10, <3>1
  <2> QED BY <1>2, <1>3, <1>9, <2>1, <2>2, <2>3 DEF Disjoint
<1>12. Covered'
  <2> SUFFICES ASSUME NEW p \in Page
               PROVE  \/ \E y \in free' \cup lost' : p \in PagesOf(y)
                      \/ \E a \in Live' : p \in PagesOf(block'[a])
    BY DEF Covered
  <2>1. \/ In(p, free) \/ In(p, lost)
        \/ \E a \in Live : p \in PagesOf(block[a])
    BY DEF Inv, Partition, Covered, In
  <2>2. CASE In(p, free)
    BY <1>3, <1>5, <1>7, <2>2 DEF In
  <2>3. CASE In(p, lost)
    BY <1>2, <2>3 DEF In
  <2>4. CASE \E a \in Live : p \in PagesOf(block[a])
    BY <1>7, <1>8, <2>4
  <2> QED BY <2>1, <2>2, <2>3, <2>4
<1>13. Coalesced'
  BY <1>3 DEF Coalesced
<1> QED BY <1>6, <1>11, <1>12, <1>13 DEF Inv, Partition

LEMMA MappingFailsHolds ==
  ASSUME Inv, NEW n \in Nat, MappingFails(n)
  PROVE  Inv'
<1>1. PICK x \in FirstFit(n) :
        /\ free' = (free \ {x}) \cup Remainder(x, n)
        /\ lost' = IF n = 0 THEN lost ELSE lost \cup {Reserved(x, n)}
  BY DEF MappingFails
<1>2. state' = state /\ block' = block /\ answer' = "OSError" /\ Live' = Live
  BY DEF MappingFails, Live
<1>3. /\ free \subseteq Block /\ lost \subseteq Block
      /\ state \in [Buffers -> {"new", "live", "freed"}]
      /\ block \in [Buffers -> Block \cup {NoBlock}]
      /\ \A a \in Buffers : state[a] # "new" => block[a] \in Block
  BY DEF Inv, TypeOK
<1>4. \A a \in Live : block[a] \in Block
  BY <1>3 DEF Live
<1>5. /\ \A y, z \in lost : y # z => ~Overlap(y, z)
      /\ \A a, c \in Live : a # c => ~Overlap(block[a], block[c])
      /\ \A y \in free, z \in lost : ~Overlap(y, z)
      /\ \A a \in Live, y \in free \cup lost : ~Overlap(block[a], y)
  BY DEF Inv, Partition, Disjoint
<1>6. CASE n = 0
  <2>1. x \in free /\ x \in Block
    BY <1>3 DEF FirstFit
  <2>2. Remainder(x, n) = {x}
    <3>1. x.off \in Int /\ x.len \in Int /\ x.len # 0 /\ x = [off |-> x.off, len |-> x.len]
      BY <2>1, DeviceAssumption DEF Block, Page
    <3>2. Remainder(x, n) = {[off |-> x.off + 0, len |-> x.len - 0]}
      BY <1>6, <3>1 DEF Remainder
    <3>3. x.off + 0 = x.off /\ x.len - 0 = x.len
      BY <3>1
    <3> QED BY <3>1, <3>2, <3>3
  <2>3. free' = free /\ lost' = lost
    BY <1>1, <1>6, <2>1, <2>2
  <2>4. TypeOK'
    BY <1>2, <2>3 DEF Inv, TypeOK
  <2>5. Disjoint' /\ Covered' /\ Coalesced'
    BY <1>2, <2>3 DEF Inv, Partition, Disjoint, Covered, Coalesced
  <2> QED BY <2>4, <2>5 DEF Inv, Partition
<1>7. CASE n # 0
  <2> DEFINE r == Reserved(x, n)
  <2>1. /\ free' \subseteq Block /\ r \in Block
        /\ \A y, z \in free' : y # z => ~Overlap(y, z)
        /\ \A y \in free' : ~Overlap(y, r) /\ ~Overlap(r, y)
        /\ \A z \in Block : (\A y \in free : ~Overlap(y, z)) =>
             (\A y \in free' : ~Overlap(y, z)) /\ ~Overlap(r, z)
        /\ \A z \in Block : (\A y \in free : ~Overlap(z, y)) =>
             (\A y \in free' : ~Overlap(z, y)) /\ ~Overlap(z, r)
        /\ \A p \in Page : In(p, free) => In(p, free') \/ p \in PagesOf(r)
        /\ \A y, z \in free' : End(y) # z.off
    <3>1. 0 < n
      BY <1>7
    <3> QED BY <1>1, <3>1, Taken
  <2>2. lost' = lost \cup {r}
    BY <1>1, <1>7
  <2> HIDE DEF r
  <2>3. TypeOK'
    BY <1>2, <1>3, <2>1, <2>2 DEF TypeOK
  <2>4. \A y, z : Overlap(y, z) <=> Overlap(z, y)
    BY DEF Overlap
  <2>5. Disjoint'
    <3>1. \A y \in free', z \in lost' : ~Overlap(y, z)
      BY <1>3, <1>5, <2>1, <2>2
    <3>2. \A a \in Live, y \in free' \cup lost' : ~Overlap(block[a], y)
      BY <1>3, <1>4, <1>5, <2>1, <2>2
    <3>3. \A z \in lost : ~Overlap(r, z)
      BY <1>3, <1>5, <2>1
    <3>4. \A y, z \in lost' : y # z => ~Overlap(y, z)
      BY <1>5, <2>2, <2>4, <3>3
    <3> QED BY <1>2, <1>5, <2>1, <3>1, <3>2, <3>4 DEF Disjoint
  <2>6. Covered'
    <3> SUFFICES ASSUME NEW p \in Page
                 PROVE  \/ \E y \in free' \cup lost' : p \in PagesOf(y)
                        \/ \E a \in Live' : p \in PagesOf(block'[a])
      BY DEF Covered
    <3>1. \/ In(p, free) \/ In(p, lost)
          \/ \E a \in Live : p \in PagesOf(block[a])
      BY DEF Inv, Partition, Covered, In
    <3> QED BY <1>2, <2>1, <2>2, <3>1 DEF In
  <2>7. Coalesced'
    BY <2>1 DEF Coalesced
  <2> QED BY <2>3, <2>5, <2>6, <2>7 DEF Inv, Partition
<1> QED BY <1>6, <1>7

LEMMA FreeHolds ==
  ASSUME Inv, NEW b \in Buffers, Free(b)
  PROVE  Inv'
<1>1. /\ state[b] = "live" /\ free' = Coalesce(free \cup {block[b]})
      /\ state' = [state EXCEPT ![b] = "freed"] /\ answer' = "none"
      /\ block' = block /\ lost' = lost
  BY DEF Free, MayFree, WithReturned
<1>2. /\ free \subseteq Block /\ lost \subseteq Block
      /\ state \in [Buffers -> {"new", "live", "freed"}]
      /\ block \in [Buffers -> Block \cup {NoBlock}]
      /\ \A a \in Buffers : state[a] # "new" => block[a] \in Block
  BY DEF Inv, TypeOK
<1>3. b \in Live /\ Live' = Live \ {b} /\ Live \subseteq Buffers
  BY <1>1, <1>2 DEF Live
<1>4. \A a \in Live : block[a] \in Block
  BY <1>2 DEF Live
<1>5. /\ \A y, z \in free : y # z => ~Overlap(y, z)
      /\ \A y, z \in lost : y # z => ~Overlap(y, z)
      /\ \A a, c \in Live : a # c => ~Overlap(block[a], block[c])
      /\ \A y \in free, z \in lost : ~Overlap(y, z)
      /\ \A a \in Live, y \in free \cup lost : ~Overlap(block[a], y)
  BY DEF Inv, Partition, Disjoint
<1>6. \A y, z : Overlap(y, z) <=> Overlap(z, y)
  BY DEF Overlap
<1> DEFINE S == free \cup {block[b]}
<1>7. S \in SUBSET Block /\ Apart(S)
  BY <1>2, <1>3, <1>4, <1>5, <1>6 DEF Apart
<1>8. free' = Coalesce(S)
  BY <1>1
<1>9. \A z \in lost : \A y \in S : ~Overlap(y, z)
  BY <1>3, <1>5
<1>10. \A a \in Live \ {b} : \A y \in S : ~Overlap(y, block[a])
  BY <1>3, <1>5, <1>6
<1>11. \A p \in Int : In(p, free) \/ p \in PagesOf(block[b]) => In(p, S)
  BY DEF In
<1> HIDE DEF S
<1>12. free' \subseteq Block /\ \A y, z \in free' : End(y) # z.off
  BY <1>7, <1>8, CoalesceDef, MergedCoalesced
<1>13. ASSUME NEW z \in Block, \A y \in S : ~Overlap(y, z)
       PROVE  \A y \in free' : ~Overlap(y, z)
  <2> SUFFICES ASSUME NEW y \in free', Overlap(y, z) PROVE FALSE
    OBVIOUS
  <2>1. PICK p \in Int : p \in PagesOf(y) /\ p \in PagesOf(z)
    BY <1>12, SharedPage
  <2>2. PICK x \in S : p \in PagesOf(x)
    BY <1>7, <1>8, <2>1, NothingAdded DEF In
  <2> QED BY <1>7, <1>13, <2>1, <2>2, SharingOverlaps
<1>14. TypeOK'
  <2>1. \A a \in Buffers : state'[a] # "new" => state[a] # "new"
    BY <1>1, <1>2
  <2>2. state' \in [Buffers -> {"new", "live", "freed"}]
    BY <1>1, <1>2
  <2> QED BY <1>1, <1>2, <1>12, <2>1, <2>2 DEF TypeOK
<1>15. Disjoint'
  <2>1. \A y, z \in free' : y # z => ~Overlap(y, z)
    BY <1>7, <1>8, MergedApart DEF Apart
  <2>2. \A y \in free', z \in lost : ~Overlap(y, z)
    BY <1>2, <1>9, <1>13
  <2>3. \A a \in Live \ {b}, y \in free' : ~Overlap(block[a], y)
    BY <1>4, <1>6, <1>10, <1>13
  <2> QED BY <1>1, <1>3, <1>5, <2>1, <2>2, <2>3 DEF Disjoint
<1>16. Covered'
  <2> SUFFICES ASSUME NEW p \in Page
               PROVE  \/ \E y \in free' \cup lost' : p \in PagesOf(y)
                      \/ \E a \in Live' : p \in PagesOf(block'[a])
    BY DEF Covered
  <2>1. \/ In(p, free) \/ In(p, lost)
        \/ \E a \in Live : p \in PagesOf(block[a])
    BY DEF Inv, Partition, Covered, In
  <2>2. p \in Int
    BY DEF Page
  <2>3. CASE In(p, free) \/ p \in PagesOf(block[b])
    BY <1>7, <1>8, <1>11, <2>2, <2>3, NothingLost DEF In
  <2>4. CASE In(p, lost)
    BY <1>1, <2>4 DEF In
  <2>5. CASE \E a \in Live \ {b} : p \in PagesOf(block[a])
    BY <1>1, <1>3, <2>5
  <2> QED BY <2>1, <2>3, <2>4, <2>5
<1>17. Coalesced'
  BY <1>12 DEF Coalesced
<1> QED BY <1>14, <1>15, <1>16, <1>17 DEF Inv, Partition

LEMMA NextHolds == Inv /\ [Next]_vars => Inv'
<1> SUFFICES ASSUME Inv, [Next]_vars PROVE Inv'
  OBVIOUS
<1>1. ASSUME NEW b \in Buffers, NEW q \in Requests, Allocate(b, PagesFor(q)) PROVE Inv'
  BY <1>1, PagesForIsNat, AllocateHolds
<1>2. ASSUME NEW q \in Requests, MappingFails(PagesFor(q)) PROVE Inv'
  BY <1>2, PagesForIsNat, MappingFailsHolds
<1>3. ASSUME NEW q \in Requests, Exhausted(PagesFor(q)) PROVE Inv'
  BY <1>3 DEF Exhausted, Inv, TypeOK, Partition, Disjoint, Covered, Coalesced, Live
<1>4. ASSUME NEW b \in Buffers, Free(b) PROVE Inv'
  BY <1>4, FreeHolds
<1>5. CASE UNCHANGED vars
  BY <1>5 DEF vars, Inv, TypeOK, Partition, Disjoint, Covered, Coalesced, Live
<1> QED BY <1>1, <1>2, <1>3, <1>4, <1>5 DEF Next

LEMMA InvHolds == Spec => []Inv
BY InitHolds, NextHolds, PTL DEF Spec

\* Blocks are runs of pages of the region, and a buffer that was ever live has one.
THEOREM TypeCorrect == Spec => []TypeOK
<1>1. Inv => TypeOK
  BY DEF Inv
<1> QED BY <1>1, InvHolds, PTL

\* Whatever is allocated, freed, refused and lost, and in whatever order, a page of
\* the region is in exactly one block: of the free list, of a live buffer, or lost.
THEOREM MemoryIsPartitioned == Spec => []Partition
<1>1. Inv => Partition
  BY DEF Inv
<1> QED BY <1>1, InvHolds, PTL

\* The free list never holds two blocks where one would do.
THEOREM FreeListIsCoalesced == Spec => []Coalesced
<1>1. Inv => Coalesced
  BY DEF Inv
<1> QED BY <1>1, InvHolds, PTL
-----------------------------------------------------------------------------
(* The pool of pages *)

\* The owner of a page, by the block it is in.
OwnersFit ==
  \A p \in Page :
    /\ In(p, free) => Owner(p) = "nobody"
    /\ In(p, lost) => Owner(p) = "lost"
    /\ \A b \in Live : p \in PagesOf(block[b]) => Owner(p) = b
    /\ \/ In(p, free) /\ Owner(p) = "nobody"
       \/ In(p, lost) /\ Owner(p) = "lost"
       \/ Owner(p) \in Live /\ p \in PagesOf(block[Owner(p)])

LEMMA Owners == Inv => OwnersFit
<1> SUFFICES ASSUME Inv, NEW p \in Page
             PROVE  /\ In(p, free) => Owner(p) = "nobody"
                    /\ In(p, lost) => Owner(p) = "lost"
                    /\ \A b \in Live : p \in PagesOf(block[b]) => Owner(p) = b
                    /\ In(p, free) \/ In(p, lost) \/ \E b \in Live : p \in PagesOf(block[b])
  BY DEF In, OwnersFit
<1>1. /\ free \subseteq Block /\ lost \subseteq Block
      /\ \A b \in Live : block[b] \in Block
      /\ p \in Int
  BY DEF Inv, TypeOK, Live, Page
<1>2. /\ \A a, c \in Live : a # c => ~Overlap(block[a], block[c])
      /\ \A y \in free, z \in lost : ~Overlap(y, z)
      /\ \A a \in Live, y \in free \cup lost : ~Overlap(block[a], y)
  BY DEF Inv, Partition, Disjoint
<1>3. In(p, free) \/ In(p, lost) \/ \E b \in Live : p \in PagesOf(block[b])
  BY DEF Inv, Partition, Covered, In
<1>4. \A b \in Live : p \in PagesOf(block[b]) => ~In(p, free) /\ ~In(p, lost)
  BY <1>1, <1>2, SharingOverlaps DEF In
<1>5. In(p, lost) => ~In(p, free)
  BY <1>1, <1>2, SharingOverlaps DEF In
<1>6. \A a, b \in Live : p \in PagesOf(block[a]) /\ p \in PagesOf(block[b]) => a = b
  BY <1>1, <1>2, SharingOverlaps
<1>7. In(p, free) => Owner(p) = "nobody"
  BY <1>4 DEF Owner, In
<1>8. In(p, lost) => Owner(p) = "lost"
  BY <1>4, <1>5 DEF Owner, In
<1>9. ASSUME NEW b \in Live, p \in PagesOf(block[b])
      PROVE  Owner(p) = b
  <2>1. Owner(p) = CHOOSE c \in Live : p \in PagesOf(block[c])
    BY <1>4, <1>9 DEF Owner, In
  <2> QED BY <1>6, <1>9, <2>1
<1> QED BY <1>3, <1>7, <1>8, <1>9

\* A run of free pages lies within one block of the free list.
LEMMA RunInOneBlock ==
  ASSUME Inv, NEW q \in Nat, NEW n \in Nat, 0 < n, q + n <= Size,
         \A p \in q .. q + n - 1 : Owner(p) = "nobody"
  PROVE  \E y \in free : y.off <= q /\ y.len >= n
<1>1. /\ free \subseteq Block
      /\ \A y, z \in free : (y # z => ~Overlap(y, z)) /\ End(y) # z.off
  BY DEF Inv, TypeOK, Partition, Disjoint, Coalesced
<1>2. ASSUME NEW p \in q .. q + n - 1 PROVE In(p, free)
  <2>1. p \in Page /\ Owner(p) = "nobody"
    BY <1>2, DeviceAssumption DEF Page
  <2>2. "nobody" \notin Live /\ "nobody" # "lost"
    BY DeviceAssumption DEF Live
  <2> QED BY <2>1, <2>2, Owners DEF OwnersFit
<1>3. PICK y \in free : q \in PagesOf(y)
  <2>1. q \in q .. q + n - 1
    OBVIOUS
  <2> QED BY <1>2, <2>1 DEF In
<1>4. y \in Block /\ y.off <= q /\ q < End(y) /\ y.len = End(y) - y.off
      /\ End(y) \in Int /\ y.off \in Int
  <2>1. y \in Block
    BY <1>1
  <2> QED BY <1>3, <2>1, PageOf, BlockFacts DEF Block, End, Page
<1>5. q + n <= End(y)
  <2> SUFFICES ASSUME End(y) < q + n PROVE FALSE
    BY <1>4
  <2>1. End(y) \in q .. q + n - 1
    BY <1>4
  <2>2. PICK z \in free : End(y) \in PagesOf(z)
    BY <1>2, <2>1 DEF In
  <2>3. z \in Block /\ z.off <= End(y) /\ End(y) < End(z)
    BY <1>1, <1>4, <2>2, PageOf
  <2>4. z.off < End(y) /\ z # y
    BY <1>1, <1>4, <2>3, BlockFacts
  <2>5. Overlap(y, z)
    BY <1>4, <2>3, <2>4, BlockFacts DEF Overlap
  <2> QED BY <1>1, <2>4, <2>5
<1> QED BY <1>4, <1>5

\* First fit finds the lowest run of free pages that is long enough.
LEMMA FirstFitIsLowest ==
  ASSUME Inv, NEW n \in Nat, 0 < n, NEW x \in FirstFit(n)
  PROVE  x.off \in 0 .. Size - 1 /\ Pool!Lowest(x.off, n)
<1>1. x \in free /\ x \in Block /\ x.len >= n /\ \A y \in free : y.len >= n => x.off <= y.off
  BY DEF FirstFit, Fits, Inv, TypeOK
<1>2. /\ x.off \in 0 .. Size - 1 /\ x.off \in Nat /\ x.len \in Nat /\ End(x) = x.off + x.len
      /\ End(x) <= Size /\ Size \in Nat
  BY <1>1, DeviceAssumption DEF Block, Page, End
<1>3. Pool!Room(x.off, n)
  <2>1. ASSUME NEW p \in x.off .. x.off + n - 1
        PROVE  p \in Page /\ Owner(p) = "nobody"
    <3>1. p \in Page /\ p \in PagesOf(x)
      BY <1>1, <1>2, <2>1 DEF Page, PagesOf
    <3> QED BY <1>1, <3>1, Owners DEF In, OwnersFit
  <2> QED BY <1>1, <1>2, <2>1 DEF Pool!Room
<1>4. ASSUME NEW q \in 0 .. x.off - 1, Pool!Room(q, n)
      PROVE  FALSE
  <2>1. q \in Nat /\ q < x.off /\ q + n <= Size
    BY <1>2, <1>4 DEF Pool!Room
  <2>2. ASSUME NEW p \in q .. q + n - 1
        PROVE  Owner(p) = "nobody"
    <3>1. p \in Page
      BY <1>2, <2>1 DEF Page
    <3> QED BY <1>4, <3>1 DEF Pool!Room
  <2>3. PICK y \in free : y.off <= q /\ y.len >= n
    BY <2>1, <2>2, RunInOneBlock
  <2>4. y \in Block
    BY DEF Inv, TypeOK
  <2> QED BY <1>1, <1>2, <2>1, <2>3, <2>4, BlockFacts
<1> QED BY <1>2, <1>3, <1>4 DEF Pool!Lowest
\* The same of the blocks after a step.
LEMMA OwnersAfter == Inv' => OwnersFit'
BY Owners, PTL

\* The first block of the list that is long enough exists if there is any.
LEMMA FirstFitExists ==
  ASSUME Inv, NEW n \in Nat, FirstFit(n) = {}, NEW y \in free
  PROVE  y.len < n
<1>1. free \subseteq Block
  BY DEF Inv, TypeOK
<1> SUFFICES ASSUME y.len >= n PROVE FALSE
  BY <1>1, BlockFacts
<1> DEFINE T == {o \in 0 .. Size : \E z \in free : z.len >= n /\ z.off = o}
<1>2. T \in SUBSET (0 .. Size) /\ y.off \in T /\ Size \in Nat
  BY <1>1, BlockFacts, DeviceAssumption
<1>3. PICK o \in T : \A q \in T : o <= q
  <2> HIDE DEF T
  <2> QED BY <1>2, LeastNumber
<1>4. PICK x \in free : x.len >= n /\ x.off = o
  OBVIOUS
<1>5. \A z \in free : z.len >= n => z.off \in T
  BY <1>1, BlockFacts
<1>6. x \in FirstFit(n)
  BY <1>3, <1>4, <1>5 DEF FirstFit, Fits
<1> QED BY <1>6

LEMMA AllocateGrants ==
  ASSUME Inv, Inv', NEW b \in Buffers, NEW n \in Nat, Allocate(b, n)
  PROVE  Pool!Grant(b, n)
<1>1. PICK x \in FirstFit(n) : /\ free' = (free \ {x}) \cup Remainder(x, n)
                               /\ block' = [block EXCEPT ![b] = Reserved(x, n)]
  BY DEF Allocate
<1>2. /\ state[b] = "new" /\ 0 < n /\ state' = [state EXCEPT ![b] = "live"]
      /\ answer' = "buffer" /\ lost' = lost
  BY DEF Allocate
<1>3. x.off \in 0 .. Size - 1 /\ Pool!Lowest(x.off, n)
  BY <1>2, FirstFitIsLowest
<1>4. x \in free /\ x \in Block /\ n <= x.len
  <2>1. x \in free /\ x \in Block /\ x.len >= n
    BY DEF FirstFit, Fits, Inv, TypeOK
  <2> QED BY <2>1, BlockFacts
<1>5. state \in [Buffers -> {"new", "live", "freed"}] /\ block \in [Buffers -> Block \cup {NoBlock}]
  BY DEF Inv, TypeOK
<1>6. /\ block'[b] = Reserved(x, n) /\ Live' = Live \cup {b} /\ b \notin Live
      /\ \A a \in Live : block'[a] = block[a]
  BY <1>1, <1>2, <1>5 DEF Live
<1>7. PagesOf(Reserved(x, n)) = x.off .. x.off + n - 1
  BY <1>4, ReservedPages
<1>8. b # "nobody" /\ b # "lost" /\ "nobody" \notin Live /\ "lost" \notin Live
  BY DeviceAssumption DEF Live
<1>9. \A p \in Page : Owner(p) # b
  BY <1>6, <1>8, Owners DEF OwnersFit
<1>10. ASSUME NEW p \in Page
       PROVE  Owner(p)' = IF p \in x.off .. x.off + n - 1 THEN b ELSE Owner(p)
  <2>1. p \in Int
    BY DEF Page
  <2>2. CASE p \in x.off .. x.off + n - 1
    BY <1>6, <1>7, <2>1, <2>2, OwnersAfter DEF OwnersFit
  <2>3. CASE p \notin x.off .. x.off + n - 1
    <3>1. In(p, free) => In(p, free')
      <4> SUFFICES ASSUME NEW y \in free, p \in PagesOf(y) PROVE In(p, free')
        BY DEF In
      <4>1. CASE y = x
        <5>1. In(p, Remainder(x, n) \cup {Reserved(x, n)})
          BY <1>2, <1>4, <4>1, Split
        <5> QED BY <1>1, <1>7, <2>1, <2>3, <5>1 DEF In
      <4>2. CASE y # x
        BY <1>1, <4>2 DEF In
      <4> QED BY <4>1, <4>2
    <3>2. CASE In(p, free)
      BY <2>3, <3>1, <3>2, Owners, OwnersAfter DEF OwnersFit
    <3>3. CASE In(p, lost)
      BY <1>2, <2>3, <3>3, Owners, OwnersAfter DEF OwnersFit
    <3>4. CASE Owner(p) \in Live /\ p \in PagesOf(block[Owner(p)])
      <4>1. Owner(p) \in Live' /\ p \in PagesOf(block'[Owner(p)])
        BY <1>6, <3>4
      <4> QED BY <2>3, <4>1, OwnersAfter DEF OwnersFit
    <3> QED BY <3>2, <3>3, <3>4, Owners DEF OwnersFit
  <2> QED BY <2>2, <2>3
<1>11. Pool!Give(x.off, n, b)
  BY <1>10 DEF Pool!Give, Page
<1> QED BY <1>2, <1>3, <1>9, <1>11 DEF Pool!Grant, Page

LEMMA MappingFailsLoses ==
  ASSUME Inv, Inv', NEW n \in Nat, MappingFails(n)
  PROVE  Pool!Lose(n)
<1>1. PICK x \in FirstFit(n) :
        /\ free' = (free \ {x}) \cup Remainder(x, n)
        /\ lost' = IF n = 0 THEN lost ELSE lost \cup {Reserved(x, n)}
  BY DEF MappingFails
<1>2. state' = state /\ block' = block /\ answer' = "OSError" /\ Live' = Live
  BY DEF MappingFails, Live
<1>3. x \in free /\ x \in Block /\ n <= x.len
  <2>1. x \in free /\ x \in Block /\ x.len >= n
    BY DEF FirstFit, Fits, Inv, TypeOK
  <2> QED BY <2>1, BlockFacts
<1>4. "nobody" \notin Live /\ "lost" \notin Live /\ Size \in Nat /\ Size > 0
  BY DeviceAssumption DEF Live
<1>5. CASE n = 0
  <2>1. Remainder(x, n) = {x}
    <3>1. x.off \in Int /\ x.len \in Int /\ x.len # 0 /\ x = [off |-> x.off, len |-> x.len]
      BY <1>3, DeviceAssumption DEF Block, Page
    <3>2. Remainder(x, n) = {[off |-> x.off + 0, len |-> x.len - 0]}
      BY <1>5, <3>1 DEF Remainder
    <3>3. x.off + 0 = x.off /\ x.len - 0 = x.len
      BY <3>1
    <3> QED BY <3>1, <3>2, <3>3
  <2>2. free' = free /\ lost' = lost
    BY <1>1, <1>3, <1>5, <2>1
  <2>3. \A p \in Page : Owner(p)' = Owner(p)
    BY <1>2, <2>2 DEF Owner
  <2>4. Pool!Lowest(0, n)
    BY <1>4, <1>5 DEF Pool!Lowest, Pool!Room
  <2>5. Pool!Give(0, n, "lost")
    BY <1>4, <1>5, <2>3 DEF Pool!Give, Page
  <2> QED BY <1>2, <1>4, <2>4, <2>5 DEF Pool!Lose
<1>6. CASE n # 0
  <2>1. 0 < n /\ lost' = lost \cup {Reserved(x, n)}
    BY <1>1, <1>6
  <2>2. x.off \in 0 .. Size - 1 /\ Pool!Lowest(x.off, n)
    BY <2>1, FirstFitIsLowest
  <2>3. PagesOf(Reserved(x, n)) = x.off .. x.off + n - 1
    BY <1>3, ReservedPages
  <2>4. ASSUME NEW p \in Page
        PROVE  Owner(p)' = IF p \in x.off .. x.off + n - 1 THEN "lost" ELSE Owner(p)
    <3>1. p \in Int
      BY DEF Page
    <3>2. CASE p \in x.off .. x.off + n - 1
      <4>1. In(p, lost')
        BY <2>1, <2>3, <3>1, <3>2 DEF In
      <4> QED BY <3>2, <4>1, OwnersAfter DEF OwnersFit
    <3>3. CASE p \notin x.off .. x.off + n - 1
      <4>1. In(p, free) => In(p, free')
        <5> SUFFICES ASSUME NEW y \in free, p \in PagesOf(y) PROVE In(p, free')
          BY DEF In
        <5>1. CASE y = x
          <6>1. In(p, Remainder(x, n) \cup {Reserved(x, n)})
            BY <1>3, <2>1, <5>1, Split
          <6> QED BY <1>1, <2>3, <3>1, <3>3, <6>1 DEF In
        <5>2. CASE y # x
          BY <1>1, <5>2 DEF In
        <5> QED BY <5>1, <5>2
      <4>2. CASE In(p, free)
        BY <3>3, <4>1, <4>2, Owners, OwnersAfter DEF OwnersFit
      <4>3. CASE In(p, lost)
        <5>1. In(p, lost')
          BY <2>1, <4>3 DEF In
        <5> QED BY <3>3, <4>3, <5>1, Owners, OwnersAfter DEF OwnersFit
      <4>4. CASE Owner(p) \in Live /\ p \in PagesOf(block[Owner(p)])
        <5>1. Owner(p) \in Live' /\ p \in PagesOf(block'[Owner(p)])
          BY <1>2, <4>4
        <5> QED BY <3>3, <5>1, OwnersAfter DEF OwnersFit
      <4> QED BY <4>2, <4>3, <4>4, Owners DEF OwnersFit
    <3> QED BY <3>2, <3>3
  <2>5. Pool!Give(x.off, n, "lost")
    BY <2>4 DEF Pool!Give, Page
  <2> QED BY <1>2, <2>2, <2>5 DEF Pool!Lose
<1> QED BY <1>5, <1>6

LEMMA ExhaustedRefuses ==
  ASSUME Inv, NEW n \in Nat, Exhausted(n)
  PROVE  Pool!Refuse(n)
<1> DEFINE m == IF n = 0 THEN 1 ELSE n
<1>1. FirstFit(n) = {} /\ answer' = "MemoryError" /\ UNCHANGED <<free, state, block, lost>>
  BY DEF Exhausted
<1>2. ASSUME NEW o \in 0 .. Size - 1, Pool!Room(o, m)
      PROVE  FALSE
  <2>1. o \in Nat /\ m \in Nat /\ 0 < m /\ n <= m /\ o + m <= Size
    BY <1>2 DEF Pool!Room
  <2>2. ASSUME NEW p \in o .. o + m - 1 PROVE Owner(p) = "nobody"
    <3>1. p \in Page
      BY <2>1, DeviceAssumption DEF Page
    <3> QED BY <1>2, <3>1 DEF Pool!Room
  <2> HIDE DEF m
  <2>3. PICK y \in free : y.len >= m
    BY <2>1, <2>2, RunInOneBlock
  <2>4. y \in Block
    BY DEF Inv, TypeOK
  <2> QED BY <1>1, <2>1, <2>3, <2>4, FirstFitExists, BlockFacts
<1>3. \A p \in Page : Owner(p)' = Owner(p)
  BY <1>1 DEF Owner, Live
<1>4. [p \in Page |-> Owner(p)]' = [p \in Page |-> Owner(p)]
  BY <1>3 DEF Page
<1> QED BY <1>1, <1>2, <1>4 DEF Pool!Refuse

LEMMA FreeReturns ==
  ASSUME Inv, Inv', NEW b \in Buffers, Free(b)
  PROVE  Pool!Return(b)
<1>1. /\ state[b] = "live" /\ free' = Coalesce(free \cup {block[b]})
      /\ state' = [state EXCEPT ![b] = "freed"] /\ answer' = "none"
      /\ block' = block /\ lost' = lost
  BY DEF Free, MayFree, WithReturned
<1>2. /\ free \subseteq Block /\ state \in [Buffers -> {"new", "live", "freed"}]
      /\ \A a \in Live : block[a] \in Block
  BY DEF Inv, TypeOK, Live
<1>3. b \in Live /\ Live' = Live \ {b}
  BY <1>1, <1>2 DEF Live
<1>4. "nobody" \notin Live /\ "lost" \notin Live
  BY DeviceAssumption DEF Live
<1> DEFINE S == free \cup {block[b]}
<1>5. S \in SUBSET Block /\ Apart(S)
  <2>1. /\ \A x, y \in free : x # y => ~Overlap(x, y)
        /\ \A x \in free : ~Overlap(block[b], x)
    BY <1>3 DEF Inv, Partition, Disjoint
  <2> QED BY <1>2, <1>3, <2>1 DEF Apart, Overlap
<1>6. ASSUME NEW p \in Int, In(p, free) \/ p \in PagesOf(block[b])
      PROVE  In(p, free')
  <2>1. In(p, S)
    BY <1>6 DEF In
  <2> QED BY <1>1, <1>5, <2>1, NothingLost
<1>7. ASSUME NEW p \in Page
      PROVE  Owner(p)' = IF Owner(p) = b THEN "nobody" ELSE Owner(p)
  <2>1. p \in Int
    BY DEF Page
  <2>2. CASE In(p, free)
    BY <1>3, <1>4, <1>6, <2>1, <2>2, Owners, OwnersAfter DEF OwnersFit
  <2>3. CASE In(p, lost)
    BY <1>1, <1>3, <1>4, <2>3, Owners, OwnersAfter DEF OwnersFit
  <2>4. CASE Owner(p) = b /\ p \in PagesOf(block[b])
    BY <1>6, <2>1, <2>4, OwnersAfter DEF OwnersFit
  <2>5. CASE Owner(p) \in Live \ {b} /\ p \in PagesOf(block[Owner(p)])
    <3>1. Owner(p) \in Live' /\ p \in PagesOf(block'[Owner(p)])
      BY <1>1, <1>3, <2>5
    <3> QED BY <2>5, <3>1, OwnersAfter DEF OwnersFit
  <2> QED BY <2>2, <2>3, <2>4, <2>5, Owners DEF OwnersFit
<1> QED BY <1>1, <1>7 DEF Pool!Return, Page

LEMMA PoolInit == Init => Pool!PoolInit
<1> SUFFICES ASSUME Init PROVE Pool!PoolInit
  OBVIOUS
<1>1. Inv
  BY InitHolds
<1>2. Live = {} /\ lost = {} /\ answer = "none"
  BY DEF Init, Live
<1>3. \A p \in Page : Owner(p) = "nobody"
  BY <1>1, <1>2, Owners DEF OwnersFit, In
<1> QED BY <1>2, <1>3 DEF Pool!PoolInit, Page

LEMMA PoolStep == Inv /\ Inv' /\ [Next]_vars => [Pool!PoolNext]_(Pool!poolVars)
<1> SUFFICES ASSUME Inv, Inv', [Next]_vars PROVE [Pool!PoolNext]_(Pool!poolVars)
  OBVIOUS
<1>1. ASSUME NEW b \in Buffers, NEW q \in Requests, Allocate(b, PagesFor(q))
      PROVE  Pool!PoolNext
  BY <1>1, PagesForIsNat, AllocateGrants DEF Pool!PoolNext
<1>2. ASSUME NEW q \in Requests, MappingFails(PagesFor(q))
      PROVE  Pool!PoolNext
  BY <1>2, PagesForIsNat, MappingFailsLoses DEF Pool!PoolNext
<1>3. ASSUME NEW q \in Requests, Exhausted(PagesFor(q))
      PROVE  Pool!PoolNext
  BY <1>3, PagesForIsNat, ExhaustedRefuses DEF Pool!PoolNext
<1>4. ASSUME NEW b \in Buffers, Free(b)
      PROVE  Pool!PoolNext
  BY <1>4, FreeReturns DEF Pool!PoolNext
<1>5. CASE UNCHANGED vars
  <2>1. \A p \in Page : Owner(p)' = Owner(p)
    BY <1>5 DEF Owner, Live, vars
  <2> QED BY <1>5, <2>1 DEF vars, Pool!poolVars, Page
<1> QED BY <1>1, <1>2, <1>3, <1>4, <1>5 DEF Next

\* The allocator with its list of blocks is the pool of pages: each call does to the
\* owners of the pages what PagePool says.
THEOREM PoolIsImplemented == Spec => ImplementsPool
BY PoolInit, PoolStep, InvHolds, PTL DEF Spec, ImplementsPool, Pool!PoolSpec
=============================================================================
