----------------------------- MODULE MCCmaDevice -----------------------------
(* A small instance of CmaDevice for TLC: four pages of two bytes, four      *)
(* buffers, requests of zero to three pages with and without a remainder.    *)
EXTENDS CmaDevice, SequencesExt
MCRequests == {0, 1, 4, 5}
MCSymmetry == Permutations(Buffers)

\* The loop of _free, as it is written.
LoopStep(merged, x) ==
  IF merged # <<>> /\ End(Last(merged)) = x.off
    THEN Front(merged) \o <<[off |-> Last(merged).off, len |-> Last(merged).len + x.len]>>
    ELSE Append(merged, x)
Loop(S) == ToSet(FoldLeft(LoopStep, <<>>, SetToSortSeq(S, LAMBDA x, y : x.off < y.off)))

\* The sets of disjoint blocks: some of the pieces into which cuts divide the region.
Pieces(cuts) == {x \in Block : {c \in cuts : x.off <= c /\ c <= End(x)} = {x.off, End(x)}}
DisjointSets == UNION {SUBSET Pieces(cuts) : cuts \in SUBSET (0 .. Size)}

\* Coalesce is what the loop computes for any list of disjoint blocks.
ASSUME LoopCoalesces == \A S \in DisjointSets : Coalesce(S) = Loop(S)
=============================================================================
