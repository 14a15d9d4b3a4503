----------------------------- MODULE MCCodecUnit -----------------------------
(* A small instance of CodecUnit for TLC: two codec registers, two values. *)
EXTENDS CodecUnit

CONSTANTS r0, r1, va, vb

MCRegs == {r0, r1}
MCValue == {va, vb}
\* vb differs from va in bit 8 only.
MCLowByte == [v \in MCValue \cup {Zero, Cafe} |-> IF v = vb THEN va ELSE v]
MCNever == {FALSE}
MCMaybe == {FALSE, TRUE}
MCBoth == {"C", "Py"}
MCAll == {"rd", "wr", "reset"}
MCReset == {"reset"}
=============================================================================
