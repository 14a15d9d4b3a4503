----------------------------- MODULE MCCliEditor -----------------------------
(* A small instance of CliEditor for TLC: lines of up to three of two        *)
(* characters; every key the code knows, the escape key, and F1, which is    *)
(* none of the sequences it knows.                                           *)
EXTENDS CliEditor, TLC
CONSTANTS x, y
Csi(b) == <<"ESC", "[", b>>
MCKeys == {<<x>>, <<y>>, <<"CR">>, <<"BS">>, <<"DEL">>, <<"ESC">>, <<"ESC", "O", "P">>,
           Csi("A"), Csi("B"), Csi("C"), Csi("D"), <<"ESC", "[", "3", "~">>, Csi("~")}

\* The part of the state that anything depends on: the kept line only while the
\* last one is shown, the bytes of an escape sequence only within it, and the row
\* only until a key spoils it, from when on nothing is said of it.
MCView ==
  <<pending, lineVars, cLastInputString, ucHistoryIndex, ucReceivingEsc, spoiled,
    IF ucHistoryIndex = 1 THEN cTmpInputString ELSE Empty,
    IF ucReceivingEsc = 2 THEN <<cEscInitialByte, cEscParamByte>> ELSE <<>>,
    IF spoiled THEN Fresh ELSE screen>>
MCSymmetry == Permutations(Chars)
=============================================================================
