--------------------------- MODULE MCControllerUnit ---------------------------
(* A small instance of ControllerUnit for TLC: two registers (bytes 0..3). *)
EXTENDS ControllerUnit

MCValues == {[hi |-> 0, lo |-> 2], [hi |-> 1, lo |-> 1]}
MCOneRegValues == {[hi |-> 0, lo |-> 1], [hi |-> 1, lo |-> 0]}
MCAlwaysAcks == {TRUE}
MCMayNack == {TRUE, FALSE}
=============================================================================
