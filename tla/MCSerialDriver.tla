---------------------------- MODULE MCSerialDriver ----------------------------
(* A small instance of SerialDriver for TLC: FIFOs of two bytes, a queue of    *)
(* one, and strings that need the handler not at all, once and twice.          *)
EXTENDS SerialDriver

\* An empty string, a character, what fits the FIFO, and what needs the handler twice.
MCLengths == {0, 1, 2, 4}
=============================================================================
