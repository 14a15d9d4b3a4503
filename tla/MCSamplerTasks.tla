--------------------------- MODULE MCSamplerTasks ---------------------------
(* A small instance of SamplerTasks for TLC: two keys, two slots, and an     *)
(* instrument with samples for both keys or for the first only.              *)
EXTENDS SamplerTasks

MCVelocity == {0, 1}
MCVelMin == [k \in Key |-> 0]
MCVelMax == [k \in Key |-> 1]
MCDescriptors == 1 .. 2
MCSampledKeys == {{0}, {0, 1}}

MCAll == {"play_key", "midi", "stop_all", "load_instrument", "listen"}
MCNotes == {"play_key", "midi", "load_instrument"}
=============================================================================
