---------------------------- MODULE ControllerPort ----------------------------
(***************************************************************************)
(* What the CODEC controller promises to the register unit: the codec's    *)
(* registers behave as one 9-bit register file.  An operation is taken,    *)
(* stays in progress for a while, and ends; a write changes the register   *)
(* it names and nothing else, a read ends with the value of the register   *)
(* it names.  ControllerUnit implements this for a codec that acknowledges *)
(* every byte and a client that leaves the I2C bus time to stop.           *)
(***************************************************************************)
CONSTANTS Regs,      \* the codec's register numbers
          Value      \* the 9-bit register contents

VARIABLES file,      \* the register file
          op,        \* the operation in progress: a set of at most one
          reply      \* the value offered with data-valid: a set of at most one

portVars == <<file, op, reply>>

PortInit == /\ file \in [Regs -> Value]
            /\ op = {}
            /\ reply = {}

\* A read is taken.
PortRead(r) == /\ op = {}
               /\ op' = {[kind |-> "rd", reg |-> r]}
               /\ reply' = {}
               /\ UNCHANGED file

\* A write is taken: from here on every read of r must see v.
PortWrite(r, v) == /\ op = {}
                   /\ op' = {[kind |-> "wr", reg |-> r]}
                   /\ file' = [file EXCEPT ![r] = v]
                   /\ reply' = {}

\* The operation ends; only a read offers a value.
PortDone == \E o \in op :
              /\ op' = {}
              /\ reply' = IF o.kind = "rd" THEN {file[o.reg]} ELSE {}
              /\ UNCHANGED file

\* The value is offered for one cycle only.
PortQuiet == /\ reply # {}
             /\ reply' = {}
             /\ UNCHANGED <<file, op>>

PortNext == \/ \E r \in Regs : PortRead(r)
            \/ \E r \in Regs, v \in Value : PortWrite(r, v)
            \/ PortDone
            \/ PortQuiet

\* What the port does.
PortSteps == PortInit /\ [][PortNext]_portVars

\* An operation that was taken ends.
PortSpec == PortSteps /\ WF_portVars(PortDone)
=============================================================================
