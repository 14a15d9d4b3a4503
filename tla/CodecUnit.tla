------------------------------- MODULE CodecUnit -------------------------------
(***************************************************************************)
(* The CODEC unit as its driver sees it: the AXI registers of              *)
(* codec_registers, the power-up read of codec_init_unit, the multiplexer  *)
(* of controller_unit_top, the controller (reduced to when it takes, ends  *)
(* and answers an operation; ControllerUnit is the inside) and one driver, *)
(* the C functions of codec_controller_utils.c or the Python class of      *)
(* codec_controller.py.                                                    *)
(*                                                                         *)
(* Neither driver lets the bus stop between two operations.  While each    *)
(* operation happens to find it stopped (orderly), the controller does     *)
(* what ControllerUnit does with Paced = TRUE; from the first that does    *)
(* not, the outcome of an operation is left open: it may end early, with   *)
(* any effect, or never (ControllerUnit with Paced = FALSE).               *)
(*                                                                         *)
(* One step is one clock of axi_clk.  All registers move together, each    *)
(* from the values before the edge; the driver reaches the registers with  *)
(* at most one AXI access per clock.                                       *)
(***************************************************************************)
EXTENDS Naturals, Sequences

CONSTANTS Regs,            \* codec register numbers
          Value,           \* codec register contents
          Zero, Cafe,      \* 0, and 0xcafecafe: what rd_data holds after a reset
          LowByte,         \* a value without its bit 8
          InitReg,         \* the register the power-up read asks for
          MissedOutcomes,  \* may an operation miss an acknowledge: subset of BOOLEAN
          Drivers,         \* which drivers: a subset of {"C", "Py"}
          Calls,           \* what a driver is called for: subset of {"rd", "wr", "reset"}
          AxiGap,          \* clocks between two AXI accesses: three at least, as
                           \* axi_slave_controller has them answered one by one
          MinXfer,         \* a transfer takes at least this many clocks (bound)
          MaxCalls         \* bound: driver calls in one behaviour

ASSUME UnitAssumption == /\ InitReg \in Regs
                         /\ Zero \notin Value /\ Cafe \notin Value
                         /\ LowByte \in [Value \cup {Zero, Cafe}
                                          -> Value \cup {Zero, Cafe}]
                         /\ MissedOutcomes \subseteq BOOLEAN
                         /\ Drivers \subseteq {"C", "Py"}
                         /\ Calls \subseteq {"rd", "wr", "reset"}
                         /\ AxiGap \in Nat /\ AxiGap >= 3 /\ MinXfer \in Nat
                         /\ MaxCalls \in Nat

VARIABLES
  \* codec_registers: the bits of the control register, then address and data
  wrBit, rdBit, busyBit, initBit, validBit, missedBit, resetBit,
  addrReg, wrReg, rdReg,
  \* codec_init_unit: init_sm_ns, init_sm_cs, codec_rd_en, init_done | init_error
  initNs, initCs, initRdEn, initDone,
  \* the controller: phase, operation, clocks spent on it, busy, valid,
  \* missed_ack and data registers; the pairs of bytes in the read FIFO and the
  \* codec's registers, as long as orderly
  phase, op, age, seqBusy, seqValid, seqMissed, seqOut, rdPairs, file,
  \* history: has every operation found the bus stopped, has the last one
  \* delivered data, has it missed an acknowledge
  orderly, answered, opMissed,
  \* the driver: which one, where it is, clocks until its next access, the call
  \* it serves, the control register it last read, what it returned, calls made
  driver, pc, gap, call, status, ret, calls

regVars == <<wrBit, rdBit, busyBit, initBit, validBit, missedBit, resetBit,
             addrReg, wrReg, rdReg>>
initVars == <<initNs, initCs, initRdEn, initDone>>
ctlVars == <<phase, op, age, seqBusy, seqValid, seqMissed, seqOut, rdPairs, file,
             orderly, answered, opMissed>>
drvVars == <<driver, pc, gap, call, status, ret, calls>>
vars == <<regVars, initVars, ctlVars, drvVars>>

NoRet == [kind |-> "none", val |-> Zero]

Init ==
  /\ wrBit = FALSE /\ rdBit = FALSE /\ busyBit = FALSE /\ initBit = FALSE
  /\ validBit = FALSE /\ missedBit = FALSE /\ resetBit = FALSE
  /\ addrReg = InitReg /\ wrReg = Zero /\ rdReg = Cafe
  /\ initNs = "START" /\ initCs = "START" /\ initRdEn = FALSE /\ initDone = FALSE
  /\ phase = "IDLE" /\ age = 0
  /\ op = [kind |-> "rd", reg |-> InitReg, val |-> Zero]
  /\ seqBusy = FALSE /\ seqValid = FALSE /\ seqMissed = FALSE /\ seqOut = Zero
  /\ rdPairs = <<>>
  /\ file \in [Regs -> Value]
  /\ orderly = TRUE /\ answered = FALSE /\ opMissed = FALSE
  /\ driver \in Drivers /\ pc = "idle" /\ gap = AxiGap - 1 /\ status = {} /\ ret = NoRet
  /\ call = [kind |-> "rd", reg |-> InitReg, val |-> Zero]
  /\ calls = 0
-----------------------------------------------------------------------------
(* One clock of the hardware; w is the AXI write of this clock. *)

NoWrite == [addr |-> "none", bits |-> {}, val |-> Zero]
WriteCtrl(bits) == [addr |-> "CTRL", bits |-> bits, val |-> Zero]
WriteReg(a, v) == [addr |-> a, bits |-> {}, val |-> v]

\* GEN_REG_SW_WR1_HW_CLR: set by the software, cleared by the hardware.
Wr1HwClr(q, set, clr) == IF set \/ clr THEN set ELSE q
\* GEN_REG_SW_RWC1_HW_WO: set by the hardware, cleared by the software writing 1.
Rwc1(q, clr, set) == IF clr \/ set THEN ~clr ELSE q

\* The outputs of controller_unit_top: before initialization ends it reports
\* busy and zero data, but it does not hide the valid pulse.
ControllerBusy == ~initDone \/ seqBusy
DataOut == IF initDone THEN seqOut ELSE Zero

RegistersClk(w) ==
  LET one(b) == w.addr = "CTRL" /\ b \in w.bits IN
  /\ wrBit' = Wr1HwClr(wrBit, one("wr"), ControllerBusy)
  /\ rdBit' = Wr1HwClr(rdBit, one("rd"), ControllerBusy)
  /\ busyBit' = ControllerBusy
  /\ initBit' = Rwc1(initBit, one("init"), initDone)
  /\ validBit' = Rwc1(validBit, one("valid"), seqValid)
  /\ missedBit' = Rwc1(missedBit, one("missed"), seqMissed)
  /\ resetBit' = Wr1HwClr(resetBit, one("reset"), initDone)
  /\ addrReg' = IF w.addr = "ADDR" THEN w.val ELSE addrReg
  /\ wrReg' = IF w.addr = "WR_DATA" THEN w.val ELSE wrReg
  /\ rdReg' = IF rdBit \/ rdBit' THEN Cafe          \* held in reset by the read bit
              ELSE IF seqValid THEN DataOut ELSE rdReg

\* codec_init_unit: the next-state register looks at the current-state register
\* and so runs one clock behind it.
InitUnitClk ==
  /\ initNs' = CASE initCs = "START" -> "REG_RD"
                 [] initCs = "REG_RD" -> "WAIT"
                 [] initCs = "WAIT" /\ seqValid /\ ~initDone -> "DONE"
                 [] OTHER -> initNs
  /\ initCs' = initNs
  /\ initRdEn' = (initCs = "REG_RD")
  /\ initDone' = (initDone \/ initCs = "DONE")

\* The enables the sequencer sees.
RdEn == IF initDone THEN rdBit ELSE initRdEn
WrEn == initDone /\ wrBit
Reg == IF initDone THEN addrReg ELSE InitReg

\* The codec's registers once the write in progress has reached it.
Written == [file EXCEPT ![op.reg] = op.val]

\* The controller takes a request whether or not the bus has stopped after the
\* last one; only the power-up read is sure to find it stopped.
Take ==
  /\ phase = "IDLE" /\ (RdEn \/ WrEn)
  /\ phase' = "XFER" /\ age' = 0
  /\ op' = [kind |-> IF RdEn THEN "rd" ELSE "wr", reg |-> Reg, val |-> wrReg]
  /\ seqBusy' = TRUE /\ seqValid' = FALSE
  /\ orderly' \in IF initDone THEN {orderly, FALSE} ELSE {orderly}
  /\ answered' = FALSE /\ opMissed' = FALSE
  /\ UNCHANGED <<seqMissed, seqOut, rdPairs, file>>

Idle ==
  /\ phase = "IDLE" /\ ~(RdEn \/ WrEn)
  /\ seqBusy' = FALSE /\ seqValid' = FALSE
  /\ UNCHANGED <<phase, op, age, seqMissed, seqOut, rdPairs, file, orderly,
                 answered, opMissed>>

Transfer ==
  /\ phase \in {"XFER", "DATA", "STUCK"}
  /\ age' = IF age < MinXfer THEN age + 1 ELSE age
  /\ UNCHANGED <<phase, op, seqBusy, seqValid, seqMissed, seqOut, rdPairs, file,
                 orderly, answered, opMissed>>

\* The end of an operation that found the bus stopped, as all before it had.  A
\* write has reached the codec unless a byte went unacknowledged, and may have
\* even then; the two bytes of a read are in the FIFO, whatever they are if a
\* byte went unacknowledged.  The sequencer need not have seen a miss, as every
\* poll of the status clears the bit, but one it saw there was.
OrderlyEnd(missed, seen) ==
  /\ orderly /\ (seen => missed)
  /\ \/ op.kind = "wr" /\ file' = Written /\ UNCHANGED rdPairs
     \/ op.kind = "wr" /\ missed /\ UNCHANGED <<rdPairs, file>>
     \/ op.kind = "rd" /\ UNCHANGED file
        /\ \E v \in IF missed THEN Value ELSE {file[op.reg]} :
             rdPairs' = Append(rdPairs, v)

\* Of any other operation, what was on the bus is not followed up: the busy edge
\* taken for the end, and a miss, may have been the operation's before.
DisorderlyEnd(missed, seen) ==
  /\ ~orderly /\ (missed <=> seen)
  /\ UNCHANGED <<rdPairs, file>>

\* The sequencer ends a transfer.  It gives up a read when it saw a miss, and
\* leaves its bytes where they are.
TransferEnds ==
  /\ phase = "XFER" /\ age = MinXfer
  /\ \E missed, seen \in MissedOutcomes :
       /\ OrderlyEnd(missed, seen) \/ DisorderlyEnd(missed, seen)
       /\ opMissed' = missed /\ seqMissed' = seen
       /\ phase' = IF op.kind = "rd" /\ ~seen THEN "DATA" ELSE "IDLE"
  /\ UNCHANGED <<op, age, seqBusy, seqValid, seqOut, orderly, answered>>

DataRead == IF orderly THEN {Head(rdPairs)} ELSE Value

DataArrives ==
  /\ phase = "DATA"
  /\ phase' = "IDLE"
  /\ seqOut' \in DataRead /\ seqValid' = TRUE /\ answered' = TRUE
  /\ rdPairs' = IF orderly THEN Tail(rdPairs) ELSE rdPairs
  /\ UNCHANGED <<op, age, seqBusy, seqMissed, file, orderly, opMissed>>

\* A byte of an operation that did not let the bus stop was sent with the one
\* before; the master waits for it in WRITE_1, and the sequencer for the master.
TransferHangs ==
  /\ phase \in {"XFER", "DATA"} /\ age = MinXfer
  /\ ~orderly
  /\ phase' = "STUCK"
  /\ UNCHANGED <<op, age, seqBusy, seqValid, seqMissed, seqOut, rdPairs, file,
                 orderly, answered, opMissed>>

\* The reset bit holds the whole controller, the init unit with it, in reset;
\* what it cuts off on the bus is not followed up either.
HeldInReset ==
  /\ initNs' = "START" /\ initCs' = "START" /\ initRdEn' = FALSE
  /\ initDone' = FALSE
  /\ phase' = "IDLE" /\ age' = 0 /\ seqOut' = Zero /\ rdPairs' = <<>>
  /\ seqBusy' = FALSE /\ seqValid' = FALSE /\ seqMissed' = FALSE
  /\ orderly' = FALSE
  /\ UNCHANGED <<op, file, answered, opMissed>>

\* e: a transfer or its data phase ends, or hangs, in this clock.
HwClk(w, e) ==
  /\ RegistersClk(w)
  /\ IF resetBit'
       THEN HeldInReset
       ELSE /\ InitUnitClk
            /\ IF e THEN TransferEnds \/ DataArrives \/ TransferHangs
                    ELSE Take \/ Idle \/ Transfer
-----------------------------------------------------------------------------
(* The driver.  A call is a sequence of AXI accesses; hwVars stand still in   *)
(* the steps that are software only.                                          *)

hwVars == <<regVars, initVars, ctlVars>>

CtrlValue == {b \in {"wr", "rd", "busy", "init", "valid", "missed", "reset"} :
                CASE b = "wr" -> wrBit [] b = "rd" -> rdBit [] b = "busy" -> busyBit
                  [] b = "init" -> initBit [] b = "valid" -> validBit
                  [] b = "missed" -> missedBit [] b = "reset" -> resetBit}

\* An AXI access in this clock: the write w, or a read when w is NoWrite.
Access(w) == /\ gap = 0 /\ gap' = AxiGap - 1
             /\ \E e \in BOOLEAN : HwClk(w, e)
             /\ UNCHANGED <<driver, call, calls>>

Goto(p) == pc' = p /\ UNCHANGED ret
Return(k, v) == pc' = "idle" /\ ret' = [kind |-> k, val |-> v]

\* The C code sets a bit of the control register through a bit-field, a read
\* and a write; the Python code writes the one bit.
ToKick == IF driver = "C" THEN "kickRead" ELSE "kick"

Call(k, r, v) ==
  /\ pc = "idle" /\ calls < MaxCalls
  /\ k \in Calls
  /\ call' = [kind |-> k, reg |-> r, val |-> v] /\ calls' = calls + 1
  /\ pc' = IF k = "reset" THEN ToKick ELSE "check"
  /\ ret' = NoRet
  /\ UNCHANGED <<driver, gap, status, hwVars>>

\* Step 0: nothing may be running.
\* Mutant: the busy bit is not looked at.
RefusedMut == FALSE
Refused == busyBit

Check == /\ pc = "check"
         /\ Access(NoWrite) /\ UNCHANGED status
         /\ IF Refused THEN Return("busy", Zero)
                       ELSE Goto(IF driver = "C" THEN "statusRead" ELSE "statusWrite")

\* vClearStatusBits: C writes back what it reads, Python the three bits.
StatusRead == /\ pc = "statusRead"
              /\ Access(NoWrite) /\ status' = CtrlValue
              /\ Goto("statusWrite")

StatusWrite == /\ pc = "statusWrite"
               /\ Access(WriteCtrl(IF driver = "C" THEN status
                                   ELSE {"init", "valid", "missed"}))
               /\ Goto("addr") /\ UNCHANGED status

\* Mutant: the data goes to the address register.
AddrToWriteMut == call.val
AddrToWrite == call.reg

Addr == /\ pc = "addr"
        /\ Access(WriteReg("ADDR", AddrToWrite))
        /\ Goto(IF call.kind = "wr" THEN "data" ELSE ToKick) /\ UNCHANGED status

Data == /\ pc = "data"
        /\ Access(WriteReg("WR_DATA", call.val))
        /\ Goto(ToKick) /\ UNCHANGED status

KickRead == /\ pc = "kickRead"
            /\ Access(NoWrite) /\ status' = CtrlValue
            /\ Goto("kick")

Kick == /\ pc = "kick"
        /\ Access(WriteCtrl({call.kind} \cup IF driver = "C" THEN status ELSE {}))
        /\ Goto(IF call.kind = "reset" THEN "resetPoll" ELSE "poll")
        /\ UNCHANGED status

\* vBusyBitIsClear
\* Mutant: one read of the control register is enough.
StillBusyMut == FALSE
StillBusy == busyBit

Poll == /\ pc = "poll"
        /\ Access(NoWrite) /\ UNCHANGED status
        /\ IF StillBusy THEN Goto("poll")
           ELSE IF call.kind = "wr" THEN Return("ok", call.val) ELSE Goto("valid")

\* vWaitUntilDataIsAvailable: C reports a missed acknowledge and waits on,
\* Python raises.
Valid == /\ pc = "valid"
         /\ Access(NoWrite) /\ UNCHANGED status
         /\ IF driver = "Py" /\ missedBit THEN Return("missed", Zero)
            ELSE Goto(IF validBit THEN "clear" ELSE "valid")

Clear == /\ pc = "clear"
         /\ Access(WriteCtrl({"valid"}))
         /\ Goto("fetch") /\ UNCHANGED status

\* The C driver returns the data register, the Python driver its low byte.
Seen(v) == IF driver = "Py" THEN LowByte[v] ELSE v

Fetch == /\ pc = "fetch"
         /\ Access(NoWrite) /\ UNCHANGED status
         /\ Return("ok", Seen(rdReg))

\* vControllerReset, controller_reset
ResetPoll == /\ pc = "resetPoll"
             /\ Access(NoWrite) /\ UNCHANGED status
             /\ IF resetBit THEN Goto("resetPoll") ELSE Return("ok", Zero)

\* Only the Python driver gives up, at any poll: its clock runs on while the
\* process does not.
\* Mutant: the reset poll has no timeout.
TimedPollsMut == {"poll", "valid"}
TimedPolls == {"poll", "valid", "resetPoll"}

Timeout == /\ driver = "Py" /\ pc \in TimedPolls
           /\ Return("timeout", Zero)
           /\ UNCHANGED <<driver, gap, call, status, calls, hwVars>>

DriverStep == \/ Check \/ StatusRead \/ StatusWrite \/ Addr \/ Data \/ KickRead
              \/ Kick \/ Poll \/ Valid \/ Clear \/ Fetch \/ ResetPoll

\* A clock without an access.
Tick(e) == /\ HwClk(NoWrite, e)
           /\ gap' = IF gap > 0 THEN gap - 1 ELSE 0
           /\ UNCHANGED <<driver, pc, call, status, ret, calls>>

\* A write has a value, a write and a read have a register.
StartCall == \E k \in Calls :
               \E r \in IF k = "reset" THEN {InitReg} ELSE Regs,
                  v \in IF k = "wr" THEN Value ELSE {Zero} : Call(k, r, v)

Next == StartCall \/ DriverStep \/ Timeout \/ \E e \in BOOLEAN : Tick(e)

Spec == Init /\ [][Next]_vars

\* The clock runs, a transfer ends or hangs some time, a driver that was called goes on,
\* and the Python driver does not poll for ever; nobody has to call it.
FairSpec == Spec /\ WF_vars(Tick(FALSE)) /\ WF_vars(Tick(TRUE))
            /\ WF_vars(DriverStep) /\ WF_vars(Timeout)
-----------------------------------------------------------------------------
(* Properties *)

TypeOK ==
  /\ {wrBit, rdBit, busyBit, initBit, validBit, missedBit, resetBit} \subseteq BOOLEAN
  /\ addrReg \in Regs /\ wrReg \in Value \cup {Zero}
  /\ rdReg \in Value \cup {Zero, Cafe}
  /\ initNs \in {"START", "REG_RD", "WAIT", "DONE"}
  /\ initCs \in {"START", "REG_RD", "WAIT", "DONE"}
  /\ initRdEn \in BOOLEAN /\ initDone \in BOOLEAN
  /\ phase \in {"IDLE", "XFER", "DATA", "STUCK"} /\ age \in 0 .. MinXfer
  /\ op \in [kind : {"rd", "wr"}, reg : Regs, val : Value \cup {Zero}]
  /\ {seqBusy, seqValid, seqMissed, orderly, answered, opMissed}
       \subseteq BOOLEAN
  /\ seqOut \in Value \cup {Zero} /\ rdPairs \in Seq(Value) /\ file \in [Regs -> Value]
  /\ driver \in Drivers
  /\ pc \in {"idle", "check", "statusRead", "statusWrite", "addr", "data",
              "kickRead", "kick", "poll", "valid", "clear", "fetch", "resetPoll"}
  /\ gap \in 0 .. AxiGap - 1 /\ calls \in 0 .. MaxCalls
  /\ call \in [kind : Calls \cup {"rd"}, reg : Regs, val : Value \cup {Zero}]
  /\ status \subseteq {"wr", "rd", "busy", "init", "valid", "missed", "reset"}
  /\ ret \in [kind : {"none", "busy", "ok", "missed", "timeout"},
              val : Value \cup {Zero, Cafe}]

\* A call that returns success returns for its own operation, whatever became
\* of that: the controller is through with it, no request is left behind, and a
\* read returns the data (its low byte, in Python) that this operation, not one
\* before it, has delivered.
\* (A poll that sees busy too early or too late, a valid bit left over from
\* another operation or from initialization, and a data register still in
\* reset would all break it.)
ReturnIsItsOwn ==
  pc = "idle" /\ ret.kind = "ok" /\ call.kind # "reset" =>
    /\ phase = "IDLE" /\ ~wrBit /\ ~rdBit
    /\ op.kind = call.kind /\ op.reg = call.reg
    /\ call.kind = "wr" => op.val = call.val
    /\ call.kind = "rd" => answered /\ ret.val = Seen(seqOut)

\* As long as every operation found the bus stopped, success means done: the
\* write is in the codec, the value read is the register's.  Excepted are
\* operations that missed an acknowledge, and reads behind one that was given
\* up: its bytes come first.  (The drivers poll busy only, and do not see to the
\* hypothesis; without it the claim fails, as DoneMeansWritten of ControllerUnit
\* does with Paced = FALSE.)
OrderlyReturnMeansDone ==
  pc = "idle" /\ ret.kind = "ok" /\ orderly /\ ~opMissed =>
    /\ call.kind = "wr" => file[call.reg] = ret.val
    /\ call.kind = "rd" /\ rdPairs = <<>> => ret.val = Seen(file[call.reg])

\* A valid pulse of the controller is not lost to a driver clearing the bit in
\* the clock that ends the pulse, where the clear wins.
NoValidLost == [][seqValid /\ ~seqValid' /\ initDone => validBit']_vars

\* A request bit falls only because the controller has taken that request.
RequestsAreTaken ==
  [][/\ wrBit /\ ~wrBit' => /\ phase # "IDLE"
                            /\ op = [kind |-> "wr", reg |-> addrReg, val |-> wrReg]
     /\ rdBit /\ ~rdBit' => phase # "IDLE" /\ op.kind = "rd" /\ op.reg = addrReg
    ]_vars

\* A driver that was called returns, also when it is called during
\* initialization, when a transfer misses an acknowledge, and when it hangs.
\* Three waits of the C driver, which has no timeout, are the exception: for the
\* end of its operation when that hangs, for the data of a read that was given
\* up because the sequencer saw a miss, and for a controller reset (ResetEnds).
WaitsInVain ==
  /\ driver = "C"
  /\ \/ pc = "poll" /\ phase = "STUCK"
     \/ pc = "valid" /\ phase = "IDLE" /\ seqMissed
CallsReturn == (pc # "idle" /\ ~(driver = "C" /\ call.kind = "reset"))
                 ~> (pc = "idle" \/ WaitsInVain)

\* A controller reset comes to an end.
ResetEnds == resetBit ~> ~resetBit
=============================================================================
