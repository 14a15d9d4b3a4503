---------------------------- MODULE ControllerUnit ----------------------------
(***************************************************************************)
(* controller_unit_top: the sequencer i2c_seq_sm, its Wishbone access to   *)
(* i2c_master_wbs_8, the command, write and read FIFOs, the I2C master and *)
(* the codec on the bus.                                                   *)
(*                                                                         *)
(* The sequencer and the I2C master run on one clock but at very different *)
(* speeds: a Wishbone access takes about six clocks, an I2C bit four times *)
(* the prescale value (160).  The model interleaves the two, one step per  *)
(* sequencer state and one per byte on the bus, and keeps from the timing  *)
(* only what orders them, in the variable polled (see BusPhaseOver and     *)
(* CanSample).                                                             *)
(*                                                                         *)
(* Bytes are reduced to 0..2*NumRegs-1.  The byte that selects a register  *)
(* is {register, bit 8 of the data} as in the code, so a register is the   *)
(* byte \div 2; a value is its bit 8 and its low byte.                     *)
(***************************************************************************)
EXTENDS Integers, Sequences

CONSTANTS NumRegs,    \* number of codec registers
          Values,     \* values a client writes and the codec powers up with
          CodecAcks,  \* how the codec may answer a byte: a subset of BOOLEAN
          Paced,      \* TRUE: a client waits until the bus has stopped
          MaxOps      \* bound: operations taken in one behaviour

Regs == 0 .. NumRegs - 1
Byte == 0 .. 2 * NumRegs - 1
AllOnes == 2 * NumRegs - 1            \* what a released bus reads as
Value == [hi : 0 .. 1, lo : Byte]     \* codec_data[8], codec_data[7:0]

ASSUME ControllerAssumption == /\ NumRegs \in Nat \ {0}
                               /\ Values \subseteq Value
                               /\ CodecAcks \subseteq BOOLEAN
                               /\ Paced \in BOOLEAN
                               /\ MaxOps \in Nat

VARIABLES
  \* registers of i2c_seq_sm
  state, afterAck, started, isRd, intSent, rd1Sent, rd1Rcvd, nextAddr,
  dataIn, missedAck, busy, out, outValid, intAddr, wrData,
  \* the Wishbone access in progress and the slave's sticky missed_ack_reg
  wbReq, wbStatus, wbByte, wbMissed,
  \* FIFOs of i2c_master_wbs_8
  cmdFifo, wrFifo, rdFifo,
  \* i2c_master: state, mode_read_reg, byte in the shift register, output byte
  mState, mRead, mByte, mOut,
  \* the codec: registers, register pointer with bit 8, what it expects next
  cRegs, cPtr, cMode,
  \* time and history: see BusPhaseOver; a byte of this operation went
  \* unacknowledged; operations taken so far
  polled, nackSeen, ops

seqVars == <<state, afterAck, started, isRd, intSent, rd1Sent, rd1Rcvd,
             nextAddr, dataIn, missedAck, busy, out, outValid, intAddr, wrData>>
wbVars == <<wbReq, wbStatus, wbByte, wbMissed>>
fifoVars == <<cmdFifo, wrFifo, rdFifo>>
masterVars == <<mState, mRead, mByte, mOut>>
codecVars == <<cRegs, cPtr, cMode>>
histVars == <<polled, nackSeen, ops>>
vars == <<seqVars, wbVars, fifoVars, masterVars, codecVars, histVars>>

SeqState == {"IDLE", "WRITE_DEV_ADDR", "WRITE_INT_ADDR", "WRITE_DATA",
             "WRITE_WB_CMD", "WR_STOP_CMD", "WAIT_WR_XFR_DONE", "READ_WB_REG",
             "GET_RD_STS", "GET_DATA_RD", "WAIT_FOR_ACK", "WAIT_FOR_RD_ACK"}
WbAddr == {"STS0", "STS1", "ADDR", "CMD", "DATA"}
Command == SUBSET {"START", "READ", "WRITE", "STOP"}
MasterState == {"IDLE", "ACTIVE_WRITE", "ACTIVE_READ", "ADDRESS", "WRITE_1",
                "WRITE_2", "READ", "STOP"}

WbRequest == [op : {"none", "write", "read", "ack"}, addr : WbAddr,
              byte : Byte, cmd : Command]
NoRequest == [op |-> "none", addr |-> "STS0", byte |-> 0, cmd |-> {}]
WriteByte(a, b) == [op |-> "write", addr |-> a, byte |-> b, cmd |-> {}]
WriteCommand(c) == [op |-> "write", addr |-> "CMD", byte |-> 0, cmd |-> c]
ReadRegister(a) == [op |-> "read", addr |-> a, byte |-> 0, cmd |-> {}]

\* The bits of a status byte the sequencer looks at: STS0[0], STS0[3], STS1[6].
NoStatus == [busy |-> FALSE, missed |-> FALSE, empty |-> FALSE]
Status == [busy : BOOLEAN, missed : BOOLEAN, empty : BOOLEAN]

Init ==
  /\ state = "IDLE" /\ afterAck = "IDLE"
  /\ started = FALSE /\ isRd = FALSE /\ intSent = FALSE
  /\ rd1Sent = FALSE /\ rd1Rcvd = FALSE
  /\ nextAddr = "STS0" /\ dataIn = NoStatus
  /\ missedAck = FALSE /\ busy = FALSE
  /\ out = [hi |-> 0, lo |-> 0] /\ outValid = FALSE
  /\ intAddr = 0 /\ wrData = 0
  /\ wbReq = NoRequest /\ wbStatus = NoStatus /\ wbByte = 0
  /\ wbMissed = FALSE
  /\ cmdFifo = <<>> /\ wrFifo = <<>> /\ rdFifo = <<>>
  /\ mState = "IDLE" /\ mRead = FALSE /\ mByte = 0 /\ mOut = <<>>
  /\ cRegs \in [Regs -> Values] /\ cPtr = 0 /\ cMode = "none"
  /\ polled = FALSE /\ nackSeen = FALSE /\ ops = 0
-----------------------------------------------------------------------------
(* The sequencer, i2c_seq_sm *)

BusStopped == mState = "IDLE" /\ cmdFifo = <<>>

\* I2C_IDLE with a request.  With both enables set the later branch decides
\* address and data, but the operation stays a read.
TakeRequest(rd, wr, r, v) ==
  /\ state = "IDLE"
  /\ rd \/ wr
  /\ ops < MaxOps
  /\ Paced => BusStopped
  /\ state' = "WRITE_DEV_ADDR"
  /\ busy' = TRUE /\ outValid' = FALSE
  /\ isRd' = rd
  /\ intAddr' = 2 * r + (IF wr THEN v.hi ELSE 0)
  /\ wrData' = IF wr THEN v.lo ELSE 0
  /\ intSent' = FALSE /\ rd1Sent' = FALSE
  /\ rd1Rcvd' = (rd1Rcvd /\ ~rd)
  /\ polled' = TRUE /\ nackSeen' = FALSE /\ ops' = ops + 1
  /\ UNCHANGED <<afterAck, started, nextAddr, dataIn, missedAck, out>>
  /\ UNCHANGED <<wbVars, fifoVars, masterVars, codecVars>>

\* I2C_IDLE without a request: busy and valid fall.
IdleTick ==
  /\ state = "IDLE"
  /\ busy \/ outValid \/ isRd
  /\ isRd' = FALSE /\ busy' = FALSE /\ outValid' = FALSE
  /\ UNCHANGED <<state, afterAck, started, intSent, rd1Sent, rd1Rcvd, nextAddr,
                 dataIn, missedAck, out, intAddr, wrData>>
  /\ UNCHANGED <<wbVars, fifoVars, masterVars, codecVars, histVars>>

\* Start the Wishbone write req and go to next once it is acknowledged.
IssueWrite(req, next) ==
  /\ wbReq' = req
  /\ state' = "WAIT_FOR_ACK"
  /\ afterAck' = next
  /\ UNCHANGED <<wbStatus, wbByte, wbMissed>>

WriteDevAddr ==
  /\ state = "WRITE_DEV_ADDR"
  /\ IssueWrite(WriteByte("ADDR", 0), "WRITE_INT_ADDR")
  /\ UNCHANGED <<started, isRd, intSent, rd1Sent, rd1Rcvd, nextAddr, dataIn,
                 missedAck, busy, out, outValid, intAddr, wrData>>
  /\ UNCHANGED <<fifoVars, masterVars, codecVars, histVars>>

\* Mutant: a read loads a data byte too.
AfterIntAddrMut == "WRITE_DATA"
AfterIntAddr == IF isRd THEN "WRITE_WB_CMD" ELSE "WRITE_DATA"

WriteIntAddr ==
  /\ state = "WRITE_INT_ADDR"
  /\ IssueWrite(WriteByte("DATA", intAddr), AfterIntAddr)
  /\ UNCHANGED <<started, isRd, intSent, rd1Sent, rd1Rcvd, nextAddr, dataIn,
                 missedAck, busy, out, outValid, intAddr, wrData>>
  /\ UNCHANGED <<fifoVars, masterVars, codecVars, histVars>>

WriteData ==
  /\ state = "WRITE_DATA"
  /\ IssueWrite(WriteByte("DATA", wrData), "WRITE_WB_CMD")
  /\ UNCHANGED <<started, isRd, intSent, rd1Sent, rd1Rcvd, nextAddr, dataIn,
                 missedAck, busy, out, outValid, intAddr, wrData>>
  /\ UNCHANGED <<fifoVars, masterVars, codecVars, histVars>>

\* A write is one command; a read is three: the register pointer, the low
\* byte after a repeated start, the byte with bit 8.
CommandToSend == IF ~isRd THEN {"START", "WRITE"}
                 ELSE IF ~intSent THEN {"WRITE"}
                 ELSE IF rd1Sent THEN {"READ"} ELSE {"START", "READ"}

\* Mutant: the second read command is forgotten.
AfterWbCmdMut == IF isRd /\ ~intSent THEN "WRITE_WB_CMD" ELSE "WR_STOP_CMD"
AfterWbCmd == IF isRd /\ ~(intSent /\ rd1Sent) THEN "WRITE_WB_CMD" ELSE "WR_STOP_CMD"

WriteWbCmd ==
  /\ state = "WRITE_WB_CMD"
  /\ IssueWrite(WriteCommand(CommandToSend), AfterWbCmd)
  /\ started' = FALSE /\ dataIn' = NoStatus
  /\ intSent' = TRUE /\ rd1Sent' = intSent
  /\ UNCHANGED <<isRd, rd1Rcvd, nextAddr, missedAck, busy, out, outValid,
                 intAddr, wrData>>
  /\ UNCHANGED <<fifoVars, masterVars, codecVars, histVars>>

WrStopCmd ==
  /\ state = "WR_STOP_CMD"
  /\ IssueWrite(WriteCommand({"STOP"}),
                IF isRd \/ intSent THEN "WAIT_WR_XFR_DONE" ELSE "WRITE_DEV_ADDR")
  /\ UNCHANGED <<started, isRd, intSent, rd1Sent, rd1Rcvd, nextAddr, dataIn,
                 missedAck, busy, out, outValid, intAddr, wrData>>
  /\ UNCHANGED <<fifoVars, masterVars, codecVars, histVars>>

\* Poll STS0 until busy has been seen to rise and then to fall; the last poll
\* is the one missedAck is taken from.
PollBusy ==
  /\ state = "WAIT_WR_XFR_DONE"
  /\ dataIn.busy = started
  /\ state' = "READ_WB_REG" /\ afterAck' = "WAIT_WR_XFR_DONE"
  /\ nextAddr' = "STS0"
  /\ UNCHANGED <<started, isRd, intSent, rd1Sent, rd1Rcvd, dataIn, missedAck,
                 busy, out, outValid, intAddr, wrData>>
  /\ UNCHANGED <<wbVars, fifoVars, masterVars, codecVars, histVars>>

BusyRose ==
  /\ state = "WAIT_WR_XFR_DONE"
  /\ ~started /\ dataIn.busy
  /\ started' = TRUE
  /\ UNCHANGED <<state, afterAck, isRd, intSent, rd1Sent, rd1Rcvd, nextAddr,
                 dataIn, missedAck, busy, out, outValid, intAddr, wrData>>
  /\ UNCHANGED <<wbVars, fifoVars, masterVars, codecVars, histVars>>

\* Mutant: not busy counts as done before busy has been seen.
TransferDoneMut == ~dataIn.busy
TransferDone == started /\ ~dataIn.busy

BusyFell ==
  /\ state = "WAIT_WR_XFR_DONE"
  /\ TransferDone
  /\ started' = FALSE
  /\ state' = IF isRd THEN "GET_RD_STS" ELSE "IDLE"
  /\ missedAck' = dataIn.missed
  /\ UNCHANGED <<afterAck, isRd, intSent, rd1Sent, rd1Rcvd, nextAddr, dataIn,
                 busy, out, outValid, intAddr, wrData>>
  /\ UNCHANGED <<wbVars, fifoVars, masterVars, codecVars, histVars>>

\* A missed acknowledge ends a read at once; the master carries on.
GetRdSts ==
  /\ state = "GET_RD_STS"
  /\ IF missedAck THEN /\ state' = "IDLE"
                       /\ UNCHANGED <<afterAck, nextAddr>>
                  ELSE /\ state' = "READ_WB_REG" /\ afterAck' = "GET_DATA_RD"
                       /\ nextAddr' = "STS1"
  /\ UNCHANGED <<started, isRd, intSent, rd1Sent, rd1Rcvd, dataIn, missedAck,
                 busy, out, outValid, intAddr, wrData>>
  /\ UNCHANGED <<wbVars, fifoVars, masterVars, codecVars, histVars>>

\* Mutant: DATA is read without asking whether there is any.
DataWaitsMut == TRUE
DataWaits == ~dataIn.empty

AfterData == IF rd1Rcvd THEN "IDLE" ELSE "GET_RD_STS"

GetDataRd ==
  /\ state = "GET_DATA_RD"
  /\ state' = "READ_WB_REG"
  /\ IF DataWaits THEN nextAddr' = "DATA" /\ afterAck' = AfterData
                  ELSE nextAddr' = "STS1" /\ afterAck' = "GET_DATA_RD"
  /\ UNCHANGED <<started, isRd, intSent, rd1Sent, rd1Rcvd, dataIn, missedAck,
                 busy, out, outValid, intAddr, wrData>>
  /\ UNCHANGED <<wbVars, fifoVars, masterVars, codecVars, histVars>>

ReadWbReg ==
  /\ state = "READ_WB_REG"
  /\ wbReq' = ReadRegister(nextAddr)
  /\ state' = "WAIT_FOR_RD_ACK"
  /\ UNCHANGED <<afterAck, started, isRd, intSent, rd1Sent, rd1Rcvd, nextAddr,
                 dataIn, missedAck, busy, out, outValid, intAddr, wrData>>
  /\ UNCHANGED <<wbStatus, wbByte, wbMissed, fifoVars, masterVars, codecVars,
                 histVars>>
-----------------------------------------------------------------------------
(* The Wishbone access: wb_master_controller and i2c_master_wbs_8 *)

InPhase == {"ADDRESS", "WRITE_1", "WRITE_2", "READ", "STOP"}
BusBusy == mState \in InPhase

\* Between two commands the master reports not-busy for two clocks; a poll
\* samples once in six, so at most one sample falls into such a window.
Window == ~BusBusy /\ cmdFifo # <<>>
CanSample == ~(Window /\ polled)

\* The write cycle, its acknowledge and the sequencer's WAIT_FOR_ACK.  The
\* device address is a constant, so writing it leaves no trace.
WbWrite ==
  /\ wbReq.op = "write"
  /\ cmdFifo' = IF wbReq.addr = "CMD" THEN Append(cmdFifo, wbReq.cmd) ELSE cmdFifo
  /\ wrFifo' = IF wbReq.addr = "DATA" THEN Append(wrFifo, wbReq.byte) ELSE wrFifo
  /\ wbReq' = NoRequest
  /\ state' = afterAck
  /\ UNCHANGED <<afterAck, started, isRd, intSent, rd1Sent, rd1Rcvd, nextAddr,
                 dataIn, missedAck, busy, out, outValid, intAddr, wrData>>
  /\ UNCHANGED <<wbStatus, wbByte, wbMissed, rdFifo, masterVars, codecVars,
                 histVars>>

\* The sticky missed-acknowledge bit over a read: reading STS0 clears it.
\* Mutant: no read does.
MissedKeptMut == wbMissed
MissedKept == wbMissed /\ wbReq.addr # "STS0"

\* The clock in which the slave samples a read; one of DATA takes a byte from
\* the FIFO.
WbSample ==
  /\ wbReq.op = "read"
  /\ CanSample
  /\ wbReq' = [wbReq EXCEPT !.op = "ack"]
  /\ wbStatus' = CASE wbReq.addr = "STS0" ->
                        [NoStatus EXCEPT !.busy = BusBusy, !.missed = wbMissed]
                   [] wbReq.addr = "STS1" ->
                        [NoStatus EXCEPT !.empty = (rdFifo = <<>>)]
                   [] OTHER -> NoStatus
  /\ wbMissed' = MissedKept
  /\ IF wbReq.addr = "DATA" /\ rdFifo # <<>>
       THEN wbByte' = Head(rdFifo) /\ rdFifo' = Tail(rdFifo)
       ELSE UNCHANGED <<wbByte, rdFifo>>
  /\ polled' = TRUE
  /\ UNCHANGED <<seqVars, cmdFifo, wrFifo, masterVars, codecVars, nackSeen, ops>>

\* The first byte of a read is the low one, the second brings bit 8.
\* Mutant: the two are swapped.
WithByteMut(b) == IF rd1Rcvd THEN [out EXCEPT !.lo = b] ELSE [hi |-> b, lo |-> 0]
WithByte(b) == IF rd1Rcvd THEN [out EXCEPT !.hi = b % 2] ELSE [hi |-> 0, lo |-> b]

\* The acknowledge: strobe is still up, so STS0 is cleared a second time, and
\* the sequencer leaves WAIT_FOR_RD_ACK with what was sampled.
WbReadAck ==
  /\ wbReq.op = "ack"
  /\ wbReq' = NoRequest
  /\ wbMissed' = MissedKept
  /\ state' = afterAck
  /\ dataIn' = wbStatus
  /\ IF wbReq.addr = "DATA"
       THEN outValid' = rd1Rcvd /\ out' = WithByte(wbByte) /\ rd1Rcvd' = TRUE
       ELSE UNCHANGED <<outValid, out, rd1Rcvd>>
  /\ UNCHANGED <<afterAck, started, isRd, intSent, rd1Sent, nextAddr, missedAck,
                 busy, intAddr, wrData>>
  /\ UNCHANGED <<wbStatus, wbByte, fifoVars, masterVars, codecVars, histVars>>
-----------------------------------------------------------------------------
(* The I2C master and the codec *)

IsTransfer(c) == ("READ" \in c) # ("WRITE" \in c)
IsStop(c) == "STOP" \in c /\ c \cap {"READ", "WRITE"} = {}

\* Where a command takes the master; a command that makes no sense is dropped.
AfterCommand(m, c) ==
  CASE m = "IDLE" /\ IsTransfer(c) -> "ADDRESS"
    [] m = "ACTIVE_WRITE" /\ IsTransfer(c) ->
         IF "START" \in c \/ "READ" \in c THEN "ADDRESS" ELSE "WRITE_1"
    [] m = "ACTIVE_READ" /\ IsTransfer(c) ->
         IF "START" \in c \/ "WRITE" \in c THEN "ADDRESS" ELSE "READ"
    [] m # "IDLE" /\ IsStop(c) -> "STOP"
    [] OTHER -> m

MasterAccept ==
  /\ Window
  /\ LET c == Head(cmdFifo)
         m == AfterCommand(mState, c)
     IN /\ mState' = m
        /\ mRead' = IF IsTransfer(c) THEN "READ" \in c ELSE mRead
        /\ polled' = (polled /\ m \notin InPhase)
  /\ cmdFifo' = Tail(cmdFifo)
  /\ UNCHANGED <<seqVars, wbVars, wrFifo, rdFifo, mByte, mOut, codecVars,
                 nackSeen, ops>>

\* A byte or a stop takes hundreds of clocks: it does not end before the
\* sequencer, when it is polling, has polled at least once.
BusPhaseOver == polled \/ state = "IDLE"

Acknowledge(ack) == /\ wbMissed' = (wbMissed \/ ~ack)
                    /\ nackSeen' = (nackSeen \/ ~ack)

\* The device address: an unacknowledged one is noted and the transfer goes on.
AddressSent ==
  /\ mState = "ADDRESS"
  /\ BusPhaseOver
  /\ \E ack \in CodecAcks :
       /\ Acknowledge(ack)
       /\ cMode' = IF ~ack THEN "none" ELSE IF mRead THEN "lo" ELSE "pointer"
  /\ mState' = IF mRead THEN "READ" ELSE "WRITE_1"
  /\ polled' = FALSE
  /\ UNCHANGED <<seqVars, wbReq, wbStatus, wbByte, fifoVars, mRead, mByte, mOut,
                 cRegs, cPtr, ops>>

TakeByte ==
  /\ mState = "WRITE_1"
  /\ wrFifo # <<>>
  /\ mByte' = Head(wrFifo) /\ wrFifo' = Tail(wrFifo)
  /\ mState' = "WRITE_2"
  /\ polled' = FALSE
  /\ UNCHANGED <<seqVars, wbVars, cmdFifo, rdFifo, mRead, mOut, codecVars,
                 nackSeen, ops>>

\* The codec takes a byte it acknowledges: first the register pointer, then
\* the low byte of the data; what follows it ignores.
CodecTakes(b) ==
  CASE cMode = "pointer" -> cPtr' = b /\ cMode' = "data" /\ UNCHANGED cRegs
    [] cMode = "data" ->
         /\ cRegs' = [cRegs EXCEPT ![cPtr \div 2] = [hi |-> cPtr % 2, lo |-> b]]
         /\ cMode' = "done" /\ UNCHANGED cPtr
    [] OTHER -> UNCHANGED codecVars

ByteWritten ==
  /\ mState = "WRITE_2"
  /\ BusPhaseOver
  /\ \E ack \in IF cMode = "none" THEN {FALSE} ELSE CodecAcks :
       /\ Acknowledge(ack)
       /\ IF ack THEN CodecTakes(mByte)
                 ELSE cMode' = "none" /\ UNCHANGED <<cRegs, cPtr>>
  /\ mState' = IF wrFifo # <<>> THEN "WRITE_1" ELSE "ACTIVE_WRITE"
  /\ polled' = FALSE
  /\ UNCHANGED <<seqVars, wbReq, wbStatus, wbByte, fifoVars, mRead, mByte, mOut,
                 ops>>

ByteRead ==
  /\ mState = "READ"
  /\ BusPhaseOver
  /\ mOut = <<>>              \* the FIFO took the last byte many clocks ago
  /\ mOut' = << CASE cMode = "lo" -> cRegs[cPtr \div 2].lo
                  [] cMode = "hi" -> cRegs[cPtr \div 2].hi
                  [] OTHER -> AllOnes >>
  /\ cMode' = CASE cMode = "lo" -> "hi" [] cMode = "hi" -> "done" [] OTHER -> cMode
  /\ mState' = "ACTIVE_READ"
  /\ polled' = FALSE
  /\ UNCHANGED <<seqVars, wbVars, fifoVars, mRead, mByte, cRegs, cPtr, nackSeen,
                 ops>>

\* The byte read moves into the read FIFO.
PushRead ==
  /\ mOut # <<>>
  /\ rdFifo' = rdFifo \o mOut
  /\ mOut' = <<>>
  /\ UNCHANGED <<seqVars, wbVars, cmdFifo, wrFifo, mState, mRead, mByte,
                 codecVars, histVars>>

StopSent ==
  /\ mState = "STOP"
  /\ BusPhaseOver
  /\ mState' = "IDLE"
  /\ cMode' = "none"
  /\ polled' = FALSE
  /\ UNCHANGED <<seqVars, wbVars, fifoVars, mRead, mByte, mOut, cRegs, cPtr,
                 nackSeen, ops>>
-----------------------------------------------------------------------------
Request == \E rd, wr \in BOOLEAN, r \in Regs, v \in Values :
             TakeRequest(rd, wr, r, v)

SeqNext == \/ IdleTick \/ WriteDevAddr \/ WriteIntAddr \/ WriteData
           \/ WriteWbCmd \/ WrStopCmd \/ PollBusy \/ BusyRose \/ BusyFell
           \/ GetRdSts \/ GetDataRd \/ ReadWbReg

WbNext == WbWrite \/ WbSample \/ WbReadAck

BusNext == \/ MasterAccept \/ AddressSent \/ TakeByte \/ ByteWritten
           \/ ByteRead \/ StopSent

Next == Request \/ SeqNext \/ WbNext \/ BusNext \/ PushRead

Spec == Init /\ [][Next]_vars

\* Everything is clocked, so every register that can move does; only the
\* client may stop asking.
FairSpec == /\ Spec
            /\ WF_vars(SeqNext) /\ WF_vars(WbNext)
            /\ WF_vars(BusNext) /\ WF_vars(PushRead)
-----------------------------------------------------------------------------
(* Properties *)

SeqTyped ==
  /\ state \in SeqState /\ afterAck \in SeqState
  /\ started \in BOOLEAN /\ isRd \in BOOLEAN /\ intSent \in BOOLEAN
  /\ rd1Sent \in BOOLEAN /\ rd1Rcvd \in BOOLEAN
  /\ nextAddr \in WbAddr /\ dataIn \in Status
  /\ missedAck \in BOOLEAN /\ busy \in BOOLEAN
  /\ out \in Value /\ outValid \in BOOLEAN
  /\ intAddr \in Byte /\ wrData \in Byte

WbTyped == /\ wbReq \in WbRequest /\ wbStatus \in Status /\ wbByte \in Byte
           /\ wbMissed \in BOOLEAN

FifosTyped == /\ cmdFifo \in Seq(Command)
              /\ wrFifo \in Seq(Byte) /\ rdFifo \in Seq(Byte)

MasterTyped == /\ mState \in MasterState /\ mRead \in BOOLEAN /\ mByte \in Byte
               /\ mOut \in {<<>>} \cup {<<b>> : b \in Byte}

CodecTyped == /\ cRegs \in [Regs -> Value] /\ cPtr \in Byte
              /\ cMode \in {"none", "pointer", "data", "lo", "hi", "done"}

HistTyped == polled \in BOOLEAN /\ nackSeen \in BOOLEAN /\ ops \in Nat

TypeOK == /\ SeqTyped /\ WbTyped /\ FifosTyped
          /\ MasterTyped /\ CodecTyped /\ HistTyped

\* The cycle in which an operation has just ended: the sequencer is back in
\* IDLE and its busy register has not fallen yet.
JustEnded == state = "IDLE" /\ busy

Target == intAddr \div 2
Written == [hi |-> intAddr % 2, lo |-> wrData]

\* A write that ended, every byte acknowledged, is in the codec.
DoneMeansWritten ==
  JustEnded /\ ~isRd /\ ~nackSeen => cRegs[Target] = Written

\* A read that ends with data, every byte acknowledged, gives the register.
ReadGivesTheRegister ==
  JustEnded /\ isRd /\ outValid /\ ~nackSeen => out = cRegs[Target]

\* A miss the sequencer reports was on the bus after it took the request: one from
\* before, which no poll saw, is cleared in the status by the time this operation
\* has ended.
MissesAreReal == JustEnded /\ missedAck => nackSeen

\* Only a write operation changes a codec register, only the one it names, and
\* only to the value it carries - although a read starts with an I2C write too.
OnlyTheWriteWrites ==
  [][cRegs' # cRegs =>
       /\ state # "IDLE" /\ ~isRd
       /\ cRegs' = [cRegs EXCEPT ![Target] = Written]]_vars

\* With the bus stopped and the sequencer idle the read FIFO holds an even number of
\* bytes, whatever was aborted: the next read takes no half of a register.
PairsStayTogether ==
  state = "IDLE" /\ BusStopped => Len(rdFifo \o mOut) % 2 = 0

\* DATA is read only when the FIFO holds a byte.
NoUnderflow == wbReq.op = "read" /\ wbReq.addr = "DATA" => rdFifo # <<>>

\* Every operation ends.
OperationsEnd == (state # "IDLE") ~> (state = "IDLE")

\* The controller is the register file of ControllerPort.  A write counts from
\* the moment it is taken, so it must have reached the codec when it ends.
Port == INSTANCE ControllerPort WITH
          file <- IF state # "IDLE" /\ ~isRd
                    THEN [cRegs EXCEPT ![Target] = Written] ELSE cRegs,
          op <- IF state = "IDLE" THEN {}
                ELSE {[kind |-> IF isRd THEN "rd" ELSE "wr", reg |-> Target]},
          reply <- IF outValid THEN {out} ELSE {}
ImplementsPort == Port!PortSpec
=============================================================================
