-------------------------- MODULE ControllerUnitProofs --------------------------
(***************************************************************************)
(* Theorems about ControllerUnit, for every number of registers, every set *)
(* of values, every way the codec may acknowledge, paced or not, and every *)
(* bound on the operations.                                                *)
(*                                                                         *)
(* For every unit: the type invariant (TypeCorrect), that the sequencer    *)
(* never reads the DATA register of an empty read FIFO (DataReadIsSafe),   *)
(* and that it reports no miss from before the operation (MissesReported). *)
(*                                                                         *)
(* For a client that lets the bus stop (Paced): what the sequencer has     *)
(* sent, what waits in the FIFOs and where the master is belong to one     *)
(* operation (BusInv).  So a write that ended is in the codec, only a      *)
(* write changes a codec register, and at rest the read FIFO holds an even *)
(* number of bytes.                                                        *)
(*                                                                         *)
(* For a codec that acknowledges every byte too (AlwaysAcks): each byte on *)
(* its way back is the half of the register it is taken for (AckInv).  So  *)
(* the unit is the register file of ControllerPort.                        *)
(***************************************************************************)
EXTENDS ControllerUnit, SequenceTheorems, TLAPS

-----------------------------------------------------------------------------
(* Type correctness *)

\* The bytes that name a register, and the halves of a value, stay in range.
LEMMA ByteRange ==
  /\ \A b \in Byte : b \div 2 \in Regs /\ b % 2 \in 0 .. 1
  /\ \A r \in Regs, h \in 0 .. 1 : 2 * r + h \in Byte
  /\ 0 \in 0 .. 1 /\ 0 .. 1 \subseteq Byte
  /\ 0 \in Byte /\ AllOnes \in Byte
  BY ControllerAssumption DEF ControllerAssumption, Byte, Regs, AllOnes

LEMMA InitTyped == Init => TypeOK
<1> SUFFICES ASSUME Init PROVE TypeOK
  OBVIOUS
<1>1. SeqTyped
  BY ByteRange DEF Init, SeqTyped, SeqState, WbAddr, Status, NoStatus, Value
<1>2. WbTyped
  BY ByteRange DEF Init, WbTyped, WbRequest, NoRequest, NoStatus, Status, WbAddr,
                   Command
<1>3. FifosTyped
  BY DEF Init, FifosTyped
<1>4. MasterTyped
  BY ByteRange DEF Init, MasterTyped, MasterState
<1>5. CodecTyped
  BY ByteRange, ControllerAssumption DEF Init, CodecTyped, ControllerAssumption
<1>6. QED
  BY <1>1, <1>2, <1>3, <1>4, <1>5 DEF Init, TypeOK, HistTyped

\* What leaves a part of the state alone leaves it well typed.
LEMMA TypedUnchanged ==
  /\ UNCHANGED seqVars /\ SeqTyped => SeqTyped'
  /\ UNCHANGED wbVars /\ WbTyped => WbTyped'
  /\ UNCHANGED fifoVars /\ FifosTyped => FifosTyped'
  /\ UNCHANGED masterVars /\ MasterTyped => MasterTyped'
  /\ UNCHANGED codecVars /\ CodecTyped => CodecTyped'
  /\ UNCHANGED histVars /\ HistTyped => HistTyped'
<1>1. UNCHANGED seqVars /\ SeqTyped => SeqTyped'
  BY DEF seqVars, SeqTyped
<1>2. UNCHANGED wbVars /\ WbTyped => WbTyped'
  BY DEF wbVars, WbTyped
<1>3. UNCHANGED fifoVars /\ FifosTyped => FifosTyped'
  BY DEF fifoVars, FifosTyped
<1>4. UNCHANGED masterVars /\ MasterTyped => MasterTyped'
  BY DEF masterVars, MasterTyped
<1>5. UNCHANGED codecVars /\ CodecTyped => CodecTyped'
  BY DEF codecVars, CodecTyped
<1>6. UNCHANGED histVars /\ HistTyped => HistTyped'
  BY DEF histVars, HistTyped
<1>7. QED
  BY <1>1, <1>2, <1>3, <1>4, <1>5, <1>6

\* A request is well typed.
LEMMA RequestTyped ==
  /\ NoRequest \in WbRequest
  /\ \A a \in WbAddr, b \in Byte : WriteByte(a, b) \in WbRequest
  /\ \A c \in Command : WriteCommand(c) \in WbRequest
  /\ \A a \in WbAddr : ReadRegister(a) \in WbRequest
  BY ByteRange DEF WbRequest, NoRequest, WriteByte, WriteCommand, ReadRegister,
                   WbAddr, Command

\* The states of the sequencer keep the types.
LEMMA SeqStepTyped == TypeOK /\ (Request \/ SeqNext) => TypeOK'
<1> SUFFICES ASSUME TypeOK, Request \/ SeqNext PROVE TypeOK'
  OBVIOUS
<1> USE DEF TypeOK
<1>1. CASE Request
  <2>1. PICK rd \in BOOLEAN, wr \in BOOLEAN, r \in Regs, v \in Values :
          TakeRequest(rd, wr, r, v)
    BY <1>1 DEF Request
  <2>2. v.hi \in 0 .. 1 /\ v.lo \in Byte
    BY ControllerAssumption DEF ControllerAssumption, Value
  <2>3. intAddr' \in Byte /\ wrData' \in Byte
    BY <2>1, <2>2, ByteRange DEF TakeRequest
  <2>4. SeqTyped'
    BY <2>1, <2>3 DEF TakeRequest, SeqTyped, SeqState
  <2>5. HistTyped'
    <3>1. polled' = TRUE /\ nackSeen' = FALSE /\ ops' = ops + 1
      BY <2>1, Zenon DEF TakeRequest
    <3>2. ops' \in Nat
      BY <3>1 DEF HistTyped
    <3>3. QED
      BY <3>1, <3>2, Zenon DEF HistTyped
  <2>6. QED
    BY <2>1, <2>4, <2>5, TypedUnchanged DEF TakeRequest
<1>2. CASE IdleTick
  BY <1>2, TypedUnchanged DEF IdleTick, SeqTyped
<1>3. CASE WriteDevAddr
  <2>1. WbTyped' /\ SeqTyped'
    BY <1>3, ByteRange, RequestTyped
    DEF WriteDevAddr, IssueWrite, WbTyped, SeqTyped, SeqState, WbAddr
  <2>2. QED
    BY <1>3, <2>1, TypedUnchanged DEF WriteDevAddr
<1>4. CASE WriteIntAddr
  <2>1. WbTyped' /\ SeqTyped'
    BY <1>4, RequestTyped
    DEF WriteIntAddr, AfterIntAddr, IssueWrite, WbTyped, SeqTyped, SeqState, WbAddr
  <2>2. QED
    BY <1>4, <2>1, TypedUnchanged DEF WriteIntAddr
<1>5. CASE WriteData
  <2>1. WbTyped' /\ SeqTyped'
    BY <1>5, RequestTyped
    DEF WriteData, IssueWrite, WbTyped, SeqTyped, SeqState, WbAddr
  <2>2. QED
    BY <1>5, <2>1, TypedUnchanged DEF WriteData
<1>6. CASE WriteWbCmd
  <2>1. CommandToSend \in Command
    BY DEF CommandToSend, Command
  <2>2. WbTyped'
    BY <1>6, <2>1, RequestTyped DEF WriteWbCmd, IssueWrite, WbTyped
  <2>3. SeqTyped'
    BY <1>6 DEF WriteWbCmd, AfterWbCmd, IssueWrite, SeqTyped, SeqState, NoStatus, Status
  <2>4. QED
    BY <1>6, <2>2, <2>3, TypedUnchanged DEF WriteWbCmd
<1>7. CASE WrStopCmd
  <2>1. {"STOP"} \in Command
    BY DEF Command
  <2>2. WbTyped'
    BY <1>7, <2>1, RequestTyped DEF WrStopCmd, IssueWrite, WbTyped
  <2>3. SeqTyped'
    BY <1>7 DEF WrStopCmd, IssueWrite, SeqTyped, SeqState
  <2>4. QED
    BY <1>7, <2>2, <2>3, TypedUnchanged DEF WrStopCmd
<1>8. CASE PollBusy
  BY <1>8, TypedUnchanged DEF PollBusy, SeqTyped, SeqState, WbAddr
<1>9. CASE BusyRose
  BY <1>9, TypedUnchanged DEF BusyRose, SeqTyped
<1>10. CASE BusyFell
  <2>1. dataIn.missed \in BOOLEAN
    BY DEF SeqTyped, Status
  <2>2. missedAck' \in BOOLEAN /\ state' \in SeqState
    BY <1>10, <2>1, Zenon DEF BusyFell, SeqState
  <2>3. SeqTyped'
    BY <1>10, <2>2 DEF BusyFell, SeqTyped
  <2>4. QED
    BY <1>10, <2>3, TypedUnchanged DEF BusyFell
<1>11. CASE GetRdSts
  BY <1>11, TypedUnchanged DEF GetRdSts, SeqTyped, SeqState, WbAddr
<1>12. CASE GetDataRd
  BY <1>12, TypedUnchanged DEF GetDataRd, AfterData, SeqTyped, SeqState, WbAddr
<1>13. CASE ReadWbReg
  <2>1. WbTyped' /\ SeqTyped'
    BY <1>13, RequestTyped DEF ReadWbReg, WbTyped, SeqTyped, SeqState
  <2>2. QED
    BY <1>13, <2>1, TypedUnchanged DEF ReadWbReg, fifoVars
<1>14. QED
  BY <1>1, <1>2, <1>3, <1>4, <1>5, <1>6, <1>7, <1>8, <1>9, <1>10, <1>11, <1>12,
     <1>13 DEF SeqNext

\* So do the three steps of a Wishbone access.
LEMMA WbStepTyped == TypeOK /\ WbNext => TypeOK'
<1> SUFFICES ASSUME TypeOK, WbNext PROVE TypeOK'
  OBVIOUS
<1> USE DEF TypeOK
<1>1. CASE WbWrite
  <2>1. wbReq.cmd \in Command /\ wbReq.byte \in Byte
    BY DEF WbTyped, WbRequest
  <2>2. FifosTyped'
    BY <1>1, <2>1 DEF WbWrite, FifosTyped
  <2>3. WbTyped' /\ SeqTyped'
    BY <1>1, RequestTyped DEF WbWrite, WbTyped, SeqTyped
  <2>4. QED
    BY <1>1, <2>2, <2>3, TypedUnchanged DEF WbWrite
<1>2. CASE WbSample
  <2>1. wbReq' \in WbRequest
    BY <1>2 DEF WbSample, WbTyped, WbRequest
  <2>2. wbStatus' \in Status
    <3>1. NoStatus \in Status /\ BusBusy \in BOOLEAN /\ wbMissed \in BOOLEAN
      BY DEF NoStatus, Status, BusBusy, WbTyped
    <3>2. [NoStatus EXCEPT !.busy = BusBusy, !.missed = wbMissed] \in Status
      BY <3>1 DEF Status
    <3>3. [NoStatus EXCEPT !.empty = (rdFifo = <<>>)] \in Status
      BY <3>1 DEF Status
    <3>4. QED
      BY <1>2, <3>1, <3>2, <3>3, Zenon DEF WbSample
  <2>3. FifosTyped' /\ wbByte' \in Byte
    <3>1. CASE wbReq.addr = "DATA" /\ rdFifo # <<>>
      <4>1. /\ wbByte' = Head(rdFifo) /\ rdFifo' = Tail(rdFifo)
            /\ UNCHANGED <<cmdFifo, wrFifo>>
        BY <1>2, <3>1, Zenon DEF WbSample
      <4>2. QED
        BY <3>1, <4>1 DEF FifosTyped
    <3>2. CASE ~(wbReq.addr = "DATA" /\ rdFifo # <<>>)
      <4>1. UNCHANGED <<wbByte, cmdFifo, wrFifo, rdFifo>>
        BY <1>2, <3>2, Zenon DEF WbSample
      <4>2. QED
        BY <4>1 DEF WbTyped, FifosTyped
    <3>3. QED
      BY <3>1, <3>2
  <2>4. HistTyped' /\ wbMissed' \in BOOLEAN
    BY <1>2 DEF MissedKept, WbSample, HistTyped, WbTyped
  <2>5. QED
    BY <1>2, <2>1, <2>2, <2>3, <2>4, TypedUnchanged DEF WbSample, WbTyped
<1>3. CASE WbReadAck
  <2>1. wbByte \in Byte /\ wbByte % 2 \in 0 .. 1 /\ 0 \in 0 .. 1
    BY ByteRange DEF WbTyped
  <2>2. out' \in Value
    BY <1>3, <2>1 DEF WbReadAck, WithByte, SeqTyped, Value
  <2>3. SeqTyped'
    BY <1>3, <2>2 DEF WbReadAck, SeqTyped, WbTyped
  <2>4. WbTyped'
    BY <1>3, RequestTyped DEF MissedKept, WbReadAck, WbTyped
  <2>5. QED
    BY <1>3, <2>3, <2>4, TypedUnchanged DEF WbReadAck
<1>4. QED
  BY <1>1, <1>2, <1>3 DEF WbNext

\* And what the I2C master and the codec do.
LEMMA BusStepTyped == TypeOK /\ (BusNext \/ PushRead) => TypeOK'
<1> SUFFICES ASSUME TypeOK, BusNext \/ PushRead PROVE TypeOK'
  OBVIOUS
<1> USE DEF TypeOK
<1>1. CASE MasterAccept
  <2>1. Head(cmdFifo) \in Command /\ FifosTyped'
    BY <1>1 DEF MasterAccept, Window, FifosTyped
  <2>2. AfterCommand(mState, Head(cmdFifo)) \in MasterState
    BY DEF AfterCommand, MasterTyped, MasterState
  <2>3. MasterTyped'
    <3>1. mRead' \in BOOLEAN
      <4>1. mRead' = IF IsTransfer(Head(cmdFifo)) THEN "READ" \in Head(cmdFifo)
                                                 ELSE mRead
        BY <1>1, Zenon DEF MasterAccept
      <4>2. mRead \in BOOLEAN /\ ("READ" \in Head(cmdFifo)) \in BOOLEAN
        BY DEF MasterTyped
      <4>3. QED
        BY <4>1, <4>2, Zenon
    <3>2. QED
      BY <1>1, <2>2, <3>1 DEF MasterAccept, MasterTyped
  <2>4. HistTyped'
    BY <1>1 DEF MasterAccept, HistTyped
  <2>5. QED
    BY <1>1, <2>1, <2>3, <2>4, TypedUnchanged DEF MasterAccept
<1>2. CASE AddressSent
  <2>1. wbMissed' \in BOOLEAN /\ HistTyped'
    BY <1>2, ControllerAssumption
    DEF AddressSent, Acknowledge, WbTyped, HistTyped, ControllerAssumption
  <2>2. WbTyped' /\ MasterTyped'
    BY <1>2, <2>1 DEF AddressSent, WbTyped, MasterTyped, MasterState
  <2>3. CodecTyped'
    BY <1>2 DEF AddressSent, CodecTyped
  <2>4. QED
    BY <1>2, <2>1, <2>2, <2>3, TypedUnchanged DEF AddressSent
<1>3. CASE TakeByte
  <2>1. FifosTyped' /\ MasterTyped'
    BY <1>3 DEF TakeByte, FifosTyped, MasterTyped, MasterState
  <2>2. HistTyped'
    BY <1>3 DEF TakeByte, HistTyped
  <2>3. QED
    BY <1>3, <2>1, <2>2, TypedUnchanged DEF TakeByte
<1>4. CASE ByteWritten
  <2>1. PICK ack \in (IF cMode = "none" THEN {FALSE} ELSE CodecAcks) :
          /\ Acknowledge(ack)
          /\ IF ack THEN CodecTakes(mByte)
                    ELSE cMode' = "none" /\ UNCHANGED <<cRegs, cPtr>>
    BY <1>4 DEF ByteWritten
  <2>2. wbMissed' \in BOOLEAN /\ HistTyped'
    BY <1>4, <2>1, ControllerAssumption
    DEF ByteWritten, Acknowledge, WbTyped, HistTyped, ControllerAssumption
  <2>3. WbTyped' /\ MasterTyped'
    BY <1>4, <2>2 DEF ByteWritten, WbTyped, MasterTyped, MasterState
  <2>4. mByte \in Byte /\ [hi |-> cPtr % 2, lo |-> mByte] \in Value
    BY ByteRange DEF MasterTyped, CodecTyped, Value
  <2>5. CodecTyped'
    <3>1. CASE ~ack
      BY <2>1, <3>1 DEF CodecTyped
    <3>2. CASE ack
      BY <2>1, <2>4, <3>2 DEF CodecTakes, CodecTyped, codecVars
    <3>3. QED
      BY <2>1, <3>1, <3>2
  <2>6. QED
    BY <1>4, <2>2, <2>3, <2>5, TypedUnchanged DEF ByteWritten
<1>5. CASE ByteRead
  <2>1. cPtr \div 2 \in Regs
    BY ByteRange DEF CodecTyped
  <2>2. cRegs[cPtr \div 2].lo \in Byte /\ cRegs[cPtr \div 2].hi \in Byte
    BY <2>1, ByteRange DEF CodecTyped, Value
  <2>3. mOut' \in {<<b>> : b \in Byte}
    BY <1>5, <2>2, ByteRange DEF ByteRead
  <2>4. MasterTyped' /\ HistTyped'
    BY <1>5, <2>3 DEF ByteRead, MasterTyped, MasterState, HistTyped
  <2>5. CodecTyped'
    BY <1>5 DEF ByteRead, CodecTyped
  <2>6. QED
    BY <1>5, <2>4, <2>5, TypedUnchanged DEF ByteRead
<1>6. CASE StopSent
  <2>1. MasterTyped' /\ HistTyped' /\ CodecTyped'
    BY <1>6 DEF StopSent, MasterTyped, MasterState, HistTyped, CodecTyped
  <2>2. QED
    BY <1>6, <2>1, TypedUnchanged DEF StopSent
<1>7. CASE PushRead
  <2>1. mOut \in Seq(Byte)
    <3>1. CASE mOut = <<>>
      BY <3>1
    <3>2. CASE mOut \in {<<b>> : b \in Byte}
      <4>1. PICK b \in Byte : mOut = <<b>>
        BY <3>2
      <4>2. QED
        BY <4>1
    <3>3. QED
      BY <3>1, <3>2 DEF MasterTyped
  <2>2. FifosTyped' /\ MasterTyped'
    BY <1>7, <2>1 DEF PushRead, FifosTyped, MasterTyped
  <2>3. QED
    BY <1>7, <2>2, TypedUnchanged DEF PushRead
<1>8. QED
  BY <1>1, <1>2, <1>3, <1>4, <1>5, <1>6, <1>7 DEF BusNext

LEMMA TypeStep == TypeOK /\ [Next]_vars => TypeOK'
<1>1. TypeOK /\ UNCHANGED vars => TypeOK'
  BY TypedUnchanged DEF vars, TypeOK
<1>2. QED
  BY <1>1, SeqStepTyped, WbStepTyped, BusStepTyped DEF Next

\* Every register, FIFO and codec register always holds a value of its type; a
\* byte on its way through the FIFOs never names a register that is not there.
THEOREM TypeCorrect == Spec => []TypeOK
  BY InitTyped, TypeStep, PTL DEF Spec
-----------------------------------------------------------------------------
(* The inductive invariant behind NoUnderflow: the chain of facts by which   *)
(* "not empty", once sampled, still holds when DATA is read.                 *)

\* The sequencer waits exactly as long as there is a Wishbone access, and the
\* register it waits for is the one it asked for.
WaitsForAccess ==
  /\ state = "WAIT_FOR_ACK" <=> wbReq.op = "write"
  /\ state = "WAIT_FOR_RD_ACK" <=> wbReq.op \in {"read", "ack"}
  /\ wbReq.op \in {"read", "ack"} => wbReq.addr = nextAddr

\* Where an acknowledge may lead.
ReturnStates ==
  /\ state = "WAIT_FOR_ACK" =>
       afterAck \in {"WRITE_DEV_ADDR", "WRITE_INT_ADDR", "WRITE_DATA",
                     "WRITE_WB_CMD", "WR_STOP_CMD", "WAIT_WR_XFR_DONE"}
  /\ state \in {"READ_WB_REG", "WAIT_FOR_RD_ACK"} =>
       /\ afterAck \in {"WAIT_WR_XFR_DONE", "GET_RD_STS", "GET_DATA_RD", "IDLE"}
       /\ afterAck = "GET_DATA_RD" => nextAddr = "STS1"

\* "Not empty" in the slave's status byte, in the sequencer's copy of it, and
\* in the decision to read DATA.
NotEmptyIsTrue ==
  /\ wbReq.op = "ack" /\ wbReq.addr = "STS1" /\ ~wbStatus.empty => rdFifo # <<>>
  /\ state = "GET_DATA_RD" /\ ~dataIn.empty => rdFifo # <<>>
  /\ state = "READ_WB_REG" /\ nextAddr = "DATA" => rdFifo # <<>>

ReadInv == WaitsForAccess /\ ReturnStates /\ NotEmptyIsTrue /\ NoUnderflow
LEMMA InitReadInv == Init => ReadInv
  BY DEF Init, ReadInv, WaitsForAccess, ReturnStates, NotEmptyIsTrue, NoUnderflow,
         NoRequest

\* A state of the sequencer issues one access and comes back to a state of the
\* write sequence: the read FIFO is not touched.
LEMMA IssueKeeps ==
  ASSUME NEW req, NEW next, ReadInv, IssueWrite(req, next), req.op = "write",
         next \in {"WRITE_DEV_ADDR", "WRITE_INT_ADDR", "WRITE_DATA",
                   "WRITE_WB_CMD", "WR_STOP_CMD", "WAIT_WR_XFR_DONE"}
  PROVE  ReadInv'
  BY DEF IssueWrite, ReadInv, WaitsForAccess, ReturnStates, NotEmptyIsTrue,
         NoUnderflow

LEMMA SeqStepReadInv == TypeOK /\ ReadInv /\ (Request \/ SeqNext) => ReadInv'
<1> SUFFICES ASSUME TypeOK, ReadInv, Request \/ SeqNext PROVE ReadInv'
  OBVIOUS
<1> USE DEF ReadInv, WaitsForAccess, ReturnStates, NotEmptyIsTrue, NoUnderflow
<1>1. CASE Request
  BY <1>1 DEF Request, TakeRequest, wbVars, fifoVars
<1>2. CASE IdleTick
  BY <1>2 DEF IdleTick, wbVars, fifoVars
<1>3. CASE WriteDevAddr
  BY <1>3, IssueKeeps DEF WriteDevAddr, WriteByte
<1>4. CASE WriteIntAddr
  BY <1>4, IssueKeeps DEF WriteIntAddr, AfterIntAddr, WriteByte
<1>5. CASE WriteData
  BY <1>5, IssueKeeps DEF WriteData, WriteByte
<1>6. CASE WriteWbCmd
  BY <1>6, IssueKeeps DEF WriteWbCmd, AfterWbCmd, WriteCommand
<1>7. CASE WrStopCmd
  BY <1>7, IssueKeeps DEF WrStopCmd, WriteCommand
<1>8. CASE PollBusy
  BY <1>8 DEF PollBusy, wbVars, fifoVars
<1>9. CASE BusyRose
  BY <1>9 DEF BusyRose, wbVars, fifoVars
<1>10. CASE BusyFell
  BY <1>10 DEF BusyFell, wbVars, fifoVars
<1>11. CASE GetRdSts
  BY <1>11 DEF GetRdSts, wbVars, fifoVars
<1>12. CASE GetDataRd
  BY <1>12 DEF GetDataRd, DataWaits, AfterData, wbVars, fifoVars
<1>13. CASE ReadWbReg
  BY <1>13 DEF ReadWbReg, ReadRegister, fifoVars
<1>14. QED
  BY <1>1, <1>2, <1>3, <1>4, <1>5, <1>6, <1>7, <1>8, <1>9, <1>10, <1>11, <1>12,
     <1>13 DEF SeqNext

LEMMA WbStepReadInv == TypeOK /\ ReadInv /\ WbNext => ReadInv'
<1> SUFFICES ASSUME TypeOK, ReadInv, WbNext PROVE ReadInv'
  OBVIOUS
<1> USE DEF ReadInv, WaitsForAccess, ReturnStates, NotEmptyIsTrue, NoUnderflow
<1>1. CASE WbWrite
  BY <1>1 DEF WbWrite, NoRequest
<1>2. CASE WbSample
  <2>1. wbReq.op = "read" /\ state = "WAIT_FOR_RD_ACK" /\ UNCHANGED seqVars
    BY <1>2 DEF WbSample
  <2>2. wbReq'.op = "ack" /\ wbReq'.addr = wbReq.addr
    BY <1>2 DEF WbSample, TypeOK, WbTyped, WbRequest
  <2>3. WaitsForAccess' /\ ReturnStates' /\ NoUnderflow'
    BY <2>1, <2>2 DEF seqVars
  <2>4. wbReq.addr = "STS1" /\ ~wbStatus'.empty => rdFifo' # <<>>
    <3>1. SUFFICES ASSUME wbReq.addr = "STS1" PROVE wbStatus'.empty \/ rdFifo' # <<>>
      OBVIOUS
    <3>2. wbStatus' = [NoStatus EXCEPT !.empty = (rdFifo = <<>>)]
      BY <1>2, <3>1 DEF WbSample
    <3>3. rdFifo' = rdFifo
      BY <1>2, <3>1 DEF WbSample
    <3>4. QED
      BY <3>2, <3>3 DEF NoStatus
  <2>5. QED
    BY <2>1, <2>2, <2>3, <2>4 DEF seqVars
<1>3. CASE WbReadAck
  BY <1>3 DEF WbReadAck, NoRequest, fifoVars
<1>4. QED
  BY <1>1, <1>2, <1>3 DEF WbNext

\* The bus side only adds to the read FIFO.
LEMMA BusStepReadInv == TypeOK /\ ReadInv /\ (BusNext \/ PushRead) => ReadInv'
<1> SUFFICES ASSUME TypeOK, ReadInv, BusNext \/ PushRead PROVE ReadInv'
  OBVIOUS
<1>1. rdFifo # <<>> => rdFifo' # <<>>
  <2>1. CASE PushRead
    BY <2>1 DEF PushRead, TypeOK, FifosTyped, MasterTyped
  <2>2. CASE BusNext
    BY <2>2 DEF BusNext, MasterAccept, AddressSent, TakeByte, ByteWritten, ByteRead,
                StopSent, fifoVars
  <2>3. QED
    BY <2>1, <2>2
<1>2. UNCHANGED <<seqVars, wbReq, wbStatus>>
  BY DEF BusNext, MasterAccept, AddressSent, TakeByte, ByteWritten, ByteRead,
         StopSent, PushRead, wbVars
<1>3. QED
  BY <1>1, <1>2
  DEF seqVars, ReadInv, WaitsForAccess, ReturnStates, NotEmptyIsTrue, NoUnderflow

LEMMA ReadInvStep == TypeOK /\ ReadInv /\ [Next]_vars => ReadInv'
<1>1. ReadInv /\ UNCHANGED vars => ReadInv'
  BY DEF vars, seqVars, wbVars, fifoVars, ReadInv, WaitsForAccess, ReturnStates,
         NotEmptyIsTrue, NoUnderflow
<1>2. QED
  BY <1>1, SeqStepReadInv, WbStepReadInv, BusStepReadInv DEF Next

\* The sequencer never takes a byte from an empty read FIFO, whatever the codec
\* acknowledges and however early the next request comes.
THEOREM DataReadIsSafe == Spec => []NoUnderflow
<1>1. TypeOK /\ ReadInv /\ [Next]_vars => (TypeOK /\ ReadInv)'
  BY TypeStep, ReadInvStep
<1>2. ReadInv => NoUnderflow
  BY DEF ReadInv
<1>3. QED
  BY InitTyped, InitReadInv, <1>1, <1>2, PTL DEF Spec
-----------------------------------------------------------------------------
(* The inductive invariant of a paced client: the sequencer, the FIFOs, the *)
(* master and the codec are all at the same point of the same operation.    *)

\* The commands of one operation, in the order they are sent.
StartWr == {"START", "WRITE"}
Wr == {"WRITE"}
StartRd == {"START", "READ"}
Rd == {"READ"}
StopBus == {"STOP"}
WrCmds == <<StartWr, StopBus>>
RdCmds == <<Wr, StartRd, Rd, StopBus>>

\* Where the master is, and what the two FIFOs towards the bus hold.
Bus(m, cmds, bytes) == mState = m /\ cmdFifo = cmds /\ wrFifo = bytes

\* A codec that has missed no byte is where it should be.
Codec(m) == IF nackSeen THEN cMode \in {m, "none"} ELSE cMode = m

\* The sequencer has sent these commands and bytes.  The master may have taken
\* the first command, but no address has gone out: the sequencer has not polled.
Sent(bytes, cmds) ==
  /\ cMode = "none"
  /\ \/ Bus("IDLE", cmds, bytes)
     \/ cmds # <<>> /\ Bus("ADDRESS", Tail(cmds), bytes) /\ ~mRead /\ ~polled

PtrIfData == cMode = "data" => cPtr = intAddr
PtrIfAcked == ~nackSeen => cPtr = intAddr
Stored == ~nackSeen => cRegs[Target] = Written

\* The write on the bus: the address, the pointer byte, the data byte.
Writes ==
  \/ Bus("ADDRESS", <<StopBus>>, <<intAddr, wrData>>) /\ ~mRead /\ cMode = "none"
  \/ Bus("WRITE_1", <<StopBus>>, <<intAddr, wrData>>) /\ Codec("pointer")
  \/ Bus("WRITE_2", <<StopBus>>, <<wrData>>) /\ mByte = intAddr /\ Codec("pointer")
  \/ Bus("WRITE_1", <<StopBus>>, <<wrData>>) /\ Codec("data") /\ PtrIfData
  \/ Bus("WRITE_2", <<StopBus>>, <<>>) /\ mByte = wrData /\ Codec("data") /\ PtrIfData
HasWritten ==
  \/ Bus("ACTIVE_WRITE", <<StopBus>>, <<>>)
  \/ Bus("STOP", <<>>, <<>>)
  \/ Bus("IDLE", <<>>, <<>>) /\ cMode = "none"

\* The read on the bus: two bytes, one byte, no byte are still to come.
ReadsTwo ==
  \/ Bus("ADDRESS", <<StartRd, Rd, StopBus>>, <<intAddr>>) /\ ~mRead /\ cMode = "none"
  \/ Bus("WRITE_1", <<StartRd, Rd, StopBus>>, <<intAddr>>) /\ Codec("pointer")
  \/ Bus("WRITE_2", <<StartRd, Rd, StopBus>>, <<>>) /\ mByte = intAddr /\ Codec("pointer")
  \/ Bus("ACTIVE_WRITE", <<StartRd, Rd, StopBus>>, <<>>) /\ PtrIfAcked
  \/ Bus("ADDRESS", <<Rd, StopBus>>, <<>>) /\ mRead /\ PtrIfAcked
  \/ Bus("READ", <<Rd, StopBus>>, <<>>) /\ Codec("lo") /\ PtrIfAcked
ReadsOne ==
  \/ Bus("ACTIVE_READ", <<Rd, StopBus>>, <<>>) /\ Codec("hi") /\ PtrIfAcked
  \/ Bus("READ", <<StopBus>>, <<>>) /\ Codec("hi") /\ PtrIfAcked
HasRead ==
  \/ Bus("ACTIVE_READ", <<StopBus>>, <<>>)
  \/ Bus("STOP", <<>>, <<>>)
  \/ Bus("IDLE", <<>>, <<>>) /\ cMode = "none"

\* Bytes the operation in progress has taken from the read FIFO; with those in
\* the FIFO and the n still to come on the bus they are whole pairs.
DataAck == wbReq.op = "ack" /\ wbReq.addr = "DATA"
Taken == IF state # "IDLE" /\ isRd
           THEN (IF rd1Rcvd THEN 1 ELSE 0)
                + (IF wbReq.op = "ack" /\ wbReq.addr = "DATA" THEN 1 ELSE 0)
           ELSE 0
ToCome(n) == (Len(rdFifo) + Len(mOut) + Taken + n) % 2 = 0
Reads == \/ ReadsTwo /\ ToCome(2)
         \/ ReadsOne /\ ToCome(1)
         \/ HasRead /\ ToCome(0)

Waits(req, next) == state = "WAIT_FOR_ACK" /\ wbReq = req /\ afterAck = next

\* The sequencer on its way to the status polls: what it does next, and what
\* it has sent.
SendsWrite ==
  \/ /\ ~intSent /\ Sent(<<>>, <<>>)
     /\ \/ state \in {"WRITE_DEV_ADDR", "WRITE_INT_ADDR"}
        \/ Waits(WriteByte("ADDR", 0), "WRITE_INT_ADDR")
        \/ Waits(WriteByte("DATA", intAddr), "WRITE_DATA")
  \/ /\ ~intSent /\ Sent(<<intAddr>>, <<>>)
     /\ \/ state = "WRITE_DATA"
        \/ Waits(WriteByte("DATA", wrData), "WRITE_WB_CMD")
  \/ /\ Sent(<<intAddr, wrData>>, <<>>)
     /\ \/ state = "WRITE_WB_CMD" /\ ~intSent
        \/ Waits(WriteCommand(StartWr), "WR_STOP_CMD") /\ intSent
  \/ /\ intSent /\ Sent(<<intAddr, wrData>>, <<StartWr>>)
     /\ \/ state = "WR_STOP_CMD"
        \/ Waits(WriteCommand(StopBus), "WAIT_WR_XFR_DONE")
SendsRead ==
  \/ /\ ~intSent /\ ~rd1Sent /\ Sent(<<>>, <<>>)
     /\ \/ state \in {"WRITE_DEV_ADDR", "WRITE_INT_ADDR"}
        \/ Waits(WriteByte("ADDR", 0), "WRITE_INT_ADDR")
        \/ Waits(WriteByte("DATA", intAddr), "WRITE_WB_CMD")
  \/ /\ ~rd1Sent /\ Sent(<<intAddr>>, <<>>)
     /\ \/ state = "WRITE_WB_CMD" /\ ~intSent
        \/ Waits(WriteCommand(Wr), "WRITE_WB_CMD") /\ intSent
  \/ /\ intSent /\ Sent(<<intAddr>>, <<Wr>>)
     /\ \/ state = "WRITE_WB_CMD" /\ ~rd1Sent
        \/ Waits(WriteCommand(StartRd), "WRITE_WB_CMD") /\ rd1Sent
  \/ /\ intSent /\ rd1Sent /\ Sent(<<intAddr>>, <<Wr, StartRd>>)
     /\ \/ state = "WRITE_WB_CMD"
        \/ Waits(WriteCommand(Rd), "WR_STOP_CMD")
  \/ /\ intSent /\ Sent(<<intAddr>>, <<Wr, StartRd, Rd>>)
     /\ \/ state = "WR_STOP_CMD"
        \/ Waits(WriteCommand(StopBus), "WAIT_WR_XFR_DONE")

\* The sequencer polls the busy bit, or fetches the bytes of a read.
Polls == \/ state = "WAIT_WR_XFR_DONE"
         \/ /\ state \in {"READ_WB_REG", "WAIT_FOR_RD_ACK"}
            /\ afterAck = "WAIT_WR_XFR_DONE" /\ nextAddr = "STS0"
Fetches == \/ state = "GET_RD_STS" /\ (missedAck => ~rd1Rcvd)
           \/ state = "GET_DATA_RD" /\ ~missedAck
           \/ /\ state \in {"READ_WB_REG", "WAIT_FOR_RD_ACK"} /\ ~missedAck
              /\ \/ afterAck = "GET_DATA_RD" /\ nextAddr = "STS1"
                 \/ nextAddr = "DATA" /\ afterAck = AfterData

\* Busy has been sampled in this operation, or not-busy after it.
BusySeen == \/ started
            \/ state = "WAIT_WR_XFR_DONE" /\ dataIn.busy
            \/ wbReq.op = "ack" /\ wbStatus.busy
DoneSeen == /\ started
            /\ \/ state = "WAIT_WR_XFR_DONE" /\ ~dataIn.busy
               \/ wbReq.op = "ack" /\ ~wbStatus.busy

\* With its first command the sequencer forgets the last operation's polls.
Fresh == intSent => ~started /\ ~dataIn.busy

InWrite ==
  \/ SendsWrite /\ Fresh
  \/ Polls /\ Sent(<<intAddr, wrData>>, WrCmds) /\ ~BusySeen
  \/ Polls /\ Writes /\ ~DoneSeen
  \/ Polls /\ HasWritten /\ Stored
InRead ==
  \/ SendsRead /\ Fresh /\ ToCome(2) /\ ~rd1Rcvd
  \/ Polls /\ Sent(<<intAddr>>, RdCmds) /\ ~BusySeen /\ ToCome(2) /\ ~rd1Rcvd
  \/ Polls /\ Reads /\ ~rd1Rcvd
  \/ Fetches /\ Reads

\* A read that was given up may still be on the bus when the sequencer is idle.
BusInv ==
  /\ state = "IDLE" => ((HasWritten /\ ToCome(0)) \/ Reads)
                       /\ (busy /\ ~isRd => Stored)
  /\ state # "IDLE" /\ ~isRd => InWrite /\ ToCome(0)
  /\ state # "IDLE" /\ isRd => InRead
-----------------------------------------------------------------------------
(* The inductive invariant behind MissesAreReal: a miss of an operation      *)
(* before is cleared in the status by the poll that sees this one's busy.    *)

\* The sequencer is past its last poll.
Over == \/ state = "IDLE" /\ busy
        \/ state \in {"GET_RD_STS", "GET_DATA_RD"}
        \/ state \in {"READ_WB_REG", "WAIT_FOR_RD_ACK"} /\ afterAck # "WAIT_WR_XFR_DONE"

MissInv ==
  /\ state \in {"READ_WB_REG", "WAIT_FOR_RD_ACK"} =>
       (nextAddr = "STS0" <=> afterAck = "WAIT_WR_XFR_DONE")
  /\ started \/ dataIn.busy => Polls
  /\ wbReq.op = "ack" /\ wbStatus.busy => wbReq.addr = "STS0"
  /\ BusySeen => (wbMissed => nackSeen)
  /\ wbReq.op = "ack" /\ started => (wbStatus.missed => nackSeen)
  /\ started /\ ~dataIn.busy => (dataIn.missed => nackSeen)
  /\ Over /\ missedAck => nackSeen

LEMMA InitMissInv == Init => MissInv
  BY DEF Init, MissInv, Over, Polls, BusySeen, NoRequest, NoStatus

LEMMA SeqStepMissInv ==
  ASSUME TypeOK, ReadInv, MissInv, Request \/ SeqNext
  PROVE  MissInv'
<1>0. /\ WaitsForAccess /\ ReturnStates
      /\ started \in BOOLEAN /\ busy \in BOOLEAN /\ missedAck \in BOOLEAN
      /\ wbMissed \in BOOLEAN /\ nackSeen \in BOOLEAN
      /\ dataIn \in Status /\ wbStatus \in Status
  BY DEF ReadInv, TypeOK, SeqTyped, WbTyped, HistTyped
<1> USE DEF MissInv, Over, Polls, BusySeen, WaitsForAccess
<1>1. CASE Request
  BY <1>0, <1>1 DEF Request, TakeRequest, wbVars
<1>2. CASE IdleTick
  BY <1>0, <1>2 DEF IdleTick, wbVars, histVars
<1>3. ASSUME NEW req, NEW next, IssueWrite(req, next), req.op = "write",
             state \in {"WRITE_DEV_ADDR", "WRITE_INT_ADDR", "WRITE_DATA",
                        "WRITE_WB_CMD", "WR_STOP_CMD"},
             \/ UNCHANGED <<started, dataIn>>
             \/ ~started' /\ dataIn' = NoStatus,
             UNCHANGED <<missedAck, busy, nextAddr, nackSeen>>
      PROVE  MissInv'
  BY <1>0, <1>3 DEF IssueWrite, NoStatus
<1>4. CASE WriteDevAddr
  BY <1>3, <1>4 DEF WriteDevAddr, WriteByte, histVars
<1>5. CASE WriteIntAddr
  BY <1>3, <1>5 DEF WriteIntAddr, WriteByte, histVars
<1>6. CASE WriteData
  BY <1>3, <1>6 DEF WriteData, WriteByte, histVars
<1>7. CASE WriteWbCmd
  BY <1>3, <1>7 DEF WriteWbCmd, WriteCommand, histVars
<1>8. CASE WrStopCmd
  BY <1>3, <1>8 DEF WrStopCmd, WriteCommand, histVars
<1>9. CASE PollBusy
  BY <1>0, <1>9 DEF PollBusy, wbVars, histVars
<1>10. CASE BusyRose
  BY <1>0, <1>10 DEF BusyRose, wbVars, histVars
<1>11. CASE BusyFell
  BY <1>0, <1>11 DEF BusyFell, TransferDone, wbVars, histVars
<1>12. CASE GetRdSts
  BY <1>0, <1>12 DEF GetRdSts, wbVars, histVars
<1>13. CASE GetDataRd
  BY <1>0, <1>13 DEF GetDataRd, AfterData, wbVars, histVars
<1>14. CASE ReadWbReg
  BY <1>0, <1>14 DEF ReadWbReg, ReadRegister, histVars
<1> QED BY <1>1, <1>2, <1>4, <1>5, <1>6, <1>7, <1>8, <1>9, <1>10, <1>11, <1>12, <1>13,
           <1>14 DEF SeqNext

LEMMA WbStepMissInv ==
  ASSUME TypeOK, ReadInv, MissInv, WbNext
  PROVE  MissInv'
<1>0. /\ WaitsForAccess /\ ReturnStates
      /\ started \in BOOLEAN /\ busy \in BOOLEAN /\ missedAck \in BOOLEAN
      /\ wbMissed \in BOOLEAN /\ nackSeen \in BOOLEAN
      /\ dataIn \in Status /\ wbStatus \in Status /\ wbReq \in WbRequest
  BY DEF ReadInv, TypeOK, SeqTyped, WbTyped, HistTyped
<1> USE DEF MissInv, Over, Polls, BusySeen, WaitsForAccess
<1>1. CASE WbWrite
  BY <1>0, <1>1 DEF WbWrite, ReturnStates, NoRequest, histVars
<1>2. CASE WbSample
  <2>1. /\ state = "WAIT_FOR_RD_ACK" /\ wbReq.op = "read" /\ wbReq.addr = nextAddr
        /\ UNCHANGED seqVars /\ nackSeen' = nackSeen
    BY <1>0, <1>2 DEF WbSample
  <2>2. wbReq'.op = "ack" /\ wbReq'.addr = wbReq.addr
    BY <1>0, <1>2 DEF WbSample, WbRequest
  <2>3. CASE wbReq.addr = "STS0"
    <3>1. ~wbMissed' /\ wbStatus'.missed = wbMissed
      BY <1>2, <2>3 DEF WbSample, MissedKept, NoStatus
    <3>2. started => (wbMissed => nackSeen)
      OBVIOUS
    <3> QED BY <2>1, <2>2, <2>3, <3>1, <3>2 DEF seqVars
  <2>4. CASE wbReq.addr # "STS0"
    <3>1. wbMissed' = wbMissed /\ ~wbStatus'.missed /\ ~wbStatus'.busy
      BY <1>0, <1>2, <2>4 DEF WbSample, MissedKept, NoStatus
    <3> QED BY <2>1, <2>2, <2>4, <3>1 DEF seqVars
  <2> QED BY <2>3, <2>4
<1>3. CASE WbReadAck
  <2>1. /\ state = "WAIT_FOR_RD_ACK" /\ wbReq.addr = nextAddr /\ wbReq.op = "ack"
        /\ wbReq'.op = "none" /\ state' = afterAck /\ dataIn' = wbStatus
        /\ wbMissed' => wbMissed
        /\ UNCHANGED <<afterAck, started, nextAddr, missedAck, busy, wbStatus, nackSeen>>
    BY <1>0, <1>3 DEF WbReadAck, MissedKept, NoRequest, histVars
  <2>2. afterAck \in {"WAIT_WR_XFR_DONE", "GET_RD_STS", "GET_DATA_RD", "IDLE"}
    BY <1>0, <2>1 DEF ReturnStates
  <2>3. CASE afterAck = "WAIT_WR_XFR_DONE"
    BY <1>0, <2>1, <2>3
  <2>4. CASE afterAck # "WAIT_WR_XFR_DONE"
    BY <1>0, <2>1, <2>2, <2>4
  <2> QED BY <2>3, <2>4
<1> QED BY <1>1, <1>2, <1>3 DEF WbNext

LEMMA MissInvStep == TypeOK /\ ReadInv /\ MissInv /\ [Next]_vars => MissInv'
<1> SUFFICES ASSUME TypeOK, ReadInv, MissInv, [Next]_vars PROVE MissInv'
  OBVIOUS
<1>1. CASE Request \/ SeqNext
  BY <1>1, SeqStepMissInv
<1>2. CASE WbNext
  BY <1>2, WbStepMissInv
<1>3. CASE BusNext \/ PushRead \/ UNCHANGED vars
  <2>1. UNCHANGED <<seqVars, wbReq, wbStatus>>
    BY <1>3 DEF BusNext, MasterAccept, AddressSent, TakeByte, ByteWritten, ByteRead,
       StopSent, PushRead, vars, wbVars
  <2>2. \/ UNCHANGED <<wbMissed, nackSeen>>
        \/ \E ack \in BOOLEAN : Acknowledge(ack)
    <3>1. CASE AddressSent \/ ByteWritten
      BY <3>1, ControllerAssumption DEF AddressSent, ByteWritten
    <3>2. CASE \/ MasterAccept
               \/ TakeByte
               \/ ByteRead
               \/ StopSent
               \/ PushRead
               \/ UNCHANGED vars
      BY <3>2 DEF MasterAccept, TakeByte, ByteRead, StopSent, PushRead, vars, wbVars, histVars
    <3> QED BY <1>3, <3>1, <3>2 DEF BusNext
  <2>3. (wbMissed' => wbMissed \/ nackSeen') /\ (nackSeen => nackSeen')
    BY <2>2 DEF Acknowledge, TypeOK, WbTyped, HistTyped
  <2> QED BY <2>1, <2>3 DEF seqVars, MissInv, Over, Polls, BusySeen
<1> QED BY <1>1, <1>2, <1>3 DEF Next

\* A miss that the sequencer reports was on the bus after it had taken the request:
\* the sticky bit never carries one over from before, whether or not the client lets
\* the bus stop between two operations.
THEOREM MissesReported == Spec => []MissesAreReal
<1>1. TypeOK /\ ReadInv /\ MissInv /\ [Next]_vars => (TypeOK /\ ReadInv /\ MissInv)'
  BY TypeStep, ReadInvStep, MissInvStep
<1>2. Init => TypeOK /\ ReadInv /\ MissInv
  BY InitTyped, InitReadInv, InitMissInv
<1>3. MissInv => MissesAreReal
  BY DEF MissInv, Over, MissesAreReal, JustEnded
<1> QED BY <1>1, <1>2, <1>3, PTL DEF Spec

-----------------------------------------------------------------------------
(* The inductive invariant for a codec that acknowledges every byte: what   *)
(* each byte on its way from the codec to the sequencer's output is.        *)

AlwaysAcks == FALSE \notin CodecAcks

Lo == cRegs[Target].lo
Hi == cRegs[Target].hi
Acked == /\ ~nackSeen /\ ~wbMissed /\ ~wbStatus.missed
         /\ ~dataIn.missed /\ ~missedAck

\* The sequencer has taken none, the first, both bytes.
GotNone == ~rd1Rcvd /\ ~DataAck
GotOne == \/ ~rd1Rcvd /\ DataAck /\ wbByte = Lo
          \/ rd1Rcvd /\ ~DataAck /\ out.lo = Lo
GotBoth == rd1Rcvd /\ DataAck /\ out.lo = Lo /\ wbByte = Hi

\* The read FIFO and the master's output byte behind it.
Holds(first, second) == rdFifo = first /\ mOut = second

\* None, one, both bytes have been read from the codec.
Chain0 == GotNone /\ Holds(<<>>, <<>>)
Chain1 == \/ GotNone /\ (Holds(<<Lo>>, <<>>) \/ Holds(<<>>, <<Lo>>))
          \/ GotOne /\ Holds(<<>>, <<>>)
Chain2 == \/ GotNone /\ (Holds(<<Lo, Hi>>, <<>>) \/ Holds(<<Lo>>, <<Hi>>))
          \/ GotOne /\ (Holds(<<Hi>>, <<>>) \/ Holds(<<>>, <<Hi>>))
          \/ GotBoth /\ Holds(<<>>, <<>>)

Sending == state \in {"WRITE_DEV_ADDR", "WRITE_INT_ADDR", "WRITE_DATA",
                      "WRITE_WB_CMD", "WR_STOP_CMD", "WAIT_FOR_ACK"}
Gathered ==
  IF Sending THEN Chain0
  ELSE \/ (Sent(<<intAddr>>, RdCmds) \/ ReadsTwo) /\ Chain0
       \/ ReadsOne /\ Chain1
       \/ HasRead /\ Chain2
AckInv ==
  /\ Acked
  /\ state # "IDLE" => ~outValid
  /\ state = "IDLE" \/ ~isRd => Holds(<<>>, <<>>)
  /\ state = "IDLE" => ~ReadsTwo /\ ~ReadsOne
  /\ state # "IDLE" /\ isRd => Gathered

-----------------------------------------------------------------------------
(* Short sequences *)

LEMMA TailOfTuple ==
  ASSUME NEW S, NEW x \in S, NEW y \in S, NEW z \in S, NEW u \in S
  PROVE  /\ <<x>> # <<>> /\ <<x, y>> # <<>> /\ <<x, y, z>> # <<>>
         /\ <<x, y, z, u>> # <<>>
         /\ Head(<<x>>) = x /\ Head(<<x, y>>) = x /\ Head(<<x, y, z>>) = x
         /\ Head(<<x, y, z, u>>) = x
         /\ Tail(<<x>>) = <<>> /\ Tail(<<x, y>>) = <<y>>
         /\ Tail(<<x, y, z>>) = <<y, z>>
         /\ Tail(<<x, y, z, u>>) = <<y, z, u>>
  OBVIOUS

LEMMA AppendIs ==
  ASSUME NEW S, NEW s \in Seq(S), NEW x \in S, NEW t \in Seq(S),
         Len(t) = Len(s) + 1, t[Len(s) + 1] = x, \A i \in 1 .. Len(s) : t[i] = s[i]
  PROVE  Append(s, x) = t
<1>1. /\ Append(s, x) \in Seq(S) /\ Len(Append(s, x)) = Len(s) + 1
      /\ \A i \in 1 .. Len(s) : Append(s, x)[i] = s[i]
      /\ Append(s, x)[Len(s) + 1] = x
  BY AppendProperties
<1>2. \A i \in 1 .. Len(Append(s, x)) : Append(s, x)[i] = t[i]
  <2> TAKE i \in 1 .. Len(Append(s, x))
  <2>1. i \in 1 .. Len(s) \/ i = Len(s) + 1
    BY <1>1
  <2>2. QED
    BY <1>1, <2>1
<1>3. QED
  BY <1>1, <1>2, SeqEqual

LEMMA Append1 ==
  ASSUME NEW S, NEW x \in S
  PROVE  Append(<<>>, x) = <<x>>
BY AppendIs

LEMMA Append2 ==
  ASSUME NEW S, NEW x \in S, NEW y \in S
  PROVE  Append(<<x>>, y) = <<x, y>>
<1> DEFINE s == <<x>>
           t == <<x, y>>
<1>1. /\ s \in Seq(S) /\ Len(s) = 1 /\ t \in Seq(S) /\ Len(t) = 2 /\ t[2] = y
      /\ t[1] = s[1]
  OBVIOUS
<1>2. /\ Len(t) = Len(s) + 1 /\ t[Len(s) + 1] = y
      /\ \A i \in 1 .. Len(s) : t[i] = s[i]
  <2> HIDE DEF s, t
  <2> QED
    BY <1>1
<1>3. Append(s, y) = t
  <2> HIDE DEF s, t
  <2> QED
    BY <1>1, <1>2, AppendIs
<1>4. QED
  BY <1>3

LEMMA Append3 ==
  ASSUME NEW S, NEW x \in S, NEW y \in S, NEW z \in S
  PROVE  Append(<<x, y>>, z) = <<x, y, z>>
<1> DEFINE s == <<x, y>>
           t == <<x, y, z>>
<1>1. /\ s \in Seq(S) /\ Len(s) = 2 /\ t \in Seq(S) /\ Len(t) = 3 /\ t[3] = z
      /\ t[1] = s[1] /\ t[2] = s[2]
  OBVIOUS
<1>2. /\ Len(t) = Len(s) + 1 /\ t[Len(s) + 1] = z
      /\ \A i \in 1 .. Len(s) : t[i] = s[i]
  <2> HIDE DEF s, t
  <2> QED
    BY <1>1
<1>3. Append(s, z) = t
  <2> HIDE DEF s, t
  <2> QED
    BY <1>1, <1>2, AppendIs
<1>4. QED
  BY <1>3

LEMMA Append4 ==
  ASSUME NEW S, NEW x \in S, NEW y \in S, NEW z \in S, NEW u \in S
  PROVE  Append(<<x, y, z>>, u) = <<x, y, z, u>>
<1> DEFINE s == <<x, y, z>>
           t == <<x, y, z, u>>
<1>1. /\ s \in Seq(S) /\ Len(s) = 3 /\ t \in Seq(S) /\ Len(t) = 4 /\ t[4] = u
      /\ t[1] = s[1] /\ t[2] = s[2] /\ t[3] = s[3]
  OBVIOUS
<1>2. /\ Len(t) = Len(s) + 1 /\ t[Len(s) + 1] = u
      /\ \A i \in 1 .. Len(s) : t[i] = s[i]
  <2> HIDE DEF s, t
  <2> QED
    BY <1>1
<1>3. Append(s, u) = t
  <2> HIDE DEF s, t
  <2> QED
    BY <1>1, <1>2, AppendIs
<1>4. QED
  BY <1>3

LEMMA Cmds ==
  /\ Head(<<StartWr, StopBus>>) = StartWr
  /\ Tail(<<StartWr, StopBus>>) = <<StopBus>>
  /\ Head(<<StartWr>>) = StartWr /\ Tail(<<StartWr>>) = <<>>
  /\ Head(<<StopBus>>) = StopBus /\ Tail(<<StopBus>>) = <<>>
  /\ Head(<<Wr>>) = Wr /\ Tail(<<Wr>>) = <<>>
  /\ Head(<<Wr, StartRd>>) = Wr /\ Tail(<<Wr, StartRd>>) = <<StartRd>>
  /\ Head(<<Wr, StartRd, Rd>>) = Wr /\ Tail(<<Wr, StartRd, Rd>>) = <<StartRd, Rd>>
  /\ Head(<<Wr, StartRd, Rd, StopBus>>) = Wr
  /\ Tail(<<Wr, StartRd, Rd, StopBus>>) = <<StartRd, Rd, StopBus>>
  /\ Head(<<StartRd, Rd, StopBus>>) = StartRd
  /\ Tail(<<StartRd, Rd, StopBus>>) = <<Rd, StopBus>>
  /\ Head(<<Rd, StopBus>>) = Rd /\ Tail(<<Rd, StopBus>>) = <<StopBus>>
  /\ <<StartWr, StopBus>> # <<>> /\ <<StartWr>> # <<>> /\ <<StopBus>> # <<>>
  /\ <<Wr>> # <<>> /\ <<Wr, StartRd>> # <<>>
  /\ <<Wr, StartRd, Rd>> # <<>> /\ <<Wr, StartRd, Rd, StopBus>> # <<>>
  /\ <<StartRd, Rd, StopBus>> # <<>> /\ <<Rd, StopBus>> # <<>>
<1>1. /\ StartWr \in Command /\ Wr \in Command /\ StartRd \in Command
      /\ Rd \in Command /\ StopBus \in Command
  BY DEF StartWr, Wr, StartRd, Rd, StopBus, Command
<1>2. QED
  BY <1>1, TailOfTuple

LEMMA Bytes ==
  ASSUME TypeOK
  PROVE  /\ Head(<<intAddr, wrData>>) = intAddr
         /\ Tail(<<intAddr, wrData>>) = <<wrData>>
         /\ Head(<<intAddr>>) = intAddr /\ Tail(<<intAddr>>) = <<>>
         /\ Head(<<wrData>>) = wrData /\ Tail(<<wrData>>) = <<>>
         /\ <<intAddr, wrData>> # <<>> /\ <<intAddr>> # <<>> /\ <<wrData>> # <<>>
  BY TailOfTuple DEF TypeOK, SeqTyped

LEMMA Moves ==
  /\ AfterCommand("IDLE", StartWr) = "ADDRESS"
  /\ AfterCommand("IDLE", Wr) = "ADDRESS"
  /\ AfterCommand("ACTIVE_WRITE", StartRd) = "ADDRESS"
  /\ AfterCommand("ACTIVE_READ", Rd) = "READ"
  /\ AfterCommand("ACTIVE_WRITE", StopBus) = "STOP"
  /\ AfterCommand("ACTIVE_READ", StopBus) = "STOP"
  /\ IsTransfer(StartWr) /\ IsTransfer(Wr) /\ IsTransfer(StartRd)
  /\ IsTransfer(Rd) /\ ~IsTransfer(StopBus)
  /\ "READ" \notin StartWr /\ "READ" \notin Wr /\ "READ" \in StartRd
  /\ "READ" \in Rd
  BY DEF AfterCommand, IsTransfer, IsStop, StartWr, Wr, StartRd, Rd, StopBus

LEMMA WritesMove ==
  ASSUME TypeOK, Writes, BusNext
  PROVE  Writes' \/ (HasWritten' /\ Stored')
<1>1. ~MasterAccept /\ ~ByteRead /\ ~StopSent
  BY DEF Writes, Bus, MasterAccept, Window, BusBusy, InPhase, ByteRead, StopSent
<1>2. CASE AddressSent
  BY <1>2 DEF AddressSent, Acknowledge, Writes, Bus, Codec, fifoVars, seqVars
<1>3. CASE TakeByte
  <2>1. /\ mState = "WRITE_1" /\ mState' = "WRITE_2" /\ mByte' = Head(wrFifo)
        /\ wrFifo' = Tail(wrFifo)
        /\ UNCHANGED <<cmdFifo, nackSeen, cMode, cPtr, cRegs, intAddr, wrData>>
    BY <1>3 DEF TakeByte, seqVars, codecVars
  <2>2. CASE Bus("WRITE_1", <<StopBus>>, <<intAddr, wrData>>) /\ Codec("pointer")
    <3>1. wrFifo' = <<wrData>> /\ mByte' = intAddr
      BY <2>1, <2>2, Cmds, Bytes DEF Bus
    <3>2. QED
      BY <2>1, <2>2, <3>1 DEF Bus, Codec, Writes
  <2>3. CASE Bus("WRITE_1", <<StopBus>>, <<wrData>>) /\ Codec("data") /\ PtrIfData
    <3>1. wrFifo' = <<>> /\ mByte' = wrData
      BY <2>1, <2>3, Cmds, Bytes DEF Bus
    <3>2. QED
      BY <2>1, <2>3, <3>1 DEF Bus, Codec, Writes, PtrIfData
  <2>4. QED
    BY <2>1, <2>2, <2>3 DEF Writes, Bus
<1>4. CASE ByteWritten
  <2>1. PICK ack \in IF cMode = "none" THEN {FALSE} ELSE CodecAcks :
          /\ Acknowledge(ack)
          /\ IF ack THEN CodecTakes(mByte)
                    ELSE cMode' = "none" /\ UNCHANGED <<cRegs, cPtr>>
    BY <1>4 DEF ByteWritten
  <2>2. /\ mState = "WRITE_2"
        /\ mState' = (IF wrFifo # <<>> THEN "WRITE_1" ELSE "ACTIVE_WRITE")
        /\ nackSeen' = (nackSeen \/ ~ack)
        /\ UNCHANGED <<cmdFifo, wrFifo, intAddr, wrData>>
    BY <1>4, <2>1 DEF ByteWritten, seqVars, fifoVars, Acknowledge
  <2>3. CASE /\ Bus("WRITE_2", <<StopBus>>, <<wrData>>) /\ mByte = intAddr
             /\ Codec("pointer")
    <3>1. ack => cMode' = "data" /\ cPtr' = intAddr
      BY <2>1, <2>3 DEF Codec, CodecTakes
    <3>2. mState' = "WRITE_1"
      BY <2>2, <2>3, Cmds, Bytes DEF Bus
    <3>3. QED
      BY <2>1, <2>2, <2>3, <3>1, <3>2 DEF Bus, Codec, Writes, PtrIfData
  <2>4. CASE /\ Bus("WRITE_2", <<StopBus>>, <<>>) /\ mByte = wrData
             /\ Codec("data") /\ PtrIfData
    <3>1. ack => cRegs' = [cRegs EXCEPT ![intAddr \div 2] = [hi |-> intAddr % 2, lo |-> wrData]]
      BY <2>1, <2>4 DEF Codec, CodecTakes, PtrIfData
    <3>2. intAddr \div 2 \in DOMAIN cRegs
      BY ByteRange DEF TypeOK, SeqTyped, CodecTyped
    <3>3. Stored'
      BY <2>2, <3>1, <3>2 DEF Stored, Target, Written
    <3>4. QED
      BY <2>2, <2>4, <3>3 DEF Bus, HasWritten
  <2>5. QED
    BY <2>2, <2>3, <2>4 DEF Writes, Bus
<1>5. QED
  BY <1>1, <1>2, <1>3, <1>4 DEF BusNext

LEMMA HasWrittenStays ==
  ASSUME TypeOK, HasWritten, BusNext
  PROVE  HasWritten' /\ UNCHANGED <<cRegs, nackSeen, intAddr, wrData>>
<1>1. ~AddressSent /\ ~TakeByte /\ ~ByteWritten /\ ~ByteRead
  BY DEF HasWritten, Bus, AddressSent, TakeByte, ByteWritten, ByteRead
<1>2. CASE MasterAccept
  BY <1>2, Cmds, Moves DEF MasterAccept, Window, HasWritten, Bus, seqVars, codecVars
<1>3. CASE StopSent
  BY <1>3 DEF StopSent, HasWritten, Bus, fifoVars, seqVars
<1>4. QED
  BY <1>1, <1>2, <1>3 DEF BusNext

LEMMA ReadsTwoMove ==
  ASSUME TypeOK, ReadsTwo, BusNext
  PROVE  /\ UNCHANGED <<cRegs, intAddr, wrData, rdFifo>>
         /\ \/ ReadsTwo' /\ mOut' = mOut
            \/ ReadsOne' /\ mOut = <<>> /\ mState = "READ" /\ Len(mOut') = 1
               /\ (cMode = "lo" => mOut' = <<cRegs[cPtr \div 2].lo>>)
<1>1. ~StopSent
  BY DEF ReadsTwo, Bus, StopSent
<1>2. CASE MasterAccept
  <2>1. Bus("ACTIVE_WRITE", <<StartRd, Rd, StopBus>>, <<>>) /\ PtrIfAcked
    BY <1>2 DEF MasterAccept, Window, BusBusy, InPhase, ReadsTwo, Bus
  <2>2. Head(cmdFifo) = StartRd /\ cmdFifo' = <<Rd, StopBus>>
    BY <1>2, <2>1, Cmds, Bytes DEF MasterAccept, Bus
  <2>3. mState' = "ADDRESS" /\ mRead'
    BY <1>2, <2>1, <2>2, Moves DEF MasterAccept, Bus
  <2>4. QED
    BY <1>2, <2>1, <2>2, <2>3
    DEF MasterAccept, ReadsTwo, Bus, seqVars, codecVars, PtrIfAcked
<1>3. CASE AddressSent
  BY <1>3
  DEF AddressSent, Acknowledge, ReadsTwo, Bus, Codec, PtrIfAcked, fifoVars,
      seqVars
<1>4. CASE TakeByte
  BY <1>4, Cmds, Bytes
  DEF TakeByte, ReadsTwo, Bus, Codec, PtrIfAcked, seqVars, codecVars
<1>5. CASE ByteWritten
  BY <1>5, Cmds, Bytes
  DEF ByteWritten, Acknowledge, CodecTakes, ReadsTwo, Bus, Codec, PtrIfAcked,
      seqVars, codecVars, fifoVars
<1>6. CASE ByteRead
  BY <1>6, Cmds, Bytes
  DEF ByteRead, ReadsTwo, ReadsOne, Bus, Codec, PtrIfAcked, fifoVars, seqVars
<1>7. QED
  BY <1>1, <1>2, <1>3, <1>4, <1>5, <1>6 DEF BusNext

LEMMA ReadsOneMove ==
  ASSUME TypeOK, ReadsOne, BusNext
  PROVE  /\ UNCHANGED <<cRegs, intAddr, wrData, rdFifo>>
         /\ \/ ReadsOne' /\ mOut' = mOut
            \/ HasRead' /\ mOut = <<>> /\ Len(mOut') = 1
               /\ (cMode = "hi" => mOut' = <<cRegs[cPtr \div 2].hi>>)
<1>1. ~StopSent /\ ~AddressSent /\ ~TakeByte /\ ~ByteWritten
  BY DEF ReadsOne, Bus, StopSent, AddressSent, TakeByte, ByteWritten
<1>2. CASE MasterAccept
  <2>1. Bus("ACTIVE_READ", <<Rd, StopBus>>, <<>>) /\ Codec("hi") /\ PtrIfAcked
    BY <1>2 DEF MasterAccept, Window, BusBusy, InPhase, ReadsOne, Bus
  <2>2. Head(cmdFifo) = Rd /\ cmdFifo' = <<StopBus>>
    BY <1>2, <2>1, Cmds, Bytes DEF MasterAccept, Bus
  <2>3. mState' = "READ"
    BY <1>2, <2>1, <2>2, Moves DEF MasterAccept, Bus
  <2>4. QED
    BY <1>2, <2>1, <2>2, <2>3
    DEF MasterAccept, ReadsOne, Bus, Codec, seqVars, codecVars, PtrIfAcked
<1>6. CASE ByteRead
  BY <1>6, Cmds, Bytes
  DEF ByteRead, ReadsOne, HasRead, Bus, Codec, PtrIfAcked, fifoVars, seqVars
<1>7. QED
  BY <1>1, <1>2, <1>6 DEF BusNext

LEMMA HasReadStays ==
  ASSUME TypeOK, HasRead, BusNext
  PROVE  HasRead' /\ UNCHANGED <<cRegs, nackSeen, intAddr, wrData, rdFifo, mOut>>
<1>1. ~AddressSent /\ ~TakeByte /\ ~ByteWritten /\ ~ByteRead
  BY DEF HasRead, Bus, AddressSent, TakeByte, ByteWritten, ByteRead
<1>2. CASE MasterAccept
  BY <1>2, Cmds, Moves DEF MasterAccept, Window, HasRead, Bus, seqVars, codecVars
<1>3. CASE StopSent
  BY <1>3 DEF StopSent, HasRead, Bus, fifoVars, seqVars
<1>4. QED
  BY <1>1, <1>2, <1>3 DEF BusNext

\* nothing but the address begins
LEMMA SentStays ==
  ASSUME TypeOK, NEW bytes, NEW cmds, Sent(bytes, cmds), BusNext, state # "IDLE",
         cmds # <<>> => Head(cmds) \in {StartWr, Wr}
  PROVE  /\ Sent(bytes, cmds)'
         /\ UNCHANGED <<seqVars, wbVars, rdFifo, mOut, codecVars, nackSeen>>
<1>1. ~AddressSent /\ ~TakeByte /\ ~ByteWritten /\ ~ByteRead /\ ~StopSent
  BY DEF Sent, Bus, AddressSent, TakeByte, ByteWritten, ByteRead, StopSent,
     BusPhaseOver
<1>2. CASE MasterAccept
  <2>1. mState = "IDLE" /\ cmdFifo = cmds /\ cmds # <<>> /\ wrFifo = bytes
    BY <1>2 DEF MasterAccept, Window, BusBusy, InPhase, Sent, Bus
  <2>2. mState' = "ADDRESS" /\ ~mRead' /\ ~polled' /\ cmdFifo' = Tail(cmds)
    BY <1>2, <2>1, Moves DEF MasterAccept, InPhase
  <2>3. QED
    BY <1>2, <2>1, <2>2 DEF MasterAccept, Sent, Bus, codecVars
<1>3. QED
  BY <1>1, <1>2 DEF BusNext
-----------------------------------------------------------------------------
(* Steps of the sequencer and requests *)

LEMMA SameBus ==
  ASSUME UNCHANGED <<cmdFifo, wrFifo, mState, mRead, mByte, codecVars, intAddr,
                     wrData,
                     nackSeen>>
  PROVE  /\ Writes' <=> Writes
         /\ HasWritten' <=> HasWritten
         /\ Stored' <=> Stored
         /\ ReadsTwo' <=> ReadsTwo
         /\ ReadsOne' <=> ReadsOne
         /\ HasRead' <=> HasRead
<1>1. Writes' <=> Writes
  BY DEF Writes, Bus, Codec, PtrIfData, codecVars
<1>2. (HasWritten' <=> HasWritten) /\ (Stored' <=> Stored)
  BY DEF HasWritten, Stored, Target, Written, Bus, codecVars
<1>3. (ReadsTwo' <=> ReadsTwo)
  BY DEF ReadsTwo, Bus, Codec, PtrIfAcked, codecVars
<1>4. (ReadsOne' <=> ReadsOne) /\ (HasRead' <=> HasRead)
  BY DEF ReadsOne, HasRead, Bus, Codec, PtrIfAcked, codecVars
<1>5. QED
  BY <1>1, <1>2, <1>3, <1>4

LEMMA SameSent ==
  ASSUME UNCHANGED <<cmdFifo, wrFifo, mState, mRead, cMode, polled, intAddr,
                     wrData>>
  PROVE  /\ Sent(<<>>, <<>>)' <=> Sent(<<>>, <<>>)
         /\ Sent(<<intAddr>>, <<>>)' <=> Sent(<<intAddr>>, <<>>)
         /\ Sent(<<intAddr, wrData>>, <<>>)' <=> Sent(<<intAddr, wrData>>, <<>>)
         /\ Sent(<<intAddr, wrData>>, <<StartWr>>)' <=> Sent(<<intAddr, wrData>>, <<StartWr>>)
         /\ Sent(<<intAddr, wrData>>, WrCmds)' <=> Sent(<<intAddr, wrData>>, WrCmds)
         /\ Sent(<<intAddr>>, <<Wr>>)' <=> Sent(<<intAddr>>, <<Wr>>)
         /\ Sent(<<intAddr>>, <<Wr, StartRd>>)' <=> Sent(<<intAddr>>, <<Wr, StartRd>>)
         /\ Sent(<<intAddr>>, <<Wr, StartRd, Rd>>)' <=> Sent(<<intAddr>>, <<Wr, StartRd, Rd>>)
         /\ Sent(<<intAddr>>, RdCmds)' <=> Sent(<<intAddr>>, RdCmds)
  BY DEF Sent, Bus, WrCmds, RdCmds

LEMMA SameToCome ==
  ASSUME UNCHANGED <<isRd, rd1Rcvd, rdFifo, mOut>>, DataAck' <=> DataAck,
         state = "IDLE" <=> state' = "IDLE"
  PROVE  /\ ToCome(0)' <=> ToCome(0)
         /\ ToCome(1)' <=> ToCome(1)
         /\ ToCome(2)' <=> ToCome(2)
  BY DEF ToCome, Taken, DataAck

\* Only a waiting sequencer has an access.
LEMMA Access ==
  ASSUME TypeOK, ReadInv
  PROVE  /\ state \notin {"WAIT_FOR_RD_ACK"} => ~DataAck /\ wbReq.op \notin {"read", "ack"}
         /\ state # "WAIT_FOR_ACK" => wbReq.op # "write"
  BY DEF ReadInv, WaitsForAccess, DataAck

LEMMA SameReads ==
  ASSUME UNCHANGED <<cmdFifo, wrFifo, mState, mRead, mByte, codecVars, intAddr,
                     wrData,
                     nackSeen>>,
         UNCHANGED <<isRd, rd1Rcvd, rdFifo, mOut>>, DataAck' <=> DataAck,
         state = "IDLE" <=> state' = "IDLE"
  PROVE  Reads' <=> Reads
  BY SameBus, SameToCome DEF Reads

\* A sequencer step leaves all that the invariant says of the bus alone.
SeqOnly == /\ UNCHANGED <<fifoVars, masterVars, codecVars, histVars>>
           /\ UNCHANGED <<isRd, rd1Rcvd, intAddr, wrData>>

LEMMA SeqStepIsSeqOnly ==
  ASSUME TypeOK, ReadInv, SeqNext, state # "IDLE"
  PROVE  SeqOnly /\ ~DataAck /\ ~DataAck' /\ wbReq.op # "ack" /\ wbReq'.op # "ack"
<1>1. ~IdleTick
  BY DEF IdleTick
<1>2. state # "WAIT_FOR_RD_ACK"
  BY DEF SeqNext, WriteDevAddr, WriteIntAddr, WriteData, WriteWbCmd, WrStopCmd,
     PollBusy, BusyRose, BusyFell, GetRdSts, GetDataRd, ReadWbReg, IdleTick
<1>22. ~DataAck /\ wbReq.op # "ack"
  BY <1>2, Access
<1>3. SeqOnly
  BY <1>1
  DEF SeqNext, WriteDevAddr, WriteIntAddr, WriteData, WriteWbCmd, WrStopCmd,
      PollBusy, BusyRose, BusyFell, GetRdSts, GetDataRd, ReadWbReg, SeqOnly,
      fifoVars, masterVars, codecVars, histVars
<1>4. wbReq'.op # "ack"
  BY <1>1, <1>22
  DEF SeqNext, WriteDevAddr, WriteIntAddr, WriteData, WriteWbCmd, WrStopCmd,
      PollBusy, BusyRose, BusyFell, GetRdSts, GetDataRd, ReadWbReg, IssueWrite,
      WriteByte, WriteCommand, ReadRegister, wbVars
<1>5. QED
  BY <1>22, <1>3, <1>4 DEF DataAck

LEMMA SeqOnlyKeeps ==
  ASSUME SeqOnly
  PROVE  /\ UNCHANGED <<cmdFifo, wrFifo, mState, mRead, mByte, codecVars,
                        intAddr, wrData,
                     nackSeen>>
         /\ UNCHANGED <<cmdFifo, wrFifo, mState, mRead, cMode, polled, intAddr,
                        wrData>>
         /\ UNCHANGED <<isRd, rd1Rcvd, rdFifo, mOut>>
  BY DEF SeqOnly, fifoVars, masterVars, codecVars, histVars

LEMMA SeqInWrite ==
  ASSUME TypeOK, ReadInv, BusInv, SeqNext, state # "IDLE", ~isRd
  PROVE  BusInv'
<1>1. InWrite /\ ToCome(0)
  BY DEF BusInv
<1>2. /\ SeqOnly /\ ~DataAck /\ ~DataAck' /\ wbReq'.op # "ack" /\ ~isRd'
      /\ wbReq.op # "ack"
  BY SeqStepIsSeqOnly DEF SeqOnly
<1>3. /\ Writes' <=> Writes
      /\ HasWritten' <=> HasWritten
      /\ Stored' <=> Stored
  BY <1>2, SeqOnlyKeeps, SameBus
<1>4. /\ Sent(<<>>, <<>>)' <=> Sent(<<>>, <<>>)
      /\ Sent(<<intAddr>>, <<>>)' <=> Sent(<<intAddr>>, <<>>)
      /\ Sent(<<intAddr, wrData>>, <<>>)' <=> Sent(<<intAddr, wrData>>, <<>>)
      /\ Sent(<<intAddr, wrData>>, <<StartWr>>)' <=> Sent(<<intAddr, wrData>>, <<StartWr>>)
      /\ Sent(<<intAddr, wrData>>, WrCmds)' <=> Sent(<<intAddr, wrData>>, WrCmds)
  BY <1>2, SeqOnlyKeeps, SameSent
<1>5. ToCome(0)'
  BY <1>1, <1>2, SeqOnlyKeeps DEF ToCome, Taken
<1>6. SUFFICES state' # "IDLE" => InWrite'
  <2>1. state' = "IDLE" => HasWritten /\ Stored
    <3>1. state' = "IDLE" => BusyFell
      BY <1>1, <1>2
      DEF SeqNext, WriteDevAddr, WriteIntAddr, WriteData, WriteWbCmd, WrStopCmd,
          PollBusy, BusyRose, BusyFell, GetRdSts, GetDataRd, ReadWbReg,
          IssueWrite, IdleTick, InWrite, Fresh, SendsWrite, Polls, Waits
    <3>2. BusyFell => HasWritten /\ Stored
      BY <1>1
      DEF BusyFell, TransferDone, InWrite, Fresh, SendsWrite, Polls, Waits,
          BusySeen, DoneSeen
    <3>3. QED
      BY <3>1, <3>2
  <2>2. QED
    BY <1>2, <1>3, <1>5, <2>1 DEF BusInv
<1>10. CASE WriteDevAddr
  BY <1>10, <1>1, <1>2, <1>3, <1>4
  DEF WriteDevAddr, IssueWrite, InWrite, Fresh, SendsWrite, Polls, Waits
<1>11. CASE WriteIntAddr
  BY <1>11, <1>1, <1>2, <1>3, <1>4
  DEF WriteIntAddr, AfterIntAddr, IssueWrite, InWrite, Fresh, SendsWrite, Polls,
      Waits
<1>12. CASE WriteData
  BY <1>12, <1>1, <1>2, <1>3, <1>4
  DEF WriteData, IssueWrite, InWrite, Fresh, SendsWrite, Polls, Waits
<1>13. CASE WriteWbCmd
  BY <1>13, <1>1, <1>2, <1>3, <1>4
  DEF WriteWbCmd, CommandToSend, AfterWbCmd, StartWr, NoStatus, Fresh, IssueWrite,
      InWrite, Fresh, SendsWrite, Polls, Waits
<1>14. CASE WrStopCmd
  BY <1>14, <1>1, <1>2, <1>3, <1>4
  DEF WrStopCmd, StopBus, IssueWrite, InWrite, Fresh, SendsWrite, Polls, Waits
<1>15. CASE PollBusy \/ BusyRose
  BY <1>15, <1>1, <1>2, <1>3, <1>4
  DEF PollBusy, BusyRose, InWrite, Fresh, SendsWrite, Polls, Waits, BusySeen,
      DoneSeen, wbVars
<1>16. CASE BusyFell
  BY <1>16, <1>2 DEF BusyFell
<1>17. CASE GetRdSts \/ GetDataRd
  BY <1>17, <1>1 DEF GetRdSts, GetDataRd, InWrite, Fresh, SendsWrite, Polls, Waits
<1>18. CASE ReadWbReg
  BY <1>18, <1>1, <1>2, <1>3, <1>4
  DEF ReadWbReg, ReadRegister, InWrite, Fresh, SendsWrite, Polls, Waits, BusySeen,
      DoneSeen
<1>19. QED
  BY <1>10, <1>11, <1>12, <1>13, <1>14, <1>15, <1>16, <1>17, <1>18
  DEF SeqNext, IdleTick

LEMMA SeqInRead ==
  ASSUME TypeOK, ReadInv, BusInv, SeqNext, state # "IDLE", isRd
  PROVE  BusInv'
<1>1. InRead
  BY DEF BusInv
<1>2. /\ SeqOnly /\ ~DataAck /\ ~DataAck' /\ wbReq'.op # "ack" /\ isRd'
      /\ wbReq.op # "ack"
  BY SeqStepIsSeqOnly DEF SeqOnly
<1>3. /\ ReadsTwo' <=> ReadsTwo
      /\ ReadsOne' <=> ReadsOne
      /\ HasRead' <=> HasRead
  BY <1>2, SeqOnlyKeeps, SameBus
<1>4. /\ Sent(<<>>, <<>>)' <=> Sent(<<>>, <<>>)
      /\ Sent(<<intAddr>>, <<>>)' <=> Sent(<<intAddr>>, <<>>)
      /\ Sent(<<intAddr>>, <<Wr>>)' <=> Sent(<<intAddr>>, <<Wr>>)
      /\ Sent(<<intAddr>>, <<Wr, StartRd>>)' <=> Sent(<<intAddr>>, <<Wr, StartRd>>)
      /\ Sent(<<intAddr>>, <<Wr, StartRd, Rd>>)' <=> Sent(<<intAddr>>, <<Wr, StartRd, Rd>>)
      /\ Sent(<<intAddr>>, RdCmds)' <=> Sent(<<intAddr>>, RdCmds)
  BY <1>2, SeqOnlyKeeps, SameSent
<1>5. rd1Rcvd' = rd1Rcvd
  BY <1>2 DEF SeqOnly
<1>6. state' # "IDLE" => (Reads' <=> Reads) /\ (ToCome(2)' <=> ToCome(2))
  BY <1>2, SeqOnlyKeeps, SameReads, SameToCome
<1>7. state' = "IDLE" => GetRdSts
  BY <1>1, <1>2
  DEF SeqNext, WriteDevAddr, WriteIntAddr, WriteData, WriteWbCmd, WrStopCmd,
      PollBusy, BusyRose, BusyFell, GetRdSts, GetDataRd, ReadWbReg, IssueWrite,
      IdleTick, InRead, Fresh, SendsRead, Polls, Waits
<1>10. CASE WriteDevAddr
  BY <1>10, <1>1, <1>2, <1>4, <1>5, <1>6, <1>7
  DEF WriteDevAddr, IssueWrite, BusInv, InRead, Fresh, SendsRead, Polls, Fetches,
      Waits
<1>11. CASE WriteIntAddr
  BY <1>11, <1>1, <1>2, <1>4, <1>5, <1>6, <1>7
  DEF WriteIntAddr, AfterIntAddr, IssueWrite, BusInv, InRead, Fresh, SendsRead,
      Polls, Fetches, Waits
<1>12. ~WriteData
  BY <1>1 DEF WriteData, InRead, Fresh, SendsRead, Polls, Fetches, Waits
<1>13. CASE WriteWbCmd
  BY <1>13, <1>1, <1>2, <1>4, <1>5, <1>6, <1>7
  DEF WriteWbCmd, NoStatus, Fresh, CommandToSend, AfterWbCmd, Wr, StartRd, Rd,
      IssueWrite, BusInv, InRead, Fresh, SendsRead, Polls, Fetches, Waits
<1>14. CASE WrStopCmd
  BY <1>14, <1>1, <1>2, <1>4, <1>5, <1>6, <1>7
  DEF WrStopCmd, StopBus, IssueWrite, BusInv, InRead, Fresh, SendsRead, Polls,
      Fetches, Waits
<1>15. CASE PollBusy \/ BusyRose
  <2>1. state = "WAIT_WR_XFR_DONE" /\ state' # "IDLE"
    BY <1>15 DEF PollBusy, BusyRose
  <2>2. /\ ~rd1Rcvd
        /\ \/ Sent(<<intAddr>>, RdCmds) /\ ~BusySeen /\ ToCome(2)
           \/ Reads
    BY <1>1, <2>1 DEF InRead, Fresh, SendsRead, Polls, Fetches, Waits
  <2>3. Polls'
    BY <1>15 DEF PollBusy, BusyRose, Polls
  <2>4. ~BusySeen => ~BusySeen'
    BY <1>15, <1>2 DEF PollBusy, BusyRose, BusySeen, wbVars
  <2>5. QED
    BY <2>1, <2>2, <2>3, <2>4, <1>4, <1>5, <1>6, <1>2 DEF BusInv, InRead
<1>16. CASE BusyFell
  <2>1. state = "WAIT_WR_XFR_DONE" /\ state' = "GET_RD_STS" /\ started
    BY <1>16 DEF BusyFell, TransferDone
  <2>2. ~rd1Rcvd /\ Reads
    BY <1>1, <2>1 DEF InRead, Fresh, SendsRead, Polls, Fetches, Waits, BusySeen
  <2>3. QED
    BY <2>1, <2>2, <1>5, <1>6, <1>2 DEF BusInv, InRead, Fetches
<1>17. CASE GetRdSts
  <2>1. state = "GET_RD_STS" /\ missedAck' = missedAck
    BY <1>17 DEF GetRdSts
  <2>2. (missedAck => ~rd1Rcvd) /\ Reads
    BY <1>1, <2>1 DEF InRead, Fresh, SendsRead, Polls, Fetches, Waits
  <2>3. CASE missedAck
    <3>1. Taken = 0 /\ state' = "IDLE"
      BY <1>17, <1>2, <2>2, <2>3 DEF Taken, DataAck, GetRdSts
    <3>2. Taken' = 0
      BY <3>1 DEF Taken
    <3>3. /\ (ToCome(0)' <=> ToCome(0)) /\ (ToCome(1)' <=> ToCome(1))
          /\ (ToCome(2)' <=> ToCome(2))
      BY <1>2, SeqOnlyKeeps, <3>1, <3>2 DEF ToCome
    <3>4. QED
      BY <1>2, <1>3, <2>2, <3>1, <3>3 DEF Reads, BusInv
  <2>4. CASE ~missedAck
    BY <1>17, <1>2, <1>6, <2>1, <2>2, <2>4 DEF GetRdSts, BusInv, InRead, Fetches
  <2>5. QED
    BY <2>3, <2>4
<1>18. CASE GetDataRd
  <2>1. state = "GET_DATA_RD" /\ missedAck' = missedAck
    BY <1>18 DEF GetDataRd
  <2>2. ~missedAck /\ Reads
    BY <1>1, <2>1 DEF InRead, Fresh, SendsRead, Polls, Fetches, Waits
  <2>3. QED
    BY <1>18, <1>2, <1>5, <1>6, <2>1, <2>2
    DEF GetDataRd, AfterData, BusInv, InRead, Fetches
<1>19. CASE ReadWbReg
  <2>1. /\ state = "READ_WB_REG" /\ state' = "WAIT_FOR_RD_ACK"
        /\ UNCHANGED <<missedAck, afterAck, nextAddr, started, dataIn, wbStatus>>
    BY <1>19 DEF ReadWbReg
  <2>2. CASE Polls
    <3>1. ~BusySeen => ~BusySeen'
      BY <2>1, <1>2 DEF BusySeen
    <3>2. Polls'
      BY <2>1, <2>2 DEF Polls
    <3>3. /\ ~rd1Rcvd
          /\ \/ Sent(<<intAddr>>, RdCmds) /\ ~BusySeen /\ ToCome(2)
             \/ Reads
      BY <1>1, <2>1, <2>2, <1>2, Access
      DEF InRead, Fresh, SendsRead, Polls, Fetches, Waits, AfterData
    <3>4. QED
      BY <1>2, <1>4, <1>5, <1>6, <2>1, <3>1, <3>2, <3>3 DEF BusInv, InRead
  <2>3. CASE Fetches /\ Reads
    <3>1. Fetches'
      BY <2>1, <2>3, <1>5 DEF Fetches, AfterData
    <3>2. QED
      BY <1>2, <1>6, <2>1, <2>3, <3>1 DEF BusInv, InRead
  <2>4. QED
    BY <1>1, <2>1, <2>2, <2>3 DEF InRead, Fresh, SendsRead, Waits
<1>20. QED
  BY <1>10, <1>11, <1>12, <1>13, <1>14, <1>15, <1>16, <1>17, <1>18, <1>19
  DEF SeqNext, IdleTick

\* Paced: the bus is quiet.
LEMMA RequestBusInv ==
  ASSUME TypeOK, ReadInv, BusInv, Request, Paced
  PROVE  BusInv'
<1>1. PICK rd \in BOOLEAN, wr \in BOOLEAN, r \in Regs, v \in Values : TakeRequest(rd, wr, r, v)
  BY DEF Request
<1>2. /\ state = "IDLE" /\ BusStopped /\ state' = "WRITE_DEV_ADDR"
      /\ UNCHANGED <<wbVars, fifoVars, masterVars, codecVars>>
      /\ isRd' = rd /\ ~intSent' /\ ~rd1Sent' /\ (rd => ~rd1Rcvd')
  BY <1>1 DEF TakeRequest
<1>3. /\ mState = "IDLE" /\ cmdFifo = <<>> /\ wrFifo = <<>> /\ cMode = "none"
      /\ ToCome(0)
  BY <1>2, Cmds
  DEF BusInv, BusStopped, HasWritten, Reads, ReadsTwo, ReadsOne, HasRead, Bus
<1>4. Sent(<<>>, <<>>)'
  BY <1>2, <1>3 DEF Sent, Bus, fifoVars, masterVars, codecVars
<1>5. wbReq.op # "ack"
  BY <1>2, Access
<1>6. Taken = 0 /\ Taken' = 0
  BY <1>2, <1>5 DEF Taken, wbVars
<1>7. (Len(rdFifo) + Len(mOut)) % 2 = 0 /\ Len(rdFifo) \in Nat /\ Len(mOut) \in Nat
  BY <1>3, <1>6 DEF ToCome, TypeOK, FifosTyped, MasterTyped
<1>8. ToCome(0)' /\ ToCome(2)'
  BY <1>2, <1>6, <1>7 DEF ToCome, fifoVars, masterVars
<1>9. QED
  BY <1>2, <1>4, <1>8 DEF BusInv, InWrite, InRead, Fresh, SendsWrite, SendsRead

LEMMA IdleBusInv ==
  ASSUME TypeOK, ReadInv, BusInv, IdleTick
  PROVE  BusInv'
<1>1. /\ state = "IDLE" /\ state' = "IDLE" /\ ~busy'
      /\ UNCHANGED <<fifoVars, masterVars, codecVars, histVars, intAddr, wrData>>
  BY DEF IdleTick
<1>2. /\ (ToCome(0)' <=> ToCome(0)) /\ (ToCome(1)' <=> ToCome(1))
      /\ (ToCome(2)' <=> ToCome(2))
  BY <1>1 DEF ToCome, Taken, fifoVars, masterVars
<1>3. /\ HasWritten' <=> HasWritten
      /\ ReadsTwo' <=> ReadsTwo
      /\ ReadsOne' <=> ReadsOne
      /\ HasRead' <=> HasRead
  BY <1>1, SameBus DEF fifoVars, masterVars, histVars
<1>4. QED
  BY <1>1, <1>2, <1>3 DEF BusInv, Reads
-----------------------------------------------------------------------------
(* Wishbone accesses *)

\* A command goes into the FIFO, before or after the master has taken the first one.
LEMMA SentCommand ==
  ASSUME TypeOK, NEW bytes, NEW cmds \in Seq(Command), NEW c \in Command, Sent(bytes, cmds),
         cmdFifo' = Append(cmdFifo, c),
         UNCHANGED <<wrFifo, mState, mRead, cMode, polled>>
  PROVE  /\ cMode' = "none"
         /\ \/ mState' = "IDLE" /\ cmdFifo' = Append(cmds, c) /\ wrFifo' = bytes
            \/ /\ Append(cmds, c) # <<>> /\ mState' = "ADDRESS"
               /\ cmdFifo' = Tail(Append(cmds, c)) /\ wrFifo' = bytes /\ ~mRead'
               /\ ~polled'
<1>1. CASE mState = "IDLE"
  BY <1>1 DEF Sent, Bus
<1>2. CASE mState # "IDLE"
  <2>1. /\ cmds # <<>> /\ mState = "ADDRESS" /\ cmdFifo = Tail(cmds)
        /\ wrFifo = bytes /\ ~mRead /\ ~polled /\ cMode = "none"
    BY <1>2 DEF Sent, Bus
  <2>2. Append(Tail(cmds), c) = Tail(Append(cmds, c)) /\ Append(cmds, c) # <<>>
    BY <2>1
  <2>3. QED
    BY <2>1, <2>2
<1>3. QED
  BY <1>1, <1>2

LEMMA AppendFacts ==
  ASSUME TypeOK
  PROVE  /\ StartWr \in Command /\ Wr \in Command /\ StartRd \in Command
         /\ Rd \in Command /\ StopBus \in Command
         /\ Append(<<>>, StartWr) = <<StartWr>>
         /\ Append(<<StartWr>>, StopBus) = <<StartWr, StopBus>>
         /\ Append(<<>>, Wr) = <<Wr>> /\ Append(<<Wr>>, StartRd) = <<Wr, StartRd>>
         /\ Append(<<Wr, StartRd>>, Rd) = <<Wr, StartRd, Rd>>
         /\ Append(<<Wr, StartRd, Rd>>, StopBus) = <<Wr, StartRd, Rd, StopBus>>
         /\ <<>> \in Seq(Command) /\ <<StartWr>> \in Seq(Command)
         /\ <<Wr>> \in Seq(Command)
         /\ <<Wr, StartRd>> \in Seq(Command) /\ <<Wr, StartRd, Rd>> \in Seq(Command)
         /\ Append(<<>>, intAddr) = <<intAddr>>
         /\ Append(<<intAddr>>, wrData) = <<intAddr, wrData>>
<1>1. /\ StartWr \in Command /\ Wr \in Command /\ StartRd \in Command
      /\ Rd \in Command /\ StopBus \in Command
  BY DEF StartWr, Wr, StartRd, Rd, StopBus, Command
<1>2. /\ Append(<<>>, StartWr) = <<StartWr>>
      /\ Append(<<StartWr>>, StopBus) = <<StartWr, StopBus>>
  <2>1. Append(<<>>, StartWr) = <<StartWr>>
    BY <1>1, Append1
  <2>2. Append(<<StartWr>>, StopBus) = <<StartWr, StopBus>>
    BY <1>1, Append2
  <2>3. QED
    BY <2>1, <2>2
<1>22. /\ Append(<<>>, Wr) = <<Wr>> /\ Append(<<Wr>>, StartRd) = <<Wr, StartRd>>
       /\ Append(<<Wr, StartRd>>, Rd) = <<Wr, StartRd, Rd>>
       /\ Append(<<Wr, StartRd, Rd>>, StopBus) = <<Wr, StartRd, Rd, StopBus>>
  <2>1. Append(<<>>, Wr) = <<Wr>>
    BY <1>1, Append1
  <2>2. Append(<<Wr>>, StartRd) = <<Wr, StartRd>>
    BY <1>1, Append2
  <2>3. Append(<<Wr, StartRd>>, Rd) = <<Wr, StartRd, Rd>>
    BY <1>1, Append3
  <2>4. Append(<<Wr, StartRd, Rd>>, StopBus) = <<Wr, StartRd, Rd, StopBus>>
    BY <1>1, Append4
  <2>5. QED
    BY <2>1, <2>2, <2>3, <2>4
<1>3. /\ <<>> \in Seq(Command) /\ <<StartWr>> \in Seq(Command)
      /\ <<Wr>> \in Seq(Command)
      /\ <<Wr, StartRd>> \in Seq(Command) /\ <<Wr, StartRd, Rd>> \in Seq(Command)
  BY <1>1
<1>4. intAddr \in Byte /\ wrData \in Byte
  BY DEF TypeOK, SeqTyped
<1>5. /\ Append(<<>>, intAddr) = <<intAddr>>
      /\ Append(<<intAddr>>, wrData) = <<intAddr, wrData>>
  BY <1>4, Append1, Append2
<1>6. QED
  BY <1>1, <1>2, <1>22, <1>3, <1>5

\* A byte goes into the FIFO while no command has been queued.
LEMMA SentByte ==
  ASSUME NEW bytes, NEW b, Sent(bytes, <<>>), wrFifo' = Append(wrFifo, b),
         UNCHANGED <<cmdFifo, mState, cMode>>
  PROVE  /\ mState' = "IDLE" /\ cmdFifo' = <<>> /\ wrFifo' = Append(bytes, b)
         /\ cMode' = "none"
  BY DEF Sent, Bus

LEMMA WbWriteBusInv ==
  ASSUME TypeOK, ReadInv, BusInv, WbWrite
  PROVE  BusInv'
<1>1. /\ state = "WAIT_FOR_ACK" /\ state' = afterAck /\ wbReq'.op = "none"
      /\ wbReq.op # "ack"
      /\ UNCHANGED <<isRd, rd1Rcvd, intSent, rd1Sent, intAddr, wrData, rdFifo,
                     mOut, mState, mRead, mByte, codecVars, polled, nackSeen,
                     started, dataIn>>
      /\ cmdFifo' = IF wbReq.addr = "CMD" THEN Append(cmdFifo, wbReq.cmd) ELSE cmdFifo
      /\ wrFifo' = IF wbReq.addr = "DATA" THEN Append(wrFifo, wbReq.byte) ELSE wrFifo
  BY DEF WbWrite, ReadInv, WaitsForAccess, NoRequest, masterVars, histVars
<1>2. /\ state' # "IDLE" => ((ToCome(0)' <=> ToCome(0)) /\ (ToCome(2)' <=> ToCome(2)))
      /\ state' # "IDLE" /\ cMode' = cMode
  BY <1>1, SameToCome DEF DataAck, ReadInv, ReturnStates, codecVars
<1>3. ~started /\ ~dataIn.busy => ~BusySeen'
  BY <1>1 DEF BusySeen
<1>31. ~isRd => SendsWrite /\ Fresh /\ ToCome(0) /\ ToCome(0)'
  BY <1>1, <1>2 DEF BusInv, InWrite, Polls
<1>32. isRd => SendsRead /\ Fresh /\ ToCome(2) /\ ToCome(2)' /\ ~rd1Rcvd
  BY <1>1, <1>2 DEF BusInv, InRead, Polls, Fetches
<1>4. CASE wbReq.addr = "ADDR"
  <2>1. UNCHANGED <<cmdFifo, wrFifo>>
    BY <1>1, <1>4
  <2>2. Sent(<<>>, <<>>)' <=> Sent(<<>>, <<>>)
    BY <1>1, <1>2, <2>1 DEF Sent, Bus
  <2>3. CASE ~isRd
    BY <1>1, <1>2, <1>31, <1>4, <2>2, <2>3
    DEF BusInv, InWrite, Fresh, SendsWrite, Waits, WriteByte, WriteCommand
  <2>4. CASE isRd
    BY <1>1, <1>2, <1>32, <1>4, <2>2, <2>4
    DEF BusInv, InRead, Fresh, SendsRead, Waits, WriteByte, WriteCommand
  <2>5. QED
    BY <2>3, <2>4
<1>5. CASE wbReq.addr = "DATA"
  <2>1. cmdFifo' = cmdFifo /\ wrFifo' = Append(wrFifo, wbReq.byte)
    BY <1>1, <1>5
  <2>2. CASE /\ Sent(<<>>, <<>>) /\ wbReq.byte = intAddr
             /\ (isRd \/ afterAck = "WRITE_DATA")
    <3>1. Sent(<<intAddr>>, <<>>)'
      BY <1>1, <1>2, <2>1, <2>2, SentByte, AppendFacts DEF Sent, Bus
    <3>2. CASE ~isRd
      BY <1>1, <1>2, <1>31, <1>5, <2>2, <3>1, <3>2
      DEF BusInv, InWrite, Fresh, SendsWrite, Waits, WriteByte, WriteCommand
    <3>3. CASE isRd
      BY <1>1, <1>2, <1>32, <1>5, <2>2, <3>1, <3>3
      DEF BusInv, InRead, Fresh, SendsRead, Waits, WriteByte, WriteCommand
    <3>4. QED
      BY <3>2, <3>3
  <2>3. CASE /\ Sent(<<intAddr>>, <<>>) /\ ~isRd /\ afterAck = "WRITE_WB_CMD"
             /\ ~intSent /\ wbReq.byte = wrData /\ ToCome(0)
    <3>1. Sent(<<intAddr, wrData>>, <<>>)'
      BY <1>1, <1>2, <2>1, <2>3, SentByte, AppendFacts DEF Sent, Bus
    <3>2. QED
      BY <1>1, <1>2, <2>3, <3>1 DEF BusInv, InWrite, Fresh, SendsWrite
  <2>4. QED
    BY <1>1, <1>5, <2>2, <2>3
    DEF BusInv, InWrite, InRead, SendsWrite, SendsRead, Polls, Fetches, Waits,
        WriteByte, WriteCommand
<1>6. CASE wbReq.addr = "CMD"
  <2>1. wrFifo' = wrFifo /\ cmdFifo' = Append(cmdFifo, wbReq.cmd)
    BY <1>1, <1>6
  <2>2. CASE ~isRd
    <3>1. CASE /\ Sent(<<intAddr, wrData>>, <<>>) /\ wbReq.cmd = StartWr
               /\ afterAck = "WR_STOP_CMD" /\ intSent
      <4>1. Sent(<<intAddr, wrData>>, <<StartWr>>)'
        BY <1>1, <1>2, <2>1, <3>1, SentCommand, AppendFacts DEF Sent, Bus
      <4>2. QED
        BY <1>1, <1>2, <2>2, <3>1, <4>1, <1>31
        DEF BusInv, InWrite, Fresh, SendsWrite
    <3>2. CASE /\ Sent(<<intAddr, wrData>>, <<StartWr>>) /\ wbReq.cmd = StopBus
               /\ afterAck = "WAIT_WR_XFR_DONE" /\ intSent
      <4>1. Sent(<<intAddr, wrData>>, WrCmds)'
        BY <1>1, <1>2, <2>1, <3>2, SentCommand, AppendFacts DEF Sent, Bus, WrCmds
      <4>2. QED
        BY <1>1, <1>2, <1>3, <2>2, <3>2, <4>1, <1>31
        DEF BusInv, InWrite, Fresh, Polls
    <3>3. QED
      BY <1>1, <1>6, <2>2, <1>31, <3>1, <3>2
      DEF BusInv, InWrite, Fresh, SendsWrite, Polls, Waits, WriteByte,
          WriteCommand
  <2>3. CASE isRd
    <3>1. CASE /\ Sent(<<intAddr>>, <<>>) /\ wbReq.cmd = Wr
               /\ afterAck = "WRITE_WB_CMD" /\ intSent /\ ~rd1Sent
      <4>1. Sent(<<intAddr>>, <<Wr>>)'
        BY <1>1, <1>2, <2>1, <3>1, SentCommand, AppendFacts DEF Sent, Bus
      <4>2. QED
        BY <1>1, <1>2, <2>3, <3>1, <4>1, <1>32 DEF BusInv, InRead, Fresh, SendsRead
    <3>2. CASE /\ Sent(<<intAddr>>, <<Wr>>) /\ wbReq.cmd = StartRd
               /\ afterAck = "WRITE_WB_CMD" /\ intSent /\ rd1Sent
      <4>1. Sent(<<intAddr>>, <<Wr, StartRd>>)'
        BY <1>1, <1>2, <2>1, <3>2, SentCommand, AppendFacts DEF Sent, Bus
      <4>2. QED
        BY <1>1, <1>2, <2>3, <3>2, <4>1, <1>32 DEF BusInv, InRead, Fresh, SendsRead
    <3>3. CASE /\ Sent(<<intAddr>>, <<Wr, StartRd>>) /\ wbReq.cmd = Rd
               /\ afterAck = "WR_STOP_CMD" /\ intSent /\ rd1Sent
      <4>1. Sent(<<intAddr>>, <<Wr, StartRd, Rd>>)'
        BY <1>1, <1>2, <2>1, <3>3, SentCommand, AppendFacts DEF Sent, Bus
      <4>2. QED
        BY <1>1, <1>2, <2>3, <3>3, <4>1, <1>32 DEF BusInv, InRead, Fresh, SendsRead
    <3>4. CASE /\ Sent(<<intAddr>>, <<Wr, StartRd, Rd>>) /\ wbReq.cmd = StopBus
               /\ afterAck = "WAIT_WR_XFR_DONE" /\ intSent
      <4>1. Sent(<<intAddr>>, RdCmds)'
        BY <1>1, <1>2, <2>1, <3>4, SentCommand, AppendFacts DEF Sent, Bus, RdCmds
      <4>2. QED
        BY <1>1, <1>2, <1>3, <2>3, <3>4, <4>1, <1>32
        DEF BusInv, InRead, Fresh, Polls
    <3>5. QED
      BY <1>1, <1>6, <2>3, <1>32, <3>1, <3>2, <3>3, <3>4
      DEF BusInv, InRead, Fresh, SendsRead, Polls, Fetches, Waits, WriteByte,
          WriteCommand
  <2>4. QED
    BY <2>2, <2>3
<1>7. wbReq.addr \in {"ADDR", "DATA", "CMD"}
  BY <1>1
  DEF BusInv, InWrite, InRead, SendsWrite, SendsRead, Polls, Fetches, Waits,
      WriteByte, WriteCommand
<1>8. QED
  BY <1>4, <1>5, <1>6, <1>7

\* A byte taken out of the FIFO and not yet in the sequencer's register counts as taken.
LEMMA TakenCounts ==
  ASSUME TypeOK, TypeOK', UNCHANGED <<isRd, rd1Rcvd, mOut>>, state' = state,
         state # "IDLE", isRd, ~DataAck, DataAck', rdFifo # <<>>, rdFifo' = Tail(rdFifo)
  PROVE  \A n \in {0, 1, 2} : ToCome(n)' <=> ToCome(n)
<1>1. Taken' = Taken + 1 /\ Taken \in Nat
  BY DEF Taken, DataAck
<1>2. Len(rdFifo') = Len(rdFifo) - 1 /\ Len(rdFifo) \in Nat /\ Len(mOut) \in Nat
  BY DEF TypeOK, FifosTyped, MasterTyped
<1>3. Len(rdFifo') + Len(mOut') + Taken' = Len(rdFifo) + Len(mOut) + Taken
  BY <1>1, <1>2
<1>4. QED
  BY <1>3 DEF ToCome

LEMMA WbSampleBusInv ==
  ASSUME TypeOK, TypeOK', ReadInv, BusInv, WbSample
  PROVE  BusInv'
<1>1. /\ state = "WAIT_FOR_RD_ACK" /\ wbReq.op = "read" /\ wbReq'.op = "ack"
      /\ wbReq'.addr = wbReq.addr /\ wbReq.addr = nextAddr /\ polled'
      /\ UNCHANGED <<seqVars, cmdFifo, wrFifo, masterVars, codecVars, nackSeen>>
  BY DEF WbSample, ReadInv, WaitsForAccess, TypeOK, WbTyped, WbRequest
<1>2. /\ UNCHANGED <<state, afterAck, nextAddr, isRd, rd1Rcvd, intAddr, wrData,
                     missedAck,
                     started, dataIn, mState, mRead, mByte, mOut, codecVars>>
      /\ ~DataAck
  BY <1>1 DEF seqVars, masterVars, DataAck
<1>3. /\ Writes' <=> Writes
      /\ HasWritten' <=> HasWritten
      /\ Stored' <=> Stored
      /\ ReadsTwo' <=> ReadsTwo
      /\ ReadsOne' <=> ReadsOne
      /\ HasRead' <=> HasRead
  BY <1>1, <1>2, SameBus
<1>4. CASE wbReq.addr = "STS0"
  <2>1. rdFifo' = rdFifo /\ ~DataAck' /\ wbStatus'.busy = BusBusy
    BY <1>1, <1>4 DEF WbSample, DataAck, NoStatus
  <2>2. /\ (ToCome(0)' <=> ToCome(0)) /\ (ToCome(1)' <=> ToCome(1))
        /\ (ToCome(2)' <=> ToCome(2))
    BY <1>2, <2>1, SameToCome
  <2>3. Polls /\ Polls'
    BY <1>1, <1>2, <1>4
    DEF BusInv, InWrite, InRead, SendsWrite, SendsRead, Waits, Polls, Fetches
  <2>4. ~BusySeen => ~started
    BY DEF BusySeen
  <2>5. CASE ~isRd
    <3>1. CASE Sent(<<intAddr, wrData>>, WrCmds) /\ ~BusySeen
      <4>1. CASE mState = "IDLE"
        <5>1. ~BusySeen'
          BY <1>1, <1>2, <2>1, <2>4, <3>1, <4>1 DEF BusySeen, BusBusy, InPhase
        <5>2. Sent(<<intAddr, wrData>>, WrCmds)'
          BY <1>1, <1>2, <3>1, <4>1 DEF Sent, Bus, codecVars, WrCmds
        <5>3. QED
          BY <1>1, <1>2, <2>2, <2>3, <2>5, <5>1, <5>2 DEF BusInv, InWrite
      <4>2. CASE mState = "ADDRESS"
        <5>1. Writes /\ ~DoneSeen'
          BY <1>2, <2>4, <3>1, <4>2, Cmds DEF Sent, Bus, Writes, WrCmds, DoneSeen
        <5>2. QED
          BY <1>1, <1>2, <1>3, <2>2, <2>3, <2>5, <5>1 DEF BusInv, InWrite
      <4>3. QED
        BY <3>1, <4>1, <4>2 DEF Sent, Bus
    <3>2. CASE Writes /\ ~DoneSeen
      <4>1. BusBusy
        BY <3>2 DEF Writes, Bus, BusBusy, InPhase
      <4>2. ~DoneSeen'
        BY <1>1, <1>2, <2>1, <4>1 DEF DoneSeen
      <4>3. QED
        BY <1>1, <1>2, <1>3, <2>2, <2>3, <2>5, <3>2, <4>2 DEF BusInv, InWrite
    <3>3. CASE HasWritten /\ Stored
      BY <1>1, <1>2, <1>3, <2>2, <2>3, <2>5, <3>3 DEF BusInv, InWrite
    <3>4. QED
      BY <1>1, <2>5, <3>1, <3>2, <3>3 DEF BusInv, InWrite, SendsWrite, Waits
  <2>6. CASE isRd
    <3>1. CASE Sent(<<intAddr>>, RdCmds) /\ ~BusySeen /\ ToCome(2) /\ ~rd1Rcvd
      <4>1. CASE mState = "IDLE"
        <5>1. ~BusySeen'
          BY <1>1, <1>2, <2>1, <2>4, <3>1, <4>1 DEF BusySeen, BusBusy, InPhase
        <5>2. Sent(<<intAddr>>, RdCmds)'
          BY <1>1, <1>2, <3>1, <4>1 DEF Sent, Bus, codecVars, RdCmds
        <5>3. QED
          BY <1>1, <1>2, <2>2, <2>3, <2>6, <3>1, <5>1, <5>2 DEF BusInv, InRead
      <4>2. CASE mState = "ADDRESS"
        <5>1. ReadsTwo
          BY <1>2, <3>1, <4>2, Cmds DEF Sent, Bus, ReadsTwo, RdCmds
        <5>2. QED
          BY <1>1, <1>2, <1>3, <2>2, <2>3, <2>6, <3>1, <5>1
          DEF BusInv, InRead, Reads
      <4>3. QED
        BY <3>1, <4>1, <4>2 DEF Sent, Bus
    <3>2. CASE Reads /\ ~rd1Rcvd
      BY <1>1, <1>2, <1>3, <2>2, <2>3, <2>6, <3>2 DEF BusInv, InRead, Reads
    <3>3. QED
      BY <1>1, <1>4, <2>6, <3>1, <3>2 DEF BusInv, InRead, SendsRead, Waits, Fetches
  <2>7. QED
    BY <2>5, <2>6
<1>5. CASE wbReq.addr # "STS0"
  <2>1. isRd /\ Fetches /\ Reads
    BY <1>1, <1>5 DEF BusInv, InWrite, InRead, SendsWrite, SendsRead, Waits, Polls
  <2>2. Fetches'
    BY <1>2, <2>1 DEF Fetches, AfterData
  <2>3. \A n \in {0, 1, 2} : ToCome(n)' <=> ToCome(n)
    <3>1. CASE wbReq.addr = "DATA"
      <4>1. rdFifo # <<>>
        BY <1>1, <3>1 DEF ReadInv, NoUnderflow
      <4>2. rdFifo' = Tail(rdFifo) /\ DataAck'
        BY <1>1, <3>1, <4>1 DEF WbSample, DataAck
      <4>3. QED
        BY <1>1, <1>2, <2>1, <4>1, <4>2, TakenCounts
    <3>2. CASE wbReq.addr # "DATA"
      <4>1. rdFifo' = rdFifo /\ ~DataAck'
        BY <1>1, <3>2 DEF WbSample, DataAck
      <4>2. QED
        BY <1>2, <4>1, SameToCome
    <3>3. QED
      BY <3>1, <3>2
  <2>4. Reads'
    BY <1>3, <2>1, <2>3 DEF Reads
  <2>5. QED
    BY <1>1, <1>2, <2>1, <2>2, <2>4 DEF BusInv, InRead
<1>6. QED
  BY <1>4, <1>5

LEMMA WbReadAckBusInv ==
  ASSUME TypeOK, TypeOK', ReadInv, BusInv, WbReadAck
  PROVE  BusInv'
<1>1. /\ state = "WAIT_FOR_RD_ACK" /\ wbReq.op = "ack" /\ wbReq'.op = "none"
      /\ wbReq.addr = nextAddr /\ state' = afterAck /\ dataIn' = wbStatus
      /\ UNCHANGED <<cmdFifo, wrFifo, mState, mRead, mByte, codecVars, intAddr,
                     wrData, nackSeen>>
      /\ UNCHANGED <<isRd, missedAck, started, rdFifo, mOut, polled>>
      /\ ~DataAck'
  BY DEF WbReadAck, ReadInv, WaitsForAccess, NoRequest, fifoVars, masterVars,
     histVars, DataAck
<1>2. /\ Writes' <=> Writes
      /\ HasWritten' <=> HasWritten
      /\ Stored' <=> Stored
      /\ ReadsTwo' <=> ReadsTwo
      /\ ReadsOne' <=> ReadsOne
      /\ HasRead' <=> HasRead
  BY <1>1, SameBus
<1>3. /\ Sent(<<intAddr, wrData>>, WrCmds)' <=> Sent(<<intAddr, wrData>>, WrCmds)
      /\ Sent(<<intAddr>>, RdCmds)' <=> Sent(<<intAddr>>, RdCmds)
  <2>1. UNCHANGED <<cmdFifo, wrFifo, mState, mRead, cMode, polled, intAddr, wrData>>
    BY <1>1 DEF codecVars
  <2>2. QED
    BY <2>1, SameSent
<1>4. CASE wbReq.addr = "DATA"
  <2>1. isRd /\ ~missedAck /\ Reads /\ afterAck = AfterData /\ rd1Rcvd' /\ DataAck
    BY <1>1, <1>4
    DEF WbReadAck, BusInv, InWrite, InRead, SendsWrite, SendsRead, Waits, Polls,
        Fetches, DataAck
  <2>2. Len(rdFifo) \in Nat /\ Len(mOut) \in Nat
    BY DEF TypeOK, FifosTyped, MasterTyped
  <2>3. CASE rd1Rcvd
    <3>1. Taken = 2 /\ Taken' = 0 /\ state' = "IDLE"
      BY <1>1, <2>1, <2>3 DEF Taken, DataAck, AfterData
    <3>2. \A n \in {0, 1, 2} : ToCome(n)' <=> ToCome(n)
      BY <1>1, <2>2, <3>1 DEF ToCome
    <3>3. QED
      BY <1>1, <1>2, <2>1, <3>1, <3>2 DEF BusInv, Reads
  <2>4. CASE ~rd1Rcvd
    <3>1. Taken = 1 /\ Taken' = 1 /\ state' = "GET_RD_STS"
      BY <1>1, <2>1, <2>4 DEF Taken, DataAck, AfterData
    <3>2. \A n \in {0, 1, 2} : ToCome(n)' <=> ToCome(n)
      BY <1>1, <3>1 DEF ToCome
    <3>3. QED
      BY <1>1, <1>2, <2>1, <3>1, <3>2 DEF BusInv, InRead, Reads, Fetches
  <2>5. QED
    BY <2>3, <2>4
<1>5. CASE wbReq.addr # "DATA"
  <2>1. rd1Rcvd' = rd1Rcvd /\ ~DataAck
    BY <1>5 DEF WbReadAck, DataAck
  <2>2. state' # "IDLE"
    BY <1>1, <1>5
    DEF BusInv, InWrite, InRead, SendsWrite, SendsRead, Waits, Polls, Fetches
  <2>3. /\ (ToCome(0)' <=> ToCome(0)) /\ (ToCome(1)' <=> ToCome(1))
        /\ (ToCome(2)' <=> ToCome(2))
    BY <1>1, <2>1, <2>2, SameToCome
  <2>4. (BusySeen' => BusySeen) /\ (DoneSeen' => DoneSeen)
    BY <1>1 DEF BusySeen, DoneSeen
  <2>5. CASE ~isRd
    <3>1. Polls /\ Polls'
      BY <1>1, <2>5 DEF BusInv, InWrite, SendsWrite, Waits, Polls
    <3>2. QED
      BY <1>1, <1>2, <1>3, <2>2, <2>3, <2>4, <2>5, <3>1
      DEF BusInv, InWrite, SendsWrite, Waits
  <2>6. CASE isRd
    <3>1. CASE Polls
      <4>1. Polls'
        BY <1>1, <3>1 DEF Polls
      <4>2. /\ ~rd1Rcvd
            /\ \/ Sent(<<intAddr>>, RdCmds) /\ ~BusySeen /\ ToCome(2)
               \/ Reads
        BY <1>1, <1>5, <2>6, <3>1
        DEF BusInv, InRead, SendsRead, Waits, Polls, Fetches
      <4>3. QED
        BY <1>1, <1>2, <1>3, <2>1, <2>2, <2>3, <2>4, <2>6, <4>1, <4>2
        DEF BusInv, InRead, Reads
    <3>2. CASE Fetches /\ Reads
      <4>1. state' = "GET_DATA_RD" /\ ~missedAck
        BY <1>1, <1>5, <3>2 DEF Fetches
      <4>2. QED
        BY <1>1, <1>2, <2>3, <2>6, <3>2, <4>1 DEF BusInv, InRead, Reads, Fetches
    <3>3. QED
      BY <1>1, <2>6, <3>1, <3>2 DEF BusInv, InRead, SendsRead, Waits
  <2>7. QED
    BY <2>5, <2>6
<1>6. QED
  BY <1>4, <1>5
-----------------------------------------------------------------------------
(* Steps of the bus; the invariant is inductive *)

LEMMA BusStepKeeps ==
  ASSUME BusNext
  PROVE  /\ UNCHANGED <<seqVars, wbReq, wbStatus, wbByte, rdFifo>>
         /\ nackSeen => nackSeen'
         /\ UNCHANGED <<state, afterAck, started, isRd, intSent, rd1Sent,
                        rd1Rcvd, nextAddr,
                        dataIn, missedAck, busy, intAddr, wrData>>
         /\ Taken' = Taken /\ (BusySeen' <=> BusySeen) /\ (DoneSeen' <=> DoneSeen)
<1>1. /\ UNCHANGED <<seqVars, wbReq, wbStatus, wbByte, rdFifo>>
      /\ nackSeen => nackSeen'
  <2>1. CASE AddressSent
    BY <2>1 DEF AddressSent, Acknowledge, fifoVars
  <2>2. CASE ByteWritten
    BY <2>2 DEF ByteWritten, Acknowledge, fifoVars
  <2>3. CASE MasterAccept \/ TakeByte \/ ByteRead \/ StopSent
    BY <2>3 DEF MasterAccept, TakeByte, ByteRead, StopSent, wbVars, fifoVars
  <2>4. QED
    BY <2>1, <2>2, <2>3 DEF BusNext
<1>2. QED
  BY <1>1 DEF seqVars, Taken, BusySeen, DoneSeen

LEMMA ReadsStep ==
  ASSUME TypeOK, TypeOK', Reads, BusNext
  PROVE  Reads' /\ cRegs' = cRegs
<1>1. Taken' = Taken /\ rdFifo' = rdFifo /\ Taken \in Nat
  BY BusStepKeeps DEF Taken
<1>2. Len(rdFifo) \in Nat /\ Len(mOut) \in Nat
  BY DEF TypeOK, FifosTyped, MasterTyped
<1>3. CASE ReadsTwo /\ ToCome(2)
  <2>1. cRegs' = cRegs
    BY <1>3, ReadsTwoMove
  <2>2. CASE ReadsTwo' /\ mOut' = mOut
    BY <1>1, <1>3, <2>1, <2>2 DEF Reads, ToCome
  <2>3. CASE ReadsOne' /\ mOut = <<>> /\ Len(mOut') = 1
    <3>1. ToCome(1)'
      BY <1>1, <1>2, <1>3, <2>3 DEF ToCome
    <3>2. QED
      BY <2>1, <2>3, <3>1 DEF Reads
  <2>4. QED
    BY <1>3, <2>2, <2>3, ReadsTwoMove
<1>4. CASE ReadsOne /\ ToCome(1)
  <2>1. cRegs' = cRegs
    BY <1>4, ReadsOneMove
  <2>2. CASE ReadsOne' /\ mOut' = mOut
    BY <1>1, <1>4, <2>1, <2>2 DEF Reads, ToCome
  <2>3. CASE HasRead' /\ mOut = <<>> /\ Len(mOut') = 1
    <3>1. ToCome(0)'
      BY <1>1, <1>2, <1>4, <2>3 DEF ToCome
    <3>2. QED
      BY <2>1, <2>3, <3>1 DEF Reads
  <2>4. QED
    BY <1>4, <2>2, <2>3, ReadsOneMove
<1>5. CASE HasRead /\ ToCome(0)
  BY <1>1, <1>5, HasReadStays DEF Reads, ToCome
<1>6. QED
  BY <1>3, <1>4, <1>5 DEF Reads

LEMMA SentsStay ==
  ASSUME TypeOK, BusNext, state # "IDLE"
  PROVE  /\ Sent(<<>>, <<>>) => Sent(<<>>, <<>>)' /\ mOut' = mOut
         /\ Sent(<<intAddr>>, <<>>) => Sent(<<intAddr>>, <<>>)' /\ mOut' = mOut
         /\ Sent(<<intAddr, wrData>>, <<>>) =>
              Sent(<<intAddr, wrData>>, <<>>)' /\ mOut' = mOut
         /\ Sent(<<intAddr, wrData>>, <<StartWr>>) =>
              Sent(<<intAddr, wrData>>, <<StartWr>>)' /\ mOut' = mOut
         /\ Sent(<<intAddr, wrData>>, WrCmds) =>
              Sent(<<intAddr, wrData>>, WrCmds)' /\ mOut' = mOut
         /\ Sent(<<intAddr>>, <<Wr>>) => Sent(<<intAddr>>, <<Wr>>)' /\ mOut' = mOut
         /\ Sent(<<intAddr>>, <<Wr, StartRd>>) =>
              Sent(<<intAddr>>, <<Wr, StartRd>>)' /\ mOut' = mOut
         /\ Sent(<<intAddr>>, <<Wr, StartRd, Rd>>) =>
              Sent(<<intAddr>>, <<Wr, StartRd, Rd>>)' /\ mOut' = mOut
         /\ Sent(<<intAddr>>, RdCmds) => Sent(<<intAddr>>, RdCmds)' /\ mOut' = mOut
<1> DEFINE Stays(b, c) == Sent(b, c) => /\ cMode' = "none" /\ mOut' = mOut
                                        /\ \/ mState' = "IDLE" /\ cmdFifo' = c /\ wrFifo' = b
                                           \/ /\ c # <<>> /\ mState' = "ADDRESS" /\ cmdFifo' = Tail(c)
                                              /\ wrFifo' = b /\ ~mRead' /\ ~polled'
<1>1. ASSUME NEW b, NEW c, c # <<>> => Head(c) \in {StartWr, Wr} PROVE Stays(b, c)
  BY <1>1, SentStays DEF Sent, Bus
<1>2. intAddr' = intAddr /\ wrData' = wrData
  BY BusStepKeeps
<1>3. /\ Stays(<<>>, <<>>) /\ Stays(<<intAddr>>, <<>>)
      /\ Stays(<<intAddr, wrData>>, <<>>)
      /\ Stays(<<intAddr, wrData>>, <<StartWr>>)
      /\ Stays(<<intAddr, wrData>>, WrCmds)
      /\ Stays(<<intAddr>>, <<Wr>>) /\ Stays(<<intAddr>>, <<Wr, StartRd>>)
      /\ Stays(<<intAddr>>, <<Wr, StartRd, Rd>>) /\ Stays(<<intAddr>>, RdCmds)
  <2> HIDE DEF Stays
  <2> QED
    BY <1>1, Cmds DEF WrCmds, RdCmds
<1>4. QED
  BY <1>2, <1>3 DEF Sent, Bus, WrCmds, RdCmds

LEMMA BusBusInv ==
  ASSUME TypeOK, TypeOK', ReadInv, BusInv, BusNext
  PROVE  BusInv'
<1>1. /\ UNCHANGED <<state, afterAck, started, isRd, intSent, rd1Sent, rd1Rcvd,
                     nextAddr,
                     dataIn, missedAck, busy, intAddr, wrData, wbReq, rdFifo>>
      /\ nackSeen => nackSeen'
      /\ Taken' = Taken /\ (BusySeen' <=> BusySeen) /\ (DoneSeen' <=> DoneSeen)
  BY BusStepKeeps
<1>2. mOut' = mOut => (ToCome(0)' <=> ToCome(0)) /\ (ToCome(2)' <=> ToCome(2))
  BY <1>1 DEF ToCome
<1>3. (Polls' <=> Polls) /\ (Fetches' <=> Fetches) /\ (Fresh' <=> Fresh)
  BY <1>1 DEF Polls, Fetches, Fresh, AfterData
<1>4. HasWritten => HasWritten' /\ UNCHANGED <<cRegs, nackSeen>> /\ mOut' = mOut
  <2>1. HasWritten => mOut' = mOut
    BY DEF HasWritten, Bus, BusNext, MasterAccept, AddressSent, TakeByte,
       ByteWritten, ByteRead, StopSent
  <2>2. QED
    BY <2>1, HasWrittenStays
<1>5. Stored /\ cRegs' = cRegs => Stored'
  BY <1>1 DEF Stored, Target, Written
<1>6. CASE state = "IDLE"
  <2>1. cRegs' = cRegs
    BY <1>4, <1>6, ReadsStep DEF BusInv
  <2>2. QED
    BY <1>1, <1>2, <1>4, <1>5, <1>6, <2>1, ReadsStep DEF BusInv
<1>7. CASE state # "IDLE" /\ ~isRd
  <2>1. CASE SendsWrite /\ Fresh
    <3>1. SendsWrite' /\ mOut' = mOut
      BY <1>1, <1>7, <2>1, SentsStay DEF SendsWrite, Waits, WriteByte, WriteCommand
    <3>2. QED
      BY <1>1, <1>2, <1>3, <1>7, <2>1, <3>1 DEF BusInv, InWrite
  <2>2. CASE Polls /\ Sent(<<intAddr, wrData>>, WrCmds) /\ ~BusySeen
    BY <1>1, <1>2, <1>3, <1>7, <2>2, SentsStay DEF BusInv, InWrite
  <2>3. CASE Polls /\ Writes /\ ~DoneSeen
    <3>1. mOut' = mOut
      BY <2>3
      DEF Writes, Bus, BusNext, MasterAccept, AddressSent, TakeByte, ByteWritten,
          ByteRead, StopSent
    <3>2. QED
      BY <1>1, <1>2, <1>3, <1>7, <2>3, <3>1, WritesMove DEF BusInv, InWrite
  <2>4. CASE Polls /\ HasWritten /\ Stored
    BY <1>1, <1>2, <1>3, <1>4, <1>5, <1>7, <2>4 DEF BusInv, InWrite
  <2>5. QED
    BY <1>7, <2>1, <2>2, <2>3, <2>4 DEF BusInv, InWrite
<1>8. CASE state # "IDLE" /\ isRd
  <2>1. CASE SendsRead /\ Fresh /\ ToCome(2) /\ ~rd1Rcvd
    <3>1. SendsRead' /\ mOut' = mOut
      BY <1>1, <1>8, <2>1, SentsStay DEF SendsRead, Waits, WriteByte, WriteCommand
    <3>2. QED
      BY <1>1, <1>2, <1>3, <1>8, <2>1, <3>1 DEF BusInv, InRead
  <2>2. CASE /\ Polls /\ Sent(<<intAddr>>, RdCmds) /\ ~BusySeen /\ ToCome(2)
             /\ ~rd1Rcvd
    BY <1>1, <1>2, <1>3, <1>8, <2>2, SentsStay DEF BusInv, InRead
  <2>3. CASE Polls /\ Reads /\ ~rd1Rcvd
    BY <1>1, <1>3, <1>8, <2>3, ReadsStep DEF BusInv, InRead
  <2>4. CASE Fetches /\ Reads
    BY <1>1, <1>3, <1>8, <2>4, ReadsStep DEF BusInv, InRead
  <2>5. QED
    BY <1>8, <2>1, <2>2, <2>3, <2>4 DEF BusInv, InRead
<1>9. QED
  BY <1>6, <1>7, <1>8 DEF TypeOK, SeqTyped

LEMMA SameSeqSide ==
  ASSUME UNCHANGED <<seqVars, wbReq, wbStatus>>,
         UNCHANGED <<cmdFifo, wrFifo, mState, mRead, mByte, codecVars, histVars>>,
         Len(rdFifo') + Len(mOut') = Len(rdFifo) + Len(mOut), BusInv
  PROVE  BusInv'
<1>1. /\ UNCHANGED <<state, afterAck, started, isRd, intSent, rd1Sent, rd1Rcvd,
                     nextAddr,
                     dataIn, missedAck, busy, intAddr, wrData, wbReq>>
      /\ Taken' = Taken /\ (BusySeen' <=> BusySeen) /\ (DoneSeen' <=> DoneSeen)
      /\ (Polls' <=> Polls) /\ (Fetches' <=> Fetches) /\ (Fresh' <=> Fresh)
  BY DEF seqVars, Taken, BusySeen, DoneSeen, Polls, Fetches, Fresh, AfterData
<1>2. /\ (ToCome(0)' <=> ToCome(0)) /\ (ToCome(1)' <=> ToCome(1))
      /\ (ToCome(2)' <=> ToCome(2))
  BY <1>1 DEF ToCome
<1>3. /\ Writes' <=> Writes
      /\ HasWritten' <=> HasWritten
      /\ Stored' <=> Stored
      /\ ReadsTwo' <=> ReadsTwo
      /\ ReadsOne' <=> ReadsOne
      /\ HasRead' <=> HasRead
  BY <1>1, SameBus DEF histVars
<1>4. /\ Sent(<<>>, <<>>)' <=> Sent(<<>>, <<>>)
      /\ Sent(<<intAddr>>, <<>>)' <=> Sent(<<intAddr>>, <<>>)
      /\ Sent(<<intAddr, wrData>>, <<>>)' <=> Sent(<<intAddr, wrData>>, <<>>)
      /\ Sent(<<intAddr, wrData>>, <<StartWr>>)' <=> Sent(<<intAddr, wrData>>, <<StartWr>>)
      /\ Sent(<<intAddr, wrData>>, WrCmds)' <=> Sent(<<intAddr, wrData>>, WrCmds)
      /\ Sent(<<intAddr>>, <<Wr>>)' <=> Sent(<<intAddr>>, <<Wr>>)
      /\ Sent(<<intAddr>>, <<Wr, StartRd>>)' <=> Sent(<<intAddr>>, <<Wr, StartRd>>)
      /\ Sent(<<intAddr>>, <<Wr, StartRd, Rd>>)' <=> Sent(<<intAddr>>, <<Wr, StartRd, Rd>>)
      /\ Sent(<<intAddr>>, RdCmds)' <=> Sent(<<intAddr>>, RdCmds)
  <2>1. cMode' = cMode /\ polled' = polled
    BY DEF codecVars, histVars
  <2>2. QED
    BY <1>1, <2>1, SameSent
<1>5. SendsWrite' <=> SendsWrite
  BY <1>1, <1>4 DEF SendsWrite, Waits, WriteByte, WriteCommand
<1>6. SendsRead' <=> SendsRead
  BY <1>1, <1>4 DEF SendsRead, Waits, WriteByte, WriteCommand
<1>7. (InWrite' <=> InWrite) /\ (InRead' <=> InRead)
  BY <1>1, <1>2, <1>3, <1>4, <1>5, <1>6 DEF InWrite, InRead, Reads
<1>8. QED
  BY <1>1, <1>2, <1>3, <1>7 DEF BusInv, Reads

LEMMA PushBusInv ==
  ASSUME TypeOK, BusInv, PushRead
  PROVE  BusInv'
<1>1. /\ UNCHANGED <<seqVars, wbReq, wbStatus>>
      /\ UNCHANGED <<cmdFifo, wrFifo, mState, mRead, mByte, codecVars, histVars>>
      /\ rdFifo' = rdFifo \o mOut /\ mOut' = <<>>
  BY DEF PushRead, wbVars
<1>2. rdFifo \in Seq(Byte) /\ mOut \in Seq(Byte)
  <2>1. CASE mOut = <<>>
    BY <2>1 DEF TypeOK, FifosTyped
  <2>2. CASE \E b \in Byte : mOut = <<b>>
    BY <2>2 DEF TypeOK, FifosTyped
  <2>3. QED
    BY <2>1, <2>2 DEF TypeOK, MasterTyped
<1>3. /\ Len(rdFifo') = Len(rdFifo) + Len(mOut) /\ Len(mOut') = 0
      /\ Len(rdFifo) \in Nat /\ Len(mOut) \in Nat
  BY <1>1, <1>2
<1>4. QED
  BY <1>1, <1>3, SameSeqSide

LEMMA InitBusInv == Init => BusInv
  BY DEF Init, BusInv, HasWritten, Bus, ToCome, Taken

LEMMA BusInvStep == Paced /\ TypeOK /\ ReadInv /\ BusInv /\ [Next]_vars => BusInv'
<1> SUFFICES ASSUME Paced, TypeOK, ReadInv, BusInv, [Next]_vars PROVE BusInv'
  OBVIOUS
<1>0. TypeOK'
  BY TypeStep
<1>1. CASE Request
  BY <1>1, RequestBusInv
<1>2. CASE SeqNext
  <2>1. CASE state = "IDLE"
    <3>1. IdleTick
      BY <1>2, <2>1
      DEF SeqNext, WriteDevAddr, WriteIntAddr, WriteData, WriteWbCmd, WrStopCmd,
          PollBusy, BusyRose, BusyFell, GetRdSts, GetDataRd, ReadWbReg
    <3>2. QED
      BY <3>1, IdleBusInv
  <2>2. CASE state # "IDLE"
    BY <1>2, <2>2, SeqInWrite, SeqInRead
  <2>3. QED
    BY <2>1, <2>2
<1>3. CASE WbNext
  BY <1>0, <1>3, WbWriteBusInv, WbSampleBusInv, WbReadAckBusInv DEF WbNext
<1>4. CASE BusNext
  BY <1>0, <1>4, BusBusInv
<1>5. CASE PushRead
  BY <1>5, PushBusInv
<1>6. CASE UNCHANGED vars
  <2>1. /\ UNCHANGED <<seqVars, wbReq, wbStatus>>
        /\ UNCHANGED <<cmdFifo, wrFifo, mState, mRead, mByte, codecVars,
                       histVars, rdFifo, mOut>>
    BY <1>6 DEF vars, wbVars, fifoVars, masterVars
  <2>2. QED
    BY <2>1, SameSeqSide
<1>7. QED
  BY <1>1, <1>2, <1>3, <1>4, <1>5, <1>6 DEF Next
-----------------------------------------------------------------------------
(* What holds for a client that lets the bus stop *)

PacedInv == TypeOK /\ ReadInv /\ BusInv

\* For a client that leaves the bus time to stop, whatever the codec
\* acknowledges, the sequencer, the FIFOs, the master and the codec stay at the
\* same point of the same operation.
THEOREM BusIsOrderly == Paced /\ Spec => []PacedInv
<1>1. Init => PacedInv
  BY InitTyped, InitReadInv, InitBusInv DEF PacedInv
<1>2. Paced /\ PacedInv /\ [Next]_vars => PacedInv'
  BY TypeStep, ReadInvStep, BusInvStep DEF PacedInv
<1>3. CASE Paced
  <2>1. PacedInv /\ [Next]_vars => PacedInv'
    BY <1>2, <1>3
  <2>2. QED
    BY <1>1, <2>1, PTL DEF Spec
<1>4. QED
  BY <1>3

\* A write that ended, every byte acknowledged, is in the codec.
THEOREM WritesArrive == Paced /\ Spec => []DoneMeansWritten
<1>1. PacedInv => DoneMeansWritten
  BY DEF PacedInv, BusInv, Stored, DoneMeansWritten, JustEnded
<1>2. QED
  BY <1>1, BusIsOrderly, PTL

\* With the sequencer idle and the bus stopped, the read FIFO and the master's
\* output register hold an even number of bytes together, although a read that
\* missed an acknowledge is given up while its bytes still come in.
THEOREM PairsAreWhole == Paced /\ Spec => []PairsStayTogether
<1>1. PacedInv => PairsStayTogether
  <2> SUFFICES ASSUME PacedInv, state = "IDLE", BusStopped
               PROVE  Len(rdFifo \o mOut) % 2 = 0
    BY DEF PairsStayTogether
  <2>1. ToCome(0)
    BY Cmds DEF PacedInv, BusInv, BusStopped, Reads, ReadsTwo, ReadsOne, Bus
  <2>2. rdFifo \in Seq(Byte) /\ mOut \in Seq(Byte)
    <3>1. CASE mOut = <<>>
      BY <3>1 DEF PacedInv, TypeOK, FifosTyped
    <3>2. CASE \E b \in Byte : mOut = <<b>>
      BY <3>2 DEF PacedInv, TypeOK, FifosTyped
    <3>3. QED
      BY <3>1, <3>2 DEF PacedInv, TypeOK, MasterTyped
  <2>3. /\ Len(rdFifo \o mOut) = Len(rdFifo) + Len(mOut) /\ Len(rdFifo) \in Nat
        /\ Len(mOut) \in Nat
    BY <2>2
  <2>4. (Len(rdFifo) + Len(mOut) + 0 + 0) % 2 = 0
    BY <2>1 DEF ToCome, Taken
  <2>5. QED
    BY <2>3, <2>4
<1>2. QED
  BY <1>1, BusIsOrderly, PTL

LEMMA OnlyAByteWrites == Next /\ cRegs' # cRegs => ByteWritten /\ cMode = "data"
  BY DEF Next, Request, TakeRequest, SeqNext, WriteDevAddr, WriteIntAddr,
     WriteData, WriteWbCmd, WrStopCmd, PollBusy, BusyRose, BusyFell, GetRdSts,
     GetDataRd, ReadWbReg, IdleTick, WbNext, WbWrite, WbSample, WbReadAck,
     BusNext, MasterAccept, AddressSent, TakeByte, ByteWritten, ByteRead,
     StopSent, PushRead, CodecTakes, codecVars

LEMMA RegsChange ==
  ASSUME PacedInv, [Next]_vars
  PROVE  cRegs' = cRegs \/ (state # "IDLE" /\ ~isRd /\ cRegs' = [cRegs EXCEPT ![Target] = Written])
<1>1. CASE Next /\ cRegs' # cRegs
  <2>1. ByteWritten /\ cMode = "data" /\ mState = "WRITE_2"
    BY <1>1, OnlyAByteWrites DEF ByteWritten
  <2>3. ~HasWritten /\ ~HasRead /\ ~ReadsTwo /\ ~ReadsOne
    BY <2>1 DEF HasWritten, HasRead, ReadsTwo, ReadsOne, Bus, Codec
  <2>4. \A b, c : ~Sent(b, c)
    BY <2>1 DEF Sent
  <2>5. state # "IDLE" /\ ~isRd /\ Writes
    BY <2>3, <2>4
    DEF PacedInv, BusInv, InWrite, InRead, SendsWrite, SendsRead, Reads, TypeOK,
        SeqTyped
  <2>6. mByte = wrData /\ cPtr = intAddr
    BY <2>1, <2>5 DEF Writes, Bus, Codec, PtrIfData
  <2>7. cRegs' = [cRegs EXCEPT ![cPtr \div 2] = [hi |-> cPtr % 2, lo |-> mByte]]
    BY <1>1, <2>1 DEF ByteWritten, CodecTakes
  <2>8. QED
    BY <2>5, <2>6, <2>7 DEF Target, Written
<1>2. CASE UNCHANGED vars
  BY <1>2 DEF vars, codecVars
<1>3. QED
  BY <1>1, <1>2

\* Only a write operation changes a codec register, and only the one it names.
THEOREM OnlyWritesWrite == Paced /\ Spec => OnlyTheWriteWrites
<1>1. PacedInv /\ [Next]_vars =>
        [cRegs' # cRegs => /\ state # "IDLE" /\ ~isRd
                           /\ cRegs' = [cRegs EXCEPT ![Target] = Written]]_vars
  BY RegsChange
<1>2. QED
  BY <1>1, BusIsOrderly, PTL DEF Spec, OnlyTheWriteWrites

-----------------------------------------------------------------------------
(* The bytes on their way back, for a codec that acknowledges *)

LEMMA Lengths ==
  /\ <<StartRd, Rd, StopBus>> \notin {<<>>, <<StartWr>>, <<StartWr, StopBus>>, <<StopBus>>}
  /\ <<Rd, StopBus>> \notin {<<>>, <<StartWr>>, <<StartWr, StopBus>>, <<StopBus>>}
<1>1. /\ Len(<<StartRd, Rd, StopBus>>) = 3 /\ Len(<<Rd, StopBus>>) = 2
      /\ Len(<<StartWr>>) = 1 /\ Len(<<StartWr, StopBus>>) = 2
      /\ Len(<<StopBus>>) = 1 /\ Len(<<>>) = 0
  OBVIOUS
<1>2. <<Rd, StopBus>> # <<StartWr, StopBus>>
  <2>1. Rd # StartWr
    BY DEF Rd, StartWr
  <2>2. <<Rd, StopBus>>[1] = Rd /\ <<StartWr, StopBus>>[1] = StartWr
    OBVIOUS
  <2>3. QED
    BY <2>1, <2>2
<1>3. QED
  BY <1>1, <1>2

\* The commands of a write are not those of a read.
LEMMA WriteIsNoRead ==
  ASSUME InWrite
  PROVE  ~ReadsTwo /\ ~ReadsOne
<1>1. cmdFifo \in {<<>>, <<StartWr>>, <<StartWr, StopBus>>, <<StopBus>>}
  BY Cmds DEF InWrite, SendsWrite, Writes, HasWritten, Sent, Bus, WrCmds
<1>2. mState # "READ"
  BY DEF InWrite, SendsWrite, Writes, HasWritten, Sent, Bus
<1>3. ~ReadsTwo
  BY <1>1, Lengths DEF ReadsTwo, Bus
<1>4. ~ReadsOne
  BY <1>1, <1>2, Lengths DEF ReadsOne, Bus
<1>5. QED
  BY <1>3, <1>4

LEMMA DoneIsNoRead ==
  ASSUME HasWritten \/ HasRead
  PROVE  ~ReadsTwo /\ ~ReadsOne
  BY Lengths DEF HasWritten, HasRead, ReadsTwo, ReadsOne, Bus

LEMMA SameChains ==
  ASSUME UNCHANGED <<rd1Rcvd, out, cRegs, intAddr, rdFifo, mOut>>,
         DataAck' <=> DataAck, DataAck => wbByte' = wbByte
  PROVE  (Chain0' <=> Chain0) /\ (Chain1' <=> Chain1) /\ (Chain2' <=> Chain2)
         /\ (Holds(<<>>, <<>>)' <=> Holds(<<>>, <<>>))
<1>1. /\ Lo' = Lo /\ Hi' = Hi /\ (GotNone' <=> GotNone) /\ (GotOne' <=> GotOne)
      /\ (GotBoth' <=> GotBoth)
  BY DEF Lo, Hi, Target, GotNone, GotOne, GotBoth
<1>2. QED
  BY <1>1 DEF Chain0, Chain1, Chain2, Holds

LEMMA RequestAckInv ==
  ASSUME PacedInv, AckInv, Request, Paced
  PROVE  AckInv'
<1>1. PICK rd \in BOOLEAN, wr \in BOOLEAN, r \in Regs, v \in Values : TakeRequest(rd, wr, r, v)
  BY DEF Request
<1>2. /\ state = "IDLE" /\ state' = "WRITE_DEV_ADDR"
      /\ UNCHANGED <<wbVars, fifoVars, masterVars, codecVars, dataIn, missedAck>>
      /\ isRd' = rd /\ (rd => ~rd1Rcvd') /\ ~outValid' /\ ~nackSeen'
  BY <1>1 DEF TakeRequest
<1>3. ~DataAck'
  BY <1>2, Access DEF PacedInv, DataAck, wbVars
<1>4. Acked'
  BY <1>2 DEF AckInv, Acked, wbVars
<1>5. Holds(<<>>, <<>>)'
  BY <1>2 DEF AckInv, Holds, fifoVars, masterVars
<1>6. QED
  BY <1>2, <1>3, <1>4, <1>5 DEF AckInv, Gathered, Sending, Chain0, GotNone

LEMMA IdleAckInv ==
  ASSUME PacedInv, AckInv, IdleTick
  PROVE  AckInv'
<1>1. /\ state = "IDLE" /\ state' = "IDLE"
      /\ UNCHANGED <<missedAck, dataIn, intAddr, wrData>>
      /\ UNCHANGED <<wbVars, fifoVars, masterVars, codecVars, histVars>>
  BY DEF IdleTick
<1>2. /\ ReadsTwo' <=> ReadsTwo
      /\ ReadsOne' <=> ReadsOne
  BY <1>1, SameBus DEF fifoVars, masterVars, histVars
<1>3. QED
  BY <1>1, <1>2 DEF AckInv, Acked, Holds, wbVars, fifoVars, masterVars, histVars

LEMMA SeqAckInv ==
  ASSUME PacedInv, PacedInv', AckInv, SeqNext, state # "IDLE"
  PROVE  AckInv'
<1>1. SeqOnly /\ ~DataAck /\ ~DataAck'
  BY SeqStepIsSeqOnly DEF PacedInv
<1>2. /\ UNCHANGED <<rd1Rcvd, cRegs, intAddr, rdFifo, mOut, isRd, nackSeen,
                     polled, cMode, mRead>>
      /\ UNCHANGED <<cmdFifo, wrFifo, mState, mRead, mByte, codecVars, intAddr,
                     wrData>>
  BY <1>1 DEF SeqOnly, fifoVars, masterVars, codecVars, histVars
<1>3. UNCHANGED <<out, outValid, wbMissed, wbStatus>>
  BY DEF SeqNext, WriteDevAddr, WriteIntAddr, WriteData, WriteWbCmd, WrStopCmd,
     PollBusy, BusyRose, BusyFell, GetRdSts, GetDataRd, ReadWbReg, IdleTick,
     IssueWrite, wbVars
<1>4. dataIn' \in {dataIn, NoStatus} /\ missedAck' \in {missedAck, dataIn.missed}
  BY DEF SeqNext, WriteDevAddr, WriteIntAddr, WriteData, WriteWbCmd, WrStopCmd,
     PollBusy, BusyRose, BusyFell, GetRdSts, GetDataRd, ReadWbReg, IdleTick,
     IssueWrite, wbVars
<1>5. Acked'
  BY <1>2, <1>3, <1>4 DEF AckInv, Acked, NoStatus
<1>6. (Chain0' <=> Chain0) /\ (Chain1' <=> Chain1) /\ (Chain2' <=> Chain2)
      /\ (Holds(<<>>, <<>>)' <=> Holds(<<>>, <<>>))
  BY <1>1, <1>2, <1>3, SameChains
<1>7. /\ ReadsTwo' <=> ReadsTwo
      /\ ReadsOne' <=> ReadsOne
      /\ HasRead' <=> HasRead
      /\ HasWritten' <=> HasWritten
  BY <1>1, SeqOnlyKeeps, SameBus
<1>8. Sent(<<intAddr>>, RdCmds)' <=> Sent(<<intAddr>>, RdCmds)
  BY <1>2, SameSent
<1>9. CASE ~isRd
  <2>1. state' = "IDLE" => HasWritten
    <3>1. state' = "IDLE" => BusyFell
      BY <1>9
      DEF PacedInv, BusInv, SeqNext, WriteDevAddr, WriteIntAddr, WriteData,
          WriteWbCmd, WrStopCmd, PollBusy, BusyRose, BusyFell, GetRdSts,
          GetDataRd, ReadWbReg, IssueWrite, IdleTick, InWrite, SendsWrite, Polls,
          Waits
    <3>2. BusyFell => HasWritten /\ Stored
      BY <1>9
      DEF PacedInv, BusInv, BusyFell, TransferDone, InWrite, SendsWrite, Polls,
          Waits, BusySeen, DoneSeen
    <3>3. QED
      BY <3>1, <3>2
  <2>2. QED
    BY <1>2, <1>3, <1>5, <1>6, <1>7, <1>9, <2>1, DoneIsNoRead DEF AckInv
<1>10. CASE isRd
  <2>1. state' # "IDLE" /\ (Sending' <=> Sending)
    BY <1>10
    DEF AckInv, Acked, Sending, SeqNext, WriteDevAddr, WriteIntAddr, WriteData,
        WriteWbCmd, WrStopCmd, PollBusy, BusyRose, BusyFell, GetRdSts, GetDataRd,
        ReadWbReg, IdleTick, IssueWrite
  <2>2. QED
    BY <1>2, <1>3, <1>5, <1>6, <1>7, <1>8, <1>10, <2>1 DEF AckInv, Gathered
<1>11. QED
  BY <1>9, <1>10

LEMMA WbWriteAckInv ==
  ASSUME PacedInv, PacedInv', AckInv, WbWrite
  PROVE  AckInv'
<1>1. /\ state = "WAIT_FOR_ACK" /\ state' = afterAck /\ state' # "IDLE"
      /\ wbReq.op = "write" /\ wbReq'.op = "none"
      /\ state' \in {"WRITE_DEV_ADDR", "WRITE_INT_ADDR", "WRITE_DATA",
                     "WRITE_WB_CMD", "WR_STOP_CMD", "WAIT_WR_XFR_DONE"}
      /\ UNCHANGED <<wbStatus, wbMissed, rdFifo, masterVars, codecVars, histVars,
                     rd1Rcvd, out, outValid, intAddr, isRd, dataIn, missedAck>>
      /\ wrFifo' = IF wbReq.addr = "DATA" THEN Append(wrFifo, wbReq.byte) ELSE wrFifo
  BY DEF WbWrite, PacedInv, ReadInv, WaitsForAccess, ReturnStates, NoRequest
<1>2. ~DataAck /\ ~DataAck'
  BY <1>1 DEF DataAck
<1>3. (Chain0' <=> Chain0) /\ (Holds(<<>>, <<>>)' <=> Holds(<<>>, <<>>))
  BY <1>1, <1>2, SameChains DEF masterVars, codecVars
<1>4. Acked'
  BY <1>1 DEF AckInv, Acked, histVars
<1>5. isRd => Chain0'
  BY <1>1, <1>3 DEF AckInv, Gathered, Sending
<1>6. isRd /\ ~Sending' => Sent(<<intAddr>>, RdCmds)' \/ ReadsTwo'
  <2> SUFFICES ASSUME isRd, ~Sending'
               PROVE  Sent(<<intAddr>>, RdCmds)' \/ ReadsTwo'
    OBVIOUS
  <2>1. state' = "WAIT_WR_XFR_DONE"
    BY <1>1 DEF Sending
  <2>2. wrFifo = <<intAddr>> /\ wbReq.addr = "CMD"
    BY <1>1, <2>1
    DEF PacedInv, BusInv, InRead, SendsRead, Sent, Bus, Polls, Fetches, Waits,
        WriteCommand, WriteByte
  <2>3. wrFifo' # <<>>
    BY <1>1, <2>2, Bytes DEF PacedInv
  <2>4. ~ReadsOne' /\ ~HasRead'
    BY <2>3 DEF ReadsOne, HasRead, Bus
  <2>5. InRead'
    BY <1>1 DEF PacedInv, BusInv
  <2>6. QED
    BY <2>1, <2>4, <2>5 DEF InRead, Reads, SendsRead, Waits, Fetches
<1>7. QED
  BY <1>1, <1>3, <1>4, <1>5, <1>6 DEF AckInv, Gathered

LEMMA Bits ==
  ASSUME TypeOK
  PROVE  /\ Lo \in Byte /\ Hi \in 0 .. 1 /\ Hi \in Byte
         /\ Head(<<Lo>>) = Lo /\ Tail(<<Lo>>) = <<>> /\ <<Lo>> # <<>>
         /\ Head(<<Hi>>) = Hi /\ Tail(<<Hi>>) = <<>> /\ <<Hi>> # <<>>
         /\ Head(<<Lo, Hi>>) = Lo /\ Tail(<<Lo, Hi>>) = <<Hi>> /\ <<Lo, Hi>> # <<>>
         /\ Target \in Regs /\ cRegs[Target] = [hi |-> Hi, lo |-> Lo]
<1>1. Target \in Regs /\ cRegs[Target] \in Value
  BY ByteRange DEF TypeOK, SeqTyped, CodecTyped, Target
<1>2. Lo \in Byte /\ Hi \in 0 .. 1 /\ cRegs[Target] = [hi |-> Hi, lo |-> Lo]
  BY <1>1 DEF Lo, Hi, Value
<1>3. Hi \in Byte
  BY <1>2, ControllerAssumption DEF Byte
<1>4. QED
  BY <1>1, <1>2, <1>3, TailOfTuple

LEMMA WbSampleAckInv ==
  ASSUME PacedInv, PacedInv', AckInv, WbSample
  PROVE  AckInv'
<1>1. /\ state = "WAIT_FOR_RD_ACK" /\ state' = state /\ wbReq.op = "read"
      /\ wbReq'.op = "ack"
      /\ wbReq'.addr = wbReq.addr /\ wbReq.addr = nextAddr
      /\ UNCHANGED <<cRegs, intAddr, wrData, isRd, rd1Rcvd, out, outValid,
                     dataIn, missedAck, nackSeen, mOut, wrFifo>>
      /\ UNCHANGED <<cmdFifo, mState, mRead, mByte, codecVars>>
      /\ ~DataAck
  BY DEF PacedInv, WbSample, ReadInv, WaitsForAccess, TypeOK, WbTyped, WbRequest,
     seqVars, masterVars, codecVars, DataAck
<1>2. ~wbStatus'.missed /\ ~wbMissed'
  BY DEF MissedKept, WbSample, AckInv, Acked, NoStatus
<1>3. Acked'
  BY <1>1, <1>2 DEF AckInv, Acked
<1>4. /\ ReadsTwo' <=> ReadsTwo
      /\ ReadsOne' <=> ReadsOne
      /\ HasRead' <=> HasRead
  BY <1>1, SameBus
<1>5. CASE wbReq.addr # "DATA"
  <2>1. rdFifo' = rdFifo /\ ~DataAck'
    BY <1>1, <1>5 DEF WbSample, DataAck
  <2>2. (Chain0' <=> Chain0) /\ (Chain1' <=> Chain1) /\ (Chain2' <=> Chain2)
        /\ (Holds(<<>>, <<>>)' <=> Holds(<<>>, <<>>))
    BY <1>1, <2>1, SameChains
  <2>3. isRd /\ Sent(<<intAddr>>, RdCmds) => Sent(<<intAddr>>, RdCmds)' \/ ReadsTwo'
    <3> SUFFICES ASSUME isRd, Sent(<<intAddr>>, RdCmds)
                 PROVE  Sent(<<intAddr>>, RdCmds)' \/ ReadsTwo'
      OBVIOUS
    <3>1. wrFifo' # <<>>
      BY <1>1, Bytes DEF PacedInv, Sent, Bus
    <3>2. ~ReadsOne' /\ ~HasRead'
      BY <3>1 DEF ReadsOne, HasRead, Bus
    <3>3. InRead'
      BY <1>1 DEF PacedInv, BusInv
    <3>4. QED
      BY <1>1, <3>2, <3>3 DEF InRead, Reads, SendsRead, Waits
  <2>4. QED
    BY <1>1, <1>3, <1>4, <2>2, <2>3 DEF AckInv, Gathered, Sending
<1>6. CASE wbReq.addr = "DATA"
  <2>1. rdFifo # <<>>
    BY <1>1, <1>6 DEF PacedInv, ReadInv, NoUnderflow
  <2>2. wbByte' = Head(rdFifo) /\ rdFifo' = Tail(rdFifo) /\ DataAck'
    BY <1>1, <1>6, <2>1 DEF WbSample, DataAck
  <2>3. isRd
    BY <1>1, <1>6
    DEF PacedInv, BusInv, InWrite, SendsWrite, Waits, Polls, TypeOK, SeqTyped
  <2>4. Lo' = Lo /\ Hi' = Hi
    BY <1>1 DEF Lo, Hi, Target
  <2>5. ~Chain0
    BY <2>1 DEF Chain0, Holds
  <2>6. Chain1 => Chain1'
    BY <1>1, <2>1, <2>2, <2>4, Bits DEF PacedInv, Chain1, GotNone, GotOne, Holds
  <2>7. Chain2 => Chain2'
    <3>1. CASE GotNone /\ Holds(<<Lo, Hi>>, <<>>)
      BY <1>1, <2>2, <2>4, <3>1, Bits DEF PacedInv, Chain2, GotNone, GotOne, Holds
    <3>2. CASE GotNone /\ Holds(<<Lo>>, <<Hi>>)
      BY <1>1, <2>2, <2>4, <3>2, Bits DEF PacedInv, Chain2, GotNone, GotOne, Holds
    <3>3. CASE GotOne /\ Holds(<<Hi>>, <<>>)
      BY <1>1, <2>2, <2>4, <3>3, Bits DEF PacedInv, Chain2, GotOne, GotBoth, Holds
    <3>4. QED
      BY <2>1, <3>1, <3>2, <3>3 DEF Chain2, Holds
  <2>8. QED
    BY <1>1, <1>3, <1>4, <2>3, <2>5, <2>6, <2>7 DEF AckInv, Gathered, Sending
<1>7. QED
  BY <1>5, <1>6

LEMMA WbReadAckAckInv ==
  ASSUME PacedInv, PacedInv', AckInv, WbReadAck
  PROVE  AckInv'
<1>1. /\ state = "WAIT_FOR_RD_ACK" /\ wbReq.op = "ack" /\ wbReq'.op = "none"
      /\ wbReq.addr = nextAddr /\ state' = afterAck /\ dataIn' = wbStatus
      /\ UNCHANGED <<cmdFifo, wrFifo, mState, mRead, mByte, codecVars, intAddr,
                     wrData, nackSeen>>
      /\ UNCHANGED <<isRd, missedAck, rdFifo, mOut, polled, wbStatus, cRegs, cMode>>
      /\ ~DataAck' /\ (wbMissed' => wbMissed)
  BY DEF MissedKept, PacedInv, WbReadAck, ReadInv, WaitsForAccess, NoRequest, fifoVars,
     masterVars, codecVars, histVars, DataAck
<1>2. Acked'
  BY <1>1 DEF AckInv, Acked
<1>3. /\ ReadsTwo' <=> ReadsTwo
      /\ ReadsOne' <=> ReadsOne
      /\ HasRead' <=> HasRead
      /\ Sent(<<intAddr>>, RdCmds)' <=> Sent(<<intAddr>>, RdCmds)
  BY <1>1, SameBus, SameSent
<1>4. /\ Lo' = Lo /\ Hi' = Hi
      /\ Holds(<<>>, <<>>)' <=> Holds(<<>>, <<>>)
  BY <1>1 DEF Lo, Hi, Target, Holds
<1>5. CASE wbReq.addr # "DATA"
  <2>1. ~DataAck /\ UNCHANGED <<rd1Rcvd, out, outValid>>
    BY <1>5 DEF WbReadAck, DataAck
  <2>2. (Chain0' <=> Chain0) /\ (Chain1' <=> Chain1) /\ (Chain2' <=> Chain2)
    BY <1>1, <2>1, SameChains
  <2>3. state' \in {"WAIT_WR_XFR_DONE", "GET_DATA_RD"}
    BY <1>1, <1>5
    DEF PacedInv, BusInv, InWrite, InRead, SendsWrite, SendsRead, Waits, Polls,
        Fetches
  <2>4. QED
    BY <1>1, <1>2, <1>3, <1>4, <2>1, <2>2, <2>3 DEF AckInv, Gathered, Sending
<1>6. CASE wbReq.addr = "DATA"
  <2>1. /\ isRd /\ afterAck = AfterData /\ rd1Rcvd' /\ DataAck
        /\ outValid' = rd1Rcvd /\ out' = WithByte(wbByte)
    BY <1>1, <1>6
    DEF WbReadAck, PacedInv, BusInv, InWrite, InRead, SendsWrite, SendsRead,
        Waits, Polls, Fetches, DataAck
  <2>2. (ReadsOne /\ Chain1) \/ (HasRead /\ Chain2)
    <3>1. ~Sending /\ ~Chain0 /\ state # "IDLE"
      BY <1>1, <2>1 DEF Sending, Chain0, GotNone
    <3>2. QED
      BY <2>1, <3>1 DEF AckInv, Gathered
  <2>3. CASE rd1Rcvd
    <3>1. HasRead /\ GotBoth /\ Holds(<<>>, <<>>) /\ state' = "IDLE"
      BY <1>1, <2>1, <2>2, <2>3
      DEF AfterData, Chain1, Chain2, GotNone, GotOne, GotBoth
    <3>2. QED
      BY <1>1, <1>2, <1>3, <1>4, <3>1, DoneIsNoRead DEF AckInv
  <2>4. CASE ~rd1Rcvd
    <3>1. GotOne /\ state' = "GET_RD_STS" /\ wbByte = Lo /\ ~outValid'
      BY <1>1, <2>1, <2>2, <2>4
      DEF AfterData, Chain1, Chain2, GotNone, GotOne, GotBoth
    <3>2. out'.lo = Lo
      BY <2>1, <2>4, <3>1 DEF WithByte
    <3>3. GotOne'
      BY <1>1, <1>4, <2>1, <3>2 DEF GotOne
    <3>4. (Chain1 => Chain1') /\ (Chain2 => Chain2')
      BY <1>1, <1>4, <2>1, <2>4, <3>1, <3>3
      DEF Chain1, Chain2, Holds, GotNone, GotBoth
    <3>5. QED
      BY <1>1, <1>2, <1>3, <2>1, <2>2, <3>1, <3>4 DEF AckInv, Gathered, Sending
  <2>5. QED
    BY <2>3, <2>4
<1>7. QED
  BY <1>5, <1>6

LEMMA NothingMissed ==
  ASSUME PacedInv, AckInv, AlwaysAcks, BusNext
  PROVE  ~nackSeen' /\ ~wbMissed'
<1>1. ~nackSeen /\ ~wbMissed
  BY DEF AckInv, Acked
<1>2. CASE AddressSent
  BY <1>1, <1>2, ControllerAssumption DEF AddressSent, Acknowledge, AlwaysAcks
<1>3. CASE ByteWritten
  <2>1. mState = "WRITE_2"
    BY <1>3 DEF ByteWritten
  <2>2. \A b, c : ~Sent(b, c)
    BY <2>1 DEF Sent, Bus
  <2>3. Writes \/ ReadsTwo
    BY <2>1, <2>2
    DEF PacedInv, BusInv, TypeOK, SeqTyped, InWrite, InRead, SendsWrite,
        SendsRead, Reads, HasWritten, ReadsOne, HasRead, Bus
  <2>4. cMode # "none"
    BY <1>1, <2>1, <2>3 DEF Writes, ReadsTwo, Bus, Codec
  <2>5. QED
    BY <1>1, <1>3, <2>4, ControllerAssumption
    DEF ByteWritten, Acknowledge, AlwaysAcks
<1>4. CASE MasterAccept \/ TakeByte \/ ByteRead \/ StopSent
  BY <1>1, <1>4 DEF MasterAccept, TakeByte, ByteRead, StopSent, wbVars, histVars
<1>5. QED
  BY <1>2, <1>3, <1>4 DEF BusNext

LEMMA BusAckInv ==
  ASSUME PacedInv, PacedInv', AckInv, AlwaysAcks, BusNext
  PROVE  AckInv'
<1>1. /\ UNCHANGED <<state, afterAck, isRd, rd1Rcvd, dataIn, missedAck, intAddr,
                     wrData, wbReq, wbStatus, wbByte, rdFifo, out, outValid>>
      /\ (Sending' <=> Sending) /\ (DataAck' <=> DataAck)
  BY BusStepKeeps DEF seqVars, Sending, DataAck
<1>2. Acked' /\ ~nackSeen
  BY <1>1, NothingMissed DEF AckInv, Acked
<1>3. CASE state = "IDLE"
  <2>1. HasWritten \/ HasRead
    BY <1>3 DEF AckInv, PacedInv, BusInv, Reads
  <2>2. (HasWritten' \/ HasRead') /\ mOut' = mOut
    <3>1. HasWritten => mOut' = mOut
      BY DEF HasWritten, Bus, BusNext, MasterAccept, AddressSent, TakeByte,
         ByteWritten, ByteRead, StopSent
    <3>2. QED
      BY <2>1, <3>1, HasWrittenStays, HasReadStays DEF PacedInv
  <2>3. ~ReadsTwo' /\ ~ReadsOne'
    BY <2>2, Lengths DEF HasWritten, HasRead, ReadsTwo, ReadsOne, Bus
  <2>4. QED
    BY <1>1, <1>2, <1>3, <2>2, <2>3 DEF AckInv, Holds
<1>4. CASE state # "IDLE" /\ ~isRd
  <2>1. ~ReadsTwo /\ ~ReadsOne
    BY <1>4, WriteIsNoRead DEF PacedInv, BusInv
  <2>2. mState # "READ"
    BY <1>4 DEF PacedInv, BusInv, InWrite, SendsWrite, Writes, HasWritten, Sent, Bus
  <2>3. mOut' = mOut
    BY <2>2
    DEF BusNext, MasterAccept, AddressSent, TakeByte, ByteWritten, ByteRead,
        StopSent
  <2>4. QED
    BY <1>1, <1>2, <1>4, <2>3 DEF AckInv, Holds
<1>5. CASE state # "IDLE" /\ isRd /\ Sending
  <2>1. SendsRead
    BY <1>5 DEF PacedInv, BusInv, InRead, Polls, Fetches, Sending
  <2>2. mState # "READ" /\ mState # "WRITE_2"
    BY <2>1 DEF SendsRead, Sent, Bus
  <2>3. mOut' = mOut /\ cRegs' = cRegs
    BY <2>2
    DEF BusNext, MasterAccept, AddressSent, TakeByte, ByteWritten, ByteRead,
        StopSent, codecVars
  <2>4. Chain0' <=> Chain0
    BY <1>1, <2>3, SameChains
  <2>5. QED
    BY <1>1, <1>2, <1>5, <2>4 DEF AckInv, Gathered
<1>6. CASE state # "IDLE" /\ isRd /\ ~Sending
  <2>1. CASE Sent(<<intAddr>>, RdCmds) /\ Chain0
    <3>1. Sent(<<intAddr>>, RdCmds)' /\ mOut' = mOut /\ cRegs' = cRegs
      <4>1. Sent(<<intAddr>>, RdCmds)' /\ mOut' = mOut
        BY <1>6, <2>1, SentsStay DEF PacedInv
      <4>2. mState # "WRITE_2"
        BY <2>1 DEF Sent, Bus
      <4>3. cRegs' = cRegs
        BY <4>2
        DEF BusNext, MasterAccept, AddressSent, TakeByte, ByteWritten, ByteRead,
            StopSent, codecVars
      <4>4. QED
        BY <4>1, <4>3
    <3>2. Chain0'
      BY <1>1, <2>1, <3>1, SameChains
    <3>3. QED
      BY <1>1, <1>2, <1>6, <3>1, <3>2 DEF AckInv, Gathered
  <2>2. CASE ReadsTwo /\ Chain0
    <3>1. cRegs' = cRegs
      BY <2>2, ReadsTwoMove DEF PacedInv
    <3>2. CASE ReadsTwo' /\ mOut' = mOut
      <4>1. Chain0'
        BY <1>1, <2>2, <3>1, <3>2, SameChains
      <4>2. QED
        BY <1>1, <1>2, <1>6, <3>2, <4>1 DEF AckInv, Gathered
    <3>3. CASE /\ ReadsOne' /\ mState = "READ"
               /\ (cMode = "lo" => mOut' = <<cRegs[cPtr \div 2].lo>>)
      <4>1. cMode = "lo" /\ cPtr = intAddr
        BY <1>2, <2>2, <3>3 DEF ReadsTwo, Bus, Codec, PtrIfAcked
      <4>2. mOut' = <<Lo>> /\ Lo' = Lo
        BY <1>1, <3>1, <3>3, <4>1 DEF Lo, Target
      <4>3. Chain1'
        BY <1>1, <2>2, <4>2 DEF Chain0, Chain1, GotNone, Holds
      <4>4. QED
        BY <1>1, <1>2, <1>6, <3>3, <4>3 DEF AckInv, Gathered
    <3>4. QED
      BY <2>2, <3>2, <3>3, ReadsTwoMove DEF PacedInv
  <2>3. CASE ReadsOne /\ Chain1
    <3>1. cRegs' = cRegs
      BY <2>3, ReadsOneMove DEF PacedInv
    <3>2. CASE ReadsOne' /\ mOut' = mOut
      <4>1. Chain1'
        BY <1>1, <2>3, <3>1, <3>2, SameChains
      <4>2. QED
        BY <1>1, <1>2, <1>6, <3>2, <4>1 DEF AckInv, Gathered
    <3>3. CASE /\ HasRead' /\ mOut = <<>>
               /\ (cMode = "hi" => mOut' = <<cRegs[cPtr \div 2].hi>>)
      <4>1. cMode = "hi" /\ cPtr = intAddr
        BY <1>2, <2>3 DEF ReadsOne, Codec, PtrIfAcked
      <4>2. mOut' = <<Hi>> /\ Lo' = Lo /\ Hi' = Hi
        BY <1>1, <3>1, <3>3, <4>1 DEF Lo, Hi, Target
      <4>3. /\ GotNone' <=> GotNone
            /\ GotOne' <=> GotOne
        BY <1>1, <4>2 DEF GotNone, GotOne
      <4>4. mOut # <<Lo>>
        BY <3>3, Bits DEF PacedInv
      <4>5. (GotNone /\ rdFifo = <<Lo>>) \/ (GotOne /\ rdFifo = <<>>)
        BY <2>3, <4>4, Zenon DEF Chain1, Holds
      <4>6. Chain2'
        BY <1>1, <4>2, <4>3, <4>5 DEF Chain2, Holds
      <4>7. QED
        BY <1>1, <1>2, <1>6, <3>3, <4>6 DEF AckInv, Gathered
    <3>4. QED
      BY <2>3, <3>2, <3>3, ReadsOneMove DEF PacedInv
  <2>4. CASE HasRead /\ Chain2
    <3>1. HasRead' /\ cRegs' = cRegs /\ mOut' = mOut
      BY <2>4, HasReadStays DEF PacedInv
    <3>2. Chain2'
      BY <1>1, <2>4, <3>1, SameChains
    <3>3. QED
      BY <1>1, <1>2, <1>6, <3>1, <3>2 DEF AckInv, Gathered
  <2>5. QED
    BY <1>6, <2>1, <2>2, <2>3, <2>4 DEF AckInv, Gathered
<1>7. QED
  BY <1>3, <1>4, <1>5, <1>6

LEMMA Joined ==
  ASSUME NEW S, NEW x \in S, NEW y \in S
  PROVE  <<>> \o <<x>> = <<x>> /\ <<x>> \o <<y>> = <<x, y>>
<1>1. <<>> \o <<x>> = <<x>>
  <2>1. <<x>> \in Seq(S)
    OBVIOUS
  <2>2. QED
    BY <2>1, ConcatEmptySeq
<1>2. <<x>> \o <<y>> = <<x, y>>
  <2> DEFINE s == <<x>>
             t == <<y>>
             u == <<x, y>>
  <2>1. /\ s \in Seq(S) /\ Len(s) = 1 /\ s[1] = x
        /\ t \in Seq(S) /\ Len(t) = 1 /\ t[1] = y
        /\ u \in Seq(S) /\ Len(u) = 2 /\ u[1] = x /\ u[2] = y
    OBVIOUS
  <2> HIDE DEF s, t, u
  <2>2. s \o t \in Seq(S) /\ Len(s \o t) = 2 /\ (s \o t)[1] = x /\ (s \o t)[2] = y
    BY <2>1, ConcatProperties
  <2>3. \A i \in 1 .. Len(s \o t) : (s \o t)[i] = u[i]
    <3> TAKE i \in 1 .. Len(s \o t)
    <3>1. i = 1 \/ i = 2
      BY <2>2
    <3>2. QED
      BY <2>1, <2>2, <3>1
  <2>4. s \o t = u
    BY <2>1, <2>2, <2>3, SeqEqual
  <2>5. QED
    BY <2>4 DEF s, t, u
<1>3. QED
  BY <1>1, <1>2

LEMMA PushAckInv ==
  ASSUME PacedInv, PacedInv', AckInv, PushRead
  PROVE  AckInv'
<1>1. /\ UNCHANGED <<seqVars, wbReq, wbStatus, wbByte, wbMissed>>
      /\ UNCHANGED <<cmdFifo, wrFifo, mState, mRead, mByte, codecVars, histVars>>
      /\ rdFifo' = rdFifo \o mOut /\ mOut' = <<>> /\ mOut # <<>>
  BY DEF PushRead, wbVars
<1>2. /\ UNCHANGED <<state, isRd, rd1Rcvd, dataIn, missedAck, out, outValid,
                     intAddr, wrData, cRegs, cMode, polled, nackSeen>>
      /\ (Sending' <=> Sending) /\ (DataAck' <=> DataAck)
  BY <1>1 DEF seqVars, codecVars, histVars, Sending, DataAck
<1>3. Acked'
  BY <1>1, <1>2 DEF AckInv, Acked
<1>4. state # "IDLE" /\ isRd
  BY <1>1 DEF AckInv, Holds
<1>5. /\ ReadsTwo' <=> ReadsTwo
      /\ ReadsOne' <=> ReadsOne
      /\ HasRead' <=> HasRead
  BY <1>1, <1>2, SameBus
<1>6. /\ Lo' = Lo /\ Hi' = Hi
      /\ GotNone' <=> GotNone
      /\ GotOne' <=> GotOne
  BY <1>1, <1>2 DEF Lo, Hi, Target, GotNone, GotOne
<1>7. ~Chain0
  BY <1>1 DEF Chain0, Holds
<1>8. /\ Lo \in Byte /\ Hi \in Byte
      /\ <<>> \o <<Lo>> = <<Lo>> /\ <<>> \o <<Hi>> = <<Hi>>
      /\ <<Lo>> \o <<Hi>> = <<Lo, Hi>>
  BY Bits, Joined DEF PacedInv
<1>9. Chain1 => Chain1'
  <2>1. Chain1 => GotNone /\ rdFifo = <<>> /\ mOut = <<Lo>>
    BY <1>1 DEF Chain1, Holds
  <2>2. QED
    BY <1>1, <1>6, <1>8, <2>1 DEF Chain1, Holds
<1>10. Chain2 => Chain2'
  <2>1. Chain2 => \/ GotNone /\ rdFifo = <<Lo>> /\ mOut = <<Hi>>
                  \/ GotOne /\ rdFifo = <<>> /\ mOut = <<Hi>>
    BY <1>1 DEF Chain2, Holds
  <2>2. QED
    BY <1>1, <1>6, <1>8, <2>1 DEF Chain2, Holds
<1>11. QED
  BY <1>2, <1>3, <1>4, <1>5, <1>7, <1>9, <1>10 DEF AckInv, Gathered

LEMMA StutterAckInv ==
  ASSUME UNCHANGED vars, AckInv
  PROVE  AckInv'
<1>1. /\ UNCHANGED <<state, isRd, rd1Rcvd, dataIn, missedAck, out, outValid,
                     intAddr, wrData, wbReq, wbStatus, wbByte, wbMissed, rdFifo,
                     mOut>>
      /\ UNCHANGED <<cmdFifo, wrFifo, mState, mRead, mByte, codecVars, cRegs,
                     cMode, polled, nackSeen>>
      /\ (Sending' <=> Sending) /\ (DataAck' <=> DataAck)
  BY DEF vars, seqVars, wbVars, fifoVars, masterVars, codecVars, histVars,
     Sending, DataAck
<1>2. (Chain0' <=> Chain0) /\ (Chain1' <=> Chain1) /\ (Chain2' <=> Chain2)
      /\ (Holds(<<>>, <<>>)' <=> Holds(<<>>, <<>>))
  BY <1>1, SameChains
<1>3. /\ ReadsTwo' <=> ReadsTwo
      /\ ReadsOne' <=> ReadsOne
      /\ HasRead' <=> HasRead
      /\ Sent(<<intAddr>>, RdCmds)' <=> Sent(<<intAddr>>, RdCmds)
  BY <1>1, SameBus, SameSent
<1>4. QED
  BY <1>1, <1>2, <1>3 DEF AckInv, Acked, Gathered

LEMMA InitAckInv == Init => AckInv
  BY DEF Init, AckInv, Acked, Holds, NoStatus, ReadsTwo, ReadsOne, Bus

LEMMA AckInvStep ==
  Paced /\ AlwaysAcks /\ PacedInv /\ PacedInv' /\ AckInv /\ [Next]_vars => AckInv'
<1> SUFFICES ASSUME Paced, AlwaysAcks, PacedInv, PacedInv', AckInv, [Next]_vars
             PROVE  AckInv'
  OBVIOUS
<1>1. CASE Request
  BY <1>1, RequestAckInv
<1>2. CASE SeqNext
  <2>1. CASE state = "IDLE"
    <3>1. IdleTick
      BY <1>2, <2>1
      DEF SeqNext, WriteDevAddr, WriteIntAddr, WriteData, WriteWbCmd, WrStopCmd,
          PollBusy, BusyRose, BusyFell, GetRdSts, GetDataRd, ReadWbReg
    <3>2. QED
      BY <3>1, IdleAckInv
  <2>2. CASE state # "IDLE"
    BY <1>2, <2>2, SeqAckInv
  <2>3. QED
    BY <2>1, <2>2
<1>3. CASE WbNext
  BY <1>3, WbWriteAckInv, WbSampleAckInv, WbReadAckAckInv DEF WbNext
<1>4. CASE BusNext
  BY <1>4, BusAckInv
<1>5. CASE PushRead
  BY <1>5, PushAckInv
<1>6. CASE UNCHANGED vars
  BY <1>6, StutterAckInv
<1>7. QED
  BY <1>1, <1>2, <1>3, <1>4, <1>5, <1>6 DEF Next

\* With a codec that acknowledges, every byte between the codec and the
\* output register is the half of the addressed register it is taken for.
THEOREM AllBytesArrive == Paced /\ AlwaysAcks /\ Spec => []AckInv
<1>1. Paced /\ PacedInv /\ [Next]_vars => PacedInv'
  BY TypeStep, ReadInvStep, BusInvStep DEF PacedInv
<1>2. CASE Paced /\ AlwaysAcks
  <2>1. PacedInv /\ AckInv /\ [Next]_vars => AckInv'
    BY <1>1, <1>2, AckInvStep
  <2>2. QED
    BY <1>2, <2>1, InitAckInv, BusIsOrderly, PTL DEF Spec
<1>3. QED
  BY <1>2
-----------------------------------------------------------------------------
(* The unit is a register file *)

File == IF state # "IDLE" /\ ~isRd THEN [cRegs EXCEPT ![Target] = Written] ELSE cRegs
Op == IF state = "IDLE" THEN {}
      ELSE {[kind |-> IF isRd THEN "rd" ELSE "wr", reg |-> Target]}
Reply == IF outValid THEN {out} ELSE {}

LEMMA PortState ==
  /\ Port!PortInit <=> File \in [Regs -> Value] /\ Op = {} /\ Reply = {}
  /\ UNCHANGED Port!portVars <=> File' = File /\ Op' = Op /\ Reply' = Reply
  /\ \A r \in Regs : Port!PortRead(r) <=> /\ Op = {} /\ Op' = {[kind |-> "rd", reg |-> r]}
                                          /\ Reply' = {} /\ File' = File
  /\ \A r \in Regs, v \in Value :
        Port!PortWrite(r, v) <=> /\ Op = {} /\ Op' = {[kind |-> "wr", reg |-> r]}
                                 /\ File' = [File EXCEPT ![r] = v] /\ Reply' = {}
  /\ Port!PortDone <=> \E o \in Op : /\ Op' = {}
                                     /\ Reply' = IF o.kind = "rd" THEN {File[o.reg]} ELSE {}
                                     /\ File' = File
  /\ Port!PortQuiet <=> Reply # {} /\ Reply' = {} /\ File' = File /\ Op' = Op
  BY DEF Port!PortInit, Port!portVars, Port!PortRead, Port!PortWrite,
     Port!PortDone, Port!PortQuiet, File, Op, Reply

LEMMA Unseen ==
  ASSUME PacedInv, [Next]_vars, UNCHANGED <<intAddr, wrData, isRd>>,
         state = "IDLE" <=> state' = "IDLE",
         outValid' <=> outValid, outValid => out' = out
  PROVE  UNCHANGED Port!portVars
<1>1. Target' = Target /\ Written' = Written
  BY DEF Target, Written
<1>2. cRegs \in [Regs -> Value] /\ Target \in Regs
  BY ByteRange DEF PacedInv, TypeOK, SeqTyped, CodecTyped, Target
<1>3. File' = File
  BY <1>1, <1>2, RegsChange DEF File
<1>4. Op' = Op /\ Reply' = Reply
  BY <1>1 DEF Op, Reply
<1>5. QED
  BY <1>3, <1>4, PortState

LEMMA PortTakes ==
  ASSUME PacedInv, Request
  PROVE  Port!PortNext
<1>1. PICK rd \in BOOLEAN, wr \in BOOLEAN, r \in Regs, v \in Values : TakeRequest(rd, wr, r, v)
  BY DEF Request
<1>2. /\ state = "IDLE" /\ state' = "WRITE_DEV_ADDR" /\ (rd \/ wr)
      /\ cRegs' = cRegs /\ isRd' = rd /\ ~outValid'
      /\ intAddr' = 2 * r + (IF wr THEN v.hi ELSE 0)
      /\ wrData' = IF wr THEN v.lo ELSE 0
  BY <1>1 DEF TakeRequest, codecVars
<1>3. v \in Value /\ v.hi \in 0 .. 1 /\ v = [hi |-> v.hi, lo |-> v.lo] /\ r \in Nat
  BY ControllerAssumption DEF Value, Regs
<1>4. \A h \in 0 .. 1 : (2 * r + h) \div 2 = r /\ (2 * r + h) % 2 = h
  BY <1>3
<1>5. Target' = r /\ (wr => Written' = v)
  BY <1>2, <1>3, <1>4 DEF Target, Written
<1>6. Op = {} /\ Reply' = {} /\ File = cRegs
  BY <1>2 DEF Op, Reply, File
<1>7. CASE rd
  <2>1. Op' = {[kind |-> "rd", reg |-> r]} /\ File' = File
    BY <1>2, <1>5, <1>6, <1>7 DEF Op, File
  <2>2. QED
    BY <1>6, <2>1, PortState DEF Port!PortNext
<1>8. CASE ~rd
  <2>1. Op' = {[kind |-> "wr", reg |-> r]} /\ File' = [File EXCEPT ![r] = v]
    BY <1>2, <1>5, <1>6, <1>8 DEF Op, File
  <2>2. QED
    BY <1>3, <1>6, <2>1, PortState DEF Port!PortNext
<1>9. QED
  BY <1>7, <1>8

\* An operation ends.
LEMMA PortEnds ==
  ASSUME PacedInv, [Next]_vars, state # "IDLE", state' = "IDLE",
         UNCHANGED <<intAddr, wrData, isRd>>, cRegs' = cRegs,
         ~isRd => ~outValid' /\ cRegs[Target] = Written,
         isRd => outValid' /\ out' = cRegs[Target]
  PROVE  Port!PortNext
<1>1. cRegs \in [Regs -> Value] /\ Target \in Regs
  BY ByteRange DEF PacedInv, TypeOK, SeqTyped, CodecTyped, Target
<1>2. File' = cRegs
  BY DEF File
<1>3. File = cRegs
  BY <1>1 DEF File
<1>4. Op' = {}
  BY DEF Op
<1>5. CASE isRd
  BY <1>2, <1>3, <1>4, <1>5, PortState DEF Port!PortNext, Op, Reply
<1>6. CASE ~isRd
  BY <1>2, <1>3, <1>4, <1>6, PortState DEF Port!PortNext, Op, Reply
<1>7. QED
  BY <1>5, <1>6

LEMMA PortStep ==
  ASSUME PacedInv, PacedInv', AckInv, AckInv', [Next]_vars
  PROVE  [Port!PortNext]_(Port!portVars)
<1>1. CASE Request
  BY <1>1, PortTakes
<1>2. CASE IdleTick
  <2>1. state = "IDLE" /\ state' = "IDLE" /\ cRegs' = cRegs /\ ~outValid'
    BY <1>2 DEF IdleTick, codecVars
  <2>2. File' = File /\ Op' = Op /\ Reply' = {}
    BY <2>1 DEF File, Op, Reply
  <2>3. QED
    BY <2>2, PortState DEF Port!PortNext
<1>3. CASE SeqNext /\ ~IdleTick
  <2>0. state # "IDLE"
    BY <1>3
    DEF SeqNext, WriteDevAddr, WriteIntAddr, WriteData, WriteWbCmd, WrStopCmd,
        PollBusy, BusyRose, BusyFell, GetRdSts, GetDataRd, ReadWbReg
  <2>1. SeqOnly
    BY <1>3, <2>0, SeqStepIsSeqOnly DEF PacedInv
  <2>2. UNCHANGED <<isRd, intAddr, wrData, cRegs>>
    BY <2>1 DEF SeqOnly, codecVars
  <2>3. UNCHANGED <<out, outValid>> /\ ~outValid
    BY <1>3, <2>0
    DEF AckInv, SeqNext, WriteDevAddr, WriteIntAddr, WriteData, WriteWbCmd,
        WrStopCmd, PollBusy, BusyRose, BusyFell, GetRdSts, GetDataRd, ReadWbReg,
        IssueWrite
  <2>4. CASE state' # "IDLE"
    BY <2>0, <2>2, <2>3, <2>4, Unseen
  <2>5. CASE state' = "IDLE"
    <3>1. ~isRd
      BY <1>3, <2>5
      DEF AckInv, Acked, SeqNext, WriteDevAddr, WriteIntAddr, WriteData,
          WriteWbCmd, WrStopCmd, PollBusy, BusyRose, BusyFell, GetRdSts,
          GetDataRd, ReadWbReg, IssueWrite
    <3>2. Stored
      <4>1. BusyFell
        BY <1>3, <2>5, <3>1
        DEF PacedInv, BusInv, SeqNext, WriteDevAddr, WriteIntAddr, WriteData,
            WriteWbCmd, WrStopCmd, PollBusy, BusyRose, BusyFell, GetRdSts,
            GetDataRd, ReadWbReg, IssueWrite, IdleTick, InWrite, SendsWrite,
            Polls, Waits
      <4>2. QED
        BY <2>0, <3>1, <4>1
        DEF PacedInv, BusInv, BusyFell, TransferDone, InWrite, SendsWrite, Polls,
            Waits, BusySeen, DoneSeen
    <3>3. QED
      BY <2>0, <2>2, <2>3, <2>5, <3>1, <3>2, PortEnds DEF Stored, AckInv, Acked
  <2>6. QED
    BY <2>4, <2>5
<1>4. CASE WbWrite \/ WbSample
  <2>1. UNCHANGED <<isRd, intAddr, wrData, out, outValid>>
    BY <1>4 DEF WbWrite, WbSample, seqVars
  <2>2. state # "IDLE" /\ state' # "IDLE"
    BY <1>4
    DEF PacedInv, ReadInv, WaitsForAccess, ReturnStates, WbWrite, WbSample,
        seqVars
  <2>3. QED
    BY <2>1, <2>2, Unseen
<1>5. CASE WbReadAck
  <2>1. /\ UNCHANGED <<isRd, intAddr, wrData, cRegs>>
        /\ state = "WAIT_FOR_RD_ACK" /\ state' = afterAck /\ wbReq.op = "ack"
        /\ ~outValid /\ wbReq.addr = nextAddr
    BY <1>5 DEF WbReadAck, PacedInv, ReadInv, WaitsForAccess, AckInv, codecVars
  <2>2. CASE state' # "IDLE"
    <3>1. ~outValid'
      BY <2>2 DEF AckInv
    <3>2. QED
      BY <2>1, <2>2, <3>1, Unseen
  <2>3. CASE state' = "IDLE"
    <3>1. isRd /\ wbReq.addr = "DATA" /\ rd1Rcvd
      BY <2>1, <2>3
      DEF PacedInv, BusInv, InWrite, InRead, SendsWrite, SendsRead, Waits, Polls,
          Fetches, AfterData
    <3>2. GotBoth
      <4>1. (ReadsOne /\ Chain1) \/ (HasRead /\ Chain2)
        <5>1. ~Sending /\ ~Chain0 /\ state # "IDLE"
          BY <2>1, <3>1 DEF Sending, Chain0, GotNone
        <5>2. QED
          BY <3>1, <5>1 DEF AckInv, Gathered
      <4>2. QED
        BY <2>1, <3>1, <4>1 DEF Chain1, Chain2, GotNone, GotOne, DataAck
    <3>3. outValid' /\ out' = [out EXCEPT !.hi = wbByte % 2]
      BY <1>5, <3>1 DEF WbReadAck, WithByte
    <3>4. /\ Hi \in 0 .. 1 /\ cRegs[Target] = [hi |-> Hi, lo |-> Lo]
          /\ out \in [hi : 0 .. 1, lo : Byte]
      BY Bits DEF PacedInv, TypeOK, SeqTyped, Value
    <3>5. wbByte % 2 = Hi /\ out.lo = Lo
      BY <3>2, <3>4 DEF GotBoth
    <3>6. out' = [hi |-> Hi, lo |-> Lo]
      BY <3>3, <3>4, <3>5
    <3>7. QED
      BY <2>1, <2>3, <3>1, <3>3, <3>4, <3>6, PortEnds
  <2>4. QED
    BY <2>2, <2>3
<1>6. CASE BusNext
  <2>1. UNCHANGED seqVars
    BY <1>6, BusStepKeeps
  <2>2. QED
    BY <2>1, Unseen DEF seqVars
<1>7. CASE PushRead
  <2>1. UNCHANGED seqVars
    BY <1>7 DEF PushRead
  <2>2. QED
    BY <2>1, Unseen DEF seqVars
<1>8. CASE UNCHANGED vars
  <2>1. UNCHANGED seqVars
    BY <1>8 DEF vars
  <2>2. QED
    BY <2>1, Unseen DEF seqVars
<1>9. QED
  BY <1>1, <1>2, <1>3, <1>4, <1>5, <1>6, <1>7, <1>8 DEF Next, WbNext

\* The unit, paced and with a codec that acknowledges, does only what
\* ControllerPort allows: each step starts an operation, ends one with the
\* register's value, takes the answer back, or is not seen.
THEOREM PortIsImplemented == Paced /\ AlwaysAcks /\ Spec => Port!PortSteps
<1>1. Init => Port!PortInit
  BY InitTyped, PortState DEF Init, File, Op, Reply, TypeOK, CodecTyped
<1>2. PacedInv /\ PacedInv' /\ AckInv /\ AckInv' /\ [Next]_vars => [Port!PortNext]_(Port!portVars)
  BY PortStep
<1>3. QED
  BY <1>1, <1>2, BusIsOrderly, AllBytesArrive, PTL DEF Spec, Port!PortSteps
=============================================================================
