---------------------------- MODULE CodecUnitProofs ----------------------------
(***************************************************************************)
(* Theorems about CodecUnit, for any registers, values and number of       *)
(* calls, either driver, any length of a transfer, and any gap of at least *)
(* three clocks between two accesses.                                      *)
(***************************************************************************)
EXTENDS CodecUnit, SequenceTheorems, TLAPS

-----------------------------------------------------------------------------
(* The invariant *)
\* The controller is at rest.
Still == phase = "IDLE" /\ ~seqBusy

\* The unit is initialized, at rest, and has nothing to do.
Ready == initDone /\ ~resetBit /\ ~wrBit /\ ~rdBit /\ Still

\* The two registers of the init unit, its enable and the read it asks for.
InitInv ==
  /\ initDone => initNs = "DONE" /\ initCs = "DONE" /\ ~initRdEn
  /\ ~initDone =>
       \/ /\ <<initNs, initCs>> \in {<<"START", "START">>, <<"REG_RD", "START">>,
                                     <<"REG_RD", "REG_RD">>}
          /\ ~initRdEn /\ Still
       \/ initNs = "WAIT" /\ initCs = "REG_RD" /\ initRdEn /\ Still
       \/ initNs = "WAIT" /\ initCs = "WAIT" /\ (initRdEn => phase = "XFER")
       \/ initNs = "DONE" /\ initCs \in {"WAIT", "DONE"} /\ ~initRdEn /\ Still

HwInv ==
  /\ resetBit => ~initDone /\ initNs = "START" /\ initCs = "START" /\ Still
  /\ phase # "IDLE" => seqBusy
  /\ phase # "IDLE" => ~answered
  /\ seqValid => seqBusy /\ phase = "IDLE" /\ answered
  /\ phase = "XFER" /\ op.kind = "wr" => op.val \in Value
  /\ phase = "DATA" => /\ op.kind = "rd"
                       /\ orderly => rdPairs # <<>>
                       /\ orderly /\ ~opMissed /\ Len(rdPairs) = 1 =>
                            rdPairs[1] = file[op.reg]
  /\ InitInv

\* A request is taken in the clock after it was made, and its bit falls in the next:
\* before the driver's next access, which is the first that can see the busy bit.
RequestInv ==
  /\ wrBit \/ rdBit =>
       /\ initDone /\ ~resetBit /\ ~(wrBit /\ rdBit)
       /\ \/ gap = AxiGap - 1 /\ Still
          \/ /\ gap = AxiGap - 2 /\ phase = "XFER" /\ op.reg = addrReg
             /\ wrBit => op.kind = "wr" /\ op.val = wrReg
             /\ rdBit => op.kind = "rd"
  /\ wrBit => wrReg \in Value
  /\ gap < AxiGap - 2 /\ ~busyBit => Ready

Answered == pc = "idle" /\ ret.kind = "ok" /\ call.kind # "reset"
Serving == pc \in {"poll", "valid", "clear", "fetch"} \/ Answered
Kicking == pc \in {"kickRead", "kick"} /\ call.kind # "reset"

\* What each place of the driver knows of the call and of the controller.
PlaceInv ==
  /\ pc # "idle" /\ call.kind = "wr" => call.val \in Value
  /\ pc \in {"check", "statusRead", "statusWrite", "addr", "poll"} =>
       call.kind \in {"rd", "wr"}
  /\ pc = "data" => call.kind = "wr"
  /\ pc \in {"valid", "clear", "fetch"} => call.kind = "rd"
  /\ pc = "resetPoll" => call.kind = "reset"
  /\ \/ pc \in {"statusRead", "statusWrite", "addr", "data", "valid", "clear", "fetch"}
     \/ Kicking \/ Answered
     => Ready
  /\ driver = "C" /\ pc # "poll" => ~initDone \/ Ready
  /\ driver = "C" /\ pc \in {"statusWrite", "kick"} =>
       /\ "wr" \notin status /\ "rd" \notin status
       /\ call.kind # "reset" => "reset" \notin status
  /\ driver = "C" /\ pc = "statusWrite" /\ validBit => "valid" \in status
  /\ pc \in {"addr", "data"} \/ Kicking => ~validBit
  /\ pc \in {"clear", "fetch"} => answered
  /\ Answered /\ call.kind = "rd" => answered
  /\ pc = "data" \/ Kicking => addrReg = call.reg
  /\ Kicking /\ call.kind = "wr" => wrReg = call.val

\* What has become of the call's operation: from the clock of the kick on, the
\* registers hold what was asked for; once the bit has fallen the controller has
\* it, and when that is at rest again the operation is done.
Held == initDone /\ ~resetBit /\ addrReg = call.reg

WriteServed ==
  call.kind = "wr" =>
    /\ ~rdBit /\ wrReg = call.val
    /\ ~wrBit => /\ op.kind = "wr" /\ op.reg = call.reg /\ op.val = call.val
                 /\ orderly /\ phase = "IDLE" /\ ~opMissed =>
                      file[call.reg] = call.val

ReadServed ==
  call.kind = "rd" =>
    /\ ~wrBit
    /\ validBit => ~rdBit /\ answered
    /\ ~rdBit => /\ op.kind = "rd" /\ op.reg = call.reg
                 /\ answered => seqValid \/ rdReg = seqOut
                 /\ answered /\ orderly /\ ~opMissed /\ rdPairs = <<>> =>
                      file[call.reg] = seqOut

Served == Held /\ WriteServed /\ ReadServed

ServeInv ==
  /\ Serving => Served
  /\ Answered => ret.val = IF call.kind = "wr" THEN call.val ELSE Seen(rdReg)

UnitInv == TypeOK /\ HwInv /\ RequestInv /\ PlaceInv /\ ServeInv
-----------------------------------------------------------------------------
(* Sequences *)

LEMMA First ==
  ASSUME NEW S, NEW s \in Seq(S), s # <<>>
  PROVE  /\ Head(s) \in S /\ Head(s) = s[1]
         /\ Tail(s) \in Seq(S)
         /\ Tail(s) = <<>> => Len(s) = 1
<1>1. Head(s) \in S /\ Tail(s) \in Seq(S) /\ Len(Tail(s)) = Len(s) - 1
  BY HeadTailProperties
<1>2. Len(s) \in Nat
  BY LenProperties
<1>3. Head(s) = s[1]
  OBVIOUS
<1>4. Tail(s) = <<>> => Len(Tail(s)) = 0
  BY EmptySeq
<1> QED BY <1>1, <1>2, <1>3, <1>4

LEMMA Appended ==
  ASSUME NEW S, NEW s \in Seq(S), NEW v \in S
  PROVE  /\ Append(s, v) \in Seq(S) /\ Append(s, v) # <<>>
         /\ Len(Append(s, v)) = 1 => Append(s, v)[1] = v
<1>1. /\ Append(s, v) \in Seq(S) /\ Append(s, v) # <<>>
      /\ Len(Append(s, v)) = Len(s) + 1
      /\ Append(s, v)[Len(s) + 1] = v
  BY AppendProperties
<1>2. Len(s) \in Nat
  BY LenProperties
<1>3. Len(Append(s, v)) = 1 => Len(s) + 1 = 1
  BY <1>1
<1> QED BY <1>1, <1>3

-----------------------------------------------------------------------------
(* One clock of the hardware *)

HwTypes ==
  /\ {wrBit, rdBit, busyBit, initBit, validBit, missedBit, resetBit} \subseteq BOOLEAN
  /\ addrReg \in Regs /\ wrReg \in Value \cup {Zero}
  /\ rdReg \in Value \cup {Zero, Cafe}
  /\ initNs \in {"START", "REG_RD", "WAIT", "DONE"}
  /\ initCs \in {"START", "REG_RD", "WAIT", "DONE"}
  /\ initRdEn \in BOOLEAN /\ initDone \in BOOLEAN
  /\ phase \in {"IDLE", "XFER", "DATA", "STUCK"} /\ age \in 0 .. MinXfer
  /\ op \in [kind : {"rd", "wr"}, reg : Regs, val : Value \cup {Zero}]
  /\ {seqBusy, seqValid, seqMissed, orderly, answered, opMissed} \subseteq BOOLEAN
  /\ seqOut \in Value \cup {Zero} /\ rdPairs \in Seq(Value) /\ file \in [Regs -> Value]

\* The writes the hardware may see.
Typed(w) == /\ w.addr = "ADDR" => w.val \in Regs
            /\ w.addr = "WR_DATA" => w.val \in Value

Sets(w, b) == w.addr = "CTRL" /\ b \in w.bits

\* A write that starts nothing, and one that does not touch the data either.
Plain(w) == ~Sets(w, "wr") /\ ~Sets(w, "rd")
Quiet(w) == Plain(w) /\ ~Sets(w, "reset") /\ w.addr \notin {"ADDR", "WR_DATA"}

Clk(w) ==
  /\ RegistersClk(w)
  /\ \/ resetBit' /\ HeldInReset
     \/ /\ ~resetBit' /\ InitUnitClk
        /\ TransferEnds \/ DataArrives \/ TransferHangs \/ Take \/ Idle \/ Transfer

LEMMA ClkOf ==
  ASSUME NEW w, NEW e \in BOOLEAN, HwClk(w, e)
  PROVE  Clk(w)
<1>1. CASE resetBit'
  BY <1>1 DEF HwClk, Clk
<1>2. CASE ~resetBit'
  BY <1>2 DEF HwClk, Clk
<1> QED BY <1>1, <1>2

\* What the end of a transfer leaves behind.
LEMMA Ended ==
  ASSUME HwTypes, TransferEnds
  PROVE  /\ phase = "XFER"
         /\ UNCHANGED <<op, age, seqBusy, seqValid, seqOut, orderly, answered>>
         /\ opMissed' \in BOOLEAN /\ seqMissed' \in BOOLEAN /\ (seqMissed' => opMissed')
         /\ \/ /\ op.kind = "wr" /\ phase' = "IDLE" /\ UNCHANGED rdPairs
               /\ file' = Written \/ UNCHANGED file
               /\ orderly /\ ~opMissed' => file' = Written
            \/ /\ op.kind = "rd" /\ UNCHANGED file
               /\ phase' = IF seqMissed' THEN "IDLE" ELSE "DATA"
               /\ ~orderly => UNCHANGED rdPairs
               /\ orderly => \E v \in Value : /\ rdPairs' = Append(rdPairs, v)
                                              /\ ~opMissed' => v = file[op.reg]
<1>1. PICK missed \in MissedOutcomes, seen \in MissedOutcomes :
        /\ OrderlyEnd(missed, seen) \/ DisorderlyEnd(missed, seen)
        /\ opMissed' = missed /\ seqMissed' = seen
        /\ phase' = IF op.kind = "rd" /\ ~seen THEN "DATA" ELSE "IDLE"
  BY DEF TransferEnds
<1>2. missed \in BOOLEAN /\ seen \in BOOLEAN
  BY UnitAssumption
<1>3. /\ phase = "XFER"
      /\ UNCHANGED <<op, age, seqBusy, seqValid, seqOut, orderly, answered>>
  BY DEF TransferEnds
<1>4. file[op.reg] \in Value /\ op.kind \in {"rd", "wr"}
  BY DEF HwTypes
<1>5. CASE DisorderlyEnd(missed, seen)
  <2>1. ~orderly /\ (missed <=> seen) /\ UNCHANGED <<rdPairs, file>>
    BY <1>5 DEF DisorderlyEnd
  <2>2. phase' = IF op.kind = "wr" \/ seen THEN "IDLE" ELSE "DATA"
    BY <1>1, <1>4
  <2> QED BY <1>1, <1>2, <1>3, <1>4, <2>1, <2>2
<1>6. CASE OrderlyEnd(missed, seen) /\ op.kind = "wr"
  BY <1>1, <1>2, <1>3, <1>6 DEF OrderlyEnd
<1>7. CASE OrderlyEnd(missed, seen) /\ op.kind = "rd"
  <2>1. PICK v \in IF missed THEN Value ELSE {file[op.reg]} : rdPairs' = Append(rdPairs, v)
    BY <1>7 DEF OrderlyEnd
  <2>2. v \in Value /\ (~missed => v = file[op.reg])
    BY <1>4, <2>1
  <2>3. orderly /\ (seen => missed) /\ UNCHANGED file
    BY <1>7 DEF OrderlyEnd
  <2>4. phase' = IF seen THEN "IDLE" ELSE "DATA"
    BY <1>1, <1>2, <1>7
  <2> QED BY <1>1, <1>2, <1>3, <1>7, <2>1, <2>2, <2>3, <2>4
<1> QED BY <1>1, <1>4, <1>5, <1>6, <1>7

\* The codec's registers after the write in progress.
LEMMA WrittenFile ==
  ASSUME HwTypes, op.val \in Value
  PROVE  Written \in [Regs -> Value] /\ Written[op.reg] = op.val
BY DEF HwTypes, Written

LEMMA RegistersTyped ==
  ASSUME HwTypes, NEW w, Typed(w), RegistersClk(w)
  PROVE  /\ {wrBit', rdBit', busyBit', initBit', validBit', missedBit', resetBit'}
              \subseteq BOOLEAN
         /\ addrReg' \in Regs /\ wrReg' \in Value \cup {Zero}
         /\ rdReg' \in Value \cup {Zero, Cafe}
<1>1. /\ wrBit' \in BOOLEAN /\ rdBit' \in BOOLEAN /\ resetBit' \in BOOLEAN
  BY DEF HwTypes, RegistersClk, Wr1HwClr, ControllerBusy
<1>2. busyBit' \in BOOLEAN
  BY DEF HwTypes, RegistersClk, ControllerBusy
<1>3. initBit' \in BOOLEAN /\ validBit' \in BOOLEAN /\ missedBit' \in BOOLEAN
  BY DEF HwTypes, RegistersClk, Rwc1
<1>4. addrReg' \in Regs /\ wrReg' \in Value \cup {Zero}
  BY DEF HwTypes, RegistersClk, Typed
<1>5. rdReg' \in Value \cup {Zero, Cafe}
  BY DEF HwTypes, RegistersClk, DataOut
<1> QED BY <1>1, <1>2, <1>3, <1>4, <1>5

LEMMA InitTyped ==
  ASSUME HwTypes, InitUnitClk
  PROVE  /\ initNs' \in {"START", "REG_RD", "WAIT", "DONE"}
         /\ initCs' \in {"START", "REG_RD", "WAIT", "DONE"}
         /\ initRdEn' \in BOOLEAN /\ initDone' \in BOOLEAN
BY DEF HwTypes, InitUnitClk

\* The types of the hardware.
LEMMA ClkTypes ==
  ASSUME HwTypes, HwInv, NEW w, Typed(w), Clk(w)
  PROVE  HwTypes'
<1>1. RegistersClk(w)
  BY DEF Clk
<1>2. CASE resetBit' /\ HeldInReset
  <2>1. /\ <<>> \in Seq(Value) /\ 0 \in 0 .. MinXfer
    BY EmptySeq, UnitAssumption
  <2> QED BY <1>1, <1>2, <2>1, RegistersTyped DEF HeldInReset, HwTypes
<1>3. CASE InitUnitClk /\ TransferEnds
  <2>1. file' \in [Regs -> Value]
    BY <1>3, Ended, WrittenFile DEF HwTypes, HwInv
  <2>2. rdPairs' \in Seq(Value)
    BY <1>3, Ended, Appended DEF HwTypes
  <2>3. /\ opMissed' \in BOOLEAN /\ seqMissed' \in BOOLEAN /\ phase' \in {"IDLE", "DATA"}
        /\ UNCHANGED <<op, age, seqBusy, seqValid, seqOut, orderly, answered>>
    <3>1. phase' \in {"IDLE", "DATA"}
      BY <1>3, Ended
    <3> QED BY <1>3, <3>1, Ended
  <2> QED BY <1>1, <1>3, <2>1, <2>2, <2>3, RegistersTyped, InitTyped DEF HwTypes
<1>4. CASE InitUnitClk /\ DataArrives
  <2>1. orderly => rdPairs # <<>>
    BY <1>4 DEF HwInv, DataArrives
  <2>2. orderly => Head(rdPairs) \in Value /\ Tail(rdPairs) \in Seq(Value)
    BY <2>1, First DEF HwTypes
  <2>3. seqOut' \in Value /\ rdPairs' \in Seq(Value)
    BY <1>4, <2>2 DEF HwTypes, DataArrives, DataRead
  <2> QED BY <1>1, <1>4, <2>3, RegistersTyped, InitTyped DEF HwTypes, DataArrives
<1>5. CASE InitUnitClk /\ Take
  <2>1. Reg \in Regs /\ 0 \in 0 .. MinXfer
    BY UnitAssumption DEF Reg, HwTypes
  <2>2. op' \in [kind : {"rd", "wr"}, reg : Regs, val : Value \cup {Zero}]
    BY <1>5, <2>1 DEF Take, HwTypes
  <2> QED BY <1>1, <1>5, <2>1, <2>2, RegistersTyped, InitTyped DEF HwTypes, Take
<1>6. CASE InitUnitClk /\ Idle
  BY <1>1, <1>6, RegistersTyped, InitTyped DEF HwTypes, Idle
<1>7. CASE InitUnitClk /\ Transfer
  <2>1. age' \in 0 .. MinXfer
    BY <1>7, UnitAssumption DEF HwTypes, Transfer
  <2> QED BY <1>1, <1>7, <2>1, RegistersTyped, InitTyped DEF HwTypes, Transfer
<1>8. CASE InitUnitClk /\ TransferHangs
  BY <1>1, <1>8, RegistersTyped, InitTyped DEF HwTypes, TransferHangs
<1> QED BY <1>2, <1>3, <1>4, <1>5, <1>6, <1>7, <1>8 DEF Clk

\* The registers of the init unit in one clock.
LEMMA ClkInit ==
  ASSUME HwTypes, HwInv, InitUnitClk, NEW w, Clk(w), ~resetBit'
  PROVE  InitInv'
<1>1. TransferEnds \/ DataArrives \/ TransferHangs \/ Take \/ Idle \/ Transfer
  BY DEF Clk
<1>2. CASE initDone
  BY <1>2 DEF HwInv, InitInv, InitUnitClk
<1>3. CASE /\ ~initDone /\ ~initRdEn /\ Still
           /\ <<initNs, initCs>> \in {<<"START", "START">>, <<"REG_RD", "START">>,
                                      <<"REG_RD", "REG_RD">>}
  <2>1. Still'
    BY <1>1, <1>3, Ended DEF Still, RdEn, WrEn, Take, Idle, DataArrives, TransferHangs,
       Transfer
  <2>2. initNs \in {"START", "REG_RD"} /\ initCs \in {"START", "REG_RD"}
        /\ (initCs = "REG_RD" => initNs = "REG_RD")
    BY <1>3
  <2>3. CASE initCs = "START"
    BY <1>3, <2>1, <2>2, <2>3 DEF InitUnitClk, InitInv
  <2>4. CASE initCs = "REG_RD"
    BY <1>3, <2>1, <2>2, <2>4 DEF InitUnitClk, InitInv
  <2> QED BY <2>2, <2>3, <2>4
<1>4. CASE ~initDone /\ initNs = "WAIT" /\ initCs = "REG_RD" /\ initRdEn /\ Still
  <2>1. phase' = "XFER"
    BY <1>1, <1>4, Ended DEF Still, RdEn, Take, Idle, DataArrives, TransferHangs, Transfer
  <2> QED BY <1>4, <2>1 DEF InitUnitClk, InitInv
<1>5. CASE /\ ~initDone /\ initNs = "WAIT" /\ initCs = "WAIT"
           /\ initRdEn => phase = "XFER"
  <2>1. CASE seqValid
    <3>1. phase = "IDLE" /\ ~initRdEn
      BY <1>5, <2>1 DEF HwInv
    <3>2. Still'
      BY <1>1, <1>5, <3>1, Ended DEF Still, RdEn, WrEn, Take, Idle, DataArrives, TransferHangs,
       Transfer
    <3> QED BY <1>5, <2>1, <3>2 DEF InitUnitClk, InitInv
  <2>2. CASE ~seqValid
    BY <1>5, <2>2 DEF InitUnitClk, InitInv
  <2> QED BY <2>1, <2>2
<1>6. CASE ~initDone /\ initNs = "DONE" /\ initCs \in {"WAIT", "DONE"} /\ ~initRdEn /\ Still
  <2>1. Still' /\ ~seqValid
    BY <1>1, <1>6, Ended DEF Still, RdEn, WrEn, Take, Idle, DataArrives, TransferHangs,
       Transfer, HwInv
  <2> QED BY <1>6, <2>1 DEF InitUnitClk, InitInv
<1> QED BY <1>2, <1>3, <1>4, <1>5, <1>6 DEF HwInv, InitInv

\* The invariant of the hardware.
LEMMA ClkInv ==
  ASSUME HwTypes, HwInv, wrBit => wrReg \in Value, NEW w, Typed(w), Clk(w)
  PROVE  HwInv'
<1>1. CASE resetBit' /\ HeldInReset
  BY <1>1 DEF HeldInReset, HwInv, InitInv, Still
<1>2. ASSUME ~resetBit', InitUnitClk
      PROVE  HwInv'
  <2>1. InitInv'
    BY <1>2, ClkInit
  <2>2. CASE TransferEnds
    <3>1. seqBusy' /\ ~seqValid'
      BY <2>2, Ended DEF HwInv
    <3>2. phase' # "XFER"
      BY <2>2, Ended
    <3>3. phase' = "DATA" => /\ op'.kind = "rd"
                             /\ orderly' => rdPairs' # <<>>
                             /\ orderly' /\ ~opMissed' /\ Len(rdPairs') = 1 =>
                                  rdPairs'[1] = file'[op'.reg]
      <4> SUFFICES ASSUME phase' = "DATA"
                   PROVE  /\ op'.kind = "rd"
                          /\ orderly => /\ rdPairs' # <<>>
                                        /\ ~opMissed' /\ Len(rdPairs') = 1 =>
                                             rdPairs'[1] = file'[op'.reg]
        BY <2>2, Ended
      <4>1. /\ UNCHANGED <<file, op>> /\ op.kind = "rd"
            /\ orderly => \E v \in Value : /\ rdPairs' = Append(rdPairs, v)
                                           /\ ~opMissed' => v = file[op.reg]
        BY <2>2, Ended
      <4>2. CASE orderly
        <5>1. PICK v \in Value : /\ rdPairs' = Append(rdPairs, v)
                                 /\ ~opMissed' => v = file[op.reg]
          BY <4>1, <4>2
        <5>2. /\ Append(rdPairs, v) # <<>>
              /\ Len(Append(rdPairs, v)) = 1 => Append(rdPairs, v)[1] = v
          BY Appended DEF HwTypes
        <5> QED BY <4>1, <5>1, <5>2
      <4> QED BY <4>1, <4>2
    <3>4. ~answered'
      BY <2>2, Ended DEF HwInv
    <3> QED BY <1>2, <2>1, <3>1, <3>2, <3>3, <3>4 DEF HwInv
  <2>3. CASE DataArrives
    BY <1>2, <2>1, <2>3 DEF HwInv, DataArrives
  <2>4. CASE Take
    <3>1. op'.kind = "wr" => op'.val \in Value
      BY <2>4 DEF Take, WrEn
    <3> QED BY <1>2, <2>1, <2>4, <3>1 DEF HwInv, Take
  <2>5. CASE Idle
    BY <1>2, <2>1, <2>5 DEF HwInv, Idle
  <2>6. CASE Transfer
    BY <1>2, <2>1, <2>6 DEF HwInv, Transfer
  <2>7. CASE TransferHangs
    BY <1>2, <2>1, <2>7 DEF HwInv, TransferHangs
  <2> QED BY <1>2, <2>2, <2>3, <2>4, <2>5, <2>6, <2>7 DEF Clk
<1> QED BY <1>1, <1>2 DEF Clk

-----------------------------------------------------------------------------
(* What a clock leaves alone *)

\* A unit at rest stays at rest, with all it has to show.
LEMMA ReadyStays ==
  ASSUME HwTypes, HwInv, Ready, NEW w, Plain(w), ~Sets(w, "reset"), Clk(w)
  PROVE  /\ Ready' /\ UNCHANGED <<rdReg, answered>>
         /\ validBit' => validBit /\ ~Sets(w, "valid")
<1>1. /\ initDone /\ ~resetBit /\ ~wrBit /\ ~rdBit /\ phase = "IDLE" /\ ~seqBusy
      /\ ~seqValid
  BY DEF Ready, Still, HwInv
<1>2. ~wrBit' /\ ~rdBit' /\ ~resetBit'
  BY <1>1 DEF Clk, RegistersClk, Wr1HwClr, Plain, Sets
<1>3. rdReg' = rdReg
  BY <1>1, <1>2 DEF Clk, RegistersClk
<1>4. Idle /\ InitUnitClk
  BY <1>1, <1>2 DEF Clk, TransferEnds, DataArrives, TransferHangs, Transfer, Take, RdEn, WrEn
<1>5. validBit' => validBit /\ ~Sets(w, "valid")
  BY <1>1 DEF Clk, RegistersClk, Rwc1, Sets
<1> QED BY <1>1, <1>2, <1>3, <1>4, <1>5 DEF Ready, Still, Idle, InitUnitClk

\* A unit that has just been initialized is at rest.
LEMMA ReadyAtLast ==
  ASSUME HwTypes, HwInv, ~initDone, ~wrBit, ~rdBit, NEW w, Plain(w), Clk(w)
  PROVE  ~initDone' \/ Ready'
<1> SUFFICES ASSUME initDone' PROVE Ready'
  OBVIOUS
<1>1. ~resetBit' /\ InitUnitClk
  BY DEF Clk, HeldInReset
<1>2. initCs = "DONE"
  BY <1>1 DEF InitUnitClk
<1>3. ~initRdEn /\ Still /\ ~seqValid
  BY <1>2 DEF HwInv, InitInv, Still
<1>4. ~wrBit' /\ ~rdBit'
  BY DEF Clk, RegistersClk, Wr1HwClr, Plain, Sets
<1>5. Idle
  BY <1>1, <1>3 DEF Clk, Still, TransferEnds, DataArrives, TransferHangs, Transfer, Take,
     RdEn, WrEn
<1> QED BY <1>1, <1>3, <1>4, <1>5 DEF Ready, Still, Idle

\* Neither a unit that is being initialized nor one at rest has a request on the
\* way, and a write that asks for none leaves it so.
LEMMA RestStays ==
  ASSUME HwTypes, HwInv, RequestInv, ~initDone \/ Ready, NEW w, Plain(w), Clk(w)
  PROVE  ~initDone' \/ Ready'
<1>1. CASE ~initDone
  <2>1. ~wrBit /\ ~rdBit
    BY <1>1 DEF RequestInv
  <2> QED BY <1>1, <2>1, ReadyAtLast
<1>2. CASE Ready /\ ~Sets(w, "reset")
  BY <1>2, ReadyStays
<1>3. CASE Ready /\ Sets(w, "reset")
  <2>1. resetBit'
    BY <1>3 DEF Clk, RegistersClk, Wr1HwClr, Sets
  <2> QED BY <2>1 DEF Clk, HeldInReset
<1> QED BY <1>1, <1>2, <1>3

\* An access comes at the end of a gap, when no request is on its way.
LEMMA AtAccess ==
  ASSUME TypeOK, RequestInv, gap = 0
  PROVE  ~wrBit /\ ~rdBit /\ (~busyBit => Ready)
<1>1. AxiGap \in Nat /\ AxiGap >= 3 /\ AxiGap - 1 # 0 /\ AxiGap - 2 # 0 /\ 0 < AxiGap - 2
  BY UnitAssumption
<1> QED BY <1>1 DEF RequestInv

\* A request goes its way between two accesses.
LEMMA RequestTick ==
  ASSUME TypeOK, HwTypes, HwInv, RequestInv, NEW e \in BOOLEAN, Tick(e)
  PROVE  /\ RequestInv'
         /\ wrBit /\ ~wrBit' => /\ phase # "IDLE"
                                /\ op = [kind |-> "wr", reg |-> addrReg, val |-> wrReg]
         /\ rdBit /\ ~rdBit' => phase # "IDLE" /\ op.kind = "rd" /\ op.reg = addrReg
<1>0. /\ Clk(NoWrite) /\ gap' = IF gap > 0 THEN gap - 1 ELSE 0
      /\ gap \in 0 .. AxiGap - 1 /\ AxiGap \in Nat /\ AxiGap >= 3
  BY ClkOf, UnitAssumption DEF Tick, TypeOK
<1>1. /\ RegistersClk(NoWrite) /\ UNCHANGED <<addrReg, wrReg>>
      /\ wrBit' = (wrBit /\ ~ControllerBusy) /\ rdBit' = (rdBit /\ ~ControllerBusy)
      /\ resetBit' = (resetBit /\ ~initDone) /\ busyBit' = ControllerBusy
  <2>1. RegistersClk(NoWrite)
    BY <1>0 DEF Clk
  <2>2. NoWrite.addr = "none" /\ "none" # "CTRL"
    BY DEF NoWrite
  <2> QED BY <2>1, <2>2 DEF RegistersClk, Wr1HwClr, HwTypes, ControllerBusy
<1>2. CASE ~wrBit /\ ~rdBit
  <2>1. ~wrBit' /\ ~rdBit'
    BY <1>1, <1>2
  <2>2. gap' < AxiGap - 2 /\ ~busyBit' => Ready'
    <3> SUFFICES ASSUME ~busyBit' PROVE Ready'
      OBVIOUS
    <3>1. initDone /\ ~seqBusy
      BY <1>1 DEF ControllerBusy
    <3>2. Ready
      BY <1>2, <3>1 DEF Ready, Still, HwInv
    <3>3. Plain(NoWrite) /\ ~Sets(NoWrite, "reset")
      BY DEF Plain, Sets, NoWrite
    <3> QED BY <1>0, <3>2, <3>3, ReadyStays
  <2> QED BY <1>2, <2>1, <2>2 DEF RequestInv
<1>3. CASE (wrBit \/ rdBit) /\ gap = AxiGap - 1 /\ Still
  <2>1. initDone /\ ~resetBit /\ ~(wrBit /\ rdBit) /\ phase = "IDLE" /\ ~seqBusy
    BY <1>3 DEF RequestInv, Still
  <2>2. wrBit' = wrBit /\ rdBit' = rdBit /\ ~resetBit'
    BY <1>1, <2>1 DEF ControllerBusy, HwTypes
  <2>3. Take /\ InitUnitClk
    BY <1>0, <1>3, <2>1, <2>2
       DEF Clk, TransferEnds, DataArrives, TransferHangs, Transfer, Idle, RdEn, WrEn
  <2>4. /\ initDone' /\ phase' = "XFER" /\ op'.reg = addrReg'
        /\ wrBit => op'.kind = "wr" /\ op'.val = wrReg'
        /\ rdBit => op'.kind = "rd"
    BY <1>1, <2>1, <2>3 DEF Take, InitUnitClk, Reg, RdEn, WrEn
  <2>5. gap' = AxiGap - 2 /\ ~(gap' < AxiGap - 2)
    BY <1>0, <1>3
  <2>6. wrBit' => wrReg' \in Value
    BY <1>1, <2>2 DEF RequestInv
  <2> QED BY <2>1, <2>2, <2>4, <2>5, <2>6 DEF RequestInv
<1>4. CASE (wrBit \/ rdBit) /\ gap = AxiGap - 2 /\ phase = "XFER"
  <2>1. /\ op.reg = addrReg
        /\ wrBit => op.kind = "wr" /\ op.val = wrReg
        /\ rdBit => op.kind = "rd"
    BY <1>4 DEF RequestInv, Still
  <2>2. ControllerBusy
    BY <1>4 DEF HwInv, ControllerBusy
  <2>3. ~wrBit' /\ ~rdBit' /\ busyBit'
    BY <1>1, <2>2
  <2>4. wrBit => op = [kind |-> "wr", reg |-> addrReg, val |-> wrReg]
    BY <2>1 DEF HwTypes
  <2> QED BY <1>4, <2>1, <2>3, <2>4 DEF RequestInv
<1> QED BY <1>2, <1>3, <1>4 DEF RequestInv

\* An access that asks for nothing leaves no request behind.
LEMMA RequestAccess ==
  ASSUME TypeOK, HwTypes, HwInv, RequestInv, NEW w, Plain(w), Clk(w),
         gap = 0, gap' = AxiGap - 1
  PROVE  RequestInv'
<1>1. ~wrBit /\ ~rdBit
  BY AtAccess
<1>2. ~wrBit' /\ ~rdBit'
  BY <1>1 DEF Clk, RegistersClk, Wr1HwClr, Plain, Sets
<1>3. ~(gap' < AxiGap - 2)
  BY UnitAssumption
<1> QED BY <1>2, <1>3 DEF RequestInv

\* A request of one operation, made to a unit at rest.
LEMMA RequestMade ==
  ASSUME HwTypes, HwInv, Ready, NEW w, w.addr = "CTRL", ~Sets(w, "reset"),
         ~(Sets(w, "wr") /\ Sets(w, "rd")), Sets(w, "wr") => wrReg \in Value,
         Clk(w), gap' = AxiGap - 1
  PROVE  /\ RequestInv' /\ initDone' /\ ~resetBit' /\ UNCHANGED <<addrReg, wrReg>>
         /\ wrBit' <=> Sets(w, "wr")
         /\ rdBit' <=> Sets(w, "rd")
         /\ validBit' => validBit
<1>1. /\ initDone /\ ~resetBit /\ ~wrBit /\ ~rdBit /\ phase = "IDLE" /\ ~seqBusy
      /\ ~seqValid
  BY DEF Ready, Still, HwInv
<1>2. /\ wrBit' <=> Sets(w, "wr")
      /\ rdBit' <=> Sets(w, "rd")
      /\ ~resetBit' /\ UNCHANGED <<addrReg, wrReg>>
  BY <1>1 DEF Clk, RegistersClk, Wr1HwClr, Sets, ControllerBusy
<1>3. Idle /\ InitUnitClk
  BY <1>1, <1>2 DEF Clk, TransferEnds, DataArrives, TransferHangs, Transfer, Take, RdEn, WrEn
<1>4. initDone' /\ Still'
  BY <1>1, <1>3 DEF Idle, InitUnitClk, Still
<1>5. ~(gap' < AxiGap - 2)
  BY UnitAssumption
<1>6. validBit' => validBit
  BY <1>1 DEF Clk, RegistersClk, Rwc1
<1> QED BY <1>2, <1>4, <1>5, <1>6 DEF RequestInv

\* An operation under way is carried on, and its result kept.
LEMMA ServedStays ==
  ASSUME TypeOK, HwTypes, HwInv, RequestInv, Served, NEW w, Quiet(w), Clk(w),
         UNCHANGED call
  PROVE  Served'
<1>1. initDone /\ ~resetBit /\ addrReg = call.reg
  BY DEF Served, Held
<1>2. /\ ~resetBit' /\ UNCHANGED <<addrReg, wrReg>>
      /\ wrBit' <=> (wrBit /\ ~seqBusy)
      /\ rdBit' <=> (rdBit /\ ~seqBusy)
  BY <1>1 DEF Clk, RegistersClk, Wr1HwClr, ControllerBusy, Quiet, Plain, Sets, HwTypes
<1>3. InitUnitClk
  BY <1>2 DEF Clk
<1>4. Held'
  BY <1>1, <1>2, <1>3 DEF Held, InitUnitClk
<1>5. \/ TransferEnds
      \/ DataArrives
      \/ TransferHangs
      \/ Take
      \/ Idle
      \/ Transfer
  BY <1>2 DEF Clk
<1>6. Take => wrBit \/ rdBit
  BY <1>1 DEF Take, RdEn, WrEn
<1>7. rdBit /\ ~rdBit' => phase = "XFER" /\ op.kind = "rd" /\ op.reg = addrReg
  BY <1>2 DEF RequestInv, Still
<1>8. wrBit /\ ~wrBit' =>
        phase = "XFER" /\ op.kind = "wr" /\ op.reg = addrReg /\ op.val = wrReg
  BY <1>2 DEF RequestInv, Still
<1>9. WriteServed'
  <2> SUFFICES ASSUME call.kind = "wr" PROVE WriteServed'
    BY DEF WriteServed
  <2>1. ~rdBit' /\ wrReg' = call'.val
    BY <1>2 DEF Served, WriteServed
  <2>2. SUFFICES ASSUME ~wrBit'
                 PROVE  /\ op'.kind = "wr" /\ op'.reg = call'.reg /\ op'.val = call'.val
                        /\ orderly' /\ phase' = "IDLE" /\ ~opMissed' =>
                             file'[call'.reg] = call'.val
    BY <2>1 DEF WriteServed
  <2>3. op.kind = "wr" /\ op.reg = call.reg /\ op.val = call.val /\ ~Take
    <3>1. CASE wrBit
      <4>1. phase = "XFER" /\ op.kind = "wr" /\ op.reg = addrReg /\ op.val = wrReg
        BY <1>8, <2>2, <3>1
      <4> QED BY <1>1, <2>1, <1>2, <4>1 DEF Take
    <3>2. CASE ~wrBit
      BY <3>2, <1>6 DEF Served, WriteServed
    <3> QED BY <3>1, <3>2
  <2>4. phase = "IDLE" => ~wrBit
    BY <1>8, <2>2
  <2>5. orderly /\ phase = "IDLE" /\ ~opMissed => file[call.reg] = call.val
    BY <2>4 DEF Served, WriteServed
  <2>6. CASE TransferEnds
    <3>1. /\ op' = op
          /\ orderly' /\ ~opMissed' => file' = Written
      BY <2>3, <2>6, Ended
    <3>2. op.val \in Value
      BY <2>3, <2>6 DEF HwInv, TransferEnds
    <3> QED BY <2>3, <3>1, <3>2, WrittenFile
  <2>7. CASE DataArrives
    <3>1. op.kind = "rd"
      BY <2>7 DEF HwInv, DataArrives
    <3> QED BY <2>3, <3>1
  <2>8. CASE Idle
    BY <2>3, <2>5, <2>8 DEF Idle
  <2>9. CASE Transfer
    BY <2>3, <2>5, <2>9 DEF Transfer
  <2>10. CASE TransferHangs
    BY <2>3, <2>10 DEF TransferHangs
  <2> QED BY <1>5, <2>3, <2>6, <2>7, <2>8, <2>9, <2>10
<1>10. ReadServed'
  <2> SUFFICES ASSUME call.kind = "rd" PROVE ReadServed'
    BY DEF ReadServed
  <2>1. ~wrBit' /\ (validBit => ~rdBit /\ answered)
    BY <1>2 DEF Served, ReadServed
  <2>2. validBit' => ~rdBit' /\ answered'
    <3> SUFFICES ASSUME validBit' PROVE ~rdBit' /\ answered'
      OBVIOUS
    <3>1. validBit \/ seqValid
      BY DEF Clk, RegistersClk, Rwc1, HwTypes
    <3>2. ~rdBit
      BY <2>1, <3>1 DEF RequestInv, Still, HwInv
    <3>3. answered /\ ~Take
      BY <1>6, <2>1, <3>1, <3>2 DEF HwInv, Served, ReadServed
    <3>4. answered'
      BY <1>5, <3>3, Ended DEF DataArrives, TransferHangs, Idle, Transfer
    <3> QED BY <1>2, <3>2, <3>4
  <2>3. SUFFICES ASSUME ~rdBit'
                 PROVE  /\ op'.kind = "rd" /\ op'.reg = call'.reg
                        /\ answered' => seqValid' \/ rdReg' = seqOut'
                        /\ answered' /\ orderly' /\ ~opMissed' /\ rdPairs' = <<>> =>
                             file'[call'.reg] = seqOut'
    BY <2>1, <2>2 DEF ReadServed
  <2>4. op.kind = "rd" /\ op.reg = call.reg /\ ~Take
    <3>1. CASE rdBit
      <4>1. phase = "XFER" /\ op.kind = "rd" /\ op.reg = addrReg
        BY <1>7, <2>3, <3>1
      <4> QED BY <1>1, <4>1 DEF Take
    <3>2. CASE ~rdBit
      BY <3>2, <1>6 DEF Served, ReadServed
    <3> QED BY <3>1, <3>2
  <2>5. phase = "IDLE" => ~rdBit
    BY <1>7, <2>3
  <2>6. CASE ~answered'
    BY <1>5, <2>4, <2>6, Ended DEF DataArrives, TransferHangs, Idle, Transfer
  <2>7. CASE DataArrives
    <3>1. orderly => /\ rdPairs # <<>>
                     /\ ~opMissed /\ Len(rdPairs) = 1 => rdPairs[1] = file[op.reg]
      BY <2>7 DEF HwInv, DataArrives
    <3>2. orderly => /\ Head(rdPairs) = rdPairs[1]
                     /\ Tail(rdPairs) = <<>> => Len(rdPairs) = 1
      BY <3>1, First DEF HwTypes
    <3> QED BY <2>4, <2>7, <3>1, <3>2 DEF DataArrives, DataRead
  <2>8. CASE Idle /\ answered'
    <3>1. ~rdBit /\ UNCHANGED <<op, file, rdPairs, orderly, opMissed, seqOut, answered>>
      BY <2>5, <2>8 DEF Idle
    <3>2. rdReg' = IF seqValid THEN seqOut ELSE rdReg
      BY <1>1, <2>3, <3>1 DEF Clk, RegistersClk, DataOut
    <3>3. /\ answered => seqValid \/ rdReg = seqOut
          /\ answered /\ orderly /\ ~opMissed /\ rdPairs = <<>> => file[call.reg] = seqOut
      BY <3>1 DEF Served, ReadServed
    <3> QED BY <2>4, <2>8, <3>1, <3>2, <3>3
  <2>9. CASE (TransferEnds \/ TransferHangs \/ Transfer) /\ answered'
    BY <2>9, Ended DEF HwInv, TransferEnds, TransferHangs, Transfer
  <2> QED BY <1>5, <2>4, <2>6, <2>7, <2>8, <2>9
<1> QED BY <1>4, <1>9, <1>10 DEF Served

-----------------------------------------------------------------------------
(* The driver *)

DrvTypes ==
  /\ driver \in Drivers
  /\ pc \in {"idle", "check", "statusRead", "statusWrite", "addr", "data",
              "kickRead", "kick", "poll", "valid", "clear", "fetch", "resetPoll"}
  /\ gap \in 0 .. AxiGap - 1 /\ calls \in 0 .. MaxCalls
  /\ call \in [kind : Calls \cup {"rd"}, reg : Regs, val : Value \cup {Zero}]
  /\ status \subseteq {"wr", "rd", "busy", "init", "valid", "missed", "reset"}
  /\ ret \in [kind : {"none", "busy", "ok", "missed", "timeout"},
              val : Value \cup {Zero, Cafe}]

LEMMA Types == TypeOK <=> HwTypes /\ DrvTypes
BY DEF TypeOK, HwTypes, DrvTypes

LEMMA InvNext ==
  ASSUME HwTypes', DrvTypes', HwInv', RequestInv', PlaceInv', ServeInv'
  PROVE  UnitInv'
BY DEF UnitInv, TypeOK, HwTypes, DrvTypes

LEMMA Bits ==
  ASSUME HwTypes
  PROVE  /\ CtrlValue \subseteq {"wr", "rd", "busy", "init", "valid", "missed", "reset"}
         /\ "wr" \in CtrlValue => wrBit
         /\ "rd" \in CtrlValue => rdBit
         /\ "reset" \in CtrlValue => resetBit
         /\ validBit => "valid" \in CtrlValue
<1>1. CtrlValue \subseteq {"wr", "rd", "busy", "init", "valid", "missed", "reset"}
  BY DEF CtrlValue
<1>2. "wr" \in CtrlValue => wrBit
  BY DEF CtrlValue
<1>3. "rd" \in CtrlValue => rdBit
  BY DEF CtrlValue
<1>4. "reset" \in CtrlValue => resetBit
  BY DEF CtrlValue
<1>5. validBit => "valid" \in CtrlValue
  BY DEF CtrlValue
<1> QED BY <1>1, <1>2, <1>3, <1>4, <1>5

LEMMA DriverReturns ==
  ASSUME NEW v \in Value \cup {Zero, Cafe}
  PROVE  Seen(v) \in Value \cup {Zero, Cafe}
BY UnitAssumption DEF Seen

\* What every access has in common.
LEMMA AccessDoes ==
  ASSUME UnitInv, NEW w, Typed(w), Access(w)
  PROVE  /\ Clk(w) /\ HwTypes /\ DrvTypes /\ gap = 0 /\ gap' = AxiGap - 1
         /\ UNCHANGED <<driver, call, calls>>
         /\ ~wrBit /\ ~rdBit /\ (~busyBit => Ready)
         /\ HwTypes' /\ HwInv' /\ gap' \in 0 .. AxiGap - 1
         /\ Plain(w) => RequestInv' /\ (~initDone \/ Ready => ~initDone' \/ Ready')
         /\ Plain(w) /\ ~Sets(w, "reset") /\ Ready =>
              /\ Ready' /\ UNCHANGED <<rdReg, answered>>
              /\ validBit' => validBit /\ ~Sets(w, "valid")
         /\ Quiet(w) /\ Served => Served'
<1>1. HwTypes /\ DrvTypes /\ TypeOK /\ HwInv /\ RequestInv
  BY Types DEF UnitInv
<1>2. Clk(w) /\ gap = 0 /\ gap' = AxiGap - 1 /\ UNCHANGED <<driver, call, calls>>
  BY ClkOf DEF Access
<1>3. ~wrBit /\ ~rdBit /\ (~busyBit => Ready)
  BY <1>1, <1>2, AtAccess
<1>4. HwTypes' /\ HwInv'
  BY <1>1, <1>2, <1>3, ClkTypes, ClkInv
<1>5. gap' \in 0 .. AxiGap - 1
  BY <1>2, UnitAssumption
<1>6. Plain(w) => RequestInv'
  BY <1>1, <1>2, RequestAccess
<1>7. Plain(w) /\ (~initDone \/ Ready) => ~initDone' \/ Ready'
  BY <1>1, <1>2, RestStays
<1>8. Plain(w) /\ ~Sets(w, "reset") /\ Ready =>
        /\ Ready' /\ UNCHANGED <<rdReg, answered>>
        /\ validBit' => validBit /\ ~Sets(w, "valid")
  BY <1>1, <1>2, ReadyStays
<1>9. Quiet(w) /\ Served => Served'
  BY <1>1, <1>2, ServedStays
<1> QED BY <1>1, <1>2, <1>3, <1>4, <1>5, <1>6, <1>7, <1>8, <1>9

\* A read asks for nothing.
LEMMA ReadIsQuiet == Typed(NoWrite) /\ Plain(NoWrite) /\ Quiet(NoWrite)
                     /\ ~Sets(NoWrite, "reset")
BY DEF Typed, Plain, Quiet, Sets, NoWrite

LEMMA ControlWrite ==
  ASSUME NEW bits
  PROVE  /\ Typed(WriteCtrl(bits)) /\ WriteCtrl(bits).addr = "CTRL"
         /\ \A b : Sets(WriteCtrl(bits), b) <=> b \in bits
         /\ "wr" \notin bits /\ "rd" \notin bits => Plain(WriteCtrl(bits))
         /\ "wr" \notin bits /\ "rd" \notin bits /\ "reset" \notin bits =>
              Quiet(WriteCtrl(bits))
BY DEF Typed, Plain, Quiet, Sets, WriteCtrl

LEMMA DataWrite ==
  ASSUME NEW a \in {"ADDR", "WR_DATA"}, NEW v
  PROVE  /\ (a = "ADDR" => v \in Regs) /\ (a = "WR_DATA" => v \in Value)
              => Typed(WriteReg(a, v))
         /\ Plain(WriteReg(a, v)) /\ ~Sets(WriteReg(a, v), "reset")
         /\ WriteReg(a, v).addr = a /\ WriteReg(a, v).val = v
BY DEF Typed, Plain, Sets, WriteReg

LEMMA Initially == Init => UnitInv
<1> SUFFICES ASSUME Init PROVE UnitInv
  OBVIOUS
<1>1. HwTypes
  <2>1. <<>> \in Seq(Value) /\ 0 \in 0 .. MinXfer
    BY EmptySeq, UnitAssumption
  <2> QED BY <2>1, UnitAssumption DEF Init, HwTypes
<1>2. DrvTypes
  <2>1. AxiGap - 1 \in 0 .. AxiGap - 1 /\ 0 \in 0 .. MaxCalls
    BY UnitAssumption
  <2> QED BY <2>1, UnitAssumption DEF Init, DrvTypes, NoRet
<1>3. HwInv
  BY DEF Init, HwInv, InitInv, Still
<1>4. RequestInv
  <2>1. ~(AxiGap - 1 < AxiGap - 2)
    BY UnitAssumption
  <2> QED BY <2>1 DEF Init, RequestInv
<1>5. PlaceInv /\ ServeInv
  BY DEF Init, PlaceInv, ServeInv, Serving, Answered, Kicking, NoRet
<1> QED BY <1>1, <1>2, <1>3, <1>4, <1>5, Types DEF UnitInv

\* The steps of the driver, one by one.

LEMMA CallStep ==
  ASSUME UnitInv, NEW k \in Calls, NEW r \in Regs, NEW v \in Value \cup {Zero},
         k = "wr" => v \in Value, Call(k, r, v)
  PROVE  UnitInv'
<1>0. HwTypes /\ DrvTypes
  BY Types DEF UnitInv
<1>1. UNCHANGED hwVars /\ UNCHANGED <<driver, gap, status>>
  BY DEF Call
<1>2. HwTypes' /\ HwInv' /\ RequestInv'
  BY <1>0, <1>1 DEF UnitInv, hwVars, regVars, initVars, ctlVars, HwTypes, HwInv, InitInv,
     RequestInv, Ready, Still
<1>3. /\ pc' \in {"check", "kickRead", "kick"}
      /\ call' = [kind |-> k, reg |-> r, val |-> v]
      /\ pc' = "check" => k # "reset"
      /\ pc' \in {"kickRead", "kick"} => k = "reset"
      /\ driver = "C" => pc' # "kick"
      /\ ret' = NoRet /\ calls' = calls + 1 /\ calls < MaxCalls
  BY DEF Call, ToKick
<1>4. DrvTypes'
  <2>1. calls' \in 0 .. MaxCalls
    BY <1>0, <1>3, UnitAssumption DEF DrvTypes
  <2> QED BY <1>0, <1>1, <1>3, <2>1 DEF DrvTypes, NoRet
<1>5. k \in {"rd", "wr", "reset"}
  BY UnitAssumption
<1>6. driver' = "C" /\ pc' # "poll" => ~initDone' \/ Ready'
  BY <1>1 DEF Call, UnitInv, PlaceInv, hwVars, regVars, initVars, ctlVars, Ready, Still
<1>7. PlaceInv'
  BY <1>1, <1>3, <1>5, <1>6 DEF PlaceInv, Kicking, Answered
<1>8. ServeInv'
  <2>1. ~Serving' /\ ~Answered'
    BY <1>3 DEF Serving, Answered
  <2> QED BY <2>1 DEF ServeInv
<1> QED BY <1>2, <1>4, <1>7, <1>8, InvNext

LEMMA TimeoutStep ==
  ASSUME UnitInv, Timeout
  PROVE  UnitInv'
<1>0. HwTypes /\ DrvTypes
  BY Types DEF UnitInv
<1>1. UNCHANGED hwVars /\ UNCHANGED <<driver, gap, call, status, calls>>
  BY DEF Timeout
<1>2. HwTypes' /\ HwInv' /\ RequestInv'
  BY <1>0, <1>1 DEF UnitInv, hwVars, regVars, initVars, ctlVars, HwTypes, HwInv, InitInv,
     RequestInv, Ready, Still
<1>3. driver # "C" /\ pc' = "idle" /\ ret' = [kind |-> "timeout", val |-> Zero]
  BY DEF Timeout, Return
<1>4. DrvTypes'
  BY <1>0, <1>1, <1>3 DEF DrvTypes
<1>5. ~Serving' /\ ~Answered' /\ ~Kicking'
  BY <1>3 DEF Serving, Answered, Kicking
<1>6. PlaceInv' /\ ServeInv'
  BY <1>1, <1>3, <1>5 DEF PlaceInv, ServeInv
<1> QED BY <1>2, <1>4, <1>6, InvNext

LEMMA TickStep ==
  ASSUME UnitInv, NEW e \in BOOLEAN, Tick(e)
  PROVE  UnitInv'
<1>0. HwTypes /\ DrvTypes /\ TypeOK /\ HwInv /\ RequestInv /\ PlaceInv /\ ServeInv
  BY Types DEF UnitInv
<1>1. Clk(NoWrite) /\ UNCHANGED <<driver, pc, call, status, ret, calls>>
  BY ClkOf DEF Tick
<1>2. HwTypes' /\ HwInv' /\ RequestInv'
  BY <1>0, <1>1, ReadIsQuiet, ClkTypes, ClkInv, RequestTick DEF RequestInv
<1>3. DrvTypes'
  <2>1. gap' \in 0 .. AxiGap - 1
    BY <1>0, UnitAssumption DEF DrvTypes, Tick
  <2> QED BY <1>0, <1>1, <2>1 DEF DrvTypes
<1>4. Ready => Ready' /\ UNCHANGED <<rdReg, answered>> /\ (validBit' => validBit)
  BY <1>0, <1>1, ReadIsQuiet, ReadyStays
<1>5. ~initDone \/ Ready => ~initDone' \/ Ready'
  BY <1>0, <1>1, ReadIsQuiet, RestStays
<1>6. UNCHANGED <<addrReg, wrReg>>
  BY <1>1 DEF Clk, RegistersClk, NoWrite
<1>7. PlaceInv'
  BY <1>0, <1>1, <1>4, <1>5, <1>6 DEF PlaceInv, Kicking, Answered
<1>8. Served => Served'
  BY <1>0, <1>1, ReadIsQuiet, ServedStays
<1>9. ServeInv'
  <2>1. Serving' => Served'
    BY <1>0, <1>1, <1>8 DEF ServeInv, Serving, Answered
  <2>2. Answered' => Answered /\ UNCHANGED rdReg
    BY <1>0, <1>1, <1>4 DEF PlaceInv, Answered
  <2>3. Answered' => ret'.val = IF call'.kind = "wr" THEN call'.val ELSE Seen(rdReg')
    BY <1>0, <1>1, <2>2 DEF ServeInv
  <2>4. Answered' => ret'.val = IF call'.kind = "wr" THEN call'.val ELSE Seen(rdReg)'
    BY <1>1, <2>3 DEF Seen
  <2> QED BY <2>1, <2>4 DEF ServeInv
<1> QED BY <1>2, <1>3, <1>7, <1>9, InvNext

LEMMA CheckStep ==
  ASSUME UnitInv, Check
  PROVE  UnitInv'
<1>0. pc = "check" /\ Access(NoWrite) /\ UNCHANGED status
  BY DEF Check
<1>1. /\ DrvTypes /\ UNCHANGED <<driver, call, calls>> /\ (~busyBit => Ready')
      /\ HwTypes' /\ HwInv' /\ RequestInv' /\ gap' \in 0 .. AxiGap - 1
      /\ ~initDone \/ Ready => ~initDone' \/ Ready'
  BY <1>0, ReadIsQuiet, AccessDoes
<1>2. \/ pc' = "idle" /\ ret'.kind = "busy"
      \/ ~busyBit /\ pc' = "statusRead"
      \/ ~busyBit /\ pc' = "statusWrite" /\ driver # "C"
  BY <1>0 DEF Check, Refused, Return, Goto
<1>3. ret' \in [kind : {"none", "busy", "ok", "missed", "timeout"},
                val : Value \cup {Zero, Cafe}]
  BY <1>0, <1>1 DEF Check, Return, Goto, DrvTypes
<1>4. DrvTypes'
  BY <1>0, <1>1, <1>2, <1>3 DEF DrvTypes
<1>5. ~Serving' /\ ~Answered' /\ ~Kicking'
  BY <1>2 DEF Serving, Answered, Kicking
<1>6. (call.kind = "wr" => call.val \in Value) /\ call.kind \in {"rd", "wr"}
      /\ (driver = "C" => ~initDone \/ Ready)
  BY <1>0 DEF UnitInv, PlaceInv
<1>7. PlaceInv'
  BY <1>1, <1>2, <1>5, <1>6 DEF PlaceInv
<1>8. ServeInv'
  BY <1>5 DEF ServeInv
<1> QED BY <1>1, <1>4, <1>7, <1>8, InvNext

LEMMA StatusReadStep ==
  ASSUME UnitInv, StatusRead
  PROVE  UnitInv'
<1>0. /\ pc = "statusRead" /\ pc' = "statusWrite" /\ Access(NoWrite)
      /\ status' = CtrlValue /\ UNCHANGED ret
  BY DEF StatusRead, Goto
<1>1. /\ (call.kind = "wr" => call.val \in Value) /\ call.kind \in {"rd", "wr"} /\ Ready
  BY <1>0 DEF UnitInv, PlaceInv
<1>2. /\ HwTypes /\ DrvTypes /\ UNCHANGED <<driver, call, calls>> /\ Ready'
      /\ HwTypes' /\ HwInv' /\ RequestInv' /\ gap' \in 0 .. AxiGap - 1
      /\ validBit' => validBit
  BY <1>0, <1>1, ReadIsQuiet, AccessDoes
<1>3. /\ status' \subseteq {"wr", "rd", "busy", "init", "valid", "missed", "reset"}
      /\ "wr" \notin status' /\ "rd" \notin status' /\ "reset" \notin status'
      /\ validBit' => "valid" \in status'
  BY <1>0, <1>1, <1>2, Bits DEF Ready
<1>4. DrvTypes'
  BY <1>0, <1>2, <1>3 DEF DrvTypes
<1>5. ~Serving' /\ ~Answered' /\ ~Kicking'
  BY <1>0 DEF Serving, Answered, Kicking
<1>6. PlaceInv'
  BY <1>0, <1>1, <1>2, <1>3, <1>5 DEF PlaceInv
<1>7. ServeInv'
  BY <1>5 DEF ServeInv
<1> QED BY <1>2, <1>4, <1>6, <1>7, InvNext

LEMMA StatusWriteStep ==
  ASSUME UnitInv, StatusWrite
  PROVE  UnitInv'
<1> DEFINE bits == IF driver = "C" THEN status ELSE {"init", "valid", "missed"}
<1>0. /\ pc = "statusWrite" /\ pc' = "addr" /\ Access(WriteCtrl(bits))
      /\ UNCHANGED <<ret, status>>
  BY DEF StatusWrite, Goto
<1>1. /\ (call.kind = "wr" => call.val \in Value) /\ call.kind \in {"rd", "wr"} /\ Ready
      /\ driver = "C" => /\ "wr" \notin status /\ "rd" \notin status
                         /\ "reset" \notin status
                         /\ validBit => "valid" \in status
  BY <1>0 DEF UnitInv, PlaceInv
<1>2. /\ "wr" \notin bits /\ "rd" \notin bits /\ "reset" \notin bits
      /\ validBit => "valid" \in bits
  BY <1>1
<1> HIDE DEF bits
<1>3. /\ Typed(WriteCtrl(bits)) /\ Plain(WriteCtrl(bits))
      /\ ~Sets(WriteCtrl(bits), "reset")
      /\ validBit => Sets(WriteCtrl(bits), "valid")
  BY <1>2, ControlWrite
<1>4. /\ DrvTypes /\ UNCHANGED <<driver, call, calls>> /\ Ready' /\ ~validBit'
      /\ HwTypes' /\ HwInv' /\ RequestInv' /\ gap' \in 0 .. AxiGap - 1
  BY <1>0, <1>1, <1>3, AccessDoes
<1>5. DrvTypes'
  BY <1>0, <1>4 DEF DrvTypes
<1>6. ~Serving' /\ ~Answered' /\ ~Kicking'
  BY <1>0 DEF Serving, Answered, Kicking
<1>7. PlaceInv'
  BY <1>0, <1>1, <1>4, <1>6 DEF PlaceInv
<1>8. ServeInv'
  BY <1>6 DEF ServeInv
<1> QED BY <1>4, <1>5, <1>7, <1>8, InvNext

LEMMA AddrStep ==
  ASSUME UnitInv, Addr
  PROVE  UnitInv'
<1> DEFINE w == WriteReg("ADDR", call.reg)
<1>0. /\ pc = "addr" /\ Access(w) /\ UNCHANGED <<ret, status>>
      /\ pc' = IF call.kind = "wr" THEN "data" ELSE ToKick
  BY DEF Addr, Goto, AddrToWrite
<1>1. /\ (call.kind = "wr" => call.val \in Value) /\ call.kind \in {"rd", "wr"} /\ Ready /\ call.reg \in Regs
      /\ ~validBit
  BY <1>0, Types DEF UnitInv, PlaceInv, DrvTypes
<1>2. Typed(w) /\ Plain(w) /\ ~Sets(w, "reset") /\ w.addr = "ADDR" /\ w.val = call.reg
  BY <1>1, DataWrite
<1> HIDE DEF w
<1>3. /\ DrvTypes /\ UNCHANGED <<driver, call, calls>> /\ Ready' /\ Clk(w) /\ ~validBit'
      /\ HwTypes' /\ HwInv' /\ RequestInv' /\ gap' \in 0 .. AxiGap - 1
  BY <1>0, <1>1, <1>2, AccessDoes
<1>4. addrReg' = call.reg
  BY <1>2, <1>3 DEF Clk, RegistersClk
<1>5. \/ pc' = "data" /\ call.kind = "wr"
      \/ pc' = "kickRead" /\ call.kind = "rd" /\ driver = "C"
      \/ pc' = "kick" /\ call.kind = "rd" /\ driver # "C"
  BY <1>0, <1>1 DEF ToKick
<1>6. DrvTypes'
  BY <1>0, <1>3, <1>5 DEF DrvTypes
<1>7. ~Serving' /\ ~Answered'
  BY <1>5 DEF Serving, Answered
<1>8. PlaceInv'
  BY <1>1, <1>3, <1>4, <1>5, <1>7 DEF PlaceInv, Kicking
<1>9. ServeInv'
  BY <1>7 DEF ServeInv
<1> QED BY <1>3, <1>6, <1>8, <1>9, InvNext

LEMMA DataStep ==
  ASSUME UnitInv, Data
  PROVE  UnitInv'
<1> DEFINE w == WriteReg("WR_DATA", call.val)
<1>0. /\ pc = "data" /\ Access(w) /\ UNCHANGED <<ret, status>> /\ pc' = ToKick
  BY DEF Data, Goto
<1>1. call.val \in Value /\ call.kind = "wr" /\ Ready /\ addrReg = call.reg /\ ~validBit
  BY <1>0 DEF UnitInv, PlaceInv
<1>2. Typed(w) /\ Plain(w) /\ ~Sets(w, "reset") /\ w.addr = "WR_DATA" /\ w.val = call.val
  BY <1>1, DataWrite
<1> HIDE DEF w
<1>3. /\ DrvTypes /\ UNCHANGED <<driver, call, calls>> /\ Ready' /\ Clk(w) /\ ~validBit'
      /\ HwTypes' /\ HwInv' /\ RequestInv' /\ gap' \in 0 .. AxiGap - 1
  BY <1>0, <1>1, <1>2, AccessDoes
<1>4. wrReg' = call.val /\ addrReg' = addrReg
  BY <1>2, <1>3 DEF Clk, RegistersClk
<1>5. \/ pc' = "kickRead" /\ driver = "C"
      \/ pc' = "kick" /\ driver # "C"
  BY <1>0 DEF ToKick
<1>6. DrvTypes'
  BY <1>0, <1>3, <1>5 DEF DrvTypes
<1>7. ~Serving' /\ ~Answered'
  BY <1>5 DEF Serving, Answered
<1>8. PlaceInv'
  BY <1>1, <1>3, <1>4, <1>5, <1>7 DEF PlaceInv, Kicking
<1>9. ServeInv'
  BY <1>7 DEF ServeInv
<1> QED BY <1>3, <1>6, <1>8, <1>9, InvNext

LEMMA KickReadStep ==
  ASSUME UnitInv, KickRead
  PROVE  UnitInv'
<1>0. /\ pc = "kickRead" /\ pc' = "kick" /\ Access(NoWrite)
      /\ status' = CtrlValue /\ UNCHANGED ret
  BY DEF KickRead, Goto
<1>1. /\ (call.kind = "wr" => call.val \in Value) /\ (driver = "C" => ~initDone \/ Ready)
      /\ call.kind # "reset" => /\ Ready /\ addrReg = call.reg /\ ~validBit
                                /\ call.kind = "wr" => wrReg = call.val
  BY <1>0 DEF UnitInv, PlaceInv, Kicking
<1>2. /\ HwTypes /\ DrvTypes /\ UNCHANGED <<driver, call, calls>> /\ Clk(NoWrite)
      /\ Ready => Ready' /\ (validBit' => validBit)
      /\ ~initDone \/ Ready => ~initDone' \/ Ready'
      /\ ~wrBit /\ ~rdBit
      /\ HwTypes' /\ HwInv' /\ RequestInv' /\ gap' \in 0 .. AxiGap - 1
  BY <1>0, ReadIsQuiet, AccessDoes
<1>3. /\ status' \subseteq {"wr", "rd", "busy", "init", "valid", "missed", "reset"}
      /\ "wr" \notin status' /\ "rd" \notin status'
      /\ Ready => "reset" \notin status'
  BY <1>0, <1>2, Bits DEF Ready
<1>4. addrReg' = addrReg /\ wrReg' = wrReg
  BY <1>2 DEF Clk, RegistersClk, NoWrite
<1>5. DrvTypes'
  BY <1>0, <1>2, <1>3 DEF DrvTypes
<1>6. ~Serving' /\ ~Answered'
  BY <1>0 DEF Serving, Answered
<1>7. PlaceInv'
  BY <1>0, <1>1, <1>2, <1>3, <1>4, <1>6 DEF PlaceInv, Kicking
<1>8. ServeInv'
  BY <1>6 DEF ServeInv
<1> QED BY <1>2, <1>5, <1>7, <1>8, InvNext

\* What the kick writes: the one bit asked for, and for the C driver what it read.
LEMMA KickBits ==
  ASSUME UnitInv, pc = "kick",
         NEW bits, bits = {call.kind} \cup IF driver = "C" THEN status ELSE {}
  PROVE  /\ call.kind \in {"rd", "wr", "reset"}
         /\ \A b \in {"rd", "wr"} : b \in bits <=> b = call.kind
         /\ call.kind # "reset" => "reset" \notin bits
<1>1. call.kind \in {"rd", "wr", "reset"}
  BY Types, UnitAssumption DEF UnitInv, DrvTypes
<1>2. driver = "C" => /\ "wr" \notin status /\ "rd" \notin status
                      /\ call.kind # "reset" => "reset" \notin status
  BY DEF UnitInv, PlaceInv
<1> QED BY <1>1, <1>2

LEMMA KickStep ==
  ASSUME UnitInv, Kick
  PROVE  UnitInv'
<1> DEFINE bits == {call.kind} \cup IF driver = "C" THEN status ELSE {}
           w == WriteCtrl(bits)
<1>0. /\ pc = "kick" /\ Access(w) /\ UNCHANGED <<ret, status>>
      /\ pc' = IF call.kind = "reset" THEN "resetPoll" ELSE "poll"
  BY DEF Kick, Goto
<1>1. /\ (call.kind = "wr" => call.val \in Value) /\ (driver = "C" => ~initDone \/ Ready)
      /\ call.kind # "reset" => /\ Ready /\ addrReg = call.reg /\ ~validBit
                                /\ call.kind = "wr" => wrReg = call.val
  BY <1>0 DEF UnitInv, PlaceInv, Kicking
<1>2. /\ call.kind \in {"rd", "wr", "reset"}
      /\ "wr" \in bits <=> call.kind = "wr"
      /\ "rd" \in bits <=> call.kind = "rd"
      /\ call.kind # "reset" => "reset" \notin bits
  BY <1>0, KickBits
<1> HIDE DEF bits
<1>3. /\ Typed(w) /\ w.addr = "CTRL"
      /\ \A b : Sets(w, b) <=> b \in bits
  BY ControlWrite
<1> HIDE DEF w
<1>4. /\ HwTypes /\ DrvTypes /\ UNCHANGED <<driver, call, calls>> /\ Clk(w)
      /\ HwTypes' /\ HwInv' /\ gap' \in 0 .. AxiGap - 1 /\ gap' = AxiGap - 1
      /\ Plain(w) => RequestInv' /\ (~initDone \/ Ready => ~initDone' \/ Ready')
  BY <1>0, <1>3, AccessDoes
<1>5. DrvTypes'
  BY <1>0, <1>4 DEF DrvTypes
<1>6. CASE call.kind = "reset"
  <2>1. Plain(w)
    BY <1>2, <1>3, <1>6 DEF Plain
  <2>2. ~Serving' /\ ~Answered' /\ ~Kicking' /\ pc' = "resetPoll"
    BY <1>0, <1>6 DEF Serving, Answered, Kicking
  <2>3. PlaceInv'
    BY <1>1, <1>4, <1>6, <2>1, <2>2 DEF PlaceInv
  <2>4. ServeInv'
    BY <2>2 DEF ServeInv
  <2> QED BY <1>4, <1>5, <2>1, <2>3, <2>4, InvNext
<1>7. CASE call.kind # "reset"
  <2>1. /\ ~Sets(w, "reset")
        /\ Sets(w, "wr") <=> call.kind = "wr"
        /\ Sets(w, "rd") <=> call.kind = "rd"
    BY <1>2, <1>3, <1>7
  <2>2. /\ RequestInv' /\ initDone' /\ ~resetBit' /\ UNCHANGED <<addrReg, wrReg>>
        /\ wrBit' <=> Sets(w, "wr")
        /\ rdBit' <=> Sets(w, "rd")
        /\ ~validBit'
    BY <1>1, <1>3, <1>4, <1>7, <2>1, RequestMade DEF UnitInv
  <2>3. pc' = "poll" /\ ~Answered' /\ ~Kicking'
    BY <1>0, <1>7 DEF Answered, Kicking
  <2>4. PlaceInv'
    BY <1>1, <1>2, <1>4, <1>7, <2>3 DEF PlaceInv
  <2>5. Served'
    BY <1>1, <1>2, <1>4, <1>7, <2>1, <2>2 DEF Served, Held, WriteServed, ReadServed
  <2>6. ServeInv'
    BY <2>3, <2>5 DEF ServeInv
  <2> QED BY <1>4, <1>5, <2>2, <2>4, <2>6, InvNext
<1> QED BY <1>6, <1>7

LEMMA PollStep ==
  ASSUME UnitInv, Poll
  PROVE  UnitInv'
<1>0. pc = "poll" /\ Access(NoWrite) /\ UNCHANGED status
  BY DEF Poll
<1>1. /\ (call.kind = "wr" => call.val \in Value) /\ call.kind \in {"rd", "wr"} /\ Served
  BY <1>0 DEF UnitInv, PlaceInv, ServeInv, Serving
<1>2. /\ DrvTypes /\ UNCHANGED <<driver, call, calls>> /\ (~busyBit => Ready')
      /\ HwTypes' /\ HwInv' /\ RequestInv' /\ gap' \in 0 .. AxiGap - 1
      /\ Served'
  BY <1>0, <1>1, ReadIsQuiet, AccessDoes
<1>3. \/ pc' = "poll" /\ UNCHANGED ret
      \/ ~busyBit /\ pc' = "idle" /\ call.kind = "wr"
         /\ ret' = [kind |-> "ok", val |-> call.val]
      \/ ~busyBit /\ pc' = "valid" /\ call.kind = "rd" /\ UNCHANGED ret
  BY <1>0, <1>1 DEF Poll, StillBusy, Return, Goto
<1>4. ret' \in [kind : {"none", "busy", "ok", "missed", "timeout"},
                val : Value \cup {Zero, Cafe}]
  BY <1>1, <1>2, <1>3 DEF DrvTypes
<1>5. DrvTypes'
  BY <1>0, <1>2, <1>3, <1>4 DEF DrvTypes
<1>6. ~Kicking'
  BY <1>3 DEF Kicking
<1>7. PlaceInv'
  BY <1>1, <1>2, <1>3, <1>6 DEF PlaceInv, Answered
<1>8. ServeInv'
  BY <1>2, <1>3 DEF ServeInv, Answered
<1> QED BY <1>2, <1>5, <1>7, <1>8, InvNext

LEMMA ValidStep ==
  ASSUME UnitInv, Valid
  PROVE  UnitInv'
<1>0. pc = "valid" /\ Access(NoWrite) /\ UNCHANGED status
  BY DEF Valid
<1>1. /\ (call.kind = "wr" => call.val \in Value) /\ call.kind = "rd" /\ Ready /\ Served
  BY <1>0 DEF UnitInv, PlaceInv, ServeInv, Serving
<1>2. /\ DrvTypes /\ UNCHANGED <<driver, call, calls>> /\ Ready' /\ UNCHANGED answered
      /\ HwTypes' /\ HwInv' /\ RequestInv' /\ gap' \in 0 .. AxiGap - 1
      /\ Served'
  BY <1>0, <1>1, ReadIsQuiet, AccessDoes
<1>3. \/ pc' = "idle" /\ ret' = [kind |-> "missed", val |-> Zero]
      \/ pc' = "valid" /\ UNCHANGED ret
      \/ pc' = "clear" /\ validBit /\ UNCHANGED ret
  BY <1>0 DEF Valid, Return, Goto
<1>4. DrvTypes'
  BY <1>0, <1>2, <1>3 DEF DrvTypes
<1>5. ~Kicking' /\ ~Answered'
  BY <1>3 DEF Kicking, Answered
<1>6. pc' = "clear" => answered'
  BY <1>1, <1>2, <1>3 DEF Served, ReadServed
<1>7. PlaceInv'
  BY <1>1, <1>2, <1>3, <1>5, <1>6 DEF PlaceInv
<1>8. ServeInv'
  BY <1>2, <1>5 DEF ServeInv
<1> QED BY <1>2, <1>4, <1>7, <1>8, InvNext

LEMMA ClearStep ==
  ASSUME UnitInv, Clear
  PROVE  UnitInv'
<1> DEFINE w == WriteCtrl({"valid"})
<1>0. pc = "clear" /\ Access(w) /\ UNCHANGED <<ret, status>> /\ pc' = "fetch"
  BY DEF Clear, Goto
<1>1. /\ (call.kind = "wr" => call.val \in Value) /\ call.kind = "rd" /\ Ready /\ Served /\ answered
  BY <1>0 DEF UnitInv, PlaceInv, ServeInv, Serving
<1>2. Typed(w) /\ Plain(w) /\ Quiet(w) /\ ~Sets(w, "reset")
  <2>1. "wr" \notin {"valid"} /\ "rd" \notin {"valid"} /\ "reset" \notin {"valid"}
    OBVIOUS
  <2> QED BY <2>1, ControlWrite
<1> HIDE DEF w
<1>3. /\ DrvTypes /\ UNCHANGED <<driver, call, calls>> /\ Ready' /\ UNCHANGED answered
      /\ HwTypes' /\ HwInv' /\ RequestInv' /\ gap' \in 0 .. AxiGap - 1
      /\ Served'
  BY <1>0, <1>1, <1>2, AccessDoes
<1>4. DrvTypes'
  BY <1>0, <1>3 DEF DrvTypes
<1>5. ~Kicking' /\ ~Answered'
  BY <1>0 DEF Kicking, Answered
<1>6. PlaceInv'
  BY <1>0, <1>1, <1>3, <1>5 DEF PlaceInv
<1>7. ServeInv'
  BY <1>3, <1>5 DEF ServeInv
<1> QED BY <1>3, <1>4, <1>6, <1>7, InvNext

LEMMA FetchStep ==
  ASSUME UnitInv, Fetch
  PROVE  UnitInv'
<1>0. /\ pc = "fetch" /\ Access(NoWrite) /\ UNCHANGED status /\ pc' = "idle"
      /\ ret' = [kind |-> "ok", val |-> Seen(rdReg)]
  BY DEF Fetch, Return
<1>1. (call.kind = "wr" => call.val \in Value) /\ call.kind = "rd" /\ Ready /\ Served /\ answered
  BY <1>0 DEF UnitInv, PlaceInv, ServeInv, Serving
<1>2. /\ HwTypes /\ DrvTypes /\ UNCHANGED <<driver, call, calls>> /\ Ready'
      /\ UNCHANGED <<rdReg, answered>>
      /\ HwTypes' /\ HwInv' /\ RequestInv' /\ gap' \in 0 .. AxiGap - 1
      /\ Served'
  BY <1>0, <1>1, ReadIsQuiet, AccessDoes
<1>3. Seen(rdReg) \in Value \cup {Zero, Cafe}
  BY <1>2, DriverReturns DEF HwTypes
<1>4. DrvTypes'
  BY <1>0, <1>2, <1>3 DEF DrvTypes
<1>5. ~Kicking'
  BY <1>0 DEF Kicking
<1>6. PlaceInv'
  BY <1>0, <1>1, <1>2, <1>5 DEF PlaceInv
<1>7. ret'.val = Seen(rdReg)'
  BY <1>0, <1>2 DEF Seen
<1>8. ServeInv'
  BY <1>1, <1>2, <1>7 DEF ServeInv
<1> QED BY <1>2, <1>4, <1>6, <1>8, InvNext

LEMMA ResetPollStep ==
  ASSUME UnitInv, ResetPoll
  PROVE  UnitInv'
<1>0. pc = "resetPoll" /\ Access(NoWrite) /\ UNCHANGED status
  BY DEF ResetPoll
<1>1. /\ (call.kind = "wr" => call.val \in Value) /\ call.kind = "reset" /\ (driver = "C" => ~initDone \/ Ready)
  BY <1>0 DEF UnitInv, PlaceInv
<1>2. /\ DrvTypes /\ UNCHANGED <<driver, call, calls>>
      /\ ~initDone \/ Ready => ~initDone' \/ Ready'
      /\ HwTypes' /\ HwInv' /\ RequestInv' /\ gap' \in 0 .. AxiGap - 1
  BY <1>0, ReadIsQuiet, AccessDoes
<1>3. \/ pc' = "resetPoll" /\ UNCHANGED ret
      \/ pc' = "idle" /\ ret' = [kind |-> "ok", val |-> Zero]
  BY <1>0 DEF ResetPoll, Return, Goto
<1>4. DrvTypes'
  BY <1>0, <1>2, <1>3 DEF DrvTypes
<1>5. ~Serving' /\ ~Answered' /\ ~Kicking'
  BY <1>1, <1>2, <1>3 DEF Serving, Answered, Kicking
<1>6. PlaceInv'
  BY <1>1, <1>2, <1>3, <1>5 DEF PlaceInv
<1>7. ServeInv'
  BY <1>5 DEF ServeInv
<1> QED BY <1>2, <1>4, <1>6, <1>7, InvNext

LEMMA DriverKeeps ==
  ASSUME UnitInv, DriverStep
  PROVE  UnitInv'
BY CheckStep, StatusReadStep, StatusWriteStep, AddrStep, DataStep, KickReadStep, KickStep,
   PollStep, ValidStep, ClearStep, FetchStep, ResetPollStep DEF DriverStep

LEMMA Stutter ==
  ASSUME UnitInv, UNCHANGED vars
  PROVE  UnitInv'
<1>1. UNCHANGED <<driver, pc, gap, call, status, ret, calls>> /\ UNCHANGED hwVars
  BY DEF vars, drvVars, hwVars
<1>2. HwTypes' /\ DrvTypes'
  BY <1>1, Types DEF UnitInv, HwTypes, DrvTypes, hwVars, regVars, initVars, ctlVars
<1>3. HwInv' /\ RequestInv'
  BY <1>1 DEF UnitInv, hwVars, regVars, initVars, ctlVars, HwInv, InitInv, RequestInv,
     Ready, Still
<1>4. PlaceInv'
  BY <1>1 DEF UnitInv, hwVars, regVars, initVars, ctlVars, PlaceInv, Answered, Kicking,
     Ready, Still
<1>5. Seen(rdReg)' = Seen(rdReg)
  BY <1>1 DEF Seen, hwVars, regVars
<1>6. ServeInv'
  BY <1>1, <1>5 DEF UnitInv, hwVars, regVars, initVars, ctlVars, ServeInv, Serving,
     Answered, Served, Held, WriteServed, ReadServed
<1> QED BY <1>2, <1>3, <1>4, <1>6, InvNext

LEMMA Preserved ==
  ASSUME UnitInv, [Next]_vars
  PROVE  UnitInv'
<1>1. CASE StartCall
  <2>1. PICK k \in Calls : \E r \in IF k = "reset" THEN {InitReg} ELSE Regs,
                              v \in IF k = "wr" THEN Value ELSE {Zero} : Call(k, r, v)
    BY <1>1 DEF StartCall
  <2>2. PICK r \in Regs, v \in Value \cup {Zero} : (k = "wr" => v \in Value) /\ Call(k, r, v)
    BY <2>1, UnitAssumption
  <2> QED BY <2>2, CallStep
<1>2. CASE DriverStep
  BY <1>2, DriverKeeps
<1>3. CASE Timeout
  BY <1>3, TimeoutStep
<1>4. CASE \E e \in BOOLEAN : Tick(e)
  BY <1>4, TickStep
<1>5. CASE UNCHANGED vars
  BY <1>5, Stutter
<1> QED BY <1>1, <1>2, <1>3, <1>4, <1>5 DEF Next

\* The invariant of the unit: registers, init unit, controller and driver agree, at
\* every clock, on how far the call has come.
THEOREM UnitIsConsistent == Spec => []UnitInv
BY Initially, Preserved, PTL DEF Spec

-----------------------------------------------------------------------------
(* Theorems *)

\* Every register, bit and variable of the unit and its driver keeps its type:
\* no transfer leaves the codec's registers or the read FIFO with anything but
\* values, and the driver never returns anything but a value, 0 or 0xcafecafe.
THEOREM TypeCorrect == Spec => []TypeOK
<1>1. UnitInv => TypeOK
  BY DEF UnitInv
<1> QED BY <1>1, UnitIsConsistent, PTL

\* A call that returns success returns for its own operation, whichever of the two
\* drivers made it, wherever the clocks of its accesses fall, whatever became of the
\* operation on the bus, and also when it was made during initialization: no late
\* answer, no leftover valid bit and no early poll makes it return for another.
THEOREM CallsReturnForTheirOwn == Spec => []ReturnIsItsOwn
<1>1. UnitInv => ReturnIsItsOwn
  <2> SUFFICES ASSUME UnitInv, pc = "idle", ret.kind = "ok", call.kind # "reset"
               PROVE  /\ phase = "IDLE" /\ ~wrBit /\ ~rdBit
                      /\ op.kind = call.kind /\ op.reg = call.reg
                      /\ call.kind = "wr" => op.val = call.val
                      /\ call.kind = "rd" => answered /\ ret.val = Seen(seqOut)
    BY DEF ReturnIsItsOwn
  <2>1. Answered /\ Served /\ Ready /\ (call.kind = "rd" => answered)
    BY DEF UnitInv, PlaceInv, ServeInv, Serving, Answered
  <2>2. phase = "IDLE" /\ ~wrBit /\ ~rdBit /\ ~seqValid
    BY <2>1 DEF Ready, Still, UnitInv, HwInv
  <2>3. call.kind \in {"rd", "wr"}
    BY Types, UnitAssumption DEF UnitInv, DrvTypes
  <2>4. CASE call.kind = "wr"
    BY <2>1, <2>2, <2>4 DEF Served, WriteServed
  <2>5. CASE call.kind = "rd"
    <3>1. op.kind = "rd" /\ op.reg = call.reg /\ rdReg = seqOut
      BY <2>1, <2>2, <2>5 DEF Served, ReadServed
    <3>2. Seen(rdReg) = Seen(seqOut)
      BY <3>1
    <3>3. ret.val = Seen(rdReg)
      BY <2>1, <2>5 DEF UnitInv, ServeInv
    <3> QED BY <2>1, <2>2, <2>5, <3>1, <3>2, <3>3
  <2> QED BY <2>3, <2>4, <2>5
<1> QED BY <1>1, UnitIsConsistent, PTL

\* If every operation so far found the bus stopped, which the drivers do not see to,
\* and this one missed no acknowledge, then a write that returned success is in the
\* codec, and a read gives the register unless one before it was given up.
THEOREM OrderlyCallsDoTheirWork == Spec => []OrderlyReturnMeansDone
<1>1. UnitInv => OrderlyReturnMeansDone
  <2> SUFFICES ASSUME UnitInv, pc = "idle", ret.kind = "ok", orderly, ~opMissed
               PROVE  /\ call.kind = "wr" => file[call.reg] = ret.val
                      /\ call.kind = "rd" /\ rdPairs = <<>> =>
                           ret.val = Seen(file[call.reg])
    BY DEF OrderlyReturnMeansDone
  <2>1. CASE call.kind = "wr"
    <3>1. Answered /\ Served /\ Ready
      BY <2>1 DEF UnitInv, PlaceInv, ServeInv, Serving, Answered
    <3>2. ret.val = call.val
      BY <2>1, <3>1 DEF UnitInv, ServeInv
    <3> QED BY <2>1, <3>1, <3>2 DEF Served, WriteServed, Ready, Still
  <2>2. CASE call.kind = "rd" /\ rdPairs = <<>>
    <3>1. /\ Answered /\ Served /\ Ready /\ answered
          /\ ret.val = Seen(seqOut)
      <4>1. Answered /\ Served /\ Ready /\ answered
        BY <2>2 DEF UnitInv, PlaceInv, ServeInv, Serving, Answered
      <4>2. ~rdBit /\ ~seqValid
        BY <4>1 DEF Ready, Still, UnitInv, HwInv
      <4>3. rdReg = seqOut
        BY <2>2, <4>1, <4>2 DEF Served, ReadServed
      <4>4. ret.val = Seen(rdReg)
        BY <2>2, <4>1 DEF UnitInv, ServeInv
      <4>5. Seen(rdReg) = Seen(seqOut)
        BY <4>3
      <4> QED BY <4>1, <4>4, <4>5
    <3>2. file[call.reg] = seqOut
      BY <2>2, <3>1 DEF Served, ReadServed, Ready
    <3>3. Seen(file[call.reg]) = Seen(seqOut)
      BY <3>2
    <3> QED BY <2>2, <3>1, <3>3
  <2> QED BY <2>1, <2>2
<1> QED BY <1>1, UnitIsConsistent, PTL

\* The step of the next theorem: which steps can let a request bit fall.
LEMMA BitsFall ==
  ASSUME UnitInv, [Next]_vars
  PROVE  /\ wrBit /\ ~wrBit' => /\ phase # "IDLE"
                                /\ op = [kind |-> "wr", reg |-> addrReg, val |-> wrReg]
         /\ rdBit /\ ~rdBit' => phase # "IDLE" /\ op.kind = "rd" /\ op.reg = addrReg
<1>1. TypeOK /\ HwTypes /\ HwInv /\ RequestInv
  BY Types DEF UnitInv
<1>2. CASE DriverStep
  <2>1. gap = 0
    BY <1>2 DEF DriverStep, Check, StatusRead, StatusWrite, Addr, Data, KickRead, Kick,
       Poll, Valid, Clear, Fetch, ResetPoll, Access
  <2> QED BY <1>1, <2>1, AtAccess
<1>3. CASE \E e \in BOOLEAN : Tick(e)
  BY <1>1, <1>3, RequestTick
<1>4. CASE StartCall \/ Timeout \/ UNCHANGED vars
  <2>1. UNCHANGED <<wrBit, rdBit>>
    BY <1>4 DEF StartCall, Call, Timeout, vars, hwVars, regVars
  <2> QED BY <2>1
<1> QED BY <1>2, <1>3, <1>4 DEF Next

\* The controller takes every request: a request bit that codec_registers drops as
\* busy, the controller is already working on, with that address and that data.
THEOREM NoRequestIsDropped == Spec => RequestsAreTaken
<1>1. ASSUME UnitInv, [Next]_vars
      PROVE  [/\ wrBit /\ ~wrBit' =>
                   /\ phase # "IDLE"
                   /\ op = [kind |-> "wr", reg |-> addrReg, val |-> wrReg]
              /\ rdBit /\ ~rdBit' => phase # "IDLE" /\ op.kind = "rd" /\ op.reg = addrReg
             ]_vars
  BY <1>1, BitsFall
<1> QED BY <1>1, UnitIsConsistent, PTL DEF Spec, RequestsAreTaken

\* While the controller pulses valid, no driver writes the valid bit.
LEMMA NobodyClears ==
  ASSUME UnitInv, seqValid, initDone, NEW w, ~Sets(w, "valid"), Clk(w)
  PROVE  validBit'
BY DEF Clk, RegistersClk, Rwc1, Sets

LEMMA PulseIsKept ==
  ASSUME UnitInv, [Next]_vars, seqValid, ~seqValid', initDone
  PROVE  validBit'
<1>1. ~Ready /\ HwInv /\ PlaceInv
  BY DEF UnitInv, HwInv, Ready, Still
<1>2. pc \notin {"statusRead", "statusWrite", "addr", "data", "valid", "clear", "fetch"}
      /\ (pc = "kick" => driver # "C")
  BY <1>1 DEF PlaceInv
<1>3. ASSUME NEW w, ~Sets(w, "valid"), Access(w)
      PROVE  validBit'
  BY <1>3, ClkOf, NobodyClears DEF Access
<1>4. ~Sets(NoWrite, "valid")
  BY DEF Sets, NoWrite
<1>5. CASE Check \/ KickRead \/ Poll \/ ResetPoll
  <2>1. Access(NoWrite)
    BY <1>5 DEF Check, KickRead, Poll, ResetPoll
  <2> QED BY <1>3, <1>4, <2>1
<1>6. CASE Kick
  <2> DEFINE bits == {call.kind} \cup IF driver = "C" THEN status ELSE {}
  <2>1. pc = "kick" /\ Access(WriteCtrl(bits))
    BY <1>6 DEF Kick
  <2>2. call.kind \in {"rd", "wr", "reset"}
    BY <2>1, KickBits
  <2>3. "valid" \notin bits
    BY <1>2, <2>1, <2>2
  <2> HIDE DEF bits
  <2>4. ~Sets(WriteCtrl(bits), "valid")
    BY <2>3, ControlWrite
  <2> QED BY <1>3, <2>1, <2>4
<1>7. CASE \/ StatusRead
           \/ StatusWrite
           \/ Addr
           \/ Data
           \/ Valid
           \/ Clear
           \/ Fetch
  BY <1>2, <1>7 DEF StatusRead, StatusWrite, Addr, Data, Valid, Clear, Fetch
<1>8. CASE \E e \in BOOLEAN : Tick(e)
  BY <1>4, <1>8, ClkOf, NobodyClears DEF Tick
<1>9. CASE StartCall \/ Timeout \/ UNCHANGED vars
  <2>1. UNCHANGED seqValid
    BY <1>9 DEF StartCall, Call, Timeout, vars, hwVars, ctlVars
  <2> QED BY <2>1
<1> QED BY <1>5, <1>6, <1>7, <1>8, <1>9 DEF Next, DriverStep

\* No valid pulse is lost to a driver that writes the control register in the very
\* clock in which the pulse would set the bit, where codec_registers lets the clear
\* win: whatever the C driver writes back, it writes to a unit at rest.
THEOREM PulsesAreSeen == Spec => NoValidLost
<1>1. ASSUME UnitInv, [Next]_vars
      PROVE  [seqValid /\ ~seqValid' /\ initDone => validBit']_vars
  BY <1>1, PulseIsKept
<1> QED BY <1>1, UnitIsConsistent, PTL DEF Spec, NoValidLost
=============================================================================
