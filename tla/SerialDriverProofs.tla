-------------------------- MODULE SerialDriverProofs --------------------------
(***************************************************************************)
(* Theorems about SerialDriver, for every size of the FIFOs and the queue, *)
(* any lengths of strings and any number of bytes.                         *)
(***************************************************************************)
EXTENDS SerialDriver, SequenceTheorems, TLAPS

-----------------------------------------------------------------------------
(* Sequences *)

LEMMA First ==
  ASSUME NEW S, NEW s \in Seq(S), s # <<>>
  PROVE  /\ Len(s) \in Nat \ {0}
         /\ Head(s) \in S /\ Head(s) = s[1]
         /\ Tail(s) \in Seq(S) /\ Len(Tail(s)) = Len(s) - 1
         /\ \A i \in 1 .. Len(s) - 1 : Tail(s)[i] = s[i + 1]
BY HeadTailProperties, LenProperties, EmptySeq

LEMMA Remainder ==
  ASSUME NEW S, NEW s \in Seq(S), NEW n \in 0 .. Len(s)
  PROVE  /\ SubSeq(s, n + 1, Len(s)) \in Seq(S)
         /\ Len(SubSeq(s, n + 1, Len(s))) = Len(s) - n
         /\ \A i \in 1 .. Len(s) - n : SubSeq(s, n + 1, Len(s))[i] = s[n + i]
<1>1. Len(s) \in Nat /\ n \in Int /\ n <= Len(s)
  BY LenProperties
<1>2. \A i \in n + 1 .. Len(s) : s[i] \in S
  BY <1>1, ElementOfSeq
<1>3. /\ SubSeq(s, n + 1, Len(s)) \in Seq(S)
      /\ Len(SubSeq(s, n + 1, Len(s))) = IF n + 1 <= Len(s) THEN Len(s) - (n + 1) + 1 ELSE 0
      /\ \A i \in 1 .. Len(s) - (n + 1) + 1 : SubSeq(s, n + 1, Len(s))[i] = s[n + 1 + i - 1]
  BY <1>1, <1>2, SubSeqProperties
<1>4. Len(s) - (n + 1) + 1 = Len(s) - n
  BY <1>1
<1>5. \A i \in 1 .. Len(s) - n : SubSeq(s, n + 1, Len(s))[i] = s[n + i]
  <2> TAKE i \in 1 .. Len(s) - n
  <2>1. n + 1 + i - 1 = n + i
    BY <1>1
  <2>2. SubSeq(s, n + 1, Len(s))[i] = s[n + 1 + i - 1]
    BY <1>3, <1>4
  <2> QED BY <2>1, <2>2
<1>6. Len(SubSeq(s, n + 1, Len(s))) = Len(s) - n
  <2>1. CASE n + 1 <= Len(s)
    BY <1>3, <1>4, <2>1
  <2>2. CASE ~(n + 1 <= Len(s))
    <3>1. Len(s) - n = 0
      BY <1>1, <2>2
    <3> QED BY <1>3, <2>2, <3>1
  <2> QED BY <2>1, <2>2
<1> QED BY <1>3, <1>5, <1>6

LEMMA Ascending ==
  ASSUME NEW S, NEW n \in Nat, NEW f \in [1 .. n -> S]
  PROVE  f \in Seq(S) /\ Len(f) = n
BY SeqDef

-----------------------------------------------------------------------------
(* The invariant *)

\* The last byte that left the FIFO, and what XUartPs_SendBuffer has written of
\* SendBuffer without having updated it.
Front == IF shifter = 0 THEN wire ELSE shifter
Written == sent["task"] + sent["handler"]

\* What has been asked for and is not yet in SendBuffer.
ToCome == IF place \in {"disable", "set"} THEN length ELSE 0

\* Shifter, FIFO and the rest of the buffer continue each other up to the last
\* byte that was put.
OrderInv ==
  /\ shifter # 0 => shifter = wire + 1
  /\ \A i \in 1 .. Len(txFifo) : txFifo[i] = Front + i
  /\ \A j \in 1 .. Len(SendBuffer) :
       j > Written => SendBuffer[j] = Front + Len(txFifo) + j - Written
  /\ Front + Len(txFifo) + Len(SendBuffer) - Written = asked - ToCome

\* Only one of task and handler is ever within XUartPs_SendBuffer.
CallInv ==
  /\ length <= asked /\ Len(SendBuffer) <= asked
  /\ place # "fill" => sent["task"] = 0
  /\ handler # "fill" => sent["handler"] = 0
  /\ handler = "fill" => "TXEMPTY" \in active
  /\ handler = "off" => active = {}
  /\ active \subseteq isr
  /\ "TXEMPTY" \in active => place = "wait"

\* The transmit interrupt comes while the task waits and at no other time; when it
\* has signalled the end the buffer is empty.
MaskInv ==
  /\ place \in {"set", "fill"} => "TXEMPTY" \notin imr
  /\ place \in {"give", "idle", "disable"} /\ "TXEMPTY" \in imr
       => txFifo = <<>> /\ "TXEMPTY" \notin isr
  /\ place \in {"disable", "set", "fill"} => xTxCompleteSemaphore = 0
  /\ place = "wait" /\ xTxCompleteSemaphore = 1 => "TXEMPTY" \notin imr /\ SendBuffer = <<>>
  /\ handler = "fill" => xTxCompleteSemaphore = 0

\* While something remains of the buffer, the FIFO will become empty and say so, or
\* has just done it.  The handler's last step cannot take that sign for the one it
\* has seen, since it left the FIFO full and at most one byte has gone since.
BufferInv ==
  /\ place \notin {"fill", "wait"} => SendBuffer = <<>>
  /\ place = "wait" /\ SendBuffer # <<>>
       => "TXEMPTY" \in imr /\ (txFifo # <<>> \/ "TXEMPTY" \in isr)
  /\ handler = "clear" /\ "TXEMPTY" \in active /\ SendBuffer # <<>>
       => Len(txFifo) >= FifoSize \/ (txFifo # <<>> /\ shifter # 0)

\* ReceivedInOrder, place by place.
RxInv == dropped \/ /\ Len(xRxQueue) + Len(rxFifo) = arrived - lastGot
                    /\ \A i \in 1 .. Len(xRxQueue) : xRxQueue[i] = lastGot + i
                    /\ \A i \in 1 .. Len(rxFifo) : rxFifo[i] = lastGot + Len(xRxQueue) + i

Inv == TypeOK /\ OrderInv /\ CallInv /\ MaskInv /\ BufferInv /\ RxInv

-----------------------------------------------------------------------------
(* The types *)

LEMMA Bytes ==
  TypeOK => /\ txFifo \in Seq(1 .. MaxPut) /\ SendBuffer \in Seq(1 .. MaxPut)
            /\ rxFifo \in Seq(1 .. MaxReceived) /\ xRxQueue \in Seq(1 .. MaxReceived)
BY DEF TypeOK

LEMMA Numbers ==
  TypeOK => /\ MaxPut \in Nat /\ MaxReceived \in Nat
            /\ FifoSize \in Nat /\ FifoSize > 1 /\ uxQueueLength \in Nat /\ uxQueueLength > 0
            /\ Len(txFifo) \in Nat /\ Len(SendBuffer) \in Nat
            /\ Len(rxFifo) \in Nat /\ Len(xRxQueue) \in Nat
            /\ shifter \in Nat /\ wire \in Nat /\ asked \in Nat /\ length \in Nat
            /\ arrived \in Nat /\ lastGot \in Nat
<1>1. MaxPut \in Nat /\ MaxReceived \in Nat
  BY SerialAssumption
<1>2. FifoSize \in Nat /\ FifoSize > 1 /\ uxQueueLength \in Nat /\ uxQueueLength > 0
  BY SerialAssumption
<1>3. TypeOK => /\ Len(txFifo) \in Nat /\ Len(SendBuffer) \in Nat
                /\ Len(rxFifo) \in Nat /\ Len(xRxQueue) \in Nat
  BY LenProperties DEF TypeOK
<1>4. TypeOK => /\ shifter \in Nat /\ wire \in Nat /\ asked \in Nat /\ length \in Nat
                /\ arrived \in Nat /\ lastGot \in Nat
  BY <1>1, SerialAssumption DEF TypeOK
<1> QED BY <1>1, <1>2, <1>3, <1>4

LEMMA Counts ==
  TypeOK => /\ sent \in [Caller -> Nat]
            /\ \A c \in Caller : sent[c] \in Nat /\ sent[c] <= Len(SendBuffer)
            /\ sent["task"] \in Nat /\ sent["handler"] \in Nat
<1>1. TypeOK => sent \in [Caller -> 0 .. MaxPut] /\ MaxPut \in Nat
  BY SerialAssumption DEF TypeOK
<1>2. TypeOK => \A c \in Caller : sent[c] <= Len(SendBuffer)
  BY DEF TypeOK
<1>3. "task" \in Caller /\ "handler" \in Caller
  BY DEF Caller
<1> QED BY <1>1, <1>2, <1>3

LEMMA FillTypes ==
  ASSUME NEW c \in Caller, TypeOK, CallInv, FillByte(c)
  PROVE  /\ txFifo' \in Seq(1 .. MaxPut) /\ Len(txFifo') <= FifoSize
         /\ sent' \in [Caller -> 0 .. MaxPut]
         /\ \A d \in Caller : sent'[d] <= Len(SendBuffer)
         /\ SendBuffer' = SendBuffer
         /\ Len(txFifo') = Len(txFifo) + 1
         /\ \A i \in 1 .. Len(txFifo) : txFifo'[i] = txFifo[i]
         /\ txFifo'[Len(txFifo) + 1] = SendBuffer[sent[c] + 1]
         /\ sent[c] + 1 \in 1 .. Len(SendBuffer)
<1>1. Len(txFifo) < FifoSize /\ sent[c] < Len(SendBuffer) /\ sent[c] \in Nat
  BY Counts DEF FillByte, CanFill
<1>2. /\ Len(txFifo) \in Nat /\ Len(SendBuffer) \in Nat
       /\ MaxPut \in Nat /\ FifoSize \in Nat /\ asked \in Nat
  BY Numbers
<1>3. sent[c] + 1 \in 1 .. Len(SendBuffer)
  BY <1>1, <1>2
<1>4. SendBuffer[sent[c] + 1] \in 1 .. MaxPut
  BY <1>3, Bytes, ElementOfSeq
<1>5. txFifo' = Append(txFifo, SendBuffer[sent[c] + 1])
  BY DEF FillByte
<1>6. /\ txFifo' \in Seq(1 .. MaxPut) /\ Len(txFifo') = Len(txFifo) + 1
      /\ \A i \in 1 .. Len(txFifo) : txFifo'[i] = txFifo[i]
      /\ txFifo'[Len(txFifo) + 1] = SendBuffer[sent[c] + 1]
  BY <1>4, <1>5, Bytes, AppendProperties
<1>7. sent' = [sent EXCEPT ![c] = @ + 1] /\ SendBuffer' = SendBuffer
  BY DEF FillByte
<1>8. asked <= MaxPut /\ Len(SendBuffer) <= asked
  BY DEF TypeOK, CallInv
<1>9. sent[c] + 1 \in 0 .. MaxPut
  BY <1>1, <1>3, <1>8, <1>2
<1>10. sent' \in [Caller -> 0 .. MaxPut] /\ \A d \in Caller : sent'[d] <= Len(SendBuffer)
  <2>1. sent \in [Caller -> 0 .. MaxPut] /\ \A d \in Caller : sent[d] <= Len(SendBuffer)
    BY DEF TypeOK
  <2>2. sent' \in [Caller -> 0 .. MaxPut]
    BY <1>7, <1>9, <2>1
  <2>3. ASSUME NEW d \in Caller
        PROVE  sent'[d] <= Len(SendBuffer)
    <3>1. CASE d = c
      BY <1>3, <1>7, <2>1, <3>1, Numbers
    <3>2. CASE d # c
      BY <1>7, <2>1, <3>2
    <3> QED BY <3>1, <3>2
  <2> QED BY <2>2, <2>3
<1>11. Len(txFifo') = Len(txFifo) + 1
  BY <1>6
<1>12. Len(txFifo') <= FifoSize
  BY <1>1, <1>2, <1>11
<1> QED BY <1>3, <1>6, <1>7, <1>10, <1>12

LEMMA UpdateTypes ==
  ASSUME NEW c \in Caller, TypeOK, UpdateBuffer(c), \A d \in Caller \ {c} : sent[d] = 0
  PROVE  /\ SendBuffer' \in Seq(1 .. MaxPut)
         /\ Len(SendBuffer') = Len(SendBuffer) - sent[c]
         /\ \A i \in 1 .. Len(SendBuffer') : SendBuffer'[i] = SendBuffer[sent[c] + i]
         /\ sent' = [d \in Caller |-> 0]
<1>1. sent[c] \in 0 .. Len(SendBuffer)
  BY Counts, Numbers
<1>2. SendBuffer' = SubSeq(SendBuffer, sent[c] + 1, Len(SendBuffer))
  BY DEF UpdateBuffer
<1>3. sent' = [d \in Caller |-> 0]
  <2>1. sent' = [sent EXCEPT ![c] = 0]
    BY DEF UpdateBuffer
  <2>2. sent \in [Caller -> Nat]
    BY Counts
  <2> QED BY <2>1, <2>2
<1>4. /\ SendBuffer' \in Seq(1 .. MaxPut)
      /\ Len(SendBuffer') = Len(SendBuffer) - sent[c]
      /\ \A i \in 1 .. Len(SendBuffer) - sent[c] : SendBuffer'[i] = SendBuffer[sent[c] + i]
  BY <1>1, <1>2, Remainder, Bytes
<1> QED BY <1>3, <1>4

LEMMA InitInv == Init => Inv
<1> SUFFICES ASSUME Init PROVE Inv
  OBVIOUS
<1>1. /\ SendBuffer = <<>> /\ Len(SendBuffer) = 0 /\ Len(txFifo) = 0
      /\ Len(rxFifo) = 0 /\ Len(xRxQueue) = 0
  BY DEF Init
<1>2. TypeOK
  <2>1. /\ txFifo \in Seq(1 .. MaxPut) /\ SendBuffer \in Seq(1 .. MaxPut)
        /\ rxFifo \in Seq(1 .. MaxReceived) /\ xRxQueue \in Seq(1 .. MaxReceived)
    BY EmptySeq DEF Init
  <2>2. sent \in [Caller -> 0 .. MaxPut] /\ \A c \in Caller : sent[c] <= Len(SendBuffer)
    BY <1>1, SerialAssumption DEF Init
  <2>3. /\ Len(txFifo) <= FifoSize /\ Len(rxFifo) <= FifoSize /\ Len(xRxQueue) <= uxQueueLength
        /\ shifter \in 0 .. MaxPut /\ wire \in 0 .. MaxPut /\ asked \in 0 .. MaxPut
        /\ arrived \in 0 .. MaxReceived /\ lastGot \in 0 .. MaxReceived
    BY <1>1, SerialAssumption DEF Init
  <2> QED BY <2>1, <2>2, <2>3 DEF Init, TypeOK, Interrupt
<1>3. OrderInv
  BY <1>1 DEF Init, OrderInv, Front, Written, ToCome, Caller
<1>4. CallInv /\ MaskInv /\ BufferInv /\ RxInv
  BY <1>1 DEF Init, CallInv, MaskInv, BufferInv, RxInv, Caller
<1> QED BY <1>2, <1>3, <1>4 DEF Inv

LEMMA TypeStep == Inv /\ [Next]_vars => TypeOK'
<1> SUFFICES ASSUME Inv, [Next]_vars PROVE TypeOK'
  OBVIOUS
<1> USE DEF Interrupt
<1>1. TypeOK /\ CallInv /\ OrderInv
  BY DEF Inv
<1>0. /\ MaxPut \in Nat /\ MaxReceived \in Nat /\ FifoSize \in Nat /\ uxQueueLength \in Nat
      /\ Len(txFifo) \in Nat /\ Len(rxFifo) \in Nat /\ Len(xRxQueue) \in Nat
      /\ asked \in Nat /\ length \in Nat /\ arrived \in Nat
      /\ Len(txFifo) <= FifoSize /\ Len(rxFifo) <= FifoSize /\ Len(xRxQueue) <= uxQueueLength
  BY <1>1, Numbers DEF TypeOK
<1>2. CASE Uart
  <2>1. CASE Load
    <3>1. Head(txFifo) \in 1 .. MaxPut /\ Tail(txFifo) \in Seq(1 .. MaxPut)
          /\ Len(Tail(txFifo)) <= FifoSize
      <4>1. txFifo # <<>> /\ txFifo \in Seq(1 .. MaxPut)
        BY <1>1, <2>1 DEF Load, TypeOK
      <4>2. Head(txFifo) \in 1 .. MaxPut /\ Tail(txFifo) \in Seq(1 .. MaxPut)
            /\ Len(Tail(txFifo)) = Len(txFifo) - 1
        BY <4>1, First
      <4>3. Len(Tail(txFifo)) <= FifoSize
        BY <1>0, <4>2
      <4> QED BY <4>2, <4>3
    <3>2. Head(txFifo) \in 0 .. MaxPut
      BY <1>0, <3>1
    <3> QED BY <1>1, <2>1, <3>1, <3>2 DEF Load, TypeOK, rxVars, putVars, sendVars, getVars
  <2>2. CASE Shift
    <3>1. 0 \in 0 .. MaxPut
      BY <1>0
    <3> QED BY <1>1, <2>2, <3>1 DEF Shift, TypeOK, rxVars, putVars, sendVars, getVars
  <2>3. CASE Arrive
    <3>1. arrived + 1 \in 0 .. MaxReceived /\ arrived + 1 \in 1 .. MaxReceived
      BY <1>0, <2>3 DEF Arrive
    <3>2. rxFifo' \in Seq(1 .. MaxReceived) /\ Len(rxFifo') <= FifoSize
      <4>1. CASE Len(rxFifo) = FifoSize
        BY <1>1, <2>3, <4>1 DEF Arrive, TypeOK
      <4>2. CASE Len(rxFifo) # FifoSize
        <5>1. rxFifo' = Append(rxFifo, arrived + 1)
          BY <2>3, <4>2 DEF Arrive
        <5>2. Len(rxFifo) < FifoSize
          BY <1>0, <4>2
        <5>3. rxFifo' \in Seq(1 .. MaxReceived) /\ Len(rxFifo') = Len(rxFifo) + 1
          BY <1>1, <3>1, <5>1, Bytes, AppendProperties
        <5> QED BY <1>0, <5>2, <5>3
      <4> QED BY <4>1, <4>2
    <3>3. isr' \subseteq Interrupt /\ dropped' \in BOOLEAN
      BY <1>1, <2>3 DEF Arrive, TypeOK
    <3> QED BY <1>1, <2>3, <3>1, <3>2, <3>3
         DEF Arrive, TypeOK, uartVars, putVars, sendVars, getVars
  <2>4. CASE RxTimeout
    BY <1>1, <2>4 DEF RxTimeout, TypeOK, uartVars, putVars, sendVars, getVars
  <2> QED BY <1>2, <2>1, <2>2, <2>3, <2>4 DEF Uart
<1>3. CASE Put
  <2>1. PICK n \in Lengths, char \in BOOLEAN :
          asked + n <= MaxPut /\ asked' = asked + n /\ length' = n /\ isChar' = char
    BY <1>3 DEF Put
  <2>2. asked' \in 0 .. MaxPut /\ length' \in Lengths \cup {0} /\ isChar' \in BOOLEAN
    BY <1>0, <2>1, SerialAssumption
  <2> QED BY <1>1, <1>3, <2>2 DEF Put, Task, TypeOK, rxVars, getVars, uartVars, sendVars
<1>4. CASE Disable \/ Wait \/ Give
  <2>1. imr' \subseteq Interrupt
    BY <1>1, <1>4 DEF Disable, Wait, Give, Masked, TypeOK
  <2> QED BY <1>1, <1>4, <2>1
       DEF Disable, Wait, Give, Task, TypeOK, rxVars, getVars, uartVars, sendVars
<1>5. CASE SetBuffer
  <2>1. length <= asked /\ asked <= MaxPut /\ Written = 0
        /\ place = "set" /\ sent["task"] = 0 /\ sent["handler"] = 0
    <3>1. handler = "off" /\ place = "set"
      BY <1>5 DEF SetBuffer, Task
    <3> QED BY <1>1, <3>1 DEF CallInv, TypeOK, Written
  <2>2. SendBuffer' \in [1 .. length -> 1 .. MaxPut]
    <3>1. SendBuffer' = [i \in 1 .. length |-> asked - length + i]
      BY <1>5 DEF SetBuffer
    <3>2. \A i \in 1 .. length : asked - length + i \in 1 .. MaxPut
      BY <1>0, <2>1
    <3> QED BY <3>1, <3>2
  <2>3. SendBuffer' \in Seq(1 .. MaxPut) /\ Len(SendBuffer') = length
    BY <1>1, <2>2, Ascending, Numbers
  <2>4. \A c \in Caller : sent'[c] <= Len(SendBuffer')
    <3>1. sent' = sent
      BY <1>5 DEF SetBuffer
    <3>2. length >= 0
      BY <1>1, Numbers
    <3> QED BY <2>1, <2>3, <3>1, <3>2 DEF Caller
  <2> QED BY <1>1, <1>5, <2>3, <2>4 DEF SetBuffer, Task, TypeOK, rxVars, getVars, uartVars
<1>6. CASE Fill
  <2>1. FillByte("task") /\ "task" \in Caller
    BY <1>6 DEF Fill, Caller
  <2>2. /\ txFifo' \in Seq(1 .. MaxPut) /\ Len(txFifo') <= FifoSize
        /\ sent' \in [Caller -> 0 .. MaxPut] /\ SendBuffer' = SendBuffer
        /\ \A d \in Caller : sent'[d] <= Len(SendBuffer)
    BY <1>1, <2>1, FillTypes
  <2>3. /\ UNCHANGED <<rxVars, getVars, isr, imr, handler, active, dropped, place, shifter,
                       wire, isChar, length, asked, xTxCompleteSemaphore, wiped>>
    BY <1>6 DEF Fill, FillByte, Task
  <2> QED BY <1>1, <2>2, <2>3 DEF TypeOK, rxVars, getVars
<1>7. CASE Enable
  <2>1. /\ UpdateBuffer("task") /\ "task" \in Caller
        /\ \A d \in Caller \ {"task"} : sent[d] = 0
    BY <1>1, <1>7 DEF Enable, Caller, CallInv, Task
  <2>2. SendBuffer' \in Seq(1 .. MaxPut) /\ sent' = [d \in Caller |-> 0]
        /\ Len(SendBuffer') = Len(SendBuffer) - sent["task"]
    BY <1>1, <2>1, UpdateTypes
  <2>3. sent' \in [Caller -> 0 .. MaxPut] /\ \A d \in Caller : sent'[d] <= Len(SendBuffer')
    <3>1. Len(SendBuffer') \in Nat
      BY <1>1, <2>1, <2>2, Numbers, Counts
    <3>2. 0 \in 0 .. MaxPut /\ 0 <= Len(SendBuffer')
      BY <1>0, <3>1
    <3> QED BY <2>2, <3>2
  <2>4. imr' \subseteq Interrupt
    BY <1>1, <2>1 DEF UpdateBuffer, TypeOK
  <2> QED BY <1>1, <1>7, <2>1, <2>2, <2>3, <2>4
       DEF Enable, UpdateBuffer, Task, TypeOK, rxVars, getVars, uartVars
<1>8. CASE Get
  <2>1. Tail(xRxQueue) \in Seq(1 .. MaxReceived) /\ Len(Tail(xRxQueue)) <= uxQueueLength
        /\ Head(xRxQueue) \in 0 .. MaxReceived
    <3>1. xRxQueue # <<>> /\ xRxQueue \in Seq(1 .. MaxReceived)
          /\ Len(xRxQueue) <= uxQueueLength
      BY <1>1, <1>8 DEF Get, TypeOK
    <3>2. Tail(xRxQueue) \in Seq(1 .. MaxReceived) /\ Len(Tail(xRxQueue)) = Len(xRxQueue) - 1
          /\ Head(xRxQueue) \in 1 .. MaxReceived
      BY <3>1, First
    <3> QED BY <1>0, <3>1, <3>2
  <2> QED BY <1>1, <1>8, <2>1 DEF Get, TypeOK, uartVars, rxVars, putVars, sendVars
<1>9. CASE Handling
  <2>1. CASE Enter \/ NoTransmit \/ Complete \/ More \/ Clear \/ Received
    <3>1. isr' \subseteq Interrupt /\ imr' \subseteq Interrupt /\ active' \subseteq Interrupt
      BY <1>1, <2>1 DEF Enter, NoTransmit, Complete, More, Clear, Received, Cleared, TypeOK
    <3>2. /\ UNCHANGED <<txFifo, shifter, wire, rxFifo, arrived, timer, place, isChar, length>>
          /\ UNCHANGED <<asked, SendBuffer, sent, xRxQueue, lastGot, dropped>>
      BY <2>1 DEF Enter, NoTransmit, Complete, More, Clear, Received, Handler, uartVars,
         putVars, sendVars
    <3>3. handler' \in {"off", "rx", "tx", "fill", "clear"} /\ xTxCompleteSemaphore' \in {0, 1}
          /\ wiped' \in BOOLEAN
      BY <1>1, <2>1 DEF Enter, NoTransmit, Complete, More, Clear, Received, Handler, TypeOK
    <3> QED BY <1>1, <3>1, <3>2, <3>3 DEF TypeOK
  <2>2. CASE Receive
    <3>1. Tail(rxFifo) \in Seq(1 .. MaxReceived) /\ Len(Tail(rxFifo)) <= FifoSize
          /\ Head(rxFifo) \in 1 .. MaxReceived
      <4>1. rxFifo # <<>> /\ rxFifo \in Seq(1 .. MaxReceived) /\ Len(rxFifo) <= FifoSize
        BY <1>1, <2>2 DEF Receive, TypeOK
      <4>2. Tail(rxFifo) \in Seq(1 .. MaxReceived) /\ Len(Tail(rxFifo)) = Len(rxFifo) - 1
            /\ Head(rxFifo) \in 1 .. MaxReceived
        BY <4>1, First
      <4> QED BY <1>0, <4>1, <4>2
    <3>2. xRxQueue' \in Seq(1 .. MaxReceived) /\ Len(xRxQueue') <= uxQueueLength
      <4>1. CASE HasRoom
        <5>1. xRxQueue' = Append(xRxQueue, Head(rxFifo)) /\ Len(xRxQueue) < uxQueueLength
          BY <2>2, <4>1 DEF Receive, HasRoom
        <5>2. xRxQueue' \in Seq(1 .. MaxReceived) /\ Len(xRxQueue') = Len(xRxQueue) + 1
          BY <1>1, <3>1, <5>1, Bytes, AppendProperties
        <5> QED BY <1>0, <5>1, <5>2
      <4>2. CASE ~HasRoom
        BY <1>1, <2>2, <4>2 DEF Receive, TypeOK
      <4> QED BY <4>1, <4>2
    <3>3. handler' \in {"off", "rx", "tx", "fill", "clear"} /\ dropped' \in BOOLEAN
      BY <1>1, <2>2 DEF Receive, Handler, AfterByte, TypeOK
    <3> QED BY <1>1, <2>2, <3>1, <3>2, <3>3
         DEF Receive, Handler, TypeOK, uartVars, putVars, sendVars
  <2>3. CASE Refill
    <3>1. FillByte("handler") /\ "handler" \in Caller
      BY <2>3 DEF Refill, Caller
    <3>2. /\ txFifo' \in Seq(1 .. MaxPut) /\ Len(txFifo') <= FifoSize
          /\ sent' \in [Caller -> 0 .. MaxPut] /\ SendBuffer' = SendBuffer
          /\ \A d \in Caller : sent'[d] <= Len(SendBuffer)
      BY <1>1, <3>1, FillTypes
    <3> QED BY <1>1, <2>3, <3>2 DEF Refill, FillByte, Handler, TypeOK, putVars
  <2>4. CASE Refilled
    <3>1. /\ UpdateBuffer("handler") /\ "handler" \in Caller
          /\ \A d \in Caller \ {"handler"} : sent[d] = 0
      BY <1>1, <2>4 DEF Refilled, Caller, CallInv, Handler
    <3>2. SendBuffer' \in Seq(1 .. MaxPut) /\ sent' = [d \in Caller |-> 0]
          /\ Len(SendBuffer') = Len(SendBuffer) - sent["handler"]
      BY <1>1, <3>1, UpdateTypes
    <3>3. sent' \in [Caller -> 0 .. MaxPut] /\ \A d \in Caller : sent'[d] <= Len(SendBuffer')
      <4>1. Len(SendBuffer') \in Nat
        BY <1>1, <3>1, <3>2, Numbers, Counts
      <4> QED BY <1>1, <3>2, <4>1, Numbers
    <3>4. imr' \subseteq Interrupt
      BY <1>1, <3>1 DEF UpdateBuffer, TypeOK
    <3> QED BY <1>1, <2>4, <3>1, <3>2, <3>3, <3>4
         DEF Refilled, UpdateBuffer, Handler, TypeOK, uartVars, putVars
  <2> QED BY <1>9, <2>1, <2>2, <2>3, <2>4 DEF Handling
<1>10. CASE UNCHANGED vars
  BY <1>1, <1>10
     DEF TypeOK, vars, uartVars, rxVars, putVars, sendVars, getVars
<1> QED BY <1>2, <1>3, <1>4, <1>5, <1>6, <1>7, <1>8, <1>9, <1>10 DEF Next, Putting

-----------------------------------------------------------------------------
(* The bytes in order *)

LEMMA FillKeepsOrder ==
  ASSUME NEW c \in Caller, TypeOK, CallInv, OrderInv, FillByte(c),
         \A d \in Caller \ {c} : sent[d] = 0,
         place' = place, length' = length, asked' = asked
  PROVE  OrderInv'
<1> DEFINE n == Len(txFifo)
           w == sent[c]
<1>1. /\ SendBuffer' = SendBuffer /\ Len(txFifo') = n + 1
      /\ \A i \in 1 .. n : txFifo'[i] = txFifo[i]
      /\ txFifo'[n + 1] = SendBuffer[w + 1]
      /\ w + 1 \in 1 .. Len(SendBuffer)
  BY FillTypes
<1>2. /\ n \in Nat /\ w \in Nat /\ Len(SendBuffer) \in Nat
      /\ shifter \in Nat /\ wire \in Nat
  BY Numbers, Counts
<1>3. Written = w /\ Written' = w + 1
  <2>1. sent' = [sent EXCEPT ![c] = @ + 1] /\ sent \in [Caller -> Nat]
    BY Counts DEF FillByte
  <2>2. CASE c = "task"
    BY <1>2, <2>1, <2>2 DEF Written, Caller
  <2>3. CASE c = "handler"
    BY <1>2, <2>1, <2>3 DEF Written, Caller
  <2> QED BY <2>2, <2>3 DEF Caller
<1>4. Front' = Front /\ ToCome' = ToCome /\ shifter' = shifter /\ wire' = wire /\ Front \in Nat
  BY <1>2 DEF Front, ToCome, FillByte
<1> HIDE DEF n, w
<1>5. SendBuffer[w + 1] = Front + n + 1
  <2>1. SendBuffer[w + 1] = Front + n + (w + 1) - w
    BY <1>1, <1>2, <1>3 DEF OrderInv, n
  <2> QED BY <1>2, <1>4, <2>1
<1>6. \A i \in 1 .. Len(txFifo') : txFifo'[i] = Front + i
  <2> TAKE i \in 1 .. Len(txFifo')
  <2>1. CASE i = n + 1
    BY <1>1, <1>2, <1>4, <1>5, <2>1
  <2>2. CASE i # n + 1
    <3>1. i \in 1 .. n
      BY <1>1, <1>2, <2>2
    <3> QED BY <1>1, <3>1 DEF OrderInv, n
  <2> QED BY <2>1, <2>2
<1>7. \A j \in 1 .. Len(SendBuffer) :
        j > w + 1 => SendBuffer[j] = Front + (n + 1) + j - (w + 1)
  <2> TAKE j \in 1 .. Len(SendBuffer)
  <2>1. j > w + 1 => SendBuffer[j] = Front + n + j - w
    BY <1>2, <1>3 DEF OrderInv, n
  <2> QED BY <1>2, <1>4, <2>1
<1>8. Front + (n + 1) + Len(SendBuffer) - (w + 1) = asked - ToCome
  <2>1. Front + n + Len(SendBuffer) - w = asked - ToCome
    BY <1>3 DEF OrderInv, n
  <2> QED BY <1>2, <1>4, <2>1
<1>9. shifter' # 0 => shifter' = wire' + 1
  BY <1>4 DEF OrderInv
<1> QED BY <1>1, <1>3, <1>4, <1>6, <1>7, <1>8, <1>9 DEF OrderInv, n

LEMMA UpdateKeepsOrder ==
  ASSUME NEW c \in Caller, TypeOK, OrderInv, UpdateBuffer(c),
         \A d \in Caller \ {c} : sent[d] = 0,
         ToCome' = ToCome, asked' = asked
  PROVE  OrderInv'
<1> DEFINE n == Len(txFifo)
           w == sent[c]
           rest == Len(SendBuffer) - w
<1>1. /\ Len(SendBuffer') = rest
      /\ \A i \in 1 .. rest : SendBuffer'[i] = SendBuffer[w + i]
      /\ sent' = [d \in Caller |-> 0]
  BY UpdateTypes
<1>2. /\ n \in Nat /\ w \in Nat /\ Len(SendBuffer) \in Nat /\ w <= Len(SendBuffer)
      /\ shifter \in Nat /\ wire \in Nat
  BY Numbers, Counts
<1>3. Written = w /\ Written' = 0
  BY <1>1, <1>2 DEF Written, Caller
<1>4. /\ txFifo' = txFifo /\ shifter' = shifter /\ wire' = wire
      /\ Front' = Front /\ Front \in Nat
  BY <1>2 DEF UpdateBuffer, uartVars, Front
<1> HIDE DEF n, w
<1>5. \A j \in 1 .. rest : SendBuffer'[j] = Front + n + j - 0
  <2> TAKE j \in 1 .. rest
  <2>1. w + j \in 1 .. Len(SendBuffer) /\ w + j > w
    BY <1>2
  <2>2. SendBuffer[w + j] = Front + n + (w + j) - w
    BY <1>3, <2>1 DEF OrderInv, n
  <2>3. SendBuffer'[j] = SendBuffer[w + j]
    BY <1>1
  <2> QED BY <1>2, <1>4, <2>2, <2>3
<1>6. Front + n + rest - 0 = asked - ToCome
  <2>1. Front + n + Len(SendBuffer) - w = asked - ToCome
    BY <1>3 DEF OrderInv, n
  <2> QED BY <1>2, <1>4, <2>1
<1> HIDE DEF rest
<1>7. OrderInv' <=> /\ shifter # 0 => shifter = wire + 1
                    /\ \A i \in 1 .. n : txFifo[i] = Front + i
                    /\ \A j \in 1 .. rest : j > 0 => SendBuffer'[j] = Front + n + j - 0
                    /\ Front + n + rest - 0 = asked - ToCome
  BY <1>1, <1>3, <1>4 DEF OrderInv, n
<1> QED BY <1>5, <1>6, <1>7 DEF OrderInv, n

LEMMA OrderStep == Inv /\ [Next]_vars => OrderInv'
<1> SUFFICES ASSUME Inv, [Next]_vars PROVE OrderInv'
  OBVIOUS
<1>1. TypeOK /\ CallInv /\ OrderInv /\ BufferInv
  BY DEF Inv
<1>2. /\ Len(txFifo) \in Nat /\ Len(SendBuffer) \in Nat /\ shifter \in Nat /\ wire \in Nat
      /\ asked \in Nat /\ length \in Nat /\ Front \in Nat /\ Written \in Nat
  <2>1. /\ Len(txFifo) \in Nat /\ Len(SendBuffer) \in Nat /\ shifter \in Nat /\ wire \in Nat
        /\ asked \in Nat /\ length \in Nat
    BY <1>1, Numbers
  <2>2. sent["task"] \in Nat /\ sent["handler"] \in Nat
    BY <1>1, Counts
  <2> QED BY <2>1, <2>2 DEF Front, Written
<1>3. CASE Load
  <2>1. /\ shifter = 0 /\ txFifo # <<>> /\ shifter' = Head(txFifo) /\ txFifo' = Tail(txFifo)
        /\ wire' = wire /\ SendBuffer' = SendBuffer /\ Written' = Written
        /\ asked' = asked /\ ToCome' = ToCome
    BY <1>3 DEF Load, putVars, sendVars, Written, ToCome
  <2>2. /\ Head(txFifo) = txFifo[1] /\ Len(txFifo') = Len(txFifo) - 1 /\ Len(txFifo) # 0
        /\ \A i \in 1 .. Len(txFifo) - 1 : txFifo'[i] = txFifo[i + 1]
    BY <1>1, <2>1, First, Bytes
  <2>3. Front = wire /\ shifter' = wire + 1 /\ Front' = wire + 1
    <3>1. Front = wire /\ txFifo[1] = Front + 1
      BY <1>1, <1>2, <2>1, <2>2 DEF OrderInv, Front
    <3> QED BY <1>2, <2>1, <2>2, <3>1 DEF Front
  <2>4. \A i \in 1 .. Len(txFifo') : txFifo'[i] = Front' + i
    <3> TAKE i \in 1 .. Len(txFifo')
    <3>1. i + 1 \in 1 .. Len(txFifo) /\ i \in 1 .. Len(txFifo) - 1
      BY <1>2, <2>2
    <3>2. txFifo[i + 1] = Front + (i + 1)
      BY <1>1, <3>1 DEF OrderInv
    <3> QED BY <1>2, <2>2, <2>3, <3>1, <3>2
  <2>5. Front' + Len(txFifo') = Front + Len(txFifo)
    BY <1>2, <2>2, <2>3
  <2> QED BY <1>1, <2>1, <2>3, <2>4, <2>5 DEF OrderInv
<1>4. CASE Shift
  <2>1. /\ shifter # 0 /\ shifter' = 0 /\ wire' = shifter /\ txFifo' = txFifo
        /\ SendBuffer' = SendBuffer /\ Written' = Written
        /\ asked' = asked /\ ToCome' = ToCome
    BY <1>4 DEF Shift, putVars, sendVars, Written, ToCome
  <2>2. Front' = Front
    BY <2>1 DEF Front
  <2> QED BY <1>1, <2>1, <2>2 DEF OrderInv
<1>5. CASE Put
  <2>1. PICK n \in Lengths : asked' = asked + n /\ length' = n
    BY <1>5 DEF Put
  <2>2. /\ place = "idle" /\ place' = "disable"
        /\ shifter' = shifter /\ wire' = wire /\ txFifo' = txFifo
        /\ SendBuffer' = SendBuffer /\ Written' = Written /\ Front' = Front
    BY <1>5 DEF Put, Task, uartVars, sendVars, Written, Front
  <2>3. asked' - ToCome' = asked - ToCome
    BY <1>2, <2>1, <2>2, SerialAssumption DEF ToCome
  <2> QED BY <1>1, <2>2, <2>3 DEF OrderInv
<1>6. CASE SetBuffer
  <2>1. /\ place = "set" /\ place' = "fill" /\ handler = "off"
        /\ SendBuffer' = [i \in 1 .. length |-> asked - length + i]
        /\ shifter' = shifter /\ wire' = wire /\ txFifo' = txFifo /\ asked' = asked
        /\ sent' = sent /\ Front' = Front
    BY <1>6 DEF SetBuffer, Task, uartVars, Front
  <2>2. Written = 0 /\ Written' = 0 /\ SendBuffer = <<>> /\ Len(SendBuffer) = 0
    BY <1>1, <2>1 DEF CallInv, BufferInv, Written
  <2>3. Front + Len(txFifo) = asked - length
    <3>1. Front + Len(txFifo) + 0 - 0 = asked - length
      BY <1>1, <2>1, <2>2 DEF OrderInv, ToCome
    <3> QED BY <1>2, <3>1
  <2>4. Len(SendBuffer') = length
    <3>1. SendBuffer' \in [1 .. length -> Int]
      BY <1>2, <2>1
    <3> QED BY <1>2, <3>1, Ascending
  <2>5. \A j \in 1 .. length : SendBuffer'[j] = Front + Len(txFifo) + j - 0
    BY <1>2, <2>1, <2>3
  <2>6. Front + Len(txFifo) + length - 0 = asked - 0
    BY <1>2, <2>3
  <2>7. ToCome' = 0
    BY <2>1 DEF ToCome
  <2> QED BY <1>1, <2>1, <2>2, <2>4, <2>5, <2>6, <2>7 DEF OrderInv
<1>7. CASE Fill
  <2>1. /\ FillByte("task") /\ "task" \in Caller /\ \A d \in Caller \ {"task"} : sent[d] = 0
        /\ place' = place /\ length' = length /\ asked' = asked
    BY <1>1, <1>7 DEF Fill, Task, Caller, CallInv
  <2> QED BY <1>1, <2>1, FillKeepsOrder
<1>8. CASE Enable
  <2>1. /\ UpdateBuffer("task") /\ "task" \in Caller
        /\ \A d \in Caller \ {"task"} : sent[d] = 0
        /\ ToCome' = ToCome /\ asked' = asked
    BY <1>1, <1>8 DEF Enable, Task, Caller, CallInv, ToCome
  <2> QED BY <1>1, <2>1, UpdateKeepsOrder
<1>9. CASE Refill
  <2>1. /\ FillByte("handler") /\ "handler" \in Caller
        /\ "TXEMPTY" \in active
        /\ place' = place /\ length' = length /\ asked' = asked
    BY <1>1, <1>9 DEF Refill, Handler, Caller, CallInv, putVars
  <2>2. \A d \in Caller \ {"handler"} : sent[d] = 0
    BY <1>1, <2>1 DEF Caller, CallInv
  <2> QED BY <1>1, <2>1, <2>2, FillKeepsOrder
<1>10. CASE Refilled
  <2>1. /\ UpdateBuffer("handler") /\ "handler" \in Caller
        /\ "TXEMPTY" \in active
        /\ ToCome' = ToCome /\ asked' = asked
    BY <1>1, <1>10 DEF Refilled, Handler, Caller, CallInv, ToCome, putVars
  <2>2. \A d \in Caller \ {"handler"} : sent[d] = 0
    BY <1>1, <2>1 DEF Caller, CallInv
  <2> QED BY <1>1, <2>1, <2>2, UpdateKeepsOrder
<1>11. CASE \/ Arrive \/ RxTimeout \/ Disable \/ Wait \/ Give \/ Get \/ Enter \/ Receive
            \/ Received \/ NoTransmit \/ Complete \/ More \/ Clear \/ UNCHANGED vars
  <2>1. /\ txFifo' = txFifo /\ shifter' = shifter /\ wire' = wire /\ SendBuffer' = SendBuffer
        /\ sent' = sent /\ asked' = asked
    BY <1>11 DEF Arrive, RxTimeout, Disable, Wait, Give, Get, Enter, Receive, Received,
         NoTransmit, Complete, More, Clear, Handler, vars, uartVars, sendVars, putVars
  <2>2. ToCome' = ToCome
    BY <1>11 DEF Arrive, RxTimeout, Disable, Wait, Give, Get, Enter, Receive, Received,
         NoTransmit, Complete, More, Clear, Handler, Task, vars, putVars, ToCome
  <2> QED BY <1>1, <2>1, <2>2 DEF OrderInv, Front, Written
<1> QED BY <1>3, <1>4, <1>5, <1>6, <1>7, <1>8, <1>9, <1>10, <1>11
        DEF Next, Uart, Putting, Handling

-----------------------------------------------------------------------------
(* Who is where *)

LEMMA CallStep == Inv /\ [Next]_vars => CallInv'
<1> SUFFICES ASSUME Inv, [Next]_vars PROVE CallInv'
  OBVIOUS
<1>1. TypeOK /\ CallInv /\ MaskInv
  BY DEF Inv
<1>2. length \in Nat /\ asked \in Nat /\ Len(SendBuffer) \in Nat
  BY <1>1, Numbers
<1>3. CASE Load \/ Shift \/ Arrive \/ RxTimeout \/ Get \/ UNCHANGED vars
  BY <1>1, <1>3 DEF Load, Shift, Arrive, RxTimeout, Get, CallInv, vars, uartVars, putVars,
     sendVars, rxVars, getVars
<1>4. CASE Put
  <2>1. PICK n \in Lengths : asked' = asked + n /\ length' = n
    BY <1>4 DEF Put
  <2>2. length' <= asked' /\ Len(SendBuffer) <= asked'
    BY <1>1, <1>2, <2>1, SerialAssumption DEF CallInv
  <2> QED BY <1>1, <1>4, <2>2 DEF Put, Task, CallInv, sendVars
<1>5. CASE Disable \/ Wait \/ Give
  BY <1>1, <1>5 DEF Disable, Wait, Give, Task, CallInv, sendVars
<1>6. CASE SetBuffer
  <2>1. SendBuffer' \in [1 .. length -> Int]
    BY <1>2, <1>6 DEF SetBuffer
  <2>2. Len(SendBuffer') = length
    BY <1>2, <2>1, Ascending
  <2> QED BY <1>1, <1>6, <2>2 DEF SetBuffer, Task, CallInv
<1>7. CASE Fill
  <2>1. sent'["handler"] = sent["handler"] /\ SendBuffer' = SendBuffer
    BY <1>1, <1>7, Counts DEF Fill, FillByte, Caller
  <2> QED BY <1>1, <1>7, <2>1 DEF Fill, Task, CallInv
<1>8. CASE Enable
  <2>1. /\ UpdateBuffer("task") /\ "task" \in Caller
        /\ \A d \in Caller \ {"task"} : sent[d] = 0
    BY <1>1, <1>8 DEF Enable, Task, Caller, CallInv
  <2>2. sent' = [d \in Caller |-> 0] /\ Len(SendBuffer') = Len(SendBuffer) - sent["task"]
    BY <1>1, <2>1, UpdateTypes
  <2>3. Len(SendBuffer') <= asked
    BY <1>1, <1>2, <2>2, Counts DEF CallInv
  <2> QED BY <1>1, <1>8, <2>2, <2>3 DEF Enable, Task, CallInv, Caller
<1>9. CASE Refill
  <2>1. sent'["task"] = sent["task"] /\ SendBuffer' = SendBuffer
    BY <1>1, <1>9, Counts DEF Refill, FillByte, Caller
  <2> QED BY <1>1, <1>9, <2>1 DEF Refill, Handler, CallInv, putVars
<1>10. CASE Refilled
  <2>1. /\ UpdateBuffer("handler") /\ "handler" \in Caller
        /\ \A d \in Caller \ {"handler"} : sent[d] = 0
    BY <1>1, <1>10 DEF Refilled, Handler, Caller, CallInv
  <2>2. sent' = [d \in Caller |-> 0] /\ Len(SendBuffer') = Len(SendBuffer) - sent["handler"]
    BY <1>1, <2>1, UpdateTypes
  <2>3. Len(SendBuffer') <= asked
    BY <1>1, <1>2, <2>2, Counts DEF CallInv
  <2> QED BY <1>1, <1>10, <2>2, <2>3 DEF Refilled, Handler, CallInv, Caller, putVars
<1>11. CASE Enter
  <2>1. "TXEMPTY" \in isr \cap imr => place = "wait"
    BY <1>1 DEF MaskInv, TypeOK
  <2> QED BY <1>1, <1>11, <2>1 DEF Enter, Handler, CallInv, putVars, sendVars
<1>12. CASE Receive \/ Received \/ NoTransmit \/ Complete \/ More \/ Clear
  BY <1>1, <1>12 DEF Receive, Received, NoTransmit, Complete, More, Clear, Handler, CallInv,
     AfterByte, putVars, sendVars
<1> QED BY <1>3, <1>4, <1>5, <1>6, <1>7, <1>8, <1>9, <1>10, <1>11, <1>12
        DEF Next, Uart, Putting, Handling

-----------------------------------------------------------------------------
(* The transmit interrupt *)

LEMMA MaskStep == Inv /\ [Next]_vars => MaskInv'
<1> SUFFICES ASSUME Inv, [Next]_vars PROVE MaskInv'
  OBVIOUS
<1>1. TypeOK /\ CallInv /\ MaskInv /\ BufferInv
  BY DEF Inv
<1>2. CASE Load
  BY <1>1, <1>2 DEF Load, MaskInv, putVars, sendVars
<1>3. CASE Shift \/ Get \/ UNCHANGED vars
  BY <1>1, <1>3 DEF Shift, Get, MaskInv, vars, uartVars, putVars, sendVars, getVars
<1>4. CASE Arrive \/ RxTimeout
  <2>1. "TXEMPTY" \in isr' <=> "TXEMPTY" \in isr
    BY <1>4 DEF Arrive, RxTimeout
  <2> QED BY <1>1, <1>4, <2>1 DEF Arrive, RxTimeout, MaskInv, uartVars, putVars, sendVars
<1>5. CASE Put \/ Disable \/ SetBuffer
  BY <1>1, <1>5 DEF Put, Disable, SetBuffer, Task, Masked, MaskInv, uartVars, sendVars
<1>6. CASE Fill
  BY <1>1, <1>6 DEF Fill, FillByte, Task, MaskInv
<1>7. CASE Enable
  BY <1>1, <1>7 DEF Enable, Task, MaskInv
<1>8. CASE Wait
  <2>1. place = "wait" /\ place' = "give" /\ handler' = "off"
        /\ UNCHANGED <<txFifo, isr, imr, SendBuffer>>
    BY <1>8 DEF Wait, Task, uartVars, sendVars
  <2>2. CASE Taken
    BY <1>1, <2>1, <2>2 DEF Taken, MaskInv
  <2>3. CASE TimedOut
    BY <1>1, <2>1, <2>3 DEF TimedOut, MaskInv
  <2> QED BY <1>8, <2>2, <2>3 DEF Wait
<1>9. CASE Give
  BY <1>1, <1>9 DEF Give, Task, MaskInv, uartVars, sendVars
<1>10. CASE Enter \/ Receive \/ Received \/ NoTransmit \/ More
  <2>1. handler' = "fill" => xTxCompleteSemaphore = 0
    BY <1>1, <1>10 DEF Enter, Receive, Received, NoTransmit, More, AllSent, Handler, AfterByte,
       MaskInv, CallInv, TypeOK
  <2> QED BY <1>1, <1>10, <2>1 DEF Enter, Receive, Received, NoTransmit, More, Handler,
          MaskInv, uartVars, putVars, sendVars
<1>11. CASE Complete
  BY <1>1, <1>11 DEF Complete, AllSent, Handler, MaskInv, CallInv, uartVars, putVars, sendVars
<1>12. CASE Refill
  BY <1>1, <1>12 DEF Refill, FillByte, Handler, MaskInv, CallInv, putVars
<1>13. CASE Refilled
  <2>1. place = "wait" /\ xTxCompleteSemaphore # 1
    BY <1>1, <1>13 DEF Refilled, Handler, MaskInv, CallInv
  <2> QED BY <1>1, <1>13, <2>1 DEF Refilled, Handler, MaskInv, putVars
<1>14. CASE Clear
  BY <1>1, <1>14 DEF Clear, Cleared, Handler, MaskInv, uartVars, putVars, sendVars
<1> QED BY <1>2, <1>3, <1>4, <1>5, <1>6, <1>7, <1>8, <1>9, <1>10, <1>11, <1>12, <1>13, <1>14
        DEF Next, Uart, Putting, Handling

-----------------------------------------------------------------------------
(* The buffer is read to its end *)

LEMMA FullOrDone ==
  ASSUME NEW c \in Caller, TypeOK, UpdateBuffer(c), ~CanFill(c),
         \A d \in Caller \ {c} : sent[d] = 0
  PROVE  SendBuffer' # <<>> => Len(txFifo) >= FifoSize /\ txFifo # <<>>
<1>1. Len(SendBuffer') = Len(SendBuffer) - sent[c] /\ SendBuffer' \in Seq(1 .. MaxPut)
  BY UpdateTypes
<1>2. SendBuffer' # <<>> => Len(SendBuffer') # 0
  BY <1>1, EmptySeq
<1>3. SendBuffer' # <<>> => sent[c] < Len(SendBuffer)
  <2>1. sent[c] \in Nat /\ sent[c] <= Len(SendBuffer) /\ Len(SendBuffer) \in Nat
    BY Counts, Numbers
  <2> QED BY <1>1, <1>2, <2>1
<1>4. SendBuffer' # <<>> => Len(txFifo) >= FifoSize
  BY <1>3, Numbers DEF CanFill
<1>5. txFifo = <<>> => Len(txFifo) = 0
  BY EmptySeq
<1> QED BY <1>4, <1>5, Numbers

LEMMA BufferStep == Inv /\ [Next]_vars => BufferInv'
<1> SUFFICES ASSUME Inv, [Next]_vars PROVE BufferInv'
  OBVIOUS
<1>1. TypeOK /\ CallInv /\ MaskInv /\ BufferInv
  BY DEF Inv
<1>2. CASE Load
  <2>1. /\ txFifo # <<>> /\ shifter = 0 /\ Len(txFifo') = Len(txFifo) - 1
        /\ Len(txFifo) \in Nat \ {0} /\ txFifo' \in Seq(1 .. MaxPut) /\ txFifo' = Tail(txFifo)
    BY <1>1, <1>2, First, Bytes DEF Load
  <2>2. txFifo' = <<>> => Len(txFifo) = 1
    <3>1. txFifo' = <<>> => Len(txFifo') = 0
      BY EmptySeq
    <3> QED BY <2>1, <3>1
  <2>3. txFifo' # <<>> \/ "TXEMPTY" \in isr'
    BY <1>2, <2>2 DEF Load
  <2>4. UNCHANGED <<place, SendBuffer, imr, handler, active>>
    BY <1>2 DEF Load, putVars, sendVars
  <2>5. place' = "wait" /\ SendBuffer' # <<>>
          => "TXEMPTY" \in imr' /\ (txFifo' # <<>> \/ "TXEMPTY" \in isr')
    BY <1>1, <2>3, <2>4 DEF BufferInv
  <2>6. handler' = "clear" /\ "TXEMPTY" \in active' /\ SendBuffer' # <<>>
          => txFifo' # <<>> /\ shifter' # 0
    <3>1. SUFFICES ASSUME handler = "clear", "TXEMPTY" \in active, SendBuffer # <<>>
                   PROVE  txFifo' # <<>> /\ shifter' # 0
      BY <2>4
    <3>2. Len(txFifo) >= FifoSize
      BY <1>1, <2>1, <3>1 DEF BufferInv
    <3>3. Len(txFifo) # 1
      <4>1. FifoSize \in Nat /\ FifoSize > 1
        BY <1>1, Numbers
      <4> QED BY <2>1, <3>2, <4>1
    <3>4. shifter' = Head(txFifo) /\ Head(txFifo) \in 1 .. MaxPut
      BY <1>1, <1>2, <2>1, First, Bytes DEF Load
    <3>5. shifter' # 0
      BY <3>4
    <3> QED BY <2>2, <3>3, <3>5
  <2> QED BY <1>1, <2>4, <2>5, <2>6 DEF BufferInv
<1>3. CASE Shift
  BY <1>1, <1>3 DEF Shift, HandlerEnds, BufferInv, putVars, sendVars
<1>4. CASE Get \/ UNCHANGED vars
  BY <1>1, <1>4 DEF Get, BufferInv, vars, uartVars, putVars, sendVars, getVars
<1>5. CASE Arrive \/ RxTimeout
  <2>1. "TXEMPTY" \in isr' <=> "TXEMPTY" \in isr
    BY <1>5 DEF Arrive, RxTimeout
  <2> QED BY <1>1, <1>5, <2>1 DEF Arrive, RxTimeout, BufferInv, uartVars, putVars, sendVars
<1>6. CASE Put \/ Disable \/ Give
  BY <1>1, <1>6 DEF Put, Disable, Give, Task, BufferInv, uartVars, sendVars
<1>7. CASE SetBuffer
  BY <1>1, <1>7 DEF SetBuffer, Task, BufferInv, uartVars
<1>8. CASE Fill
  BY <1>1, <1>8 DEF Fill, FillByte, Task, BufferInv
<1>9. CASE Enable
  <2>1. /\ UpdateBuffer("task") /\ ~CanFill("task") /\ "task" \in Caller
        /\ \A d \in Caller \ {"task"} : sent[d] = 0
    BY <1>1, <1>9 DEF Enable, Task, Caller, CallInv
  <2>2. SendBuffer' # <<>> => txFifo # <<>>
    BY <1>1, <2>1, FullOrDone
  <2>3. "TXEMPTY" \in imr' /\ txFifo' = txFifo /\ handler' = "off" /\ place' = "wait"
    BY <1>9 DEF Enable, Task, UpdateBuffer, uartVars
  <2> QED BY <2>2, <2>3 DEF BufferInv
<1>10. CASE Wait
  <2>1. place = "wait" /\ place' = "give" /\ handler = "off" /\ handler' = "off"
        /\ SendBuffer' = SendBuffer
    BY <1>10 DEF Wait, Task, sendVars
  <2>2. SendBuffer = <<>>
    <3>1. CASE Taken
      BY <1>1, <2>1, <3>1 DEF Taken, MaskInv
    <3>2. CASE TimedOut
      BY <1>1, <2>1, <3>2 DEF TimedOut, BufferInv
    <3> QED BY <1>10, <3>1, <3>2 DEF Wait
  <2> QED BY <2>1, <2>2 DEF BufferInv
<1>11. CASE Enter \/ Receive \/ Received \/ NoTransmit \/ More
  BY <1>1, <1>11 DEF Enter, Receive, Received, NoTransmit, More, Handler, AfterByte, BufferInv,
     uartVars, putVars, sendVars
<1>12. CASE Complete
  BY <1>1, <1>12 DEF Complete, AllSent, Handler, BufferInv, uartVars, putVars, sendVars
<1>13. CASE Refill
  <2>1. place = "wait" /\ place' = "wait" /\ "TXEMPTY" \in active /\ "TXEMPTY" \in isr
    BY <1>1, <1>13 DEF Refill, Handler, CallInv, putVars
  <2> QED BY <1>1, <1>13, <2>1 DEF Refill, FillByte, Handler, BufferInv, putVars
<1>14. CASE Refilled
  <2>1. /\ UpdateBuffer("handler") /\ ~CanFill("handler") /\ "handler" \in Caller
        /\ "TXEMPTY" \in active /\ place = "wait" /\ place' = "wait"
    BY <1>1, <1>14 DEF Refilled, Handler, Caller, CallInv, putVars
  <2>2. \A d \in Caller \ {"handler"} : sent[d] = 0
    BY <1>1, <2>1 DEF Caller, CallInv
  <2>3. SendBuffer' # <<>> => Len(txFifo) >= FifoSize /\ txFifo # <<>>
    BY <1>1, <2>1, <2>2, FullOrDone
  <2>4. "TXEMPTY" \in imr' /\ txFifo' = txFifo
    BY <2>1 DEF UpdateBuffer, uartVars
  <2> QED BY <2>1, <2>3, <2>4 DEF BufferInv
<1>15. CASE Clear
  <2>1. handler = "clear" /\ handler' = "off"
        /\ UNCHANGED <<place, SendBuffer, txFifo, imr>>
    BY <1>15 DEF Clear, Handler, putVars, sendVars, uartVars
  <2>2. "TXEMPTY" \notin active => ("TXEMPTY" \in isr' <=> "TXEMPTY" \in isr)
    BY <1>15 DEF Clear, Cleared
  <2>3. "TXEMPTY" \in active /\ SendBuffer # <<>> => txFifo # <<>>
    <3>1. "TXEMPTY" \in active /\ SendBuffer # <<>>
            => Len(txFifo) >= FifoSize \/ txFifo # <<>>
      BY <1>1, <2>1 DEF BufferInv
    <3>2. txFifo = <<>> => Len(txFifo) = 0
      BY EmptySeq
    <3> QED BY <1>1, <3>1, <3>2, Numbers
  <2> QED BY <1>1, <2>1, <2>2, <2>3 DEF BufferInv
<1> QED BY <1>2, <1>3, <1>4, <1>5, <1>6, <1>7, <1>8, <1>9, <1>10, <1>11, <1>12, <1>13, <1>14,
           <1>15 DEF Next, Uart, Putting, Handling

-----------------------------------------------------------------------------
(* Receiving *)

LEMMA RxStep == Inv /\ [Next]_vars => RxInv'
<1> SUFFICES ASSUME Inv, [Next]_vars PROVE RxInv'
  OBVIOUS
<1>1. TypeOK /\ RxInv
  BY DEF Inv
<1> DEFINE q == Len(xRxQueue)
           f == Len(rxFifo)
<1>2. /\ q \in Nat /\ f \in Nat /\ q <= uxQueueLength /\ uxQueueLength \in Nat
      /\ arrived \in Nat /\ lastGot \in Nat
  BY <1>1, Numbers DEF TypeOK
<1>3. ASSUME ~dropped
      PROVE  /\ q + f = arrived - lastGot
             /\ \A i \in 1 .. q : xRxQueue[i] = lastGot + i
             /\ \A i \in 1 .. f : rxFifo[i] = lastGot + q + i
  BY <1>1, <1>3 DEF RxInv
<1>4. CASE UNCHANGED <<rxFifo, arrived, xRxQueue, lastGot, dropped>>
  BY <1>1, <1>4 DEF RxInv
<1>5. CASE Arrive
  <2> SUFFICES ASSUME ~dropped' PROVE RxInv'
    BY DEF RxInv
  <2>1. /\ ~dropped /\ rxFifo' = Append(rxFifo, arrived + 1) /\ arrived' = arrived + 1
        /\ xRxQueue' = xRxQueue /\ lastGot' = lastGot /\ arrived < MaxReceived
    BY <1>5 DEF Arrive, getVars
  <2>2. arrived + 1 \in 1 .. MaxReceived
    <3>1. MaxReceived \in Nat
      BY <1>1, Numbers
    <3> QED BY <1>2, <2>1, <3>1
  <2>3. /\ Len(rxFifo') = f + 1 /\ rxFifo'[f + 1] = arrived + 1
        /\ \A i \in 1 .. f : rxFifo'[i] = rxFifo[i]
    BY <1>1, <2>1, <2>2, Bytes, AppendProperties
  <2> HIDE DEF q, f
  <2>4. arrived + 1 = lastGot + q + (f + 1) /\ q + (f + 1) = (arrived + 1) - lastGot
    BY <1>2, <1>3, <2>1
  <2>5. \A i \in 1 .. f + 1 : rxFifo'[i] = lastGot + q + i
    <3> TAKE i \in 1 .. f + 1
    <3>1. CASE i = f + 1
      BY <2>3, <2>4, <3>1
    <3>2. CASE i # f + 1
      <4>1. i \in 1 .. f
        BY <1>2, <3>2
      <4>2. rxFifo[i] = lastGot + q + i
        BY <1>3, <2>1, <4>1
      <4> QED BY <2>3, <4>1, <4>2
    <3> QED BY <3>1, <3>2
  <2>6. Len(xRxQueue') = q /\ \A i \in 1 .. q : xRxQueue'[i] = lastGot' + i
    BY <1>3, <2>1 DEF q
  <2> QED BY <2>1, <2>3, <2>4, <2>5, <2>6 DEF RxInv
<1>6. CASE Get
  <2> SUFFICES ASSUME ~dropped' PROVE RxInv'
    BY DEF RxInv
  <2>1. /\ ~dropped /\ xRxQueue # <<>> /\ lastGot' = Head(xRxQueue) /\ xRxQueue' = Tail(xRxQueue)
        /\ arrived' = arrived /\ rxFifo' = rxFifo
    BY <1>6 DEF Get, rxVars
  <2>2. /\ q # 0 /\ Len(xRxQueue') = q - 1 /\ lastGot' = xRxQueue[1]
        /\ \A i \in 1 .. q - 1 : xRxQueue'[i] = xRxQueue[i + 1]
    BY <1>1, <2>1, First, Bytes
  <2> HIDE DEF q, f
  <2>3. lastGot' = lastGot + 1
    BY <1>2, <1>3, <2>1, <2>2
  <2>4. \A i \in 1 .. q - 1 : xRxQueue'[i] = lastGot + 1 + i
    <3> TAKE i \in 1 .. q - 1
    <3>1. i + 1 \in 1 .. q /\ lastGot + (i + 1) = lastGot + 1 + i
      BY <1>2, <2>2
    <3> QED BY <1>3, <2>1, <2>2, <3>1
  <2>5. \A i \in 1 .. f : rxFifo[i] = lastGot + 1 + (q - 1) + i
    <3> TAKE i \in 1 .. f
    <3>1. lastGot + q + i = lastGot + 1 + (q - 1) + i
      BY <1>2
    <3> QED BY <1>3, <2>1, <3>1
  <2>6. q - 1 + f = arrived - (lastGot + 1)
    BY <1>2, <1>3, <2>1
  <2> QED BY <2>1, <2>2, <2>3, <2>4, <2>5, <2>6 DEF RxInv, f
<1>7. CASE Receive
  <2> SUFFICES ASSUME ~dropped' PROVE RxInv'
    BY DEF RxInv
  <2>1. ~dropped /\ q # uxQueueLength /\ rxFifo # <<>> /\ rxFifo' = Tail(rxFifo)
        /\ arrived' = arrived /\ lastGot' = lastGot
    BY <1>7 DEF Receive, Handler
  <2>2. xRxQueue' = Append(xRxQueue, Head(rxFifo))
    <3>1. q < uxQueueLength
      BY <1>2, <2>1
    <3> QED BY <1>7, <3>1 DEF Receive, HasRoom
  <2>3. /\ Head(rxFifo) \in 1 .. MaxReceived /\ Head(rxFifo) = rxFifo[1] /\ f # 0
        /\ Len(rxFifo') = f - 1 /\ \A i \in 1 .. f - 1 : rxFifo'[i] = rxFifo[i + 1]
    BY <1>1, <2>1, First, Bytes
  <2>4. /\ Len(xRxQueue') = q + 1 /\ xRxQueue'[q + 1] = rxFifo[1]
        /\ \A i \in 1 .. q : xRxQueue'[i] = xRxQueue[i]
    BY <1>1, <2>2, <2>3, Bytes, AppendProperties
  <2> HIDE DEF q, f
  <2>5. rxFifo[1] = lastGot + (q + 1)
    <3>1. rxFifo[1] = lastGot + q + 1
      BY <1>2, <1>3, <2>1, <2>3
    <3> QED BY <1>2, <3>1
  <2>6. \A i \in 1 .. q + 1 : xRxQueue'[i] = lastGot + i
    <3> TAKE i \in 1 .. q + 1
    <3>1. i \in 1 .. q \/ i = q + 1
      BY <1>2
    <3> QED BY <1>3, <2>1, <2>4, <2>5, <3>1
  <2>7. \A i \in 1 .. f - 1 : rxFifo'[i] = lastGot + (q + 1) + i
    <3> TAKE i \in 1 .. f - 1
    <3>1. i + 1 \in 1 .. f /\ lastGot + q + (i + 1) = lastGot + (q + 1) + i
      BY <1>2
    <3> QED BY <1>3, <2>1, <2>3, <3>1
  <2>8. q + 1 + (f - 1) = arrived - lastGot
    BY <1>2, <1>3, <2>1
  <2> QED BY <2>1, <2>3, <2>4, <2>6, <2>7, <2>8 DEF RxInv
<1>8. [Next]_vars => Arrive \/ Get \/ Receive
                     \/ UNCHANGED <<rxFifo, arrived, xRxQueue, lastGot, dropped>>
  BY DEF Next, Uart, Putting, Handling, Load, Shift, RxTimeout, Put, Disable, SetBuffer, Fill,
     Enable, Wait, Give, Enter, Received, NoTransmit, Complete, More, Refill, Refilled, Clear,
     Task, Handler, vars, rxVars, getVars
<1> QED BY <1>4, <1>5, <1>6, <1>7, <1>8

-----------------------------------------------------------------------------
(* Theorems *)

LEMMA Invariance == Spec => []Inv
<1>1. Inv /\ [Next]_vars => Inv'
  BY TypeStep, OrderStep, CallStep, MaskStep, BufferStep, RxStep DEF Inv
<1> QED BY InitInv, <1>1, PTL DEF Spec

\* Every variable of driver and UART stays in its type: FIFOs and queue within their
\* sizes, and XUartPs_SendBuffer never reads behind the buffer.
THEOREM TypeCorrect == Spec => []TypeOK
<1>1. Inv => TypeOK
  BY DEF Inv
<1> QED BY <1>1, Invariance, PTL

\* A call of vSerialPutString or xSerialPutChar returns only when its string has been
\* read to the end.
THEOREM BufferIsRead == Spec => []StringIsKept
<1>1. Inv => StringIsKept
  BY DEF Inv, BufferInv, StringIsKept
<1> QED BY <1>1, Invariance, PTL

\* Each byte put leaves once and in order, whoever of task and handler writes it into
\* the FIFO.
THEOREM BytesLeaveInOrder == Spec => SentInOrder
<1>1. Inv /\ [Next]_vars => [wire' = wire + 1]_wire
  <2> SUFFICES ASSUME Inv, [Next]_vars, wire' # wire
               PROVE  wire' = wire + 1
    OBVIOUS
  <2>1. Shift
    BY DEF Next, Uart, Putting, Handling, Load, Arrive, RxTimeout, Put, Disable, SetBuffer,
       Fill, Enable, Wait, Give, Get, Enter, Receive, Received, NoTransmit, Complete, More,
       Refill, Refilled, Clear, FillByte, UpdateBuffer, vars, uartVars
  <2> QED BY <2>1 DEF Shift, Inv, OrderInv
<1> QED BY <1>1, Invariance, PTL DEF Spec, SentInOrder

\* The reader gets what came in, in order and without a gap, until a full queue or FIFO
\* loses a byte.
THEOREM BytesArriveInOrder == Spec => []ReceivedInOrder
<1>1. Inv => ReceivedInOrder
  <2> SUFFICES ASSUME Inv, ~dropped
               PROVE  xRxQueue \o rxFifo = [i \in 1 .. arrived - lastGot |-> lastGot + i]
    BY DEF ReceivedInOrder
  <2> DEFINE all == xRxQueue \o rxFifo
             n == arrived - lastGot
             s == [i \in 1 .. n |-> lastGot + i]
  <2>1. TypeOK /\ RxInv
    BY DEF Inv
  <2>2. /\ Len(xRxQueue) \in Nat /\ Len(rxFifo) \in Nat /\ arrived \in Nat /\ lastGot \in Nat
        /\ Len(xRxQueue) + Len(rxFifo) = n
    BY <2>1, Numbers DEF RxInv
  <2>3. /\ all \in Seq(1 .. MaxReceived) /\ Len(all) = n
        /\ \A i \in 1 .. n : all[i] = IF i <= Len(xRxQueue) THEN xRxQueue[i]
                                      ELSE rxFifo[i - Len(xRxQueue)]
    BY <2>1, <2>2, Bytes, ConcatProperties
  <2>4. ASSUME NEW i \in 1 .. n
        PROVE  all[i] = lastGot + i
    <3>1. CASE i <= Len(xRxQueue)
      <4>1. xRxQueue[i] = lastGot + i
        BY <2>1, <2>2, <3>1 DEF RxInv
      <4> QED BY <2>3, <3>1, <4>1
    <3>2. CASE ~(i <= Len(xRxQueue))
      <4>1. i - Len(xRxQueue) \in 1 .. Len(rxFifo)
        BY <2>2, <3>2
      <4>2. rxFifo[i - Len(xRxQueue)] = lastGot + Len(xRxQueue) + (i - Len(xRxQueue))
        BY <2>1, <4>1 DEF RxInv
      <4>3. lastGot + Len(xRxQueue) + (i - Len(xRxQueue)) = lastGot + i
        BY <2>2
      <4> QED BY <2>3, <3>2, <4>2, <4>3
    <3> QED BY <3>1, <3>2
  <2>5. all \in [1 .. n -> 1 .. MaxReceived]
    BY <2>3, LenProperties
  <2> HIDE DEF all, n
  <2>6. all = [i \in 1 .. n |-> all[i]]
    BY <2>5
  <2>7. all = [i \in 1 .. n |-> lastGot + i]
    BY <2>4, <2>6
  <2> QED BY <2>7 DEF all, n
<1> QED BY <1>1, Invariance, PTL
=============================================================================
