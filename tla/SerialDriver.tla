----------------------------- MODULE SerialDriver -----------------------------
(***************************************************************************)
(* The serial driver of the console (serial_driver.c): a task that puts    *)
(* strings and characters, a task that gets characters, the interrupt      *)
(* handler, and the UART they share, register access by register access.   *)
(* The handler keeps the tasks from running; the UART moves at any time.   *)
(* A byte is its number: the n-th byte put, or the n-th that came in.      *)
(*                                                                         *)
(* Time comes in three times only.  No byte leaves the shifter (87 us) in  *)
(* the last steps of the handler, no receive timeout (278 us) ends there,  *)
(* and the 500 ms of a put pass only when nothing is on its way any more.  *)
(* The handler may START as late as it likes.                              *)
(***************************************************************************)
EXTENDS Integers, Sequences

CONSTANTS FifoSize,       \* bytes of each FIFO of the UART
          uxQueueLength,  \* characters xRxQueue has room for
          Lengths,        \* of the strings that are put
          MaxPut,         \* bound on the bytes put
          MaxReceived     \* bound on the bytes received

ASSUME SerialAssumption == /\ FifoSize \in Nat \ {0, 1} /\ uxQueueLength \in Nat \ {0}
                           /\ Lengths \subseteq Nat
                           /\ MaxPut \in Nat /\ MaxReceived \in Nat

VARIABLES txFifo, shifter,        \* UART transmitter; 0: nothing in the shifter
          wire,                   \* the last byte that left (history)
          rxFifo, arrived,        \* UART receiver; bytes that came in (history)
          timer,                  \* the receive timeout is running
          isr, imr,               \* interrupt status and mask
          place,                  \* where the putting task is
          isChar, length,         \* what it puts, and how much of it
          asked,                  \* bytes put so far (history)
          SendBuffer,             \* the bytes that remain
          sent,                   \* SentCount of XUartPs_SendBuffer, per caller
          xTxCompleteSemaphore,
          handler, active,        \* where the handler is, ulActiveInterrupts
          wiped,                  \* it cleared the only sign of an empty FIFO (history)
          xRxQueue,
          lastGot, dropped        \* what the reader got; a byte was lost (history)

uartVars == <<txFifo, shifter, wire>>
rxVars == <<rxFifo, arrived, timer>>
putVars == <<place, isChar, length, asked>>
sendVars == <<SendBuffer, sent>>
getVars == <<xRxQueue, lastGot>>
vars == <<uartVars, rxVars, isr, imr, putVars, sendVars, xTxCompleteSemaphore, handler,
          active, wiped, getVars, dropped>>

\* RX stands for RXOVR, RXFULL and TOUT.
Interrupt == {"RX", "TXEMPTY"}
Caller == {"task", "handler"}

\* xSerialPortInitMinimal.
Init == /\ txFifo = <<>> /\ shifter = 0 /\ wire = 0
        /\ rxFifo = <<>> /\ arrived = 0 /\ timer = FALSE
        /\ isr = {} /\ imr = Interrupt
        /\ place = "idle" /\ isChar = FALSE /\ length = 0 /\ asked = 0
        /\ SendBuffer = <<>> /\ sent = [c \in Caller |-> 0]
        /\ xTxCompleteSemaphore = 1
        /\ handler = "off" /\ active = {} /\ wiped = FALSE
        /\ xRxQueue = <<>> /\ lastGot = 0 /\ dropped = FALSE
-----------------------------------------------------------------------------
(* UART *)

HandlerEnds == handler \in {"fill", "clear"}

\* The shifter takes a byte; TXEMPTY is raised when it was the FIFO's last.
Load == /\ shifter = 0 /\ txFifo # <<>>
        /\ shifter' = Head(txFifo) /\ txFifo' = Tail(txFifo)
        /\ isr' = IF Len(txFifo) = 1 THEN isr \cup {"TXEMPTY"} ELSE isr
        /\ UNCHANGED <<wire, rxVars, imr, putVars, sendVars, xTxCompleteSemaphore, handler,
                       active, wiped, getVars, dropped>>

Shift == /\ shifter # 0 /\ ~HandlerEnds
         /\ wire' = shifter /\ shifter' = 0
         /\ UNCHANGED <<txFifo, rxVars, isr, imr, putVars, sendVars, xTxCompleteSemaphore,
                        handler, active, wiped, getVars, dropped>>

\* A byte comes in, and may bring the FIFO to its trigger level or be too much for it.
Arrive == /\ arrived < MaxReceived
          /\ arrived' = arrived + 1 /\ timer' = TRUE
          /\ IF Len(rxFifo) = FifoSize
               THEN /\ dropped' = TRUE /\ isr' = isr \cup {"RX"} /\ UNCHANGED rxFifo
               ELSE /\ rxFifo' = Append(rxFifo, arrived + 1)
                    /\ isr' \in {isr, isr \cup {"RX"}} /\ UNCHANGED dropped
          /\ UNCHANGED <<uartVars, imr, putVars, sendVars, xTxCompleteSemaphore, handler,
                         active, wiped, getVars>>

\* No byte has followed the last one for 32 bit times.
RxTimeout == /\ timer /\ handler \notin {"tx", "fill", "clear"}
             /\ timer' = FALSE /\ isr' = isr \cup {"RX"}
             /\ UNCHANGED <<uartVars, rxFifo, arrived, imr, putVars, sendVars,
                            xTxCompleteSemaphore, handler, active, wiped, getVars, dropped>>
-----------------------------------------------------------------------------
(* XUartPs_SendBuffer: bytes go into the FIFO until it is full or there are no more, *)
(* then the buffer is updated and the transmit interrupt enabled.                    *)

\* Mutant: a byte is written when the FIFO is just full.
CanFillMut(c) == Len(txFifo) <= FifoSize /\ sent[c] < Len(SendBuffer)

CanFill(c) == Len(txFifo) < FifoSize /\ sent[c] < Len(SendBuffer)

FillByte(c) == /\ CanFill(c)
               /\ txFifo' = Append(txFifo, SendBuffer[sent[c] + 1])
               /\ sent' = [sent EXCEPT ![c] = @ + 1]
               /\ UNCHANGED <<shifter, wire, SendBuffer, imr>>

UpdateBuffer(c) == /\ SendBuffer' = SubSeq(SendBuffer, sent[c] + 1, Len(SendBuffer))
                   /\ sent' = [sent EXCEPT ![c] = 0]
                   /\ imr' = imr \cup {"TXEMPTY"}
                   /\ UNCHANGED uartVars
-----------------------------------------------------------------------------
(* vSerialPutString, xSerialPutChar *)

\* A step of the putting task: the handler is not running.
Task(from, to) == /\ handler = "off" /\ place = from /\ place' = to
                  /\ UNCHANGED <<rxVars, isr, handler, active, getVars, dropped>>

\* A call of one of the two; it takes the semaphore.
Put == /\ Task("idle", "disable")
       /\ xTxCompleteSemaphore = 1 /\ xTxCompleteSemaphore' = 0
       /\ \E n \in Lengths, char \in BOOLEAN :
            /\ char => n = 1
            /\ asked + n <= MaxPut
            /\ asked' = asked + n /\ length' = n /\ isChar' = char
       /\ wiped' = FALSE
       /\ UNCHANGED <<uartVars, imr, sendVars>>

\* XUartPs_Send: the transmit interrupt is off ...
\* Mutant: it stays on.
MaskedMut == imr

Masked == imr \ {"TXEMPTY"}
Disable == /\ Task("disable", "set")
           /\ imr' = Masked
           /\ UNCHANGED <<uartVars, isChar, length, asked, sendVars, xTxCompleteSemaphore,
                          wiped>>

\* ... while the buffer is set to the string ...
SetBuffer == /\ Task("set", "fill")
             /\ SendBuffer' = [i \in 1 .. length |-> asked - length + i]
             /\ UNCHANGED <<uartVars, imr, isChar, length, asked, sent, wiped,
                            xTxCompleteSemaphore>>

\* ... and sent as far as it fits.
Fill == /\ Task("fill", "fill") /\ FillByte("task")
        /\ UNCHANGED <<isChar, length, asked, xTxCompleteSemaphore, wiped>>
Enable == /\ Task("fill", "wait") /\ ~CanFill("task") /\ UpdateBuffer("task")
          /\ UNCHANGED <<isChar, length, asked, xTxCompleteSemaphore, wiped>>

\* The task waits until the buffer has been written: without limit for a character,
\* 500 ms for a string.
Taken == xTxCompleteSemaphore = 1
TimedOut == /\ ~isChar
            /\ txFifo = <<>> /\ shifter = 0 /\ "TXEMPTY" \notin isr \cap imr
Wait == /\ Task("wait", "give")
        /\ Taken \/ TimedOut
        /\ xTxCompleteSemaphore' = 0
        /\ UNCHANGED <<uartVars, imr, isChar, length, asked, sendVars, wiped>>

Give == /\ Task("give", "idle")
        /\ xTxCompleteSemaphore' = 1
        /\ UNCHANGED <<uartVars, imr, isChar, length, asked, sendVars, wiped>>

\* xSerialGetChar.
Get == /\ handler = "off" /\ xRxQueue # <<>>
       /\ lastGot' = Head(xRxQueue) /\ xRxQueue' = Tail(xRxQueue)
       /\ UNCHANGED <<uartVars, rxVars, isr, imr, putVars, sendVars, xTxCompleteSemaphore,
                      handler, active, wiped, dropped>>
-----------------------------------------------------------------------------
(* prvUART_Handler *)

Handler(from, to) == /\ handler = from /\ handler' = to
                     /\ UNCHANGED <<arrived, timer, putVars, lastGot>>

Enter == /\ isr \cap imr # {}
         /\ Handler("off", IF "RX" \in isr \cap imr THEN "rx" ELSE "tx")
         /\ active' = isr \cap imr
         /\ UNCHANGED <<uartVars, rxFifo, isr, imr, sendVars, xTxCompleteSemaphore, wiped,
                        xRxQueue, dropped>>

\* Mutant: one place of the queue is never used.
HasRoomMut == Len(xRxQueue) < uxQueueLength - 1

HasRoom == Len(xRxQueue) < uxQueueLength

\* Mutant: the handler reads one byte each time it is called.
AfterByteMut == "tx"

AfterByte == "rx"

\* A byte of the FIFO goes into the queue, or nowhere when the queue is full ...
Receive == /\ Handler("rx", AfterByte)
           /\ rxFifo # <<>>
           /\ rxFifo' = Tail(rxFifo)
           /\ xRxQueue' = IF HasRoom THEN Append(xRxQueue, Head(rxFifo)) ELSE xRxQueue
           /\ dropped' = (dropped \/ Len(xRxQueue) = uxQueueLength)
           /\ UNCHANGED <<uartVars, isr, imr, sendVars, xTxCompleteSemaphore, active, wiped>>

\* ... until the FIFO is empty.
Received == /\ Handler("rx", "tx") /\ rxFifo = <<>>
            /\ UNCHANGED <<uartVars, rxFifo, isr, imr, sendVars, xTxCompleteSemaphore,
                           active, wiped, xRxQueue, dropped>>

\* Nothing to transmit, the end of a transmission, or more to send.
\* Mutant: every TXEMPTY is taken for the end.
AllSentMut == TRUE

AllSent == SendBuffer = <<>>
NoTransmit == /\ Handler("tx", "clear") /\ "TXEMPTY" \notin active
              /\ UNCHANGED <<uartVars, rxFifo, isr, imr, sendVars, xTxCompleteSemaphore,
                             active, wiped, xRxQueue, dropped>>
Complete == /\ Handler("tx", "clear") /\ "TXEMPTY" \in active /\ AllSent
            /\ xTxCompleteSemaphore' = 1
            /\ imr' = imr \ {"TXEMPTY"}
            /\ UNCHANGED <<uartVars, rxFifo, isr, sendVars, active, wiped, xRxQueue, dropped>>
More == /\ Handler("tx", "fill") /\ "TXEMPTY" \in active /\ ~AllSent
        /\ UNCHANGED <<uartVars, rxFifo, isr, imr, sendVars, xTxCompleteSemaphore, active,
                       wiped, xRxQueue, dropped>>
Refill == /\ Handler("fill", "fill") /\ FillByte("handler")
          /\ UNCHANGED <<rxFifo, isr, xTxCompleteSemaphore, active, wiped, xRxQueue, dropped>>
Refilled == /\ Handler("fill", "clear") /\ ~CanFill("handler") /\ UpdateBuffer("handler")
            /\ UNCHANGED <<rxFifo, isr, xTxCompleteSemaphore, active, wiped, xRxQueue,
                           dropped>>

\* What the handler saw is cleared, and with it a FIFO that is empty again already.
\* Mutant: all interrupts are cleared.
ClearedMut == {}

Cleared == isr \ active
Clear == /\ Handler("clear", "off")
         /\ isr' = Cleared /\ active' = {}
         /\ wiped' = (wiped \/ ("TXEMPTY" \in active \cap imr /\ txFifo = <<>>))
         /\ UNCHANGED <<uartVars, rxFifo, imr, sendVars, xTxCompleteSemaphore, xRxQueue,
                        dropped>>
-----------------------------------------------------------------------------
Uart == Load \/ Shift \/ Arrive \/ RxTimeout
Putting == Disable \/ SetBuffer \/ Fill \/ Enable \/ Wait \/ Give
Handling == \/ Enter \/ Receive \/ Received \/ NoTransmit \/ Complete \/ More
            \/ Refill \/ Refilled \/ Clear

Next == Uart \/ Put \/ Putting \/ Get \/ Handling

Spec == Init /\ [][Next]_vars

\* The UART and the handler go on; the scheduler runs the two tasks when they can run.
\* Nobody has to put, and no byte has to come in.
FairSpec == /\ Spec
            /\ WF_vars(Load) /\ WF_vars(Shift) /\ WF_vars(RxTimeout)
            /\ WF_vars(Handling) /\ WF_vars(Putting) /\ WF_vars(Get)
-----------------------------------------------------------------------------
(* Properties *)

\* The types; FIFOs and queue within their sizes, and SentCount within the buffer.
TypeOK == /\ txFifo \in Seq(1 .. MaxPut) /\ Len(txFifo) <= FifoSize
          /\ shifter \in 0 .. MaxPut /\ wire \in 0 .. MaxPut
          /\ rxFifo \in Seq(1 .. MaxReceived) /\ Len(rxFifo) <= FifoSize
          /\ arrived \in 0 .. MaxReceived /\ timer \in BOOLEAN
          /\ isr \subseteq Interrupt /\ imr \subseteq Interrupt
          /\ place \in {"idle", "disable", "set", "fill", "wait", "give"}
          /\ isChar \in BOOLEAN /\ length \in Lengths \cup {0} /\ asked \in 0 .. MaxPut
          /\ SendBuffer \in Seq(1 .. MaxPut)
          /\ sent \in [Caller -> 0 .. MaxPut]
          /\ \A c \in Caller : sent[c] <= Len(SendBuffer)
          /\ xTxCompleteSemaphore \in {0, 1}
          /\ handler \in {"off", "rx", "tx", "fill", "clear"}
          /\ active \subseteq Interrupt /\ wiped \in BOOLEAN
          /\ xRxQueue \in Seq(1 .. MaxReceived) /\ Len(xRxQueue) <= uxQueueLength
          /\ lastGot \in 0 .. MaxReceived /\ dropped \in BOOLEAN

\* vSerialPutString does not return before the string has been read to its end, so that
\* "the calling function" cannot "overwrite the string ... while it is still being
\* transmitted": not after a time-out, and not by an end of transmission signalled for
\* an earlier string or by a TXEMPTY that was raised while the string was being written.
StringIsKept == place = "idle" => SendBuffer = <<>>

\* Every byte that is put leaves once and in order, although the task and the handler
\* both write the FIFO: the next byte on the wire is the one after the last.
SentInOrder == [][wire' = wire + 1]_wire

\* What is in the queue and the FIFO is, in order and complete, what came in after the
\* character the reader got last, until a full queue or FIFO loses a byte.
ReceivedInOrder == \/ dropped
                   \/ xRxQueue \o rxFifo = [i \in 1 .. arrived - lastGot |-> lastGot + i]

\* A put returns: the end of its transmission reaches it in the end, or the time-out
\* does.  The exception is a character whose end the handler, entered a byte time late,
\* clears unseen: that one waits for ever.
PutsReturn == place # "idle" ~> (place = "idle" \/ (isChar /\ wiped))

\* No received byte stays in the FIFO, however it comes in between the handler's last
\* look at the FIFO and its clearing of the interrupt.
BytesAreTaken == rxFifo # <<>> ~> rxFifo = <<>>
=============================================================================
