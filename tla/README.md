# Verification of hls_examples

The repository builds two FPGA designs around a shared HLS FFT: a Zybo one with a
sampler driven by FreeRTOS firmware, and a PYNQ-Z2 one driven from Python.  Both
contain the CODEC unit, which talks to an SSM2603 audio codec over I2C and I2S.
This directory holds TLA+ models of the parts whose difficulty is concurrency and
ordering, the TLC runs that check them on small instances, and TLAPS proofs of
what holds for every instance.  Paths below are relative to the repository's
`src/`, file names without a path to the directory named before them.

## 1. Inventory

| Component | State it keeps | Operations | What is hard |
|---|---|---|---|
| CODEC I2C controller, `subsystems/codec_unit/rtl/controller_unit` | sequencer state and flags, Wishbone access, three FIFOs, I2C master state, sticky missed-acknowledge bit | register read, register write | two engines coupled by FIFOs and a polled busy bit; clear-on-read status; aborted reads |
| CODEC registers, init and soft reset, `.../rtl/register_unit`, `codec_init_unit.sv`, `controller_unit_top.sv`, `codec_unit_top.sv`, `source/common/rtl/axi_slave_controller.sv` | seven control bits, address, data; init state | AXI read and write, power-up read | bits set by one side and cleared by the other in the same clock; bits read while they move |
| CODEC drivers, `.../fw/codec_controller_utils.c`, `codec_controller.py` | program counter, last status read | read, write, controller reset | polling races, timeouts, status left from the previous operation |
| Sampler engine and patch loader, `source/common/fw/src/sampler` | instrument with keys, velocity ranges, voices and their slots | load instrument, start, stop, stop all | shared global without a lock; reload while playing |
| Sampler tasks and CLI commands, `.../FreeRTOS_Tasks`, `.../FreeRTOS_CLI_Apps` | queues of length one, notification values | key, MIDI, load, stop all, listener | overwritten notifications, late answers |
| FreeRTOS queues, `source/common/fw/repo/bsp/.../Source/queue.c` with `tasks.c` and `list.c` | ring, event lists, lock counts, ready and pending lists | send, receive, send from an interrupt, tick | interrupts while the queue is locked, wake-ups, time-outs against items that come late |
| Serial driver, `source/common/fw/src/ZyboCLI/serial_driver.c` | transmit buffer, semaphore, receive queue, the UART's FIFOs and interrupt bits | put string, put character, get character, interrupt | task and handler fill one FIFO; interrupt bits cleared after they were acted on |
| Line editor of the CLI task, `.../ZyboCLI/zybo_uart_driver.c` | edit buffer, cursor, escape-sequence decoder, one recalled line | one received byte | three copies of the line (buffer, cursor, terminal) kept alike by hand |
| Contiguous-memory device, `notebooks/zynq_cma_device.py` | free list, block of each buffer | allocate, free | first fit, splitting and merging, failure between reserve and map |
| Audio unit, `subsystems/codec_unit/rtl/audio_unit`, `i2s_controller.sv` | shift registers, stream handshake | one frame per left/right clock | underrun, two clocks |
| Clock-domain crossings, `source/common/rtl/*synchronizer.sv` | flip-flop chains | one pulse, one word | merged pulses, words read half changed |
| HLS kernels, `cpp` | none between calls, or one frame | FFT, DFT, window, reorder, mux | a stream sample dropped |
| SD/FAT glue, oscillator, build scripts, notebooks, test benches, vendored code | - | - | register I/O, floating point, batch scripts, third-party code |

How they interact: a codec driver writes the control register over AXI; the
register unit raises a read or write enable; `controller_unit_top` lets it through
once the power-up read is over; the sequencer turns it into Wishbone writes to
`i2c_master_wbs_8`, which queues commands and bytes for `i2c_master`; status and
data come back through polled Wishbone reads, and the valid pulse, the busy
level and the missed-acknowledge level set bits the driver polls.  In the sampler
the CLI task gets bytes from the serial driver's receive queue, edits a line and
runs it; commands and the MIDI listener put messages in queues and notify tasks;
the tasks call the engine; the engine starts voices in the DMA engine, whose code
is not in the repository.  Every queue and semaphore of the firmware is a FreeRTOS
queue.  On the PYNQ the buffers the DMA engine reads come from the
contiguous-memory device.

What makes each correct: the controller is a register file (a read returns what
was last written, an operation ends), provided its client lets the bus stop; a
driver call returns with the result of its own operation; the engine's voice status
agrees with the hardware; every request of a task is answered once; a queue is a
bounded FIFO that forgets no waiter; bytes go over the serial line once and in
order; the screen shows the line that will be run; allocations are disjoint and
inside the pool.  `PROJECT.json` lists the hazards line by line.

## 2. Modules

| Module | Models |
|---|---|
| `ControllerPort` | abstract: one register file, one operation at a time |
| `ControllerUnit` | the controller below the enables: `i2c_seq_sm`, `wb_master_controller`, `i2c_master_wbs_8`, `axis_fifo`, `i2c_master`, the codec on the bus; implements `ControllerPort` |
| `CodecUnit` | everything above it: AXI registers, init unit, multiplexer, reset, drivers |
| `SamplerEngine` | the voices, `ulPlayInstrumentKey` and `ulStopAllPlayback`, the result of a load |
| `SamplerTasks` | command line, tasks, queues, notifications and scheduler; extends `SamplerEngine`, whose calls its tasks make |
| `BoundedQueue` | abstract: a bounded FIFO whose calls take effect at once |
| `KernelQueue` | `queue.c` and the part of the scheduler it works with; implements `BoundedQueue` |
| `SerialDriver` | both put functions, the get function, the interrupt handler, the UART |
| `LineEditor` | abstract: a line, a cursor, one line to recall |
| `CliEditor` | the loop of `prvUARTCommandConsoleTask` byte by byte, and the terminal; implements `LineEditor` |
| `PagePool` | abstract: an owner for each page |
| `CmaDevice` | `_ReservedMemory` and its buffers; implements `PagePool` |
| `ControllerUnitProofs`, `CodecUnitProofs`, `SamplerEngineProofs`, `SamplerTasksProofs`, `KernelQueueProofs`, `SerialDriverProofs`, `CliEditorProofs`, `CmaDeviceProofs` | theorems |
| `MC...` | constants for TLC |

The two halves of the CODEC unit meet in the controller's port, where neither
driver does what the controller needs: they poll the busy bit, which falls while the
stop is still being sent, and may start the next operation then.

- With a client that lets the bus stop (`Paced`) and a codec that acknowledges,
  `ControllerUnit` implements `ControllerPort`; with a codec that does not, operations
  still end.  The reduced controller inside `CodecUnit` (`Take`, `Transfer`,
  `TransferEnds`, `DataArrives`) does the same clock by clock while each operation
  happens to find the bus stopped (`orderly`).  When a byte goes unacknowledged the
  operation ends, a write may have reached the codec or not, a given-up read leaves
  its pair of bytes in `rdPairs` for the next one, and the miss may or may not be
  seen by the poll that reports it (`seqMissed` against the history `opMissed`).
- From the first operation that does not find the bus stopped, `CodecUnit` leaves
  the outcome open: it ends at any time (finding 1), delivers any data, or hangs
  (`TransferHangs`), since one of its bytes has gone with the operation before and the
  master waits for it in `WRITE_1` (`i2c_master.v:555`).  Both are found on
  `ControllerUnit` without `Paced`: `done_too_early`, and `OperationsEnd` fails on
  the instance of `controller_nacking` with `Paced = FALSE`, also when every byte is
  acknowledged.
- Each request may or may not find the bus stopped, except that of the power-up
  read, which comes first: no timing of the drivers is assumed.

In each of the other pairs the abstract module is a PROPERTY of the detailed one's
run, through an INSTANCE with a refinement mapping.

### ControllerUnit

The variables carry the names of the registers (`isRd` is `i2c_xfer_is_rd`,
`rd1Sent` `first_read_sent`, `rd1Rcvd` `first_read_received`, `dataIn` the bits of
`wb_data_in_reg` the sequencer tests).  There is one action per state of the
sequencer's `case`, a state with an `if` on polled data having one per branch
(`PollBusy`, `BusyRose`, `BusyFell` for `I2C_WAIT_WR_XFR_DONE`).  A Wishbone write
is one step, a Wishbone read two: the clock in which the slave samples
(`WbSample`) and the acknowledge, in which the strobe is still up and STS0 is
cleared again (`WbReadAck`).  The master has one step per command taken and per
byte on the bus.  The codec is external: a register pointer, then data; on reads
low byte, then bit 8.

Abstractions, each by its name in the module:

- `NumRegs`, bytes `0 .. 2*NumRegs-1`.  The register byte is `{register, bit 8}`
  as in the code; a value is its bit 8 and its low byte.
- `polled`.  Sequencer and master share a clock but not a pace: a Wishbone access
  takes about six clocks, a bit on the bus about 640.  `BusPhaseOver`: no byte or stop
  ends before a polling sequencer has polled once.  `CanSample`: a poll
  period is longer than the two-clock gap between queued commands in which busy
  reads 0, so two successive polls do not fall into the same gap.  That every
  gap may or may not be hit by one poll is left open, which is what `done_too_early`
  needs.
- `Paced`.  TRUE restricts a client to asking only when the bus has stopped.  The
  drivers do not ensure this; the passing runs say what holds if they
  did, `done_too_early` what happens when they do not.  Of the proofs three are
  without it.
- `ByteRead` waits for the previous byte to have left the master's output
  register; the FIFO takes it within two clocks, a byte takes thousands.
- A controller reset is in `CodecUnit`, not here.

### CodecUnit

One step is one clock of `axi_clk`.  `RegistersClk`, `InitUnitClk` and one of
`Take`/`Idle`/`Transfer`/`TransferEnds`/`DataArrives`/`TransferHangs` move together from the
values before the edge, as flip-flops do; `Wr1HwClr` and `Rwc1` are the two macros of
`register_params.svh`, with their priorities.  A driver is a program counter over
AXI accesses; a C bit-field assignment is a read and a write (`kickRead`, `kick`).
`codec_wr(check)` and `ulCodecWr(.., check, ..)` are a write call and a read
call.  Value `vb` differs from `va` in bit 8 only, which `codec_rd` of the Python
driver masks off (`Seen`).

- `AxiGap` = 3: `axi_slave_controller` needs at least three clocks between two
  accesses (`rd_dly_cnt` on reads, the response on writes).  This is the
  strictest driver; a slower one is a sequence with clocks in between,
  which `Tick` allows at any time.  That it is three at least is in `UnitAssumption`,
  and all that the proofs assume about time.
- `MinXfer` = 4: a transfer takes at least four clocks and any number more.  Real
  ones take thousands.  Four is more than one access, so both a poll within and
  a poll after the transfer occur.
- `orderly` and the outcome of an operation: see above.  An orderly write is in the
  codec's registers when its transfer ends; one that missed an acknowledge may or
  may not be.  `file` and `rdPairs` are not followed up any more once an operation was
  not orderly, and no property looks at them then.
- What the drivers can rely on in any case is `ReturnIsItsOwn`: success is reported
  for the operation that was asked for, after the controller is through with it, and
  data are what it delivered.  That this is also *done* is
  `OrderlyReturnMeansDone`, under a hypothesis that the drivers do not see to; without
  it the claim is false by finding 1.
- A controller reset in the middle of an operation cuts off what is on the bus, and
  leaves the unit disorderly.
- `initDone` stands for init done or init error: both open the multiplexer.

### SamplerEngine

`at[t]` is the place of caller `t` in the engine's code, `inst`, `key` and
`vslot` are its locals (`vslot` is `voice_slot`).  A step is one access to the
status or the slot of a voice, or one call of the DMA engine's driver, so a caller can be
preempted between the status check (`StartCheck`, `sampler_engine.c:163`), the
start (`StartVoice`, 175) and the record (`SetSlot`, `SetStatus`, 187-188), and
between any two accesses of stop and stop all.  The instrument is read from the
global once, at the call.

- A voice is a pair of instrument and key: the loader fills velocity range 0
  only.  What a load leaves in memory is any member of `SampledKeys`; a key
  without a sample is one without information, since with no sample nothing
  is ever started.  `Excluded` is the velocity test as written.
- A load takes a descriptor that was never used: nothing is freed
  (`patch_loader.c` allocates and forgets), so callers that hold the old
  one keep it, with its flags.
- The driver of the DMA engine is not in the repository.  `StartVoice` takes any free slot
  and `NoSlot` needs none free; a voice is taken to play until it is
  stopped, as the code takes for granted: nothing in it hears of the end of a
  sample.  The engine's stop register (line 67)
  adds nothing to stopping every slot.
- The keys of messages are within the table.  The compiler is taken not to move the
  accesses; other orders would only add interleavings.
- `overlapped` is a history variable: some call began while another was under
  way.

### SamplerTasks

`task[t]` is what a task waits for or does outside the engine, `notified` the
pending notifications (a second one merges with the first, as
`eSetValueWithOverwrite` does), the queues hold one item (`NULL`, `0` or `FALSE`
when empty).  `cli` is the place of the command line in the code of a command.
`MayRun` is the scheduler: one core, fixed priorities, time slices among equals.
`configMAX_PRIORITIES` is lowered by `xTaskCreate` to the highest priority, so
the two MIDI tasks are above the command line, which is above the rest.

- A command is one `CliInput`, with its arguments; a message to the listener is
  one `ListenerMessage` when its third byte arrives.  Misframed bytes
  make other messages, which are among those enumerated.
- `CliTimeout` and `TaskTimeout` may come at any time while the caller is
  blocked: how 10 seconds compare with a load is left open.
- `MaxInputs`, `MaxLoads` bound commands and messages.  A load is named by its
  number, which is also the descriptor it allocates.
- The SoundFont and sine-wave commands are left out; `load_sf2` always leaves
  the global `NULL`, which `LoadFails` covers as far as the engine is
  concerned.

### KernelQueue

Line numbers are those of `freertos10_xilinx_sampler_v1_6`; `v1_4` is an earlier
copy of the same code.  An action is one critical section, or one access outside
of one, so that an interrupt may come between any two: the first critical section
of a call (`Send`, `Receive`, `Fail`, `WillWait`), `vTaskSuspendAll`,
`prvLockQueue`, the look at the clock, the second look at the queue, the placing
on the event list, `prvUnlockQueue`, `xTaskResumeAll` and the yield behind it.
`at[t]` is the place of task `t` in its call.

- The event lists are sequences of tasks in the order of `vListInsert`.  `ready`
  is a set: with time slices any of the ready tasks of the highest priority may be
  next, and `vTaskSwitchContext` chooses one of them.
- `cTxLock` counts what the interrupt has posted while the queue is locked.  The
  receive lock is left at its unmodified value: no interrupt of the firmware
  receives.
- The clock of a call runs out once (`TimeIsOver`), at any time; that
  the task has seen it is `"seen"`.  Ticks that come while the scheduler is
  suspended are worked off when it is resumed, so `TimeIsOver` waits for that.
- `xTaskResumeAll` yields if a pending task has at least the priority of the
  running one; the wake-up from an event list asks for a higher one.  The two
  comparisons are different in the code and in the model.
- Left out: priority inheritance (the firmware has one mutex, which only the command
  line takes), and overwrite, send to front, peek, queue sets and receiving from an
  interrupt, which it does not use.

### SerialDriver

The putting task, the reading task, the handler and the UART are separate actors;
an action is one access to a register or to the buffer that the others use.  A
byte is its number.  `place` is where the task is in `vSerialPutString` or
`xSerialPutChar`, `handler` where `prvUART_Handler` is; while it runs no task
moves.  `sent[c]` is the local `SentCount` of `XUartPs_SendBuffer` in caller `c`.
`RX` stands for the three receive interrupts, which are handled alike.

- Three assumptions on time stand at the head of the module: no byte leaves the
  shifter in the last steps of the handler (`HandlerEnds`), no receive timeout ends
  there, and 500 ms pass only when nothing is on its way any more (`TimedOut`).  When
  the handler starts is left open.
- The UART and the Xilinx driver's `XUartPs_Send` and `XUartPs_SendBuffer` are
  part of the board support package; the model has them as the driver uses them.
- What the driver does not promise, and no property claims: a put returns when
  its buffer has been *read*, which may be before the bytes are on the wire, since
  the TXEMPTY of an earlier string is often still there to end it.
- `PutsReturn` has one exception, which the code has too: a character whose
  handler starts more than a byte time (87 us) late goes from the FIFO to the
  shifter, its TXEMPTY is wiped by the handler's last write, and the task, waiting
  without limit, is never told.  A string waits 500 ms in the same case, as it does
  when it is empty and no TXEMPTY is left over.

### CliEditor

One action is one pass of the loop, for one byte.  `pending` are the bytes of a
key on their way, so that a key's sequence is not interrupted by another key, but
`ESC` may be pressed alone and leaves the decoder in the middle of a sequence.
`screen` is the row of the terminal behind the prompt: `Put`, `MoveLeft`,
`EraseRight` and `Redraw` are the sequences the code prints.  `PutIn` and `TakeOut`
are its loops over the buffer, which work up to `strlen`.  `KeyAssumption` says what a
terminal sends for a key: a character, a control, or an escape sequence whose bytes
end where the decoder, if it takes them all, ends it.  A sequence it would end
early would have its last bytes typed into the line, which the model does not cover.
The byte 0x7F is echoed when it comes at the end of the line
(`zybo_uart_driver.c:103-104`); the terminal is taken to ignore it, as the usual ones
do.  On one that shows it `ScreenShowsLine` would not hold.

`spoiled` becomes true for keys after which the row is not redrawn; until the next
prompt nothing is said of it.  These keys, and what the model does not reach:

- Enter, Up or Down with the cursor at the start of a line that is not empty:
  Enter takes the line for an empty one and keeps it, hidden, behind the new
  prompt; Up and Down print over the old line without clearing it.
- Backspace within an escape sequence deletes, but its echo is not printed.
- `ESC O` and any other introducer but `[` leaves the decoder waiting until the
  next `ESC`: characters typed meanwhile are swallowed (`EscOther`).
- Up and Down move the cursor with a sequence formatted into `tmpEsc[5]`
  (`zybo_uart_driver.h:31`), which has room for a count of one digit: with the
  cursor in column 10 or more it writes behind the array.  Lines of
  the model are shorter.
- A full buffer has no terminator.  `MaxLine` < `cmdMAX_INPUT_SIZE` keeps the user
  from filling it; what happens beyond is not modelled.
- Control bytes other than those named, and bytes above 127, enter the line
  without an echo.  They are not among `Chars`.

### CmaDevice

Offsets and lengths are in pages.  The free list is kept sorted by the code, so
it is a set of blocks here, and `FirstFit` the block of least offset that fits;
`Coalesce` says what the merging loop of `_free` computes, and an ASSUME of
`MCCmaDevice` compares the two on every set of disjoint blocks.  A buffer is an
object: it is allocated at most once and freed at most once (`freebuffer` looks
at `freed`).  `MappingFails` reserves and does not release, as the code does: those
pages are `lost`.  Not modelled: closing the mapping of a buffer whose array is
still exported fails, and line 115 passes over the error, so that an array that
was freed still reaches memory that may belong to the next buffer.

## 3. Runs

| Run | Shows |
|---|---|
| `controller_acked` | `ImplementsPort`: every behaviour of the controller is one of the register file, including that operations end. |
| `controller_nacking` | Any byte may go unacknowledged. `OnlyTheWriteWrites`, `DoneMeansWritten` (all acknowledged), `MissesAreReal` (no miss of an earlier operation is reported), `PairsStayTogether`, `NoUnderflow`, `OperationsEnd`. |
| `done_too_early` | violation, finding 1 |
| `stale_read` | violation, finding 2 |
| `codec_unit` | Both drivers from power-up on, any three calls, with missed acknowledges, timeouts, resets and operations that do not find the bus stopped. `ReturnIsItsOwn`: no call returns with another one's answer. `OrderlyReturnMeansDone`: done, as long as each operation found the bus stopped. `RequestsAreTaken` and `NoValidLost`: no request is dropped and no answer cleared away in the clock in which both sides touch the bit. `CallsReturn`, but for three waits of the C driver that are for ever. |
| `reset_never_ends` | violation, finding 3 |
| `sampler_tasks` | `NoKeyStuck`, `NoMidiLost`, `AnswerMeansLoaded`: the three hand-overs by queue and notification. `SerialUseIsSound`: without overlapping calls the status of the voices is right, whatever is loaded when. `KeysAreReceived`, `CommandsReturn`. |
| `sampler_overlap` | violation, finding 4 |
| `kernel_queue` | `ImplementsQueue`: the locked, interrupted queue is a FIFO. `NoLostWakeup`, `TopTaskReturns`: nobody sleeps at a queue that has something for it. `HighestRuns`, `WaitersSorted`. |
| `serial_driver` | `SentInOrder`, `StringIsKept`, `ReceivedInOrder`, `PutsReturn`, `BytesAreTaken`. |
| `cli_editor` | `ImplementsEditor`: the byte loops are insertions and deletions in a line. `LineWellFormed`: the buffer stays a terminated string. `ScreenShowsLine`. |
| `cma_device` | `ImplementsPool`: a pool of pages, which refuses a buffer only when no run of free pages is long enough. `Partition`. |

Each passing run also checks a type invariant.

Bounds.  `controller_acked`: two registers, two values that differ in both halves,
three operations, so that a read follows two writes to the same or to another
register.  `controller_nacking`: one register and three operations, the second one
meeting what an aborted first one left and the third one what that leaves.
`codec_unit`: three calls are enough for
a call to give up, another to be made while the controller is still at work (and be
refused) and a third one after it; `AxiGap` 3, `MinXfer` 4, as explained above.
`sampler_tasks`: three inputs are enough for a key to be sent while the one before is
being received, with a MIDI message, a load or stop all in between; two loads for an
answer that comes late to be there when the next load is asked for; two keys and
two slots for a voice to be played twice and for the slots to run out.
`kernel_queue`: a queue of two that three posts and a sender fill, two receivers of
different priority and a sender of the lower one, so that two wait at once, one is
passed over, and several posts come while the queue is locked.  `serial_driver`:
FIFOs of two bytes and a receive queue of one; strings of no, one, two and four
bytes need the handler not at all, once and twice; six bytes make two strings
follow each other.  `cli_editor`: lines of up to three characters have a beginning, a
middle and an end.  `cma_device`: four pages and four buffers, which can leave two
holes and a block between them; requests of 0 to 3 pages.

Deadlock is not checked where clients may stop asking or bounded input may end;
`cli_editor` and `kernel_queue` check it.

Fairness.  In `ControllerUnit` weak fairness of the sequencer, the Wishbone
access, the bus and the push into the FIFO: all are clocked logic that moves
whenever it can; nothing forces a client to ask.  In `CodecUnit` weak fairness of
the clock, of a transfer's end or its hanging (that an orderly one ends is
`OperationsEnd` and `ImplementsPort` of `ControllerUnit`; no other one has to, and
what hangs stays so), of a driver that has been called, and of the Python timeout,
which is a bound on time the driver keeps.  In
`SamplerTasks` weak fairness of the command line's steps and timeouts and of each
task: the scheduler runs whoever is ready and of the highest priority.  Time slices
among equals make it fair to each of them; that higher ones do not starve
lower ones is not assumed but follows, since each handles finitely many messages.
In `KernelQueue` weak fairness of the task steps as a whole - the processor
executes, but is fair to no particular task - and of time running out.  In
`SerialDriver` weak fairness of the UART's shifting and timeout, of the handler, and of
each of the two tasks.  Nothing forces input.  No strong fairness is used.

### Findings

1. "Poll the status register until the transaction is done" (`i2c_seq_sm.sv:317`)
   can end a write before it is on the bus, when it is started while the stop of
   the previous operation is still being sent.  The drivers poll busy only
   (`codec_controller_utils.c:144`, `codec_controller.py:88`) and do not prevent this.
   With the same cause an operation can fail to end at all: after a byte the master goes
   on with whatever is in the write FIFO (`i2c_master.v:555`), so a byte queued by
   the next operation leaves with the one before, and the next one waits for it in
   `WRITE_1`.  The C driver polls busy without limit (`codec_controller_utils.c:144`);
   `CallsReturn` of `CodecUnit` names this as an exception.
2. A read that misses an acknowledge is given up with its bytes on their way into
   the read FIFO, which nothing flushes.  From then on each read returns the bytes of
   the one before (`codec_controller.py:111`: "read one SSM2603 register").
3. A controller reset never ends: the bit holds in reset the unit whose done
   signal clears it.
4. `current_status` is "1 = Currently in playback, 0 = Idle" (`sampler_cfg.h:112`),
   but check, start and record are not atomic: when the MIDI task plays the key
   that the key task is just starting, the voice sounds in two slots and records
   one.  A note-off stops only that one.  (Stop all has the same gap: it silences the
   slots, `sampler_engine.c:70`, before it clears the flags, 88, and a note-on in
   between, or one that it meets before the record, ends with status and slot apart.)

Observations that no run states, since nothing in the repository says what ought
to happen:

- Each status poll clears the sticky missed-acknowledge bit
  (`i2c_master_wbs_8.v:409`) and the sequencer reports the last poll's
  (`i2c_seq_sm.sv:330`), so a byte missed early in a transfer goes unreported.
  `opMissed` and `seqMissed` of `CodecUnit` differ for this reason.
- Once set, the missed-acknowledge bit of the register unit cannot be cleared until
  another transfer has ended (`codec_registers.sv:157` clears a bit whose source is a
  level), and the Python driver raises for that transfer.
- An instrument whose sample cannot be decoded is left half loaded, and the load
  reports success (`patch_loader.c:456`).
- A pulse that comes while the handshake of the one before is under way is merged
  with it (`pulse_synchronizer.sv:49`).
- The command line and the MIDI listener read one receive queue; after the
  listener's command has timed out, bytes of one go to the other.

## 4. Proofs

Checked by TLAPS for every value of the constants that the modules' named
assumptions allow.

`ControllerUnitProofs`, checked by TLAPS for every `NumRegs`, `Values`, `CodecAcks`,
`Paced` and `MaxOps` allowed by `ControllerAssumption`:

- `TypeCorrect`: `Spec => []TypeOK`.  `TypeOK` is inductive; the proof is one
  step per action.  `ByteRange` supplies the arithmetic of `{register, bit 8}`,
  `TypedUnchanged` the parts an action does not touch.
- `MissesReported`: `Spec => []MissesAreReal`, paced or not.  Each poll of STS0 clears
  the sticky bit, and the poll that sees busy comes before the one that ends the
  operation; `MissInv` carries from that poll on (`BusySeen`), through the slave's
  status byte and the sequencer's copy of it, that a miss was on the bus since the
  request.
- `DataReadIsSafe`: `Spec => []NoUnderflow`, where `NoUnderflow` says that DATA is
  sampled only with a byte in the read FIFO.  It is not inductive: whether the FIFO
  has a byte is decided two sequencer states and one Wishbone read earlier.  The
  invariant adds `WaitsForAccess` (an access is outstanding exactly in the
  two wait states), `ReturnStates` (to which state an outstanding poll of a given
  register can return) and `NotEmptyIsTrue` (a sampled not-empty is still true:
  nobody but the sequencer takes bytes out).  It holds unpaced and
  with missed acknowledges, where leftovers make the argument less obvious.

With `Paced`, and whatever the codec acknowledges:

- `BusIsOrderly`: `Paced /\ Spec => []PacedInv`.  `PacedInv` adds `BusInv`: in
  each state of the sequencer, which of the commands and bytes of its operation are
  still in the FIFOs (`Sent`), which the master has taken and where it is with
  them (`Writes`, `HasWritten`, `ReadsTwo`, `ReadsOne`, `HasRead`), how many of
  the codec's bytes have come, and that what the master is at agrees with what
  the codec thinks it is at.  The difficulty is that sequencer and master advance
  independently: each pair of places that can occur together is a disjunct, and
  a step of one has to leave the other's description true (`SentsStay`,
  `ReadsStay`).  Without `Paced` `BusInv` is false: that is finding 1.
- `WritesArrive` and `PairsAreWhole` (an even number of bytes in read FIFO and master
  when the sequencer is idle and the bus has stopped) follow from it, `OnlyWritesWrite`
  from its transition: the last byte of a write is the only one after which the codec stores.

With `Paced` and `AlwaysAcks` (the codec withholds no acknowledge; otherwise reads
return leftovers, finding 2):

- `AllBytesArrive`: `[]AckInv`, which says of each byte between the codec and the
  sequencer's output (`Chain0`, `Chain1`, `Chain2`: master, read FIFO, Wishbone
  data, output register) that it is the half of the register it is about to be
  taken for.
- `PortIsImplemented` follows.  The mapping of
  `ImplementsPort` is `PortSteps /\ WF_portVars(PortDone)`; the first conjunct
  is proved, the second is about ENABLED and is left to `controller_acked`.

`CodecUnitProofs`, for any registers and values, either driver, any calls, and any
gap of three clocks or more between two accesses (`UnitAssumption`), acknowledged or
not:

- `TypeCorrect`, `CallsReturnForTheirOwn`, `OrderlyCallsDoTheirWork`,
  `NoRequestIsDropped` and `PulsesAreSeen`: `TypeOK`, `ReturnIsItsOwn`,
  `OrderlyReturnMeansDone`, `RequestsAreTaken` and `NoValidLost`, all from
  `UnitInv`.  Only `OrderlyCallsDoTheirWork` has the hypothesis that operations found the
  bus stopped.  Not even the types are inductive: that the head of the read FIFO is a
  value depends on the phase, and that a write carries a value on the driver.
- `RequestInv` is the argument about time.  The controller takes a request in the
  clock after the kick; its busy wire drops the request bit in the next; and only
  then comes the driver's next access, the first that can read the busy bit.
  Hence a driver that reads "not busy" has found a unit at rest (`Ready`: no request,
  no transfer, nothing pulsing), and with a gap of two the proof fails there.
- `PlaceInv` says where a driver relies on that: it has seen the unit at rest before
  it touches address, data and request bits, and nobody else starts anything.
  The C driver, which writes back what it read, writes only to a unit at rest, or
  in initialization for a reset, so that no stale request, reset or clear goes with
  it.  A late operation of a call that timed out is over before the next gets on.
- `ServeInv` follows the operation from the kick to the answer: registers still as
  asked, then the controller's copy, then the data it delivered, and, while all is
  orderly, the codec's register.
- `InitInv` is needed because the two state registers of `codec_init_unit` run one
  behind the other: when init done rises, the controller is idle and the enable of
  the power-up read has been gone long enough not to be taken twice.

`SamplerEngineProofs`, for any number of slots, keys and descriptors, any velocity
ranges, and four callers in any interleaving (`EngineAssumption`):

- `EngineTypeCorrect`: `EngineSpec => []EngineTypeOK`.  Strengthened by
  `HasInstrument`: a call that works on a voice has an instrument, otherwise
  `Voice(t)` would not be one.
- `SerialUse`: `EngineSpec => []SerialUseIsSound`.  The property speaks only of
  moments between calls.  `SerialInv` says what holds within one: at
  each place, what the call has established (`StatusSeen`, `VoiceStarted`,
  `VoiceStopped`, `SlotsStopped`, `KnownPlays`), that every other voice is
  known (`OthersAreKnown`), and, because a load may replace the instrument meanwhile,
  that nothing of the new one plays (`NewIsIdle`, from `Fresh`: a descriptor
  not yet used has no status set).  `CallStepSound` takes the fifteen
  steps one by one, `BeginSound` and `LoadSound` the rest.

`SamplerTasksProofs`, for every bound on inputs and loads:

- `TypeCorrect`, from `TasksInv` (the MIDI task blocks for its notification only;
  the load task has a file while it loads).
- `FirmwareUsesEngine`: `Spec => EngineSpec`.  Each step is an engine step or
  leaves the engine alone.  `SerialFirmware` carries `SerialUse` over.
- `KeyNotStuck`: `Spec => []NoKeyStuck`, inductive with the types: the timeout of
  a receive and a full queue exclude each other.
- `MidiIsTaken`: `Spec => NoMidiLost`.  The command line runs only when
  the MIDI task is not ready, and that task, waiting nowhere but for its
  notification, is then idle with none pending.
- `AnswersAreForLoads`: `Spec => []AnswerMeansLoaded`, from `LoadInv`, the stages
  of a load that has not timed out (`FileSent`, `FileTaken`, `Answered`).

`CmaDeviceProofs`, for every region, page size and set of requests
(`DeviceAssumption`):

- `TypeCorrect`, `MemoryIsPartitioned` and `FreeListIsCoalesced`: the three together
  are inductive, none of them alone: that a merged block is a block needs
  disjointness, and that it is merged far enough needs that no two free blocks were
  adjacent before (`Coalesced`; that blocks are merged is checked through
  `ImplementsPool`, which fails without it).  `LeastNumber` and `GreatestNumber` name the ends of
  the run a freed block is merged into.
- `PoolIsImplemented`: `Spec => ImplementsPool`.  `Owners` computes the owner of a
  page after each step, `FirstFitIsLowest` that the first free block that fits is
  the lowest run of free pages: since free blocks are coalesced, a free run lies
  within one of them.

`KernelQueueProofs`, for any tasks, priorities, calls and length
(`QueueAssumption`):

- The invariant `Inv` is `TypeOK` with `CallInv` (a task within a call has one),
  `SuspInv` and `LockInv` (the scheduler is suspended, and the queue locked,
  exactly while some task is between the steps that do and undo it, and that task
  has the processor), `VerdictInv`, `ReadyInv` (who is ready, who pending, and
  that a switch is outstanding only while the scheduler is suspended),
  `WaitersSorted` and `RingInv` (write and read place are as far apart as there
  are items).  That only one task is ever within the suspended part is what makes
  `uxSchedulerSuspended` and `cTxLock` say anything; `HighestReadyRuns` and
  `WaitersStaySorted` then follow step by step.
- `QueueIsImplemented`: `Spec => ImplementsQueue`.  The arithmetic of the ring
  (`Wraps`, `CopyTo`, `CopyFrom`) gives `HeldAppends` and `HeldTail`: a copy into
  the ring appends to the abstract contents, a copy out of it takes the head.

- `WakeupsAreKept`, for any finite set of tasks: `Spec => []NoLostWakeup`, the
  argument behind locking.  The invariant adds `WaitInv` (event lists without
  repetition, each waiter in the list of its call, not awake, and at a place where
  it waits) and `PlaceInv` (between
  the second look at the queue and the event list, what was seen can be changed by the
  interrupt only, and `cTxLock` has counted it).  Each step then changes items,
  lock count, lists and the set of those awake together; the lemmas `TaskMoves`,
  `ItemComes`, `GainsOne`, `LosesOne` and `GainsMany` are the balances.

`SerialDriverProofs`, for any FIFO of at least two bytes, any queue and any strings
(`SerialAssumption`):

- `BytesLeaveInOrder` and `BytesArriveInOrder` from `OrderInv` and `RxInv`: shifter,
  FIFO and the unread rest of the buffer continue each other, and so do queue and
  receive FIFO.  That task and handler both fill the FIFO does no harm because of
  `CallInv` and `MaskInv`: the handler sees a transmit interrupt only while the task
  waits.
- `BufferIsRead`: `Spec => []StringIsKept`.  `BufferInv` says that while something
  remains of the buffer the FIFO will still announce that it is empty.  The hard
  step is the handler's last one, which clears the interrupt: it cannot clear a
  new one, because the handler left the FIFO full and at most one byte has left it
  since.  This is where the FIFO must have room for two, and where the assumption
  on time enters.

`CliEditorProofs`, for any characters, any keys and any length of line below the
size of the buffer (`EditorAssumption`, `KeyAssumption`):

- `EditorIsOrderly`: `Spec => []EditorInv`, three parts that each action changes
  separately.  `LineInv`: the buffer holds a string (`IsStr`: its `strlen` is below the
  bound and is a terminator) and is clear behind it, the cursor is in it, the row
  shows it.  That the rest is clear is what makes the proof go through, since an appended
  character is written over the terminator and relies on the next byte being
  one.  `HistInv`: the two other buffers hold strings, of which `cLastInputString`
  is not clear behind its end.  `EscInv`: the bytes to come are what the decoder
  takes (`KeyInv`), so that only characters are typed, while there is room.
- The buffer loops are described once, in `PutInIs`, `TakeOutIs`, `CutIs`, `CopyIs`,
  and what is printed in `ShownTail`; `TypeCorrect`, `LineIsAString` and
  `RowIsTheLine` follow.
- `EditorIsImplemented`: `Spec => ImplementsEditor`.  `TextPutIn`, `TextWithout` and
  `TextCopy` say what the loops do to the text as a sequence; each action is
  then one of `LineEditor` or a stutter.

Each inductive invariant was checked with TLC on the instances above before it was
proved.  Model-checked only: all liveness (fairness and ENABLED are beyond TLAPS
here and will stay so), which includes the fairness conjunct of `ImplementsPort`.

## 5. Not modelled

In the CODEC unit: the bit-level timing of the bus, arbitration and clock stretching
(one master, one codec); the prescale registers, multi-word writes and stop-on-idle,
which the sequencer never uses; counters and misc registers; AXI handshakes beyond
the gap they impose; concurrent use of the unit by two drivers, which neither
driver is written for.

In the sampler: decoding of JSON, RIFF and SoundFont files; a second reader of the
serial port; priorities changed by the kernel.  `SamplerTasks` keeps its own queues
of length one: `KernelQueue` shows that a queue of the kernel is a FIFO whose calls
take effect at once, which is what they are.  `xil_printf`, which some commands
use, writes the UART's FIFO behind the driver's back; `SerialDriver` has one writer.

The audio serializer and the clock crossings: the streams cross clocks in FIFO IP
that is not in the repository, and what goes wrong in a synchronizer is
metastability and skew, which a model of logic values does not have.  The HLS
kernels are sequential loops or floating point.  The other components have their
reason in `PROJECT.json`.

Most of the repository's lines are copies of FreeRTOS, FreeRTOS-Plus-FAT and Xilinx
board support packages (two versions of each), register definitions and glue.  Of
the kernel what the firmware's queues use is modelled, of the rest nothing: the map
covers the project's own concurrent code, which is a small part of the lines.

## 6. What is left

1. Proofs: that `ControllerPort` also covers the reduced controller of `CodecUnit`
   while it is orderly, so that the two halves of the CODEC unit are joined by a theorem.
   Until then that the one is the other with `Paced` is an argument, made in section 2.
2. In `SamplerTasks`, task notifications and queues as calls of the kernel, down to
   the critical section.
3. In `SamplerEngine`, the meaning of the velocity range as a reference for
   `Excluded`, and what a half-failed load leaves in memory.
4. A second reader of the receive queue and a second writer of the UART in
   `SerialDriver`.
