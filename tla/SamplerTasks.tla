---------------------------- MODULE SamplerTasks ----------------------------
(***************************************************************************)
(* The sampler firmware as FreeRTOS runs it on one core: the command line, *)
(* the tasks it wakes by notifications and queues of length one, and the   *)
(* calls those tasks make of SamplerEngine.  The scheduler is preemptive   *)
(* with fixed priorities and time slices among equals: a task takes a step *)
(* only while no task of a higher priority is ready.  Input and timeouts   *)
(* are interrupts and happen at any time.                                  *)
(***************************************************************************)
EXTENDS SamplerEngine

CONSTANTS Commands,     \* the commands in use
          MaxInputs,    \* bound: command lines and messages to the listener
          MaxLoads      \* bound: load commands

Tasks == Callers \cup {"load"}

\* What play_key sends, and a note on or off (velocity 0); NULL is any other
\* MIDI message, which the tasks ignore.
KeyParameters == [key : Key, velocity : Velocity]
Message == KeyParameters \cup {NULL}
Loads == 0 .. MaxLoads     \* load commands are numbered, 0 is none

ASSUME TasksAssumption ==
    /\ Commands \subseteq {"play_key", "midi", "stop_all", "load_instrument", "listen"}
    /\ MaxInputs \in Nat /\ MaxLoads \in Nat
    /\ 0 \in Velocity
    /\ Loads \ {0} \subseteq Descriptors

VARIABLES
    task,           \* where each task waits or is
    notified,       \* tasks with a notification pending
    midiValue,      \* the value of the last one to the MIDI task
    cli, cliArg,    \* the command line: place in its code, argument
    keyQ, fileQ, loadReturnQ, listenReturnQ,    \* queues of length one
    lastLoad,       \* number of the last load command
    loading,        \* number of the load the load task works on
    installed,      \* number of the last load whose result is in place
    late,           \* history: a load command has timed out
    inputs          \* how many inputs there were

queueVars == <<keyQ, fileQ, loadReturnQ, listenReturnQ>>
loadVars == <<lastLoad, loading, installed, late>>
taskVars == <<task, notified, midiValue>>
cliVars == <<cli, cliArg>>
vars == <<engineVars, taskVars, cliVars, queueVars, loadVars, inputs>>

Init ==
    /\ EngineInit
    /\ task = [t \in Tasks |-> "wait"] /\ notified = {} /\ midiValue = NULL
    /\ cli = "prompt" /\ cliArg = NULL
    /\ keyQ = NULL /\ fileQ = 0 /\ loadReturnQ = 0 /\ listenReturnQ = FALSE
    /\ lastLoad = 0 /\ loading = 0 /\ installed = 0 /\ late = FALSE
    /\ inputs = 0

-----------------------------------------------------------------------------
(* The scheduler.                                                          *)

\* xTaskCreate lowers configMAX_PRIORITIES to the highest there is, 4 here; the
\* command line is created one below it and the other tasks with the idle task.
\* Mutant: the MIDI tasks too run with the idle task.
PriorityMut(t) == IF t = "cli" THEN 3 ELSE 0
Priority(t) == IF t \in {"midi", "listener"} THEN 4 ELSE IF t = "cli" THEN 3 ELSE 0

InCall(t) == t \in Callers /\ Active(t)

TaskReady(t) ==
    \/ InCall(t)
    \/ task[t] = "wait" /\ t \in notified
    \/ task[t] = "receive" /\ (IF t = "key" THEN keyQ # NULL ELSE fileQ # 0)
    \/ task[t] = "loading"
    \/ task[t] = "answer" /\ (IF t = "load" THEN loadReturnQ = 0 ELSE ~listenReturnQ)

\* What the command line is blocked in, and until when.
CliReady ==
    CASE cli \in {"prompt", "delay"} -> FALSE
      [] cli = "send_key" -> keyQ = NULL
      [] cli = "send_file" -> fileQ = 0
      [] cli = "await_load" -> loadReturnQ # 0
      [] cli = "await_listener" -> listenReturnQ
      [] OTHER -> TRUE

MayRun(t) ==
    /\ \A u \in Tasks : Priority(u) > Priority(t) => ~TaskReady(u)
    /\ Priority("cli") > Priority(t) => ~CliReady

-----------------------------------------------------------------------------
(* The command line.                                                       *)

FirstPlace(c) ==
    CASE c = "play_key" -> "send_key"
      [] c = "midi" -> "notify_midi"
      [] c = "stop_all" -> "notify_stop"
      [] c = "load_instrument" -> "send_file"
      [] c = "listen" -> "notify_listener"

\* The last character of a command line arrives.
CliInput(c, arg) ==
    /\ cli = "prompt" /\ c \in Commands /\ inputs < MaxInputs
    /\ c = "load_instrument" => lastLoad < MaxLoads
    /\ cli' = FirstPlace(c) /\ cliArg' = arg
    /\ inputs' = inputs + 1
    /\ lastLoad' = IF c = "load_instrument" THEN lastLoad + 1 ELSE lastLoad
    /\ UNCHANGED <<engineVars, taskVars, queueVars, loading, installed, late>>

Input ==
    \/ \E p \in KeyParameters : CliInput("play_key", p)
    \/ \E m \in Message : CliInput("midi", m)
    \/ \E c \in {"stop_all", "load_instrument", "listen"} : CliInput(c, NULL)

CliGoto(place) == cli' = place /\ cliArg' = IF place = "prompt" THEN NULL ELSE cliArg
\* Mutant: a task that is busy is not notified.
NotifyMut(t) == notified' = IF InCall(t) THEN notified ELSE notified \cup {t}
Notify(t) == notified' = notified \cup {t}

\* The queue is tried again when room is made; the result is not looked at.
SendKey ==
    /\ cli = "send_key" /\ keyQ = NULL
    /\ keyQ' = cliArg
    /\ CliGoto("notify_key")
    /\ UNCHANGED <<engineVars, taskVars, fileQ, loadReturnQ, listenReturnQ, loadVars, inputs>>

NotifyKey ==
    /\ cli = "notify_key"
    /\ Notify("key") /\ CliGoto("prompt")
    /\ UNCHANGED <<engineVars, task, midiValue, queueVars, loadVars, inputs>>

NotifyMidi ==
    /\ cli = "notify_midi"
    /\ Notify("midi") /\ midiValue' = cliArg /\ CliGoto("prompt")
    /\ UNCHANGED <<engineVars, task, queueVars, loadVars, inputs>>

NotifyStop ==
    /\ cli = "notify_stop"
    /\ Notify("stop") /\ CliGoto("delay")
    /\ UNCHANGED <<engineVars, task, midiValue, queueVars, loadVars, inputs>>

SendFile ==
    /\ cli = "send_file" /\ fileQ = 0
    /\ fileQ' = lastLoad
    /\ CliGoto("notify_load")
    /\ UNCHANGED <<engineVars, taskVars, keyQ, loadReturnQ, listenReturnQ, loadVars, inputs>>

NotifyLoad ==
    /\ cli = "notify_load"
    /\ Notify("load") /\ CliGoto("await_load")
    /\ UNCHANGED <<engineVars, task, midiValue, queueVars, loadVars, inputs>>

\* Mutant: the answer is looked at and left in the queue.
LoadAnsweredMut ==
    /\ cli = "await_load" /\ loadReturnQ # 0
    /\ CliGoto("prompt")
    /\ UNCHANGED <<engineVars, taskVars, queueVars, loadVars, inputs>>
LoadAnswered ==
    /\ cli = "await_load" /\ loadReturnQ # 0
    /\ loadReturnQ' = 0
    /\ CliGoto("prompt")
    /\ UNCHANGED <<engineVars, taskVars, keyQ, fileQ, listenReturnQ, loadVars, inputs>>

NotifyListener ==
    /\ cli = "notify_listener"
    /\ Notify("listener") /\ CliGoto("await_listener")
    /\ UNCHANGED <<engineVars, task, midiValue, queueVars, loadVars, inputs>>

ListenerAnswered ==
    /\ cli = "await_listener" /\ listenReturnQ
    /\ listenReturnQ' = FALSE
    /\ CliGoto("prompt")
    /\ UNCHANGED <<engineVars, taskVars, keyQ, fileQ, loadReturnQ, loadVars, inputs>>

CliStep ==
    /\ MayRun("cli")
    /\ \/ SendKey \/ NotifyKey \/ NotifyMidi \/ NotifyStop
       \/ SendFile \/ NotifyLoad \/ LoadAnswered
       \/ NotifyListener \/ ListenerAnswered

\* Where each blocking call of the command line goes when its time is over.
\* Mutant: the command waits for the listener without limit.
AfterTimeoutMut(place) ==
    CASE place = "send_key" -> "notify_key"
      [] place = "send_file" -> "notify_load"
      [] place \in {"delay", "await_load"} -> "prompt"
      [] OTHER -> place
AfterTimeout(place) ==
    CASE place = "send_key" -> "notify_key"
      [] place = "send_file" -> "notify_load"
      [] place \in {"delay", "await_load", "await_listener"} -> "prompt"
      [] OTHER -> place

CliTimeout ==
    /\ ~CliReady /\ AfterTimeout(cli) # cli
    /\ CliGoto(AfterTimeout(cli))
    /\ late' = (late \/ cli \in {"send_file", "await_load"})
    /\ UNCHANGED <<engineVars, taskVars, queueVars, lastLoad, loading, installed, inputs>>

-----------------------------------------------------------------------------
(* The tasks.  A notification is taken and cleared by xTaskNotifyWait.     *)

Take(t, place) ==
    /\ task[t] = "wait" /\ t \in notified /\ ~InCall(t)
    /\ notified' = notified \ {t}
    /\ task' = [task EXCEPT ![t] = place]

TakeToReceive(t) ==
    /\ t \in {"key", "load"} /\ Take(t, "receive")
    /\ UNCHANGED <<engineVars, midiValue, cliVars, queueVars, loadVars, inputs>>

\* Mutant: the parameters are left in the queue.
KeyPlaybackMut ==
    /\ task["key"] = "receive" /\ keyQ # NULL
    /\ ulPlayInstrumentKey("key", keyQ.key, keyQ.velocity)
    /\ task' = [task EXCEPT !["key"] = "wait"]
    /\ UNCHANGED <<notified, midiValue, cliVars, queueVars, loadVars, inputs>>
KeyPlayback ==
    /\ task["key"] = "receive" /\ keyQ # NULL
    /\ ulPlayInstrumentKey("key", keyQ.key, keyQ.velocity)
    /\ keyQ' = NULL
    /\ task' = [task EXCEPT !["key"] = "wait"]
    /\ UNCHANGED <<notified, midiValue, cliVars, fileQ, loadReturnQ, listenReturnQ, loadVars, inputs>>

StopAllPlayback ==
    /\ Take("stop", "wait")
    /\ ulStopAllPlayback("stop")
    /\ UNCHANGED <<midiValue, cliVars, queueVars, loadVars, inputs>>

\* Both MIDI tasks: a note on or off is a call, the rest is ignored.
PlayMessage(t, m) ==
    IF m = NULL THEN UNCHANGED engineVars ELSE ulPlayInstrumentKey(t, m.key, m.velocity)

RunMIDICommand ==
    /\ Take("midi", "wait")
    /\ PlayMessage("midi", midiValue)
    /\ midiValue' = NULL
    /\ UNCHANGED <<cliVars, queueVars, loadVars, inputs>>

StartListening ==
    /\ Take("listener", "listen")
    /\ UNCHANGED <<engineVars, midiValue, cliVars, queueVars, loadVars, inputs>>

\* The third byte of a message arrives and the listener acts on it.
ListenerMessage(m) ==
    /\ task["listener"] = "listen" /\ ~InCall("listener") /\ inputs < MaxInputs
    /\ PlayMessage("listener", m)
    /\ inputs' = inputs + 1
    /\ UNCHANGED <<taskVars, cliVars, queueVars, loadVars>>

\* 0xb0 ends the session.
ListenerStop ==
    /\ task["listener"] = "listen" /\ ~InCall("listener")
    /\ task' = [task EXCEPT !["listener"] = "answer"]
    /\ UNCHANGED <<engineVars, notified, midiValue, cliVars, queueVars, loadVars, inputs>>

ListenerAnswers ==
    /\ task["listener"] = "answer" /\ ~listenReturnQ
    /\ listenReturnQ' = TRUE
    /\ task' = [task EXCEPT !["listener"] = "wait"]
    /\ UNCHANGED <<engineVars, notified, midiValue, cliVars, keyQ, fileQ, loadReturnQ, loadVars, inputs>>

ReceiveFile ==
    /\ task["load"] = "receive" /\ fileQ # 0
    /\ loading' = fileQ /\ fileQ' = 0
    /\ task' = [task EXCEPT !["load"] = "loading"]
    /\ UNCHANGED <<engineVars, notified, midiValue, cliVars, keyQ, loadReturnQ, listenReturnQ,
                   lastLoad, installed, late, inputs>>

\* patch_descriptor = ulLoadPatchFromJSON(..), at an address of its own.
LoadInstrument ==
    /\ task["load"] = "loading"
    /\ LoadFails \/ \E ks \in SampledKeys : LoadPatch(loading, ks)
    /\ installed' = loading
    /\ task' = [task EXCEPT !["load"] = "answer"]
    /\ UNCHANGED <<notified, midiValue, cliVars, queueVars, lastLoad, loading, late, inputs>>

LoadAnswers ==
    /\ task["load"] = "answer" /\ loadReturnQ = 0
    /\ loadReturnQ' = loading
    /\ task' = [task EXCEPT !["load"] = "wait"]
    /\ UNCHANGED <<engineVars, notified, midiValue, cliVars, keyQ, fileQ, listenReturnQ, loadVars, inputs>>

CallStep(t) ==
    /\ t \in Callers /\ EngineStep(t)
    /\ UNCHANGED <<taskVars, cliVars, queueVars, loadVars, inputs>>

TaskStep(t) ==
    /\ MayRun(t)
    /\ \/ CallStep(t)
       \/ ~InCall(t) /\ TakeToReceive(t)
       \/ t = "key" /\ ~InCall(t) /\ KeyPlayback
       \/ t = "stop" /\ StopAllPlayback
       \/ t = "midi" /\ RunMIDICommand
       \/ t = "listener" /\ ~InCall(t) /\ (StartListening \/ ListenerAnswers)
       \/ t = "load" /\ (ReceiveFile \/ LoadInstrument \/ LoadAnswers)

\* A receive from an empty queue and a send to a full one are given up.
TaskTimeout(t) ==
    /\ task[t] \in {"receive", "answer"} /\ ~TaskReady(t)
    /\ task' = [task EXCEPT ![t] = "wait"]
    /\ UNCHANGED <<engineVars, notified, midiValue, cliVars, queueVars, loadVars, inputs>>

Next ==
    \/ Input \/ CliStep \/ CliTimeout
    \/ \E t \in Tasks : TaskStep(t) \/ TaskTimeout(t)
    \/ \E m \in Message : ListenerMessage(m)
    \/ ListenerStop

Spec == Init /\ [][Next]_vars

\* The scheduler keeps running whoever may run, and the command line's time passes.
FairSpec ==
    /\ Spec
    /\ WF_vars(CliStep) /\ WF_vars(CliTimeout)
    /\ \A t \in Tasks : WF_vars(TaskStep(t))

-----------------------------------------------------------------------------
TypeOK ==
    /\ EngineTypeOK
    /\ task \in [Tasks -> {"wait", "receive", "loading", "listen", "answer"}]
    /\ notified \subseteq Tasks /\ midiValue \in Message
    /\ cliArg \in Message
    /\ keyQ \in Message /\ {fileQ, loadReturnQ, lastLoad, loading, installed} \subseteq Loads
    /\ {listenReturnQ, late} \subseteq BOOLEAN /\ inputs \in 0 .. MaxInputs

\* PlayKeyCMD.c, KeyPlaybackTask.c: parameters are put in the queue first and the
\* task is woken after, the send and the receive may both time out, and a pending
\* notification swallows a second one.  Still no parameters are left behind: whenever
\* some are in the queue, the task is going to look, or the command is about to wake
\* it.
NoKeyStuck ==
    keyQ # NULL =>
        \/ "key" \in notified
        \/ task["key"] = "receive"
        \/ cli = "notify_key"

\* RunMIDICommandTask.c takes the message from the notification value, and a new
\* notification overwrites it.  None does: when the command line sends one, the MIDI
\* task has taken the one before and has finished with it.
NoMidiLost == [][NotifyMidi => "midi" \notin notified /\ ~InCall("midi")]_vars

\* LoadInstrumentCMD.c: while no load has timed out, an answer in the queue is the
\* answer to the load that is being waited for, and that instrument is in place.
AnswerMeansLoaded ==
    ~late /\ loadReturnQ # 0 =>
        cli = "await_load" /\ loadReturnQ = lastLoad /\ installed = lastLoad

\* A key that is sent is received, however busy the other tasks are.
KeysAreReceived == keyQ # NULL ~> keyQ = NULL

\* Every command comes back to the prompt, also when its task does not answer.
CommandsReturn == cli # "prompt" ~> cli = "prompt"
=============================================================================
