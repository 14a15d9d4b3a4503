------------------------- MODULE SamplerTasksProofs -------------------------
(***************************************************************************)
(* Theorems about SamplerTasks, for every bound on inputs and loads: the   *)
(* tasks use the engine as SamplerEngine says, no parameters of play_key   *)
(* are left behind, no MIDI notification is overwritten, and the answer to *)
(* a load command is that of the load it waits for.                        *)
(***************************************************************************)
EXTENDS SamplerTasks, SamplerEngineProofs

-----------------------------------------------------------------------------
(* The inductive invariants *)

\* The MIDI task blocks for its notification only, and the load task has a file
\* while it loads.
TasksInv ==
    /\ TypeOK
    /\ task["midi"] = "wait"
    /\ task["load"] = "loading" => loading # 0

LoadPlaces == {"send_file", "notify_load", "await_load"}

\* The stages of a load command that has not timed out.
NoLoad == fileQ = 0 /\ loadReturnQ = 0 /\ task["load"] = "wait" /\ "load" \notin notified

FileSent ==
    /\ fileQ = lastLoad /\ loadReturnQ = 0
    /\ IF cli = "notify_load"
       THEN task["load"] = "wait" /\ "load" \notin notified
       ELSE \/ task["load"] = "wait" /\ "load" \in notified
            \/ task["load"] = "receive" /\ "load" \notin notified

FileTaken ==
    /\ fileQ = 0 /\ loadReturnQ = 0 /\ loading = lastLoad /\ "load" \notin notified
    /\ \/ task["load"] = "loading"
       \/ task["load"] = "answer" /\ installed = lastLoad

Answered ==
    /\ fileQ = 0 /\ loadReturnQ = lastLoad /\ installed = lastLoad
    /\ task["load"] = "wait" /\ "load" \notin notified

LoadInv ==
    /\ cli \in LoadPlaces => lastLoad # 0
    /\ ~late =>
          /\ cli = "await_load" => FileSent \/ FileTaken \/ Answered
          /\ cli = "notify_load" => FileSent
          /\ cli \notin {"notify_load", "await_load"} => NoLoad

-----------------------------------------------------------------------------
(* The tasks are callers of the engine *)

\* Parameters that are there come with a key and a velocity.
LEMMA MessageParts ==
    \A m \in Message : m # NULL => m \in KeyParameters /\ m.key \in Key /\ m.velocity \in Velocity
  BY DEF Message, KeyParameters

\* A step of the firmware is a step of SamplerEngine or leaves its state alone.
LEMMA EngineUsed == TasksInv /\ [Next]_vars => [EngineNext]_engineVars
<1> SUFFICES ASSUME TasksInv, [Next]_vars PROVE [EngineNext]_engineVars
  OBVIOUS
<1>1. /\ keyQ \in Message /\ midiValue \in Message
      /\ loading \in Loads /\ (task["load"] = "loading" => loading # 0)
  BY DEF TasksInv, TypeOK
<1>2. ASSUME NEW t \in Callers, NEW m \in Message, PlayMessage(t, m)
      PROVE  [EngineNext]_engineVars
  BY <1>2, MessageParts DEF PlayMessage, EngineNext
<1>3. CASE \E m \in Message : ListenerMessage(m)
  BY <1>2, <1>3 DEF ListenerMessage, Callers
<1>4. ASSUME NEW t \in Tasks, TaskStep(t) PROVE [EngineNext]_engineVars
  <2>1. CASE KeyPlayback
    BY <1>1, <2>1, MessageParts DEF KeyPlayback, EngineNext, Callers
  <2>2. CASE StopAllPlayback
    BY <2>2 DEF StopAllPlayback, EngineNext, Callers
  <2>3. CASE RunMIDICommand
    BY <1>1, <1>2, <2>3 DEF RunMIDICommand, Callers
  <2>4. CASE CallStep(t)
    BY <2>4 DEF CallStep, EngineNext
  <2>5. CASE LoadInstrument
    <3>1. loading \in Descriptors
      BY <1>1, <2>5, TasksAssumption DEF LoadInstrument, TasksAssumption
    <3>2. QED
      BY <2>5, <3>1 DEF LoadInstrument, EngineNext
  <2>6. CASE TakeToReceive(t) \/ StartListening \/ ListenerAnswers \/ ReceiveFile \/ LoadAnswers
    BY <2>6 DEF TakeToReceive, StartListening, ListenerAnswers, ReceiveFile, LoadAnswers
  <2>7. QED
    BY <1>4, <2>1, <2>2, <2>3, <2>4, <2>5, <2>6 DEF TaskStep
<1>5. CASE Input \/ CliStep \/ CliTimeout
  BY <1>5
  DEF Input, CliInput, CliTimeout, CliStep, SendKey, NotifyKey, NotifyMidi, NotifyStop, SendFile,
      NotifyLoad, LoadAnswered, NotifyListener, ListenerAnswered
<1>6. CASE ListenerStop \/ (\E t \in Tasks : TaskTimeout(t)) \/ UNCHANGED vars
  BY <1>6 DEF ListenerStop, TaskTimeout, vars
<1>7. QED
  BY <1>3, <1>4, <1>5, <1>6 DEF Next

-----------------------------------------------------------------------------
(* Type correctness *)

\* What the types say of the variables that are not the engine's.
TaskTypeOK ==
    /\ task \in [Tasks -> {"wait", "receive", "loading", "listen", "answer"}]
    /\ notified \subseteq Tasks /\ midiValue \in Message /\ cliArg \in Message
    /\ keyQ \in Message
    /\ fileQ \in Loads /\ loadReturnQ \in Loads
    /\ lastLoad \in Loads /\ loading \in Loads /\ installed \in Loads
    /\ listenReturnQ \in BOOLEAN /\ late \in BOOLEAN /\ inputs \in 0 .. MaxInputs

LEMMA TypeParts == TypeOK <=> EngineTypeOK /\ TaskTypeOK
  BY DEF TypeOK, TaskTypeOK

LEMMA InitTasks == Init => EngineInv /\ TasksInv
<1> SUFFICES ASSUME Init PROVE EngineInv /\ TasksInv
  OBVIOUS
<1>1. EngineInv /\ EngineTypeOK
  BY InitTyped DEF Init, EngineInv
<1>2. listenReturnQ \in BOOLEAN /\ late \in BOOLEAN
  BY DEF Init
<1>3. TaskTypeOK
  BY <1>2, TasksAssumption DEF Init, TaskTypeOK, Message, Loads, TasksAssumption
<1>4. QED
  BY <1>1, <1>3, TypeParts DEF Init, TasksInv, Tasks, Callers

\* What the command line does keeps the types.
LEMMA CliTyped ==
    ASSUME TasksInv, Input \/ CliStep \/ CliTimeout
    PROVE  TaskTypeOK' /\ task' = task /\ loading' = loading
<1> USE DEF TaskTypeOK
<1>1. TaskTypeOK
  BY TypeParts DEF TasksInv
<1>2. ASSUME NEW c, NEW arg \in Message, CliInput(c, arg)
      PROVE  TaskTypeOK' /\ task' = task /\ loading' = loading
  <2>1. lastLoad' \in Loads /\ inputs' \in 0 .. MaxInputs
    BY <1>1, <1>2, TasksAssumption DEF CliInput, Loads, TasksAssumption
  <2>2. QED
    BY <1>1, <1>2, <2>1 DEF CliInput, taskVars, queueVars
<1>3. CASE Input
  BY <1>2, <1>3 DEF Input, Message
<1>4. ASSUME NEW place, CliGoto(place) PROVE cliArg' \in Message
  BY <1>1, <1>4 DEF CliGoto, Message
<1>5. CASE CliTimeout
  BY <1>1, <1>4, <1>5 DEF CliTimeout, taskVars, queueVars
<1>6. CASE SendKey \/ SendFile \/ LoadAnswered \/ ListenerAnswered
  <2>1. 0 \in Loads
    BY TasksAssumption DEF Loads, TasksAssumption
  <2>2. CASE SendKey \/ SendFile
    BY <1>1, <1>4, <2>2 DEF SendKey, SendFile, taskVars, loadVars
  <2>3. CASE LoadAnswered \/ ListenerAnswered
    BY <1>1, <1>4, <2>1, <2>3 DEF LoadAnswered, ListenerAnswered, taskVars, loadVars
  <2>4. QED
    BY <1>6, <2>2, <2>3
<1>7. CASE NotifyKey \/ NotifyMidi \/ NotifyStop \/ NotifyLoad \/ NotifyListener
  BY <1>1, <1>4, <1>7
  DEF NotifyKey, NotifyMidi, NotifyStop, NotifyLoad, NotifyListener, Notify, queueVars, loadVars,
      Tasks, Callers
<1>8. QED
  BY <1>3, <1>5, <1>6, <1>7 DEF CliStep

\* So does what the tasks do.
LEMMA TaskTyped ==
    ASSUME TasksInv, NEW t \in Tasks, TaskStep(t) \/ TaskTimeout(t)
    PROVE  /\ TaskTypeOK' /\ task'["midi"] = "wait"
           /\ task'["load"] = "loading" => loading' # 0
<1> USE DEF TaskTypeOK, Tasks, Callers
<1>1. TaskTypeOK /\ task["midi"] = "wait" /\ (task["load"] = "loading" => loading # 0)
  BY TypeParts DEF TasksInv
<1>2. CASE CallStep(t)
  BY <1>1, <1>2 DEF CallStep, taskVars, cliVars, queueVars, loadVars
<1>3. CASE TakeToReceive(t)
  BY <1>1, <1>3 DEF TakeToReceive, Take, cliVars, queueVars, loadVars
<1>4. CASE KeyPlayback
  BY <1>1, <1>4 DEF KeyPlayback, cliVars, loadVars, Message
<1>5. CASE StopAllPlayback
  BY <1>1, <1>5 DEF StopAllPlayback, Take, cliVars, queueVars, loadVars
<1>6. CASE RunMIDICommand
  BY <1>1, <1>6 DEF RunMIDICommand, Take, cliVars, queueVars, loadVars, Message
<1>7. CASE StartListening
  BY <1>1, <1>7 DEF StartListening, Take, cliVars, queueVars, loadVars
<1>8. CASE ListenerAnswers
  BY <1>1, <1>8 DEF ListenerAnswers, cliVars, loadVars
<1>9. CASE ReceiveFile
  BY <1>1, <1>9, TasksAssumption DEF ReceiveFile, cliVars, Loads, TasksAssumption
<1>10. CASE LoadInstrument
  BY <1>1, <1>10 DEF LoadInstrument, cliVars, queueVars
<1>11. CASE LoadAnswers
  BY <1>1, <1>11 DEF LoadAnswers, cliVars, loadVars
<1>12. CASE TaskTimeout(t)
  BY <1>1, <1>12 DEF TaskTimeout, cliVars, queueVars, loadVars
<1>13. QED
  BY <1>2, <1>3, <1>4, <1>5, <1>6, <1>7, <1>8, <1>9, <1>10, <1>11, <1>12 DEF TaskStep

LEMMA TasksStep == EngineInv /\ TasksInv /\ [Next]_vars => (EngineInv /\ TasksInv)'
<1> SUFFICES ASSUME EngineInv, TasksInv, [Next]_vars PROVE (EngineInv /\ TasksInv)'
  OBVIOUS
<1>1. EngineInv'
  BY EngineUsed, EngineNextTyped
<1>2. TaskTypeOK /\ task["midi"] = "wait" /\ (task["load"] = "loading" => loading # 0)
  BY TypeParts DEF TasksInv
<1>3. /\ TaskTypeOK' /\ task'["midi"] = "wait"
      /\ task'["load"] = "loading" => loading' # 0
  <2>1. CASE Input \/ CliStep \/ CliTimeout
    BY <1>2, <2>1, CliTyped
  <2>2. CASE \E t \in Tasks : TaskStep(t) \/ TaskTimeout(t)
    BY <2>2, TaskTyped
  <2>3. CASE \E m \in Message : ListenerMessage(m)
    BY <1>2, <2>3, TasksAssumption
    DEF ListenerMessage, taskVars, cliVars, queueVars, loadVars, TaskTypeOK, TasksAssumption
  <2>4. CASE ListenerStop
    BY <1>2, <2>4 DEF ListenerStop, cliVars, queueVars, loadVars, TaskTypeOK, Tasks, Callers
  <2>5. CASE UNCHANGED vars
    BY <1>2, <2>5 DEF vars, taskVars, cliVars, queueVars, loadVars, TaskTypeOK
  <2>6. QED
    BY <2>1, <2>2, <2>3, <2>4, <2>5 DEF Next
<1>4. QED
  BY <1>1, <1>3 DEF EngineInv, TasksInv, TypeOK, TaskTypeOK

LEMMA TasksInvariant == Spec => [](EngineInv /\ TasksInv)
  BY InitTasks, TasksStep, PTL DEF Spec

\* Every variable of the firmware stays in its type.
THEOREM TypeCorrect == Spec => []TypeOK
<1>1. TasksInv => TypeOK
  BY DEF TasksInv
<1>2. QED
  BY <1>1, TasksInvariant, PTL

\* The firmware uses the engine as SamplerEngine describes its callers: every theorem
\* of the engine holds of the firmware.
THEOREM FirmwareUsesEngine == Spec => EngineSpec
<1>1. Init => EngineInit
  BY DEF Init
<1>2. QED
  BY <1>1, EngineUsed, TasksInvariant, PTL DEF Spec, EngineSpec

\* The status of the voices tells what plays as long as the tasks' calls of the engine
\* do not overlap.
THEOREM SerialFirmware == Spec => []SerialUseIsSound
  BY FirmwareUsesEngine, SerialUse, PTL
-----------------------------------------------------------------------------
(* No parameters of play_key are left behind *)

LEMMA KeyStep == TasksInv /\ NoKeyStuck /\ [Next]_vars => NoKeyStuck'
<1> SUFFICES ASSUME TasksInv, NoKeyStuck, [Next]_vars, keyQ' # NULL
             PROVE  \/ "key" \in notified'
                    \/ task'["key"] = "receive"
                    \/ cli' = "notify_key"
  BY DEF NoKeyStuck
<1>1. TaskTypeOK
  BY TypeParts DEF TasksInv
<1> USE DEF NoKeyStuck
<1>2. CASE SendKey \/ NotifyKey
  BY <1>1, <1>2 DEF SendKey, NotifyKey, CliGoto, Notify
<1>3. CASE \/ NotifyMidi \/ NotifyStop \/ SendFile \/ NotifyLoad \/ LoadAnswered
           \/ NotifyListener \/ ListenerAnswered
  BY <1>3
  DEF NotifyMidi, NotifyStop, SendFile, NotifyLoad, LoadAnswered, NotifyListener,
      ListenerAnswered, Notify, taskVars, queueVars
<1>4. CASE Input \/ CliTimeout
  \* cli = "notify_key" is neither the prompt nor a place that blocks.
  BY <1>4 DEF Input, CliInput, CliTimeout, CliReady, taskVars, queueVars
<1>5. ASSUME NEW t \in Tasks, TaskStep(t)
      PROVE  \/ "key" \in notified'
             \/ task'["key"] = "receive"
             \/ cli' = "notify_key"
  <2>1. CASE CallStep(t)
    BY <2>1 DEF CallStep, taskVars, cliVars, queueVars
  <2>2. CASE TakeToReceive(t)
    BY <1>1, <2>2 DEF TakeToReceive, Take, cliVars, queueVars, TaskTypeOK, Tasks, Callers
  <2>3. CASE KeyPlayback
    BY <2>3 DEF KeyPlayback
  <2>4. CASE StopAllPlayback \/ RunMIDICommand \/ StartListening
    BY <1>1, <2>4
    DEF StopAllPlayback, RunMIDICommand, StartListening, Take, cliVars, queueVars, TaskTypeOK,
        Tasks, Callers
  <2>5. CASE ListenerAnswers \/ ReceiveFile \/ LoadInstrument \/ LoadAnswers
    BY <1>1, <2>5
    DEF ListenerAnswers, ReceiveFile, LoadInstrument, LoadAnswers, cliVars, queueVars,
        TaskTypeOK, Tasks, Callers
  <2>6. QED
    BY <1>5, <2>1, <2>2, <2>3, <2>4, <2>5 DEF TaskStep
<1>6. ASSUME NEW t \in Tasks, TaskTimeout(t)
      PROVE  \/ "key" \in notified'
             \/ task'["key"] = "receive"
             \/ cli' = "notify_key"
  <2>1. keyQ # NULL
    BY <1>6 DEF TaskTimeout, queueVars
  <2>2. ~(t = "key" /\ task["key"] = "receive")
    BY <1>6, <2>1 DEF TaskTimeout, TaskReady
  <2>3. QED
    BY <1>1, <1>6, <2>1, <2>2 DEF TaskTimeout, cliVars, TaskTypeOK, Tasks, Callers
<1>7. CASE ListenerStop \/ (\E m \in Message : ListenerMessage(m)) \/ UNCHANGED vars
  BY <1>1, <1>7
  DEF ListenerStop, ListenerMessage, vars, taskVars, cliVars, queueVars, TaskTypeOK, Tasks, Callers
<1>8. QED
  BY <1>2, <1>3, <1>4, <1>5, <1>6, <1>7 DEF Next, CliStep

\* Whenever parameters of play_key are in the queue, the task has been or is about to
\* be woken for them, whatever times out in between.
THEOREM KeyNotStuck == Spec => []NoKeyStuck
<1>1. Init => NoKeyStuck
  BY DEF Init, NoKeyStuck
<1>2. QED
  BY <1>1, KeyStep, TasksInvariant, PTL DEF Spec

-----------------------------------------------------------------------------
(* No MIDI notification is overwritten *)

LEMMA MidiStep ==
    TasksInv /\ [Next]_vars => [NotifyMidi => "midi" \notin notified /\ ~InCall("midi")]_vars
<1> SUFFICES ASSUME TasksInv, Next, NotifyMidi
             PROVE  "midi" \notin notified /\ ~InCall("midi")
  BY DEF vars
<1>1. cli = "notify_midi" /\ cli' = "prompt"
  BY DEF NotifyMidi, CliGoto
<1>2. CliStep
  BY <1>1
  DEF Next, Input, CliInput, CliTimeout, CliReady, TaskStep, TaskTimeout, CallStep,
      TakeToReceive, KeyPlayback, StopAllPlayback, RunMIDICommand, StartListening,
      ListenerAnswers, ReceiveFile, LoadInstrument, LoadAnswers, ListenerMessage, ListenerStop,
      cliVars
<1>3. ~TaskReady("midi")
  BY <1>2 DEF CliStep, MayRun, Priority, Tasks, Callers
<1>4. QED
  BY <1>3 DEF TaskReady, TasksInv

\* When the command line notifies the MIDI task, the message before has been taken and
\* played: the priorities see to it.
THEOREM MidiIsTaken == Spec => NoMidiLost
<1>1. TasksInv /\ [Next]_vars => [NotifyMidi => "midi" \notin notified /\ ~InCall("midi")]_vars
  BY MidiStep
<1>2. QED
  BY <1>1, TasksInvariant, PTL DEF Spec, NoMidiLost
-----------------------------------------------------------------------------
(* The answer is that of the load *)

\* The command line's side of a load command.
LEMMA CliLoadStep ==
    ASSUME TasksInv, LoadInv, Input \/ CliStep \/ CliTimeout
    PROVE  LoadInv'
<1> USE DEF LoadInv, LoadPlaces
<1>1. lastLoad \in Nat
  BY TasksAssumption DEF TasksInv, TypeOK, Loads, TasksAssumption
<1>2. ASSUME NEW c \in {"play_key", "midi", "stop_all", "load_instrument", "listen"}, NEW arg,
             CliInput(c, arg)
      PROVE  LoadInv'
  <2>1. cli = "prompt" /\ late' = late /\ (~late => NoLoad /\ NoLoad')
    BY <1>2 DEF CliInput, NoLoad, taskVars, queueVars
  <2>2. CASE c = "load_instrument"
    BY <1>1, <1>2, <2>1, <2>2 DEF CliInput, FirstPlace
  <2>3. CASE c # "load_instrument"
    BY <1>2, <2>1, <2>3 DEF CliInput, FirstPlace
  <2>4. QED
    BY <2>2, <2>3
<1>3. CASE Input
  BY <1>2, <1>3 DEF Input
<1>4. CASE CliTimeout
  BY <1>4 DEF CliTimeout, CliReady, AfterTimeout, CliGoto, NoLoad, taskVars, queueVars
<1>5. CASE SendFile
  BY <1>5 DEF SendFile, CliGoto, NoLoad, FileSent, taskVars, loadVars
<1>6. CASE NotifyLoad
  BY <1>6 DEF NotifyLoad, CliGoto, Notify, FileSent, queueVars, loadVars
<1>7. CASE LoadAnswered
  BY <1>7 DEF LoadAnswered, CliGoto, NoLoad, FileSent, FileTaken, Answered, taskVars, loadVars
<1>8. CASE SendKey \/ NotifyKey \/ NotifyMidi \/ NotifyStop \/ NotifyListener \/ ListenerAnswered
  BY <1>8
  DEF SendKey, NotifyKey, NotifyMidi, NotifyStop, NotifyListener, ListenerAnswered, CliGoto,
      Notify, NoLoad, taskVars, queueVars, loadVars
<1>9. QED
  BY <1>3, <1>4, <1>5, <1>6, <1>7, <1>8 DEF CliStep

\* What leaves the load task and its queues alone leaves the stage of the load.
LEMMA StageUnchanged ==
    ASSUME LoadInv, UNCHANGED <<cli, fileQ, loadReturnQ, loadVars, task["load"]>>,
           "load" \in notified <=> "load" \in notified'
    PROVE  LoadInv'
  BY DEF LoadInv, NoLoad, FileSent, FileTaken, Answered, loadVars

\* The tasks' side.
LEMMA TaskLoadStep ==
    ASSUME TasksInv, LoadInv, NEW t \in Tasks, TaskStep(t) \/ TaskTimeout(t)
    PROVE  LoadInv'
<1> USE DEF Tasks, Callers
<1>1. TaskTypeOK
  BY TypeParts DEF TasksInv
<1>2. CASE CallStep(t)
  BY <1>2, StageUnchanged DEF CallStep, taskVars, cliVars, queueVars
<1>3. CASE KeyPlayback \/ StopAllPlayback \/ RunMIDICommand \/ StartListening \/ ListenerAnswers
  BY <1>1, <1>3, StageUnchanged
  DEF KeyPlayback, StopAllPlayback, RunMIDICommand, StartListening, ListenerAnswers, Take,
      cliVars, queueVars, TaskTypeOK
<1>4. CASE TakeToReceive(t) /\ t # "load"
  BY <1>1, <1>4, StageUnchanged DEF TakeToReceive, Take, cliVars, queueVars, TaskTypeOK
<1>5. CASE TakeToReceive(t) /\ t = "load"
  BY <1>1, <1>5
  DEF TakeToReceive, Take, cliVars, queueVars, loadVars, TaskTypeOK, LoadInv, NoLoad, FileSent,
      FileTaken, Answered
<1>6. CASE ReceiveFile
  BY <1>1, <1>6
  DEF ReceiveFile, cliVars, TaskTypeOK, LoadInv, NoLoad, FileSent, FileTaken, Answered
<1>7. CASE LoadInstrument
  BY <1>1, <1>7
  DEF LoadInstrument, cliVars, queueVars, TaskTypeOK, LoadInv, NoLoad, FileSent, FileTaken,
      Answered
<1>8. CASE LoadAnswers
  BY <1>1, <1>8
  DEF LoadAnswers, cliVars, loadVars, TaskTypeOK, LoadInv, NoLoad, FileSent, FileTaken, Answered
<1>9. CASE TaskTimeout(t) /\ t # "load"
  BY <1>1, <1>9, StageUnchanged DEF TaskTimeout, cliVars, queueVars, TaskTypeOK
<1>10. CASE TaskTimeout(t) /\ t = "load"
  \* A file has been sent when the task receives, and the answer has been taken.
  BY <1>1, <1>10
  DEF TaskTimeout, TaskReady, cliVars, queueVars, loadVars, TaskTypeOK, LoadInv, LoadPlaces,
      NoLoad, FileSent, FileTaken, Answered
<1>11. QED
  BY <1>2, <1>3, <1>4, <1>5, <1>6, <1>7, <1>8, <1>9, <1>10 DEF TaskStep

LEMMA LoadStep == TasksInv /\ LoadInv /\ [Next]_vars => LoadInv'
<1> SUFFICES ASSUME TasksInv, LoadInv, [Next]_vars PROVE LoadInv'
  OBVIOUS
<1>1. CASE ListenerStop \/ (\E m \in Message : ListenerMessage(m)) \/ UNCHANGED vars
  BY <1>1, StageUnchanged, TypeParts
  DEF ListenerStop, ListenerMessage, vars, taskVars, cliVars, queueVars, TasksInv, TaskTypeOK,
      Tasks, Callers
<1>2. QED
  BY <1>1, CliLoadStep, TaskLoadStep DEF Next

\* While no load command has timed out, the answer in the queue is the answer to the
\* load the command line waits for, and its result is in place.
THEOREM AnswersAreForLoads == Spec => []AnswerMeansLoaded
<1>1. Init => LoadInv
  BY DEF Init, LoadInv, LoadPlaces, NoLoad, Tasks, Callers
<1>2. TasksInv /\ LoadInv => AnswerMeansLoaded
  BY DEF LoadInv, NoLoad, FileSent, FileTaken, Answered, AnswerMeansLoaded
<1>3. QED
  BY <1>1, <1>2, LoadStep, TasksInvariant, PTL DEF Spec
=============================================================================
