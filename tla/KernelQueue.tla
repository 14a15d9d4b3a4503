------------------------------ MODULE KernelQueue ------------------------------
(***************************************************************************)
(* A FreeRTOS queue (queue.c) with the part of the scheduler it works with *)
(* (tasks.c): tasks of several priorities that send and receive, blocking  *)
(* with or without a timeout, an interrupt that sends, and the tick.  One  *)
(* action is one critical section, or one access outside of them; both     *)
(* interrupts may come between any two.  All queues and semaphores of the  *)
(* firmware are of this kind.                                              *)
(***************************************************************************)
EXTENDS Integers, Sequences, FiniteSets

CONSTANTS Tasks,     \* tasks that use the queue
          Idle,      \* the idle task, which is always ready
          Priority,  \* of each task
          Requests,  \* of each task, the calls it makes
          Items,
          uxLength,  \* items the queue has room for
          MaxPosts,  \* bound on the items sent by the interrupt
          NoCall

Everyone == Tasks \cup {Idle}
Calls == [op : {"send", "receive"}, item : Items, wait : {"none", "ticks", "forever"}]

ASSUME QueueAssumption ==
  /\ uxLength \in Nat \ {0} /\ MaxPosts \in Nat /\ Idle \notin Tasks /\ Items # {}
  /\ IsFiniteSet(Tasks)
  /\ Priority \in [Everyone -> Nat] /\ \A t \in Tasks : Priority[t] > Priority[Idle]
  /\ Requests \in [Tasks -> SUBSET Calls] /\ NoCall \notin Calls

VARIABLES pucQueue, uxMessagesWaiting, pcWriteTo, pcReadFrom,  \* the ring of items
          xTasksWaitingToReceive, xTasksWaitingToSend,         \* event lists
          cTxLock,                                             \* posts while locked, or -1
          ready, xPendingReadyList,                            \* lists of the scheduler
          pxCurrentTCB, uxSchedulerSuspended, xYieldPending,
          at,        \* where in the call each task is
          call,      \* arguments of the call
          clock,     \* of a call: whether its time is over, and whether it has seen that
          verdict,   \* what the task that locks the queue is going to do
          got,       \* item received last
          posts      \* items the interrupt may still send

ringVars == <<pucQueue, uxMessagesWaiting, pcWriteTo, pcReadFrom>>
eventVars == <<xTasksWaitingToReceive, xTasksWaitingToSend>>
readyVars == <<ready, xPendingReadyList>>
cpuVars == <<pxCurrentTCB, xYieldPending>>
callVars == <<at, call, clock, verdict, got>>
vars == <<ringVars, eventVars, cTxLock, readyVars, cpuVars, uxSchedulerSuspended,
          callVars, posts>>

queueUNLOCKED == -1
queueLOCKED_UNMODIFIED == 0

Init == /\ pucQueue \in [0 .. uxLength - 1 -> Items] /\ uxMessagesWaiting = 0
        /\ pcWriteTo = 0 /\ pcReadFrom = uxLength - 1
        /\ xTasksWaitingToReceive = <<>> /\ xTasksWaitingToSend = <<>>
        /\ cTxLock = queueUNLOCKED
        /\ ready = Everyone /\ xPendingReadyList = {}
        /\ pxCurrentTCB \in {t \in Everyone : \A u \in Everyone : Priority[u] <= Priority[t]}
        /\ xYieldPending = FALSE /\ uxSchedulerSuspended = 0
        /\ at = [t \in Tasks |-> "out"] /\ call = [t \in Tasks |-> NoCall]
        /\ clock = [t \in Tasks |-> "running"] /\ verdict = "none"
        /\ got = [t \in Tasks |-> CHOOSE v \in Items : TRUE]
        /\ posts = MaxPosts
-----------------------------------------------------------------------------
(* Scheduler *)

\* vTaskSwitchContext, after the ready list has changed: any of the ready tasks of
\* the highest priority, as they take turns.
vTaskSwitchContext ==
  IF uxSchedulerSuspended' # 0
    THEN xYieldPending' = TRUE /\ UNCHANGED pxCurrentTCB
    ELSE /\ xYieldPending' = FALSE
         /\ pxCurrentTCB' \in {t \in ready' : \A u \in ready' : Priority[u] <= Priority[t]}

\* A yield, if there is reason for one.
YieldIf(reason) == IF reason THEN vTaskSwitchContext ELSE UNCHANGED cpuVars

Wakes(t) == IF uxSchedulerSuspended = 0
              THEN ready' = ready \cup {t} /\ UNCHANGED xPendingReadyList
              ELSE xPendingReadyList' = xPendingReadyList \cup {t} /\ UNCHANGED ready

\* Mutant: a woken task of higher priority does not ask for a switch.
OutranksMut(t) == FALSE
Outranks(t) == Priority[t] > Priority[pxCurrentTCB]

\* xTaskRemoveFromEventList, and the yield of its caller; what becomes of the list
\* is the caller's to say.
WakesHead(list) == IF list = <<>>
                     THEN UNCHANGED <<readyVars, cpuVars>>
                     ELSE Wakes(Head(list)) /\ YieldIf(Outranks(Head(list)))

Rest(list) == IF list = <<>> THEN <<>> ELSE Tail(list)

\* vListInsert: in order of priority, behind those of the same.
\* Mutant: behind all others.
InsertedMut(list, t) == Append(list, t)
Inserted(list, t) ==
  LET Stays(i) == i <= Len(list) /\ Priority[list[i]] >= Priority[t]
  IN [i \in 1 .. Len(list) + 1 |-> IF Stays(i) THEN list[i]
                                   ELSE IF i = 1 \/ Stays(i - 1) THEN t ELSE list[i - 1]]

Without(list, t) ==
  IF \E i \in DOMAIN list : list[i] = t
    THEN LET k == CHOOSE i \in DOMAIN list : list[i] = t
         IN SubSeq(list, 1, k - 1) \o SubSeq(list, k + 1, Len(list))
    ELSE list
-----------------------------------------------------------------------------
(* The ring *)

Successor(n) == (n + 1) % uxLength

\* Mutant: the queue takes one item more than it has room for.
IsFullMut == uxMessagesWaiting > uxLength
IsFull == uxMessagesWaiting = uxLength
IsEmpty == uxMessagesWaiting = 0

\* prvCopyDataToQueue, at the back.
CopyTo(v) == /\ pucQueue' = [pucQueue EXCEPT ![pcWriteTo] = v]
             /\ pcWriteTo' = Successor(pcWriteTo)
             /\ uxMessagesWaiting' = uxMessagesWaiting + 1
             /\ UNCHANGED pcReadFrom

\* prvCopyDataFromQueue: the read place is moved before it is read.
\* Mutant: it is read before it is moved.
ReadPlaceMut == pcReadFrom
ReadPlace == Successor(pcReadFrom)

CopyFrom(t) == /\ got' = [got EXCEPT ![t] = pucQueue[ReadPlace]]
               /\ pcReadFrom' = Successor(pcReadFrom)
               /\ uxMessagesWaiting' = uxMessagesWaiting - 1
               /\ UNCHANGED <<pucQueue, pcWriteTo>>
-----------------------------------------------------------------------------
(* Tasks *)

Runs(t, place) == pxCurrentTCB = t /\ at[t] = place
Goto(t, place) == at' = [at EXCEPT ![t] = place]
Returns(t) == Goto(t, "out")
Is(t, op) == call[t].op = op

Begin(t) == /\ Runs(t, "out")
            /\ \E c \in Requests[t] : call' = [call EXCEPT ![t] = c]
            /\ clock' = [clock EXCEPT ![t] = "running"]
            /\ Goto(t, "try")
            /\ UNCHANGED <<ringVars, eventVars, cTxLock, readyVars, cpuVars,
                           uxSchedulerSuspended, verdict, got, posts>>

\* The first critical section of xQueueGenericSend, with room in the queue ...
Send(t) == /\ Runs(t, "try") /\ Is(t, "send")
           /\ ~IsFull
           /\ CopyTo(call[t].item)
           /\ UNCHANGED <<xTasksWaitingToSend, cTxLock, uxSchedulerSuspended, call,
                          clock, verdict, got, posts>>
           /\ WakesHead(xTasksWaitingToReceive)
           /\ xTasksWaitingToReceive' = Rest(xTasksWaitingToReceive)
           /\ Returns(t)

\* ... and that of xQueueReceive, with an item in it.
Receive(t) == /\ Runs(t, "try") /\ Is(t, "receive")
              /\ ~IsEmpty
              /\ CopyFrom(t)
              /\ UNCHANGED <<xTasksWaitingToReceive, cTxLock, uxSchedulerSuspended,
                             call, clock, verdict, posts>>
              /\ WakesHead(xTasksWaitingToSend)
              /\ xTasksWaitingToSend' = Rest(xTasksWaitingToSend)
              /\ Returns(t)

NothingFor(t) == IF Is(t, "send") THEN IsFull ELSE IsEmpty

LocalStep == UNCHANGED <<ringVars, eventVars, cTxLock, readyVars, cpuVars,
                         uxSchedulerSuspended, call, clock, verdict, got, posts>>

MustNotWait(t) == call[t].wait = "none" \/ clock[t] = "seen"

Fail(t) == /\ Runs(t, "try") /\ NothingFor(t)
           /\ MustNotWait(t)
           /\ Returns(t)
           /\ LocalStep

WillWait(t) == /\ Runs(t, "try") /\ NothingFor(t)
               /\ ~MustNotWait(t)
               /\ Goto(t, "suspend")
               /\ LocalStep

vTaskSuspendAll(t) ==
  /\ Runs(t, "suspend")
  /\ uxSchedulerSuspended' = uxSchedulerSuspended + 1
  /\ Goto(t, "lock")
  /\ UNCHANGED <<ringVars, eventVars, cTxLock, readyVars, cpuVars, call, clock,
                 verdict, got, posts>>

\* Mutant: the queue is not locked.
LockedMut(lock) == lock
Locked(lock) == IF lock = queueUNLOCKED THEN queueLOCKED_UNMODIFIED ELSE lock

prvLockQueue(t) == /\ Runs(t, "lock")
                   /\ cTxLock' = Locked(cTxLock)
                   /\ Goto(t, "check")
                   /\ UNCHANGED <<ringVars, eventVars, readyVars, cpuVars,
                                  uxSchedulerSuspended, call, clock, verdict, got, posts>>

\* xTaskCheckForTimeOut
CheckForTimeOut(t) ==
  /\ Runs(t, "check")
  /\ IF clock[t] = "over"
       THEN clock' = [clock EXCEPT ![t] = "seen"] /\ verdict' = "failed" /\ Goto(t, "unlock")
       ELSE Goto(t, "test") /\ UNCHANGED <<clock, verdict>>
  /\ UNCHANGED <<ringVars, eventVars, cTxLock, readyVars, cpuVars,
                 uxSchedulerSuspended, call, got, posts>>

\* prvIsQueueFull, prvIsQueueEmpty
TestAgain(t) ==
  /\ Runs(t, "test")
  /\ verdict' = IF NothingFor(t) THEN "block" ELSE "again"
  /\ Goto(t, IF NothingFor(t) THEN "place" ELSE "unlock")
  /\ UNCHANGED <<ringVars, eventVars, cTxLock, readyVars, cpuVars,
                 uxSchedulerSuspended, call, clock, got, posts>>

vTaskPlaceOnEventList(t) ==
  /\ Runs(t, "place")
  /\ IF Is(t, "send")
       THEN /\ xTasksWaitingToSend' = Inserted(xTasksWaitingToSend, t)
            /\ UNCHANGED xTasksWaitingToReceive
       ELSE /\ xTasksWaitingToReceive' = Inserted(xTasksWaitingToReceive, t)
            /\ UNCHANGED xTasksWaitingToSend
  /\ ready' = ready \ {t}
  /\ Goto(t, "unlock")
  /\ UNCHANGED <<ringVars, cTxLock, xPendingReadyList, cpuVars, uxSchedulerSuspended,
                 call, clock, verdict, got, posts>>

\* The number of tasks that prvUnlockQueue wakes for what the interrupt has sent.
\* Mutant: it wakes one, however much was sent.
WokenMut == IF cTxLock > 0 /\ xTasksWaitingToReceive # <<>> THEN 1 ELSE 0
Woken == Cardinality({i \in DOMAIN xTasksWaitingToReceive : i <= cTxLock})

\* prvUnlockQueue.  The receive lock is never counted up, as no interrupt receives.
prvUnlockQueue(t) ==
  LET woken == {xTasksWaitingToReceive[i] : i \in 1 .. Woken}
  IN /\ Runs(t, "unlock")
     /\ xTasksWaitingToReceive' = SubSeq(xTasksWaitingToReceive, Woken + 1,
                                         Len(xTasksWaitingToReceive))
     /\ xPendingReadyList' = xPendingReadyList \cup woken
     /\ xYieldPending' = (xYieldPending \/ \E u \in woken : Outranks(u))
     /\ cTxLock' = queueUNLOCKED
     /\ Goto(t, "resume")
     /\ UNCHANGED <<ringVars, xTasksWaitingToSend, ready, pxCurrentTCB,
                    uxSchedulerSuspended, call, clock, verdict, got, posts>>

\* xTaskResumeAll answers whether it has yielded; a task that waits yields if not.
AfterResume(t, yielded) ==
  CASE verdict = "block" -> IF yielded THEN "try" ELSE "yield"
    [] verdict = "again" -> "try"
    [] verdict = "failed" -> IF Is(t, "send") THEN "out" ELSE "recheck"

xTaskResumeAll(t) ==
  LET yields == \/ xYieldPending
                \/ \E u \in xPendingReadyList : Priority[u] >= Priority[t]
  IN /\ Runs(t, "resume")
     /\ uxSchedulerSuspended' = uxSchedulerSuspended - 1
     /\ ready' = ready \cup xPendingReadyList /\ xPendingReadyList' = {}
     /\ YieldIf(yields)
     /\ Goto(t, AfterResume(t, yields))
     /\ verdict' = "none"
     /\ UNCHANGED <<ringVars, eventVars, cTxLock, call, clock, got, posts>>

Yield(t) == /\ Runs(t, "yield")
            /\ UNCHANGED <<ringVars, eventVars, cTxLock, readyVars,
                           uxSchedulerSuspended, call, clock, verdict, got, posts>>
            /\ vTaskSwitchContext
            /\ Goto(t, "try")

\* A receiver whose time is over leaves only if there is still nothing.
Recheck(t) == /\ Runs(t, "recheck")
              /\ Goto(t, IF IsEmpty THEN "out" ELSE "try")
              /\ LocalStep

Step(t) == \/ Begin(t) \/ Send(t) \/ Receive(t) \/ Fail(t) \/ WillWait(t)
           \/ vTaskSuspendAll(t) \/ prvLockQueue(t) \/ CheckForTimeOut(t)
           \/ TestAgain(t) \/ vTaskPlaceOnEventList(t) \/ prvUnlockQueue(t)
           \/ xTaskResumeAll(t) \/ Yield(t) \/ Recheck(t)
-----------------------------------------------------------------------------
(* Interrupts *)

\* xQueueGenericSendFromISR; what does not fit is dropped.
SendFromISR(v) ==
  /\ posts > 0
  /\ posts' = posts - 1
  /\ ~IsFull
  /\ CopyTo(v)
  /\ UNCHANGED <<xTasksWaitingToSend, uxSchedulerSuspended, callVars>>
  /\ IF cTxLock = queueUNLOCKED
       THEN /\ WakesHead(xTasksWaitingToReceive)
            /\ xTasksWaitingToReceive' = Rest(xTasksWaitingToReceive)
            /\ UNCHANGED cTxLock
       ELSE /\ cTxLock' = cTxLock + 1
            /\ UNCHANGED <<xTasksWaitingToReceive, readyVars, cpuVars>>

\* xTaskIncrementTick.  Ticks that come while the scheduler is suspended are
\* counted, and worked off by xTaskResumeAll.
TimeIsOver(t) ==
  /\ uxSchedulerSuspended = 0
  /\ at[t] # "out" /\ call[t].wait = "ticks" /\ clock[t] = "running"
  /\ clock' = [clock EXCEPT ![t] = "over"]
  /\ ready' = ready \cup {t}
  /\ xTasksWaitingToReceive' = Without(xTasksWaitingToReceive, t)
  /\ xTasksWaitingToSend' = Without(xTasksWaitingToSend, t)
  /\ UNCHANGED <<ringVars, cTxLock, xPendingReadyList, uxSchedulerSuspended, at, call,
                 verdict, got, posts>>
  /\ YieldIf(t \notin ready /\ Priority[t] >= Priority[pxCurrentTCB])

TimeSlice ==
  /\ uxSchedulerSuspended = 0
  /\ UNCHANGED <<ringVars, eventVars, cTxLock, readyVars, uxSchedulerSuspended,
                 callVars, posts>>
  /\ YieldIf(Cardinality({t \in ready : Priority[t] = Priority[pxCurrentTCB]}) > 1)

Next == \/ \E t \in Tasks : Step(t) \/ TimeIsOver(t)
        \/ \E v \in Items : SendFromISR(v)
        \/ TimeSlice

Spec == Init /\ [][Next]_vars

\* The task that has the processor executes and time goes on.
FairSpec == Spec /\ WF_vars(\E t \in Tasks : Step(t)) /\ WF_vars(\E t \in Tasks : TimeIsOver(t))
-----------------------------------------------------------------------------
(* Properties *)

Waiters == {xTasksWaitingToReceive[i] : i \in DOMAIN xTasksWaitingToReceive}
           \cup {xTasksWaitingToSend[i] : i \in DOMAIN xTasksWaitingToSend}

Places == {"out", "try", "suspend", "lock", "check", "test", "place", "unlock",
           "resume", "yield", "recheck"}

TypeOK ==
  /\ pucQueue \in [0 .. uxLength - 1 -> Items] /\ uxMessagesWaiting \in 0 .. uxLength
  /\ pcWriteTo \in 0 .. uxLength - 1 /\ pcReadFrom \in 0 .. uxLength - 1
  /\ xTasksWaitingToReceive \in Seq(Tasks) /\ xTasksWaitingToSend \in Seq(Tasks)
  /\ cTxLock \in -1 .. uxLength
  /\ ready \subseteq Everyone /\ Idle \in ready /\ xPendingReadyList \subseteq Tasks
  /\ pxCurrentTCB \in Everyone
  /\ xYieldPending \in BOOLEAN /\ uxSchedulerSuspended \in {0, 1}
  /\ at \in [Tasks -> Places]
  /\ DOMAIN call = Tasks /\ \A t \in Tasks : call[t] \in Requests[t] \cup {NoCall}
  /\ clock \in [Tasks -> {"running", "over", "seen"}]
  /\ verdict \in {"none", "block", "again", "failed"}
  /\ got \in [Tasks -> Items] /\ posts \in 0 .. MaxPosts

\* Unless the scheduler is suspended, no ready task outranks the running one, and
\* no switch that was asked for is still outstanding: every wake-up that calls for
\* a switch gets it, at once or when the scheduler is resumed.
HighestRuns ==
  uxSchedulerSuspended = 0 =>
    /\ ~xYieldPending /\ xPendingReadyList = {}
    /\ \A u \in ready : Priority[u] <= Priority[pxCurrentTCB]
    /\ pxCurrentTCB \in ready \/ at[pxCurrentTCB] = "yield"

\* A task that will look at the queue again before it waits.
Tries(t) == \/ at[t] \in {"try", "yield"}
            \/ at[t] \in {"unlock", "resume"} /\ verdict \in {"block", "again"}
Awake(op) == {t \in Tasks \ Waiters :
                t \in ready \cup xPendingReadyList /\ Tries(t) /\ call[t].op = op}

\* No wake-up is lost: while tasks wait to receive, there are as many others awake
\* that will try again as there are items in the queue, those counted that the
\* unlocking of the queue will wake; and as many senders as there are free places.
NoLostWakeup ==
  /\ xTasksWaitingToReceive # <<>> =>
       uxMessagesWaiting <= Cardinality(Awake("receive"))
                            + (IF cTxLock > 0 THEN cTxLock ELSE 0)
  /\ xTasksWaitingToSend # <<>> =>
       uxLength - uxMessagesWaiting <= Cardinality(Awake("send"))

\* The task of the highest priority is woken first.
Sorted(list) == \A i, j \in DOMAIN list : i < j => Priority[list[i]] >= Priority[list[j]]
WaitersSorted == Sorted(xTasksWaitingToReceive) /\ Sorted(xTasksWaitingToSend)

\* A call of the task of the highest priority ends once there is something for it,
\* and in any case when its time is over.
Top == {t \in Tasks : \A u \in Tasks \ {t} : Priority[u] < Priority[t]}
TopTaskReturns ==
  \A t \in Top :
    at[t] # "out" /\ (~NothingFor(t) \/ call[t].wait # "forever") ~> at[t] = "out"

\* The queue is the bounded FIFO of BoundedQueue: the items from the one behind the
\* read place on, and the calls that have not returned.
Held == [i \in 1 .. uxMessagesWaiting |-> pucQueue[(pcReadFrom + i) % uxLength]]
OpenCalls == [t \in Tasks |-> IF at[t] = "out" THEN NoCall ELSE call[t]]
Queue == INSTANCE BoundedQueue WITH Length <- uxLength, contents <- Held, call <- OpenCalls
ImplementsQueue == Queue!QueueSpec
=============================================================================
