-------------------------- MODULE KernelQueueProofs --------------------------
(***************************************************************************)
(* Theorems about KernelQueue, for every set of tasks, assignment of       *)
(* priorities and calls, and every length of the queue.                    *)
(***************************************************************************)
EXTENDS KernelQueue, SequenceTheorems, FiniteSetTheorems, TLAPS

-----------------------------------------------------------------------------
(* Event lists *)

LEMMA SeqOfFunction ==
  ASSUME NEW S, NEW n \in Nat, NEW f \in [1 .. n -> S]
  PROVE  f \in Seq(S) /\ Len(f) = n
BY SeqDef

LEMMA PriorityIsNat == \A t \in Everyone : Priority[t] \in Nat
BY QueueAssumption

LEMMA RestFacts ==
  ASSUME NEW list \in Seq(Tasks)
  PROVE  /\ Rest(list) \in Seq(Tasks)
         /\ list # <<>> => Head(list) \in Tasks
         /\ Sorted(list) => Sorted(Rest(list))
<1>1. CASE list = <<>>
  BY <1>1 DEF Rest
<1>2. CASE list # <<>>
  <2>1. /\ Rest(list) \in Seq(Tasks) /\ Head(list) \in Tasks
        /\ Len(Rest(list)) = Len(list) - 1 /\ Len(list) \in Nat
        /\ \A i \in 1 .. Len(Rest(list)) : Rest(list)[i] = list[i + 1]
    BY <1>2, HeadTailProperties, LenProperties DEF Rest
  <2>2. ASSUME Sorted(list)
        PROVE  Sorted(Rest(list))
    <3>1. DOMAIN list = 1 .. Len(list) /\ DOMAIN Rest(list) = 1 .. Len(Rest(list))
      BY <2>1, LenProperties
    <3> HIDE DEF Rest
    <3>2. SUFFICES ASSUME NEW i \in 1 .. Len(Rest(list)), NEW j \in 1 .. Len(Rest(list)), i < j
                   PROVE  Priority[Rest(list)[i]] >= Priority[Rest(list)[j]]
      BY <3>1 DEF Sorted
    <3>3. i + 1 \in 1 .. Len(list) /\ j + 1 \in 1 .. Len(list) /\ i + 1 < j + 1
      BY <2>1, <3>2
    <3>4. Priority[list[i + 1]] >= Priority[list[j + 1]]
      BY <2>2, <3>1, <3>3 DEF Sorted
    <3> QED BY <2>1, <3>2, <3>4
  <2> QED BY <2>1, <2>2
<1> QED BY <1>1, <1>2

LEMMA InsertedFacts ==
  ASSUME NEW list \in Seq(Tasks), NEW t \in Tasks
  PROVE  /\ Inserted(list, t) \in Seq(Tasks)
         /\ Sorted(list) => Sorted(Inserted(list, t))
<1> DEFINE n == Len(list)
           Stays(i) == i <= n /\ Priority[list[i]] >= Priority[t]
           new == [i \in 1 .. n + 1 |-> IF Stays(i) THEN list[i]
                                        ELSE IF i = 1 \/ Stays(i - 1) THEN t ELSE list[i - 1]]
<1>1. Inserted(list, t) = new
  BY DEF Inserted
<1>2. n \in Nat /\ DOMAIN list = 1 .. n /\ \A i \in 1 .. n : list[i] \in Tasks
  BY LenProperties, ElementOfSeq
<1> HIDE DEF n
<1>3. new \in [1 .. n + 1 -> Tasks]
  <2> SUFFICES ASSUME NEW i \in 1 .. n + 1
               PROVE  (IF Stays(i) THEN list[i]
                       ELSE IF i = 1 \/ Stays(i - 1) THEN t ELSE list[i - 1]) \in Tasks
    OBVIOUS
  <2>1. CASE i <= n /\ i = 1
    BY <1>2, <2>1
  <2>2. CASE i <= n /\ i # 1
    <3>1. i \in 1 .. n /\ i - 1 \in 1 .. n
      BY <1>2, <2>2
    <3> QED BY <1>2, <3>1
  <2>3. CASE i = n + 1
    <3>1. i = 1 \/ i - 1 \in 1 .. n
      BY <1>2, <2>3
    <3> QED BY <1>2, <2>3, <3>1
  <2> QED BY <1>2, <2>1, <2>2, <2>3
<1>4. new \in Seq(Tasks) /\ DOMAIN new = 1 .. n + 1
  BY <1>2, <1>3, SeqOfFunction
<1>5. ASSUME Sorted(list)
      PROVE  Sorted(new)
  <2>1. SUFFICES ASSUME NEW i \in 1 .. n + 1, NEW j \in 1 .. n + 1, i < j
                 PROVE  Priority[new[i]] >= Priority[new[j]]
    BY <1>4 DEF Sorted
  <2>2. \A k, l \in 1 .. n : k <= l => Priority[list[k]] >= Priority[list[l]]
    BY <1>2, <1>5, PriorityIsNat DEF Sorted, Everyone
  <2>3. \A k \in 1 .. n : Priority[list[k]] \in Nat
    BY <1>2, PriorityIsNat DEF Everyone
  <2>4. Priority[t] \in Nat
    BY PriorityIsNat DEF Everyone
  <2>5. CASE Stays(j)
    <3>1. j \in 1 .. n /\ i \in 1 .. n
      BY <1>2, <2>1, <2>5
    <3>2. Stays(i)
      BY <2>1, <2>2, <2>3, <2>4, <2>5, <3>1
    <3> QED BY <2>1, <2>2, <2>5, <3>1, <3>2
  <2>6. CASE ~Stays(j)
    <3>1. j # 1 /\ j - 1 \in 1 .. n /\ i \in 1 .. n /\ i <= j - 1
      BY <1>2, <2>1
    <3>2. CASE Stays(j - 1)
      <4>1. new[j] = t
        BY <2>6, <3>2
      <4>2. Stays(i)
        BY <2>2, <2>3, <2>4, <3>1, <3>2
      <4> QED BY <4>1, <4>2
    <3>3. CASE ~Stays(j - 1)
      <4>1. new[j] = list[j - 1] /\ Priority[t] > Priority[list[j - 1]]
        BY <2>3, <2>4, <2>6, <3>1, <3>3
      <4>2. CASE Stays(i)
        BY <2>2, <3>1, <4>1, <4>2
      <4>3. CASE ~Stays(i) /\ (i = 1 \/ Stays(i - 1))
        <5>1. new[i] = t
          BY <4>3
        <5>2. Priority[list[j - 1]] \in Nat
          BY <2>3, <3>1
        <5>3. Priority[t] >= Priority[list[j - 1]]
          BY <2>4, <4>1, <5>2
        <5> QED BY <4>1, <5>1, <5>3
      <4>4. CASE ~Stays(i) /\ ~(i = 1 \/ Stays(i - 1))
        <5>1. i - 1 \in 1 .. n /\ i - 1 <= j - 1
          BY <1>2, <2>1, <3>1, <4>4
        <5>2. new[i] = list[i - 1]
          BY <4>4
        <5> QED BY <2>2, <3>1, <4>1, <5>1, <5>2
      <4> QED BY <4>2, <4>3, <4>4
    <3> QED BY <3>2, <3>3
  <2> QED BY <2>5, <2>6
<1> QED BY <1>1, <1>4, <1>5

LEMMA PartFacts ==
  ASSUME NEW list \in Seq(Tasks), NEW m \in 1 .. Len(list) + 1, NEW n \in 0 .. Len(list)
  PROVE  /\ SubSeq(list, m, n) \in Seq(Tasks)
         /\ Len(SubSeq(list, m, n)) = IF m <= n THEN n - m + 1 ELSE 0
         /\ \A i \in 1 .. Len(SubSeq(list, m, n)) : SubSeq(list, m, n)[i] = list[m + i - 1]
         /\ Sorted(list) => Sorted(SubSeq(list, m, n))
<1>1. Len(list) \in Nat /\ DOMAIN list = 1 .. Len(list)
  BY LenProperties
<1>2. \A i \in m .. n : list[i] \in Tasks
  BY <1>1, ElementOfSeq
<1> DEFINE part == SubSeq(list, m, n)
<1>3. /\ part \in Seq(Tasks) /\ Len(part) = IF m <= n THEN n - m + 1 ELSE 0
      /\ \A i \in 1 .. n - m + 1 : part[i] = list[m + i - 1]
  BY <1>1, <1>2, SubSeqProperties
<1> HIDE DEF part
<1>4. DOMAIN part = 1 .. Len(part) /\ Len(part) \in Nat
  BY <1>3, LenProperties
<1>5. \A i \in 1 .. Len(part) : part[i] = list[m + i - 1] /\ m + i - 1 \in 1 .. Len(list)
  BY <1>1, <1>3, <1>4
<1>6. Sorted(list) => Sorted(part)
  <2> SUFFICES ASSUME Sorted(list), NEW i \in 1 .. Len(part), NEW j \in 1 .. Len(part), i < j
               PROVE  Priority[part[i]] >= Priority[part[j]]
    BY <1>4 DEF Sorted
  <2>1. m + i - 1 < m + j - 1
    BY <1>4
  <2> QED BY <1>1, <1>5, <2>1 DEF Sorted
<1> QED BY <1>3, <1>5, <1>6 DEF part

\* A list without its k-th element.
LEMMA CutOut ==
  ASSUME NEW list \in Seq(Tasks), NEW k \in 1 .. Len(list)
  PROVE  LET cut == SubSeq(list, 1, k - 1) \o SubSeq(list, k + 1, Len(list))
         IN /\ cut \in Seq(Tasks) /\ DOMAIN cut = 1 .. Len(list) - 1
            /\ \A i \in 1 .. Len(list) - 1 : cut[i] = list[IF i <= k - 1 THEN i ELSE i + 1]
<1> DEFINE a == SubSeq(list, 1, k - 1)
           b == SubSeq(list, k + 1, Len(list))
<1>1. Len(list) \in Nat /\ DOMAIN list = 1 .. Len(list) /\ k \in 1 .. Len(list)
  BY LenProperties
<1>2. /\ a \in Seq(Tasks) /\ b \in Seq(Tasks)
      /\ Len(a) = k - 1 /\ Len(b) = Len(list) - k
      /\ \A i \in 1 .. Len(a) : a[i] = list[i]
      /\ \A i \in 1 .. Len(b) : b[i] = list[k + i]
  <2>1. /\ 1 \in 1 .. Len(list) + 1 /\ k - 1 \in 0 .. Len(list)
        /\ k + 1 \in 1 .. Len(list) + 1 /\ Len(list) \in 0 .. Len(list)
    BY <1>1
  <2>2. /\ a \in Seq(Tasks) /\ Len(a) = IF 1 <= k - 1 THEN k - 1 - 1 + 1 ELSE 0
        /\ \A i \in 1 .. Len(a) : a[i] = list[1 + i - 1]
    BY <2>1, PartFacts
  <2>3. /\ b \in Seq(Tasks)
        /\ Len(b) = IF k + 1 <= Len(list) THEN Len(list) - (k + 1) + 1 ELSE 0
        /\ \A i \in 1 .. Len(b) : b[i] = list[(k + 1) + i - 1]
    BY <2>1, PartFacts
  <2> HIDE DEF a, b
  <2>4. Len(a) = k - 1 /\ Len(b) = Len(list) - k
    <3> DEFINE n == Len(list)
    <3>1. n \in Nat /\ k \in 1 .. n
      BY <1>1
    <3>2. Len(a) = IF 1 <= k - 1 THEN k - 1 - 1 + 1 ELSE 0
      BY <2>2
    <3>3. Len(b) = IF k + 1 <= n THEN n - (k + 1) + 1 ELSE 0
      BY <2>3
    <3> HIDE DEF n
    <3>4. Len(a) = k - 1 /\ Len(b) = n - k
      BY <3>1, <3>2, <3>3
    <3> QED BY <3>4 DEF n
  <2>5. \A i \in 1 .. Len(a) : 1 + i - 1 = i
    BY <1>1, <2>4
  <2>6. \A i \in 1 .. Len(b) : (k + 1) + i - 1 = k + i
    BY <1>1, <2>4
  <2>7. \A i \in 1 .. Len(a) : a[i] = list[i]
    <3> TAKE i \in 1 .. Len(a)
    <3>1. 1 + i - 1 = i
      BY <2>5
    <3> QED BY <2>2, <3>1
  <2>8. \A i \in 1 .. Len(b) : b[i] = list[k + i]
    <3> TAKE i \in 1 .. Len(b)
    <3>1. (k + 1) + i - 1 = k + i
      BY <2>6
    <3> QED BY <2>3, <3>1
  <2> QED BY <2>2, <2>3, <2>4, <2>7, <2>8
<1> HIDE DEF a, b
<1>3. /\ a \o b \in Seq(Tasks) /\ Len(a \o b) = Len(a) + Len(b)
      /\ \A i \in 1 .. Len(a) + Len(b) :
           (a \o b)[i] = IF i <= Len(a) THEN a[i] ELSE b[i - Len(a)]
  BY <1>2, ConcatProperties
<1>4. DOMAIN (a \o b) = 1 .. Len(list) - 1
  <2>1. DOMAIN (a \o b) = 1 .. Len(a \o b)
    BY <1>3, LenProperties
  <2>2. Len(a \o b) = Len(list) - 1
    BY <1>1, <1>2, <1>3
  <2> QED BY <2>1, <2>2
<1>5. ASSUME NEW i \in 1 .. Len(list) - 1
      PROVE  (a \o b)[i] = list[IF i <= k - 1 THEN i ELSE i + 1]
  <2>1. i \in 1 .. Len(a) + Len(b)
    BY <1>1, <1>2
  <2>2. CASE i <= k - 1
    BY <1>1, <1>2, <1>3, <2>1, <2>2
  <2>3. CASE ~(i <= k - 1)
    <3>1. i - (k - 1) \in 1 .. Len(b) /\ k + (i - (k - 1)) = i + 1
      BY <1>1, <1>2, <2>3
    <3>2. (a \o b)[i] = b[i - (k - 1)]
      BY <1>1, <1>2, <1>3, <2>1, <2>3
    <3> QED BY <1>2, <2>3, <3>1, <3>2
  <2> QED BY <2>2, <2>3
<1> QED BY <1>3, <1>4, <1>5 DEF a, b

LEMMA WithoutFacts ==
  ASSUME NEW list \in Seq(Tasks), NEW t \in Tasks
  PROVE  /\ Without(list, t) \in Seq(Tasks)
         /\ Sorted(list) => Sorted(Without(list, t))
<1>1. Len(list) \in Nat /\ DOMAIN list = 1 .. Len(list)
  BY LenProperties
<1>2. CASE ~ \E i \in DOMAIN list : list[i] = t
  BY <1>2 DEF Without
<1>3. CASE \E i \in DOMAIN list : list[i] = t
  <2> DEFINE k == CHOOSE i \in DOMAIN list : list[i] = t
             cut == SubSeq(list, 1, k - 1) \o SubSeq(list, k + 1, Len(list))
  <2>1. k \in 1 .. Len(list)
    BY <1>1, <1>3
  <2>2. Without(list, t) = cut
    BY <1>3 DEF Without
  <2> HIDE DEF k
  <2>3. /\ cut \in Seq(Tasks) /\ DOMAIN cut = 1 .. Len(list) - 1
        /\ \A i \in 1 .. Len(list) - 1 : cut[i] = list[IF i <= k - 1 THEN i ELSE i + 1]
    BY <2>1, CutOut
  <2> HIDE DEF cut
  <2>4. ASSUME Sorted(list)
        PROVE  Sorted(cut)
    <3> SUFFICES ASSUME NEW i \in 1 .. Len(list) - 1, NEW j \in 1 .. Len(list) - 1, i < j
                 PROVE  Priority[cut[i]] >= Priority[cut[j]]
      BY <2>3 DEF Sorted
    <3> DEFINE u == IF i <= k - 1 THEN i ELSE i + 1
               v == IF j <= k - 1 THEN j ELSE j + 1
    <3>1. u \in 1 .. Len(list) /\ v \in 1 .. Len(list) /\ u < v
      BY <1>1, <2>1
    <3> HIDE DEF u, v
    <3>2. Priority[list[u]] >= Priority[list[v]]
      BY <1>1, <2>4, <3>1 DEF Sorted
    <3> QED BY <2>3, <3>2 DEF u, v
  <2> QED BY <2>2, <2>3, <2>4
<1> QED BY <1>2, <1>3

-----------------------------------------------------------------------------
(* The invariant.  The scheduler is suspended and the queue is locked only by *)
(* the running task, which is why the critical sections of the others never   *)
(* meet a locked queue.                                                       *)

SuspPlaces == {"lock", "check", "test", "place", "unlock", "resume"}
LockedPlaces == {"check", "test", "place", "unlock"}

\* What a task that is in a call, or on its way to wait, has been checked for.
CallInv ==
  \A t \in Tasks :
    /\ at[t] # "out" => call[t] \in Requests[t]
    /\ at[t] \notin {"out", "try"} => call[t].wait # "none"
    /\ at[t] # "out" /\ clock[t] # "running" => call[t].wait = "ticks"
    /\ at[t] = "recheck" => call[t].op = "receive" /\ clock[t] = "seen"

SuspInv == /\ \A t \in Tasks : at[t] \in SuspPlaces => t = pxCurrentTCB
           /\ uxSchedulerSuspended = 1 <=> \E t \in Tasks : at[t] \in SuspPlaces

LockInv == /\ cTxLock # queueUNLOCKED <=> \E t \in Tasks : at[t] \in LockedPlaces
           /\ cTxLock <= uxMessagesWaiting

VerdictInv ==
  \A t \in Tasks :
    /\ at[t] = "place" => verdict = "block"
    /\ at[t] \in {"unlock", "resume"} =>
         \/ verdict \in {"block", "again"}
         \/ verdict = "failed" /\ clock[t] = "seen"

\* No ready task outranks the running one, which is itself ready unless it is about
\* to yield.
ReadyInv ==
  /\ \A u \in ready : Priority[u] <= Priority[pxCurrentTCB]
  /\ uxSchedulerSuspended = 0 => ~xYieldPending /\ xPendingReadyList = {}
  /\ pxCurrentTCB \notin ready =>
       /\ pxCurrentTCB \in Tasks
       /\ \/ at[pxCurrentTCB] = "yield"
          \/ at[pxCurrentTCB] \in {"unlock", "resume"} /\ verdict = "block"

RingInv == pcWriteTo = (pcReadFrom + 1 + uxMessagesWaiting) % uxLength

Inv == /\ TypeOK /\ CallInv /\ SuspInv /\ LockInv /\ VerdictInv /\ ReadyInv
       /\ WaitersSorted /\ RingInv

-----------------------------------------------------------------------------
(* Scheduler *)

\* A switch picks a ready task that no other outranks.
LEMMA SwitchFacts ==
  ASSUME TypeOK, uxSchedulerSuspended' = 0, vTaskSwitchContext
  PROVE  /\ ~xYieldPending' /\ xYieldPending' \in BOOLEAN /\ pxCurrentTCB' \in ready'
         /\ \A u \in ready' : Priority[u] <= Priority[pxCurrentTCB']
BY DEF vTaskSwitchContext

\* Waking the head of a list keeps what the scheduler promises.
LEMMA WakesFacts ==
  ASSUME TypeOK, ReadyInv, NEW list \in Seq(Tasks), WakesHead(list),
         uxSchedulerSuspended' = uxSchedulerSuspended
  PROVE  /\ ready' \subseteq Everyone /\ ready \subseteq ready'
         /\ xPendingReadyList' \subseteq Tasks
         /\ pxCurrentTCB' \in Everyone /\ xYieldPending' \in BOOLEAN
         /\ \A u \in ready' : Priority[u] <= Priority[pxCurrentTCB']
         /\ uxSchedulerSuspended = 0 => ~xYieldPending' /\ xPendingReadyList' = {}
         /\ uxSchedulerSuspended # 0 => pxCurrentTCB' = pxCurrentTCB
         /\ pxCurrentTCB' \in ready' \/ pxCurrentTCB' = pxCurrentTCB
<1>1. CASE list = <<>>
  BY <1>1 DEF WakesHead, readyVars, cpuVars, TypeOK, ReadyInv
<1>2. CASE list # <<>>
  <2> DEFINE h == Head(list)
  <2>1. h \in Tasks
    BY <1>2, RestFacts
  <2>2. Wakes(h) /\ YieldIf(Outranks(h))
    BY <1>2 DEF WakesHead
  <2> HIDE DEF h
  <2>3. \A u \in Everyone : Priority[u] \in Nat
    BY PriorityIsNat
  <2>4. h \in Everyone /\ pxCurrentTCB \in Everyone /\ ready \subseteq Everyone
    BY <2>1 DEF Everyone, TypeOK
  <2>5. CASE uxSchedulerSuspended = 0 /\ Outranks(h)
    <3>1. ready' = ready \cup {h} /\ xPendingReadyList' = xPendingReadyList
          /\ vTaskSwitchContext /\ uxSchedulerSuspended' = 0
      BY <2>2, <2>5 DEF Wakes, YieldIf
    <3>2. /\ ~xYieldPending' /\ xYieldPending' \in BOOLEAN /\ pxCurrentTCB' \in ready'
          /\ \A u \in ready' : Priority[u] <= Priority[pxCurrentTCB']
      BY <3>1, SwitchFacts
    <3> QED BY <2>4, <2>5, <3>1, <3>2 DEF TypeOK, ReadyInv
  <2>6. CASE uxSchedulerSuspended = 0 /\ ~Outranks(h)
    <3>1. ready' = ready \cup {h} /\ xPendingReadyList' = xPendingReadyList
          /\ pxCurrentTCB' = pxCurrentTCB /\ xYieldPending' = xYieldPending
      BY <2>2, <2>6 DEF Wakes, YieldIf, cpuVars
    <3>2. Priority[h] <= Priority[pxCurrentTCB]
      BY <2>3, <2>4, <2>6 DEF Outranks
    <3> QED BY <2>4, <2>6, <3>1, <3>2 DEF TypeOK, ReadyInv
  <2>7. CASE uxSchedulerSuspended # 0
    <3>1. ready' = ready /\ xPendingReadyList' = xPendingReadyList \cup {h}
      BY <2>2, <2>7 DEF Wakes
    <3>2. pxCurrentTCB' = pxCurrentTCB /\ xYieldPending' \in BOOLEAN
      BY <2>2, <2>7 DEF YieldIf, vTaskSwitchContext, cpuVars, TypeOK
    <3> QED BY <2>1, <2>4, <2>7, <3>1, <3>2 DEF TypeOK, ReadyInv
  <2> QED BY <2>5, <2>6, <2>7
<1> QED BY <1>1, <1>2
-----------------------------------------------------------------------------
(* The ring *)

\* The places of the ring never go round more than twice.
LEMMA Wraps ==
  ASSUME NEW a \in 0 .. 2 * uxLength
  PROVE  a % uxLength = IF a < uxLength THEN a
                        ELSE IF a < 2 * uxLength THEN a - uxLength ELSE 0
<1>1. uxLength \in Nat \ {0}
  BY QueueAssumption
<1>2. CASE a < uxLength
  BY <1>1, <1>2
<1>3. CASE a >= uxLength /\ a < 2 * uxLength
  BY <1>1, <1>3
<1>4. CASE a = 2 * uxLength
  BY <1>1, <1>4
<1> QED BY <1>1, <1>2, <1>3, <1>4

LEMMA CopyToFacts ==
  ASSUME TypeOK, RingInv, NEW v \in Items, ~IsFull, CopyTo(v)
  PROVE  /\ pucQueue' \in [0 .. uxLength - 1 -> Items]
         /\ uxMessagesWaiting' = uxMessagesWaiting + 1
         /\ uxMessagesWaiting' \in 0 .. uxLength
         /\ pcWriteTo' \in 0 .. uxLength - 1 /\ pcReadFrom' \in 0 .. uxLength - 1
         /\ RingInv'
<1>1. uxLength \in Nat \ {0}
  BY QueueAssumption
<1>2. /\ pucQueue' \in [0 .. uxLength - 1 -> Items] /\ pcReadFrom' = pcReadFrom
      /\ uxMessagesWaiting' = uxMessagesWaiting + 1 /\ uxMessagesWaiting < uxLength
      /\ pcWriteTo' = (pcWriteTo + 1) % uxLength
  BY <1>1 DEF TypeOK, CopyTo, IsFull, Successor
<1> DEFINE a == pcReadFrom + 1 + uxMessagesWaiting
<1>3. a \in 0 .. 2 * uxLength /\ a + 1 \in 0 .. 2 * uxLength
      /\ pcWriteTo + 1 \in 0 .. 2 * uxLength
  BY <1>1, <1>2 DEF TypeOK
<1>4. pcWriteTo = a % uxLength /\ a + 1 = pcReadFrom + 1 + (uxMessagesWaiting + 1)
  BY DEF RingInv, TypeOK
<1> HIDE DEF a
<1>5. (pcWriteTo + 1) % uxLength = (a + 1) % uxLength
  BY <1>1, <1>3, <1>4, Wraps
<1>6. pcWriteTo' \in 0 .. uxLength - 1
  BY <1>1, <1>2, <1>3, Wraps
<1> QED BY <1>1, <1>2, <1>4, <1>5, <1>6 DEF RingInv, TypeOK

LEMMA CopyFromFacts ==
  ASSUME TypeOK, RingInv, NEW t \in Tasks, ~IsEmpty, CopyFrom(t)
  PROVE  /\ UNCHANGED <<pucQueue, pcWriteTo>>
         /\ uxMessagesWaiting' = uxMessagesWaiting - 1
         /\ uxMessagesWaiting' \in 0 .. uxLength
         /\ pcReadFrom' \in 0 .. uxLength - 1
         /\ got' \in [Tasks -> Items]
         /\ RingInv'
<1>1. uxLength \in Nat \ {0}
  BY QueueAssumption
<1>2. /\ UNCHANGED <<pucQueue, pcWriteTo>>
      /\ uxMessagesWaiting' = uxMessagesWaiting - 1
      /\ uxMessagesWaiting > 0 /\ uxMessagesWaiting' \in 0 .. uxLength
      /\ pcReadFrom' = (pcReadFrom + 1) % uxLength
  BY <1>1 DEF TypeOK, CopyFrom, IsEmpty, Successor
<1> DEFINE a == pcReadFrom + 1
<1>3. a \in 1 .. uxLength /\ a \in 0 .. 2 * uxLength
  BY <1>1 DEF TypeOK
<1>4. pcReadFrom' = IF a < uxLength THEN a ELSE 0
  BY <1>1, <1>2, <1>3, Wraps
<1>5. pcReadFrom' \in 0 .. uxLength - 1
  BY <1>1, <1>3, <1>4
<1>6. got' \in [Tasks -> Items]
  <2>1. pucQueue[ReadPlace] \in Items
    BY <1>2, <1>5 DEF TypeOK, ReadPlace, Successor
  <2> QED BY <2>1 DEF TypeOK, CopyFrom
<1>7. RingInv'
  <2>1. /\ uxMessagesWaiting \in 0 .. uxLength
        /\ pcWriteTo = (a + uxMessagesWaiting) % uxLength
    BY DEF RingInv, TypeOK
  <2>2. pcReadFrom' + 1 + uxMessagesWaiting' = pcReadFrom' + uxMessagesWaiting
    BY <1>1, <1>2, <1>5, <2>1
  <2> HIDE DEF a
  <2>3. (pcReadFrom' + uxMessagesWaiting) % uxLength = (a + uxMessagesWaiting) % uxLength
    <3>1. CASE a < uxLength
      BY <1>4, <3>1
    <3>2. CASE a = uxLength
      <4>1. pcReadFrom' + uxMessagesWaiting = uxMessagesWaiting
        BY <1>1, <1>4, <2>1, <3>2
      <4>2. /\ uxMessagesWaiting \in 0 .. 2 * uxLength
            /\ a + uxMessagesWaiting \in 0 .. 2 * uxLength
        BY <1>1, <2>1, <3>2
      <4> QED BY <1>1, <2>1, <3>2, <4>1, <4>2, Wraps
    <3> QED BY <1>1, <1>3, <3>1, <3>2
  <2> QED BY <1>2, <2>1, <2>2, <2>3 DEF RingInv
<1> QED BY <1>2, <1>5, <1>6, <1>7

-----------------------------------------------------------------------------
(* Each step keeps the invariant *)


\* A running task that does not lock the queue meets neither lock.
LEMMA RunsUnlocked ==
  ASSUME Inv, NEW t \in Tasks, pxCurrentTCB = t, at[t] \notin SuspPlaces
  PROVE  /\ uxSchedulerSuspended = 0 /\ cTxLock = queueUNLOCKED
         /\ \A u \in Tasks : at[u] \notin SuspPlaces /\ at[u] \notin LockedPlaces
<1>1. \A u \in Tasks : at[u] \notin SuspPlaces
  BY DEF Inv, SuspInv
<1>2. \A u \in Tasks : at[u] \notin LockedPlaces
  BY <1>1 DEF SuspPlaces, LockedPlaces
<1> QED BY <1>1, <1>2 DEF Inv, TypeOK, SuspInv, LockInv

\* The arguments of a call are those of one of the task's requests.
LEMMA CallFacts ==
  ASSUME Inv, NEW t \in Tasks, at[t] # "out"
  PROVE  call[t] \in Requests[t] /\ call[t].item \in Items
BY QueueAssumption DEF Calls, Inv, CallInv

LEMMA BeginKeeps ==
  ASSUME Inv, NEW t \in Tasks, Begin(t)
  PROVE  Inv'
<1> USE QueueAssumption DEF Calls, Inv, Begin, Runs, Goto, ringVars, eventVars,
        readyVars, cpuVars, callVars
<1>1. TypeOK'
  BY DEF TypeOK, SuspInv, SuspPlaces, Places, Everyone
<1>2. CallInv'
  BY DEF TypeOK, CallInv, Places
<1>3. SuspInv'
  BY DEF TypeOK, SuspInv, SuspPlaces, Places
<1>4. LockInv'
  BY DEF TypeOK, LockInv, SuspInv, LockedPlaces, SuspPlaces, Places, queueUNLOCKED
<1>5. VerdictInv'
  BY DEF TypeOK, VerdictInv, SuspInv, SuspPlaces, Places
<1>6. ReadyInv'
  BY DEF TypeOK, ReadyInv, SuspInv, SuspPlaces, Places
<1>7. WaitersSorted'
  BY DEF WaitersSorted
<1>8. RingInv'
  BY DEF RingInv
<1> QED BY <1>1, <1>2, <1>3, <1>4, <1>5, <1>6, <1>7, <1>8

LEMMA FailKeeps ==
  ASSUME Inv, NEW t \in Tasks, Fail(t)
  PROVE  Inv'
<1> USE QueueAssumption DEF Calls, Inv, Fail, LocalStep, Runs, Goto, Returns,
        MustNotWait, NothingFor, Is, ringVars, eventVars, readyVars, cpuVars, callVars
<1>1. TypeOK'
  BY DEF TypeOK, SuspInv, SuspPlaces, Places, Everyone
<1>2. CallInv'
  BY DEF TypeOK, CallInv, Places
<1>3. SuspInv'
  BY DEF TypeOK, SuspInv, SuspPlaces, Places
<1>4. LockInv'
  BY DEF TypeOK, LockInv, SuspInv, LockedPlaces, SuspPlaces, Places, queueUNLOCKED
<1>5. VerdictInv'
  BY DEF TypeOK, VerdictInv, SuspInv, SuspPlaces, Places
<1>6. ReadyInv'
  BY DEF TypeOK, ReadyInv, SuspInv, SuspPlaces, Places
<1>7. WaitersSorted'
  BY DEF WaitersSorted
<1>8. RingInv'
  BY DEF RingInv
<1> QED BY <1>1, <1>2, <1>3, <1>4, <1>5, <1>6, <1>7, <1>8

LEMMA WillWaitKeeps ==
  ASSUME Inv, NEW t \in Tasks, WillWait(t)
  PROVE  Inv'
<1> USE QueueAssumption DEF Calls, Inv, WillWait, LocalStep, Runs, Goto, MustNotWait,
        NothingFor, Is, ringVars, eventVars, readyVars, cpuVars, callVars
<1>1. TypeOK'
  BY DEF TypeOK, SuspInv, SuspPlaces, Places, Everyone
<1>2. CallInv'
  BY DEF TypeOK, CallInv, Places
<1>3. SuspInv'
  BY DEF TypeOK, SuspInv, SuspPlaces, Places
<1>4. LockInv'
  BY DEF TypeOK, LockInv, SuspInv, LockedPlaces, SuspPlaces, Places, queueUNLOCKED
<1>5. VerdictInv'
  BY DEF TypeOK, VerdictInv, SuspInv, SuspPlaces, Places
<1>6. ReadyInv'
  BY DEF TypeOK, ReadyInv, SuspInv, SuspPlaces, Places
<1>7. WaitersSorted'
  BY DEF WaitersSorted
<1>8. RingInv'
  BY DEF RingInv
<1> QED BY <1>1, <1>2, <1>3, <1>4, <1>5, <1>6, <1>7, <1>8

LEMMA vTaskSuspendAllKeeps ==
  ASSUME Inv, NEW t \in Tasks, vTaskSuspendAll(t)
  PROVE  Inv'
<1> USE QueueAssumption DEF Calls, Inv, vTaskSuspendAll, Runs, Goto, ringVars,
        eventVars, readyVars, cpuVars, callVars
<1>1. TypeOK'
  BY DEF TypeOK, SuspInv, SuspPlaces, Places, Everyone
<1>2. CallInv'
  BY DEF TypeOK, CallInv, Places
<1>3. SuspInv'
  BY DEF TypeOK, SuspInv, SuspPlaces, Places
<1>4. LockInv'
  BY DEF TypeOK, LockInv, SuspInv, LockedPlaces, SuspPlaces, Places, queueUNLOCKED
<1>5. VerdictInv'
  BY DEF TypeOK, VerdictInv, SuspInv, SuspPlaces, Places
<1>6. ReadyInv'
  BY DEF TypeOK, ReadyInv, SuspInv, SuspPlaces, Places
<1>7. WaitersSorted'
  BY DEF WaitersSorted
<1>8. RingInv'
  BY DEF RingInv
<1> QED BY <1>1, <1>2, <1>3, <1>4, <1>5, <1>6, <1>7, <1>8

LEMMA prvLockQueueKeeps ==
  ASSUME Inv, NEW t \in Tasks, prvLockQueue(t)
  PROVE  Inv'
<1> USE QueueAssumption DEF Calls, Inv, prvLockQueue, Locked, queueLOCKED_UNMODIFIED,
        Runs, Goto, ringVars, eventVars, readyVars, cpuVars, callVars
<1>1. TypeOK'
  BY DEF TypeOK, SuspInv, SuspPlaces, Places, Everyone
<1>2. CallInv'
  BY DEF TypeOK, CallInv, Places
<1>3. SuspInv'
  BY DEF TypeOK, SuspInv, SuspPlaces, Places
<1>4. LockInv'
  BY DEF TypeOK, LockInv, SuspInv, LockedPlaces, SuspPlaces, Places, queueUNLOCKED
<1>5. VerdictInv'
  BY DEF TypeOK, VerdictInv, SuspInv, SuspPlaces, Places
<1>6. ReadyInv'
  BY DEF TypeOK, ReadyInv, SuspInv, SuspPlaces, Places
<1>7. WaitersSorted'
  BY DEF WaitersSorted
<1>8. RingInv'
  BY DEF RingInv
<1> QED BY <1>1, <1>2, <1>3, <1>4, <1>5, <1>6, <1>7, <1>8

LEMMA CheckForTimeOutKeeps ==
  ASSUME Inv, NEW t \in Tasks, CheckForTimeOut(t)
  PROVE  Inv'
<1> USE QueueAssumption DEF Calls, Inv, CheckForTimeOut, Runs, Goto, ringVars,
        eventVars, readyVars, cpuVars, callVars
<1>1. TypeOK'
  <2>1. /\ at' \in [Tasks -> Places] /\ clock' \in [Tasks -> {"running", "over", "seen"}]
        /\ verdict' \in {"none", "block", "again", "failed"}
    BY DEF TypeOK, Places
  <2> QED BY <2>1 DEF TypeOK
<1>2. CallInv'
  BY DEF TypeOK, CallInv, Places
<1>3. SuspInv'
  BY DEF TypeOK, SuspInv, SuspPlaces, Places
<1>4. LockInv'
  BY DEF TypeOK, LockInv, SuspInv, LockedPlaces, SuspPlaces, Places, queueUNLOCKED
<1>5. VerdictInv'
  BY DEF TypeOK, VerdictInv, SuspInv, SuspPlaces, Places
<1>6. ReadyInv'
  BY DEF TypeOK, ReadyInv, SuspInv, SuspPlaces, Places
<1>7. WaitersSorted'
  BY DEF WaitersSorted
<1>8. RingInv'
  BY DEF RingInv
<1> QED BY <1>1, <1>2, <1>3, <1>4, <1>5, <1>6, <1>7, <1>8

LEMMA TestAgainKeeps ==
  ASSUME Inv, NEW t \in Tasks, TestAgain(t)
  PROVE  Inv'
<1> USE QueueAssumption DEF Calls, Inv, TestAgain, Runs, Goto, NothingFor, Is, ringVars,
        eventVars, readyVars, cpuVars, callVars
<1>1. TypeOK'
  BY DEF TypeOK, SuspInv, SuspPlaces, Places, Everyone
<1>2. CallInv'
  BY DEF TypeOK, CallInv, Places
<1>3. SuspInv'
  BY DEF TypeOK, SuspInv, SuspPlaces, Places
<1>4. LockInv'
  BY DEF TypeOK, LockInv, SuspInv, LockedPlaces, SuspPlaces, Places, queueUNLOCKED
<1>5. VerdictInv'
  BY DEF TypeOK, VerdictInv, SuspInv, SuspPlaces, Places
<1>6. ReadyInv'
  BY DEF TypeOK, ReadyInv, SuspInv, SuspPlaces, Places
<1>7. WaitersSorted'
  BY DEF WaitersSorted
<1>8. RingInv'
  BY DEF RingInv
<1> QED BY <1>1, <1>2, <1>3, <1>4, <1>5, <1>6, <1>7, <1>8

LEMMA RecheckKeeps ==
  ASSUME Inv, NEW t \in Tasks, Recheck(t)
  PROVE  Inv'
<1> USE QueueAssumption DEF Calls, Inv, Recheck, LocalStep, Runs, Goto, ringVars,
        eventVars, readyVars, cpuVars, callVars
<1>1. TypeOK'
  BY DEF TypeOK, SuspInv, SuspPlaces, Places, Everyone
<1>2. CallInv'
  BY DEF TypeOK, CallInv, Places
<1>3. SuspInv'
  BY DEF TypeOK, SuspInv, SuspPlaces, Places
<1>4. LockInv'
  BY DEF TypeOK, LockInv, SuspInv, LockedPlaces, SuspPlaces, Places, queueUNLOCKED
<1>5. VerdictInv'
  BY DEF TypeOK, VerdictInv, SuspInv, SuspPlaces, Places
<1>6. ReadyInv'
  BY DEF TypeOK, ReadyInv, SuspInv, SuspPlaces, Places
<1>7. WaitersSorted'
  BY DEF WaitersSorted
<1>8. RingInv'
  BY DEF RingInv
<1> QED BY <1>1, <1>2, <1>3, <1>4, <1>5, <1>6, <1>7, <1>8

LEMMA SendKeeps ==
  ASSUME Inv, NEW t \in Tasks, Send(t)
  PROVE  Inv'
<1> DEFINE list == xTasksWaitingToReceive
<1>1. /\ pxCurrentTCB = t /\ at[t] = "try" /\ at' = [at EXCEPT ![t] = "out"]
      /\ UNCHANGED <<xTasksWaitingToSend, cTxLock, uxSchedulerSuspended, call, clock,
                     verdict, got, posts>>
      /\ ~IsFull /\ CopyTo(call[t].item) /\ WakesHead(list) /\ list' = Rest(list)
  BY DEF Send, Runs, Returns, Goto
<1>2. /\ uxSchedulerSuspended = 0 /\ cTxLock = queueUNLOCKED
      /\ \A u \in Tasks : at[u] \notin SuspPlaces /\ at[u] \notin LockedPlaces
  BY <1>1, RunsUnlocked DEF SuspPlaces
<1>3. /\ pucQueue' \in [0 .. uxLength - 1 -> Items]
      /\ uxMessagesWaiting' = uxMessagesWaiting + 1 /\ uxMessagesWaiting' \in 0 .. uxLength
      /\ pcWriteTo' \in 0 .. uxLength - 1 /\ pcReadFrom' \in 0 .. uxLength - 1
      /\ RingInv'
  BY <1>1, CallFacts, CopyToFacts DEF Inv
<1>4. list \in Seq(Tasks) /\ list' \in Seq(Tasks) /\ (Sorted(list) => Sorted(list'))
  BY <1>1, RestFacts DEF Inv, TypeOK
<1>5. /\ ready' \subseteq Everyone /\ ready \subseteq ready'
      /\ xPendingReadyList' \subseteq Tasks
      /\ pxCurrentTCB' \in Everyone /\ xYieldPending' \in BOOLEAN
      /\ \A u \in ready' : Priority[u] <= Priority[pxCurrentTCB']
      /\ uxSchedulerSuspended = 0 => ~xYieldPending' /\ xPendingReadyList' = {}
      /\ uxSchedulerSuspended # 0 => pxCurrentTCB' = pxCurrentTCB
      /\ pxCurrentTCB' \in ready' \/ pxCurrentTCB' = pxCurrentTCB
  BY <1>1, <1>4, WakesFacts DEF Inv
<1> HIDE DEF list
<1>6. TypeOK'
  BY <1>1, <1>2, <1>3, <1>4, <1>5 DEF Inv, TypeOK, Places, list
<1>7. CallInv'
  BY <1>1 DEF Inv, CallInv, TypeOK
<1>8. SuspInv'
  BY <1>1, <1>2 DEF Inv, SuspInv, SuspPlaces, TypeOK
<1>9. LockInv'
  BY <1>1, <1>2, <1>3 DEF Inv, LockInv, LockedPlaces, TypeOK, queueUNLOCKED
<1>10. VerdictInv'
  BY <1>1 DEF Inv, VerdictInv, TypeOK
<1>11. ReadyInv'
  BY <1>1, <1>2, <1>5 DEF Inv, ReadyInv, TypeOK
<1>12. WaitersSorted'
  BY <1>1, <1>4 DEF Inv, WaitersSorted, Sorted, list
<1> QED BY <1>3, <1>6, <1>7, <1>8, <1>9, <1>10, <1>11, <1>12 DEF Inv

LEMMA ReceiveKeeps ==
  ASSUME Inv, NEW t \in Tasks, Receive(t)
  PROVE  Inv'
<1> DEFINE list == xTasksWaitingToSend
<1>1. /\ pxCurrentTCB = t /\ at[t] = "try" /\ at' = [at EXCEPT ![t] = "out"]
      /\ UNCHANGED <<xTasksWaitingToReceive, cTxLock, uxSchedulerSuspended, call,
                     clock, verdict, posts>>
      /\ ~IsEmpty /\ CopyFrom(t) /\ WakesHead(list) /\ list' = Rest(list)
  BY DEF Receive, Runs, Returns, Goto
<1>2. /\ uxSchedulerSuspended = 0 /\ cTxLock = queueUNLOCKED
      /\ \A u \in Tasks : at[u] \notin SuspPlaces /\ at[u] \notin LockedPlaces
  BY <1>1, RunsUnlocked DEF SuspPlaces
<1>3. /\ UNCHANGED <<pucQueue, pcWriteTo>>
      /\ uxMessagesWaiting' = uxMessagesWaiting - 1 /\ uxMessagesWaiting' \in 0 .. uxLength
      /\ pcReadFrom' \in 0 .. uxLength - 1 /\ got' \in [Tasks -> Items]
      /\ RingInv'
  BY <1>1, CopyFromFacts DEF Inv
<1>4. list \in Seq(Tasks) /\ list' \in Seq(Tasks) /\ (Sorted(list) => Sorted(list'))
  BY <1>1, RestFacts DEF Inv, TypeOK
<1>5. /\ ready' \subseteq Everyone /\ ready \subseteq ready'
      /\ xPendingReadyList' \subseteq Tasks
      /\ pxCurrentTCB' \in Everyone /\ xYieldPending' \in BOOLEAN
      /\ \A u \in ready' : Priority[u] <= Priority[pxCurrentTCB']
      /\ uxSchedulerSuspended = 0 => ~xYieldPending' /\ xPendingReadyList' = {}
      /\ uxSchedulerSuspended # 0 => pxCurrentTCB' = pxCurrentTCB
      /\ pxCurrentTCB' \in ready' \/ pxCurrentTCB' = pxCurrentTCB
  BY <1>1, <1>4, WakesFacts DEF Inv
<1> HIDE DEF list
<1>6. TypeOK'
  BY <1>1, <1>2, <1>3, <1>4, <1>5 DEF Inv, TypeOK, Places, list
<1>7. CallInv'
  BY <1>1 DEF Inv, CallInv, TypeOK
<1>8. SuspInv'
  BY <1>1, <1>2 DEF Inv, SuspInv, SuspPlaces, TypeOK
<1>9. LockInv'
  BY <1>1, <1>2, <1>3 DEF Inv, LockInv, LockedPlaces, TypeOK, queueUNLOCKED
<1>10. VerdictInv'
  BY <1>1 DEF Inv, VerdictInv, TypeOK
<1>11. ReadyInv'
  BY <1>1, <1>2, <1>5 DEF Inv, ReadyInv, TypeOK
<1>12. WaitersSorted'
  BY <1>1, <1>4 DEF Inv, WaitersSorted, Sorted, list
<1> QED BY <1>3, <1>6, <1>7, <1>8, <1>9, <1>10, <1>11, <1>12 DEF Inv

LEMMA vTaskPlaceOnEventListKeeps ==
  ASSUME Inv, NEW t \in Tasks, vTaskPlaceOnEventList(t)
  PROVE  Inv'
<1>1. /\ pxCurrentTCB = t /\ at[t] = "place" /\ at' = [at EXCEPT ![t] = "unlock"]
      /\ ready' = ready \ {t}
      /\ UNCHANGED <<ringVars, cTxLock, xPendingReadyList, cpuVars,
                     uxSchedulerSuspended, call, clock, verdict, got, posts>>
  BY DEF vTaskPlaceOnEventList, Runs, Goto
<1>2. /\ xTasksWaitingToReceive' \in Seq(Tasks) /\ xTasksWaitingToSend' \in Seq(Tasks)
      /\ WaitersSorted'
  <2>1. CASE Is(t, "send")
    BY <2>1, InsertedFacts DEF vTaskPlaceOnEventList, Inv, TypeOK, WaitersSorted, Sorted
  <2>2. CASE ~Is(t, "send")
    BY <2>2, InsertedFacts DEF vTaskPlaceOnEventList, Inv, TypeOK, WaitersSorted, Sorted
  <2> QED BY <2>1, <2>2
<1> USE DEF Inv, ringVars, cpuVars
<1>3. TypeOK'
  BY <1>1, <1>2, QueueAssumption DEF TypeOK, Places
<1>4. CallInv'
  BY <1>1 DEF CallInv, TypeOK
<1>5. SuspInv'
  BY <1>1 DEF SuspInv, SuspPlaces, TypeOK
<1>6. LockInv'
  BY <1>1 DEF LockInv, LockedPlaces, TypeOK
<1>7. VerdictInv'
  BY <1>1 DEF VerdictInv, TypeOK
<1>8. ReadyInv'
  BY <1>1 DEF ReadyInv, VerdictInv, TypeOK
<1>9. RingInv'
  BY <1>1 DEF RingInv
<1> QED BY <1>2, <1>3, <1>4, <1>5, <1>6, <1>7, <1>8, <1>9

LEMMA prvUnlockQueueKeeps ==
  ASSUME Inv, NEW t \in Tasks, prvUnlockQueue(t)
  PROVE  Inv'
<1> DEFINE list == xTasksWaitingToReceive
           woken == {list[i] : i \in 1 .. Woken}
<1>1. /\ pxCurrentTCB = t /\ at[t] = "unlock" /\ at' = [at EXCEPT ![t] = "resume"]
      /\ list' = SubSeq(list, Woken + 1, Len(list))
      /\ xPendingReadyList' = xPendingReadyList \cup woken
      /\ xYieldPending' = (xYieldPending \/ \E u \in woken : Outranks(u))
      /\ cTxLock' = queueUNLOCKED
      /\ UNCHANGED <<ringVars, xTasksWaitingToSend, ready, pxCurrentTCB,
                     uxSchedulerSuspended, call, clock, verdict, got, posts>>
  BY DEF prvUnlockQueue, Runs, Goto
<1>2. Woken \in 0 .. Len(list) /\ list \in Seq(Tasks)
  <2>1. list \in Seq(Tasks) /\ Len(list) \in Nat /\ DOMAIN list = 1 .. Len(list)
    BY LenProperties DEF Inv, TypeOK
  <2>2. IsFiniteSet(1 .. Len(list)) /\ Cardinality(1 .. Len(list)) = Len(list)
    BY <2>1, FS_Interval
  <2>3. /\ Cardinality({i \in DOMAIN list : i <= cTxLock}) \in Nat
        /\ Cardinality({i \in DOMAIN list : i <= cTxLock}) <= Cardinality(1 .. Len(list))
    BY <2>1, <2>2, FS_Subset, FS_CardinalityType
  <2> QED BY <2>1, <2>2, <2>3 DEF Woken
<1>3. list' \in Seq(Tasks) /\ (Sorted(list) => Sorted(list'))
  <2>1. Len(list) \in Nat
    BY <1>2, LenProperties
  <2>2. Woken + 1 \in 1 .. Len(list) + 1 /\ Len(list) \in 0 .. Len(list)
    BY <1>2, <2>1
  <2> QED BY <1>1, <1>2, <2>2, PartFacts
<1>4. woken \subseteq Tasks
  BY <1>2, ElementOfSeq, LenProperties
<1> HIDE DEF list, woken
<1>5. uxSchedulerSuspended = 1
  BY <1>1 DEF Inv, SuspInv, SuspPlaces
<1> USE DEF Inv, ringVars
<1>6. TypeOK'
  BY <1>1, <1>3, <1>4, QueueAssumption DEF TypeOK, Places, queueUNLOCKED, list
<1>7. CallInv'
  BY <1>1 DEF CallInv, TypeOK
<1>8. SuspInv'
  BY <1>1 DEF SuspInv, SuspPlaces, TypeOK
<1>9. LockInv'
  BY <1>1 DEF LockInv, LockedPlaces, SuspInv, SuspPlaces, TypeOK, queueUNLOCKED
<1>10. VerdictInv'
  BY <1>1 DEF VerdictInv, TypeOK
<1>11. ReadyInv'
  BY <1>1, <1>5 DEF ReadyInv, TypeOK
<1>12. WaitersSorted' /\ RingInv'
  BY <1>1, <1>3 DEF WaitersSorted, Sorted, RingInv, list
<1> QED BY <1>6, <1>7, <1>8, <1>9, <1>10, <1>11, <1>12

LEMMA xTaskResumeAllKeeps ==
  ASSUME Inv, NEW t \in Tasks, xTaskResumeAll(t)
  PROVE  Inv'
<1> DEFINE yields == xYieldPending \/ \E u \in xPendingReadyList : Priority[u] >= Priority[t]
           place == AfterResume(t, yields)
<1>1. /\ pxCurrentTCB = t /\ at[t] = "resume" /\ at' = [at EXCEPT ![t] = place]
      /\ uxSchedulerSuspended' = uxSchedulerSuspended - 1
      /\ ready' = ready \cup xPendingReadyList /\ xPendingReadyList' = {}
      /\ YieldIf(yields) /\ verdict' = "none"
      /\ UNCHANGED <<ringVars, eventVars, cTxLock, call, clock, got, posts>>
  BY DEF xTaskResumeAll, Runs, Goto
<1>2. uxSchedulerSuspended = 1 /\ uxSchedulerSuspended' = 0
  BY <1>1 DEF Inv, SuspInv, SuspPlaces, TypeOK
<1>3. /\ place \in {"try", "yield", "out", "recheck"}
      /\ verdict = "block" /\ ~yields => place = "yield"
      /\ place = "recheck" => call[t].op = "receive" /\ clock[t] = "seen"
  <2>1. \/ verdict = "block" \/ verdict = "again"
        \/ verdict = "failed" /\ clock[t] = "seen"
    BY <1>1 DEF Inv, VerdictInv
  <2>2. call[t].op \in {"send", "receive"}
    BY <1>1, CallFacts, QueueAssumption DEF Calls
  <2> HIDE DEF yields
  <2> QED BY <2>1, <2>2 DEF AfterResume, Is
<1>4. /\ ~xYieldPending' /\ xYieldPending' \in BOOLEAN /\ pxCurrentTCB' \in Everyone
      /\ \A u \in ready' : Priority[u] <= Priority[pxCurrentTCB']
      /\ yields => pxCurrentTCB' \in ready'
      /\ ~yields => pxCurrentTCB' = pxCurrentTCB
  <2>1. CASE yields
    <3>1. vTaskSwitchContext
      BY <1>1, <2>1 DEF YieldIf
    <3> QED BY <1>1, <1>2, <2>1, <3>1, SwitchFacts DEF Inv, TypeOK, Everyone
  <2>2. CASE ~yields
    <3>1. \A u \in xPendingReadyList : Priority[u] <= Priority[t]
      BY <2>2, PriorityIsNat DEF Inv, TypeOK, Everyone
    <3>2. UNCHANGED <<pxCurrentTCB, xYieldPending>> /\ ~xYieldPending
      BY <1>1, <2>2 DEF YieldIf, cpuVars
    <3> QED BY <1>1, <2>2, <3>1, <3>2 DEF Inv, TypeOK, ReadyInv
  <2> QED BY <2>1, <2>2
<1> HIDE DEF yields, place
<1> USE DEF Inv, ringVars, eventVars
<1>5. TypeOK'
  BY <1>1, <1>2, <1>3, <1>4 DEF TypeOK, Places, Everyone
<1>6. CallInv'
  BY <1>1, <1>3 DEF CallInv, TypeOK
<1>7. SuspInv'
  BY <1>1, <1>2, <1>3 DEF SuspInv, SuspPlaces, TypeOK
<1>8. LockInv'
  BY <1>1, <1>3 DEF LockInv, LockedPlaces, TypeOK
<1>9. VerdictInv'
  BY <1>1, <1>3 DEF VerdictInv, SuspInv, SuspPlaces, TypeOK
<1>10. ReadyInv'
  BY <1>1, <1>3, <1>4 DEF ReadyInv, TypeOK
<1>11. WaitersSorted' /\ RingInv'
  BY <1>1 DEF WaitersSorted, Sorted, RingInv
<1> QED BY <1>5, <1>6, <1>7, <1>8, <1>9, <1>10, <1>11

LEMMA YieldKeeps ==
  ASSUME Inv, NEW t \in Tasks, Yield(t)
  PROVE  Inv'
<1>1. /\ pxCurrentTCB = t /\ at[t] = "yield" /\ at' = [at EXCEPT ![t] = "try"]
      /\ vTaskSwitchContext
      /\ UNCHANGED <<ringVars, eventVars, cTxLock, readyVars,
                     uxSchedulerSuspended, call, clock, verdict, got, posts>>
  BY DEF Yield, Runs, Goto
<1>2. /\ uxSchedulerSuspended = 0 /\ cTxLock = queueUNLOCKED
      /\ \A u \in Tasks : at[u] \notin SuspPlaces /\ at[u] \notin LockedPlaces
  BY <1>1, RunsUnlocked DEF SuspPlaces
<1>3. /\ ~xYieldPending' /\ xYieldPending' \in BOOLEAN /\ pxCurrentTCB' \in ready'
      /\ \A u \in ready' : Priority[u] <= Priority[pxCurrentTCB']
  BY <1>1, <1>2, SwitchFacts DEF Inv
<1> USE DEF Inv, ringVars, eventVars, readyVars
<1>4. TypeOK'
  BY <1>1, <1>3 DEF TypeOK, Places
<1>5. CallInv'
  BY <1>1 DEF CallInv, TypeOK
<1>6. SuspInv'
  BY <1>1, <1>2 DEF SuspInv, SuspPlaces, TypeOK
<1>7. LockInv'
  BY <1>1, <1>2 DEF LockInv, LockedPlaces, TypeOK
<1>8. VerdictInv'
  BY <1>1 DEF VerdictInv, TypeOK
<1>9. ReadyInv'
  BY <1>1, <1>2, <1>3 DEF ReadyInv, TypeOK
<1>10. WaitersSorted' /\ RingInv'
  BY <1>1 DEF WaitersSorted, Sorted, RingInv
<1> QED BY <1>4, <1>5, <1>6, <1>7, <1>8, <1>9, <1>10

LEMMA SendFromISRKeeps ==
  ASSUME Inv, NEW v \in Items, SendFromISR(v)
  PROVE  Inv'
<1> DEFINE list == xTasksWaitingToReceive
<1>1. /\ posts > 0 /\ posts' = posts - 1 /\ ~IsFull /\ CopyTo(v)
      /\ UNCHANGED <<xTasksWaitingToSend, uxSchedulerSuspended, at, call, clock,
                     verdict, got>>
  BY DEF SendFromISR, callVars
<1>2. /\ pucQueue' \in [0 .. uxLength - 1 -> Items]
      /\ uxMessagesWaiting' = uxMessagesWaiting + 1 /\ uxMessagesWaiting' \in 0 .. uxLength
      /\ pcWriteTo' \in 0 .. uxLength - 1 /\ pcReadFrom' \in 0 .. uxLength - 1
      /\ RingInv'
  BY <1>1, CopyToFacts DEF Inv
<1>3. /\ list' \in Seq(Tasks) /\ (Sorted(list) => Sorted(list'))
      /\ IF cTxLock = queueUNLOCKED THEN cTxLock' = cTxLock ELSE cTxLock' = cTxLock + 1
      /\ /\ ready' \subseteq Everyone /\ ready \subseteq ready'
      /\ xPendingReadyList' \subseteq Tasks
      /\ pxCurrentTCB' \in Everyone /\ xYieldPending' \in BOOLEAN
      /\ \A u \in ready' : Priority[u] <= Priority[pxCurrentTCB']
      /\ uxSchedulerSuspended = 0 => ~xYieldPending' /\ xPendingReadyList' = {}
      /\ uxSchedulerSuspended # 0 => pxCurrentTCB' = pxCurrentTCB
      /\ pxCurrentTCB' \in ready' \/ pxCurrentTCB' = pxCurrentTCB
  <2>1. CASE cTxLock = queueUNLOCKED
    <3>1. list \in Seq(Tasks) /\ WakesHead(list) /\ list' = Rest(list) /\ cTxLock' = cTxLock
      BY <2>1 DEF SendFromISR, Inv, TypeOK
    <3>2. list' \in Seq(Tasks) /\ (Sorted(list) => Sorted(list'))
      BY <3>1, RestFacts
    <3> QED BY <1>1, <2>1, <3>1, <3>2, WakesFacts DEF Inv
  <2>2. CASE cTxLock # queueUNLOCKED
    <3>1. UNCHANGED <<list, ready, xPendingReadyList, pxCurrentTCB, xYieldPending>>
          /\ cTxLock' = cTxLock + 1
      BY <2>2 DEF SendFromISR, readyVars, cpuVars
    <3> QED BY <2>2, <3>1 DEF Inv, TypeOK, ReadyInv, Sorted
  <2> QED BY <2>1, <2>2
<1> HIDE DEF list
<1>4. TypeOK'
  <2>1. /\ xTasksWaitingToReceive' \in Seq(Tasks) /\ xTasksWaitingToSend' \in Seq(Tasks)
    BY <1>1, <1>3 DEF Inv, TypeOK, list
  <2>2. cTxLock' \in -1 .. uxLength /\ posts' \in 0 .. MaxPosts
    <3>1. /\ cTxLock \in -1 .. uxLength /\ cTxLock <= uxMessagesWaiting
          /\ posts \in 0 .. MaxPosts /\ MaxPosts \in Nat /\ uxLength \in Nat
          /\ uxMessagesWaiting \in Nat
      BY QueueAssumption DEF Inv, TypeOK, LockInv
    <3> QED BY <1>1, <1>2, <1>3, <3>1
  <2> QED BY <1>1, <1>2, <1>3, <2>1, <2>2 DEF Inv, TypeOK
<1>5. CallInv'
  BY <1>1 DEF Inv, CallInv
<1>6. SuspInv'
  BY <1>1, <1>3 DEF Inv, SuspInv, TypeOK
<1>7. LockInv'
  BY <1>1, <1>2, <1>3 DEF Inv, LockInv, TypeOK, queueUNLOCKED
<1>8. VerdictInv'
  BY <1>1 DEF Inv, VerdictInv
<1>9. ReadyInv'
  BY <1>1, <1>3 DEF Inv, ReadyInv, TypeOK
<1>10. WaitersSorted'
  BY <1>1, <1>3 DEF Inv, WaitersSorted, Sorted, list
<1> QED BY <1>2, <1>4, <1>5, <1>6, <1>7, <1>8, <1>9, <1>10 DEF Inv

LEMMA TimeIsOverKeeps ==
  ASSUME Inv, NEW t \in Tasks, TimeIsOver(t)
  PROVE  Inv'
<1> DEFINE switches == t \notin ready /\ Priority[t] >= Priority[pxCurrentTCB]
<1>1. /\ uxSchedulerSuspended = 0 /\ at[t] # "out" /\ call[t].wait = "ticks"
      /\ clock[t] = "running" /\ clock' = [clock EXCEPT ![t] = "over"]
      /\ ready' = ready \cup {t}
      /\ UNCHANGED <<ringVars, cTxLock, xPendingReadyList, uxSchedulerSuspended, at,
                     call, verdict, got, posts>>
      /\ YieldIf(switches)
  BY DEF TimeIsOver
<1>2. /\ xTasksWaitingToReceive' \in Seq(Tasks) /\ xTasksWaitingToSend' \in Seq(Tasks)
      /\ WaitersSorted'
  BY WithoutFacts DEF TimeIsOver, Inv, TypeOK, WaitersSorted, Sorted
<1>3. /\ ~xYieldPending' /\ xYieldPending' \in BOOLEAN /\ pxCurrentTCB' \in Everyone
      /\ \A u \in ready' : Priority[u] <= Priority[pxCurrentTCB']
      /\ pxCurrentTCB' \in ready' \/ pxCurrentTCB' = pxCurrentTCB
  <2>1. CASE switches
    <3>1. vTaskSwitchContext
      BY <1>1, <2>1 DEF YieldIf
    <3> QED BY <1>1, <3>1, SwitchFacts DEF Inv, TypeOK, Everyone
  <2>2. CASE ~switches
    <3>1. UNCHANGED <<pxCurrentTCB, xYieldPending>>
      BY <1>1, <2>2 DEF YieldIf, cpuVars
    <3>2. t \in ready \/ Priority[t] <= Priority[pxCurrentTCB]
      BY <2>2, PriorityIsNat DEF Inv, TypeOK, Everyone
    <3> QED BY <1>1, <3>1, <3>2 DEF Inv, TypeOK, ReadyInv
  <2> QED BY <2>1, <2>2
<1> HIDE DEF switches
<1>4. \A u \in Tasks : at[u] \notin SuspPlaces
  BY <1>1 DEF Inv, SuspInv
<1> USE DEF Inv, ringVars
<1>5. TypeOK'
  BY <1>1, <1>2, <1>3 DEF TypeOK, Everyone
<1>6. CallInv'
  BY <1>1 DEF CallInv, TypeOK
<1>7. SuspInv' /\ LockInv'
  BY <1>1, <1>4 DEF SuspInv, LockInv
<1>8. VerdictInv'
  BY <1>1, <1>4 DEF VerdictInv, SuspPlaces
<1>9. ReadyInv'
  BY <1>1, <1>3 DEF ReadyInv
<1>10. RingInv'
  BY <1>1 DEF RingInv
<1> QED BY <1>2, <1>5, <1>6, <1>7, <1>8, <1>9, <1>10

LEMMA TimeSliceKeeps ==
  ASSUME Inv, TimeSlice
  PROVE  Inv'
<1> DEFINE switches == Cardinality({t \in ready : Priority[t] = Priority[pxCurrentTCB]}) > 1
<1>1. /\ uxSchedulerSuspended = 0
      /\ UNCHANGED <<ringVars, eventVars, cTxLock, readyVars, uxSchedulerSuspended,
                     callVars, posts>>
      /\ YieldIf(switches)
  BY DEF TimeSlice
<1> HIDE DEF switches
<1>2. /\ ~xYieldPending' /\ xYieldPending' \in BOOLEAN /\ pxCurrentTCB' \in Everyone
      /\ \A u \in ready' : Priority[u] <= Priority[pxCurrentTCB']
      /\ pxCurrentTCB' \in ready' \/ pxCurrentTCB' = pxCurrentTCB
  <2>1. CASE switches
    <3>1. vTaskSwitchContext
      BY <1>1, <2>1 DEF YieldIf
    <3> QED BY <1>1, <3>1, SwitchFacts DEF Inv, TypeOK, readyVars
  <2>2. CASE ~switches
    BY <1>1, <2>2 DEF YieldIf, cpuVars, readyVars, Inv, TypeOK, ReadyInv
  <2> QED BY <2>1, <2>2
<1>3. \A u \in Tasks : at[u] \notin SuspPlaces
  BY <1>1 DEF Inv, SuspInv
<1> USE DEF Inv, ringVars, eventVars, readyVars, callVars
<1>4. TypeOK'
  BY <1>1, <1>2 DEF TypeOK
<1>5. CallInv' /\ VerdictInv' /\ RingInv' /\ WaitersSorted'
  BY <1>1 DEF CallInv, VerdictInv, RingInv, WaitersSorted, Sorted
<1>6. SuspInv' /\ LockInv'
  BY <1>1, <1>3 DEF SuspInv, LockInv
<1>7. ReadyInv'
  BY <1>1, <1>2 DEF ReadyInv
<1> QED BY <1>4, <1>5, <1>6, <1>7

LEMMA InitInv == Init => Inv
<1> SUFFICES ASSUME Init
             PROVE  Inv
  OBVIOUS
<1> USE QueueAssumption DEF Init
<1>1. TypeOK
  <2>1. (CHOOSE v \in Items : TRUE) \in Items
    OBVIOUS
  <2>2. <<>> \in Seq(Tasks)
    BY EmptySeq
  <2>3. /\ uxMessagesWaiting \in 0 .. uxLength /\ posts \in 0 .. MaxPosts
        /\ pcWriteTo \in 0 .. uxLength - 1 /\ pcReadFrom \in 0 .. uxLength - 1
        /\ cTxLock \in -1 .. uxLength
    BY DEF queueUNLOCKED
  <2>4. pucQueue \in [0 .. uxLength - 1 -> Items]
    OBVIOUS
  <2>5. /\ ready \subseteq Everyone /\ Idle \in ready /\ xPendingReadyList \subseteq Tasks
        /\ pxCurrentTCB \in Everyone
    BY DEF Everyone
  <2>6. /\ at \in [Tasks -> Places] /\ clock \in [Tasks -> {"running", "over", "seen"}]
        /\ got \in [Tasks -> Items] /\ DOMAIN call = Tasks
        /\ \A t \in Tasks : call[t] \in Requests[t] \cup {NoCall}
    BY <2>1 DEF Places
  <2> QED BY <2>2, <2>3, <2>4, <2>5, <2>6 DEF TypeOK
<1>2. CallInv /\ SuspInv /\ VerdictInv
  BY DEF CallInv, SuspInv, SuspPlaces, VerdictInv
<1>3. LockInv
  BY DEF LockInv, LockedPlaces, queueUNLOCKED
<1>4. ReadyInv
  BY DEF ReadyInv
<1>5. WaitersSorted
  BY DEF WaitersSorted, Sorted
<1>6. RingInv
  <2>1. uxLength % uxLength = 0
    BY Wraps
  <2>2. pcReadFrom + 1 + uxMessagesWaiting = uxLength
    OBVIOUS
  <2> QED BY <2>1, <2>2 DEF RingInv
<1> QED BY <1>1, <1>2, <1>3, <1>4, <1>5, <1>6 DEF Inv

LEMMA InvKept == Inv /\ [Next]_vars => Inv'
<1> SUFFICES ASSUME Inv, [Next]_vars
             PROVE  Inv'
  OBVIOUS
<1>1. ASSUME NEW t \in Tasks, Step(t)
      PROVE  Inv'
  BY <1>1, BeginKeeps, SendKeeps, ReceiveKeeps, FailKeeps, WillWaitKeeps,
     vTaskSuspendAllKeeps, prvLockQueueKeeps, CheckForTimeOutKeeps, TestAgainKeeps,
     vTaskPlaceOnEventListKeeps, prvUnlockQueueKeeps, xTaskResumeAllKeeps, YieldKeeps,
     RecheckKeeps DEF Step
<1>2. CASE UNCHANGED vars
  BY <1>2 DEF vars, ringVars, eventVars, readyVars, cpuVars, callVars, Inv, TypeOK,
     CallInv, SuspInv, LockInv, VerdictInv, ReadyInv, WaitersSorted, Sorted, RingInv
<1> QED BY <1>1, <1>2, TimeIsOverKeeps, SendFromISRKeeps, TimeSliceKeeps DEF Next

\* The invariant that the theorems rest on.
LEMMA Invariance == Spec => []Inv
BY InitInv, InvKept, PTL DEF Spec

-----------------------------------------------------------------------------
(* Theorems *)

\* Every variable keeps its type; in particular the queue never holds more than its
\* length, and the count of posts while it is locked never outgrows it.
THEOREM TypeCorrect == Spec => []TypeOK
<1>1. Inv => TypeOK
  BY DEF Inv
<1> QED BY <1>1, Invariance, PTL

\* Unless the scheduler is suspended, no ready task outranks the running one and no
\* switch is outstanding, whatever the interrupts do between the critical sections.
THEOREM HighestReadyRuns == Spec => []HighestRuns
<1>1. Inv => HighestRuns
  <2> SUFFICES ASSUME Inv, uxSchedulerSuspended = 0
               PROVE  /\ ~xYieldPending /\ xPendingReadyList = {}
                      /\ \A u \in ready : Priority[u] <= Priority[pxCurrentTCB]
                      /\ pxCurrentTCB \in ready \/ at[pxCurrentTCB] = "yield"
    BY DEF HighestRuns
  <2>1. \A t \in Tasks : at[t] \notin {"unlock", "resume"}
    BY DEF Inv, SuspInv, SuspPlaces
  <2> QED BY <2>1 DEF Inv, ReadyInv
<1> QED BY <1>1, Invariance, PTL

\* The task woken is always one of the highest priority among those that wait.
THEOREM WaitersStaySorted == Spec => []WaitersSorted
<1>1. Inv => WaitersSorted
  BY DEF Inv
<1> QED BY <1>1, Invariance, PTL

-----------------------------------------------------------------------------
(* Refinement *)

LEMMA HeldFacts ==
  ASSUME TypeOK
  PROVE  /\ Held \in Seq(Items) /\ Len(Held) = uxMessagesWaiting
         /\ DOMAIN Held = 1 .. uxMessagesWaiting
         /\ \A i \in 1 .. uxMessagesWaiting :
              /\ pcReadFrom + i \in 0 .. 2 * uxLength
              /\ Held[i] = pucQueue[(pcReadFrom + i) % uxLength]
<1>1. uxLength \in Nat \ {0} /\ uxMessagesWaiting \in 0 .. uxLength
      /\ pcReadFrom \in 0 .. uxLength - 1
  BY QueueAssumption DEF TypeOK
<1>2. \A i \in 1 .. uxMessagesWaiting : pcReadFrom + i \in 0 .. 2 * uxLength
  BY <1>1
<1>3. ASSUME NEW i \in 1 .. uxMessagesWaiting
      PROVE  pucQueue[(pcReadFrom + i) % uxLength] \in Items
  <2>1. (pcReadFrom + i) % uxLength \in 0 .. uxLength - 1
    BY <1>1, <1>2, Wraps
  <2> QED BY <2>1 DEF TypeOK
<1>4. Held \in [1 .. uxMessagesWaiting -> Items]
  BY <1>3 DEF Held
<1>5. Held \in Seq(Items) /\ Len(Held) = uxMessagesWaiting
  BY <1>1, <1>4, SeqOfFunction
<1> QED BY <1>2, <1>5 DEF Held

\* An item that is copied to the ring is the last of those held, as its place is not
\* one of theirs.
LEMMA HeldAppends ==
  ASSUME Inv, Inv', NEW v \in Items, ~IsFull, CopyTo(v)
  PROVE  Held' = Append(Held, v) /\ Len(Held) < uxLength
<1> DEFINE n == uxMessagesWaiting
           r == pcReadFrom
           w == pcWriteTo
<1>1. /\ uxLength \in Nat \ {0} /\ n \in 0 .. uxLength - 1 /\ r \in 0 .. uxLength - 1
      /\ w = (r + 1 + n) % uxLength /\ w \in 0 .. uxLength - 1
      /\ pucQueue \in [0 .. uxLength - 1 -> Items]
  <2>1. n \in 0 .. uxLength /\ n # uxLength /\ uxLength \in Nat \ {0}
    BY QueueAssumption DEF Inv, TypeOK, IsFull
  <2>2. n \in 0 .. uxLength - 1
    BY <2>1
  <2> QED BY <2>1, <2>2 DEF Inv, TypeOK, RingInv
<1>2. pcReadFrom' = r /\ uxMessagesWaiting' = n + 1 /\ pucQueue' = [pucQueue EXCEPT ![w] = v]
  BY DEF CopyTo
<1>3. /\ Held \in Seq(Items) /\ Len(Held) = n
      /\ \A i \in 1 .. n : /\ r + i \in 0 .. 2 * uxLength
                           /\ Held[i] = pucQueue[(r + i) % uxLength]
  BY HeldFacts DEF Inv
<1>4. Held' = [i \in 1 .. n + 1 |-> pucQueue'[(r + i) % uxLength]]
  BY <1>2 DEF Held
<1> HIDE DEF n, r, w
<1>5. Append(Held, v) \in Seq(Items) /\ Len(Append(Held, v)) = n + 1
      /\ \A i \in 1 .. n + 1 : Append(Held, v)[i] = IF i = n + 1 THEN v ELSE Held[i]
  <2>1. /\ Append(Held, v) \in Seq(Items) /\ Len(Append(Held, v)) = Len(Held) + 1
        /\ \A i \in 1 .. Len(Held) + 1 :
             Append(Held, v)[i] = IF i = Len(Held) + 1 THEN v ELSE Held[i]
    BY <1>3, AppendProperties
  <2> QED BY <1>3, <2>1
<1>6. ASSUME NEW i \in 1 .. n + 1
      PROVE  pucQueue'[(r + i) % uxLength] = Append(Held, v)[i]
  <2>1. CASE i = n + 1
    <3>1. r + i = r + 1 + n
      BY <1>1, <2>1
    <3> QED BY <1>1, <1>2, <1>5, <2>1, <3>1
  <2>2. CASE i \in 1 .. n
    <3>1. r + i \in 0 .. 2 * uxLength /\ r + 1 + n \in 0 .. 2 * uxLength
          /\ r + i < r + 1 + n /\ r + 1 + n < r + i + uxLength
      BY <1>1, <2>2
    <3>2. (r + i) % uxLength # w /\ (r + i) % uxLength \in 0 .. uxLength - 1
      BY <1>1, <3>1, Wraps
    <3>3. pucQueue'[(r + i) % uxLength] = pucQueue[(r + i) % uxLength]
      BY <1>1, <1>2, <3>2
    <3>4. i # n + 1
      BY <1>1, <2>2
    <3> QED BY <1>3, <1>5, <2>2, <3>3, <3>4
  <2>3. n \in Nat
    BY <1>1
  <2>4. i = n + 1 \/ i \in 1 .. n
    BY <2>3
  <2> QED BY <2>1, <2>2, <2>4
<1>7. Held' \in Seq(Items) /\ Len(Held') = n + 1
      /\ \A i \in 1 .. n + 1 : Held'[i] = Append(Held, v)[i]
  <2>1. Append(Held, v) \in [1 .. n + 1 -> Items]
    BY <1>5, SeqDef, LenProperties
  <2>2. Held' \in [1 .. n + 1 -> Items]
    BY <1>4, <1>6, <2>1
  <2>3. n + 1 \in Nat
    BY <1>1
  <2> QED BY <1>4, <1>6, <2>2, <2>3, SeqOfFunction
<1>8. Held' = Append(Held, v)
  BY <1>5, <1>7, SeqEqual
<1> QED BY <1>1, <1>3, <1>8

\* The item copied from the ring is the oldest of those held.
LEMMA HeldTail ==
  ASSUME Inv, Inv', NEW t \in Tasks, ~IsEmpty, CopyFrom(t)
  PROVE  /\ Held # <<>> /\ Held' = Tail(Held)
         /\ got' = [got EXCEPT ![t] = Head(Held)]
<1> DEFINE n == uxMessagesWaiting
           r == pcReadFrom
           s == pcReadFrom'
<1>1. /\ uxLength \in Nat \ {0} /\ n \in 1 .. uxLength /\ r \in 0 .. uxLength - 1
      /\ s \in 0 .. uxLength - 1 /\ s = (r + 1) % uxLength
  BY QueueAssumption DEF Inv, TypeOK, IsEmpty, CopyFrom, Successor
<1>2. /\ uxMessagesWaiting' = n - 1 /\ pucQueue' = pucQueue
      /\ got' = [got EXCEPT ![t] = pucQueue[(r + 1) % uxLength]]
  BY DEF CopyFrom, ReadPlace, Successor
<1>3. /\ Held \in Seq(Items) /\ Len(Held) = n
      /\ \A i \in 1 .. n : /\ r + i \in 0 .. 2 * uxLength
                           /\ Held[i] = pucQueue[(r + i) % uxLength]
  BY HeldFacts DEF Inv
<1>4. Held' = [i \in 1 .. n - 1 |-> pucQueue[(s + i) % uxLength]]
  BY <1>2 DEF Held
<1> HIDE DEF n, r, s
<1>5. Held # <<>>
  BY <1>1, <1>3, EmptySeq
<1>6. /\ Tail(Held) \in Seq(Items) /\ Len(Tail(Held)) = n - 1 /\ Head(Held) = Held[1]
      /\ \A i \in 1 .. n - 1 : Tail(Held)[i] = Held[i + 1]
  BY <1>3, <1>5, HeadTailProperties
<1>7. ASSUME NEW i \in 1 .. n - 1
      PROVE  pucQueue[(s + i) % uxLength] = Tail(Held)[i]
  <2>1. i + 1 \in 1 .. n /\ r + (i + 1) \in 0 .. 2 * uxLength /\ s + i \in 0 .. 2 * uxLength
        /\ r + 1 \in 0 .. 2 * uxLength
    BY <1>1
  <2>2. s = IF r + 1 < uxLength THEN r + 1 ELSE 0
    <3> DEFINE a == r + 1
    <3>1. uxLength \in Nat \ {0} /\ a \in 1 .. uxLength /\ a \in 0 .. 2 * uxLength
          /\ s = a % uxLength
      BY <1>1, <2>1
    <3> HIDE DEF a
    <3>2. s = IF a < uxLength THEN a ELSE 0
      BY <3>1, Wraps
    <3> QED BY <3>2 DEF a
  <2>3. (s + i) % uxLength = (r + (i + 1)) % uxLength
    <3>1. CASE r + 1 < uxLength
      <4>1. s + i = r + (i + 1)
        BY <1>1, <2>2, <3>1
      <4> QED BY <4>1
    <3>2. CASE r + 1 = uxLength
      <4>1. /\ s + i = i /\ r + (i + 1) = uxLength + i
            /\ i < uxLength /\ uxLength + i < 2 * uxLength
        BY <1>1, <2>2, <3>2
      <4>2. (s + i) % uxLength = i
        BY <1>1, <2>1, <4>1, Wraps
      <4>3. (r + (i + 1)) % uxLength = i
        <5> DEFINE b == uxLength + i
        <5>1. /\ uxLength \in Nat \ {0} /\ b \in 0 .. 2 * uxLength
              /\ ~(b < uxLength) /\ b < 2 * uxLength /\ b - uxLength = i
          BY <1>1, <2>1, <4>1
        <5> HIDE DEF b
        <5>2. b % uxLength = i
          BY <5>1, Wraps
        <5> QED BY <4>1, <5>2 DEF b
      <4> QED BY <4>2, <4>3
    <3> QED BY <1>1, <3>1, <3>2
  <2> QED BY <1>3, <1>6, <2>1, <2>3
<1>8. Held' \in Seq(Items) /\ Len(Held') = n - 1
      /\ \A i \in 1 .. n - 1 : Held'[i] = Tail(Held)[i]
  <2>1. Tail(Held) \in [1 .. n - 1 -> Items]
    BY <1>6, SeqDef, LenProperties
  <2>2. Held' \in [1 .. n - 1 -> Items]
    BY <1>4, <1>7, <2>1
  <2>3. n - 1 \in Nat
    BY <1>1
  <2> QED BY <1>4, <1>7, <2>2, <2>3, SeqOfFunction
<1>9. Held' = Tail(Held)
  BY <1>6, <1>8, SeqEqual
<1>10. 1 \in 1 .. n
  BY <1>1
<1> QED BY <1>2, <1>3, <1>5, <1>6, <1>9, <1>10

\* What an open call of a task looks like to the abstract queue.
LEMMA OpenCallFacts ==
  ASSUME Inv, NEW t \in Tasks
  PROVE  /\ at[t] = "out" => OpenCalls[t] = NoCall
         /\ at[t] # "out" => OpenCalls[t] = call[t] /\ call[t] # NoCall
BY QueueAssumption DEF Calls, Inv, CallInv, OpenCalls

\* A step that only moves a task leaves the open calls as they are, unless it goes out.
LEMMA CallStaysOpen ==
  ASSUME Inv, NEW t \in Tasks, NEW place, at[t] # "out", at' = [at EXCEPT ![t] = place],
         call' = call
  PROVE  /\ place # "out" => OpenCalls' = OpenCalls
         /\ place = "out" => Queue!Ends(t)
BY DEF Inv, TypeOK, OpenCalls, Queue!Ends

\* A call that fails may fail.
LEMMA FailsRightly ==
  ASSUME Inv, NEW t \in Tasks, at[t] # "out", at' = [at EXCEPT ![t] = "out"],
         call' = call, UNCHANGED <<ringVars, got>>,
         call[t].wait = "none" \/ clock[t] # "running",
         Is(t, "receive") => IsEmpty,
         call[t].wait = "none" => NothingFor(t)
  PROVE  Queue!GiveUp(t)
<1>1. call[t].wait # "forever"
  BY DEF Inv, CallInv
<1>2. OpenCalls[t] = call[t] /\ call[t] # NoCall /\ Queue!Ends(t)
  BY OpenCallFacts, CallStaysOpen
<1>3. Held' = Held
  BY DEF Held, ringVars
<1>4. Len(Held) = uxMessagesWaiting /\ (IsEmpty => Held = <<>>)
  BY HeldFacts, EmptySeq DEF Inv, IsEmpty
<1> QED BY <1>1, <1>2, <1>3, <1>4 DEF Queue!GiveUp, Is, NothingFor, IsFull

LEMMA QueueInitially == Init => Queue!QueueInit
<1> SUFFICES ASSUME Init
             PROVE  Queue!QueueInit
  OBVIOUS
<1>1. TypeOK /\ uxMessagesWaiting = 0
  BY InitInv DEF Inv, Init
<1>2. Held = <<>>
  BY <1>1, HeldFacts, EmptySeq
<1>3. OpenCalls = [t \in Tasks |-> NoCall]
  BY DEF Init, OpenCalls
<1> QED BY <1>1, <1>2, <1>3 DEF Queue!QueueInit, TypeOK

\* Every step of a task is one of the abstract queue, or changes nothing of it.
LEMMA StepImplements ==
  ASSUME Inv, Inv', NEW t \in Tasks, Step(t)
  PROVE  [Queue!QueueNext]_(Queue!queueVars)
<1> DEFINE Quiet == Held' = Held /\ OpenCalls' = OpenCalls /\ got' = got
<1>1. ASSUME Quiet
      PROVE  [Queue!QueueNext]_(Queue!queueVars)
  BY <1>1 DEF Queue!queueVars
<1>2. UNCHANGED ringVars => Held' = Held
  BY DEF ringVars, Held
<1>3. ASSUME NEW place, at[t] # "out", at' = [at EXCEPT ![t] = place], place # "out",
             UNCHANGED <<ringVars, call, got>>
      PROVE  Quiet
  BY <1>2, <1>3, CallStaysOpen
<1>4. ASSUME Queue!Put(t) \/ Queue!Get(t) \/ Queue!GiveUp(t) \/ Queue!Begin(t)
      PROVE  [Queue!QueueNext]_(Queue!queueVars)
  BY <1>4 DEF Queue!QueueNext
<1> HIDE DEF Quiet
<1>5. CASE Begin(t)
  <2>1. PICK c \in Requests[t] : call' = [call EXCEPT ![t] = c]
    BY <1>5 DEF Begin
  <2>2. /\ at[t] = "out" /\ at' = [at EXCEPT ![t] = "try"] /\ UNCHANGED <<ringVars, got>>
    BY <1>5 DEF Begin, Runs, Goto
  <2>3. c \in Queue!Calls
    BY QueueAssumption DEF Calls, Queue!Calls
  <2>4. OpenCalls' = [OpenCalls EXCEPT ![t] = c] /\ OpenCalls[t] = NoCall
    BY <2>1, <2>2 DEF Inv, TypeOK, OpenCalls
  <2>5. Queue!Begin(t)
    BY <1>2, <2>2, <2>3, <2>4 DEF Queue!Begin
  <2> QED BY <1>4, <2>5
<1>6. CASE Send(t)
  <2>1. /\ at[t] = "try" /\ at' = [at EXCEPT ![t] = "out"] /\ call' = call /\ got' = got
        /\ Is(t, "send") /\ ~IsFull /\ CopyTo(call[t].item)
    BY <1>6 DEF Send, Runs, Returns, Goto
  <2>2. Held' = Append(Held, call[t].item) /\ Len(Held) < uxLength
    BY <2>1, CallFacts, HeldAppends
  <2>3. OpenCalls[t] = call[t] /\ call[t] # NoCall /\ Queue!Ends(t)
    BY <2>1, OpenCallFacts, CallStaysOpen
  <2>4. Queue!Put(t)
    BY <2>1, <2>2, <2>3 DEF Queue!Put, Queue!InCall, Is
  <2> QED BY <1>4, <2>4
<1>7. CASE Receive(t)
  <2>1. /\ at[t] = "try" /\ at' = [at EXCEPT ![t] = "out"] /\ call' = call
        /\ Is(t, "receive") /\ ~IsEmpty /\ CopyFrom(t)
    BY <1>7 DEF Receive, Runs, Returns, Goto
  <2>2. Held # <<>> /\ Held' = Tail(Held) /\ got' = [got EXCEPT ![t] = Head(Held)]
    BY <2>1, HeldTail
  <2>3. OpenCalls[t] = call[t] /\ call[t] # NoCall /\ Queue!Ends(t)
    BY <2>1, OpenCallFacts, CallStaysOpen
  <2>4. Queue!Get(t)
    BY <2>1, <2>2, <2>3 DEF Queue!Get, Queue!InCall, Is
  <2> QED BY <1>4, <2>4
<1>8. CASE Fail(t)
  <2>1. /\ at[t] = "try" /\ at' = [at EXCEPT ![t] = "out"] /\ UNCHANGED <<ringVars, call, got>>
        /\ NothingFor(t) /\ MustNotWait(t)
    BY <1>8 DEF Fail, Runs, Returns, Goto, LocalStep
  <2>2. Is(t, "receive") => IsEmpty
    BY <2>1 DEF NothingFor, Is
  <2>3. Queue!GiveUp(t)
    BY <2>1, <2>2, FailsRightly DEF MustNotWait
  <2> QED BY <1>4, <2>3
<1>9. CASE Recheck(t)
  <2> DEFINE place == IF IsEmpty THEN "out" ELSE "try"
  <2>1. /\ at[t] = "recheck" /\ at' = [at EXCEPT ![t] = place]
        /\ UNCHANGED <<ringVars, call, got>>
    BY <1>9 DEF Recheck, Runs, Goto, LocalStep
  <2>2. clock[t] = "seen" /\ call[t].wait # "none" /\ at[t] # "out"
    BY <2>1 DEF Inv, CallInv
  <2>3. CASE IsEmpty
    <3>1. Queue!GiveUp(t)
      BY <2>1, <2>2, <2>3, FailsRightly
    <3> QED BY <1>4, <3>1
  <2>4. CASE ~IsEmpty
    BY <1>1, <1>3, <2>1, <2>2, <2>4
  <2> QED BY <2>3, <2>4
<1>10. CASE xTaskResumeAll(t)
  <2> DEFINE yields == xYieldPending \/ \E u \in xPendingReadyList : Priority[u] >= Priority[t]
             place == AfterResume(t, yields)
  <2>1. /\ at[t] = "resume" /\ at' = [at EXCEPT ![t] = place]
        /\ UNCHANGED <<ringVars, call, got>>
    BY <1>10 DEF xTaskResumeAll, Runs, Goto
  <2>2. /\ at[t] # "out" /\ call[t].wait # "none"
        /\ place = "out" => Is(t, "send") /\ clock[t] = "seen"
    <3>1. call[t].wait # "none"
      BY <2>1 DEF Inv, CallInv
    <3>2. \/ verdict = "block" \/ verdict = "again"
          \/ verdict = "failed" /\ clock[t] = "seen"
      BY <2>1 DEF Inv, VerdictInv
    <3> HIDE DEF yields
    <3> QED BY <2>1, <3>1, <3>2 DEF AfterResume, Is
  <2> HIDE DEF place, yields
  <2>3. CASE place = "out"
    <3>1. Queue!GiveUp(t)
      BY <2>1, <2>2, <2>3, FailsRightly DEF Is
    <3> QED BY <1>4, <3>1
  <2>4. CASE place # "out"
    BY <1>1, <1>3, <2>1, <2>2, <2>4
  <2> QED BY <2>3, <2>4
<1>11. CASE WillWait(t)
  BY <1>1, <1>3, <1>11 DEF WillWait, Runs, Goto, LocalStep
<1>12. CASE vTaskSuspendAll(t) \/ prvLockQueue(t) \/ prvUnlockQueue(t) \/ Yield(t)
  BY <1>1, <1>3, <1>12 DEF vTaskSuspendAll, prvLockQueue, prvUnlockQueue, Yield, Runs, Goto
<1>13. CASE CheckForTimeOut(t) \/ TestAgain(t) \/ vTaskPlaceOnEventList(t)
  BY <1>1, <1>3, <1>13 DEF CheckForTimeOut, TestAgain, vTaskPlaceOnEventList, Runs, Goto
<1> QED BY <1>5, <1>6, <1>7, <1>8, <1>9, <1>10, <1>11, <1>12, <1>13 DEF Step

LEMMA NextImplements ==
  ASSUME Inv, Inv', [Next]_vars
  PROVE  [Queue!QueueNext]_(Queue!queueVars)
<1>1. ASSUME NEW v \in Items, SendFromISR(v)
      PROVE  [Queue!QueueNext]_(Queue!queueVars)
  <2>1. ~IsFull /\ CopyTo(v) /\ UNCHANGED <<at, call, got>>
    BY <1>1 DEF SendFromISR, callVars
  <2>2. Held' = Append(Held, v) /\ Len(Held) < uxLength /\ OpenCalls' = OpenCalls
    BY <2>1, HeldAppends DEF OpenCalls
  <2>3. Queue!Post(v)
    BY <2>1, <2>2 DEF Queue!Post
  <2> QED BY <2>3 DEF Queue!QueueNext
<1>2. ASSUME UNCHANGED <<ringVars, at, call, got>>
      PROVE  [Queue!QueueNext]_(Queue!queueVars)
  BY <1>2 DEF Held, OpenCalls, ringVars, Queue!queueVars
<1>3. ASSUME NEW t \in Tasks, TimeIsOver(t)
      PROVE  [Queue!QueueNext]_(Queue!queueVars)
  BY <1>2, <1>3 DEF TimeIsOver
<1>4. CASE TimeSlice \/ UNCHANGED vars
  BY <1>2, <1>4 DEF TimeSlice, callVars, vars
<1> QED BY <1>1, <1>3, <1>4, StepImplements DEF Next

\* Whatever tasks and interrupts do between the critical sections, their calls take
\* effect as if each happened at once on a bounded FIFO.
THEOREM QueueIsImplemented == Spec => ImplementsQueue
<1>1. Inv /\ Inv' /\ [Next]_vars => [Queue!QueueNext]_(Queue!queueVars)
  BY NextImplements
<1> QED BY QueueInitially, Invariance, <1>1, PTL DEF Spec, ImplementsQueue, Queue!QueueSpec
-----------------------------------------------------------------------------
(* Members of event lists *)

Elements(list) == {list[i] : i \in DOMAIN list}
Distinct(list) == \A i, j \in DOMAIN list : list[i] = list[j] => i = j

LEMMA RestMembers ==
  ASSUME NEW list \in Seq(Tasks), Distinct(list)
  PROVE  /\ Distinct(Rest(list)) /\ Elements(Rest(list)) \subseteq Elements(list)
         /\ list # <<>> => /\ Head(list) \in Elements(list)
                           /\ Head(list) \notin Elements(Rest(list))
<1>1. CASE list = <<>>
  BY <1>1 DEF Rest
<1>2. CASE list # <<>>
  <2> DEFINE r == Rest(list)
  <2>1. /\ r \in Seq(Tasks) /\ Len(r) = Len(list) - 1 /\ Len(list) \in Nat
        /\ \A i \in 1 .. Len(r) : r[i] = list[i + 1]
        /\ Head(list) = list[1]
    BY <1>2, HeadTailProperties, LenProperties DEF Rest
  <2>2. DOMAIN list = 1 .. Len(list) /\ DOMAIN r = 1 .. Len(list) - 1
    BY <2>1, LenProperties
  <2> HIDE DEF r
  <2>3. \A i \in DOMAIN r : i + 1 \in DOMAIN list /\ i + 1 # 1 /\ r[i] = list[i + 1]
    BY <2>1, <2>2
  <2>4. 1 \in DOMAIN list
    <3>1. Len(list) # 0
      BY <1>2, EmptySeq
    <3> QED BY <2>1, <2>2, <3>1
  <2>5. Distinct(r)
    <3> SUFFICES ASSUME NEW i \in DOMAIN r, NEW j \in DOMAIN r, r[i] = r[j]
                 PROVE  i = j
      BY DEF Distinct
    <3>1. i + 1 = j + 1
      BY <2>3 DEF Distinct
    <3> QED BY <2>1, <2>2, <3>1
  <2> QED BY <2>1, <2>3, <2>4, <2>5 DEF Elements, Distinct, r
<1> QED BY <1>1, <1>2

LEMMA InsertedMembers ==
  ASSUME NEW list \in Seq(Tasks), NEW t \in Tasks, Distinct(list), Sorted(list),
         t \notin Elements(list)
  PROVE  /\ Distinct(Inserted(list, t))
         /\ Elements(Inserted(list, t)) \subseteq Elements(list) \cup {t}
<1> DEFINE n == Len(list)
           Stays(i) == i <= n /\ Priority[list[i]] >= Priority[t]
           new == [i \in 1 .. n + 1 |-> IF Stays(i) THEN list[i]
                                        ELSE IF i = 1 \/ Stays(i - 1) THEN t ELSE list[i - 1]]
           Here(i) == ~Stays(i) /\ (i = 1 \/ Stays(i - 1))
           Later(i) == ~Stays(i) /\ ~(i = 1 \/ Stays(i - 1))
<1>1. Inserted(list, t) = new
  BY DEF Inserted
<1>2. n \in Nat /\ DOMAIN list = 1 .. n /\ \A i \in 1 .. n : list[i] \in Tasks
  BY LenProperties, ElementOfSeq
<1>3. ASSUME NEW i \in 1 .. n, NEW j \in 1 .. n, i <= j, Stays(j)
      PROVE  Stays(i)
  <2>1. Priority[list[i]] \in Nat /\ Priority[list[j]] \in Nat /\ Priority[t] \in Nat
    BY <1>2, PriorityIsNat DEF Everyone
  <2>2. Priority[list[i]] >= Priority[list[j]]
    BY <1>2, <1>3, <2>1 DEF Sorted
  <2> QED BY <1>2, <1>3, <2>1, <2>2
<1> HIDE DEF n
<1>4. ASSUME NEW i \in 1 .. n + 1
      PROVE  \/ Stays(i) /\ i \in 1 .. n /\ new[i] = list[i]
             \/ Here(i) /\ new[i] = t
             \/ Later(i) /\ i - 1 \in 1 .. n /\ new[i] = list[i - 1]
  <2>1. CASE Stays(i)
    BY <1>2, <2>1
  <2>2. CASE Here(i)
    BY <2>2
  <2>3. CASE Later(i)
    BY <1>2, <2>3
  <2> QED BY <2>1, <2>2, <2>3
<1>5. \A i \in 1 .. n : list[i] \in Elements(list) /\ list[i] # t
  BY <1>2 DEF Elements
<1>6. DOMAIN new = 1 .. n + 1
  OBVIOUS
<1> HIDE DEF new
<1>7. ASSUME NEW i \in 1 .. n + 1, NEW j \in 1 .. n + 1, i < j
      PROVE  new[i] # new[j]
  <2>1. i \in 1 .. n /\ j - 1 \in 1 .. n /\ i <= j - 1
    BY <1>2, <1>7
  <2>2. \A k, l \in 1 .. n : list[k] = list[l] => k = l
    BY <1>2 DEF Distinct
  <2>3. CASE Stays(j)
    <3>1. j \in 1 .. n
      BY <1>2, <2>3
    <3>2. Stays(i)
      BY <1>3, <1>7, <2>1, <2>3, <3>1
    <3>3. new[i] = list[i] /\ new[j] = list[j]
      BY <1>4, <2>3, <3>2
    <3> QED BY <1>7, <2>1, <2>2, <3>1, <3>3
  <2>4. CASE Here(j)
    <3>1. Stays(j - 1)
      BY <1>7, <2>4
    <3>2. Stays(i)
      BY <1>3, <2>1, <3>1
    <3>3. new[i] = list[i] /\ new[j] = t
      BY <1>4, <2>4, <3>2
    <3> QED BY <1>5, <2>1, <3>3
  <2>5. CASE Later(j)
    <3>1. new[j] = list[j - 1] /\ ~Stays(j - 1)
      BY <1>4, <2>5
    <3>2. CASE Stays(i)
      <4>1. new[i] = list[i] /\ i # j - 1
        BY <1>4, <3>1, <3>2
      <4> QED BY <2>1, <2>2, <3>1, <4>1
    <3>3. CASE Here(i)
      <4>1. new[i] = t
        BY <1>4, <3>3
      <4> QED BY <1>5, <2>1, <3>1, <4>1
    <3>4. CASE Later(i)
      <4>1. new[i] = list[i - 1] /\ i - 1 \in 1 .. n
        BY <1>4, <3>4
      <4>2. i - 1 # j - 1
        BY <1>7
      <4> QED BY <2>1, <2>2, <3>1, <4>1, <4>2
    <3> QED BY <3>2, <3>3, <3>4
  <2> QED BY <2>3, <2>4, <2>5
<1>8. Distinct(new)
  <2> SUFFICES ASSUME NEW i \in 1 .. n + 1, NEW j \in 1 .. n + 1, new[i] = new[j]
               PROVE  i = j
    BY <1>6 DEF Distinct
  <2> QED BY <1>2, <1>7
<1>9. Elements(new) \subseteq Elements(list) \cup {t}
  <2> SUFFICES ASSUME NEW i \in 1 .. n + 1
               PROVE  new[i] \in Elements(list) \cup {t}
    BY <1>6 DEF Elements
  <2> QED BY <1>4, <1>5
<1> QED BY <1>1, <1>8, <1>9

\* What a list of some places of another one inherits.
LEMMA PickedMembers ==
  ASSUME NEW list, NEW part, Distinct(list), NEW place,
         \A i \in DOMAIN part : place[i] \in DOMAIN list /\ part[i] = list[place[i]],
         \A i, j \in DOMAIN part : place[i] = place[j] => i = j
  PROVE  /\ Distinct(part) /\ Elements(part) \subseteq Elements(list)
         /\ \A k \in DOMAIN list :
              (\A i \in DOMAIN part : place[i] # k) => list[k] \notin Elements(part)
BY DEF Distinct, Elements

LEMMA WithoutMembers ==
  ASSUME NEW list \in Seq(Tasks), NEW t \in Tasks, Distinct(list)
  PROVE  /\ Distinct(Without(list, t))
         /\ Elements(Without(list, t)) \subseteq Elements(list) \ {t}
<1>1. Len(list) \in Nat /\ DOMAIN list = 1 .. Len(list)
  BY LenProperties
<1>2. CASE ~ \E i \in DOMAIN list : list[i] = t
  BY <1>2 DEF Without, Elements
<1>3. CASE \E i \in DOMAIN list : list[i] = t
  <2> DEFINE k == CHOOSE i \in DOMAIN list : list[i] = t
             new == Without(list, t)
             place == [i \in DOMAIN new |-> IF i <= k - 1 THEN i ELSE i + 1]
  <2>1. k \in 1 .. Len(list) /\ list[k] = t
    BY <1>1, <1>3
  <2>2. new = SubSeq(list, 1, k - 1) \o SubSeq(list, k + 1, Len(list))
    BY <1>3 DEF Without
  <2> HIDE DEF k, new
  <2>3. /\ DOMAIN new = 1 .. Len(list) - 1
        /\ \A i \in 1 .. Len(list) - 1 : new[i] = list[IF i <= k - 1 THEN i ELSE i + 1]
    BY <2>1, <2>2, CutOut
  <2>4. \A i \in DOMAIN new : place[i] \in DOMAIN list /\ new[i] = list[place[i]]
    BY <1>1, <2>1, <2>3
  <2>5. \A i, j \in DOMAIN new : place[i] = place[j] => i = j
    BY <1>1, <2>1, <2>3
  <2>6. k \in DOMAIN list /\ \A i \in DOMAIN new : place[i] # k
    BY <1>1, <2>1, <2>3
  <2> HIDE DEF place
  <2>7. /\ Distinct(new) /\ Elements(new) \subseteq Elements(list)
        /\ \A l \in DOMAIN list :
             (\A i \in DOMAIN new : place[i] # l) => list[l] \notin Elements(new)
    BY <2>4, <2>5, PickedMembers, Zenon
  <2> QED BY <2>1, <2>6, <2>7 DEF new
<1> QED BY <1>2, <1>3

LEMMA TailMembers ==
  ASSUME NEW list \in Seq(Tasks), Distinct(list), NEW w \in 0 .. Len(list)
  PROVE  LET part == SubSeq(list, w + 1, Len(list))
         IN /\ Distinct(part) /\ Elements(part) \subseteq Elements(list)
            /\ \A k \in 1 .. w : list[k] \notin Elements(part)
            /\ part = <<>> \/ w < Len(list)
<1> DEFINE n == Len(list)
           part == SubSeq(list, w + 1, n)
           place == [i \in DOMAIN part |-> w + i]
<1>1. n \in Nat /\ DOMAIN list = 1 .. n /\ w \in 0 .. n
  BY LenProperties
<1>2. w + 1 \in 1 .. n + 1 /\ n \in 0 .. n
  BY <1>1
<1>3. /\ part \in Seq(Tasks) /\ Len(part) = IF w + 1 <= n THEN n - (w + 1) + 1 ELSE 0
      /\ \A i \in 1 .. Len(part) : part[i] = list[(w + 1) + i - 1]
  BY <1>2, PartFacts
<1> HIDE DEF part
<1>4. DOMAIN part = 1 .. Len(part)
  BY <1>3, LenProperties
<1> HIDE DEF n
<1>5. Len(part) = n - w
  BY <1>1, <1>3
<1>6. \A i \in 1 .. n - w : (w + 1) + i - 1 = w + i /\ w + i \in 1 .. n /\ w + i > w
  BY <1>1
<1>7. \A i \in DOMAIN part : place[i] \in DOMAIN list /\ part[i] = list[place[i]]
                             /\ place[i] > w /\ i \in Nat
  BY <1>1, <1>3, <1>4, <1>5, <1>6
<1>8. \A i, j \in DOMAIN part : place[i] = place[j] => i = j
  BY <1>1, <1>7
<1> HIDE DEF place
<1>9. /\ Distinct(part) /\ Elements(part) \subseteq Elements(list)
      /\ \A k \in DOMAIN list :
           (\A i \in DOMAIN part : place[i] # k) => list[k] \notin Elements(part)
  BY <1>7, <1>8, PickedMembers
<1>10. \A k \in 1 .. w : k \in DOMAIN list /\ \A i \in DOMAIN part : place[i] # k
  BY <1>1, <1>7
<1>11. part = <<>> \/ w < n
  BY <1>1, <1>3, <1>5, EmptySeq
<1> QED BY <1>9, <1>10, <1>11 DEF n, part

-----------------------------------------------------------------------------
(* Counting *)

LEMMA Grows ==
  ASSUME NEW A, NEW B \in SUBSET Tasks, A \subseteq B
  PROVE  /\ Cardinality(A) \in Nat /\ Cardinality(B) \in Nat
         /\ Cardinality(A) <= Cardinality(B)
<1>1. IsFiniteSet(A) /\ IsFiniteSet(B)
  BY QueueAssumption, FS_Subset
<1>2. Cardinality(A) \in Nat /\ Cardinality(B) \in Nat
  BY <1>1, FS_CardinalityType
<1> QED BY <1>1, <1>2, FS_Subset

LEMMA GainsOne ==
  ASSUME NEW A, NEW B \in SUBSET Tasks, NEW x \in B, x \notin A, A \subseteq B
  PROVE  /\ Cardinality(A) \in Nat /\ Cardinality(B) \in Nat
         /\ Cardinality(A) + 1 <= Cardinality(B)
<1>1. IsFiniteSet(B)
  BY QueueAssumption, FS_Subset
<1>2. A \subseteq B \ {x} /\ B \ {x} \in SUBSET Tasks
  OBVIOUS
<1>3. /\ Cardinality(A) \in Nat /\ Cardinality(B \ {x}) \in Nat
      /\ Cardinality(A) <= Cardinality(B \ {x})
  BY <1>2, Grows
<1>4. Cardinality(B \ {x}) = Cardinality(B) - 1
  BY <1>1, FS_RemoveElement
<1>5. Cardinality(B) \in Nat
  BY <1>1, FS_CardinalityType
<1> QED BY <1>3, <1>4, <1>5

LEMMA LosesOne ==
  ASSUME NEW A \in SUBSET Tasks, NEW B \in SUBSET Tasks, NEW x, A \ {x} \subseteq B
  PROVE  /\ Cardinality(A) \in Nat /\ Cardinality(B) \in Nat
         /\ Cardinality(A) <= Cardinality(B) + 1
<1>1. IsFiniteSet(A)
  BY QueueAssumption, FS_Subset
<1>2. /\ Cardinality(A \ {x}) \in Nat /\ Cardinality(B) \in Nat
      /\ Cardinality(A \ {x}) <= Cardinality(B)
  BY Grows
<1>3. Cardinality(A \ {x}) = IF x \in A THEN Cardinality(A) - 1 ELSE Cardinality(A)
  BY <1>1, FS_RemoveElement
<1>4. Cardinality(A) \in Nat
  BY <1>1, FS_CardinalityType
<1> QED BY <1>2, <1>3, <1>4

\* A set that takes in the first w members of a list of others grows by w.
LEMMA GainsMany ==
  ASSUME NEW A \in SUBSET Tasks, NEW B \in SUBSET Tasks, NEW list \in Seq(Tasks),
         Distinct(list), NEW w \in 0 .. Len(list), A \subseteq B,
         \A i \in 1 .. w : list[i] \in B \ A
  PROVE  /\ Cardinality(A) \in Nat /\ Cardinality(B) \in Nat
         /\ Cardinality(A) + w <= Cardinality(B)
<1> DEFINE N == B \ A
           first == [i \in 1 .. w |-> list[i]]
<1>1. IsFiniteSet(A) /\ IsFiniteSet(B) /\ IsFiniteSet(N)
  BY QueueAssumption, FS_Subset
<1>2. Cardinality(A) \in Nat /\ Cardinality(B) \in Nat /\ Cardinality(N) \in Nat
  BY <1>1, FS_CardinalityType
<1>3. Len(list) \in Nat /\ DOMAIN list = 1 .. Len(list) /\ w \in Nat
  BY LenProperties
<1>4. Cardinality(1 .. w) = w
  BY <1>3, FS_Interval
<1>5. first \in Injection(1 .. w, N)
  <2>1. first \in [1 .. w -> N]
    OBVIOUS
  <2>2. ASSUME NEW i \in 1 .. w, NEW j \in 1 .. w, first[i] = first[j]
        PROVE  i = j
    <3>1. i \in DOMAIN list /\ j \in DOMAIN list
      BY <1>3
    <3> QED BY <2>2, <3>1 DEF Distinct
  <2> HIDE DEF first
  <2> QED BY <2>1, <2>2 DEF Injection, IsInjective
<1>6. Cardinality(1 .. w) <= Cardinality(N)
  BY <1>1, <1>5, FS_Injection
<1>7. Cardinality(A \cup N) = Cardinality(A) + Cardinality(N) - Cardinality(A \cap N)
  BY <1>1, FS_Union
<1>8. A \cup N = B /\ A \cap N = {}
  OBVIOUS
<1>9. Cardinality(A \cap N) = 0
  BY <1>8, FS_EmptySet
<1> HIDE DEF N, first
<1>10. Cardinality(B) = Cardinality(A) + Cardinality(N) - 0
  BY <1>7, <1>8, <1>9
<1>11. w <= Cardinality(N) /\ w \in Nat
  BY <1>3, <1>4, <1>6
<1> QED BY <1>2, <1>10, <1>11

-----------------------------------------------------------------------------
(* The invariant *)

Receivers == Elements(xTasksWaitingToReceive)
Senders == Elements(xTasksWaitingToSend)
Alert == ready \cup xPendingReadyList

\* A waiter sleeps, and when it is woken will try again.
WaitInv ==
  /\ Distinct(xTasksWaitingToReceive) /\ Distinct(xTasksWaitingToSend)
  /\ ready \cap xPendingReadyList = {}
  /\ \A u \in Receivers : call[u].op = "receive"
  /\ \A u \in Senders : call[u].op = "send"
  /\ \A u \in Receivers \cup Senders :
       /\ at[u] \in {"try", "yield", "unlock", "resume"}
       /\ at[u] \in {"unlock", "resume"} => verdict = "block"
       /\ u \notin Alert

\* Between the test and the wait, only the interrupt changes what was tested, and
\* the lock counts it.
PlaceInv ==
  \A u \in Tasks : at[u] = "place" =>
    IF call[u].op = "send" THEN uxMessagesWaiting = uxLength
                           ELSE uxMessagesWaiting <= cTxLock

WInv == WaitInv /\ PlaceInv /\ NoLostWakeup

Posted == IF cTxLock > 0 THEN cTxLock ELSE 0

LEMMA WaitersAre == ASSUME TypeOK
                    PROVE  /\ Waiters = Receivers \cup Senders /\ Waiters \subseteq Tasks
                           /\ Receivers \subseteq Tasks /\ Senders \subseteq Tasks
<1>1. \A list \in Seq(Tasks) : Elements(list) \subseteq Tasks
  BY ElementOfSeq, LenProperties DEF Elements
<1> QED BY <1>1 DEF TypeOK, Waiters, Receivers, Senders, Elements

\* Those who will try again, before and after a step.
LEMMA AwakeFacts ==
  ASSUME TypeOK, TypeOK', WaitInv, WaitInv', NEW op
  PROVE  /\ Awake(op) \in SUBSET Tasks /\ Awake(op)' \in SUBSET Tasks
         /\ \A u \in Tasks :
              /\ u \in Awake(op) <=> u \in Alert /\ Tries(u) /\ call[u].op = op
              /\ u \in Awake(op)' <=> (u \in Alert /\ Tries(u) /\ call[u].op = op)'
<1>1. Waiters = Receivers \cup Senders
  BY WaitersAre
<1>2. Waiters' = (Receivers \cup Senders)'
  BY DEF Waiters, Receivers, Senders, Elements
<1>3. \A u \in Waiters : u \notin Alert
  BY <1>1 DEF WaitInv
<1>4. \A u \in Waiters' : u \notin Alert'
  BY <1>2 DEF WaitInv
<1> QED BY <1>3, <1>4 DEF Awake, Alert

\* The running task does not wait, unless it is on its way to give up the processor.
LEMMA RunnerFacts ==
  ASSUME Inv, WInv, NEW t \in Tasks, pxCurrentTCB = t
  PROVE  /\ \A u \in Tasks \ {t} : at[u] \notin SuspPlaces
         /\ at[t] \notin {"yield", "unlock", "resume"} =>
              t \in ready /\ t \in Alert /\ t \notin Receivers \cup Senders
<1>1. at[t] \notin {"yield", "unlock", "resume"} => t \in ready
  BY DEF Inv, ReadyInv
<1> QED BY <1>1 DEF Inv, SuspInv, WInv, WaitInv, Alert

\* NoLostWakeup, from the two counts that it compares.
LEMMA Counts ==
  ASSUME xTasksWaitingToReceive' # <<>> =>
           uxMessagesWaiting' <= Cardinality(Awake("receive")') + Posted',
         xTasksWaitingToSend' # <<>> =>
           uxLength - uxMessagesWaiting' <= Cardinality(Awake("send")')
  PROVE  NoLostWakeup'
BY DEF NoLostWakeup, Posted

LEMMA CountFacts ==
  ASSUME Inv, WInv
  PROVE  /\ uxLength \in Nat /\ uxMessagesWaiting \in 0 .. uxLength /\ Posted \in Nat
         /\ xTasksWaitingToReceive # <<>> =>
              uxMessagesWaiting <= Cardinality(Awake("receive")) + Posted
         /\ xTasksWaitingToSend # <<>> =>
              uxLength - uxMessagesWaiting <= Cardinality(Awake("send"))
BY QueueAssumption DEF Inv, TypeOK, WInv, NoLostWakeup, Posted

\* A step that neither touches the queue nor puts a willing task to sleep.
LEMMA NobodyFallsAsleep ==
  ASSUME Inv, Inv', WInv, WaitInv', UNCHANGED uxMessagesWaiting,
         xTasksWaitingToReceive' # <<>> =>
           /\ xTasksWaitingToReceive # <<>> /\ Posted' = Posted
           /\ Awake("receive") \subseteq Awake("receive")' \/ uxMessagesWaiting = 0,
         xTasksWaitingToSend' # <<>> =>
           /\ xTasksWaitingToSend # <<>>
           /\ Awake("send") \subseteq Awake("send")' \/ uxMessagesWaiting = uxLength
  PROVE  NoLostWakeup'
<1>1. /\ Awake("receive") \in SUBSET Tasks /\ Awake("receive")' \in SUBSET Tasks
      /\ Awake("send") \in SUBSET Tasks /\ Awake("send")' \in SUBSET Tasks
  BY AwakeFacts DEF Inv, WInv
<1>2. /\ Cardinality(Awake("receive")') \in Nat /\ Cardinality(Awake("send")') \in Nat
      /\ Cardinality(Awake("receive")) \in Nat /\ Cardinality(Awake("send")) \in Nat
  BY <1>1, Grows
<1>3. /\ uxLength \in Nat /\ uxMessagesWaiting \in 0 .. uxLength /\ Posted \in Nat
      /\ xTasksWaitingToReceive # <<>> =>
           uxMessagesWaiting <= Cardinality(Awake("receive")) + Posted
      /\ xTasksWaitingToSend # <<>> =>
           uxLength - uxMessagesWaiting <= Cardinality(Awake("send"))
  BY CountFacts
<1>4. ASSUME xTasksWaitingToReceive' # <<>>
      PROVE  uxMessagesWaiting' <= Cardinality(Awake("receive")') + Posted'
  <2>1. CASE uxMessagesWaiting = 0
    BY <1>2, <1>3, <1>4, <2>1
  <2>2. CASE Awake("receive") \subseteq Awake("receive")'
    <3>1. Cardinality(Awake("receive")) <= Cardinality(Awake("receive")')
      BY <1>1, <2>2, Grows
    <3> QED BY <1>2, <1>3, <1>4, <3>1
  <2> QED BY <1>4, <2>1, <2>2
<1>5. ASSUME xTasksWaitingToSend' # <<>>
      PROVE  uxLength - uxMessagesWaiting' <= Cardinality(Awake("send")')
  <2>1. CASE uxMessagesWaiting = uxLength
    BY <1>2, <1>3, <1>5, <2>1
  <2>2. CASE Awake("send") \subseteq Awake("send")'
    <3>1. Cardinality(Awake("send")) <= Cardinality(Awake("send")')
      BY <1>1, <2>2, Grows
    <3> QED BY <1>2, <1>3, <1>5, <3>1
  <2> QED BY <1>5, <2>1, <2>2
<1> QED BY <1>4, <1>5, Counts

-----------------------------------------------------------------------------
(* Each step keeps it *)

\* The steps that only move the running task about its call: the queue, the lists
\* and the tasks that are awake stay as they are, and the task is not put to sleep
\* with something in the queue for it.
QueueStays ==
  /\ UNCHANGED <<uxMessagesWaiting, xTasksWaitingToReceive, xTasksWaitingToSend, call>>
  /\ Alert' = Alert
  /\ xPendingReadyList' = {} \/ UNCHANGED <<ready, xPendingReadyList>>
  /\ cTxLock' = cTxLock \/ (cTxLock = -1 /\ cTxLock' = 0)

MayMove(t, place) ==
  /\ t \in Receivers \cup Senders => place \in {"try", "yield"}
  /\ Tries(t) => place \in {"try", "yield"} \/ NothingFor(t)
  /\ place = "place" => NothingFor(t)

LEMMA TaskMoves ==
  ASSUME Inv, Inv', WInv, NEW t \in Tasks, NEW place, pxCurrentTCB = t,
         Goto(t, place), QueueStays, MayMove(t, place)
  PROVE  WInv'
<1> USE DEF QueueStays, MayMove
<1>1. \A u \in Tasks \ {t} : at[u] \notin SuspPlaces /\ at'[u] = at[u]
  BY RunnerFacts DEF Inv, TypeOK, Goto
<1>2. at'[t] = place
  BY DEF Inv, TypeOK, Goto
<1>3. Receivers \cup Senders \subseteq Tasks
  BY WaitersAre DEF Inv
<1>4. WaitInv'
  <2>1. ASSUME NEW u \in Receivers \cup Senders
        PROVE  /\ at'[u] \in {"try", "yield", "unlock", "resume"}
               /\ at'[u] \in {"unlock", "resume"} => verdict' = "block"
    <3>1. CASE u = t
      BY <1>2, <3>1
    <3>2. CASE u # t
      BY <1>1, <1>3, <3>2 DEF WInv, WaitInv, SuspPlaces
    <3> QED BY <3>1, <3>2
  <2>2. /\ Receivers' = Receivers /\ Senders' = Senders /\ call' = call
        /\ UNCHANGED <<xTasksWaitingToReceive, xTasksWaitingToSend>>
    BY DEF Receivers, Senders
  <2> QED BY <2>1, <2>2 DEF WInv, WaitInv, Distinct
<1>5. PlaceInv'
  <2> SUFFICES ASSUME NEW u \in Tasks, at'[u] = "place"
               PROVE  IF call[u].op = "send" THEN uxMessagesWaiting = uxLength
                                             ELSE uxMessagesWaiting <= cTxLock'
    BY DEF PlaceInv
  <2>1. u = t /\ NothingFor(t)
    BY <1>1, <1>2 DEF SuspPlaces
  <2>2. cTxLock' # -1 /\ cTxLock' \in -1 .. uxLength
    BY DEF Inv, LockInv, LockedPlaces, queueUNLOCKED, TypeOK
  <2>3. cTxLock' >= 0
    BY <2>2, QueueAssumption
  <2> QED BY <2>1, <2>3 DEF NothingFor, Is, IsFull, IsEmpty
<1>6. /\ NothingFor(t) /\ call[t].op = "send" => uxMessagesWaiting = uxLength
      /\ NothingFor(t) /\ call[t].op = "receive" => uxMessagesWaiting = 0
  BY DEF NothingFor, Is, IsFull, IsEmpty
<1>7. ASSUME NEW op, ~(call[t].op = op /\ NothingFor(t))
      PROVE  Awake(op) \subseteq Awake(op)'
  <2>1. \A u \in Tasks : u \in Awake(op) => Tries(u)'
    <3> TAKE u \in Tasks
    <3> HAVE u \in Awake(op)
    <3>1. u \in Alert /\ Tries(u) /\ call[u].op = op
      BY <1>4, AwakeFacts DEF Inv, WInv
    <3>2. CASE u = t
      BY <1>2, <1>7, <3>1, <3>2 DEF Tries
    <3>3. CASE u # t
      BY <1>1, <3>1, <3>3 DEF Tries, SuspPlaces
    <3> QED BY <3>2, <3>3
  <2> QED BY <1>4, <2>1, AwakeFacts DEF Inv, WInv
<1>8. Posted' = Posted
  BY DEF Posted
<1>9. NoLostWakeup'
  BY <1>4, <1>6, <1>7, <1>8, NobodyFallsAsleep
<1> QED BY <1>4, <1>5, <1>9 DEF WInv

LEMMA FailWakes ==
  ASSUME Inv, Inv', WInv, NEW t \in Tasks, Fail(t) \/ WillWait(t)
  PROVE  WInv'
<1>1. PICK place \in {"out", "suspend"} : Goto(t, place)
  BY DEF Fail, WillWait, Returns
<1>2. pxCurrentTCB = t /\ at[t] = "try" /\ NothingFor(t) /\ QueueStays
  BY DEF Fail, WillWait, Runs, LocalStep, ringVars, eventVars, readyVars, Alert, QueueStays
<1>3. MayMove(t, place)
  BY <1>2, RunnerFacts DEF MayMove
<1> QED BY <1>1, <1>2, <1>3, TaskMoves

LEMMA RecheckWakes ==
  ASSUME Inv, Inv', WInv, NEW t \in Tasks, Recheck(t)
  PROVE  WInv'
<1>1. PICK place \in {"out", "try"} : Goto(t, place)
  BY DEF Recheck
<1>2. pxCurrentTCB = t /\ at[t] = "recheck" /\ QueueStays
  BY DEF Recheck, Runs, LocalStep, ringVars, eventVars, readyVars, Alert, QueueStays
<1>3. MayMove(t, place)
  BY <1>1, <1>2, RunnerFacts DEF MayMove, Tries
<1> QED BY <1>1, <1>2, <1>3, TaskMoves

\* On its way to wait ...
LEMMA LockingWakes ==
  ASSUME Inv, Inv', WInv, NEW t \in Tasks,
         vTaskSuspendAll(t) \/ prvLockQueue(t) \/ CheckForTimeOut(t) \/ TestAgain(t)
  PROVE  WInv'
<1>1. PICK place \in {"lock", "check", "test", "unlock", "place"} :
        Goto(t, place) /\ (place = "place" => NothingFor(t))
  BY DEF vTaskSuspendAll, prvLockQueue, CheckForTimeOut, TestAgain
<1>2. pxCurrentTCB = t /\ at[t] \in {"suspend", "lock", "check", "test"}
  BY DEF vTaskSuspendAll, prvLockQueue, CheckForTimeOut, TestAgain, Runs
<1>3. QueueStays
  BY DEF vTaskSuspendAll, prvLockQueue, CheckForTimeOut, TestAgain, Locked,
         queueUNLOCKED, queueLOCKED_UNMODIFIED, ringVars, eventVars, readyVars,
         Alert, QueueStays
<1>4. MayMove(t, place)
  BY <1>1, <1>2, RunnerFacts DEF MayMove, Tries
<1> QED BY <1>1, <1>2, <1>3, <1>4, TaskMoves

\* ... and back from there.
LEMMA YieldWakes ==
  ASSUME Inv, Inv', WInv, NEW t \in Tasks, Yield(t)
  PROVE  WInv'
<1>1. pxCurrentTCB = t /\ Goto(t, "try") /\ QueueStays
  BY DEF Yield, Runs, ringVars, eventVars, readyVars, Alert, QueueStays
<1>2. MayMove(t, "try")
  BY DEF MayMove
<1> QED BY <1>1, <1>2, TaskMoves

LEMMA ResumingWakes ==
  ASSUME Inv, Inv', WInv, NEW t \in Tasks, xTaskResumeAll(t)
  PROVE  WInv'
<1>1. PICK yielded : Goto(t, AfterResume(t, yielded))
  BY DEF xTaskResumeAll
<1> DEFINE place == AfterResume(t, yielded)
<1>2. pxCurrentTCB = t /\ at[t] = "resume" /\ QueueStays
  BY DEF xTaskResumeAll, Runs, ringVars, eventVars, Alert, QueueStays
<1>3. /\ verdict \in {"block", "again"} => place \in {"try", "yield"}
      /\ place # "place"
  <2>1. \/ verdict = "block" \/ verdict = "again" \/ verdict = "failed"
    BY <1>2 DEF Inv, VerdictInv
  <2> QED BY <2>1 DEF AfterResume
<1>4. t \in Receivers \cup Senders => verdict = "block"
  BY <1>2 DEF WInv, WaitInv
<1>5. Tries(t) => verdict \in {"block", "again"}
  BY <1>2 DEF Tries
<1>6. Goto(t, place)
  BY <1>1
<1> HIDE DEF place
<1>7. MayMove(t, place)
  BY <1>3, <1>4, <1>5 DEF MayMove
<1> QED BY <1>2, <1>6, <1>7, TaskMoves

LEMMA BeginWakes ==
  ASSUME Inv, Inv', WInv, NEW t \in Tasks, Begin(t)
  PROVE  WInv'
<1>1. /\ pxCurrentTCB = t /\ at[t] = "out" /\ at' = [at EXCEPT ![t] = "try"]
      /\ UNCHANGED <<uxMessagesWaiting, xTasksWaitingToReceive, xTasksWaitingToSend,
                     cTxLock, ready, xPendingReadyList, verdict>>
  BY DEF Begin, Runs, Goto, ringVars, eventVars, readyVars
<1>2. PICK c : call' = [call EXCEPT ![t] = c]
  BY DEF Begin
<1>3. /\ \A u \in Tasks \ {t} : /\ at[u] \notin SuspPlaces
                               /\ at'[u] = at[u] /\ call'[u] = call[u]
      /\ at'[t] = "try" /\ t \notin Receivers \cup Senders
  BY <1>1, <1>2, RunnerFacts DEF Inv, TypeOK
<1>4. Receivers \cup Senders \subseteq Tasks \ {t}
  BY <1>3, WaitersAre DEF Inv
<1>5. /\ Alert' = Alert /\ Receivers' = Receivers /\ Senders' = Senders
      /\ Posted' = Posted
  BY <1>1 DEF Alert, Receivers, Senders, Posted
<1>6. WaitInv'
  BY <1>1, <1>3, <1>4, <1>5 DEF WInv, WaitInv, Distinct
<1>7. PlaceInv'
  BY <1>1, <1>3 DEF PlaceInv, SuspPlaces
<1>8. ASSUME NEW op
      PROVE  Awake(op) \subseteq Awake(op)'
  <2>1. ~Tries(t)
    BY <1>1 DEF Tries
  <2>2. \A u \in Tasks \ {t} : Tries(u) => Tries(u)'
    BY <1>1, <1>3 DEF Tries
  <2> QED BY <1>3, <1>5, <1>6, <2>1, <2>2, AwakeFacts DEF Inv, WInv
<1>9. NoLostWakeup'
  BY <1>1, <1>5, <1>6, <1>8, NobodyFallsAsleep
<1> QED BY <1>6, <1>7, <1>9 DEF WInv

LEMMA TimeIsOverWakes ==
  ASSUME Inv, Inv', WInv, NEW t \in Tasks, TimeIsOver(t)
  PROVE  WInv'
<1> DEFINE r == xTasksWaitingToReceive
           s == xTasksWaitingToSend
<1>1. /\ uxSchedulerSuspended = 0 /\ ready' = ready \cup {t}
      /\ r' = Without(r, t) /\ s' = Without(s, t)
      /\ UNCHANGED <<uxMessagesWaiting, cTxLock, xPendingReadyList, at, call, verdict>>
  BY DEF TimeIsOver, ringVars
<1>2. \A u \in Tasks : at[u] \notin SuspPlaces
  BY <1>1 DEF Inv, SuspInv
<1>3. /\ r \in Seq(Tasks) /\ s \in Seq(Tasks) /\ Distinct(r) /\ Distinct(s)
  BY DEF Inv, TypeOK, WInv, WaitInv
<1>4. /\ Distinct(r') /\ Receivers' \subseteq Receivers \ {t}
      /\ Distinct(s') /\ Senders' \subseteq Senders \ {t}
  BY <1>1, <1>3, WithoutMembers DEF Receivers, Senders
<1>5. (r = <<>> => r' = <<>>) /\ (s = <<>> => s' = <<>>)
  BY <1>1 DEF Without
<1> HIDE DEF r, s
<1>6. Alert' = Alert \cup {t} /\ Posted' = Posted /\ xPendingReadyList' = {}
  BY <1>1 DEF Alert, Posted, Inv, ReadyInv
<1>7. WaitInv'
  BY <1>1, <1>4, <1>6 DEF WInv, WaitInv, r, s
<1>8. PlaceInv'
  BY <1>1, <1>2 DEF PlaceInv, SuspPlaces
<1>9. ASSUME NEW op
      PROVE  Awake(op) \subseteq Awake(op)'
  <2>1. \A u \in Tasks : Tries(u)' = Tries(u)
    BY <1>1 DEF Tries
  <2> QED BY <1>1, <1>6, <1>7, <2>1, AwakeFacts DEF Inv, WInv
<1>10. NoLostWakeup'
  BY <1>1, <1>5, <1>6, <1>7, <1>9, NobodyFallsAsleep DEF r, s
<1> QED BY <1>7, <1>8, <1>10 DEF WInv

LEMMA OthersWake ==
  ASSUME Inv, Inv', WInv, TimeSlice \/ UNCHANGED vars
  PROVE  WInv'
<1>1. UNCHANGED <<uxMessagesWaiting, xTasksWaitingToReceive, xTasksWaitingToSend,
                  cTxLock, ready, xPendingReadyList, at, call, verdict>>
  BY DEF TimeSlice, vars, ringVars, eventVars, readyVars, callVars
<1>2. /\ Alert' = Alert /\ Receivers' = Receivers /\ Senders' = Senders
      /\ Posted' = Posted
  BY <1>1 DEF Alert, Receivers, Senders, Posted
<1>3. WaitInv' /\ PlaceInv'
  BY <1>1, <1>2 DEF WInv, WaitInv, Distinct, PlaceInv
<1>4. ASSUME NEW op
      PROVE  Awake(op) \subseteq Awake(op)'
  <2>1. \A u \in Tasks : Tries(u)' = Tries(u)
    BY <1>1 DEF Tries
  <2> QED BY <1>1, <1>2, <1>3, <2>1, AwakeFacts DEF Inv, WInv
<1>5. NoLostWakeup'
  BY <1>1, <1>2, <1>3, <1>4, NobodyFallsAsleep
<1> QED BY <1>3, <1>5 DEF WInv

LEMMA vTaskPlaceOnEventListWakes ==
  ASSUME Inv, Inv', WInv, NEW t \in Tasks, vTaskPlaceOnEventList(t)
  PROVE  WInv'
<1> DEFINE r == xTasksWaitingToReceive
           s == xTasksWaitingToSend
<1>1. /\ pxCurrentTCB = t /\ at[t] = "place" /\ at' = [at EXCEPT ![t] = "unlock"]
      /\ ready' = ready \ {t}
      /\ UNCHANGED <<uxMessagesWaiting, cTxLock, xPendingReadyList, call, verdict>>
  BY DEF vTaskPlaceOnEventList, Runs, Goto, ringVars
<1>2. /\ call[t].op = "send" => s' = Inserted(s, t) /\ r' = r
      /\ call[t].op # "send" => r' = Inserted(r, t) /\ s' = s
  BY DEF vTaskPlaceOnEventList, Is
<1>3. call[t].op \in {"send", "receive"}
  BY <1>1, CallFacts, QueueAssumption DEF Calls
<1>4. /\ \A u \in Tasks \ {t} : at[u] \notin SuspPlaces /\ at'[u] = at[u]
      /\ at'[t] = "unlock" /\ verdict = "block"
      /\ t \notin Receivers \cup Senders /\ t \in ready
  BY <1>1, RunnerFacts DEF Inv, TypeOK, VerdictInv
<1>5. /\ r \in Seq(Tasks) /\ s \in Seq(Tasks) /\ Distinct(r) /\ Distinct(s)
      /\ Sorted(r) /\ Sorted(s)
  BY DEF Inv, TypeOK, WInv, WaitInv, WaitersSorted
<1>6. /\ Distinct(r') /\ Distinct(s')
      /\ call[t].op = "send" => Senders' \subseteq Senders \cup {t} /\ Receivers' = Receivers
      /\ call[t].op # "send" => Receivers' \subseteq Receivers \cup {t} /\ Senders' = Senders
  <2>1. CASE call[t].op = "send"
    BY <1>2, <1>4, <1>5, <2>1, InsertedMembers DEF Receivers, Senders
  <2>2. CASE call[t].op # "send"
    BY <1>2, <1>4, <1>5, <2>2, InsertedMembers DEF Receivers, Senders
  <2> QED BY <2>1, <2>2
<1>7. Alert' = Alert \ {t} /\ Posted' = Posted /\ ready' \cap xPendingReadyList' = {}
  BY <1>1, <1>4 DEF Alert, Posted, WInv, WaitInv
<1> HIDE DEF r, s
<1>8. WaitInv'
  <2>1. ASSUME NEW u \in Receivers' \cup Senders'
        PROVE  /\ at'[u] \in {"try", "yield", "unlock", "resume"}
               /\ at'[u] \in {"unlock", "resume"} => verdict' = "block"
               /\ u \notin Alert'
    <3>1. CASE u = t
      BY <1>1, <1>4, <1>7, <3>1
    <3>2. CASE u # t
      <4>1. u \in Receivers \cup Senders /\ u \in Tasks
        BY <1>6, <3>2, WaitersAre DEF Inv
      <4> QED BY <1>1, <1>4, <1>7, <3>2, <4>1 DEF WInv, WaitInv
    <3> QED BY <3>1, <3>2
  <2>2. /\ \A u \in Receivers' : call'[u].op = "receive"
        /\ \A u \in Senders' : call'[u].op = "send"
    BY <1>1, <1>3, <1>6 DEF WInv, WaitInv
  <2> QED BY <1>6, <1>7, <2>1, <2>2 DEF WaitInv, r, s
<1>9. PlaceInv'
  BY <1>1, <1>4 DEF PlaceInv, SuspPlaces
<1>10. ASSUME NEW op
       PROVE  Awake(op) \subseteq Awake(op)'
  <2>1. ~Tries(t)
    BY <1>1 DEF Tries
  <2>2. \A u \in Tasks \ {t} : Tries(u) => Tries(u)'
    BY <1>1, <1>4 DEF Tries
  <2> QED BY <1>1, <1>7, <1>8, <2>1, <2>2, AwakeFacts DEF Inv, WInv
<1>11. /\ Awake("receive")' \in SUBSET Tasks /\ Awake("send")' \in SUBSET Tasks
       /\ Awake("receive") \in SUBSET Tasks /\ Awake("send") \in SUBSET Tasks
  BY <1>8, AwakeFacts DEF Inv, WInv
<1>12. /\ Cardinality(Awake("receive")) \in Nat /\ Cardinality(Awake("receive")') \in Nat
       /\ Cardinality(Awake("receive")) <= Cardinality(Awake("receive")')
       /\ Cardinality(Awake("send")) \in Nat /\ Cardinality(Awake("send")') \in Nat
       /\ Cardinality(Awake("send")) <= Cardinality(Awake("send")')
  BY <1>10, <1>11, Grows
<1>13. /\ uxLength \in Nat /\ uxMessagesWaiting \in 0 .. uxLength /\ Posted \in Nat
       /\ r # <<>> => uxMessagesWaiting <= Cardinality(Awake("receive")) + Posted
       /\ s # <<>> => uxLength - uxMessagesWaiting <= Cardinality(Awake("send"))
  BY CountFacts DEF r, s
<1>14. /\ call[t].op = "send" => uxMessagesWaiting = uxLength
       /\ call[t].op # "send" => uxMessagesWaiting <= Posted
  <2>1. cTxLock \in -1 .. uxLength /\ uxMessagesWaiting \in Nat
    BY <1>13 DEF Inv, TypeOK
  <2>2. call[t].op # "send" => uxMessagesWaiting <= cTxLock
    BY <1>1 DEF WInv, PlaceInv
  <2>3. call[t].op = "send" => uxMessagesWaiting = uxLength
    BY <1>1 DEF WInv, PlaceInv
  <2> QED BY <1>13, <2>1, <2>2, <2>3 DEF Posted
<1>15. r' # <<>> => uxMessagesWaiting' <= Cardinality(Awake("receive")') + Posted'
  <2>1. CASE call[t].op = "send"
    BY <1>1, <1>2, <1>7, <1>12, <1>13, <2>1
  <2>2. CASE call[t].op # "send"
    BY <1>1, <1>7, <1>12, <1>13, <1>14, <2>2
  <2> QED BY <2>1, <2>2
<1>16. s' # <<>> => uxLength - uxMessagesWaiting' <= Cardinality(Awake("send")')
  <2>1. CASE call[t].op = "send"
    BY <1>1, <1>12, <1>13, <1>14, <2>1
  <2>2. CASE call[t].op # "send"
    BY <1>1, <1>2, <1>12, <1>13, <2>2
  <2> QED BY <2>1, <2>2
<1>17. NoLostWakeup'
  BY <1>15, <1>16, Counts DEF r, s
<1> QED BY <1>8, <1>9, <1>17 DEF WInv

\* Where the queue is unlocked, nobody is about to be put on a list.
LEMMA NobodyPlaces ==
  ASSUME Inv', cTxLock' = queueUNLOCKED
  PROVE  PlaceInv'
BY DEF Inv, LockInv, LockedPlaces, PlaceInv

\* The head of a list is awake after it has been woken.
LEMMA HeadWakes ==
  ASSUME Inv, WInv, NEW list \in Seq(Tasks), WakesHead(list), Distinct(list),
         Elements(list) \subseteq Receivers \cup Senders
  PROVE  /\ Distinct(Rest(list)) /\ Elements(Rest(list)) \subseteq Elements(list)
         /\ ready' \cap xPendingReadyList' = {}
         /\ list = <<>> => Rest(list) = <<>> /\ Alert' = Alert
         /\ list # <<>> =>
              /\ Head(list) \in Elements(list) \ Elements(Rest(list))
              /\ Head(list) \notin Alert /\ Alert' = Alert \cup {Head(list)}
<1> DEFINE h == Head(list)
<1>1. /\ Distinct(Rest(list)) /\ Elements(Rest(list)) \subseteq Elements(list)
      /\ list # <<>> => h \in Elements(list) /\ h \notin Elements(Rest(list))
  BY RestMembers
<1>2. CASE list = <<>>
  <2>1. UNCHANGED <<ready, xPendingReadyList>> /\ Rest(list) = <<>>
    BY <1>2 DEF WakesHead, readyVars, Rest
  <2> QED BY <1>1, <1>2, <2>1 DEF WInv, WaitInv, Alert
<1>3. CASE list # <<>>
  <2>1. Wakes(h)
    BY <1>3 DEF WakesHead
  <2> HIDE DEF h
  <2>2. h \notin Alert /\ ready \cap xPendingReadyList = {}
    BY <1>1, <1>3 DEF WInv, WaitInv
  <2>3. Alert' = Alert \cup {h} /\ ready' \cap xPendingReadyList' = {}
    BY <2>1, <2>2 DEF Wakes, Alert
  <2> QED BY <1>1, <1>3, <2>2, <2>3 DEF h
<1> QED BY <1>2, <1>3

\* An item comes into the unlocked queue, and the first receiver is woken for it;
\* when a sender brings it, that one tries no more.
LEMMA ItemComes ==
  ASSUME Inv, Inv', WInv, WakesHead(xTasksWaitingToReceive),
         xTasksWaitingToReceive' = Rest(xTasksWaitingToReceive),
         UNCHANGED <<xTasksWaitingToSend, call, verdict, cTxLock>>,
         cTxLock = queueUNLOCKED, uxMessagesWaiting' = uxMessagesWaiting + 1,
         NEW sender \in Everyone, sender \notin Receivers \cup Senders,
         \A u \in Tasks \ {sender} : at'[u] = at[u],
         sender \in Tasks => call[sender].op = "send"
  PROVE  WInv'
<1> DEFINE r == xTasksWaitingToReceive
           h == Head(r)
<1>1. r \in Seq(Tasks) /\ Distinct(r) /\ Receivers = Elements(r)
      /\ Receivers \cup Senders \subseteq Tasks \ {sender}
  BY WaitersAre DEF Inv, TypeOK, WInv, WaitInv, Receivers
<1>2. /\ Distinct(r') /\ Receivers' \subseteq Receivers /\ Senders' = Senders
      /\ ready' \cap xPendingReadyList' = {}
      /\ r = <<>> => r' = <<>> /\ Alert' = Alert
      /\ r # <<>> => h \in Receivers \ Receivers' /\ h \notin Alert /\ Alert' = Alert \cup {h}
  BY <1>1, HeadWakes DEF Receivers, Senders
<1> HIDE DEF r, h
<1>3. \A u \in Receivers' \cup Senders' : u \notin Alert'
  <2>1. \A u \in Receivers \cup Senders : u \notin Alert
    BY DEF WInv, WaitInv
  <2>2. \A u \in Senders : u \notin Receivers
    BY DEF WInv, WaitInv
  <2> QED BY <1>2, <2>1, <2>2
<1>4. WaitInv'
  BY <1>1, <1>2, <1>3 DEF WInv, WaitInv, r, Distinct
<1>5. PlaceInv'
  BY NobodyPlaces
<1>6. \A u \in Tasks \ {sender} : Tries(u)' = Tries(u)
  BY DEF Tries
<1>7. /\ Awake("receive")' \in SUBSET Tasks /\ Awake("send")' \in SUBSET Tasks
      /\ Awake("receive") \in SUBSET Tasks /\ Awake("send") \in SUBSET Tasks
      /\ Awake("receive") \subseteq Awake("receive")'
      /\ Awake("send") \ {sender} \subseteq Awake("send")'
  <2>1. Alert \subseteq Alert'
    BY <1>2
  <2> QED BY <1>4, <1>6, <2>1, AwakeFacts DEF Inv, WInv
<1>8. r # <<>> => h \in Awake("receive")' /\ h \notin Awake("receive")
  <2> SUFFICES ASSUME r # <<>>
               PROVE  h \in Awake("receive")' /\ h \notin Awake("receive")
    OBVIOUS
  <2>1. h \in Receivers /\ h \in Tasks \ {sender} /\ h \notin Alert /\ h \in Alert'
    BY <1>1, <1>2
  <2>2. call[h].op = "receive" /\ Tries(h)
    BY <2>1 DEF WInv, WaitInv, Tries
  <2> QED BY <1>4, <1>6, <2>1, <2>2, AwakeFacts DEF Inv, WInv
<1>9. /\ uxLength \in Nat /\ uxMessagesWaiting \in 0 .. uxLength
      /\ Posted = 0 /\ Posted' = 0
      /\ r # <<>> => uxMessagesWaiting <= Cardinality(Awake("receive")) + Posted
      /\ xTasksWaitingToSend # <<>> =>
           uxLength - uxMessagesWaiting <= Cardinality(Awake("send"))
  BY CountFacts DEF r, Posted, queueUNLOCKED
<1>10. r' # <<>> => uxMessagesWaiting' <= Cardinality(Awake("receive")') + Posted'
  <2> SUFFICES ASSUME r # <<>>
               PROVE  uxMessagesWaiting' <= Cardinality(Awake("receive")') + Posted'
    BY <1>2
  <2>1. /\ Cardinality(Awake("receive")) \in Nat /\ Cardinality(Awake("receive")') \in Nat
        /\ Cardinality(Awake("receive")) + 1 <= Cardinality(Awake("receive")')
    BY <1>7, <1>8, GainsOne
  <2> QED BY <1>9, <2>1
<1>11. xTasksWaitingToSend' # <<>> =>
         uxLength - uxMessagesWaiting' <= Cardinality(Awake("send")')
  <2>1. /\ Cardinality(Awake("send")) \in Nat /\ Cardinality(Awake("send")') \in Nat
        /\ Cardinality(Awake("send")) <= Cardinality(Awake("send")') + 1
    BY <1>7, LosesOne
  <2> QED BY <1>9, <2>1
<1>12. NoLostWakeup'
  BY <1>10, <1>11, Counts DEF r
<1> QED BY <1>4, <1>5, <1>12 DEF WInv

LEMMA SendWakes ==
  ASSUME Inv, Inv', WInv, NEW t \in Tasks, Send(t)
  PROVE  WInv'
<1>1. /\ pxCurrentTCB = t /\ at[t] = "try" /\ call[t].op = "send"
      /\ uxMessagesWaiting' = uxMessagesWaiting + 1
      /\ WakesHead(xTasksWaitingToReceive)
      /\ xTasksWaitingToReceive' = Rest(xTasksWaitingToReceive)
      /\ UNCHANGED <<xTasksWaitingToSend, call, verdict, cTxLock>>
      /\ at' = [at EXCEPT ![t] = "out"]
  BY DEF Send, Runs, Is, CopyTo, Returns, Goto
<1>2. t \notin Receivers \cup Senders /\ t \in Everyone
  BY <1>1, RunnerFacts DEF Everyone
<1>3. cTxLock = queueUNLOCKED
  BY <1>1, RunsUnlocked DEF SuspPlaces
<1>4. \A u \in Tasks \ {t} : at'[u] = at[u]
  BY <1>1 DEF Inv, TypeOK
<1> QED BY <1>1, <1>2, <1>3, <1>4, ItemComes

LEMMA ReceiveWakes ==
  ASSUME Inv, Inv', WInv, NEW t \in Tasks, Receive(t)
  PROVE  WInv'
<1> DEFINE s == xTasksWaitingToSend
           h == Head(s)
<1>1. /\ pxCurrentTCB = t /\ at[t] = "try" /\ call[t].op = "receive"
      /\ uxMessagesWaiting' = uxMessagesWaiting - 1 /\ uxMessagesWaiting # 0
      /\ WakesHead(s) /\ s' = Rest(s)
      /\ UNCHANGED <<xTasksWaitingToReceive, call, verdict, cTxLock>>
      /\ at' = [at EXCEPT ![t] = "out"]
  BY DEF Receive, Runs, Is, CopyFrom, IsEmpty, Returns, Goto
<1>2. t \notin Receivers \cup Senders
  BY <1>1, RunnerFacts
<1>3. cTxLock = queueUNLOCKED
  BY <1>1, RunsUnlocked DEF SuspPlaces
<1>4. \A u \in Tasks \ {t} : at'[u] = at[u]
  BY <1>1 DEF Inv, TypeOK
<1>5. s \in Seq(Tasks) /\ Distinct(s) /\ Senders = Elements(s)
      /\ Receivers \cup Senders \subseteq Tasks \ {t}
  BY <1>2, WaitersAre DEF Inv, TypeOK, WInv, WaitInv, Senders
<1>6. /\ Distinct(s') /\ Senders' \subseteq Senders /\ Receivers' = Receivers
      /\ ready' \cap xPendingReadyList' = {}
      /\ s = <<>> => s' = <<>> /\ Alert' = Alert
      /\ s # <<>> => h \in Senders \ Senders' /\ h \notin Alert /\ Alert' = Alert \cup {h}
  BY <1>1, <1>5, HeadWakes DEF Receivers, Senders
<1> HIDE DEF s, h
<1>7. \A u \in Receivers' \cup Senders' : u \notin Alert'
  <2>1. \A u \in Receivers \cup Senders : u \notin Alert
    BY DEF WInv, WaitInv
  <2>2. \A u \in Receivers : u \notin Senders
    BY DEF WInv, WaitInv
  <2> QED BY <1>6, <2>1, <2>2
<1>8. WaitInv'
  BY <1>1, <1>4, <1>5, <1>6, <1>7 DEF WInv, WaitInv, s, Distinct
<1>9. PlaceInv'
  BY <1>1, <1>3, NobodyPlaces
<1>10. \A u \in Tasks \ {t} : Tries(u)' = Tries(u)
  BY <1>1, <1>4 DEF Tries
<1>11. /\ Awake("receive")' \in SUBSET Tasks /\ Awake("send")' \in SUBSET Tasks
       /\ Awake("receive") \in SUBSET Tasks /\ Awake("send") \in SUBSET Tasks
       /\ Awake("send") \subseteq Awake("send")'
       /\ Awake("receive") \ {t} \subseteq Awake("receive")'
  <2>1. Alert \subseteq Alert'
    BY <1>6
  <2> QED BY <1>1, <1>8, <1>10, <2>1, AwakeFacts DEF Inv, WInv
<1>12. s # <<>> => h \in Awake("send")' /\ h \notin Awake("send")
  <2> SUFFICES ASSUME s # <<>>
               PROVE  h \in Awake("send")' /\ h \notin Awake("send")
    OBVIOUS
  <2>1. h \in Senders /\ h \in Tasks \ {t} /\ h \notin Alert /\ h \in Alert'
    BY <1>5, <1>6
  <2>2. call[h].op = "send" /\ Tries(h)
    BY <2>1 DEF WInv, WaitInv, Tries
  <2> QED BY <1>1, <1>8, <1>10, <2>1, <2>2, AwakeFacts DEF Inv, WInv
<1>13. /\ uxLength \in Nat /\ uxMessagesWaiting \in 0 .. uxLength
       /\ Posted = 0 /\ Posted' = 0
       /\ xTasksWaitingToReceive # <<>> =>
            uxMessagesWaiting <= Cardinality(Awake("receive")) + Posted
       /\ s # <<>> => uxLength - uxMessagesWaiting <= Cardinality(Awake("send"))
  BY <1>1, <1>3, CountFacts DEF s, Posted, queueUNLOCKED
<1>14. xTasksWaitingToReceive' # <<>> =>
         uxMessagesWaiting' <= Cardinality(Awake("receive")') + Posted'
  <2>1. /\ Cardinality(Awake("receive")) \in Nat /\ Cardinality(Awake("receive")') \in Nat
        /\ Cardinality(Awake("receive")) <= Cardinality(Awake("receive")') + 1
    BY <1>11, LosesOne
  <2> QED BY <1>1, <1>13, <2>1
<1>15. s' # <<>> => uxLength - uxMessagesWaiting' <= Cardinality(Awake("send")')
  <2> SUFFICES ASSUME s # <<>>
               PROVE  uxLength - uxMessagesWaiting' <= Cardinality(Awake("send")')
    BY <1>6
  <2>1. /\ Cardinality(Awake("send")) \in Nat /\ Cardinality(Awake("send")') \in Nat
        /\ Cardinality(Awake("send")) + 1 <= Cardinality(Awake("send")')
    BY <1>11, <1>12, GainsOne
  <2> QED BY <1>1, <1>13, <2>1
<1>16. NoLostWakeup'
  BY <1>14, <1>15, Counts DEF s
<1> QED BY <1>8, <1>9, <1>16 DEF WInv

LEMMA SendFromISRWakes ==
  ASSUME Inv, Inv', WInv, NEW v \in Items, SendFromISR(v)
  PROVE  WInv'
<1>1. /\ uxMessagesWaiting' = uxMessagesWaiting + 1 /\ uxMessagesWaiting # uxLength
      /\ UNCHANGED <<xTasksWaitingToSend, at, call, verdict>>
  BY DEF SendFromISR, CopyTo, IsFull, callVars
<1>2. CASE cTxLock = queueUNLOCKED
  <2>1. /\ WakesHead(xTasksWaitingToReceive) /\ cTxLock' = cTxLock
        /\ xTasksWaitingToReceive' = Rest(xTasksWaitingToReceive)
    BY <1>2 DEF SendFromISR
  <2>2. Idle \in Everyone /\ Idle \notin Receivers \cup Senders /\ Idle \notin Tasks
    BY WaitersAre, QueueAssumption DEF Everyone, Inv
  <2> QED BY <1>1, <1>2, <2>1, <2>2, ItemComes
<1>3. CASE cTxLock # queueUNLOCKED
  <2>1. /\ cTxLock' = cTxLock + 1
        /\ UNCHANGED <<xTasksWaitingToReceive, ready, xPendingReadyList>>
    BY <1>3 DEF SendFromISR, readyVars
  <2>2. /\ Alert' = Alert /\ Receivers' = Receivers /\ Senders' = Senders
    BY <1>1, <2>1 DEF Alert, Receivers, Senders
  <2>3. WaitInv'
    BY <1>1, <2>1, <2>2 DEF WInv, WaitInv, Distinct
  <2>4. /\ uxLength \in Nat /\ uxMessagesWaiting \in 0 .. uxLength /\ cTxLock \in Nat
    BY <1>3, QueueAssumption DEF Inv, TypeOK, queueUNLOCKED
  <2>5. PlaceInv'
    BY <1>1, <2>1, <2>4 DEF WInv, PlaceInv
  <2>6. ASSUME NEW op
        PROVE  Awake(op)' = Awake(op) /\ Cardinality(Awake(op)) \in Nat
    <3>1. \A u \in Tasks : Tries(u)' = Tries(u)
      BY <1>1 DEF Tries
    <3>2. /\ Awake(op) \in SUBSET Tasks /\ Awake(op)' \in SUBSET Tasks
          /\ \A u \in Tasks :
               /\ u \in Awake(op) <=> u \in Alert /\ Tries(u) /\ call[u].op = op
               /\ u \in Awake(op)' <=> (u \in Alert /\ Tries(u) /\ call[u].op = op)'
      BY <2>3, AwakeFacts DEF Inv, WInv
    <3>3. \A u \in Tasks : u \in Awake(op)' <=> u \in Awake(op)
      BY <1>1, <2>2, <3>1, <3>2
    <3>4. Awake(op)' = Awake(op)
      BY <3>2, <3>3
    <3> QED BY <3>2, <3>4, Grows
  <2>7. /\ Posted = cTxLock /\ Posted' = cTxLock + 1
    BY <2>1, <2>4 DEF Posted
  <2>8. /\ xTasksWaitingToReceive # <<>> =>
             uxMessagesWaiting <= Cardinality(Awake("receive")) + cTxLock
        /\ xTasksWaitingToSend # <<>> =>
             uxLength - uxMessagesWaiting <= Cardinality(Awake("send"))
    BY <2>7, CountFacts
  <2>9. xTasksWaitingToReceive' # <<>> =>
          uxMessagesWaiting' <= Cardinality(Awake("receive")') + Posted'
    BY <1>1, <2>1, <2>4, <2>6, <2>7, <2>8
  <2>10. xTasksWaitingToSend' # <<>> =>
           uxLength - uxMessagesWaiting' <= Cardinality(Awake("send")')
    BY <1>1, <2>4, <2>6, <2>8
  <2>11. NoLostWakeup'
    BY <2>9, <2>10, Counts
  <2> QED BY <2>3, <2>5, <2>11 DEF WInv
<1> QED BY <1>2, <1>3

\* How many tasks are woken when the queue is unlocked: all those that wait, or one for
\* each item that came.
LEMMA WokenFacts ==
  ASSUME TypeOK, cTxLock # queueUNLOCKED
  PROVE  /\ Woken \in 0 .. Len(xTasksWaitingToReceive)
         /\ Woken < Len(xTasksWaitingToReceive) => Woken = cTxLock
<1> DEFINE n == Len(xTasksWaitingToReceive)
           c == cTxLock
<1>1. n \in Nat /\ DOMAIN xTasksWaitingToReceive = 1 .. n
  BY LenProperties DEF TypeOK
<1>2. c \in Nat
  BY QueueAssumption DEF TypeOK, queueUNLOCKED
<1>3. Woken = Cardinality({i \in 1 .. n : i <= c})
  BY <1>1 DEF Woken
<1> HIDE DEF n, c
<1>4. CASE c <= n
  <2>1. {i \in 1 .. n : i <= c} = 1 .. c
    BY <1>1, <1>2, <1>4
  <2>2. Cardinality(1 .. c) = c
    BY <1>2, FS_Interval
  <2>3. Woken = c
    BY <1>3, <2>1, <2>2
  <2> QED BY <1>1, <1>2, <1>4, <2>3 DEF n, c
<1>5. CASE c > n
  <2>1. {i \in 1 .. n : i <= c} = 1 .. n
    BY <1>1, <1>2, <1>5
  <2>2. Cardinality(1 .. n) = n
    BY <1>1, FS_Interval
  <2>3. Woken = n
    BY <1>3, <2>1, <2>2
  <2> QED BY <1>1, <2>3 DEF n
<1> QED BY <1>1, <1>2, <1>4, <1>5

LEMMA prvUnlockQueueWakes ==
  ASSUME Inv, Inv', WInv, NEW t \in Tasks, prvUnlockQueue(t)
  PROVE  WInv'
<1> DEFINE r == xTasksWaitingToReceive
           woken == {r[i] : i \in 1 .. Woken}
<1>1. /\ pxCurrentTCB = t /\ at[t] = "unlock" /\ at' = [at EXCEPT ![t] = "resume"]
      /\ r' = SubSeq(r, Woken + 1, Len(r))
      /\ xPendingReadyList' = xPendingReadyList \cup woken
      /\ cTxLock' = queueUNLOCKED
      /\ UNCHANGED <<uxMessagesWaiting, xTasksWaitingToSend, ready, call, verdict>>
  BY DEF prvUnlockQueue, Runs, Goto, ringVars
<1>2. cTxLock # queueUNLOCKED
  BY <1>1 DEF Inv, LockInv, LockedPlaces
<1>3. Woken \in 0 .. Len(r) /\ (Woken < Len(r) => Woken = cTxLock)
  BY <1>2, WokenFacts DEF Inv
<1>4. r \in Seq(Tasks) /\ Distinct(r) /\ Receivers = Elements(r)
      /\ DOMAIN r = 1 .. Len(r) /\ Len(r) \in Nat
      /\ Receivers \subseteq Tasks /\ Senders \subseteq Tasks
  BY WaitersAre, LenProperties DEF Inv, TypeOK, WInv, WaitInv, Receivers
<1>5. /\ Distinct(r') /\ Receivers' \subseteq Receivers /\ Senders' = Senders
      /\ \A i \in 1 .. Woken : r[i] \notin Receivers'
      /\ r' = <<>> \/ Woken < Len(r)
  <2>1. Receivers' = Elements(r')
    BY DEF Receivers, Elements
  <2> QED BY <1>1, <1>3, <1>4, <2>1, TailMembers DEF Senders
<1>6. \A i \in 1 .. Woken : r[i] \in Receivers
  BY <1>3, <1>4 DEF Elements
<1>7. woken \subseteq Receivers \ Receivers'
  BY <1>5, <1>6
<1>8. /\ \A u \in Tasks \ {t} : at[u] \notin SuspPlaces /\ at'[u] = at[u]
      /\ at'[t] = "resume"
  BY <1>1, RunnerFacts DEF Inv, TypeOK
<1>9. Alert' = Alert \cup woken
  BY <1>1 DEF Alert
<1> HIDE DEF r, woken
<1>10. WaitInv'
  <2>1. ready' \cap xPendingReadyList' = {}
    BY <1>1, <1>7 DEF WInv, WaitInv, Alert
  <2>2. ASSUME NEW u \in Receivers' \cup Senders'
        PROVE  /\ at'[u] \in {"try", "yield", "unlock", "resume"}
               /\ at'[u] \in {"unlock", "resume"} => verdict' = "block"
               /\ u \notin Alert'
    <3>1. /\ u \in Receivers \cup Senders /\ u \in Tasks /\ u \notin Alert
          /\ at[u] \in {"try", "yield", "unlock", "resume"}
          /\ at[u] \in {"unlock", "resume"} => verdict = "block"
      BY <1>4, <1>5 DEF WInv, WaitInv
    <3>2. u \notin woken
      BY <1>5, <1>7 DEF WInv, WaitInv
    <3> QED BY <1>1, <1>8, <1>9, <3>1, <3>2
  <2> QED BY <1>1, <1>5, <2>1, <2>2 DEF WInv, WaitInv, r
<1>11. PlaceInv'
  BY <1>1, NobodyPlaces
<1>12. \A u \in Tasks : Tries(u) => Tries(u)'
  BY <1>1, <1>8 DEF Tries
<1>13. ASSUME NEW op
       PROVE  Awake(op) \subseteq Awake(op)' /\ Awake(op) \in SUBSET Tasks
              /\ Awake(op)' \in SUBSET Tasks
  BY <1>1, <1>9, <1>10, <1>12, AwakeFacts DEF Inv, WInv
<1>14. ASSUME NEW i \in 1 .. Woken
       PROVE  r[i] \in Awake("receive")' \ Awake("receive")
  <2>1. PICK u \in Tasks : u = r[i]
    BY <1>4, <1>6
  <2>2. u \in Receivers /\ u \in woken
    BY <1>6, <2>1 DEF woken
  <2>3. u \notin Alert /\ Tries(u) /\ call[u].op = "receive"
    BY <2>2 DEF WInv, WaitInv, Tries
  <2>4. u \in Alert' /\ Tries(u)'
    BY <1>9, <1>12, <2>2, <2>3
  <2>5. u \in Awake("receive")' \ Awake("receive")
    BY <1>1, <1>10, <2>3, <2>4, AwakeFacts DEF Inv, WInv
  <2> QED BY <2>1, <2>5
<1>15. /\ uxLength \in Nat /\ uxMessagesWaiting \in 0 .. uxLength /\ Posted' = 0
       /\ r # <<>> => uxMessagesWaiting <= Cardinality(Awake("receive")) + Posted
       /\ xTasksWaitingToSend # <<>> =>
            uxLength - uxMessagesWaiting <= Cardinality(Awake("send"))
  BY <1>1, CountFacts DEF r, Posted, queueUNLOCKED
<1>16. r' # <<>> => uxMessagesWaiting' <= Cardinality(Awake("receive")') + Posted'
  <2> SUFFICES ASSUME r' # <<>>
               PROVE  uxMessagesWaiting' <= Cardinality(Awake("receive")') + Posted'
    OBVIOUS
  <2>1. Woken < Len(r) /\ Woken = cTxLock /\ r # <<>> /\ cTxLock \in Nat
    BY <1>3, <1>4, <1>5, EmptySeq
  <2>2. Posted = Woken
    BY <2>1 DEF Posted
  <2>3. /\ Cardinality(Awake("receive")) \in Nat /\ Cardinality(Awake("receive")') \in Nat
        /\ Cardinality(Awake("receive")) + Woken <= Cardinality(Awake("receive")')
    BY <1>3, <1>4, <1>13, <1>14, GainsMany
  <2> QED BY <1>1, <1>15, <2>1, <2>2, <2>3
<1>17. xTasksWaitingToSend' # <<>> =>
         uxLength - uxMessagesWaiting' <= Cardinality(Awake("send")')
  <2>1. /\ Cardinality(Awake("send")) \in Nat /\ Cardinality(Awake("send")') \in Nat
        /\ Cardinality(Awake("send")) <= Cardinality(Awake("send")')
    BY <1>13, Grows
  <2> QED BY <1>1, <1>15, <2>1
<1>18. NoLostWakeup'
  BY <1>16, <1>17, Counts DEF r
<1> QED BY <1>10, <1>11, <1>18 DEF WInv

-----------------------------------------------------------------------------
(* Theorem *)

LEMMA InitWakes == Init => WInv
<1> SUFFICES ASSUME Init
             PROVE  WInv
  OBVIOUS
<1>1. /\ xTasksWaitingToReceive = <<>> /\ xTasksWaitingToSend = <<>>
      /\ xPendingReadyList = {} /\ \A u \in Tasks : at[u] = "out"
  BY DEF Init
<1>2. Receivers = {} /\ Senders = {}
  BY <1>1 DEF Receivers, Senders, Elements
<1> QED BY <1>1, <1>2 DEF WInv, WaitInv, PlaceInv, NoLostWakeup, Distinct

LEMMA NextWakes ==
  ASSUME Inv, Inv', WInv, [Next]_vars
  PROVE  WInv'
<1>1. ASSUME NEW t \in Tasks, Step(t)
      PROVE  WInv'
  BY <1>1, BeginWakes, SendWakes, ReceiveWakes, FailWakes, LockingWakes,
     vTaskPlaceOnEventListWakes, prvUnlockQueueWakes, ResumingWakes, YieldWakes,
     RecheckWakes DEF Step
<1> QED BY <1>1, TimeIsOverWakes, SendFromISRWakes, OthersWake DEF Next

\* No wake-up is lost: while tasks wait, as many others are awake, or counted by the
\* lock to be woken, as there are items to receive or places to fill, however the
\* interrupts fall between a task's last test of the queue and its wait.
THEOREM WakeupsAreKept == Spec => []NoLostWakeup
<1>1. Inv /\ Inv' /\ WInv /\ [Next]_vars => WInv'
  BY NextWakes
<1>2. WInv => NoLostWakeup
  BY DEF WInv
<1> QED BY InitWakes, Invariance, <1>1, <1>2, PTL DEF Spec
=============================================================================
