----------------------------- MODULE SemaProofs -----------------------------
(***************************************************************************)
(* The semaphore's permits and its queue, for any number of tasks,         *)
(* priorities, counts and time-outs, as long as no task uses down as well  *)
(* as down_timeout.                                                        *)
(***************************************************************************)
EXTENDS Sema, KernelProofs

-----------------------------------------------------------------------------
(* The invariant.                                                          *)

\* The tasks that never wait with a time-out.
Plain == Apps \ timed

\* Each of them stands in one place; the task on the hart is ready.
Scheduled ==
  /\ Loose(kernel, Plain)
  /\ ~kernel.halted => kernel.current \in Range(kernel.ready)

\* Which calls a task can be in.
Calls ==
  \A t \in Apps :
    /\ pc[t] \in {"tried", "timed"} => t \in timed
    /\ pc[t] = "down" => t \notin timed

\* Whoever stands in the queue is in a call that put it there, and the scheduler
\* has forgotten the ones that wait without a time-out until an up wakes them.
Queue ==
  /\ IsInjective(sema.wait_queue)
  /\ \A t \in Range(sema.wait_queue) :
       /\ pc[t] \in {"down", "timed"}
       /\ t \in Plain => t \notin Known(kernel)

\* Everyone who waits has lowered count, and without time-outs everyone who
\* lowered it below zero still waits.
Backed ==
  /\ sema.count + Len(sema.wait_queue) >= 0
  /\ timed = {} =>
       \/ sema.count >= 0 /\ sema.wait_queue = << >>
       \/ sema.count = -Len(sema.wait_queue)

QueueSorted == SortedBy(sema.wait_queue, kernel.priority)

Semas == [count : Int, wait_queue : Seq(Apps)]

\* The inductive invariant.
IInv ==
  /\ TypeOK /\ sema \in Semas /\ Scheduled /\ Calls /\ Queue /\ QueueSorted
  /\ Backed /\ CountIsExact

\* main's tasks have the first tids.
LEMMA AppsAreTids == Apps \subseteq Tid /\ Plain \subseteq Apps /\ IsFiniteSet(Apps)
<1>1. Apps \subseteq Tid /\ Plain \subseteq Apps
  BY SemaAssumption, TaskMaxAssumption DEF Apps, Tid, Plain
<1>2. Len(TaskPriorities) - 1 \in Int /\ 0 \in Int
  BY SemaAssumption
<1>3. IsFiniteSet(Apps)
  BY <1>2, FS_Interval DEF Apps
<1> QED
  BY <1>1, <1>3

-----------------------------------------------------------------------------
(* What the calls do to a semaphore.                                       *)

\* The caller joins a queue that it is not in, behind its equals: there is room.
LEMMA EnqueueLemma ==
  ASSUME NEW s \in Semas, kernel \in KernelState, cr \in Apps,
         IsInjective(s.wait_queue), cr \notin Range(s.wait_queue),
         SortedBy(s.wait_queue, kernel.priority)
  PROVE  /\ Enqueue(Taken(s)) \in Semas
         /\ Enqueue(Taken(s)).count = s.count - 1
         /\ Len(Enqueue(Taken(s)).wait_queue) = Len(s.wait_queue) + 1
         /\ IsInjective(Enqueue(Taken(s)).wait_queue)
         /\ Range(Enqueue(Taken(s)).wait_queue) = Range(s.wait_queue) \cup {cr}
         /\ SortedBy(Enqueue(Taken(s)).wait_queue, kernel.priority)
<1> DEFINE list == s.wait_queue
           place == InsertPos(list, cr, kernel.priority)
           longer == InsertInOrder(list, cr, kernel.priority)
<1>1. list \in Seq(Apps) /\ Range(list) \subseteq Apps /\ s.count \in Int
  BY DEF Semas, Range
<1>2. list \in Seq(Tid) /\ cr \in Tid
  BY <1>1, AppsAreTids
<1>3. kernel.priority \in [Tid -> Nat]
  BY KernelAssumption DEF KernelState, Priorities
<1>4. Len(list) < TASK_MAX
  BY <1>2, RoomForAbsent DEF Tid
<1>5. Enqueue(Taken(s)) = [count |-> s.count - 1, wait_queue |-> longer]
  <2>1. Taken(s) = [count |-> s.count - 1, wait_queue |-> list]
    BY DEF Taken, Semas
  <2> HIDE DEF list
  <2> QED
    BY <2>1 DEF Enqueue
<1> HIDE DEF list
<1>6. /\ longer \in Seq(Tid) /\ IsInjective(longer)
      /\ Range(longer) = Range(list) \cup {cr}
  BY <1>2, <1>3, <1>4, InsertProperties, TaskMaxAssumption DEF list
<1>7. SortedBy(longer, kernel.priority)
  BY <1>2, <1>3, InsertSorted DEF list
<1>8. Len(longer) = Len(list) + 1
  <2>1. place \in 1 .. Len(list) + 1
    BY <1>2, <1>3, InsertPosRange
  <2>2. longer = InsertAt(list, place, cr)
    BY <1>4, TaskMaxAssumption DEF InsertInOrder
  <2> HIDE DEF place
  <2> QED
    BY <1>2, <2>1, <2>2, InsertAtPlaces
<1> HIDE DEF longer
<1>9. longer \in Seq(Apps)
  <2>1. \A i \in 1 .. Len(longer) : longer[i] \in Range(longer)
    BY <1>6 DEF Range
  <2>2. Range(longer) \subseteq Apps
    BY <1>1, <1>6
  <2> QED
    BY <1>6, <2>1, <2>2
<1> QED
  BY <1>1, <1>5, <1>6, <1>7, <1>8, <1>9 DEF Semas, list

\* A call that finds a permit leaves the queue alone.
LEMMA TakenLemma ==
  ASSUME NEW s \in Semas
  PROVE  /\ Taken(s) \in Semas
         /\ Taken(s).count = s.count - 1
         /\ Taken(s).wait_queue = s.wait_queue
BY DEF Taken, Semas

\* An up raises count and, if it finds a waiter it may wake, takes the front.
LEMMA PostedLemma ==
  ASSUME NEW s \in Semas, IsInjective(s.wait_queue), kernel \in KernelState,
         SortedBy(s.wait_queue, kernel.priority)
  PROVE  /\ Posted(s) \in Semas
         /\ Posted(s).count = s.count + 1
         /\ IsInjective(Posted(s).wait_queue)
         /\ SortedBy(Posted(s).wait_queue, kernel.priority)
         /\ ~Wakes(s) => Posted(s).wait_queue = s.wait_queue
         /\ Wakes(s) =>
              /\ Head(s.wait_queue) \in Range(s.wait_queue)
              /\ Len(Posted(s).wait_queue) = Len(s.wait_queue) - 1
              /\ Range(Posted(s).wait_queue) = Range(s.wait_queue) \ {Head(s.wait_queue)}
              /\ \A t \in Range(s.wait_queue) :
                   kernel.priority[Head(s.wait_queue)] <= kernel.priority[t]
<1>1. s.wait_queue \in Seq(Apps) /\ s.wait_queue \in Seq(Tid) /\ s.count \in Int
  BY AppsAreTids DEF Semas
<1>2. kernel.priority \in [Tid -> Nat]
  BY KernelAssumption DEF KernelState, Priorities
<1>3. CASE ~Wakes(s)
  BY <1>3 DEF Posted, Given, Semas
<1>4. CASE Wakes(s)
  <2> DEFINE list == s.wait_queue
  <2>1. list # << >>
    BY <1>4 DEF Wakes
  <2>2. Posted(s) = [count |-> s.count + 1, wait_queue |-> Tail(list)]
    BY <1>4 DEF Posted, Given, Semas
  <2> HIDE DEF list
  <2>3. /\ Head(list) \in Range(list) /\ Tail(list) \in Seq(Apps)
        /\ IsInjective(Tail(list)) /\ Range(Tail(list)) = Range(list) \ {Head(list)}
    BY <1>1, <2>1, HeadAndTail DEF list
  <2>4. Len(Tail(list)) = Len(list) - 1
    BY <1>1, <2>1, HeadTailProperties DEF list
  <2>5. /\ SortedBy(Tail(list), kernel.priority)
        /\ \A t \in Range(list) : kernel.priority[Head(list)] <= kernel.priority[t]
    BY <1>1, <1>2, <2>1, SortedFront DEF list
  <2> QED
    BY <1>1, <1>4, <2>2, <2>3, <2>4, <2>5 DEF Semas, list
<1> QED
  BY <1>3, <1>4

\* A time-out takes the caller's place away and gives back what it took.
LEMMA TimedOutLemma ==
  ASSUME NEW s \in Semas, IsInjective(s.wait_queue), cr \in Range(s.wait_queue),
         SortedBy(s.wait_queue, kernel.priority)
  PROVE  /\ TimedOut(s) \in Semas
         /\ TimedOut(s).count = s.count + 1
         /\ Len(TimedOut(s).wait_queue) = Len(s.wait_queue) - 1
         /\ IsInjective(TimedOut(s).wait_queue)
         /\ Range(TimedOut(s).wait_queue) = Range(s.wait_queue) \ {cr}
         /\ SortedBy(TimedOut(s).wait_queue, kernel.priority)
<1> DEFINE list == s.wait_queue
           shorter == Drop(list, cr)
<1>1. list \in Seq(Apps) /\ s.count \in Int
  BY DEF Semas
<1>2. TimedOut(s) = [count |-> s.count + 1, wait_queue |-> shorter]
  <2>1. Given(s) = [count |-> s.count + 1, wait_queue |-> list]
    BY DEF Given, Semas
  <2> HIDE DEF list
  <2> QED
    BY <2>1 DEF TimedOut
<1> HIDE DEF list
<1>3. /\ shorter \in Seq(Apps) /\ IsInjective(shorter)
      /\ Range(shorter) = Range(list) \ {cr}
  BY <1>1, DropProperties DEF list
<1>4. SortedBy(shorter, kernel.priority)
  BY <1>1, DropSorted DEF list
<1>5. Len(shorter) = Len(list) - 1
  <2>1. PICK p \in 1 .. Len(list) : shorter = RemoveAt(list, p)
    BY <1>1, DropPlaces DEF Holds, list
  <2> QED
    BY <1>1, <2>1, RemoveAtPlaces
<1> HIDE DEF shorter
<1> QED
  BY <1>1, <1>2, <1>3, <1>4, <1>5 DEF Semas, list

-----------------------------------------------------------------------------
(* What every step uses.                                                   *)

\* One task more, or one less, that returns with a permit later.
LEMMA GrantedCount ==
  ASSUME NEW G, G \subseteq Apps, NEW t
  PROVE  /\ Cardinality(G) \in Nat
         /\ t \notin G => Cardinality(G \cup {t}) = Cardinality(G) + 1
         /\ t \in G => Cardinality(G \ {t}) = Cardinality(G) - 1
<1>1. IsFiniteSet(G)
  BY AppsAreTids, FS_Subset
<1> QED
  BY <1>1, FS_CardinalityType, FS_AddElement, FS_RemoveElement

\* The task on the hart stands in READY_LIST, and waits nowhere unless the time
\* of its wait is over.
LEMMA RunnerIsReady ==
  ASSUME IInv, NEW at, At(at)
  PROVE  /\ cr \in Apps /\ cr \in Tid /\ pc[cr] = at /\ ~kernel.halted
         /\ cr \in Range(kernel.ready) /\ cr \in Known(kernel)
         /\ Loose(kernel, Plain) /\ kernel \in KernelState
         /\ cr \in Plain => cr \notin Range(sema.wait_queue)
         /\ at \notin {"down", "timed"} => cr \notin Range(sema.wait_queue)
<1>1. /\ cr \in Apps /\ pc[cr] = at /\ ~kernel.halted /\ cr \in Range(kernel.ready)
      /\ Loose(kernel, Plain) /\ kernel \in KernelState
  BY DEF IInv, At, Scheduled, cr, TypeOK
<1> QED
  BY <1>1, AppsAreTids DEF IInv, Queue, Known

\* A step of the scheduler alone.
LEMMA SchedulerKeepsIInv ==
  ASSUME IInv, UNCHANGED << sema, pc, timed, permits >>,
         Loose(kernel', Plain), kernel'.priority = kernel.priority,
         Plain \cap Known(kernel') \subseteq Known(kernel),
         ~kernel'.halted => kernel'.current \in Range(kernel'.ready)
  PROVE  IInv'
<1>1. TypeOK'
  BY DEF IInv, TypeOK, Loose
<1>2. Scheduled' /\ Calls'
  BY DEF IInv, Scheduled, Plain, Calls
<1>3. Queue' /\ QueueSorted'
  BY DEF IInv, Queue, Plain, QueueSorted
<1>4. Backed' /\ CountIsExact'
  BY DEF IInv, Backed, CountIsExact, Granted
<1> QED
  BY <1>1, <1>2, <1>3, <1>4 DEF IInv

\* A task sleeps between two calls.
LEMMA SleepKeepsIInv == IInv /\ Sleep => IInv'
<1> SUFFICES ASSUME IInv, Sleep PROVE IInv'
  OBVIOUS
<1>1. At("run") /\ kernel' = DelayCurrent(kernel, 1) /\ UNCHANGED << sema, pc, timed, permits >>
  BY DEF Sleep
<1>2. Loose(kernel, Plain) /\ kernel.current \in Range(kernel.ready)
  BY <1>1, RunnerIsReady DEF cr
<1>3. Resumed(kernel, kernel', Plain)
  BY <1>1, <1>2, LooseDelay
<1> QED
  BY <1>1, <1>3, SchedulerKeepsIInv DEF Resumed, SameTasks

\* The tick.
LEMMA TimerKeepsIInv == IInv /\ Timer => IInv'
<1> SUFFICES ASSUME IInv, Timer PROVE IInv'
  OBVIOUS
<1>1. kernel' = TickTrap(kernel, 1) /\ UNCHANGED << sema, pc, timed, permits >>
  BY DEF Timer
<1>2. Loose(kernel, Plain) /\ kernel.current \in Range(kernel.ready)
  BY DEF IInv, Scheduled, Timer
<1>3. /\ Loose(kernel', Plain) /\ kernel'.priority = kernel.priority
      /\ Plain \cap Known(kernel') \subseteq Known(kernel)
      /\ ~kernel'.halted => kernel'.current \in Range(kernel'.ready)
  BY <1>1, <1>2, LooseTick
<1> QED
  BY <1>1, <1>3, SchedulerKeepsIInv

-----------------------------------------------------------------------------
(* The calls that take a permit or a place in the queue.                   *)

\* A call that finds a permit.
LEMMA TakesKeepsIInv ==
  ASSUME IInv, NEW at, At(at), at \notin {"down", "timed"}, sema.count > 0,
         sema' = Taken(sema), permits' = permits - 1,
         UNCHANGED << kernel, pc, timed >>
  PROVE  IInv'
<1>1. /\ sema \in Semas /\ sema.count \in Int /\ Len(sema.wait_queue) \in Nat
      /\ permits \in Int
  BY DEF IInv, TypeOK, Semas
<1>2. /\ sema' \in Semas /\ sema'.count = sema.count - 1
      /\ sema'.wait_queue = sema.wait_queue
  BY <1>1, TakenLemma
<1>3. TypeOK'
  BY <1>1, <1>2 DEF IInv, TypeOK, Semas
<1>4. Scheduled' /\ Calls' /\ Queue' /\ QueueSorted'
  BY <1>2 DEF IInv, Scheduled, Plain, Calls, Queue, QueueSorted
<1>5. Backed'
  BY <1>1, <1>2 DEF IInv, Backed
<1>6. CountIsExact'
  <2>1. Granted' = Granted /\ Cardinality(Granted) \in Nat
    BY <1>2, GrantedCount DEF Granted
  <2> QED
    BY <1>1, <1>2, <2>1 DEF IInv, CountIsExact
<1> QED
  BY <1>2, <1>3, <1>4, <1>5, <1>6 DEF IInv

LEMMA TryDownKeepsIInv == IInv /\ TryDown => IInv'
BY TakesKeepsIInv DEF TryDown

\* A call that joins the queue and leaves the hart to another task.
LEMMA WaitsKeepsIInv ==
  ASSUME IInv, NEW at, At(at), at \notin {"down", "timed"},
         NEW to \in {"down", "timed"}, Goto(to),
         to = "timed" => cr \in timed,
         to = "down" => cr \notin timed /\ sema.count <= 0,
         sema' = Enqueue(Taken(sema)),
         Resumed(kernel, kernel', Plain),
         cr \in Plain => cr \notin Known(kernel'),
         UNCHANGED << timed, permits >>
  PROVE  IInv'
<1>1. /\ sema \in Semas /\ sema.count \in Int /\ Len(sema.wait_queue) \in Nat
      /\ permits \in Int /\ pc \in [Apps -> {"run", "down", "tried", "timed"}]
      /\ kernel \in KernelState /\ IsInjective(sema.wait_queue)
      /\ SortedBy(sema.wait_queue, kernel.priority)
      /\ Range(sema.wait_queue) \subseteq Apps
  BY DEF IInv, TypeOK, Semas, Queue, QueueSorted, Range
<1>2. cr \in Apps /\ pc[cr] = at /\ cr \notin Range(sema.wait_queue)
  BY RunnerIsReady
<1>3. /\ sema' \in Semas /\ sema'.count = sema.count - 1
      /\ Len(sema'.wait_queue) = Len(sema.wait_queue) + 1
      /\ IsInjective(sema'.wait_queue)
      /\ Range(sema'.wait_queue) = Range(sema.wait_queue) \cup {cr}
      /\ SortedBy(sema'.wait_queue, kernel.priority)
  BY <1>1, <1>2, EnqueueLemma
<1>4. /\ \A t \in Apps : pc'[t] = IF t = cr THEN to ELSE pc[t]
      /\ pc' \in [Apps -> {"run", "down", "tried", "timed"}]
  BY <1>1, <1>2 DEF Goto
<1>5. /\ Loose(kernel', Plain) /\ kernel'.priority = kernel.priority
      /\ Plain \cap Known(kernel') \subseteq Known(kernel)
      /\ ~kernel'.halted => kernel'.current \in Range(kernel'.ready)
  BY DEF Resumed, SameTasks
<1>6. TypeOK'
  BY <1>1, <1>3, <1>4, <1>5 DEF IInv, TypeOK, Loose, Semas
<1>7. Scheduled'
  BY <1>5 DEF Scheduled, Plain
<1>8. Calls'
  BY <1>2, <1>4 DEF IInv, Calls
<1>9. Queue'
  <2>1. \A t \in Range(sema'.wait_queue) :
          t \in Apps /\ pc'[t] \in {"down", "timed"} /\ (t \in Plain => t \notin Known(kernel'))
    BY <1>1, <1>2, <1>3, <1>4, <1>5 DEF IInv, Queue
  <2> QED
    BY <1>3, <2>1 DEF Queue, Plain
<1>10. QueueSorted'
  BY <1>3, <1>5 DEF QueueSorted
<1>11. Backed'
  <2>1. sema'.count + Len(sema'.wait_queue) >= 0
    BY <1>1, <1>3 DEF IInv, Backed
  <2>2. ASSUME timed' = {} PROVE sema'.count = -Len(sema'.wait_queue)
    <3>1. sema.count <= 0 /\ timed = {}
      BY <2>2
    <3>2. sema.wait_queue = << >> => Len(sema.wait_queue) = 0
      OBVIOUS
    <3>3. sema.count = -Len(sema.wait_queue)
      BY <1>1, <3>1, <3>2 DEF IInv, Backed
    <3> QED
      BY <1>1, <1>3, <3>3
  <2> QED
    BY <2>1, <2>2 DEF Backed
<1>12. CountIsExact'
  <2>1. Granted' = Granted
    <3>1. \A t \in Apps : (pc'[t] \in {"down", "timed"} /\ t \notin Range(sema'.wait_queue))
                          <=> (pc[t] \in {"down", "timed"} /\ t \notin Range(sema.wait_queue))
      BY <1>2, <1>3, <1>4
    <3> QED
      BY <3>1 DEF Granted, Holds
  <2>2. Cardinality(Granted) \in Nat
    BY GrantedCount DEF Granted
  <2> QED
    BY <1>1, <1>3, <2>1, <2>2 DEF IInv, CountIsExact
<1> QED
  BY <1>3, <1>6, <1>7, <1>8, <1>9, <1>10, <1>11, <1>12 DEF IInv

\* A waiter without a time-out is off READY_LIST until it is woken.
LEMMA DownKeepsIInv ==
  ASSUME ~Both, IInv, Down
  PROVE  IInv'
<1>1. At("run") /\ cr \notin timed /\ UNCHANGED timed
  BY DEF Down
<1>2. CASE sema.count > 0
  BY <1>1, <1>2, TakesKeepsIInv DEF Down
<1>3. CASE ~(sema.count > 0)
  <2> DEFINE j == TakeOff(kernel, cr)
  <2>1. /\ cr \in Plain /\ cr \in Tid /\ cr = kernel.current /\ Loose(kernel, Plain)
        /\ cr \in Range(kernel.ready)
    BY <1>1, RunnerIsReady DEF Plain, cr
  <2>2. /\ sema' = Enqueue(Taken(sema)) /\ kernel' = NextTcb(j)
        /\ Goto("down") /\ UNCHANGED permits
    BY <1>3 DEF Down
  <2>3. /\ Loose(j, Plain) /\ SameTasks(kernel, j) /\ Known(j) \subseteq Known(kernel)
        /\ cr \notin Range(j.ready) /\ j.status[cr] = "Blocked"
        /\ j.sleeping = kernel.sleeping /\ j.current = cr
    BY <2>1, LooseTakeOff
  <2> HIDE DEF j
  <2>4. cr \notin Known(j)
    BY <2>1, <2>3 DEF Loose, Known
  <2>5. Resumed(j, kernel', Plain)
    BY <2>2, <2>3, LooseNextTcb
  <2>6. Resumed(kernel, kernel', Plain) /\ cr \notin Known(kernel')
    BY <2>1, <2>3, <2>4, <2>5 DEF Resumed, SameTasks
  <2>7. sema.count <= 0
    BY <1>3 DEF IInv, TypeOK
  <2> QED
    BY <1>1, <2>2, <2>6, <2>7, WaitsKeepsIInv
<1> QED
  BY <1>2, <1>3

\* The caller of down_timeout has a time to wake at, too.
LEMMA TimedWaitKeepsIInv ==
  ASSUME IInv, NEW ticks \in Timeouts, TimedWait(ticks)
  PROVE  IInv'
<1> DEFINE wake == WakeTime(kernel, ticks)
           j == TakeOff(kernel, cr)
           a == SleepUntil(j, cr, wake)
<1>1. /\ At("tried") /\ sema' = Enqueue(Taken(sema)) /\ kernel' = NextTcb(a)
      /\ Goto("timed") /\ UNCHANGED << timed, permits >>
  BY DEF TimedWait
<1>2. /\ cr \in timed /\ cr \notin Plain /\ cr \in Tid /\ cr = kernel.current
      /\ Loose(kernel, Plain) /\ kernel \in KernelState
  <2>1. cr \in Apps /\ pc[cr] = "tried" /\ cr \in Tid /\ Loose(kernel, Plain)
    BY <1>1, RunnerIsReady
  <2> QED
    <3>1. cr \in timed /\ kernel \in KernelState
      BY <2>1 DEF IInv, Calls, TypeOK
    <3> QED
      BY <2>1, <3>1 DEF Plain, cr
<1>3. wake \in Tick
  <2>1. ticks \in Int /\ TickMod \in Nat \ {0}
    BY SemaAssumption, KernelAssumption
  <2>2. kernel.os_ticks \in Int
    BY <1>2 DEF KernelState, Tick
  <2>3. \A n \in Int : n % TickMod \in 0 .. TickMod - 1
    BY <2>1
  <2> QED
    BY <2>1, <2>2, <2>3 DEF WakeTime, Tick
<1> HIDE DEF wake
<1>4. /\ Loose(j, Plain) /\ SameTasks(kernel, j) /\ Known(j) \subseteq Known(kernel)
      /\ j.status[cr] = "Blocked" /\ j.current = cr
  BY <1>2, LooseTakeOff
<1> HIDE DEF j
<1>5. /\ Loose(a, Plain) /\ SameTasks(j, a) /\ Known(a) \subseteq Known(j) \cup {cr}
      /\ a.status = j.status /\ a.current = j.current
  BY <1>2, <1>3, <1>4, LooseSleepUntil
<1> HIDE DEF a
<1>6. Resumed(a, kernel', Plain)
  BY <1>1, <1>4, <1>5, LooseNextTcb
<1>7. Resumed(kernel, kernel', Plain)
  BY <1>2, <1>4, <1>5, <1>6 DEF Resumed, SameTasks
<1> QED
  BY <1>1, <1>2, <1>7, WaitsKeepsIInv

\* Between the halves of down_timeout nothing is promised to the caller.
LEMMA TimedTryKeepsIInv == IInv /\ TimedTry => IInv'
<1> SUFFICES ASSUME IInv, TimedTry PROVE IInv'
  OBVIOUS
<1>1. /\ At("run") /\ cr \in timed /\ Goto("tried")
      /\ UNCHANGED << kernel, sema, timed, permits >>
  BY DEF TimedTry
<1>2. cr \in Apps /\ pc[cr] = "run" /\ pc \in [Apps -> {"run", "down", "tried", "timed"}]
  BY <1>1, RunnerIsReady DEF IInv, TypeOK
<1>3. /\ \A t \in Apps : pc'[t] = IF t = cr THEN "tried" ELSE pc[t]
      /\ pc' \in [Apps -> {"run", "down", "tried", "timed"}]
  BY <1>1, <1>2 DEF Goto
<1>4. TypeOK'
  BY <1>1, <1>3 DEF IInv, TypeOK
<1>5. Scheduled' /\ QueueSorted' /\ Backed'
  BY <1>1 DEF IInv, Scheduled, Plain, QueueSorted, Backed
<1>6. Calls'
  BY <1>1, <1>3 DEF IInv, Calls
<1>7. Queue'
  <2>1. Range(sema.wait_queue) \subseteq Apps /\ cr \notin Range(sema.wait_queue)
    BY <1>1, RunnerIsReady DEF IInv, TypeOK, Range
  <2> QED
    BY <1>1, <1>3, <2>1 DEF IInv, Queue, Plain
<1>8. CountIsExact'
  <2>1. Granted' = Granted
    <3>1. \A t \in Apps : pc'[t] \in {"down", "timed"} <=> pc[t] \in {"down", "timed"}
      BY <1>2, <1>3
    <3> QED
      BY <1>1, <3>1 DEF Granted
  <2> QED
    BY <1>1, <2>1 DEF IInv, CountIsExact
<1> QED
  BY <1>1, <1>4, <1>5, <1>6, <1>7, <1>8 DEF IInv

-----------------------------------------------------------------------------
(* The calls that return.                                                  *)

\* A task that is no longer in the queue was granted its permit by an up, and
\* returns with it.
LEMMA GrantedKeepsIInv ==
  ASSUME IInv, NEW at \in {"down", "timed"}, At(at), Goto("run"),
         cr \notin Range(sema.wait_queue), permits' = permits - 1,
         UNCHANGED << kernel, sema, timed >>
  PROVE  IInv'
<1>1. cr \in Apps /\ pc[cr] = at /\ pc \in [Apps -> {"run", "down", "tried", "timed"}]
  BY RunnerIsReady DEF IInv, TypeOK
<1>2. /\ \A t \in Apps : pc'[t] = IF t = cr THEN "run" ELSE pc[t]
      /\ pc' \in [Apps -> {"run", "down", "tried", "timed"}]
  BY <1>1 DEF Goto
<1>3. TypeOK'
  BY <1>2 DEF IInv, TypeOK
<1>4. Scheduled' /\ QueueSorted' /\ Backed'
  BY DEF IInv, Scheduled, Plain, QueueSorted, Backed
<1>5. Calls'
  BY <1>2 DEF IInv, Calls
<1>6. Queue'
  <2>1. Range(sema.wait_queue) \subseteq Apps
    BY DEF IInv, TypeOK, Range
  <2> QED
    BY <1>2, <2>1 DEF IInv, Queue, Plain
<1>7. CountIsExact'
  <2>1. Granted' = Granted \ {cr} /\ cr \in Granted
    BY <1>1, <1>2 DEF Granted, Holds
  <2>2. Cardinality(Granted') = Cardinality(Granted) - 1 /\ Cardinality(Granted) \in Nat
    BY <2>1, GrantedCount DEF Granted
  <2>3. sema.count \in Int /\ Len(sema.wait_queue) \in Nat
    BY DEF IInv, TypeOK
  <2> QED
    BY <2>2, <2>3 DEF IInv, CountIsExact
<1> QED
  BY <1>3, <1>4, <1>5, <1>6, <1>7 DEF IInv

\* down takes whoever put it back on READY_LIST to be an up; as long as the task
\* never waits with a time-out, nobody else can have been.
LEMMA DownReturnsKeepsIInv == IInv /\ DownReturns => IInv'
<1> SUFFICES ASSUME IInv, DownReturns PROVE IInv'
  OBVIOUS
<1>1. /\ At("down") /\ permits' = permits - 1 /\ Goto("run")
      /\ UNCHANGED << kernel, sema, timed >>
  BY DEF DownReturns
<1>2. cr \notin Range(sema.wait_queue)
  <2>1. cr \in Apps /\ pc[cr] = "down" /\ (cr \in Plain => cr \notin Range(sema.wait_queue))
    BY <1>1, RunnerIsReady
  <2> QED
    BY <2>1 DEF IInv, Calls, Plain
<1> QED
  BY <1>1, <1>2, GrantedKeepsIInv

\* A time-out leaves the queue and gives back what its wait took.
LEMMA TimedReturnsKeepsIInv == IInv /\ TimedReturns => IInv'
<1> SUFFICES ASSUME IInv, TimedReturns PROVE IInv'
  OBVIOUS
<1>1. At("timed") /\ Goto("run") /\ UNCHANGED << kernel, timed >>
  BY DEF TimedReturns
<1>2. CASE cr \notin Range(sema.wait_queue)
  BY <1>1, <1>2, GrantedKeepsIInv DEF TimedReturns, Holds
<1>3. CASE cr \in Range(sema.wait_queue)
  <2>1. sema' = TimedOut(sema) /\ UNCHANGED permits
    BY <1>3 DEF TimedReturns, Holds
  <2>2. /\ cr \in Apps /\ pc[cr] = "timed" /\ cr \in timed
        /\ pc \in [Apps -> {"run", "down", "tried", "timed"}]
    BY <1>1, RunnerIsReady DEF IInv, TypeOK, Calls
  <2>3. /\ \A t \in Apps : pc'[t] = IF t = cr THEN "run" ELSE pc[t]
        /\ pc' \in [Apps -> {"run", "down", "tried", "timed"}]
    BY <1>1, <2>2 DEF Goto
  <2>4. /\ sema \in Semas /\ sema.count \in Int /\ Len(sema.wait_queue) \in Nat
        /\ permits \in Int /\ Range(sema.wait_queue) \subseteq Apps
    BY DEF IInv, TypeOK, Semas, Range
  <2>5. /\ sema' \in Semas /\ sema'.count = sema.count + 1
        /\ Len(sema'.wait_queue) = Len(sema.wait_queue) - 1
        /\ IsInjective(sema'.wait_queue)
        /\ Range(sema'.wait_queue) = Range(sema.wait_queue) \ {cr}
        /\ SortedBy(sema'.wait_queue, kernel.priority)
    BY <1>3, <2>1, TimedOutLemma DEF IInv, Queue, QueueSorted
  <2>6. TypeOK'
    BY <1>1, <2>1, <2>3, <2>5 DEF IInv, TypeOK, Semas
  <2>7. Scheduled' /\ Calls'
    BY <1>1, <2>3 DEF IInv, Scheduled, Plain, Calls
  <2>8. Queue' /\ QueueSorted'
    BY <1>1, <2>3, <2>4, <2>5 DEF IInv, Queue, QueueSorted, Plain
  <2>9. Backed'
    BY <1>1, <2>2, <2>4, <2>5 DEF IInv, Backed
  <2>10. CountIsExact'
    <3>1. Granted' = Granted
      <4>1. \A t \in Apps : (pc'[t] \in {"down", "timed"} /\ t \notin Range(sema'.wait_queue))
                            <=> (pc[t] \in {"down", "timed"} /\ t \notin Range(sema.wait_queue))
        BY <1>3, <2>3, <2>5
      <4> QED
        BY <4>1 DEF Granted, Holds
    <3>2. Cardinality(Granted) \in Nat
      BY GrantedCount DEF Granted
    <3> QED
      BY <2>1, <2>4, <2>5, <3>1, <3>2 DEF IInv, CountIsExact
  <2> QED
    BY <2>5, <2>6, <2>7, <2>8, <2>9, <2>10 DEF IInv
<1> QED
  BY <1>2, <1>3

-----------------------------------------------------------------------------
(* The calls that give.                                                    *)

\* The front of the queue goes to READY_LIST, which has either room for it or
\* loses it: in both cases the task on the hart stays on the list.
LEMMA WakesLemma ==
  ASSUME IInv, ~kernel.halted, Wakes(sema),
         NEW j, j = MakeReady(kernel, Head(sema.wait_queue))
  PROVE  /\ Head(sema.wait_queue) \in Apps
         /\ Loose(j, Plain) /\ SameTasks(kernel, j)
         /\ Known(j) \subseteq Known(kernel) \cup {Head(sema.wait_queue)}
         /\ j.current = kernel.current /\ j.current \in Range(j.ready)
<1> DEFINE woken == Head(sema.wait_queue)
<1>1. /\ IsInjective(sema.wait_queue) /\ sema.wait_queue # << >>
      /\ sema.wait_queue \in Seq(Apps)
  BY DEF IInv, TypeOK, Queue, Wakes
<1>2. woken \in Range(sema.wait_queue) /\ woken \in Apps /\ woken \in Tid
  BY <1>1, HeadAndTail, HeadTailProperties, AppsAreTids
<1>3. woken \notin Plain \/ woken \notin Known(kernel)
  BY <1>2 DEF IInv, Queue
<1>4. Loose(kernel, Plain) /\ kernel.current \in Range(kernel.ready)
  BY DEF IInv, Scheduled
<1> HIDE DEF woken
<1>5. /\ Loose(MakeReady(kernel, woken), Plain) /\ SameTasks(kernel, MakeReady(kernel, woken))
      /\ Known(MakeReady(kernel, woken)) \subseteq Known(kernel) \cup {woken}
      /\ Range(kernel.ready) \subseteq Range(MakeReady(kernel, woken).ready)
      /\ MakeReady(kernel, woken).current = kernel.current
  BY <1>2, <1>3, <1>4, LooseMakeReady
<1>6. j = MakeReady(kernel, woken)
  BY DEF woken
<1> QED
  BY <1>2, <1>4, <1>5, <1>6 DEF woken

\* What up, from a task or from an interrupt, does to the books and the queue.
LEMMA PostsKeepsIInv ==
  ASSUME IInv, sema' = Posted(sema), permits' = permits + 1, UNCHANGED << pc, timed >>,
         Loose(kernel', Plain), kernel'.priority = kernel.priority,
         ~kernel'.halted => kernel'.current \in Range(kernel'.ready),
         Plain \cap Known(kernel') \subseteq
           IF Wakes(sema) THEN Known(kernel) \cup {Head(sema.wait_queue)} ELSE Known(kernel)
  PROVE  /\ IInv'
         /\ \A w \in Range(sema.wait_queue) \ Range(sema'.wait_queue) :
              \A t \in Range(sema'.wait_queue) :
                kernel.priority[w] <= kernel.priority[t]
<1> DEFINE list == sema.wait_queue
           woken == Head(list)
<1>1. /\ sema \in Semas /\ sema.count \in Int /\ Len(list) \in Nat
      /\ list \in Seq(Apps) /\ permits \in Int /\ Range(list) \subseteq Apps
      /\ IsInjective(list) /\ kernel \in KernelState /\ SortedBy(list, kernel.priority)
  BY DEF IInv, TypeOK, Semas, Range, Queue, QueueSorted
<1>2. /\ sema' \in Semas /\ sema'.count = sema.count + 1
      /\ IsInjective(sema'.wait_queue) /\ SortedBy(sema'.wait_queue, kernel.priority)
      /\ ~Wakes(sema) => sema'.wait_queue = list
      /\ Wakes(sema) =>
           /\ woken \in Range(list)
           /\ Len(sema'.wait_queue) = Len(list) - 1
           /\ Range(sema'.wait_queue) = Range(list) \ {woken}
           /\ \A t \in Range(list) : kernel.priority[woken] <= kernel.priority[t]
  BY <1>1, PostedLemma
<1> HIDE DEF woken
<1>3. TypeOK'
  BY <1>1, <1>2 DEF IInv, TypeOK, Loose, Semas
<1>4. Scheduled' /\ Calls' /\ QueueSorted'
  BY <1>2 DEF IInv, Scheduled, Plain, Calls, QueueSorted
<1>5. Queue'
  <2>1. \A t \in Range(sema'.wait_queue) :
          /\ t \in Range(list)
          /\ t \in Plain => t \notin Known(kernel')
    <3>1. CASE Wakes(sema)
      BY <1>2, <3>1 DEF IInv, Queue, woken
    <3>2. CASE ~Wakes(sema)
      BY <1>2, <3>2 DEF IInv, Queue
    <3> QED
      BY <3>1, <3>2
  <2> QED
    BY <1>2, <2>1 DEF IInv, Queue, Plain
<1>6. Backed'
  <2>1. CASE Wakes(sema)
    <3>1. sema.count < 0
      BY <2>1 DEF Wakes
    <3>2. Len(sema'.wait_queue) = Len(list) - 1 /\ sema'.count = sema.count + 1
      BY <1>2, <2>1
    <3>3. sema.count \in Int /\ Len(list) \in Nat
      BY <1>1
    <3>4. Backed
      BY DEF IInv
    <3> QED
      BY <3>1, <3>2, <3>3, <3>4 DEF Backed
  <2>2. CASE ~Wakes(sema)
    <3>1. sema'.count = sema.count + 1 /\ sema'.wait_queue = list
      BY <1>2, <2>2
    <3>2. list = << >> => Len(list) = 0
      OBVIOUS
    <3>3. Len(list) = 0 => list = << >>
      BY <1>1, EmptySeq
    <3>4. sema.count >= 0 \/ list = << >>
      BY <1>1, <2>2 DEF Wakes
    <3>5. sema.count + Len(list) >= 0
      BY DEF IInv, Backed
    <3>6. timed = {} => sema.count >= 0 /\ list = << >>
      <4>1. timed = {} => (sema.count >= 0 /\ list = << >>) \/ sema.count = -Len(list)
        BY DEF IInv, Backed
      <4> HIDE DEF list
      <4> QED
        BY <1>1, <3>2, <3>3, <3>4, <4>1
    <3> HIDE DEF list
    <3>7. sema'.count + Len(sema'.wait_queue) >= 0
      BY <1>1, <3>1, <3>5
    <3>8. timed' = {} => sema'.count >= 0 /\ sema'.wait_queue = << >>
      BY <1>1, <3>1, <3>6
    <3> QED
      BY <3>7, <3>8 DEF Backed
  <2> QED
    BY <2>1, <2>2
<1>7. CountIsExact'
  <2>1. Cardinality(Granted) \in Nat
    BY GrantedCount DEF Granted
  <2>2. CASE Wakes(sema)
    <3>1. woken \in Range(list) /\ woken \in Apps /\ pc[woken] \in {"down", "timed"}
      BY <1>1, <1>2, <2>2 DEF IInv, Queue
    <3>2. Granted' = Granted \cup {woken} /\ woken \notin Granted
      BY <1>2, <2>2, <3>1 DEF Granted, Holds
    <3>3. Cardinality(Granted') = Cardinality(Granted) + 1
      BY <3>2, GrantedCount DEF Granted
    <3>4. permits = sema.count + Len(list) + Cardinality(Granted)
      BY DEF IInv, CountIsExact
    <3>5. sema'.count = sema.count + 1 /\ Len(sema'.wait_queue) = Len(list) - 1
      BY <1>2, <2>2
    <3> HIDE DEF list
    <3>6. permits' = sema'.count + Len(sema'.wait_queue) + Cardinality(Granted')
      <4>1. sema.count \in Int /\ Len(list) \in Nat /\ permits' = permits + 1
        BY <1>1
      <4> QED
        BY <2>1, <3>3, <3>4, <3>5, <4>1
    <3> QED
      BY <3>6 DEF CountIsExact
  <2>3. CASE ~Wakes(sema)
    <3>1. Granted' = Granted
      BY <1>2, <2>3 DEF Granted
    <3> QED
      BY <1>1, <1>2, <2>1, <2>3, <3>1 DEF IInv, CountIsExact
  <2> QED
    BY <2>2, <2>3
<1>8. \A w \in Range(list) \ Range(sema'.wait_queue) :
        \A t \in Range(sema'.wait_queue) : kernel.priority[w] <= kernel.priority[t]
  BY <1>2
<1> QED
  BY <1>2, <1>3, <1>4, <1>5, <1>6, <1>7, <1>8 DEF IInv

\* MostUrgentFirst of one step.
WakesMostUrgent ==
  permits' > permits =>
    \A w \in Range(sema.wait_queue) \ Range(sema'.wait_queue) :
      \A t \in Range(sema'.wait_queue) :
        kernel.priority[w] <= kernel.priority[t]

\* up by a task, which yields to a more urgent waiter.
LEMMA UpKeepsIInv == IInv /\ Up => IInv' /\ WakesMostUrgent
<1> SUFFICES ASSUME IInv, Up PROVE IInv' /\ WakesMostUrgent
  OBVIOUS
<1> DEFINE woken == Head(sema.wait_queue)
           j == MakeReady(kernel, woken)
<1>1. /\ At("run") /\ sema' = Posted(sema) /\ permits' = permits + 1
      /\ UNCHANGED << pc, timed >>
      /\ Wakes(sema) => kernel' = YieldIfOutranked(j, woken)
      /\ ~Wakes(sema) => kernel' = kernel
  BY DEF Up
<1>2. Loose(kernel, Plain) /\ ~kernel.halted /\ kernel.current \in Range(kernel.ready)
  BY <1>1, RunnerIsReady DEF cr
<1>3. CASE Wakes(sema)
  <2>1. /\ Loose(j, Plain) /\ SameTasks(kernel, j)
        /\ Known(j) \subseteq Known(kernel) \cup {woken}
        /\ j.current = kernel.current /\ j.current \in Range(j.ready)
    BY <1>2, <1>3, WakesLemma
  <2> HIDE DEF j
  <2>2. Resumed(j, NextTcb(j), Plain)
    BY <2>1, LooseNextTcb DEF Known
  <2>3. kernel' = j \/ kernel' = NextTcb(j)
    BY <1>1, <1>3 DEF YieldIfOutranked
  <2>4. /\ Loose(kernel', Plain) /\ kernel'.priority = kernel.priority
        /\ ~kernel'.halted => kernel'.current \in Range(kernel'.ready)
        /\ Plain \cap Known(kernel') \subseteq Known(kernel) \cup {woken}
    BY <2>1, <2>2, <2>3 DEF Resumed, SameTasks
  <2> QED
    BY <1>1, <1>3, <2>4, PostsKeepsIInv DEF WakesMostUrgent
<1>4. CASE ~Wakes(sema)
  <2> HIDE DEF j, woken
  <2>1. kernel' = kernel
    BY <1>1, <1>4
  <2>2. /\ Loose(kernel', Plain) /\ kernel'.priority = kernel.priority
        /\ ~kernel'.halted => kernel'.current \in Range(kernel'.ready)
        /\ Plain \cap Known(kernel') \subseteq Known(kernel)
    BY <1>2, <2>1
  <2> QED
    BY <1>1, <1>4, <2>2, PostsKeepsIInv DEF WakesMostUrgent
<1> QED
  BY <1>3, <1>4

\* up from an interrupt, which lets the interrupted task go on.
LEMMA UpFromIsrKeepsIInv == IInv /\ UpFromIsr => IInv' /\ WakesMostUrgent
<1> SUFFICES ASSUME IInv, UpFromIsr PROVE IInv' /\ WakesMostUrgent
  OBVIOUS
<1> DEFINE woken == Head(sema.wait_queue)
           j == MakeReady(kernel, woken)
<1>1. /\ ~kernel.halted /\ sema' = Posted(sema) /\ permits' = permits + 1
      /\ UNCHANGED << pc, timed >>
      /\ Wakes(sema) => kernel' = j
      /\ ~Wakes(sema) => kernel' = kernel
  BY DEF UpFromIsr
<1>2. Loose(kernel, Plain) /\ kernel.current \in Range(kernel.ready)
  BY <1>1 DEF IInv, Scheduled
<1>3. CASE Wakes(sema)
  <2>1. /\ Loose(j, Plain) /\ SameTasks(kernel, j)
        /\ Known(j) \subseteq Known(kernel) \cup {woken}
        /\ j.current \in Range(j.ready)
    BY <1>1, <1>3, WakesLemma
  <2> HIDE DEF j
  <2>2. kernel' = j
    BY <1>1, <1>3
  <2> QED
    BY <1>1, <1>3, <2>1, <2>2, PostsKeepsIInv DEF WakesMostUrgent, SameTasks
<1>4. CASE ~Wakes(sema)
  <2> HIDE DEF j, woken
  <2>1. kernel' = kernel
    BY <1>1, <1>4
  <2>2. /\ Loose(kernel', Plain) /\ kernel'.priority = kernel.priority
        /\ ~kernel'.halted => kernel'.current \in Range(kernel'.ready)
        /\ Plain \cap Known(kernel') \subseteq Known(kernel)
    BY <1>2, <2>1
  <2> QED
    BY <1>1, <1>4, <2>2, PostsKeepsIInv DEF WakesMostUrgent
<1> QED
  BY <1>3, <1>4

-----------------------------------------------------------------------------
(* The theorems.                                                           *)

\* After launch every task of main is ready and nobody waits.
LEMMA InitIInv == Init => IInv
<1> SUFFICES ASSUME Init PROVE IInv
  OBVIOUS
<1>1. /\ kernel = LaunchedWith(TaskPriorities)
      /\ sema = [count |-> InitialCount, wait_queue |-> << >>]
      /\ pc = [t \in Apps |-> "run"] /\ timed \subseteq Apps
      /\ permits = InitialCount /\ InitialCount \in Nat
  BY SemaAssumption DEF Init
<1>2. /\ Fit(kernel) /\ kernel.sleeping = << >> /\ kernel.current \in Tid
      /\ kernel.current \in Range(kernel.ready)
  BY <1>1, SemaAssumption, FitLaunchedWith
<1>3. Loose(kernel, Plain)
  BY <1>2, FitIsLoose
<1>4. /\ sema.count = InitialCount /\ sema.wait_queue = << >> /\ Len(sema.wait_queue) = 0
      /\ Range(sema.wait_queue) = {} /\ sema \in Semas
  BY <1>1 DEF Range, Semas
<1>5. TypeOK
  BY <1>1, <1>2, <1>4 DEF TypeOK, Fit, Semas
<1>6. Scheduled /\ Calls /\ Queue /\ QueueSorted
  BY <1>1, <1>2, <1>3, <1>4 DEF Scheduled, Calls, Queue, QueueSorted, IsInjective, SortedBy
<1>7. Backed
  BY <1>1, <1>4 DEF Backed
<1>8. CountIsExact
  <2>1. Granted = {}
    BY <1>1 DEF Granted
  <2> QED
    BY <1>1, <1>4, <2>1, FS_EmptySet DEF CountIsExact
<1> QED
  BY <1>4, <1>5, <1>6, <1>7, <1>8 DEF IInv

\* Every step keeps the invariant, and every up wakes a most urgent waiter.
LEMMA NextIInv ==
  ASSUME ~Both
  PROVE  IInv /\ [Next]_vars => IInv' /\ [WakesMostUrgent]_vars
<1> SUFFICES ASSUME IInv, [Next]_vars PROVE IInv' /\ [WakesMostUrgent]_vars
  OBVIOUS
<1>0. permits' = permits \/ permits' = permits - 1 => WakesMostUrgent
  BY DEF WakesMostUrgent, IInv, TypeOK
<1>1. CASE Down
  BY <1>0, <1>1, DownKeepsIInv DEF Down
<1>2. CASE DownReturns
  BY <1>0, <1>2, DownReturnsKeepsIInv DEF DownReturns
<1>3. CASE Up
  BY <1>3, UpKeepsIInv
<1>4. CASE UpFromIsr
  BY <1>4, UpFromIsrKeepsIInv
<1>5. CASE TryDown
  BY <1>0, <1>5, TryDownKeepsIInv DEF TryDown
<1>6. CASE TimedTry
  BY <1>0, <1>6, TimedTryKeepsIInv DEF TimedTry
<1>7. ASSUME NEW ticks \in Timeouts, TimedWait(ticks) PROVE IInv' /\ WakesMostUrgent
  BY <1>0, <1>7, TimedWaitKeepsIInv DEF TimedWait
<1>8. CASE TimedReturns
  BY <1>0, <1>8, TimedReturnsKeepsIInv DEF TimedReturns
<1>9. CASE Sleep
  BY <1>0, <1>9, SleepKeepsIInv DEF Sleep
<1>10. CASE Timer
  BY <1>0, <1>10, TimerKeepsIInv DEF Timer
<1>11. CASE UNCHANGED vars
  <2>1. UNCHANGED << kernel, sema, pc, timed, permits >>
    BY <1>11 DEF vars
  <2> QED
    BY <1>11, <2>1, SchedulerKeepsIInv DEF IInv, Scheduled
<1> QED
  BY <1>1, <1>2, <1>3, <1>4, <1>5, <1>6, <1>7, <1>8, <1>9, <1>10, <1>11 DEF Next

LEMMA SpecIInv ==
  ASSUME ~Both
  PROVE  Spec => []IInv
BY InitIInv, NextIInv, PTL DEF Spec

\* permits is the initial count and all ups, minus the permits in the queue, those
\* on their way and those left in count: nothing else, whatever the order in which
\* time-outs, ups and interrupts come (down, down_timeout, up, up_from_isr).
THEOREM CountAlwaysExact ==
  ASSUME ~Both
  PROVE  Spec => []CountIsExact
<1>1. IInv => CountIsExact
  BY DEF IInv
<1> QED
  BY <1>1, SpecIInv, PTL

\* No call returns with a permit that nobody put, as long as no task both waits
\* with a time-out and without (down, down_timeout).
THEOREM NoPermitFromNothing ==
  ASSUME ~Both
  PROVE  Spec => []PermitsNeverInvented
<1>1. IInv => PermitsNeverInvented
  <2>1. Cardinality(Granted) \in Nat
    BY GrantedCount DEF Granted
  <2> QED
    BY <2>1 DEF IInv, TypeOK, Backed, CountIsExact, PermitsNeverInvented
<1> QED
  BY <1>1, SpecIInv, PTL

\* Without time-outs nobody waits while a permit lies in count (down, up).
THEOREM PermitsNeverIdle ==
  ASSUME ~Both
  PROVE  Spec => []NoIdlePermit
<1>1. IInv => NoIdlePermit
  <2> SUFFICES ASSUME IInv, timed = {}, sema.count > 0 PROVE sema.wait_queue = << >>
    BY DEF NoIdlePermit
  <2>1. sema.count \in Int /\ Len(sema.wait_queue) \in Nat
    BY DEF IInv, TypeOK
  <2> QED
    BY <2>1 DEF IInv, Backed
<1> QED
  BY <1>1, SpecIInv, PTL

\* An up wakes a task that nobody left in the queue outranks (insert_in_order in
\* down and down_timeout, pop_front in up).
THEOREM MostUrgentIsWoken ==
  ASSUME ~Both
  PROVE  Spec => MostUrgentFirst
<1>1. IInv /\ [Next]_vars => [WakesMostUrgent]_vars
  BY NextIInv
<1>2. MostUrgentFirst <=> [][WakesMostUrgent]_vars
  BY DEF MostUrgentFirst, WakesMostUrgent
<1> QED
  BY <1>1, <1>2, SpecIInv, PTL DEF Spec
=============================================================================
