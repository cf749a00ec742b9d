----------------------------- MODULE TasksProofs -----------------------------
(***************************************************************************)
(* Tasks keeps its lists, statuses and current task consistent: for every  *)
(* pool size, priority range, tick width, set of delays and lateness of    *)
(* the timer.                                                              *)
(***************************************************************************)
EXTENDS Tasks, KernelProofs

\* Before launch: tasks may have been created, none runs, no one is current.
Booting(k) ==
  /\ k \in KernelState /\ ListsMatch(k)
  /\ k.current = NoTask /\ ~k.sched_ready
  /\ \A t \in Tid : k.status[t] # "Running"

\* The inductive invariant.  TypeOK and ListsMatchStatus need to know where the
\* Running label can be, as next_tcb requeues whom it finds with it.
IInv ==
  /\ idle \in Tid \cup {NoTask}
  /\ idle # NoTask => idle \in kernel.tid_bitmap
  /\ IF kernel.sched_ready THEN Settled(kernel) ELSE Booting(kernel)

\* Creating a task before launch.
LEMMA BootCreateLemma ==
  ASSUME NEW k, Booting(k), FreeTids(k) # {}, NEW pri \in Priorities
  PROVE  /\ Booting(CreateTask(k, pri))
         /\ Range(CreateTask(k, pri).ready) = Range(k.ready) \cup {LowestFree(k)}
         /\ CreateTask(k, pri).tid_bitmap = k.tid_bitmap \cup {LowestFree(k)}
         /\ CreateTask(k, pri).halted = k.halted
<1>1. k \in KernelState /\ ListsMatch(k) /\ ~k.sched_ready
  BY DEF Booting
<1>2. CreateTask(k, pri) = NewTask(k, pri)
  BY <1>1 DEF CreateTask
<1> DEFINE r == NewTask(k, pri)
<1>3. /\ r \in KernelState /\ ListsMatch(r)
      /\ Range(r.ready) = Range(k.ready) \cup {LowestFree(k)}
      /\ r.current = k.current /\ r.halted = k.halted
      /\ r.sched_ready = k.sched_ready
      /\ r.tid_bitmap = k.tid_bitmap \cup {LowestFree(k)}
      /\ \A t \in Tid : r.status[t] = "Running" => k.status[t] = "Running"
  BY <1>1, NewTaskLemma
<1> HIDE DEF r
<1> QED
  BY <1>2, <1>3 DEF Booting, r

\* Scheduler::launch with a free tid: READY_LIST is not empty, as idle is on it.
LEMMA LaunchLemma ==
  ASSUME NEW k, Booting(k), ~k.halted, FreeTids(k) # {}
  PROVE  /\ Settled(LaunchKernel(k)) /\ LaunchKernel(k).sched_ready
         /\ LowestFree(k) \in LaunchKernel(k).tid_bitmap
<1> DEFINE m == CreateTask(k, PRI_MIN)
           st == Head(m.ready)
           status == [m.status EXCEPT ![st] = "Running"]
           r == [m EXCEPT !.status = status, !.current = st, !.sched_ready = TRUE]
<1>1. PRI_MIN \in Priorities
  BY KernelAssumption DEF Priorities
<1>2. /\ Booting(m) /\ Holds(m.ready, LowestFree(k)) /\ ~m.halted
      /\ LowestFree(k) \in m.tid_bitmap
  BY <1>1, BootCreateLemma DEF Holds
<1>3. LaunchKernel(k) = r
  BY DEF LaunchKernel
<1> HIDE DEF m
<1>4. /\ m \in KernelState /\ ListsMatch(m) /\ m.ready \in Seq(Tid)
      /\ m.status \in [Tid -> Status]
  BY <1>2 DEF Booting, KernelState
<1>5. st \in Tid /\ Holds(m.ready, st)
  <2>1. m.ready # << >>
    BY <1>2 DEF Holds, Range
  <2>2. st = m.ready[1] /\ 1 \in DOMAIN m.ready
    BY <1>4, <2>1, HeadTailProperties
  <2> QED
    BY <1>4, <2>2 DEF Holds, Range
<1> HIDE DEF st
<1>6. /\ status \in [Tid -> Status]
      /\ \A t \in Tid : status[t] = IF t = st THEN "Running" ELSE m.status[t]
  BY <1>4 DEF Status
<1> HIDE DEF status
<1>7. r \in KernelState
  BY <1>4, <1>5, <1>6 DEF KernelState
<1>8. /\ r.ready = m.ready /\ r.blocked = m.blocked /\ r.sleeping = m.sleeping
      /\ r.status = status /\ r.tid_bitmap = m.tid_bitmap /\ r.current = st
      /\ r.halted = m.halted /\ r.sched_ready = TRUE
  BY <1>4 DEF KernelState
<1> HIDE DEF r
<1>9. m.status[st] = "Ready"
  <2>1. m.status[st] \in Status /\ m.status[st] # "Running" /\ Matched(m, st)
    BY <1>2, <1>4, <1>5 DEF Booting, ListsMatch
  <2> QED
    BY <1>5, <2>1 DEF Matched, OnNoList, Status
<1>10. ASSUME NEW t \in Tid PROVE Matched(r, t)
  <2>1. Matched(m, t)
    BY <1>4 DEF ListsMatch
  <2>2. CASE t = st
    BY <1>6, <1>8, <1>9, <2>1, <2>2 DEF Matched, OnNoList
  <2>3. CASE t # st
    BY <1>6, <1>8, <2>1, <2>3 DEF Matched, OnNoList
  <2> QED
    BY <2>2, <2>3
<1>11. ListsMatch(r)
  BY <1>4, <1>8, <1>10 DEF ListsMatch, NoRepeats
<1>12. \A t \in Tid : r.status[t] = "Running" => t = st
  BY <1>2, <1>6, <1>8 DEF Booting
<1> QED
  BY <1>2, <1>3, <1>5, <1>7, <1>8, <1>11, <1>12 DEF Settled

-----------------------------------------------------------------------------
(* The induction.                                                          *)

\* The statics before main runs satisfy the invariant.
LEMMA InitIInv == Init => IInv
<1> SUFFICES ASSUME Init PROVE IInv
  OBVIOUS
<1> DEFINE k == KernelInit
<1>1. k \in KernelState
  <2>1. << >> \in Seq(Tid)
    OBVIOUS
  <2>2. /\ "Terminated" \in Status /\ PRI_MIN \in Priorities /\ 0 \in Tick
        /\ TIME_SLICE \in 0..TIME_SLICE
    BY KernelAssumption DEF Status, Priorities, Tick
  <2> QED
    BY <2>1, <2>2 DEF KernelInit, KernelState
<1>2. ListsMatch(k)
  BY DEF KernelInit, ListsMatch, NoRepeats, IsInjective, Matched, OnNoList,
         Holds, Range
<1>3. Booting(k) /\ ~k.sched_ready
  BY <1>1, <1>2 DEF KernelInit, Booting
<1> QED
  BY <1>3 DEF Init, IInv

\* An operation of a task keeps the invariant if it settles the kernel and the
\* only tid it may free is one the idle task is then forgotten with.
LEMMA OperationLemma ==
  ASSUME IInv, Up, NEW tid \in Tid,
         Settled(kernel'), kernel'.sched_ready = kernel.sched_ready,
         \/ kernel.tid_bitmap \subseteq kernel'.tid_bitmap /\ UNCHANGED idle
         \/ kernel'.tid_bitmap = kernel.tid_bitmap \ {tid} /\ Forget(tid)
  PROVE  IInv'
BY KernelAssumption DEF IInv, Up, Forget

\* Every step of Tasks keeps the invariant.
LEMMA NextIInv == IInv /\ [Next]_vars => IInv'
<1> SUFFICES ASSUME IInv, [Next]_vars PROVE IInv'
  OBVIOUS
<1> USE DEF vars
<1>0. /\ Up => Settled(kernel) /\ ~kernel.halted /\ kernel.current \in Tid
      /\ InTask => Up
  BY DEF IInv, Up, InTask, Settled
<1>1. CASE Launch
  <2>1. Booting(kernel) /\ ~kernel.halted /\ idle \in Tid \cup {NoTask}
    BY <1>1 DEF Launch, IInv
  <2>2. CASE FreeTids(kernel) = {}
    <3>1. kernel' = [kernel EXCEPT !.halted = TRUE] /\ idle' = idle
      BY <1>1, <2>2 DEF Launch
    <3>2. kernel' \in KernelState
      BY <2>1, <3>1 DEF Booting, KernelState
    <3>3. /\ kernel'.ready = kernel.ready /\ kernel'.blocked = kernel.blocked
          /\ kernel'.sleeping = kernel.sleeping /\ kernel'.status = kernel.status
          /\ kernel'.tid_bitmap = kernel.tid_bitmap
          /\ kernel'.current = kernel.current
          /\ kernel'.sched_ready = kernel.sched_ready
      BY <2>1, <3>1 DEF Booting, KernelState
    <3>4. ListsMatch(kernel')
      BY <2>1, <3>3 DEF Booting, ListsMatch, NoRepeats, Matched, OnNoList
    <3>5. Booting(kernel')
      BY <2>1, <3>2, <3>3, <3>4 DEF Booting
    <3> QED
      BY <3>1, <3>3, <3>5 DEF IInv, Booting
  <2>3. CASE FreeTids(kernel) # {}
    <3>1. kernel' = LaunchKernel(kernel) /\ idle' = LowestFree(kernel)
      BY <1>1, <2>3 DEF Launch
    <3>2. LowestFree(kernel) \in Tid
      BY <2>1, <2>3, LowestFreeLemma DEF Booting
    <3> QED
      BY <2>1, <2>3, <3>1, <3>2, LaunchLemma DEF IInv
  <2> QED
    BY <2>2, <2>3
<1>2. ASSUME NEW pri \in AppPriorities, Create(pri) PROVE IInv'
  <2>1. /\ kernel' = CreateTask(kernel, pri) /\ idle' = idle
        /\ FreeTids(kernel) # {} /\ ~kernel.halted
        /\ kernel.sched_ready => Up /\ InTask
    BY <1>0, <1>2 DEF Create
  <2>2. pri \in Priorities
    BY TasksAssumption
  <2>3. CASE kernel.sched_ready
    BY <1>0, <2>1, <2>2, <2>3, CreateLemma, OperationLemma
  <2>4. CASE ~kernel.sched_ready
    <3>1. Booting(kernel)
      BY <2>4 DEF IInv
    <3>2. /\ Booting(kernel') /\ kernel.tid_bitmap \subseteq kernel'.tid_bitmap
          /\ ~kernel'.sched_ready
      BY <2>1, <2>2, <3>1, BootCreateLemma DEF Booting
    <3> QED
      BY <2>1, <3>2 DEF IInv
  <2> QED
    BY <2>3, <2>4
<1>3. ASSUME NEW pri \in AppPriorities, CreateRaw(pri) PROVE IInv'
  <2>1. /\ kernel' = NewTask(kernel, pri) /\ idle' = idle
        /\ FreeTids(kernel) # {} /\ ~kernel.halted
        /\ kernel.sched_ready => Up /\ InTask
    BY <1>0, <1>3 DEF CreateRaw
  <2>2. pri \in Priorities
    BY TasksAssumption
  <2>3. CASE kernel.sched_ready
    BY <1>0, <2>1, <2>2, <2>3, CreateRawLemma, OperationLemma
  <2>4. CASE ~kernel.sched_ready
    <3>1. Booting(kernel) /\ NewTask(kernel, pri) = CreateTask(kernel, pri)
      BY <2>4 DEF IInv, CreateTask
    <3>2. /\ Booting(kernel') /\ kernel.tid_bitmap \subseteq kernel'.tid_bitmap
          /\ ~kernel'.sched_ready
      BY <2>1, <2>2, <3>1, BootCreateLemma DEF Booting
    <3> QED
      BY <2>1, <3>2 DEF IInv
  <2> QED
    BY <2>3, <2>4
<1>4. CASE Exit
  <2>1. InTask /\ kernel' = ExitCurrent(kernel) /\ Forget(kernel.current)
    BY <1>4 DEF Exit
  <2> QED
    BY <1>0, <2>1, ExitLemma, OperationLemma
<1>5. ASSUME NEW tid \in Tid, Terminate(tid) PROVE IInv'
  <2>1. InTask /\ kernel' = TerminateTask(kernel, tid) /\ Forget(tid)
    BY <1>5 DEF Terminate
  <2> QED
    BY <1>0, <2>1, TerminateLemma, OperationLemma
<1>6. ASSUME NEW tid \in Tid, Block(tid) PROVE IInv'
  <2>1. /\ InTask /\ kernel' = BlockTask(kernel, tid) /\ idle' = idle
        /\ kernel.status[tid] \in {"Ready", "Running"}
    BY <1>6 DEF Block
  <2> QED
    BY <1>0, <2>1, BlockLemma, OperationLemma
<1>7. ASSUME NEW tid \in Tid, Resume(tid) PROVE IInv'
  <2>1. /\ InTask /\ kernel' = ResumeTask(kernel, tid) /\ idle' = idle
        /\ kernel.status[tid] = "Blocked" /\ Holds(kernel.blocked, tid)
    BY <1>7 DEF Resume
  <2> QED
    BY <1>0, <2>1, ResumeLemma, OperationLemma
<1>8. ASSUME NEW ticks \in Delays, Delay(ticks) PROVE IInv'
  <2>1. InTask /\ kernel' = DelayCurrent(kernel, ticks) /\ idle' = idle
    BY <1>8 DEF Delay
  <2>2. ticks \in Nat
    BY TasksAssumption
  <2> QED
    BY <1>0, <2>1, <2>2, DelayLemma, OperationLemma
<1>9. CASE Yield
  <2>1. Up /\ kernel' = NextTcb(kernel) /\ idle' = idle
    BY <1>9 DEF Yield
  <2> QED
    BY <1>0, <2>1, SettledIsSwitchable, NextTcbLemma, OperationLemma
<1>10. CASE Timer
  <2>1. PICK missed \in 0..MissedMax : Systick(missed)
    BY <1>10 DEF Timer
  <2>2. Up /\ kernel' = TickTrap(kernel, 1 + missed) /\ idle' = idle
    BY <2>1 DEF Systick
  <2>3. 1 + missed \in Nat
    BY TasksAssumption
  <2> QED
    BY <1>0, <2>2, <2>3, TickLemma, OperationLemma
<1>11. CASE UNCHANGED vars
  BY <1>11 DEF IInv
<1> QED
  BY <1>1, <1>2, <1>3, <1>4, <1>5, <1>6, <1>7, <1>8, <1>9, <1>10, <1>11 DEF Next

\* The invariant holds of every reachable state.
LEMMA SpecIInv == Spec => []IInv
BY InitIInv, NextIInv, PTL DEF Spec

-----------------------------------------------------------------------------
(* What follows from it.                                                   *)

\* The statics keep their types whatever is called and however the timer fires.
THEOREM TypeCorrect == Spec => []TypeOK
<1>1. IInv => TypeOK
  BY DEF IInv, TypeOK, Settled, Booting
<1> QED
  BY <1>1, SpecIInv, PTL

\* A live task is on exactly the list its status names, a dead one on none; no
\* list ever holds a task twice, so none overflows.
THEOREM ListsAlwaysMatch == Spec => []ListsMatchStatus
<1>1. IInv => ListsMatchStatus
  BY DEF IInv, ListsMatchStatus, Settled, Booting
<1> QED
  BY <1>1, SpecIInv, PTL

\* The current task may run and is the only one labelled Running.
THEOREM OneTaskRuns == Spec => []OneRunning
<1>1. IInv => OneRunning
  BY DEF IInv, OneRunning, Up, Settled
<1> QED
  BY <1>1, SpecIInv, PTL

\* next_tcb panics only after somebody has killed or blocked the idle task.
THEOREM NoHaltWhileIdleLives == Spec => []HaltNeedsIdleGone
<1>1. IInv => HaltNeedsIdleGone
  <2> SUFFICES ASSUME IInv, kernel.halted, kernel.sched_ready, idle # NoTask
               PROVE  kernel.status[idle] = "Blocked"
    BY DEF HaltNeedsIdleGone
  <2>1. /\ kernel \in KernelState /\ ListsMatch(kernel) /\ kernel.ready = << >>
        /\ idle \in Tid /\ idle \in kernel.tid_bitmap
    BY DEF IInv, Settled
  <2>2. ~Holds(kernel.ready, idle)
    BY <2>1 DEF Holds, Range
  <2>3. Matched(kernel, idle) /\ kernel.status[idle] \in Status
    BY <2>1 DEF ListsMatch, KernelState
  <2> QED
    BY <2>1, <2>2, <2>3 DEF Matched, Status
<1> QED
  BY <1>1, SpecIInv, PTL

-----------------------------------------------------------------------------
(* READY_LIST in order, nobody overdue asleep, nobody overtaken.           *)

\* Nobody sleeps longer than some delay asked for, unless the counter wraps.
Patient(k) ==
  /\ k.os_ticks <= Horizon
  /\ Horizon < TickMod =>
       \A t \in Range(k.sleeping) :
         \E ticks \in Delays : k.wake_point[t] <= k.os_ticks + ticks

\* What the operations keep besides the lists and labels.
Tidy(k) == Ordered(k) /\ Awake(k) /\ Patient(k)

\* Nobody new falls asleep and no sleeper's wake_point moves.
LEMMA PatientStill ==
  ASSUME NEW k, NEW r, Patient(k), r.os_ticks = k.os_ticks,
         \A t \in Range(r.sleeping) :
           t \in Range(k.sleeping) /\ r.wake_point[t] = k.wake_point[t]
  PROVE  Patient(r)
BY DEF Patient

\* What they find and what a yield leaves.
LEMMA SettledIsFit ==
  ASSUME NEW k, Settled(k), ~k.halted
  PROVE  Fit(k) /\ k.current \in Tid /\ k.current \in Range(k.ready)
BY MatchedIsFit DEF Settled, Holds

LEMMA TidyNextTcb ==
  ASSUME NEW k, Fit(k), k.current \in Tid, ~k.halted, Ordered(k), Patient(k)
  PROVE  Tidy(NextTcb(k)) /\ Foremost(NextTcb(k)) /\ PeersWait(k, NextTcb(k))
<1>1. Switched(k, NextTcb(k))
  BY FitNextTcb
<1>2. Patient(NextTcb(k))
  BY <1>1, PatientStill DEF Switched, SleepersStay, SameTasks
<1> QED
  BY <1>1, <1>2 DEF Switched, Tidy

\* The yield at the end of an operation that has taken r from k: what it took off
\* READY_LIST is not for the scheduler to put back.
LEMMA TidyThenYield ==
  ASSUME NEW k, NEW r, Fit(r), r.current = k.current, k.current \in Tid, ~r.halted,
         Ordered(r), Patient(r), PeersWait(k, r),
         (Range(k.ready) \cap Known(r)) \ {k.current} \subseteq Range(r.ready)
  PROVE  Tidy(NextTcb(r)) /\ Foremost(NextTcb(r)) /\ PeersWait(k, NextTcb(r))
<1> DEFINE q == NextTcb(r)
<1>1. Switched(r, q) /\ Tidy(q) /\ Foremost(q) /\ PeersWait(r, q)
  BY FitNextTcb, TidyNextTcb
<1> HIDE DEF q
<1>2. (Range(k.ready) \cap Range(q.ready)) \ {k.current} \subseteq Range(r.ready)
  BY <1>1 DEF Switched, Known
<1>3. q.priority = r.priority
  BY <1>1 DEF Switched, SameTasks
<1>4. PeersWait(k, q)
  BY <1>1, <1>2, <1>3, PeersWaitOn
<1> QED
  BY <1>1, <1>4 DEF q

\* The yield of create and resume, when only tid may be more urgent than the
\* current task.
LEMMA TidyYieldIfOutranked ==
  ASSUME NEW k, Fit(k), k.current \in Tid, ~k.halted, Tidy(k), NEW tid \in Tid
  PROVE  /\ Tidy(YieldIfOutranked(k, tid))
         /\ (\A t \in Range(k.ready) \ {tid} : k.priority[k.current] <= k.priority[t])
              => Foremost(YieldIfOutranked(k, tid))
         /\ PeersWait(k, YieldIfOutranked(k, tid))
         /\ YieldIfOutranked(k, tid).priority = k.priority
<1>1. CASE OutranksCurrent(k, tid)
  BY <1>1, FitNextTcb, TidyNextTcb DEF YieldIfOutranked, Tidy, Switched, SameTasks
<1>2. CASE ~OutranksCurrent(k, tid)
  <2>1. k.priority[k.current] <= k.priority[tid]
    <3>1. k.priority[k.current] \in Nat /\ k.priority[tid] \in Nat
      BY KernelAssumption DEF Fit, KernelState, Priorities
    <3> QED
      BY <1>2, <3>1, KernelAssumption DEF OutranksCurrent
  <2> QED
    BY <1>2, <2>1, PeersAtRest DEF YieldIfOutranked, Foremost
<1> QED
  BY <1>1, <1>2

\* A task leaves the lists for good: exit_current and terminate up to the yield.
Freed(k, tid, sleeping, blocked) ==
  FreeTid([k EXCEPT !.ready = Drop(k.ready, tid), !.sleeping = sleeping,
                    !.blocked = blocked], tid)

Left(k, q, tid) ==
  /\ Fit(q) /\ q.current = k.current /\ q.halted = k.halted
  /\ Ordered(k) => Ordered(q)
  /\ Patient(k) => Patient(q)
  /\ PeersWait(k, q)
  /\ Range(q.ready) = Range(k.ready) \ {tid}

LEMMA TidyFree ==
  ASSUME NEW k, Fit(k), NEW tid \in Tid, NEW blocked \in Seq(Tid),
         NEW sleeping \in {k.sleeping, Drop(k.sleeping, tid)}
  PROVE  /\ Left(k, Freed(k, tid, sleeping, blocked), tid)
         /\ Freed(k, tid, sleeping, blocked).sleeping = sleeping
<1> DEFINE list == Drop(k.ready, tid)
           status == [k.status EXCEPT ![tid] = "Terminated"]
           taken == k.tid_bitmap \ {tid}
           r == [k EXCEPT !.ready = list, !.sleeping = sleeping, !.blocked = blocked,
                          !.tid_bitmap = taken, !.status = status]
<1>1. /\ k \in KernelState /\ k.ready \in Seq(Tid) /\ k.sleeping \in Seq(Tid)
      /\ k.status \in [Tid -> Status] /\ k.tid_bitmap \subseteq Tid
  BY DEF Fit, KernelState
<1>2. list \in Seq(Tid) /\ sleeping \in Seq(Tid)
  BY <1>1, DropProperties
<1>3. status \in [Tid -> Status]
  BY <1>1 DEF Status
<1>4. Freed(k, tid, sleeping, blocked) = r
  BY <1>1 DEF Freed, FreeTid, KernelState
<1>5. r \in KernelState
  <2> HIDE DEF list, status
  <2> QED BY <1>1, <1>2, <1>3 DEF KernelState
<1>6. /\ r.ready = list /\ r.sleeping = sleeping /\ r.status = status
      /\ r.priority = k.priority /\ r.current = k.current /\ r.halted = k.halted
      /\ r.os_ticks = k.os_ticks /\ r.wake_point = k.wake_point
  <2> HIDE DEF list, status
  <2> QED BY <1>1 DEF KernelState
<1> HIDE DEF r
<1>7. /\ Fit(r) /\ (Ordered(k) => Ordered(r)) /\ PeersWait(k, r)
      /\ Range(r.ready) = Range(k.ready) \ {tid}
      /\ Range(r.sleeping) \subseteq Range(k.sleeping)
  BY <1>5, <1>6, FitRemove
<1>8. Patient(k) => Patient(r)
  BY <1>6, <1>7, PatientStill
<1> QED
  BY <1>4, <1>6, <1>7, <1>8 DEF Left

\* Task::exit_current.
LEMMA TidyExit ==
  ASSUME NEW k, Settled(k), ~k.halted, Tidy(k)
  PROVE  /\ Tidy(ExitCurrent(k)) /\ Foremost(ExitCurrent(k))
         /\ PeersWait(k, ExitCurrent(k))
<1> DEFINE r == Freed(k, k.current, k.sleeping, k.blocked)
<1>1. Fit(k) /\ k.current \in Tid
  BY SettledIsFit
<1>2. k \in KernelState /\ k.blocked \in Seq(Tid)
  BY <1>1 DEF Fit, KernelState
<1>3. ExitCurrent(k) = NextTcb(r)
  <2>1. [k EXCEPT !.ready = Drop(k.ready, k.current)] =
          [k EXCEPT !.ready = Drop(k.ready, k.current), !.sleeping = k.sleeping,
                    !.blocked = k.blocked]
    BY <1>2 DEF KernelState
  <2> QED
    BY <2>1 DEF ExitCurrent, Freed
<1>4. Left(k, r, k.current)
  BY <1>1, <1>2, TidyFree
<1> HIDE DEF r
<1> QED
  BY <1>1, <1>3, <1>4, TidyThenYield DEF Tidy, Left

\* Task::terminate.
LEMMA TidyTerminate ==
  ASSUME NEW k, Settled(k), ~k.halted, Tidy(k), NEW tid \in Tid
  PROVE  /\ Tidy(TerminateTask(k, tid)) /\ Foremost(TerminateTask(k, tid))
         /\ PeersWait(k, TerminateTask(k, tid))
<1> DEFINE r == Freed(k, tid, Drop(k.sleeping, tid), Drop(k.blocked, tid))
<1>1. Fit(k) /\ k.current \in Tid
  BY SettledIsFit
<1>2. k.blocked \in Seq(Tid)
  BY <1>1 DEF Fit, KernelState
<1>3. TerminateTask(k, tid) = NextTcb(r)
  BY DEF TerminateTask, Freed
<1>4. Left(k, r, tid) /\ r.sleeping = Drop(k.sleeping, tid)
  <2>1. Drop(k.blocked, tid) \in Seq(Tid)
    BY <1>2, DropProperties
  <2> QED
    BY <1>1, <2>1, TidyFree
<1>5. tid \notin Known(r)
  <2>1. k.sleeping \in Seq(Tid) /\ IsInjective(k.sleeping)
    BY <1>1 DEF Fit, KernelState
  <2> QED
    BY <1>4, <2>1, DropProperties DEF Known, Left
<1> HIDE DEF r
<1> QED
  BY <1>1, <1>3, <1>4, <1>5, TidyThenYield DEF Tidy, Left

\* Task::block.
LEMMA TidyBlock ==
  ASSUME NEW k, Settled(k), ~k.halted, Tidy(k), NEW tid \in Tid,
         k.status[tid] \in {"Ready", "Running"}
  PROVE  /\ Tidy(BlockTask(k, tid)) /\ Foremost(BlockTask(k, tid))
         /\ PeersWait(k, BlockTask(k, tid))
<1> DEFINE j == TakeOff(k, tid)
           list == PushBack(j.blocked, tid)
           r == [j EXCEPT !.blocked = list]
<1>1. Fit(k) /\ k.current \in Tid
  BY SettledIsFit
<1>2. /\ Fit(j) /\ j.current = k.current /\ j.halted = k.halted
      /\ Ordered(k) => Ordered(j)
      /\ PeersWait(k, j) /\ SameTasks(k, j) /\ j.sleeping = k.sleeping
      /\ j.wake_point = k.wake_point
      /\ Range(j.ready) = Range(k.ready) \ {tid}
  BY <1>1, FitTakeOff
<1>8. tid \notin Range(k.sleeping)
  BY <1>1 DEF Fit
<1>3. BlockTask(k, tid) = NextTcb(r)
  BY DEF BlockTask
<1> HIDE DEF j
<1>4. j \in KernelState /\ list \in Seq(Tid)
  BY <1>2, AppendProperties DEF Fit, KernelState, PushBack
<1> HIDE DEF list
<1>5. r \in KernelState
  BY <1>4 DEF KernelState
<1>6. /\ r.ready = j.ready /\ r.sleeping = j.sleeping /\ r.status = j.status
      /\ r.priority = j.priority /\ r.current = j.current /\ r.halted = j.halted
      /\ r.os_ticks = j.os_ticks /\ r.wake_point = j.wake_point
  BY <1>4 DEF KernelState
<1> HIDE DEF r
<1>7. Fit(r) /\ (Ordered(k) => Ordered(r)) /\ PeersWait(k, r)
  BY <1>2, <1>5, <1>6, PeersUnmoved DEF Fit, Ordered
<1>9. Patient(r)
  BY <1>2, <1>6, PatientStill DEF SameTasks, Tidy
<1>10. (Range(k.ready) \cap Known(r)) \ {k.current} \subseteq Range(r.ready)
  BY <1>2, <1>6, <1>8 DEF Known
<1> QED
  BY <1>1, <1>2, <1>3, <1>6, <1>7, <1>9, <1>10, TidyThenYield DEF Tidy

\* Task::resume of a task that block parked.
LEMMA TidyResume ==
  ASSUME NEW k, Settled(k), ~k.halted, Tidy(k), NEW tid \in Tid,
         k.status[tid] = "Blocked", Holds(k.blocked, tid)
  PROVE  /\ Tidy(ResumeTask(k, tid))
         /\ Foremost(k) => Foremost(ResumeTask(k, tid))
         /\ PeersWait(k, ResumeTask(k, tid))
<1> DEFINE list == Drop(k.blocked, tid)
           j == [k EXCEPT !.blocked = list]
           r == MakeReady(j, tid)
<1>1. /\ Fit(k) /\ k.current \in Tid /\ k.current \in Range(k.ready)
      /\ k \in KernelState /\ k.blocked \in Seq(Tid) /\ Matched(k, tid)
  BY SettledIsFit DEF Settled, Fit, KernelState, ListsMatch
<1>2. list \in Seq(Tid)
  BY <1>1, DropProperties
<1>3. ResumeTask(k, tid) = YieldIfOutranked(r, tid)
  BY DEF ResumeTask
<1> HIDE DEF list
<1>4. j \in KernelState
  BY <1>1, <1>2 DEF KernelState
<1>5. /\ j.ready = k.ready /\ j.sleeping = k.sleeping /\ j.status = k.status
      /\ j.priority = k.priority /\ j.wake_point = k.wake_point
      /\ j.os_ticks = k.os_ticks /\ j.current = k.current /\ j.halted = k.halted
  BY <1>1 DEF KernelState
<1> HIDE DEF j
<1>6. FitBut(j, tid)
  BY <1>1, <1>4, <1>5 DEF Fit, FitBut, Known, Matched, Holds
<1>7. /\ Fit(r) /\ SameTasks(j, r) /\ Range(r.ready) = Range(j.ready) \cup {tid}
      /\ r.sleeping = j.sleeping /\ r.wake_point = j.wake_point
      /\ r.current = j.current /\ r.halted = j.halted
      /\ Ordered(j) => Ordered(r) /\ PeersWait(j, r)
  BY <1>6, FitMakeReady
<1> HIDE DEF r
<1>8. Tidy(r)
  <2>1. Patient(r)
    BY <1>5, <1>7, PatientStill DEF Tidy, SameTasks
  <2> QED
    BY <1>5, <1>7, <2>1 DEF Tidy, Ordered, Awake, Due, SameTasks
<1>10. PeersWait(k, r)
  BY <1>5, <1>7 DEF PeersWait, Tidy, Ordered
<1>9. Foremost(k) => \A t \in Range(r.ready) \ {tid} :
                        r.priority[r.current] <= r.priority[t]
  BY <1>5, <1>7 DEF Foremost, SameTasks
<1>11. PeersWait(k, YieldIfOutranked(r, tid))
  <2>1. /\ PeersWait(r, YieldIfOutranked(r, tid))
        /\ YieldIfOutranked(r, tid).priority = r.priority
    BY <1>1, <1>5, <1>7, <1>8, TidyYieldIfOutranked
  <2> QED
    BY <1>5, <1>7, <1>10, <2>1, PeersWaitOn
<1> QED
  BY <1>1, <1>3, <1>5, <1>7, <1>8, <1>9, <1>11, TidyYieldIfOutranked

\* alloc_tid and the place of the new task: the slot's fields are reset, which
\* matters to no list as a free tid is on none.
LEMMA TidyNewTask ==
  ASSUME NEW k \in KernelState, ListsMatch(k), FreeTids(k) # {},
         NEW pri \in Priorities, Tidy(k)
  PROVE  /\ Fit(NewTask(k, pri)) /\ Tidy(NewTask(k, pri))
         /\ Range(NewTask(k, pri).ready) = Range(k.ready) \cup {LowestFree(k)}
         /\ NewTask(k, pri).current = k.current
         /\ NewTask(k, pri).halted = k.halted
         /\ \A t \in Tid \ {LowestFree(k)} : NewTask(k, pri).priority[t] = k.priority[t]
         /\ PeersWait(k, NewTask(k, pri))
<1> DEFINE tid == LowestFree(k)
           r == NewTask(k, pri)
<1>1. Fit(k) /\ tid \notin Known(k)
  BY MatchedIsFit, LowestFreeLemma
     DEF ListsMatch, Matched, OnNoList, Holds, Known
<1>2. /\ Fit(r) /\ Range(r.ready) = Range(k.ready) \cup {tid}
      /\ r.sleeping = k.sleeping /\ r.current = k.current /\ r.halted = k.halted
      /\ r.priority = [k.priority EXCEPT ![tid] = pri]
      /\ r.wake_point = [k.wake_point EXCEPT ![tid] = 0]
      /\ r.os_ticks = k.os_ticks /\ (Ordered(k) => Ordered(r) /\ PeersWait(k, r))
  BY <1>1, FitNewTask
<1> HIDE DEF r, tid
<1>3. /\ k.priority \in [Tid -> Priorities] /\ k.wake_point \in [Tid -> Tick]
      /\ k.sleeping \in Seq(Tid)
  BY DEF KernelState
<1>4. Range(k.sleeping) \subseteq Tid \ {tid}
  BY <1>1, <1>3 DEF Known, Range
<1>5. Awake(r)
  BY <1>2, <1>3, <1>4 DEF Tidy, Awake, Due
<1>6. Patient(r)
  <2>1. \A t \in Range(r.sleeping) : r.wake_point[t] = k.wake_point[t]
    BY <1>2, <1>3, <1>4
  <2> QED
    BY <1>2, <2>1, PatientStill DEF Tidy
<1> QED
  BY <1>2, <1>3, <1>5, <1>6 DEF Tidy, r, tid

\* Task::create once the scheduler runs.
LEMMA TidyCreate ==
  ASSUME NEW k, Settled(k), ~k.halted, k.sched_ready, FreeTids(k) # {},
         NEW pri \in Priorities, Tidy(k)
  PROVE  /\ Tidy(CreateTask(k, pri))
         /\ Foremost(k) => Foremost(CreateTask(k, pri))
         /\ PeersWait(k, CreateTask(k, pri))
<1> DEFINE tid == LowestFree(k)
           r == NewTask(k, pri)
<1>1. /\ k \in KernelState /\ ListsMatch(k) /\ k.current \in Tid
      /\ k.current \in Range(k.ready)
  BY DEF Settled, Holds
<1>2. /\ Fit(r) /\ Tidy(r) /\ Range(r.ready) = Range(k.ready) \cup {tid}
      /\ r.current = k.current /\ r.halted = k.halted
      /\ \A t \in Tid \ {tid} : r.priority[t] = k.priority[t]
      /\ PeersWait(k, r)
  BY <1>1, TidyNewTask
<1>3. CreateTask(k, pri) = YieldIfOutranked(r, tid)
  BY DEF CreateTask
<1>4. tid \in Tid /\ tid \notin k.tid_bitmap
  BY <1>1, LowestFreeLemma
<1> HIDE DEF r, tid
<1>5. Range(k.ready) \subseteq Tid \ {tid}
  <2>1. Matched(k, tid) /\ k.ready \in Seq(Tid)
    BY <1>1, <1>4 DEF ListsMatch, KernelState
  <2> QED
    BY <1>4, <2>1 DEF Matched, OnNoList, Holds, Range
<1>6. Foremost(k) => \A t \in Range(r.ready) \ {tid} :
                        r.priority[r.current] <= r.priority[t]
  BY <1>1, <1>2, <1>5 DEF Foremost
<1>7. PeersWait(k, YieldIfOutranked(r, tid))
  <2>1. /\ PeersWait(r, YieldIfOutranked(r, tid))
        /\ YieldIfOutranked(r, tid).priority = r.priority
    BY <1>1, <1>2, <1>4, TidyYieldIfOutranked
  <2> QED
    BY <1>2, <2>1, PeersWaitOn
<1> QED
  BY <1>1, <1>2, <1>3, <1>4, <1>6, <1>7, TidyYieldIfOutranked

\* Scheduler::launch.
LEMMA TidyLaunch ==
  ASSUME NEW k, Booting(k), FreeTids(k) # {}, Tidy(k)
  PROVE  Tidy(LaunchKernel(k)) /\ PeersWait(k, LaunchKernel(k))
<1> DEFINE m == NewTask(k, PRI_MIN)
           st == Head(m.ready)
           status == [m.status EXCEPT ![st] = "Running"]
           r == [m EXCEPT !.status = status, !.current = st, !.sched_ready = TRUE]
<1>1. k \in KernelState /\ ListsMatch(k) /\ PRI_MIN \in Priorities
  BY KernelAssumption DEF Booting, Priorities
<1>2. Fit(m) /\ Tidy(m) /\ PeersWait(k, m)
  BY <1>1, TidyNewTask
<1>3. LaunchKernel(k) = r
  BY DEF LaunchKernel, CreateTask, Booting
<1> HIDE DEF m
<1>4. m \in KernelState
  BY <1>2 DEF Fit
<1> HIDE DEF status, st
<1>5. /\ r.ready = m.ready /\ r.priority = m.priority /\ r.sleeping = m.sleeping
      /\ r.wake_point = m.wake_point /\ r.os_ticks = m.os_ticks
  BY <1>4 DEF KernelState
<1> HIDE DEF r
<1>6. Patient(r) /\ PeersWait(k, r)
  BY <1>2, <1>5, PatientStill, PeersUnmoved DEF Tidy
<1> QED
  BY <1>2, <1>3, <1>5, <1>6 DEF Tidy, Ordered, Awake, Due

\* A sum that fits the counter is itself; any other is smaller.
LEMMA UnwrappedSum ==
  ASSUME NEW now \in Tick, NEW n \in Nat
  PROVE  /\ now \in Nat /\ (now + n) % TickMod <= now + n
         /\ now + n < TickMod => (now + n) % TickMod = now + n
BY KernelAssumption DEF Tick

LEMMA WakeSum ==
  ASSUME NEW k, k.os_ticks \in Tick, NEW ticks \in 1 .. TickMod - 1
  PROVE  /\ ticks < TickMod /\ WakeTime(k, ticks) <= k.os_ticks + ticks
         /\ k.os_ticks + ticks < TickMod => WakeTime(k, ticks) = k.os_ticks + ticks
BY KernelAssumption, UnwrappedSum DEF WakeTime

\* Task::delay: in an unwrapped counter the caller's wake_point is the sum.
LEMMA TidyDelay ==
  ASSUME NEW k, Settled(k), ~k.halted, Tidy(k), NEW ticks \in Delays
  PROVE  /\ Tidy(DelayCurrent(k, ticks)) /\ Foremost(DelayCurrent(k, ticks))
         /\ PeersWait(k, DelayCurrent(k, ticks))
<1> DEFINE r == DelayCurrent(k, ticks)
           cr == k.current
<1>1. Fit(k) /\ cr \in Tid /\ cr \in Range(k.ready) /\ ticks \in Nat
  BY SettledIsFit, TasksAssumption
<1>2. /\ Yielded(k, r) /\ (Ordered(k) => PeersWait(k, r))
      /\ cr \in Range(r.sleeping) => r.wake_point[cr] = WakeTime(k, ticks)
      /\ \A t \in Range(r.sleeping) \ {cr} :
           t \in Range(k.sleeping) /\ r.wake_point[t] = k.wake_point[t]
  BY <1>1, FitDelay
<1>3. r.os_ticks = k.os_ticks
  BY <1>2 DEF Yielded, SameTasks
<1> HIDE DEF r
<1>4. k.os_ticks \in Tick /\ ticks < TickMod /\ WakeTime(k, ticks) <= k.os_ticks + ticks
  <2>1. k.os_ticks \in Tick /\ ticks \in 1 .. TickMod - 1
    BY <1>1, TasksAssumption DEF Fit, KernelState
  <2> QED
    BY <1>1, <2>1, WakeSum
<1>5. Patient(r)
  <2> SUFFICES ASSUME Horizon < TickMod, NEW t \in Range(r.sleeping)
               PROVE  \E d \in Delays : r.wake_point[t] <= r.os_ticks + d
    BY <1>3 DEF Tidy, Patient
  <2>1. CASE t = cr
    <3>1. r.wake_point[t] <= r.os_ticks + ticks
      BY <1>2, <1>3, <1>4, <2>1
    <3> QED
      BY <3>1
  <2>2. CASE t # cr
    BY <1>2, <1>3, <2>2 DEF Tidy, Patient
  <2> QED
    BY <2>1, <2>2
<1> QED
  BY <1>2, <1>5 DEF Yielded, Tidy, r

\* The timer trap, which no more than the bound moves the counter.
LEMMA TidyTick ==
  ASSUME NEW k, Settled(k), ~k.halted, Tidy(k), k.sched_ready, NEW n \in Nat,
         k.os_ticks + n <= Horizon
  PROVE  /\ Tidy(TickTrap(k, n)) /\ (Foremost(k) => Foremost(TickTrap(k, n)))
         /\ PeersWait(k, TickTrap(k, n))
<1> DEFINE r == TickTrap(k, n)
<1>1. Fit(k) /\ k.current \in Tid /\ k.current \in Range(k.ready)
  BY SettledIsFit
<1>2. /\ Fit(r) /\ r.os_ticks = (k.os_ticks + n) % TickMod
      /\ Ordered(k) => Ordered(r) /\ PeersWait(k, r)
      /\ Ordered(k) /\ Foremost(k) => Foremost(r)
      /\ Awake(r) /\ Range(r.sleeping) \subseteq Range(k.sleeping)
      /\ \A t \in Range(k.sleeping) :
           t \in Range(r.sleeping) => r.wake_point[t] = k.wake_point[t]
  BY <1>1, FitTick
<1> HIDE DEF r
<1>3. /\ k.os_ticks \in Nat /\ r.os_ticks <= k.os_ticks + n
      /\ Horizon < TickMod => r.os_ticks = k.os_ticks + n
  <2>1. k.os_ticks \in Tick
    BY <1>1 DEF Fit, KernelState
  <2>2. k.os_ticks \in Nat /\ TickMod \in Nat /\ Horizon \in Nat
    BY <2>1, UnwrappedSum, KernelAssumption, TasksAssumption
  <2>3. /\ (k.os_ticks + n) % TickMod <= k.os_ticks + n
        /\ k.os_ticks + n < TickMod => (k.os_ticks + n) % TickMod = k.os_ticks + n
    BY <2>1, UnwrappedSum
  <2>4. Horizon < TickMod => k.os_ticks + n < TickMod
    BY <2>2
  <2> QED
    BY <1>2, <2>2, <2>3, <2>4
<1>4. Patient(r)
  <2>1. r.os_ticks <= Horizon
    <3>1. r.os_ticks \in Nat
      BY <1>2, KernelAssumption DEF Fit, KernelState, Tick
    <3> QED
      BY <1>3, <3>1, TasksAssumption
  <2> SUFFICES ASSUME Horizon < TickMod, NEW t \in Range(r.sleeping)
               PROVE  \E d \in Delays : r.wake_point[t] <= r.os_ticks + d
    BY <2>1 DEF Patient
  <2>2. t \in Range(k.sleeping) /\ r.wake_point[t] = k.wake_point[t]
    BY <1>2
  <2>3. PICK d \in Delays : k.wake_point[t] <= k.os_ticks + d
    BY <2>2 DEF Tidy, Patient
  <2>4. k.wake_point[t] \in Nat /\ d \in Nat
    <3>1. Range(k.sleeping) \subseteq Tid
      BY <1>1 DEF Fit, KernelState, Range
    <3> QED
      BY <1>1, <2>2, <2>3, <3>1, KernelAssumption, TasksAssumption
      DEF Fit, KernelState, Tick
  <2> QED
    BY <1>3, <2>2, <2>3, <2>4
<1> QED
  BY <1>2, <1>4 DEF Tidy, r

-----------------------------------------------------------------------------
(* The induction on the order.                                             *)

\* No call and no trap but create_raw's leaves a less urgent task on the hart.
Unraw == \A pri \in AppPriorities : ~CreateRaw(pri)

\* Every step keeps READY_LIST in order and nobody overdue asleep.
LEMMA NextTidy ==
  ASSUME IInv, Tidy(kernel), [Next]_vars
  PROVE  /\ Tidy(kernel')
         /\ Up /\ Up' /\ Foremost(kernel) /\ Unraw => Foremost(kernel')
         /\ PeersWait(kernel, kernel')
<1> USE DEF vars
<1>0. /\ Up => Settled(kernel) /\ ~kernel.halted /\ Fit(kernel)
               /\ kernel.current \in Tid /\ kernel.current \in Range(kernel.ready)
      /\ InTask => Up
  BY SettledIsFit DEF IInv, Up, InTask
<1>1. CASE Launch
  <2>1. Booting(kernel) /\ ~Up
    BY <1>1 DEF Launch, IInv, Up
  <2>2. CASE FreeTids(kernel) = {}
    <3>1. kernel' = [kernel EXCEPT !.halted = TRUE] /\ kernel \in KernelState
      BY <1>1, <2>1, <2>2 DEF Launch, Booting
    <3>2. /\ kernel'.ready = kernel.ready /\ kernel'.priority = kernel.priority
          /\ kernel'.sleeping = kernel.sleeping
          /\ kernel'.wake_point = kernel.wake_point
          /\ kernel'.os_ticks = kernel.os_ticks
      BY <3>1 DEF KernelState
    <3> QED
      BY <2>1, <3>2, PeersAtRest, PeersUnmoved DEF Tidy, Ordered, Awake, Due, Patient
  <2>3. CASE FreeTids(kernel) # {}
    <3>1. kernel' = LaunchKernel(kernel)
      BY <1>1, <2>3 DEF Launch
    <3> QED
      BY <2>1, <2>3, <3>1, TidyLaunch
  <2> QED
    BY <2>2, <2>3
<1>2. ASSUME NEW pri \in AppPriorities, Create(pri)
      PROVE  /\ Tidy(kernel') /\ (Up /\ Foremost(kernel) => Foremost(kernel'))
             /\ PeersWait(kernel, kernel')
  <2>1. /\ kernel' = CreateTask(kernel, pri) /\ FreeTids(kernel) # {}
        /\ kernel.sched_ready => Up
    BY <1>0, <1>2 DEF Create
  <2>2. pri \in Priorities
    BY TasksAssumption
  <2>3. CASE kernel.sched_ready
    BY <1>0, <2>1, <2>2, <2>3, TidyCreate
  <2>4. CASE ~kernel.sched_ready
    <3>1. kernel' = NewTask(kernel, pri)
      BY <2>1, <2>4 DEF CreateTask
    <3>2. kernel \in KernelState /\ ListsMatch(kernel)
      BY <2>4 DEF IInv, Booting
    <3> QED
      BY <2>1, <2>2, <2>4, <3>1, <3>2, TidyNewTask DEF Up
  <2> QED
    BY <2>3, <2>4
<1>3. ASSUME NEW pri \in AppPriorities, CreateRaw(pri)
      PROVE  Tidy(kernel') /\ PeersWait(kernel, kernel')
  <2>1. kernel' = NewTask(kernel, pri) /\ FreeTids(kernel) # {}
    BY <1>3 DEF CreateRaw
  <2>2. pri \in Priorities
    BY TasksAssumption
  <2>3. kernel \in KernelState /\ ListsMatch(kernel)
    BY DEF IInv, Settled, Booting
  <2> QED
    BY <2>1, <2>2, <2>3, TidyNewTask
<1>4. CASE Exit
  BY <1>0, <1>4, TidyExit DEF Exit
<1>5. ASSUME NEW tid \in Tid, Terminate(tid)
      PROVE  Tidy(kernel') /\ Foremost(kernel') /\ PeersWait(kernel, kernel')
  BY <1>0, <1>5, TidyTerminate DEF Terminate
<1>6. ASSUME NEW tid \in Tid, Block(tid)
      PROVE  Tidy(kernel') /\ Foremost(kernel') /\ PeersWait(kernel, kernel')
  BY <1>0, <1>6, TidyBlock DEF Block
<1>7. ASSUME NEW tid \in Tid, Resume(tid)
      PROVE  /\ Tidy(kernel') /\ (Foremost(kernel) => Foremost(kernel'))
             /\ PeersWait(kernel, kernel')
  BY <1>0, <1>7, TidyResume DEF Resume
<1>8. ASSUME NEW ticks \in Delays, Delay(ticks)
      PROVE  Tidy(kernel') /\ Foremost(kernel') /\ PeersWait(kernel, kernel')
  BY <1>0, <1>8, TidyDelay DEF Delay
<1>9. CASE Yield
  BY <1>0, <1>9, TidyNextTcb DEF Yield, Tidy
<1>10. CASE Timer
  <2>1. PICK missed \in 0..MissedMax : Systick(missed)
    BY <1>10 DEF Timer
  <2>2. /\ Up /\ kernel' = TickTrap(kernel, 1 + missed) /\ 1 + missed \in Nat
        /\ kernel.os_ticks + (1 + missed) <= Horizon
    <3>1. kernel.os_ticks \in Nat
      BY <1>0, <2>1, KernelAssumption DEF Systick, Fit, KernelState, Tick
    <3> QED
      BY <2>1, <3>1, TasksAssumption DEF Systick
  <2> QED
    BY <1>0, <2>2, TidyTick DEF Up
<1>11. CASE UNCHANGED vars
  BY <1>11, PeersAtRest
<1> QED
  BY <1>1, <1>2, <1>3, <1>4, <1>5, <1>6, <1>7, <1>8, <1>9, <1>10, <1>11
  DEF Next, Unraw

\* The statics before main runs are tidy.
LEMMA InitTidy == Init => Tidy(kernel)
BY TasksAssumption DEF Init, KernelInit, Tidy, Ordered, SortedBy, Awake, Range, Patient

LEMMA SpecTidy == Spec => [](IInv /\ Tidy(kernel))
<1>1. IInv /\ Tidy(kernel) /\ [Next]_vars => Tidy(kernel)'
  BY NextTidy
<1> QED
  BY <1>1, InitTidy, InitIInv, NextIInv, PTL DEF Spec

\* READY_LIST is in priority order in every reachable state, so the front that
\* next_tcb takes is a most urgent ready task.
THEOREM ReadyAlwaysSorted == Spec => []ReadySorted
<1>1. Tidy(kernel) => ReadySorted
  BY DEF Tidy, Ordered, ReadySorted
<1> QED
  BY <1>1, SpecTidy, PTL

\* The timer trap never misses a sleeper whose time has come.
THEOREM NobodyOversleeps == Spec => []NoOverdueSleeper
<1>1. Tidy(kernel) => NoOverdueSleeper
  BY DEF Tidy, Awake, NoOverdueSleeper
<1> QED
  BY <1>1, SpecTidy, PTL

\* Only create_raw leaves a ready task waiting behind a less urgent one.
THEOREM OnlyCreateRawOutranks == Spec => OnlyRawOutranks
<1> DEFINE Behaves ==
      Up /\ Up' /\ ~Outranked(kernel) /\ Outranked(kernel')
        => \E pri \in AppPriorities : CreateRaw(pri)
<1>1. ASSUME IInv, IInv', Tidy(kernel), [Next]_vars PROVE Behaves
  <2> SUFFICES ASSUME Up, Up', ~Outranked(kernel), Unraw
               PROVE  ~Outranked(kernel')
    BY DEF Unraw
  <2>1. /\ kernel \in KernelState /\ kernel' \in KernelState
        /\ kernel.current \in Tid /\ kernel'.current \in Tid
    BY <1>1 DEF IInv, Up, Settled
  <2>2. /\ kernel.priority \in [Tid -> Nat] /\ Range(kernel.ready) \subseteq Tid
        /\ kernel'.priority \in [Tid -> Nat] /\ Range(kernel'.ready) \subseteq Tid
    BY <2>1, KernelAssumption DEF KernelState, Priorities, Range
  <2>3. Foremost(kernel)
    BY <2>1, <2>2 DEF Outranked, Foremost
  <2>4. Foremost(kernel')
    BY <1>1, <2>3, NextTidy
  <2> QED
    BY <2>1, <2>2, <2>4 DEF Outranked, Foremost
<1>2. IInv /\ IInv' /\ Tidy(kernel) /\ [Next]_vars => [Behaves]_vars
  BY <1>1
<1> QED
  BY <1>2, SpecTidy, PTL DEF Spec, OnlyRawOutranks

\* In a list without repetition a task has one place.
LEMMA BeforeIsPlace ==
  ASSUME NEW S, NEW list \in Seq(S), IsInjective(list),
         NEW s \in Range(list), NEW t \in Range(list)
  PROVE  Before(list, s, t) <=> PlaceOf(list, s) < PlaceOf(list, t)
<1>1. ASSUME NEW x \in Range(list)
      PROVE  /\ PlaceOf(list, x) \in 1..Len(list) /\ list[PlaceOf(list, x)] = x
             /\ \A i \in 1..Len(list) : list[i] = x => i = PlaceOf(list, x)
  <2>1. \E i \in 1..Len(list) : list[i] = x
    BY <1>1 DEF Range
  <2>2. PlaceOf(list, x) \in 1..Len(list) /\ list[PlaceOf(list, x)] = x
    BY <2>1 DEF PlaceOf
  <2> QED
    BY <2>2 DEF IsInjective
<1> QED
  BY <1>1 DEF Before

\* A task waiting in READY_LIST is overtaken by no task of its priority.
THEOREM PeersAreNotOvertaken == Spec => PeersKeepTheirOrder
<1> DEFINE InOrder ==
      \A s \in Range(kernel.ready) \ {kernel.current} :
      \A t \in Range(kernel'.ready) \ {s, kernel.current} :
        /\ Holds(kernel'.ready, s)
        /\ kernel'.priority[s] = kernel'.priority[t]
        /\ Holds(kernel.ready, t)
             => PlaceOf(kernel.ready, s) < PlaceOf(kernel.ready, t)
        => PlaceOf(kernel'.ready, s) < PlaceOf(kernel'.ready, t)
<1>1. ASSUME IInv, IInv', Tidy(kernel), [Next]_vars PROVE InOrder
  <2>1. /\ kernel.ready \in Seq(Tid) /\ IsInjective(kernel.ready)
        /\ kernel'.ready \in Seq(Tid) /\ IsInjective(kernel'.ready)
    BY <1>1 DEF IInv, Settled, Booting, KernelState, ListsMatch, NoRepeats
  <2>2. PeersWait(kernel, kernel')
    BY <1>1, NextTidy
  <2> SUFFICES ASSUME NEW s \in Range(kernel.ready) \ {kernel.current},
                      NEW t \in Range(kernel'.ready) \ {s, kernel.current},
                      Holds(kernel'.ready, s),
                      kernel'.priority[s] = kernel'.priority[t],
                      Holds(kernel.ready, t)
                        => PlaceOf(kernel.ready, s) < PlaceOf(kernel.ready, t)
               PROVE  PlaceOf(kernel'.ready, s) < PlaceOf(kernel'.ready, t)
    OBVIOUS
  <2>3. t \in Range(kernel.ready) => Before(kernel.ready, s, t)
    BY <2>1, BeforeIsPlace DEF Holds
  <2>4. Before(kernel'.ready, s, t)
    BY <2>2, <2>3 DEF PeersWait, Holds
  <2> QED
    BY <2>1, <2>4, BeforeIsPlace DEF Holds
<1>2. IInv /\ IInv' /\ Tidy(kernel) /\ [Next]_vars => [InOrder]_vars
  BY <1>1
<1> QED
  BY <1>2, SpecTidy, PTL DEF Spec, PeersKeepTheirOrder

\* Over half a turn of the counter the circular comparison is the plain one.
LEMMA ReachedIsPlain ==
  ASSUME NEW now \in Nat, NEW wake \in Nat,
         now < TickMod \div 2, wake <= now + TickMod \div 2
  PROVE  Reached(now, wake) <=> now >= wake
<1> DEFINE half == TickMod \div 2
           gap == now - wake
<1>1. TickMod \in Nat /\ TickMod > 0
  BY KernelAssumption
<1>2. half \in Nat /\ half + half <= TickMod
  BY <1>1
<1>3. CASE now >= wake
  <2>1. gap \in 0 .. TickMod - 1 /\ gap < half
    BY <1>1, <1>2, <1>3
  <2>2. gap % TickMod = gap
    BY <1>1, <2>1
  <2> QED
    BY <1>3, <2>1, <2>2 DEF Reached
<1>4. CASE now < wake
  <2>1. gap + TickMod \in 0 .. TickMod - 1 /\ ~(gap + TickMod < half)
    BY <1>1, <1>2, <1>4
  <2>2. gap = TickMod * (-1) + (gap + TickMod)
    BY <1>1
  <2>3. gap % TickMod = gap + TickMod
    BY <1>1, <2>1, <2>2
  <2> QED
    BY <1>4, <2>1, <2>3 DEF Reached
<1> QED
  BY <1>3, <1>4

\* A task that called delay stays off the hart for exactly its ticks, as long as
\* the counter is in the first half of its range and no delay is longer than
\* half of it; beyond that the code's plain comparison is wrong.
THEOREM DelaysAreExact ==
  ASSUME Horizon < TickMod \div 2, \A ticks \in Delays : ticks <= TickMod \div 2
  PROVE  Spec => DelayKeepsItsTicks
<1> DEFINE half == TickMod \div 2
           Asleep(ticks) ==
             /\ Holds(kernel'.sleeping, kernel.current)
             /\ kernel'.wake_point[kernel.current] = WakeTime(kernel, ticks)
           Exact ==
             /\ \A ticks \in Delays : Delay(ticks) => Asleep(ticks)
             /\ Timer => \A t \in Range(kernel.sleeping) :
                  Holds(kernel'.sleeping, t)
                    <=> ~Reached(kernel'.os_ticks, kernel.wake_point[t])
<1>1. /\ half \in Nat /\ half + half <= TickMod /\ Horizon \in Nat
      /\ TickMod \in Nat /\ Horizon < half /\ Horizon < TickMod
  BY KernelAssumption, TasksAssumption
<1> HIDE DEF half
<1>2. ASSUME IInv, Tidy(kernel), Up
      PROVE  /\ Fit(kernel) /\ kernel.current \in Tid
             /\ kernel.current \in Range(kernel.ready) /\ ~kernel.halted
             /\ kernel.os_ticks \in Tick /\ kernel.os_ticks \in Nat
             /\ kernel.os_ticks <= Horizon
             /\ \A t \in Range(kernel.sleeping) :
                  /\ kernel.wake_point[t] \in Nat
                  /\ \E ticks \in Delays : kernel.wake_point[t] <= kernel.os_ticks + ticks
  <2>1. Settled(kernel) /\ ~kernel.halted
    BY <1>2 DEF IInv, Up
  <2>2. kernel \in KernelState
    BY <2>1 DEF Settled
  <2>3. /\ Range(kernel.sleeping) \subseteq Tid /\ Tick \subseteq Nat
        /\ kernel.wake_point \in [Tid -> Tick] /\ kernel.os_ticks \in Tick
    BY <2>2, KernelAssumption DEF KernelState, Range, Tick
  <2> QED
    BY <1>1, <1>2, <2>1, <2>3, SettledIsFit DEF Tidy, Patient
<1>3. ASSUME IInv, Tidy(kernel), NEW ticks \in Delays, Delay(ticks) PROVE Asleep(ticks)
  <2>1. Up /\ kernel' = DelayCurrent(kernel, ticks)
    BY <1>3 DEF Delay, InTask
  <2>2. ticks \in Nat /\ ticks > 0 /\ ticks \in 1 .. TickMod - 1 /\ ticks <= half
    BY TasksAssumption DEF half
  <2>3. kernel.os_ticks \in Tick /\ kernel.os_ticks \in Nat /\ kernel.os_ticks <= Horizon
    BY <1>2, <1>3, <2>1
  <2>4. WakeTime(kernel, ticks) = kernel.os_ticks + ticks
    BY <1>1, <2>2, <2>3, WakeSum
  <2>5. kernel.os_ticks < WakeTime(kernel, ticks)
    BY <2>2, <2>3, <2>4
  <2> QED
    BY <1>2, <1>3, <2>1, <2>2, <2>5, FitDelay DEF Holds
<1>4. ASSUME IInv, Tidy(kernel), Timer, NEW t \in Range(kernel.sleeping)
      PROVE  Holds(kernel'.sleeping, t)
               <=> ~Reached(kernel'.os_ticks, kernel.wake_point[t])
  <2>1. PICK missed \in 0..MissedMax : Systick(missed)
    BY <1>4 DEF Timer
  <2> DEFINE n == 1 + missed
             now == kernel.os_ticks + n
             wake == kernel.wake_point[t]
  <2>2. /\ Up /\ kernel' = TickTrap(kernel, n) /\ n \in Nat
        /\ kernel.os_ticks + 1 + missed <= Horizon
    BY <2>1, TasksAssumption DEF Systick
  <2>3. /\ kernel.os_ticks \in Tick /\ kernel.os_ticks \in Nat /\ wake \in Nat
        /\ \E ticks \in Delays : wake <= kernel.os_ticks + ticks
    BY <1>2, <1>4, <2>2
  <2>4. now \in Nat /\ now <= Horizon
    BY <2>2, <2>3, TasksAssumption
  <2>5. now % TickMod = now
    BY <1>1, <2>2, <2>3, <2>4, UnwrappedSum
  <2>6. wake <= now + half
    <3>1. PICK ticks \in Delays : wake <= kernel.os_ticks + ticks
      BY <2>3
    <3>2. ticks \in Nat /\ ticks <= half
      BY TasksAssumption DEF half
    <3> QED
      BY <1>1, <2>2, <2>3, <3>1, <3>2
  <2>7. /\ kernel'.os_ticks = now
        /\ t \in Range(kernel'.sleeping) <=> ~(now >= wake)
    <3>1. /\ Fit(kernel) /\ kernel.current \in Tid /\ ~kernel.halted
          /\ kernel.current \in Range(kernel.ready)
      BY <1>2, <1>4, <2>2
    <3> HIDE DEF n
    <3>2. /\ TickTrap(kernel, n).os_ticks = now % TickMod
          /\ t \in Range(TickTrap(kernel, n).sleeping) <=> ~(now % TickMod >= wake)
      BY <2>2, <3>1, FitTick
    <3> QED
      BY <2>2, <2>5, <3>2
  <2>8. Reached(now, wake) <=> now >= wake
    <3> HIDE DEF now, wake
    <3> QED
      BY <1>1, <2>3, <2>4, <2>6, ReachedIsPlain DEF half
  <2> QED
    BY <2>7, <2>8 DEF Holds
<1> HIDE DEF Asleep
<1>5. IInv /\ Tidy(kernel) => Exact
  BY <1>3, <1>4
<1>6. IInv /\ Tidy(kernel) /\ [Next]_vars => [Exact]_vars
  BY <1>5
<1> QED
  BY <1>6, SpecTidy, PTL DEF Spec, DelayKeepsItsTicks, Asleep
=============================================================================
