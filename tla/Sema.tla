-------------------------------- MODULE Sema --------------------------------
(***************************************************************************)
(* The semaphore of core/src/kernel/sync.rs, used by the tasks that main   *)
(* created and by an interrupt handler, on top of the scheduler.           *)
(*                                                                         *)
(* down_timeout is three critical sections; the tick and every other task  *)
(* can come in between.  pc records how far a task is in its call.         *)
(***************************************************************************)
EXTENDS Kernel

CONSTANTS
  TaskPriorities,  \* priorities of the tasks that use the semaphore, by tid
  InitialCount,    \* argument of Sema::new
  MaxCount,        \* bound on count: up is not called above it
  Timeouts,        \* arguments of down_timeout
  Both,            \* TRUE: the tasks that use down_timeout use down as well
  Horizon          \* tick after which a run stops the clock

ASSUME SemaAssumption ==
  /\ TaskPriorities \in Seq(Priorities) /\ Len(TaskPriorities) < TASK_MAX
  /\ InitialCount \in Nat /\ MaxCount \in Nat
  /\ Timeouts \subseteq (1 .. TickMod - 1)
  /\ Both \in BOOLEAN
  /\ Horizon \in Nat

Apps == 0 .. Len(TaskPriorities) - 1

VARIABLES
  kernel,
  sema,       \* the semaphore: count and wait_queue
  pc,         \* per task: "run" outside, "down" and "timed" blocked inside a
              \* call, "tried" between the two halves of down_timeout
  timed,      \* the tasks that use down_timeout
  permits     \* InitialCount + calls of up - calls that returned with a permit

vars == << kernel, sema, pc, timed, permits >>

Init ==
  /\ kernel = LaunchedWith(TaskPriorities)
  /\ sema = [count |-> InitialCount, wait_queue |-> << >>]
  /\ pc = [t \in Apps |-> "run"]
  /\ timed \in SUBSET Apps
  /\ permits = InitialCount

cr == kernel.current

\* A task is on the hart at point `at` of its program.
At(at) == ~kernel.halted /\ cr \in Apps /\ pc[cr] = at

Goto(at) == pc' = [pc EXCEPT ![cr] = at]

\* Variant of Enqueue: push_back in place of insert_in_order.
EnqueueLast(s) == [s EXCEPT !.wait_queue = PushBack(@, cr)]

\* The running task waits in the semaphore's queue, by priority.
Enqueue(s) ==
  [s EXCEPT !.wait_queue = InsertInOrder(@, cr, kernel.priority)]

\* Variant of Taken: count is tested and not lowered.
TakenNot(s) == s

Taken(s) == [s EXCEPT !.count = @ - 1]
Given(s) == [s EXCEPT !.count = @ + 1]

\* Sema::down up to its yield.
Down ==
  /\ At("run") /\ (cr \notin timed \/ Both)
  /\ IF sema.count > 0
     THEN /\ sema' = Taken(sema) /\ permits' = permits - 1
          /\ UNCHANGED << kernel, pc >>
     ELSE /\ sema' = Enqueue(Taken(sema))
          /\ kernel' = NextTcb(TakeOff(kernel, cr))
          /\ Goto("down") /\ UNCHANGED permits
  /\ UNCHANGED timed

\* down returns to a task that was blocked in it: whoever put it back on
\* READY_LIST, it takes itself to have the permit.
DownReturns ==
  /\ At("down")
  /\ permits' = permits - 1 /\ Goto("run")
  /\ UNCHANGED << kernel, sema, timed >>

\* Variant of Wakes: the new count is compared with < in place of <=.
WakesLate(s) == s.count < -1 /\ s.wait_queue # << >>

\* up finds a waiter to wake; the code tests the count it has just raised.
Wakes(s) == s.count < 0 /\ s.wait_queue # << >>

Posted(s) ==
  IF Wakes(s) THEN [Given(s) EXCEPT !.wait_queue = Tail(@)] ELSE Given(s)

\* Sema::up by a task.
Up ==
  /\ At("run") /\ sema.count < MaxCount
  /\ sema' = Posted(sema)
  /\ LET woken == Head(sema.wait_queue)
     IN  kernel' = IF Wakes(sema)
                   THEN YieldIfOutranked(MakeReady(kernel, woken), woken)
                   ELSE kernel
  /\ permits' = permits + 1
  /\ UNCHANGED << pc, timed >>

\* Sema::up_from_isr, whatever task the interrupt found running; no yield.
UpFromIsr ==
  /\ ~kernel.halted /\ sema.count < MaxCount
  /\ sema' = Posted(sema)
  /\ kernel' = IF Wakes(sema) THEN MakeReady(kernel, Head(sema.wait_queue))
               ELSE kernel
  /\ permits' = permits + 1
  /\ UNCHANGED << pc, timed >>

\* Sema::try_down that finds a permit; one that does not changes nothing.  It
\* is also the first half of down_timeout.
TryDown ==
  /\ At("run") /\ sema.count > 0
  /\ sema' = Taken(sema) /\ permits' = permits - 1
  /\ UNCHANGED << kernel, pc, timed >>

\* down_timeout with ticks > 0: try_down found nothing.
TimedTry ==
  /\ At("run") /\ cr \in timed /\ sema.count <= 0
  /\ Goto("tried")
  /\ UNCHANGED << kernel, sema, timed, permits >>

\* down_timeout, second critical section: it waits without looking at count.
TimedWait(ticks) ==
  /\ At("tried")
  /\ sema' = Enqueue(Taken(sema))
  /\ kernel' = NextTcb(SleepUntil(TakeOff(kernel, cr), cr, WakeTime(kernel, ticks)))
  /\ Goto("timed")
  /\ UNCHANGED << timed, permits >>

\* Variant of TimedOut: count is not restored.
TimedOutKeeps(s) == [s EXCEPT !.wait_queue = Drop(@, cr)]

TimedOut(s) == [Given(s) EXCEPT !.wait_queue = Drop(@, cr)]

\* down_timeout, third critical section: still queued means timed out.
TimedReturns ==
  /\ At("timed") /\ Goto("run")
  /\ IF Holds(sema.wait_queue, cr)
     THEN /\ sema' = TimedOut(sema)
          /\ UNCHANGED permits
     ELSE permits' = permits - 1 /\ UNCHANGED sema
  /\ UNCHANGED << kernel, timed >>

\* Between calls a task may sleep, which lets less urgent ones run.
Sleep ==
  /\ At("run")
  /\ kernel' = DelayCurrent(kernel, 1)
  /\ UNCHANGED << sema, pc, timed, permits >>

Timer ==
  /\ ~kernel.halted /\ kernel.os_ticks < Horizon
  /\ kernel' = TickTrap(kernel, 1)
  /\ UNCHANGED << sema, pc, timed, permits >>

Next ==
  \/ Down \/ DownReturns \/ Up \/ UpFromIsr \/ TryDown
  \/ TimedTry \/ (\E ticks \in Timeouts : TimedWait(ticks)) \/ TimedReturns
  \/ Sleep \/ Timer

Spec == Init /\ [][Next]_vars

-----------------------------------------------------------------------------

\* The semaphore, its queue and the calls in progress have their types and some
\* task is current (sync.rs, on top of sched.rs).
TypeOK ==
  /\ kernel \in KernelState /\ kernel.current \in Tid
  /\ sema.count \in Int /\ sema.wait_queue \in Seq(Apps)
  /\ pc \in [Apps -> {"run", "down", "tried", "timed"}]
  /\ timed \subseteq Apps
  /\ permits \in Int

\* No call returns with a permit that was neither there at the start nor put by
\* an up: a task that down, try_down or down_timeout let through has one, with
\* every interleaving of ups, ups from an interrupt, time-outs and ticks.
PermitsNeverInvented == permits >= 0

\* Tasks an up has given a permit and that have not returned with it yet.
Granted == {t \in Apps : pc[t] \in {"down", "timed"} /\ ~Holds(sema.wait_queue, t)}

\* count is exactly the permits minus those promised and those waited for, so no
\* permit is lost either: a time-out gives back what its wait took and an up that
\* comes between the time-out and the waiter's return still reaches somebody.
CountIsExact ==
  permits = sema.count + Len(sema.wait_queue) + Cardinality(Granted)

\* While nobody uses down_timeout no permit lies idle while a task waits for one
\* (down's and up's tests of count).  down_timeout waits without testing count
\* again, so it can queue up next to a permit an interrupt has just given.
NoIdlePermit == timed = {} /\ sema.count > 0 => sema.wait_queue = << >>

\* up and up_from_isr wake a most urgent waiter: nobody who stays in the queue
\* outranks the one who leaves it (insert_in_order in down, pop_front in up).
MostUrgentFirst ==
  [][ permits' > permits =>
        \A w \in Range(sema.wait_queue) \ Range(sema'.wait_queue) :
          \A t \in Range(sema'.wait_queue) :
            kernel.priority[w] <= kernel.priority[t] ]_vars
=============================================================================
