------------------------------- MODULE Barrier -------------------------------
(***************************************************************************)
(* Barrier::wait of core/src/kernel/sync.rs with the mutex and the         *)
(* condition variable it is made of, called again and again by the tasks   *)
(* that main created, on top of the scheduler.                             *)
(*                                                                         *)
(* pc is the place of a task in wait: "out" of it; "lock" and "relock"     *)
(* blocked in mutex.lock; "count", "last", "hold" and "back" with the      *)
(* guard; "notify" before notify_all; "parking" and "parked" in cv.wait,   *)
(* which yields twice when its unlock yields already.                      *)
(***************************************************************************)
EXTENDS MutexOps

CONSTANTS
  TaskPriorities,  \* priorities of the tasks that meet, by tid
  Totals,          \* what Barrier::new may be called with
  Generations      \* number of values of the generation counter (2^32)

ASSUME BarrierAssumption ==
  /\ TaskPriorities \in Seq(Priorities) /\ Len(TaskPriorities) < TASK_MAX
  /\ Totals \subseteq Nat \ {0} /\ Generations \in Nat \ {0, 1}

Apps == 0 .. Len(TaskPriorities) - 1

VARIABLES
  kernel,
  mutex,        \* the barrier's mutex
  wait_queue,   \* the queue of its condition variable
  total,        \* how many tasks the barrier expects
  state,        \* the data behind the mutex: count and generation
  my_gen,       \* per task: the local variable of wait
  pc

vars == << kernel, mutex, wait_queue, total, state, my_gen, pc >>

Init ==
  /\ kernel = LaunchedWith(TaskPriorities)
  /\ mutex = FreeMutex
  /\ wait_queue = << >>
  /\ total \in Totals
  /\ state = [count |-> 0, generation |-> 0]
  /\ my_gen = [t \in Apps |-> 0]
  /\ pc = [t \in Apps |-> "out"]

cr == kernel.current

At(at) == ~kernel.halted /\ cr \in Apps /\ pc[cr] = at

Goto(at) == pc' = [pc EXCEPT ![cr] = at]

\* mutex.lock() by a task that does not own it: on with the guard, or blocked.
LockGoto(got, blocked) ==
  IF mutex.owner = NoTask
  THEN mutex' = Locked(mutex, cr) /\ Goto(got) /\ UNCHANGED kernel
  ELSE /\ mutex' = QueuedFor(kernel, mutex)
       /\ kernel' = LockBlocks(kernel, mutex)
       /\ Goto(blocked)

\* The guard is dropped.
UnlockGoto(at) ==
  mutex' = Released(mutex) /\ kernel' = UnlockKernel(kernel, mutex) /\ Goto(at)

Enter ==
  /\ At("out") /\ LockGoto("count", "lock")
  /\ UNCHANGED << wait_queue, total, state, my_gen >>

LockReturns ==
  /\ \/ At("lock") /\ Goto("count")
     \/ At("relock") /\ Goto("back")
  /\ UNCHANGED << kernel, mutex, wait_queue, total, state, my_gen >>

\* Variant of Complete: one party short.
CompleteEarly(counted) == counted + 1 = total

\* The test for the last party, after count was raised.
Complete(counted) == counted = total

\* Bound: no task stays in wait while the others go on for so many generations
\* that the counter comes round to the one it was counted in.
NobodyLapped ==
  \A t \in Apps : pc[t] \notin {"out", "lock", "count"} =>
    my_gen[t] # (state.generation + 1) % Generations

\* The counting, with the guard in hand.
Count ==
  /\ At("count") /\ NobodyLapped
  /\ my_gen' = [my_gen EXCEPT ![cr] = state.generation]
  /\ IF Complete(state.count + 1)
     THEN /\ state' = [count |-> 0,
                       generation |-> (state.generation + 1) % Generations]
          /\ Goto("last")
     ELSE state' = [state EXCEPT !.count = @ + 1] /\ Goto("hold")
  /\ UNCHANGED << kernel, mutex, wait_queue, total >>

\* drop(guard) of the last party.
Open ==
  /\ At("last") /\ UnlockGoto("notify")
  /\ UNCHANGED << wait_queue, total, state, my_gen >>

\* Variant of Notified: notify in place of notify_all.
NotifiedOne(k, queue) ==
  [kernel |-> MakeReady(k, Head(queue)), queue |-> Tail(queue)]

\* The loop of notify_all.
Notified(k, queue) ==
  LET woken[i \in 0..Len(queue)] ==
        IF i = 0 THEN k ELSE MakeReady(woken[i - 1], queue[i])
  IN  [kernel |-> woken[Len(queue)], queue |-> << >>]

\* notify_all yields if it woke somebody; then the last party is out.
NotifyAll ==
  /\ At("notify") /\ Goto("out")
  /\ IF wait_queue = << >> THEN UNCHANGED << kernel, wait_queue >>
     ELSE LET done == Notified(kernel, wait_queue)
          IN  kernel' = NextTcb(done.kernel) /\ wait_queue' = done.queue
  /\ UNCHANGED << mutex, total, state, my_gen >>

\* Variant of Parked: the caller forgets to queue up.
ParkedNowhere(queue, tid) == queue

Parked(queue, tid) == PushBack(queue, tid)

\* The critical section of CondVar::wait up to its first yield, which may be the
\* one of internal_unlock.
Park ==
  /\ At("hold")
  /\ wait_queue' = Parked(wait_queue, cr)
  /\ mutex' = Released(mutex)
  /\ LET off == TakeOff(kernel, cr)
     IN  IF UnlockYields(off, mutex)
         THEN kernel' = UnlockKernel(off, mutex) /\ Goto("parking")
         ELSE kernel' = NextTcb(UnlockKernel(off, mutex)) /\ Goto("parked")
  /\ UNCHANGED << total, state, my_gen >>

\* Back from internal_unlock's yield, and to its own.
ParkYields ==
  /\ At("parking") /\ kernel' = NextTcb(kernel) /\ Goto("parked")
  /\ UNCHANGED << mutex, wait_queue, total, state, my_gen >>

\* CondVar::wait ends with mutex.lock().
Relock ==
  /\ At("parked") /\ LockGoto("back", "relock")
  /\ UNCHANGED << wait_queue, total, state, my_gen >>

\* The loop of Barrier::wait: again, or out with the guard dropped.
Check ==
  /\ At("back")
  /\ IF state.generation = my_gen[cr]
     THEN Goto("hold") /\ UNCHANGED << kernel, mutex >>
     ELSE UnlockGoto("out")
  /\ UNCHANGED << wait_queue, total, state, my_gen >>

Timer ==
  /\ ~kernel.halted
  /\ kernel' = TickTrap(kernel, 1)
  /\ UNCHANGED << mutex, wait_queue, total, state, my_gen, pc >>

Next ==
  \/ Enter \/ LockReturns \/ Count \/ Open \/ NotifyAll
  \/ Park \/ ParkYields \/ Relock \/ Check
  \/ Timer

Spec == Init /\ [][Next]_vars

\* A task that has the hart again and again gets on with its calls: a tick
\* cannot come every time before the task's next instruction.  Nothing is said of
\* who gets the hart; the scheduler has to see to that.
TasksGetOn ==
  \A t \in Apps : []<>(cr = t) => []<><< pc'[t] # pc[t] >>_vars

FairSpec == Spec /\ TasksGetOn

-----------------------------------------------------------------------------

\* The mutex, the queues and the counters have their types, and some task is
\* current (sync.rs, on top of sched.rs).
TypeOK ==
  /\ kernel \in KernelState /\ kernel.current \in Tid
  /\ mutex \in MutexState(Apps)
  /\ wait_queue \in Seq(Apps)
  /\ state \in [count : 0 .. total - 1, generation : 0 .. Generations - 1]
  /\ my_gen \in [Apps -> 0 .. Generations - 1]
  /\ pc \in [Apps -> {"out", "lock", "count", "last", "notify", "hold",
                      "parking", "parked", "relock", "back"}]

\* Tasks that have been counted and are still in wait.
Counted == {t \in Apps : pc[t] \notin {"out", "lock", "count"}}

\* A parked task whose generation is over is not forgotten: it is out of the
\* condition variable's queue, or the last party has still to notify.
NobodySleepsOn ==
  \A t \in Range(wait_queue) : my_gen[t] # state.generation =>
    \E u \in Counted : pc[u] \in {"last", "notify"}

\* The barrier is a rendezvous: nobody leaves before total have come, and
\* everybody whose party is complete does leave, also when tasks of the next
\* party come between drop(guard) and notify_all.
Meeting == INSTANCE Rendezvous WITH
  Parties  <- Apps,
  gathered <- {t \in Counted : my_gen[t] = state.generation},
  freed    <- {t \in Counted : my_gen[t] # state.generation}

IsRendezvous == Meeting!Spec

\* With as many tasks as the barrier expects, every task passes it again and
\* again: no wake-up is lost between the unlock and the park or the notify.
EverybodyPasses ==
  total = Cardinality(Apps) =>
    \A t \in Apps : []<>(pc[t] = "out") /\ []<>(t \in Counted)
=============================================================================
