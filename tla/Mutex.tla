-------------------------------- MODULE Mutex --------------------------------
(***************************************************************************)
(* The mutexes of core/src/kernel/sync.rs with their priority inheritance, *)
(* used by the tasks that main created, on top of the scheduler.           *)
(*                                                                         *)
(* lock blocks in its critical section and returns a guard when the task   *)
(* runs again, without another look at the mutex; dropping the guard       *)
(* unlocks.  Guards may be dropped in any order.                           *)
(***************************************************************************)
EXTENDS MutexOps

CONSTANTS
  TaskPriorities,  \* priorities of the tasks that use the mutexes, by tid
  Mutexes,         \* the mutexes
  MaxGuards,       \* bound on the guards a task holds of one mutex
  Horizon          \* tick after which a run stops the clock

ASSUME MutexAssumption ==
  /\ TaskPriorities \in Seq(Priorities) /\ Len(TaskPriorities) < TASK_MAX
  /\ MaxGuards \in Nat \ {0} /\ Horizon \in Nat

Apps == 0 .. Len(TaskPriorities) - 1
Base(t) == TaskPriorities[t + 1]

VARIABLES
  kernel,
  mutexes,    \* the mutexes, by name
  waits,      \* per task: the mutexes whose lock it is blocked in, one at most
  guards,     \* per task and mutex: its live guards
  nests       \* whether tasks lock a mutex while they hold another

vars == << kernel, mutexes, waits, guards, nests >>

Init ==
  /\ kernel = LaunchedWith(TaskPriorities)
  /\ mutexes = [m \in Mutexes |-> FreeMutex]
  /\ waits = [t \in Apps |-> {}]
  /\ guards = [t \in Apps |-> [m \in Mutexes |-> 0]]
  /\ nests \in BOOLEAN

cr == kernel.current

\* A task is on the hart and in its own code.
Runs == ~kernel.halted /\ cr \in Apps /\ waits[cr] = {}

\* Mutex::lock of a mutex that is free or the caller's own.
Lock(m) ==
  /\ Runs /\ guards[cr][m] < MaxGuards
  /\ nests \/ \A other \in Mutexes \ {m} : guards[cr][other] = 0
  /\ mutexes[m].owner \in {NoTask, cr}
  /\ mutexes' = [mutexes EXCEPT ![m] = Locked(@, cr)]
  /\ guards' = [guards EXCEPT ![cr][m] = @ + 1]
  /\ UNCHANGED << kernel, waits, nests >>

\* Mutex::lock of a mutex another task owns, up to its yield.
LockWaits(m) ==
  /\ Runs
  /\ nests \/ \A other \in Mutexes : guards[cr][other] = 0
  /\ mutexes[m].owner \notin {NoTask, cr}
  /\ mutexes' = [mutexes EXCEPT ![m] = QueuedFor(kernel, @)]
  /\ kernel' = LockBlocks(kernel, mutexes[m])
  /\ waits' = [waits EXCEPT ![cr] = {m}]
  /\ UNCHANGED << guards, nests >>

\* lock returns to a task that was blocked in it: whoever put it back on
\* READY_LIST, it takes itself to own the mutex.
LockReturns(m) ==
  /\ ~kernel.halted /\ cr \in Apps /\ m \in waits[cr]
  /\ waits' = [waits EXCEPT ![cr] = {}]
  /\ guards' = [guards EXCEPT ![cr][m] = @ + 1]
  /\ UNCHANGED << kernel, mutexes, nests >>

\* A MutexGuard is dropped.
Unlock(m) ==
  /\ Runs /\ guards[cr][m] > 0
  /\ mutexes' = [mutexes EXCEPT ![m] = Released(@)]
  /\ kernel' = UnlockKernel(kernel, mutexes[m])
  /\ guards' = [guards EXCEPT ![cr][m] = @ - 1]
  /\ UNCHANGED << waits, nests >>

\* A task may sleep, also while it holds a guard.
Sleep ==
  /\ Runs
  /\ kernel' = DelayCurrent(kernel, 1)
  /\ UNCHANGED << mutexes, waits, guards, nests >>

Timer ==
  /\ ~kernel.halted /\ kernel.os_ticks < Horizon
  /\ kernel' = TickTrap(kernel, 1)
  /\ UNCHANGED << mutexes, waits, guards, nests >>

Next ==
  \/ \E m \in Mutexes : Lock(m) \/ LockWaits(m) \/ LockReturns(m) \/ Unlock(m)
  \/ Sleep
  \/ Timer

Spec == Init /\ [][Next]_vars

-----------------------------------------------------------------------------

\* The mutexes, the calls in progress and the guards have their types, and some
\* task is current (sync.rs, on top of sched.rs).
TypeOK ==
  /\ kernel \in KernelState /\ kernel.current \in Tid
  /\ mutexes \in [Mutexes -> MutexState(Apps)]
  /\ waits \in [Apps -> SUBSET Mutexes]
  /\ guards \in [Apps -> [Mutexes -> 0 .. MaxGuards]]
  /\ nests \in BOOLEAN

\* Data behind a mutex is reached through guards of one task at a time.
MutualExclusion ==
  \A m \in Mutexes, t, u \in Apps : guards[t][m] > 0 /\ guards[u][m] > 0 => t = u

\* The mutex knows who holds it and how often: its owner is the one with guards,
\* as many as recursive_count, or the waiter it was handed to that has not run
\* yet; a free mutex has no waiter (hand-over in internal_unlock).
OwnerHasTheGuards ==
  \A m \in Mutexes, t \in Apps :
    /\ mutexes[m].owner = t =>
         mutexes[m].recursive_count =
           IF m \in waits[t] THEN 1 + guards[t][m] ELSE guards[t][m]
    /\ mutexes[m].owner # t =>
         guards[t][m] = 0 /\ (m \in waits[t] <=> Holds(mutexes[m].wait_queue, t))
    /\ mutexes[m].owner = NoTask => mutexes[m].wait_queue = << >>

\* No waiter outranks the task it waits for: inheritance bounds how long a less
\* urgent owner can be kept off the hart by tasks between the two.
Inherited ==
  \A m \in Mutexes : \A t \in Range(mutexes[m].wait_queue) :
    kernel.priority[mutexes[m].owner] <= kernel.priority[t]

\* Inheritance as far as the code carries it: among tasks that hold one mutex at
\* a time (internal_lock, hand-over and de-boost of internal_unlock).
InheritedWithoutNesting == ~nests => Inherited

\* A task that owns no mutex is back at the priority it was created with, nested
\* mutexes or not (sub_priority in internal_lock and internal_unlock).
BaseRestored ==
  \A t \in Apps :
    (\A m \in Mutexes : mutexes[m].owner # t) =>
      kernel.priority[t] = Base(t) /\ kernel.sub_priority[t] = PRI_INV

\* Among tasks that hold one mutex at a time a most urgent ready task runs
\* (README's PreemptPri policy), also while priorities are inherited and given
\* back.  No run checks it: it is false of the code (sync.rs:236-239).
MostUrgentRuns ==
  ~nests /\ ~kernel.halted =>
    \A t \in Range(kernel.ready) : kernel.priority[cr] <= kernel.priority[t]

\* The mutex goes to a waiter that no other waiter outranked when it queued up:
\* hand-over is by base priority among tasks that hold nothing else.
HandedToMostUrgent ==
  [][ \A m \in Mutexes : \A t \in Range(mutexes'[m].wait_queue) :
        /\ ~nests /\ mutexes'[m].owner # NoTask
        /\ Holds(mutexes[m].wait_queue, mutexes'[m].owner)
        => Base(mutexes'[m].owner) <= Base(t) ]_vars
=============================================================================
