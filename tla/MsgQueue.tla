------------------------------ MODULE MsgQueue ------------------------------
(***************************************************************************)
(* The message queue of core/src/kernel/ipc.rs, used by the tasks that     *)
(* main created, on top of the scheduler.                                  *)
(*                                                                         *)
(* A send or recv that cannot go on at once is five critical sections, and *)
(* the tick and every other task can come between any two: it "looked", it *)
(* "queued" up as a waiter, it is "asleep" in Task::delay, it was "woken"  *)
(* and looks again.  The message and the timeout of a call are chosen      *)
(* where the code first reads them.                                        *)
(***************************************************************************)
EXTENDS Kernel

CONSTANTS
  TaskPriorities,  \* priorities of the tasks that use the queue, by tid
  Roles,           \* the calls each of them makes, by tid
  N,               \* capacity of the queue
  Messages,        \* what is sent
  Uninit,          \* an element of the buffer that was never written
  Timeouts         \* arguments of send and recv other than 0

ASSUME MsgQueueAssumption ==
  /\ TaskPriorities \in Seq(Priorities) /\ Len(TaskPriorities) < TASK_MAX
  /\ Roles \in Seq(SUBSET {"send", "recv"})
  /\ Len(Roles) = Len(TaskPriorities)
  /\ N \in Nat \ {0} /\ Uninit \notin Messages
  /\ Timeouts \subseteq (1 .. TickMod - 1)

Apps == 0 .. Len(TaskPriorities) - 1

VARIABLES
  kernel,
  queue,     \* the ring buffer
  waiting,   \* the lists senders and receivers
  op,        \* per task: the call it is in, or was in last
  pc,        \* per task: the place in that call; "run" outside
  last       \* how the last call ended

vars == << kernel, queue, waiting, op, pc, last >>

Init ==
  /\ kernel = LaunchedWith(TaskPriorities)
  /\ queue = [buffer |-> [i \in 0 .. N - 1 |-> Uninit],
              head |-> 0, tail |-> 0, len |-> 0]
  /\ waiting = [send |-> << >>, recv |-> << >>]
  /\ op = [t \in Apps |-> "recv"]
  /\ pc = [t \in Apps |-> "run"]
  /\ last = << "none" >>

cr == kernel.current

At(at) == ~kernel.halted /\ cr \in Apps /\ pc[cr] = at

Goto(at) == pc' = [pc EXCEPT ![cr] = at]

\* Variant of CanGoOn: a full queue is taken to have room.
CanGoOnLate(o) == IF o = "send" THEN queue.len <= N ELSE queue.len > 0

\* The test of len before a push or a pop.
CanGoOn(o) == IF o = "send" THEN queue.len < N ELSE queue.len > 0

Push(q, m) ==
  [q EXCEPT !.buffer[q.tail] = m, !.tail = (@ + 1) % N, !.len = @ + 1]

Pop(q) == [q EXCEPT !.head = (@ + 1) % N, !.len = @ - 1]

\* What a call waits for the other side to do.
Other(o) == IF o = "send" THEN "recv" ELSE "send"

\* try_wake_up takes the task it wakes off SLEEPING_LIST, but does not ask if it
\* was there or is on READY_LIST already.
WokenUp(k, tid) ==
  MakeReady([k EXCEPT !.wake_point[tid] = TickMod - 1,
                      !.sleeping = Drop(@, tid)], tid)

\* try_wake_up for those who wait to do `o`.
TryWakeUp(o) ==
  IF waiting[o] = << >> THEN UNCHANGED << kernel, waiting >>
  ELSE LET tid == Head(waiting[o])
       IN  /\ waiting' = [waiting EXCEPT ![o] = Tail(@)]
           /\ kernel' = YieldIfOutranked(WokenUp(kernel, tid), tid)

\* The push or pop of a call that can go on, the wake-up of the other side, and
\* the return.
Transfer(o) ==
  /\ IF o = "send"
     THEN \E m \in Messages : queue' = Push(queue, m) /\ last' = << "sent", m >>
     ELSE /\ queue' = Pop(queue)
          /\ last' = << "received", queue.buffer[queue.head] >>
  /\ TryWakeUp(Other(o)) /\ Goto("run")

\* The call returns Err(TimeOut).
GiveUp == last' = << "timeout" >> /\ Goto("run")

\* send or recv, first critical section.
Call(o) ==
  /\ At("run") /\ o \in Roles[cr + 1] /\ op' = [op EXCEPT ![cr] = o]
  /\ IF CanGoOn(o) THEN Transfer(o)
     ELSE Goto("looked") /\ UNCHANGED << kernel, queue, waiting, last >>

\* wait_on with timeout 0.
NoTime ==
  /\ At("looked") /\ GiveUp
  /\ UNCHANGED << kernel, queue, waiting, op >>

\* Variant of Registered: push_back in place of insert_in_order.
RegisteredLast(list) == PushBack(list, cr)

Registered(list) == InsertInOrder(list, cr, kernel.priority)

\* wait_on, first critical section: the caller is a waiter and still runs.
Register ==
  /\ At("looked") /\ Goto("queued")
  /\ waiting' = [waiting EXCEPT ![op[cr]] = Registered(@)]
  /\ UNCHANGED << kernel, queue, op, last >>

\* Task::delay in wait_on.
Wait(ticks) ==
  /\ At("queued") /\ Goto("asleep")
  /\ kernel' = DelayCurrent(kernel, ticks)
  /\ UNCHANGED << queue, waiting, op, last >>

\* Variant of Withdrawn: the waiter stays in the list.
WithdrawnNot(list) == list

\* A waiter whose time is up leaves its list.
Withdrawn(list) == Drop(list, cr)

\* wait_on, last critical section: still in the list means timed out.
StillWaiting ==
  /\ At("asleep")
  /\ IF Holds(waiting[op[cr]], cr)
     THEN GiveUp /\ waiting' = [waiting EXCEPT ![op[cr]] = Withdrawn(@)]
     ELSE Goto("woken") /\ UNCHANGED << waiting, last >>
  /\ UNCHANGED << kernel, queue, op >>

\* send or recv, last critical section: the room or the message may be gone.
Again ==
  /\ At("woken")
  /\ IF CanGoOn(op[cr]) THEN Transfer(op[cr])
     ELSE GiveUp /\ UNCHANGED << kernel, queue, waiting >>
  /\ UNCHANGED op

\* Between calls a task may sleep, which lets less urgent ones run.
Sleep ==
  /\ At("run") /\ kernel' = DelayCurrent(kernel, 1)
  /\ UNCHANGED << queue, waiting, op, pc, last >>

Timer ==
  /\ ~kernel.halted /\ kernel' = TickTrap(kernel, 1)
  /\ UNCHANGED << queue, waiting, op, pc, last >>

Next ==
  \/ \E o \in {"send", "recv"} : Call(o)
  \/ NoTime \/ Register \/ (\E ticks \in Timeouts : Wait(ticks))
  \/ StillWaiting \/ Again \/ Sleep \/ Timer

Spec == Init /\ [][Next]_vars

\* The tick interrupt keeps coming (systick_isr arms it again each time).
TicksKeepComing == []<><< kernel'.os_ticks # kernel.os_ticks >>_vars

\* The task t, in the middle of a call, takes it further.
GetsOn(t) ==
  /\ cr = t /\ pc[t] # "run"
  /\ \E at \in {"run", "queued", "asleep", "woken"} \ {pc[t]} :
       pc' = [pc EXCEPT ![t] = at]

\* A task that has the hart again and again in the middle of a call gets on with
\* it: a slice of TIME_SLICE ticks is far longer than a critical section.
FairSpec == Spec /\ TicksKeepComing /\ \A t \in Apps : SF_pc(GetsOn(t))

-----------------------------------------------------------------------------

\* The ring, the two lists and the calls in progress have their types and some
\* task is current (ipc.rs, on top of sched.rs).
TypeOK ==
  /\ kernel \in KernelState /\ kernel.current \in Tid
  /\ queue \in [buffer : [0 .. N - 1 -> Messages \cup {Uninit}],
                head : 0 .. N - 1, tail : 0 .. N - 1, len : 0 .. N]
  /\ waiting \in [send : Seq(Apps), recv : Seq(Apps)]
  /\ op \in [Apps -> {"send", "recv"}]
  /\ pc \in [Apps -> {"run", "looked", "queued", "asleep", "woken"}]

\* The messages inside, oldest first.
Content == [i \in 1 .. queue.len |-> queue.buffer[(queue.head + i - 1) % N]]

\* The queue is a bounded FIFO whatever wakes a call up and whenever: push and
\* pop never overwrite or read a slot they must not, also when the room or the
\* message a waiter was woken for is gone (the second tests of len in ipc.rs).
Promise == INSTANCE Fifo WITH Capacity <- N, content <- Content

IsFifo == Promise!Spec

\* A list holds only tasks that are in that call between registering and looking
\* at the list again, each once: try_wake_up never meddles with a task that is
\* blocked in anything else (pop_front in try_wake_up, remove in wait_on).
OnlyWaiters ==
  \A o \in {"send", "recv"} :
    /\ IsInjective(waiting[o])
    /\ \A t \in Range(waiting[o]) : op[t] = o /\ pc[t] \in {"queued", "asleep"}

\* A push or a pop wakes a most urgent waiter: nobody who stays in the list
\* outranks the one it takes out (insert_in_order in wait_on, pop_front in
\* try_wake_up).
MostUrgentFirst ==
  [][ queue'.len # queue.len =>
        \A o \in {"send", "recv"} :
          \A w \in Range(waiting[o]) \ Range(waiting'[o]) :
            \A t \in Range(waiting'[o]) :
              kernel.priority[w] <= kernel.priority[t] ]_vars

\* The tasks of the highest priority in use.
Urgent ==
  {t \in Apps : \A u \in Apps : TaskPriorities[t + 1] <= TaskPriorities[u + 1]}

\* Every call of a most urgent task returns, with Ok or when its timeout is over
\* (as the consumer of tests.rs expects of recv(200)).
EveryCallReturns == \A t \in Urgent : pc[t] # "run" ~> pc[t] = "run"
=============================================================================
