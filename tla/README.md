# MOS-Rust: a TLA+ development of the kernel

MOS is a small real-time kernel (`core/`) with a board support package for the
ESP32-C6 (`boards/esp32c6/`).  This directory holds TLA+ modules translated from
its Rust source, TLC configurations that check them on small instances, and
TLAPS proofs.  Paths below are relative to the repository; `sync.rs:59` is line
59 of `core/src/kernel/sync.rs`.

## 1. The system

| part | source | state | operations |
|---|---|---|---|
| task lists | `core/src/kernel/list.rs` | a vector of tids, capacity `TASK_MAX` | push_back, pop_front, remove, insert_in_order |
| kernel state, scheduler | `global.rs`, `tcb.rs`, `sched.rs` | `TCBS`, `READY_LIST`, `BLOCKED_LIST`, `SLEEPING_LIST`, `OS_TICKS`, `TID_BITMAP`, `CURRENT_TCB_PTR`, `SCHED_READY` | alloc_tid, free_tid, launch, next_tcb, wake_up_sleepers, systick_tick |
| task API | `task.rs` | the kernel state | create, create_raw, exit_current, terminate, block, resume, delay, find_tid |
| semaphore | `sync.rs:17-155` | count, wait_queue | down, up, try_down, down_timeout, up_from_isr |
| mutex | `sync.rs:161-286` | owner, recursive_count, wait_queue; the owner's priority and sub_priority | lock, drop of the guard |
| condition variable, barrier | `sync.rs:292-388` | wait_queue; count and generation | wait, notify, notify_all; wait |
| message queue | `ipc.rs` | ring buffer, senders, receivers | send, recv, each with a timeout |
| async runtime | `async_rt.rs` | task slots, wake flags, timer queue | spawn, run, wakers, timers |
| traps, context switch | `core/src/arch/riscv.rs`, `boards/.../trap.rs` | frames on the stacks, `TCBS[t].sp`, `YIELD_FROM_ISR`, `IN_ISR` | ecall, recoverable faults, timer, device and stray interrupts, start_first_task |
| board | `bsp.rs`, `main.rs`, `board_info.rs` | SYSTIMER registers, clocks, interrupt matrix | boot, systick_isr, ensure_systimer_clock, recover_peripheral_clocks |
| adapter for the wireless blob | `rtos_adapter.rs` | `FAT_HANDLES`, the handles on the heap | task_create, current_task, current_task_thread_semaphore, schedule_task_deletion |
| BLE task | `ble.rs` | - | the GATT write that feeds the shell |
| shell, console | `shell.rs`, `print.rs`, `print_rtt.rs` | input ring, line editor | ls, kill, block, resume, help, time, uname, reboot |
| LCD | `lcd.rs`, `third_party/` | character ring, terminal, dirty rows, frame buffer | lcd_putchar, lcd_task |
| data types | `core/src/data_type/` | - | nothing in the repository uses them |

**How they interact.**  There is one hart.  Every kernel operation is a
`critical_section::with` block (interrupts off) on the statics of `global.rs`.
A task gives the hart up by `yield_task()`, an `ecall`: the exception is taken
at once, also inside the critical section, and its handler runs `next_tcb`
before any other code, so that "change the lists, then yield" is one step as
seen from everybody else.  When the task runs again it continues behind the
`ecall`.  Interrupts (the tick and the device handlers, which may call
`up_from_isr`) come between critical sections; a timer trap that wants a switch
runs `next_tcb` as well.  The primitives of `sync.rs` and `ipc.rs` keep their own
wait queues and move tasks between those and the scheduler's lists by hand,
each with its own copy of the moves.

A trap pushes a frame on the stack in use, stores that address in the current
TCB, and runs interrupts on a stack of their own.  The wireless blob runs in tasks
and in device handlers; it switches peripheral clocks and interrupt lines off
behind the kernel's back, and every device interrupt ends with a repair.  It knows
tasks by handles, the user of the shell by names; both are turned into tids, which
are given out again.  A line written over BLE goes through a ring to the shell
task, what any task prints goes byte by byte through another to the LCD task.

**What is hard here.**  Operations made of several critical sections
(down_timeout, MsgQueue::wait_on, TimerQueue); a wake-up that comes from two
sides (an `up` and a timer); tasks that trust that a wake-up means what they
waited for (`down`, `lock`); priorities that change while a task stands in a
sorted list; two labels, Ready and Running, for the running task, which next_tcb
treats differently; a tick that only sometimes looks at the sleepers; a tick
counter that wraps; lists of fixed capacity whose Err nobody reads; traps that
nest; an alarm that is programmed again in each of its interrupts; handles and tids
kept across a reuse of the slot; bounded rings; a panel that is redrawn in part.
`PROJECT.json` lists these hazards at their lines, with the properties below
that cover them.

**What makes each part correct.**  Scheduler and task API: a live task is on
exactly the list its status names; READY_LIST is in priority order; a most urgent
ready task runs; equals take turns; sleepers wake on time; the "no ready task"
panic is out of reach.  Semaphore: permits are neither invented nor lost, the
most urgent waiter goes first.  Mutex: exclusion, exact ownership, bounded
inversion by inheritance, priorities restored.  Condition variable: no lost
notification, the mutex held again on return.  Barrier: nobody passes before all
have come, everybody passes then.  Message queue: first in first out, nothing
lost or duplicated, waiters woken when there is room or a message.  Async
runtime: a woken future is polled again, a timer fires.  Traps: a task gets its own
context back, on its own stack.  Board: ticks never stop and are as many as the
periods that have passed.  Adapter and look-ups: a handle or a name stands for the
task it was got for.  Console: the lines sent are the lines run; the panel shows
what was printed.

## 2. Modules

| module | models | state |
|---|---|---|
| `TaskList` | `list.rs`, as functions on sequences | - |
| `Kernel` | `global.rs`, `tcb.rs`, `sched.rs`, `task.rs`, the scheduler's side of `trap.rs`, as functions from kernel record to kernel record | - |
| `Tasks` | every caller of the task API, `launch`, the timer trap, bare yields | `kernel`, `idle` |
| `Sema` (`MCSema`) | the semaphore, its users and an interrupt handler | `kernel`, `sema`, `pc`, `timed`, ghost `permits` |
| `MutexOps` | internal_lock and internal_unlock, as functions | - |
| `Mutex` (`MCMutex`) | several mutexes and the tasks that lock them | `kernel`, `mutexes`, `waits`, `nests`, ghost `guards` |
| `Barrier` (`MCBarrier`) | Barrier::wait with the CondVar::wait and notify_all in it, on `MutexOps` | `kernel`, `mutex`, `wait_queue`, `total`, `state`, `my_gen`, `pc` |
| `Rendezvous` | what a barrier promises, in terms of who has come and who may leave | `total`, `gathered`, `freed` |
| `MsgQueue` (`MCMsgQueue`) | send and recv, each of up to five critical sections | `kernel`, `queue`, `waiting`, `op`, `pc`, ghost `last` |
| `Fifo` | what a message queue promises | `content`, `last` |
| `TimerQueue` | the timer heap of `async_rt.rs`, as functions | - |
| `AsyncRt` (`MCAsyncRt`) | spawn and ensure_init, the executor task, Timer and YieldOnce, one access of the statics a step | `kernel`, `init_flag`, `fut`, `ready`, `timers`, `pc`, `idx`, `did_work` |
| `Systimer` | registers of the tick: count, target, comparator, clock, interrupt matrix, as functions on a record | - |
| `Trap` | entry and exit of the trap handler, its dispatch, start_first_task, and the blob as environment | `sched_ready`, `current`, `live`, `sp`, `frames`, `hart`, `interrupted`, `yield_from_isr`, `timer`, `os_ticks`, ghosts `wrapped`, `displaced`, `astray` |
| `SystemClock` | what the scheduler is promised of its clock, until the system crashes | `state`, `os_ticks` |
| `Text` | two functions of the library on text: `from_utf8`, `trim` | - |
| `LineEditor` | LineEditor::feed as functions on a buffer and the commands run, and beside it what the writer of a text asked for | - |
| `Terminal` | the terminal of `lcd.rs` as functions on a record, and the roll of paper it should look like | - |
| `Console` (`MCConsole`) | on `LineEditor` and `Terminal`: input ring, shell loop, printing, character ring, LCD task | `input`, `editor`, `pending`, `char_ring`, `term`, `panel`, `others`, `writes`, ghosts `due`, `misran`, `roll`, `overrun` |
| `Handles` | the adapter's handles and the shell's look-ups, over births and deaths of tasks | `alive`, `name`, `stopped`, `table`, `heap`, `mos_tid`, `pc`, `shell`, ghosts `life`, `lives`, `held`, `meddled` |
| `KernelProofs` | theorems about the operators of `TaskList`, `Kernel` and `MutexOps` | - |
| `TasksProofs`, `SemaProofs`, `MutexProofs`, `BarrierProofs`, `MsgQueueProofs`, `AsyncRtProofs` | theorems about the module of that name | - |
| `BoardProofs` | theorems about `Trap`, `Handles` and `Console` | - |

*Correspondence.*  The kernel record has one field per static (`ready` is
READY_LIST, `status[t]` is `TCBS[t].status`, `tid_bitmap` the set of taken tids,
`current` CURRENT_TCB_PTR, `halted` says a panic of next_tcb or launch was
reached).  An operation of the code is an operator of the same meaning
(`TerminateTask` is Task::terminate) and ends in `NextTcb` where the code calls
yield_task.  An action of a state machine is one critical section with the trap
its `ecall` takes.  An operation of several critical sections has one action per
section and the task's place in it in `pc` or `waits`; what a call does when its
task is resumed behind the `ecall` is an action of its own (`DownReturns`,
`TimedReturns`, `LockReturns`), enabled as soon as that task is current, whoever
woke it.

In `Trap` an action is everything between two instructions at which another trap can
be taken: the handler runs with interrupts off, so the entry code, the dispatch and
the restore are one step, except for a device handler, in which the blob computes,
sets `YIELD_FROM_ISR` or faults (`IsrStarts`, `IsrYields`, `IsrEnds`).  A frame is
named by whose context it holds and its place by stack and depth, so that "restores
the right registers" is `At(frames, sp[t]) = t`.  mret sets MPIE (`ori t0, t0,
0x80`): a return from a trap turns interrupts on even if they were off.  In `Console`
an action is one critical section with the local work behind it; what the LCD task
does between two drains touches nothing that others see.  In `Handles` the steps
of get_or_create_fat_handle are single, as it runs with interrupts on, and
schedule_task_deletion is cut at the yield that terminate makes inside its critical
section, which turns interrupts on.

*Abstractions.*  In the modules of the scheduler and the primitives stacks,
closures, names, register frames, `heap_stack_base` and `thread_sema` are left out:
no scheduling decision reads them.  The data
behind a mutex is abstracted to the guards.  The tick counter has `TickMod` values
(2^32 in the code).  `block`, `resume` and `terminate` are called with tids of
tasks in a state where the code does something; otherwise they return at once.
The trap handler's loop over late ticks is collapsed to one addition, as only
its last value of `ret` can differ from the earlier ones and it is implied by
them; `Trap` counts them one by one.  `Trap` and `Handles` leave the scheduler open:
any live task may be next, which covers what `Kernel` decides.  A byte of the console
is a model string, a character of two bytes is `x1` `x2`; what a command prints is one
of `Replies`; DEL is BS; control bytes both sides ignore do not occur; the pixels of
a row are its text, and nothing if that is not valid UTF-8.

## 3. Plan

The order puts what everything else stands on first.

1. **Done.** `TaskList`, `Kernel`, `Tasks`: scheduler and task API; proofs of
   types, list consistency, one running task, no halt.
2. **Done.** `Sema`: with time-outs and interrupts.
3. **Done.** `MutexOps`, `Mutex`: ownership and priority inheritance.
4. **Done.** `Barrier` on `MutexOps`: the two-step wait, the notify after the
   guard is dropped; it implements `Rendezvous`.  A `CondVar` with arbitrary
   users, `notify` and recursively locked guards is left.
5. **Done.** `MsgQueue`: send, recv and the two-section wait_on; it implements
   `Fifo`.
6. **Done.** `TimerQueue`, `AsyncRt`: wake flags, executor loop, timer heap.  That
   every delay ends (liveness), several spawners, and futures that spawn, are left.
7. **Done.** `Systimer`, `Trap`: contexts and the life of the tick; it implements
   `SystemClock`, which is what `Tasks` assumes of its timer.
8. **Done.** `Terminal`, `Console`: from the phone to the shell and from a print to
   the panel.
9. **Done.** `Handles`: tasks known by handle or by name while slots are reused.
10. Left: kill and block applied to users of the primitives (`terminate` leaves them in
   wait queues).
11. Proofs.  **Done:** every invariant and action property the runs check of a
   component, and the refinements up to liveness.

## 4. Runs

| run | instance | shows |
|---|---|---|
| `kernel_safety` | 3 tids, 2 priorities, slice 2, delays 1-2, up to one late tick, 4 ticks; 303,850 states | types, `ListsMatchStatus`, `OneRunning`, `ReadySorted`, `NoOverdueSleeper`, `HaltNeedsIdleGone`, `OnlyRawOutranks`, `PeersKeepTheirOrder`, `DelayKeepsItsTicks` |
| `kernel_fair` | same pool, a counter of 4 values that wraps for ever; 214,957 states | `EveryContenderRuns`, `SleepersWake` |
| `sema_permits` | 3 tasks, one permit, every set of down_timeout users, 3 ticks; 1,479,908 states | `PermitsNeverInvented`, `CountIsExact`, `NoIdlePermit`, `MostUrgentFirst` |
| `sema_spurious` | violation, 2 tasks that use both calls | that timer lets a later `down` through without a permit |
| `mutex_guards` | 3 tasks of 3 priorities, 2 mutexes, recursion 2, 6 ticks, nesting on and off; 87,881 states | `MutualExclusion`, `OwnerHasTheGuards`, `InheritedWithoutNesting`, `BaseRestored`, `HandedToMostUrgent` |
| `barrier` | 3 tasks of 2 priorities, a barrier for 1, 2 or 3, 4 generations that wrap for ever; 39,264 states | `NobodySleepsOn`, implements `Rendezvous` (`IsRendezvous`), `EverybodyPasses` |
| `msgqueue` | a sender and two receivers of 2 priorities, 2 slots, 2 messages, a clock that wraps; 1,147,368 states | implements `Fifo` (`IsFifo`), `OnlyWaiters`, `MostUrgentFirst` |
| `msgqueue_lost` | violation, 1 slot, under tick and progress fairness | a recv with a timeout that never returns |
| `asyncrt` | a task that spawns below the executor, one that leaves, 4 slots, delays 1-2, a counter of 7 values that wraps; 1,181,844 states | `NothingIsLost`, `TimersAreAwaited`, `EarliestOnTop` |
| `trap` | main, 2 tasks, one of which uses its stack, interrupts during launch, faults in handlers, a period of 1 count, a counter of 7, interrupts up to 2 counts late, 3 tick values; 621,824 states | `SavedContexts`, `ResumesOwnContext`, `TicksKeepTime`, `AlarmInReach`, implements `SystemClock` (`IsClock`) |
| `console` | 2 of 5 lines, a terminal of 4 x 2, rings of 7 and 3, a line buffer of 5, drains of 2, one byte of another task; 3,081,031 states | `RunsWhatWasSent`, `PanelShowsThePrint`, `EveryLineIsAnswered` |
| `handles` | 3 slots, 4 lives, blob and application tasks, shell commands; 3,524,731 states | `EntriesAreAllocated`, `HeldHandlesName` |

Each module of the primitives also states a `TypeOK`; TLC has agreed with them, the
runs spend their properties on what can go wrong.

*Bounds and why they are enough.*  Three tids are the idle task, a task, and a
task that competes with it (two at one priority when main creates them so); the
pool is full, emptied and reused in these instances.  The Sema and Mutex
instances have a fourth tid, so that there are an owner, a waiter and a third
task between or beside them.  A slice of two ticks distinguishes "used up",
"partly used" and "renewed".  `Horizon` stops the clock; with delays up to two
ticks every sleep ends before it, and `kernel_fair` has no horizon, as its
counter wraps.  `MissedMax = 1` makes a trap jump over a wake_point.
`MaxCount` bounds the permits an interrupt handler can pile up and `MaxGuards` the
depth of recursive locking.  `CHECK_DEADLOCK FALSE` is set as the models
stop: at the code's panic (`halted`), at the horizon, at the last life (`handles`), or
where the hart has gone astray (`trap`).  `barrier` has none of these and TLC looks
for deadlocks there, which says little: the timer can always tick.  That nobody is left
in the barrier is `EverybodyPasses`.

A barrier for fewer tasks than meet there is the instance in which tasks of the
next party come between drop(guard) and notify_all, park on the same queue and
are woken for nothing; a barrier for all three is the one for which everybody
must pass.  `NobodyLapped` bounds how far the others may run ahead of a task that
has been woken and not got on yet: with 2^32 generations the counter does not
come round to its generation, with 4 it could.

`msgqueue` has roles as `tests.rs` has (tasks that only send, tasks that only
receive), a slice of one tick and timeouts of one tick: what matters is that a
tick can come between any two critical sections and that a waiter can time out
before, with or after its wake-up.  Its pool of five tids leaves one free place in
a list, so that copies of a task fit.

`asyncrt` has four slots because a pop of the heap meets a right child only when four
timers stand in it.  Its spawner is less urgent than the executor, as in the
repository (`ble.rs:112` spawns in the `ble` task of priority 2, the executor has 1); a
task that only leaves makes the pool full for the first spawns, so that ensure_init fails and
is tried again.  `InTime` keeps the clock from running `TickMod / 2` ticks away from
an executor that is awake; with 2^32 values that is 24 days in one pass.

`trap` has a counter that wraps for ever (7 counts, of which the comparator takes the
later half for "over"), a limit of missed ticks that a late interrupt reaches, and
interrupts late by up to two periods, so that an alarm is on time, one and two periods
late.  Two tasks are a task that is resumed and one that is not; that one of them uses
its stack (`Deep`) is enough for frames at two depths.
`console` has a terminal of four rows, since the full redraw starts above half of the
rows and must be told from the partial one, and of two columns, so that every line
wraps; a drain of two and a ring of three cut prints anywhere; the input ring takes
one line with its newline and overflows with two; of the four lines one comes in two
parts, parts, one is edited, one is too long, one leaves half a character, one is edited and
too long.  In `handles` four lives in three slots, one of them the controller's, mean
that a slot is reused while a handle for its first life is held or being deleted.  The
shell of the run kills tasks of the blob and of the application; that it can name the
controller too is in the module, not in this instance.

*Assumptions on users.*  `sema_permits` has `Both = FALSE`: a task uses
either down or down_timeout on the semaphore.  With both, `PermitsNeverInvented`
is false of the code, which is what `sema_spurious` shows.  `NoIdlePermit` is
stated for runs without down_timeout, since a down_timeout may queue up next to
a permit that an interrupt gave after its try_down.  `InheritedWithoutNesting`
covers tasks that hold one mutex at a time: internal_unlock restores sub_priority
at the last unlock of any mutex (`sync.rs:236`), so with nesting an inherited
priority is lost at the first unlock and `Inherited` does not hold of the code.
`asyncrt` has one task that spawns, less urgent than the executor (`OneSpawner`,
`ExecutorFirst`).  ensure_init tests INIT_FLAG, creates the
executor and sets the flag with interrupts on, and Task::create switches to the
executor in between: two tasks that spawn can make two executors, which then poll
one future at a time or reach the panic of `poll_fn.unwrap()` (with `Spawners = {0,
1}` TLC finds `kernel.halted` in a second).  `OnlyRawOutranks` says what create_raw may do:
its comment (`task.rs:135-138`) counts on the next tick to preempt, but
systick_tick switches only at the end of a slice or while somebody sleeps
(`sched.rs:113`).

`trap` includes two things in which the code loses a context.  main runs with
interrupts on and has armed the tick (`main.rs:113`), and `launch` sets SCHED_READY
(`sched.rs:35`) before start_first_task leaves main's stack: a trap in between stores
main's stack pointer as the first task's.  And a fault in a device handler, from which `trap.rs:56-72`
recovers, stores an address of the ISR stack in the current TCB (`riscv.rs:203`).  The
history `displaced` has the tasks whose address was overwritten so and not yet made
good by a trap of their own or a new life of the slot, and "isr" once an interrupt was
taken in a handler that the return from a fault left with interrupts on, as that one
starts again at the top of the same stack.  `astray` says that the hart has entered such
a context.  From there on it executes what happens to lie in memory, and `Next`
stops.  `SavedContexts` then says that these are the only contexts lost: one such trap
costs the address of the current task and of nobody else, and nothing if that task goes on
before another is resumed; `ResumesOwnContext` says that until the hart enters one of
them everybody goes on as himself.  What the board does afterwards is not claimed, and
`SystemClock` knows it as "crashed".

`Resets` is a fact about the environment of `trap` that nobody guarantees.  Every
device interrupt repairs clock and interrupt line (`trap.rs:135-141`), not the
comparator nor its interrupt enable; ensure_systick_enabled (`bsp.rs:73-109`), which
does, is called by nobody; with a peripheral that was reset `IsClock` fails.
`AlarmInReach` and with it the length of a tick end when the 52-bit target wraps, after
8.9 years: systick_isr compares the plain numbers there and counts up to 102 ticks at
once.

`HeldHandlesName` is about handles the blob deletes at most once and holds no
longer than it says.  When the shell kills a task of the blob, the controller included
(`meddled`), its handle may mean whoever has the slot then, and nothing is claimed from
there on; a kill of a task of the application does not end the claim.  No
property covers the kill itself: the shell looks a name up and calls terminate
afterwards, with interrupts on between the two (`shell.rs:148-149`), and ends whichever
task has the slot by then.  The module has these steps; the code can kill a task
nobody named, and no document says that it does not.

In `Console` texts are sequences of bytes.  A line asks for what its writer
edited (`Asked`), a definition by places that knows no buffer.  A line that has a
backspace and is longer than the buffer as well (not `Plain`) is an exception: a
byte that was dropped is not the one erased, so what its writer meant is not run.  Of
such a line `RunsWhatWasSent` says that the editor makes of it what it makes of the
line alone (`Handled`), whatever came before and however it is cut.  The properties of
the console end where the input ring overflows: a newline that is dropped joins two
commands.

*Fairness.*  Liveness is checked under `TicksKeepComing`: as long as the scheduler
is up the tick counter keeps moving.  `systick_isr` arms the comparator again in
every interrupt (`bsp.rs:192-202`) and the trap handler re-enables the line after
device interrupts, so this is what the board does.  No fairness is assumed of
tasks: they may compute for ever or call anything at any time.  The formula is
weak fairness of the timer, written with the counter, as only the timer moves it.
`msgqueue_lost` assumes `TicksKeepComing` and strong fairness of `GetsOn`: a task that
has the hart again and again in the middle of a call gets on with it, so that its
counterexample is not a task that merely stands still.  `barrier` assumes a
`TasksGetOn` of the same kind instead: a task that gets the hart again and again
takes a next step again and again, since a slice is `TIME_SLICE` = 50
milliseconds, far longer than a call.  It implies that the tasks keep calling `wait`; it says
nothing about which task gets the hart, nor that ticks come.

`trap` has weak fairness of start_first_task, of leaving a critical section and of
the end of a handler, and strong fairness of a device interrupt, of the moving count
and of taking the timer interrupt: the radio interrupts for ever, the count moves
when its clock is on again and again, and the hart takes the interrupt if it asks
again and again with interrupts on.  No fairness is assumed of what tasks compute,
nor that the blob stops meddling.  `console` assumes `ShellGetsOn` and `LcdGetsOn`:
these two tasks (priority 1) sleep only when they have nothing to do or for ten
milliseconds, and so do the tasks above them.

*Mutants.*  Every property of a passing run has a variant of a definition (in the
modules, named "Variant of ...") that breaks it: a dropped yield, a missing
removal, `>` for `>=`, a forgotten restore.

## 5. Findings

Two runs show what the code does against its documents and tests:

1. `sema_spurious`: `Sema::up` does not clear the SLEEPING_LIST entry that
   `OPTIMIZATION.md:140-141` says it clears (`sync.rs:59-63`), and the entry makes a
   later `down` return without a permit.
2. `msgqueue_lost`: `MsgQueue::try_wake_up` inserts a task in READY_LIST that may be
   there already (`ipc.rs:98`).  The copies fill the list, a full list drops the next
   sleeper (`sched.rs:54`), and its call never returns.  The instance has a pool of
   five tids, four of them used; with sixteen it takes more tasks or more
   coincidences, not other ones.

These are known as well and can be had from the modules with other constants:

3. `wake_up_sleepers` compares raw counters (`sched.rs:49`): across a wrap a sleeper
   wakes at once or a turn late.  `Tasks` with TASK_MAX 2, TIME_SLICE 2, TickMod 8,
   AppPriorities {0}, Delays {3}, MissedMax 1, Horizon 9 violates `DelayKeepsItsTicks`.
4. Giving a priority back does not move the task in READY_LIST (`sync.rs:236-258`):
   when its slice was renewed while it ran boosted, the scheduler picks it before
   a more urgent ready task.  `MCMutex` with MaxGuards 2, TIME_SLICE 2, Horizon 3
   violates `MostUrgentRuns`.
5. `TaskSlot::clear` frees the slot before it clears `ready` (`async_rt.rs:59-60`), with
   interrupts on: a spawn in between stores a future whose `ready` is then cleared.
   `MCAsyncRt` with `MCUrgent`, Spawners {0}, ASYNC_POOL_MAX 2, AsyncDelays {1},
   LateMax 1 violates `NothingIsLost`.
6. `Resets` in `trap` (section 4), with which `IsClock` fails.

Met on the way, with no property:

* Terminal: a backspace cuts the row at the cursor also when a carriage return has
  moved it into the line; the comment (`lcd.rs:291`) speaks of the end of the row.  A
  character of two bytes that a wrap splits makes both rows invalid, and neither is
  drawn.  Prints of two tasks mix byte by byte.
* Shell: a line of more than 31 bytes that is cut inside a character is dropped
  without an answer (`shell.rs:298`).  `ls` reads the TCBs with interrupts on.
* Adapter: a creator and the task it creates may both make the handle of one slot; the
  one that is overwritten is leaked, and a thread semaphore taken from it is not
  the one later calls get.  A task that ends or deletes itself leaves its
  entry, and the next task of the slot inherits handle and thread semaphore.  A
  deletion yields inside its critical section, so that a new task of the slot may
  be given the handle that is freed next.  The stacks of `create_raw` are never freed.

## 6. Proofs

Checked by TLAPS for all values of the constants that satisfy the named
assumptions: `TaskMaxAssumption`, `KernelAssumption`, `TasksAssumption` (a pool of
at least one task, a slice of at least one tick, PRI_INV outside the priorities,
delays shorter than a turn of the counter); `SemaAssumption`, `MutexAssumption`, `BarrierAssumption` and
`MsgQueueAssumption` (the tasks main creates fit the pool and have priorities); `SystimerAssumption` and
`TrapAssumption` (the names of main, handler and stacks are not tasks, a period and
the limit of late ticks fit the counter); `HandlesAssumption` (there is a first slot,
and the null handle is neither an address nor a number); `TimerQueueAssumption` and
`AsyncRtAssumption` (the executor finds the clock less than half a turn late, as
`InTime` has it); `TerminalAssumption`, `EditorAssumption` and `ConsoleAssumption` (a
panel, rings and batches of at least one byte).  Actions and invariants of `Handles` and
`Console` that other modules have too carry the module's name (`HandlesNext`,
`ConsoleSpec`), so that one module of proofs can extend them all.

* `KernelProofs`: first what insert_in_order, remove and push_back do to a list
  without repetitions: length, range, no repetition; and `RoomForAbsent`: a list
  without repetitions that lacks some tid is not full.  This last lemma is why no
  insert of the kernel can fail.  Then one lemma per operator of `Kernel`, from
  moving one task up to whole operations, and of `MutexOps`.  The centre is `NextTcbLemma`: from a *switchable* kernel
  (types, `ListsMatch`, a current task whose label may be anything, at most one
  Running label, and READY_LIST or the current task able to go on) one scheduling
  decision leads to a *settled* one (the current task is on READY_LIST and alone
  labelled Running) or to the panic, and loses no ready task.  `WakeUpSleepers` is
  a recursive function and its lemma an induction on its rounds, carried out
  with a least counterexample.  The second half is about order and about the
  primitives.  A *fit* kernel is one whose tasks may also wait in a queue outside it; the
  lemmas say what becomes of the tasks it knows, of order and of sleepers, and that
  launch ends in one (`FitLaunchedWith`).  A *loose* one may have a task on a list
  twice, as up puts a task in READY_LIST that may sleep or stand there already.
* `TasksProofs`: the inductive invariant `IInv` says that before launch the
  kernel is *booting* (lists match, nobody runs), afterwards *settled* unless
  halted, and that a live idle task that is not blocked is on READY_LIST.  The
  last part is needed for the panic, the rest because `ListsMatchStatus` alone is
  not inductive: next_tcb treats the current task by its label, so one must know
  which labels can occur.  `NextIInv` has one step per action.  The theorems are
  `TypeCorrect`, `ListsAlwaysMatch`, `OneTaskRuns` and `NoHaltWhileIdleLives`, each
  `Spec => []` of an invariant that `kernel_safety` checks.  A second invariant,
  `Tidy`, adds what order and time need: `ReadyAlwaysSorted`, `NobodyOversleeps` and,
  as action properties, `OnlyCreateRawOutranks`, `PeersAreNotOvertaken` and
  `DelaysAreExact`.  For the order of peers `KernelProofs` has a relation between
  kernels, `PeersWait` (who waits in both keeps its place before its peers), which
  removal and insertion establish and which composes; an operation is such moves in
  a row, and the scan for sleepers as many as it has rounds.  `Patient` says that
  nobody sleeps longer than some delay asked for; `DelaysAreExact` needs it and the
  hypothesis that the counter stays in the first half of its range, beyond which
  the comparison in wake_up_sleepers is wrong (section 5).
* `SemaProofs`: all four properties of `sema_permits`, under the hypothesis
  `~Both`, without which `sema_spurious` shows them false.  A user of down_timeout
  may stand in READY_LIST twice, or be lost by a list that its copies fill, so the
  invariant says of the other tasks only that each stands in one place
  (`Scheduled`), and of those who wait that the scheduler does not know them until an
  up wakes them (`Queue`): what resumes such a task was an up, whose permit is its
  own.  `QueueSorted` gives the order, `Backed` bounds count by the queue from below,
  and `CountIsExact` is inductive with these.
* `MutexProofs`: all five properties of `mutex_guards`, and types.  `Owned` says that
  owner and recursive_count of a mutex are the guards its tasks hold, that a task
  waits in one queue at most, unknown to the scheduler and without a guard of that
  mutex (`Queues`): one that runs again in lock was handed the mutex.  `Based` says of
  every task that it has its own priority, or owns a mutex and remembers its own in
  sub_priority.  `Calm` is about runs without nesting: queues are sorted and nobody
  in them outranks the owner, which needs that who waits owns nothing (`OneEach`), so
  that no priority changes in a queue.
* `BarrierProofs`: `NobodyIsForgotten`, and `StepsAreMeetings`, the refinement of
  `Rendezvous` without its liveness.  `Sound` says who owns the mutex by the places
  of the tasks in wait, and that the two queues hold tasks at the places where they
  wait, unknown to the scheduler (`Queued`): so who runs again in lock owns the mutex,
  and who runs again in cv.wait was notified.  `Counting` says that count is the
  number of tasks that came in this generation and are still there, that a task about to
  park belongs to it and that the last party does not; without this
  NobodySleepsOn is not inductive.  The loop of notify_all is a recursive function and
  its lemma (`NotifiedLemma`) an induction on its rounds.  The bound `NobodyLapped` is
  needed: after 2^32 generations a task that never ran meanwhile would be taken
  for one that waits.
* `MsgQueueProofs`: all three properties of `msgqueue`, the refinement of `Fifo` among
  them.  try_wake_up may put a task in READY_LIST that is there already (finding 2), so
  of the scheduler the invariant says only that it is loose and that the current task
  is ready; the queue does not depend on more, as every section looks at the lists
  again.  `Ring` places the next write behind the last message; `PlacesApart`,
  `PushLemma` and `PopLemma` show that no write meets a message that is inside and that
  a push appends, a pop takes the head.  `QueueIsFifo` is complete, since `Fifo`
  promises no liveness.
* `BoardProofs`, part on `Trap`: the inductive invariant `IInv` says of every live task but the
  one that executes that it is *home* (the address in its TCB is on its own stack and
  that of its own frame) or displaced, and where the hart is: a task on its own stack and
  current, main on the boot stack, or a handler on the ISR stack above the frame of the
  current task, with interrupts on only if it has faulted and that task is displaced; or
  the hart has gone astray.  `EntryLemma` says that the entry code brings everybody home
  but the current task when another thread traps, `LeaveLemma` that the exit takes one of
  them out or goes astray, `HandlerFault` what a fault in a handler leaves, and
  `NestedGoesAstray` that an interrupt in a handler is the end.  `ContextsAreSaved` and
  `OwnContextResumed` follow for any set of tasks, any timer and any `next_tcb` that
  picks a live task, with interrupts during launch and faults in handlers, under no
  hypothesis but `TrapAssumption`.  The section on the clock needs no invariant about
  contexts: `AlarmInReach` is inductive with the types, and one pass of
  systick_isr moves the target by as many periods as the dispatch counts ticks, which
  takes arithmetic modulo the width of the counter (`OneRemainder`, `OneTurn`,
  `MovedBy`).  `ClockKeepsTime` has the hypothesis that one interrupt counts fewer
  ticks than os_ticks has values, 102 against 2^32 in the code.
  `ClockStepsAreTicks` is the refinement of `SystemClock` without its liveness.
* `BoardProofs`, part on `Handles`: both properties of `handles`.  `LivesApart` says
  that no two slots have one life; `TableInv` that a handle under deletion is allocated
  until it is freed and out of the table before that.  `HeldInv` holds until the shell
  kills a task of the blob: between any two steps of task_create and of a deletion it
  says which handle belongs to which life (`Making`, `Named`, `Once`, `Gone`).  A kill of
  any other task keeps it (`KillKeepsTrusted`).
* `BoardProofs`, part on `Console`: `PanelAlwaysShowsThePrint` has no hypothesis.  Its
  invariant `LcdInv` has a witness: a sheet of paper in the state the roll had when the
  bytes now in the character ring were still to come.  The terminal's matrix is the
  end of that sheet (`Same`), the panel is what is drawn of the matrix, and writing
  the waiting bytes on the sheet gives the roll (`Ahead`).  `FeedLemma` shows for each
  of newline, backspace, carriage return, wrap and scroll that matrix and sheet stay
  the same and that every row that changed is dirty; `AheadSplit` cuts the ring where
  the LCD task takes its batch; `RefreshedLemma` is about the two ways of drawing.
  `RunsOnlyWhatWasSent` says that nothing is run out of order, twice or joined for any
  lines, rings and interleaving, under `ConsoleAssumption`, which restricts no
  line.  First the editor: `LineIsRead` says that the loop over the bytes of a plain line
  runs what a definition by *places* in the line asks for (`Asked`), by induction over
  those places; of any line `LineIsEnded` says that it leaves the buffer empty, and
  `LinesAreRead` puts the two together.
  `ExtractGrows` adds one place to the elements at a set of places; `KeptNext` and
  `LastSurvivor` count erasures, so that a byte that erases takes the last survivor and
  no other; with these `EditedAsMeant` is one turn of the loop within a line, and
  `BegunLemma` says where lines begin.  Then the ring: the invariant `QueueInv` says
  that until a byte is dropped the buffer and the bytes in the ring make up exactly the
  commands still due (`Serves`).  `ServesTail` takes one byte off it, `ServesBoth` puts
  a line behind it, which needs that a line leaves the buffer empty, and `HandledServes`
  turns the function that handles a whole text into such a service.
* `AsyncRtProofs`: all three properties of `asyncrt`, and `NoEmptySlotIsPolled`: the
  panic of `poll_fn.unwrap()` is out of reach.  First the heap: sift_up and sift_down
  keep the entries and restore the order (`RisingAt`, `SinkingAt` name the one place at
  which it may be broken; `Ranked` supplies the transitivity that the comparison by
  the sign of a difference has only among deadlines that are close), so that push, pop and
  wake_expired do what a set of deadlines would.  `IInv` says who executes (`OneExecutor`)
  and, for each place the executor can be at, which slots may be empty, polled or
  waiting and that the entries of the heap are the deadlines awaited, one each
  (`PoolInv`).  `Timed` bounds the deadlines in the heap: none is farther back than the
  executor may be late or farther ahead than a delay reaches (`Near`, `Spread`), which
  `Naps` gives: while the executor sleeps nothing is overdue by more than the tick that
  wakes it.  The hypotheses are those without which the properties fail: with two
  spawners there may be two executors; one as urgent as the executor may store a
  future between the two assignments of clear() (finding 5); and a delay of half a turn
  of the counter (24 days) would be over at once, hence `ShortDelays` for the order.

Only model-checked: liveness (EveryContenderRuns, SleepersWake, EverybodyPasses,
EveryLineIsAnswered, that of IsClock), as fairness and ENABLED are out of this prover's
reach; and the properties of the two runs that find them violated.  Inductions over
data that need an operator parameter are out of reach as well: what the recursive
functions compute for a text, a heap or a queue is had from least counterexamples over
the naturals instead (`UpTo`).

## 7. Not modelled

`CondVar::notify`, users of a condition variable other than the barrier, and waiting
with a mutex that is locked recursively; tasks killed or blocked while they use a
primitive.  The fault that nobody recovers from, which prints a report and stops the
system; ensure_systick_enabled, which nobody calls; pins, heap, display set-up, fonts
and pixels, and what ls, time, help and uname print.  In the adapter: `enable` and
`disable` (a flag nobody reads), handles before the scheduler runs (a dummy), and
task_create with a full pool (null).  `ble.rs` beyond the GATT write, which is calls
into libraries.  The types of `core/src/data_type/`, which have no user, and
`tests.rs`, demonstrations of the modelled primitives.
