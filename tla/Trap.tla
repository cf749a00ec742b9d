-------------------------------- MODULE Trap --------------------------------
(***************************************************************************)
(* The trap handler of core/src/arch/riscv.rs with the dispatch of the     *)
(* board's trap.rs: whose context is saved where, who is resumed, and how  *)
(* the timer interrupt survives what the wireless blob does to it.         *)
(*                                                                         *)
(* A thread is main, a task, or the handler of a device interrupt.  What   *)
(* matters of a context is whose it is: a stack is a sequence of "data" and *)
(* of threads whose frames lie on it, an address is a stack and a depth.   *)
(* The scheduler is left open: next_tcb takes any live task, systick_tick  *)
(* returns what it likes (Kernel has both in full).                        *)
(***************************************************************************)
EXTENDS Systimer, Sequences

CONSTANTS
  Tasks,               \* slots of TCBS
  Deep,                \* the tasks that put something on their stacks
  TickMod,             \* number of values of the tick counter
  LateMax,             \* counts the interrupt is taken late at most
  Resets               \* the blob may reset the SYSTIMER

ASSUME TrapAssumption ==
  /\ Tasks \cap {"main", "isr", "boot", "data", "lost"} = {}
  /\ Deep \subseteq Tasks
  /\ TickMod \in Nat \ {0}
  /\ LateMax \in 0 .. Width \div 2 - 1
  /\ Resets \in BOOLEAN

VARIABLES
  sched_ready,         \* SCHED_READY
  current,             \* CURRENT_TCB_PTR, "main" for null
  live,                \* the tasks that exist
  sp,                  \* sp[t]: the address in TCBS[t].sp
  frames,              \* frames[s]: what lies on stack s, outermost first
  hart,                \* the thread that executes, its stack, interrupts on
  interrupted,         \* the address s0 of the handler that executes
  yield_from_isr,      \* YIELD_FROM_ISR
  timer,               \* the registers of Systimer
  os_ticks,
  wrapped,             \* the target has wrapped once (history)
  displaced,           \* tasks whose sp another thread's trap has stored, with
                       \* "isr" once an interrupt came in a handler (history)
  astray               \* the hart entered a displaced context (history)

scheduling == << sched_ready, live >>
contexts == << displaced, astray >>
vars == << sched_ready, current, live, sp, frames, hart, interrupted,
           yield_from_isr, timer, os_ticks, wrapped, contexts >>

Threads == Tasks \cup {"main", "isr", "lost"}
Stacks == Tasks \cup {"boot", "isr"}
Address == [stack : Stacks, depth : Nat]

\* init_stack_frame: the only frame of a new task, at the top of its stack.
FirstFrame(t) == [stack |-> t, depth |-> 1]

\* The restore gives s0 back to the thread.
Nowhere == [stack |-> "boot", depth |-> 0]

Init ==
  /\ sched_ready = FALSE /\ current = "main" /\ live = {}
  /\ sp = [t \in Tasks |-> FirstFrame(t)]
  /\ frames = [s \in Stacks |-> << >>]
  /\ hart = [who |-> "main", stack |-> "boot", mie |-> TRUE]
  /\ interrupted = Nowhere
  /\ yield_from_isr = FALSE
  /\ timer = Started /\ os_ticks = 0 /\ wrapped = FALSE
  /\ displaced = {} /\ astray = FALSE

-----------------------------------------------------------------------------
(* The assembly around the dispatch.                                       *)

\* Where the entry code puts the frame: below what lies on the stack in use.
Here == [stack |-> hart.stack, depth |-> Len(frames[hart.stack]) + 1]

\* The frame is pushed; an interrupt then goes to the top of the ISR stack.
PushedBy(trap) ==
  LET pushed == [frames EXCEPT ![hart.stack] = Append(@, hart.who)]
  IN  IF trap = "interrupt" THEN [pushed EXCEPT !["isr"] = << >>] ELSE pushed

\* Variant of SavedSp: the store to the TCB is missing.
SavedSpNot == sp

\* The store to the current TCB, whoever was executing.
SavedSp == IF sched_ready THEN [sp EXCEPT ![current] = Here] ELSE sp

\* Whose address that store overwrites: the one that executes is right again, but
\* main traps while launch starts a task, and a handler when it faults.  An
\* interrupt in a handler takes the ISR stack from under it.
Displaced(trap) ==
  (IF sched_ready THEN (displaced \cup {current}) \ {hart.who} ELSE displaced)
    \cup IF trap = "interrupt" /\ hart.who = "isr" THEN {"isr"} ELSE {}

Traps(trap) == displaced' = Displaced(trap)

\* What the hart does from then on is anybody's guess.
GoesAstray(switch) ==
  astray' = ("isr" \in displaced' \/ (switch /\ current' \in displaced'))

\* The frame at an address, "lost" when the stack was used for something else.
At(stacks, f) ==
  IF f.depth \in DOMAIN stacks[f.stack] THEN stacks[f.stack][f.depth] ELSE "lost"

\* The restore: sp goes above the frame, and mret turns interrupts on whatever
\* the saved mstatus says (`ori t0, t0, 0x80`).
ReturnTo(stacks, f) ==
  /\ hart' = [who |-> At(stacks, f), stack |-> f.stack, mie |-> TRUE]
  /\ frames' = [stacks EXCEPT ![f.stack] = SubSeq(@, 1, f.depth - 1)]

\* Variant of Leave: the switch is made and the old frame restored.
LeaveByOldFrame(ret, stacks, sps, f, choice) ==
  /\ sp' = sps
  /\ \E t \in IF sched_ready /\ ret THEN choice ELSE {current} : current' = t
  /\ ReturnTo(stacks, f)
  /\ GoesAstray(sched_ready /\ ret)

\* Behind the dispatch: switch if it asked for it, else back to the frame f.
Leave(ret, stacks, sps, f, choice) ==
  /\ sp' = sps
  /\ IF sched_ready /\ ret
     THEN \E t \in choice : current' = t /\ ReturnTo(stacks, sps[t])
     ELSE UNCHANGED current /\ ReturnTo(stacks, f)
  /\ GoesAstray(sched_ready /\ ret)

-----------------------------------------------------------------------------
(* Boot.                                                                   *)

Boots == hart.who = "main" /\ ~sched_ready

\* Scheduler::launch up to the start of the first task.
Launch ==
  /\ Boots
  /\ \E t \in live : current' = t
  /\ sched_ready' = TRUE
  /\ UNCHANGED << live, sp, frames, hart, interrupted, yield_from_isr, timer,
                  os_ticks, wrapped, contexts >>

\* start_first_task
StartFirstTask ==
  /\ hart.who = "main" /\ sched_ready
  /\ ReturnTo(frames, sp[current])
  /\ UNCHANGED << scheduling, current, sp, interrupted, yield_from_isr, timer,
                  os_ticks, wrapped, displaced >>
  /\ GoesAstray(TRUE)

-----------------------------------------------------------------------------
(* What main and the tasks do.                                             *)

InTask == hart.who \in Tasks

\* Task::create and create_raw: a fresh frame, whatever the slot held before.
Create(t) ==
  /\ Boots \/ InTask
  /\ t \notin live
  /\ live' = live \cup {t}
  /\ sp' = [sp EXCEPT ![t] = FirstFrame(t)]
  /\ frames' = [frames EXCEPT ![t] = << t >>]
  /\ displaced' = displaced \ {t}
  /\ UNCHANGED << sched_ready, current, hart, interrupted, yield_from_isr,
                  timer, os_ticks, wrapped, astray >>

\* The exception of yield_task: _mos_trap_dispatch returns 1.
Ecall(choice) ==
  /\ Traps("exception")
  /\ Leave(TRUE, PushedBy("exception"), SavedSp, Here, choice)
  /\ UNCHANGED << sched_ready, interrupted, yield_from_isr, timer, os_ticks,
                  wrapped >>

Yield == InTask /\ Ecall(live) /\ UNCHANGED live

\* Task::exit_current and Task::terminate, which yield once the tid is free.
\* The idle task is there for next_tcb to find.
End(t) ==
  /\ InTask
  /\ t \in live /\ live # {t}
  /\ live' = live \ {t}
  /\ Ecall(live \ {t})

\* A task uses its stack, and where its frame will lie depends on that.
Compute ==
  /\ hart.who \in Deep /\ hart.mie
  /\ frames' = [frames EXCEPT ![hart.stack] =
                   IF @ = << >> THEN << "data" >> ELSE << >>]
  /\ UNCHANGED << scheduling, current, sp, hart, interrupted, yield_from_isr,
                  timer, os_ticks, wrapped, contexts >>

\* critical_section: interrupts off and on again.
Mask ==
  /\ InTask /\ hart.mie
  /\ hart' = [hart EXCEPT !.mie = FALSE]
  /\ UNCHANGED << scheduling, current, sp, frames, interrupted, yield_from_isr,
                  timer, os_ticks, wrapped, contexts >>

Unmask ==
  /\ InTask /\ ~hart.mie
  /\ hart' = [hart EXCEPT !.mie = TRUE]
  /\ UNCHANGED << scheduling, current, sp, frames, interrupted, yield_from_isr,
                  timer, os_ticks, wrapped, contexts >>

\* A fault the dispatch recovers from, in a task or a handler: a jump to an
\* invalid address, or an access to a peripheral or to flash whose clock the
\* blob has switched off.
Fault ==
  /\ InTask \/ hart.who = "isr"
  /\ timer' \in {timer, Recovered(timer)}
  /\ Traps("exception")
  /\ Leave(FALSE, PushedBy("exception"), SavedSp, Here, live)
  /\ UNCHANGED << scheduling, interrupted, yield_from_isr, os_ticks, wrapped >>

-----------------------------------------------------------------------------
(* Interrupts.                                                             *)

Interruptible == hart.mie

\* Variant of Counted: `for _ in 0..missed`.
CountedShort(missed) == missed

\* `for _ in 0..=missed`, one systick_tick each.
Counted(missed) == 1 + missed

\* The timer interrupt, systick_isr and the ticks it owes.
Systick ==
  /\ Interruptible /\ Asks(timer)
  /\ timer' = Rearmed(timer)
  /\ wrapped' = (wrapped \/ timer'.target < timer.target)
  /\ os_ticks' = IF sched_ready
                 THEN (os_ticks + Counted(Skipped(timer))) % TickMod
                 ELSE os_ticks
  /\ Traps("interrupt")
  /\ \E wants \in BOOLEAN :
       Leave(wants \/ yield_from_isr, PushedBy("interrupt"), SavedSp, Here, live)
  /\ yield_from_isr' = FALSE
  /\ UNCHANGED << scheduling, interrupted >>

\* A device interrupt: the handler of esp-hal runs on the ISR stack.
IsrStarts ==
  /\ Interruptible
  /\ frames' = PushedBy("interrupt")
  /\ sp' = SavedSp
  /\ interrupted' = Here
  /\ hart' = [who |-> "isr", stack |-> "isr", mie |-> FALSE]
  /\ Traps("interrupt")
  /\ UNCHANGED << scheduling, current, yield_from_isr, timer, os_ticks, wrapped >>
  /\ GoesAstray(FALSE)

\* Sema::up_from_isr asks for a switch.
IsrYields ==
  /\ hart.who = "isr"
  /\ yield_from_isr' = TRUE
  /\ UNCHANGED << scheduling, current, sp, frames, hart, interrupted, timer,
                  os_ticks, wrapped, contexts >>

\* The handler has returned: systick is repaired and the flag looked at.
IsrEnds ==
  /\ hart.who = "isr"
  /\ timer' = LinkOn(timer)
  /\ UNCHANGED displaced
  /\ Leave(yield_from_isr, frames, sp, interrupted, live)
  /\ yield_from_isr' = FALSE
  /\ interrupted' = Nowhere
  /\ UNCHANGED << scheduling, os_ticks, wrapped >>

\* An interrupt on a line nobody handles: cleared and switched off.
Stray ==
  /\ Interruptible /\ timer.stray
  /\ timer' = [LinkOn(timer) EXCEPT !.stray = FALSE]
  /\ Traps("interrupt")
  /\ Leave(yield_from_isr, PushedBy("interrupt"), SavedSp, Here, live)
  /\ yield_from_isr' = FALSE
  /\ UNCHANGED << scheduling, interrupted, os_ticks, wrapped >>

-----------------------------------------------------------------------------
(* The environment.                                                        *)

\* Power management in the blob, called from a task or a handler.
BlobMeddles ==
  /\ InTask \/ hart.who = "isr"
  /\ \/ timer' = [timer EXCEPT !.clock = FALSE]
     \/ timer' = [timer EXCEPT !.line = FALSE]
     \/ timer' = [timer EXCEPT !.stray = TRUE]
     \/ Resets /\ timer' = WasReset(timer)
  /\ UNCHANGED << scheduling, current, sp, frames, hart, interrupted,
                  yield_from_isr, os_ticks, wrapped, contexts >>

\* The count moves; LateMax bounds how long interrupts may be off.
TimePasses ==
  /\ timer.clock
  /\ Over(timer) => (timer.now - timer.target) % Width < LateMax
  /\ timer' = [timer EXCEPT !.now = (@ + 1) % Width]
  /\ UNCHANGED << scheduling, current, sp, frames, hart, interrupted,
                  yield_from_isr, os_ticks, wrapped, contexts >>

\* A hart that has gone astray is followed no further.
Next ==
  /\ ~astray
  /\ \/ Launch \/ StartFirstTask
     \/ \E t \in Tasks : Create(t) \/ End(t)
     \/ Yield \/ Compute \/ Mask \/ Unmask \/ Fault
     \/ Systick \/ IsrStarts \/ IsrYields \/ IsrEnds \/ Stray
     \/ BlobMeddles \/ TimePasses

Spec == Init /\ [][Next]_vars

\* Code leaves its critical sections and handlers, the radio keeps interrupting,
\* the count moves when its clock is on for good or again and again, and the
\* hart takes an interrupt that asks again and again while interrupts are on.
Fairness ==
  /\ WF_vars(StartFirstTask) /\ WF_vars(Unmask) /\ WF_vars(IsrEnds)
  /\ SF_vars(IsrStarts) /\ SF_vars(TimePasses) /\ SF_vars(Systick)

FairSpec == Spec /\ Fairness

-----------------------------------------------------------------------------
(* Properties.                                                             *)

\* The thread that goes on once the handler, if one executes, has returned.
Executing == IF hart.who = "isr" THEN At(frames, interrupted) ELSE hart.who

\* Every task that is not executing can be resumed: the address in its TCB is
\* that of its own frame (the stores of the entry code, init_stack_frame).  A trap
\* while launch starts a task, or a fault in a handler, costs the address of the
\* task that is current and of nobody else; until the hart follows it the other
\* tasks are safe, and so is that task itself when it goes on before.
SavedContexts ==
  astray \/
    \A t \in live \ (displaced \cup IF hart.who = "isr" THEN {} ELSE {Executing}) :
      At(frames, sp[t]) = t

\* Up to there: whoever goes on behind a trap or the start of the first task, if
\* not the thread that was executing, is the task that CURRENT_TCB_PTR names, and
\* every task runs on its own stack (the restore code, start_first_task).
ResumesOwnContext ==
  [][ astray' \/
      /\ Executing' # Executing => Executing' = current'
      /\ hart'.who \in Tasks => hart'.who = current' /\ hart'.stack = current' ]_vars

\* The tick counter keeps time with the alarm: every interrupt counts exactly
\* the periods by which it moves the target (systick_isr, the loop in trap.rs).
TicksKeepTime ==
  [][ sched_ready /\ timer'.target # timer.target =>
        (timer'.target - timer.target) % Width
          = (((os_ticks' - os_ticks) % TickMod) * PERIOD) % Width ]_vars

\* The next alarm is never more than a period away, however late the last was
\* taken, until the 52-bit target wraps: systick_isr compares plain numbers, so
\* there it takes every target for one that is over.
AlarmInReach ==
  wrapped \/ Over(timer) \/ (timer.target - timer.now) % Width <= PERIOD

SystemState ==
  IF astray THEN "crashed" ELSE IF sched_ready THEN "running" ELSE "off"

\* What Tasks assumes of its timer: whatever the blob switches off, ticks keep
\* coming until the hart goes astray, and no interrupt counts more than
\* MissedLimit + 2 of them.
Clock == INSTANCE SystemClock
           WITH state <- SystemState, MostAtOnce <- MissedLimit + 2

IsClock == Clock!Spec
=============================================================================
