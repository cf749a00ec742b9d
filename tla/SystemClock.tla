----------------------------- MODULE SystemClock -----------------------------
(***************************************************************************)
(* What the kernel is promised of its clock: once the scheduler runs the   *)
(* tick counter moves on as long as the system does, by no more than       *)
(* `MostAtOnce` at a time.                                                 *)
(***************************************************************************)
EXTENDS Integers

CONSTANTS TickMod, MostAtOnce

VARIABLES
  state,      \* of the system: "off", "running", "crashed"
  os_ticks

clock_vars == << state, os_ticks >>

Init == state = "off" /\ os_ticks = 0

Start == state = "off" /\ state' = "running" /\ UNCHANGED os_ticks

Advance ==
  /\ state = "running" /\ UNCHANGED state
  /\ \E n \in 1..MostAtOnce : os_ticks' = (os_ticks + n) % TickMod

\* Nothing is promised of a system that has crashed.
Crash == state' = "crashed"

Next == Start \/ Advance \/ Crash

Spec == Init /\ [][Next]_clock_vars /\ WF_clock_vars(Advance)
=============================================================================
