------------------------------ MODULE Systimer ------------------------------
(***************************************************************************)
(* The way of a tick from the SYSTIMER to the hart, as far as bsp.rs and   *)
(* trap.rs program it: the peripheral clock, the comparator of TARGET0 and *)
(* its interrupt enable, and two enable bits of the interrupt matrix.  The *)
(* registers are one record; an operation of the code is a function on it. *)
(* The 52-bit count and target are numbers below `Width`.                  *)
(***************************************************************************)
EXTENDS Integers, FiniteSetsExt

CONSTANTS
  Width,         \* counts before the counter of UNIT0 wraps (2^52)
  PERIOD,        \* counts of one tick (SYSTIMER_PERIOD)
  MissedLimit    \* the loop of systick_isr gives up above this many (100)

ASSUME SystimerAssumption ==
  /\ PERIOD \in Nat \ {0} /\ MissedLimit \in Nat
  /\ Width \in Nat /\ Width > 2 * (MissedLimit + 3) * PERIOD

Count == 0 .. Width - 1

Registers ==
  [ now     : Count,      \* UNIT0_VALUE
    target  : Count,      \* TARGET0
    armed   : BOOLEAN,    \* CONF bit 24, the comparator works
    int_ena : BOOLEAN,
    clock   : BOOLEAN,    \* PCR clocks on and reset released
    line    : BOOLEAN,    \* MXINT_ENABLE bit SYSTICK_CPU_INT
    stray   : BOOLEAN ]   \* MXINT_ENABLE bit of a line nobody handles

\* After init_systimer.
Started ==
  [ now |-> 0, target |-> PERIOD, armed |-> TRUE, int_ena |-> TRUE,
    clock |-> TRUE, line |-> TRUE, stray |-> TRUE ]

\* The comparator fires for a target that is over, by less than half a turn.
Over(r) == (r.now - r.target) % Width < Width \div 2

\* The systick interrupt asks for the hart.
Asks(r) == r.armed /\ r.int_ena /\ r.line /\ Over(r)

\* ensure_systimer_clock
ClockOn(r) == [r EXCEPT !.clock = TRUE]

\* recover_peripheral_clocks.  The clocks of flash and cache and the fence.i
\* are behind the fault that calls it, and not part of the registers here.
Recovered(r) == ClockOn(r)

\* Variant of LinkOn: the enable bit of the interrupt matrix is forgotten.
LinkOnClockOnly(r) == ClockOn(r)

\* What the handler repairs after every interrupt but its own.
LinkOn(r) == [ClockOn(r) EXCEPT !.line = TRUE]

\* A reset of the peripheral: enables and comparator fall back to zero.
WasReset(r) == [r EXCEPT !.clock = FALSE, !.armed = FALSE, !.int_ena = FALSE]

NextTarget(r, skip) == (r.target + (1 + skip) * PERIOD) % Width

\* Variant of Skipped: the loop starts from the target that has fired.
SkippedOneMore(r) ==
  Min({m \in 0..MissedLimit + 1 : (r.target + m * PERIOD) % Width > r.now}
        \cup {MissedLimit + 1})

\* The loop of systick_isr: periods that are over as well.  Target and count
\* are compared as plain numbers.
Skipped(r) ==
  Min({m \in 0..MissedLimit + 1 : NextTarget(r, m) > r.now}
        \cup {MissedLimit + 1})

\* systick_isr: the next target in line, comparator and interrupt on again.
Rearmed(r) ==
  [ClockOn(r) EXCEPT !.target = NextTarget(r, Skipped(r)),
                     !.armed = TRUE, !.int_ena = TRUE]
=============================================================================
