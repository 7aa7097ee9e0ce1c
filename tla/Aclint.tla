------------------------------- MODULE Aclint -------------------------------
(***************************************************************************)
(* The timer and the software interrupt registers of the ACLINT:           *)
(* aclintmtimer.cpp, aclintmswi.cpp and aclintsswi.cpp.  The state `t` of  *)
(* the timer: mtimecmp, the offset a write of mtime leaves, the host clock *)
(* when it was last looked at, the line, and when the host timer armed for *)
(* it expires (Unarmed if there is none).  The host's clock counts         *)
(* milliseconds, mtime ticks.                                              *)
(***************************************************************************)
EXTENDS Integers

CONSTANTS
    TicksPerMs,      \* 10000 in the code
    IntervalLimit    \* the milliseconds an int does not hold (2^31)

ASSUME TicksAssumption == TicksPerMs \in Nat \ {0} /\ IntervalLimit \in Nat \ {0}

MTIMER_IRQ == 7
MSWI_IRQ == 3
SSWI_IRQ == 1

Unarmed == -1

TimerInit == [cmp |-> 0, offset |-> 0, fetched |-> 0, active |-> FALSE, expires |-> Unarmed]

mtime(t) == t.fetched + t.offset

mtime_fetch_current(t, clock) == [t EXCEPT !.fetched = clock * TicksPerMs]

\* The time the program would read now.
Now(t, clock) == clock * TicksPerMs + t.offset

Reached(t) == t.cmp < mtime(t)

\* Mutant: equality counts as reached.
update_mtimer_irq_Early(t) ==
    IF t.cmp <= mtime(t) THEN [t EXCEPT !.active = TRUE, !.expires = Unarmed]
    ELSE [t EXCEPT !.active = FALSE]

update_mtimer_irq(t) ==
    IF Reached(t) THEN [t EXCEPT !.active = TRUE, !.expires = Unarmed]
    ELSE [t EXCEPT !.active = FALSE]

\* startTimer takes an int: the milliseconds lose what does not fit, and there is no
\* timer for an interval that is negative then.
startTimer(clock, ms) ==
    IF (ms \div IntervalLimit) % 2 = 1 THEN Unarmed ELSE clock + (ms % IntervalLimit)

\* The timer counts whole milliseconds from now, the wait is from the last look at the
\* clock.
arm_mtimer_event(t, clock) ==
    [t EXCEPT !.expires = startTimer(clock, (t.cmp - mtime(t)) \div TicksPerMs)]

\* Mutant: a timer that was too early is not armed again.
refresh_Once(t, clock) == update_mtimer_irq(t)

\* What follows every change: the line is updated, or the host timer armed.
refresh(t, clock) ==
    IF Reached(t) THEN update_mtimer_irq(t) ELSE arm_mtimer_event(update_mtimer_irq(t), clock)

write_mtime(t, clock, value) ==
    LET f == mtime_fetch_current(t, clock) IN refresh([f EXCEPT !.offset = value - f.fetched], clock)

\* mtimecmp is compared with the time of the last look at the clock.
write_mtimecmp(t, clock, value) == refresh([t EXCEPT !.cmp = value], clock)

timerEvent(t, clock) ==
    refresh(mtime_fetch_current([t EXCEPT !.expires = Unarmed], clock), clock)
=============================================================================
