--------------------------- MODULE MachineControl ---------------------------
(***************************************************************************)
(* Running a machine (machine.cpp): its status, the timer that clocks the  *)
(* core and the control methods.  A core step is one event: it may end     *)
(* normally, reach an exception the machine stops on (both front ends then *)
(* call pause from inside the step) or throw.                              *)
(***************************************************************************)
EXTENDS Naturals

CONSTANTS
    MaxCycles,       \* bound on the cycles of a run
    MaxBurst         \* bound on the core steps of one timer event

VARIABLES
    stat,            \* ST_READY, ST_RUNNING, ST_TRAPPED (ST_EXIT is never set)
    clock,           \* run_t is active
    speed,           \* "fixed": an interval; "unlimited", "chunk": as fast as possible
    cycles           \* of the core

controlVars == <<stat, clock, speed, cycles>>

Speeds == {"fixed", "unlimited", "chunk"}
Events == {"none", "stop", "trap"}

exited == stat \in {"EXIT", "TRAPPED"}
CTL_GUARD == ~exited /\ stat # "BUSY"

Control(st, running) == stat' = st /\ clock' = running

\* Mutant: pause refuses to act on a busy machine, as the other methods do.
StatusAfter_Busy(prev, event) == IF event = "trap" THEN "TRAPPED" ELSE prev

\* The status the steps leave; a stop has called pause on the busy machine.
StatusAfter(prev, event) ==
    CASE event = "trap" -> "TRAPPED" [] event = "stop" -> "READY" [] OTHER -> prev

step_internal(prev, running, n, event) ==
    /\ cycles + n <= MaxCycles
    /\ cycles' = cycles + n
    /\ Control(StatusAfter(prev, event), running /\ event = "none")
    /\ UNCHANGED speed

play(event) == CTL_GUARD /\ step_internal("RUNNING", TRUE, 1, event)

step(event) == CTL_GUARD /\ step_internal(stat, clock, 1, event)

\* At full speed one event makes many steps, while none of them stops.
step_timer(n, event) ==
    /\ clock
    /\ n \in 1 .. (IF speed = "fixed" THEN 1 ELSE MaxBurst)
    /\ CTL_GUARD
    /\ speed = "unlimited" => stat = "RUNNING"
    /\ step_internal(stat, clock, n, event)

pause ==
    /\ CTL_GUARD
    /\ Control("READY", FALSE)
    /\ UNCHANGED <<speed, cycles>>

\* The pause in it does nothing to a machine that has exited.
restart ==
    /\ Control("READY", IF CTL_GUARD THEN FALSE ELSE clock)
    /\ cycles' = 0
    /\ UNCHANGED speed

set_speed(s) == speed' = s /\ UNCHANGED <<stat, clock, cycles>>

\* A new machine is ready, with its clock stopped and at full speed.
New == stat' = "READY" /\ clock' = FALSE /\ cycles' = 0

\* The clock ticks exactly while the machine is running: a stop from inside of a
\* step, a trap, a pause and a restart all stop it, and only play starts it.
ClockRuns == clock <=> stat = "RUNNING"
=============================================================================
