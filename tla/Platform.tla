------------------------------ MODULE Platform ------------------------------
(***************************************************************************)
(* Devices, control and status registers and the traps of the core, put    *)
(* together as machine.cpp connects them: every signal_interrupt of a      *)
(* device goes to ControlState::set_interrupt_signal, at once.             *)
(* A behaviour starts after boot code has written one of Setups; the       *)
(* program then takes traps, returns from them, writes status registers    *)
(* and uses the devices of its setup, while the host's clock and input go  *)
(* on.                                                                     *)
(***************************************************************************)
EXTENDS ControlState, SerialPort, Aclint

CONSTANTS
    Setups,          \* enables, delegations, vectors, devices used, CSRs written
    Exceptions,      \* the synchronous exceptions a program may meet
    TimerValues,     \* the values it writes to mtime and mtimecmp
    MaxTimerWrites,  \* how often it writes them,
    LastTimerWrite,  \* and until when
    MaxClock,        \* the host's clock stops here
    MaxBytes         \* characters the host sends

\* What boot code can leave behind, and the exceptions that are not interrupts.
ASSUME PlatformAssumption ==
    /\ Setups \subseteq [uses : SUBSET {"serial", "mtimer", "mswi", "sswi"}, raises : SUBSET Exceptions,
                         mie : SUBSET (0 .. 31), sie : SUBSET (0 .. 31), mideleg : SUBSET (0 .. 31),
                         medeleg : SUBSET Exceptions, mtvec : BOOLEAN, stvec : BOOLEAN,
                         writes : SUBSET {"mstatus", "sstatus", "mip", "sip"}]
    /\ Exceptions \cap {"INT_M", "INT_S", "NONE"} = {}
    /\ TimerValues \subseteq Nat

VARIABLES
    setup, csr, priv,
    port, timer, mswi,
    clock,            \* the host's clock
    timer_writes, bytes,
    before            \* what the last trap into a level interrupted, None once
                      \* the program wrote its status fields

vars == <<setup, csr, priv, port, timer, mswi, clock, timer_writes, bytes, before>>

None == [priv |-> "NONE", ie |-> FALSE]

Levels == {"SUPERVISOR", "MACHINE"}

uses(device) == device \in setup.uses

\* A line of a device that changed, delivered.
Line(c, irq, was, is) == IF was = is THEN c ELSE set_interrupt_signal(c, irq, is)

\* The lines the serial port signalled, delivered.
Deliver(c, p) ==
    LET received == IF RX_IRQ \in p.signalled THEN set_interrupt_signal(c, RX_IRQ, p.rx_irq) ELSE c
    IN  IF TX_IRQ \in p.signalled THEN set_interrupt_signal(received, TX_IRQ, p.tx_irq) ELSE received

(***************************************************************************)
(* The program: traps, returns, status registers                           *)
(***************************************************************************)
Take(excause) ==
    LET res == handle_exception(csr, priv, excause)
        to_s == deliver_to_s(csr, priv, excause)
        taken == IF to_s THEN csr.stvec ELSE csr.mtvec
    IN  /\ csr' = res.csr
        /\ priv' = res.priv
        /\ before' = IF ~taken THEN before
                     ELSE IF to_s THEN [before EXCEPT !["SUPERVISOR"] =
                                            [priv |-> priv, ie |-> csr.mstatus.sie]]
                     ELSE [before EXCEPT !["MACHINE"] = [priv |-> priv, ie |-> csr.mstatus.mie]]
        /\ UNCHANGED <<setup, port, timer, mswi, clock, timer_writes, bytes>>

Interrupt ==
    /\ core_interrupt_request(csr, priv) # "NONE"
    /\ Take(core_interrupt_request(csr, priv))

Exception(excause) == excause \in setup.raises /\ Take(excause)

\* mret needs machine mode, sret at least supervisor mode.
Return(level) ==
    LET res == exception_return(csr, level)
    IN  /\ Rank(priv) >= Rank(level)
        /\ csr' = res.csr
        /\ priv' = res.priv
        /\ before' = [before EXCEPT ![level] = None]
        /\ UNCHANGED <<setup, port, timer, mswi, clock, timer_writes, bytes>>

\* csrrs and csrrc on the interrupt enables of the status registers, and on the
\* supervisor software interrupt.
WriteEnable(reg, value) ==
    LET level == IF reg = "sstatus" THEN "SUPERVISOR" ELSE "MACHINE"
    IN  /\ reg \in setup.writes
        /\ Rank(priv) >= Rank(level)
        /\ csr' = IF reg = "sstatus" THEN write_sstatus(csr, [csr.sstatus EXCEPT !.sie = value])
                  ELSE write_mstatus(csr, [csr.mstatus EXCEPT !.mie = value])
        /\ UNCHANGED <<setup, priv, port, timer, mswi, clock, timer_writes, bytes, before>>

ClearSoftware(reg) ==
    /\ reg \in setup.writes
    /\ \/ reg = "mip" /\ priv = "MACHINE" /\ csr' = write_mip(csr, csr.mip \ {SSWI_IRQ})
       \/ reg = "sip" /\ priv # "UNPRIVILEGED" /\ csr' = write_sip(csr, csr.sip \ {SSWI_IRQ})
    /\ UNCHANGED <<setup, priv, port, timer, mswi, clock, timer_writes, bytes, before>>

(***************************************************************************)
(* The program: device registers                                           *)
(***************************************************************************)
SerialStep(next) ==
    /\ port' = [next EXCEPT !.signalled = {}]
    /\ csr' = Deliver(csr, next)
    /\ UNCHANGED <<setup, priv, timer, mswi, clock, timer_writes, before>>

SerialAccess ==
    /\ uses("serial")
    /\ \/ SerialStep(read_rx_st(port))
       \/ SerialStep(read_rx_data(port))
       \/ SerialStep(write_tx_data(port))
       \/ \E ie \in BOOLEAN : SerialStep(write_rx_st(port, ie)) \/ SerialStep(write_tx_st(port, ie))
    /\ UNCHANGED bytes

TimerStep(next) ==
    /\ timer' = next
    /\ csr' = Line(csr, MTIMER_IRQ, timer.active, next.active)
    /\ UNCHANGED <<setup, priv, port, mswi, clock, bytes, before>>

TimerWrite(value) ==
    /\ uses("mtimer")
    /\ timer_writes < MaxTimerWrites /\ clock <= LastTimerWrite
    /\ timer_writes' = timer_writes + 1
    /\ \/ TimerStep(write_mtime(timer, clock, value))
       \/ TimerStep(write_mtimecmp(timer, clock, value))

\* read_reg64 of mtime looks at the clock and leaves the line alone.
TimerRead ==
    /\ uses("mtimer")
    /\ TimerStep(mtime_fetch_current(timer, clock))
    /\ UNCHANGED timer_writes

MswiWrite(value) ==
    /\ uses("mswi")
    /\ mswi' = value
    /\ csr' = Line(csr, MSWI_IRQ, mswi, value)
    /\ UNCHANGED <<setup, priv, port, timer, clock, timer_writes, bytes, before>>

\* The supervisor's software interrupt can only be raised here.
SswiWrite ==
    /\ uses("sswi")
    /\ csr' = set_interrupt_signal(csr, SSWI_IRQ, TRUE)
    /\ UNCHANGED <<setup, priv, port, timer, mswi, clock, timer_writes, bytes, before>>

(***************************************************************************)
(* The host                                                                *)
(***************************************************************************)
HostByte ==
    /\ uses("serial") /\ bytes < MaxBytes
    /\ bytes' = bytes + 1
    /\ SerialStep(host_byte(port))

ReadyRead ==
    /\ port.notify
    /\ SerialStep(ready_read(port))
    /\ UNCHANGED bytes

Tick ==
    /\ uses("mtimer") /\ clock < MaxClock
    /\ clock' = clock + 1
    /\ UNCHANGED <<setup, csr, priv, port, timer, mswi, timer_writes, bytes, before>>

TimerEvent ==
    /\ timer.expires # Unarmed /\ timer.expires <= clock
    /\ TimerStep(timerEvent(timer, clock))
    /\ UNCHANGED timer_writes

Init ==
    /\ setup \in Setups
    /\ csr = reset(setup)
    /\ priv = "MACHINE"
    /\ \E terminal \in BOOLEAN : port = PortInit(terminal)
    /\ timer = TimerInit
    /\ mswi = FALSE
    /\ clock = 0
    /\ timer_writes = 0
    /\ bytes = 0
    /\ before = [l \in Levels |-> None]

Program ==
    \/ Interrupt
    \/ \E excause \in Exceptions : Exception(excause)
    \/ \E level \in Levels : Return(level)
    \/ \E reg \in {"mstatus", "sstatus"}, value \in BOOLEAN : WriteEnable(reg, value)
    \/ \E reg \in {"mip", "sip"} : ClearSoftware(reg)
    \/ SerialAccess
    \/ \E value \in TimerValues : TimerWrite(value)
    \/ TimerRead
    \/ \E value \in BOOLEAN : MswiWrite(value)
    \/ SswiWrite

Next == Program \/ HostByte \/ ReadyRead \/ Tick \/ TimerEvent

Spec == Init /\ [][Next]_vars

\* The host's clock goes on, and its event loop delivers what is due between two
\* steps of the machine.
FairSpec == Spec /\ WF_vars(Tick) /\ WF_vars(TimerEvent) /\ WF_vars(ReadyRead)

(***************************************************************************)
(* Properties                                                              *)
(***************************************************************************)
\* A pending bit of mip that no program can write is the line of its device.
LinesFollowDevices ==
    /\ RX_IRQ \in csr.mip <=> port.rx_irq
    /\ TX_IRQ \in csr.mip <=> port.tx_irq
    /\ MTIMER_IRQ \in csr.mip <=> timer.active
    /\ MSWI_IRQ \in csr.mip <=> mswi

\* A return restores the privilege and the interrupt enable that the trap into
\* its level found, through traps into the other level, and a trap never goes
\* down in privilege.
ReturnsRestore ==
    [][/\ Rank(priv') < Rank(priv) => \E l \in Levels : csr' = exception_return(csr, l).csr
       /\ \A l \in Levels : before[l] # None /\ before'[l] = None =>
            /\ priv' = before[l].priv
            /\ (IF l = "MACHINE" THEN csr'.mstatus.mie ELSE csr'.mstatus.sie) = before[l].ie
      ]_vars

\* With the receive interrupt enabled a character is either announced by the
\* line, or the host's notification of it is still to come.
NoByteUnannounced ==
    port.rx_ie /\ (port.rx_ready \/ port.queue > 0) => port.rx_irq \/ port.notify

\* The timer interrupt is never early: once raised, mtimecmp is behind mtime.
TimerNeverEarly == timer.active => timer.cmp < Now(timer, clock)

\* Nor is it lost: when mtime is going to pass a mtimecmp that was written, the
\* line is raised, whenever the host looks at its clock.  mtimecmp must not be further
\* ahead than an int holds milliseconds (25 days): no timer is started for such a wait.
TimerRaised ==
    (/\ timer_writes = MaxTimerWrites
     /\ timer.cmp < MaxClock * TicksPerMs + timer.offset
     /\ timer.cmp - timer.offset < IntervalLimit * TicksPerMs)
        ~> timer.active
=============================================================================
