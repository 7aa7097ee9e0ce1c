--------------------------- MODULE PlatformProofs ---------------------------
(***************************************************************************)
(* Proofs about the platform, for every set of boot set-ups, exceptions,   *)
(* timer values and bounds: the interrupt lines follow their devices, the  *)
(* timer interrupt is never early, no received character is left           *)
(* unannounced, and a return restores what its trap interrupted.           *)
(***************************************************************************)
EXTENDS Platform, WellFoundedInduction, TLAPS

Bits == SUBSET (0 .. 31)

Causes == {<<>>} \cup {<<e>> : e \in Exceptions} \cup {<<"INT", i>> : i \in 0 .. 31}

Csr == [mstatus : Mstatus, sstatus : Sstatus, mie : Bits, mip : Bits, sie : Bits, sip : Bits,
        mideleg : Bits, medeleg : SUBSET Exceptions, mtvec : BOOLEAN, stvec : BOOLEAN,
        mcause : Causes, scause : Causes]

Timer == [cmp : Int, offset : Int, fetched : Int, active : BOOLEAN, expires : Int]

Saved == [priv : PrivilegeLevels \cup {"NONE"}, ie : BOOLEAN]

\* The type invariant.
TypeOK ==
    /\ setup \in Setups
    /\ csr \in Csr
    /\ priv \in PrivilegeLevels
    /\ port \in Port
    /\ timer \in Timer
    /\ mswi \in BOOLEAN
    /\ clock \in Nat
    /\ timer_writes \in Nat
    /\ bytes \in Nat
    /\ before \in [Levels -> Saved]

(***************************************************************************)
(* The parts of the inductive invariant                                    *)
(***************************************************************************)
\* The receive line is only up for a character that is ready.
RxLine == port.rx_irq => port.rx_ie /\ port.rx_ready

\* Between two operations the port has nothing left to signal.
Quiet == port.signalled = {}

\* The host's clock was looked at in the past, and an active line was justified
\* by that look.
TimerPast ==
    /\ timer.fetched <= clock * TicksPerMs
    /\ timer.active => timer.cmp < timer.fetched + timer.offset

\* sstatus is a view of mstatus.
StatusView == csr.sstatus = SView(csr.mstatus)

\* The previous-privilege and previous-enable fields of a level hold what its
\* last trap interrupted, until a return uses them up.
TrapSaved ==
    /\ before["MACHINE"] # None =>
        /\ before["MACHINE"].priv = csr.mstatus.mpp
        /\ before["MACHINE"].ie = csr.mstatus.mpie
    /\ before["SUPERVISOR"] # None =>
        /\ before["SUPERVISOR"].priv = csr.mstatus.spp
        /\ before["SUPERVISOR"].ie = csr.mstatus.spie

IInv ==
    /\ TypeOK
    /\ RxLine
    /\ Quiet
    /\ LinesFollowDevices
    /\ NoByteUnannounced
    /\ TimerPast
    /\ StatusView
    /\ TrapSaved

(***************************************************************************)
(* The operators of the control and status registers                       *)
(***************************************************************************)
\* A set of interrupt numbers has a least one.
LEMMA LeastExists ==
    ASSUME NEW S \in SUBSET Nat, S # {}
    PROVE  \E i \in S : \A j \in S : i <= j
<1>1. PICK x \in S : \A y \in S : ~ (<<y, x>> \in OpToRel(<, Nat))
  BY NatLessThanWellFounded, WFMin, Zenon
<1>2. \A y \in S : ~ (y < x)
  BY <1>1 DEF OpToRel
<1> QED
  BY <1>2

\* The number recorded as the cause of an interrupt is a bit of the register.
LEMMA LowestIrqType ==
    ASSUME NEW S \in Bits
    PROVE  LowestIrq(S) \in 0 .. 31
<1>1. CASE S = {}
  BY <1>1 DEF LowestIrq
<1>2. CASE S # {}
  <2>1. S \in SUBSET Nat
    BY DEF Bits
  <2>2. \E i \in S : \A j \in S : i <= j
    BY <1>2, <2>1, LeastExists
  <2>3. LowestIrq(S) \in S
    BY <1>2, <2>2 DEF LowestIrq
  <2> QED
    BY <2>3 DEF Bits
<1> QED
  BY <1>1, <1>2

\* What a signal does to the registers: from `c` to `d` the bit of line irq goes
\* to `level`, the other lines and the status registers stay.
Moved(c, d, irq, level) ==
    /\ d \in Csr
    /\ d.mstatus = c.mstatus /\ d.sstatus = c.sstatus
    /\ irq \in d.mip <=> level
    /\ \A j \in 0 .. 31 : j # irq => (j \in d.mip <=> j \in c.mip)

\* set_interrupt_signal moves the bit of its line and no other bit of mip.
LEMMA SignalLine ==
    ASSUME NEW c \in Csr, NEW irq \in 0 .. 31, NEW active \in BOOLEAN
    PROVE  Moved(c, set_interrupt_signal(c, irq, active), irq, active)
  BY DEF Moved, set_interrupt_signal, Csr, Bits

\* A line that changed is delivered, one that did not keeps its bit.
LEMMA LineDelivered ==
    ASSUME NEW c \in Csr, NEW irq \in 0 .. 31, NEW was \in BOOLEAN, NEW is \in BOOLEAN,
           irq \in c.mip <=> was
    PROVE  Moved(c, Line(c, irq, was, is), irq, is)
<1>1. CASE was = is
  BY <1>1 DEF Line, Moved
<1>2. CASE was # is
  BY <1>2, SignalLine DEF Line
<1> QED
  BY <1>1, <1>2

\* From `p` to `q`, an operation of the port: a line that is not signalled has
\* not changed.
Signals(p, q) ==
    /\ p.signalled \subseteq q.signalled
    /\ RX_IRQ \in q.signalled \/ q.rx_irq = p.rx_irq
    /\ TX_IRQ \in q.signalled \/ q.tx_irq = p.tx_irq

\* Delivering the signals of the serial port brings its two lines up to date.
LEMMA DeliverLines ==
    ASSUME NEW c \in Csr, NEW p \in Port, NEW q \in Port, Signals(p, q),
           RX_IRQ \in c.mip <=> p.rx_irq, TX_IRQ \in c.mip <=> p.tx_irq
    PROVE  LET d == Deliver(c, q)
           IN  /\ d \in Csr
               /\ d.mstatus = c.mstatus /\ d.sstatus = c.sstatus
               /\ RX_IRQ \in d.mip <=> q.rx_irq
               /\ TX_IRQ \in d.mip <=> q.tx_irq
               /\ MTIMER_IRQ \in d.mip <=> MTIMER_IRQ \in c.mip
               /\ MSWI_IRQ \in d.mip <=> MSWI_IRQ \in c.mip
<1> DEFINE e == IF RX_IRQ \in q.signalled THEN set_interrupt_signal(c, RX_IRQ, q.rx_irq) ELSE c
           d == IF TX_IRQ \in q.signalled THEN set_interrupt_signal(e, TX_IRQ, q.tx_irq) ELSE e
<1>1. q.rx_irq \in BOOLEAN /\ q.tx_irq \in BOOLEAN
  BY DEF Port
<1>2. RX_IRQ \in 0 .. 31 /\ TX_IRQ \in 0 .. 31 /\ RX_IRQ # TX_IRQ
  BY DEF RX_IRQ, TX_IRQ
<1>3. Moved(c, e, RX_IRQ, q.rx_irq)
  <2>1. CASE RX_IRQ \in q.signalled
    BY <1>1, <1>2, <2>1, SignalLine
  <2>2. CASE RX_IRQ \notin q.signalled
    BY <2>2 DEF Moved, Signals
  <2> QED
    BY <2>1, <2>2
<1> HIDE DEF e
<1>4. Moved(e, d, TX_IRQ, q.tx_irq)
  <2>1. CASE TX_IRQ \in q.signalled
    <3>1. e \in Csr
      BY <1>3 DEF Moved
    <3> QED
      BY <1>1, <1>2, <2>1, <3>1, SignalLine
  <2>2. CASE TX_IRQ \notin q.signalled
    BY <1>2, <1>3, <2>2 DEF Moved, Signals
  <2> QED
    BY <2>1, <2>2
<1>5. Deliver(c, q) = d
  BY DEF Deliver, e
<1> HIDE DEF d
<1> QED
  BY <1>2, <1>3, <1>4, <1>5 DEF RX_IRQ, TX_IRQ, MTIMER_IRQ, MSWI_IRQ, Moved

(***************************************************************************)
(* The operators of the serial port                                        *)
(***************************************************************************)
\* What holds of the port between two operations.
PortOK(p) ==
    /\ p \in Port
    /\ p.rx_irq => p.rx_ie /\ p.rx_ready
    /\ p.rx_ie /\ (p.rx_ready \/ p.queue > 0) => p.rx_irq \/ p.notify

\* update_rx_irq makes the line what status and enable say.
LEMMA UpdateRx ==
    ASSUME NEW p \in Port
    PROVE  LET q == update_rx_irq(p)
           IN  /\ q \in Port
               /\ Signals(p, q)
               /\ q.rx_irq <=> p.rx_ie /\ p.rx_ready
               /\ q.rx_ie = p.rx_ie /\ q.rx_ready = p.rx_ready /\ q.queue = p.queue
               /\ q.notify = p.notify
  BY DEF update_rx_irq, Port, Signals, RX_IRQ, TX_IRQ

\* A poll leaves the receiver ready or the queue empty.
LEMMA PoolRx ==
    ASSUME NEW p \in Port
    PROVE  LET q == pool_rx_byte(p)
           IN  /\ q \in Port
               /\ Signals(p, q)
               /\ q.rx_ready \/ q.queue = 0
               /\ q.rx_ie = p.rx_ie /\ q.notify = p.notify
               /\ q.rx_ready => p.rx_ready \/ p.queue > 0
<1> DEFINE taken == [p EXCEPT !.rx_ready = TRUE, !.queue = @ - 1]
<1>1. CASE p.rx_ready \/ p.queue = 0
  BY <1>1 DEF pool_rx_byte, Port, Signals
<1>2. CASE ~(p.rx_ready \/ p.queue = 0)
  <2>0. p.queue - 1 \in Nat
    BY <1>2 DEF Port
  <2>1. /\ taken \in Port /\ taken.rx_ready /\ taken.rx_ie = p.rx_ie /\ taken.notify = p.notify
        /\ taken.signalled = p.signalled /\ taken.rx_irq = p.rx_irq /\ taken.tx_irq = p.tx_irq
    BY <2>0 DEF Port
  <2>2. pool_rx_byte(p) = IF p.terminal THEN update_rx_irq(taken) ELSE taken
    BY <1>2 DEF pool_rx_byte
  <2> HIDE DEF taken
  <2>3. CASE p.terminal
    BY <1>2, <2>1, <2>2, <2>3, UpdateRx DEF Port, Signals
  <2>4. CASE ~p.terminal
    BY <1>2, <2>1, <2>2, <2>4 DEF Port, Signals
  <2> QED
    BY <2>3, <2>4
<1> QED
  BY <1>1, <1>2

\* A poll does not lower the line, and raises it only for a character.
LEMMA PoolRxLine ==
    ASSUME NEW p \in Port, p.rx_irq => p.rx_ie /\ p.rx_ready
    PROVE  LET q == pool_rx_byte(p)
           IN  /\ q.rx_irq => q.rx_ie /\ q.rx_ready
               /\ p.rx_irq => q.rx_irq
<1> DEFINE taken == [p EXCEPT !.rx_ready = TRUE, !.queue = @ - 1]
<1>1. CASE p.rx_ready \/ p.queue = 0
  BY <1>1 DEF pool_rx_byte
<1>2. CASE ~(p.rx_ready \/ p.queue = 0)
  <2>1. p.queue - 1 \in Nat /\ ~p.rx_irq
    BY <1>2 DEF Port
  <2>2. taken \in Port /\ taken.rx_ready /\ ~taken.rx_irq
    BY <2>1 DEF Port
  <2>3. pool_rx_byte(p) = IF p.terminal THEN update_rx_irq(taken) ELSE taken
    BY <1>2 DEF pool_rx_byte
  <2> HIDE DEF taken
  <2> QED
    BY <2>1, <2>2, <2>3, UpdateRx
<1> QED
  BY <1>1, <1>2

\* After rx_queue_check an enabled receiver has announced what the host holds.
LEMMA QueueCheck ==
    ASSUME NEW p \in Port
    PROVE  /\ PortOK(rx_queue_check(p))
           /\ Signals(p, rx_queue_check(p))
<1> USE DEF PortOK
<1>1. CASE p.rx_ie
  <2> DEFINE q == pool_rx_byte(p)
  <2>1. q \in Port /\ Signals(p, q) /\ (q.rx_ready \/ q.queue = 0) /\ q.rx_ie = p.rx_ie
    BY <1>1, PoolRx
  <2> QED
    BY <1>1, <2>1, UpdateRx DEF rx_queue_check, Signals, Port
<1>2. CASE ~p.rx_ie
  BY <1>2, UpdateRx DEF rx_queue_check
<1> QED
  BY <1>1, <1>2

\* Every operation of the port, the host's included, keeps it in order and
\* signals the lines it changes.
LEMMA PortOperations ==
    ASSUME NEW p, PortOK(p), NEW q,
           \/ q = read_rx_st(p) \/ q = read_rx_data(p) \/ q = write_tx_data(p)
           \/ \E ie \in BOOLEAN : q = write_rx_st(p, ie) \/ q = write_tx_st(p, ie)
           \/ q = host_byte(p) \/ q = ready_read(p)
    PROVE  PortOK(q) /\ Signals(p, q)
<1>1. p \in Port
  BY DEF PortOK
<1>2. CASE q = read_rx_st(p)
  <2> DEFINE r == pool_rx_byte(p)
  <2>1. /\ r \in Port /\ Signals(p, r) /\ r.rx_ie = p.rx_ie /\ r.notify = p.notify
        /\ r.rx_ready \/ r.queue = 0
        /\ r.rx_ready => p.rx_ready \/ p.queue > 0
        /\ r.rx_irq => r.rx_ie /\ r.rx_ready
        /\ p.rx_irq => r.rx_irq
    <3>1. p.rx_irq => p.rx_ie /\ p.rx_ready
      BY DEF PortOK
    <3> QED
      BY <1>1, <3>1, PoolRx, PoolRxLine
  <2>2. q = r
    BY <1>2 DEF read_rx_st
  <2> HIDE DEF r
  <2> QED
    BY <2>1, <2>2 DEF PortOK, Port
<1>3. CASE q = read_rx_data(p)
  <2> DEFINE r == pool_rx_byte(p)
             emptied == [r EXCEPT !.rx_ready = FALSE]
             s == IF r.rx_ready THEN update_rx_irq(emptied) ELSE r
  <2>1. r \in Port /\ Signals(p, r)
    BY <1>1, PoolRx
  <2> HIDE DEF r
  <2>2. emptied \in Port /\ Signals(r, emptied)
    BY <2>1 DEF Port, Signals
  <2> HIDE DEF emptied
  <2>3. s \in Port /\ Signals(r, s)
    BY <2>1, <2>2, UpdateRx DEF Signals
  <2>4. q = rx_queue_check(s)
    BY <1>3 DEF read_rx_data, r, emptied
  <2> HIDE DEF s
  <2>5. PortOK(q) /\ Signals(s, q)
    BY <2>3, <2>4, QueueCheck
  <2> QED
    BY <2>1, <2>3, <2>5 DEF Signals
<1>4. CASE q = write_tx_data(p)
  BY <1>1, <1>4 DEF write_tx_data, update_tx_irq, PortOK, Port, Signals, RX_IRQ, TX_IRQ
<1>5. ASSUME NEW ie \in BOOLEAN, q = write_rx_st(p, ie)
      PROVE  PortOK(q) /\ Signals(p, q)
  <2> DEFINE w == [p EXCEPT !.rx_ie = ie]
             c == rx_queue_check(w)
  <2>1. w \in Port /\ Signals(p, w)
    BY <1>1 DEF Port, Signals
  <2>2. q = update_rx_irq(c)
    BY <1>5 DEF write_rx_st
  <2> HIDE DEF w
  <2>3. PortOK(c) /\ Signals(w, c)
    BY <2>1, QueueCheck
  <2> HIDE DEF c
  <2> QED
    BY <2>1, <2>2, <2>3, UpdateRx DEF PortOK, Signals
<1>6. ASSUME NEW ie \in BOOLEAN, q = write_tx_st(p, ie)
      PROVE  PortOK(q) /\ Signals(p, q)
  BY <1>1, <1>6 DEF write_tx_st, update_tx_irq, PortOK, Port, Signals, RX_IRQ, TX_IRQ
<1>7. CASE q = host_byte(p)
  <2> DEFINE w == [p EXCEPT !.queue = @ + 1]
  <2>1. w \in Port /\ Signals(p, w)
    BY <1>1 DEF Port, Signals
  <2>2. CASE p.terminal
    <3>1. q = rx_queue_check(w)
      BY <1>7, <2>2 DEF host_byte
    <3> HIDE DEF w
    <3> QED
      BY <2>1, <3>1, QueueCheck DEF Signals
  <2>3. CASE ~p.terminal
    <3>1. q = [w EXCEPT !.notify = TRUE]
      BY <1>1, <1>7, <2>3 DEF host_byte, Port
    <3>2. w.rx_irq = p.rx_irq /\ w.rx_ie = p.rx_ie /\ w.rx_ready = p.rx_ready
      BY <1>1 DEF Port
    <3> HIDE DEF w
    <3> QED
      BY <2>1, <3>1, <3>2 DEF PortOK, Port, Signals
  <2> QED
    BY <2>2, <2>3
<1>8. CASE q = ready_read(p)
  <2> DEFINE w == [p EXCEPT !.notify = FALSE]
  <2>1. w \in Port /\ Signals(p, w)
    BY <1>1 DEF Port, Signals
  <2>2. q = rx_queue_check(w)
    BY <1>8 DEF ready_read
  <2> HIDE DEF w
  <2> QED
    BY <2>1, <2>2, QueueCheck DEF Signals
<1> QED
  BY <1>2, <1>3, <1>4, <1>5, <1>6, <1>7, <1>8

(***************************************************************************)
(* The operators of the timer                                              *)
(***************************************************************************)
\* What holds of the timer when the host's clock is at `now`.
TimerOK(t, now) ==
    /\ t \in Timer
    /\ t.fetched <= now * TicksPerMs
    /\ t.active => t.cmp < t.fetched + t.offset

\* refresh makes the line what the comparison with the last look at the clock
\* says.
LEMMA Refresh ==
    ASSUME NEW t \in Timer, NEW now \in Nat, t.fetched <= now * TicksPerMs
    PROVE  TimerOK(refresh(t, now), now)
<1> DEFINE u == update_mtimer_irq(t)
<1>1. TicksPerMs \in Nat /\ TicksPerMs > 0
  BY TicksAssumption
<1>2. /\ u \in Timer
      /\ u.fetched = t.fetched /\ u.offset = t.offset /\ u.cmp = t.cmp
      /\ u.active <=> Reached(t)
  <2>1. CASE Reached(t)
    <3> DEFINE e == Unarmed
    <3>1. e \in Int
      BY DEF Unarmed
    <3>2. u = [t EXCEPT !.active = TRUE, !.expires = e]
      BY <2>1 DEF update_mtimer_irq
    <3> HIDE DEF e, u
    <3> QED
      BY <2>1, <3>1, <3>2 DEF Timer
  <2>2. CASE ~Reached(t)
    BY <2>2 DEF update_mtimer_irq, Timer
  <2> QED
    BY <2>1, <2>2
<1>3. CASE Reached(t)
  <2>1. refresh(t, now) = u
    BY <1>3 DEF refresh
  <2> HIDE DEF u
  <2> QED
    BY <1>2, <1>3, <2>1 DEF TimerOK, Reached, mtime
<1>4. CASE ~Reached(t)
  <2> DEFINE ms == (u.cmp - mtime(u)) \div TicksPerMs
  <2>1. refresh(t, now) = [u EXCEPT !.expires = startTimer(now, ms)]
    BY <1>4 DEF refresh, arm_mtimer_event
  <2> HIDE DEF u
  <2>2. startTimer(now, ms) \in Int
    <3>1. ms \in Int
      BY <1>1, <1>2 DEF mtime, Timer
    <3> HIDE DEF ms
    <3>2. ms % IntervalLimit \in Int
      BY <3>1, TicksAssumption
    <3> QED
      BY <3>2 DEF startTimer, Unarmed
  <2> HIDE DEF ms
  <2> QED
    BY <1>2, <1>4, <2>1, <2>2 DEF TimerOK, Timer
<1> QED
  BY <1>3, <1>4

\* So do all operations of the timer; reading mtime only looks at the clock.
LEMMA TimerOperations ==
    ASSUME NEW t, NEW now \in Nat, TimerOK(t, now), NEW u,
           \/ \E value \in Nat : u = write_mtime(t, now, value) \/ u = write_mtimecmp(t, now, value)
           \/ u = mtime_fetch_current(t, now) \/ u = timerEvent(t, now)
    PROVE  TimerOK(u, now)
<1>1. t \in Timer /\ t.fetched <= now * TicksPerMs
  BY DEF TimerOK
<1>2. now * TicksPerMs \in Nat
  BY TicksAssumption
<1> DEFINE ticks == now * TicksPerMs
           f == mtime_fetch_current(t, now)
<1>3. f \in Timer /\ f.fetched = ticks /\ f = [t EXCEPT !.fetched = ticks]
  BY <1>1, <1>2 DEF mtime_fetch_current, Timer
<1>4. ASSUME NEW value \in Nat, u = write_mtime(t, now, value)
      PROVE  TimerOK(u, now)
  <2> DEFINE g == [f EXCEPT !.offset = value - f.fetched]
  <2>1. u = refresh(g, now)
    BY <1>4 DEF write_mtime
  <2> HIDE DEF f, ticks
  <2>2. value - f.fetched \in Int
    BY <1>3 DEF Timer
  <2>3. g \in Timer /\ g.fetched = ticks
    BY <1>3, <2>2 DEF Timer
  <2> HIDE DEF g
  <2> QED
    BY <1>2, <2>1, <2>3, Refresh DEF ticks
<1>5. ASSUME NEW value \in Nat, u = write_mtimecmp(t, now, value)
      PROVE  TimerOK(u, now)
  <2> DEFINE g == [t EXCEPT !.cmp = value]
  <2>1. g \in Timer /\ g.fetched = t.fetched
    BY <1>1 DEF Timer
  <2>2. u = refresh(g, now)
    BY <1>5 DEF write_mtimecmp
  <2> HIDE DEF g
  <2> QED
    BY <1>1, <2>1, <2>2, Refresh
<1>6. CASE u = f
  <2> HIDE DEF f, ticks
  <2> QED
    BY <1>1, <1>2, <1>3, <1>6 DEF TimerOK, Timer, ticks
<1>7. CASE u = timerEvent(t, now)
  <2> DEFINE v == [t EXCEPT !.expires = Unarmed]
             g == [v EXCEPT !.fetched = ticks]
  <2>1. v \in Timer
    BY <1>1 DEF Timer, Unarmed
  <2>2. u = refresh(g, now)
    BY <1>7 DEF timerEvent, mtime_fetch_current
  <2> HIDE DEF v, ticks
  <2>3. g \in Timer /\ g.fetched = ticks
    BY <1>2, <2>1 DEF Timer, ticks
  <2> HIDE DEF g
  <2> QED
    BY <1>2, <2>2, <2>3, Refresh DEF ticks
<1> QED
  BY <1>4, <1>5, <1>6, <1>7

(***************************************************************************)
(* Entry to a handler and return from it                                   *)
(***************************************************************************)
\* Recording a cause touches the cause registers only.
LEMMA CauseRecorded ==
    ASSUME NEW c \in Csr, NEW e \in Exceptions \cup {"INT_M", "INT_S"}, NEW to \in PrivilegeLevels
    PROVE  LET d == update_exception_cause(c, e, to)
           IN  /\ d \in Csr
               /\ d.mstatus = c.mstatus /\ d.sstatus = c.sstatus /\ d.mip = c.mip
<1> DEFINE value == IF e \notin {"INT_M", "INT_S"} THEN <<e>>
                    ELSE IF to = "SUPERVISOR" THEN <<"INT", LowestIrq(c.sie \cap c.sip)>>
                    ELSE <<"INT", LowestIrq(c.mie \cap c.mip)>>
<1>1. c.sie \cap c.sip \in Bits /\ c.mie \cap c.mip \in Bits
  BY DEF Csr, Bits
<1>2. LowestIrq(c.sie \cap c.sip) \in 0 .. 31 /\ LowestIrq(c.mie \cap c.mip) \in 0 .. 31
  BY <1>1, LowestIrqType
<1>3. value \in Causes
  <2>1. CASE e \notin {"INT_M", "INT_S"}
    BY <2>1 DEF Causes
  <2>2. CASE e \in {"INT_M", "INT_S"}
    BY <1>2, <2>2 DEF Causes
  <2> QED
    BY <2>1, <2>2
<1>4. update_exception_cause(c, e, to) = IF to = "MACHINE" THEN [c EXCEPT !.mcause = value]
                                         ELSE [c EXCEPT !.scause = value]
  BY DEF update_exception_cause
<1> HIDE DEF value
<1> QED
  BY <1>3, <1>4 DEF Csr

\* What the status registers of a trap's target save.
Entered(c, d, from, target) ==
    /\ d \in Csr
    /\ d.mip = c.mip
    /\ d.sstatus = SView(d.mstatus)
    /\ target = "MACHINE" =>
        /\ d.mstatus.mpp = from /\ d.mstatus.mpie = c.mstatus.mie
        /\ d.mstatus.spp = c.mstatus.spp /\ d.mstatus.spie = c.mstatus.spie
    /\ target = "SUPERVISOR" =>
        /\ from # "MACHINE" => d.mstatus.spp = from
        /\ d.mstatus.spie = c.mstatus.sie
        /\ d.mstatus.mpp = c.mstatus.mpp /\ d.mstatus.mpie = c.mstatus.mpie

\* exception_initiate saves privilege and enable in the fields of the target and
\* leaves the fields of the other level.
LEMMA Initiate ==
    ASSUME NEW c \in Csr, c.sstatus = SView(c.mstatus), NEW from \in PrivilegeLevels,
           NEW target \in Levels
    PROVE  Entered(c, exception_initiate(c, from, target), from, target)
<1>1. CASE target = "MACHINE"
  <2> DEFINE v == [c.mstatus EXCEPT !.mpie = c.mstatus.mie, !.mie = FALSE, !.mpp = from]
  <2>1. /\ v \in Mstatus /\ v.mpp = from /\ v.mpie = c.mstatus.mie
        /\ v.spp = c.mstatus.spp /\ v.spie = c.mstatus.spie
    BY DEF Csr, Mstatus
  <2>2. exception_initiate(c, from, target) = [c EXCEPT !.mstatus = v, !.sstatus = SView(v)]
    BY <1>1 DEF exception_initiate, write_mstatus
  <2> HIDE DEF v
  <2>3. SView(v) \in Sstatus
    BY <2>1 DEF SView, Sstatus, Mstatus
  <2> QED
    BY <1>1, <2>1, <2>2, <2>3 DEF Entered, Csr
<1>2. CASE target = "SUPERVISOR"
  <2> DEFINE up == IF from = "SUPERVISOR" THEN from ELSE "UNPRIVILEGED"
             w == [c.sstatus EXCEPT !.spie = c.sstatus.sie, !.sie = FALSE, !.spp = up]
             v == [c.mstatus EXCEPT !.sie = w.sie, !.spie = w.spie, !.spp = w.spp]
  <2>1. /\ w \in Sstatus /\ w.spie = c.mstatus.sie
        /\ from # "MACHINE" => w.spp = from
    <3>1. up \in {"UNPRIVILEGED", "SUPERVISOR"} /\ (from # "MACHINE" => up = from)
      BY DEF PrivilegeLevels
    <3>2. c.sstatus \in Sstatus /\ c.sstatus.sie = c.mstatus.sie
      BY DEF Csr, SView
    <3> HIDE DEF up
    <3> QED
      BY <3>1, <3>2 DEF Sstatus
  <2>2. exception_initiate(c, from, target) = [c EXCEPT !.mstatus = v, !.sstatus = SView(v)]
    BY <1>2 DEF exception_initiate, write_sstatus
  <2> HIDE DEF w
  <2>3. /\ v \in Mstatus /\ v.spp = w.spp /\ v.spie = w.spie
        /\ v.mpp = c.mstatus.mpp /\ v.mpie = c.mstatus.mpie
    BY <2>1 DEF Csr, Mstatus, Sstatus
  <2> HIDE DEF v
  <2>4. SView(v) \in Sstatus
    BY <2>3 DEF SView, Sstatus, Mstatus
  <2> QED
    BY <1>2, <2>1, <2>2, <2>3, <2>4 DEF Entered, Csr
<1> QED
  BY <1>1, <1>2 DEF Levels

\* A trap either only records its cause, or enters the handler of its target.
LEMMA HandleException ==
    ASSUME NEW c \in Csr, c.sstatus = SView(c.mstatus), NEW from \in PrivilegeLevels,
           NEW e \in Exceptions \cup {"INT_M", "INT_S"}
    PROVE  LET to_s   == deliver_to_s(c, from, e)
               target == IF to_s THEN "SUPERVISOR" ELSE "MACHINE"
               vector == IF to_s THEN c.stvec ELSE c.mtvec
               res    == handle_exception(c, from, e)
           IN  /\ vector => Entered(c, res.csr, from, target) /\ res.priv = target
               /\ ~vector => /\ res.csr \in Csr /\ res.priv = from
                             /\ res.csr.mstatus = c.mstatus /\ res.csr.sstatus = c.sstatus
                             /\ res.csr.mip = c.mip
<1> DEFINE to_s   == deliver_to_s(c, from, e)
           target == IF to_s THEN "SUPERVISOR" ELSE "MACHINE"
           vector == IF to_s THEN c.stvec ELSE c.mtvec
           rec == IF to_s THEN "SUPERVISOR" ELSE from
           d == update_exception_cause(c, e, rec)
<1>1. rec \in PrivilegeLevels
  BY DEF PrivilegeLevels
<1> HIDE DEF rec
<1>2. d \in Csr /\ d.mstatus = c.mstatus /\ d.sstatus = c.sstatus /\ d.mip = c.mip
  BY <1>1, CauseRecorded
<1>3. handle_exception(c, from, e) =
        IF vector THEN [csr |-> exception_initiate(d, from, target), priv |-> target]
        ELSE [csr |-> d, priv |-> from]
  BY DEF handle_exception, rec
<1>4. target \in Levels
  BY DEF Levels
<1> HIDE DEF d
<1>5. Entered(d, exception_initiate(d, from, target), from, target)
  BY <1>2, <1>4, Initiate
<1>6. Entered(c, exception_initiate(d, from, target), from, target)
  BY <1>2, <1>5 DEF Entered
<1> QED
  BY <1>2, <1>3, <1>6

(***************************************************************************)
(* The invariant is inductive: one lemma per kind of step                  *)
(***************************************************************************)
\* After boot the invariant holds.
LEMMA InitInv == Init => IInv
<1> SUFFICES ASSUME Init PROVE IInv
  OBVIOUS
<1>1. setup \in Setups /\ csr = reset(setup)
  BY DEF Init
<1>2. /\ setup.mie \in Bits /\ setup.sie \in Bits /\ setup.mideleg \in Bits
      /\ setup.medeleg \in SUBSET Exceptions /\ setup.mtvec \in BOOLEAN /\ setup.stvec \in BOOLEAN
  BY <1>1, PlatformAssumption DEF Bits
<1>3. csr \in Csr /\ csr.sstatus = SView(csr.mstatus) /\ csr.mip = {}
  BY <1>1, <1>2 DEF reset, Csr, Mstatus, Sstatus, SView, PrivilegeLevels, Bits, Causes, MieMask, SieMask
<1>4. PICK terminal \in BOOLEAN : port = PortInit(terminal)
  BY DEF Init
<1>5. port \in Port /\ ~port.rx_irq /\ ~port.tx_irq /\ ~port.rx_ie /\ port.signalled = {}
  BY <1>4 DEF PortInit, Port
<1>6. timer \in Timer /\ ~timer.active /\ timer.fetched = 0
  BY DEF Init, TimerInit, Timer, Unarmed
<1>7. clock = 0 /\ 0 <= 0 * TicksPerMs
  BY TicksAssumption DEF Init
<1>8. before \in [Levels -> Saved] /\ before["MACHINE"] = None /\ before["SUPERVISOR"] = None
  BY DEF Init, Levels, Saved, None
<1>9. TypeOK
  BY <1>1, <1>3, <1>5, <1>6, <1>8 DEF Init, TypeOK, PrivilegeLevels
<1> QED
  BY <1>3, <1>5, <1>6, <1>7, <1>8, <1>9 DEF Init, IInv, RxLine, Quiet, LinesFollowDevices,
     NoByteUnannounced, TimerPast, StatusView, TrapSaved

\* The invariant only speaks of mstatus, sstatus and the device lines of csr: a
\* step of the program that keeps the devices keeps it.
LEMMA CsrStep ==
    ASSUME IInv, UNCHANGED <<setup, port, timer, mswi, clock, timer_writes, bytes>>,
           csr' \in Csr, csr'.sstatus = SView(csr'.mstatus),
           \A i \in {RX_IRQ, TX_IRQ, MTIMER_IRQ, MSWI_IRQ} : i \in csr'.mip <=> i \in csr.mip,
           priv' \in PrivilegeLevels, before' \in [Levels -> Saved], TrapSaved'
    PROVE  IInv'
<1>1. TypeOK'
  BY DEF IInv, TypeOK
<1>2. RxLine' /\ Quiet' /\ NoByteUnannounced' /\ TimerPast'
  BY DEF IInv, RxLine, Quiet, NoByteUnannounced, TimerPast
<1>3. LinesFollowDevices'
  BY DEF IInv, LinesFollowDevices
<1>4. StatusView'
  BY DEF StatusView
<1> QED
  BY <1>1, <1>2, <1>3, <1>4 DEF IInv

\* Traps: the fields of the target are saved, those of the other level kept.
LEMMA TakeInv ==
    ASSUME IInv, NEW e \in Exceptions \cup {"INT_M", "INT_S"}, e = "INT_S" => priv # "MACHINE", Take(e)
    PROVE  IInv' /\ Rank(priv') >= Rank(priv) /\ (\A l \in Levels : before'[l] = None => before[l] = None)
<1> DEFINE to_s   == deliver_to_s(csr, priv, e)
           target == IF to_s THEN "SUPERVISOR" ELSE "MACHINE"
           vector == IF to_s THEN csr.stvec ELSE csr.mtvec
           res    == handle_exception(csr, priv, e)
<1>1. /\ csr \in Csr /\ csr.sstatus = SView(csr.mstatus) /\ priv \in PrivilegeLevels
      /\ before \in [Levels -> Saved] /\ TrapSaved
  BY DEF IInv, TypeOK, StatusView
<1>2. /\ vector => Entered(csr, csr', priv, target) /\ priv' = target
      /\ ~vector => /\ csr' \in Csr /\ priv' = priv
                    /\ csr'.mstatus = csr.mstatus /\ csr'.sstatus = csr.sstatus
                    /\ csr'.mip = csr.mip
  <2>1. csr' = res.csr /\ priv' = res.priv
    BY DEF Take
  <2> QED
    BY <1>1, <2>1, HandleException
<1>3. to_s => priv \in {"UNPRIVILEGED", "SUPERVISOR"}
  BY <1>1, PlatformAssumption DEF deliver_to_s, PrivilegeLevels
<1>4. before' = IF ~vector THEN before
                ELSE IF to_s THEN [before EXCEPT !["SUPERVISOR"] = [priv |-> priv, ie |-> csr.mstatus.sie]]
                ELSE [before EXCEPT !["MACHINE"] = [priv |-> priv, ie |-> csr.mstatus.mie]]
  BY DEF Take
<1>5. UNCHANGED <<setup, port, timer, mswi, clock, timer_writes, bytes>>
  BY DEF Take
<1>6. csr.mstatus.sie \in BOOLEAN /\ csr.mstatus.mie \in BOOLEAN
  BY <1>1 DEF Csr, Mstatus
<1>7. Rank(priv') >= Rank(priv)
  BY <1>1, <1>2, <1>3 DEF Rank, PrivilegeLevels
<1> HIDE DEF to_s, res
<1>8. CASE ~vector
  <2>1. before' = before
    BY <1>4, <1>8
  <2>2. TrapSaved'
    BY <1>1, <1>2, <1>8, <2>1 DEF TrapSaved
  <2> QED
    BY <1>1, <1>2, <1>5, <1>7, <1>8, <2>1, <2>2, CsrStep
<1>9. CASE vector
  <2> DEFINE saved == [priv |-> priv, ie |-> IF to_s THEN csr.mstatus.sie ELSE csr.mstatus.mie]
  <2>1. before' = [before EXCEPT ![target] = saved]
    BY <1>4, <1>9
  <2>2. saved \in Saved /\ saved # None
    BY <1>1, <1>6 DEF Saved, None, PrivilegeLevels
  <2>3. Entered(csr, csr', priv, target) /\ priv' = target /\ target \in Levels
    BY <1>2, <1>9 DEF Levels
  <2>4. TrapSaved'
    <3>1. CASE to_s
      BY <1>1, <1>3, <2>1, <2>3, <3>1 DEF TrapSaved, Entered, Levels
    <3>2. CASE ~to_s
      BY <1>1, <2>1, <2>3, <3>2 DEF TrapSaved, Entered, Levels
    <3> QED
      BY <3>1, <3>2
  <2> HIDE DEF vector, target, saved
  <2>5. before' \in [Levels -> Saved] /\ (\A l \in Levels : before'[l] = None => before[l] = None)
    BY <1>1, <2>1, <2>2, <2>3
  <2>6. csr' \in Csr /\ csr'.sstatus = SView(csr'.mstatus) /\ csr'.mip = csr.mip
    BY <2>3 DEF Entered
  <2>7. priv' \in PrivilegeLevels
    BY <2>3 DEF Levels, PrivilegeLevels
  <2> QED
    BY <1>5, <1>7, <2>4, <2>5, <2>6, <2>7, CsrStep
<1> QED
  BY <1>8, <1>9

\* Writing mstatus keeps sstatus its view.
LEMMA WriteMstatus ==
    ASSUME NEW c \in Csr, NEW v \in Mstatus
    PROVE  LET d == write_mstatus(c, v)
           IN  d \in Csr /\ d.mstatus = v /\ d.sstatus = SView(v) /\ d.mip = c.mip
<1>1. SView(v) \in Sstatus
  BY DEF SView, Sstatus, Mstatus
<1> QED
  BY <1>1 DEF write_mstatus, Csr

\* Returns: privilege and enable are what the fields of the level hold.
LEMMA ReturnInv ==
    ASSUME IInv, NEW level \in Levels, Return(level)
    PROVE  /\ IInv'
           /\ csr' = exception_return(csr, level).csr
           /\ \A l \in Levels : before[l] # None /\ before'[l] = None =>
                /\ priv' = before[l].priv
                /\ (IF l = "MACHINE" THEN csr'.mstatus.mie ELSE csr'.mstatus.sie) = before[l].ie
<1>1. /\ csr \in Csr /\ csr.mstatus \in Mstatus /\ priv \in PrivilegeLevels
      /\ before \in [Levels -> Saved] /\ TrapSaved
  BY DEF IInv, TypeOK, Csr
<1>2. UNCHANGED <<setup, port, timer, mswi, clock, timer_writes, bytes>>
  BY DEF Return
<1>3. None \in Saved
  BY DEF None, Saved
<1>4. before' = [before EXCEPT ![level] = None]
  BY DEF Return
<1>5. before' \in [Levels -> Saved] /\ before'[level] = None
      /\ (\A l \in Levels \ {level} : before'[l] = before[l])
  BY <1>1, <1>3, <1>4
<1>6. csr' = exception_return(csr, level).csr
  BY DEF Return
<1>7. CASE level = "MACHINE"
  <2> DEFINE v == [csr.mstatus EXCEPT !.mie = csr.mstatus.mpie, !.mpie = TRUE, !.mpp = "UNPRIVILEGED"]
  <2>1. csr' = write_mstatus(csr, v) /\ priv' = csr.mstatus.mpp
    BY <1>7 DEF Return, exception_return
  <2>2. /\ v \in Mstatus /\ v.mie = csr.mstatus.mpie
        /\ v.spp = csr.mstatus.spp /\ v.spie = csr.mstatus.spie
    BY <1>1 DEF Mstatus, PrivilegeLevels
  <2> HIDE DEF v
  <2>3. csr' \in Csr /\ csr'.mstatus = v /\ csr'.sstatus = SView(v) /\ csr'.mip = csr.mip
    BY <1>1, <2>1, <2>2, WriteMstatus
  <2>4. priv' \in PrivilegeLevels
    BY <1>1, <2>1 DEF Mstatus
  <2>5. TrapSaved'
    BY <1>1, <1>5, <1>7, <2>2, <2>3 DEF TrapSaved, Levels
  <2>6. IInv'
    BY <1>2, <1>5, <2>3, <2>4, <2>5, CsrStep
  <2> QED
    BY <1>1, <1>5, <1>6, <1>7, <2>1, <2>2, <2>3, <2>6 DEF TrapSaved
<1>8. CASE level = "SUPERVISOR"
  <2> DEFINE v == [csr.mstatus EXCEPT !.sie = csr.mstatus.spie, !.spie = TRUE, !.spp = "UNPRIVILEGED"]
  <2>1. csr' = write_mstatus(csr, v) /\ priv' = csr.mstatus.spp
    BY <1>8 DEF Return, exception_return
  <2>2. /\ v \in Mstatus /\ v.sie = csr.mstatus.spie
        /\ v.mpp = csr.mstatus.mpp /\ v.mpie = csr.mstatus.mpie
    BY <1>1 DEF Mstatus
  <2> HIDE DEF v
  <2>3. csr' \in Csr /\ csr'.mstatus = v /\ csr'.sstatus = SView(v) /\ csr'.mip = csr.mip
    BY <1>1, <2>1, <2>2, WriteMstatus
  <2>4. priv' \in PrivilegeLevels
    BY <1>1, <2>1 DEF Mstatus, PrivilegeLevels
  <2>5. TrapSaved'
    BY <1>1, <1>5, <1>8, <2>2, <2>3 DEF TrapSaved, Levels
  <2>6. IInv'
    BY <1>2, <1>5, <2>3, <2>4, <2>5, CsrStep
  <2> QED
    BY <1>1, <1>5, <1>6, <1>8, <2>1, <2>2, <2>3, <2>6 DEF TrapSaved
<1> QED
  BY <1>7, <1>8 DEF Levels

\* The interrupt enables may be written: no saved field changes.
LEMMA WriteEnableInv ==
    ASSUME IInv, NEW reg \in {"mstatus", "sstatus"}, NEW value \in BOOLEAN, WriteEnable(reg, value)
    PROVE  IInv'
<1>1. /\ csr \in Csr /\ csr.mstatus \in Mstatus /\ csr.sstatus = SView(csr.mstatus)
      /\ priv \in PrivilegeLevels /\ before \in [Levels -> Saved] /\ TrapSaved
  BY DEF IInv, TypeOK, Csr, StatusView
<1>2. UNCHANGED <<setup, priv, port, timer, mswi, clock, timer_writes, bytes, before>>
  BY DEF WriteEnable
<1>3. PICK v \in Mstatus : /\ csr' = write_mstatus(csr, v)
                           /\ v.mpp = csr.mstatus.mpp /\ v.mpie = csr.mstatus.mpie
                           /\ v.spp = csr.mstatus.spp /\ v.spie = csr.mstatus.spie
  <2>1. CASE reg = "mstatus"
    <3> DEFINE v == [csr.mstatus EXCEPT !.mie = value]
    <3>1. csr' = write_mstatus(csr, v)
      BY <2>1 DEF WriteEnable
    <3> QED
      BY <1>1, <3>1 DEF Mstatus
  <2>2. CASE reg = "sstatus"
    <3> DEFINE w == [csr.sstatus EXCEPT !.sie = value]
               v == [csr.mstatus EXCEPT !.sie = w.sie, !.spie = w.spie, !.spp = w.spp]
    <3>1. csr' = write_mstatus(csr, v)
      BY <2>2 DEF WriteEnable, write_sstatus, write_mstatus
    <3>2. w.sie = value /\ w.spie = csr.mstatus.spie /\ w.spp = csr.mstatus.spp
      BY <1>1 DEF SView
    <3> HIDE DEF w
    <3>3. /\ v \in Mstatus
          /\ v.mpp = csr.mstatus.mpp /\ v.mpie = csr.mstatus.mpie
          /\ v.spp = csr.mstatus.spp /\ v.spie = csr.mstatus.spie
      BY <1>1, <3>2 DEF Mstatus
    <3> HIDE DEF v
    <3> QED
      BY <3>1, <3>3
  <2> QED
    BY <2>1, <2>2
<1>4. csr' \in Csr /\ csr'.mstatus = v /\ csr'.sstatus = SView(v) /\ csr'.mip = csr.mip
  BY <1>1, <1>3, WriteMstatus
<1>5. TrapSaved'
  BY <1>1, <1>2, <1>3, <1>4 DEF TrapSaved
<1> QED
  BY <1>1, <1>2, <1>4, <1>5, CsrStep

\* The pending bits a program may clear belong to no device line.
LEMMA ClearSoftwareInv ==
    ASSUME IInv, NEW reg \in {"mip", "sip"}, ClearSoftware(reg)
    PROVE  IInv'
<1>1. /\ csr \in Csr /\ csr.sstatus = SView(csr.mstatus)
      /\ priv \in PrivilegeLevels /\ before \in [Levels -> Saved] /\ TrapSaved
  BY DEF IInv, TypeOK, StatusView
<1>2. UNCHANGED <<setup, priv, port, timer, mswi, clock, timer_writes, bytes, before>>
  BY DEF ClearSoftware
<1>3. csr' = write_mip(csr, csr.mip \ {SSWI_IRQ}) \/ csr' = write_sip(csr, csr.sip \ {SSWI_IRQ})
  BY DEF ClearSoftware
<1>4. /\ csr' \in Csr /\ csr'.mstatus = csr.mstatus /\ csr'.sstatus = csr.sstatus
      /\ \A i \in {RX_IRQ, TX_IRQ, MTIMER_IRQ, MSWI_IRQ} : i \in csr'.mip <=> i \in csr.mip
  BY <1>1, <1>3 DEF write_mip, write_sip, Masked, MipMask, SipMask, SieMask, SSWI_IRQ, Csr, Bits,
     RX_IRQ, TX_IRQ, MTIMER_IRQ, MSWI_IRQ
<1>5. TrapSaved'
  BY <1>1, <1>2, <1>4 DEF TrapSaved
<1> QED
  BY <1>1, <1>2, <1>4, <1>5, CsrStep

\* The serial port: its lines reach mip before the operation is over.
LEMMA SerialInv ==
    ASSUME IInv, NEW q, SerialStep(q), bytes' \in Nat,
           \/ q = read_rx_st(port) \/ q = read_rx_data(port) \/ q = write_tx_data(port)
           \/ \E ie \in BOOLEAN : q = write_rx_st(port, ie) \/ q = write_tx_st(port, ie)
           \/ q = host_byte(port) \/ q = ready_read(port)
    PROVE  IInv'
<1>1. PortOK(port) /\ csr \in Csr
  BY DEF IInv, TypeOK, RxLine, NoByteUnannounced, PortOK
<1>2. PortOK(q) /\ Signals(port, q)
  BY <1>1, PortOperations
<1>3. port \in Port /\ q \in Port
  BY <1>1, <1>2 DEF PortOK
<1>4. port' = [q EXCEPT !.signalled = {}]
  BY DEF SerialStep
<1>5. /\ port' \in Port /\ port'.signalled = {} /\ port'.rx_irq = q.rx_irq /\ port'.tx_irq = q.tx_irq
      /\ port'.rx_ie = q.rx_ie /\ port'.rx_ready = q.rx_ready /\ port'.queue = q.queue
      /\ port'.notify = q.notify
  BY <1>3, <1>4 DEF Port
<1>6. csr' = Deliver(csr, q)
  BY DEF SerialStep
<1>7. /\ csr' \in Csr
      /\ csr'.mstatus = csr.mstatus /\ csr'.sstatus = csr.sstatus
      /\ RX_IRQ \in csr'.mip <=> q.rx_irq
      /\ TX_IRQ \in csr'.mip <=> q.tx_irq
      /\ MTIMER_IRQ \in csr'.mip <=> MTIMER_IRQ \in csr.mip
      /\ MSWI_IRQ \in csr'.mip <=> MSWI_IRQ \in csr.mip
  <2>1. RX_IRQ \in csr.mip <=> port.rx_irq
    BY DEF IInv, LinesFollowDevices
  <2>2. TX_IRQ \in csr.mip <=> port.tx_irq
    BY DEF IInv, LinesFollowDevices
  <2> QED
    BY <1>1, <1>2, <1>3, <1>6, <2>1, <2>2, DeliverLines
<1>8. UNCHANGED <<setup, priv, timer, mswi, clock, timer_writes, before>>
  BY DEF SerialStep
<1>9. TypeOK'
  BY <1>5, <1>7, <1>8 DEF IInv, TypeOK
<1>10. LinesFollowDevices'
  BY <1>5, <1>7, <1>8 DEF IInv, LinesFollowDevices
<1>11. RxLine' /\ Quiet' /\ NoByteUnannounced'
  BY <1>2, <1>5 DEF RxLine, Quiet, NoByteUnannounced, PortOK
<1>12. TimerPast' /\ StatusView' /\ TrapSaved'
  BY <1>7, <1>8 DEF IInv, TimerPast, StatusView, TrapSaved
<1> QED
  BY <1>9, <1>10, <1>11, <1>12 DEF IInv

\* The timer: its line reaches mip, and was justified by a look at the clock.
LEMMA TimerInv ==
    ASSUME IInv, NEW u, TimerStep(u), timer_writes' \in Nat,
           \/ \E value \in Nat : u = write_mtime(timer, clock, value) \/ u = write_mtimecmp(timer, clock, value)
           \/ u = mtime_fetch_current(timer, clock) \/ u = timerEvent(timer, clock)
    PROVE  IInv'
<1>1. TimerOK(timer, clock) /\ clock \in Nat /\ csr \in Csr
  BY DEF IInv, TypeOK, TimerPast, TimerOK
<1>2. TimerOK(u, clock)
  BY <1>1, TimerOperations
<1>3. timer' = u /\ csr' = Line(csr, MTIMER_IRQ, timer.active, u.active)
  BY DEF TimerStep
<1>4. timer.active \in BOOLEAN /\ u.active \in BOOLEAN /\ MTIMER_IRQ \in 0 .. 31
  BY <1>1, <1>2 DEF TimerOK, Timer, MTIMER_IRQ
<1>5. MTIMER_IRQ \in csr.mip <=> timer.active
  BY DEF IInv, LinesFollowDevices
<1>6. Moved(csr, csr', MTIMER_IRQ, u.active)
  BY <1>1, <1>3, <1>4, <1>5, LineDelivered
<1>7. UNCHANGED <<setup, priv, port, mswi, clock, bytes, before>>
  BY DEF TimerStep
<1>8. TypeOK'
  BY <1>2, <1>3, <1>6, <1>7 DEF IInv, TypeOK, Moved, TimerOK
<1>9. LinesFollowDevices'
  BY <1>3, <1>6, <1>7 DEF IInv, LinesFollowDevices, Moved, RX_IRQ, TX_IRQ, MTIMER_IRQ, MSWI_IRQ
<1>10. TimerPast'
  BY <1>2, <1>3, <1>7 DEF TimerPast, TimerOK
<1>11. RxLine' /\ Quiet' /\ NoByteUnannounced' /\ StatusView' /\ TrapSaved'
  BY <1>6, <1>7 DEF IInv, RxLine, Quiet, NoByteUnannounced, StatusView, TrapSaved, Moved
<1> QED
  BY <1>8, <1>9, <1>10, <1>11 DEF IInv

\* The software interrupts: the line of mswi is its register, the supervisor's
\* bit is no line.
LEMMA SoftwareInv ==
    ASSUME IInv, (\E value \in BOOLEAN : MswiWrite(value)) \/ SswiWrite
    PROVE  IInv'
<1>1. csr \in Csr /\ mswi \in BOOLEAN /\ TrapSaved /\ StatusView
  BY DEF IInv, TypeOK
<1>2. MSWI_IRQ \in csr.mip <=> mswi
  BY DEF IInv, LinesFollowDevices
<1>3. ASSUME NEW value \in BOOLEAN, MswiWrite(value)
      PROVE  IInv'
  <2>1. mswi' = value /\ csr' = Line(csr, MSWI_IRQ, mswi, value)
    BY <1>3 DEF MswiWrite
  <2>2. MSWI_IRQ \in 0 .. 31
    BY DEF MSWI_IRQ
  <2>3. Moved(csr, csr', MSWI_IRQ, value)
    BY <1>1, <1>2, <2>1, <2>2, LineDelivered
  <2>4. UNCHANGED <<setup, priv, port, timer, clock, timer_writes, bytes, before>>
    BY <1>3 DEF MswiWrite
  <2>5. TypeOK'
    BY <2>1, <2>3, <2>4 DEF IInv, TypeOK, Moved
  <2>6. LinesFollowDevices'
    BY <2>1, <2>3, <2>4 DEF IInv, LinesFollowDevices, Moved, RX_IRQ, TX_IRQ, MTIMER_IRQ, MSWI_IRQ
  <2>7. RxLine' /\ Quiet' /\ NoByteUnannounced' /\ TimerPast' /\ StatusView' /\ TrapSaved'
    BY <2>3, <2>4 DEF IInv, RxLine, Quiet, NoByteUnannounced, TimerPast, StatusView, TrapSaved, Moved
  <2> QED
    BY <2>5, <2>6, <2>7 DEF IInv
<1>4. ASSUME SswiWrite
      PROVE  IInv'
  <2>1. csr' = set_interrupt_signal(csr, SSWI_IRQ, TRUE)
    BY <1>4 DEF SswiWrite
  <2>2. SSWI_IRQ \in 0 .. 31
    BY DEF SSWI_IRQ
  <2>3. Moved(csr, csr', SSWI_IRQ, TRUE)
    BY <1>1, <2>1, <2>2, SignalLine
  <2>4. UNCHANGED <<setup, priv, port, timer, mswi, clock, timer_writes, bytes, before>>
    BY <1>4 DEF SswiWrite
  <2>5. /\ csr' \in Csr /\ csr'.mstatus = csr.mstatus /\ csr'.sstatus = csr.sstatus
        /\ \A i \in {RX_IRQ, TX_IRQ, MTIMER_IRQ, MSWI_IRQ} : i \in csr'.mip <=> i \in csr.mip
    BY <2>3 DEF Moved, SSWI_IRQ, RX_IRQ, TX_IRQ, MTIMER_IRQ, MSWI_IRQ
  <2>6. TrapSaved' /\ csr'.sstatus = SView(csr'.mstatus)
    BY <1>1, <2>4, <2>5 DEF TrapSaved, StatusView
  <2>7. priv' \in PrivilegeLevels /\ before' \in [Levels -> Saved]
    BY <2>4 DEF IInv, TypeOK
  <2> QED
    BY <2>4, <2>5, <2>6, <2>7, CsrStep
<1> QED
  BY <1>3, <1>4

\* The host's clock only goes forward.
LEMMA TickInv ==
    ASSUME IInv, Tick
    PROVE  IInv'
<1>1. clock \in Nat /\ clock' = clock + 1
  BY DEF IInv, TypeOK, Tick
<1>2. UNCHANGED <<setup, csr, priv, port, timer, mswi, timer_writes, bytes, before>>
  BY DEF Tick
<1>3. clock * TicksPerMs \in Nat /\ clock' * TicksPerMs = clock * TicksPerMs + TicksPerMs
  BY <1>1, TicksAssumption
<1>4. timer.fetched \in Int /\ timer.fetched <= clock * TicksPerMs
  BY DEF IInv, TypeOK, Timer, TimerPast
<1>5. timer'.fetched <= clock' * TicksPerMs
  BY <1>2, <1>3, <1>4, TicksAssumption
<1>6. TimerPast'
  BY <1>2, <1>5 DEF IInv, TimerPast
<1>7. TypeOK'
  BY <1>1, <1>2 DEF IInv, TypeOK
<1>8. RxLine' /\ Quiet' /\ LinesFollowDevices' /\ NoByteUnannounced' /\ StatusView' /\ TrapSaved'
  BY <1>2 DEF IInv, RxLine, Quiet, LinesFollowDevices, NoByteUnannounced, StatusView, TrapSaved
<1> QED
  BY <1>6, <1>7, <1>8 DEF IInv

\* What a step does to the saved fields and to the privilege, with the invariant.
StepOK ==
    /\ Rank(priv') < Rank(priv) => \E l \in Levels : csr' = exception_return(csr, l).csr
    /\ \A l \in Levels : before[l] # None /\ before'[l] = None =>
        /\ priv' = before[l].priv
        /\ (IF l = "MACHINE" THEN csr'.mstatus.mie ELSE csr'.mstatus.sie) = before[l].ie

\* Every step keeps the invariant and restores what it should.
LEMMA NextInv == IInv /\ [Next]_vars => IInv' /\ StepOK
<1> SUFFICES ASSUME IInv, [Next]_vars PROVE IInv' /\ StepOK
  OBVIOUS
<1>1. priv \in PrivilegeLevels /\ ~(Rank(priv) < Rank(priv)) /\ bytes \in Nat /\ timer_writes \in Nat
  BY DEF IInv, TypeOK, Rank, PrivilegeLevels
<1>2. ASSUME NEW e \in Exceptions \cup {"INT_M", "INT_S"}, e = "INT_S" => priv # "MACHINE", Take(e)
      PROVE  IInv' /\ StepOK
  <2>1. IInv' /\ Rank(priv') >= Rank(priv) /\ (\A l \in Levels : before'[l] = None => before[l] = None)
    BY <1>2, TakeInv
  <2>2. priv' \in PrivilegeLevels
    BY <2>1 DEF IInv, TypeOK
  <2>3. ~(Rank(priv') < Rank(priv))
    BY <1>1, <2>1, <2>2 DEF Rank, PrivilegeLevels
  <2> QED
    BY <2>1, <2>3 DEF StepOK
<1>3. CASE Interrupt
  <2> DEFINE e == core_interrupt_request(csr, priv)
  <2>1. Take(e) /\ e \in {"INT_M", "INT_S"} /\ (e = "INT_S" => priv # "MACHINE")
    BY <1>3 DEF Interrupt, core_interrupt_request
  <2> HIDE DEF e
  <2> QED
    BY <1>2, <2>1
<1>4. ASSUME NEW e \in Exceptions, Exception(e)
      PROVE  IInv' /\ StepOK
  <2>1. e # "INT_S" /\ Take(e)
    BY <1>4, PlatformAssumption DEF Exception
  <2> QED
    BY <1>2, <2>1
<1>5. ASSUME NEW level \in Levels, Return(level)
      PROVE  IInv' /\ StepOK
  BY <1>5, ReturnInv DEF StepOK
<1>6. ASSUME IInv', UNCHANGED <<priv, before>>
      PROVE  IInv' /\ StepOK
  BY <1>1, <1>6 DEF StepOK
<1>7. ASSUME NEW reg \in {"mstatus", "sstatus"}, NEW value \in BOOLEAN, WriteEnable(reg, value)
      PROVE  IInv' /\ StepOK
  <2>1. UNCHANGED <<priv, before>>
    BY <1>7 DEF WriteEnable
  <2> QED
    BY <1>6, <1>7, <2>1, WriteEnableInv
<1>8. ASSUME NEW reg \in {"mip", "sip"}, ClearSoftware(reg)
      PROVE  IInv' /\ StepOK
  <2>1. UNCHANGED <<priv, before>>
    BY <1>8 DEF ClearSoftware
  <2> QED
    BY <1>6, <1>8, <2>1, ClearSoftwareInv
<1>9. CASE SerialAccess
  <2>1. PICK q : /\ SerialStep(q)
                 /\ \/ q = read_rx_st(port) \/ q = read_rx_data(port) \/ q = write_tx_data(port)
                    \/ \E ie \in BOOLEAN : q = write_rx_st(port, ie) \/ q = write_tx_st(port, ie)
    BY <1>9 DEF SerialAccess
  <2>2. UNCHANGED <<priv, before>> /\ bytes' \in Nat
    BY <1>1, <1>9, <2>1 DEF SerialAccess, SerialStep
  <2>3. IInv'
    BY <2>1, <2>2, SerialInv
  <2> QED
    BY <1>6, <2>2, <2>3
<1>10. CASE HostByte \/ ReadyRead
  <2>1. PICK q : SerialStep(q) /\ (q = host_byte(port) \/ q = ready_read(port))
    BY <1>10 DEF HostByte, ReadyRead
  <2>2. UNCHANGED <<priv, before>> /\ bytes' \in Nat
    BY <1>1, <1>10, <2>1 DEF HostByte, ReadyRead, SerialStep
  <2>3. IInv'
    BY <2>1, <2>2, SerialInv
  <2> QED
    BY <1>6, <2>2, <2>3
<1>11. ASSUME NEW value \in TimerValues, TimerWrite(value)
       PROVE  IInv' /\ StepOK
  <2>1. value \in Nat /\ timer_writes' \in Nat
    BY <1>1, <1>11, PlatformAssumption DEF TimerWrite
  <2>2. PICK u : /\ TimerStep(u)
                 /\ u = write_mtime(timer, clock, value) \/ u = write_mtimecmp(timer, clock, value)
    BY <1>11 DEF TimerWrite
  <2>3. IInv'
    BY <2>1, <2>2, TimerInv
  <2>4. UNCHANGED <<priv, before>>
    BY <2>2 DEF TimerStep
  <2> QED
    BY <1>6, <2>3, <2>4
<1>12. CASE TimerRead \/ TimerEvent
  <2>1. PICK u : /\ TimerStep(u)
                 /\ u = mtime_fetch_current(timer, clock) \/ u = timerEvent(timer, clock)
    BY <1>12 DEF TimerRead, TimerEvent
  <2>2. timer_writes' \in Nat
    BY <1>1, <1>12 DEF TimerRead, TimerEvent
  <2>3. IInv'
    BY <2>1, <2>2, TimerInv
  <2>4. UNCHANGED <<priv, before>>
    BY <2>1 DEF TimerStep
  <2> QED
    BY <1>6, <2>3, <2>4
<1>13. CASE (\E value \in BOOLEAN : MswiWrite(value)) \/ SswiWrite
  <2>1. UNCHANGED <<priv, before>>
    BY <1>13 DEF MswiWrite, SswiWrite
  <2> QED
    BY <1>6, <1>13, <2>1, SoftwareInv
<1>14. CASE Tick
  <2>1. UNCHANGED <<priv, before>>
    BY <1>14 DEF Tick
  <2> QED
    BY <1>6, <1>14, <2>1, TickInv
<1>15. CASE UNCHANGED vars
  <2>1. IInv'
    BY <1>15 DEF vars, IInv, TypeOK, RxLine, Quiet, LinesFollowDevices, NoByteUnannounced,
       TimerPast, StatusView, TrapSaved
  <2> QED
    BY <1>6, <1>15, <2>1 DEF vars
<1> QED
  BY <1>3, <1>4, <1>5, <1>7, <1>8, <1>9, <1>10, <1>11, <1>12, <1>13, <1>14, <1>15 DEF Next, Program

(***************************************************************************)
(* The theorems                                                            *)
(***************************************************************************)
\* The inductive invariant holds in every state of every platform.
THEOREM PlatformInvariant == Spec => []IInv
  BY InitInv, NextInv, PTL DEF Spec

\* Whatever traps, device accesses and host events interleave, the pending bits
\* of mip that belong to a device are the lines of the devices.
THEOREM LinesFollowDevicesTheorem == Spec => []LinesFollowDevices
<1>1. IInv => LinesFollowDevices
  BY DEF IInv
<1> QED
  BY <1>1, PlatformInvariant, PTL

\* An enabled receiver never sits on a character that neither its line nor a
\* notification to come announces, with the terminal window and on the command
\* line.
THEOREM NoByteUnannouncedTheorem == Spec => []NoByteUnannounced
<1>1. IInv => NoByteUnannounced
  BY DEF IInv
<1> QED
  BY <1>1, PlatformInvariant, PTL

\* The timer's line is never up before mtime passed mtimecmp, for every tick
\* rate and every value written.
THEOREM TimerNeverEarlyTheorem == Spec => []TimerNeverEarly
<1>1. IInv => TimerNeverEarly
  <2> SUFFICES ASSUME IInv, timer.active PROVE timer.cmp < Now(timer, clock)
    BY DEF TimerNeverEarly
  <2>1. /\ timer.fetched \in Int /\ timer.offset \in Int /\ timer.cmp \in Int
        /\ timer.fetched <= clock * TicksPerMs
        /\ timer.cmp < timer.fetched + timer.offset
    BY DEF IInv, TypeOK, Timer, TimerPast
  <2>2. clock * TicksPerMs \in Nat
    BY TicksAssumption DEF IInv, TypeOK
  <2> QED
    BY <2>1, <2>2 DEF Now
<1> QED
  BY <1>1, PlatformInvariant, PTL

\* mret and sret restore the privilege and the enable that the trap into their
\* level found, however traps into the two levels nest, and nothing but a return
\* lowers the privilege.
THEOREM ReturnsRestoreTheorem == Spec => ReturnsRestore
<1>1. IInv /\ [Next]_vars => [StepOK]_vars
  BY NextInv
<1> QED
  BY <1>1, PlatformInvariant, PTL DEF Spec, ReturnsRestore, StepOK
=============================================================================
