----------------------------- MODULE SerialPort -----------------------------
(***************************************************************************)
(* The serial port, src/machine/memory/backend/serialport.cpp, and the     *)
(* host side of it, as functions on the state `p`: the receive and         *)
(* transmit status bits and the two interrupt lines as last signalled;     *)
(* p.queue is the number of characters the host holds ready and p.notify   *)
(* whether its readyRead is still to come; p.signalled are the lines that  *)
(* the operation signals, once or more: the last signal of a line is its   *)
(* level after the operation, and nobody looks at the lines before that.   *)
(*                                                                         *)
(* p.terminal tells the terminal window from the command line: the window  *)
(* gives a character away by changing its input line, and that change      *)
(* calls rx_queue_check again, inside the poll.                            *)
(***************************************************************************)
EXTENDS Integers

RX_IRQ == 16
TX_IRQ == 17

Port == [rx_ready : BOOLEAN, rx_ie : BOOLEAN, tx_ie : BOOLEAN, rx_irq : BOOLEAN, tx_irq : BOOLEAN,
         queue : Nat, notify : BOOLEAN, terminal : BOOLEAN, signalled : SUBSET {RX_IRQ, TX_IRQ}]

\* After construction (the transmitter is always ready).
PortInit(terminal) ==
    [rx_ready |-> FALSE, rx_ie |-> FALSE, tx_ie |-> FALSE, rx_irq |-> FALSE, tx_irq |-> FALSE,
     queue |-> 0, notify |-> FALSE, terminal |-> terminal, signalled |-> {}]

update_rx_irq(p) ==
    LET active == p.rx_ie /\ p.rx_ready
    IN  IF active = p.rx_irq THEN p
        ELSE [p EXCEPT !.rx_irq = active, !.signalled = @ \cup {RX_IRQ}]

update_tx_irq(p) ==
    IF p.tx_ie = p.tx_irq THEN p
    ELSE [p EXCEPT !.tx_irq = p.tx_ie, !.signalled = @ \cup {TX_IRQ}]

\* READY is set before the host is asked, so the call that comes back from the
\* terminal finds a character and does not poll a second time.
pool_rx_byte(p) ==
    LET taken == [p EXCEPT !.rx_ready = TRUE, !.queue = @ - 1]
    IN  IF p.rx_ready \/ p.queue = 0 THEN p
        ELSE IF p.terminal THEN update_rx_irq(taken) ELSE taken

rx_queue_check(p) == update_rx_irq(IF p.rx_ie THEN pool_rx_byte(p) ELSE p)

\* Mutant: the queue is not looked at again once a character was read.
read_rx_data_NoCheck(p) ==
    LET q == pool_rx_byte(p)
    IN  IF q.rx_ready THEN update_rx_irq([q EXCEPT !.rx_ready = FALSE]) ELSE q

read_rx_data(p) ==
    LET q == pool_rx_byte(p)
    IN  rx_queue_check(IF q.rx_ready THEN update_rx_irq([q EXCEPT !.rx_ready = FALSE]) ELSE q)

\* Reading the status takes a character without a look at the interrupt.
read_rx_st(p) == pool_rx_byte(p)

write_rx_st(p, ie) == update_rx_irq(rx_queue_check([p EXCEPT !.rx_ie = ie]))
write_tx_st(p, ie) == update_tx_irq([p EXCEPT !.tx_ie = ie])
write_tx_data(p) == update_tx_irq(p)

\* A character is typed into the terminal, or arrives at the host's device.
host_byte(p) ==
    IF p.terminal THEN rx_queue_check([p EXCEPT !.queue = @ + 1])
    ELSE [p EXCEPT !.queue = @ + 1, !.notify = TRUE]

ready_read(p) == rx_queue_check([p EXCEPT !.notify = FALSE])
=============================================================================
