---------------------------- MODULE CoreSingle ----------------------------
(***************************************************************************)
(* The single-cycle core (CoreSingle::do_step): one whole instruction per  *)
(* step.  It is also the abstract specification of the pipelined core.     *)
(***************************************************************************)
EXTENDS Core

VARIABLES
    prog,   \* the program, loaded before the core starts
    regs,   \* general purpose registers
    pc,     \* the program counter
    mem,    \* data memory
    csr,    \* control and status registers
    resv,   \* LoadReservedRange
    trapped \* the machine's status is ST_TRAPPED

vars == <<prog, regs, pc, mem, csr, resv, trapped>>

Init ==
    /\ prog \in Programs
    /\ regs = RegsInit
    /\ pc = 0
    /\ mem = [a \in V |-> 0]
    /\ csr = CsrInit
    /\ resv = NoAddr
    /\ trapped = FALSE

do_step(irq, skip_break) ==
    \E f \in {fetch(prog, pc, csr, irq, skip_break, (pc + 1) % N)} :
    \E m \in {memory(execute(decode(f, regs, csr)), mem, csr, resv)} :
    \E x \in {handle_exception(m.wb, m.csr, m.resv)} :
        /\ ~trapped
        /\ ~decode_throws(f, csr)
        /\ mem' = m.mem
        /\ regs' = writeback(m.wb, regs)
        /\ IF m.wb.excause # NONE
           THEN pc' = x.pc /\ csr' = x.csr /\ resv' = x.resv
           ELSE pc' = m.wb.computed_next_inst_addr /\ csr' = m.csr /\ resv' = m.resv
        /\ trapped' = (m.wb.excause = "EXCAUSE_INSN_ILLEGAL")
        /\ UNCHANGED prog

\* The step ends in decode with a SimulatorException.
DecodeThrows(irq, skip_break) ==
    /\ ~trapped
    /\ decode_throws(fetch(prog, pc, csr, irq, skip_break, (pc + 1) % N), csr)
    /\ trapped' = TRUE
    /\ UNCHANGED <<prog, regs, pc, mem, csr, resv>>

Next ==
    \E irq \in Irqs, skip_break \in SkipBreaks :
        do_step(irq, skip_break) \/ DecodeThrows(irq, skip_break)

Spec == Init /\ [][Next]_vars
=============================================================================
