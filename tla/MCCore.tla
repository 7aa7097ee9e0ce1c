------------------------------- MODULE MCCore -------------------------------
(* CorePipelined with small instruction sets, for TLC. *)
EXTENDS CorePipelined

I(op, rd, rs, rt, imm) == Inst(op, rd, rs, rt, imm, "mscratch")
Csr(op, rd, rs, name) == Inst(op, rd, rs, 0, 0, name)

\* Data hazards: values pass from one instruction to the next through a
\* register or through memory, and decide a branch.  A system call, a breakpoint,
\* a page fault and a return to user mode, where a CSR instruction is illegal, come in
\* between.
DataInstructions ==
    {I("addi", 1, 1, 0, 1), I("add", 2, 1, 2, 0), I("lw", 1, 2, 0, 0),
     I("sw", 0, 1, 2, 1), I("beq", 0, 1, 2, 2), I("amoadd", 2, 1, 1, 0),
     I("ecall", 0, 0, 0, 0), I("ebreak", 0, 0, 0, 0), I("mret", 0, 0, 0, 0),
     Csr("csrrw", 1, 1, "mepc")}

\* Reservations and the instruction counter, with interrupts that the program
\* switches on and off.
SystemInstructions ==
    {I("lr", 1, 2, 0, 0), I("sc", 2, 0, 1, 0), Csr("csrrs", 2, 0, "minstret"),
     Csr("csrrw", 1, 2, "mstatus")}

\* A call and a use of the link register.
LinkInstructions == {I("addi", 2, 1, 0, 1), I("jal", 1, 0, 0, 2)}
=============================================================================
