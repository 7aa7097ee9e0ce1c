-------------------------------- MODULE Core --------------------------------
(***************************************************************************)
(* The five stages shared by both cores of QtRvSim (class Core, src/       *)
(* machine/core.cpp): fetch, decode, execute, memory and writeback, the    *)
(* interstage registers they fill (pipeline.h) and handle_exception.  Each *)
(* stage is a pure operator on the interstage register before it and the   *)
(* part of the state it reads; CoreSingle and CorePipelined compose them.  *)
(*                                                                         *)
(* This is the RV64 core.  Registers, data and addresses share the values  *)
(* 0 .. N-1, with arithmetic modulo N (2^64 in the code); an instruction   *)
(* occupies one address.  One instruction stands for each way the          *)
(* decoder's flags steer the stages.  There are two privilege levels,      *)
(* MACHINE and UNPRIVILEGED, and no delegation.  An instruction that is    *)
(* not allowed throws a SimulatorException: the machine is then trapped    *)
(* and makes no further step.                                              *)
(***************************************************************************)
EXTENDS Integers, FiniteSets

CONSTANTS
    N,              \* the number of values, and of addresses
    MaxReg,         \* registers x0 .. x_MaxReg
    Instructions,   \* the instructions programs are made of
    MTVEC,          \* the trap vector; 0: none
    StepOver,       \* the causes with step_over_exception set
    FaultData,      \* data addresses whose access is a page fault
    FaultFetch,     \* addresses whose fetch is a page fault
    HwBreaks,       \* addresses with a hardware breakpoint
    Interrupts      \* TRUE: devices raise interrupts

V == 0 .. N - 1
Regs == 0 .. MaxReg

NONE == "EXCAUSE_NONE"
Causes == {NONE, "EXCAUSE_INSN_ILLEGAL", "EXCAUSE_BREAK", "EXCAUSE_ECALL_U",
           "EXCAUSE_ECALL_M", "EXCAUSE_INSN_PAGE_FAULT", "EXCAUSE_LOAD_PAGE_FAULT",
           "EXCAUSE_STORE_PAGE_FAULT", "EXCAUSE_HWBREAK", "EXCAUSE_INT_M"}

MACHINE == "MACHINE"
UNPRIVILEGED == "UNPRIVILEGED"

\* The control and status registers an instruction can name.
CsrNames == {"mscratch", "mepc", "mstatus", "minstret"}

Inst(op, rd, rs, rt, imm, csr) ==
    [op |-> op, rd |-> rd, rs |-> rs, rt |-> rt, imm |-> imm, csr |-> csr]

NOP == Inst("addi", 0, 0, 0, 0, "mscratch")

(***************************************************************************)
(* The instruction table: the flags that steer the stages                  *)
(***************************************************************************)
FLAGS_ALU_I == {"ALUSRC", "REGWRITE", "ALU_REQ_RS"}
FLAGS_ALU_I_LOAD == FLAGS_ALU_I \cup {"MEMREAD", "MEM"}
FLAGS_ALU_I_STORE == {"ALUSRC", "MEMWRITE", "MEM", "ALU_REQ_RS", "ALU_REQ_RT"}
FLAGS_ALU_T_R_STD == {"REGWRITE", "ALU_REQ_RS", "ALU_REQ_RT"}
FLAGS_AMO_LOAD == FLAGS_ALU_I_LOAD \cup {"AMO"}
FLAGS_AMO_STORE == FLAGS_ALU_I_STORE \cup {"REGWRITE", "AMO", "MEMREAD"}
FLAGS_AMO_MODIFY == FLAGS_ALU_I_LOAD \cup FLAGS_AMO_STORE

FlagsOf ==
    [add    |-> FLAGS_ALU_T_R_STD,
     addi   |-> FLAGS_ALU_I,
     lw     |-> FLAGS_ALU_I_LOAD,
     sw     |-> FLAGS_ALU_I_STORE,
     lr     |-> FLAGS_AMO_LOAD,
     sc     |-> FLAGS_AMO_STORE,
     amoadd |-> FLAGS_AMO_MODIFY,
     beq    |-> {"BRANCH", "ALU_REQ_RS", "ALU_REQ_RT", "ALU_MOD"},
     bne    |-> {"BRANCH", "ALU_REQ_RS", "ALU_REQ_RT", "ALU_MOD", "BJ_NOT"},
     jal    |-> {"REGWRITE", "JUMP", "PC_TO_ALU", "ALUSRC"},
     jalr   |-> {"REGWRITE", "BRANCH_JALR", "ALUSRC", "ALU_REQ_RS"},
     csrrw  |-> {"CSR", "REGWRITE", "ALU_REQ_RS"},
     csrrs  |-> {"CSR", "REGWRITE", "ALU_REQ_RS", "CSR_TO_ALU"},
     ecall  |-> {"EXCEPTION", "ECALL"},
     ebreak |-> {"EXCEPTION", "EBREAK"},
     fencei |-> {"MEM"},
     mret   |-> {"XRET", "PRIV_M"}]

ControlFlow(inst) == FlagsOf[inst.op] \cap {"BRANCH", "JUMP", "BRANCH_JALR"} # {}

ASSUME CoreAssumption ==
    /\ N \in Nat \ {0}
    /\ MaxReg \in Nat
    /\ MTVEC \in V
    /\ Interrupts \in BOOLEAN
    /\ StepOver \subseteq Causes
    /\ FaultData \subseteq V /\ FaultFetch \subseteq V /\ HwBreaks \subseteq V
    /\ \A i \in Instructions :
          /\ i.op \in DOMAIN FlagsOf
          /\ {i.rd, i.rs, i.rt} \subseteq Regs
          /\ i.imm \in V
          /\ i.csr \in CsrNames

(***************************************************************************)
(* Interstage registers.  A flushed one is a NOP that is not valid.        *)
(***************************************************************************)
NoAddr == N      \* STAGEADDR_NONE, no address

FlushedFetch ==
    [inst |-> NOP, inst_addr |-> NoAddr, next_inst_addr |-> 0,
     predicted_next_inst_addr |-> 0, excause |-> NONE, is_valid |-> FALSE]

FlushedDecode ==
    [inst |-> NOP, inst_addr |-> NoAddr, next_inst_addr |-> 0,
     predicted_next_inst_addr |-> 0, excause |-> NONE, is_valid |-> FALSE,
     flags |-> {}, num_rs |-> 0, num_rt |-> 0, num_rd |-> 0,
     val_rs |-> 0, val_rt |-> 0, csr_read_val |-> 0, csr_write |-> FALSE]

FlushedExecute ==
    [inst |-> NOP, inst_addr |-> NoAddr, next_inst_addr |-> 0,
     predicted_next_inst_addr |-> 0, excause |-> NONE, is_valid |-> FALSE,
     flags |-> {}, num_rd |-> 0, val_rt |-> 0, alu_val |-> 0,
     branch_jal_target |-> NoAddr, csr_read_val |-> 0, csr_write |-> FALSE]

FlushedMemory ==
    [inst |-> NOP, inst_addr |-> NoAddr, computed_next_inst_addr |-> 0,
     predicted_next_inst_addr |-> 0, excause |-> NONE, is_valid |-> FALSE,
     mem_addr |-> 0, num_rd |-> 0, regwrite |-> FALSE, towrite_val |-> 0,
     csr_written |-> FALSE]

(***************************************************************************)
(* Control and status registers.  The record `csr` also holds the current  *)
(* privilege level.  A program sees the bits MIE and MPP of mstatus.       *)
(***************************************************************************)
csr_read(csr, name) ==
    IF name = "mstatus" THEN (csr.mie + (IF csr.mpp = MACHINE THEN 2 ELSE 0)) % N
    ELSE csr[name]

csr_write(csr, name, v) ==
    IF name = "mstatus"
    THEN [csr EXCEPT !.mie = v % 2,
                     !.mpp = IF (v \div 2) % 2 = 1 THEN MACHINE ELSE UNPRIVILEGED]
    ELSE [csr EXCEPT ![name] = v]

\* Machine interrupts are always enabled below machine mode.
core_interrupt_enabled(csr) == csr.priv = UNPRIVILEGED \/ csr.mie = 1

\* mret.
exception_return(csr) ==
    [csr EXCEPT !.mie = csr.mpie, !.mpie = 1, !.priv = csr.mpp, !.mpp = UNPRIVILEGED]

\* A trap into machine mode.
exception_initiate(csr) ==
    [csr EXCEPT !.mpie = csr.mie, !.mie = 0, !.mpp = csr.priv, !.priv = MACHINE]

(***************************************************************************)
(* fetch.  `irq`: an interrupt is pending; `predicted`: the predictor's    *)
(* answer.  The interrupt is only taken if nothing else went wrong.        *)
(***************************************************************************)
fetch(prog, pc, csr, irq, skip_break, predicted) ==
    LET fault == pc \in FaultFetch
        break == ~skip_break /\ pc \in HwBreaks
    IN  [inst |-> IF fault THEN NOP ELSE prog[pc],
         inst_addr |-> pc,
         next_inst_addr |-> (pc + 1) % N,
         predicted_next_inst_addr |-> predicted,
         excause |-> IF break THEN "EXCAUSE_HWBREAK"
                     ELSE IF fault THEN "EXCAUSE_INSN_PAGE_FAULT"
                     ELSE IF irq /\ core_interrupt_enabled(csr) THEN "EXCAUSE_INT_M"
                     ELSE NONE,
         is_valid |-> TRUE]

read_gp(regs, r) == IF r = 0 THEN 0 ELSE regs[r]

write_gp(regs, r, v) == [q \in Regs |-> IF q = r /\ r # 0 THEN v ELSE regs[q]]

\* ControlState::read throws: every CSR here belongs to machine mode.  The test
\* is made for whatever is in the stage.
decode_throws(dt, csr) == "CSR" \in FlagsOf[dt.inst.op] /\ csr.priv # MACHINE

decode(dt, regs, csr) ==
    LET flags == FlagsOf[dt.inst.op]
        num_rs == IF "ALU_REQ_RS" \in flags THEN dt.inst.rs ELSE 0
        num_rt == IF "ALU_REQ_RT" \in flags THEN dt.inst.rt ELSE 0
    IN  [inst |-> dt.inst,
         inst_addr |-> dt.inst_addr,
         next_inst_addr |-> dt.next_inst_addr,
         predicted_next_inst_addr |-> dt.predicted_next_inst_addr,
         excause |-> IF "PRIV_M" \in flags /\ csr.priv # MACHINE THEN "EXCAUSE_INSN_ILLEGAL"
                     ELSE IF dt.excause # NONE \/ "EXCEPTION" \notin flags THEN dt.excause
                     ELSE IF "EBREAK" \in flags THEN "EXCAUSE_BREAK"
                     ELSE IF csr.priv = MACHINE THEN "EXCAUSE_ECALL_M"
                     ELSE "EXCAUSE_ECALL_U",
         is_valid |-> dt.is_valid,
         flags |-> flags,
         num_rs |-> num_rs,
         num_rt |-> num_rt,
         num_rd |-> IF "REGWRITE" \in flags THEN dt.inst.rd ELSE 0,
         val_rs |-> read_gp(regs, num_rs),
         val_rt |-> read_gp(regs, num_rt),
         csr_read_val |-> IF "CSR" \in flags THEN csr_read(csr, dt.inst.csr) ELSE 0,
         csr_write |-> "CSR" \in flags /\ ("CSR_TO_ALU" \notin flags \/ num_rs # 0)]

\* Or[n][a][b]: the bitwise or of the lowest n bits of a and b.
Or[n \in 0 .. N] ==
    [a \in V |-> [b \in V |->
        IF n = 0 THEN 0
        ELSE (IF a % 2 = 1 \/ b % 2 = 1 THEN 1 ELSE 0) + 2 * Or[n - 1][a \div 2][b \div 2]]]

bitwise_or(a, b) == Or[N][a][b] % N

\* The ALU: the PASS of AMO, the bitwise or of csrrs, subtraction (ALU_MOD) and
\* addition.
alu_combined_operate(flags, fst, sec) ==
    CASE "AMO" \in flags -> fst
      [] "CSR_TO_ALU" \in flags -> bitwise_or(fst, sec)
      [] "ALU_MOD" \in flags -> (fst - sec) % N
      [] OTHER -> (fst + sec) % N

execute(dt) ==
    LET alu_fst == IF "PC_TO_ALU" \in dt.flags THEN dt.inst_addr ELSE dt.val_rs
        alu_sec == IF "CSR_TO_ALU" \in dt.flags THEN dt.csr_read_val
                   ELSE IF "ALUSRC" \in dt.flags THEN dt.inst.imm
                   ELSE dt.val_rt
    IN  [inst |-> dt.inst,
         inst_addr |-> dt.inst_addr,
         next_inst_addr |-> dt.next_inst_addr,
         predicted_next_inst_addr |-> dt.predicted_next_inst_addr,
         excause |-> dt.excause,
         is_valid |-> dt.is_valid,
         flags |-> dt.flags,
         num_rd |-> dt.num_rd,
         val_rt |-> dt.val_rt,
         alu_val |-> IF dt.excause # NONE THEN 0
                     ELSE alu_combined_operate(dt.flags, alu_fst, alu_sec),
         branch_jal_target |-> (dt.inst_addr + dt.inst.imm) % N,
         csr_read_val |-> dt.csr_read_val,
         csr_write |-> dt.csr_write]

(***************************************************************************)
(* memory                                                                  *)
(***************************************************************************)
compute_next_inst_addr(dt, branch_taken) ==
    IF branch_taken \/ "JUMP" \in dt.flags THEN dt.branch_jal_target
    ELSE IF "BRANCH_JALR" \in dt.flags THEN dt.alu_val
    ELSE dt.next_inst_addr

\* The data access of the instruction: [cause, value, mem, resv].  resv is the
\* reserved address of LR, NoAddr when there is none.
MemAccess(dt, mem, resv) ==
    LET a == dt.alu_val
        writes == dt.flags \cap {"MEMWRITE", "AMO"} # {}
        done(v, m, r) == [cause |-> NONE, value |-> v, mem |-> m, resv |-> r]
        access(res) ==
            IF a \in FaultData
            THEN [cause |-> IF writes THEN "EXCAUSE_STORE_PAGE_FAULT"
                            ELSE "EXCAUSE_LOAD_PAGE_FAULT",
                  value |-> 0, mem |-> mem,
                  resv |-> IF dt.inst.op = "lr" THEN a ELSE resv]
            ELSE res
    IN  CASE dt.inst.op = "lw" -> access(done(mem[a], mem, resv))
          [] dt.inst.op = "sw" -> access(done(a, [mem EXCEPT ![a] = dt.val_rt], resv))
          [] dt.inst.op = "lr" -> access(done(mem[a], mem, a))
          [] dt.inst.op = "sc" /\ resv = a ->
                access(done(0, [mem EXCEPT ![a] = dt.val_rt], NoAddr))
          [] dt.inst.op = "sc" /\ resv # a -> done(1 % N, mem, NoAddr)
          [] dt.inst.op = "amoadd" ->
                access(done(mem[a], [mem EXCEPT ![a] = (mem[a] + dt.val_rt) % N], resv))
          [] OTHER -> done(a, mem, resv)

\* The whole stage: the register after it and the state it changes.  (CSR instructions
\* decoded before an older mret lowered the privilege are flushed with it, so the
\* privilege ControlState::write asks for is always there.)
memory(dt, mem, csr, resv) ==
    LET acc == IF dt.excause = NONE THEN MemAccess(dt, mem, resv)
               ELSE [cause |-> dt.excause, value |-> dt.alu_val, mem |-> mem, resv |-> resv]
        branch_bxx_taken ==
            "BRANCH" \in dt.flags /\ (("BJ_NOT" \in dt.flags) <=> dt.alu_val # 0)
        retired == dt.is_valid /\ dt.excause = NONE
        xret == retired /\ "XRET" \in dt.flags
        counted == IF retired THEN [csr EXCEPT !.minstret = (@ + 1) % N] ELSE csr
        written == IF retired /\ dt.csr_write
                   THEN csr_write(counted, dt.inst.csr, dt.alu_val) ELSE counted
    IN  [mem |-> acc.mem,
         csr |-> IF xret THEN exception_return(written) ELSE written,
         resv |-> IF xret THEN NoAddr ELSE acc.resv,
         wb |-> [inst |-> dt.inst,
                 inst_addr |-> dt.inst_addr,
                 computed_next_inst_addr |->
                    IF xret THEN written.mepc
                    ELSE compute_next_inst_addr(dt, branch_bxx_taken),
                 predicted_next_inst_addr |-> dt.predicted_next_inst_addr,
                 excause |-> acc.cause,
                 is_valid |-> dt.is_valid,
                 mem_addr |-> dt.alu_val,
                 num_rd |-> dt.num_rd,
                 regwrite |-> "REGWRITE" \in dt.flags /\ acc.cause = NONE,
                 towrite_val |-> IF "CSR" \in dt.flags THEN dt.csr_read_val
                                 ELSE IF dt.flags \cap {"JUMP", "BRANCH_JALR"} # {}
                                 THEN dt.next_inst_addr
                                 ELSE acc.value,
                 csr_written |-> retired /\ (dt.csr_write \/ xret)]]

writeback(dt, regs) ==
    IF dt.regwrite THEN write_gp(regs, dt.num_rd, dt.towrite_val) ELSE regs

(***************************************************************************)
(* handle_exception, for the instruction in mem_wb.  A hardware breakpoint *)
(* only stops the machine in front of the instruction: stop_on_exception   *)
(* is set for it from the start (core.cpp:44), only an option of the       *)
(* command line clears it, and only the program window sets breakpoints,   *)
(* so that no machine has a breakpoint it does not stop at.  An illegal    *)
(* instruction throws, after the program counter has moved on.  The cause  *)
(* of a trap from user mode goes to scause, although machine mode takes it.*)
(***************************************************************************)
PageFaults == {"EXCAUSE_INSN_PAGE_FAULT", "EXCAUSE_LOAD_PAGE_FAULT",
               "EXCAUSE_STORE_PAGE_FAULT"}

handle_exception(wb, csr, resv) ==
    LET recorded == [csr EXCEPT
                       !.mepc = wb.inst_addr,
                       !.mtval = IF wb.excause \in PageFaults THEN wb.mem_addr ELSE 0,
                       ![IF csr.priv = MACHINE THEN "mcause" ELSE "scause"] = wb.excause]
    IN  IF wb.excause = "EXCAUSE_INSN_ILLEGAL"
        THEN [pc |-> wb.computed_next_inst_addr, csr |-> csr, resv |-> resv]
        ELSE IF wb.excause = "EXCAUSE_HWBREAK"
        THEN [pc |-> wb.inst_addr, csr |-> csr, resv |-> resv]
        ELSE IF MTVEC # 0 /\ wb.excause \notin StepOver
        THEN [pc |-> MTVEC, csr |-> exception_initiate(recorded), resv |-> NoAddr]
        ELSE [pc |-> wb.computed_next_inst_addr, csr |-> recorded, resv |-> NoAddr]

(***************************************************************************)
(* The state a program sees, when the machine has been reset               *)
(***************************************************************************)
\* Programs; what would be at an address that is never fetched does not matter.
Programs == {p \in [V -> Instructions] : \A a \in FaultFetch : p[a] = CHOOSE i \in Instructions : TRUE}

RegsInit == [r \in Regs |-> 0]

\* Interrupts are disabled in machine mode, and the first mret leads to user mode.
CsrInit == [mscratch |-> 0, mepc |-> 0, mie |-> 0,
            minstret |-> 0, mpie |-> 0, mpp |-> UNPRIVILEGED, mtval |-> 0,
            mcause |-> NONE, scause |-> NONE, priv |-> MACHINE]

\* An interrupt that the mie register lets through may be pending in any cycle.
Irqs == IF Interrupts THEN BOOLEAN ELSE {FALSE}

\* skip_break is set in the step with which the user resumes from a breakpoint.
SkipBreaks == IF HwBreaks = {} THEN {FALSE} ELSE BOOLEAN
=============================================================================
