------------------------------ MODULE CoreProofs ------------------------------
(***************************************************************************)
(* Proofs about the pipelined core: the types, NothingBehindException, and *)
(* that it implements the single-cycle core.  Every stage that holds an    *)
(* instruction is compared with what the single-cycle core would compute   *)
(* for it once the older instructions are done.                            *)
(***************************************************************************)
EXTENDS CorePredicted, WellFoundedInduction, TLAPS

(***************************************************************************)
(* Types                                                                   *)
(***************************************************************************)
Ops == DOMAIN FlagsOf
InstSet == Instructions \cup {NOP}
AnyAddr == V \cup {NoAddr}
FlagSets == {FlagsOf[op] : op \in Ops} \cup {{}}

FetchReg == [inst : InstSet, inst_addr : AnyAddr, next_inst_addr : V,
             predicted_next_inst_addr : V, excause : Causes, is_valid : BOOLEAN]

DecodeReg == [inst : InstSet, inst_addr : AnyAddr, next_inst_addr : V,
              predicted_next_inst_addr : V, excause : Causes, is_valid : BOOLEAN,
              flags : FlagSets, num_rs : Regs, num_rt : Regs, num_rd : Regs,
              val_rs : V, val_rt : V, csr_read_val : V, csr_write : BOOLEAN]

ExecuteReg == [inst : InstSet, inst_addr : AnyAddr, next_inst_addr : V,
               predicted_next_inst_addr : V, excause : Causes, is_valid : BOOLEAN,
               flags : FlagSets, num_rd : Regs, val_rt : V, alu_val : V,
               branch_jal_target : AnyAddr, csr_read_val : V, csr_write : BOOLEAN]

MemoryReg == [inst : InstSet, inst_addr : AnyAddr, computed_next_inst_addr : V,
              predicted_next_inst_addr : V, excause : Causes, is_valid : BOOLEAN,
              mem_addr : V, num_rd : Regs, regwrite : BOOLEAN, towrite_val : V,
              csr_written : BOOLEAN]

Privileges == {MACHINE, UNPRIVILEGED}

CsrType == [mscratch : V, mepc : V, mie : {0, 1}, minstret : V, mpie : {0, 1},
            mpp : Privileges, mtval : V, mcause : Causes, scause : Causes, priv : Privileges]

\* A stage without an instruction does nothing, and has no exception.
Bubble(x) ==
    /\ x.inst = NOP /\ x.excause = NONE
    /\ x.flags \in {{}, FLAGS_ALU_I} /\ x.num_rd = 0 /\ ~x.csr_write
    /\ x.next_inst_addr = 0 /\ x.predicted_next_inst_addr = 0

\* Every stage has an address and flags of its own, or is a bubble.
FetchStage(dt) ==
    /\ dt \in FetchReg
    /\ dt.is_valid => dt.inst_addr \in V
    /\ ~dt.is_valid => dt = FlushedFetch

DecodeStage(id) ==
    /\ id \in DecodeReg
    /\ id.is_valid => id.inst_addr \in V /\ id.flags = FlagsOf[id.inst.op]
    /\ ~id.is_valid => Bubble(id) /\ id.num_rs = 0 /\ id.num_rt = 0

ExecuteStage(ex) ==
    /\ ex \in ExecuteReg
    /\ ex.is_valid => ex.inst_addr \in V /\ ex.branch_jal_target \in V /\ ex.flags = FlagsOf[ex.inst.op]
    /\ ~ex.is_valid => Bubble(ex)

MemoryStage(wb) ==
    /\ wb \in MemoryReg
    /\ wb.excause # NONE => wb.inst_addr \in V
    /\ ~wb.is_valid => wb.excause = NONE

CoreType ==
    /\ prog \in [V -> Instructions]
    /\ regs \in [Regs -> V] /\ pc \in V /\ mem \in [V -> V] /\ csr \in CsrType /\ resv \in AnyAddr
    /\ trapped \in BOOLEAN /\ stop_if \in BOOLEAN
    /\ FetchStage(if_id) /\ DecodeStage(id_ex) /\ ExecuteStage(ex_mem) /\ MemoryStage(mem_wb)

(***************************************************************************)
(* What the stages hold.  SingleFetch is the fetch of the single-cycle     *)
(* core; the instruction was fetched under another csr, maybe, but one     *)
(* that is as good.                                                        *)
(***************************************************************************)
SingleFetch(a, c, irq, skip) == fetch(prog, a, c, irq, skip, (a + 1) % N)

\* Two stages hold the same instruction, whatever was predicted for it.
SameFetch(x, y) ==
    /\ x.inst = y.inst /\ x.inst_addr = y.inst_addr /\ x.next_inst_addr = y.next_inst_addr
    /\ x.excause = y.excause /\ x.is_valid = y.is_valid

\* The fetched instruction, in the registers before ID
FetchOk(dt, c) ==
    dt.is_valid =>
       \E irq \in Irqs, skip \in SkipBreaks : SameFetch(dt, SingleFetch(dt.inst_addr, c, irq, skip))

\* The value of a register after the instruction in ex, if that computes it in EX
Operand(ex, R, r) ==
    IF "REGWRITE" \in ex.flags /\ ex.num_rd = r /\ r # 0 THEN ex.alu_val ELSE read_gp(R, r)

\* The operand waits for no load, and needs no forwarding that there is not.
OperandThere(ex, r) ==
    "REGWRITE" \in ex.flags /\ ex.num_rd = r /\ r # 0 =>
        HazardUnit = "HU_STALL_FORWARD" /\ "MEMREAD" \notin ex.flags

DecodedAs(id, d, ex, R) ==
    /\ SameFetch(id, d)
    /\ id.flags = d.flags /\ id.num_rs = d.num_rs /\ id.num_rt = d.num_rt /\ id.num_rd = d.num_rd
    /\ id.csr_write = d.csr_write
    /\ id.excause = NONE =>
          /\ id.csr_read_val = d.csr_read_val
          /\ id.val_rs = Operand(ex, R, id.num_rs) /\ OperandThere(ex, id.num_rs)
          /\ id.val_rt = Operand(ex, R, id.num_rt) /\ OperandThere(ex, id.num_rt)
          /\ "CSR" \in id.flags => ~ex.is_valid

DecodeOk(id, ex, R, c) ==
    id.is_valid =>
       \E irq \in Irqs, skip \in SkipBreaks :
          LET f == SingleFetch(id.inst_addr, c, irq, skip)
          IN  ~decode_throws(f, c) /\ DecodedAs(id, decode(f, R, c), ex, R)

ExecutedAs(ex, e) ==
    /\ SameFetch(ex, e)
    /\ ex.flags = e.flags /\ ex.num_rd = e.num_rd /\ ex.csr_write = e.csr_write
    /\ ex.branch_jal_target = e.branch_jal_target /\ ex.alu_val = e.alu_val
    /\ ex.excause = NONE => ex.csr_read_val = e.csr_read_val /\ ex.val_rt = e.val_rt

ExecuteOk(ex, R, c) ==
    ex.is_valid =>
       \E irq \in Irqs, skip \in SkipBreaks :
          LET f == SingleFetch(ex.inst_addr, c, irq, skip)
          IN  ~decode_throws(f, c) /\ ExecutedAs(ex, execute(decode(f, R, c)))

\* The address an instruction was predicted to be followed by is the one of the
\* next instruction in the pipeline.
Addr(x, younger) == IF x.is_valid THEN x.inst_addr ELSE younger

Chained ==
    /\ if_id.is_valid => if_id.predicted_next_inst_addr = pc
    /\ id_ex.is_valid /\ id_ex.excause = NONE => id_ex.predicted_next_inst_addr = Addr(if_id, pc)
    /\ ex_mem.is_valid /\ ex_mem.excause = NONE =>
          ex_mem.predicted_next_inst_addr = Addr(id_ex, Addr(if_id, pc))

\* Without a predictor the next instruction is expected behind this one.
InSequence(x) == ~Predictor => x.predicted_next_inst_addr = x.next_inst_addr

Pipeline ==
    LET R == writeback(mem_wb, regs)
    IN  /\ FetchOk(if_id, csr) /\ DecodeOk(id_ex, ex_mem, R, csr) /\ ExecuteOk(ex_mem, R, csr)
        /\ Chained
        /\ InSequence(if_id) /\ InSequence(id_ex) /\ InSequence(ex_mem)
        /\ stop_if => ex_mem.excause # NONE \/ id_ex.excause # NONE

TypeInv ==
    /\ CoreType
    /\ NothingBehindException
    /\ mem_wb.excause = "EXCAUSE_INSN_ILLEGAL" => trapped

IInv == TypeInv /\ (~trapped => Pipeline)

(***************************************************************************)
(* Numbers                                                                 *)
(***************************************************************************)
\* A set of natural numbers that is not empty has a least element.
LEMMA LeastExists ==
    ASSUME NEW S \in SUBSET Nat, S # {}
    PROVE  \E i \in S : \A j \in S : i <= j
<1>1. PICK x \in S : \A y \in S : ~ (<<y, x>> \in OpToRel(<, Nat))
  BY NatLessThanWellFounded, WFMin, Zenon
<1>2. \A y \in S : ~ (y < x)
  BY <1>1 DEF OpToRel
<1> QED
  BY <1>2

\* Induction up to a bound: a set that holds 0, and with a number the next one, holds
\* every number up to the bound.
LEMMA UpTo ==
    ASSUME NEW n \in Nat, NEW S, 0 \in S, \A i \in 1 .. n : i - 1 \in S => i \in S
    PROVE  \A i \in 0 .. n : i \in S
<1> DEFINE bad == {i \in 0 .. n : i \notin S}
<1>1. SUFFICES ASSUME bad # {} PROVE FALSE
  OBVIOUS
<1>2. bad \in SUBSET Nat
  OBVIOUS
<1>3. PICK m \in bad : \A j \in bad : m <= j
  BY <1>1, <1>2, LeastExists
<1>4. m \in 1 .. n /\ m - 1 \in 0 .. n
  BY <1>3
<1>5. m - 1 \notin bad
  <2> HIDE DEF bad
  <2> QED
    BY <1>3, <1>4
<1> QED
  BY <1>3, <1>4, <1>5

\* Every number is a value modulo N, and a value is itself.
LEMMA ModN ==
    /\ 0 \in V
    /\ \A x \in Int : x % N \in V
    /\ \A x \in V : x % N = x /\ x \in Nat
  BY CoreAssumption DEF V

OrRow(g, n) ==
    [a \in V |-> [b \in V |->
        IF n = 0 THEN 0
        ELSE (IF a % 2 = 1 \/ b % 2 = 1 THEN 1 ELSE 0) + 2 * g[n - 1][a \div 2][b \div 2]]]

IsOr(g, n) == g = [i \in 0 .. n |-> OrRow(g, i)]

\* The recursive function Or exists.
LEMMA OrFunction == IsOr(Or, N)
<1> USE CoreAssumption
<1> DEFINE S == {m \in Nat : \E g : IsOr(g, m)}
<1>1. 0 \in S
  <2> DEFINE h == [i \in 0 .. 0 |-> OrRow(<<>>, i)]
  <2>1. OrRow(<<>>, 0) = OrRow(h, 0)
    BY DEF OrRow
  <2>2. h = [i \in 0 .. 0 |-> OrRow(h, i)]
    BY <2>1
  <2> HIDE DEF h
  <2>3. IsOr(h, 0)
    BY <2>2 DEF IsOr
  <2> QED
    BY <2>3
<1>2. ASSUME NEW m \in 1 .. N, m - 1 \in S PROVE m \in S
  <2>1. PICK g : IsOr(g, m - 1)
    BY <1>2
  <2> DEFINE h == [i \in 0 .. m |-> OrRow(g, i)]
  <2>2. \A i \in 0 .. m - 1 : h[i] = g[i]
    <3> TAKE i \in 0 .. m - 1
    <3> HIDE DEF S
    <3>1. g[i] = OrRow(g, i)
      BY <2>1 DEF IsOr
    <3>2. i \in 0 .. m
      OBVIOUS
    <3> QED
      BY <3>1, <3>2
  <2>h. h = [i \in 0 .. m |-> OrRow(g, i)]
    OBVIOUS
  <2> HIDE DEF h
  <2>3. \A i \in 0 .. m : OrRow(g, i) = OrRow(h, i)
    <3> TAKE i \in 0 .. m
    <3>1. i # 0 => h[i - 1] = g[i - 1]
      BY <2>2
    <3>2. CASE i = 0
      BY <3>2 DEF OrRow
    <3>3. CASE i # 0
      BY <3>1, <3>3 DEF OrRow
    <3> QED
      BY <3>2, <3>3
  <2>4. h = [i \in 0 .. m |-> OrRow(h, i)]
    BY <2>3, <2>h
  <2>5. IsOr(h, m)
    BY <2>4 DEF IsOr
  <2> QED
    BY <2>5
<1> HIDE DEF S
<1>3. N \in S
  BY <1>1, <1>2, UpTo
<1> USE DEF S
<1>4. \E g : IsOr(g, N)
  BY <1>3
<1>5. Or = CHOOSE g : IsOr(g, N)
  BY DEF Or, IsOr, OrRow
<1> QED
  <2> HIDE DEF IsOr
  <2> QED
    BY <1>4, <1>5, Zenon

\* csrrs with x0 leaves the bits of the CSR alone, and any two values have an or.
LEMMA OrFacts ==
    /\ \A b \in V : bitwise_or(0, b) = b
    /\ \A a, b \in V : bitwise_or(a, b) \in V
<1> USE CoreAssumption
<1>0. \A i \in 0 .. N : Or[i] = OrRow(Or, i)
  BY OrFunction DEF IsOr
<1>1. ASSUME NEW a \in V, NEW b \in V PROVE a \div 2 \in V /\ b \div 2 \in V
  BY DEF V
<1> DEFINE Good(n) ==
             /\ \A a, b \in V : Or[n][a][b] \in Nat
             /\ \A b \in V : b <= n => Or[n][0][b] = b
           S == {n \in 0 .. N : Good(n)}
<1>2. 0 \in S
  <2>1. Or[0] = OrRow(Or, 0)
    BY <1>0
  <2>2. \A a, b \in V : Or[0][a][b] = 0
    BY <2>1 DEF OrRow
  <2>3. \A b \in V : b <= 0 => b = 0
    BY DEF V
  <2>4. Good(0)
    BY <2>2, <2>3, ModN
  <2> QED
    BY <2>4
<1>3. ASSUME NEW n \in 1 .. N, n - 1 \in S PROVE n \in S
  <2>1. n \in 0 .. N /\ n # 0 /\ Or[n] = OrRow(Or, n)
    BY <1>0
  <2>2. \A a, b \in V : Or[n][a][b] =
           (IF a % 2 = 1 \/ b % 2 = 1 THEN 1 ELSE 0) + 2 * Or[n - 1][a \div 2][b \div 2]
    BY <2>1 DEF OrRow
  <2>3. Good(n - 1)
    BY <1>3
  <2>4. ASSUME NEW a \in V, NEW b \in V PROVE Or[n][a][b] \in Nat
    <3>1. Or[n - 1][a \div 2][b \div 2] \in Nat
      BY <1>1, <2>3
    <3> QED
      BY <2>2, <3>1
  <2>5. ASSUME NEW b \in V, b <= n PROVE Or[n][0][b] = b
    <3>1. 0 \div 2 = 0 /\ 0 % 2 = 0 /\ 0 \in V
      BY ModN
    <3>2. b \div 2 \in V /\ b \div 2 <= n - 1 /\ b \in Nat /\ b = (b % 2) + 2 * (b \div 2)
      BY <2>5 DEF V
    <3>3. Or[n - 1][0][b \div 2] = b \div 2
      BY <2>3, <3>2
    <3>4. Or[n][0][b] = (IF b % 2 = 1 THEN 1 ELSE 0) + 2 * (b \div 2)
      BY <2>2, <3>1, <3>3
    <3> QED
      BY <3>2, <3>4
  <2>6. Good(n)
    BY <2>4, <2>5
  <2> QED
    BY <2>1, <2>6
<1> HIDE DEF S
<1>4. N \in S
  BY <1>2, <1>3, UpTo
<1> USE DEF S
<1>5. Good(N)
  BY <1>4
<1> HIDE DEF Good
<1>6. \A b \in V : b <= N
  BY DEF V
<1>7. \A b \in V : Or[N][0][b] = b
  BY <1>5, <1>6 DEF Good
<1>8. \A a, b \in V : Or[N][a][b] \in Nat
  BY <1>5 DEF Good
<1>9. \A b \in V : bitwise_or(0, b) = b
  BY <1>7, ModN DEF bitwise_or
<1>10. \A a, b \in V : bitwise_or(a, b) \in V
  BY <1>8, ModN DEF bitwise_or
<1> QED
  BY <1>9, <1>10

(***************************************************************************)
(* The instruction table                                                   *)
(***************************************************************************)
OpNames == {"add", "addi", "lw", "sw", "lr", "sc", "amoadd", "beq", "bne", "jal", "jalr", "csrrw", "csrrs",
            "ecall", "ebreak", "fencei", "mret"}

\* What the flags of an instruction tell of it.
LEMMA FlagFacts ==
    /\ Ops = OpNames
    /\ \A op \in Ops :
          /\ "CSR" \in FlagsOf[op] <=> op \in {"csrrw", "csrrs"}
          /\ "CSR_TO_ALU" \in FlagsOf[op] <=> op = "csrrs"
          /\ "JUMP" \in FlagsOf[op] <=> op = "jal"
          /\ "PC_TO_ALU" \in FlagsOf[op] <=> op = "jal"
          /\ "BRANCH_JALR" \in FlagsOf[op] <=> op = "jalr"
          /\ "BRANCH" \in FlagsOf[op] <=> op \in {"beq", "bne"}
          /\ "AMO" \in FlagsOf[op] <=> op \in {"lr", "sc", "amoadd"}
          /\ "MEMREAD" \in FlagsOf[op] <=> op \in {"lw", "lr", "sc", "amoadd"}
          /\ "ALU_MOD" \in FlagsOf[op] <=> op \in {"beq", "bne"}
          /\ "XRET" \in FlagsOf[op] <=> op = "mret"
          /\ "REGWRITE" \in FlagsOf[op] => op \notin {"sw"}
          /\ op = "jal" => "ALUSRC" \in FlagsOf[op]
          /\ FlagsOf["addi"] = FLAGS_ALU_I
<1>1. Ops = OpNames
  BY DEF Ops, OpNames, FlagsOf
<1>2. /\ FlagsOf["add"] = FLAGS_ALU_T_R_STD /\ FlagsOf["addi"] = FLAGS_ALU_I
      /\ FlagsOf["lw"] = FLAGS_ALU_I_LOAD /\ FlagsOf["sw"] = FLAGS_ALU_I_STORE
      /\ FlagsOf["lr"] = FLAGS_AMO_LOAD /\ FlagsOf["sc"] = FLAGS_AMO_STORE
      /\ FlagsOf["amoadd"] = FLAGS_AMO_MODIFY
      /\ FlagsOf["beq"] = {"BRANCH", "ALU_REQ_RS", "ALU_REQ_RT", "ALU_MOD"}
      /\ FlagsOf["bne"] = {"BRANCH", "ALU_REQ_RS", "ALU_REQ_RT", "ALU_MOD", "BJ_NOT"}
      /\ FlagsOf["jal"] = {"REGWRITE", "JUMP", "PC_TO_ALU", "ALUSRC"}
      /\ FlagsOf["jalr"] = {"REGWRITE", "BRANCH_JALR", "ALUSRC", "ALU_REQ_RS"}
      /\ FlagsOf["csrrw"] = {"CSR", "REGWRITE", "ALU_REQ_RS"}
      /\ FlagsOf["csrrs"] = {"CSR", "REGWRITE", "ALU_REQ_RS", "CSR_TO_ALU"}
      /\ FlagsOf["ecall"] = {"EXCEPTION", "ECALL"} /\ FlagsOf["ebreak"] = {"EXCEPTION", "EBREAK"}
      /\ FlagsOf["fencei"] = {"MEM"} /\ FlagsOf["mret"] = {"XRET", "PRIV_M"}
  BY DEF FlagsOf
<1>3. FLAGS_ALU_I_LOAD = {"ALUSRC", "REGWRITE", "ALU_REQ_RS", "MEMREAD", "MEM"}
  BY DEF FLAGS_ALU_I_LOAD, FLAGS_ALU_I
<1>4. FLAGS_AMO_STORE = {"ALUSRC", "MEMWRITE", "MEM", "ALU_REQ_RS", "ALU_REQ_RT", "REGWRITE", "AMO", "MEMREAD"}
  BY DEF FLAGS_AMO_STORE, FLAGS_ALU_I_STORE
<1>5. \A op \in OpNames :
         /\ "CSR" \in FlagsOf[op] <=> op \in {"csrrw", "csrrs"}
         /\ "CSR_TO_ALU" \in FlagsOf[op] <=> op = "csrrs"
         /\ "JUMP" \in FlagsOf[op] <=> op = "jal"
         /\ "PC_TO_ALU" \in FlagsOf[op] <=> op = "jal"
  BY <1>2, <1>3, <1>4 DEF OpNames, FLAGS_ALU_T_R_STD, FLAGS_ALU_I, FLAGS_ALU_I_STORE, FLAGS_AMO_LOAD, FLAGS_AMO_MODIFY
<1>6. \A op \in OpNames :
         /\ "BRANCH_JALR" \in FlagsOf[op] <=> op = "jalr"
         /\ "BRANCH" \in FlagsOf[op] <=> op \in {"beq", "bne"}
         /\ "AMO" \in FlagsOf[op] <=> op \in {"lr", "sc", "amoadd"}
         /\ "MEMREAD" \in FlagsOf[op] <=> op \in {"lw", "lr", "sc", "amoadd"}
  BY <1>2, <1>3, <1>4 DEF OpNames, FLAGS_ALU_T_R_STD, FLAGS_ALU_I, FLAGS_ALU_I_STORE, FLAGS_AMO_LOAD, FLAGS_AMO_MODIFY
<1>7. \A op \in OpNames :
         /\ "ALU_MOD" \in FlagsOf[op] <=> op \in {"beq", "bne"}
         /\ "XRET" \in FlagsOf[op] <=> op = "mret"
         /\ "REGWRITE" \in FlagsOf[op] => op \notin {"sw"}
         /\ op = "jal" => "ALUSRC" \in FlagsOf[op]
         /\ FlagsOf["addi"] = FLAGS_ALU_I
  BY <1>2, <1>3, <1>4 DEF OpNames, FLAGS_ALU_T_R_STD, FLAGS_ALU_I, FLAGS_ALU_I_STORE, FLAGS_AMO_LOAD, FLAGS_AMO_MODIFY
<1> QED
  BY <1>1, <1>5, <1>6, <1>7

\* The fields of an instruction.
LEMMA InstFacts ==
    /\ NOP \in InstSet /\ NOP.op = "addi" /\ Instructions \subseteq InstSet
    /\ \A i \in InstSet :
          i.op \in Ops /\ i.rd \in Regs /\ i.rs \in Regs /\ i.rt \in Regs /\ i.imm \in V /\ i.csr \in CsrNames
<1> USE CoreAssumption
<1>1. /\ NOP.op = "addi" /\ NOP.rd = 0 /\ NOP.rs = 0 /\ NOP.rt = 0 /\ NOP.imm = 0 /\ NOP.csr = "mscratch"
  BY DEF NOP, Inst
<1>2. 0 \in Regs /\ 0 \in V /\ "mscratch" \in CsrNames /\ "addi" \in Ops
  BY ModN, FlagFacts DEF Regs, CsrNames, OpNames
<1>3. ASSUME NEW i \in Instructions
      PROVE  i.op \in Ops /\ i.rd \in Regs /\ i.rs \in Regs /\ i.rt \in Regs /\ i.imm \in V /\ i.csr \in CsrNames
  BY <1>3 DEF Ops
<1> QED
  BY <1>1, <1>2, <1>3 DEF InstSet

(***************************************************************************)
(* The types of what the stages compute                                    *)
(***************************************************************************)
\* The values of the control and status registers.
LEMMA CsrReadType == ASSUME NEW c \in CsrType, NEW name \in CsrNames PROVE csr_read(c, name) \in V
<1>1. c.mie \in Int /\ (IF c.mpp = MACHINE THEN 2 ELSE 0) \in Int
  BY DEF CsrType
<1>2. (c.mie + (IF c.mpp = MACHINE THEN 2 ELSE 0)) % N \in V
  BY <1>1, ModN
<1>3. name # "mstatus" => c[name] \in V
  BY DEF CsrType, CsrNames
<1> QED
  BY <1>2, <1>3 DEF csr_read

\* A flushed register is one that fetch could leave.
LEMMA FlushedFetchStage == FetchStage(FlushedFetch)
<1>1. FlushedFetch \in FetchReg
  BY ModN, InstFacts DEF FlushedFetch, FetchReg, AnyAddr, Causes
<1> QED
  BY <1>1 DEF FetchStage, FlushedFetch

\* fetch.
LEMMA FetchTypes ==
    ASSUME NEW p \in [V -> Instructions], NEW a \in V, NEW c, NEW irq, NEW skip, NEW predicted \in V
    PROVE  FetchStage(fetch(p, a, c, irq, skip, predicted)) /\ fetch(p, a, c, irq, skip, predicted).is_valid
<1> DEFINE f == fetch(p, a, c, irq, skip, predicted)
<1>1. p[a] \in InstSet /\ NOP \in InstSet /\ (a + 1) % N \in V
  BY ModN, InstFacts
<1>2. f \in FetchReg
  BY <1>1 DEF fetch, FetchReg, AnyAddr, Causes
<1>3. f.is_valid /\ f.inst_addr = a
  BY DEF fetch
<1> HIDE DEF f
<1> QED
  BY <1>2, <1>3 DEF FetchStage, f

\* A register read.
LEMMA ReadType == ASSUME NEW R \in [Regs -> V], NEW r \in Regs PROVE read_gp(R, r) \in V
  BY ModN DEF read_gp

\* decode.
LEMMA DecodeTypes ==
    ASSUME NEW dt, FetchStage(dt), NEW R \in [Regs -> V], NEW c \in CsrType
    PROVE  DecodeStage(decode(dt, R, c)) /\ decode(dt, R, c).is_valid = dt.is_valid
<1> DEFINE d == decode(dt, R, c)
           flags == FlagsOf[dt.inst.op]
           num_rs == IF "ALU_REQ_RS" \in flags THEN dt.inst.rs ELSE 0
           num_rt == IF "ALU_REQ_RT" \in flags THEN dt.inst.rt ELSE 0
           num_rd == IF "REGWRITE" \in flags THEN dt.inst.rd ELSE 0
           cause == IF "PRIV_M" \in flags /\ c.priv # MACHINE THEN "EXCAUSE_INSN_ILLEGAL"
                    ELSE IF dt.excause # NONE \/ "EXCEPTION" \notin flags THEN dt.excause
                    ELSE IF "EBREAK" \in flags THEN "EXCAUSE_BREAK"
                    ELSE IF c.priv = MACHINE THEN "EXCAUSE_ECALL_M"
                    ELSE "EXCAUSE_ECALL_U"
           read == IF "CSR" \in flags THEN csr_read(c, dt.inst.csr) ELSE 0
           writes == "CSR" \in flags /\ ("CSR_TO_ALU" \notin flags \/ num_rs # 0)
<1>1. dt \in FetchReg /\ dt.inst \in InstSet
  BY DEF FetchStage, FetchReg
<1>2. 0 \in Regs /\ 0 \in V
  BY CoreAssumption, ModN DEF Regs
<1>3. num_rs \in Regs /\ num_rt \in Regs /\ num_rd \in Regs /\ flags \in FlagSets
  BY <1>1, <1>2, InstFacts DEF FlagSets
<1>4. read_gp(R, num_rs) \in V /\ read_gp(R, num_rt) \in V
  BY <1>3, ReadType
<1>5. read \in V
  BY <1>1, <1>2, InstFacts, CsrReadType
<1>6. cause \in Causes
  BY <1>1 DEF Causes, FetchReg
<1>7. d = [inst |-> dt.inst, inst_addr |-> dt.inst_addr, next_inst_addr |-> dt.next_inst_addr,
           predicted_next_inst_addr |-> dt.predicted_next_inst_addr, excause |-> cause,
           is_valid |-> dt.is_valid, flags |-> flags, num_rs |-> num_rs, num_rt |-> num_rt,
           num_rd |-> num_rd, val_rs |-> read_gp(R, num_rs), val_rt |-> read_gp(R, num_rt),
           csr_read_val |-> read, csr_write |-> writes]
  BY DEF decode
<1>8. CASE dt.is_valid
  <2>1. dt.inst_addr \in V
    BY <1>8 DEF FetchStage
  <2> HIDE DEF d, flags, num_rs, num_rt, num_rd, cause, read, writes
  <2>2. writes \in BOOLEAN
    BY DEF writes
  <2>3. d \in DecodeReg
    BY <1>1, <1>3, <1>4, <1>5, <1>6, <1>7, <2>2 DEF DecodeReg, FetchReg
  <2>4. d.is_valid = dt.is_valid /\ d.inst_addr = dt.inst_addr /\ d.flags = flags /\ d.inst = dt.inst
    BY <1>7
  <2> QED
    BY <1>8, <2>1, <2>3, <2>4 DEF DecodeStage, d, flags
<1>9. CASE ~dt.is_valid
  <2>1. dt = FlushedFetch
    BY <1>9 DEF FetchStage
  <2>2. /\ dt.inst = NOP /\ dt.excause = NONE /\ dt.next_inst_addr = 0 /\ dt.predicted_next_inst_addr = 0
    BY <2>1 DEF FlushedFetch
  <2>3. flags = FLAGS_ALU_I
    BY <2>2, FlagFacts, InstFacts
  <2>4. NOP.rd = 0 /\ NOP.rs = 0 /\ NOP.rt = 0
    BY DEF NOP, Inst
  <2>5. num_rs = 0 /\ num_rt = 0 /\ num_rd = 0 /\ cause = NONE /\ ~writes
    BY <2>2, <2>3, <2>4 DEF FLAGS_ALU_I
  <2> HIDE DEF d, flags, num_rs, num_rt, num_rd, cause, read, writes
  <2>6. writes \in BOOLEAN
    BY DEF writes
  <2>7. d \in DecodeReg
    BY <1>1, <1>3, <1>4, <1>5, <1>6, <1>7, <2>6 DEF DecodeReg, FetchReg
  <2>8. /\ d.is_valid = dt.is_valid /\ d.flags = flags /\ d.inst = dt.inst /\ d.num_rs = num_rs
        /\ d.num_rt = num_rt /\ d.num_rd = num_rd /\ d.excause = cause /\ (d.csr_write <=> writes)
        /\ d.next_inst_addr = dt.next_inst_addr /\ d.predicted_next_inst_addr = dt.predicted_next_inst_addr
    BY <1>7
  <2>9. Bubble(d)
    BY <2>2, <2>3, <2>5, <2>8 DEF Bubble
  <2> QED
    BY <1>9, <2>5, <2>7, <2>8, <2>9 DEF DecodeStage, d
<1> QED
  BY <1>8, <1>9

\* The ALU.
LEMMA AluType ==
    ASSUME NEW flags, NEW a \in V, NEW b \in V
    PROVE  alu_combined_operate(flags, a, b) \in V
<1>1. a \in Int /\ b \in Int
  BY ModN
<1>2. (a - b) % N \in V /\ (a + b) % N \in V /\ bitwise_or(a, b) \in V
  BY <1>1, ModN, OrFacts
<1> QED
  BY <1>2 DEF alu_combined_operate

\* execute.
LEMMA ExecuteTypes ==
    ASSUME NEW id, DecodeStage(id)
    PROVE  /\ ExecuteStage(execute(id))
           /\ execute(id).is_valid = id.is_valid /\ execute(id).excause = id.excause
<1> DEFINE ex == execute(id)
           fst == IF "PC_TO_ALU" \in id.flags THEN id.inst_addr ELSE id.val_rs
           sec == IF "CSR_TO_ALU" \in id.flags THEN id.csr_read_val
                  ELSE IF "ALUSRC" \in id.flags THEN id.inst.imm ELSE id.val_rt
           alu == IF id.excause # NONE THEN 0 ELSE alu_combined_operate(id.flags, fst, sec)
           target == (id.inst_addr + id.inst.imm) % N
<1>1. id \in DecodeReg /\ id.inst \in InstSet
  BY DEF DecodeStage, DecodeReg
<1>2. "PC_TO_ALU" \in id.flags => id.inst_addr \in V
  BY DEF DecodeStage, Bubble, FLAGS_ALU_I
<1>3. fst \in V /\ sec \in V
  BY <1>1, <1>2, InstFacts DEF DecodeReg
<1>4. alu \in V
  BY <1>3, AluType, ModN
<1>5. id.inst_addr \in Int /\ id.inst.imm \in Int
  BY <1>1, InstFacts, ModN, CoreAssumption DEF DecodeReg, AnyAddr, NoAddr
<1>6. target \in V
  BY <1>5, ModN
<1>7. ex = [inst |-> id.inst, inst_addr |-> id.inst_addr, next_inst_addr |-> id.next_inst_addr,
            predicted_next_inst_addr |-> id.predicted_next_inst_addr, excause |-> id.excause,
            is_valid |-> id.is_valid, flags |-> id.flags, num_rd |-> id.num_rd, val_rt |-> id.val_rt,
            alu_val |-> alu, branch_jal_target |-> target, csr_read_val |-> id.csr_read_val,
            csr_write |-> id.csr_write]
  BY DEF execute
<1> HIDE DEF ex, fst, sec, alu, target
<1>8. ex \in ExecuteReg
  BY <1>1, <1>4, <1>6, <1>7 DEF ExecuteReg, DecodeReg, AnyAddr
<1>9. /\ ex.is_valid = id.is_valid /\ ex.inst = id.inst /\ ex.inst_addr = id.inst_addr /\ ex.flags = id.flags
      /\ ex.excause = id.excause /\ ex.num_rd = id.num_rd /\ ex.csr_write = id.csr_write
      /\ ex.next_inst_addr = id.next_inst_addr
      /\ ex.predicted_next_inst_addr = id.predicted_next_inst_addr /\ ex.branch_jal_target = target
  BY <1>7
<1>10. ~id.is_valid => Bubble(ex)
  BY <1>9 DEF DecodeStage, Bubble
<1>11. ExecuteStage(ex)
  BY <1>6, <1>8, <1>9, <1>10 DEF ExecuteStage, DecodeStage
<1> QED
  BY <1>9, <1>11 DEF ex

\* The data access.
LEMMA MemAccessTypes ==
    ASSUME NEW ex \in ExecuteReg, NEW M \in [V -> V], NEW r \in AnyAddr
    PROVE  LET acc == MemAccess(ex, M, r)
           IN  acc.cause \in Causes /\ acc.value \in V /\ acc.mem \in [V -> V] /\ acc.resv \in AnyAddr
<1> DEFINE a == ex.alu_val
<1>1. a \in V /\ ex.val_rt \in V /\ M[a] \in V /\ 0 \in V /\ 1 % N \in V
  BY ModN DEF ExecuteReg
<1>2. [M EXCEPT ![a] = ex.val_rt] \in [V -> V]
  BY <1>1
<1>3. (M[a] + ex.val_rt) % N \in V
  BY <1>1, ModN
<1>4. [M EXCEPT ![a] = (M[a] + ex.val_rt) % N] \in [V -> V]
  BY <1>3
<1>5. a \in AnyAddr /\ NoAddr \in AnyAddr
  BY <1>1 DEF AnyAddr
<1>6. NONE \in Causes /\ "EXCAUSE_STORE_PAGE_FAULT" \in Causes /\ "EXCAUSE_LOAD_PAGE_FAULT" \in Causes
  BY DEF Causes
<1> QED
  BY <1>1, <1>2, <1>4, <1>5, <1>6, ModN DEF MemAccess

\* Writing the control and status registers.
LEMMA CsrWriteTypes ==
    ASSUME NEW c \in CsrType
    PROVE  /\ \A name \in CsrNames, v \in V : csr_write(c, name, v) \in CsrType
           /\ \A v \in V : [c EXCEPT !.minstret = v] \in CsrType
           /\ exception_return(c) \in CsrType /\ exception_initiate(c) \in CsrType
<1>1. ASSUME NEW name \in CsrNames, NEW v \in V PROVE csr_write(c, name, v) \in CsrType
  <2>1. v % 2 \in {0, 1}
    BY ModN
  <2>2. (IF (v \div 2) % 2 = 1 THEN MACHINE ELSE UNPRIVILEGED) \in Privileges
    BY DEF Privileges
  <2>3. CASE name = "mstatus"
    BY <2>1, <2>2, <2>3 DEF csr_write, CsrType
  <2>4. CASE name = "mscratch"
    BY <2>4 DEF csr_write, CsrType
  <2>5. CASE name = "mepc"
    BY <2>5 DEF csr_write, CsrType
  <2>6. CASE name = "minstret"
    BY <2>6 DEF csr_write, CsrType
  <2> QED
    BY <2>3, <2>4, <2>5, <2>6 DEF CsrNames
<1>2. \A v \in V : [c EXCEPT !.minstret = v] \in CsrType
  BY DEF CsrType
<1>3. UNPRIVILEGED \in Privileges /\ MACHINE \in Privileges
  BY DEF Privileges
<1>4. exception_return(c) \in CsrType
  BY <1>3 DEF exception_return, CsrType
<1>5. exception_initiate(c) \in CsrType
  BY <1>3 DEF exception_initiate, CsrType
<1> QED
  BY <1>1, <1>2, <1>4, <1>5

(***************************************************************************)
(* The parts of the memory stage                                           *)
(***************************************************************************)
Acc(ex, M, r) ==
    IF ex.excause = NONE THEN MemAccess(ex, M, r)
    ELSE [cause |-> ex.excause, value |-> ex.alu_val, mem |-> M, resv |-> r]

Retired(ex) == ex.is_valid /\ ex.excause = NONE
Xret(ex) == Retired(ex) /\ "XRET" \in ex.flags
Counted(ex, c) == IF Retired(ex) THEN [c EXCEPT !.minstret = (@ + 1) % N] ELSE c
Written(ex, c) ==
    IF Retired(ex) /\ ex.csr_write THEN csr_write(Counted(ex, c), ex.inst.csr, ex.alu_val) ELSE Counted(ex, c)
CsrAfter(ex, c) == IF Xret(ex) THEN exception_return(Written(ex, c)) ELSE Written(ex, c)
Taken(ex) == "BRANCH" \in ex.flags /\ (("BJ_NOT" \in ex.flags) <=> ex.alu_val # 0)
NextAddr(ex, c) == IF Xret(ex) THEN Written(ex, c).mepc ELSE compute_next_inst_addr(ex, Taken(ex))
ToWrite(ex, M, r) ==
    IF "CSR" \in ex.flags THEN ex.csr_read_val
    ELSE IF ex.flags \cap {"JUMP", "BRANCH_JALR"} # {} THEN ex.next_inst_addr
    ELSE Acc(ex, M, r).value

\* The memory stage, field by field.
LEMMA MemoryFields ==
    ASSUME NEW ex, NEW M, NEW c, NEW r
    PROVE  LET m == memory(ex, M, c, r)
           IN  /\ m.mem = Acc(ex, M, r).mem /\ m.csr = CsrAfter(ex, c)
               /\ m.resv = IF Xret(ex) THEN NoAddr ELSE Acc(ex, M, r).resv
               /\ m.wb = [inst |-> ex.inst, inst_addr |-> ex.inst_addr,
                          computed_next_inst_addr |-> NextAddr(ex, c),
                          predicted_next_inst_addr |-> ex.predicted_next_inst_addr,
                          excause |-> Acc(ex, M, r).cause, is_valid |-> ex.is_valid,
                          mem_addr |-> ex.alu_val, num_rd |-> ex.num_rd,
                          regwrite |-> "REGWRITE" \in ex.flags /\ Acc(ex, M, r).cause = NONE,
                          towrite_val |-> ToWrite(ex, M, r),
                          csr_written |-> Retired(ex) /\ (ex.csr_write \/ Xret(ex))]
<1> DEFINE acc == IF ex.excause = NONE THEN MemAccess(ex, M, r)
               ELSE [cause |-> ex.excause, value |-> ex.alu_val, mem |-> M, resv |-> r]
           retired == ex.is_valid /\ ex.excause = NONE
           xret == retired /\ "XRET" \in ex.flags
           counted == IF retired THEN [c EXCEPT !.minstret = (@ + 1) % N] ELSE c
           written == IF retired /\ ex.csr_write
                      THEN csr_write(counted, ex.inst.csr, ex.alu_val) ELSE counted
           taken == "BRANCH" \in ex.flags /\ (("BJ_NOT" \in ex.flags) <=> ex.alu_val # 0)
<1>1. memory(ex, M, c, r) =
       [mem |-> acc.mem,
        csr |-> IF xret THEN exception_return(written) ELSE written,
        resv |-> IF xret THEN NoAddr ELSE acc.resv,
        wb |-> [inst |-> ex.inst, inst_addr |-> ex.inst_addr,
                computed_next_inst_addr |->
                   IF xret THEN written.mepc ELSE compute_next_inst_addr(ex, taken),
                predicted_next_inst_addr |-> ex.predicted_next_inst_addr,
                excause |-> acc.cause, is_valid |-> ex.is_valid, mem_addr |-> ex.alu_val,
                num_rd |-> ex.num_rd,
                regwrite |-> "REGWRITE" \in ex.flags /\ acc.cause = NONE,
                towrite_val |-> IF "CSR" \in ex.flags THEN ex.csr_read_val
                                ELSE IF ex.flags \cap {"JUMP", "BRANCH_JALR"} # {} THEN ex.next_inst_addr
                                ELSE acc.value,
                csr_written |-> retired /\ (ex.csr_write \/ xret)]]
  BY DEF memory
<1>2. acc = Acc(ex, M, r)
  BY DEF Acc
<1>3. retired = Retired(ex) /\ xret = Xret(ex) /\ taken = Taken(ex)
  BY DEF Retired, Xret, Taken
<1>4. counted = Counted(ex, c)
  BY DEF Counted, Retired
<1>5. written = Written(ex, c)
  BY <1>4 DEF Written, Retired
<1> HIDE DEF acc, retired, xret, counted, written, taken
<1> QED
  BY <1>1, <1>2, <1>3, <1>5 DEF CsrAfter, NextAddr, ToWrite

\* The types of the parts.
LEMMA MemoryTypes ==
    ASSUME NEW ex, ExecuteStage(ex), NEW M \in [V -> V], NEW c \in CsrType, NEW r \in AnyAddr,
           NEW m, m = memory(ex, M, c, r)
    PROVE  /\ m.mem \in [V -> V] /\ m.csr \in CsrType /\ m.resv \in AnyAddr
           /\ MemoryStage(m.wb) /\ m.wb.is_valid = ex.is_valid
<1>1. ex \in ExecuteReg /\ ex.inst \in InstSet /\ ex.alu_val \in V /\ ex.excause \in Causes
  BY DEF ExecuteStage, ExecuteReg
<1>2. /\ Acc(ex, M, r).cause \in Causes /\ Acc(ex, M, r).value \in V
      /\ Acc(ex, M, r).mem \in [V -> V] /\ Acc(ex, M, r).resv \in AnyAddr
  BY <1>1, MemAccessTypes DEF Acc
<1>3. Counted(ex, c) \in CsrType
  <2>1. c.minstret \in V
    BY DEF CsrType
  <2>2. (c.minstret + 1) % N \in V
    BY <2>1, ModN
  <2> QED
    BY <2>2, CsrWriteTypes DEF Counted
<1>4. Written(ex, c) \in CsrType
  BY <1>1, <1>3, InstFacts, CsrWriteTypes DEF Written
<1>5. CsrAfter(ex, c) \in CsrType
  BY <1>4, CsrWriteTypes DEF CsrAfter
<1>6. NextAddr(ex, c) \in V
  <2>1. Written(ex, c).mepc \in V
    BY <1>4 DEF CsrType
  <2>2. Taken(ex) \/ "JUMP" \in ex.flags => ex.branch_jal_target \in V
    BY DEF ExecuteStage, Bubble, Taken, FLAGS_ALU_I
  <2>3. ex.next_inst_addr \in V
    BY <1>1 DEF ExecuteReg
  <2> QED
    BY <1>1, <2>1, <2>2, <2>3 DEF NextAddr, compute_next_inst_addr
<1>7. ToWrite(ex, M, r) \in V
  BY <1>1, <1>2 DEF ToWrite, ExecuteReg
<1>8. Acc(ex, M, r).cause # NONE => ex.is_valid
  <2> SUFFICES ASSUME ~ex.is_valid PROVE Acc(ex, M, r).cause = NONE
    OBVIOUS
  <2>1. ex.excause = NONE /\ ex.inst.op = "addi"
    BY InstFacts DEF ExecuteStage, Bubble
  <2> QED
    BY <2>1 DEF Acc, MemAccess
<1>9. NoAddr \in AnyAddr
  BY DEF AnyAddr
<1>10. /\ m.mem = Acc(ex, M, r).mem /\ m.csr = CsrAfter(ex, c)
       /\ m.resv = IF Xret(ex) THEN NoAddr ELSE Acc(ex, M, r).resv
       /\ m.wb = [inst |-> ex.inst, inst_addr |-> ex.inst_addr,
                  computed_next_inst_addr |-> NextAddr(ex, c),
                  predicted_next_inst_addr |-> ex.predicted_next_inst_addr,
                  excause |-> Acc(ex, M, r).cause, is_valid |-> ex.is_valid,
                  mem_addr |-> ex.alu_val, num_rd |-> ex.num_rd,
                  regwrite |-> "REGWRITE" \in ex.flags /\ Acc(ex, M, r).cause = NONE,
                  towrite_val |-> ToWrite(ex, M, r),
                  csr_written |-> Retired(ex) /\ (ex.csr_write \/ Xret(ex))]
  BY MemoryFields
<1>11. m.wb \in MemoryReg
  BY <1>1, <1>2, <1>6, <1>7, <1>10 DEF MemoryReg, ExecuteReg
<1>12. ex.is_valid => ex.inst_addr \in V
  BY DEF ExecuteStage
<1>13. MemoryStage(m.wb) /\ m.wb.is_valid = ex.is_valid
  BY <1>8, <1>10, <1>11, <1>12 DEF MemoryStage
<1> QED
  BY <1>2, <1>5, <1>9, <1>10, <1>13

(***************************************************************************)
(* Types: the rest of the step                                             *)
(***************************************************************************)
\* writeback.
LEMMA WritebackType ==
    ASSUME NEW wb \in MemoryReg, NEW R \in [Regs -> V] PROVE writeback(wb, R) \in [Regs -> V]
<1>1. wb.towrite_val \in V
  BY DEF MemoryReg
<1> QED
  BY <1>1 DEF writeback, write_gp

\* handle_exception.
LEMMA HandleTypes ==
    ASSUME NEW wb, MemoryStage(wb), wb.excause # NONE, NEW c \in CsrType, NEW r \in AnyAddr
    PROVE  LET x == handle_exception(wb, c, r) IN x.pc \in V /\ x.csr \in CsrType /\ x.resv \in AnyAddr
<1> DEFINE tval == IF wb.excause \in PageFaults THEN wb.mem_addr ELSE 0
           c1 == [c EXCEPT !.mepc = wb.inst_addr]
           c2 == [c1 EXCEPT !.mtval = tval]
           recorded == [c EXCEPT !.mepc = wb.inst_addr, !.mtval = tval,
                                 ![IF c.priv = MACHINE THEN "mcause" ELSE "scause"] = wb.excause]
<1>1. /\ wb \in MemoryReg /\ wb.inst_addr \in V /\ wb.mem_addr \in V /\ wb.excause \in Causes
      /\ wb.computed_next_inst_addr \in V
  BY DEF MemoryStage, MemoryReg
<1>2. tval \in V
  BY <1>1, ModN
<1> HIDE DEF tval
<1>3. c1 \in CsrType
  BY <1>1 DEF CsrType
<1>4. recorded = IF c.priv = MACHINE THEN [c2 EXCEPT !.mcause = wb.excause]
                 ELSE [c2 EXCEPT !.scause = wb.excause]
  OBVIOUS
<1> HIDE DEF c1
<1>5. c2 \in CsrType
  BY <1>2, <1>3 DEF CsrType
<1> HIDE DEF c2
<1>6. [c2 EXCEPT !.mcause = wb.excause] \in CsrType /\ [c2 EXCEPT !.scause = wb.excause] \in CsrType
  BY <1>1, <1>5 DEF CsrType
<1>7. recorded \in CsrType
  BY <1>4, <1>6
<1>8. handle_exception(wb, c, r) =
        IF wb.excause = "EXCAUSE_INSN_ILLEGAL"
        THEN [pc |-> wb.computed_next_inst_addr, csr |-> c, resv |-> r]
        ELSE IF wb.excause = "EXCAUSE_HWBREAK"
        THEN [pc |-> wb.inst_addr, csr |-> c, resv |-> r]
        ELSE IF MTVEC # 0 /\ wb.excause \notin StepOver
        THEN [pc |-> MTVEC, csr |-> exception_initiate(recorded), resv |-> NoAddr]
        ELSE [pc |-> wb.computed_next_inst_addr, csr |-> recorded, resv |-> NoAddr]
  BY DEF handle_exception, tval
<1> HIDE DEF recorded
<1>9. exception_initiate(recorded) \in CsrType /\ NoAddr \in AnyAddr /\ MTVEC \in V
  BY <1>7, CsrWriteTypes, CoreAssumption DEF AnyAddr
<1> QED
  BY <1>1, <1>7, <1>8, <1>9

\* Flushed registers.
LEMMA FlushedStages ==
    /\ DecodeStage(FlushedDecode) /\ ~FlushedDecode.is_valid /\ FlushedDecode.excause = NONE
    /\ ExecuteStage(FlushedExecute) /\ ~FlushedExecute.is_valid /\ FlushedExecute.excause = NONE
    /\ MemoryStage(FlushedMemory) /\ FlushedMemory.excause = NONE
    /\ ~FlushedFetch.is_valid /\ FlushedFetch.excause = NONE
<1>1. 0 \in V /\ 0 \in Regs /\ NoAddr \in AnyAddr /\ NONE \in Causes /\ {} \in FlagSets /\ NOP \in InstSet
  BY ModN, CoreAssumption, InstFacts DEF Regs, AnyAddr, Causes, FlagSets
<1>2. FlushedDecode \in DecodeReg
  BY <1>1 DEF FlushedDecode, DecodeReg
<1>3. FlushedExecute \in ExecuteReg
  BY <1>1 DEF FlushedExecute, ExecuteReg
<1>4. FlushedMemory \in MemoryReg
  BY <1>1 DEF FlushedMemory, MemoryReg
<1>5. DecodeStage(FlushedDecode) /\ ~FlushedDecode.is_valid /\ FlushedDecode.excause = NONE
  BY <1>2 DEF DecodeStage, FlushedDecode, Bubble
<1>6. ExecuteStage(FlushedExecute) /\ ~FlushedExecute.is_valid /\ FlushedExecute.excause = NONE
  BY <1>3 DEF ExecuteStage, FlushedExecute, Bubble
<1>7. MemoryStage(FlushedMemory) /\ FlushedMemory.excause = NONE
  BY <1>4 DEF MemoryStage, FlushedMemory
<1> QED
  BY <1>5, <1>6, <1>7 DEF FlushedFetch

\* Two decoded instructions that may differ in their operands alone.
SameButOperands(x, y) ==
    /\ SameFetch(x, y) /\ x.predicted_next_inst_addr = y.predicted_next_inst_addr
    /\ x.flags = y.flags /\ x.num_rs = y.num_rs /\ x.num_rt = y.num_rt /\ x.num_rd = y.num_rd
    /\ x.csr_read_val = y.csr_read_val /\ x.csr_write = y.csr_write

\* Forwarding changes operands only.
LEMMA ForwardedTypes ==
    ASSUME NEW id \in DecodeReg, NEW rd, NEW val \in V, NEW y, y = Forwarded(id, rd, val)
    PROVE  /\ y \in DecodeReg /\ SameButOperands(y, id)
           /\ y.val_rs = IF "ALU_REQ_RS" \in id.flags /\ rd = id.num_rs THEN val ELSE id.val_rs
           /\ y.val_rt = IF "ALU_REQ_RT" \in id.flags /\ rd = id.num_rt THEN val ELSE id.val_rt
<1> DEFINE a == IF "ALU_REQ_RS" \in id.flags /\ rd = id.num_rs THEN val ELSE id.val_rs
           b == IF "ALU_REQ_RT" \in id.flags /\ rd = id.num_rt THEN val ELSE id.val_rt
<1>1. a \in V /\ b \in V
  BY DEF DecodeReg
<1>2. y = [id EXCEPT !.val_rs = a, !.val_rt = b]
  BY DEF Forwarded
<1> HIDE DEF a, b
<1>3. y \in DecodeReg
  BY <1>1, <1>2 DEF DecodeReg
<1>4. y.val_rs = a /\ y.val_rt = b
  BY <1>2 DEF DecodeReg
<1>5. SameButOperands(y, id)
  BY <1>2 DEF DecodeReg, SameButOperands, SameFetch
<1> QED
  BY <1>3, <1>4, <1>5 DEF a, b

\* And so does the hazard unit.
LEMMA HazardTypes ==
    ASSUME NEW id, DecodeStage(id), NEW ex, ExecuteStage(ex), NEW wb, MemoryStage(wb),
           NEW y, y = handle_data_hazards(id, ex, wb).id_ex
    PROVE  DecodeStage(y) /\ SameButOperands(y, id)
<1> DEFINE forward == HazardUnit = "HU_STALL_FORWARD"
           id1 == IF is_hazard_in_stage(wb.regwrite, wb.num_rd, id) /\ forward
                  THEN Forwarded(id, wb.num_rd, wb.towrite_val) ELSE id
           id2 == IF /\ is_hazard_in_stage("REGWRITE" \in ex.flags, ex.num_rd, id) /\ forward
                     /\ "MEMREAD" \notin ex.flags
                  THEN Forwarded(id1, ex.num_rd, ex.alu_val) ELSE id1
<1>1. id \in DecodeReg /\ ex.alu_val \in V /\ wb.towrite_val \in V
  BY DEF DecodeStage, ExecuteStage, MemoryStage, ExecuteReg, MemoryReg
<1>2. SameButOperands(id, id)
  BY DEF SameButOperands, SameFetch
<1>3. y = IF HazardUnit = "HU_NONE" THEN id ELSE id2
  BY DEF handle_data_hazards
<1>4. id1 \in DecodeReg /\ SameButOperands(id1, id)
  BY <1>1, <1>2, ForwardedTypes
<1> HIDE DEF id1
<1>5. id2 \in DecodeReg /\ SameButOperands(id2, id)
  BY <1>1, <1>4, ForwardedTypes DEF SameButOperands, SameFetch
<1> HIDE DEF id2
<1>6. y \in DecodeReg /\ SameButOperands(y, id)
  BY <1>1, <1>2, <1>3, <1>5
<1> QED
  BY <1>6 DEF DecodeStage, SameButOperands, SameFetch, Bubble

(***************************************************************************)
(* One step, with a name for what each stage computes                      *)
(***************************************************************************)
Parts(s, irq, skip, predicted, R, m, ex, id, f) ==
    /\ R = writeback(mem_wb, regs)
    /\ m = memory(ex_mem, mem, csr, resv)
    /\ ex = IF m.wb.excause # NONE THEN FlushedExecute ELSE execute(id_ex)
    /\ id = IF m.wb.excause # NONE \/ ex.excause # NONE THEN FlushedDecode ELSE decode(if_id, R, m.csr)
    /\ f = IF stop_if THEN FlushedFetch ELSE fetch(prog, pc, m.csr, irq, skip, predicted)
    /\ s.regs = R /\ s.mem = m.mem /\ s.csr = m.csr /\ s.resv = m.resv /\ s.mem_wb = m.wb
    /\ s.ex_mem = ex
    /\ s.id_ex = handle_data_hazards(id, ex, m.wb).id_ex
    /\ s.stall = handle_data_hazards(id, ex, m.wb).stall
    /\ s.exception_in_progress <=> m.wb.excause # NONE \/ ex.excause # NONE \/ id.excause # NONE
    /\ s.if_id = IF m.wb.excause # NONE \/ ex.excause # NONE \/ id.excause # NONE THEN FlushedFetch ELSE f

\* Every step has its parts.
LEMMA StageParts ==
    ASSUME NEW irq, NEW skip, NEW predicted, NEW s, s = Stages(irq, skip, predicted)
    PROVE  \E R, m, ex, id, f : Parts(s, irq, skip, predicted, R, m, ex, id, f)
<1>1. PICK R, m : R = writeback(mem_wb, regs) /\ m = memory(ex_mem, mem, csr, resv)
  OBVIOUS
<1>2. PICK ex : ex = IF m.wb.excause # NONE THEN FlushedExecute ELSE execute(id_ex)
  OBVIOUS
<1>3. PICK id : id = IF m.wb.excause # NONE \/ ex.excause # NONE THEN FlushedDecode ELSE decode(if_id, R, m.csr)
  OBVIOUS
<1>4. PICK f : f = IF stop_if THEN FlushedFetch ELSE fetch(prog, pc, m.csr, irq, skip, predicted)
  OBVIOUS
<1> DEFINE exc == (m.wb.excause # NONE \/ ex.excause # NONE) \/ id.excause # NONE
<1>5. s = [regs |-> R, mem |-> m.mem, csr |-> m.csr, resv |-> m.resv, mem_wb |-> m.wb, ex_mem |-> ex,
           id_ex |-> handle_data_hazards(id, ex, m.wb).id_ex,
           if_id |-> IF exc THEN FlushedFetch ELSE f,
           exception_in_progress |-> exc,
           stall |-> handle_data_hazards(id, ex, m.wb).stall]
  BY <1>1, <1>2, <1>3, <1>4 DEF Stages, flushed_if
<1> HIDE DEF exc
<1>6. /\ s.regs = R /\ s.mem = m.mem /\ s.csr = m.csr /\ s.resv = m.resv /\ s.mem_wb = m.wb
      /\ s.ex_mem = ex /\ s.id_ex = handle_data_hazards(id, ex, m.wb).id_ex
      /\ s.stall = handle_data_hazards(id, ex, m.wb).stall
      /\ (s.exception_in_progress <=> exc) /\ s.if_id = IF exc THEN FlushedFetch ELSE f
  BY <1>5
<1>7. exc <=> m.wb.excause # NONE \/ ex.excause # NONE \/ id.excause # NONE
  BY DEF exc
<1>8. Parts(s, irq, skip, predicted, R, m, ex, id, f)
  BY <1>1, <1>2, <1>3, <1>4, <1>6, <1>7 DEF Parts
<1> QED
  BY <1>8

\* The predictor answers with an address.
LEMMA PredictionsAreAddresses == ASSUME CoreType PROVE Predictions \subseteq V
<1>1. (pc + 1) % N \in V
  BY ModN DEF CoreType
<1> QED
  BY <1>1 DEF Predictions

\* The types of the parts.
LEMMA PartTypes ==
    ASSUME TypeInv, NEW irq, NEW skip, NEW predicted \in V, NEW s,
           NEW R, NEW m, NEW ex, NEW id, NEW f, Parts(s, irq, skip, predicted, R, m, ex, id, f)
    PROVE  /\ R \in [Regs -> V] /\ m.mem \in [V -> V] /\ m.csr \in CsrType /\ m.resv \in AnyAddr
           /\ MemoryStage(m.wb) /\ ExecuteStage(ex) /\ DecodeStage(id) /\ FetchStage(f)
           /\ DecodeStage(s.id_ex) /\ SameButOperands(s.id_ex, id)
<1>1. /\ m = memory(ex_mem, mem, csr, resv) /\ R = writeback(mem_wb, regs)
      /\ ex = IF m.wb.excause # NONE THEN FlushedExecute ELSE execute(id_ex)
      /\ id = IF m.wb.excause # NONE \/ ex.excause # NONE THEN FlushedDecode ELSE decode(if_id, R, m.csr)
      /\ f = IF stop_if THEN FlushedFetch ELSE fetch(prog, pc, m.csr, irq, skip, predicted)
      /\ s.id_ex = handle_data_hazards(id, ex, m.wb).id_ex
  BY DEF Parts
<1>2. R \in [Regs -> V]
  BY <1>1, WritebackType DEF TypeInv, CoreType, MemoryStage
<1>3. m.mem \in [V -> V] /\ m.csr \in CsrType /\ m.resv \in AnyAddr /\ MemoryStage(m.wb)
  BY <1>1, MemoryTypes DEF TypeInv, CoreType
<1>4. ExecuteStage(ex)
  BY <1>1, ExecuteTypes, FlushedStages DEF TypeInv, CoreType
<1>5. DecodeStage(id)
  BY <1>1, <1>2, <1>3, DecodeTypes, FlushedStages DEF TypeInv, CoreType
<1>6. FetchStage(f)
  BY <1>1, FetchTypes, FlushedFetchStage DEF TypeInv, CoreType
<1>7. DecodeStage(s.id_ex) /\ SameButOperands(s.id_ex, id)
  BY <1>1, <1>3, <1>4, <1>5, HazardTypes
<1> QED
  BY <1>2, <1>3, <1>4, <1>5, <1>6, <1>7

(***************************************************************************)
(* Types and exceptions: every step                                        *)
(***************************************************************************)
\* The exception cascade, in the parts of a step.
LEMMA Cascade ==
    ASSUME TypeInv, NEW irq, NEW skip, NEW predicted \in V, NEW s,
           NEW R, NEW m, NEW ex, NEW id, NEW f, Parts(s, irq, skip, predicted, R, m, ex, id, f)
    PROVE  /\ s.id_ex.is_valid = id.is_valid /\ s.id_ex.excause = id.excause
           /\ m.wb.excause # NONE => ~ex.is_valid /\ ex.excause = NONE
           /\ m.wb.excause # NONE \/ ex.excause # NONE => ~id.is_valid /\ id.excause = NONE
           /\ m.wb.excause # NONE \/ ex.excause # NONE \/ id.excause # NONE => ~s.if_id.is_valid
           /\ FetchStage(s.if_id)
<1>1. SameButOperands(s.id_ex, id) /\ FetchStage(f)
  BY PartTypes
<1>2. s.id_ex.is_valid = id.is_valid /\ s.id_ex.excause = id.excause
  BY <1>1 DEF SameButOperands, SameFetch
<1> QED
  BY <1>1, <1>2, FlushedStages, FlushedFetchStage DEF Parts

\* A step of the pipeline.
LEMMA StepTypes ==
    ASSUME TypeInv, NEW irq, NEW skip, NEW predicted \in V, do_step(irq, skip, predicted)
    PROVE  TypeInv'
<1>1. PICK s : /\ s = Stages(irq, skip, predicted)
               /\ ~trapped /\ trapped' = (s.mem_wb.excause = "EXCAUSE_INSN_ILLEGAL")
               /\ regs' = s.regs /\ mem' = s.mem /\ mem_wb' = s.mem_wb /\ prog' = prog
               /\ \/ HandleException(s) \/ flush_and_continue_from_address(s) \/ StopFetching(s)
                  \/ handle_stall(s) \/ Advance(s)
  BY DEF do_step
<1>2. PICK R, m, ex, id, f : Parts(s, irq, skip, predicted, R, m, ex, id, f)
  BY <1>1, StageParts
<1>3. /\ R \in [Regs -> V] /\ m.mem \in [V -> V] /\ m.csr \in CsrType /\ m.resv \in AnyAddr
      /\ MemoryStage(m.wb) /\ ExecuteStage(ex) /\ DecodeStage(s.id_ex)
  BY <1>2, PartTypes
<1>4. /\ s.id_ex.is_valid = id.is_valid /\ s.id_ex.excause = id.excause
      /\ m.wb.excause # NONE => ~ex.is_valid /\ ex.excause = NONE
      /\ m.wb.excause # NONE \/ ex.excause # NONE => ~id.is_valid /\ id.excause = NONE
      /\ m.wb.excause # NONE \/ ex.excause # NONE \/ id.excause # NONE => ~s.if_id.is_valid
      /\ FetchStage(s.if_id)
  BY <1>2, Cascade
<1>5. /\ s.regs = R /\ s.mem = m.mem /\ s.csr = m.csr /\ s.resv = m.resv /\ s.mem_wb = m.wb /\ s.ex_mem = ex
      /\ s.exception_in_progress <=> m.wb.excause # NONE \/ ex.excause # NONE \/ id.excause # NONE
  BY <1>2 DEF Parts
<1>6. /\ prog \in [V -> Instructions] /\ pc \in V /\ FetchStage(if_id)
  BY DEF TypeInv, CoreType
<1>7. /\ prog' \in [V -> Instructions] /\ regs' \in [Regs -> V] /\ mem' \in [V -> V] /\ trapped' \in BOOLEAN
      /\ MemoryStage(mem_wb') /\ (mem_wb'.excause = "EXCAUSE_INSN_ILLEGAL" => trapped')
  BY <1>1, <1>3, <1>5, <1>6
<1>8. m.wb.computed_next_inst_addr \in V /\ s.if_id.predicted_next_inst_addr \in V
  BY <1>3, <1>4 DEF MemoryStage, MemoryReg, FetchStage, FetchReg
<1> DEFINE Rest ==
      /\ pc' \in V /\ csr' \in CsrType /\ resv' \in AnyAddr /\ stop_if' \in BOOLEAN
      /\ FetchStage(if_id') /\ DecodeStage(id_ex') /\ ExecuteStage(ex_mem')
      /\ ex_mem'.excause # NONE => ~id_ex'.is_valid /\ ~if_id'.is_valid
      /\ id_ex'.excause # NONE => ~if_id'.is_valid
<1>9. ASSUME HandleException(s) PROVE Rest
  <2>1. PICK x : x = handle_exception(m.wb, m.csr, m.resv)
    OBVIOUS
  <2>2. /\ m.wb.excause # NONE /\ pc' = x.pc /\ csr' = x.csr /\ resv' = x.resv /\ stop_if' = FALSE
        /\ if_id' = s.if_id /\ id_ex' = s.id_ex /\ ex_mem' = s.ex_mem
    BY <1>5, <1>9, <2>1 DEF HandleException
  <2>3. x.pc \in V /\ x.csr \in CsrType /\ x.resv \in AnyAddr
    BY <1>3, <2>1, <2>2, HandleTypes
  <2> QED
    BY <1>3, <1>4, <1>5, <2>2, <2>3
<1>10. ASSUME flush_and_continue_from_address(s) PROVE Rest
  BY <1>3, <1>5, <1>8, <1>10, FlushedStages, FlushedFetchStage DEF flush_and_continue_from_address
<1>11. ASSUME StopFetching(s) PROVE Rest
  BY <1>3, <1>4, <1>5, <1>6, <1>11 DEF StopFetching, NoRedirect
<1>12. ASSUME handle_stall(s) PROVE Rest
  BY <1>3, <1>4, <1>5, <1>6, <1>12, FlushedStages DEF handle_stall, NoRedirect
<1>13. ASSUME Advance(s) PROVE Rest
  BY <1>3, <1>4, <1>5, <1>8, <1>13 DEF Advance, NoRedirect
<1>14. Rest
  BY <1>1, <1>9, <1>10, <1>11, <1>12, <1>13
<1> QED
  BY <1>7, <1>14 DEF TypeInv, CoreType, NothingBehindException

\* A step that ends in decode: there is an instruction in ID, so the one before it has
\* no exception.
LEMMA ThrowTypes == ASSUME TypeInv, DecodeThrows PROVE TypeInv'
<1>1. PICK m : /\ m = memory(ex_mem, mem, csr, resv) /\ decode_throws(if_id, m.csr)
               /\ trapped' = TRUE /\ regs' = writeback(mem_wb, regs)
               /\ mem' = m.mem /\ csr' = m.csr /\ resv' = m.resv /\ mem_wb' = m.wb
               /\ ex_mem' = execute(id_ex) /\ UNCHANGED <<prog, pc, stop_if, if_id, id_ex>>
  BY DEF DecodeThrows
<1>2. writeback(mem_wb, regs) \in [Regs -> V]
  BY WritebackType DEF TypeInv, CoreType, MemoryStage
<1>3. m.mem \in [V -> V] /\ m.csr \in CsrType /\ m.resv \in AnyAddr /\ MemoryStage(m.wb)
  BY <1>1, MemoryTypes DEF TypeInv, CoreType
<1>4. ExecuteStage(execute(id_ex)) /\ execute(id_ex).excause = id_ex.excause
  BY ExecuteTypes DEF TypeInv, CoreType
<1>5. if_id.is_valid
  <2> SUFFICES ASSUME ~if_id.is_valid PROVE FALSE
    OBVIOUS
  <2>1. if_id.inst = NOP
    BY DEF TypeInv, CoreType, FetchStage, FlushedFetch
  <2>2. "CSR" \notin FlagsOf[if_id.inst.op]
    BY <2>1, InstFacts, FlagFacts DEF FLAGS_ALU_I
  <2> QED
    BY <1>1, <2>2 DEF decode_throws
<1>6. id_ex.excause = NONE
  BY <1>5 DEF TypeInv, NothingBehindException
<1>7. NothingBehindException'
  BY <1>1, <1>4, <1>6 DEF NothingBehindException
<1>8. CoreType'
  BY <1>1, <1>2, <1>3, <1>4 DEF TypeInv, CoreType
<1> QED
  BY <1>1, <1>7, <1>8 DEF TypeInv

\* The core starts with an empty pipeline.
LEMMA InitTypes == Init => TypeInv
<1> SUFFICES ASSUME Init PROVE TypeInv
  OBVIOUS
<1> USE CoreAssumption
<1>1. 0 \in V /\ NoAddr \in AnyAddr
  BY ModN DEF AnyAddr
<1>2. CsrInit \in CsrType
  BY <1>1 DEF CsrInit, CsrType, Causes, Privileges
<1>3. prog \in [V -> Instructions]
  BY DEF Init, Programs
<1>4. CoreType
  BY <1>1, <1>2, <1>3, FlushedStages, FlushedFetchStage DEF Init, CoreType, RegsInit
<1>5. NothingBehindException
  BY FlushedStages DEF Init, NothingBehindException
<1>6. mem_wb.excause # "EXCAUSE_INSN_ILLEGAL"
  BY FlushedStages DEF Init, NONE
<1> QED
  BY <1>4, <1>5, <1>6 DEF TypeInv

\* Every step keeps the types.
LEMMA NextTypes == TypeInv /\ [Next]_vars => TypeInv'
<1> SUFFICES ASSUME TypeInv, [Next]_vars PROVE TypeInv'
  OBVIOUS
<1>1. CASE UNCHANGED vars
  BY <1>1 DEF vars, TypeInv, CoreType, NothingBehindException
<1>2. ASSUME NEW irq \in Irqs, NEW skip \in SkipBreaks, NEW predicted \in Predictions,
             do_step(irq, skip, predicted)
      PROVE  TypeInv'
  BY <1>2, PredictionsAreAddresses, StepTypes DEF TypeInv
<1>3. CASE DecodeThrows
  BY <1>3, ThrowTypes
<1> QED
  BY <1>1, <1>2, <1>3 DEF Next

\* The registers, the memory and the stages keep their types, a stage without an
\* instruction does nothing, and nothing is behind an exception.
THEOREM CoreTypes == Spec => []TypeInv
<1> QED
  BY InitTypes, NextTypes, PTL DEF Spec

\* Nothing younger than an instruction with an exception is in the pipeline, for every
\* program, hazard unit and predictor.
THEOREM NothingBehindExceptionTheorem == Spec => []NothingBehindException
<1>1. TypeInv => NothingBehindException
  BY DEF TypeInv
<1> QED
  BY <1>1, CoreTypes, PTL

(***************************************************************************)
(* Refinement: what an older instruction leaves alone.  An instruction     *)
(* that leaves the memory stage without an exception and does not restart  *)
(* the fetch changes nothing of csr that a younger one has looked at.      *)
(***************************************************************************)
SameLevel(c, c2) == c.priv = c2.priv /\ c.mie = c2.mie

Quiet(wb) == wb.excause = NONE /\ ~RestartsFetch(wb)

\* The same, for a memory stage with a name.
LEMMA MemoryParts ==
    ASSUME NEW ex, NEW M, NEW c, NEW r, NEW m, m = memory(ex, M, c, r)
    PROVE  /\ m.mem = Acc(ex, M, r).mem /\ m.csr = CsrAfter(ex, c)
           /\ m.resv = IF Xret(ex) THEN NoAddr ELSE Acc(ex, M, r).resv
           /\ m.wb.inst_addr = ex.inst_addr /\ m.wb.computed_next_inst_addr = NextAddr(ex, c)
           /\ m.wb.predicted_next_inst_addr = ex.predicted_next_inst_addr
           /\ m.wb.excause = Acc(ex, M, r).cause /\ m.wb.mem_addr = ex.alu_val /\ m.wb.num_rd = ex.num_rd
           /\ (m.wb.regwrite <=> "REGWRITE" \in ex.flags /\ Acc(ex, M, r).cause = NONE)
           /\ m.wb.towrite_val = ToWrite(ex, M, r)
           /\ (m.wb.csr_written <=> Retired(ex) /\ (ex.csr_write \/ Xret(ex)))
<1> DEFINE regwrite == "REGWRITE" \in ex.flags /\ Acc(ex, M, r).cause = NONE
           csr_written == Retired(ex) /\ (ex.csr_write \/ Xret(ex))
<1>1. /\ m.mem = Acc(ex, M, r).mem /\ m.csr = CsrAfter(ex, c)
      /\ m.resv = IF Xret(ex) THEN NoAddr ELSE Acc(ex, M, r).resv
      /\ m.wb = [inst |-> ex.inst, inst_addr |-> ex.inst_addr,
                 computed_next_inst_addr |-> NextAddr(ex, c),
                 predicted_next_inst_addr |-> ex.predicted_next_inst_addr,
                 excause |-> Acc(ex, M, r).cause, is_valid |-> ex.is_valid,
                 mem_addr |-> ex.alu_val, num_rd |-> ex.num_rd,
                 regwrite |-> regwrite, towrite_val |-> ToWrite(ex, M, r), csr_written |-> csr_written]
  BY MemoryFields
<1> HIDE DEF regwrite, csr_written
<1>2. m.wb.regwrite = regwrite
  BY <1>1
<1>3. m.wb.csr_written = csr_written
  BY <1>1
<1>4. /\ m.wb.inst_addr = ex.inst_addr /\ m.wb.computed_next_inst_addr = NextAddr(ex, c)
      /\ m.wb.predicted_next_inst_addr = ex.predicted_next_inst_addr
      /\ m.wb.excause = Acc(ex, M, r).cause /\ m.wb.mem_addr = ex.alu_val /\ m.wb.num_rd = ex.num_rd
      /\ m.wb.towrite_val = ToWrite(ex, M, r)
  BY <1>1
<1> QED
  BY <1>1, <1>2, <1>3, <1>4 DEF regwrite, csr_written

\* The control and status registers after a quiet instruction.
LEMMA QuietCsr ==
    ASSUME NEW ex, NEW M, NEW c \in CsrType, NEW r, NEW m, m = memory(ex, M, c, r), Quiet(m.wb)
    PROVE  SameLevel(c, m.csr) /\ (~ex.is_valid => m.csr = c)
<1>1. m.csr = CsrAfter(ex, c) /\ (m.wb.csr_written <=> Retired(ex) /\ (ex.csr_write \/ Xret(ex)))
  BY MemoryParts
<1>2. ~(Retired(ex) /\ (ex.csr_write \/ Xret(ex)))
  BY <1>1 DEF Quiet, RestartsFetch
<1>3. m.csr = Counted(ex, c)
  BY <1>1, <1>2 DEF CsrAfter, Written, Xret
<1>4. SameLevel(c, Counted(ex, c))
  BY DEF Counted, SameLevel, CsrType
<1>5. ~ex.is_valid => Counted(ex, c) = c
  BY DEF Counted, Retired
<1> QED
  BY <1>3, <1>4, <1>5

\* The fetch does not depend on what a quiet instruction changes, nor does the
\* permission to decode.
LEMMA FetchStable ==
    ASSUME NEW c, NEW c2, SameLevel(c, c2), NEW a, NEW irq, NEW skip
    PROVE  /\ SingleFetch(a, c2, irq, skip) = SingleFetch(a, c, irq, skip)
           /\ \A f : decode_throws(f, c2) <=> decode_throws(f, c)
<1>1. core_interrupt_enabled(c2) = core_interrupt_enabled(c)
  BY DEF SameLevel, core_interrupt_enabled
<1> QED
  BY <1>1 DEF SingleFetch, fetch, decode_throws, SameLevel

\* decode, of the same instruction.
LEMMA DecodeSame ==
    ASSUME NEW x, NEW y, SameFetch(x, y), NEW R, NEW S, NEW c, NEW c2, c.priv = c2.priv,
           NEW dx, dx = decode(x, R, c), NEW dy, dy = decode(y, S, c2)
    PROVE  /\ SameFetch(dx, dy) /\ dx.flags = dy.flags /\ dx.num_rs = dy.num_rs /\ dx.num_rt = dy.num_rt
           /\ dx.num_rd = dy.num_rd /\ dx.csr_write = dy.csr_write
           /\ "CSR" \notin dx.flags \/ c = c2 => dx.csr_read_val = dy.csr_read_val
           /\ dx.flags = FlagsOf[x.inst.op] /\ dx.predicted_next_inst_addr = x.predicted_next_inst_addr
           /\ dx.val_rs = read_gp(R, dx.num_rs) /\ dx.val_rt = read_gp(R, dx.num_rt)
           /\ dy.val_rs = read_gp(S, dy.num_rs) /\ dy.val_rt = read_gp(S, dy.num_rt)
           /\ dx.csr_write = ("CSR" \in dx.flags /\ ("CSR_TO_ALU" \notin dx.flags \/ dx.num_rs # 0))
           /\ dx.num_rs # 0 => "ALU_REQ_RS" \in dx.flags
           /\ dx.num_rt # 0 => "ALU_REQ_RT" \in dx.flags
           /\ x.excause # NONE => dx.excause # NONE
  BY DEF decode, SameFetch, NONE

\* execute, of the same instruction.
LEMMA ExecuteSame ==
    ASSUME NEW x, NEW y, SameFetch(x, y), x.flags = y.flags, x.num_rd = y.num_rd, x.csr_write = y.csr_write,
           x.excause = NONE => /\ x.csr_read_val = y.csr_read_val /\ x.val_rs = y.val_rs /\ x.val_rt = y.val_rt
    PROVE  ExecutedAs(execute(x), execute(y))
  BY DEF execute, SameFetch, ExecutedAs

\* memory, of the same instruction.
LEMMA MemorySame ==
    ASSUME NEW x, NEW y, ExecutedAs(x, y), NEW M, NEW c, NEW r,
           NEW m, m = memory(x, M, c, r), NEW n, n = memory(y, M, c, r)
    PROVE  /\ m.mem = n.mem /\ m.csr = n.csr /\ m.resv = n.resv
           /\ m.wb.inst_addr = n.wb.inst_addr /\ m.wb.excause = n.wb.excause
           /\ m.wb.computed_next_inst_addr = n.wb.computed_next_inst_addr
           /\ m.wb.mem_addr = n.wb.mem_addr
           /\ \A R : writeback(m.wb, R) = writeback(n.wb, R)
<1>1. /\ x.inst = y.inst /\ x.inst_addr = y.inst_addr /\ x.next_inst_addr = y.next_inst_addr
      /\ x.excause = y.excause /\ x.is_valid = y.is_valid
      /\ x.flags = y.flags /\ x.num_rd = y.num_rd /\ x.csr_write = y.csr_write
      /\ x.branch_jal_target = y.branch_jal_target /\ x.alu_val = y.alu_val
      /\ x.excause = NONE => x.csr_read_val = y.csr_read_val /\ x.val_rt = y.val_rt
  BY DEF ExecutedAs, SameFetch
<1>2. Acc(x, M, r) = Acc(y, M, r)
  BY <1>1 DEF Acc, MemAccess
<1>3. Retired(x) = Retired(y) /\ Xret(x) = Xret(y) /\ Taken(x) = Taken(y)
  BY <1>1 DEF Retired, Xret, Taken
<1>4. Counted(x, c) = Counted(y, c)
  BY <1>3 DEF Counted
<1>5. Written(x, c) = Written(y, c)
  BY <1>1, <1>3, <1>4 DEF Written
<1>6. CsrAfter(x, c) = CsrAfter(y, c)
  BY <1>3, <1>5 DEF CsrAfter
<1>7. NextAddr(x, c) = NextAddr(y, c)
  BY <1>1, <1>3, <1>5 DEF NextAddr, compute_next_inst_addr
<1>8. x.excause = NONE => ToWrite(x, M, r) = ToWrite(y, M, r)
  BY <1>1, <1>2 DEF ToWrite
<1>9. Acc(x, M, r).cause = NONE => x.excause = NONE
  BY DEF Acc
<1>10. /\ m.mem = Acc(x, M, r).mem /\ m.csr = CsrAfter(x, c)
       /\ m.resv = IF Xret(x) THEN NoAddr ELSE Acc(x, M, r).resv
       /\ m.wb.inst_addr = x.inst_addr /\ m.wb.computed_next_inst_addr = NextAddr(x, c)
       /\ m.wb.excause = Acc(x, M, r).cause /\ m.wb.mem_addr = x.alu_val /\ m.wb.num_rd = x.num_rd
       /\ (m.wb.regwrite <=> "REGWRITE" \in x.flags /\ Acc(x, M, r).cause = NONE)
       /\ m.wb.towrite_val = ToWrite(x, M, r)
  BY MemoryParts
<1>11. /\ n.mem = Acc(y, M, r).mem /\ n.csr = CsrAfter(y, c)
       /\ n.resv = IF Xret(y) THEN NoAddr ELSE Acc(y, M, r).resv
       /\ n.wb.inst_addr = y.inst_addr /\ n.wb.computed_next_inst_addr = NextAddr(y, c)
       /\ n.wb.excause = Acc(y, M, r).cause /\ n.wb.mem_addr = y.alu_val /\ n.wb.num_rd = y.num_rd
       /\ (n.wb.regwrite <=> "REGWRITE" \in y.flags /\ Acc(y, M, r).cause = NONE)
       /\ n.wb.towrite_val = ToWrite(y, M, r)
  BY MemoryParts
<1>12. ASSUME NEW R PROVE writeback(m.wb, R) = writeback(n.wb, R)
  BY <1>1, <1>2, <1>8, <1>9, <1>10, <1>11 DEF writeback, write_gp
<1> QED
  BY <1>1, <1>2, <1>3, <1>6, <1>7, <1>10, <1>11, <1>12

(***************************************************************************)
(* Refinement: operands.  The hazard unit is the one that stalls, or the   *)
(* one that forwards, with the fetch in sequence: a forwarded link address *)
(* would be the target of the jump.                                        *)
(***************************************************************************)
SafeHazards == HazardUnit = "HU_STALL" \/ (HazardUnit = "HU_STALL_FORWARD" /\ ~Predictor)

\* execute, field by field.
LEMMA ExecuteFields ==
    ASSUME NEW id, NEW ex, ex = execute(id)
    PROVE  /\ SameFetch(ex, id) /\ ex.flags = id.flags /\ ex.num_rd = id.num_rd /\ ex.csr_write = id.csr_write
           /\ ex.predicted_next_inst_addr = id.predicted_next_inst_addr
           /\ ex.csr_read_val = id.csr_read_val /\ ex.val_rt = id.val_rt
           /\ ex.branch_jal_target = (id.inst_addr + id.inst.imm) % N
           /\ id.excause = NONE =>
                 ex.alu_val = alu_combined_operate(id.flags,
                    IF "PC_TO_ALU" \in id.flags THEN id.inst_addr ELSE id.val_rs,
                    IF "CSR_TO_ALU" \in id.flags THEN id.csr_read_val
                    ELSE IF "ALUSRC" \in id.flags THEN id.inst.imm ELSE id.val_rt)
  BY DEF execute, SameFetch

\* What is forwarded from EX is what the instruction will write.
LEMMA ForwardedValue ==
    ASSUME NEW ex, ExecuteStage(ex), ex.is_valid, NEW R \in [Regs -> V], NEW c \in CsrType, ExecuteOk(ex, R, c),
           ex.predicted_next_inst_addr = ex.next_inst_addr, NEW M, NEW r, NEW m, m = memory(ex, M, c, r),
           Quiet(m.wb), "REGWRITE" \in ex.flags, "MEMREAD" \notin ex.flags
    PROVE  ToWrite(ex, M, r) = ex.alu_val
<1>1. /\ ex \in ExecuteReg /\ ex.inst \in InstSet /\ ex.inst.op \in Ops /\ ex.flags = FlagsOf[ex.inst.op]
      /\ ex.csr_read_val \in V
  BY InstFacts DEF ExecuteStage, ExecuteReg
<1>2. PICK irq \in Irqs, skip \in SkipBreaks :
         ExecutedAs(ex, execute(decode(SingleFetch(ex.inst_addr, c, irq, skip), R, c)))
  BY DEF ExecuteOk
<1>3. PICK f, d, e : f = SingleFetch(ex.inst_addr, c, irq, skip) /\ d = decode(f, R, c) /\ e = execute(d)
  OBVIOUS
<1>4. ExecutedAs(ex, e)
  BY <1>2, <1>3
<1>5. /\ m.wb.excause = Acc(ex, M, r).cause /\ m.wb.computed_next_inst_addr = NextAddr(ex, c)
      /\ m.wb.predicted_next_inst_addr = ex.predicted_next_inst_addr
      /\ (m.wb.csr_written <=> Retired(ex) /\ (ex.csr_write \/ Xret(ex)))
  BY MemoryParts
<1>6. ex.excause = NONE
  BY <1>5 DEF Acc, Quiet
<1>7. ~ex.csr_write /\ ~Xret(ex) /\ NextAddr(ex, c) = ex.next_inst_addr
  BY <1>5, <1>6 DEF Quiet, RestartsFetch, detect_mispredicted_jump, Retired
<1>8. SameFetch(f, f)
  BY DEF SameFetch
<1>9. /\ d.flags = FlagsOf[f.inst.op] /\ d.val_rs = read_gp(R, d.num_rs)
      /\ d.csr_write = ("CSR" \in d.flags /\ ("CSR_TO_ALU" \notin d.flags \/ d.num_rs # 0))
  BY <1>3, <1>8, DecodeSame
<1>10. /\ SameFetch(e, d) /\ e.flags = d.flags /\ e.csr_write = d.csr_write /\ e.csr_read_val = d.csr_read_val
       /\ e.branch_jal_target = (d.inst_addr + d.inst.imm) % N
       /\ d.excause = NONE =>
             e.alu_val = alu_combined_operate(d.flags,
                IF "PC_TO_ALU" \in d.flags THEN d.inst_addr ELSE d.val_rs,
                IF "CSR_TO_ALU" \in d.flags THEN d.csr_read_val
                ELSE IF "ALUSRC" \in d.flags THEN d.inst.imm ELSE d.val_rt)
  BY <1>3, ExecuteFields
<1>11. /\ d.excause = NONE /\ d.flags = ex.flags /\ d.inst = ex.inst /\ d.inst_addr = ex.inst_addr
       /\ d.csr_read_val = ex.csr_read_val /\ e.alu_val = ex.alu_val /\ (ex.csr_write <=> d.csr_write)
       /\ e.branch_jal_target = ex.branch_jal_target
  BY <1>4, <1>6, <1>10 DEF ExecutedAs, SameFetch
<1> DEFINE fl == ex.flags
<1>12. ex.alu_val = alu_combined_operate(fl, IF "PC_TO_ALU" \in fl THEN ex.inst_addr ELSE d.val_rs,
                       IF "CSR_TO_ALU" \in fl THEN ex.csr_read_val
                       ELSE IF "ALUSRC" \in fl THEN ex.inst.imm ELSE d.val_rt)
  BY <1>10, <1>11
<1>13. CASE ex.inst.op \in {"csrrw", "csrrs"}
  <2>1. "CSR" \in fl /\ "AMO" \notin fl /\ "PC_TO_ALU" \notin fl /\ "ALU_MOD" \notin fl
    BY <1>1, <1>13, FlagFacts
  <2>2. "CSR_TO_ALU" \in fl /\ d.num_rs = 0
    BY <1>7, <1>9, <1>11, <2>1
  <2>3. d.val_rs = 0
    BY <1>9, <2>2 DEF read_gp
  <2>4. ex.alu_val = bitwise_or(0, ex.csr_read_val)
    <3>1. ex.alu_val = alu_combined_operate(fl, d.val_rs, ex.csr_read_val)
      BY <1>12, <2>1, <2>2
    <3>2. ex.alu_val = alu_combined_operate(fl, 0, ex.csr_read_val)
      BY <2>3, <3>1
    <3> QED
      BY <2>1, <2>2, <3>2 DEF alu_combined_operate
  <2>5. ex.alu_val = ex.csr_read_val
    BY <1>1, <2>4, OrFacts
  <2> QED
    BY <2>1, <2>5 DEF ToWrite
<1>14. CASE ex.inst.op = "jal"
  <2>1. /\ "CSR" \notin fl /\ "JUMP" \in fl /\ "PC_TO_ALU" \in fl /\ "ALUSRC" \in fl /\ "CSR_TO_ALU" \notin fl
        /\ "AMO" \notin fl /\ "ALU_MOD" \notin fl
    BY <1>1, <1>14, FlagFacts
  <2>2. ex.alu_val = (ex.inst_addr + ex.inst.imm) % N
    BY <1>12, <2>1 DEF alu_combined_operate
  <2>3. ex.alu_val = ex.branch_jal_target
    BY <1>10, <1>11, <2>2
  <2>4. NextAddr(ex, c) = ex.branch_jal_target
    BY <1>7, <2>1 DEF NextAddr, compute_next_inst_addr
  <2> QED
    BY <1>7, <2>1, <2>3, <2>4 DEF ToWrite
<1>15. CASE ex.inst.op = "jalr"
  <2>1. "CSR" \notin fl /\ "JUMP" \notin fl /\ "BRANCH_JALR" \in fl /\ "BRANCH" \notin fl
    BY <1>1, <1>15, FlagFacts
  <2>2. NextAddr(ex, c) = ex.alu_val
    BY <1>7, <2>1 DEF NextAddr, compute_next_inst_addr, Taken
  <2> QED
    BY <1>7, <2>1, <2>2 DEF ToWrite
<1>16. CASE ex.inst.op \notin {"csrrw", "csrrs", "jal", "jalr"}
  <2>1. "CSR" \notin fl /\ "JUMP" \notin fl /\ "BRANCH_JALR" \notin fl
    BY <1>1, <1>16, FlagFacts
  <2>2. ex.inst.op \notin {"lw", "sw", "lr", "sc", "amoadd"}
    BY <1>1, FlagFacts
  <2>3. Acc(ex, M, r).value = ex.alu_val
    BY <1>6, <2>2 DEF Acc, MemAccess
  <2> QED
    BY <2>1, <2>3 DEF ToWrite
<1> QED
  BY <1>13, <1>14, <1>15, <1>16

\* An operand is what the register holds once the instruction before is done.
LEMMA OperandRead ==
    ASSUME SafeHazards, NEW ex, ExecuteStage(ex), NEW R \in [Regs -> V], NEW c \in CsrType, ExecuteOk(ex, R, c),
           InSequence(ex), NEW M, NEW rv, NEW m, m = memory(ex, M, c, rv), Quiet(m.wb),
           NEW r \in Regs, OperandThere(ex, r)
    PROVE  Operand(ex, R, r) = read_gp(writeback(m.wb, R), r)
<1>1. /\ m.wb.excause = Acc(ex, M, rv).cause /\ m.wb.num_rd = ex.num_rd
      /\ (m.wb.regwrite <=> "REGWRITE" \in ex.flags /\ Acc(ex, M, rv).cause = NONE)
      /\ m.wb.towrite_val = ToWrite(ex, M, rv)
  BY MemoryParts
<1>2. Acc(ex, M, rv).cause = NONE
  BY <1>1 DEF Quiet
<1>3. CASE "REGWRITE" \in ex.flags /\ ex.num_rd = r /\ r # 0
  <2>1. ex.is_valid
    BY <1>3 DEF ExecuteStage, Bubble
  <2>2. HazardUnit = "HU_STALL_FORWARD" /\ "MEMREAD" \notin ex.flags
    BY <1>3 DEF OperandThere
  <2>3. ex.predicted_next_inst_addr = ex.next_inst_addr
    BY <2>2 DEF SafeHazards, InSequence
  <2>4. ToWrite(ex, M, rv) = ex.alu_val
    BY <1>3, <2>1, <2>2, <2>3, ForwardedValue
  <2>5. writeback(m.wb, R)[r] = ex.alu_val
    BY <1>1, <1>2, <1>3, <2>4 DEF writeback, write_gp
  <2> QED
    BY <1>3, <2>5 DEF Operand, read_gp
<1>4. CASE ~("REGWRITE" \in ex.flags /\ ex.num_rd = r /\ r # 0)
  <2>1. r # 0 => writeback(m.wb, R)[r] = R[r]
    BY <1>1, <1>4 DEF writeback, write_gp
  <2> QED
    BY <1>4, <2>1 DEF Operand, read_gp
<1> QED
  BY <1>3, <1>4

\* An instruction that passes EX computes what the single-cycle core will.
LEMMA ExecuteStep ==
    ASSUME SafeHazards, NEW ex, ExecuteStage(ex), NEW R \in [Regs -> V], NEW c \in CsrType, ExecuteOk(ex, R, c),
           InSequence(ex), NEW M, NEW rv, NEW m, m = memory(ex, M, c, rv), Quiet(m.wb),
           NEW id, DecodeStage(id), DecodeOk(id, ex, R, c)
    PROVE  ExecuteOk(execute(id), writeback(m.wb, R), m.csr)
<1> SUFFICES ASSUME id.is_valid PROVE ExecuteOk(execute(id), writeback(m.wb, R), m.csr)
  BY ExecuteTypes DEF ExecuteOk
<1>1. PICK irq \in Irqs, skip \in SkipBreaks :
         /\ ~decode_throws(SingleFetch(id.inst_addr, c, irq, skip), c)
         /\ DecodedAs(id, decode(SingleFetch(id.inst_addr, c, irq, skip), R, c), ex, R)
  BY DEF DecodeOk
<1>2. PICK f, d, S, d2 : /\ f = SingleFetch(id.inst_addr, c, irq, skip) /\ d = decode(f, R, c)
                         /\ S = writeback(m.wb, R) /\ d2 = decode(f, S, m.csr)
  OBVIOUS
<1>3. SameLevel(c, m.csr) /\ (~ex.is_valid => m.csr = c)
  BY QuietCsr
<1>4. SingleFetch(id.inst_addr, m.csr, irq, skip) = f /\ ~decode_throws(f, m.csr)
  BY <1>1, <1>2, <1>3, FetchStable
<1>5. DecodedAs(id, d, ex, R)
  BY <1>1, <1>2
<1>6. SameFetch(f, f)
  BY DEF SameFetch
<1>7. /\ SameFetch(d, d2) /\ d.flags = d2.flags /\ d.num_rs = d2.num_rs /\ d.num_rt = d2.num_rt
      /\ d.num_rd = d2.num_rd /\ d.csr_write = d2.csr_write
      /\ "CSR" \notin d.flags \/ c = m.csr => d.csr_read_val = d2.csr_read_val
      /\ d2.val_rs = read_gp(S, d2.num_rs) /\ d2.val_rt = read_gp(S, d2.num_rt)
  BY <1>2, <1>3, <1>6, DecodeSame DEF SameLevel
<1>8. /\ SameFetch(id, d2) /\ id.flags = d2.flags /\ id.num_rd = d2.num_rd /\ id.csr_write = d2.csr_write
      /\ id.num_rs = d2.num_rs /\ id.num_rt = d2.num_rt
  BY <1>5, <1>7 DEF DecodedAs, SameFetch
<1>9. ASSUME id.excause = NONE
      PROVE  id.csr_read_val = d2.csr_read_val /\ id.val_rs = d2.val_rs /\ id.val_rt = d2.val_rt
  <2>1. id.num_rs \in Regs /\ id.num_rt \in Regs
    BY DEF DecodeStage, DecodeReg
  <2>2. /\ id.csr_read_val = d.csr_read_val /\ id.flags = d.flags
        /\ id.val_rs = Operand(ex, R, id.num_rs) /\ OperandThere(ex, id.num_rs)
        /\ id.val_rt = Operand(ex, R, id.num_rt) /\ OperandThere(ex, id.num_rt)
        /\ "CSR" \in id.flags => ~ex.is_valid
    BY <1>5, <1>9 DEF DecodedAs
  <2>3. id.val_rs = read_gp(S, id.num_rs)
    BY <1>2, <2>1, <2>2, OperandRead
  <2>4. id.val_rt = read_gp(S, id.num_rt)
    BY <1>2, <2>1, <2>2, OperandRead
  <2> QED
    BY <1>3, <1>7, <1>8, <2>2, <2>3, <2>4
<1>10. ExecutedAs(execute(id), execute(d2))
  BY <1>8, <1>9, ExecuteSame
<1>11. execute(id).inst_addr = id.inst_addr
  BY DEF execute
<1> QED
  BY <1>2, <1>4, <1>10, <1>11 DEF ExecuteOk

\* The operands after the hazard unit, when it does not stall.
LEMMA HazardOperands ==
    ASSUME SafeHazards, NEW id \in DecodeReg, NEW ex, ExecuteStage(ex), NEW wb, MemoryStage(wb),
           NEW R \in [Regs -> V], id.val_rs = read_gp(R, id.num_rs), id.val_rt = read_gp(R, id.num_rt),
           id.num_rs # 0 => "ALU_REQ_RS" \in id.flags, id.num_rt # 0 => "ALU_REQ_RT" \in id.flags,
           NEW h, h = handle_data_hazards(id, ex, wb), ~h.stall
    PROVE  /\ h.id_ex.val_rs = Operand(ex, writeback(wb, R), id.num_rs) /\ OperandThere(ex, id.num_rs)
           /\ h.id_ex.val_rt = Operand(ex, writeback(wb, R), id.num_rt) /\ OperandThere(ex, id.num_rt)
<1> DEFINE hw == is_hazard_in_stage(wb.regwrite, wb.num_rd, id)
           hx == is_hazard_in_stage("REGWRITE" \in ex.flags, ex.num_rd, id)
           fw == HazardUnit = "HU_STALL_FORWARD"
           id1 == IF hw /\ fw THEN Forwarded(id, wb.num_rd, wb.towrite_val) ELSE id
           id2 == IF hx /\ fw /\ "MEMREAD" \notin ex.flags THEN Forwarded(id1, ex.num_rd, ex.alu_val) ELSE id1
           S == writeback(wb, R)
<1>1. HazardUnit # "HU_NONE"
  BY DEF SafeHazards
<1>2. h.id_ex = id2 /\ (h.stall <=> (hw /\ ~fw) \/ (hx /\ (~fw \/ "MEMREAD" \in ex.flags)))
  BY <1>1 DEF handle_data_hazards
<1>3. (hw => fw) /\ (hx => fw /\ "MEMREAD" \notin ex.flags)
  BY <1>2
<1>4. ex.alu_val \in V /\ wb.towrite_val \in V /\ wb \in MemoryReg /\ id.num_rs \in Regs /\ id.num_rt \in Regs
  BY DEF ExecuteStage, ExecuteReg, MemoryStage, MemoryReg, DecodeReg
<1>5. hw <=> /\ wb.regwrite /\ wb.num_rd # 0
             /\ \/ "ALU_REQ_RS" \in id.flags /\ wb.num_rd = id.num_rs
                \/ "ALU_REQ_RT" \in id.flags /\ wb.num_rd = id.num_rt
  BY DEF is_hazard_in_stage
<1>6. hx <=> /\ "REGWRITE" \in ex.flags /\ ex.num_rd # 0
             /\ \/ "ALU_REQ_RS" \in id.flags /\ ex.num_rd = id.num_rs
                \/ "ALU_REQ_RT" \in id.flags /\ ex.num_rd = id.num_rt
  BY DEF is_hazard_in_stage
<1>7. /\ id1 \in DecodeReg /\ id1.flags = id.flags /\ id1.num_rs = id.num_rs /\ id1.num_rt = id.num_rt
      /\ id1.val_rs = IF hw /\ "ALU_REQ_RS" \in id.flags /\ wb.num_rd = id.num_rs THEN wb.towrite_val ELSE id.val_rs
      /\ id1.val_rt = IF hw /\ "ALU_REQ_RT" \in id.flags /\ wb.num_rd = id.num_rt THEN wb.towrite_val ELSE id.val_rt
  <2>1. CASE hw
    <3>1. id1 = Forwarded(id, wb.num_rd, wb.towrite_val)
      BY <1>3, <2>1
    <3> HIDE DEF id1, hw
    <3> QED
      BY <1>4, <2>1, <3>1, ForwardedTypes DEF SameButOperands
  <2>2. CASE ~hw
    <3>1. id1 = id
      BY <2>2
    <3> HIDE DEF id1, hw
    <3> QED
      BY <2>2, <3>1
  <2> QED
    BY <2>1, <2>2
<1>8. ASSUME NEW r \in Regs
      PROVE  read_gp(S, r) = IF wb.regwrite /\ wb.num_rd = r /\ r # 0 THEN wb.towrite_val ELSE read_gp(R, r)
  BY DEF writeback, write_gp, read_gp
<1> HIDE DEF id1, hw, S
<1>9. id1.val_rs = read_gp(S, id.num_rs)
  BY <1>4, <1>5, <1>7, <1>8
<1>10. id1.val_rt = read_gp(S, id.num_rt)
  BY <1>4, <1>5, <1>7, <1>8
<1>11. /\ id2.val_rs = IF hx /\ "ALU_REQ_RS" \in id.flags /\ ex.num_rd = id.num_rs THEN ex.alu_val ELSE id1.val_rs
       /\ id2.val_rt = IF hx /\ "ALU_REQ_RT" \in id.flags /\ ex.num_rd = id.num_rt THEN ex.alu_val ELSE id1.val_rt
  <2>1. CASE hx
    <3>1. id2 = Forwarded(id1, ex.num_rd, ex.alu_val)
      BY <1>3, <2>1
    <3> HIDE DEF id2, hx
    <3> QED
      BY <1>4, <1>7, <2>1, <3>1, ForwardedTypes
  <2>2. CASE ~hx
    <3>1. id2 = id1
      BY <2>2
    <3> HIDE DEF id2, hx
    <3> QED
      BY <2>2, <3>1
  <2> QED
    BY <2>1, <2>2
<1> HIDE DEF id2, hx
<1>12. id2.val_rs = Operand(ex, S, id.num_rs) /\ OperandThere(ex, id.num_rs)
  BY <1>3, <1>6, <1>9, <1>11 DEF Operand, OperandThere
<1>13. id2.val_rt = Operand(ex, S, id.num_rt) /\ OperandThere(ex, id.num_rt)
  BY <1>3, <1>6, <1>10, <1>11 DEF Operand, OperandThere
<1> QED
  BY <1>2, <1>12, <1>13 DEF S

\* An instruction that passes ID has the operands the single-cycle core will read.
LEMMA DecodeStep ==
    ASSUME SafeHazards, NEW dt, FetchStage(dt), NEW c \in CsrType, FetchOk(dt, c), ~decode_throws(dt, c),
           NEW R \in [Regs -> V], NEW id, id = decode(dt, R, c), NEW ex, ExecuteStage(ex),
           NEW wb, MemoryStage(wb), NEW h, h = handle_data_hazards(id, ex, wb),
           id.excause # NONE \/ (~h.stall /\ ~is_stall_requested(h.id_ex, ex))
    PROVE  DecodeOk(h.id_ex, ex, writeback(wb, R), c)
<1>1. DecodeStage(id) /\ id.is_valid = dt.is_valid
  BY DecodeTypes
<1>2. SameButOperands(h.id_ex, id)
  BY <1>1, HazardTypes
<1> SUFFICES ASSUME h.id_ex.is_valid PROVE DecodeOk(h.id_ex, ex, writeback(wb, R), c)
  BY DEF DecodeOk
<1>3. dt.is_valid
  BY <1>1, <1>2 DEF SameButOperands, SameFetch
<1>4. PICK irq \in Irqs, skip \in SkipBreaks : SameFetch(dt, SingleFetch(dt.inst_addr, c, irq, skip))
  BY <1>3 DEF FetchOk
<1>5. PICK f, S, d, y : /\ f = SingleFetch(dt.inst_addr, c, irq, skip) /\ S = writeback(wb, R)
                        /\ d = decode(f, S, c) /\ y = h.id_ex
  OBVIOUS
<1>6. SameFetch(dt, f) /\ ~decode_throws(f, c)
  BY <1>4, <1>5 DEF SameFetch, decode_throws
<1>7. /\ SameFetch(id, d) /\ id.flags = d.flags /\ id.num_rs = d.num_rs /\ id.num_rt = d.num_rt
      /\ id.num_rd = d.num_rd /\ id.csr_write = d.csr_write /\ id.csr_read_val = d.csr_read_val
      /\ id.val_rs = read_gp(R, id.num_rs) /\ id.val_rt = read_gp(R, id.num_rt)
      /\ id.num_rs # 0 => "ALU_REQ_RS" \in id.flags
      /\ id.num_rt # 0 => "ALU_REQ_RT" \in id.flags
  BY <1>5, <1>6, DecodeSame
<1>8. /\ SameFetch(y, d) /\ y.flags = d.flags /\ y.num_rs = d.num_rs /\ y.num_rt = d.num_rt
      /\ y.num_rd = d.num_rd /\ y.csr_write = d.csr_write /\ y.csr_read_val = d.csr_read_val
      /\ y.num_rs = id.num_rs /\ y.num_rt = id.num_rt /\ y.excause = id.excause
  BY <1>2, <1>5, <1>7 DEF SameButOperands, SameFetch
<1>9. ASSUME y.excause = NONE
      PROVE  /\ y.val_rs = Operand(ex, S, y.num_rs) /\ OperandThere(ex, y.num_rs)
             /\ y.val_rt = Operand(ex, S, y.num_rt) /\ OperandThere(ex, y.num_rt)
             /\ "CSR" \in y.flags => ~ex.is_valid
  <2>1. ~h.stall /\ ~is_stall_requested(y, ex)
    BY <1>5, <1>8, <1>9
  <2>2. id \in DecodeReg
    BY <1>1 DEF DecodeStage
  <2>3. /\ y.val_rs = Operand(ex, S, id.num_rs) /\ OperandThere(ex, id.num_rs)
        /\ y.val_rt = Operand(ex, S, id.num_rt) /\ OperandThere(ex, id.num_rt)
    BY <1>5, <1>7, <2>1, <2>2, HazardOperands
  <2> QED
    BY <1>8, <2>1, <2>3 DEF is_stall_requested
<1>10. DecodedAs(y, d, ex, S)
  BY <1>8, <1>9 DEF DecodedAs
<1>11. y.inst_addr = dt.inst_addr
  <2>1. id.inst_addr = dt.inst_addr
    BY DEF decode
  <2> QED
    BY <1>2, <1>5, <2>1 DEF SameButOperands, SameFetch
<1> QED
  BY <1>5, <1>6, <1>10, <1>11 DEF DecodeOk

(***************************************************************************)
(* Refinement: the pipeline after a step                                   *)
(***************************************************************************)
\* Pipeline, of given stages.
PipelineOf(dt, id, ex, R, c, a, stop) ==
    /\ FetchOk(dt, c) /\ DecodeOk(id, ex, R, c) /\ ExecuteOk(ex, R, c)
    /\ dt.is_valid => dt.predicted_next_inst_addr = a
    /\ id.is_valid /\ id.excause = NONE => id.predicted_next_inst_addr = Addr(dt, a)
    /\ ex.is_valid /\ ex.excause = NONE => ex.predicted_next_inst_addr = Addr(id, Addr(dt, a))
    /\ InSequence(dt) /\ InSequence(id) /\ InSequence(ex)
    /\ stop => ex.excause # NONE \/ id.excause # NONE

\* A pipeline without instructions.
LEMMA EmptyPipeline ==
    ASSUME NEW dt, FetchStage(dt), ~dt.is_valid, NEW id, DecodeStage(id), ~id.is_valid,
           NEW ex, ExecuteStage(ex), ~ex.is_valid, NEW R, NEW c, NEW a
    PROVE  PipelineOf(dt, id, ex, R, c, a, FALSE)
<1>1. FetchOk(dt, c) /\ DecodeOk(id, ex, R, c) /\ ExecuteOk(ex, R, c)
  BY DEF FetchOk, DecodeOk, ExecuteOk
<1>2. InSequence(dt) /\ InSequence(id) /\ InSequence(ex)
  BY DEF InSequence, FetchStage, DecodeStage, ExecuteStage, Bubble, FlushedFetch
<1> QED
  BY <1>1, <1>2 DEF PipelineOf

\* An exception that reaches the memory stage leaves it.
LEMMA ExceptionLeaves ==
    ASSUME NEW ex, ex.excause # NONE, NEW M, NEW c, NEW r, NEW m, m = memory(ex, M, c, r)
    PROVE  m.wb.excause # NONE
<1>1. m.wb.excause = Acc(ex, M, r).cause
  BY MemoryParts
<1> QED
  BY <1>1 DEF Acc

\* The stages of a step in which nothing is redirected.
LEMMA QuietParts ==
    ASSUME SafeHazards, TypeInv, Pipeline, NEW irq, NEW skip, NEW predicted \in V, NEW s,
           NEW R, NEW m, NEW ex, NEW id, NEW f, Parts(s, irq, skip, predicted, R, m, ex, id, f), Quiet(m.wb)
    PROVE  /\ ex = execute(id_ex) /\ ExecuteOk(ex, writeback(m.wb, R), m.csr) /\ FetchOk(if_id, m.csr)
           /\ ex.is_valid = id_ex.is_valid /\ ex.excause = id_ex.excause /\ InSequence(ex)
           /\ ex.predicted_next_inst_addr = id_ex.predicted_next_inst_addr /\ ex.inst_addr = id_ex.inst_addr
<1>1. /\ m = memory(ex_mem, mem, csr, resv) /\ R = writeback(mem_wb, regs)
      /\ ex = IF m.wb.excause # NONE THEN FlushedExecute ELSE execute(id_ex)
  BY DEF Parts
<1>2. ex = execute(id_ex)
  BY <1>1 DEF Quiet
<1>3. /\ FetchOk(if_id, csr) /\ DecodeOk(id_ex, ex_mem, R, csr) /\ ExecuteOk(ex_mem, R, csr)
      /\ InSequence(ex_mem) /\ InSequence(id_ex)
  BY <1>1 DEF Pipeline
<1>4. ExecuteStage(ex_mem) /\ DecodeStage(id_ex) /\ csr \in CsrType /\ R \in [Regs -> V]
  BY PartTypes DEF TypeInv, CoreType
<1>5. ExecuteOk(ex, writeback(m.wb, R), m.csr)
  BY <1>1, <1>2, <1>3, <1>4, ExecuteStep
<1>6. SameLevel(csr, m.csr)
  BY <1>1, <1>4, QuietCsr
<1>7. FetchOk(if_id, m.csr)
  BY <1>3, <1>6, FetchStable DEF FetchOk
<1>8. SameFetch(ex, id_ex) /\ ex.predicted_next_inst_addr = id_ex.predicted_next_inst_addr
  BY <1>2, ExecuteFields
<1> QED
  BY <1>2, <1>3, <1>5, <1>7, <1>8 DEF SameFetch, InSequence

\* What decode makes of an instruction, and what stays of it behind the hazard unit.
LEMMA QuietDecode ==
    ASSUME SafeHazards, TypeInv, Pipeline, NEW irq, NEW skip, NEW predicted \in V, NEW s,
           NEW R, NEW m, NEW ex, NEW id, NEW f, Parts(s, irq, skip, predicted, R, m, ex, id, f), Quiet(m.wb),
           ex.excause = NONE, ~decode_throws(if_id, m.csr),
           id.excause # NONE \/ (~s.stall /\ ~is_stall_requested(s.id_ex, ex))
    PROVE  /\ DecodeOk(s.id_ex, ex, writeback(m.wb, R), m.csr) /\ InSequence(s.id_ex)
           /\ s.id_ex.is_valid = if_id.is_valid /\ s.id_ex.inst_addr = if_id.inst_addr
           /\ s.id_ex.predicted_next_inst_addr = if_id.predicted_next_inst_addr
           /\ s.id_ex.excause = id.excause
<1>1. /\ id = decode(if_id, R, m.csr) /\ s.id_ex = handle_data_hazards(id, ex, m.wb).id_ex
      /\ s.stall = handle_data_hazards(id, ex, m.wb).stall
  BY DEF Parts, Quiet
<1>2. /\ R \in [Regs -> V] /\ m.csr \in CsrType /\ MemoryStage(m.wb) /\ ExecuteStage(ex)
      /\ SameButOperands(s.id_ex, id)
  BY PartTypes
<1>3. FetchStage(if_id) /\ FetchOk(if_id, m.csr)
  BY QuietParts DEF TypeInv, CoreType
<1>4. PICK h : h = handle_data_hazards(id, ex, m.wb)
  OBVIOUS
<1>5. id.excause # NONE \/ (~h.stall /\ ~is_stall_requested(h.id_ex, ex))
  BY <1>1, <1>4
<1>6. DecodeOk(h.id_ex, ex, writeback(m.wb, R), m.csr)
  BY <1>1, <1>2, <1>3, <1>4, <1>5, DecodeStep
<1>7. /\ id.is_valid = if_id.is_valid /\ id.inst_addr = if_id.inst_addr
      /\ id.predicted_next_inst_addr = if_id.predicted_next_inst_addr
      /\ id.next_inst_addr = if_id.next_inst_addr
  BY <1>1 DEF decode
<1>8. /\ s.id_ex.is_valid = id.is_valid /\ s.id_ex.inst_addr = id.inst_addr
      /\ s.id_ex.predicted_next_inst_addr = id.predicted_next_inst_addr
      /\ s.id_ex.next_inst_addr = id.next_inst_addr /\ s.id_ex.excause = id.excause
  BY <1>2 DEF SameButOperands, SameFetch
<1>9. InSequence(if_id)
  BY DEF Pipeline
<1>10. InSequence(s.id_ex)
  BY <1>7, <1>8, <1>9 DEF InSequence
<1> QED
  BY <1>1, <1>4, <1>6, <1>7, <1>8, <1>10

\* A stage without an instruction fits everywhere.
LEMMA EmptyStages ==
    ASSUME NEW dt, FetchStage(dt), NEW id, DecodeStage(id), NEW ex, NEW R, NEW c
    PROVE  /\ ~dt.is_valid => FetchOk(dt, c) /\ InSequence(dt)
           /\ ~id.is_valid => DecodeOk(id, ex, R, c) /\ InSequence(id) /\ id.excause = NONE
  BY DEF FetchOk, DecodeOk, InSequence, FetchStage, DecodeStage, Bubble, FlushedFetch

\* A step in which nothing is fetched any more, because of an exception.
LEMMA StopPipeline ==
    ASSUME SafeHazards, TypeInv, Pipeline, NEW irq, NEW skip, NEW predicted \in V, NEW s,
           NEW R, NEW m, NEW ex, NEW id, NEW f, Parts(s, irq, skip, predicted, R, m, ex, id, f), Quiet(m.wb),
           ~decode_throws(if_id, m.csr), ex.excause # NONE \/ id.excause # NONE
    PROVE  PipelineOf(s.if_id, s.id_ex, ex, writeback(m.wb, R), m.csr, pc, TRUE)
<1>1. /\ ExecuteOk(ex, writeback(m.wb, R), m.csr) /\ InSequence(ex)
      /\ ex.is_valid = id_ex.is_valid /\ ex.excause = id_ex.excause
      /\ ex.predicted_next_inst_addr = id_ex.predicted_next_inst_addr
  BY QuietParts
<1>2. /\ s.id_ex.is_valid = id.is_valid /\ s.id_ex.excause = id.excause
      /\ ex.excause # NONE => ~id.is_valid /\ id.excause = NONE
      /\ ~s.if_id.is_valid /\ FetchStage(s.if_id)
  BY Cascade
<1>3. DecodeStage(s.id_ex) /\ DecodeStage(id)
  BY PartTypes
<1>4. FetchOk(s.if_id, m.csr) /\ InSequence(s.if_id)
  BY <1>2, <1>3, EmptyStages
<1>5. CASE ex.excause # NONE
  <2>1. DecodeOk(s.id_ex, ex, writeback(m.wb, R), m.csr) /\ InSequence(s.id_ex)
    BY <1>2, <1>3, <1>5, EmptyStages
  <2> QED
    BY <1>1, <1>2, <1>4, <1>5, <2>1 DEF PipelineOf
<1>6. CASE ex.excause = NONE
  <2>1. id.excause # NONE /\ id.is_valid
    BY <1>3, <1>6, EmptyStages, FlushedFetchStage
  <2>2. /\ DecodeOk(s.id_ex, ex, writeback(m.wb, R), m.csr) /\ InSequence(s.id_ex)
        /\ s.id_ex.is_valid = if_id.is_valid /\ s.id_ex.inst_addr = if_id.inst_addr
    BY <1>6, <2>1, QuietDecode
  <2>3. id_ex.is_valid /\ id_ex.excause = NONE => id_ex.predicted_next_inst_addr = Addr(if_id, pc)
    BY DEF Pipeline, Chained
  <2>4. ex.is_valid /\ ex.excause = NONE => ex.predicted_next_inst_addr = Addr(s.id_ex, Addr(s.if_id, pc))
    BY <1>1, <1>2, <2>1, <2>2, <2>3 DEF Addr
  <2> QED
    BY <1>1, <1>2, <1>4, <2>1, <2>2, <2>4 DEF PipelineOf
<1> QED
  BY <1>5, <1>6

\* A step in which ID and IF wait.
LEMMA StallPipeline ==
    ASSUME SafeHazards, TypeInv, Pipeline, NEW irq, NEW skip, NEW predicted \in V, NEW s,
           NEW R, NEW m, NEW ex, NEW id, NEW f, Parts(s, irq, skip, predicted, R, m, ex, id, f), Quiet(m.wb)
    PROVE  PipelineOf(if_id, FlushedDecode, ex, writeback(m.wb, R), m.csr, pc, FALSE)
<1>1. /\ ExecuteOk(ex, writeback(m.wb, R), m.csr) /\ InSequence(ex) /\ FetchOk(if_id, m.csr)
      /\ ex.is_valid = id_ex.is_valid /\ ex.excause = id_ex.excause
      /\ ex.predicted_next_inst_addr = id_ex.predicted_next_inst_addr
  BY QuietParts
<1>2. DecodeStage(FlushedDecode) /\ ~FlushedDecode.is_valid
  BY FlushedStages
<1>3. DecodeOk(FlushedDecode, ex, writeback(m.wb, R), m.csr) /\ InSequence(FlushedDecode)
  BY <1>2, EmptyStages, FlushedFetchStage
<1>4. /\ if_id.is_valid => if_id.predicted_next_inst_addr = pc
      /\ id_ex.is_valid /\ id_ex.excause = NONE => id_ex.predicted_next_inst_addr = Addr(if_id, pc)
      /\ InSequence(if_id)
  BY DEF Pipeline, Chained
<1>5. ex.is_valid /\ ex.excause = NONE => ex.predicted_next_inst_addr = Addr(FlushedDecode, Addr(if_id, pc))
  BY <1>1, <1>2, <1>4 DEF Addr
<1> QED
  BY <1>1, <1>2, <1>3, <1>4, <1>5 DEF PipelineOf

\* A step in which every instruction moves on.
LEMMA AdvancePipeline ==
    ASSUME SafeHazards, TypeInv, Pipeline, NEW irq \in Irqs, NEW skip \in SkipBreaks,
           NEW predicted \in V, predicted \in Predictions, NEW s,
           NEW R, NEW m, NEW ex, NEW id, NEW f, Parts(s, irq, skip, predicted, R, m, ex, id, f), Quiet(m.wb),
           ~decode_throws(if_id, m.csr), ex.excause = NONE, id.excause = NONE,
           ~s.stall, ~is_stall_requested(s.id_ex, ex)
    PROVE  PipelineOf(s.if_id, s.id_ex, ex, writeback(m.wb, R), m.csr, s.if_id.predicted_next_inst_addr, FALSE)
<1>1. /\ ExecuteOk(ex, writeback(m.wb, R), m.csr) /\ InSequence(ex)
      /\ ex.is_valid = id_ex.is_valid /\ ex.excause = id_ex.excause
      /\ ex.predicted_next_inst_addr = id_ex.predicted_next_inst_addr
  BY QuietParts
<1>2. /\ DecodeOk(s.id_ex, ex, writeback(m.wb, R), m.csr) /\ InSequence(s.id_ex)
      /\ s.id_ex.is_valid = if_id.is_valid /\ s.id_ex.inst_addr = if_id.inst_addr
      /\ s.id_ex.predicted_next_inst_addr = if_id.predicted_next_inst_addr
      /\ s.id_ex.excause = id.excause
  BY QuietDecode
<1>3. ~stop_if
  <2>1. ex_mem.excause = NONE
    BY ExceptionLeaves DEF Parts, Quiet
  <2> QED
    BY <1>1, <2>1 DEF Pipeline
<1>4. s.if_id = f /\ f = fetch(prog, pc, m.csr, irq, skip, predicted)
  BY <1>3 DEF Parts, Quiet
<1>5. /\ f.is_valid /\ f.inst_addr = pc /\ f.predicted_next_inst_addr = predicted
      /\ f.next_inst_addr = (pc + 1) % N /\ SameFetch(f, SingleFetch(pc, m.csr, irq, skip))
  BY <1>4 DEF fetch, SingleFetch, SameFetch
<1>6. FetchOk(f, m.csr)
  BY <1>5 DEF FetchOk
<1>7. InSequence(f)
  BY <1>5 DEF InSequence, Predictions
<1>8. /\ if_id.is_valid => if_id.predicted_next_inst_addr = pc
      /\ id_ex.is_valid /\ id_ex.excause = NONE => id_ex.predicted_next_inst_addr = Addr(if_id, pc)
  BY DEF Pipeline, Chained
<1>9. /\ s.id_ex.is_valid => s.id_ex.predicted_next_inst_addr = Addr(f, predicted)
      /\ ex.is_valid => ex.predicted_next_inst_addr = Addr(s.id_ex, Addr(f, predicted))
  BY <1>1, <1>2, <1>5, <1>8 DEF Addr
<1> QED
  BY <1>1, <1>2, <1>4, <1>5, <1>6, <1>7, <1>9 DEF PipelineOf

\* Pipeline in the next state, from the stages of the next state.
LEMMA PipelineNext ==
    ASSUME prog' = prog,
           PipelineOf(if_id', id_ex', ex_mem', writeback(mem_wb', regs'), csr', pc', stop_if')
    PROVE  Pipeline'
<1>1. ASSUME NEW a, NEW c, NEW irq, NEW skip
      PROVE  fetch(prog', a, c, irq, skip, (a + 1) % N) = SingleFetch(a, c, irq, skip)
  BY DEF SingleFetch
<1>2. FetchOk(if_id, csr)'
  BY <1>1 DEF PipelineOf, FetchOk, SingleFetch
<1>3. DecodeOk(id_ex, ex_mem, writeback(mem_wb, regs), csr)'
  BY <1>1 DEF PipelineOf, DecodeOk, SingleFetch
<1>4. ExecuteOk(ex_mem, writeback(mem_wb, regs), csr)'
  BY <1>1 DEF PipelineOf, ExecuteOk, SingleFetch
<1> QED
  BY <1>2, <1>3, <1>4 DEF PipelineOf, Pipeline, Chained

\* A step of the pipeline keeps the stages right.
LEMMA StepPipeline ==
    ASSUME SafeHazards, TypeInv, Pipeline, NEW irq \in Irqs, NEW skip \in SkipBreaks,
           NEW predicted \in Predictions, do_step(irq, skip, predicted)
    PROVE  Pipeline'
<1>1. PICK s : /\ s = Stages(irq, skip, predicted) /\ ~decode_throws(if_id, s.csr)
               /\ regs' = s.regs /\ mem_wb' = s.mem_wb /\ prog' = prog
               /\ \/ HandleException(s) \/ flush_and_continue_from_address(s) \/ StopFetching(s)
                  \/ handle_stall(s) \/ Advance(s)
  BY DEF do_step
<1>2. PICK R, m, ex, id, f : Parts(s, irq, skip, predicted, R, m, ex, id, f)
  BY <1>1, StageParts
<1>3. predicted \in V
  BY PredictionsAreAddresses DEF TypeInv
<1>4. /\ s.regs = R /\ s.csr = m.csr /\ s.mem_wb = m.wb /\ s.ex_mem = ex
      /\ s.exception_in_progress <=> m.wb.excause # NONE \/ ex.excause # NONE \/ id.excause # NONE
  BY <1>2 DEF Parts
<1>5. /\ s.id_ex.is_valid = id.is_valid
      /\ m.wb.excause # NONE => ~ex.is_valid
      /\ m.wb.excause # NONE => ~id.is_valid
      /\ m.wb.excause # NONE => ~s.if_id.is_valid
      /\ FetchStage(s.if_id)
  BY <1>2, <1>3, Cascade
<1>6. ExecuteStage(ex) /\ DecodeStage(s.id_ex)
  BY <1>2, <1>3, PartTypes
<1> DEFINE Next1 == PipelineOf(if_id', id_ex', ex_mem', writeback(m.wb, R), csr', pc', stop_if')
<1>7. ASSUME HandleException(s) PROVE Next1
  <2>1. /\ m.wb.excause # NONE /\ stop_if' = FALSE
        /\ if_id' = s.if_id /\ id_ex' = s.id_ex /\ ex_mem' = ex
    BY <1>4, <1>7 DEF HandleException
  <2>2. PipelineOf(s.if_id, s.id_ex, ex, writeback(m.wb, R), csr', pc', FALSE)
    BY <1>5, <1>6, <2>1, EmptyPipeline
  <2> QED
    BY <2>1, <2>2
<1>8. ASSUME flush_and_continue_from_address(s) PROVE Next1
  <2>1. stop_if' = FALSE /\ if_id' = FlushedFetch /\ id_ex' = FlushedDecode /\ ex_mem' = FlushedExecute
    BY <1>8 DEF flush_and_continue_from_address
  <2>2. PipelineOf(FlushedFetch, FlushedDecode, FlushedExecute, writeback(m.wb, R), csr', pc', FALSE)
    BY FlushedStages, FlushedFetchStage, EmptyPipeline DEF FlushedFetch
  <2> QED
    BY <2>1, <2>2
<1>9. ASSUME StopFetching(s) PROVE Next1
  <2>1. /\ Quiet(m.wb)
        /\ ex.excause # NONE \/ id.excause # NONE
        /\ stop_if' = TRUE /\ if_id' = s.if_id /\ id_ex' = s.id_ex /\ ex_mem' = ex
        /\ csr' = m.csr /\ pc' = pc
    BY <1>4, <1>9 DEF StopFetching, NoRedirect, Quiet
  <2>2. PipelineOf(s.if_id, s.id_ex, ex, writeback(m.wb, R), m.csr, pc, TRUE)
    BY <1>1, <1>2, <1>3, <1>4, <2>1, StopPipeline
  <2> QED
    BY <2>1, <2>2
<1>10. ASSUME handle_stall(s) PROVE Next1
  <2>1. /\ Quiet(m.wb) /\ stop_if' = FALSE /\ if_id' = if_id /\ id_ex' = FlushedDecode /\ ex_mem' = ex
        /\ csr' = m.csr /\ pc' = pc
    BY <1>4, <1>10 DEF handle_stall, NoRedirect, Quiet
  <2>2. PipelineOf(if_id, FlushedDecode, ex, writeback(m.wb, R), m.csr, pc, FALSE)
    BY <1>2, <1>3, <2>1, StallPipeline
  <2> QED
    BY <2>1, <2>2
<1>11. ASSUME Advance(s) PROVE Next1
  <2>1. /\ Quiet(m.wb) /\ ex.excause = NONE /\ id.excause = NONE
        /\ ~s.stall /\ ~is_stall_requested(s.id_ex, ex)
        /\ stop_if' = FALSE /\ if_id' = s.if_id /\ id_ex' = s.id_ex /\ ex_mem' = ex
        /\ csr' = m.csr /\ pc' = s.if_id.predicted_next_inst_addr
    BY <1>4, <1>11 DEF Advance, NoRedirect, Quiet
  <2>2. PipelineOf(s.if_id, s.id_ex, ex, writeback(m.wb, R), m.csr, s.if_id.predicted_next_inst_addr, FALSE)
    BY <1>1, <1>2, <1>3, <1>4, <2>1, AdvancePipeline
  <2> QED
    BY <2>1, <2>2
<1>12. Next1
  BY <1>1, <1>7, <1>8, <1>9, <1>10, <1>11
<1> QED
  BY <1>1, <1>4, <1>12, PipelineNext

\* Pipeline does not depend on anything but the variables.
LEMMA InitPipeline == Init => Pipeline
<1> SUFFICES ASSUME Init PROVE Pipeline
  OBVIOUS
<1>1. /\ if_id = FlushedFetch /\ id_ex = FlushedDecode /\ ex_mem = FlushedExecute /\ stop_if = FALSE
  BY DEF Init
<1>2. PipelineOf(FlushedFetch, FlushedDecode, FlushedExecute, writeback(mem_wb, regs), csr, pc, FALSE)
  BY FlushedStages, FlushedFetchStage, EmptyPipeline DEF FlushedFetch
<1> QED
  BY <1>1, <1>2 DEF PipelineOf, Pipeline, Chained

\* Every stage of the pipeline is right until the machine is trapped, with a hazard
\* unit that keeps the operands right.
THEOREM PipelineInvariant == ASSUME SafeHazards PROVE Spec => []IInv
<1>1. Init => IInv
  BY InitTypes, InitPipeline DEF IInv
<1>2. IInv /\ [Next]_vars => IInv'
  <2> SUFFICES ASSUME IInv, [Next]_vars PROVE IInv'
    OBVIOUS
  <2>1. TypeInv'
    BY NextTypes DEF IInv
  <2>2. ASSUME ~trapped' PROVE Pipeline'
    <3>1. CASE UNCHANGED vars
      BY <2>2, <3>1 DEF IInv, vars, Pipeline, Chained, FetchOk, DecodeOk, ExecuteOk, SingleFetch
    <3>2. CASE DecodeThrows
      BY <2>2, <3>2 DEF DecodeThrows
    <3>3. ASSUME NEW irq \in Irqs, NEW skip \in SkipBreaks, NEW predicted \in Predictions,
                 do_step(irq, skip, predicted)
          PROVE  Pipeline'
      <4>1. ~trapped
        BY <3>3 DEF do_step
      <4> QED
        BY <3>3, <4>1, StepPipeline DEF IInv
    <3> QED
      BY <3>1, <3>2, <3>3 DEF Next
  <2> QED
    BY <2>1, <2>2 DEF IInv
<1> QED
  BY <1>1, <1>2, PTL DEF Spec

(***************************************************************************)
(* Refinement: the operators of the single-cycle core are these            *)
(***************************************************************************)
\* The constants of both cores.
LEMMA SingleNames ==
    /\ Single!V = V /\ Single!Regs = Regs /\ Single!NONE = NONE /\ Single!NOP = NOP /\ Single!NoAddr = NoAddr
    /\ Single!FlagsOf = FlagsOf /\ Single!MACHINE = MACHINE /\ Single!UNPRIVILEGED = UNPRIVILEGED
    /\ Single!PageFaults = PageFaults /\ Single!CsrInit = CsrInit
    /\ Single!RegsInit = RegsInit /\ Single!Programs = Programs
<1>1. /\ Single!V = V /\ Single!Regs = Regs /\ Single!NONE = NONE /\ Single!NOP = NOP /\ Single!NoAddr = NoAddr
      /\ Single!MACHINE = MACHINE /\ Single!UNPRIVILEGED = UNPRIVILEGED
  BY DEF Single!V, V, Single!Regs, Regs, Single!NONE, NONE, Single!NOP, NOP, Single!Inst, Inst,
         Single!NoAddr, NoAddr, Single!MACHINE, MACHINE, Single!UNPRIVILEGED, UNPRIVILEGED
<1>2. Single!FlagsOf = FlagsOf
  BY Zenon DEF Single!FlagsOf, FlagsOf, FLAGS_ALU_I, FLAGS_ALU_I_LOAD, FLAGS_ALU_I_STORE, FLAGS_ALU_T_R_STD,
         FLAGS_AMO_LOAD, FLAGS_AMO_STORE, FLAGS_AMO_MODIFY, Single!FLAGS_ALU_I, Single!FLAGS_ALU_I_LOAD,
         Single!FLAGS_ALU_I_STORE, Single!FLAGS_ALU_T_R_STD, Single!FLAGS_AMO_LOAD, Single!FLAGS_AMO_STORE,
         Single!FLAGS_AMO_MODIFY
<1>3. Single!PageFaults = PageFaults /\ Single!RegsInit = RegsInit
  BY <1>1 DEF Single!PageFaults, PageFaults, Single!RegsInit, RegsInit
<1>4. Single!CsrInit = CsrInit
  BY <1>1 DEF Single!CsrInit, CsrInit
<1>5. Single!Programs = Programs
  BY <1>1 DEF Single!Programs, Programs
<1> QED
  BY <1>1, <1>2, <1>3, <1>4, <1>5

\* Inputs of a step.
LEMMA SingleInputs == Single!Irqs = Irqs /\ Single!SkipBreaks = SkipBreaks
  BY DEF Single!Irqs, Irqs, Single!SkipBreaks, SkipBreaks

\* fetch and decode.
LEMMA SingleFront ==
    /\ \A c : Single!core_interrupt_enabled(c) = core_interrupt_enabled(c)
    /\ \A p, a, c, irq, skip, predicted :
          Single!fetch(p, a, c, irq, skip, predicted) = fetch(p, a, c, irq, skip, predicted)
    /\ \A dt, c : Single!decode_throws(dt, c) = decode_throws(dt, c)
    /\ \A dt, R, c : Single!decode(dt, R, c) = decode(dt, R, c)
<1>1. \A c : Single!core_interrupt_enabled(c) = core_interrupt_enabled(c)
  BY SingleNames DEF Single!core_interrupt_enabled, core_interrupt_enabled
<1>2. \A p, a, c, irq, skip, predicted :
          Single!fetch(p, a, c, irq, skip, predicted) = fetch(p, a, c, irq, skip, predicted)
  BY <1>1, SingleNames, ZenonT(40) DEF Single!fetch, fetch
<1>3. \A dt, c : Single!decode_throws(dt, c) = decode_throws(dt, c)
  BY SingleNames DEF Single!decode_throws, decode_throws
<1>4. \A c, name : Single!csr_read(c, name) = csr_read(c, name)
  BY SingleNames DEF Single!csr_read, csr_read
<1>5. \A R, r : Single!read_gp(R, r) = read_gp(R, r)
  BY DEF Single!read_gp, read_gp
<1>6. \A dt, R, c : Single!decode(dt, R, c) = decode(dt, R, c)
  BY <1>4, <1>5, SingleNames DEF Single!decode, decode
<1> QED
  BY <1>1, <1>2, <1>3, <1>6

\* execute.
LEMMA SingleExecute == \A dt : Single!execute(dt) = execute(dt)
<1>1. Single!Or = Or
  BY Zenon, SingleNames DEF Single!Or, Or
<1>2. \A a, b : Single!bitwise_or(a, b) = bitwise_or(a, b)
  BY <1>1 DEF Single!bitwise_or, bitwise_or
<1>3. \A flags, x, y : Single!alu_combined_operate(flags, x, y) = alu_combined_operate(flags, x, y)
  BY <1>2 DEF Single!alu_combined_operate, alu_combined_operate
<1> QED
  BY <1>3, SingleNames DEF Single!execute, execute

\* memory and writeback.
LEMMA SingleMemory ==
    /\ \A dt, M, c, r : Single!memory(dt, M, c, r) = memory(dt, M, c, r)
    /\ \A wb, R : Single!writeback(wb, R) = writeback(wb, R)
<1>1. \A dt, t : Single!compute_next_inst_addr(dt, t) = compute_next_inst_addr(dt, t)
  BY DEF Single!compute_next_inst_addr, compute_next_inst_addr
<1>2. \A dt, M, r : Single!MemAccess(dt, M, r) = MemAccess(dt, M, r)
  BY SingleNames DEF Single!MemAccess, MemAccess
<1>3. \A c, name, v : Single!csr_write(c, name, v) = csr_write(c, name, v)
  BY SingleNames DEF Single!csr_write, csr_write
<1>4. \A c : Single!exception_return(c) = exception_return(c)
  BY SingleNames DEF Single!exception_return, exception_return
<1>5. \A dt, M, c, r : Single!memory(dt, M, c, r) = memory(dt, M, c, r)
  BY <1>1, <1>2, <1>3, <1>4, SingleNames DEF Single!memory, memory
<1>6. \A wb, R : Single!writeback(wb, R) = writeback(wb, R)
  BY SingleNames DEF Single!writeback, writeback, Single!write_gp, write_gp
<1> QED
  BY <1>5, <1>6

\* handle_exception.
LEMMA SingleException == \A wb, c, r : Single!handle_exception(wb, c, r) = handle_exception(wb, c, r)
<1>1. \A c : Single!exception_initiate(c) = exception_initiate(c)
  BY SingleNames DEF Single!exception_initiate, exception_initiate
<1> QED
  BY <1>1, SingleNames DEF Single!handle_exception, handle_exception

(***************************************************************************)
(* Refinement: the oldest instruction takes a step of the single-cycle     *)
(* core, a bubble does nothing                                             *)
(***************************************************************************)
\* A bubble in the memory stage.
LEMMA BubbleStep ==
    ASSUME NEW ex, ExecuteStage(ex), ~ex.is_valid, NEW M, NEW c, NEW r, NEW m, m = memory(ex, M, c, r),
           NEW R \in [Regs -> V]
    PROVE  m.mem = M /\ m.csr = c /\ m.resv = r /\ Quiet(m.wb) /\ writeback(m.wb, R) = R
<1>1. /\ ex.inst = NOP /\ ex.excause = NONE /\ ex.flags \in {{}, FLAGS_ALU_I} /\ ex.num_rd = 0
      /\ ex.next_inst_addr = 0 /\ ex.predicted_next_inst_addr = 0
  BY DEF ExecuteStage, Bubble
<1>2. ex.inst.op = "addi"
  BY <1>1 DEF NOP, Inst
<1>3. Acc(ex, M, r) = [cause |-> NONE, value |-> ex.alu_val, mem |-> M, resv |-> r]
  BY <1>1, <1>2 DEF Acc, MemAccess
<1>4. ~Retired(ex) /\ ~Xret(ex) /\ CsrAfter(ex, c) = c
  BY DEF Retired, Xret, CsrAfter, Written, Counted
<1>5. /\ m.mem = Acc(ex, M, r).mem /\ m.csr = CsrAfter(ex, c)
      /\ m.resv = IF Xret(ex) THEN NoAddr ELSE Acc(ex, M, r).resv
      /\ m.wb.computed_next_inst_addr = NextAddr(ex, c)
      /\ m.wb.predicted_next_inst_addr = ex.predicted_next_inst_addr
      /\ m.wb.excause = Acc(ex, M, r).cause /\ m.wb.num_rd = ex.num_rd
      /\ (m.wb.csr_written <=> Retired(ex) /\ (ex.csr_write \/ Xret(ex)))
  BY MemoryParts
<1>6. "BRANCH" \notin ex.flags /\ "JUMP" \notin ex.flags /\ "BRANCH_JALR" \notin ex.flags
  BY <1>1 DEF FLAGS_ALU_I
<1>7. NextAddr(ex, c) = 0
  BY <1>1, <1>4, <1>6 DEF NextAddr, Taken, compute_next_inst_addr
<1>8. Quiet(m.wb)
  BY <1>1, <1>3, <1>4, <1>5, <1>7 DEF Quiet, RestartsFetch, detect_mispredicted_jump
<1>9. writeback(m.wb, R) = R
  BY <1>1, <1>5 DEF writeback, write_gp
<1> QED
  BY <1>3, <1>4, <1>5, <1>8, <1>9

\* The oldest instruction, of given stages.
LEMMA OldestIs == OldestAddr = Addr(ex_mem, Addr(id_ex, Addr(if_id, pc)))
  BY DEF OldestAddr, Addr

\* handle_exception looks at nothing else.
LEMMA HandleSame ==
    ASSUME NEW x, NEW y, x.inst_addr = y.inst_addr, x.excause = y.excause, x.mem_addr = y.mem_addr,
           x.computed_next_inst_addr = y.computed_next_inst_addr, NEW c, NEW r
    PROVE  handle_exception(x, c, r) = handle_exception(y, c, r)
  BY DEF handle_exception

\* What a step of the pipeline shows.
LEMMA StepShows ==
    ASSUME SafeHazards, TypeInv, Pipeline, NEW irq \in Irqs, NEW skip \in SkipBreaks,
           NEW predicted \in Predictions, do_step(irq, skip, predicted)
    PROVE  \E m : /\ m = memory(ex_mem, mem, csr, resv)
                  /\ ~trapped /\ prog' = prog /\ mem' = m.mem /\ mem_wb' = m.wb
                  /\ regs' = writeback(mem_wb, regs)
                  /\ m.wb.excause # NONE =>
                        \E x : /\ x = handle_exception(m.wb, m.csr, m.resv)
                               /\ OldestAddr' = x.pc /\ csr' = x.csr /\ resv' = x.resv
                  /\ m.wb.excause = NONE =>
                        /\ csr' = m.csr /\ resv' = m.resv
                        /\ OldestAddr' = IF RestartsFetch(m.wb) THEN m.wb.computed_next_inst_addr
                                         ELSE Addr(id_ex, Addr(if_id, pc))
<1>1. PICK s : /\ s = Stages(irq, skip, predicted) /\ ~decode_throws(if_id, s.csr)
               /\ ~trapped /\ regs' = s.regs /\ mem' = s.mem /\ mem_wb' = s.mem_wb /\ prog' = prog
               /\ \/ HandleException(s) \/ flush_and_continue_from_address(s) \/ StopFetching(s)
                  \/ handle_stall(s) \/ Advance(s)
  BY DEF do_step
<1>2. PICK R, m, ex, id, f : Parts(s, irq, skip, predicted, R, m, ex, id, f)
  BY <1>1, StageParts
<1>3. predicted \in V
  BY PredictionsAreAddresses DEF TypeInv
<1>4. /\ m = memory(ex_mem, mem, csr, resv) /\ R = writeback(mem_wb, regs)
      /\ s.regs = R /\ s.mem = m.mem /\ s.csr = m.csr /\ s.resv = m.resv /\ s.mem_wb = m.wb /\ s.ex_mem = ex
      /\ s.exception_in_progress <=> m.wb.excause # NONE \/ ex.excause # NONE \/ id.excause # NONE
  BY <1>2 DEF Parts
<1>5. /\ s.id_ex.is_valid = id.is_valid
      /\ m.wb.excause # NONE => ~ex.is_valid /\ ~id.is_valid /\ ~s.if_id.is_valid
  BY <1>2, <1>3, Cascade
<1>6. OldestAddr' = Addr(ex_mem', Addr(id_ex', Addr(if_id', pc')))
  BY OldestIs DEF OldestAddr, Addr
<1> DEFINE Shown ==
      /\ m.wb.excause # NONE =>
            \E x : /\ x = handle_exception(m.wb, m.csr, m.resv)
                   /\ OldestAddr' = x.pc /\ csr' = x.csr /\ resv' = x.resv
      /\ m.wb.excause = NONE =>
            /\ csr' = m.csr /\ resv' = m.resv
            /\ OldestAddr' = IF RestartsFetch(m.wb) THEN m.wb.computed_next_inst_addr
                             ELSE Addr(id_ex, Addr(if_id, pc))
<1>7. ASSUME HandleException(s) PROVE Shown
  <2>1. PICK x : x = handle_exception(m.wb, m.csr, m.resv)
    OBVIOUS
  <2>2. /\ m.wb.excause # NONE /\ pc' = x.pc /\ csr' = x.csr /\ resv' = x.resv
        /\ if_id' = s.if_id /\ id_ex' = s.id_ex /\ ex_mem' = ex
    BY <1>4, <1>7, <2>1 DEF HandleException
  <2>3. OldestAddr' = x.pc
    BY <1>5, <1>6, <2>2 DEF Addr
  <2> QED
    BY <2>1, <2>2, <2>3
<1>8. ASSUME flush_and_continue_from_address(s) PROVE Shown
  <2>1. /\ m.wb.excause = NONE /\ RestartsFetch(m.wb) /\ pc' = m.wb.computed_next_inst_addr
        /\ csr' = m.csr /\ resv' = m.resv
        /\ if_id' = FlushedFetch /\ id_ex' = FlushedDecode /\ ex_mem' = FlushedExecute
    BY <1>4, <1>8 DEF flush_and_continue_from_address
  <2>2. OldestAddr' = pc'
    BY <1>6, <2>1, FlushedStages DEF Addr, FlushedFetch
  <2> QED
    BY <2>1, <2>2
<1>9. ASSUME NoRedirect(s) PROVE Quiet(m.wb) /\ m.wb.excause = NONE /\ csr' = m.csr /\ resv' = m.resv
  BY <1>4, <1>9 DEF NoRedirect, Quiet
<1>10. ASSUME Quiet(m.wb)
       PROVE  ex.is_valid = id_ex.is_valid /\ ex.inst_addr = id_ex.inst_addr /\ ex.excause = id_ex.excause
  BY <1>2, <1>3, <1>10, QuietParts
<1>11. ASSUME StopFetching(s) PROVE Shown
  <2>1. /\ ex_mem' = ex /\ id_ex' = s.id_ex /\ Quiet(m.wb) /\ m.wb.excause = NONE
        /\ csr' = m.csr /\ resv' = m.resv /\ (ex.excause # NONE \/ id.excause # NONE)
    BY <1>4, <1>9, <1>11 DEF StopFetching
  <2>2. ASSUME ~ex.is_valid
        PROVE  id.is_valid /\ s.id_ex.inst_addr = if_id.inst_addr /\ s.id_ex.is_valid = if_id.is_valid
    <3>1. ExecuteStage(ex) /\ DecodeStage(id)
      BY <1>2, <1>3, PartTypes
    <3>2. ex.excause = NONE
      BY <2>2, <3>1 DEF ExecuteStage, Bubble
    <3>3. id.excause # NONE /\ id.is_valid
      BY <2>1, <3>1, <3>2 DEF DecodeStage, Bubble
    <3> QED
      BY <1>1, <1>2, <1>3, <1>4, <2>1, <3>2, <3>3, QuietDecode
  <2>3. OldestAddr' = Addr(id_ex, Addr(if_id, pc))
    BY <1>5, <1>6, <1>10, <2>1, <2>2 DEF Addr
  <2> QED
    BY <2>1, <2>3 DEF Quiet
<1>12. ASSUME handle_stall(s) PROVE Shown
  <2>1. /\ ex_mem' = ex /\ id_ex' = FlushedDecode /\ if_id' = if_id /\ pc' = pc
        /\ Quiet(m.wb) /\ m.wb.excause = NONE /\ csr' = m.csr /\ resv' = m.resv
    BY <1>4, <1>9, <1>12 DEF handle_stall
  <2>2. OldestAddr' = Addr(id_ex, Addr(if_id, pc))
    BY <1>6, <1>10, <2>1, FlushedStages DEF Addr
  <2> QED
    BY <2>1, <2>2 DEF Quiet
<1>13. ASSUME Advance(s) PROVE Shown
  <2>1. /\ ex_mem' = ex /\ id_ex' = s.id_ex /\ if_id' = s.if_id
        /\ Quiet(m.wb) /\ m.wb.excause = NONE /\ csr' = m.csr /\ resv' = m.resv
        /\ ex.excause = NONE /\ id.excause = NONE /\ ~s.stall /\ ~is_stall_requested(s.id_ex, ex)
    BY <1>4, <1>9, <1>13 DEF Advance
  <2>2. s.id_ex.inst_addr = if_id.inst_addr /\ s.id_ex.is_valid = if_id.is_valid
    BY <1>1, <1>2, <1>3, <1>4, <2>1, QuietDecode
  <2>3. ~stop_if
    <3>1. ex_mem.excause = NONE
      BY <1>4, <2>1, ExceptionLeaves
    <3> QED
      BY <1>10, <2>1, <3>1 DEF Pipeline
  <2>4. s.if_id.is_valid /\ s.if_id.inst_addr = pc
    BY <1>2, <2>1, <2>3 DEF Parts, fetch
  <2>5. OldestAddr' = Addr(id_ex, Addr(if_id, pc))
    BY <1>6, <1>10, <2>1, <2>2, <2>4 DEF Addr
  <2> QED
    BY <2>1, <2>5 DEF Quiet
<1>14. Shown
  BY <1>1, <1>7, <1>8, <1>11, <1>12, <1>13
<1> HIDE DEF Shown
<1>15. /\ m = memory(ex_mem, mem, csr, resv) /\ ~trapped /\ prog' = prog /\ mem' = m.mem /\ mem_wb' = m.wb
       /\ regs' = writeback(mem_wb, regs)
  BY <1>1, <1>4
<1> QED
  BY <1>14, <1>15 DEF Shown

\* A step with an instruction in the memory stage: the single-cycle core executes it.
LEMMA ValidStep ==
    ASSUME SafeHazards, TypeInv, Pipeline, ex_mem.is_valid, NEW irq \in Irqs, NEW skip \in SkipBreaks,
           NEW predicted \in Predictions, do_step(irq, skip, predicted)
    PROVE  Single!Next
<1>1. PICK m : /\ m = memory(ex_mem, mem, csr, resv)
               /\ ~trapped /\ prog' = prog /\ mem' = m.mem /\ mem_wb' = m.wb
               /\ regs' = writeback(mem_wb, regs)
               /\ m.wb.excause # NONE =>
                     \E x : /\ x = handle_exception(m.wb, m.csr, m.resv)
                            /\ OldestAddr' = x.pc /\ csr' = x.csr /\ resv' = x.resv
               /\ m.wb.excause = NONE =>
                     /\ csr' = m.csr /\ resv' = m.resv
                     /\ OldestAddr' = IF RestartsFetch(m.wb) THEN m.wb.computed_next_inst_addr
                                      ELSE Addr(id_ex, Addr(if_id, pc))
  BY StepShows
<1>2. PICK R, a : R = writeback(mem_wb, regs) /\ a = OldestAddr
  OBVIOUS
<1>3. a = ex_mem.inst_addr
  BY <1>2 DEF OldestAddr
<1>4. PICK i \in Irqs, b \in SkipBreaks :
         /\ ~decode_throws(SingleFetch(a, csr, i, b), csr)
         /\ ExecutedAs(ex_mem, execute(decode(SingleFetch(a, csr, i, b), R, csr)))
  BY <1>2, <1>3 DEF Pipeline, ExecuteOk
<1>5. PICK g : g = fetch(prog, a, csr, i, b, (a + 1) % N)
  OBVIOUS
<1>6. PICK n : n = memory(execute(decode(g, R, csr)), mem, csr, resv)
  OBVIOUS
<1>7. PICK x : x = handle_exception(n.wb, n.csr, n.resv)
  OBVIOUS
<1>8. ~decode_throws(g, csr) /\ ExecutedAs(ex_mem, execute(decode(g, R, csr)))
  BY <1>4, <1>5 DEF SingleFetch
<1>9. /\ m.mem = n.mem /\ m.csr = n.csr /\ m.resv = n.resv
      /\ m.wb.inst_addr = n.wb.inst_addr /\ m.wb.excause = n.wb.excause
      /\ m.wb.computed_next_inst_addr = n.wb.computed_next_inst_addr
      /\ m.wb.mem_addr = n.wb.mem_addr
      /\ \A S : writeback(m.wb, S) = writeback(n.wb, S)
  BY <1>1, <1>6, <1>8, MemorySame
<1>10. x = handle_exception(m.wb, m.csr, m.resv)
  BY <1>7, <1>9, HandleSame
<1>11. n.wb.excause # NONE => OldestAddr' = x.pc /\ csr' = x.csr /\ resv' = x.resv
  BY <1>1, <1>9, <1>10
<1>12. n.wb.excause = NONE =>
          OldestAddr' = n.wb.computed_next_inst_addr /\ csr' = n.csr /\ resv' = n.resv
  <2> SUFFICES ASSUME m.wb.excause = NONE, ~RestartsFetch(m.wb)
               PROVE  OldestAddr' = m.wb.computed_next_inst_addr
    BY <1>1, <1>9
  <2>1. m.wb.computed_next_inst_addr = m.wb.predicted_next_inst_addr
    BY DEF RestartsFetch, detect_mispredicted_jump
  <2>2. m.wb.predicted_next_inst_addr = ex_mem.predicted_next_inst_addr
    BY <1>1, MemoryParts
  <2>3. ex_mem.excause = NONE
    BY <1>1, ExceptionLeaves
  <2>4. ex_mem.predicted_next_inst_addr = Addr(id_ex, Addr(if_id, pc))
    BY <2>3 DEF Pipeline, Chained
  <2> QED
    BY <1>1, <2>1, <2>2, <2>4
<1>13. writeback(mem_wb', regs') = writeback(n.wb, R)
  BY <1>1, <1>2, <1>9
<1>14. ~(mem_wb.excause = "EXCAUSE_INSN_ILLEGAL")
  BY <1>1 DEF TypeInv
<1>15. mem_wb'.excause = n.wb.excause
  BY <1>1, <1>9
<1>16. Single!do_step(i, b)
  <2>1. /\ g = Single!fetch(prog, OldestAddr, csr, i, b, (OldestAddr + 1) % N)
        /\ n = Single!memory(Single!execute(Single!decode(g, writeback(mem_wb, regs), csr)), mem, csr, resv)
        /\ x = Single!handle_exception(n.wb, n.csr, n.resv)
    BY <1>2, <1>5, <1>6, <1>7, SingleFront, SingleExecute, SingleMemory, SingleException
  <2>2. ~Single!decode_throws(g, csr) /\ mem' = n.mem /\ prog' = prog
    BY <1>1, <1>8, <1>9, SingleFront
  <2>3. writeback(mem_wb', regs') = Single!writeback(n.wb, writeback(mem_wb, regs))
    BY <1>2, <1>13, SingleMemory
  <2>4. IF n.wb.excause # Single!NONE
        THEN OldestAddr' = x.pc /\ csr' = x.csr /\ resv' = x.resv
        ELSE OldestAddr' = n.wb.computed_next_inst_addr /\ csr' = n.csr /\ resv' = n.resv
    BY <1>11, <1>12, SingleNames
  <2> QED
    BY <1>14, <1>15, <2>1, <2>2, <2>3, <2>4 DEF Single!do_step
<1> QED
  BY <1>16, SingleInputs DEF Single!Next

\* A step with a bubble in the memory stage: the program sees nothing.
LEMMA BubbleUnseen ==
    ASSUME SafeHazards, TypeInv, Pipeline, ~ex_mem.is_valid, NEW irq \in Irqs, NEW skip \in SkipBreaks,
           NEW predicted \in Predictions, do_step(irq, skip, predicted)
    PROVE  UNCHANGED Single!vars
<1>1. PICK m : /\ m = memory(ex_mem, mem, csr, resv)
               /\ ~trapped /\ prog' = prog /\ mem' = m.mem /\ mem_wb' = m.wb
               /\ regs' = writeback(mem_wb, regs)
               /\ m.wb.excause = NONE =>
                     /\ csr' = m.csr /\ resv' = m.resv
                     /\ OldestAddr' = IF RestartsFetch(m.wb) THEN m.wb.computed_next_inst_addr
                                      ELSE Addr(id_ex, Addr(if_id, pc))
  BY StepShows
<1>2. PICK R : R = writeback(mem_wb, regs)
  OBVIOUS
<1>3. R \in [Regs -> V] /\ ExecuteStage(ex_mem)
  BY <1>2, WritebackType DEF TypeInv, CoreType, MemoryStage
<1>4. m.mem = mem /\ m.csr = csr /\ m.resv = resv /\ Quiet(m.wb) /\ writeback(m.wb, R) = R
  BY <1>1, <1>3, BubbleStep
<1>5. OldestAddr' = OldestAddr
  BY <1>1, <1>4, OldestIs DEF Quiet, Addr
<1>6. writeback(mem_wb', regs') = writeback(mem_wb, regs)
  BY <1>1, <1>2, <1>4
<1>7. /\ ~(mem_wb.excause = "EXCAUSE_INSN_ILLEGAL") /\ ~(mem_wb'.excause = "EXCAUSE_INSN_ILLEGAL")
  BY <1>1, <1>4 DEF TypeInv, Quiet, NONE
<1> QED
  BY <1>1, <1>4, <1>5, <1>6, <1>7 DEF Single!vars, Quiet

\* The pipelined core computes what the single-cycle core computes, instruction by
\* instruction, for every program, with the hazard unit that stalls and, when nothing
\* is predicted, with the one that forwards.
THEOREM ImplementsSingleTheorem == ASSUME SafeHazards PROVE Spec => ImplementsSingle
<1>1. Init => Single!Init
  <2> SUFFICES ASSUME Init PROVE Single!Init
    OBVIOUS
  <2>1. writeback(mem_wb, regs) = RegsInit
    BY DEF Init, FlushedMemory, writeback
  <2>2. OldestAddr = 0
    BY DEF Init, OldestAddr, FlushedFetch, FlushedDecode, FlushedExecute
  <2>3. ~(mem_wb.excause = "EXCAUSE_INSN_ILLEGAL")
    BY DEF Init, FlushedMemory, NONE
  <2>4. prog \in Programs /\ mem = [a \in V |-> 0] /\ csr = CsrInit /\ resv = NoAddr
    BY DEF Init
  <2> QED
    BY <2>1, <2>2, <2>3, <2>4, SingleNames DEF Single!Init
<1>2. IInv /\ [Next]_vars => [Single!Next \/ DecodeThrows]_(Single!vars)
  <2> SUFFICES ASSUME IInv, [Next]_vars PROVE [Single!Next \/ DecodeThrows]_(Single!vars)
    OBVIOUS
  <2>1. CASE UNCHANGED vars
    BY <2>1 DEF vars, Single!vars, OldestAddr
  <2>2. CASE DecodeThrows
    BY <2>2
  <2>3. ASSUME NEW irq \in Irqs, NEW skip \in SkipBreaks, NEW predicted \in Predictions,
               do_step(irq, skip, predicted)
        PROVE  Single!Next \/ UNCHANGED Single!vars
    <3>1. TypeInv /\ Pipeline
      BY <2>3 DEF IInv, do_step
    <3>2. CASE ex_mem.is_valid
      BY <2>3, <3>1, <3>2, ValidStep
    <3>3. CASE ~ex_mem.is_valid
      BY <2>3, <3>1, <3>3, BubbleUnseen
    <3> QED
      BY <3>2, <3>3
  <2> QED
    BY <2>1, <2>2, <2>3 DEF Next
<1>3. Spec => []IInv
  BY PipelineInvariant
<1> QED
  BY <1>1, <1>2, <1>3, PTL DEF Spec, ImplementsSingle

(***************************************************************************)
(* The branch predictor.  What it has learned for an address is a jump or  *)
(* branch that is there, so every other instruction is followed by the     *)
(* next one.                                                               *)
(***************************************************************************)
JumpAt(a) == a \notin FaultFetch /\ ControlFlow(prog[a])

BpFields == {"type", "initial_state", "bhr", "btb", "bht", "total", "wrong"}

BtbRange == 0 .. 2^BtbBits - 1

Target == [entry_valid : BOOLEAN, instruction_address : V, target_address : V,
           branch_type : {"UNDEFINED", "JUMP", "BRANCH"}]

\* The targets learned are targets of jumps.
PredictorOk(p) ==
    /\ DOMAIN p = BpFields /\ p.btb \in [BtbRange -> Target]
    /\ \A i \in BtbRange : p.btb[i].entry_valid => JumpAt(p.btb[i].instruction_address)

\* The stage holds what is in memory, and only a jump is predicted to go elsewhere.
Guided(x) ==
    /\ x.is_valid => x.inst = NOP \/ (x.inst_addr \notin FaultFetch /\ x.inst = prog[x.inst_addr])
    /\ x.predicted_next_inst_addr # x.next_inst_addr => ControlFlow(x.inst)

PredictedInv ==
    /\ TypeInv /\ Guided(if_id) /\ Guided(id_ex) /\ Guided(ex_mem) /\ PredictorOk(bp)
    /\ bp.total \in Nat /\ bp.wrong \in Nat

\* A size that is a power of two.
LEMMA BtbSize == 2^BtbBits \in Nat \ {0}
<1>1. BtbBits \in 0 .. 8
  BY PredictorAssumption
<1>2. CASE BtbBits = 0
  <2>1. 2^0 = 1
    OBVIOUS
  <2> QED
    BY <1>2, <2>1
<1>3. CASE BtbBits = 1
  <2>1. 2^1 = 2
    OBVIOUS
  <2> QED
    BY <1>3, <2>1
<1>4. CASE BtbBits = 2
  <2>1. 2^2 = 4
    OBVIOUS
  <2> QED
    BY <1>4, <2>1
<1>5. CASE BtbBits = 3
  <2>1. 2^3 = 8
    OBVIOUS
  <2> QED
    BY <1>5, <2>1
<1>6. CASE BtbBits = 4
  <2>1. 2^4 = 16
    OBVIOUS
  <2> QED
    BY <1>6, <2>1
<1>7. CASE BtbBits = 5
  <2>1. 2^5 = 32
    OBVIOUS
  <2> QED
    BY <1>7, <2>1
<1>8. CASE BtbBits = 6
  <2>1. 2^6 = 64
    OBVIOUS
  <2> QED
    BY <1>8, <2>1
<1>9. CASE BtbBits = 7
  <2>1. 2^7 = 128
    OBVIOUS
  <2> QED
    BY <1>9, <2>1
<1>10. CASE BtbBits = 8
  <2>1. 2^8 = 256
    OBVIOUS
  <2> QED
    BY <1>10, <2>1
<1> QED
  BY <1>1, <1>2, <1>3, <1>4, <1>5, <1>6, <1>7, <1>8, <1>9, <1>10

\* The index of an address.
LEMMA BtbIndex == ASSUME NEW a \in V PROVE btb_index(a) \in BtbRange
<1>1. PICK k : k = 2^BtbBits
  OBVIOUS
<1>2. k \in Nat \ {0} /\ a \in Nat
  BY <1>1, BtbSize, ModN
<1>3. a % k \in 0 .. k - 1
  BY <1>2
<1> QED
  BY <1>1, <1>3 DEF btb_index, BtbRange

\* flush.
LEMMA FlushOk ==
    ASSUME NEW p, DOMAIN p = BpFields, NEW q, q = flush(p)
    PROVE  PredictorOk(q) /\ q.total = p.total /\ q.wrong = p.wrong
<1>1. PICK T, r : T = [i \in BtbRange |-> NoTarget] /\ r = [p EXCEPT !.btb = T]
  OBVIOUS
<1>2. DOMAIN r = BpFields /\ r.btb = T /\ r.total = p.total /\ r.wrong = p.wrong
  BY <1>1 DEF BpFields
<1>3. PICK H, u : H = [i \in 0 .. BhtSize(r.type) - 1 |-> r.initial_state] /\ u = [r EXCEPT !.bht = H]
  OBVIOUS
<1>4. DOMAIN u = BpFields /\ u.btb = T /\ u.total = p.total /\ u.wrong = p.wrong
  BY <1>2, <1>3 DEF BpFields
<1>5. q = [u EXCEPT !.bhr = 0]
  BY <1>1, <1>3 DEF flush, clear_bht_state, btb_clear, BtbRange
<1>6. DOMAIN q = BpFields /\ q.btb = T /\ q.total = p.total /\ q.wrong = p.wrong
  BY <1>4, <1>5 DEF BpFields
<1>7. NoTarget \in Target /\ ~NoTarget.entry_valid
  BY ModN DEF NoTarget, Target
<1>8. T \in [BtbRange -> Target] /\ \A i \in BtbRange : ~T[i].entry_valid
  BY <1>1, <1>7
<1> QED
  BY <1>6, <1>8 DEF PredictorOk

\* update, for a jump.
LEMMA UpdateOk ==
    ASSUME NEW p, PredictorOk(p), NEW a \in V, JumpAt(a), NEW t \in V, NEW type \in {"JUMP", "BRANCH"}, NEW taken,
           NEW q, q = update(p, a, t, type, taken)
    PROVE  PredictorOk(q) /\ q.total = p.total + 1 /\ q.wrong = p.wrong
<1>1. PICK e, i : /\ e = [entry_valid |-> TRUE, instruction_address |-> a, target_address |-> t, branch_type |-> type]
                  /\ i = btb_index(a)
  OBVIOUS
<1>2. e \in Target /\ e.instruction_address = a /\ i \in BtbRange
  BY <1>1, BtbIndex DEF Target
<1>3. PICK T, r : T = [p.btb EXCEPT ![i] = e] /\ r = [p EXCEPT !.btb = T]
  OBVIOUS
<1>4. r = btb_update(p, a, t, type)
  BY <1>1, <1>3 DEF btb_update
<1>5. DOMAIN p = BpFields /\ p.btb \in [BtbRange -> Target]
  BY DEF PredictorOk
<1>6. DOMAIN r = BpFields /\ r.btb = T /\ r.total = p.total /\ r.wrong = p.wrong
  BY <1>3, <1>5 DEF BpFields
<1>7. T \in [BtbRange -> Target] /\ \A j \in BtbRange : T[j].entry_valid => JumpAt(T[j].instruction_address)
  BY <1>2, <1>3, <1>5 DEF PredictorOk
<1>8. PICK u : u = IF type = "BRANCH" THEN train(r, a, taken) ELSE r
  OBVIOUS
<1>9. DOMAIN u = BpFields /\ u.btb = T /\ u.total = p.total /\ u.wrong = p.wrong
  <2>1. PICK k, w : /\ k = calculate_bht_index(r.bhr, a)
                    /\ w = [r.bht EXCEPT ![k] = Trained(r.type, r.bht[k], taken)]
    OBVIOUS
  <2>2. PICK z : z = [r EXCEPT !.bht = w]
    OBVIOUS
  <2>3. DOMAIN z = BpFields /\ z.btb = T /\ z.total = p.total /\ z.wrong = p.wrong
    BY <1>6, <2>2 DEF BpFields
  <2>4. train(r, a, taken) = r \/ train(r, a, taken) = z
    BY <2>1, <2>2 DEF train
  <2> QED
    BY <1>6, <1>8, <2>3, <2>4
<1>10. PICK b : b = bhr_update(u.bhr, taken)
  OBVIOUS
<1>11. q = [u EXCEPT !.total = u.total + 1, !.bhr = b]
  BY <1>4, <1>8, <1>10 DEF update
<1>12. DOMAIN q = BpFields /\ q.btb = T /\ q.total = u.total + 1 /\ q.wrong = p.wrong
  BY <1>9, <1>11 DEF BpFields
<1> QED
  BY <1>7, <1>9, <1>12 DEF PredictorOk

\* A misprediction is counted.
LEMMA MissOk ==
    ASSUME NEW p, PredictorOk(p), NEW q, q = increment_mispredictions(p)
    PROVE  PredictorOk(q) /\ q.total = p.total /\ q.wrong = p.wrong + 1
<1>1. q = [p EXCEPT !.wrong = p.wrong + 1]
  BY DEF increment_mispredictions
<1>2. DOMAIN p = BpFields
  BY DEF PredictorOk
<1>3. DOMAIN q = BpFields /\ q.btb = p.btb /\ q.total = p.total /\ q.wrong = p.wrong + 1
  BY <1>1, <1>2 DEF BpFields
<1> QED
  BY <1>3 DEF PredictorOk

\* What the predictor answers.
LEMMA PredictOk ==
    ASSUME NEW p, PredictorOk(p), NEW a \in V, NEW next \in V, NEW q, q = predict_next_pc_address(p, a, next)
    PROVE  q \in V /\ (q # next => JumpAt(a))
<1>1. PICK e : e = p.btb[btb_index(a)]
  OBVIOUS
<1>2. e \in Target /\ (e.entry_valid => JumpAt(e.instruction_address))
  BY <1>1, BtbIndex DEF PredictorOk
<1>3. q = next \/ (q = e.target_address /\ e.entry_valid /\ e.instruction_address = a)
  BY <1>1 DEF predict_next_pc_address
<1> QED
  BY <1>2, <1>3 DEF Target

JumpFlags == {"BRANCH", "JUMP", "BRANCH_JALR"}

\* The instruction in a stage, and its flags.
LEMMA GuidedFlags ==
    ASSUME NEW ex, ExecuteStage(ex), Guided(ex)
    PROVE  /\ ex.flags \cap JumpFlags # {} => ex.inst_addr \in V /\ JumpAt(ex.inst_addr)
           /\ ex.predicted_next_inst_addr # ex.next_inst_addr => ex.flags \cap JumpFlags # {}
<1>1. FLAGS_ALU_I \cap JumpFlags = {} /\ FlagsOf[NOP.op] = FLAGS_ALU_I
  <2>1. "addi" \in Ops
    BY FlagFacts DEF OpNames
  <2> QED
    BY <2>1, FlagFacts, InstFacts DEF FLAGS_ALU_I, JumpFlags
<1>2. CASE ~ex.is_valid
  BY <1>1, <1>2 DEF ExecuteStage, Bubble
<1>3. CASE ex.is_valid
  <2>1. ex.flags = FlagsOf[ex.inst.op] /\ ex.inst_addr \in V
    BY <1>3 DEF ExecuteStage
  <2>2. ControlFlow(ex.inst) <=> ex.flags \cap JumpFlags # {}
    BY <2>1 DEF ControlFlow, JumpFlags
  <2>3. ASSUME ControlFlow(ex.inst) PROVE JumpAt(ex.inst_addr)
    BY <1>1, <1>3, <2>1, <2>2, <2>3 DEF Guided, JumpAt
  <2> QED
    BY <2>1, <2>2, <2>3 DEF Guided
<1> QED
  BY <1>2, <1>3

\* The predictor after the memory stage.
LEMMA TrainOk ==
    ASSUME NEW p, PredictorOk(p), p.total \in Nat, p.wrong \in Nat, NEW ex, ExecuteStage(ex), Guided(ex),
           NEW next, NEW q, q = Train(p, ex, next)
    PROVE  /\ PredictorOk(q)
           /\ q.total = p.total + (IF ex.flags \cap JumpFlags # {} THEN 1 ELSE 0)
           /\ q.wrong = p.wrong + (IF next # ex.predicted_next_inst_addr THEN 1 ELSE 0)
<1>1. PICK f : f = IF ex.inst.op = "fencei" /\ ex.excause = NONE THEN flush(p) ELSE p
  OBVIOUS
<1>2. PredictorOk(f) /\ f.total = p.total /\ f.wrong = p.wrong
  <2>1. DOMAIN p = BpFields
    BY DEF PredictorOk
  <2> QED
    BY <1>1, <2>1, FlushOk
<1>3. PICK u : u = IF "JUMP" \in ex.flags
                   THEN update(f, ex.inst_addr, ex.branch_jal_target, "JUMP", TRUE)
                   ELSE IF "BRANCH_JALR" \in ex.flags
                   THEN update(f, ex.inst_addr, ex.alu_val, "JUMP", TRUE)
                   ELSE IF "BRANCH" \in ex.flags
                   THEN update(f, ex.inst_addr, ex.branch_jal_target, "BRANCH", BranchTaken(ex))
                   ELSE f
  OBVIOUS
<1>4. /\ PredictorOk(u) /\ u.wrong = p.wrong
      /\ u.total = p.total + (IF ex.flags \cap JumpFlags # {} THEN 1 ELSE 0)
  <2>1. CASE ex.flags \cap JumpFlags # {}
    <3>1. ex.inst_addr \in V /\ JumpAt(ex.inst_addr)
      BY <2>1, GuidedFlags
    <3>2. ex.is_valid /\ ex.branch_jal_target \in V /\ ex.alu_val \in V
      <4>1. FLAGS_ALU_I \cap JumpFlags = {}
        BY DEF FLAGS_ALU_I, JumpFlags
      <4> QED
        BY <2>1, <4>1 DEF ExecuteStage, ExecuteReg, Bubble
    <3>3. PICK t, type, taken : /\ t \in V /\ type \in {"JUMP", "BRANCH"}
                                /\ u = update(f, ex.inst_addr, t, type, taken)
      BY <1>3, <2>1, <3>2 DEF JumpFlags
    <3>4. PredictorOk(u) /\ u.total = f.total + 1 /\ u.wrong = f.wrong
      BY <1>2, <3>1, <3>3, UpdateOk
    <3> QED
      BY <1>2, <2>1, <3>4
  <2>2. CASE ex.flags \cap JumpFlags = {}
    <3>1. u = f
      BY <1>3, <2>2 DEF JumpFlags
    <3> QED
      BY <1>2, <2>2, <3>1
  <2> QED
    BY <2>1, <2>2
<1>5. q = IF next # ex.predicted_next_inst_addr THEN increment_mispredictions(u) ELSE u
  BY <1>1, <1>3 DEF Train
<1>6. CASE next # ex.predicted_next_inst_addr
  <2>1. q = increment_mispredictions(u)
    BY <1>5, <1>6
  <2>2. PredictorOk(q) /\ q.total = u.total /\ q.wrong = u.wrong + 1
    BY <1>4, <2>1, MissOk
  <2> QED
    BY <1>4, <1>6, <2>2
<1>7. CASE next = ex.predicted_next_inst_addr
  BY <1>4, <1>5, <1>7
<1> QED
  BY <1>6, <1>7

\* Without a return from a trap, only a jump is mispredicted.
LEMMA OnlyJumpsMiss ==
    ASSUME \A i \in Instructions : i.op # "mret", NEW ex, ExecuteStage(ex), Guided(ex),
           NEW M, NEW c, NEW r, NEW m, m = memory(ex, M, c, r),
           m.wb.computed_next_inst_addr # ex.predicted_next_inst_addr
    PROVE  ex.flags \cap JumpFlags # {}
<1> SUFFICES ASSUME ex.flags \cap JumpFlags = {} PROVE FALSE
  OBVIOUS
<1>1. ex.predicted_next_inst_addr = ex.next_inst_addr
  BY GuidedFlags
<1>2. m.wb.computed_next_inst_addr = NextAddr(ex, c)
  BY MemoryParts
<1>3. ~Xret(ex)
  <2> SUFFICES ASSUME Xret(ex) PROVE FALSE
    OBVIOUS
  <2>1. ex.is_valid /\ "XRET" \in ex.flags /\ ex.flags = FlagsOf[ex.inst.op] /\ ex.inst \in InstSet
    BY DEF Xret, Retired, ExecuteStage, ExecuteReg
  <2>2. ex.inst.op = "mret"
    BY <2>1, InstFacts, FlagFacts
  <2>3. ex.inst \in Instructions
    BY <2>1, <2>2, InstFacts DEF InstSet
  <2> QED
    BY <2>2, <2>3
<1>4. NextAddr(ex, c) = ex.next_inst_addr
  BY <1>3 DEF NextAddr, Taken, compute_next_inst_addr, JumpFlags
<1> QED
  BY <1>1, <1>2, <1>4

\* What a stage hands on.
LEMMA GuidedSame ==
    ASSUME NEW x, NEW y, SameFetch(x, y), x.predicted_next_inst_addr = y.predicted_next_inst_addr, Guided(y)
    PROVE  Guided(x)
  BY DEF SameFetch, Guided

\* A flushed stage predicts nothing.
LEMMA GuidedFlushed == Guided(FlushedFetch) /\ Guided(FlushedDecode) /\ Guided(FlushedExecute)
  BY DEF Guided, FlushedFetch, FlushedDecode, FlushedExecute

\* A step of the pipeline under a prediction that only a jump may turn elsewhere.
LEMMA GuidedStep ==
    ASSUME TypeInv, Guided(if_id), Guided(id_ex), Guided(ex_mem), NEW irq, NEW skip, NEW predicted \in V,
           predicted # (pc + 1) % N => JumpAt(pc), do_step(irq, skip, predicted)
    PROVE  prog' = prog /\ Guided(if_id') /\ Guided(id_ex') /\ Guided(ex_mem')
<1>1. PICK s : /\ s = Stages(irq, skip, predicted) /\ prog' = prog
               /\ \/ HandleException(s) \/ flush_and_continue_from_address(s) \/ StopFetching(s)
                  \/ handle_stall(s) \/ Advance(s)
  BY DEF do_step
<1>2. PICK R, m, ex, id, f : Parts(s, irq, skip, predicted, R, m, ex, id, f)
  BY <1>1, StageParts
<1>3. Guided(ex)
  <2>1. ex = FlushedExecute \/ ex = execute(id_ex)
    BY <1>2 DEF Parts
  <2>2. CASE ex = execute(id_ex)
    <3>1. SameFetch(ex, id_ex) /\ ex.predicted_next_inst_addr = id_ex.predicted_next_inst_addr
      BY <2>2, ExecuteFields
    <3> QED
      BY <3>1, GuidedSame
  <2> QED
    BY <2>1, <2>2, GuidedFlushed
<1>4. Guided(id)
  <2>1. id = FlushedDecode \/ id = decode(if_id, R, m.csr)
    BY <1>2 DEF Parts
  <2>2. CASE id = decode(if_id, R, m.csr)
    <3>1. /\ id.inst = if_id.inst /\ id.inst_addr = if_id.inst_addr /\ id.next_inst_addr = if_id.next_inst_addr
          /\ id.predicted_next_inst_addr = if_id.predicted_next_inst_addr /\ id.is_valid = if_id.is_valid
      BY <2>2 DEF decode
    <3> QED
      BY <3>1 DEF Guided
  <2> QED
    BY <2>1, <2>2, GuidedFlushed
<1>5. Guided(s.id_ex)
  <2>1. SameButOperands(s.id_ex, id)
    BY <1>2, PartTypes
  <2> QED
    BY <1>4, <2>1, GuidedSame DEF SameButOperands
<1>6. Guided(f)
  <2>1. f = FlushedFetch \/ f = fetch(prog, pc, m.csr, irq, skip, predicted)
    BY <1>2 DEF Parts
  <2>2. CASE f = fetch(prog, pc, m.csr, irq, skip, predicted)
    <3>1. /\ f.inst = (IF pc \in FaultFetch THEN NOP ELSE prog[pc]) /\ f.inst_addr = pc
          /\ f.next_inst_addr = (pc + 1) % N /\ f.predicted_next_inst_addr = predicted
      BY <2>2 DEF fetch
    <3> QED
      BY <3>1 DEF Guided, JumpAt
  <2> QED
    BY <2>1, <2>2, GuidedFlushed
<1>7. Guided(s.if_id) /\ Guided(s.ex_mem)
  BY <1>2, <1>3, <1>6, GuidedFlushed DEF Parts
<1>8. /\ if_id' \in {s.if_id, if_id, FlushedFetch} /\ id_ex' \in {s.id_ex, FlushedDecode}
      /\ ex_mem' \in {s.ex_mem, FlushedExecute}
  BY <1>1 DEF HandleException, flush_and_continue_from_address, StopFetching, handle_stall, Advance
<1> QED
  BY <1>1, <1>5, <1>7, <1>8, GuidedFlushed

\* The prediction of a step.
LEMMA PredictedStepParts ==
    ASSUME PredictedInv, PredictedStep
    PROVE  \E irq \in Irqs, skip \in SkipBreaks, predicted \in V :
              /\ do_step(irq, skip, predicted) /\ (predicted # (pc + 1) % N => JumpAt(pc))
              /\ PredictorOk(bp')
              /\ bp'.total = bp.total + (IF ex_mem.flags \cap JumpFlags # {} THEN 1 ELSE 0)
              /\ bp'.wrong = bp.wrong + (IF memory(ex_mem, mem, csr, resv).wb.computed_next_inst_addr
                                            # ex_mem.predicted_next_inst_addr THEN 1 ELSE 0)
<1>1. PICK irq \in Irqs, skip \in SkipBreaks :
         /\ bp' = Train(bp, ex_mem, memory(ex_mem, mem, csr, resv).wb.computed_next_inst_addr)
         /\ do_step(irq, skip, predict_next_pc_address(bp', pc, (pc + 1) % N))
  BY DEF PredictedStep
<1>2. PICK q, next, predicted :
         /\ q = bp' /\ next = memory(ex_mem, mem, csr, resv).wb.computed_next_inst_addr
         /\ predicted = predict_next_pc_address(q, pc, (pc + 1) % N)
  OBVIOUS
<1>3. /\ ExecuteStage(ex_mem) /\ Guided(ex_mem) /\ PredictorOk(bp) /\ bp.total \in Nat /\ bp.wrong \in Nat
      /\ pc \in V
  BY DEF PredictedInv, TypeInv, CoreType
<1>4. q = Train(bp, ex_mem, next)
  BY <1>1, <1>2
<1>5. /\ PredictorOk(q)
      /\ q.total = bp.total + (IF ex_mem.flags \cap JumpFlags # {} THEN 1 ELSE 0)
      /\ q.wrong = bp.wrong + (IF next # ex_mem.predicted_next_inst_addr THEN 1 ELSE 0)
  BY <1>3, <1>4, TrainOk
<1>6. (pc + 1) % N \in V
  BY <1>3, ModN
<1>7. predicted \in V /\ (predicted # (pc + 1) % N => JumpAt(pc))
  BY <1>2, <1>3, <1>5, <1>6, PredictOk
<1>8. do_step(irq, skip, predicted)
  BY <1>1, <1>2
<1> QED
  BY <1>2, <1>5, <1>7, <1>8

\* The predictor's targets and the stages stay consistent, for every predictor.
THEOREM PredictedInvariant == PredictedSpec => []PredictedInv
<1>1. PredictedInit => PredictedInv
  <2> SUFFICES ASSUME PredictedInit PROVE PredictedInv
    OBVIOUS
  <2>1. Init /\ TypeInv
    BY InitTypes DEF PredictedInit
  <2>2. Guided(if_id) /\ Guided(id_ex) /\ Guided(ex_mem)
    BY <2>1, GuidedFlushed DEF Init
  <2>3. PICK type, state : bp = PredictorInit(type, state)
    BY DEF PredictedInit
  <2>4. PICK p : p = [type |-> type, initial_state |-> state, bhr |-> 0, btb |-> <<>>, bht |-> <<>>,
                      total |-> 0, wrong |-> 0]
    OBVIOUS
  <2>5. DOMAIN p = BpFields /\ p.total = 0 /\ p.wrong = 0
    BY <2>4 DEF BpFields
  <2>6. bp = flush(p)
    BY <2>3, <2>4 DEF PredictorInit
  <2>7. PredictorOk(bp) /\ bp.total = 0 /\ bp.wrong = 0
    BY <2>5, <2>6, FlushOk
  <2> QED
    BY <2>1, <2>2, <2>7 DEF PredictedInv
<1>2. PredictedInv /\ [PredictedStep]_predicted_vars => PredictedInv'
  <2> SUFFICES ASSUME PredictedInv, [PredictedStep]_predicted_vars PROVE PredictedInv'
    OBVIOUS
  <2>1. CASE UNCHANGED predicted_vars
    <3>1. UNCHANGED vars /\ bp' = bp
      BY <2>1 DEF predicted_vars
    <3>2. TypeInv'
      BY <3>1, NextTypes DEF PredictedInv
    <3> QED
      BY <3>1, <3>2 DEF PredictedInv, vars, Guided, PredictorOk, JumpAt
  <2>2. CASE PredictedStep
    <3>1. PICK irq \in Irqs, skip \in SkipBreaks, predicted \in V :
              /\ do_step(irq, skip, predicted) /\ (predicted # (pc + 1) % N => JumpAt(pc))
              /\ PredictorOk(bp')
              /\ bp'.total = bp.total + (IF ex_mem.flags \cap JumpFlags # {} THEN 1 ELSE 0)
              /\ bp'.wrong = bp.wrong + (IF memory(ex_mem, mem, csr, resv).wb.computed_next_inst_addr
                                            # ex_mem.predicted_next_inst_addr THEN 1 ELSE 0)
      BY <2>2, PredictedStepParts
    <3>2. TypeInv'
      BY <3>1, StepTypes DEF PredictedInv
    <3>3. prog' = prog /\ Guided(if_id') /\ Guided(id_ex') /\ Guided(ex_mem')
      BY <3>1, GuidedStep DEF PredictedInv
    <3>4. Guided(if_id)' /\ Guided(id_ex)' /\ Guided(ex_mem)'
      BY <3>3 DEF Guided
    <3>5. PredictorOk(bp)'
      BY <3>1, <3>3 DEF PredictorOk, JumpAt
    <3>6. bp'.total \in Nat /\ bp'.wrong \in Nat
      BY <3>1 DEF PredictedInv
    <3> QED
      BY <3>2, <3>4, <3>5, <3>6 DEF PredictedInv
  <2> QED
    BY <2>1, <2>2
<1> QED
  BY <1>1, <1>2, PTL DEF PredictedSpec

\* The statistics never count more mispredictions than jumps and branches, for every
\* predictor and every program without an mret: the redirection of an mret is counted as
\* a misprediction (core.cpp:664), and it is no jump.
THEOREM MispredictionsAreJumpsTheorem ==
    ASSUME \A i \in Instructions : i.op # "mret"
    PROVE  PredictedSpec => []MispredictionsAreJumps
<1>1. PredictedInit => MispredictionsAreJumps
  <2> SUFFICES ASSUME PredictedInit PROVE MispredictionsAreJumps
    OBVIOUS
  <2>1. PICK type, state : bp = PredictorInit(type, state)
    BY DEF PredictedInit
  <2>2. PICK p : p = [type |-> type, initial_state |-> state, bhr |-> 0, btb |-> <<>>, bht |-> <<>>,
                      total |-> 0, wrong |-> 0]
    OBVIOUS
  <2>3. DOMAIN p = BpFields /\ p.total = 0 /\ p.wrong = 0
    BY <2>2 DEF BpFields
  <2>4. bp = flush(p)
    BY <2>1, <2>2 DEF PredictorInit
  <2>5. bp.total = 0 /\ bp.wrong = 0
    BY <2>3, <2>4, FlushOk
  <2> QED
    BY <2>5 DEF MispredictionsAreJumps
<1>2. MispredictionsAreJumps /\ PredictedInv /\ [PredictedStep]_predicted_vars => MispredictionsAreJumps'
  <2> SUFFICES ASSUME MispredictionsAreJumps, PredictedInv, [PredictedStep]_predicted_vars
               PROVE  MispredictionsAreJumps'
    OBVIOUS
  <2>1. CASE UNCHANGED predicted_vars
    BY <2>1 DEF predicted_vars, MispredictionsAreJumps
  <2>2. CASE PredictedStep
    <3>1. /\ bp'.total = bp.total + (IF ex_mem.flags \cap JumpFlags # {} THEN 1 ELSE 0)
          /\ bp'.wrong = bp.wrong + (IF memory(ex_mem, mem, csr, resv).wb.computed_next_inst_addr
                                        # ex_mem.predicted_next_inst_addr THEN 1 ELSE 0)
      BY <2>2, PredictedStepParts
    <3>2. memory(ex_mem, mem, csr, resv).wb.computed_next_inst_addr # ex_mem.predicted_next_inst_addr
            => ex_mem.flags \cap JumpFlags # {}
      BY OnlyJumpsMiss DEF PredictedInv, TypeInv, CoreType
    <3>3. bp.total \in Nat /\ bp.wrong \in Nat /\ bp.wrong <= bp.total
      BY DEF PredictedInv, MispredictionsAreJumps
    <3> QED
      BY <3>1, <3>2, <3>3 DEF MispredictionsAreJumps
  <2> QED
    BY <2>1, <2>2
<1> QED
  BY <1>1, <1>2, PredictedInvariant, PTL DEF PredictedSpec

\* The pipeline with its predictor is the pipeline that may predict a jump anywhere.
THEOREM PredictedImplementsSpec == ASSUME Predictor PROVE PredictedSpec => Spec
<1>1. PredictedInit => Init
  BY DEF PredictedInit
<1>2. PredictedInv /\ [PredictedStep]_predicted_vars => [Next]_vars
  <2> SUFFICES ASSUME PredictedInv, [PredictedStep]_predicted_vars PROVE [Next]_vars
    OBVIOUS
  <2>1. CASE UNCHANGED predicted_vars
    BY <2>1 DEF predicted_vars
  <2>2. CASE PredictedStep
    <3>1. PICK irq \in Irqs, skip \in SkipBreaks, predicted \in V :
             do_step(irq, skip, predicted) /\ (predicted # (pc + 1) % N => JumpAt(pc))
      BY <2>2, PredictedStepParts
    <3>2. PICK p : p = (pc + 1) % N
      OBVIOUS
    <3>3. CASE stop_if
      <4>1. Stages(irq, skip, predicted) = Stages(irq, skip, p)
        BY <3>3 DEF Stages
      <4>2. do_step(irq, skip, p)
        BY <3>1, <4>1 DEF do_step
      <4>3. p \in Predictions
        BY <3>2, <3>3 DEF Predictions
      <4> QED
        BY <4>2, <4>3 DEF Next
    <3>4. CASE ~stop_if
      <4>1. predicted \in Predictions
        BY <3>1, <3>4 DEF Predictions, JumpAt
      <4> QED
        BY <3>1, <4>1 DEF Next
    <3> QED
      BY <3>3, <3>4
  <2> QED
    BY <2>1, <2>2
<1> QED
  BY <1>1, <1>2, PredictedInvariant, PTL DEF PredictedSpec, Spec

\* With each predictor the stalling pipeline computes what the single-cycle core computes:
\* nothing fetched on a wrong path has an effect.
THEOREM PredictedImplementsSingle ==
    ASSUME Predictor, HazardUnit = "HU_STALL"
    PROVE  PredictedSpec => ImplementsSingle
<1>1. SafeHazards
  BY DEF SafeHazards
<1> QED
  BY <1>1, PredictedImplementsSpec, ImplementsSingleTheorem, PTL
=============================================================================
