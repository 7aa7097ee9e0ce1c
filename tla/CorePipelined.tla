--------------------------- MODULE CorePipelined ---------------------------
(***************************************************************************)
(* The pipelined core (CorePipelined::do_step).  In one step the stages    *)
(* run from the last to the first on the interstage registers of the       *)
(* previous step; then exceptions, hazards, mispredictions and stalls      *)
(* decide what is flushed and where the next fetch is.                     *)
(***************************************************************************)
EXTENDS Core

CONSTANTS
    HazardUnit,     \* HU_NONE, HU_STALL or HU_STALL_FORWARD
    Predictor       \* TRUE: jumps and branches may be predicted anywhere

ASSUME HazardAssumption ==
    /\ HazardUnit \in {"HU_NONE", "HU_STALL", "HU_STALL_FORWARD"}
    /\ Predictor \in BOOLEAN

VARIABLES prog, regs, pc, mem, csr, resv, trapped,   \* as in CoreSingle
          stop_if,                                   \* pc_if
          if_id, id_ex, ex_mem, mem_wb

vars == <<prog, regs, pc, mem, csr, resv, trapped, stop_if, if_id, id_ex, ex_mem, mem_wb>>

\* Reset: empty pipeline.
Init ==
    /\ prog \in Programs
    /\ regs = RegsInit
    /\ pc = 0
    /\ mem = [a \in V |-> 0]
    /\ csr = CsrInit
    /\ resv = NoAddr
    /\ trapped = FALSE
    /\ stop_if = FALSE
    /\ if_id = FlushedFetch
    /\ id_ex = FlushedDecode
    /\ ex_mem = FlushedExecute
    /\ mem_wb = FlushedMemory

(***************************************************************************)
(* Hazards                                                                 *)
(***************************************************************************)
\* Mutant: the second operand is not compared.
is_hazard_in_stage_RsOnly(regwrite, num_rd, id) ==
    regwrite /\ num_rd # 0 /\ "ALU_REQ_RS" \in id.flags /\ num_rd = id.num_rs

is_hazard_in_stage(regwrite, num_rd, id) ==
    /\ regwrite
    /\ num_rd # 0
    /\ \/ "ALU_REQ_RS" \in id.flags /\ num_rd = id.num_rs
       \/ "ALU_REQ_RT" \in id.flags /\ num_rd = id.num_rt

\* val forwarded to the operands of `id` that are register num_rd.
Forwarded(id, num_rd, val) ==
    [id EXCEPT
       !.val_rs = IF "ALU_REQ_RS" \in id.flags /\ num_rd = id.num_rs THEN val ELSE @,
       !.val_rt = IF "ALU_REQ_RT" \in id.flags /\ num_rd = id.num_rt THEN val ELSE @]

\* [stall, id_ex] from the three registers after the exception cascade.
handle_data_hazards(id, ex, wb) ==
    LET hazard_wb == is_hazard_in_stage(wb.regwrite, wb.num_rd, id)
        hazard_ex == is_hazard_in_stage("REGWRITE" \in ex.flags, ex.num_rd, id)
        forward == HazardUnit = "HU_STALL_FORWARD"
        id1 == IF hazard_wb /\ forward THEN Forwarded(id, wb.num_rd, wb.towrite_val) ELSE id
        id2 == IF hazard_ex /\ forward /\ "MEMREAD" \notin ex.flags
               THEN Forwarded(id1, ex.num_rd, ex.alu_val) ELSE id1
    IN  IF HazardUnit = "HU_NONE" THEN [stall |-> FALSE, id_ex |-> id]
        ELSE [stall |-> \/ hazard_wb /\ ~forward
                        \/ hazard_ex /\ (~forward \/ "MEMREAD" \in ex.flags),
              id_ex |-> id2]

\* Mutant: a CSR instruction waits for its own stage.
is_stall_requested_Self(id, ex) == "CSR" \in id.flags /\ id.is_valid

\* insert_stall_before of a CSR instruction: wait until EX is empty.
is_stall_requested(id, ex) == "CSR" \in id.flags /\ ex.is_valid

detect_mispredicted_jump(wb) == wb.computed_next_inst_addr # wb.predicted_next_inst_addr

\* Mutant: a written CSR does not restart the fetch.
RestartsFetch_Jumps(wb) == detect_mispredicted_jump(wb)

\* The fetched instructions are not the ones that follow, or may depend on the
\* CSR just written.
RestartsFetch(wb) == detect_mispredicted_jump(wb) \/ wb.csr_written

\* Mutant: an exception lets the younger instruction pass.
flushed_if_Never(exception, stage, empty) == stage

\* One level of the exception cascade: `stage` is flushed if an older stage has
\* an exception.
flushed_if(exception, stage, empty) == IF exception THEN empty ELSE stage

(***************************************************************************)
(* One clock cycle                                                         *)
(***************************************************************************)
\* The stages of one step, and the exception cascade: an exception in a stage
\* flushes the registers behind it.
Stages(irq, skip_break, predicted) ==
    LET regs1 == writeback(mem_wb, regs)
        m == memory(ex_mem, mem, csr, resv)
        ex == flushed_if(m.wb.excause # NONE, execute(id_ex), FlushedExecute)
        exc_ex == m.wb.excause # NONE \/ ex.excause # NONE
        id == flushed_if(exc_ex, decode(if_id, regs1, m.csr), FlushedDecode)
        exc_id == exc_ex \/ id.excause # NONE
        fetched == IF stop_if THEN FlushedFetch
                   ELSE fetch(prog, pc, m.csr, irq, skip_break, predicted)
        hazards == handle_data_hazards(id, ex, m.wb)
    IN  [regs |-> regs1,
         mem |-> m.mem, csr |-> m.csr, resv |-> m.resv,
         mem_wb |-> m.wb,
         ex_mem |-> ex,
         id_ex |-> hazards.id_ex,
         if_id |-> flushed_if(exc_id, fetched, FlushedFetch),
         exception_in_progress |-> exc_id,
         stall |-> hazards.stall]

\* The exception has reached the end of the pipeline.
HandleException(s) ==
    LET x == handle_exception(s.mem_wb, s.csr, s.resv)
    IN  /\ s.mem_wb.excause # NONE
        /\ pc' = x.pc
        /\ csr' = x.csr
        /\ resv' = x.resv
        /\ stop_if' = FALSE
        /\ if_id' = s.if_id /\ id_ex' = s.id_ex /\ ex_mem' = s.ex_mem

\* Mutant: the instruction in EX/MEM survives.
flush_and_continue_KeepExecute(s) ==
    /\ s.mem_wb.excause = NONE
    /\ RestartsFetch(s.mem_wb)
    /\ pc' = s.mem_wb.computed_next_inst_addr
    /\ csr' = s.csr /\ resv' = s.resv
    /\ stop_if' = FALSE
    /\ if_id' = FlushedFetch /\ id_ex' = FlushedDecode /\ ex_mem' = s.ex_mem

\* The instructions behind the one in MEM are dropped.
flush_and_continue_from_address(s) ==
    /\ s.mem_wb.excause = NONE
    /\ RestartsFetch(s.mem_wb)
    /\ pc' = s.mem_wb.computed_next_inst_addr
    /\ csr' = s.csr /\ resv' = s.resv
    /\ stop_if' = FALSE
    /\ if_id' = FlushedFetch /\ id_ex' = FlushedDecode /\ ex_mem' = FlushedExecute

NoRedirect(s) ==
    /\ s.mem_wb.excause = NONE
    /\ ~RestartsFetch(s.mem_wb)
    /\ csr' = s.csr /\ resv' = s.resv

\* An exception is on its way: nothing is fetched until it is handled.
StopFetching(s) ==
    /\ NoRedirect(s)
    /\ s.exception_in_progress
    /\ stop_if' = TRUE
    /\ if_id' = s.if_id /\ id_ex' = s.id_ex /\ ex_mem' = s.ex_mem
    /\ UNCHANGED pc

\* IF and ID repeat, a bubble goes to EX.
handle_stall(s) ==
    /\ NoRedirect(s)
    /\ ~s.exception_in_progress
    /\ s.stall \/ is_stall_requested(s.id_ex, s.ex_mem)
    /\ stop_if' = FALSE
    /\ id_ex' = FlushedDecode /\ ex_mem' = s.ex_mem
    /\ UNCHANGED <<pc, if_id>>

Advance(s) ==
    /\ NoRedirect(s)
    /\ ~s.exception_in_progress
    /\ ~s.stall /\ ~is_stall_requested(s.id_ex, s.ex_mem)
    /\ pc' = s.if_id.predicted_next_inst_addr
    /\ stop_if' = FALSE
    /\ if_id' = s.if_id /\ id_ex' = s.id_ex /\ ex_mem' = s.ex_mem

do_step(irq, skip_break, predicted) ==
    \E s \in {Stages(irq, skip_break, predicted)} :
        /\ ~trapped
        /\ ~decode_throws(if_id, s.csr)
        /\ trapped' = (s.mem_wb.excause = "EXCAUSE_INSN_ILLEGAL")
        /\ regs' = s.regs
        /\ mem' = s.mem
        /\ mem_wb' = s.mem_wb
        /\ UNCHANGED prog
        /\ \/ HandleException(s)
           \/ flush_and_continue_from_address(s)
           \/ StopFetching(s)
           \/ handle_stall(s)
           \/ Advance(s)

\* The step ends in decode with a SimulatorException: the stages behind it have
\* run, nothing has been flushed.
DecodeThrows ==
    \E m \in {memory(ex_mem, mem, csr, resv)} :
        /\ ~trapped
        /\ decode_throws(if_id, m.csr)
        /\ trapped' = TRUE
        /\ regs' = writeback(mem_wb, regs)
        /\ mem' = m.mem /\ csr' = m.csr /\ resv' = m.resv
        /\ mem_wb' = m.wb
        /\ ex_mem' = execute(id_ex)
        /\ UNCHANGED <<prog, pc, stop_if, if_id, id_ex>>

\* What predict_next_pc_address may answer for the instruction at pc: anything for a jump
\* or branch.  That the predictors never lead away from another instruction is no
\* assumption: module CorePredicted has the predictors' own answer, and PredictedInv of
\* CoreProofs shows that it is one of these.
Predictions ==
    IF Predictor /\ ~stop_if /\ pc \notin FaultFetch /\ ControlFlow(prog[pc])
    THEN V ELSE {(pc + 1) % N}

Next ==
    \/ \E irq \in Irqs, skip_break \in SkipBreaks, predicted \in Predictions :
          do_step(irq, skip_break, predicted)
    \/ DecodeThrows

Spec == Init /\ [][Next]_vars

\* The machine's timer keeps stepping the core.
FairSpec == Spec /\ WF_vars(Next)

(***************************************************************************)
(* Properties                                                              *)
(***************************************************************************)
\* The oldest instruction whose memory stage is still to come.
OldestAddr ==
    IF ex_mem.is_valid THEN ex_mem.inst_addr
    ELSE IF id_ex.is_valid THEN id_ex.inst_addr
    ELSE IF if_id.is_valid THEN if_id.inst_addr
    ELSE pc

\* The program-visible state: an instruction has happened when it has left the
\* memory stage, although its register is only written in the next step.
Single == INSTANCE CoreSingle WITH
             regs <- writeback(mem_wb, regs),
             pc <- OldestAddr,
             trapped <- mem_wb.excause = "EXCAUSE_INSN_ILLEGAL"

\* The pipelined core computes what the single-cycle core computes, instruction
\* by instruction: every step is one step of CoreSingle or changes nothing the
\* program can see.  The one exception is the step that ends in decode with a
\* SimulatorException: it stops the machine, for an instruction the single-cycle core
\* may never reach.
ImplementsSingle == Single!Init /\ [][Single!Next \/ DecodeThrows]_(Single!vars)

\* Nothing younger than an instruction with an exception is in the pipeline, also when
\* the step ended early in decode.
NothingBehindException ==
    /\ ex_mem.excause # NONE => ~id_ex.is_valid /\ ~if_id.is_valid
    /\ id_ex.excause # NONE => ~if_id.is_valid

\* Stalls end and flushes do not starve the program: instructions keep leaving
\* the memory stage.
Progress == []<>(trapped \/ mem_wb.is_valid)
=============================================================================
