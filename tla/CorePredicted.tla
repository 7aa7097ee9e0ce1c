--------------------------- MODULE CorePredicted ---------------------------
(***************************************************************************)
(* The pipelined core with its branch predictor.  In each step the memory  *)
(* stage trains the predictor, or flushes it, before the fetch stage asks  *)
(* it for the address after the instruction it fetches.  A step that ends  *)
(* in decode is one of CorePipelined alone.                                *)
(***************************************************************************)
EXTENDS CorePipelined, BranchPredictor

CONSTANT MaxJumps    \* the run ends after so many jumps and branches

VARIABLE bp

predicted_vars == <<vars, bp>>

PredictedInit ==
    /\ Init
    /\ \E type \in PredictorTypes : \E state \in InitialStates(type) : bp = PredictorInit(type, state)

BranchTaken(dt) == ("BJ_NOT" \in dt.flags) <=> dt.alu_val # 0

\* The predictor after the memory stage of dt, whose successor is at `next`.  An
\* instruction that an exception stops trains it all the same.
Train(p, dt, next) ==
    LET flushed == IF dt.inst.op = "fencei" /\ dt.excause = NONE THEN flush(p) ELSE p
        updated == IF "JUMP" \in dt.flags
                   THEN update(flushed, dt.inst_addr, dt.branch_jal_target, "JUMP", TRUE)
                   ELSE IF "BRANCH_JALR" \in dt.flags
                   THEN update(flushed, dt.inst_addr, dt.alu_val, "JUMP", TRUE)
                   ELSE IF "BRANCH" \in dt.flags
                   THEN update(flushed, dt.inst_addr, dt.branch_jal_target, "BRANCH", BranchTaken(dt))
                   ELSE flushed
    IN  IF next # dt.predicted_next_inst_addr THEN increment_mispredictions(updated) ELSE updated

PredictedStep ==
    \E irq \in Irqs, skip_break \in SkipBreaks :
        /\ bp.total < MaxJumps
        /\ bp' = Train(bp, ex_mem, memory(ex_mem, mem, csr, resv).wb.computed_next_inst_addr)
        /\ do_step(irq, skip_break, predict_next_pc_address(bp', pc, (pc + 1) % N))

PredictedSpec == PredictedInit /\ [][PredictedStep]_predicted_vars

(***************************************************************************)
(* Properties                                                              *)
(***************************************************************************)
\* In a program without mret the statistics never count more mispredictions than jumps
\* and branches, or `correct`, their difference, would wrap: only a jump or a branch, with
\* a target learned for its own address, is predicted to leave the sequence.
MispredictionsAreJumps == bp.wrong <= bp.total
=============================================================================
