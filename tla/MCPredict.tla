----------------------------- MODULE MCPredict -----------------------------
(* CorePredicted with small instruction sets, for TLC. *)
EXTENDS CorePredicted

I(op, rd, rs, rt, imm) == Inst(op, rd, rs, rt, imm, "mscratch")

\* Calls, returns through the link register, branches forward and backward, and
\* the instruction that flushes the predictor.
MCInstructions ==
    {I("addi", 2, 2, 0, 1), I("bne", 0, 1, 2, 3), I("beq", 0, 1, 2, 2), I("jal", 1, 0, 0, 2),
     I("jalr", 2, 1, 0, 0), I("fencei", 0, 0, 0, 0)}
=============================================================================
