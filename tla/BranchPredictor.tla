-------------------------- MODULE BranchPredictor --------------------------
(***************************************************************************)
(* The branch predictor (src/machine/predictor.cpp) as functions on its    *)
(* state `p`: the kind of predictor, the history register, the target      *)
(* buffer, the history table, and the two counts of the overall statistics *)
(* (`correct` is their difference).  Addresses count instructions.         *)
(***************************************************************************)
EXTENDS Integers

CONSTANTS
    BtbBits, BhrBits, BhtAddrBits,
    BP_MAX_BITS      \* 8, the largest width of the register and of the tables

ASSUME PredictorAssumption ==
    /\ BtbBits \in 0 .. BP_MAX_BITS /\ BhrBits \in 0 .. BP_MAX_BITS /\ BhtAddrBits \in 0 .. BP_MAX_BITS
    /\ BP_MAX_BITS \in 0 .. 8

StaticTypes == {"ALWAYS_NOT_TAKEN", "ALWAYS_TAKEN", "BTFNT"}
PredictorTypes == StaticTypes \cup {"SMITH_1_BIT", "SMITH_2_BIT", "SMITH_2_BIT_HYSTERESIS"}

\* The states an entry of the history table may start in.
InitialStates(type) ==
    CASE type \in StaticTypes -> {"UNDEFINED"}
      [] type = "SMITH_1_BIT" -> {"NOT_TAKEN", "TAKEN"}
      [] OTHER -> {"STRONGLY_NOT_TAKEN", "WEAKLY_NOT_TAKEN", "WEAKLY_TAKEN", "STRONGLY_TAKEN"}

\* A static predictor has a table of one entry, which it never looks at.
BhtSize(type) == IF type \in StaticTypes THEN 1 ELSE 2^(BhrBits + BhtAddrBits)

NoTarget == [entry_valid |-> FALSE, instruction_address |-> 0, target_address |-> 0,
             branch_type |-> "UNDEFINED"]

btb_clear(p) == [p EXCEPT !.btb = [i \in 0 .. 2^BtbBits - 1 |-> NoTarget]]
clear_bht_state(p) == [p EXCEPT !.bht = [i \in 0 .. BhtSize(p.type) - 1 |-> p.initial_state]]

flush(p) == [clear_bht_state(btb_clear(p)) EXCEPT !.bhr = 0]

PredictorInit(type, initial_state) ==
    flush([type |-> type, initial_state |-> initial_state, bhr |-> 0, btb |-> <<>>, bht |-> <<>>,
           total |-> 0, wrong |-> 0])

(***************************************************************************)
(* Indices                                                                 *)
(***************************************************************************)
btb_index(address) == address % 2^BtbBits

\* The part of the history is cut to sixteen bits.
calculate_bht_index(bhr, address) == ((bhr * 2^BhtAddrBits) % 2^16) + (address % 2^BhtAddrBits)

\* init_register_mask gives up masking at the largest width.
bhr_update(bhr, taken) ==
    (2 * bhr + (IF taken THEN 1 ELSE 0)) % (IF BhrBits >= BP_MAX_BITS THEN 2^16 ELSE 2^BhrBits)

(***************************************************************************)
(* The predictors: prediction and training                                 *)
(***************************************************************************)
convert_state_to_prediction(state) == state \in {"TAKEN", "WEAKLY_TAKEN", "STRONGLY_TAKEN"}

predict(p, address, target) ==
    LET index == calculate_bht_index(p.bhr, address)
    IN  CASE p.type = "ALWAYS_NOT_TAKEN" -> FALSE
          [] p.type = "ALWAYS_TAKEN" -> TRUE
          [] p.type = "BTFNT" -> target <= address
          [] OTHER -> index \in DOMAIN p.bht /\ convert_state_to_prediction(p.bht[index])

\* The counter of a Smith predictor after a branch.
Trained(type, state, taken) ==
    LET counter == <<"STRONGLY_NOT_TAKEN", "WEAKLY_NOT_TAKEN", "WEAKLY_TAKEN", "STRONGLY_TAKEN">>
        at == CHOOSE i \in 1 .. 4 : counter[i] = state
    IN  CASE type = "SMITH_1_BIT" -> IF taken THEN "TAKEN" ELSE "NOT_TAKEN"
          [] type = "SMITH_2_BIT" -> IF taken THEN (IF at = 4 THEN counter[4] ELSE counter[at + 1])
                                     ELSE (IF at = 1 THEN counter[1] ELSE counter[at - 1])
          [] type = "SMITH_2_BIT_HYSTERESIS" -> IF taken THEN (IF at = 1 THEN counter[2] ELSE counter[4])
                                                ELSE (IF at = 4 THEN counter[3] ELSE counter[1])

train(p, address, taken) ==
    LET index == calculate_bht_index(p.bhr, address)
    IN  IF p.type \in StaticTypes \/ index \notin DOMAIN p.bht THEN p
        ELSE [p EXCEPT !.bht[index] = Trained(p.type, @, taken)]

(***************************************************************************)
(* BranchPredictor                                                         *)
(***************************************************************************)
\* Mutant: an entry is used for every address with its index.
predict_next_pc_address_Untagged(p, address, next) ==
    LET entry == p.btb[btb_index(address)]
        taken == entry.branch_type # "BRANCH" \/ predict(p, address, entry.target_address)
    IN  IF entry.entry_valid /\ taken THEN entry.target_address ELSE next

predict_next_pc_address(p, address, next) ==
    LET entry == p.btb[btb_index(address)]
        taken == entry.branch_type # "BRANCH" \/ predict(p, address, entry.target_address)
    IN  IF entry.entry_valid /\ entry.instruction_address = address /\ taken
        THEN entry.target_address ELSE next

btb_update(p, address, target, branch_type) ==
    [p EXCEPT !.btb[btb_index(address)] =
        [entry_valid |-> TRUE, instruction_address |-> address,
         target_address |-> target, branch_type |-> branch_type]]

\* The table is trained under the history before this branch is part of it.
update(p, address, target, branch_type, taken) ==
    LET stored == btb_update(p, address, target, branch_type)
        trained == IF branch_type = "BRANCH" THEN train(stored, address, taken) ELSE stored
    IN  [trained EXCEPT !.total = @ + 1, !.bhr = bhr_update(@, taken)]

increment_mispredictions(p) == [p EXCEPT !.wrong = @ + 1]
=============================================================================
