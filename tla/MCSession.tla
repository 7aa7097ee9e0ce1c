----------------------------- MODULE MCSession -----------------------------
(* Instances of Session for TLC. *)
EXTENDS Session

MCElfFiles == {"", "prog"}
MCCacheEdits == {[en |-> TRUE, sets |-> 0, write |-> "BACK"], [assoc |-> 2, replac |-> "LRU"]}
MCTlbEdits == {[sets |-> 0, assoc |-> 2, replac |-> "PLRU"]}
MCTimeEdits == {0, 5}
MCBitEdits == {0, BP_MAX_BITS}
MCPredictorTypes == {"BTFNT", "SMITH_1_BIT", "SMITH_2_BIT"}
MCFsRoots == {"root"}

Plain_ == [files |-> <<"prog">>, asm |-> FALSE, no_delay_slot |-> FALSE, pipelined |-> FALSE,
           hazard |-> <<>>, read_time |-> <<>>, write_time |-> <<>>, burst_time |-> <<>>, l2_time |-> <<>>,
           d_cache |-> <<>>, i_cache |-> <<>>, l2_cache |-> <<>>, predictor |-> <<>>, osemu |-> FALSE,
           isa |-> <<>>, vm |-> FALSE, fs_root |-> <<>>, tracing |-> FALSE, serial |-> FALSE,
           std_in |-> FALSE, std_out |-> FALSE, enable_exception |-> FALSE, enable_interrupt |-> FALSE,
           reporting |-> FALSE, ranges |-> FALSE, only_dump |-> FALSE,
           expect_fail |-> FALSE, fail_match |-> FALSE, limit |-> 0]
Cache4(p, n, w) == <<[pieces |-> n, replac |-> p, sets |-> 4, blocks |-> 0, assoc |-> 2, write |-> w]>>
Predictor(n, t, i) == <<[pieces |-> n, type |-> t, init |-> i, btb |-> 2, bhr |-> BP_MAX_BITS + 1, addr |-> 1]>>

MCCliOptions == {
    Plain_,
    [Plain_ EXCEPT !.limit = 1],
    [Plain_ EXCEPT !.limit = 3, !.tracing = TRUE, !.serial = TRUE],
    [Plain_ EXCEPT !.asm = TRUE, !.expect_fail = TRUE, !.reporting = TRUE, !.ranges = TRUE, !.limit = 2],
    [Plain_ EXCEPT !.only_dump = TRUE],
    [Plain_ EXCEPT !.only_dump = TRUE, !.fail_match = TRUE],
    [Plain_ EXCEPT !.pipelined = TRUE, !.hazard = <<"forward">>, !.osemu = TRUE, !.std_in = TRUE, !.fs_root = <<"root">>,
                   !.enable_exception = TRUE,
                   !.isa = <<[xlen |-> <<64>>, letters |-> <<"I", "M">>],
                             [xlen |-> <<>>, letters |-> <<"+", "_", "-", "M">>]>>],
    [Plain_ EXCEPT !.std_in = TRUE, !.fs_root = <<"">>, !.enable_interrupt = TRUE],
    [Plain_ EXCEPT !.std_out = TRUE],
    [Plain_ EXCEPT !.files = <<>>],
    [Plain_ EXCEPT !.hazard = <<"bypass">>],
    [Plain_ EXCEPT !.read_time = <<0>>, !.burst_time = <<2>>, !.vm = TRUE],
    [Plain_ EXCEPT !.write_time = <<-1>>],
    [Plain_ EXCEPT !.d_cache = Cache4("LRU", 5, "BACK"), !.i_cache = Cache4("", 3, ""), !.l2_cache = Cache4("LFU", 4, "")],
    [Plain_ EXCEPT !.d_cache = Cache4("LRU", 3, "")],
    [Plain_ EXCEPT !.predictor = Predictor(5, "SMITH_2_BIT", "WEAKLY_TAKEN")],
    [Plain_ EXCEPT !.predictor = Predictor(4, "SMITH_2_BIT", "WEAKLY_TAKEN")],
    [Plain_ EXCEPT !.predictor = Predictor(5, "SMITH_2_BIT", "TAKEN")],
    [Plain_ EXCEPT !.predictor = Predictor(5, "BTFNT", "TAKEN")]
}
=============================================================================
