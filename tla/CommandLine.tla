---------------------------- MODULE CommandLine ----------------------------
(***************************************************************************)
(* The command line front end (cli/): main configures a machine from the   *)
(* options stage by stage, starts it, and the reporter and the tracer end  *)
(* the program.  An option that takes a value is a sequence: empty when    *)
(* the option is not given.                                                *)
(***************************************************************************)
EXTENDS MachineConfig, MachineControl, Sequences, SequencesExt

CONSTANT CliOptions      \* the command lines of interest: records of options

ASSUME CliAssumption == \A o \in CliOptions : o.limit \in Nat

VARIABLES
    opts,            \* the parsed command line
    stage,           \* what main does next
    retcode,         \* of the process: <<>> while it runs; 134 for an uncaught exception
    reported         \* the cycle the last report was made at, -1 before

cliVars == <<opts, stage, retcode, reported>>

Stages == <<"machine", "load", "tracer", "serial", "osemu", "assemble", "reporter", "ranges", "start", "loop">>
StageAfter(s) == Stages[CHOOSE i \in 1 .. Len(Stages) : i > 1 /\ Stages[i - 1] = s]

(***************************************************************************)
(* From options to a configuration; Accepts... is FALSE where main exits   *)
(***************************************************************************)
AcceptsCache(arg) ==
    arg = <<>> \/ /\ arg[1].pieces >= 3
                  /\ arg[1].replac \in {"", "RAND", "LRU", "LFU"}
                  /\ arg[1].replac # "" => arg[1].pieces >= 4
                  /\ arg[1].write \in {"", "BACK", "THROUGH_NOALLOC", "THROUGH_ALLOC"}

configure_cache(cache, arg) ==
    IF arg = <<>> THEN cache
    ELSE LET a == arg[1]
         IN  [en |-> TRUE, sets |-> AtLeastOne(a.sets), blocks |-> AtLeastOne(a.blocks),
              assoc |-> AtLeastOne(a.assoc),
              replac |-> IF a.replac = "" THEN cache.replac ELSE a.replac,
              write |-> IF a.write = "" THEN cache.write ELSE a.write]

StaticTypes == {"ALWAYS_NOT_TAKEN", "ALWAYS_TAKEN", "BTFNT"}

AcceptsPredictor(arg) ==
    arg = <<>> \/ /\ arg[1].pieces >= 5
                  /\ arg[1].type \in StaticTypes \/ arg[1].init \in InitStates(arg[1].type)

configure_branch_predictor(bp, arg) ==
    IF arg = <<>> THEN bp
    ELSE LET a == arg[1]
             typed == [bp EXCEPT !.en = TRUE, !.type = a.type,
                                 !.init = IF a.type \in StaticTypes THEN "UNDEFINED" ELSE a.init]
         IN  set_bp_bht_addr_bits(set_bp_bhr_bits(set_bp_btb_bits(typed, a.btb), a.bhr), a.addr)

\* One option value parsed as an unsigned number; -1 stands for other text.
AcceptsNumber(arg) == arg = <<>> \/ arg[1] >= 0
parse_u32_option(arg, old) == IF arg = <<>> THEN old ELSE arg[1]

Letters == {"A", "B", "C", "D", "E", "F", "G", "H", "I", "J", "K", "L", "M", "N", "O", "P", "Q", "R",
            "S", "T", "U", "V", "W", "X", "Y", "Z"}

\* Any other character is taken for the bit of A: no character is skipped.
byChar(ch) == IF ch \in Letters THEN ch ELSE "A"

\* A letter list that starts with a letter replaces all extensions but the fixed
\* ones, one that starts with a sign changes them.
isa_letter(s, ch) ==
    IF ch \in {"+", "-"} THEN [s EXCEPT !.subtract = ch = "-", !.first = FALSE]
    ELSE LET base == IF s.first THEN modify_isa_word(s.c, s.c.isa, FALSE) ELSE s.c
         IN  [s EXCEPT !.c = modify_isa_word(base, {byChar(ch)}, ~s.subtract), !.first = FALSE]
isa_variant(c, v) ==
    LET width == IF v.xlen = <<>> THEN c ELSE [c EXCEPT !.xlen = v.xlen[1]]
    IN  FoldLeft(isa_letter, [c |-> width, first |-> TRUE, subtract |-> FALSE], v.letters).c

set_hazard_unit(hukind) ==
    CASE hukind = "none" -> "NONE" [] hukind = "stall" -> "STALL" [] OTHER -> "STALL_FORWARD"

AcceptsMachine(o) ==
    /\ o.hazard # <<>> => o.hazard[1] \in {"none", "stall", "forward", "stall-forward"}
    /\ \A arg \in {o.read_time, o.write_time, o.burst_time, o.l2_time} : AcceptsNumber(arg)
    /\ \A arg \in {o.d_cache, o.i_cache, o.l2_cache} : AcceptsCache(arg)
    /\ AcceptsPredictor(o.predictor)

configure_machine(o) ==
    LET basic == [Default EXCEPT
            !.elf = o.files[1], !.delayslot = ~o.no_delay_slot, !.pipeline = o.pipelined,
            !.hunit = IF o.hazard = <<>> THEN @ ELSE set_hazard_unit(o.hazard[1]),
            !.mem = [read |-> parse_u32_option(o.read_time, @.read),
                     write |-> parse_u32_option(o.write_time, @.write),
                     burst |-> parse_u32_option(o.burst_time, @.burst),
                     level2 |-> parse_u32_option(o.l2_time, @.level2),
                     enable_burst |-> @.enable_burst \/ o.burst_time # <<>>],
            !.data = configure_cache(@, o.d_cache), !.program = configure_cache(@, o.i_cache),
            !.level2 = configure_cache(@, o.l2_cache),
            !.bp = configure_branch_predictor(@, o.predictor),
            !.os = [@ EXCEPT !.enable = o.osemu, !.known_stop = FALSE,
                             !.fs_root = IF o.fs_root \in {<<>>, <<"">>} THEN @ ELSE o.fs_root[1]],
            !.vm = o.vm]
    IN  FoldLeft(isa_variant, basic, o.isa)

(***************************************************************************)
(* main, up to the event loop                                              *)
(***************************************************************************)
exit(code) == retcode' = <<code>> /\ UNCHANGED <<stage, reported>>
proceed == stage' = StageAfter(stage) /\ UNCHANGED <<retcode, reported>>
Running(s) == retcode = <<>> /\ stage = s

\* Without exactly one file the help is shown, which ends the program in order.
ConfigureMachine(config) ==
    /\ Running("machine")
    /\ IF Len(opts.files) = 1 /\ AcceptsMachine(opts)
       THEN config' = configure_machine(opts) /\ proceed
       ELSE exit(IF Len(opts.files) = 1 THEN 1 ELSE 0) /\ UNCHANGED config
    /\ UNCHANGED <<opts, controlVars>>

\* Stages that read or open files fail or not; they matter when their option is given.
Stage(s, used, ok, code) ==
    /\ Running(s)
    /\ ~used => ok
    /\ IF ok THEN proceed ELSE exit(code)
    /\ UNCHANGED <<opts, controlVars>>

LoadElf(ok) == Stage("load", ~opts.asm, ok, 134)
configure_tracer(ok) == Stage("tracer", opts.tracing, ok, 1)
configure_serial_port(ok) == Stage("serial", opts.serial, ok, 1)

\* Standard input is opened by the system's emulation only.  The flags that make
\* the machine stop on exceptions go to its core too, where the event of a step
\* is any of the three whatever they are: a syscall may stop it all the same.
configure_osemu(config, ok) ==
    /\ Stage("osemu", opts.std_out \/ (opts.std_in /\ config.os.enable), ok, 1)
    /\ config' = [config EXCEPT !.os.exception_stop = @ /\ ~opts.enable_exception,
                                !.os.interrupt_stop = @ /\ ~opts.enable_interrupt]

assemble(ok) == Stage("assemble", opts.asm, ok, 1)
configure_reporter(ok) == Stage("reporter", opts.reporting, ok, 1)
load_ranges(ok) == Stage("ranges", opts.ranges, ok, 1)

(***************************************************************************)
(* The reporter and the tracer                                             *)
(***************************************************************************)
report == reported' = cycles'

\* Mutant: the process is told to exit, the machine is not paused.
paused_NotAtExit(event) == IF event = "trap" THEN "trap" ELSE "none"

\* Reporter::exit pauses the machine: a step that exits is a step that stops.
paused(event) == IF event = "limit" THEN "stop" ELSE event

expected_trap == opts.expect_fail \/ opts.fail_match

\* A step that stops at the limit reports twice; the codes are the same.
ExitCode(event, known) == IF event = "trap" /\ ~(known /\ expected_trap) THEN 1 ELSE 0

\* The tracer sees every completed step; a trap ends a step before that.
LimitReached(n) == opts.limit # 0 /\ cycles + n >= opts.limit
StepEvent(event, n) == IF event = "none" /\ LimitReached(n) THEN "limit" ELSE event

Observe(event, n, known) ==
    IF StepEvent(event, n) = "none" THEN UNCHANGED <<retcode, reported>>
    ELSE retcode' = <<ExitCode(event, known)>> /\ report

\* A burst never passes the limit: the step that reaches it pauses the machine.
WithinLimit(n) == opts.limit = 0 \/ n = 1 \/ cycles + n <= opts.limit

CliPlay(event, known) ==
    /\ Running("start") /\ ~opts.only_dump
    /\ play(paused(StepEvent(event, 1)))
    /\ stage' = "loop" /\ Observe(event, 1, known)
    /\ UNCHANGED opts

\* program_exit, which no machine emits by itself, reaches the reporter.
OnlyDump ==
    /\ Running("start") /\ opts.only_dump
    /\ stage' = "loop"
    /\ retcode' = <<IF expected_trap THEN 1 ELSE 0>>
    /\ UNCHANGED controlVars /\ report
    /\ UNCHANGED opts

\* The event loop may deliver another timer event after exit was called.
CliTimer(n, event, known) ==
    /\ stage = "loop"
    /\ WithinLimit(n)
    /\ step_timer(n, paused(StepEvent(event, n)))
    /\ Observe(event, n, known)
    /\ UNCHANGED <<opts, stage>>

CliInit ==
    /\ opts \in CliOptions
    /\ stage = "machine"
    /\ retcode = <<>>
    /\ reported = -1

\* The report that comes with an exit shows the machine's final state: no cycle
\* runs after it, though the event loop ends later than exit is called.
ReportIsFinal == retcode # <<>> /\ stage = "loop" => reported = cycles
=============================================================================
