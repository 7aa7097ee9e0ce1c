--------------------------- MODULE MachineConfig ---------------------------
(***************************************************************************)
(* The configuration of a machine (machineconfig.cpp, config_isa.h): its   *)
(* defaults, the four presets, the getters that mask hidden values, and    *)
(* the way through the settings file.  A configuration is a record with a  *)
(* part per component; numbers keep their limits.                          *)
(***************************************************************************)
EXTENDS Naturals, FiniteSets, FiniteSetsExt

CONSTANTS
    BP_MAX_BITS,            \* of each of the predictor's table indices
    ElfFiles                \* paths of executables; "" is none

ASSUME ConfigAssumption == BP_MAX_BITS \in Nat \ {0} /\ "" \in ElfFiles

HazardUnits == {"NONE", "STALL", "STALL_FORWARD"}
Presets == {"SINGLE", "SINGLE_CACHE", "PIPE_NO_HAZARD", "PIPE"}
ReplacementPolicies == {"RAND", "LRU", "LFU", "PLRU", "NMRU"}
WritePolicies == {"THROUGH_NOALLOC", "THROUGH_ALLOC", "BACK"}
config_isa_word_default == {"E", "I", "M", "A"}
config_isa_word_fixed == {"E", "I"}

\* The states a predictor of a type may start in; static ones have none.
InitStates(type) ==
    CASE type = "SMITH_1_BIT" -> {"NOT_TAKEN", "TAKEN"}
      [] type \in {"SMITH_2_BIT", "SMITH_2_BIT_HYSTERESIS"} ->
            {"STRONGLY_NOT_TAKEN", "WEAKLY_NOT_TAKEN", "WEAKLY_TAKEN", "STRONGLY_TAKEN"}
      [] OTHER -> {}

CacheDefault ==
    [en |-> FALSE, sets |-> 1, blocks |-> 1, assoc |-> 1, replac |-> "RAND", write |-> "THROUGH_NOALLOC"]
TlbDefault == [asid |-> 0, sets |-> 16, assoc |-> 1, replac |-> "LRU"]
PredictorDefault ==
    [en |-> FALSE, type |-> "SMITH_1_BIT", init |-> "NOT_TAKEN", btb |-> 2, bhr |-> 0, addr |-> 2, bht |-> 2]
MemoryDefault == [read |-> 10, write |-> 10, burst |-> 0, level2 |-> 2, enable_burst |-> FALSE]
OsDefault ==
    [enable |-> TRUE, known_stop |-> TRUE, unknown_stop |-> TRUE, interrupt_stop |-> TRUE,
     exception_stop |-> TRUE, fs_root |-> ""]

Default ==
    [pipeline |-> FALSE, delayslot |-> TRUE, hunit |-> "STALL_FORWARD", xlen |-> 32,
     isa |-> config_isa_word_default, mem |-> MemoryDefault, bp |-> PredictorDefault,
     program |-> CacheDefault, data |-> CacheDefault, level2 |-> CacheDefault,
     vm |-> FALSE, itlb |-> TlbDefault, dtlb |-> TlbDefault,
     os |-> OsDefault, reset_at_compile |-> TRUE, elf |-> ""]

(***************************************************************************)
(* Getters and setters                                                     *)
(***************************************************************************)
delay_slot(c) == c.pipeline \/ c.delayslot
hazard_unit(c) == IF c.pipeline THEN c.hunit ELSE "NONE"
AtLeastOne(v) == IF v > 0 THEN v ELSE 1
access_times(mem) == [mem EXCEPT !.read = AtLeastOne(@), !.write = AtLeastOne(@)]

Limited(b) == IF b > BP_MAX_BITS THEN BP_MAX_BITS ELSE b
set_bp_btb_bits(bp, b) == [bp EXCEPT !.btb = Limited(b)]
set_bp_bhr_bits(bp, b) ==
    LET bhr == Limited(b) addr == Limited(bp.addr)
    IN  [bp EXCEPT !.bhr = bhr, !.addr = addr, !.bht = bhr + addr]
set_bp_bht_addr_bits(bp, b) ==
    LET bhr == Limited(bp.bhr) addr == Limited(b)
    IN  [bp EXCEPT !.bhr = bhr, !.addr = addr, !.bht = bhr + addr]

modify_isa_word(c, letters, on) ==
    LET free == letters \ config_isa_word_fixed
    IN  [c EXCEPT !.isa = IF on THEN @ \cup free ELSE @ \ free]

(***************************************************************************)
(* Presets set only what makes the preset; the rest stays                  *)
(***************************************************************************)
cache_preset(cache, p) ==
    IF p \in {"PIPE", "SINGLE_CACHE"}
    THEN [en |-> TRUE, sets |-> 4, blocks |-> 2, assoc |-> 2, replac |-> "RAND", write |-> "THROUGH_NOALLOC"]
    ELSE [cache EXCEPT !.en = FALSE]

preset(c, p) ==
    [c EXCEPT !.pipeline = p \in {"PIPE_NO_HAZARD", "PIPE"},
              !.delayslot = @ \/ p \in {"SINGLE", "SINGLE_CACHE"},
              !.hunit = CASE p = "PIPE_NO_HAZARD" -> "NONE" [] p = "PIPE" -> "STALL_FORWARD" [] OTHER -> @,
              !.mem = MemoryDefault, !.bp = PredictorDefault,
              !.program = cache_preset(@, p), !.data = cache_preset(@, p),
              !.level2 = [cache_preset(@, p) EXCEPT !.en = FALSE],
              !.vm = FALSE, !.itlb = TlbDefault, !.dtlb = TlbDefault,
              !.xlen = 32, !.isa = config_isa_word_default]

(***************************************************************************)
(* The settings file                                                       *)
(***************************************************************************)
\* What the getters show of a configuration: all that a machine depends on.
Shown(c) ==
    [c EXCEPT !.delayslot = delay_slot(c), !.hunit = hazard_unit(c), !.mem = access_times(@)]
Same(c, d) == Shown(c) = Shown(d)

\* Mutant: the second level cache is stored under the data cache's keys.
store_SamePrefix(c) == [Shown(c) EXCEPT !.data = c.level2]

\* The memory protection flags are in no configuration here: load reads them and
\* operator== compares them, store does not write them.  Their widgets are hidden
\* and no option sets them, so they keep their defaults.
store(c) == Shown(c)

\* Fixed extensions are set again, and the sum of the predictor's bits.
load(settings) ==
    [settings EXCEPT
        !.isa = (@ \cup (config_isa_word_default \cap config_isa_word_fixed))
                \ (config_isa_word_fixed \ config_isa_word_default),
        !.bp = [@ EXCEPT !.bht = settings.bp.bhr + settings.bp.addr]]
=============================================================================
