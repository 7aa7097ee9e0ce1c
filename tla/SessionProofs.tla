--------------------------- MODULE SessionProofs ---------------------------
(***************************************************************************)
(* Proofs about a session, for every set of values the widgets can hold,   *)
(* every set of command lines and any number of edits, builds, machines    *)
(* and cycles.                                                             *)
(***************************************************************************)
EXTENDS Session, TLAPS

(***************************************************************************)
(* Configurations the dialog can reach                                     *)
(***************************************************************************)
MemoryConfig == [read : Nat, write : Nat, burst : Nat, level2 : Nat, enable_burst : BOOLEAN]
PredictorStates ==
    {"NOT_TAKEN", "TAKEN", "STRONGLY_NOT_TAKEN", "WEAKLY_NOT_TAKEN", "WEAKLY_TAKEN", "STRONGLY_TAKEN"}
PredictorConfig ==
    [en : BOOLEAN, type : PredictorTypes \cup {"SMITH_1_BIT"}, init : PredictorStates, btb : Nat, bhr : Nat, addr : Nat, bht : Nat]
CacheConfig ==
    [en : BOOLEAN, sets : Nat, blocks : Nat, assoc : Nat, replac : ReplacementPolicies, write : WritePolicies]
TlbConfig == [asid : Nat, sets : Nat, assoc : Nat, replac : ReplacementPolicies]
OsConfig ==
    [enable : BOOLEAN, known_stop : BOOLEAN, unknown_stop : BOOLEAN, interrupt_stop : BOOLEAN,
     exception_stop : BOOLEAN, fs_root : FsRoots \cup {""}]

Config ==
    [pipeline : BOOLEAN, delayslot : BOOLEAN, hunit : HazardUnits, xlen : {32, 64},
     isa : SUBSET config_isa_word_default, mem : MemoryConfig, bp : PredictorConfig,
     program : CacheConfig, data : CacheConfig, level2 : CacheConfig,
     vm : BOOLEAN, itlb : TlbConfig, dtlb : TlbConfig,
     os : OsConfig, reset_at_compile : BOOLEAN, elf : ElfFiles]

\* An initial state is one of its type's, or the type has none; the index of the
\* history table is as wide as its two parts.
PredictorOK(bp) ==
    /\ bp \in PredictorConfig
    /\ InitStates(bp.type) # {} => bp.init \in InitStates(bp.type)
    /\ bp.bht = bp.bhr + bp.addr

ConfigOK(c) == c \in Config /\ config_isa_word_fixed \subseteq c.isa /\ PredictorOK(c.bp)

(***************************************************************************)
(* The parts of the inductive invariant                                    *)
(***************************************************************************)
ControlType == stat \in {"READY", "RUNNING", "TRAPPED"} /\ clock \in BOOLEAN

\* The command line has no window, no dialog and no settings.
OneFrontend ==
    /\ frontend \in {"gui", "cli"}
    /\ frontend = "cli" => ~configured /\ chosen = "CUSTOM" /\ ~fresh
    /\ frontend = "gui" => retcode = <<>>

\* Before the event loop, and once the process has its code, no clock runs.
CliStopped ==
    /\ frontend = "cli" /\ stage # "loop" => ~clock
    /\ frontend = "cli" /\ retcode # <<>> => ~clock

\* What the settings would bring back now.
Restored == bp_init(Loaded(settings))

\* The dialog's configurations are well formed, and the settings are those of
\* the last machine, whatever has been edited since.
SettingsKept ==
    frontend = "gui" =>
        /\ ConfigOK(config) /\ ConfigOK(given) /\ ConfigOK(settings.config)
        /\ chosen \in Presets \cup {"CUSTOM"} /\ settings.preset \in Presets \cup {"CUSTOM"}
        /\ Same(Restored, given)

IInv ==
    /\ ControlType /\ OneFrontend
    /\ ClockRuns /\ ActionsMatchStatus
    /\ CliStopped /\ ReportIsFinal
    /\ SettingsKept /\ PresetHolds /\ SettingsRoundTrip

(***************************************************************************)
(* Configurations, presets and the settings file                           *)
(***************************************************************************)
\* What a machine depends on, field by field.
SameParts(c, d) ==
    /\ c.pipeline = d.pipeline /\ delay_slot(c) = delay_slot(d) /\ hazard_unit(c) = hazard_unit(d)
    /\ c.xlen = d.xlen /\ c.isa = d.isa /\ access_times(c.mem) = access_times(d.mem) /\ c.bp = d.bp
    /\ c.program = d.program /\ c.data = d.data /\ c.level2 = d.level2
    /\ c.vm = d.vm /\ c.itlb = d.itlb /\ c.dtlb = d.dtlb
    /\ c.os = d.os /\ c.reset_at_compile = d.reset_at_compile /\ c.elf = d.elf

\* Memory times are shown once and for all as at least one.
LEMMA AccessTimes ==
    ASSUME NEW mem \in MemoryConfig
    PROVE  access_times(mem) \in MemoryConfig /\ access_times(access_times(mem)) = access_times(mem)
<1> DEFINE r == AtLeastOne(mem.read)
           w == AtLeastOne(mem.write)
<1>1. r \in Nat /\ w \in Nat /\ AtLeastOne(r) = r /\ AtLeastOne(w) = w
  BY DEF AtLeastOne, MemoryConfig
<1>2. access_times(mem) = [mem EXCEPT !.read = r, !.write = w]
  BY DEF access_times
<1> HIDE DEF r, w
<1>3. access_times(mem) \in MemoryConfig /\ access_times(mem).read = r /\ access_times(mem).write = w
  BY <1>1, <1>2 DEF MemoryConfig
<1>4. access_times(access_times(mem)) = [access_times(mem) EXCEPT !.read = r, !.write = w]
  BY <1>1, <1>3 DEF access_times
<1> QED
  BY <1>1, <1>2, <1>3, <1>4 DEF MemoryConfig

\* The getters of what is shown: nothing is masked twice.
LEMMA ShownFields ==
    ASSUME NEW c \in Config
    PROVE  /\ Shown(c) \in Config
           /\ SameParts(Shown(c), c)
           /\ Shown(c).delayslot = delay_slot(c) /\ Shown(c).hunit = hazard_unit(c)
           /\ Shown(c).mem = access_times(c.mem)
<1> DEFINE ds == delay_slot(c)
           hu == hazard_unit(c)
           me == access_times(c.mem)
<1>1. ds \in BOOLEAN /\ hu \in HazardUnits
  BY DEF delay_slot, hazard_unit, Config, HazardUnits
<1>2. c.mem \in MemoryConfig
  BY DEF Config
<1>3. me \in MemoryConfig /\ access_times(me) = me
  BY <1>2, AccessTimes
<1>4. Shown(c) = [c EXCEPT !.delayslot = ds, !.hunit = hu, !.mem = me]
  BY DEF Shown
<1>5. ds = (c.pipeline \/ c.delayslot) /\ hu = (IF c.pipeline THEN c.hunit ELSE "NONE")
  BY DEF delay_slot, hazard_unit
<1> HIDE DEF ds, hu, me
<1> DEFINE d == Shown(c)
<1>6. /\ d \in Config
      /\ d.pipeline = c.pipeline /\ d.delayslot = ds /\ d.hunit = hu /\ d.mem = me
      /\ d.xlen = c.xlen /\ d.isa = c.isa /\ d.bp = c.bp
      /\ d.program = c.program /\ d.data = c.data /\ d.level2 = c.level2
      /\ d.vm = c.vm /\ d.itlb = c.itlb /\ d.dtlb = c.dtlb
      /\ d.os = c.os /\ d.reset_at_compile = c.reset_at_compile /\ d.elf = c.elf
  <2> DEFINE d1 == [c EXCEPT !.delayslot = ds]
             d2 == [d1 EXCEPT !.hunit = hu]
             d3 == [d2 EXCEPT !.mem = me]
  <2>1. d1 \in Config
    BY <1>1 DEF Config
  <2>2. d2 \in Config
    BY <1>1, <2>1 DEF Config
  <2>3. d3 \in Config
    BY <1>3, <2>2 DEF Config
  <2>4. d = d3
    BY <1>4 DEF Config
  <2>5. d \in Config
    BY <2>3, <2>4
  <2> QED
    BY <1>4, <2>5 DEF Config
<1> HIDE DEF d
<1>7. c.pipeline \in BOOLEAN
  BY DEF Config
<1>8. delay_slot(d) = ds /\ hazard_unit(d) = hu
  BY <1>5, <1>6, <1>7 DEF delay_slot, hazard_unit
<1> QED
  BY <1>3, <1>6, <1>8 DEF SameParts, ds, hu, me, d

\* Two configurations are the same to a machine if they are so field by field.
LEMMA SameByParts ==
    ASSUME NEW c \in Config, NEW d \in Config
    PROVE  Same(c, d) <=> SameParts(c, d)
<1>1. /\ Shown(c) \in Config /\ SameParts(Shown(c), c)
      /\ Shown(c).delayslot = delay_slot(c) /\ Shown(c).hunit = hazard_unit(c)
      /\ Shown(c).mem = access_times(c.mem)
  BY ShownFields
<1>2. /\ Shown(d) \in Config /\ SameParts(Shown(d), d)
      /\ Shown(d).delayslot = delay_slot(d) /\ Shown(d).hunit = hazard_unit(d)
      /\ Shown(d).mem = access_times(d.mem)
  BY ShownFields
<1>3. ASSUME Same(c, d) PROVE SameParts(c, d)
  BY <1>1, <1>2, <1>3 DEF Same, SameParts
<1>4. ASSUME SameParts(c, d) PROVE Same(c, d)
  <2> DEFINE s == Shown(c)
             t == Shown(d)
  <2>1. /\ s.pipeline = t.pipeline /\ s.delayslot = t.delayslot /\ s.hunit = t.hunit /\ s.mem = t.mem
        /\ s.xlen = t.xlen /\ s.isa = t.isa /\ s.bp = t.bp
        /\ s.program = t.program /\ s.data = t.data /\ s.level2 = t.level2
        /\ s.vm = t.vm /\ s.itlb = t.itlb /\ s.dtlb = t.dtlb
        /\ s.os = t.os /\ s.reset_at_compile = t.reset_at_compile /\ s.elf = t.elf
    BY <1>1, <1>2, <1>4 DEF SameParts
  <2>2. s \in Config /\ t \in Config
    BY <1>1, <1>2
  <2> HIDE DEF s, t
  <2>3. s = t
    BY <2>1, <2>2 DEF Config
  <2> QED
    BY <2>3 DEF Same, s, t
<1> QED
  BY <1>3, <1>4

\* The defaults are well formed.
LEMMA DefaultsOK ==
    /\ MemoryDefault \in MemoryConfig /\ PredictorOK(PredictorDefault) /\ CacheDefault \in CacheConfig
    /\ TlbDefault \in TlbConfig /\ OsDefault \in OsConfig /\ ConfigOK(Default)
<1>1. MemoryDefault \in MemoryConfig /\ CacheDefault \in CacheConfig /\ TlbDefault \in TlbConfig
  BY DEF MemoryDefault, MemoryConfig, CacheDefault, CacheConfig, TlbDefault, TlbConfig,
     ReplacementPolicies, WritePolicies
<1>2. OsDefault \in OsConfig
  BY DEF OsDefault, OsConfig
<1>3. PredictorOK(PredictorDefault)
  BY DEF PredictorOK, PredictorDefault, PredictorConfig, PredictorStates, InitStates
<1>4. Default \in Config
  BY <1>1, <1>2, <1>3, ConfigAssumption DEF Default, Config, PredictorOK, HazardUnits
<1>5. Default.isa = config_isa_word_default /\ Default.bp = PredictorDefault
  BY DEF Default
<1> QED
  BY <1>1, <1>2, <1>3, <1>4, <1>5 DEF ConfigOK, config_isa_word_default, config_isa_word_fixed

\* A preset of a cache is one of the two of its table, switched on or off.
LEMMA CachePreset ==
    ASSUME NEW k \in CacheConfig, NEW p \in Presets
    PROVE  /\ cache_preset(k, p) \in CacheConfig
           /\ [cache_preset(k, p) EXCEPT !.en = FALSE] \in CacheConfig
           /\ cache_preset(cache_preset(k, p), p) = cache_preset(k, p)
           /\ [cache_preset([cache_preset(k, p) EXCEPT !.en = FALSE], p) EXCEPT !.en = FALSE]
                = [cache_preset(k, p) EXCEPT !.en = FALSE]
<1>1. CASE p \in {"PIPE", "SINGLE_CACHE"}
  BY <1>1 DEF cache_preset, CacheConfig, ReplacementPolicies, WritePolicies
<1>2. CASE p \notin {"PIPE", "SINGLE_CACHE"}
  BY <1>2 DEF cache_preset, CacheConfig
<1> QED
  BY <1>1, <1>2

\* The fields of d, the preset p of c.
PresetOf(c, p, d) ==
    /\ d \in Config
    /\ d.pipeline = (p \in {"PIPE_NO_HAZARD", "PIPE"})
    /\ d.delayslot = (c.delayslot \/ p \in {"SINGLE", "SINGLE_CACHE"})
    /\ d.hunit = CASE p = "PIPE_NO_HAZARD" -> "NONE" [] p = "PIPE" -> "STALL_FORWARD" [] OTHER -> c.hunit
    /\ d.mem = MemoryDefault /\ d.bp = PredictorDefault
    /\ d.program = cache_preset(c.program, p) /\ d.data = cache_preset(c.data, p)
    /\ d.level2 = [cache_preset(c.level2, p) EXCEPT !.en = FALSE]
    /\ d.vm = FALSE /\ d.itlb = TlbDefault /\ d.dtlb = TlbDefault
    /\ d.xlen = 32 /\ d.isa = config_isa_word_default
    /\ d.os = c.os /\ d.reset_at_compile = c.reset_at_compile /\ d.elf = c.elf

\* preset() sets these fields.
LEMMA PresetFields ==
    ASSUME NEW c \in Config, NEW p \in Presets
    PROVE  PresetOf(c, p, preset(c, p))
<1> DEFINE pi == p \in {"PIPE_NO_HAZARD", "PIPE"}
           ds == c.delayslot \/ p \in {"SINGLE", "SINGLE_CACHE"}
           hu == CASE p = "PIPE_NO_HAZARD" -> "NONE" [] p = "PIPE" -> "STALL_FORWARD" [] OTHER -> c.hunit
           pr == cache_preset(c.program, p)
           da == cache_preset(c.data, p)
           l2 == [cache_preset(c.level2, p) EXCEPT !.en = FALSE]
<1>1. pi \in BOOLEAN /\ ds \in BOOLEAN
  OBVIOUS
<1>2. hu \in HazardUnits
  BY DEF HazardUnits, Config, Presets
<1>3. pr \in CacheConfig /\ da \in CacheConfig /\ l2 \in CacheConfig
  BY CachePreset DEF Config
<1>4. preset(c, p) = [c EXCEPT !.pipeline = pi, !.delayslot = ds, !.hunit = hu, !.mem = MemoryDefault,
                               !.bp = PredictorDefault, !.program = pr, !.data = da, !.level2 = l2,
                               !.vm = FALSE, !.itlb = TlbDefault, !.dtlb = TlbDefault,
                               !.xlen = 32, !.isa = config_isa_word_default]
  BY DEF preset
<1> HIDE DEF pi, ds, hu, pr, da, l2
<1>5. MemoryDefault \in MemoryConfig /\ PredictorDefault \in PredictorConfig /\ TlbDefault \in TlbConfig
  BY DefaultsOK DEF PredictorOK
<1> DEFINE e1 == [c EXCEPT !.pipeline = pi]
           e2 == [e1 EXCEPT !.delayslot = ds]
           e3 == [e2 EXCEPT !.hunit = hu]
           e4 == [e3 EXCEPT !.mem = MemoryDefault]
           e5 == [e4 EXCEPT !.bp = PredictorDefault]
           e6 == [e5 EXCEPT !.program = pr]
           e7 == [e6 EXCEPT !.data = da]
           e8 == [e7 EXCEPT !.level2 = l2]
           e9 == [e8 EXCEPT !.vm = FALSE]
           e10 == [e9 EXCEPT !.itlb = TlbDefault]
           e11 == [e10 EXCEPT !.dtlb = TlbDefault]
           e12 == [e11 EXCEPT !.xlen = 32]
           e13 == [e12 EXCEPT !.isa = config_isa_word_default]
<1> DEFINE d == preset(c, p)
<1>6. d = e13
  BY <1>4 DEF Config
<1>7. e1 \in Config /\ e2 \in Config /\ e3 \in Config /\ e4 \in Config
  BY <1>1, <1>2, <1>5, ZenonT(40) DEF Config
<1> HIDE DEF e1, e2, e3, e4
<1>8. e5 \in Config /\ e6 \in Config /\ e7 \in Config /\ e8 \in Config
  BY <1>3, <1>5, <1>7 DEF Config
<1> HIDE DEF e5, e6, e7, e8
<1>9. e13 \in Config
  <2>1. e9 \in Config
    BY <1>8 DEF Config
  <2> HIDE DEF e9
  <2>2. e10 \in Config /\ e11 \in Config
    BY <1>5, <2>1 DEF Config
  <2> HIDE DEF e10, e11
  <2>3. e12 \in Config
    BY <2>2 DEF Config
  <2> HIDE DEF e12
  <2> QED
    BY <2>3 DEF Config
<1>10. /\ d.pipeline = pi /\ d.delayslot = ds /\ d.hunit = hu
       /\ d.mem = MemoryDefault /\ d.bp = PredictorDefault
       /\ d.program = pr /\ d.data = da /\ d.level2 = l2
       /\ d.vm = FALSE /\ d.itlb = TlbDefault /\ d.dtlb = TlbDefault
       /\ d.xlen = 32 /\ d.isa = config_isa_word_default
       /\ d.os = c.os /\ d.reset_at_compile = c.reset_at_compile /\ d.elf = c.elf
  BY <1>4 DEF Config
<1> HIDE DEF d, e13
<1> QED
  BY <1>6, <1>9, <1>10 DEF PresetOf, pi, ds, hu, pr, da, l2, d

\* A configuration whose initial state fits its predictor is left alone.
LEMMA BpInitKeeps ==
    ASSUME NEW c, PredictorOK(c.bp)
    PROVE  bp_init(c) = c
  BY DEF bp_init, PredictorOK

\* Every preset is well formed and making it again changes nothing.
LEMMA PresetTwice ==
    ASSUME NEW c \in Config, NEW p \in Presets
    PROVE  /\ ConfigOK(preset(c, p)) /\ bp_init(preset(c, p)) = preset(c, p)
           /\ Same(preset(c, p), preset(preset(c, p), p))
<1> DEFINE d == preset(c, p)
           e == preset(d, p)
<1>1. PresetOf(c, p, d) /\ d \in Config
  <2>1. PresetOf(c, p, d)
    BY PresetFields
  <2> QED
    BY <2>1 DEF PresetOf
<1> HIDE DEF d
<1>2. PresetOf(d, p, e) /\ e \in Config
  <2>1. PresetOf(d, p, e)
    BY <1>1, PresetFields
  <2> QED
    BY <2>1 DEF PresetOf
<1> HIDE DEF e
<1>3. e.program = d.program /\ e.data = d.data /\ e.level2 = d.level2
  <2>1. c.program \in CacheConfig /\ c.data \in CacheConfig /\ c.level2 \in CacheConfig
    BY DEF Config
  <2>2. /\ d.program = cache_preset(c.program, p) /\ d.data = cache_preset(c.data, p)
        /\ d.level2 = [cache_preset(c.level2, p) EXCEPT !.en = FALSE]
    BY <1>1 DEF PresetOf
  <2>3. /\ e.program = cache_preset(d.program, p) /\ e.data = cache_preset(d.data, p)
        /\ e.level2 = [cache_preset(d.level2, p) EXCEPT !.en = FALSE]
    BY <1>2 DEF PresetOf
  <2>4. cache_preset(cache_preset(c.program, p), p) = cache_preset(c.program, p)
    BY <2>1, CachePreset
  <2>5. cache_preset(cache_preset(c.data, p), p) = cache_preset(c.data, p)
    BY <2>1, CachePreset
  <2>6. [cache_preset([cache_preset(c.level2, p) EXCEPT !.en = FALSE], p) EXCEPT !.en = FALSE]
          = [cache_preset(c.level2, p) EXCEPT !.en = FALSE]
    BY <2>1, CachePreset
  <2> QED
    BY <2>2, <2>3, <2>4, <2>5, <2>6, Zenon
<1>4. delay_slot(e) = delay_slot(d) /\ hazard_unit(e) = hazard_unit(d)
  BY <1>1, <1>2 DEF PresetOf, delay_slot, hazard_unit, Presets
<1>5. SameParts(d, e)
  BY <1>1, <1>2, <1>3, <1>4 DEF SameParts, PresetOf
<1>6. Same(d, e)
  BY <1>1, <1>2, <1>5, SameByParts
<1>7. ConfigOK(d)
  BY <1>1, DefaultsOK DEF PresetOf, ConfigOK, config_isa_word_default, config_isa_word_fixed
<1>8. bp_init(d) = d
  BY <1>7, BpInitKeeps DEF ConfigOK
<1> QED
  BY <1>6, <1>7, <1>8 DEF d, e

\* Presets of configurations a machine cannot tell apart are the same.
LEMMA PresetOfSame ==
    ASSUME NEW c \in Config, NEW k \in Config, NEW p \in Presets,
           c.program = k.program, c.data = k.data, c.level2 = k.level2,
           c.os = k.os, c.reset_at_compile = k.reset_at_compile, c.elf = k.elf
    PROVE  Same(preset(c, p), preset(k, p))
<1> DEFINE d == preset(c, p)
           e == preset(k, p)
<1>1. PresetOf(c, p, d) /\ d \in Config
  <2>1. PresetOf(c, p, d)
    BY PresetFields
  <2> QED
    BY <2>1 DEF PresetOf
<1>2. PresetOf(k, p, e) /\ e \in Config
  <2>1. PresetOf(k, p, e)
    BY PresetFields
  <2> QED
    BY <2>1 DEF PresetOf
<1> HIDE DEF d, e
<1>3. c.delayslot \in BOOLEAN /\ k.delayslot \in BOOLEAN
  BY DEF Config
<1>4. delay_slot(e) = delay_slot(d) /\ hazard_unit(e) = hazard_unit(d)
  BY <1>1, <1>2, <1>3 DEF PresetOf, delay_slot, hazard_unit, Presets
<1>5. SameParts(d, e)
  BY <1>1, <1>2, <1>4 DEF SameParts, PresetOf
<1> QED
  BY <1>1, <1>2, <1>5, SameByParts DEF d, e

\* Loading changes nothing in a well formed configuration.
LEMMA LoadKeeps ==
    ASSUME NEW c, ConfigOK(c)
    PROVE  load(c) = c
<1> DEFINE i == (c.isa \cup (config_isa_word_default \cap config_isa_word_fixed))
                \ (config_isa_word_fixed \ config_isa_word_default)
           b == [c.bp EXCEPT !.bht = c.bp.bhr + c.bp.addr]
<1>1. c \in Config /\ config_isa_word_fixed \subseteq c.isa /\ PredictorOK(c.bp)
  BY DEF ConfigOK
<1>2. i = c.isa
  BY <1>1 DEF config_isa_word_default, config_isa_word_fixed
<1>3. b = c.bp
  BY <1>1 DEF PredictorOK, PredictorConfig
<1>4. load(c) = [c EXCEPT !.isa = i, !.bp = b]
  BY DEF load
<1> HIDE DEF i, b
<1> QED
  BY <1>1, <1>2, <1>3, <1>4 DEF Config

\* What is stored is well formed and shows what was configured.
LEMMA StoreKeeps ==
    ASSUME NEW c, ConfigOK(c)
    PROVE  ConfigOK(store(c)) /\ Same(store(c), c)
<1>1. c \in Config
  BY DEF ConfigOK
<1>2. Shown(c) \in Config /\ SameParts(Shown(c), c)
  BY <1>1, ShownFields
<1>3. Same(Shown(c), c)
  BY <1>1, <1>2, SameByParts
<1>4. ConfigOK(Shown(c))
  BY <1>2 DEF ConfigOK, SameParts
<1> QED
  BY <1>3, <1>4 DEF store

\* Storing a configuration and loading it brings the same machine back, for a
\* preset, which is made anew, and for a custom configuration.
LEMMA RoundTrip ==
    ASSUME NEW c, ConfigOK(c), NEW p \in Presets \cup {"CUSTOM"},
           p # "CUSTOM" => Same(c, preset(c, p))
    PROVE  LET r == Loaded([config |-> store(c), preset |-> p])
           IN  ConfigOK(r) /\ bp_init(r) = r /\ Same(r, c)
<1> DEFINE s == [config |-> store(c), preset |-> p]
           r == Loaded(s)
<1>1. c \in Config /\ ConfigOK(store(c)) /\ Same(store(c), c) /\ load(store(c)) = store(c)
  BY StoreKeeps, LoadKeeps DEF ConfigOK
<1>2. store(c) \in Config
  BY <1>1 DEF ConfigOK
<1>3. r = IF p = "CUSTOM" THEN store(c) ELSE preset(store(c), p)
  BY <1>1 DEF Loaded
<1> HIDE DEF r
<1>4. CASE p = "CUSTOM"
  BY <1>1, <1>3, <1>4, BpInitKeeps DEF ConfigOK, r
<1>5. CASE p # "CUSTOM"
  <2>1. p \in Presets
    BY <1>5
  <2>2. SameParts(store(c), c)
    BY <1>1, <1>2, SameByParts
  <2>3. Same(preset(store(c), p), preset(c, p))
    BY <1>1, <1>2, <2>1, <2>2, PresetOfSame DEF SameParts
  <2>4. Same(preset(store(c), p), c)
    BY <1>5, <2>3 DEF Same
  <2>5. ConfigOK(preset(store(c), p)) /\ bp_init(preset(store(c), p)) = preset(store(c), p)
    BY <1>2, <2>1, PresetTwice
  <2> QED
    BY <1>3, <1>5, <2>4, <2>5 DEF r
<1> QED
  BY <1>4, <1>5 DEF r

(***************************************************************************)
(* The edits of the dialog                                                 *)
(***************************************************************************)
\* A part of a configuration may be replaced by another well formed one.
LEMMA PartReplaced ==
    ASSUME NEW c, ConfigOK(c)
    PROVE  /\ \A v \in {32, 64} : ConfigOK([c EXCEPT !.xlen = v])
           /\ \A v \in BOOLEAN : ConfigOK([c EXCEPT !.pipeline = v])
           /\ \A v \in BOOLEAN : ConfigOK([c EXCEPT !.vm = v])
           /\ \A v \in HazardUnits : ConfigOK([c EXCEPT !.hunit = v])
           /\ \A v \in MemoryConfig : ConfigOK([c EXCEPT !.mem = v])
           /\ \A v \in CacheConfig : ConfigOK([c EXCEPT !.program = v])
           /\ \A v \in CacheConfig : ConfigOK([c EXCEPT !.data = v])
           /\ \A v \in CacheConfig : ConfigOK([c EXCEPT !.level2 = v])
           /\ \A v \in TlbConfig : ConfigOK([c EXCEPT !.itlb = v])
           /\ \A v \in TlbConfig : ConfigOK([c EXCEPT !.dtlb = v])
<1>1. c \in Config /\ config_isa_word_fixed \subseteq c.isa /\ PredictorOK(c.bp)
  BY DEF ConfigOK
<1>2. ASSUME NEW v \in {32, 64} PROVE ConfigOK([c EXCEPT !.xlen = v])
  BY <1>1 DEF ConfigOK, Config
<1>3. ASSUME NEW v \in BOOLEAN PROVE ConfigOK([c EXCEPT !.pipeline = v])
  BY <1>1 DEF ConfigOK, Config
<1>4. ASSUME NEW v \in BOOLEAN PROVE ConfigOK([c EXCEPT !.vm = v])
  BY <1>1 DEF ConfigOK, Config
<1>5. ASSUME NEW v \in HazardUnits PROVE ConfigOK([c EXCEPT !.hunit = v])
  BY <1>1 DEF ConfigOK, Config
<1>6. ASSUME NEW v \in MemoryConfig PROVE ConfigOK([c EXCEPT !.mem = v])
  BY <1>1 DEF ConfigOK, Config
<1>7. ASSUME NEW v \in CacheConfig PROVE ConfigOK([c EXCEPT !.program = v])
  BY <1>1 DEF ConfigOK, Config
<1>8. ASSUME NEW v \in CacheConfig PROVE ConfigOK([c EXCEPT !.data = v])
  BY <1>1 DEF ConfigOK, Config
<1>9. ASSUME NEW v \in CacheConfig PROVE ConfigOK([c EXCEPT !.level2 = v])
  BY <1>1 DEF ConfigOK, Config
<1>10. ASSUME NEW v \in TlbConfig PROVE ConfigOK([c EXCEPT !.itlb = v])
  BY <1>1 DEF ConfigOK, Config
<1>11. ASSUME NEW v \in TlbConfig PROVE ConfigOK([c EXCEPT !.dtlb = v])
  BY <1>1 DEF ConfigOK, Config
<1> QED
  BY <1>2, <1>3, <1>4, <1>5, <1>6, <1>7, <1>8, <1>9, <1>10, <1>11

\* So may the predictor.
LEMMA PredictorReplaced ==
    ASSUME NEW c, ConfigOK(c), NEW bp, PredictorOK(bp)
    PROVE  ConfigOK([c EXCEPT !.bp = bp])
  BY DEF ConfigOK, Config, PredictorOK

\* The extensions a check box adds or removes are not the fixed ones.
LEMMA IsaModified ==
    ASSUME NEW c, ConfigOK(c), NEW letters \in SUBSET {"A", "M"}, NEW on \in BOOLEAN
    PROVE  ConfigOK(modify_isa_word(c, letters, on))
<1> DEFINE free == letters \ config_isa_word_fixed
           i == IF on THEN c.isa \cup free ELSE c.isa \ free
<1>1. c \in Config /\ config_isa_word_fixed \subseteq c.isa /\ PredictorOK(c.bp)
  BY DEF ConfigOK
<1>2. c.isa \subseteq config_isa_word_default
  BY <1>1 DEF Config
<1>3. i \in SUBSET config_isa_word_default /\ config_isa_word_fixed \subseteq i
  BY <1>1, <1>2 DEF config_isa_word_default, config_isa_word_fixed
<1>4. modify_isa_word(c, letters, on) = [c EXCEPT !.isa = i]
  BY DEF modify_isa_word
<1> HIDE DEF i
<1> QED
  BY <1>1, <1>3, <1>4 DEF ConfigOK, Config

\* The predictor's setters keep its index as wide as its two parts.
LEMMA PredictorEdits ==
    ASSUME NEW bp, PredictorOK(bp), NEW v \in Nat
    PROVE  /\ PredictorOK(set_bp_btb_bits(bp, v))
           /\ PredictorOK(set_bp_bhr_bits(bp, v))
           /\ PredictorOK(set_bp_bht_addr_bits(bp, v))
<1>1. \A n \in Nat : Limited(n) \in Nat
  BY ConfigAssumption DEF Limited
<1>2. bp \in PredictorConfig /\ Limited(v) \in Nat /\ Limited(bp.addr) \in Nat /\ Limited(bp.bhr) \in Nat
  BY <1>1 DEF PredictorOK, PredictorConfig
<1>3. PredictorOK(set_bp_btb_bits(bp, v))
  BY <1>2 DEF PredictorOK, PredictorConfig, set_bp_btb_bits
<1>4. ASSUME NEW h \in Nat, NEW a \in Nat
      PROVE  PredictorOK([bp EXCEPT !.bhr = h, !.addr = a, !.bht = h + a])
  <2> DEFINE s == h + a
             d1 == [bp EXCEPT !.bhr = h]
             d2 == [d1 EXCEPT !.addr = a]
             d == [bp EXCEPT !.bhr = h, !.addr = a, !.bht = s]
  <2>1. s \in Nat
    OBVIOUS
  <2> HIDE DEF s
  <2>2. d1 \in PredictorConfig /\ d2 \in PredictorConfig /\ d = [d2 EXCEPT !.bht = s]
    BY <1>2 DEF PredictorConfig
  <2>3. d \in PredictorConfig
    BY <2>1, <2>2 DEF PredictorConfig
  <2>4. d.bhr = h /\ d.addr = a /\ d.bht = s /\ d.type = bp.type /\ d.init = bp.init
    BY <1>2 DEF PredictorConfig
  <2> HIDE DEF d
  <2>5. PredictorOK(d)
    BY <2>3, <2>4 DEF PredictorOK, s
  <2> QED
    BY <2>5 DEF d, s
<1>5. PredictorOK(set_bp_bhr_bits(bp, v))
  BY <1>2, <1>4 DEF set_bp_bhr_bits
<1>6. PredictorOK(set_bp_bht_addr_bits(bp, v))
  BY <1>2, <1>4 DEF set_bp_bht_addr_bits
<1> QED
  BY <1>3, <1>5, <1>6

\* What an edit does to configuration and selection.
EditStep ==
    /\ UNCHANGED <<settings, given>>
    /\ ConfigOK(config')
    /\ fresh' => fresh /\ config' = config
    /\ \/ chosen' = "CUSTOM"
       \/ chosen' \in Presets /\ \E c \in Config : config' = preset(c, chosen')
       \/ /\ chosen' = chosen
          /\ config'.pipeline = config.pipeline /\ config'.delayslot = config.delayslot
          /\ config'.hunit = config.hunit /\ config'.mem = config.mem /\ config'.bp = config.bp
          /\ config'.program = config.program /\ config'.data = config.data
          /\ config'.level2 = config.level2 /\ config'.vm = config.vm /\ config'.itlb = config.itlb
          /\ config'.dtlb = config.dtlb /\ config'.xlen = config.xlen /\ config'.isa = config.isa

\* Leaving a preset: the widgets are refreshed and the configuration kept.
LEMMA EditLeavesPreset ==
    ASSUME NEW c, ConfigOK(c), Edit(c)
    PROVE  EditStep
<1>1. bp_init(c) = c
  BY BpInitKeeps DEF ConfigOK
<1>2. config' = c /\ chosen' = "CUSTOM" /\ ~fresh' /\ UNCHANGED <<settings, given>>
  BY <1>1 DEF Edit, switch_to_custom, config_gui, Keep
<1> QED
  BY <1>2 DEF EditStep

\* The options that belong to no preset leave the selection.
LEMMA PlainKeepsPreset ==
    ASSUME ConfigOK(config), NEW c, Plain(c),
           \/ \E v \in OsConfig : c = [config EXCEPT !.os = v]
           \/ \E v \in BOOLEAN : c = [config EXCEPT !.reset_at_compile = v]
           \/ \E v \in ElfFiles : c = [config EXCEPT !.elf = v]
    PROVE  EditStep
<1>1. config' = c /\ chosen' = chosen /\ ~fresh' /\ UNCHANGED <<settings, given>>
  BY DEF Plain, Keep
<1>2. config \in Config /\ config_isa_word_fixed \subseteq config.isa /\ PredictorOK(config.bp)
  BY DEF ConfigOK
<1>3. /\ c \in Config
      /\ c.pipeline = config.pipeline /\ c.delayslot = config.delayslot
      /\ c.hunit = config.hunit /\ c.mem = config.mem /\ c.bp = config.bp
      /\ c.program = config.program /\ c.data = config.data
      /\ c.level2 = config.level2 /\ c.vm = config.vm /\ c.itlb = config.itlb
      /\ c.dtlb = config.dtlb /\ c.xlen = config.xlen /\ c.isa = config.isa
  <2>1. ASSUME NEW v \in OsConfig, c = [config EXCEPT !.os = v]
        PROVE  <1>3!:
    BY <1>2, <2>1 DEF Config
  <2>2. ASSUME NEW v \in BOOLEAN, c = [config EXCEPT !.reset_at_compile = v]
        PROVE  <1>3!:
    BY <1>2, <2>2 DEF Config
  <2>3. ASSUME NEW v \in ElfFiles, c = [config EXCEPT !.elf = v]
        PROVE  <1>3!:
    BY <1>2, <2>3 DEF Config
  <2> QED
    BY <2>1, <2>2, <2>3
<1>4. ConfigOK(c)
  BY <1>2, <1>3 DEF ConfigOK
<1> QED
  BY <1>1, <1>3, <1>4 DEF EditStep

\* A value entered in a tab of a cache leaves a cache configuration.
LEMMA CacheEntered ==
    ASSUME NEW k \in CacheConfig, NEW e \in CacheEdits, NEW f \in DOMAIN CacheDefault, f \in DOMAIN e
    PROVE  Entered(k, f, e[f]) \in CacheConfig
<1>1. f \in {"en", "sets", "blocks", "assoc", "replac", "write"}
  BY DEF CacheDefault
<1>2. CASE f \in {"sets", "blocks", "assoc"}
  <2>1. AtLeastOne(e[f]) \in Nat
    BY <1>2, DialogAssumption DEF AtLeastOne
  <2>2. Entered(k, f, e[f]) = [k EXCEPT ![f] = AtLeastOne(e[f])]
    BY <1>2 DEF Entered
  <2>3. CASE f = "sets"
    BY <2>1, <2>2, <2>3 DEF CacheConfig
  <2>4. CASE f = "blocks"
    BY <2>1, <2>2, <2>4 DEF CacheConfig
  <2>5. CASE f = "assoc"
    BY <2>1, <2>2, <2>5 DEF CacheConfig
  <2> QED
    BY <1>2, <2>3, <2>4, <2>5
<1>3. CASE f = "en"
  BY <1>3, DialogAssumption DEF Entered, CacheConfig
<1>4. CASE f = "replac"
  BY <1>4, DialogAssumption DEF Entered, CacheConfig
<1>5. CASE f = "write"
  BY <1>5, DialogAssumption DEF Entered, CacheConfig
<1> QED
  BY <1>1, <1>2, <1>3, <1>4, <1>5

\* So do the three fields of the tab of a TLB.
LEMMA TlbEntered ==
    ASSUME NEW k \in TlbConfig, NEW t \in TlbEdits
    PROVE  [k EXCEPT !.sets = AtLeastOne(t.sets), !.assoc = AtLeastOne(t.assoc), !.replac = t.replac]
             \in TlbConfig
<1>1. AtLeastOne(t.sets) \in Nat /\ AtLeastOne(t.assoc) \in Nat /\ t.replac \in ReplacementPolicies
  BY DialogAssumption DEF AtLeastOne
<1> QED
  BY <1>1 DEF TlbConfig

\* A new predictor type keeps a state it has and takes its default otherwise.
LEMMA TypeChanged ==
    ASSUME NEW c, ConfigOK(c), NEW t \in PredictorTypes
    PROVE  ConfigOK(bp_init([c EXCEPT !.bp.type = t]))
<1> DEFINE b == [c.bp EXCEPT !.type = t]
           d == [c EXCEPT !.bp = b]
           fits == InitStates(t) # {} => b.init \in InitStates(t)
           b2 == [b EXCEPT !.init = DefaultInit(t)]
<1>1. c \in Config /\ config_isa_word_fixed \subseteq c.isa /\ PredictorOK(c.bp)
  BY DEF ConfigOK
<1>2. b \in PredictorConfig /\ b.type = t /\ b.bht = b.bhr + b.addr
  BY <1>1 DEF PredictorOK, PredictorConfig
<1>3. d = [c EXCEPT !.bp.type = t] /\ d \in Config /\ d.bp = b /\ d.isa = c.isa
  BY <1>1, <1>2 DEF Config
<1> HIDE DEF b, d
<1>4. CASE fits
  <2>1. PredictorOK(b)
    BY <1>2, <1>4 DEF PredictorOK
  <2>2. bp_init(d) = d
    BY <1>3, <2>1, BpInitKeeps
  <2> QED
    BY <1>1, <1>3, <2>1, <2>2 DEF ConfigOK
<1>5. CASE ~fits
  <2>1. DefaultInit(t) \in PredictorStates
    BY DEF DefaultInit, PredictorStates
  <2>2. InitStates(t) # {} => DefaultInit(t) \in InitStates(t)
    BY DEF InitStates, DefaultInit
  <2>3. PredictorOK(b2)
    BY <1>2, <2>1, <2>2 DEF PredictorOK, PredictorConfig
  <2>4. bp_init(d) = [d EXCEPT !.bp.init = DefaultInit(t)]
    BY <1>2, <1>3, <1>5 DEF bp_init
  <2>5. bp_init(d) = [d EXCEPT !.bp = b2]
    BY <1>3, <2>4
  <2> HIDE DEF b2
  <2> QED
    BY <1>1, <1>3, <2>3, <2>5 DEF ConfigOK, Config, PredictorOK
<1> QED
  BY <1>3, <1>4, <1>5

\* Every handler of a widget.
LEMMA EditsStep ==
    ASSUME ConfigOK(config), Edits
    PROVE  EditStep
<1>1. /\ config \in Config /\ config.mem \in MemoryConfig /\ PredictorOK(config.bp)
      /\ config.bp \in PredictorConfig /\ config.program \in CacheConfig /\ config.data \in CacheConfig
      /\ config.level2 \in CacheConfig /\ config.itlb \in TlbConfig /\ config.dtlb \in TlbConfig
      /\ config.os \in OsConfig
  BY DEF ConfigOK, Config
<1>2. \A c : ConfigOK(c) /\ EditIfNew(c) => EditStep
  BY EditLeavesPreset DEF EditIfNew
<1>3. CASE preset_custom
  BY <1>3 DEF preset_custom, Keep, EditStep
<1>4. ASSUME NEW p \in Presets, set_preset(p)
      PROVE  EditStep
  <2>1. ConfigOK(preset(config, p)) /\ bp_init(preset(config, p)) = preset(config, p)
    BY <1>1, PresetTwice
  <2>2. config' = preset(config, p) /\ chosen' = p /\ ~fresh' /\ UNCHANGED <<settings, given>>
    BY <1>4, <2>1 DEF set_preset, config_gui, Keep
  <2> QED
    BY <1>1, <2>1, <2>2 DEF EditStep
<1>5. ASSUME NEW v \in BOOLEAN, xlen_64bit_change(v) \/ pipelined_change(v) \/ vm_enabled_change(v)
      PROVE  EditStep
  <2>1. (IF v THEN 64 ELSE 32) \in {32, 64}
    OBVIOUS
  <2>2. /\ ConfigOK([config EXCEPT !.xlen = IF v THEN 64 ELSE 32])
        /\ ConfigOK([config EXCEPT !.pipeline = v]) /\ ConfigOK([config EXCEPT !.vm = v])
    BY <2>1, PartReplaced
  <2>3. CASE xlen_64bit_change(v)
    BY <2>2, <2>3, EditLeavesPreset DEF xlen_64bit_change
  <2>4. CASE pipelined_change(v)
    BY <2>2, <2>4, EditLeavesPreset DEF pipelined_change
  <2>5. CASE vm_enabled_change(v)
    BY <1>2, <2>2, <2>5 DEF vm_enabled_change
  <2> QED
    BY <1>5, <2>3, <2>4, <2>5
<1>6. ASSUME NEW v \in BOOLEAN, isa_atomic_change(v) \/ isa_multiply_change(v)
      PROVE  EditStep
  <2>1. ConfigOK(modify_isa_word(config, {"A"}, v)) /\ ConfigOK(modify_isa_word(config, {"M"}, v))
    BY IsaModified
  <2> QED
    BY <1>6, <2>1, EditLeavesPreset DEF isa_atomic_change, isa_multiply_change
<1>7. ASSUME NEW m \in MemoryConfig
      PROVE  /\ Edit([config EXCEPT !.mem = m]) => EditStep
             /\ EditIfNew([config EXCEPT !.mem = m]) => EditStep
  <2>1. ConfigOK([config EXCEPT !.mem = m])
    BY PartReplaced
  <2> QED
    BY <1>2, <2>1, EditLeavesPreset
<1>8. ASSUME NEW v \in BOOLEAN, mem_enable_burst_change(v)
      PROVE  EditStep
  <2> DEFINE m == [config.mem EXCEPT !.enable_burst = v]
  <2>1. m \in MemoryConfig
    BY <1>1 DEF MemoryConfig
  <2>2. EditIfNew([config EXCEPT !.mem = m])
    BY <1>8 DEF mem_enable_burst_change
  <2> HIDE DEF m
  <2> QED
    BY <1>7, <2>1, <2>2
<1>9. ASSUME NEW v \in TimeEdits, mem_time_read_change(v) \/ mem_time_write_change(v)
                                  \/ mem_time_burst_change(v) \/ mem_time_level2_change(v)
      PROVE  EditStep
  <2>1. v \in Nat
    BY DialogAssumption
  <2>2. /\ [config.mem EXCEPT !.read = v] \in MemoryConfig /\ [config.mem EXCEPT !.write = v] \in MemoryConfig
        /\ [config.mem EXCEPT !.burst = v] \in MemoryConfig /\ [config.mem EXCEPT !.level2 = v] \in MemoryConfig
    BY <1>1, <2>1 DEF MemoryConfig
  <2>3. CASE mem_time_read_change(v)
    BY <1>7, <2>2, <2>3 DEF mem_time_read_change
  <2>4. CASE mem_time_write_change(v)
    BY <1>7, <2>2, <2>4 DEF mem_time_write_change
  <2>5. CASE mem_time_burst_change(v)
    BY <1>7, <2>2, <2>5 DEF mem_time_burst_change
  <2>6. CASE mem_time_level2_change(v)
    BY <1>7, <2>2, <2>6 DEF mem_time_level2_change
  <2> QED
    BY <1>9, <2>3, <2>4, <2>5, <2>6
<1>10. ASSUME NEW bp, PredictorOK(bp)
       PROVE  /\ Edit([config EXCEPT !.bp = bp]) => EditStep
              /\ EditIfNew([config EXCEPT !.bp = bp]) => EditStep
  <2>1. ConfigOK([config EXCEPT !.bp = bp])
    BY <1>10, PredictorReplaced
  <2> QED
    BY <1>2, <2>1, EditLeavesPreset
<1>11. ASSUME NEW v \in BOOLEAN, bp_enabled_change(v)
       PROVE  EditStep
  <2> DEFINE bp == [config.bp EXCEPT !.en = v]
  <2>1. PredictorOK(bp)
    BY <1>1 DEF PredictorOK, PredictorConfig
  <2>2. EditIfNew([config EXCEPT !.bp = bp])
    BY <1>11 DEF bp_enabled_change
  <2> HIDE DEF bp
  <2> QED
    BY <1>10, <2>1, <2>2
<1>12. ASSUME NEW t \in PredictorTypes, bp_type_change(t)
       PROVE  EditStep
  BY <1>12, TypeChanged, EditLeavesPreset DEF bp_type_change
<1>13. ASSUME NEW st \in InitStates(config.bp.type), bp_init_state_change(st)
       PROVE  EditStep
  <2> DEFINE bp == [config.bp EXCEPT !.init = st]
  <2>1. st \in PredictorStates
    BY DEF InitStates, PredictorStates
  <2>2. PredictorOK(bp)
    BY <1>1, <2>1 DEF PredictorOK, PredictorConfig
  <2>3. EditIfNew([config EXCEPT !.bp = bp])
    BY <1>13 DEF bp_init_state_change
  <2> HIDE DEF bp
  <2> QED
    BY <1>10, <2>2, <2>3
<1>14. ASSUME NEW v \in BitEdits, bp_btb_addr_bits_change(v) \/ bp_bht_bhr_bits_change(v)
                                  \/ bp_bht_addr_bits_change(v)
       PROVE  EditStep
  <2>1. v \in Nat
    BY DialogAssumption
  <2>2. /\ PredictorOK(set_bp_btb_bits(config.bp, v)) /\ PredictorOK(set_bp_bhr_bits(config.bp, v))
        /\ PredictorOK(set_bp_bht_addr_bits(config.bp, v))
    BY <1>1, <2>1, PredictorEdits
  <2> QED
    BY <1>10, <1>14, <2>2 DEF bp_btb_addr_bits_change, bp_bht_bhr_bits_change, bp_bht_addr_bits_change
<1>15. ASSUME NEW t \in TlbEdits, itlb_changed(t) \/ dtlb_changed(t)
       PROVE  EditStep
  <2> DEFINE i == [config.itlb EXCEPT !.sets = AtLeastOne(t.sets), !.assoc = AtLeastOne(t.assoc),
                                      !.replac = t.replac]
             d == [config.dtlb EXCEPT !.sets = AtLeastOne(t.sets), !.assoc = AtLeastOne(t.assoc),
                                      !.replac = t.replac]
  <2>1. i \in TlbConfig /\ d \in TlbConfig
    BY <1>1, TlbEntered
  <2>2. CASE itlb_changed(t)
    <3>1. EditIfNew([config EXCEPT !.itlb = i])
      BY <1>1, <2>2 DEF itlb_changed, Config
    <3> HIDE DEF i
    <3> QED
      BY <1>2, <2>1, <3>1, PartReplaced
  <2>3. CASE dtlb_changed(t)
    <3>1. EditIfNew([config EXCEPT !.dtlb = d])
      BY <1>1, <2>3 DEF dtlb_changed, Config
    <3> HIDE DEF d
    <3> QED
      BY <1>2, <2>1, <3>1, PartReplaced
  <2> QED
    BY <1>15, <2>2, <2>3
<1>16. ASSUME NEW which \in {"program", "data", "level2"}, NEW e \in CacheEdits,
              NEW f \in DOMAIN CacheDefault, f \in DOMAIN e, cache_changed(which, f, e[f])
       PROVE  EditStep
  <2>1. /\ Entered(config.program, f, e[f]) \in CacheConfig /\ Entered(config.data, f, e[f]) \in CacheConfig
        /\ Entered(config.level2, f, e[f]) \in CacheConfig
    BY <1>1, <1>16, CacheEntered
  <2>2. CASE which = "program"
    <3>1. Edit([config EXCEPT !.program = Entered(config.program, f, e[f])])
      BY <1>16, <2>2 DEF cache_changed
    <3> QED
      BY <2>1, <3>1, PartReplaced, EditLeavesPreset
  <2>3. CASE which = "data"
    <3>1. Edit([config EXCEPT !.data = Entered(config.data, f, e[f])])
      BY <1>16, <2>3 DEF cache_changed
    <3> QED
      BY <2>1, <3>1, PartReplaced, EditLeavesPreset
  <2>4. CASE which = "level2"
    <3>1. Edit([config EXCEPT !.level2 = Entered(config.level2, f, e[f])])
      BY <1>16, <2>4 DEF cache_changed
    <3> QED
      BY <2>1, <3>1, PartReplaced, EditLeavesPreset
  <2> QED
    BY <2>2, <2>3, <2>4
<1>17. ASSUME NEW on \in BOOLEAN, NEW stall \in BOOLEAN, hazard_unit_change(on, stall)
       PROVE  EditStep
  <2> DEFINE h == IF ~on THEN "NONE" ELSE IF stall THEN "STALL" ELSE "STALL_FORWARD"
             c == [config EXCEPT !.hunit = h]
  <2>1. h \in HazardUnits
    BY DEF HazardUnits
  <2>2. ConfigOK(c)
    BY <2>1, PartReplaced
  <2>3. bp_init(c) = c
    BY <2>2, BpInitKeeps DEF ConfigOK
  <2>4. /\ chosen' = "CUSTOM" /\ ~fresh' /\ UNCHANGED <<settings, given>>
        /\ config' = IF chosen = "CUSTOM" THEN c ELSE bp_init(c)
    BY <1>17 DEF hazard_unit_change, Keep
  <2> HIDE DEF c
  <2> QED
    BY <2>2, <2>3, <2>4 DEF EditStep
<1>18. ASSUME NEW f \in DOMAIN OsDefault, NEW v, osemu_change(f, v),
              (f # "fs_root" /\ v \in BOOLEAN) \/ (f = "fs_root" /\ v \in FsRoots)
       PROVE  EditStep
  <2> DEFINE o == [config.os EXCEPT ![f] = v]
  <2>1. f \in {"enable", "known_stop", "unknown_stop", "interrupt_stop", "exception_stop", "fs_root"}
    BY DEF OsDefault
  <2>2. o \in OsConfig
    BY <1>1, <1>18, <2>1 DEF OsConfig
  <2>3. Plain([config EXCEPT !.os = o])
    BY <1>18 DEF osemu_change
  <2> HIDE DEF o
  <2> QED
    BY <2>2, <2>3, PlainKeepsPreset
<1>19. ASSUME NEW v \in BOOLEAN, reset_at_compile_change(v)
       PROVE  EditStep
  BY <1>19, PlainKeepsPreset DEF reset_at_compile_change
<1>20. ASSUME NEW path \in ElfFiles, elf_change(path)
       PROVE  EditStep
  BY <1>20, PlainKeepsPreset DEF elf_change
<1>21. "fs_root" \in DOMAIN OsDefault
  BY DEF OsDefault
<1> QED
  BY <1>3, <1>4, <1>5, <1>6, <1>8, <1>9, <1>11, <1>12, <1>13, <1>14, <1>15, <1>16, <1>17, <1>18,
     <1>19, <1>20, <1>21 DEF Edits

(***************************************************************************)
(* The invariant of the dialog and its settings                            *)
(***************************************************************************)
\* At the start the dialog shows the first preset.
LEMMA DialogInitOK ==
    ASSUME DialogInit, frontend = "gui"
    PROVE  SettingsKept /\ PresetHolds /\ SettingsRoundTrip
<1>1. ConfigOK(Default) /\ load(Default) = Default /\ Default \in Config
  BY DefaultsOK, LoadKeeps DEF ConfigOK
<1>2. "SINGLE" \in Presets
  BY DEF Presets
<1> DEFINE d == preset(Default, "SINGLE")
<1>3. ConfigOK(d) /\ bp_init(d) = d /\ Same(d, preset(d, "SINGLE"))
  BY <1>1, <1>2, PresetTwice
<1>4. /\ settings = [config |-> Default, preset |-> "SINGLE"] /\ chosen = "SINGLE"
      /\ config = d /\ given = d
  BY <1>1 DEF DialogInit
<1>5. settings.config = Default /\ settings.preset = "SINGLE" /\ Restored = d
  BY <1>1, <1>3, <1>4 DEF Restored, Loaded
<1> HIDE DEF d
<1> QED
  BY <1>1, <1>2, <1>3, <1>4, <1>5 DEF SettingsKept, PresetHolds, SettingsRoundTrip, Same

\* Edits keep a preset's configuration or leave the preset.
LEMMA EditKeeps ==
    ASSUME SettingsKept, PresetHolds, SettingsRoundTrip, frontend = "gui", Edits
    PROVE  SettingsKept' /\ PresetHolds' /\ SettingsRoundTrip'
<1>1. ConfigOK(config) /\ EditStep
  BY EditsStep DEF SettingsKept
<1>2. settings' = settings /\ given' = given /\ ConfigOK(config') /\ config \in Config /\ config' \in Config
  BY <1>1 DEF EditStep, ConfigOK
<1>3. chosen' \in Presets \cup {"CUSTOM"}
  BY <1>1 DEF EditStep, SettingsKept
<1>4. SettingsKept'
  BY <1>2, <1>3 DEF SettingsKept, Restored
<1>5. SettingsRoundTrip'
  BY <1>1, <1>2 DEF EditStep, SettingsRoundTrip
<1>6. PresetHolds'
  <2>1. CASE chosen' = "CUSTOM"
    BY <2>1 DEF PresetHolds
  <2>2. ASSUME NEW c \in Config, chosen' \in Presets, config' = preset(c, chosen')
        PROVE  PresetHolds'
    BY <2>2, PresetTwice DEF PresetHolds
  <2>3. ASSUME /\ chosen' # "CUSTOM" /\ chosen' = chosen
               /\ config'.pipeline = config.pipeline /\ config'.delayslot = config.delayslot
               /\ config'.hunit = config.hunit /\ config'.mem = config.mem /\ config'.bp = config.bp
               /\ config'.program = config.program /\ config'.data = config.data
               /\ config'.level2 = config.level2 /\ config'.vm = config.vm /\ config'.itlb = config.itlb
               /\ config'.dtlb = config.dtlb /\ config'.xlen = config.xlen /\ config'.isa = config.isa
        PROVE  PresetHolds'
    <3> DEFINE p == chosen
               d == preset(config, p)
               e == preset(config', p)
    <3>1. p \in Presets /\ p # "CUSTOM" /\ Same(config, d)
      BY <1>3, <2>3 DEF PresetHolds
    <3>2. PresetOf(config, p, d)
      BY <1>2, <3>1, PresetFields
    <3>3. PresetOf(config', p, e)
      BY <1>2, <3>1, PresetFields
    <3>4. d \in Config /\ e \in Config
      BY <3>2, <3>3 DEF PresetOf
    <3> HIDE DEF d, e
    <3>5. SameParts(config, d)
      BY <1>2, <3>1, <3>4, SameByParts
    <3>6. delay_slot(config') = delay_slot(config) /\ hazard_unit(config') = hazard_unit(config)
      BY <2>3 DEF delay_slot, hazard_unit
    <3>7. delay_slot(e) = delay_slot(d) /\ hazard_unit(e) = hazard_unit(d)
      BY <2>3, <3>2, <3>3 DEF PresetOf, delay_slot, hazard_unit
    <3>8. SameParts(config', e)
      <4>1. /\ e.pipeline = d.pipeline /\ e.xlen = d.xlen /\ e.isa = d.isa /\ e.mem = d.mem /\ e.bp = d.bp
            /\ e.vm = d.vm /\ e.itlb = d.itlb /\ e.dtlb = d.dtlb
        BY <3>2, <3>3 DEF PresetOf
      <4>2. e.program = d.program /\ e.data = d.data /\ e.level2 = d.level2
        BY <2>3, <3>2, <3>3 DEF PresetOf
      <4>3. /\ e.os = config'.os /\ e.reset_at_compile = config'.reset_at_compile
            /\ e.elf = config'.elf
        BY <3>3 DEF PresetOf
      <4> QED
        BY <2>3, <3>5, <3>6, <3>7, <4>1, <4>2, <4>3 DEF SameParts
    <3>9. Same(config', e)
      BY <1>2, <3>4, <3>8, SameByParts
    <3> QED
      BY <2>3, <3>9 DEF PresetHolds, e
  <2> QED
    BY <1>1, <2>1, <2>2, <2>3 DEF EditStep
<1> QED
  BY <1>4, <1>5, <1>6

\* Settings that are loaded bring back a preset as it is defined.
LEMMA LoadedPreset ==
    ASSUME NEW st, ConfigOK(st.config), st.preset \in Presets, NEW r, r = bp_init(Loaded(st))
    PROVE  Same(r, preset(r, st.preset))
<1>1. load(st.config) = st.config /\ st.config \in Config
  BY LoadKeeps DEF ConfigOK
<1>2. st.preset # "CUSTOM"
  BY DEF Presets
<1>3. Loaded(st) = preset(st.config, st.preset)
  BY <1>1, <1>2 DEF Loaded
<1> QED
  BY <1>1, <1>3, PresetTwice

\* Whatever the settings hold is well formed once loaded.
LEMMA LoadedOK ==
    ASSUME NEW st, ConfigOK(st.config), st.preset \in Presets \cup {"CUSTOM"}
    PROVE  ConfigOK(bp_init(Loaded(st)))
<1>1. load(st.config) = st.config /\ st.config \in Config
  BY LoadKeeps DEF ConfigOK
<1>2. CASE st.preset = "CUSTOM"
  <2>1. Loaded(st) = st.config
    BY <1>1, <1>2 DEF Loaded
  <2> QED
    BY <2>1, BpInitKeeps DEF ConfigOK
<1>3. CASE st.preset # "CUSTOM"
  <2>1. Loaded(st) = preset(st.config, st.preset) /\ st.preset \in Presets
    BY <1>1, <1>3 DEF Loaded
  <2> QED
    BY <1>1, <2>1, PresetTwice
<1> QED
  BY <1>2, <1>3

\* Closing the dialog without a machine goes back to the last one.
LEMMA CloseKeeps ==
    ASSUME SettingsKept, frontend = "gui", DialogClose
    PROVE  SettingsKept' /\ PresetHolds' /\ SettingsRoundTrip'
<1>1. /\ settings' = settings /\ given' = given /\ chosen' = settings.preset
      /\ config' = bp_init(Loaded(settings))
  BY DEF DialogClose, load_settings, config_gui, Keep
<1>2. /\ ConfigOK(given) /\ ConfigOK(settings.config) /\ settings.preset \in Presets \cup {"CUSTOM"}
      /\ Same(bp_init(Loaded(settings)), given)
  BY DEF SettingsKept, Restored
<1>3. ConfigOK(config')
  BY <1>1, <1>2, LoadedOK
<1>4. SettingsKept' /\ SettingsRoundTrip'
  BY <1>1, <1>2, <1>3 DEF SettingsKept, Restored, SettingsRoundTrip
<1>5. PresetHolds'
  BY <1>1, <1>2, LoadedPreset DEF PresetHolds
<1> QED
  BY <1>4, <1>5

\* Making a machine stores its configuration, and the dialog that closes loads
\* it again.
LEMMA StoreAndCloseKeeps ==
    ASSUME SettingsKept, PresetHolds, frontend = "gui", StoreAndClose
    PROVE  SettingsKept' /\ PresetHolds' /\ SettingsRoundTrip'
<1> DEFINE st == [config |-> store(config), preset |-> chosen]
           r == Loaded(st)
<1>1. /\ settings' = st /\ given' = config /\ chosen' = st.preset /\ config' = bp_init(r)
  BY DEF StoreAndClose, load_settings, config_gui
<1>2. ConfigOK(config) /\ chosen \in Presets \cup {"CUSTOM"}
  BY DEF SettingsKept
<1>3. chosen # "CUSTOM" => Same(config, preset(config, chosen))
  BY DEF PresetHolds
<1>4. ConfigOK(r) /\ bp_init(r) = r /\ Same(r, config)
  BY <1>2, <1>3, RoundTrip
<1>5. st.config = store(config) /\ st.preset = chosen /\ ConfigOK(store(config))
  BY <1>2, StoreKeeps
<1> HIDE DEF st, r
<1>6. SettingsKept' /\ SettingsRoundTrip'
  BY <1>1, <1>2, <1>4, <1>5 DEF SettingsKept, Restored, SettingsRoundTrip, r
<1>7. PresetHolds'
  BY <1>1, <1>2, <1>5, LoadedPreset DEF PresetHolds, r
<1> QED
  BY <1>6, <1>7

(***************************************************************************)
(* The invariant of the machine and of the menu                            *)
(***************************************************************************)
\* The statuses of a session and its clock.
Controlled == ControlType /\ ClockRuns /\ ActionsMatchStatus

\* A core step leaves the clock running exactly if the status says so.
LEMMA StepInternal ==
    ASSUME NEW prev \in {"READY", "RUNNING"}, NEW running \in BOOLEAN, running <=> prev = "RUNNING",
           NEW n, NEW event \in Events, step_internal(prev, running, n, event)
    PROVE  ControlType' /\ ClockRuns' /\ (event # "none" => ~clock')
  BY DEF step_internal, Control, StatusAfter, ControlType, ClockRuns, Events

\* So do the control methods.
LEMMA ControlStep ==
    ASSUME ControlType, ClockRuns,
           \/ \E event \in Events : play(event) \/ step(event) \/ \E n : step_timer(n, event)
           \/ pause \/ restart \/ (\E sp : set_speed(sp)) \/ New
           \/ UNCHANGED controlVars
    PROVE  ControlType' /\ ClockRuns'
<1>1. ASSUME NEW event \in Events, play(event)
      PROVE  ControlType' /\ ClockRuns'
  BY <1>1, StepInternal DEF play
<1>2. ASSUME NEW event \in Events, step(event)
      PROVE  ControlType' /\ ClockRuns'
  <2>1. stat \in {"READY", "RUNNING"} /\ clock \in BOOLEAN /\ (clock <=> stat = "RUNNING")
    BY <1>2 DEF step, CTL_GUARD, exited, ControlType, ClockRuns
  <2> QED
    BY <1>2, <2>1, StepInternal DEF step
<1>3. ASSUME NEW event \in Events, NEW n, step_timer(n, event)
      PROVE  ControlType' /\ ClockRuns'
  <2>1. stat \in {"READY", "RUNNING"} /\ clock \in BOOLEAN /\ (clock <=> stat = "RUNNING")
    BY <1>3 DEF step_timer, CTL_GUARD, exited, ControlType, ClockRuns
  <2> QED
    BY <1>3, <2>1, StepInternal DEF step_timer
<1>4. CASE pause
  BY <1>4 DEF pause, Control, ControlType, ClockRuns
<1>5. CASE restart
  BY <1>5 DEF restart, Control, CTL_GUARD, exited, ControlType, ClockRuns
<1>6. ASSUME NEW sp, set_speed(sp)
      PROVE  ControlType' /\ ClockRuns'
  BY <1>6 DEF set_speed, ControlType, ClockRuns
<1>7. CASE New
  BY <1>7 DEF New, ControlType, ClockRuns
<1>8. CASE UNCHANGED controlVars
  BY <1>8 DEF controlVars, ControlType, ClockRuns
<1> QED
  BY <1>1, <1>2, <1>3, <1>4, <1>5, <1>6, <1>7, <1>8

\* A new machine is ready, and so is its menu; without one nothing changes.
LEMMA MadeOK ==
    ASSUME NEW n, NEW loaded, NEW img, Made(n, loaded, img)
    PROVE  Controlled'
  BY DEF Made, New, Ready, Controlled, ControlType, ClockRuns, ActionsMatchStatus

\* Nothing of the machine changes.
LEMMA NoMachineChangeOK ==
    ASSUME Controlled, NoMachineChange
    PROVE  Controlled'
  BY DEF NoMachineChange, controlVars, Controlled, ControlType, ClockRuns, ActionsMatchStatus

\* A reload replaces the machine or leaves it.
LEMMA ReloadOK ==
    ASSUME Controlled, NEW c, NEW reset_, NEW elf, NEW ok, machine_reload(c, reset_, elf, ok)
    PROVE  Controlled'
<1>1. NoMachineChange \/ \E n, loaded, img : Made(n, loaded, img)
  BY DEF machine_reload, create_core
<1> QED
  BY <1>1, MadeOK, NoMachineChangeOK

\* Everything the main window does.
LEMMA GuiControlled ==
    ASSUME Controlled, Gui
    PROVE  Controlled'
<1>1. ASSUME ControlType', ClockRuns', configured' = configured, NEW stepped, Signalled(stepped)
      PROVE  Controlled'
  BY <1>1 DEF Signalled, Controlled, ActionsMatchStatus
<1>2. ControlType /\ ClockRuns
  BY DEF Controlled
<1>3. ASSUME NEW e \in Events, Run(e)
      PROVE  Controlled'
  <2>1. play(e) /\ Signalled(TRUE) /\ configured' = configured
    BY <1>3 DEF Run, WindowKept
  <2> QED
    BY <1>1, <1>2, <2>1, ControlStep
<1>4. ASSUME NEW e \in Events, Step(e)
      PROVE  Controlled'
  <2>1. step(e) /\ Signalled(TRUE) /\ configured' = configured
    BY <1>4 DEF Step, WindowKept
  <2> QED
    BY <1>1, <1>2, <2>1, ControlStep
<1>5. ASSUME NEW e \in Events, NEW n, Timer(n, e)
      PROVE  Controlled'
  <2>1. step_timer(n, e) /\ Signalled(TRUE) /\ configured' = configured
    BY <1>5 DEF Timer, WindowKept
  <2> QED
    BY <1>1, <1>2, <2>1, ControlStep
<1>6. CASE Pause \/ Restart
  <2>1. (pause \/ restart) /\ Signalled(FALSE) /\ configured' = configured
    BY <1>6 DEF Pause, Restart, WindowKept
  <2> QED
    BY <1>1, <1>2, <2>1, ControlStep
<1>7. ASSUME NEW sp, SetSpeed(sp)
      PROVE  Controlled'
  BY <1>7 DEF SetSpeed, set_speed, windowVars, Controlled, ControlType, ClockRuns, ActionsMatchStatus
<1>8. CASE new_machine \/ build_execute_no_check \/ EditDialog \/ cancel
  BY <1>8, NoMachineChangeOK DEF new_machine, build_execute_no_check, EditDialog, cancel
<1>9. ASSUME NEW ok, Reload(ok)
      PROVE  Controlled'
  <2>1. NoMachineChange \/ machine_reload(given, FALSE, FALSE, ok)
    BY <1>9 DEF Reload
  <2> QED
    BY <2>1, NoMachineChangeOK, ReloadOK
<1>10. ASSUME NEW ok, compile_source(ok)
       PROVE  Controlled'
  <2>1. CASE Made(1, exe, "asm")
    BY <2>1, MadeOK
  <2>2. CASE UNCHANGED <<controlVars, configured, exe, actions, machines>>
    BY <2>2 DEF controlVars, Controlled, ControlType, ClockRuns, ActionsMatchStatus
  <2> QED
    BY <1>10, <2>1, <2>2 DEF compile_source
<1>11. ASSUME NEW success, NEW ok, build_finished(success, ok)
       PROVE  Controlled'
  <2>1. NoMachineChange \/ machine_reload(given, TRUE, TRUE, ok)
    BY <1>11 DEF build_finished
  <2> QED
    BY <2>1, NoMachineChangeOK, ReloadOK
<1>12. CASE create_empty \/ create_example
  <2>1. \E n, loaded, img : Made(n, loaded, img)
    BY <1>12 DEF create_empty, create_example, create_core
  <2> QED
    BY <2>1, MadeOK
<1>13. ASSUME NEW ok, create(ok)
       PROVE  Controlled'
  <2>1. NoMachineChange \/ \E n, loaded, img : Made(n, loaded, img)
    BY <1>13 DEF create, create_core
  <2> QED
    BY <2>1, MadeOK, NoMachineChangeOK
<1> QED
  BY <1>3, <1>4, <1>5, <1>6, <1>7, <1>8, <1>9, <1>10, <1>11, <1>12, <1>13 DEF Gui

\* The dialog's part of everything the main window does.
LEMMA GuiDialog ==
    ASSUME SettingsKept, PresetHolds, SettingsRoundTrip, Gui
    PROVE  SettingsKept' /\ PresetHolds' /\ SettingsRoundTrip'
<1>1. CASE UNCHANGED dialogVars
  <2>1. frontend' = frontend
    BY DEF Gui
  <2> QED
    BY <1>1, <2>1 DEF dialogVars, SettingsKept, Restored, PresetHolds, SettingsRoundTrip
<1>2. CASE EditDialog
  BY <1>2, EditKeeps DEF EditDialog, Window
<1>3. CASE cancel
  BY <1>3, CloseKeeps DEF cancel, Window
<1>4. CASE create_empty \/ create_example
  BY <1>4, StoreAndCloseKeeps DEF create_empty, create_example, Window
<1>5. ASSUME NEW ok \in BOOLEAN, create(ok)
      PROVE  SettingsKept' /\ PresetHolds' /\ SettingsRoundTrip'
  <2>1. frontend = "gui" /\ (StoreAndClose \/ UNCHANGED dialogVars)
    BY <1>5 DEF create, Window
  <2> QED
    BY <1>1, <2>1, StoreAndCloseKeeps
<1> QED
  BY <1>1, <1>2, <1>3, <1>4, <1>5 DEF Gui

(***************************************************************************)
(* The invariant of the command line                                       *)
(***************************************************************************)
\* An event at the tracer's limit stops the machine like any other stop.
LEMMA PausedEvent ==
    ASSUME NEW event \in Events, NEW n
    PROVE  /\ paused(StepEvent(event, n)) \in Events
           /\ paused(StepEvent(event, n)) = "none" <=> StepEvent(event, n) = "none"
  BY DEF paused, StepEvent, Events

\* Everything the command line program does.
LEMMA CliOK ==
    ASSUME ControlType, ClockRuns, CliStopped, ReportIsFinal, Cli
    PROVE  ControlType' /\ ClockRuns' /\ CliStopped' /\ ReportIsFinal'
<1>1. frontend = "cli" /\ frontend' = "cli"
  BY DEF Cli
<1>2. ASSUME UNCHANGED controlVars, stage # "loop", retcode' = <<>> \/ stage' = stage
      PROVE  ControlType' /\ ClockRuns' /\ CliStopped' /\ ReportIsFinal'
  <2>1. ~clock /\ clock' = clock /\ stat' = stat
    BY <1>1, <1>2 DEF CliStopped, controlVars
  <2> QED
    BY <1>1, <1>2, <2>1 DEF ControlType, ClockRuns, CliStopped, ReportIsFinal
<1>3. CASE ConfigureMachine(config)
  BY <1>2, <1>3 DEF ConfigureMachine, Running, proceed, exit
<1>4. ASSUME NEW st, st # "loop", NEW used, NEW ok, NEW code, Stage(st, used, ok, code)
      PROVE  ControlType' /\ ClockRuns' /\ CliStopped' /\ ReportIsFinal'
  BY <1>2, <1>4 DEF Stage, Running, proceed, exit
<1>5. ASSUME NEW ok, LoadElf(ok) \/ configure_tracer(ok) \/ configure_serial_port(ok)
                     \/ configure_osemu(config, ok) \/ assemble(ok) \/ configure_reporter(ok) \/ load_ranges(ok)
      PROVE  ControlType' /\ ClockRuns' /\ CliStopped' /\ ReportIsFinal'
  BY <1>4, <1>5 DEF LoadElf, configure_tracer, configure_serial_port, configure_osemu, assemble,
     configure_reporter, load_ranges
<1>6. ASSUME NEW event \in Events, NEW n, NEW known, Observe(event, n, known), stage' = "loop",
             retcode = <<>>, ControlType', ClockRuns', StepEvent(event, n) # "none" => ~clock'
      PROVE  ControlType' /\ ClockRuns' /\ CliStopped' /\ ReportIsFinal'
  BY <1>6 DEF Observe, report, CliStopped, ReportIsFinal
<1>7. ASSUME NEW event \in Events, NEW known, CliPlay(event, known)
      PROVE  ControlType' /\ ClockRuns' /\ CliStopped' /\ ReportIsFinal'
  <2> DEFINE ev == paused(StepEvent(event, 1))
  <2>1. ev \in Events /\ (ev = "none" <=> StepEvent(event, 1) = "none")
    BY PausedEvent
  <2>2. /\ step_internal("RUNNING", TRUE, 1, ev) /\ Observe(event, 1, known)
        /\ stage' = "loop" /\ retcode = <<>>
    BY <1>7 DEF CliPlay, play, Running
  <2> HIDE DEF ev
  <2>3. ControlType' /\ ClockRuns' /\ (ev # "none" => ~clock')
    BY <2>1, <2>2, StepInternal
  <2> QED
    BY <1>6, <2>1, <2>2, <2>3
<1>8. ASSUME NEW event \in Events, NEW n, NEW known, CliTimer(n, event, known)
      PROVE  ControlType' /\ ClockRuns' /\ CliStopped' /\ ReportIsFinal'
  <2> DEFINE ev == paused(StepEvent(event, n))
  <2>1. ev \in Events /\ (ev = "none" <=> StepEvent(event, n) = "none")
    BY PausedEvent
  <2>2. /\ step_timer(n, ev) /\ Observe(event, n, known) /\ stage' = "loop"
    BY <1>8 DEF CliTimer
  <2> HIDE DEF ev
  <2>3. clock /\ step_internal(stat, clock, n, ev)
    BY <2>2 DEF step_timer
  <2>4. stat = "RUNNING" /\ clock \in BOOLEAN
    BY <2>3 DEF ClockRuns, ControlType
  <2>5. ControlType' /\ ClockRuns' /\ (ev # "none" => ~clock')
    BY <2>1, <2>3, <2>4, StepInternal
  <2>6. retcode = <<>>
    BY <1>1, <2>3 DEF CliStopped
  <2> QED
    BY <1>6, <2>1, <2>2, <2>5, <2>6
<1>9. CASE OnlyDump
  <2>1. ~clock /\ clock' = clock /\ stat' = stat /\ reported' = cycles'
    BY <1>1, <1>9 DEF OnlyDump, Running, CliStopped, controlVars, report
  <2> QED
    BY <2>1 DEF ControlType, ClockRuns, CliStopped, ReportIsFinal
<1> QED
  BY <1>3, <1>5, <1>7, <1>8, <1>9 DEF Cli

(***************************************************************************)
(* The theorems                                                            *)
(***************************************************************************)
\* Both front ends start in order.
LEMMA InitInv == Init => IInv
<1> SUFFICES ASSUME Init PROVE IInv
  OBVIOUS
<1>1. /\ ControlType /\ ClockRuns /\ ActionsMatchStatus /\ CliStopped
  BY DEF Init, ControlType, ClockRuns, ActionsMatchStatus, CliStopped
<1>2. CASE frontend = "gui"
  <2>1. DialogInit /\ retcode = <<>>
    BY <1>2 DEF Init
  <2>2. SettingsKept /\ PresetHolds /\ SettingsRoundTrip
    BY <1>2, <2>1, DialogInitOK
  <2> QED
    BY <1>1, <1>2, <2>1, <2>2 DEF IInv, OneFrontend, ReportIsFinal
<1>3. CASE frontend = "cli"
  <2>1. NoDialog /\ retcode = <<>> /\ ~configured
    BY <1>3 DEF Init, CliInit
  <2> QED
    BY <1>1, <1>3, <2>1 DEF IInv, OneFrontend, ReportIsFinal, NoDialog, SettingsKept, PresetHolds,
       SettingsRoundTrip
<1> QED
  BY <1>2, <1>3 DEF Init

\* Every step keeps the invariant.
LEMMA NextInv == IInv /\ [Next]_vars => IInv'
<1> SUFFICES ASSUME IInv, [Next]_vars PROVE IInv'
  OBVIOUS
<1>1. CASE Gui
  <2>1. Controlled'
    BY <1>1, GuiControlled DEF IInv, Controlled
  <2>2. SettingsKept' /\ PresetHolds' /\ SettingsRoundTrip'
    BY <1>1, GuiDialog DEF IInv
  <2>3. frontend = "gui" /\ frontend' = "gui" /\ UNCHANGED cliVars
    BY <1>1 DEF Gui, Run, Step, Timer, Pause, Restart, new_machine, build_execute_no_check, SetSpeed,
       Reload, compile_source, build_finished, EditDialog, cancel, create_empty, create_example, create,
       MainWindow, Window
  <2>4. retcode' = <<>>
    BY <2>3 DEF IInv, OneFrontend, cliVars
  <2> QED
    BY <2>1, <2>2, <2>3, <2>4 DEF IInv, Controlled, OneFrontend, CliStopped, ReportIsFinal
<1>2. CASE Cli
  <2>1. ControlType' /\ ClockRuns' /\ CliStopped' /\ ReportIsFinal'
    BY <1>2, CliOK DEF IInv
  <2>2. /\ frontend = "cli" /\ UNCHANGED <<chosen, settings, fresh, given, windowVars, frontend>>
    BY <1>2 DEF Cli
  <2> QED
    BY <2>1, <2>2 DEF IInv, OneFrontend, windowVars, ActionsMatchStatus, SettingsKept, PresetHolds,
       SettingsRoundTrip
<1>3. CASE UNCHANGED vars
  BY <1>3 DEF vars, controlVars, dialogVars, cliVars, windowVars, IInv, ControlType, OneFrontend,
     ClockRuns, ActionsMatchStatus, CliStopped, ReportIsFinal, SettingsKept, Restored, PresetHolds,
     SettingsRoundTrip
<1> QED
  BY <1>1, <1>2, <1>3 DEF Next

\* The inductive invariant holds in every state of every session.
THEOREM SessionInvariant == Spec => []IInv
  BY InitInv, NextInv, PTL DEF Spec

\* However runs, stops from inside a step, traps, restarts and replaced machines
\* follow each other, the clock ticks exactly while the status is running.
THEOREM ClockRunsTheorem == Spec => []ClockRuns
<1>1. IInv => ClockRuns
  BY DEF IInv
<1> QED
  BY <1>1, SessionInvariant, PTL

\* The menu offers exactly what the machine of the moment would do.
THEOREM ActionsMatchStatusTheorem == Spec => []ActionsMatchStatus
<1>1. IInv => ActionsMatchStatus
  BY DEF IInv
<1> QED
  BY <1>1, SessionInvariant, PTL

\* A selected preset is what is configured, for any values edited before it was
\* selected or loaded.
THEOREM PresetHoldsTheorem == Spec => []PresetHolds
<1>1. IInv => PresetHolds
  BY DEF IInv
<1> QED
  BY <1>1, SessionInvariant, PTL

\* The settings bring back the machine they were stored for, presets and custom
\* configurations alike, for all values the widgets can hold.
THEOREM SettingsRoundTripTheorem == Spec => []SettingsRoundTrip
<1>1. IInv => SettingsRoundTrip
  BY DEF IInv
<1> QED
  BY <1>1, SessionInvariant, PTL

\* For every command line no cycle runs after the report of the exit.
THEOREM ReportIsFinalTheorem == Spec => []ReportIsFinal
<1>1. IInv => ReportIsFinal
  BY DEF IInv
<1> QED
  BY <1>1, SessionInvariant, PTL
=============================================================================
