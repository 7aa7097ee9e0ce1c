----------------------------- MODULE NewDialog -----------------------------
(***************************************************************************)
(* The dialog that configures a new machine (gui/dialogs/new).  Each       *)
(* widget's handler is an action; one that moves away from a preset        *)
(* selects "Custom" and refreshes all widgets.  Of the widgets only the    *)
(* hazard unit's box is state of its own: it may differ from the           *)
(* configuration it stands for.                                            *)
(***************************************************************************)
EXTENDS MachineConfig

CONSTANTS
    CacheEdits,      \* what the user enters in a cache's tab: records of its fields
    TlbEdits,        \* and in a TLB's
    TimeEdits, BitEdits, PredictorTypes, FsRoots

\* What the widgets can hold: spin boxes numbers, combo boxes names.
ASSUME DialogAssumption ==
    /\ TimeEdits \subseteq Nat /\ BitEdits \subseteq Nat
    /\ TlbEdits \subseteq [sets : Nat, assoc : Nat, replac : ReplacementPolicies]
    /\ \A e \in CacheEdits :
        /\ "en" \in DOMAIN e => e["en"] \in BOOLEAN
        /\ \A f \in {"sets", "blocks", "assoc"} : f \in DOMAIN e => e[f] \in Nat
        /\ "replac" \in DOMAIN e => e["replac"] \in ReplacementPolicies
        /\ "write" \in DOMAIN e => e["write"] \in WritePolicies

VARIABLES
    config,
    chosen,          \* a preset, or "CUSTOM"
    hazard_box,      \* [on, stall]: the group's check mark, and the "stall" button
    settings,        \* [config, preset] as last stored
    fresh,           \* nothing was edited since the settings were loaded
    given            \* the configuration the last machine was made from

dialogVars == <<config, chosen, hazard_box, settings, fresh, given>>

\* The initial state a predictor type falls back to.
DefaultInit(type) == IF type = "SMITH_1_BIT" THEN "NOT_TAKEN" ELSE "WEAKLY_NOT_TAKEN"

\* bp_type_change keeps an initial state the type has.
bp_init(c) ==
    IF InitStates(c.bp.type) # {} /\ c.bp.init \notin InitStates(c.bp.type)
    THEN [c EXCEPT !.bp.init = DefaultInit(c.bp.type)] ELSE c

\* The checked button of the pair cannot be unchecked, only the other one checked.
hazard_widgets(c, box) ==
    [on |-> hazard_unit(c) # "NONE",
     stall |-> IF hazard_unit(c) = "NONE" THEN box.stall ELSE hazard_unit(c) = "STALL"]

config_gui(c) ==
    /\ config' = bp_init(c)
    /\ hazard_box' = hazard_widgets(c, hazard_box)

Keep == UNCHANGED <<settings, given>>

\* Mutant: edits leave the preset selected.
switch_to_custom_Stay(c) == config' = c /\ UNCHANGED <<chosen, hazard_box>>

switch_to_custom(c) ==
    /\ chosen' = "CUSTOM"
    /\ IF chosen = "CUSTOM" THEN config' = c /\ UNCHANGED hazard_box ELSE config_gui(c)

Edit(c) == switch_to_custom(c) /\ fresh' = FALSE /\ Keep

\* Handlers that compare first do nothing for a value that is set already.
EditIfNew(c) == c # config /\ Edit(c)

\* Options that no preset sets do not leave the preset.
Plain(c) == config' = c /\ fresh' = FALSE /\ Keep /\ UNCHANGED <<chosen, hazard_box>>

set_preset(p) ==
    /\ chosen # p
    /\ chosen' = p
    /\ config_gui(preset(config, p))
    /\ fresh' = FALSE
    /\ Keep

\* The "Custom" button keeps the configuration.
preset_custom ==
    chosen' = "CUSTOM" /\ UNCHANGED <<config, hazard_box, fresh>> /\ Keep

xlen_64bit_change(v) == Edit([config EXCEPT !.xlen = IF v THEN 64 ELSE 32])
isa_atomic_change(v) == Edit(modify_isa_word(config, {"A"}, v))
isa_multiply_change(v) == Edit(modify_isa_word(config, {"M"}, v))
pipelined_change(v) == Edit([config EXCEPT !.pipeline = v])

\* The group is enabled with the pipeline only.
hazard_unit_change(on, stall) ==
    /\ config.pipeline
    /\ LET c == [config EXCEPT !.hunit = IF ~on THEN "NONE" ELSE IF stall THEN "STALL" ELSE "STALL_FORWARD"]
       IN  /\ chosen' = "CUSTOM"
           /\ config' = (IF chosen = "CUSTOM" THEN c ELSE bp_init(c))
           /\ hazard_box' = IF chosen = "CUSTOM" THEN [on |-> on, stall |-> stall]
                            ELSE hazard_widgets(c, [on |-> on, stall |-> stall])
    /\ fresh' = FALSE
    /\ Keep

mem_time_read_change(v) == access_times(config.mem).read # v /\ Edit([config EXCEPT !.mem.read = v])
mem_time_write_change(v) == access_times(config.mem).write # v /\ Edit([config EXCEPT !.mem.write = v])
mem_time_burst_change(v) == EditIfNew([config EXCEPT !.mem.burst = v])
mem_time_level2_change(v) == EditIfNew([config EXCEPT !.mem.level2 = v])
mem_enable_burst_change(v) == EditIfNew([config EXCEPT !.mem.enable_burst = v])

bp_enabled_change(v) == EditIfNew([config EXCEPT !.bp.en = v])
bp_type_change(t) == config.bp.type # t /\ Edit(bp_init([config EXCEPT !.bp.type = t]))
bp_init_state_change(s) ==
    s \in InitStates(config.bp.type) /\ EditIfNew([config EXCEPT !.bp.init = s])
bp_btb_addr_bits_change(v) == config.bp.btb # v /\ Edit([config EXCEPT !.bp = set_bp_btb_bits(@, v)])
bp_bht_bhr_bits_change(v) == config.bp.bhr # v /\ Edit([config EXCEPT !.bp = set_bp_bhr_bits(@, v)])
bp_bht_addr_bits_change(v) == config.bp.addr # v /\ Edit([config EXCEPT !.bp = set_bp_bht_addr_bits(@, v)])

vm_enabled_change(v) == EditIfNew([config EXCEPT !.vm = v])
itlb_changed(t) == EditIfNew([config EXCEPT !.itlb.sets = AtLeastOne(t.sets), !.itlb.assoc = AtLeastOne(t.assoc),
                                            !.itlb.replac = t.replac])
dtlb_changed(t) == EditIfNew([config EXCEPT !.dtlb.sets = AtLeastOne(t.sets), !.dtlb.assoc = AtLeastOne(t.assoc),
                                            !.dtlb.replac = t.replac])

\* One field of one of the three cache tabs.
Entered(cache, f, v) ==
    [cache EXCEPT ![f] = IF f \in {"sets", "blocks", "assoc"} THEN AtLeastOne(v) ELSE v]
cache_changed(which, f, v) == Edit([config EXCEPT ![which] = Entered(@, f, v)])

osemu_change(f, v) == Plain([config EXCEPT !.os[f] = v])
reset_at_compile_change(v) == Plain([config EXCEPT !.reset_at_compile = v])
elf_change(path) == Plain([config EXCEPT !.elf = path])

Edits ==
    \/ preset_custom
    \/ \E p \in Presets : set_preset(p)
    \/ \E v \in BOOLEAN : \/ xlen_64bit_change(v) \/ isa_atomic_change(v) \/ isa_multiply_change(v)
                          \/ pipelined_change(v) \/ mem_enable_burst_change(v) \/ bp_enabled_change(v)
                          \/ vm_enabled_change(v) \/ reset_at_compile_change(v)
    \/ \E on, stall \in BOOLEAN : hazard_unit_change(on, stall)
    \/ \E v \in TimeEdits : \/ mem_time_read_change(v) \/ mem_time_write_change(v)
                            \/ mem_time_burst_change(v) \/ mem_time_level2_change(v)
    \/ \E t \in PredictorTypes : bp_type_change(t)
    \/ \E s \in InitStates(config.bp.type) : bp_init_state_change(s)
    \/ \E v \in BitEdits : \/ bp_btb_addr_bits_change(v) \/ bp_bht_bhr_bits_change(v)
                           \/ bp_bht_addr_bits_change(v)
    \/ \E t \in TlbEdits : itlb_changed(t) \/ dtlb_changed(t)
    \/ \E which \in {"program", "data", "level2"}, e \in CacheEdits, f \in DOMAIN CacheDefault :
          f \in DOMAIN e /\ cache_changed(which, f, e[f])
    \/ \E f \in DOMAIN OsDefault, v \in BOOLEAN : f # "fs_root" /\ osemu_change(f, v)
    \/ \E root \in FsRoots : osemu_change("fs_root", root)
    \/ \E path \in ElfFiles : elf_change(path)

\* Preset settings are made anew; the others come from the file.
Loaded(s) == IF s.preset = "CUSTOM" THEN load(s.config) ELSE preset(load(s.config), s.preset)

load_settings(s) ==
    /\ chosen' = s.preset
    /\ config_gui(Loaded(s))
    /\ fresh' = TRUE

\* Closing without a machine drops the edits.
DialogClose == load_settings(settings) /\ Keep

\* create_core has succeeded: the settings are stored, the dialog closes.
StoreAndClose ==
    LET s == [config |-> store(config), preset |-> chosen]
    IN  settings' = s /\ given' = config /\ load_settings(s)

DialogInit ==
    /\ settings = [config |-> Default, preset |-> "SINGLE"]
    /\ config = preset(load(Default), "SINGLE")
    /\ chosen = "SINGLE"
    /\ hazard_box = [on |-> FALSE, stall |-> TRUE]
    /\ fresh = TRUE
    /\ given = config

\* The command line starts from the default configuration and has no dialog.
NoDialog ==
    /\ settings = [config |-> Default, preset |-> "CUSTOM"]
    /\ config = Default
    /\ chosen = "CUSTOM"
    /\ hazard_box = [on |-> FALSE, stall |-> TRUE]
    /\ fresh = FALSE
    /\ given = config

(***************************************************************************)
(* Properties                                                              *)
(***************************************************************************)
\* While a preset is selected the configuration is that preset, whatever was
\* edited, stored and loaded before.
PresetHolds == chosen # "CUSTOM" => Same(config, preset(config, chosen))

\* The settings bring back the machine they were stored for: after a load the
\* dialog shows the configuration of the last machine made from it.
SettingsRoundTrip == fresh => Same(config, given)
=============================================================================
