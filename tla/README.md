# QtRvSim in TLA+

QtRvSim simulates a RISC-V computer for teaching: a core (single-cycle or
pipelined), caches, virtual memory, peripherals and a small operating system
layer, with a graphical and a command line front end.  This directory holds TLA+
models of its logic, TLC configurations that check them on small instances, and
TLAPS proofs of what holds for every instance.  Source paths below are relative
to `src/machine/` of the repository unless they say otherwise.

All simulated logic runs in one thread, driven by the events of Qt.  What makes it
hard is the parallelism of the *machine it simulates* (four instructions in flight
whose effects must look sequential, several copies of each byte of memory that must
look like one, state that survives restarts and privilege changes) and the order in
which events reach it: the host's clock, typed characters, builds that finish,
windows that poll.

## 1. Inventory

| component | source | state | operations | what makes it correct |
|---|---|---|---|---|
| Cache | `memory/cache/cache.cpp` | lines `dt[way][row]`, counters | `read`, `write`, internal read, `flush`/`sync`, `reset`, `kick` | invisible to the requester; no write lost; memory complete after a flush |
| Replacement policies | `memory/cache/cache_policy.cpp` | per row: queue (LRU), counts (LFU), pointer tree (PLRU), last way (NMRU) | `update_stats`, `select_way_to_evict` | invalid ways first; the victim the policy's name promises |
| Core stages | `core.cpp`, `pipeline.h` | registers, pc, current privilege, `LoadReservedRange` | `fetch`, `decode`, `execute`, `memory`, `writeback`, `handle_exception` | meaning of each instruction; precise exceptions |
| Single-cycle core | `core.cpp` `CoreSingle` | none of its own | `do_step` | reference for the pipelined core |
| Pipelined core | `core.cpp` `CorePipelined` | four interstage registers, `pc_if.stop_if` | `do_step`, hazards, flushes, stalls | same results as the single-cycle core; no stall for ever |
| Control and status registers | `csr/controlstate.cpp` | the CSRs and their views | `read`, `write`, `exception_initiate`, `exception_return`, `core_interrupt_request` | privilege checks, the mstatus stack, which interrupt is taken |
| TLB | `memory/tlb/tlb.cpp`, `tlb_policy.cpp` | entries, policy | translation, flushes, `sfence_vma`, A/D bits | a hit equals what a walk would give; no stale permission |
| Page table walker | `memory/virtual/page_table_walker.cpp` | none | `walk` | Sv32 and Sv39 walks, superpages, faults |
| Branch predictor | `predictor.cpp` | BTB, BHR, BHT, statistics | `predict_next_pc_address`, `update` | indices in range; counters saturate; no influence on results |
| Machine control | `machine.cpp` | status, run timer, cycles | `play`, `pause`, `step`, `restart` | the clock runs exactly while the machine does |
| Memory bus, main memory | `memory/memory_bus.cpp`, `memory/backend/memory.cpp` | ranges of devices, tree of sections | `insert_device`, `read`, `write` | ranges disjoint; a byte has one owner |
| Serial port, ACLINT | `memory/backend/serialport.cpp`, `aclint*.cpp` | registers, pending interrupts | register accesses, timer events, characters | no interrupt lost; the level follows the registers |
| LCD, SPI LEDs and knobs | `memory/backend/lcddisplay.cpp`, `peripspiled.cpp` | pixels, registers | register accesses, knobs | the windows show what the program reads back |
| OS emulation | `../os_emulation/ossyscall.cpp` | file descriptors, `brk` | system calls | each host descriptor has one owner; partial transfers are reported |
| Assembler | `../assembler/` | symbols, pending relocations | assemble a line, `finish` | expressions and relocations evaluate to what the text says |
| Instruction tables | `instruction.cpp`, `bitfield.h` | none | encode, decode, parse, print | a printed instruction reads back as the same word |
| Loader, symbol table | `programloader.cpp`, `symboltable.cpp` | two maps of symbols | load, set, remove | the maps agree |
| Configuration | `machineconfig.cpp`, `../gui/dialogs/new/` | the fields of a machine | presets, store, load, one handler per widget | a selected preset is what is configured; settings bring the machine back |
| Command line | `../cli/` | options, reporter, tracer | `main`'s stages, report | every exit reports the final state |
| Main window | `../gui/mainwindow/` | the machine, menu, builds | new machine, reload, compile, build | the menu fits the machine's status |
| Memory and program windows | `../gui/windows/memory`, `program` | offset, rows, painted cells | go to, scroll, edit, follow | what is painted is what is in memory |

How they interact.  `Machine` owns everything and steps the core from a timer.  The
core calls `mem_program` and `mem_data`, each a chain of frontends: TLB, L1 cache,
(L2 cache,) memory bus; every link is a `FrontendMemory` with `read`, `write` and
`sync`.  `fence` and `fence.i` call `sync`, which flushes.  Devices raise interrupts by
signals to `ControlState`, sampled in `fetch`.  The predictor is asked in `fetch`
and informed in `memory`.  `handle_exception` calls handlers (the OS
emulation among them) or redirects to the trap vector.  Views poll change counters
and read through the internal access type.  Both front ends configure a machine from a
`MachineConfig`, fill its memory through the loader or the assembler, and connect
their signals to it.

The behaviours that tests hardly reach are listed, each at its line, in
`PROJECT.json` under "hazards".

## 2. Modules

| module | models | extends / instantiates |
|---|---|---|
| `FlatMemory` | what a `FrontendMemory` promises: an array of bytes | |
| `Cache` | one cache level | instantiates `FlatMemory` as `Flat` |
| `CachePolicies` | the five policies, as pure operators on one row | |
| `CacheRow` | the calls `access`, `kick` and `reset` make on a policy | `CachePolicies` |
| `CacheProofs`, `CacheRowProofs` | theorems | `Cache`, `CacheRow`, TLAPS |
| `PageTables` | page table entries, the walk, the permission check | |
| `DirectWalk` | what virtual memory promises: a walk for every access | `PageTables` |
| `TlbPolicies` | the four policies of a TLB | |
| `VirtualMemory` | both TLBs before the page tables | `PageTables`, `TlbPolicies`; instantiates `DirectWalk` |
| `Core` | the five stages and `handle_exception`, as pure operators | |
| `CoreSingle` | the single-cycle core | `Core` |
| `CorePipelined` | the pipelined core | `Core`; instantiates `CoreSingle` as `Single` |
| `BranchPredictor` | predictors, target buffer, history, as pure operators | |
| `CorePredicted` | the pipelined core trained and steered by its predictor | `CorePipelined`, `BranchPredictor` |
| `ControlState` | status, interrupt and delegation registers; traps and returns | |
| `SerialPort`, `Aclint` | the devices with interrupts, and the host behind them | |
| `Platform` | devices, registers and traps, connected as `machine.cpp` does | the three above |
| `OsSyscall` | emulated system calls against a host | |
| `MachineConfig` | configurations, presets, the settings file | |
| `MachineControl` | status, run timer, play, pause, step, restart | |
| `NewDialog` | the dialog for a new machine | `MachineConfig` |
| `CommandLine` | `main` of the command line, reporter, tracer | `MachineConfig`, `MachineControl` |
| `Session` | the main window, or the command line, with a machine | `NewDialog`, `CommandLine` |
| `Encoding` | bit fields, argument descriptions, relocation of a word | |
| `Expression` | the assembler's expressions | `Encoding` |
| `InstructionText` | from the text of an instruction to words, and back | `Expression` |
| `MemoryBus` | the bus, sparse memory, LEDs, display, loader | |
| `MemoryView` | the memory and program windows | `MemoryBus` |
| `Assembler` | the assembler and symbol table, then the use of the program | `MemoryView`, `InstructionText` |
| `VirtualMemoryProofs` | theorems about `VirtualMemory` | `VirtualMemory`, TLAPS |
| `CoreProofs` | theorems about `CorePipelined` and `CorePredicted` | `CorePredicted`, TLAPS |
| `MemoryViewProofs` | theorems about `MemoryBus` and `MemoryView` | `MemoryView`, TLAPS |
| `PlatformProofs`, `OsProofs`, `SessionProofs` | theorems about the module each is named for | that module, TLAPS |
| `MC...` | constants for TLC | the module they name |

Definitions keep the names of the functions they translate.  An operator with an
underscored suffix and the comment "Mutant" is a plausible mistake in the
definition that follows it; it shows that a property can fail and is used nowhere else.

### Cache

`dt`, `repl`, `mem` and `cnt` are the cache lines, the policy's statistics, the level
behind the cache and the counters.  The recursion of `access()` over blocks and the
loop of `flush()` over lines are unrolled into one step per block (`AccessHit`,
`AccessMiss`, `AccessMissNoAlloc`) and per line (`FlushLine`); `op` holds the call in
progress, and nothing else is enabled during one, because the code is single
threaded.  `ReadBypass` and `WriteBypass` are accesses to the uncached area, which
the code tests at the first byte and at the address *after* the last one.
`ReadInternal` is a read by a view, within one line: the code copies on past the end of a
line (`cache.cpp:154`), but every reader asks for an aligned cell.  `Restart` is `Machine::restart` as the cache sees
it: memory is loaded again and `reset()` clears valid bits and counters.  The policy
is four constant operators with a contract (`PolicyAssumption`), as the abstract class
`CachePolicy` is.  Data are bytes from a small set; addresses are bounded by `MaxTag`.

`FlatMem` is the memory a requester sees, the cached copy of a byte or else
memory, with the bytes of a write in progress on top; `Transparent` says that under
this mapping the cache implements `FlatMemory`.

### Policies

A policy's row statistics are a function or a number; `update_stats` and
`select_way_to_evict` dispatch on the policy as `get_policy_instance` does.
LRU's pass of swaps is stated by its effect (the way moves to one end, the others
keep their order).  Random choices are sets of possible results.  `CacheRow` adds
the valid bits and three history variables which only the properties read: `older`
(which way was accessed before which), `last` (the way touched last) and `streak` (the
ways filled by the misses since the last other call).

### Virtual memory

A virtual page number has `Levels` digits in base `TableSize`; an entry of a table is
the record of its fields.  `fetch`, `read` and `write` are whole calls of the TLB: every
page of the access is looked up, walked for, entered and marked, before the next one.
Software changes page table entries in machine mode, writes `satp` and `sstatus`, and
fences.  A TLB may keep what software has not fenced, so `unfenced` records the pages
whose translation changed since, and with `Disciplined` no access uses one of them.
`ImplementsDirectWalk` maps the TLBs away.  Every access has ASID 0, because nothing in the
code sets `CoreState`'s, so a fence with an ASID removes nothing.  An entry that is no leaf points to one
of the model's tables (`Pte`).  The TLBs' `reset`, which `Machine::restart` does not call, and internal reads, which
translate without entering anything, are left out.  `FencePage` and
`FenceAsid` are the interface of the TLB; the core reaches only `FenceAll` (section 5).

### Core

`Core` follows the RV64 core with two privilege levels.  An instruction is a
record; `FlagsOf` gives one instruction of each kind the flags of the tables in
`instruction.cpp`, and all control in the stages depends on those flags.
Registers, data and addresses are `0 .. N-1` with arithmetic modulo `N`, and an
instruction occupies one address.  Page faults, hardware breakpoints and interrupts
are inputs: sets of addresses, and a choice in every cycle.  The predictor may answer
anything for a jump or branch, and the next address otherwise: that a predictor does no more is proved
(`PredictedInv`).  A hardware breakpoint always stops: its flag is set when the core is made, and only the command line's
`enable-exception` clears it, where no breakpoint can be set; so what `handle_exception` does
without the flag (`core.cpp:179`) is not reached.

One step of `CorePipelined` is one call of `do_step`: the stages run from the
last to the first on the registers of the previous cycle, an exception in a stage
flushes the younger ones, the hazard unit forwards or asks for a stall, and then
exactly one of five things happens: `HandleException`,
`flush_and_continue_from_address`, `StopFetching`, `handle_stall` or `Advance`.
`DecodeThrows` is a step that `ControlState::read` ends with a C++ exception:
memory and execute have run, nothing has been flushed, and the machine is trapped.

The refinement to `CoreSingle` maps an instruction's effect to the moment it leaves the
memory stage: the program counter is the address of the oldest instruction still
to go through it, and the register written by `mem_wb` already counts.

`CorePredicted` replaces the free choice of the fetch stage's next address by the
predictor's answer.  In one step the memory stage trains it (also for an
instruction that an exception stops) before the fetch stage asks.  Addresses count
instructions.  The refinement to `CoreSingle` is the same as without it, for all predictors.

### Platform

`ControlState` is for RV32: a status register is the record of its fields, an interrupt
register the set of its bits.  Device operations are pure operators on a device's
state; those of the serial port leave the interrupt signals they emit, and
`Platform` applies them at once, as a direct Qt connection does.  The program takes
interrupts and exceptions, returns, writes the enables, and uses the devices of its
setup.  The host sends characters (`HostByte`), later tells of them (`ReadyRead`), its
clock advances (`Tick`), and a due timer fires (`TimerEvent`).  The terminal window and the
command line hand characters over differently: the window's handler runs again
inside the poll that takes one.  `before` records what a trap interrupted.  The `MPRV` that `exception_return`
clears is read by nothing, and no program here writes `MPP`, so its hypervisor value does not occur.
A wait that does not fit the timer's `int` (`IntervalLimit`, 2^31 ms) starts no timer, or one of a
truncated interval (`aclintmtimer.cpp:73`).

### System calls

One step is one `ecall`: `handle_exception` finds the call, which translates the path,
allocates a descriptor or does the transfer, and sets `a0`.  The host opens with its
lowest free descriptor; it may fail, or move fewer bytes than asked.  Of data only the number
of bytes is kept.  `Word` stands for 2^32, and arithmetic on addresses wraps there.

### Configuration, control and front ends

A configuration is a record with a field for each option that something depends on.
The dialog's handlers are actions that edit it; the box of the hazard unit is state of its own,
because it may differ from the configuration it stands for.  `MachineControl` abstracts a step
of the core to its outcome: it ends, reaches something the machine stops on
(then `pause` is called from inside the step), or throws.  `Session` is the main
window with its modal dialog, the run timer (which does not wait for the dialog), and builds
that finish at any time, or the command line, which goes through the stages of `main`
and is ended by its reporter.  A command line has the number of its files and of an option's pieces, where `main`
counts them; whether a file opens is a choice.  The two flags of memory protection are left out of a
configuration: they are loaded (`machineconfig.cpp:353`) and compared, never stored, and nothing can change
them, because their widgets are hidden (`newdialog.cpp:151`).  Closing the main window ends a session
and is no step.

### Assembling, memory and views

A source line is processed in one step: it defines symbols, writes through the bus
and leaves relocations, which `finish` applies.  An included file is a stack of lines
left.  Expressions are sequences of tokens; the parser's tree is kept as the path of
last children it walks.  `InstructionText` has about twenty instructions, which between them use
every kind of argument except the immediate of a CSR, and the pseudo-instructions that relocate.  A word is
the set of its bits.  The properties compare with a second, recursive reading of the same
source (`MeantItem`, `FlatRead`), written from what the text means.

After assembling, the program stores to memory and devices, the user turns knobs, edits
cells, types instructions, and moves the windows.  `bus` holds the sections allocated so
far, the devices' registers and what was announced to their windows; `views` what the
memory and program windows show, and where.  The machine has neither caches nor address
translation in this part.  Of the devices the bus has the LED panel and the display, whose ranges lie above main memory
and apart from each other, in any order (`BusAssumption`); the run has the display below the panel, as `machine.cpp` does.
The serial port and the ACLINT are in `Platform`.

## 3. Runs

| run | instance | shows |
|---|---|---|
| `cache_back` | write-back, 2 ways, 1 row, blocks of 2 bytes, 3 blocks, LRU | `UniqueBlocks`, `InvalidClean`, `CleanMatchesMemory`, `FlushedToMemory`, `Transparent` |
| `cache_noalloc` | write-through without allocation, 1 way, 2 rows, RAND, restarts, an uncached area | `Transparent` |
| `row_policies` | LRU, PLRU, NMRU and RAND, 4 ways, restarts | `InvalidFirst`, `PolicyVictim`, `MissesReplaceAll` |
| `vm` | 2 levels with a superpage, 2 TLBs of 2 ways, four policies, accesses of one and two pages, misaligned and swapped entries | `UniqueTranslations`, `FencedEntriesMatchWalk`, `UsedNotNextVictim`, `StoredPagesDirty`, `ImplementsDirectWalk` |
| `core_data` | forwarding; ALU, loads, stores, a branch, AMO, ecall, ebreak (stepped over), mret, CSR access, page fault, hardware breakpoint | `NothingBehindException`, `ImplementsSingle` |
| `core_system` | LR/SC, minstret, mstatus, interrupts | `ImplementsSingle`, `Progress` |
| `core_predict` | stalling; calls, returns, branches, fence.i, the six predictors in each initial state, a page whose fetch faults | `MispredictionsAreJumps`, `ImplementsSingle` |
| `core_link` | forwarding and prediction; jal, addi | the finding of section 5 |
| `platform` | five setups: nested and delegated exceptions, software interrupts of both levels, the timer, the serial port delegated and not | `LinesFollowDevices`, `NoByteUnannounced`, `TimerNeverEarly`, `ReturnsRestore`, `TimerRaised` |
| `os` | 12 system calls, 2 host descriptors, 3 paths, failing and partial transfers | `DescriptorsOwned`, `BytesReported`, `MappingsDisjoint` |
| `session` | the main window with 2 edits, 1 build and 2 machines, or 19 command lines | `ClockRuns`, `ActionsMatchStatus`, `PresetHolds`, `SettingsRoundTrip`, `ReportIsFinal` |
| `assembler` | sources of up to three lines out of 27, and 198 expressions in `.equ` and `.word`; then stores, knobs, edits, windows | `ImageMatchesSource`, `SymbolsMatch`, `WordsAreFlat`, `DevicesShown`, `TextReadsBack`, `ViewsCurrent`, `AddressesFound` |

Bounds.  Two ways and three blocks force eviction, and a request that straddles two
blocks evicts inside one call; two rows exercise the split of an address.  With
two byte values each lost or misplaced byte shows.  Counters are kept modulo 1 in
these runs (`CounterMod`), because they influence nothing else.  Four ways give
PLRU a tree of two levels.  In `vm`, four pages, of which one region is a superpage or a table,
compete for two ways; one change of an entry is enough for a stale copy, as every
earlier access may have made one.  A core run starts from *every* program of four
instructions (in `core_predict` followed by an address whose fetch faults) over its
instruction set, with three registers and values modulo 4 or 5; four is the depth of the pipeline,
so every combination of instructions in flight occurs, and programs loop because addresses wrap.  Only
`core_predict` bounds their length, by `MaxJumps`, because the statistics count; its tables have
two to four entries, so that branches collide.  In `platform` the host's clock runs to 4 ms of 2 ticks, waits of 2 ms and more are too long for the timer (`IntervalLimit`),
the timer is written twice and two characters arrive: one is in the port while the next waits.
In `os` two host descriptors run out, and a word of 14 lets two mappings wrap.  In `session` two
edits reach every combination of two handlers, and two machines a replacement.  In
`assembler` the sources cross a 12-bit boundary and a section boundary of 8 bytes, lines have weights that sum
up to `MaxLength`, and what follows the source is bounded by the same number.  No symmetry is used.

Deadlock.  The check is off where the system may stop: a machine whose core threw an exception is
trapped (`core_data`), the bounded runs end (`core_predict`, `vm`, `platform`, `os`,
`assembler`), and a session is closed or its process exits (`session`).

Fairness.  `Progress` assumes `WF_vars(Next)`: once started, the machine's timer
(`machine.cpp`, `play` and `step_timer`) keeps calling `step`, and every call
completes a cycle.  Nothing is assumed of the choices inside a cycle: interrupts
may come in every cycle, and the predictor may be wrong every time.  `TimerRaised` assumes
`WF` of `Tick`, `TimerEvent` and `ReadyRead`: the host's clock advances, and Qt's event loop, to
which `step_timer` returns after every burst, delivers timers and input that are due.
Nothing is assumed of the program.

## 4. Proofs

TLAPS proves the theorems below for every value of the constants that meets the named
assumptions of the modules (`CoreAssumption`, `VirtualMemoryAssumption` and so on, which
say what the code's types and configuration limits say; TLC evaluates them in every run).
Where a theorem needs more, the hypothesis is in its statement and is named here.  Each
inductive invariant was checked by TLC on the runs' instances before it was proved.

Recursive functions (`Span`, `Pow2`, the loading of an image, the fold of a vectored transfer) are first shown to
exist and then reasoned about with the least element of a set of numbers (`LeastExists`,
`UpTo`), since the library's induction principle cannot be instantiated.

### Cache

For every geometry, write policy, set of values and requests, and for every
replacement policy that meets `PolicyAssumption`.

* `TypeCorrect`, `BlocksUnique` (module `CacheProofs`): `TypeOK` and `UniqueBlocks`,
  with restarts.  Their conjunction is inductive: a miss is only taken when no
  way holds the block, and an access never runs past its block because
  `size_within_block` is at most the rest of it.
* `InvalidLinesClean`: without restarts no invalid line is dirty.
* `CleanCopies`, `FlushWritesAll`, `CacheTransparent` (module `CacheProofs`):
  the cache implements `FlatMemory`.  They assume `Separated`, that no block
  is reached both through the cache and around it; section 5 tells which requests break it.
  The inductive invariant `Inv` adds to type and uniqueness:
  `NoStaleWriteBack` (what `kick` would write is valid), `CleanBytes` (clean copies
  agree with memory, byte by byte), `FromRequests` (only cacheable blocks are
  cached), `CallAligned`, `ReadSoFar`, `WrittenSoFar` and `FlushedSoFar` (what the call
  in progress has done).  The parts about the call are needed because a request is
  served block by block: the second block may evict the first one before the call
  returns, and the bytes already delivered must remain those of the flat memory.
* `RestartTransparent`: the write-through policies stay transparent when the machine is
  restarted.  For write-back this is false (section 5), and the proof shows why: it
  needs `NoStaleWriteBack`, which `reset` breaks.
* `LRUKeepsWays`, `LRUInvalidFirst` (module `CacheRowProofs`), for every
  associativity, with restarts: the queue always holds every way exactly
  once, so "LRU lost the way from priority queue" cannot be thrown, and a valid line is
  evicted only if all are valid.  The invariant `Ordered` says that invalid ways stand
  in front of valid ones; `reset` keeps it by making all ways invalid.
* `ColdWaysFirst`: without restarts the same holds for LFU until a count wraps: up to then the counts are zero
  exactly for invalid ways.
* `PolicyVictims`: LRU's victim in a full row is the way whose last access is the oldest, because
  the queue stays sorted by `older` (`QueueByAge`); NMRU's only statistic is `last`; and the
  path of PLRU's victim leaves the path of `last` at the first pointer, whatever the associativity.
* `MissesReplaceEveryWay`: as many misses as there are ways replace each way once.  For LRU
  the victims of the streak are the end of the queue (`QueueEndsIn`).  For PLRU the
  invariant `TreeFollows` says that the last victim through a node of the tree turned its pointer away (`Turns`),
  and that two victims share the first `i` steps of their paths exactly if they are a multiple of `2^i`
  misses apart (`Spaced`).  Paths are treated as numbers (`PLRUPrefix`), and the theorem is about
  powers of two, because for other associativities it is false (section 5).

### Virtual memory

For page tables of any depth, size and contents (shared tables, tables that contain
themselves), TLBs of any number of sets and ways, and the four policies.

* `UniqueTranslationsTheorem`, `FencedEntriesMatchWalkTheorem`, `UsedNotNextVictimTheorem`: with
  the types they are one inductive invariant, whether software fences or not.  The
  hard step is a write to a page table entry: every page whose walk reads that entry
  enters `unfenced`, so the walks of the others must not read it.  The marking of A and D
  during an access changes tables too, without changing what a walk finds.  For PLRU, the
  path of pointers away from the way just used does not lead to it, also where the
  number of ways is no power of two.
* `StoredPagesDirtyTheorem` and `ImplementsDirectWalkTheorem` assume `Disciplined`, that software
  uses no page between changing its entry and fencing it.  The two TLBs then cannot be told from a walk at every
  access.  An access of two pages is the composition of two translations, of which the
  second sees the tables and TLB the first one left.

### Core

For every program over the modelled instructions, any number of registers and values, any sets of
faulting addresses and breakpoints, with interrupts at any time.

* `CoreTypes` and `NothingBehindExceptionTheorem`: for every hazard unit, with and without predictor.
  A stage without an instruction has no effect, and nothing younger than an
  exception survives the step that found it.
* `ImplementsSingleTheorem` assumes `SafeHazards`: the hazard unit stalls, or it forwards and nothing is
  predicted.  What is left out is no hazard unit at all, and forwarding behind a
  predicted jump, which `core_link` refutes.  The inductive invariant `Pipeline` compares every stage
  with what the single-cycle core computes for the same address, in the state the *older*
  instructions will leave: `FetchOk`, `DecodeOk` (with `Operand`, where the operand comes from the instruction before it,
  and `OperandThere`, that there is a way for it to come) and `ExecuteOk`.  `Chained` says that the predicted
  successor of an instruction is the next one in the pipeline, so that a misprediction
  is noticed, and `InSequence` that nothing is predicted without predictor.  The argument has
  one case for each way a step can end: an instruction that leaves the memory
  stage without a redirection changes no register, CSR or reservation that
  a younger one has already looked at; in every other case the younger ones are gone.
  Each step then is one step of `CoreSingle`, or `DecodeThrows`, or changes nothing it sees.
* `PredictedImplementsSpec`, `PredictedImplementsSingle`: the core with its predictor is a core whose predictor may
  answer anything for a jump, and so with `HU_STALL` it computes what the single-cycle core
  does, for the six predictors and tables of every size.  The invariant `PredictedInv` says that a valid
  entry of the target buffer belongs to the address of a jump or branch, and that only
  those are predicted to go elsewhere.
* `MispredictionsAreJumpsTheorem` assumes that no instruction is an `mret`.  With one it
  is false (section 5).

### Platform

For every set of setups, exceptions, timer values and rates, any number of characters and
any nesting of traps: `LinesFollowDevicesTheorem`, `NoByteUnannouncedTheorem`, `TimerNeverEarlyTheorem`,
`ReturnsRestoreTheorem`.  The inductive invariant adds to the properties `RxLine` (the receive line is
up only for a character that is ready), `Quiet` (no signal is left over between operations),
`TimerPast` (an active timer was justified when the clock was last read, and the clock does not
go back), `StatusView` (`sstatus` shows `mstatus`), and `TrapSaved` (the previous-privilege
fields hold what the last trap into the level interrupted, until a return uses them).

### System calls

For any host, paths, sizes and number of calls: `DescriptorsOwnedTheorem`, `BytesReportedTheorem` and
`MappingsDisjointTheorem`.  The last one needs `RegionsAscend`: as long as no region reached the end of the address
space, each ends before the next begins, and before `anonymous_last`.  The fold of a vectored transfer is
followed piece by piece: after an error or a short transfer nothing more moves.

### Sessions

For all values the widgets can hold, any command lines, and any number of edits, builds, machines
and cycles: `ClockRunsTheorem`, `ActionsMatchStatusTheorem`, `PresetHoldsTheorem`, `SettingsRoundTripTheorem`,
`ReportIsFinalTheorem`.  The invariant adds `OneFrontend`, `CliStopped` (no clock runs before
the event loop or after the process has its exit code) and `SettingsKept` (what the settings would bring back
is the configuration of the last machine, whatever has been edited since).

### Memory bus and windows

For every size of a section, of the display and of a table, every program image and every
sequence of accesses and of the user's actions: `WordsFlat`, `DevicesStayShown`, `ViewsStayCurrent`,
`AddressesStayFound`, from the one inductive invariant of `ViewsInductive`.  Of the layout only `BusAssumption` is used: the
devices lie above main memory and their ranges do not meet, whichever is the lower one.  `ViewSpec` loads any image of `Images` and then allows any
access of any length, with the windows told of it or not, the user's edits of cells, the knobs, the windows' moves and
restarts.  What `Assembler` does to the bus and the windows are such steps: a source line is a sequence of
writes of which the windows are not told.

The invariant `ViewsInv` has two parts.  `BusInv` says that the sections hold the bytes a flat memory would (a byte
no section holds is zero), and that LEDs, display and knobs were announced as they are.
A section that a write runs across is found again by the next one, and an address that is a
multiple of its width lies in one section (`AlignedSection`), which is why the
words of the property are aligned.  For the display, a pixel's address and its place
determine each other (`PixelAddress`, `PixelUnique`).  `ViewInv` says
of each window that it starts at a multiple of its cell size, that the rows hold the addresses they were
set for, and that a window whose counter equals the bus's shows what the bus reads, told or not.
This last part is what makes `ViewsCurrent` inductive: a window skips painting when the counters are
equal, so equality must mean that nothing was missed.  The lemma behind it is `QuietWrite`: a write the bus does not count as a change
alters no aligned read.

### Only model-checked

* Liveness, which is out of the prover's reach: `Progress`, `TimerRaised`.
* What the assembler computes (`ImageMatchesSource`, `SymbolsMatch`, `TextReadsBack`): the model and its
  reference are recursive over texts and expressions, and induction over data is out of the prover's reach.

## 5. Findings

`core_link`: `EX/MEM` forwards the ALU result, which for `jal` and `jalr` is the target of the jump,
while the register gets the return address.  Behind a correctly predicted jump the
link register is read wrong.  (Without a correct prediction the reader is flushed;
with `HU_STALL` it waits, as `core_predict` shows.)

Other places where the code and what is said or expected of it differ, met while
modelling.  The models follow the code; where a property would fail for one of these, it
leaves the case out and its comment says so.

Caches and virtual memory.
* An access that ends exactly at the last byte in front of the uncached area goes around
  the cache, because the address behind it is tested (`memory/cache/cache.cpp:46`); narrower accesses
  to the block are cached.  The repository's README says "difference between cache and
  memory is just in collected statistics".
* `reset()` keeps dirty bits and `kick()` looks at nothing else (`cache.cpp:119`): after a restart an
  old block is written over the reloaded memory.
* `reset()` keeps LFU's counts (`cache.cpp:122`), so valid lines are evicted while invalid ones remain; the counts
  wrap at 2^32 to the value of an invalid line.
* PLRU with an associativity that is no power of two, which the command line and the dialog accept, lets the last way
  stand for the missing leaves of its tree (`cache_policy.cpp`): with three ways,
  three misses in a row may evict ways 2, 1 and 2, and way 0 stays.
* With two levels, an internal read of L1 asks `location_status`, which falls through to L2, and
  then copies from L1 (`cache.cpp:77`).
* `sfence.vma` has no flag that reads its registers (`instruction.cpp:481`): the core always
  fences everything.  `satp` mode 9 is accepted and walked as Sv39.  PLRU of a TLB is
  wrong from eight ways on (`memory/tlb/tlb_policy.cpp:87`).

Core and platform.
* `decode` reads the CSR of an instruction on a wrong path with the privilege of the `mret`
  just executed, and the exception it throws stops the machine (`core.cpp:429`); `DecodeThrows` is
  this step, and `ImplementsSingle` allows it.
* The redirection of an `mret` is counted as a misprediction (`core.cpp:664`), but not as a jump, so the
  number of correct predictions, which is computed as the difference of the two (`predictor.cpp:714`), can wrap.
* The history register is not masked at its largest width (`predictor.cpp:91`).  A branch stopped by an interrupt still trains.
* An interrupt with a zero vector skips an instruction; a page fault of a fetch leaves 0 in
  `mtval`; the fault of an LR is reported as one of a store, and its reservation is already set; `minstret`
  counts instructions whose memory stage faulted.
* The cause of a trap from user mode that is taken in machine mode goes to `scause` (`core.cpp:228`).
  A delegated interrupt that is enabled in `mie` is taken in machine mode all the same.
* Each write of `mtimecmp` restarts the host's timer, so repeated writes postpone the interrupt.  The interval is
  passed as an `int` (`aclintmtimer.cpp:73`): from 2^31 ms on it is negative, Qt starts no timer, and the interrupt
  does not come until the next write, or it is truncated.  `TimerRaised` is about shorter waits.

System calls.
* Unimplemented calls, and `openat` relative to a directory, return a positive `ENOSYS`, which ends as 0 in `a0`.
  The result of a failed `ftruncate` is zero-extended and I/O vectors are read as 32-bit pairs, on RV64 too.
* The handler's state survives a restart, and host descriptors stay open when a new machine is made.

Front ends.
* The command line never checks the expected failure on a normal end (`machine.cpp:383` is switched
  off); a zero in a cache's geometry is not refused; a step that ends at the cycle limit reports twice.
  Without a file it prints its help and ends with code 0 (`main.cpp:283`).  A character of `isa-variant` that is no
  letter switches the A extension (`config_isa.h:48`): the test for an empty flag never holds.
* A new build does not stop the last one, because `build_process` is assigned to the wrong
  side (`mainwindow.cpp:898`).  A program compiled after a failed reload goes to the old
  machine; a restart with an executable drops a compiled program; memory that is
  kept for a new machine is copied without flushing write-back caches.
* `restart` leaves CSRs, TLBs, the predictor and the OS handler as they were.

Assembler, memory and views.
* The lower limit of `.word` is `-0xffffffff`, which is unsigned 1 (`simpleasm.cpp:501`): an expression
  with the value 0, or below it, is an error.
* The second relocation of `sext.b` and `sext.h` is recorded at the first instruction.
* The offset of a `jal` has 21 bits, its argument takes -0x80000 to 0x7ffff (`instruction.cpp:73`): the text
  the program window shows for a longer jump is refused when it is typed back.  The text of `jalr`, whose mask
  leaves out `funct3` (`instruction.cpp:620`), and of a shift with bit 25 set does not tell these bits, which are lost.
* `--5` is -5; in `5~3` the 5 is dropped; a bracket may stay open; division by zero is undefined.
* Relocations are applied over bytes that a later `.org` overwrote.
* A read that starts in a section never written gives zeros for all of its length (`memory/backend/memory.cpp:185`).
* A restart replaces memory without moving the change counter: windows are stale until the next step.
* The memory window takes an offset of exactly one row for a row of the table (`>` where the program window has `>=`).
  When a table snaps to address zero, the current row keeps its number, so the mark moves by the bytes
  the table moved (`memorytableview.cpp:129`).
  The program window reads with side effects, so it consumes a waiting serial character.

## 6. Not modelled

Of the cache: signals to the views, derived statistics (stall count, hit rate,
speed), the second level.  Of the core: multiplication, RV32's narrower registers, most of the ALU.
Of the CSRs: RV64's layout and registers without control.  Of virtual memory: global pages and statistics.
Of the OS emulation: flags of `open`, contents of files.  Of the assembler: the tokens of a line,
most of the instruction table, values above 31 bits (the largest `u` immediate is 2^31 - 1, and the second try
with the value less 2^32 is not needed), what `.equ` of `noat` and `noreorder` would mean (the code ignores them too).  Of the GUI: the editor's tabs, the docks of
caches, TLBs, CSRs, registers and the predictor, the drawing of the core and of everything else.  ELF is
parsed by a library, and options are parsed by Qt.

Numbers in TLC have 32 bits, so widths of 32 and 64 bits are scaled down where they wrap
(`Word`, `LfuMod`, `N`) and bit sets elsewhere.

## 7. Plan

Modelled so far: everything in section 2; proved: everything in section 4.  Next, in this order:

1. The two halves of an address: `%hi` and `%lo` of a value add up to it, for every value.
2. A hierarchy of two cache levels; the editor's tabs.
