------------------------------- MODULE Cache -------------------------------
(***************************************************************************)
(* One cache level of QtRvSim (src/machine/memory/cache/cache.cpp): a      *)
(* set-associative cache between a requester (core, TLB or an upper level) *)
(* and the memory `mem` behind it.  The cache is single threaded: a call   *)
(* runs to its end before the next one starts.  The recursion of access()  *)
(* over the blocks of a request and the loop of flush() over the lines are *)
(* unrolled: one step per block and one step per line, with the call in    *)
(* progress kept in `op`; nothing else is enabled while a call runs.       *)
(*                                                                         *)
(* A cell is one byte.  The replacement policy is the abstract class       *)
(* CachePolicy, here four constant operators (CachePolicies has the five   *)
(* implementations).                                                       *)
(***************************************************************************)
EXTENDS Integers, FiniteSets

CONSTANTS
    Enabled,          \* cache_config.enabled()
    Associativity,    \* cache_config.associativity()
    SetCount,         \* cache_config.set_count()
    BlockSize,        \* cache_config.block_size(), in words
    BLOCK_ITEM_SIZE,  \* bytes per word (sizeof(uint32_t) in the code)
    MaxTag,           \* bound on the tags, so on the addresses
    WritePolicy,      \* cache_config.write_policy()
    UncachedStart,    \* uncached_start
    UncachedLast,     \* uncached_last
    Val,              \* the values of a byte
    InitMem,          \* memory contents after the program has been loaded
    Requests,         \* the (address, size) pairs the requester uses
    CounterMod,       \* counters are unsigned: modulo 2^32 in the code
    PolicyStates,     \* what the replacement policy keeps for one row ...
    PolicyInit,       \* ... its initial value ...
    UpdateStats(_, _, _),  \* ... after update_stats(way, row, is_valid)
    WaysToEvict(_)         \* ... and what select_way_to_evict(row) may return

WP_BACK == "WP_BACK"
WP_THROUGH_NOALLOC == "WP_THROUGH_NOALLOC"
WP_THROUGH_ALLOC == "WP_THROUGH_ALLOC"

READ == "READ"
WRITE == "WRITE"

BlockBytes == BlockSize * BLOCK_ITEM_SIZE
Ways == 0 .. Associativity - 1
Rows == 0 .. SetCount - 1
Cols == 0 .. BlockBytes - 1
Tags == 0 .. MaxTag
Addr == 0 .. (MaxTag + 1) * SetCount * BlockBytes - 1

ASSUME GeometryAssumption ==
    /\ Associativity \in Nat \ {0}
    /\ SetCount \in Nat \ {0}
    /\ BlockSize \in Nat \ {0}
    /\ BLOCK_ITEM_SIZE \in Nat \ {0}
    /\ MaxTag \in Nat
    /\ CounterMod \in Nat \ {0}
    /\ Enabled \in BOOLEAN
    /\ WritePolicy \in {WP_BACK, WP_THROUGH_NOALLOC, WP_THROUGH_ALLOC}

ASSUME MemoryAssumption ==
    /\ 0 \in Val
    /\ InitMem \in [Addr -> Val]
    /\ UncachedStart \in Nat
    /\ UncachedLast \in Nat

ASSUME RequestAssumption ==
    /\ Requests \subseteq [addr : Addr, size : Nat \ {0}]
    /\ \A r \in Requests : r.addr + r.size - 1 \in Addr

\* The contract of the virtual functions of CachePolicy.
ASSUME PolicyAssumption ==
    /\ PolicyInit \in PolicyStates
    /\ \A s \in PolicyStates :
          /\ WaysToEvict(s) \subseteq Ways
          /\ WaysToEvict(s) # {}
          /\ \A w \in Ways, v \in BOOLEAN : UpdateStats(s, w, v) \in PolicyStates

(***************************************************************************)
(* Addresses                                                               *)
(***************************************************************************)
\* compute_location: the word index is split into tag, row and column, the
\* remainder is the byte in the word.  `off` is col * BLOCK_ITEM_SIZE + byte.
compute_location(a) ==
    LET word_index == a \div BLOCK_ITEM_SIZE
        way_size_words == SetCount * BlockSize
        index_in_way == word_index % way_size_words
    IN  [tag |-> word_index \div way_size_words,
         row |-> index_in_way \div BlockSize,
         off |-> (index_in_way % BlockSize) * BLOCK_ITEM_SIZE
                     + (a % BLOCK_ITEM_SIZE)]

calc_base_address(tag, row) == (tag * SetCount + row) * BlockSize * BLOCK_ITEM_SIZE

is_in_uncached_area(a) == UncachedStart <= a /\ a <= UncachedLast

\* The first test of read() and write().  The end tested is addr + size, the
\* address after the last byte.
bypassed(r) ==
    \/ ~Enabled
    \/ is_in_uncached_area(r.addr)
    \/ is_in_uncached_area(r.addr + r.size)

\* How many of the `size` bytes from offset `off` are in the same block: the
\* rest is calculate_overflow_to_next_blocks.
size_within_block(size, off) ==
    IF off + size > BlockBytes THEN BlockBytes - off ELSE size

(***************************************************************************)
(* State                                                                   *)
(***************************************************************************)
VARIABLES
    dt,     \* dt[way][row], the cache lines
    repl,   \* repl[row], the policy's statistics of a row
    mem,    \* the memory behind the cache
    cnt,    \* the statistics counters
    op,     \* the call in progress
    ret     \* the bytes the last read() delivered, by address

vars == <<dt, repl, mem, cnt, op, ret>>

Line == [valid : BOOLEAN, dirty : BOOLEAN, tag : Tags, data : [Cols -> Val]]

Counters == {"hit_read", "hit_write", "miss_read", "miss_write", "mem_reads",
             "mem_writes", "burst_reads", "burst_writes", "change_counter"}

\* The addresses of the first n bytes of request r.
Span(r, n) == r.addr .. r.addr + n - 1

Idle == [pc |-> "idle"]

\* The line every entry of dt starts as.
EmptyLine == [valid |-> FALSE, dirty |-> FALSE, tag |-> 0, data |-> [c \in Cols |-> 0]]

Init ==
    /\ dt = [w \in Ways |-> [r \in Rows |-> EmptyLine]]
    /\ repl = [r \in Rows |-> PolicyInit]
    /\ mem = InitMem
    /\ cnt = [c \in Counters |-> 0]
    /\ op = Idle
    /\ ret = [x \in {} |-> 0]

\* The counters after the additions given by `inc`, a function on Counters.
Counted(inc) ==
    [c \in Counters |-> (cnt[c] + (IF c \in DOMAIN inc THEN inc[c] ELSE 0)) % CounterMod]

\* mem->write: the bytes of f, a function on addresses, are stored.
Stored(m, f) == [x \in Addr |-> IF x \in DOMAIN f THEN f[x] ELSE m[x]]

(***************************************************************************)
(* Lines                                                                   *)
(***************************************************************************)
\* Mutant: only the first way is searched.
Matching_FirstWay(d, loc) ==
    {w \in {0} : d[w][loc.row].valid /\ d[w][loc.row].tag = loc.tag}

\* The ways of lines d that hold the block of location loc.
Matching(d, loc) ==
    {w \in Ways : d[w][loc.row].valid /\ d[w][loc.row].tag = loc.tag}

\* The search stops on the first one.
find_block_index(d, loc) ==
    CHOOSE w \in Matching(d, loc) : \A v \in Matching(d, loc) : w <= v

Base(tag, row) == calc_base_address(tag, row)

BlockSpan(tag, row) == Base(tag, row) .. Base(tag, row) + BlockBytes - 1

\* kick writes a line back on the dirty bit alone.
written_back(line) == line.dirty /\ WritePolicy = WP_BACK

\* The memory after kick(way, row).
KickedMem(way, row) ==
    LET cd == dt[way][row]
    IN  IF written_back(cd)
        THEN Stored(mem, [x \in BlockSpan(cd.tag, row) |-> cd.data[x - Base(cd.tag, row)]])
        ELSE mem

\* Mutant: the dirty bit is left.
kicked_Dirty(line) == [line EXCEPT !.valid = FALSE]

\* The line after kick().
kicked(line) == [line EXCEPT !.valid = FALSE, !.dirty = FALSE]

\* The counter increments of kick(way, row).
KickedInc(way, row) ==
    LET n == IF written_back(dt[way][row]) THEN BlockSize ELSE 0
    IN  [mem_writes |-> n,
         burst_writes |-> IF n = 0 THEN 0 ELSE n - 1,
         change_counter |-> 1]

(***************************************************************************)
(* Calls                                                                   *)
(***************************************************************************)
\* write() of the bytes in buf outside the cache.
WriteBypass(r, buf) ==
    /\ op = Idle
    /\ bypassed(r)
    /\ mem' = Stored(mem, buf)
    /\ cnt' = Counted([mem_writes |-> 1])
    /\ UNCHANGED <<dt, repl, op, ret>>

\* read() outside the cache.
ReadBypass(r) ==
    /\ op = Idle
    /\ bypassed(r)
    /\ ret' = [x \in Span(r, r.size) |-> mem[x]]
    /\ cnt' = Counted([mem_reads |-> 1])
    /\ UNCHANGED <<dt, repl, mem, op>>

\* write() through the cache starts access().
WriteCall(r, buf) ==
    /\ op = Idle
    /\ ~bypassed(r)
    /\ op' = [pc |-> "access", type |-> WRITE, addr |-> r.addr, size |-> r.size,
              pos |-> 0, buf |-> buf]
    /\ UNCHANGED <<dt, repl, mem, cnt, ret>>

\* read() through the cache starts access(); its buffer is filled block by block.
ReadCall(r) ==
    /\ op = Idle
    /\ ~bypassed(r)
    /\ op' = [pc |-> "access", type |-> READ, addr |-> r.addr, size |-> r.size,
              pos |-> 0, buf |-> [x \in {} |-> 0]]
    /\ UNCHANGED <<dt, repl, mem, cnt, ret>>

\* read() of type ae::INTERNAL: nothing is allocated or counted.  The whole
\* access is served by the first matching line or by mem, and the source
\* copies past the end of a line without a check.  No reader asks it to: the
\* memory and program windows (memorymodel.cpp:89), the relocations of the
\* assembler (simpleasm.cpp:580) and the reporter (reporter.cpp:236) read one,
\* two or four aligned bytes, and a block is made of words.
ReadInternal(r) ==
    /\ op = Idle
    /\ ~bypassed(r)
    /\ LET loc == compute_location(r.addr)
       IN  /\ loc.off + r.size <= BlockBytes
           /\ ret' = [x \in Span(r, r.size) |->
                        IF Matching(dt, loc) # {}
                        THEN dt[find_block_index(dt, loc)][loc.row].data[loc.off + x - r.addr]
                        ELSE mem[x]]
    /\ UNCHANGED <<dt, repl, mem, cnt, op>>

\* The bytes of the call in progress that fall in the current block.
CurLoc == compute_location(op.addr + op.pos)
CurSize == size_within_block(op.size - op.pos, CurLoc.off)
CurSpan == op.addr + op.pos .. op.addr + op.pos + CurSize - 1

\* Mutant: the dirty bit is not set.
Touched_Clean(line, loc) ==
    IF op.type = READ THEN line
    ELSE [line EXCEPT
            !.data = [c \in Cols |-> IF Base(loc.tag, loc.row) + c \in CurSpan
                                     THEN op.buf[Base(loc.tag, loc.row) + c]
                                     ELSE line.data[c]]]

\* A write leaves the line dirty, with its bytes in it.
Touched(line, loc) ==
    IF op.type = READ THEN line
    ELSE [line EXCEPT
            !.dirty = TRUE,
            !.data = [c \in Cols |-> IF Base(loc.tag, loc.row) + c \in CurSpan
                                     THEN op.buf[Base(loc.tag, loc.row) + c]
                                     ELSE line.data[c]]]

\* The buffer after the current block has been accessed in `line`.
Delivered(line, loc) ==
    IF op.type = WRITE THEN op.buf
    ELSE [x \in Span(op, op.pos + CurSize) |->
            IF x \in CurSpan THEN line.data[x - Base(loc.tag, loc.row)] ELSE op.buf[x]]

\* The end of access() for the current block, in line `line` of way `way`.
AccessLine(way, line, loc) ==
    /\ dt' = [dt EXCEPT ![way][loc.row] = Touched(line, loc)]
    /\ op' = [op EXCEPT !.pos = @ + CurSize, !.buf = Delivered(line, loc)]

\* access() finds the block.
AccessHit ==
    /\ op.pc = "access" /\ op.pos < op.size
    /\ LET loc == CurLoc
           way == find_block_index(dt, loc)
           line == dt[way][loc.row]
       IN  /\ Matching(dt, loc) # {}
           /\ AccessLine(way, line, loc)
           /\ repl' = [repl EXCEPT ![loc.row] = UpdateStats(@, way, TRUE)]
           /\ cnt' = Counted(
                [hit_read |-> IF op.type = READ THEN 1 ELSE 0,
                 hit_write |-> IF op.type = WRITE THEN 1 ELSE 0,
                 change_counter |-> IF Touched(line, loc).data # line.data THEN 1 ELSE 0])
    /\ UNCHANGED <<mem, ret>>

\* access() misses: a way is evicted, the block is read and then accessed.
AccessMiss ==
    /\ op.pc = "access" /\ op.pos < op.size
    /\ ~(op.type = WRITE /\ WritePolicy = WP_THROUGH_NOALLOC)
    /\ LET loc == CurLoc
       IN  /\ Matching(dt, loc) = {}
           /\ \E way \in WaysToEvict(repl[loc.row]) :
                LET kmem == KickedMem(way, loc.row)
                    line == [valid |-> TRUE, dirty |-> FALSE, tag |-> loc.tag,
                             data |-> [c \in Cols |-> kmem[Base(loc.tag, loc.row) + c]]]
                    kinc == KickedInc(way, loc.row)
                IN  /\ mem' = kmem
                    /\ AccessLine(way, line, loc)
                    /\ repl' = [repl EXCEPT ![loc.row] =
                                  UpdateStats(UpdateStats(@, way, FALSE), way, TRUE)]
                    /\ cnt' = Counted(
                         [miss_read |-> IF op.type = READ THEN 1 ELSE 0,
                          miss_write |-> IF op.type = WRITE THEN 1 ELSE 0,
                          mem_reads |-> BlockSize,
                          burst_reads |-> BlockSize - 1,
                          mem_writes |-> kinc.mem_writes,
                          burst_writes |-> kinc.burst_writes,
                          change_counter |->
                             kinc.change_counter + BlockSize
                             + (IF Touched(line, loc).data # line.data THEN 1 ELSE 0)])
    /\ UNCHANGED ret

\* Mutant: the write passes by a block that is cached.
AccessMissNoAlloc_Hit ==
    /\ op.pc = "access" /\ op.pos < op.size
    /\ op.type = WRITE /\ WritePolicy = WP_THROUGH_NOALLOC
    /\ op' = [op EXCEPT !.pos = @ + CurSize]
    /\ cnt' = Counted([miss_write |-> 1])
    /\ UNCHANGED <<dt, repl, mem, ret>>

\* access() misses on a write that does not allocate: only counted.
AccessMissNoAlloc ==
    /\ op.pc = "access" /\ op.pos < op.size
    /\ op.type = WRITE /\ WritePolicy = WP_THROUGH_NOALLOC
    /\ Matching(dt, CurLoc) = {}
    /\ op' = [op EXCEPT !.pos = @ + CurSize]
    /\ cnt' = Counted([miss_write |-> 1])
    /\ UNCHANGED <<dt, repl, mem, ret>>

\* access() is done and read() returns.
ReadReturn ==
    /\ op.pc = "access" /\ op.pos = op.size /\ op.type = READ
    /\ op' = Idle
    /\ ret' = op.buf
    /\ UNCHANGED <<dt, repl, mem, cnt>>

\* access() is done and write() returns, after the write to mem of the two
\* write-through policies.
WriteReturn ==
    /\ op.pc = "access" /\ op.pos = op.size /\ op.type = WRITE
    /\ op' = Idle
    /\ IF WritePolicy = WP_BACK
       THEN UNCHANGED <<mem, cnt>>
       ELSE mem' = Stored(mem, op.buf) /\ cnt' = Counted([mem_writes |-> 1])
    /\ UNCHANGED <<dt, repl, ret>>

\* Mutant: the loop starts with the second line.
FlushCall_FromOne ==
    /\ op = Idle
    /\ Enabled
    /\ op' = [pc |-> "flush", pos |-> 1]
    /\ UNCHANGED <<dt, repl, mem, cnt, ret>>

\* flush(), called by sync(), starts its loop over the lines.
FlushCall ==
    /\ op = Idle
    /\ Enabled
    /\ op' = [pc |-> "flush", pos |-> 0]
    /\ UNCHANGED <<dt, repl, mem, cnt, ret>>

\* One turn of the loop: a valid line is kicked.
FlushLine ==
    /\ op.pc = "flush" /\ op.pos < Associativity * SetCount
    /\ op' = [op EXCEPT !.pos = @ + 1]
    /\ LET way == op.pos \div SetCount
           row == op.pos % SetCount
       IN  IF dt[way][row].valid
           THEN /\ mem' = KickedMem(way, row)
                /\ dt' = [dt EXCEPT ![way][row] = kicked(@)]
                /\ repl' = [repl EXCEPT ![row] = UpdateStats(@, way, FALSE)]
                /\ cnt' = Counted(KickedInc(way, row))
           ELSE UNCHANGED <<dt, repl, mem, cnt>>
    /\ UNCHANGED ret

FlushReturn ==
    /\ op.pc = "flush" /\ op.pos = Associativity * SetCount
    /\ op' = Idle
    /\ cnt' = Counted([change_counter |-> 1])
    /\ UNCHANGED <<dt, repl, mem, ret>>

\* Machine::restart: the memory is loaded again and reset() is called.  reset()
\* clears the valid bits and every counter but change_counter.
Restart ==
    /\ op = Idle
    /\ mem' = InitMem
    /\ dt' = IF Enabled
             THEN [w \in Ways |-> [r \in Rows |-> [dt[w][r] EXCEPT !.valid = FALSE]]]
             ELSE dt
    /\ cnt' = [c \in Counters |-> IF c = "change_counter" THEN cnt[c] ELSE 0]
    /\ UNCHANGED <<repl, op, ret>>

Next ==
    \/ \E r \in Requests :
          \/ ReadBypass(r)
          \/ ReadCall(r)
          \/ ReadInternal(r)
          \/ \E buf \in [Span(r, r.size) -> Val] : WriteBypass(r, buf) \/ WriteCall(r, buf)
    \/ AccessHit
    \/ AccessMiss
    \/ AccessMissNoAlloc
    \/ ReadReturn
    \/ WriteReturn
    \/ FlushCall
    \/ FlushLine
    \/ FlushReturn

Spec == Init /\ [][Next]_vars

\* The cache of a machine that is also restarted.
SpecRestart == Init /\ [][Next \/ Restart]_vars

(***************************************************************************)
(* Properties                                                              *)
(***************************************************************************)
\* A finished or running call of access(), in terms of the request served.
CallOK ==
    \/ op = Idle
    \/ /\ op = [pc |-> "flush", pos |-> op.pos]
       /\ op.pos \in 0 .. Associativity * SetCount
    \/ /\ op = [pc |-> "access", type |-> op.type, addr |-> op.addr,
                size |-> op.size, pos |-> op.pos, buf |-> op.buf]
       /\ op.type \in {READ, WRITE}
       /\ [addr |-> op.addr, size |-> op.size] \in Requests
       /\ op.pos \in 0 .. op.size
       /\ op.buf \in [Span(op, IF op.type = READ THEN op.pos ELSE op.size) -> Val]

\* Every variable keeps the shape the class declares for it.
TypeOK ==
    /\ dt \in [Ways -> [Rows -> Line]]
    /\ repl \in [Rows -> PolicyStates]
    /\ mem \in [Addr -> Val]
    /\ cnt \in [Counters -> 0 .. CounterMod - 1]
    /\ CallOK

\* find_block_index stops on the first match: that is only right if no block is
\* ever in two ways of its row, whatever was evicted, flushed and filled before.
UniqueBlocks ==
    \A row \in Rows : \A v, w \in Ways :
        /\ dt[v][row].valid /\ dt[w][row].valid
        /\ dt[v][row].tag = dt[w][row].tag
        => v = w

\* kick() writes back on the dirty bit alone, so an invalid line must be clean.
InvalidClean ==
    \A w \in Ways, row \in Rows : dt[w][row].dirty => dt[w][row].valid

\* The write in progress has yet to reach byte x of the memory.
Pending(x) ==
    /\ op.pc = "access"
    /\ op.type = WRITE
    /\ x \in Span(op, op.size)

\* A line that kick() would drop holds what the memory holds, except for bytes
\* that write() is about to store there.
CleanMatchesMemory ==
    \A w \in Ways, row \in Rows :
        LET cd == dt[w][row]
        IN  cd.valid /\ ~written_back(cd)
            => \A c \in Cols : LET x == Base(cd.tag, row) + c
                               IN  ~Pending(x) => cd.data[c] = mem[x]

\* What a reader of byte x gets from lines d and memory m: the cached copy or
\* else the memory.
View(d, m, x) ==
    LET loc == compute_location(x)
    IN  IF Matching(d, loc) # {}
        THEN d[find_block_index(d, loc)][loc.row].data[loc.off]
        ELSE m[x]

\* The memory the requester sees: a write takes effect when it is called.
FlatMem == [x \in Addr |-> IF Pending(x) THEN op.buf[x] ELSE View(dt, mem, x)]

\* The call in progress, as the requester knows it.
FlatCall ==
    IF op.pc = "access"
    THEN [type |-> op.type, addr |-> op.addr, size |-> op.size]
    ELSE [type |-> op.pc]

Flat == INSTANCE FlatMemory WITH m <- FlatMem, out <- ret, call <- FlatCall

\* The cache is transparent: behind it the requester sees a flat memory, in
\* which only write() changes bytes and every read() delivers the bytes last
\* written.  (README: "difference between cache and memory is just in collected
\* statistics".)
Transparent == Flat!Spec

\* After flush() returns, memory alone holds what the requester sees.
FlushedToMemory ==
    (op.pc = "flush" /\ op.pos = Associativity * SetCount) => FlatMem = mem

\* The blocks a request touches.
Blocks(r) == {[tag |-> compute_location(x).tag, row |-> compute_location(x).row] :
                 x \in Span(r, r.size)}

\* No byte is accessed both through the cache and around it.
Separated ==
    \A r, q \in Requests :
        bypassed(r) /\ ~bypassed(q) => Blocks(r) \cap Blocks(q) = {}
=============================================================================
