--------------------------- MODULE VirtualMemory ---------------------------
(***************************************************************************)
(* The two TLBs of a machine (src/machine/memory/tlb/tlb.cpp) before the   *)
(* page tables in memory.  Fetches go through the PROGRAM TLB, loads and   *)
(* stores through the DATA TLB; both learn of satp and sstatus from the    *)
(* write signal of the control state and of sfence.vma from the core.      *)
(*                                                                         *)
(* An entry holds a copy of a page table entry, so software that changes a *)
(* table or the root must fence before it uses the pages concerned; with   *)
(* Disciplined it does.  `unfenced` records the pages it may not use yet.  *)
(* The ASID of an access is CoreState's, which nothing sets: it is 0.      *)
(***************************************************************************)
EXTENDS PageTables, TlbPolicies

CONSTANTS
    Sets,          \* the number of sets of a TLB, a power of two
    VmEnabled,
    Policies,      \* the policies a TLB may be configured with
    LfuMax,        \* a bound on LFU's counts
    InitTables,    \* the page tables software starts from
    PteWrites,     \* the slots software writes, each with an entry
    MaxPteWrites,  \* how many it writes
    Satps,         \* the values software gives satp
    Sstatuses,     \* and sstatus
    Accesses,      \* the accesses it makes: a mode and one page or two in a row
    Disciplined    \* software fences before it relies on a change

ASSUME VirtualMemoryAssumption ==
    /\ Sets \in Nat \ {0}
    /\ VmEnabled \in BOOLEAN /\ Disciplined \in BOOLEAN
    /\ Policies \subseteq PolicyKinds
    /\ LfuMax \in Nat
    /\ InitTables \subseteq [Tables -> [Indices -> Pte]]
    /\ PteWrites \subseteq Slots \X Pte
    /\ MaxPteWrites \in Nat
    /\ Satps \subseteq Satp /\ Sstatuses \subseteq Sstatus
    /\ Accesses \subseteq [mode : AccessMode, pages : PageRuns]

TlbTypes == {"PROGRAM", "DATA"}
SetIds == 0 .. Sets - 1

VARIABLES
    pt,        \* the page tables, in memory
    satp,      \* satp, and each TLB's copy of it
    sstatus,   \* sstatus, and each TLB's copy of it
    policy,    \* the configured replacement policy
    table,     \* the entries of each TLB
    rows,      \* what the policy keeps for each set
    last,      \* the last access, its outcome, and the way it left in use
    writes,    \* page table entries software has written
    unfenced   \* pages whose translation changed after the last fence

vars == <<pt, satp, sstatus, policy, table, rows, last, writes, unfenced>>

\* An entry has vpn, frame, slot (the address of its page table entry) and the
\* permissions r, w, x, u, a, d.
NoEntry == [valid |-> FALSE]

type_of(op) == IF op = "FETCH" THEN "PROGRAM" ELSE "DATA"

set_index(vpn) == vpn % Sets

(***************************************************************************)
(* translate_virtual_to_physical, on the state `st` an access has reached  *)
(***************************************************************************)
\* Mutant: the last way is not looked at.
HitWays_LastWay(tlb, vpn) ==
    {w \in 0 .. Ways - 2 : tlb[set_index(vpn)][w].valid /\ tlb[set_index(vpn)][w].vpn = vpn}

HitWays(tlb, vpn) ==
    {w \in WayIds : tlb[set_index(vpn)][w].valid /\ tlb[set_index(vpn)][w].vpn = vpn}

FirstWay(ws) == CHOOSE w \in ws : \A v \in ws : w <= v

\* The entry in the way, marked as used, in the TLB and in memory: memory is
\* read again at the address the entry came from.
\* Mutant: an entry that was already marked is not written back.
ensure_ad_bits_Cached(st, s, way, op) ==
    LET e    == st.tlb[s][way]
        slot == e.slot
    IN  IF e.a THEN st
        ELSE [st EXCEPT !.pt[slot[1]][slot[2]] = with_ad_bits(@, op),
                        !.tlb[s][way] = [e EXCEPT !.a = TRUE, !.d = @ \/ op = "WRITE"]]

ensure_ad_bits(st, s, way, op) ==
    LET e    == st.tlb[s][way]
        slot == e.slot
    IN  [st EXCEPT !.pt[slot[1]][slot[2]] = with_ad_bits(@, op),
                   !.tlb[s][way] = [e EXCEPT !.a = TRUE, !.d = @ \/ op = "WRITE"]]

Used(st, s, way, frame) ==
    [st EXCEPT !.row[s] = notify_access(policy, @, way),
               !.way = way, !.set = s,
               !.frames = Append(@, frame)]

\* Mutant: the permissions of a cached entry are not checked.
translate_hit_Unchecked(st, vpn, mode) ==
    LET s == set_index(vpn)
        w == FirstWay(HitWays(st.tlb, vpn))
    IN  ensure_ad_bits(Used(st, s, w, st.tlb[s][w].frame), s, w, mode.op)

translate_hit(st, vpn, mode) ==
    LET s == set_index(vpn)
        w == FirstWay(HitWays(st.tlb, vpn))
        e == st.tlb[s][w]
    IN  IF ~check_permissions(e, sstatus, mode)
        THEN [st EXCEPT !.cause = get_current_cause(mode.op)]
        ELSE ensure_ad_bits(Used(st, s, w, e.frame), s, w, mode.op)

translate_miss(st, vpn, mode, random) ==
    LET s      == set_index(vpn)
        res    == walk(st.pt, vpn, satp, sstatus, mode)
        victim == select_way(policy, st.row[s], random)
        e      == [valid |-> TRUE, vpn |-> vpn, frame |-> res.frame, slot |-> res.slot,
                   r |-> res.pte.r, w |-> res.pte.w, x |-> res.pte.x, u |-> res.pte.u,
                   a |-> res.pte.a, d |-> res.pte.d]
    IN  IF res.cause # "NONE" THEN [st EXCEPT !.cause = res.cause]
        ELSE ensure_ad_bits([Used(st, s, victim, res.frame) EXCEPT !.tlb[s][victim] = e],
                            s, victim, mode.op)

\* translate_and_read and translate_and_write go through the pages in turn; what
\* the pages before a fault did stays done.
translate_page(st, vpn, mode, random) ==
    IF st.cause # "NONE" THEN st
    ELSE IF ~should_translate(VmEnabled, satp, mode.priv)
         THEN [st EXCEPT !.frames = Append(@, vpn)]
    ELSE IF HitWays(st.tlb, vpn) # {} THEN translate_hit(st, vpn, mode)
    ELSE translate_miss(st, vpn, mode, random)

(***************************************************************************)
(* Actions                                                                 *)
(***************************************************************************)
Randoms == IF policy = "RAND" THEN WayIds ELSE {0}

NoWay == [set |-> 0, way |-> -1]

Access(mode, pages, random) ==
    LET type == type_of(mode.op)
        translated == should_translate(VmEnabled, satp, mode.priv)
        start == [pt |-> pt, tlb |-> table[type], row |-> rows[type], set |-> 0, way |-> -1,
                  frames |-> <<>>, cause |-> "NONE"]
        done[n \in 0 .. Len(pages)] ==
            IF n = 0 THEN start ELSE translate_page(done[n - 1], pages[n], mode, random[n])
        end == done[Len(pages)]
    IN  /\ Disciplined /\ translated => \A n \in 1 .. Len(pages) : pages[n] \notin unfenced
        /\ pt' = end.pt
        /\ table' = [table EXCEPT ![type] = end.tlb]
        /\ rows' = [rows EXCEPT ![type] = end.row]
        /\ policy = "LFU" => \A s \in SetIds, w \in WayIds : end.row[s][w] <= LfuMax
        /\ last' = [mode |-> mode, pages |-> pages, frames |-> end.frames, cause |-> end.cause,
                    used |-> [set |-> end.set, way |-> end.way]]
        /\ UNCHANGED <<satp, sstatus, policy, writes, unfenced>>

fetch(acc, random) == acc.mode.op = "FETCH" /\ Access(acc.mode, acc.pages, random)

read(acc, random) == acc.mode.op = "READ" /\ Access(acc.mode, acc.pages, random)

write(acc, random) == acc.mode.op = "WRITE" /\ Access(acc.mode, acc.pages, random)

\* Pages whose walk gives another mapping with tables pt2 and root satp2.
Remapped(pt2, satp2) ==
    {vpn \in VpnRange : ~SameMapping(find_leaf(pt, vpn, satp), find_leaf(pt2, vpn, satp2))}

\* Software stores a page table entry, with translation off (machine mode).
WritePte(slot, pte) ==
    /\ writes < MaxPteWrites
    /\ Entry(pt, slot) # pte
    /\ pt' = [pt EXCEPT ![slot[1]][slot[2]] = pte]
    /\ writes' = writes + 1
    /\ unfenced' = unfenced \cup Remapped(pt', satp)
    /\ UNCHANGED <<satp, sstatus, policy, table, rows, last>>

Flushed == [type \in TlbTypes |-> [s \in SetIds |-> [w \in WayIds |-> NoEntry]]]

\* Both TLBs without their entries for some pages.
Without(vpns) ==
    [type \in TlbTypes |-> [s \in SetIds |-> [w \in WayIds |->
        LET e == table[type][s][w] IN IF e.valid /\ e.vpn \in vpns THEN NoEntry ELSE e]]]

\* on_csr_write(SATP): the entries go only when translation is switched on or off.
satp_flush(value) == IF value.on # satp.on THEN Flushed ELSE table

WriteSatp(value) ==
    /\ value # satp
    /\ satp' = value
    /\ table' = satp_flush(value)
    /\ unfenced' = IF value.on # satp.on THEN {} ELSE unfenced \cup Remapped(pt, value)
    /\ UNCHANGED <<pt, sstatus, policy, rows, last, writes>>

\* on_csr_write(SSTATUS)
WriteSstatus(value) ==
    /\ value # sstatus
    /\ sstatus' = value
    /\ UNCHANGED <<pt, satp, policy, table, rows, last, writes, unfenced>>

\* Mutant: a fence of one page looks only at the DATA TLB.
flush_by_vpn_Data(vpn) == [Without({vpn}) EXCEPT !["PROGRAM"] = table["PROGRAM"]]

flush_by_vpn(vpn) == Without({vpn})

\* sfence.vma with an address and no ASID.  (This and FenceAsid are the interface of
\* the TLB: instruction.cpp gives sfence.vma no flag that reads its registers, so the
\* core always asks for FenceAll.)
FencePage(vpn) ==
    /\ table' = flush_by_vpn(vpn)
    /\ unfenced' = unfenced \ {vpn}
    /\ UNCHANGED <<pt, satp, sstatus, policy, rows, last, writes>>

\* sfence.vma with neither
FenceAll ==
    /\ table' = Flushed
    /\ unfenced' = {}
    /\ UNCHANGED <<pt, satp, sstatus, policy, rows, last, writes>>

\* sfence.vma with an ASID, with an address (flush_single) or without one
\* (flush_by_asid): every entry has ASID 0, so none goes, and no page is fenced.
FenceAsid(vpn) ==
    /\ table' = Without({})
    /\ UNCHANGED <<pt, satp, sstatus, policy, rows, last, writes, unfenced>>

Init ==
    /\ pt \in InitTables
    /\ satp \in {s \in Satps : ~s.on}
    /\ sstatus = [sum |-> FALSE, mxr |-> FALSE]
    /\ policy \in Policies
    /\ table = Flushed
    /\ rows = [type \in TlbTypes |-> [s \in SetIds |-> RowInit(policy)]]
    /\ last = [mode |-> [priv |-> "MACHINE", op |-> "FETCH"], pages |-> <<>>, frames |-> <<>>,
               cause |-> "NONE", used |-> NoWay]
    /\ writes = 0
    /\ unfenced = {}

Next ==
    \/ \E acc \in Accesses, random \in [1 .. 2 -> Randoms] :
          fetch(acc, random) \/ read(acc, random) \/ write(acc, random)
    \/ \E sp \in PteWrites : WritePte(sp[1], sp[2])
    \/ \E value \in Satps : WriteSatp(value)
    \/ \E value \in Sstatuses : WriteSstatus(value)
    \/ \E vpn \in VpnRange : FencePage(vpn) \/ FenceAsid(vpn)
    \/ FenceAll

Spec == Init /\ [][Next]_vars

(***************************************************************************)
(* Properties                                                              *)
(***************************************************************************)
\* No page has two entries in a TLB, and an entry is in the set of its page:
\* otherwise flush_single, which looks at one set, would miss one.
UniqueTranslations ==
    \A type \in TlbTypes, s1, s2 \in SetIds, w1, w2 \in WayIds :
        LET e1 == table[type][s1][w1]
            e2 == table[type][s2][w2]
        IN  e1.valid /\ e2.valid /\ e1.vpn = e2.vpn => s1 = s2 /\ w1 = w2 /\ s1 = set_index(e1.vpn)

\* An entry for a page that was fenced since its translation changed is what a
\* walk would find now: the same frame, the same slot, the same permissions.  (Its A
\* and D bits may not be: software may clear them in memory, without a fence.)
FencedEntriesMatchWalk ==
    \A type \in TlbTypes, s \in SetIds, w \in WayIds :
        LET e == table[type][s][w]
            leaf == find_leaf(pt, e.vpn, satp)
        IN  e.valid /\ e.vpn \notin unfenced =>
                /\ leaf.found
                /\ leaf.frame = e.frame /\ leaf.slot = e.slot
                /\ \A f \in {"r", "w", "x", "u"} : e[f] = leaf.pte[f]

\* A page that a store went through is marked dirty in memory when the store is
\* done, however the TLB held it.
StoredPagesDirty ==
    [][last'.mode.op = "WRITE" /\ should_translate(VmEnabled, satp, last'.mode.priv)
       /\ last' # last =>
          \A n \in 1 .. Len(last'.frames) :
             LET res == walk(pt', last'.pages[n], satp, sstatus, last'.mode)
             IN  res.cause = "NONE" => res.pte.a /\ res.pte.d]_vars

\* Under LRU and PLRU the entry an access used is not the next to be replaced.
UsedNotNextVictim ==
    policy \in {"LRU", "PLRU"} /\ Ways > 1 /\ last.used.way # -1 =>
        select_way(policy, rows[type_of(last.mode.op)][last.used.set], 0) # last.used.way

Direct == INSTANCE DirectWalk WITH
    last <- [mode |-> last.mode, pages |-> last.pages, frames |-> last.frames, cause |-> last.cause]

\* With software that fences, the TLBs are not to be noticed: every access has
\* the outcome of a walk, and leaves the page tables as a walk would.
ImplementsDirectWalk == Direct!Spec
=============================================================================
