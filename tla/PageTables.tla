----------------------------- MODULE PageTables -----------------------------
(***************************************************************************)
(* Page tables and the walk over them: src/machine/memory/virtual/ and the *)
(* permission check of memory_utils.h.  A virtual page number is a number  *)
(* of Levels digits in base TableSize (Sv32: 2 levels of 2^10 entries,     *)
(* Sv39: 3 levels of 2^9).  A page table entry is the record of its        *)
(* fields; page tables live in the physical frames Tables.                 *)
(***************************************************************************)
EXTENDS Integers, Sequences

CONSTANTS
    Levels,      \* Sv32 has 2, Sv39 has 3
    TableSize,   \* entries of a table: 2^VPN_BITS
    Tables,      \* the physical frames that hold page tables
    Frames       \* the physical frames of the machine

ASSUME PageTablesAssumption ==
    /\ Levels \in Nat \ {0}
    /\ TableSize \in Nat \ {0, 1}
    /\ Frames \subseteq Nat
    /\ Tables \subseteq Frames

LevelIds == 0 .. Levels - 1
Indices == 0 .. TableSize - 1

\* The number of pages a leaf of level lvl maps.
Span[lvl \in 0 .. Levels] == IF lvl = 0 THEN 1 ELSE TableSize * Span[lvl - 1]

VpnRange == 0 .. Span[Levels] - 1

PteFields == [v : BOOLEAN, r : BOOLEAN, w : BOOLEAN, x : BOOLEAN, u : BOOLEAN,
        a : BOOLEAN, d : BOOLEAN, ppn : Frames]

is_leaf(pte) == pte.r \/ pte.x

is_valid(pte) == pte.v /\ (pte.w => pte.r)

\* What page tables hold: an entry that is no leaf points to a page table.  (An
\* operating system that points one elsewhere has its data read as entries; the
\* words of other frames are not kept here.)
Pte == {pte \in PteFields : is_leaf(pte) \/ pte.ppn \in Tables}

\* An access covers one page, or the end of one and the start of the next.
PageRuns == {<<v>> : v \in VpnRange} \cup {<<v, v + 1>> : v \in VpnRange \ {Span[Levels] - 1}}

PrivilegeLevels == {"UNPRIVILEGED", "SUPERVISOR", "MACHINE"}
AccessOps == {"FETCH", "READ", "WRITE"}
AccessMode == [priv : PrivilegeLevels, op : AccessOps]

\* The fields of sstatus that translation looks at.
Sstatus == [sum : BOOLEAN, mxr : BOOLEAN]

Satp == [on : BOOLEAN, root : Tables]

check_permissions(pte, sstatus, mode) ==
    /\ mode.priv = "UNPRIVILEGED" => pte.u
    /\ mode.priv = "SUPERVISOR" /\ pte.u /\ mode.op \in {"READ", "WRITE"} => sstatus.sum
    /\ \/ mode.op = "READ" /\ (pte.r \/ (sstatus.mxr /\ pte.x))
       \/ mode.op = "WRITE" /\ pte.w
       \/ mode.op = "FETCH" /\ pte.x

get_current_cause(op) ==
    CASE op = "FETCH" -> "INSN_PAGE_FAULT"
      [] op = "WRITE" -> "STORE_PAGE_FAULT"
      [] op = "READ"  -> "LOAD_PAGE_FAULT"

vpn_idx(vpn, lvl) == (vpn \div Span[lvl]) % TableSize

\* The frame of page vpn under a leaf of level lvl.
make_phys(pte, vpn, lvl) == (pte.ppn - (pte.ppn % Span[lvl])) + (vpn % Span[lvl])

\* Slots of page tables, the addresses of their entries.
Slots == Tables \X Indices

Entry(pt, slot) == pt[slot[1]][slot[2]]

(***************************************************************************)
(* The walk of page vpn from the root down.  find_leaf is the walk without *)
(* the check of the access: the leaf found, its slot and the frame, or     *)
(* nothing (an entry that is not valid, a misaligned superpage, no leaf at *)
(* level 0; a valid entry that is no leaf has no R, W or X).               *)
(***************************************************************************)
NoLeaf == [found |-> FALSE]

leaf_result(pt, vpn, lvl, slot) ==
    LET pte == Entry(pt, slot)
    IN  IF pte.ppn % Span[lvl] # 0 THEN NoLeaf
        ELSE [found |-> TRUE, frame |-> make_phys(pte, vpn, lvl), slot |-> slot, pte |-> pte]

find_leaf(pt, vpn, satp) ==
    LET from[lvl \in LevelIds] ==
            [frame \in Tables |->
                LET slot == <<frame, vpn_idx(vpn, lvl)>>
                    pte  == Entry(pt, slot)
                IN  IF ~is_valid(pte) THEN NoLeaf
                    ELSE IF is_leaf(pte) THEN leaf_result(pt, vpn, lvl, slot)
                    ELSE IF lvl = 0 THEN NoLeaf
                    ELSE from[lvl - 1][pte.ppn]]
    IN  from[Levels - 1][satp.root]

walk(pt, vpn, satp, sstatus, mode) ==
    LET leaf == find_leaf(pt, vpn, satp)
    IN  IF ~leaf.found \/ ~check_permissions(leaf.pte, sstatus, mode)
        THEN [cause |-> get_current_cause(mode.op)]
        ELSE [cause |-> "NONE", frame |-> leaf.frame, slot |-> leaf.slot, pte |-> leaf.pte]

\* The two leaves are the same entry, with the same permissions: all that may
\* differ is the A and D bits.
SameMapping(l1, l2) ==
    /\ l1.found = l2.found
    /\ l1.found =>
          /\ l1.slot = l2.slot
          /\ l1.frame = l2.frame
          /\ \A f \in {"r", "w", "x", "u"} : l1.pte[f] = l2.pte[f]

\* Whether an access of this mode is translated at all.
should_translate(vm_enabled, satp, priv) == vm_enabled /\ satp.on /\ priv # "MACHINE"

\* The A bit of an entry that was used, and its D bit if it was written through.
with_ad_bits(pte, op) == [pte EXCEPT !.a = TRUE, !.d = @ \/ op = "WRITE"]
=============================================================================
