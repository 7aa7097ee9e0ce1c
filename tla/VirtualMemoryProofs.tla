------------------------ MODULE VirtualMemoryProofs ------------------------
(***************************************************************************)
(* Proofs about virtual memory, for page tables of any depth and contents, *)
(* TLBs of any shape and every policy: the entries of a TLB are unique and *)
(* agree with the tables, and with software that fences an access through  *)
(* the TLB is one that walks the tables.                                   *)
(***************************************************************************)
EXTENDS VirtualMemory, WellFoundedInduction, TLAPS

(***************************************************************************)
(* Numbers                                                                 *)
(***************************************************************************)
\* A set of natural numbers that is not empty has a least element.
LEMMA LeastExists ==
    ASSUME NEW S \in SUBSET Nat, S # {}
    PROVE  \E i \in S : \A j \in S : i <= j
<1>1. PICK x \in S : \A y \in S : ~ (<<y, x>> \in OpToRel(<, Nat))
  BY NatLessThanWellFounded, WFMin, Zenon
<1>2. \A y \in S : ~ (y < x)
  BY <1>1 DEF OpToRel
<1> QED
  BY <1>2

\* Induction up to a bound: a set that holds 0, and with a number the next one, holds
\* every number up to the bound.
LEMMA UpTo ==
    ASSUME NEW n \in Nat, NEW S, 0 \in S, \A i \in 1 .. n : i - 1 \in S => i \in S
    PROVE  \A i \in 0 .. n : i \in S
<1> DEFINE bad == {i \in 0 .. n : i \notin S}
<1>1. SUFFICES ASSUME bad # {} PROVE FALSE
  OBVIOUS
<1>2. bad \in SUBSET Nat
  OBVIOUS
<1>3. PICK m \in bad : \A j \in bad : m <= j
  BY <1>1, <1>2, LeastExists
<1>4. m \in 1 .. n /\ m - 1 \in 0 .. n
  BY <1>3
<1>5. m - 1 \notin bad
  <2> HIDE DEF bad
  <2> QED
    BY <1>3, <1>4
<1> QED
  BY <1>3, <1>4, <1>5

\* A power, by its recursive definition on 0 .. n: the function exists.
LEMMA PowerFunction ==
    ASSUME NEW n \in Nat, NEW b
    PROVE  \E f : f = [i \in 0 .. n |-> IF i = 0 THEN 1 ELSE b * f[i - 1]]
<1> DEFINE IsPower(f, m) == f = [i \in 0 .. m |-> IF i = 0 THEN 1 ELSE b * f[i - 1]]
           S == {m \in Nat : \E f : IsPower(f, m)}
<1>1. 0 \in S
  <2>1. IsPower([i \in 0 .. 0 |-> 1], 0)
    OBVIOUS
  <2> QED
    BY <2>1
<1>2. ASSUME NEW m \in 1 .. n, m - 1 \in S PROVE m \in S
  <2>1. PICK f : IsPower(f, m - 1)
    BY <1>2
  <2> DEFINE h == [i \in 0 .. m |-> IF i = 0 THEN 1 ELSE b * f[i - 1]]
  <2>2. \A i \in 0 .. m - 1 : h[i] = f[i]
    BY <2>1
  <2> HIDE DEF h
  <2>3. \A i \in 0 .. m : i # 0 => h[i - 1] = f[i - 1]
    BY <2>2
  <2> USE DEF h
  <2>4. IsPower(h, m)
    BY <2>3
  <2> HIDE DEF h, IsPower
  <2> QED
    BY <2>4
<1> HIDE DEF S
<1>3. n \in S
  BY <1>1, <1>2, UpTo
<1> USE DEF S
<1> QED
  BY <1>3

\* The number of pages under an entry of a level.
LEMMA SpanPositive == \A lvl \in 0 .. Levels : Span[lvl] \in Nat \ {0}
<1> USE PageTablesAssumption
<1>1. \E f : f = [i \in 0 .. Levels |-> IF i = 0 THEN 1 ELSE TableSize * f[i - 1]]
  BY PowerFunction, ZenonT(40)
<1>2. Span = [i \in 0 .. Levels |-> IF i = 0 THEN 1 ELSE TableSize * Span[i - 1]]
  BY <1>1, Zenon DEF Span
<1> DEFINE S == {i \in 0 .. Levels : Span[i] \in Nat \ {0}}
<1>3. 0 \in S
  BY <1>2
<1>4. ASSUME NEW i \in 1 .. Levels, i - 1 \in S PROVE i \in S
  BY <1>2, <1>4
<1> HIDE DEF S
<1>5. \A i \in 0 .. Levels : i \in S
  BY <1>3, <1>4, UpTo
<1> USE DEF S
<1> QED
  BY <1>5

\* Page numbers are natural numbers.
LEMMA VpnIsNumber == VpnRange \subseteq Nat
<1>1. Span[Levels] \in Nat
  BY SpanPositive, PageTablesAssumption
<1> QED
  BY <1>1 DEF VpnRange

(***************************************************************************)
(* The walk                                                                *)
(***************************************************************************)
PageTableSet == [Tables -> [Indices -> Pte]]

\* An entry of a page, as the walk indexes it.
LEMMA IndexInTable ==
    ASSUME NEW vpn \in Nat, NEW lvl \in LevelIds
    PROVE  vpn_idx(vpn, lvl) \in Indices
<1>1. Span[lvl] \in Nat \ {0}
  BY SpanPositive, PageTablesAssumption DEF LevelIds
<1>2. vpn \div Span[lvl] \in Int
  BY <1>1
<1> QED
  BY <1>2, PageTablesAssumption DEF vpn_idx, Indices

\* What the walk of `vpn` makes of the entry it meets at a level in a table, when
\* `below` is the walk from the next level.
LeafAt(t, vpn, lvl, frame, below) ==
    LET slot == <<frame, vpn_idx(vpn, lvl)>>
        pte  == Entry(t, slot)
    IN  IF ~is_valid(pte) THEN NoLeaf
        ELSE IF is_leaf(pte) THEN leaf_result(t, vpn, lvl, slot)
        ELSE IF lvl = 0 THEN NoLeaf
        ELSE below[lvl - 1][pte.ppn]

IsWalk(g, t, vpn, n) == g = [lvl \in 0 .. n |-> [frame \in Tables |-> LeafAt(t, vpn, lvl, frame, g)]]

\* The recursive function in find_leaf exists.
LEMMA WalkFunction ==
    ASSUME NEW t, NEW vpn
    PROVE  \E g : /\ IsWalk(g, t, vpn, Levels - 1)
                  /\ \A root : find_leaf(t, vpn, root) = g[Levels - 1][root.root]
<1> USE PageTablesAssumption
<1> DEFINE S == {m \in Nat : \E g : IsWalk(g, t, vpn, m)}
<1>1. 0 \in S
  <2> DEFINE h == [lvl \in 0 .. 0 |-> [frame \in Tables |-> LeafAt(t, vpn, lvl, frame, <<>>)]]
  <2>1. \A lvl \in 0 .. 0 : \A frame \in Tables :
           LeafAt(t, vpn, lvl, frame, <<>>) = LeafAt(t, vpn, lvl, frame, h)
    BY DEF LeafAt
  <2>2. h = [lvl \in 0 .. 0 |-> [frame \in Tables |-> LeafAt(t, vpn, lvl, frame, h)]]
    BY <2>1
  <2> HIDE DEF h
  <2>3. IsWalk(h, t, vpn, 0)
    BY <2>2 DEF IsWalk
  <2> QED
    BY <2>3
<1>2. ASSUME NEW m \in 1 .. Levels - 1, m - 1 \in S PROVE m \in S
  <2>1. PICK g : IsWalk(g, t, vpn, m - 1)
    BY <1>2
  <2> DEFINE h == [lvl \in 0 .. m |-> [frame \in Tables |-> LeafAt(t, vpn, lvl, frame, g)]]
  <2>2. \A i \in 0 .. m - 1 : h[i] = g[i]
    <3> TAKE i \in 0 .. m - 1
    <3> HIDE DEF S
    <3>1. g[i] = [frame \in Tables |-> LeafAt(t, vpn, i, frame, g)]
      BY <2>1 DEF IsWalk
    <3>2. i \in 0 .. m
      OBVIOUS
    <3> QED
      BY <3>1, <3>2
  <2>h. h = [lvl \in 0 .. m |-> [frame \in Tables |-> LeafAt(t, vpn, lvl, frame, g)]]
    OBVIOUS
  <2> HIDE DEF h
  <2>3. \A lvl \in 0 .. m : \A frame \in Tables :
           LeafAt(t, vpn, lvl, frame, g) = LeafAt(t, vpn, lvl, frame, h)
    <3> TAKE lvl \in 0 .. m
    <3> TAKE frame \in Tables
    <3>1. lvl # 0 => h[lvl - 1] = g[lvl - 1]
      BY <2>2
    <3> QED
      BY <3>1 DEF LeafAt
  <2>4. h = [lvl \in 0 .. m |-> [frame \in Tables |-> LeafAt(t, vpn, lvl, frame, h)]]
    BY <2>3, <2>h
  <2>5. IsWalk(h, t, vpn, m)
    BY <2>4 DEF IsWalk
  <2> QED
    BY <2>5
<1> HIDE DEF S
<1>3. Levels - 1 \in S
  BY <1>1, <1>2, UpTo
<1> USE DEF S
<1>4. \E g : IsWalk(g, t, vpn, Levels - 1)
  BY <1>3
<1> DEFINE from == CHOOSE g : IsWalk(g, t, vpn, Levels - 1)
<1>5. IsWalk(from, t, vpn, Levels - 1)
  <2> HIDE DEF IsWalk
  <2> QED
    BY <1>4, Zenon
<1>6. \A root : find_leaf(t, vpn, root) = from[Levels - 1][root.root]
  BY DEF find_leaf, IsWalk, LeafAt, LevelIds
<1> HIDE DEF from
<1> QED
  BY <1>5, <1>6

(***************************************************************************)
(* Marking                                                                 *)
(***************************************************************************)
\* Two page tables that differ in A and D bits only.
Similar(t1, t2) ==
    \A slot \in Slots : \A f \in {"v", "r", "w", "x", "u", "ppn"} : Entry(t1, slot)[f] = Entry(t2, slot)[f]

Leaf(t, slot, frame) == [found |-> TRUE, frame |-> frame, slot |-> slot, pte |-> Entry(t, slot)]

\* The same leaf in two page tables, or none in both.
SameLeaf(t1, t2, l1, l2) ==
    \/ l1 = NoLeaf /\ l2 = NoLeaf
    \/ \E slot \in Slots, frame \in Int : l1 = Leaf(t1, slot, frame) /\ l2 = Leaf(t2, slot, frame)

\* The entries of a page table.
LEMMA EntryType ==
    ASSUME NEW t \in PageTableSet, NEW slot \in Slots
    PROVE  Entry(t, slot) \in Pte
  BY DEF PageTableSet, Slots, Entry

\* One level of the walk does the same in both.
LEMMA LeafAtSame ==
    ASSUME NEW t1 \in PageTableSet, NEW t2 \in PageTableSet, Similar(t1, t2),
           NEW vpn \in Nat, NEW lvl \in LevelIds, NEW frame \in Tables, NEW g1, NEW g2,
           lvl # 0 => \A f \in Tables : SameLeaf(t1, t2, g1[lvl - 1][f], g2[lvl - 1][f])
    PROVE  SameLeaf(t1, t2, LeafAt(t1, vpn, lvl, frame, g1), LeafAt(t2, vpn, lvl, frame, g2))
<1> DEFINE slot == <<frame, vpn_idx(vpn, lvl)>>
           p1 == Entry(t1, slot)
           p2 == Entry(t2, slot)
<1>1. slot \in Slots
  BY IndexInTable DEF Slots
<1>2. p1 \in Pte /\ p2 \in Pte
  BY <1>1, EntryType
<1>3. p1.v = p2.v /\ p1.r = p2.r /\ p1.w = p2.w /\ p1.x = p2.x /\ p1.u = p2.u /\ p1.ppn = p2.ppn
  BY <1>1 DEF Similar
<1>4. Span[lvl] \in Nat \ {0} /\ lvl \in Nat
  BY SpanPositive, PageTablesAssumption DEF LevelIds
<1>5. p1.ppn \in Nat /\ (is_leaf(p1) \/ p1.ppn \in Tables)
  BY <1>2, PageTablesAssumption DEF Pte, PteFields
<1> HIDE DEF slot, p1, p2
<1>6. is_valid(p1) = is_valid(p2) /\ is_leaf(p1) = is_leaf(p2)
  BY <1>3 DEF is_valid, is_leaf
<1>7. make_phys(p1, vpn, lvl) = make_phys(p2, vpn, lvl) /\ make_phys(p1, vpn, lvl) \in Int
  BY <1>3, <1>4, <1>5 DEF make_phys
<1>8. LeafAt(t1, vpn, lvl, frame, g1) =
         IF ~is_valid(p1) THEN NoLeaf
         ELSE IF is_leaf(p1) THEN leaf_result(t1, vpn, lvl, slot)
         ELSE IF lvl = 0 THEN NoLeaf
         ELSE g1[lvl - 1][p1.ppn]
  BY DEF LeafAt, slot, p1
<1>9. LeafAt(t2, vpn, lvl, frame, g2) =
         IF ~is_valid(p2) THEN NoLeaf
         ELSE IF is_leaf(p2) THEN leaf_result(t2, vpn, lvl, slot)
         ELSE IF lvl = 0 THEN NoLeaf
         ELSE g2[lvl - 1][p2.ppn]
  BY DEF LeafAt, slot, p2
<1>10. SameLeaf(t1, t2, NoLeaf, NoLeaf)
  BY DEF SameLeaf
<1>11. SameLeaf(t1, t2, leaf_result(t1, vpn, lvl, slot), leaf_result(t2, vpn, lvl, slot))
  <2>1. CASE p1.ppn % Span[lvl] # 0
    BY <1>3, <1>10, <2>1 DEF leaf_result, p1, p2
  <2>2. CASE p1.ppn % Span[lvl] = 0
    <3>1. /\ leaf_result(t1, vpn, lvl, slot) = Leaf(t1, slot, make_phys(p1, vpn, lvl))
          /\ leaf_result(t2, vpn, lvl, slot) = Leaf(t2, slot, make_phys(p2, vpn, lvl))
      BY <1>3, <2>2 DEF leaf_result, p1, p2, Leaf
    <3> QED
      BY <1>1, <1>7, <3>1 DEF SameLeaf
  <2> QED
    BY <2>1, <2>2
<1> QED
  BY <1>3, <1>5, <1>6, <1>8, <1>9, <1>10, <1>11

\* The function, level by level.
LEMMA WalkAt ==
    ASSUME NEW g, NEW t, NEW vpn, IsWalk(g, t, vpn, Levels - 1), NEW lvl \in LevelIds, NEW frame \in Tables
    PROVE  g[lvl][frame] = LeafAt(t, vpn, lvl, frame, g)
<1>1. g[lvl] = [f \in Tables |-> LeafAt(t, vpn, lvl, f, g)]
  BY DEF IsWalk, LevelIds
<1> QED
  BY <1>1

\* So the whole walk does, whatever the depth of the tables.
LEMMA WalkSame ==
    ASSUME NEW t1 \in PageTableSet, NEW t2 \in PageTableSet, Similar(t1, t2),
           NEW vpn \in Nat, NEW root \in Satp
    PROVE  SameLeaf(t1, t2, find_leaf(t1, vpn, root), find_leaf(t2, vpn, root))
<1> USE PageTablesAssumption
<1>1. PICK g1 : /\ IsWalk(g1, t1, vpn, Levels - 1)
                /\ \A s : find_leaf(t1, vpn, s) = g1[Levels - 1][s.root]
  BY WalkFunction
<1>2. PICK g2 : /\ IsWalk(g2, t2, vpn, Levels - 1)
                /\ \A s : find_leaf(t2, vpn, s) = g2[Levels - 1][s.root]
  BY WalkFunction
<1>3. \A lvl \in LevelIds : \A frame \in Tables :
         /\ g1[lvl][frame] = LeafAt(t1, vpn, lvl, frame, g1)
         /\ g2[lvl][frame] = LeafAt(t2, vpn, lvl, frame, g2)
  BY <1>1, <1>2, WalkAt
<1> DEFINE S == {lvl \in LevelIds : \A frame \in Tables : SameLeaf(t1, t2, g1[lvl][frame], g2[lvl][frame])}
<1>4. 0 \in LevelIds /\ \A i \in 1 .. Levels - 1 : i \in LevelIds /\ i # 0
  BY DEF LevelIds
<1>5. 0 \in S
  BY <1>3, <1>4, LeafAtSame
<1>6. ASSUME NEW i \in 1 .. Levels - 1, i - 1 \in S PROVE i \in S
  BY <1>3, <1>4, <1>6, LeafAtSame
<1> HIDE DEF S
<1>7. Levels - 1 \in S
  BY <1>5, <1>6, UpTo
<1> USE DEF S
<1>8. root.root \in Tables
  BY DEF Satp
<1> QED
  BY <1>1, <1>2, <1>7, <1>8

(***************************************************************************)
(* Replacement policies                                                    *)
(***************************************************************************)
\* Powers of two.
LEMMA Pow2Facts ==
    /\ Pow2[0] = 1
    /\ \A i \in 1 .. Ways : Pow2[i] = 2 * Pow2[i - 1]
    /\ \A i \in 0 .. Ways : Pow2[i] \in Nat /\ Pow2[i] > i
<1> USE WaysAssumption
<1>1. \E f : f = [i \in 0 .. Ways |-> IF i = 0 THEN 1 ELSE 2 * f[i - 1]]
  BY PowerFunction
<1>2. Pow2 = [i \in 0 .. Ways |-> IF i = 0 THEN 1 ELSE 2 * Pow2[i - 1]]
  BY <1>1, Zenon DEF Pow2
<1>3. Pow2[0] = 1
  BY <1>2
<1>4. ASSUME NEW i \in 1 .. Ways PROVE Pow2[i] = 2 * Pow2[i - 1]
  BY <1>2
<1> DEFINE S == {i \in 0 .. Ways : Pow2[i] \in Nat /\ Pow2[i] > i}
<1>5. 0 \in S
  BY <1>3
<1>6. ASSUME NEW i \in 1 .. Ways, i - 1 \in S PROVE i \in S
  BY <1>4, <1>6
<1> HIDE DEF S
<1>7. \A i \in 0 .. Ways : i \in S
  BY <1>5, <1>6, UpTo
<1> USE DEF S
<1> QED
  BY <1>3, <1>4, <1>7

\* A larger exponent gives a larger power.
LEMMA Pow2Grows ==
    ASSUME NEW n \in 0 .. Ways
    PROVE  \A i \in 0 .. n : Pow2[i] <= Pow2[n]
<1> USE WaysAssumption, Pow2Facts
<1> DEFINE S == {m \in 0 .. Ways : \A i \in 0 .. m : Pow2[i] <= Pow2[m]}
<1>1. 0 \in S
  OBVIOUS
<1>2. ASSUME NEW m \in 1 .. Ways, m - 1 \in S PROVE m \in S
  <2>1. Pow2[m] = 2 * Pow2[m - 1] /\ Pow2[m - 1] \in Nat
    OBVIOUS
  <2>2. \A i \in 0 .. m - 1 : Pow2[i] <= Pow2[m - 1] /\ Pow2[i] \in Nat
    BY <1>2
  <2>3. ASSUME NEW i \in 0 .. m PROVE Pow2[i] <= Pow2[m]
    BY <2>1, <2>2
  <2> QED
    BY <2>3
<1> HIDE DEF S
<1>3. n \in S
  BY <1>1, <1>2, UpTo
<1> USE DEF S
<1> QED
  BY <1>3

\* The depth of the tree is that of the smallest power that covers the ways.
LEMMA CLog2Facts ==
    /\ c_log2 \in 0 .. Ways
    /\ Pow2[c_log2] >= Ways
    /\ c_log2 = 0 \/ Pow2[c_log2 - 1] < Ways
<1> USE WaysAssumption, Pow2Facts
<1> DEFINE S == {n \in 0 .. Ways : Pow2[n] >= Ways}
<1>1. Ways \in S /\ S \in SUBSET Nat
  OBVIOUS
<1>2. PICK n \in S : \A m \in S : n <= m
  <2> HIDE DEF S
  <2> QED
    BY <1>1, LeastExists
<1>3. n \in 0 .. Ways /\ Pow2[n] >= Ways
  OBVIOUS
<1>4. n = 0 \/ Pow2[n - 1] < Ways
  <2>1. SUFFICES ASSUME n # 0 PROVE n - 1 \notin S
    BY <1>3
  <2> QED
    BY <1>2, <1>3, <2>1
<1>5. \E k \in 0 .. Ways : Pow2[k] >= Ways /\ (k = 0 \/ Pow2[k - 1] < Ways)
  BY <1>3, <1>4
<1> QED
  BY <1>5 DEF c_log2

\* What a policy keeps for a set.
GoodRow(p, row) ==
    /\ p = "LRU" => /\ row \in [WayIds -> WayIds]
                    /\ \A i, j \in WayIds : row[i] = row[j] => i = j
                    /\ \A w \in WayIds : \E j \in WayIds : row[j] = w
    /\ p = "RAND" => row = <<>>
    /\ p = "LFU" => row \in [WayIds -> Nat]
    /\ p = "PLRU" => row \in [TreeNodes -> {0, 1}]

\* PLRU's path: below the root it stays in the half the root's bit names.
PathIn(i, lvl, tree) ==
    /\ i \in 0 .. Pow2[lvl] - 1
    /\ lvl > 0 => IF tree[0] = 0 THEN i < Pow2[lvl - 1] ELSE i >= Pow2[lvl - 1]

\* PLRU's choice is a way on that path, the last way standing for the ones that a set
\* that is no power of two lacks.
LEMMA PLRUPath ==
    ASSUME NEW tree \in [TreeNodes -> {0, 1}]
    PROVE  \E i : /\ PathIn(i, c_log2, tree)
                  /\ PLRUWay(tree) = IF i < Ways THEN i ELSE Ways - 1
<1> USE WaysAssumption
<1> DEFINE More(lvl, i) == 2 * i + tree[Pow2[lvl - 1] - 1 + i]
           IsPath(f, n) == f = [lvl \in 0 .. n |-> IF lvl = 0 THEN 0 ELSE More(lvl, f[lvl - 1])]
           S == {n \in Nat : \E f : IsPath(f, n)}
<1>1. c_log2 \in 0 .. Ways
  BY CLog2Facts
<1>2. 0 \in S
  <2>1. IsPath([i \in 0 .. 0 |-> 0], 0)
    OBVIOUS
  <2> HIDE DEF IsPath
  <2> QED
    BY <2>1
<1>3. ASSUME NEW m \in 1 .. c_log2, m - 1 \in S PROVE m \in S
  <2>1. PICK f : IsPath(f, m - 1)
    BY <1>3
  <2> HIDE DEF More, S
  <2> DEFINE h == [i \in 0 .. m |-> IF i = 0 THEN 0 ELSE More(i, f[i - 1])]
  <2>2. \A i \in 0 .. m - 1 : h[i] = f[i]
    <3> TAKE i \in 0 .. m - 1
    <3>1. f[i] = IF i = 0 THEN 0 ELSE More(i, f[i - 1])
      BY <2>1
    <3>2. i \in 0 .. m
      BY <1>1
    <3> QED
      BY <3>1, <3>2
  <2> HIDE DEF h
  <2>3. \A i \in 0 .. m : i # 0 => h[i - 1] = f[i - 1]
    BY <1>1, <2>2
  <2> USE DEF h
  <2>4. IsPath(h, m)
    BY <2>3
  <2> HIDE DEF h, IsPath
  <2> USE DEF S
  <2> QED
    BY <1>1, <2>4
<1> HIDE DEF S
<1>4. c_log2 \in S
  BY <1>1, <1>2, <1>3, UpTo
<1> USE DEF S
<1> DEFINE idx == CHOOSE f : IsPath(f, c_log2)
<1>5. IsPath(idx, c_log2)
  <2> HIDE DEF IsPath
  <2> QED
    BY <1>4, Zenon
<1>6. PLRUWay(tree) = IF idx[c_log2] < Ways THEN idx[c_log2] ELSE Ways - 1
  BY DEF PLRUWay
<1> HIDE DEF idx, S
<1> DEFINE T == {lvl \in 0 .. c_log2 : PathIn(idx[lvl], lvl, tree)}
<1>7. idx[0] = 0 /\ \A lvl \in 1 .. c_log2 : idx[lvl] = More(lvl, idx[lvl - 1])
  BY <1>1, <1>5
<1>8. 0 \in T
  BY <1>1, <1>7, Pow2Facts DEF PathIn
<1>9. ASSUME NEW lvl \in 1 .. c_log2, lvl - 1 \in T PROVE lvl \in T
  <2> DEFINE i == idx[lvl - 1]
             node == Pow2[lvl - 1] - 1 + i
  <2>1. /\ Pow2[lvl - 1] \in Nat /\ Pow2[lvl] \in Nat /\ Pow2[lvl] = 2 * Pow2[lvl - 1]
        /\ lvl - 1 > 0 => Pow2[lvl - 1] = 2 * Pow2[lvl - 2] /\ Pow2[lvl - 2] \in Nat
    BY <1>1, Pow2Facts
  <2>2. PathIn(i, lvl - 1, tree)
    BY <1>9
  <2>3. Pow2[lvl] <= Pow2[c_log2] /\ Pow2[c_log2] \in Nat
    BY <1>1, Pow2Grows, Pow2Facts
  <2>4. i \in 0 .. Pow2[lvl - 1] - 1
    BY <2>2 DEF PathIn
  <2>5. node \in TreeNodes
    BY <2>1, <2>3, <2>4 DEF TreeNodes
  <2>6. tree[node] \in {0, 1}
    BY <2>5
  <2>7. idx[lvl] = 2 * i + tree[node]
    BY <1>7
  <2>8. idx[lvl] \in 0 .. Pow2[lvl] - 1
    BY <2>1, <2>4, <2>6, <2>7
  <2>9. CASE lvl = 1
    <3>1. node = 0 /\ i = 0 /\ Pow2[0] = 1
      BY <2>4, <2>9, Pow2Facts
    <3> QED
      BY <2>6, <2>7, <2>8, <2>9, <3>1 DEF PathIn
  <2>10. CASE lvl # 1
    <3>1. lvl - 1 > 0 /\ (lvl - 1) - 1 = lvl - 2
      BY <1>1, <2>10
    <3>2. IF tree[0] = 0 THEN i < Pow2[lvl - 2] ELSE i >= Pow2[lvl - 2]
      BY <2>2, <3>1 DEF PathIn
    <3> HIDE DEF node, i
    <3>3. i \in Int
      BY <2>4
    <3>4. IF tree[0] = 0 THEN idx[lvl] < Pow2[lvl - 1] ELSE idx[lvl] >= Pow2[lvl - 1]
      BY <2>1, <2>6, <2>7, <3>1, <3>2, <3>3
    <3> QED
      BY <2>8, <3>4 DEF PathIn
  <2> QED
    BY <2>9, <2>10
<1> HIDE DEF T
<1>10. c_log2 \in T
  BY <1>1, <1>8, <1>9, UpTo
<1> USE DEF T
<1> QED
  BY <1>6, <1>10

\* The way to replace is a way of the set.
LEMMA SelectInSet ==
    ASSUME NEW p \in PolicyKinds, NEW row, GoodRow(p, row), NEW random \in WayIds
    PROVE  select_way(p, row, random) \in WayIds
<1> USE WaysAssumption
<1>1. CASE p = "RAND"
  BY <1>1 DEF select_way
<1>2. CASE p = "LRU"
  BY <1>2 DEF select_way, GoodRow, WayIds
<1>3. CASE p = "LFU"
  <2> DEFINE zeros == {w \in WayIds \ {0} : row[w] = 0}
             least == {w \in WayIds : \A v \in WayIds : row[w] <= row[v]}
             first == IF zeros # {} THEN zeros ELSE least
  <2>1. row \in [WayIds -> Nat] /\ WayIds \in SUBSET Nat /\ 0 \in WayIds
    BY <1>3 DEF GoodRow, WayIds
  <2>2. least # {}
    <3> DEFINE counts == {row[w] : w \in WayIds}
    <3>1. counts \in SUBSET Nat /\ counts # {}
      BY <2>1
    <3>2. PICK c \in counts : \A d \in counts : c <= d
      <4> HIDE DEF counts
      <4> QED
        BY <3>1, LeastExists
    <3> QED
      BY <3>2
  <2>3. first \in SUBSET Nat /\ first # {} /\ first \subseteq WayIds
    BY <2>1, <2>2
  <2> HIDE DEF first
  <2>4. \E w \in first : \A v \in first : w <= v
    BY <2>3, LeastExists
  <2>5. (CHOOSE w \in first : \A v \in first : w <= v) \in first
    BY <2>4
  <2>6. select_way(p, row, random) = CHOOSE w \in first : \A v \in first : w <= v
    BY <1>3 DEF select_way, LFUWay, first
  <2> QED
    BY <2>3, <2>5, <2>6
<1>4. CASE p = "PLRU"
  <2>1. PICK i : PathIn(i, c_log2, row) /\ PLRUWay(row) = IF i < Ways THEN i ELSE Ways - 1
    BY <1>4, PLRUPath DEF GoodRow
  <2>2. i \in Nat
    BY <2>1, CLog2Facts, Pow2Facts DEF PathIn
  <2> QED
    BY <1>4, <2>1, <2>2 DEF select_way, WayIds
<1> QED
  BY <1>1, <1>2, <1>3, <1>4 DEF PolicyKinds

\* The quotient of a number below the divisor.
LEMMA DivSmall ==
    ASSUME NEW a \in Nat, NEW b \in Nat, a < b
    PROVE  a \div b = 0
  OBVIOUS

\* A bit of a way.
dir_bit(way, lvl) == (way \div Pow2[c_log2 - lvl - 1]) % 2

\* It is a bit.
LEMMA DirIsBit ==
    ASSUME NEW way \in WayIds, NEW lvl \in 0 .. c_log2 - 1
    PROVE  dir_bit(way, lvl) \in {0, 1}
<1>1. c_log2 - lvl - 1 \in 0 .. Ways
  BY CLog2Facts, WaysAssumption
<1>2. Pow2[c_log2 - lvl - 1] \in Nat \ {0}
  BY <1>1, Pow2Facts
<1>3. way \in Int
  BY DEF WayIds
<1> QED
  BY <1>2, <1>3 DEF dir_bit

\* The use of a way keeps what the policies rely on.
LEMMA NotifyKeeps ==
    ASSUME NEW p \in PolicyKinds, NEW row, GoodRow(p, row), NEW way \in WayIds
    PROVE  GoodRow(p, notify_access(p, row, way))
<1> USE WaysAssumption
<1>1. CASE p = "RAND"
  BY <1>1 DEF GoodRow, notify_access
<1>2. CASE p = "LRU"
  <2>1. /\ row \in [WayIds -> WayIds] /\ \A i, j \in WayIds : row[i] = row[j] => i = j
        /\ \A w \in WayIds : \E j \in WayIds : row[j] = w
    BY <1>2 DEF GoodRow
  <2> DEFINE q == CHOOSE j \in WayIds : row[j] = way
             new == [i \in WayIds |-> IF i < q THEN row[i] ELSE IF i < Ways - 1 THEN row[i + 1] ELSE way]
  <2>2. q \in WayIds /\ row[q] = way
    BY <2>1
  <2>3. notify_access(p, row, way) = new
    BY <1>2 DEF notify_access
  <2> HIDE DEF q
  <2>4. new \in [WayIds -> WayIds]
    <3>1. \A i \in WayIds : i < Ways - 1 => i + 1 \in WayIds
      BY DEF WayIds
    <3> QED
      BY <2>1, <2>2, <3>1
  <2>5. ASSUME NEW i \in WayIds, NEW j \in WayIds, new[i] = new[j] PROVE i = j
    <3>1. i \in 0 .. Ways - 1 /\ j \in 0 .. Ways - 1 /\ q \in 0 .. Ways - 1
      BY <2>2 DEF WayIds
    <3>2. \A k \in WayIds : k < q => new[k] = row[k]
      OBVIOUS
    <3>3. \A k \in WayIds : ~(k < q) /\ k < Ways - 1 => new[k] = row[k + 1] /\ k + 1 \in WayIds
      BY DEF WayIds
    <3>4. \A k \in WayIds : ~(k < q) /\ ~(k < Ways - 1) => new[k] = row[q] /\ k = Ways - 1
      BY <2>2, <3>1 DEF WayIds
    <3> HIDE DEF new
    <3> QED
      BY <2>1, <2>2, <2>5, <3>1, <3>2, <3>3, <3>4, SMTT(40)
  <2>6. ASSUME NEW w \in WayIds PROVE \E j \in WayIds : new[j] = w
    <3>1. PICK j \in WayIds : row[j] = w
      BY <2>1
    <3>2. j \in 0 .. Ways - 1 /\ q \in 0 .. Ways - 1
      BY <2>2 DEF WayIds
    <3>3. CASE j < q
      BY <3>1, <3>3
    <3>4. CASE j = q
      <4>1. Ways - 1 \in WayIds /\ new[Ways - 1] = way
        BY <3>2, <2>2 DEF WayIds
      <4> QED
        BY <2>2, <3>1, <3>4, <4>1
    <3>5. CASE j > q
      <4>1. j - 1 \in WayIds /\ new[j - 1] = row[j]
        BY <3>2, <3>5 DEF WayIds
      <4> QED
        BY <3>1, <4>1
    <3> QED
      BY <3>2, <3>3, <3>4, <3>5
  <2> HIDE DEF new
  <2> QED
    BY <1>2, <2>3, <2>4, <2>5, <2>6 DEF GoodRow
<1>3. CASE p = "LFU"
  BY <1>3 DEF GoodRow, notify_access
<1>4. CASE p = "PLRU"
  <2> DEFINE node(lvl) == IF lvl = 0 THEN 0 ELSE Pow2[lvl] - 1 + dir_bit(way, lvl - 1)
             at(n) == CHOOSE lvl \in 0 .. c_log2 - 1 : node(lvl) = n
  <2>1. notify_access(p, row, way) =
          [n \in TreeNodes |-> IF \E lvl \in 0 .. c_log2 - 1 : node(lvl) = n
                               THEN 1 - dir_bit(way, at(n)) ELSE row[n]]
    BY <1>4 DEF notify_access, dir_bit
  <2>2. ASSUME NEW n, \E lvl \in 0 .. c_log2 - 1 : node(lvl) = n
        PROVE  1 - dir_bit(way, at(n)) \in {0, 1}
    <3>1. at(n) \in 0 .. c_log2 - 1
      BY <2>2
    <3> HIDE DEF at
    <3>2. dir_bit(way, at(n)) \in {0, 1}
      BY <3>1, DirIsBit
    <3> QED
      BY <3>2
  <2>3. row \in [TreeNodes -> {0, 1}]
    BY <1>4 DEF GoodRow
  <2> HIDE DEF node, at
  <2> QED
    BY <1>4, <2>1, <2>2, <2>3 DEF GoodRow
<1> QED
  BY <1>1, <1>2, <1>3, <1>4 DEF PolicyKinds

\* A machine starts with such rows.
LEMMA RowInitGood ==
    ASSUME NEW p \in PolicyKinds
    PROVE  GoodRow(p, RowInit(p))
  BY DEF RowInit, GoodRow, PolicyKinds, WayIds

\* Under LRU and PLRU the way just used is not the one to replace next.
LEMMA UsedNotNext ==
    ASSUME NEW p \in {"LRU", "PLRU"}, Ways > 1, NEW row, GoodRow(p, row), NEW way \in WayIds
    PROVE  select_way(p, notify_access(p, row, way), 0) # way
<1> USE WaysAssumption
<1>1. CASE p = "LRU"
  <2>1. /\ row \in [WayIds -> WayIds] /\ \A i, j \in WayIds : row[i] = row[j] => i = j
        /\ \A w \in WayIds : \E j \in WayIds : row[j] = w
    BY <1>1 DEF GoodRow
  <2> DEFINE q == CHOOSE j \in WayIds : row[j] = way
  <2>2. q \in WayIds /\ row[q] = way
    BY <2>1
  <2>3. select_way(p, notify_access(p, row, way), 0) = IF 0 < q THEN row[0] ELSE row[1]
    BY <1>1 DEF notify_access, select_way, WayIds
  <2> HIDE DEF q
  <2>4. 0 \in WayIds /\ 1 \in WayIds /\ (0 < q \/ q = 0)
    BY <2>2 DEF WayIds
  <2> QED
    BY <2>1, <2>2, <2>3, <2>4
<1>2. CASE p = "PLRU"
  <2> DEFINE node(lvl) == IF lvl = 0 THEN 0 ELSE Pow2[lvl] - 1 + dir_bit(way, lvl - 1)
             at(n) == CHOOSE lvl \in 0 .. c_log2 - 1 : node(lvl) = n
             new == notify_access(p, row, way)
  <2>1. /\ c_log2 \in 1 .. Ways /\ Pow2[c_log2 - 1] < Ways /\ Pow2[c_log2] >= Ways
        /\ Pow2[c_log2] = 2 * Pow2[c_log2 - 1] /\ Pow2[c_log2 - 1] \in Nat \ {0}
    BY CLog2Facts, Pow2Facts
  <2>2. new = [n \in TreeNodes |-> IF \E lvl \in 0 .. c_log2 - 1 : node(lvl) = n
                                   THEN 1 - dir_bit(way, at(n)) ELSE row[n]]
    BY <1>2 DEF notify_access, dir_bit
  <2>3. 0 \in 0 .. c_log2 - 1 /\ node(0) = 0
    BY <2>1
  <2>4. ASSUME NEW lvl \in 0 .. c_log2 - 1, lvl # 0 PROVE node(lvl) # 0
    <3>1. dir_bit(way, lvl - 1) \in {0, 1}
      BY <2>1, <2>4, DirIsBit
    <3>2. Pow2[lvl] \in Nat /\ Pow2[lvl] > 1
      BY <2>1, <2>4, Pow2Facts
    <3> QED
      BY <2>4, <3>1, <3>2
  <2>5. at(0) = 0
    <3> HIDE DEF node
    <3> QED
      BY <2>3, <2>4
  <2>6. 0 \in TreeNodes
    BY <2>1 DEF TreeNodes
  <2>7. new[0] = 1 - dir_bit(way, 0)
    <3> HIDE DEF node
    <3> QED
      BY <2>2, <2>3, <2>5, <2>6
  <2> HIDE DEF new
  <2>8. dir_bit(way, 0) = (way \div Pow2[c_log2 - 1]) % 2
    BY <2>1 DEF dir_bit
  <2>9. way \in 0 .. 2 * Pow2[c_log2 - 1] - 1 /\ way \in 0 .. Ways - 1
    BY <2>1 DEF WayIds
  <2>10. way < Pow2[c_log2 - 1] <=> dir_bit(way, 0) = 0
    <3>1. PICK b \in Nat \ {0} : b = Pow2[c_log2 - 1]
      BY <2>1
    <3>2. CASE way < b
      <4>1. way \div b = 0
        BY <2>9, <3>2, DivSmall
      <4> QED
        BY <2>8, <2>9, <3>1, <3>2, <4>1
    <3>3. CASE way >= b
      <4>1. way \div b = 1
        BY <2>9, <3>1, <3>3
      <4> QED
        BY <2>8, <2>9, <3>1, <3>3, <4>1
    <3> QED
      BY <2>9, <3>1, <3>2, <3>3
  <2>11. GoodRow(p, new)
    BY <1>2, NotifyKeeps DEF PolicyKinds, new
  <2>12. PICK i : PathIn(i, c_log2, new) /\ PLRUWay(new) = IF i < Ways THEN i ELSE Ways - 1
    BY <1>2, <2>11, PLRUPath DEF GoodRow
  <2>13. i \in Nat /\ IF new[0] = 0 THEN i < Pow2[c_log2 - 1] ELSE i >= Pow2[c_log2 - 1]
    BY <2>1, <2>12 DEF PathIn
  <2>14. dir_bit(way, 0) \in {0, 1}
    BY <2>1, DirIsBit
  <2>15. select_way(p, new, 0) = PLRUWay(new)
    BY <1>2 DEF select_way
  <2>16. PLRUWay(new) # way
    BY <2>1, <2>7, <2>9, <2>10, <2>12, <2>13, <2>14
  <2> QED
    BY <2>15, <2>16 DEF new
<1> QED
  BY <1>1, <1>2

(***************************************************************************)
(* One page of an access                                                   *)
(***************************************************************************)
Causes == {"NONE", "INSN_PAGE_FAULT", "STORE_PAGE_FAULT", "LOAD_PAGE_FAULT"}

TlbEntry == [valid : {TRUE}, vpn : VpnRange, frame : Int, slot : Slots,
             r : BOOLEAN, w : BOOLEAN, x : BOOLEAN, u : BOOLEAN, a : BOOLEAN, d : BOOLEAN]

Tlb == [SetIds -> [WayIds -> TlbEntry \cup {NoEntry}]]

RowSet(p) == {row \in [WayIds -> WayIds] \cup [WayIds -> Nat] \cup [TreeNodes -> {0, 1}] \cup {<<>>} :
                 GoodRow(p, row)}

\* The state of an access under way.
AccessState ==
    [pt : PageTableSet, tlb : Tlb, row : [SetIds -> RowSet(policy)], set : SetIds,
     way : WayIds \cup {-1}, frames : Seq(Int), cause : Causes]

RegisterType == satp \in Satp /\ sstatus \in Sstatus /\ policy \in PolicyKinds

\* UniqueTranslations, of one TLB.
Unique(tlb) ==
    \A s1, s2 \in SetIds, w1, w2 \in WayIds :
        tlb[s1][w1].valid /\ tlb[s2][w2].valid /\ tlb[s1][w1].vpn = tlb[s2][w2].vpn =>
            s1 = s2 /\ w1 = w2 /\ s1 = set_index(tlb[s1][w1].vpn)

EntryMatches(e, leaf) ==
    /\ leaf.found
    /\ leaf.frame = e.frame /\ leaf.slot = e.slot
    /\ leaf.pte.r = e.r /\ leaf.pte.w = e.w /\ leaf.pte.x = e.x /\ leaf.pte.u = e.u

\* FencedEntriesMatchWalk, of one TLB before page tables t.
Matching(tlb, t) ==
    \A s \in SetIds, w \in WayIds :
        tlb[s][w].valid /\ tlb[s][w].vpn \notin unfenced =>
            EntryMatches(tlb[s][w], find_leaf(t, tlb[s][w].vpn, satp))

\* UsedNotNextVictim, during an access.
NotNext(st) ==
    policy \in {"LRU", "PLRU"} /\ Ways > 1 /\ st.way # -1 =>
        select_way(policy, st.row[st.set], 0) # st.way

Mark(t, slot, op) == [t EXCEPT ![slot[1]][slot[2]] = with_ad_bits(@, op)]

\* Bits that are set stay set.
MarksKept(t1, t2) ==
    \A slot \in Slots : (Entry(t1, slot).a => Entry(t2, slot).a) /\ (Entry(t1, slot).d => Entry(t2, slot).d)

\* A row is in the set if it is what the policy keeps.
LEMMA RowSetIsGood ==
    ASSUME NEW p \in PolicyKinds, NEW row
    PROVE  row \in RowSet(p) <=> GoodRow(p, row)
  BY DEF RowSet, GoodRow, PolicyKinds

\* Marking an entry changes its A and D bits and nothing else.
LEMMA MarkFacts ==
    ASSUME NEW t \in PageTableSet, NEW slot \in Slots, NEW op
    PROVE  /\ Mark(t, slot, op) \in PageTableSet
           /\ Entry(Mark(t, slot, op), slot) = with_ad_bits(Entry(t, slot), op)
           /\ \A other \in Slots : other # slot => Entry(Mark(t, slot, op), other) = Entry(t, other)
           /\ Similar(t, Mark(t, slot, op)) /\ MarksKept(t, Mark(t, slot, op))
           /\ Entry(Mark(t, slot, op), slot).a
           /\ op = "WRITE" => Entry(Mark(t, slot, op), slot).d
<1>1. PICK tb \in Tables, i \in Indices : slot = <<tb, i>>
  BY DEF Slots
<1> DEFINE pte == t[tb][i]
           new == with_ad_bits(pte, op)
<1>2. pte \in Pte /\ Entry(t, slot) = pte
  BY <1>1 DEF PageTableSet, Entry
<1>3. /\ new \in PteFields
      /\ new.v = pte.v /\ new.r = pte.r /\ new.w = pte.w /\ new.x = pte.x /\ new.u = pte.u
      /\ new.ppn = pte.ppn /\ new.a = TRUE /\ new.d = (pte.d \/ op = "WRITE")
  BY <1>2 DEF with_ad_bits, Pte, PteFields
<1>4. new \in Pte
  BY <1>2, <1>3 DEF Pte, is_leaf
<1>5. Mark(t, slot, op) = [t EXCEPT ![tb][i] = new]
  BY <1>1 DEF Mark
<1> HIDE DEF new
<1>6. Mark(t, slot, op) \in PageTableSet
  BY <1>4, <1>5 DEF PageTableSet
<1>a. \A tb2 \in Tables, i2 \in Indices :
         Mark(t, slot, op)[tb2][i2] = IF tb2 = tb /\ i2 = i THEN new ELSE t[tb2][i2]
  BY <1>5 DEF PageTableSet
<1>7. Entry(Mark(t, slot, op), slot) = new
  BY <1>1, <1>a DEF Entry
<1>8. ASSUME NEW other \in Slots, other # slot PROVE Entry(Mark(t, slot, op), other) = Entry(t, other)
  <2>1. PICK tb2 \in Tables, i2 \in Indices : other = <<tb2, i2>>
    BY DEF Slots
  <2> QED
    BY <1>1, <1>a, <1>8, <2>1 DEF Entry
<1>9. Similar(t, Mark(t, slot, op))
  BY <1>2, <1>3, <1>7, <1>8 DEF Similar
<1>10. MarksKept(t, Mark(t, slot, op))
  BY <1>2, <1>3, <1>7, <1>8 DEF MarksKept
<1> QED
  BY <1>2, <1>3, <1>6, <1>7, <1>8, <1>9, <1>10 DEF new

\* Similarity is transitive.
LEMMA SimilarChain ==
    ASSUME NEW t1, NEW t2, NEW t3, Similar(t1, t2), Similar(t2, t3)
    PROVE  Similar(t1, t3)
  BY DEF Similar

\* So is keeping marks.
LEMMA MarksChain ==
    ASSUME NEW t1, NEW t2, NEW t3, MarksKept(t1, t2), MarksKept(t2, t3)
    PROVE  MarksKept(t1, t3)
  BY DEF MarksKept

\* The leaf a walk finds is an entry of the page tables.
LEMMA LeafFound ==
    ASSUME NEW t \in PageTableSet, NEW vpn \in Nat, NEW root \in Satp
    PROVE  LET leaf == find_leaf(t, vpn, root)
           IN  \/ leaf = NoLeaf
               \/ \E slot \in Slots, frame \in Int : leaf = Leaf(t, slot, frame)
<1>1. Similar(t, t)
  BY DEF Similar
<1> QED
  BY <1>1, WalkSame DEF SameLeaf

\* An entry that matches the walk matches it after marks.
LEMMA MatchesSimilar ==
    ASSUME NEW t1 \in PageTableSet, NEW t2 \in PageTableSet, Similar(t1, t2),
           NEW vpn \in Nat, NEW root \in Satp, NEW e,
           EntryMatches(e, find_leaf(t1, vpn, root))
    PROVE  EntryMatches(e, find_leaf(t2, vpn, root))
<1> DEFINE l1 == find_leaf(t1, vpn, root)
           l2 == find_leaf(t2, vpn, root)
<1>1. SameLeaf(t1, t2, l1, l2)
  BY WalkSame
<1> HIDE DEF l1, l2
<1>2. EntryMatches(e, l1)
  BY DEF l1
<1>3. l1 # NoLeaf
  BY <1>2 DEF EntryMatches, NoLeaf
<1>4. PICK slot \in Slots, frame \in Int : l1 = Leaf(t1, slot, frame) /\ l2 = Leaf(t2, slot, frame)
  BY <1>1, <1>3 DEF SameLeaf
<1>5. EntryMatches(e, l2)
  BY <1>2, <1>4 DEF EntryMatches, Leaf, Similar
<1> QED
  BY <1>5 DEF l2

\* So the other TLB, which an access leaves alone, keeps matching.
LEMMA MatchingSimilar ==
    ASSUME RegisterType, NEW tlb \in Tlb, NEW t1 \in PageTableSet, NEW t2 \in PageTableSet,
           Similar(t1, t2), Matching(tlb, t1)
    PROVE  Matching(tlb, t2)
<1> SUFFICES ASSUME NEW s \in SetIds, NEW w \in WayIds,
                    tlb[s][w].valid, tlb[s][w].vpn \notin unfenced
             PROVE  EntryMatches(tlb[s][w], find_leaf(t2, tlb[s][w].vpn, satp))
  BY DEF Matching
<1>1. tlb[s][w] \in TlbEntry
  BY DEF Tlb, NoEntry
<1>2. tlb[s][w].vpn \in Nat
  BY <1>1, VpnIsNumber DEF TlbEntry
<1>3. EntryMatches(tlb[s][w], find_leaf(t1, tlb[s][w].vpn, satp))
  BY DEF Matching
<1> QED
  BY <1>2, <1>3, MatchesSimilar DEF RegisterType

Marked(e, op) == [e EXCEPT !.a = TRUE, !.d = @ \/ op = "WRITE"]

\* From `st` to `r`, way w of set s has got entry e, marked, and was used.
Filled(st, r, s, w, e, op) ==
    /\ r \in AccessState
    /\ r.pt = Mark(st.pt, e.slot, op)
    /\ r.tlb = [st.tlb EXCEPT ![s][w] = Marked(e, op)]
    /\ r.row = [st.row EXCEPT ![s] = notify_access(policy, @, w)]
    /\ r.set = s /\ r.way = w
    /\ r.frames = Append(st.frames, e.frame)
    /\ r.cause = st.cause

\* What every page of an access keeps.
PageDone(st, r) ==
    /\ r \in AccessState
    /\ Similar(st.pt, r.pt) /\ MarksKept(st.pt, r.pt)
    /\ Unique(st.tlb) => Unique(r.tlb)
    /\ Matching(st.tlb, st.pt) => Matching(r.tlb, r.pt)
    /\ NotNext(st) => NotNext(r)

\* Marking an entry keeps its translation.
LEMMA MarkedEntry ==
    ASSUME NEW e \in TlbEntry, NEW op
    PROVE  /\ Marked(e, op) \in TlbEntry
           /\ Marked(e, op).valid /\ Marked(e, op).vpn = e.vpn
           /\ Marked(e, op).frame = e.frame /\ Marked(e, op).slot = e.slot
           /\ Marked(e, op).r = e.r /\ Marked(e, op).w = e.w
           /\ Marked(e, op).x = e.x /\ Marked(e, op).u = e.u
  BY DEF Marked, TlbEntry

\* A page whose entry goes where no other entry of the page is, and matches the
\* walk, keeps everything.
LEMMA FilledDone ==
    ASSUME RegisterType, NEW st \in AccessState, NEW r, NEW s \in SetIds, NEW w \in WayIds,
           NEW e \in TlbEntry, NEW op, Filled(st, r, s, w, e, op),
           s = set_index(e.vpn),
           \A s2 \in SetIds, w2 \in WayIds :
               st.tlb[s2][w2].valid /\ st.tlb[s2][w2].vpn = e.vpn /\ Unique(st.tlb) => s2 = s /\ w2 = w,
           Matching(st.tlb, st.pt) /\ e.vpn \notin unfenced =>
               EntryMatches(e, find_leaf(st.pt, e.vpn, satp))
    PROVE  PageDone(st, r)
<1> DEFINE m == Marked(e, op)
<1>1. /\ m \in TlbEntry /\ m.valid /\ m.vpn = e.vpn /\ m.frame = e.frame /\ m.slot = e.slot
      /\ m.r = e.r /\ m.w = e.w /\ m.x = e.x /\ m.u = e.u
  BY MarkedEntry
<1>2. /\ st.pt \in PageTableSet /\ st.tlb \in Tlb /\ st.row \in [SetIds -> RowSet(policy)]
      /\ r.pt \in PageTableSet /\ r.tlb \in Tlb /\ r \in AccessState
  BY DEF AccessState, Filled
<1>3. Similar(st.pt, r.pt) /\ MarksKept(st.pt, r.pt)
  BY <1>2, MarkFacts DEF Filled, TlbEntry
<1>4. r.tlb = [st.tlb EXCEPT ![s][w] = m]
  BY DEF Filled
<1> HIDE DEF m
<1>5. \A s2 \in SetIds, w2 \in WayIds :
         r.tlb[s2][w2] = IF s2 = s /\ w2 = w THEN m ELSE st.tlb[s2][w2]
  BY <1>2, <1>4 DEF Tlb
<1>6. Unique(st.tlb) => Unique(r.tlb)
  <2> SUFFICES ASSUME Unique(st.tlb), NEW s1 \in SetIds, NEW s2 \in SetIds, NEW w1 \in WayIds, NEW w2 \in WayIds,
                      r.tlb[s1][w1].valid, r.tlb[s2][w2].valid, r.tlb[s1][w1].vpn = r.tlb[s2][w2].vpn
               PROVE  s1 = s2 /\ w1 = w2 /\ s1 = set_index(r.tlb[s1][w1].vpn)
    BY DEF Unique
  <2>1. CASE s1 = s /\ w1 = w
    BY <1>1, <1>5, <2>1
  <2>2. CASE ~(s1 = s /\ w1 = w) /\ s2 = s /\ w2 = w
    BY <1>1, <1>5, <2>2
  <2>3. CASE ~(s1 = s /\ w1 = w) /\ ~(s2 = s /\ w2 = w)
    BY <1>5, <2>3 DEF Unique
  <2> QED
    BY <2>1, <2>2, <2>3
<1>7. Matching(st.tlb, st.pt) => Matching(r.tlb, r.pt)
  <2> SUFFICES ASSUME Matching(st.tlb, st.pt), NEW s2 \in SetIds, NEW w2 \in WayIds,
                      r.tlb[s2][w2].valid, r.tlb[s2][w2].vpn \notin unfenced
               PROVE  EntryMatches(r.tlb[s2][w2], find_leaf(r.pt, r.tlb[s2][w2].vpn, satp))
    BY DEF Matching
  <2>1. CASE s2 = s /\ w2 = w
    <3>1. r.tlb[s2][w2] = m /\ e.vpn \notin unfenced /\ e.vpn \in Nat
      BY <1>1, <1>5, <2>1, VpnIsNumber DEF TlbEntry
    <3>2. EntryMatches(e, find_leaf(r.pt, e.vpn, satp))
      BY <1>2, <1>3, <3>1, MatchesSimilar DEF RegisterType
    <3> QED
      BY <1>1, <3>1, <3>2 DEF EntryMatches
  <2>2. CASE ~(s2 = s /\ w2 = w)
    <3>1. r.tlb[s2][w2] = st.tlb[s2][w2]
      BY <1>5, <2>2
    <3>2. Matching(st.tlb, r.pt)
      BY <1>2, <1>3, MatchingSimilar
    <3> QED
      BY <3>1, <3>2 DEF Matching
  <2> QED
    BY <2>1, <2>2
<1>8. NotNext(r)
  <2>1. r.way = w /\ r.set = s /\ r.row[s] = notify_access(policy, st.row[s], w)
    BY <1>2 DEF Filled
  <2>2. GoodRow(policy, st.row[s])
    BY <1>2, RowSetIsGood DEF RegisterType
  <2> QED
    BY <2>1, <2>2, UsedNotNext DEF NotNext
<1> QED
  BY <1>2, <1>3, <1>6, <1>7, <1>8 DEF PageDone

\* Used and ensure_ad_bits together, on an entry e that is put into the way first.
LEMMA FillsState ==
    ASSUME RegisterType, NEW st \in AccessState, NEW s \in SetIds, NEW w \in WayIds,
           NEW e \in TlbEntry, NEW op
    PROVE  LET with == [Used(st, s, w, e.frame) EXCEPT !.tlb[s][w] = e]
           IN  Filled(st, ensure_ad_bits(with, s, w, op), s, w, e, op)
<1> DEFINE used == Used(st, s, w, e.frame)
           with == [used EXCEPT !.tlb[s][w] = e]
           r == ensure_ad_bits(with, s, w, op)
           new == notify_access(policy, st.row[s], w)
<1>1. /\ st.pt \in PageTableSet /\ st.tlb \in Tlb /\ st.row \in [SetIds -> RowSet(policy)]
      /\ st.frames \in Seq(Int) /\ st.cause \in Causes
  BY DEF AccessState
<1>2. new \in RowSet(policy)
  BY <1>1, RowSetIsGood, NotifyKeeps DEF RegisterType
<1>3. e.frame \in Int /\ e.slot \in Slots
  BY DEF TlbEntry
<1>4. /\ used \in AccessState
      /\ used.pt = st.pt /\ used.tlb = st.tlb /\ used.row = [st.row EXCEPT ![s] = new]
      /\ used.set = s /\ used.way = w /\ used.frames = Append(st.frames, e.frame)
      /\ used.cause = st.cause
  <2> HIDE DEF new
  <2>1. used = [st EXCEPT !.row[s] = new, !.way = w, !.set = s, !.frames = Append(@, e.frame)]
    BY DEF Used, new, AccessState
  <2>2. [st.row EXCEPT ![s] = new] \in [SetIds -> RowSet(policy)]
    BY <1>1, <1>2
  <2>3. Append(st.frames, e.frame) \in Seq(Int)
    BY <1>1, <1>3
  <2> QED
    BY <2>1, <2>2, <2>3 DEF AccessState
<1> HIDE DEF used, new
<1>5. /\ with \in AccessState
      /\ with.tlb = [st.tlb EXCEPT ![s][w] = e]
      /\ with.pt = st.pt /\ with.row = used.row /\ with.set = s /\ with.way = w
      /\ with.frames = used.frames /\ with.cause = st.cause
  <2>1. [st.tlb EXCEPT ![s][w] = e] \in Tlb
    BY <1>1 DEF Tlb
  <2>2. with = [used EXCEPT !.tlb = [st.tlb EXCEPT ![s][w] = e]]
    BY <1>4
  <2> QED
    BY <1>4, <2>1, <2>2 DEF AccessState
<1> HIDE DEF with
<1>6. with.tlb[s][w] = e
  BY <1>1, <1>5 DEF Tlb
<1>7. Marked(e, op) \in TlbEntry
  BY MarkedEntry
<1>8. r = [with EXCEPT !.pt = Mark(st.pt, e.slot, op), !.tlb = [@ EXCEPT ![s][w] = Marked(e, op)]]
  BY <1>5, <1>6, ZenonT(60) DEF ensure_ad_bits, Mark, Marked
<1>9. [with.tlb EXCEPT ![s][w] = Marked(e, op)] = [st.tlb EXCEPT ![s][w] = Marked(e, op)]
  <2>1. /\ with.tlb = [st.tlb EXCEPT ![s] = [st.tlb[s] EXCEPT ![w] = e]]
        /\ st.tlb[s] \in [WayIds -> TlbEntry \cup {NoEntry}] /\ DOMAIN st.tlb = SetIds
    BY <1>1, <1>5 DEF Tlb
  <2>2. [with.tlb[s] EXCEPT ![w] = Marked(e, op)] = [st.tlb[s] EXCEPT ![w] = Marked(e, op)]
    BY <2>1
  <2> QED
    BY <2>1, <2>2
<1>10. [st.tlb EXCEPT ![s][w] = Marked(e, op)] \in Tlb
  BY <1>1, <1>7 DEF Tlb
<1>11. Mark(st.pt, e.slot, op) \in PageTableSet
  BY <1>1, <1>3, MarkFacts
<1> HIDE DEF r
<1>12. /\ r \in AccessState /\ r.pt = Mark(st.pt, e.slot, op)
       /\ r.tlb = [st.tlb EXCEPT ![s][w] = Marked(e, op)]
       /\ r.row = used.row /\ r.set = s /\ r.way = w
       /\ r.frames = used.frames /\ r.cause = st.cause
  BY <1>5, <1>8, <1>9, <1>10, <1>11 DEF AccessState
<1>13. used.row = [st.row EXCEPT ![s] = notify_access(policy, @, w)]
  BY <1>1, <1>4 DEF new
<1>14. Filled(st, r, s, w, e, op)
  BY <1>4, <1>12, <1>13 DEF Filled
<1> QED
  BY <1>14 DEF r, with, used

\* A fault is a cause other than none.
LEMMA FaultCause ==
    ASSUME NEW op \in AccessOps
    PROVE  get_current_cause(op) \in Causes /\ get_current_cause(op) # "NONE"
  BY DEF get_current_cause, AccessOps, Causes

\* A fault leaves all but the cause as it was.
LEMMA FaultDone ==
    ASSUME RegisterType, NEW st \in AccessState, NEW c \in Causes
    PROVE  /\ PageDone(st, [st EXCEPT !.cause = c])
           /\ [st EXCEPT !.cause = c].pt = st.pt
           /\ [st EXCEPT !.cause = c].frames = st.frames
           /\ [st EXCEPT !.cause = c].cause = c
<1> DEFINE r == [st EXCEPT !.cause = c]
<1>1. /\ r \in AccessState /\ r.pt = st.pt /\ r.tlb = st.tlb /\ r.row = st.row /\ r.way = st.way
      /\ r.set = st.set /\ r.frames = st.frames /\ r.cause = c
  BY DEF AccessState
<1> HIDE DEF r
<1>2. PageDone(st, r)
  BY <1>1 DEF PageDone, Similar, MarksKept, NotNext
<1> QED
  BY <1>1, <1>2 DEF r

\* The set of a page.
LEMMA SetOfPage ==
    ASSUME NEW vpn \in VpnRange
    PROVE  set_index(vpn) \in SetIds
  BY VpnIsNumber, VirtualMemoryAssumption DEF set_index, SetIds

\* The way a hit uses holds a valid entry of the page.
LEMMA HitWay ==
    ASSUME NEW tlb \in Tlb, NEW vpn, HitWays(tlb, vpn) # {}
    PROVE  FirstWay(HitWays(tlb, vpn)) \in HitWays(tlb, vpn)
<1>1. HitWays(tlb, vpn) \in SUBSET Nat
  BY DEF HitWays, WayIds
<1> QED
  BY <1>1, LeastExists DEF FirstWay

\* A hit that is permitted: its way keeps its entry, marked.
LEMMA HitFills ==
    ASSUME RegisterType, NEW st \in AccessState, NEW vpn \in VpnRange, NEW mode \in AccessMode,
           HitWays(st.tlb, vpn) # {}
    PROVE  LET s == set_index(vpn)
               w == FirstWay(HitWays(st.tlb, vpn))
               e == st.tlb[s][w]
           IN  /\ s \in SetIds /\ w \in WayIds /\ e \in TlbEntry /\ e.vpn = vpn /\ e.valid
               /\ check_permissions(e, sstatus, mode) =>
                     Filled(st, translate_hit(st, vpn, mode), s, w, e, mode.op)
               /\ ~check_permissions(e, sstatus, mode) =>
                     translate_hit(st, vpn, mode) = [st EXCEPT !.cause = get_current_cause(mode.op)]
<1> DEFINE s == set_index(vpn)
           w == FirstWay(HitWays(st.tlb, vpn))
           e == st.tlb[s][w]
           used == Used(st, s, w, e.frame)
<1>1. st.tlb \in Tlb
  BY DEF AccessState
<1>2. w \in HitWays(st.tlb, vpn)
  BY <1>1, HitWay
<1>3. s \in SetIds
  BY SetOfPage
<1> HIDE DEF w
<1>4. w \in WayIds /\ e.valid /\ e.vpn = vpn
  BY <1>2 DEF HitWays
<1>5. e \in TlbEntry
  BY <1>1, <1>3, <1>4 DEF Tlb, NoEntry
<1>6. used = [used EXCEPT !.tlb[s][w] = e]
  <2>1. used.tlb = st.tlb /\ DOMAIN used = DOMAIN st /\ "tlb" \in DOMAIN st
        /\ used = [used EXCEPT !.tlb = used.tlb]
    BY DEF Used, AccessState
  <2>2. st.tlb[s] = [st.tlb[s] EXCEPT ![w] = e]
    BY <1>1, <1>3, <1>4 DEF Tlb
  <2>3. st.tlb = [st.tlb EXCEPT ![s] = st.tlb[s]]
    BY <1>1, <1>3 DEF Tlb
  <2>4. st.tlb = [st.tlb EXCEPT ![s][w] = e]
    BY <2>2, <2>3
  <2> HIDE DEF used, e
  <2> QED
    BY <2>1, <2>4
<1>7. Filled(st, ensure_ad_bits(used, s, w, mode.op), s, w, e, mode.op)
  <2> HIDE DEF e, s
  <2>1. Filled(st, ensure_ad_bits([used EXCEPT !.tlb[s][w] = e], s, w, mode.op), s, w, e, mode.op)
    BY <1>3, <1>4, <1>5, FillsState
  <2> QED
    BY <1>6, <2>1
<1>8. translate_hit(st, vpn, mode) =
         IF ~check_permissions(e, sstatus, mode) THEN [st EXCEPT !.cause = get_current_cause(mode.op)]
         ELSE ensure_ad_bits(used, s, w, mode.op)
  BY DEF translate_hit, w
<1> HIDE DEF used
<1> QED
  BY <1>3, <1>4, <1>5, <1>7, <1>8 DEF w

\* The walk: a leaf that permits the access, or a fault.
LEMMA WalkCases ==
    ASSUME RegisterType, NEW t \in PageTableSet, NEW vpn \in Nat, NEW mode \in AccessMode
    PROVE  LET res  == walk(t, vpn, satp, sstatus, mode)
               leaf == find_leaf(t, vpn, satp)
           IN  \/ /\ leaf = NoLeaf \/ ~check_permissions(leaf.pte, sstatus, mode)
                  /\ res.cause = get_current_cause(mode.op) /\ res.cause \in Causes \ {"NONE"}
               \/ /\ leaf # NoLeaf /\ leaf.found /\ check_permissions(leaf.pte, sstatus, mode)
                  /\ res.cause = "NONE" /\ res.frame = leaf.frame /\ res.slot = leaf.slot /\ res.pte = leaf.pte
                  /\ leaf.slot \in Slots /\ leaf.frame \in Int /\ leaf.pte = Entry(t, leaf.slot)
<1> DEFINE leaf == find_leaf(t, vpn, satp)
<1>1. leaf = NoLeaf \/ \E slot \in Slots, frame \in Int : leaf = Leaf(t, slot, frame)
  BY LeafFound DEF RegisterType
<1>2. mode.op \in AccessOps
  BY DEF AccessMode
<1>3. get_current_cause(mode.op) \in Causes \ {"NONE"}
  BY <1>2, FaultCause
<1> HIDE DEF leaf
<1>4. walk(t, vpn, satp, sstatus, mode) =
         IF ~leaf.found \/ ~check_permissions(leaf.pte, sstatus, mode)
         THEN [cause |-> get_current_cause(mode.op)]
         ELSE [cause |-> "NONE", frame |-> leaf.frame, slot |-> leaf.slot, pte |-> leaf.pte]
  BY DEF walk, leaf
<1>5. CASE leaf = NoLeaf
  BY <1>3, <1>4, <1>5 DEF NoLeaf, leaf
<1>6. CASE leaf # NoLeaf
  <2>1. PICK slot \in Slots, frame \in Int : leaf = Leaf(t, slot, frame)
    BY <1>1, <1>6
  <2>2. leaf.found /\ leaf.slot = slot /\ leaf.frame = frame /\ leaf.pte = Entry(t, slot)
    BY <2>1 DEF Leaf
  <2> QED
    BY <1>3, <1>4, <1>6, <2>2 DEF leaf
<1> QED
  BY <1>5, <1>6

\* The entry a miss makes of the leaf.
NewEntry(vpn, leaf) ==
    [valid |-> TRUE, vpn |-> vpn, frame |-> leaf.frame, slot |-> leaf.slot,
     r |-> leaf.pte.r, w |-> leaf.pte.w, x |-> leaf.pte.x, u |-> leaf.pte.u,
     a |-> leaf.pte.a, d |-> leaf.pte.d]

\* A miss whose walk succeeds puts that entry into the way the policy chose.
LEMMA MissFills ==
    ASSUME RegisterType, NEW st \in AccessState, NEW vpn \in VpnRange, NEW mode \in AccessMode,
           NEW random \in WayIds, walk(st.pt, vpn, satp, sstatus, mode).cause = "NONE"
    PROVE  LET s    == set_index(vpn)
               w    == select_way(policy, st.row[s], random)
               leaf == find_leaf(st.pt, vpn, satp)
               e    == NewEntry(vpn, leaf)
           IN  /\ s \in SetIds /\ w \in WayIds /\ e \in TlbEntry /\ EntryMatches(e, leaf)
               /\ Filled(st, translate_miss(st, vpn, mode, random), s, w, e, mode.op)
<1> DEFINE s    == set_index(vpn)
           w    == select_way(policy, st.row[s], random)
           leaf == find_leaf(st.pt, vpn, satp)
           e    == NewEntry(vpn, leaf)
           res  == walk(st.pt, vpn, satp, sstatus, mode)
<1>1. s \in SetIds
  BY SetOfPage
<1>2. st.pt \in PageTableSet /\ st.row[s] \in RowSet(policy)
  BY <1>1 DEF AccessState
<1>3. w \in WayIds
  BY <1>2, RowSetIsGood, SelectInSet DEF RegisterType
<1>4. vpn \in Nat
  BY VpnIsNumber
<1>5. /\ leaf.found /\ leaf.slot \in Slots /\ leaf.frame \in Int /\ leaf.pte = Entry(st.pt, leaf.slot)
      /\ res.frame = leaf.frame /\ res.slot = leaf.slot /\ res.pte = leaf.pte
  <2> HIDE DEF leaf
  <2> QED
    BY <1>2, <1>4, WalkCases DEF leaf
<1> HIDE DEF leaf, res, w, s
<1>6. leaf.pte \in PteFields
  BY <1>2, <1>5, EntryType DEF Pte
<1>7. e \in TlbEntry /\ EntryMatches(e, leaf)
  BY <1>5, <1>6 DEF NewEntry, TlbEntry, PteFields, EntryMatches
<1>8. e.frame = res.frame
  BY <1>5 DEF NewEntry
<1>9. translate_miss(st, vpn, mode, random) =
         ensure_ad_bits([Used(st, s, w, e.frame) EXCEPT !.tlb[s][w] = e], s, w, mode.op)
  <2>1. e = [valid |-> TRUE, vpn |-> vpn, frame |-> res.frame, slot |-> res.slot,
             r |-> res.pte.r, w |-> res.pte.w, x |-> res.pte.x, u |-> res.pte.u,
             a |-> res.pte.a, d |-> res.pte.d]
    BY <1>5 DEF NewEntry
  <2>2. res.cause = "NONE"
    BY DEF res
  <2> HIDE DEF e
  <2> QED
    BY <1>8, <2>1, <2>2 DEF translate_miss, res, s, w
<1> HIDE DEF e
<1>10. Filled(st, translate_miss(st, vpn, mode, random), s, w, e, mode.op)
  BY <1>1, <1>3, <1>7, <1>9, FillsState
<1> QED
  BY <1>1, <1>3, <1>7, <1>10 DEF s, w, e, leaf

\* A page that did nothing to the tables or the TLB.
LEMMA StaysDone ==
    ASSUME NEW st \in AccessState, NEW r \in AccessState,
           r.pt = st.pt, r.tlb = st.tlb, r.row = st.row, r.set = st.set, r.way = st.way
    PROVE  PageDone(st, r)
  BY DEF PageDone, Similar, MarksKept, NotNext

\* Without translation the page number is the frame number.
LEMMA UntranslatedState ==
    ASSUME NEW st \in AccessState, NEW vpn \in VpnRange
    PROVE  LET r == [st EXCEPT !.frames = Append(@, vpn)]
           IN  /\ r \in AccessState /\ r.frames = Append(st.frames, vpn) /\ r.pt = st.pt /\ r.cause = st.cause
               /\ r.tlb = st.tlb /\ r.row = st.row /\ r.set = st.set /\ r.way = st.way
<1>1. st.frames \in Seq(Int) /\ vpn \in Int
  BY VpnIsNumber DEF AccessState
<1>2. Append(st.frames, vpn) \in Seq(Int)
  BY <1>1
<1> QED
  BY <1>2 DEF AccessState

\* Each page of an access keeps what PageDone says, whatever software has fenced.
LEMMA PageKeeps ==
    ASSUME RegisterType, NEW st \in AccessState, NEW vpn \in VpnRange, NEW mode \in AccessMode,
           NEW random \in WayIds
    PROVE  PageDone(st, translate_page(st, vpn, mode, random))
<1> DEFINE r == translate_page(st, vpn, mode, random)
           s == set_index(vpn)
<1>0. mode.op \in AccessOps /\ vpn \in Nat /\ st.pt \in PageTableSet
  BY VpnIsNumber DEF AccessMode, AccessState
<1>1. CASE st.cause # "NONE"
  BY <1>1, StaysDone DEF translate_page
<1>2. CASE st.cause = "NONE" /\ ~should_translate(VmEnabled, satp, mode.priv)
  <2>1. r = [st EXCEPT !.frames = Append(@, vpn)]
    BY <1>2 DEF translate_page
  <2>2. /\ r \in AccessState /\ r.pt = st.pt /\ r.tlb = st.tlb /\ r.row = st.row
        /\ r.set = st.set /\ r.way = st.way
    BY <2>1, UntranslatedState
  <2> HIDE DEF r
  <2>3. PageDone(st, r)
    BY <2>2, StaysDone
  <2> QED
    BY <2>3 DEF r
<1>3. CASE st.cause = "NONE" /\ should_translate(VmEnabled, satp, mode.priv) /\ HitWays(st.tlb, vpn) # {}
  <2>1. r = translate_hit(st, vpn, mode)
    BY <1>3 DEF translate_page
  <2> DEFINE w == FirstWay(HitWays(st.tlb, vpn))
             e == st.tlb[s][w]
  <2>2. /\ s \in SetIds /\ w \in WayIds /\ e \in TlbEntry /\ e.vpn = vpn /\ e.valid
        /\ check_permissions(e, sstatus, mode) => Filled(st, r, s, w, e, mode.op)
        /\ ~check_permissions(e, sstatus, mode) => r = [st EXCEPT !.cause = get_current_cause(mode.op)]
    BY <1>3, <2>1, HitFills
  <2> HIDE DEF w, r
  <2>3. CASE ~check_permissions(e, sstatus, mode)
    BY <1>0, <2>2, <2>3, FaultCause, FaultDone DEF r
  <2>4. CASE check_permissions(e, sstatus, mode)
    <3>1. ASSUME NEW s2 \in SetIds, NEW w2 \in WayIds, st.tlb[s2][w2].valid, st.tlb[s2][w2].vpn = e.vpn,
                 Unique(st.tlb)
          PROVE  s2 = s /\ w2 = w
      BY <2>2, <3>1 DEF Unique
    <3>2. Matching(st.tlb, st.pt) /\ e.vpn \notin unfenced => EntryMatches(e, find_leaf(st.pt, e.vpn, satp))
      BY <2>2 DEF Matching
    <3>3. s = set_index(e.vpn)
      BY <2>2
    <3> HIDE DEF e, s
    <3>4. PageDone(st, r)
      BY <2>2, <2>4, <3>1, <3>2, <3>3, FilledDone
    <3> QED
      BY <3>4 DEF r
  <2> QED
    BY <2>3, <2>4
<1>4. CASE st.cause = "NONE" /\ should_translate(VmEnabled, satp, mode.priv) /\ HitWays(st.tlb, vpn) = {}
  <2>1. r = translate_miss(st, vpn, mode, random)
    BY <1>4 DEF translate_page
  <2> DEFINE res == walk(st.pt, vpn, satp, sstatus, mode)
             w == select_way(policy, st.row[s], random)
             e == NewEntry(vpn, find_leaf(st.pt, vpn, satp))
  <2>2. CASE res.cause # "NONE"
    <3>1. res.cause \in Causes
      BY <1>0, <2>2, WalkCases
    <3>2. r = [st EXCEPT !.cause = res.cause]
      BY <2>1, <2>2 DEF translate_miss
    <3> HIDE DEF res, r
    <3> QED
      BY <3>1, <3>2, FaultDone DEF r
  <2>3. CASE res.cause = "NONE"
    <3>1. /\ s \in SetIds /\ w \in WayIds /\ e \in TlbEntry
          /\ EntryMatches(e, find_leaf(st.pt, vpn, satp))
          /\ Filled(st, r, s, w, e, mode.op)
      BY <2>1, <2>3, MissFills
    <3>2. e.vpn = vpn
      BY DEF NewEntry
    <3> HIDE DEF e, w
    <3>3. ASSUME NEW s2 \in SetIds, NEW w2 \in WayIds, st.tlb[s2][w2].valid, st.tlb[s2][w2].vpn = e.vpn,
                 Unique(st.tlb)
          PROVE  s2 = s /\ w2 = w
      <4>1. s2 = set_index(vpn)
        BY <3>2, <3>3 DEF Unique
      <4>2. w2 \in HitWays(st.tlb, vpn)
        BY <3>2, <3>3, <4>1 DEF HitWays
      <4> QED
        BY <1>4, <4>2
    <3>4. s = set_index(e.vpn) /\ EntryMatches(e, find_leaf(st.pt, e.vpn, satp))
      BY <3>1, <3>2
    <3> HIDE DEF s, r
    <3>5. PageDone(st, r)
      BY <3>1, <3>3, <3>4, FilledDone
    <3> QED
      BY <3>5 DEF r
  <2> QED
    BY <2>2, <2>3
<1> QED
  BY <1>1, <1>2, <1>3, <1>4

(***************************************************************************)
(* A page with a TLB and a page without                                    *)
(***************************************************************************)
DirectState == [pt : PageTableSet, frames : Seq(Int), cause : Causes]

\* The two accesses have come to the same.
Agrees(st, d) == d \in DirectState /\ st.pt = d.pt /\ st.frames = d.frames /\ st.cause = d.cause

\* WalkPage of DirectWalk, in the terms of this module.
WalkPage(d, vpn, mode) ==
    LET res == walk(d.pt, vpn, satp, sstatus, mode)
    IN  IF d.cause # "NONE" THEN d
        ELSE IF ~should_translate(VmEnabled, satp, mode.priv) THEN [d EXCEPT !.frames = Append(@, vpn)]
        ELSE IF res.cause # "NONE" THEN [d EXCEPT !.cause = res.cause]
        ELSE [d EXCEPT !.frames = Append(@, res.frame), !.pt = Mark(d.pt, res.slot, mode.op)]

Walked(d, slot, frame, op) == [d EXCEPT !.frames = Append(@, frame), !.pt = Mark(d.pt, slot, op)]

\* A walk that succeeds.
LEMMA WalkMarks ==
    ASSUME NEW d \in DirectState, NEW slot \in Slots, NEW frame \in Int, NEW op
    PROVE  /\ Walked(d, slot, frame, op) \in DirectState
           /\ Walked(d, slot, frame, op).pt = Mark(d.pt, slot, op)
           /\ Walked(d, slot, frame, op).frames = Append(d.frames, frame)
           /\ Walked(d, slot, frame, op).cause = d.cause
<1>1. d.pt \in PageTableSet /\ d.frames \in Seq(Int)
  BY DEF DirectState
<1>2. Mark(d.pt, slot, op) \in PageTableSet /\ Append(d.frames, frame) \in Seq(Int)
  BY <1>1, MarkFacts
<1> QED
  BY <1>2 DEF DirectState, Walked

\* Permissions are checked on four fields.
LEMMA SamePermissions ==
    ASSUME NEW e, NEW p, NEW ss, NEW mode, e.r = p.r, e.w = p.w, e.x = p.x, e.u = p.u
    PROVE  check_permissions(e, ss, mode) = check_permissions(p, ss, mode)
  BY DEF check_permissions

\* With a TLB that matches the tables, a page that may be used has the outcome of
\* a walk.
LEMMA PageIsWalk ==
    ASSUME RegisterType, NEW st \in AccessState, NEW d, Agrees(st, d),
           NEW vpn \in VpnRange, NEW mode \in AccessMode, NEW random \in WayIds,
           Matching(st.tlb, st.pt),
           should_translate(VmEnabled, satp, mode.priv) => vpn \notin unfenced
    PROVE  Agrees(translate_page(st, vpn, mode, random), WalkPage(d, vpn, mode))
<1> DEFINE r == translate_page(st, vpn, mode, random)
           q == WalkPage(d, vpn, mode)
           s == set_index(vpn)
           res == walk(d.pt, vpn, satp, sstatus, mode)
           leaf == find_leaf(d.pt, vpn, satp)
<1>0. /\ mode.op \in AccessOps /\ vpn \in Nat /\ vpn \in Int /\ st.pt \in PageTableSet
      /\ d \in DirectState /\ st.pt = d.pt /\ st.frames = d.frames /\ st.cause = d.cause
      /\ d.frames \in Seq(Int) /\ d.pt \in PageTableSet
  BY VpnIsNumber DEF AccessMode, AccessState, Agrees, DirectState
<1>1. CASE st.cause # "NONE"
  <2>1. r = st /\ q = d
    BY <1>0, <1>1 DEF translate_page, WalkPage
  <2> QED
    BY <2>1
<1>2. CASE st.cause = "NONE" /\ ~should_translate(VmEnabled, satp, mode.priv)
  <2>1. r = [st EXCEPT !.frames = Append(@, vpn)] /\ q = [d EXCEPT !.frames = Append(@, vpn)]
    BY <1>0, <1>2 DEF translate_page, WalkPage
  <2>2. Append(d.frames, vpn) \in Seq(Int)
    BY <1>0
  <2>3. q \in DirectState /\ q.pt = d.pt /\ q.frames = Append(d.frames, vpn) /\ q.cause = d.cause
    BY <1>0, <2>1, <2>2 DEF DirectState
  <2>4. r.pt = st.pt /\ r.frames = Append(st.frames, vpn) /\ r.cause = st.cause
    BY <2>1, UntranslatedState
  <2> QED
    BY <1>0, <2>3, <2>4 DEF Agrees
<1>3. CASE st.cause = "NONE" /\ should_translate(VmEnabled, satp, mode.priv)
  <2> HIDE DEF leaf, res
  <2>1. \/ /\ leaf = NoLeaf \/ ~check_permissions(leaf.pte, sstatus, mode)
           /\ res.cause = get_current_cause(mode.op) /\ res.cause \in Causes \ {"NONE"}
        \/ /\ leaf # NoLeaf /\ leaf.found /\ check_permissions(leaf.pte, sstatus, mode)
           /\ res.cause = "NONE" /\ res.frame = leaf.frame /\ res.slot = leaf.slot
           /\ leaf.slot \in Slots /\ leaf.frame \in Int
    BY <1>0, WalkCases DEF leaf, res
  <2>2. q = IF res.cause # "NONE" THEN [d EXCEPT !.cause = res.cause]
            ELSE [d EXCEPT !.frames = Append(@, res.frame), !.pt = Mark(d.pt, res.slot, mode.op)]
    BY <1>0, <1>3 DEF WalkPage, res
  <2> HIDE DEF q, r
  <2>3. ASSUME res.cause # "NONE", r = [st EXCEPT !.cause = res.cause] PROVE Agrees(r, q)
    <3>1. res.cause \in Causes
      BY <2>1, <2>3
    <3>2. q \in DirectState /\ q.pt = d.pt /\ q.frames = d.frames /\ q.cause = res.cause
      BY <1>0, <2>2, <2>3, <3>1 DEF DirectState
    <3>3. r.pt = st.pt /\ r.frames = st.frames /\ r.cause = res.cause
      BY <2>3, <3>1, FaultDone
    <3> QED
      BY <1>0, <3>2, <3>3 DEF Agrees
  <2>4. ASSUME res.cause = "NONE", NEW w, NEW e, e.frame = leaf.frame, e.slot = leaf.slot,
               Filled(st, r, s, w, e, mode.op)
        PROVE  Agrees(r, q)
    <3>1. leaf.slot \in Slots /\ leaf.frame \in Int /\ res.frame = leaf.frame /\ res.slot = leaf.slot
      BY <1>0, <2>1, <2>4
    <3>2. q = Walked(d, leaf.slot, leaf.frame, mode.op)
      BY <2>2, <2>4, <3>1 DEF Walked
    <3>3. /\ q \in DirectState /\ q.pt = Mark(d.pt, leaf.slot, mode.op)
          /\ q.frames = Append(d.frames, leaf.frame) /\ q.cause = d.cause
      BY <1>0, <3>1, <3>2, WalkMarks
    <3> QED
      BY <1>0, <2>4, <3>3 DEF Agrees, Filled
  <2>5. CASE HitWays(st.tlb, vpn) # {}
    <3> DEFINE w == FirstWay(HitWays(st.tlb, vpn))
               e == st.tlb[s][w]
    <3>1. r = translate_hit(st, vpn, mode)
      BY <1>3, <2>5 DEF translate_page, r
    <3>2. /\ s \in SetIds /\ w \in WayIds /\ e \in TlbEntry /\ e.vpn = vpn /\ e.valid
          /\ check_permissions(e, sstatus, mode) => Filled(st, r, s, w, e, mode.op)
          /\ ~check_permissions(e, sstatus, mode) => r = [st EXCEPT !.cause = get_current_cause(mode.op)]
      BY <2>5, <3>1, HitFills
    <3> HIDE DEF w
    <3>3. EntryMatches(e, leaf)
      BY <1>0, <1>3, <3>2 DEF Matching, leaf
    <3> HIDE DEF e
    <3>4. /\ leaf # NoLeaf /\ leaf.frame = e.frame /\ leaf.slot = e.slot
          /\ leaf.pte.r = e.r /\ leaf.pte.w = e.w /\ leaf.pte.x = e.x /\ leaf.pte.u = e.u
      BY <3>3 DEF EntryMatches, NoLeaf
    <3>5. check_permissions(e, sstatus, mode) = check_permissions(leaf.pte, sstatus, mode)
      BY <3>4, SamePermissions
    <3>6. CASE check_permissions(leaf.pte, sstatus, mode)
      <4>1. res.cause = "NONE" /\ Filled(st, r, s, w, e, mode.op)
        BY <2>1, <3>2, <3>4, <3>5, <3>6
      <4> QED
        BY <2>4, <3>4, <4>1 DEF q, r
    <3>7. CASE ~check_permissions(leaf.pte, sstatus, mode)
      <4>1. res.cause # "NONE" /\ r = [st EXCEPT !.cause = res.cause]
        BY <2>1, <3>2, <3>5, <3>7
      <4> QED
        BY <2>3, <4>1 DEF q, r
    <3> QED
      BY <3>6, <3>7
  <2>6. CASE HitWays(st.tlb, vpn) = {}
    <3>1. r = translate_miss(st, vpn, mode, random)
      BY <1>3, <2>6 DEF translate_page, r
    <3>2. res = walk(st.pt, vpn, satp, sstatus, mode) /\ leaf = find_leaf(st.pt, vpn, satp)
      BY <1>0 DEF res, leaf
    <3>3. CASE res.cause # "NONE"
      <4>1. r = [st EXCEPT !.cause = res.cause]
        BY <3>1, <3>2, <3>3 DEF translate_miss
      <4> QED
        BY <2>3, <3>3, <4>1 DEF q, r
    <3>4. CASE res.cause = "NONE"
      <4> DEFINE w == select_way(policy, st.row[s], random)
                 e == NewEntry(vpn, leaf)
      <4>1. Filled(st, r, s, w, e, mode.op)
        BY <3>1, <3>2, <3>4, MissFills
      <4>2. e.frame = leaf.frame /\ e.slot = leaf.slot
        BY DEF NewEntry
      <4> HIDE DEF w, e
      <4> QED
        BY <2>4, <3>4, <4>1, <4>2 DEF q, r
    <3> QED
      BY <3>3, <3>4
  <2> QED
    BY <2>5, <2>6
<1> QED
  BY <1>1, <1>2, <1>3

(***************************************************************************)
(* A whole access                                                          *)
(***************************************************************************)
\* The pages of an access.
LEMMA PagesOfRun ==
    ASSUME NEW pages \in PageRuns
    PROVE  Len(pages) \in 1 .. 2 /\ \A n \in 1 .. Len(pages) : pages[n] \in VpnRange
<1>1. Span[Levels] \in Nat
  BY SpanPositive, PageTablesAssumption
<1>2. CASE \E v \in VpnRange : pages = <<v>>
  BY <1>2
<1>3. CASE \E v \in VpnRange \ {Span[Levels] - 1} : pages = <<v, v + 1>>
  <2>1. PICK v \in VpnRange \ {Span[Levels] - 1} : pages = <<v, v + 1>>
    BY <1>3
  <2>2. v + 1 \in VpnRange
    BY <1>1 DEF VpnRange
  <2> QED
    BY <2>1, <2>2
<1> QED
  BY <1>2, <1>3 DEF PageRuns

\* The numbers of the states of an access.
LEMMA UpToTwo == \A k \in 1 .. 2 : \A n \in 0 .. k : n = 0 \/ n = 1 \/ n = 2
  OBVIOUS

Start(type) == [pt |-> pt, tlb |-> table[type], row |-> rows[type], set |-> 0, way |-> -1,
                frames |-> <<>>, cause |-> "NONE"]

\* The states of an access, page after page.
Chain(f, mode, pages, random) ==
    /\ f[0] = Start(type_of(mode.op))
    /\ \A n \in 1 .. Len(pages) : f[n] = translate_page(f[n - 1], pages[n], mode, random[n])

\* What an access leaves when it is done.
Leaves(end, mode, pages) ==
    /\ pt' = end.pt
    /\ table' = [table EXCEPT ![type_of(mode.op)] = end.tlb]
    /\ rows' = [rows EXCEPT ![type_of(mode.op)] = end.row]
    /\ last' = [mode |-> mode, pages |-> pages, frames |-> end.frames, cause |-> end.cause,
                used |-> [set |-> end.set, way |-> end.way]]
    /\ UNCHANGED <<satp, sstatus, policy, writes, unfenced>>

Fenced(mode, pages) ==
    Disciplined /\ should_translate(VmEnabled, satp, mode.priv) =>
        \A n \in 1 .. Len(pages) : pages[n] \notin unfenced

\* An access goes through such a chain.
LEMMA AccessChain ==
    ASSUME NEW mode, NEW pages, Len(pages) \in 1 .. 2, NEW random, Access(mode, pages, random)
    PROVE  \E f : /\ Chain(f, mode, pages, random)
                  /\ Fenced(mode, pages)
                  /\ Leaves(f[Len(pages)], mode, pages)
<1> DEFINE start == Start(type_of(mode.op))
           More(st, n) == translate_page(st, pages[n], mode, random[n])
           IsDone(f) == f = [n \in 0 .. Len(pages) |-> IF n = 0 THEN start ELSE More(f[n - 1], n)]
           done == CHOOSE f : IsDone(f)
<1>1. /\ Fenced(mode, pages)
      /\ Leaves(done[Len(pages)], mode, pages)
  BY DEF Access, Fenced, Leaves, Start
<1> HIDE DEF start, More
<1>2. \E f : IsDone(f)
  <2> DEFINE h == [n \in 0 .. Len(pages) |-> IF n = 0 THEN start
                      ELSE IF n = 1 THEN More(start, 1) ELSE More(More(start, 1), 2)]
  <2>1. h[0] = start /\ h[1] = More(start, 1)
    OBVIOUS
  <2>2. ASSUME NEW n \in 0 .. Len(pages) PROVE h[n] = IF n = 0 THEN start ELSE More(h[n - 1], n)
    <3>1. n = 0 \/ n = 1 \/ n = 2
      BY UpToTwo
    <3>2. CASE n = 0
      BY <3>2
    <3>3. CASE n = 1
      <4> HIDE DEF h
      <4> QED
        BY <2>1, <3>3
    <3>4. CASE n = 2
      <4>1. h[n] = More(More(start, 1), 2)
        BY <3>4
      <4> HIDE DEF h
      <4> QED
        BY <2>1, <3>4, <4>1
    <3> QED
      BY <3>1, <3>2, <3>3, <3>4
  <2>3. h = [n \in 0 .. Len(pages) |-> h[n]]
    OBVIOUS
  <2> HIDE DEF h
  <2>4. IsDone(h)
    BY <2>2, <2>3
  <2> HIDE DEF IsDone
  <2> QED
    BY <2>4
<1>3. IsDone(done)
  <2> HIDE DEF IsDone
  <2> QED
    BY <1>2, Zenon
<1> HIDE DEF done
<1>4. done[0] = start /\ \A n \in 1 .. Len(pages) : done[n] = More(done[n - 1], n)
  BY <1>3
<1>5. Chain(done, mode, pages, random)
  BY <1>4 DEF Chain, start, More
<1> QED
  BY <1>1, <1>5

\* The walk of the direct specification is the same walk.
LEMMA DirectWalkPage ==
    ASSUME NEW d \in DirectState, RegisterType, NEW vpn \in VpnRange, NEW mode \in AccessMode
    PROVE  Direct!WalkPage(d, vpn, mode) = WalkPage(d, vpn, mode)
<1> DEFINE res == walk(d.pt, vpn, satp, sstatus, mode)
<1>1. \A t, v, root : Direct!find_leaf(t, v, root) = find_leaf(t, v, root)
  BY DEF Direct!find_leaf, find_leaf, Direct!LevelIds, LevelIds, Direct!Entry, Entry, Direct!vpn_idx,
         vpn_idx, Direct!Span, Span, Direct!is_valid, is_valid, Direct!is_leaf, is_leaf,
         Direct!leaf_result, leaf_result, Direct!make_phys, make_phys, Direct!NoLeaf, NoLeaf
<1>2. Direct!walk(d.pt, vpn, satp, sstatus, mode) = res
  BY <1>1 DEF Direct!walk, walk, Direct!check_permissions, check_permissions,
              Direct!get_current_cause, get_current_cause
<1>3. Direct!should_translate(VmEnabled, satp, mode.priv) = should_translate(VmEnabled, satp, mode.priv)
  BY DEF Direct!should_translate, should_translate
<1>4. Direct!WalkPage(d, vpn, mode) =
        IF d.cause # "NONE" THEN d
        ELSE IF ~should_translate(VmEnabled, satp, mode.priv) THEN [d EXCEPT !.frames = Append(@, vpn)]
        ELSE IF res.cause # "NONE" THEN [d EXCEPT !.cause = res.cause]
        ELSE [d EXCEPT !.frames = Append(@, res.frame),
                       !.pt[res.slot[1]][res.slot[2]] = Direct!with_ad_bits(@, mode.op)]
  BY <1>2, <1>3 DEF Direct!WalkPage
<1> HIDE DEF res
<1>5. [d EXCEPT !.frames = Append(@, res.frame),
                !.pt[res.slot[1]][res.slot[2]] = Direct!with_ad_bits(@, mode.op)]
      = [d EXCEPT !.frames = Append(@, res.frame), !.pt = Mark(d.pt, res.slot, mode.op)]
  BY DEF Mark, Direct!with_ad_bits, with_ad_bits, DirectState
<1> QED
  BY <1>4, <1>5 DEF WalkPage, res

DirectChain(g, mode, pages) ==
    /\ g[0] = [pt |-> pt, frames |-> <<>>, cause |-> "NONE"]
    /\ \A n \in 1 .. Len(pages) : g[n] = Direct!WalkPage(g[n - 1], pages[n], mode)

\* A chain of walks is an access of the direct specification.
LEMMA DirectAccess ==
    ASSUME NEW mode, NEW pages, Len(pages) \in 1 .. 2
    PROVE  \E g : /\ DirectChain(g, mode, pages)
                  /\ Direct!Access(mode, pages) <=>
                        /\ pt' = g[Len(pages)].pt
                        /\ [mode |-> last'.mode, pages |-> last'.pages, frames |-> last'.frames, cause |-> last'.cause]
                              = [mode |-> mode, pages |-> pages, frames |-> g[Len(pages)].frames,
                                 cause |-> g[Len(pages)].cause]
                        /\ UNCHANGED <<satp, sstatus>>
<1> DEFINE start == [pt |-> pt, frames |-> <<>>, cause |-> "NONE"]
           More(d, n) == Direct!WalkPage(d, pages[n], mode)
           IsDone(f) == f = [n \in 0 .. Len(pages) |-> IF n = 0 THEN start ELSE More(f[n - 1], n)]
           done == CHOOSE f : IsDone(f)
<1>1. Direct!Access(mode, pages) <=>
        /\ pt' = done[Len(pages)].pt
        /\ [mode |-> last'.mode, pages |-> last'.pages, frames |-> last'.frames, cause |-> last'.cause]
              = [mode |-> mode, pages |-> pages, frames |-> done[Len(pages)].frames, cause |-> done[Len(pages)].cause]
        /\ UNCHANGED <<satp, sstatus>>
  BY DEF Direct!Access
<1> HIDE DEF start, More
<1>2. \E f : IsDone(f)
  <2> DEFINE h == [n \in 0 .. Len(pages) |-> IF n = 0 THEN start
                      ELSE IF n = 1 THEN More(start, 1) ELSE More(More(start, 1), 2)]
  <2>1. h[0] = start /\ h[1] = More(start, 1)
    OBVIOUS
  <2>2. ASSUME NEW n \in 0 .. Len(pages) PROVE h[n] = IF n = 0 THEN start ELSE More(h[n - 1], n)
    <3>1. n = 0 \/ n = 1 \/ n = 2
      OBVIOUS
    <3>2. CASE n = 0
      BY <3>2
    <3>3. CASE n = 1
      <4> HIDE DEF h
      <4> QED
        BY <2>1, <3>3
    <3>4. CASE n = 2
      <4>1. h[n] = More(More(start, 1), 2)
        BY <3>4
      <4> HIDE DEF h
      <4> QED
        BY <2>1, <3>4, <4>1
    <3> QED
      BY <3>1, <3>2, <3>3, <3>4
  <2>3. h = [n \in 0 .. Len(pages) |-> h[n]]
    OBVIOUS
  <2> HIDE DEF h
  <2>4. IsDone(h)
    BY <2>2, <2>3
  <2> HIDE DEF IsDone
  <2> QED
    BY <2>4
<1>3. IsDone(done)
  <2> HIDE DEF IsDone
  <2> QED
    BY <1>2, Zenon
<1> HIDE DEF done
<1>4. done[0] = start /\ \A n \in 1 .. Len(pages) : done[n] = More(done[n - 1], n)
  BY <1>3
<1>5. DirectChain(done, mode, pages)
  BY <1>4 DEF DirectChain, start, More
<1> QED
  BY <1>1, <1>5

(***************************************************************************)
(* The inductive invariant                                                 *)
(***************************************************************************)
VmType ==
    /\ pt \in PageTableSet
    /\ RegisterType
    /\ table \in [TlbTypes -> Tlb]
    /\ rows \in [TlbTypes -> [SetIds -> RowSet(policy)]]
    /\ last \in [mode : AccessMode, pages : PageRuns \cup {<<>>}, frames : Seq(Int), cause : Causes,
                 used : [set : SetIds, way : WayIds \cup {-1}]]
    /\ writes \in Nat
    /\ unfenced \in SUBSET VpnRange

IInv == VmType /\ UniqueTranslations /\ FencedEntriesMatchWalk /\ UsedNotNextVictim

\* The properties, TLB by TLB.
LEMMA PropertiesByTlb ==
    /\ UniqueTranslations <=> \A type \in TlbTypes : Unique(table[type])
    /\ FencedEntriesMatchWalk <=> \A type \in TlbTypes : Matching(table[type], pt)
<1>1. UniqueTranslations <=> \A type \in TlbTypes : Unique(table[type])
  BY DEF UniqueTranslations, Unique
<1>2. FencedEntriesMatchWalk <=> \A type \in TlbTypes : Matching(table[type], pt)
  BY DEF FencedEntriesMatchWalk, Matching, EntryMatches
<1> QED
  BY <1>1, <1>2

\* Each state of an access keeps the invariant, with its own TLB and tables.
Kept(st) ==
    /\ st \in AccessState
    /\ Unique(st.tlb) /\ Matching(st.tlb, st.pt) /\ NotNext(st)
    /\ Similar(pt, st.pt)

\* The choices of the random policy are ways.
LEMMA RandomsAreWays == Randoms \subseteq WayIds
  BY WaysAssumption DEF Randoms, WayIds

\* The TLB an operation uses.
LEMMA TypeOfOp == \A op : type_of(op) \in TlbTypes
  BY DEF type_of, TlbTypes

\* Every state of an access is kept.
LEMMA ChainKeeps ==
    ASSUME IInv, NEW mode \in AccessMode, NEW pages \in PageRuns, NEW random \in [1 .. 2 -> Randoms],
           NEW f, Chain(f, mode, pages, random)
    PROVE  \A n \in 0 .. Len(pages) : Kept(f[n])
<1> DEFINE S == {n \in 0 .. Len(pages) : Kept(f[n])}
           type == type_of(mode.op)
<1>1. Len(pages) \in 1 .. 2 /\ \A n \in 1 .. Len(pages) : pages[n] \in VpnRange
  BY PagesOfRun
<1>2. RegisterType /\ type \in TlbTypes
  BY TypeOfOp DEF IInv, VmType
<1>3. 0 \in S
  <2>1. f[0] = Start(type)
    BY DEF Chain
  <2>2. Start(type) \in AccessState
    <3>1. table[type] \in Tlb /\ rows[type] \in [SetIds -> RowSet(policy)] /\ 0 \in SetIds
      BY <1>2, VirtualMemoryAssumption DEF IInv, VmType, SetIds
    <3>2. <<>> \in Seq(Int)
      OBVIOUS
    <3> HIDE DEF type
    <3> QED
      BY <3>1, <3>2 DEF Start, AccessState, IInv, VmType, Causes
  <2>3. Start(type).tlb = table[type] /\ Start(type).pt = pt /\ Start(type).way = -1
    BY DEF Start
  <2>4. Unique(Start(type).tlb) /\ Matching(Start(type).tlb, Start(type).pt)
    BY <1>2, <2>3, PropertiesByTlb DEF IInv
  <2>5. NotNext(Start(type)) /\ Similar(pt, Start(type).pt)
    BY <2>3 DEF NotNext, Similar
  <2>6. Kept(f[0])
    BY <2>1, <2>2, <2>4, <2>5 DEF Kept
  <2> QED
    BY <1>1, <2>6
<1>4. ASSUME NEW n \in 1 .. Len(pages), n - 1 \in S PROVE n \in S
  <2>1. Kept(f[n - 1])
    BY <1>4
  <2>2. f[n] = translate_page(f[n - 1], pages[n], mode, random[n])
    BY DEF Chain
  <2>3. n \in 1 .. 2 /\ n \in 0 .. Len(pages)
    BY <1>1
  <2>4. pages[n] \in VpnRange /\ random[n] \in WayIds
    BY <1>1, <2>3, RandomsAreWays
  <2>5. PageDone(f[n - 1], f[n])
    BY <1>2, <2>1, <2>2, <2>4, PageKeeps DEF Kept
  <2>6. Kept(f[n])
    BY <2>1, <2>5, SimilarChain DEF Kept, PageDone
  <2> QED
    BY <2>3, <2>6
<1> HIDE DEF S
<1>5. \A n \in 0 .. Len(pages) : n \in S
  BY <1>1, <1>3, <1>4, UpTo
<1> USE DEF S
<1> QED
  BY <1>5

\* fetch, read and write keep the invariant.
LEMMA AccessKeeps ==
    ASSUME IInv, NEW mode \in AccessMode, NEW pages \in PageRuns, NEW random \in [1 .. 2 -> Randoms],
           Access(mode, pages, random)
    PROVE  IInv'
<1> DEFINE type == type_of(mode.op)
<1>1. Len(pages) \in 1 .. 2
  BY PagesOfRun
<1>2. PICK f : Chain(f, mode, pages, random) /\ Leaves(f[Len(pages)], mode, pages)
  BY <1>1, AccessChain
<1>3. PICK end : end = f[Len(pages)]
  OBVIOUS
<1>4. Kept(end)
  BY <1>1, <1>2, <1>3, ChainKeeps
<1>5. Leaves(end, mode, pages)
  BY <1>2, <1>3
<1>6. type \in TlbTypes
  BY TypeOfOp
<1>7. /\ end.pt \in PageTableSet /\ end.tlb \in Tlb /\ end.row \in [SetIds -> RowSet(policy)]
      /\ end.set \in SetIds /\ end.way \in WayIds \cup {-1} /\ end.frames \in Seq(Int) /\ end.cause \in Causes
  BY <1>4 DEF Kept, AccessState
<1>8. /\ pt' = end.pt /\ table' = [table EXCEPT ![type] = end.tlb] /\ rows' = [rows EXCEPT ![type] = end.row]
      /\ last' = [mode |-> mode, pages |-> pages, frames |-> end.frames, cause |-> end.cause,
                  used |-> [set |-> end.set, way |-> end.way]]
      /\ UNCHANGED <<satp, sstatus, policy, writes, unfenced>>
  BY <1>5 DEF Leaves
<1> HIDE DEF type
<1>9. VmType'
  <2>1. last' \in [mode : AccessMode, pages : PageRuns \cup {<<>>}, frames : Seq(Int), cause : Causes,
                   used : [set : SetIds, way : WayIds \cup {-1}]]
    BY <1>7, <1>8
  <2>2. table' \in [TlbTypes -> Tlb]
    BY <1>6, <1>7, <1>8 DEF IInv, VmType
  <2>3. rows' \in [TlbTypes -> [SetIds -> RowSet(policy)]]
    BY <1>6, <1>7, <1>8 DEF IInv, VmType
  <2> QED
    BY <1>7, <1>8, <2>1, <2>2, <2>3 DEF IInv, VmType, RegisterType
<1>10. \A ty \in TlbTypes : table'[ty] = IF ty = type THEN end.tlb ELSE table[ty]
  BY <1>6, <1>8 DEF IInv, VmType
<1>11. \A ty \in TlbTypes : Unique(table'[ty])
  BY <1>4, <1>10, PropertiesByTlb DEF Kept, IInv
<1>12. \A ty \in TlbTypes : Matching(table'[ty], pt')
  <2> TAKE ty \in TlbTypes
  <2>1. table[ty] \in Tlb /\ pt \in PageTableSet /\ RegisterType
    BY DEF IInv, VmType
  <2>2. Matching(table[ty], pt)
    BY PropertiesByTlb DEF IInv
  <2>3. Matching(table[ty], end.pt)
    BY <1>4, <1>7, <2>1, <2>2, MatchingSimilar DEF Kept
  <2> QED
    BY <1>4, <1>8, <1>10, <2>3 DEF Kept
<1>13. UniqueTranslations'
  BY <1>11 DEF UniqueTranslations, Unique
<1>14. FencedEntriesMatchWalk'
  <2>1. \A ty \in TlbTypes, s \in SetIds, w \in WayIds :
           table'[ty][s][w].valid /\ table'[ty][s][w].vpn \notin unfenced' =>
              EntryMatches(table'[ty][s][w], find_leaf(pt', table'[ty][s][w].vpn, satp'))
    BY <1>8, <1>12 DEF Matching
  <2> QED
    BY <2>1 DEF FencedEntriesMatchWalk, EntryMatches
<1>15. UsedNotNextVictim'
  <2>1. last'.used.set = end.set /\ last'.used.way = end.way /\ last'.mode = mode
    BY <1>8
  <2>2. rows'[type] = end.row
    BY <1>6, <1>8 DEF IInv, VmType
  <2>3. rows'[type_of(last'.mode.op)][last'.used.set] = end.row[end.set]
    BY <2>1, <2>2 DEF type
  <2>4. NotNext(end) /\ policy' = policy
    BY <1>4, <1>8 DEF Kept
  <2> QED
    BY <2>1, <2>3, <2>4 DEF UsedNotNextVictim, NotNext
<1> QED
  BY <1>9, <1>13, <1>14, <1>15 DEF IInv

(***************************************************************************)
(* What software does                                                      *)
(***************************************************************************)
\* An entry that matched, of a page whose mapping is the same, matches.
LEMMA SameMappingMatches ==
    ASSUME NEW e, NEW l1, NEW l2, SameMapping(l1, l2), EntryMatches(e, l1)
    PROVE  EntryMatches(e, l2)
  BY DEF SameMapping, EntryMatches

\* Entries that are left after some went.
LEMMA FewerEntries ==
    ASSUME VmType, UniqueTranslations, table' \in [TlbTypes -> Tlb],
           \A type \in TlbTypes, s \in SetIds, w \in WayIds :
              table'[type][s][w] \in {table[type][s][w], NoEntry}
    PROVE  UniqueTranslations'
<1>1. \A type \in TlbTypes, s \in SetIds, w \in WayIds :
         table'[type][s][w].valid => table'[type][s][w] = table[type][s][w]
  BY DEF NoEntry
<1> QED
  BY <1>1 DEF UniqueTranslations

\* Entries of pages whose walk, if they need no fence, finds the same mapping.
LEMMA StillMatching ==
    ASSUME VmType, FencedEntriesMatchWalk,
           \A type \in TlbTypes, s \in SetIds, w \in WayIds :
              LET e == table'[type][s][w]
              IN  e.valid /\ e.vpn \notin unfenced' =>
                    /\ e = table[type][s][w] /\ e.vpn \notin unfenced
                    /\ SameMapping(find_leaf(pt, e.vpn, satp), find_leaf(pt', e.vpn, satp'))
    PROVE  FencedEntriesMatchWalk'
<1>1. ASSUME NEW type \in TlbTypes, NEW s \in SetIds, NEW w \in WayIds, NEW e, e = table'[type][s][w],
             e.valid, e.vpn \notin unfenced'
      PROVE  EntryMatches(e, find_leaf(pt', e.vpn, satp'))
  <2>1. /\ e = table[type][s][w] /\ e.vpn \notin unfenced
        /\ SameMapping(find_leaf(pt, e.vpn, satp), find_leaf(pt', e.vpn, satp'))
    BY <1>1
  <2>2. EntryMatches(e, find_leaf(pt, e.vpn, satp))
    BY <1>1, <2>1, PropertiesByTlb DEF Matching
  <2> QED
    BY <2>1, <2>2, SameMappingMatches
<1> QED
  BY <1>1 DEF FencedEntriesMatchWalk, EntryMatches

\* A mapping is the same as itself.
LEMMA MappingIsItself == \A l : SameMapping(l, l)
  BY DEF SameMapping

\* The empty TLBs.
LEMMA FlushedType == Flushed \in [TlbTypes -> Tlb]
  BY DEF Flushed, Tlb

\* What an access left in use stays in use while the rows do.
LEMMA UsedStays ==
    ASSUME UsedNotNextVictim, UNCHANGED <<policy, rows, last>>
    PROVE  UsedNotNextVictim'
  BY DEF UsedNotNextVictim

\* Entries are of pages.
LEMMA EntryOfPage ==
    ASSUME VmType, NEW type \in TlbTypes, NEW s \in SetIds, NEW w \in WayIds, table[type][s][w].valid
    PROVE  table[type][s][w].vpn \in VpnRange
<1>1. table[type] \in Tlb
  BY DEF VmType
<1>2. table[type][s][w] \in TlbEntry \cup {NoEntry}
  BY <1>1 DEF Tlb
<1>3. table[type][s][w] \in TlbEntry
  BY <1>2 DEF NoEntry
<1> QED
  BY <1>3 DEF TlbEntry

\* Software stores a page table entry.
LEMMA WritePteKeeps ==
    ASSUME IInv, NEW slot \in Slots, NEW pte \in Pte, WritePte(slot, pte)
    PROVE  IInv'
<1>1. /\ pt' = [pt EXCEPT ![slot[1]][slot[2]] = pte] /\ writes' = writes + 1
      /\ unfenced' = unfenced \cup Remapped(pt', satp)
      /\ UNCHANGED <<satp, sstatus, policy, table, rows, last>>
  BY DEF WritePte
<1>2. pt' \in PageTableSet
  BY <1>1 DEF IInv, VmType, PageTableSet, Slots
<1>3. unfenced' \in SUBSET VpnRange
  BY <1>1 DEF Remapped, IInv, VmType
<1>4. VmType'
  <2>1. writes' \in Nat
    BY <1>1 DEF IInv, VmType
  <2> QED
    BY <1>1, <1>2, <1>3, <2>1 DEF IInv, VmType, RegisterType
<1>5. FencedEntriesMatchWalk'
  <2>1. ASSUME NEW type \in TlbTypes, NEW s \in SetIds, NEW w \in WayIds, NEW e, e = table'[type][s][w],
               e.valid, e.vpn \notin unfenced'
        PROVE  /\ e = table[type][s][w] /\ e.vpn \notin unfenced
               /\ SameMapping(find_leaf(pt, e.vpn, satp), find_leaf(pt', e.vpn, satp'))
    <3>1. e = table[type][s][w] /\ e.vpn \notin unfenced /\ e.vpn \notin Remapped(pt', satp)
      BY <1>1, <2>1
    <3>2. e.vpn \in VpnRange
      BY <2>1, <3>1, EntryOfPage DEF IInv
    <3> QED
      BY <1>1, <3>1, <3>2 DEF Remapped
  <2> QED
    BY <2>1, StillMatching DEF IInv
<1>6. UniqueTranslations'
  BY <1>1 DEF IInv, UniqueTranslations
<1> QED
  BY <1>1, <1>4, <1>5, <1>6, UsedStays DEF IInv

\* Software writes satp.
LEMMA WriteSatpKeeps ==
    ASSUME IInv, NEW value \in Satps, WriteSatp(value)
    PROVE  IInv'
<1>1. /\ satp' = value /\ table' = satp_flush(value)
      /\ unfenced' = IF value.on # satp.on THEN {} ELSE unfenced \cup Remapped(pt, value)
      /\ UNCHANGED <<pt, sstatus, policy, rows, last, writes>>
  BY DEF WriteSatp
<1>2. value \in Satp
  BY VirtualMemoryAssumption
<1>3. table' \in [TlbTypes -> Tlb]
  BY <1>1, FlushedType DEF satp_flush, IInv, VmType
<1>4. unfenced' \in SUBSET VpnRange
  BY <1>1 DEF Remapped, IInv, VmType
<1>5. VmType'
  BY <1>1, <1>2, <1>3, <1>4 DEF IInv, VmType, RegisterType
<1>6. \A type \in TlbTypes, s \in SetIds, w \in WayIds :
          table'[type][s][w] = IF value.on # satp.on THEN NoEntry ELSE table[type][s][w]
  BY <1>1 DEF satp_flush, Flushed
<1>7. UniqueTranslations'
  BY <1>3, <1>6, FewerEntries DEF IInv
<1>8. FencedEntriesMatchWalk'
  <2>1. ASSUME NEW type \in TlbTypes, NEW s \in SetIds, NEW w \in WayIds, NEW e, e = table'[type][s][w],
               e.valid, e.vpn \notin unfenced'
        PROVE  /\ e = table[type][s][w] /\ e.vpn \notin unfenced
               /\ SameMapping(find_leaf(pt, e.vpn, satp), find_leaf(pt', e.vpn, satp'))
    <3>1. e = table[type][s][w] /\ value.on = satp.on
      BY <1>6, <2>1 DEF NoEntry
    <3>2. e.vpn \notin unfenced /\ e.vpn \notin Remapped(pt, value)
      BY <1>1, <2>1, <3>1
    <3>3. e.vpn \in VpnRange
      BY <2>1, <3>1, EntryOfPage DEF IInv
    <3> QED
      BY <1>1, <3>1, <3>2, <3>3 DEF Remapped
  <2> QED
    BY <2>1, StillMatching DEF IInv
<1> QED
  BY <1>1, <1>5, <1>7, <1>8, UsedStays DEF IInv

\* A fence takes entries away, and the pages it was for need no more.
LEMMA FenceKeeps ==
    ASSUME IInv, NEW vpns, table' = Without(vpns), unfenced' = unfenced \ vpns,
           UNCHANGED <<pt, satp, sstatus, policy, rows, last, writes>>
    PROVE  IInv'
<1>1. \A type \in TlbTypes, s \in SetIds, w \in WayIds :
         table'[type][s][w] = IF table[type][s][w].valid /\ table[type][s][w].vpn \in vpns THEN NoEntry
                              ELSE table[type][s][w]
  BY DEF Without
<1>2. table' \in [TlbTypes -> Tlb]
  <2>1. \A type \in TlbTypes, s \in SetIds, w \in WayIds : table[type][s][w] \in TlbEntry \cup {NoEntry}
    BY DEF IInv, VmType, Tlb
  <2> QED
    BY <2>1 DEF Without, Tlb
<1>3. VmType'
  BY <1>2 DEF IInv, VmType, RegisterType
<1>4. UniqueTranslations'
  BY <1>1, <1>2, FewerEntries DEF IInv
<1>5. FencedEntriesMatchWalk'
  <2>1. ASSUME NEW type \in TlbTypes, NEW s \in SetIds, NEW w \in WayIds, NEW e, e = table'[type][s][w],
               e.valid, e.vpn \notin unfenced'
        PROVE  /\ e = table[type][s][w] /\ e.vpn \notin unfenced
               /\ SameMapping(find_leaf(pt, e.vpn, satp), find_leaf(pt', e.vpn, satp'))
    <3>1. e = table[type][s][w] /\ e.vpn \notin vpns
      BY <1>1, <2>1 DEF NoEntry
    <3> QED
      BY <2>1, <3>1, MappingIsItself
  <2> QED
    BY <2>1, StillMatching DEF IInv
<1> QED
  BY <1>3, <1>4, <1>5, UsedStays DEF IInv

\* A fence of everything.
LEMMA FenceAllKeeps ==
    ASSUME IInv, FenceAll
    PROVE  IInv'
<1>1. table' = Flushed /\ unfenced' = {} /\ UNCHANGED <<pt, satp, sstatus, policy, rows, last, writes>>
  BY DEF FenceAll
<1>2. table' \in [TlbTypes -> Tlb]
  BY <1>1, FlushedType
<1>3. \A type \in TlbTypes, s \in SetIds, w \in WayIds : table'[type][s][w] = NoEntry
  BY <1>1 DEF Flushed
<1>4. VmType'
  BY <1>1, <1>2 DEF IInv, VmType, RegisterType
<1>5. UniqueTranslations' /\ FencedEntriesMatchWalk'
  BY <1>3 DEF UniqueTranslations, FencedEntriesMatchWalk, NoEntry
<1> QED
  BY <1>1, <1>4, <1>5, UsedStays DEF IInv

\* A machine starts with empty TLBs and translation off.
LEMMA InitInvariant == Init => IInv
<1> SUFFICES ASSUME Init PROVE IInv
  OBVIOUS
<1> USE VirtualMemoryAssumption
<1>1. table = Flushed /\ unfenced = {} /\ last.used.way = -1
  BY DEF Init, NoWay
<1>2. \A type \in TlbTypes, s \in SetIds, w \in WayIds : table[type][s][w] = NoEntry
  BY <1>1 DEF Flushed
<1>3. UniqueTranslations /\ FencedEntriesMatchWalk
  BY <1>2 DEF UniqueTranslations, FencedEntriesMatchWalk, NoEntry
<1>4. UsedNotNextVictim
  BY <1>1 DEF UsedNotNextVictim
<1>5. RegisterType /\ pt \in PageTableSet
  BY DEF Init, RegisterType, PageTableSet, Sstatus
<1>6. RowInit(policy) \in RowSet(policy)
  BY <1>5, RowSetIsGood, RowInitGood DEF RegisterType
<1>7. rows \in [TlbTypes -> [SetIds -> RowSet(policy)]]
  BY <1>6 DEF Init
<1>8. last \in [mode : AccessMode, pages : PageRuns \cup {<<>>}, frames : Seq(Int), cause : Causes,
                used : [set : SetIds, way : WayIds \cup {-1}]]
  <2>1. 0 \in SetIds /\ <<>> \in Seq(Int)
    BY DEF SetIds
  <2>2. NoWay \in [set : SetIds, way : WayIds \cup {-1}]
    BY <2>1 DEF NoWay
  <2>3. [priv |-> "MACHINE", op |-> "FETCH"] \in AccessMode
    BY DEF AccessMode, PrivilegeLevels, AccessOps
  <2> QED
    BY <2>1, <2>2, <2>3 DEF Init, Causes
<1> QED
  BY <1>1, <1>3, <1>4, <1>5, <1>7, <1>8, FlushedType DEF Init, IInv, VmType

\* An access of the program.
LEMMA AccessTypes ==
    ASSUME NEW acc \in Accesses
    PROVE  acc.mode \in AccessMode /\ acc.pages \in PageRuns
  BY VirtualMemoryAssumption

\* Every step keeps the invariant.
LEMMA NextInvariant == IInv /\ [Next]_vars => IInv'
<1> SUFFICES ASSUME IInv, [Next]_vars PROVE IInv'
  OBVIOUS
<1> USE VirtualMemoryAssumption
<1>1. CASE UNCHANGED vars
  <2>1. VmType'
    BY <1>1 DEF vars, IInv, VmType, RegisterType
  <2>2. UniqueTranslations' /\ FencedEntriesMatchWalk' /\ UsedNotNextVictim'
    BY <1>1, SMTT(40) DEF vars, IInv, UniqueTranslations, FencedEntriesMatchWalk, UsedNotNextVictim
  <2> QED
    BY <2>1, <2>2 DEF IInv
<1>2. ASSUME NEW acc \in Accesses, NEW random \in [1 .. 2 -> Randoms],
             fetch(acc, random) \/ read(acc, random) \/ write(acc, random)
      PROVE  IInv'
  BY <1>2, AccessTypes, AccessKeeps DEF fetch, read, write
<1>3. ASSUME NEW sp \in PteWrites, WritePte(sp[1], sp[2]) PROVE IInv'
  BY <1>3, WritePteKeeps
<1>4. ASSUME NEW value \in Satps, WriteSatp(value) PROVE IInv'
  BY <1>4, WriteSatpKeeps
<1>5. ASSUME NEW value \in Sstatuses, WriteSstatus(value) PROVE IInv'
  <2>1. VmType'
    BY <1>5 DEF WriteSstatus, IInv, VmType, RegisterType
  <2>2. UniqueTranslations' /\ FencedEntriesMatchWalk' /\ UsedNotNextVictim'
    BY <1>5, SMTT(40) DEF WriteSstatus, IInv, UniqueTranslations, FencedEntriesMatchWalk, UsedNotNextVictim
  <2> QED
    BY <2>1, <2>2 DEF IInv
<1>6. ASSUME NEW vpn \in VpnRange, FencePage(vpn) PROVE IInv'
  BY <1>6, FenceKeeps DEF FencePage, flush_by_vpn
<1>7. ASSUME NEW vpn \in VpnRange, FenceAsid(vpn) PROVE IInv'
  <2>1. unfenced' = unfenced \ {}
    BY <1>7 DEF FenceAsid
  <2> QED
    BY <1>7, <2>1, FenceKeeps DEF FenceAsid
<1>8. CASE FenceAll
  BY <1>8, FenceAllKeeps
<1> QED
  BY <1>1, <1>2, <1>3, <1>4, <1>5, <1>6, <1>7, <1>8 DEF Next

(***************************************************************************)
(* Theorems                                                                *)
(***************************************************************************)
\* The types and the three invariants hold in every state, whether software
\* fences or not.
THEOREM VirtualMemoryInvariant == Spec => []IInv
<1> QED
  BY InitInvariant, NextInvariant, PTL DEF Spec

\* No page has two entries in a TLB, and an entry is in the set of its page.
THEOREM UniqueTranslationsTheorem == Spec => []UniqueTranslations
<1>1. IInv => UniqueTranslations
  BY DEF IInv
<1> QED
  BY <1>1, VirtualMemoryInvariant, PTL

\* The entry of a page that needs no fence is what a walk finds, for page tables of
\* any depth, with superpages, shared tables and roots that change.
THEOREM FencedEntriesMatchWalkTheorem == Spec => []FencedEntriesMatchWalk
<1>1. IInv => FencedEntriesMatchWalk
  BY DEF IInv
<1> QED
  BY <1>1, VirtualMemoryInvariant, PTL

\* Under LRU and PLRU the entry just used is not the next victim, for any number of
\* ways, powers of two or not.
THEOREM UsedNotNextVictimTheorem == Spec => []UsedNotNextVictim
<1>1. IInv => UsedNotNextVictim
  BY DEF IInv
<1> QED
  BY <1>1, VirtualMemoryInvariant, PTL

(***************************************************************************)
(* Refinement                                                              *)
(***************************************************************************)
\* The leaf of a page is marked, if it has one.
DirtyLeaf(t, vpn) ==
    find_leaf(t, vpn, satp) = NoLeaf \/ (find_leaf(t, vpn, satp).pte.a /\ find_leaf(t, vpn, satp).pte.d)

\* It stays marked.
LEMMA DirtyStays ==
    ASSUME RegisterType, NEW t1 \in PageTableSet, NEW t2 \in PageTableSet, Similar(t1, t2), MarksKept(t1, t2),
           NEW vpn \in Nat, DirtyLeaf(t1, vpn)
    PROVE  DirtyLeaf(t2, vpn)
<1> DEFINE l1 == find_leaf(t1, vpn, satp)
           l2 == find_leaf(t2, vpn, satp)
<1>1. SameLeaf(t1, t2, l1, l2)
  BY WalkSame DEF RegisterType
<1>2. l1 = NoLeaf \/ (l1.pte.a /\ l1.pte.d)
  BY DEF DirtyLeaf
<1> HIDE DEF l1, l2
<1>3. CASE l1 = NoLeaf /\ l2 = NoLeaf
  BY <1>3 DEF DirtyLeaf, l2
<1>4. CASE \E slot \in Slots, frame \in Int : l1 = Leaf(t1, slot, frame) /\ l2 = Leaf(t2, slot, frame)
  <2>1. PICK slot \in Slots, frame \in Int : l1 = Leaf(t1, slot, frame) /\ l2 = Leaf(t2, slot, frame)
    BY <1>4
  <2>2. l1.pte = Entry(t1, slot) /\ l2.pte = Entry(t2, slot) /\ l1 # NoLeaf
    BY <2>1 DEF Leaf, NoLeaf
  <2>3. l2.pte.a /\ l2.pte.d
    BY <1>2, <2>2 DEF MarksKept
  <2> QED
    BY <2>3 DEF DirtyLeaf, l2
<1> QED
  BY <1>1, <1>3, <1>4 DEF SameLeaf

\* A page that a store walks.
LEMMA WalkDirties ==
    ASSUME RegisterType, NEW d \in DirectState, NEW vpn \in VpnRange, NEW mode \in AccessMode,
           mode.op = "WRITE", should_translate(VmEnabled, satp, mode.priv), NEW q, q = WalkPage(d, vpn, mode)
    PROVE  /\ q \in DirectState /\ Similar(d.pt, q.pt) /\ MarksKept(d.pt, q.pt)
           /\ \/ q.frames = d.frames /\ q.cause # "NONE"
              \/ /\ d.cause = "NONE" /\ q.cause = "NONE" /\ Len(q.frames) = Len(d.frames) + 1
                 /\ DirtyLeaf(q.pt, vpn)
<1> DEFINE res == walk(d.pt, vpn, satp, sstatus, mode)
           leaf == find_leaf(d.pt, vpn, satp)
<1>1. vpn \in Nat /\ d.pt \in PageTableSet /\ d.frames \in Seq(Int)
  BY VpnIsNumber DEF DirectState
<1>2. Similar(d.pt, d.pt) /\ MarksKept(d.pt, d.pt)
  BY DEF Similar, MarksKept
<1>3. CASE d.cause # "NONE"
  <2>1. q = d
    BY <1>3 DEF WalkPage
  <2> QED
    BY <1>2, <1>3, <2>1
<1>4. CASE d.cause = "NONE" /\ res.cause # "NONE"
  <2>1. q = [d EXCEPT !.cause = res.cause]
    BY <1>4 DEF WalkPage
  <2>2. res.cause \in Causes
    BY <1>1, <1>4, WalkCases
  <2> HIDE DEF res
  <2>3. q \in DirectState /\ q.pt = d.pt /\ q.frames = d.frames /\ q.cause = res.cause
    BY <2>1, <2>2 DEF DirectState
  <2> QED
    BY <1>2, <1>4, <2>3
<1>5. CASE d.cause = "NONE" /\ res.cause = "NONE"
  <2>1. /\ leaf # NoLeaf /\ res.frame = leaf.frame /\ res.slot = leaf.slot
        /\ leaf.slot \in Slots /\ leaf.frame \in Int
    <3> HIDE DEF leaf, res
    <3> QED
      BY <1>1, <1>5, WalkCases DEF leaf, res
  <2>2. q = Walked(d, leaf.slot, leaf.frame, mode.op)
    BY <1>5, <2>1 DEF WalkPage, Walked
  <2>3. SameLeaf(d.pt, d.pt, leaf, leaf)
    BY <1>1, <1>2, WalkSame DEF RegisterType
  <2>4. PICK t2 \in PageTableSet : t2 = Mark(d.pt, leaf.slot, mode.op)
    BY <1>1, <2>1, MarkFacts
  <2>5. q \in DirectState /\ q.pt = t2 /\ q.frames = Append(d.frames, leaf.frame) /\ q.cause = d.cause
    BY <2>1, <2>2, <2>4, WalkMarks
  <2>6. /\ Similar(d.pt, t2) /\ MarksKept(d.pt, t2)
        /\ Entry(t2, leaf.slot).a /\ Entry(t2, leaf.slot).d
    BY <1>1, <2>1, <2>4, MarkFacts
  <2> DEFINE l2 == find_leaf(t2, vpn, satp)
  <2>7. SameLeaf(d.pt, t2, leaf, l2)
    BY <1>1, <2>6, WalkSame DEF RegisterType
  <2> HIDE DEF leaf, l2
  <2>8. PICK slot \in Slots, frame \in Int : leaf = Leaf(d.pt, slot, frame) /\ l2 = Leaf(t2, slot, frame)
    BY <2>1, <2>7 DEF SameLeaf
  <2>9. leaf.slot = slot /\ l2.pte = Entry(t2, slot)
    BY <2>8 DEF Leaf
  <2>10. l2.pte.a /\ l2.pte.d
    BY <2>6, <2>9
  <2>11. DirtyLeaf(t2, vpn)
    BY <2>10 DEF DirtyLeaf, l2
  <2>12. Len(q.frames) = Len(d.frames) + 1
    BY <1>1, <2>1, <2>5
  <2> QED
    BY <1>5, <2>5, <2>6, <2>11, <2>12
<1> QED
  BY <1>3, <1>4, <1>5

\* With software that fences, an access is an access of the direct specification,
\* and a store leaves the pages it went through marked.
LEMMA AccessIsDirect ==
    ASSUME IInv, Disciplined, NEW mode \in AccessMode, NEW pages \in PageRuns,
           NEW random \in [1 .. 2 -> Randoms], Access(mode, pages, random)
    PROVE  /\ Direct!Access(mode, pages)
           /\ last'.mode = mode /\ last'.pages = pages /\ UNCHANGED <<satp, sstatus>>
           /\ mode.op = "WRITE" /\ should_translate(VmEnabled, satp, mode.priv) =>
                 \A n \in 1 .. Len(last'.frames) : n <= Len(pages) /\ DirtyLeaf(pt', pages[n])
<1>1. Len(pages) \in 1 .. 2 /\ \A n \in 1 .. Len(pages) : pages[n] \in VpnRange /\ pages[n] \in Nat
  BY PagesOfRun, VpnIsNumber
<1>2. PICK f : /\ Chain(f, mode, pages, random) /\ Fenced(mode, pages)
               /\ Leaves(f[Len(pages)], mode, pages)
  BY <1>1, AccessChain
<1>3. \A n \in 0 .. Len(pages) : Kept(f[n])
  BY <1>2, ChainKeeps
<1>4. PICK g : /\ DirectChain(g, mode, pages)
               /\ Direct!Access(mode, pages) <=>
                     /\ pt' = g[Len(pages)].pt
                     /\ [mode |-> last'.mode, pages |-> last'.pages, frames |-> last'.frames, cause |-> last'.cause]
                           = [mode |-> mode, pages |-> pages, frames |-> g[Len(pages)].frames,
                              cause |-> g[Len(pages)].cause]
                     /\ UNCHANGED <<satp, sstatus>>
  BY <1>1, DirectAccess
<1>5. RegisterType /\ pt \in PageTableSet
  BY DEF IInv, VmType
<1> DEFINE Stored(n) ==
             mode.op = "WRITE" /\ should_translate(VmEnabled, satp, mode.priv) =>
                /\ Len(g[n].frames) \in 0 .. n
                /\ g[n].cause = "NONE" => Len(g[n].frames) = n
                /\ \A k \in 1 .. Len(g[n].frames) : DirtyLeaf(g[n].pt, pages[k])
           S == {n \in 0 .. Len(pages) : Agrees(f[n], g[n]) /\ Stored(n)}
<1>6. 0 \in S
  <2>1. f[0] = Start(type_of(mode.op)) /\ g[0] = [pt |-> pt, frames |-> <<>>, cause |-> "NONE"]
    BY <1>2, <1>4 DEF Chain, DirectChain
  <2>2. <<>> \in Seq(Int) /\ Len(<<>>) = 0
    OBVIOUS
  <2>3. Agrees(f[0], g[0])
    BY <1>5, <2>1, <2>2 DEF Agrees, Start, DirectState, Causes
  <2>4. Stored(0)
    <3>1. g[0].frames = <<>>
      BY <2>1
    <3>2. Len(g[0].frames) = 0
      BY <2>2, <3>1
    <3> QED
      BY <3>2
  <2> HIDE DEF Stored
  <2> QED
    BY <1>1, <2>3, <2>4
<1>7. ASSUME NEW n \in 1 .. Len(pages), n - 1 \in S PROVE n \in S
  <2>1. n \in 1 .. 2 /\ n - 1 \in 0 .. Len(pages) /\ n \in 0 .. Len(pages)
    BY <1>1
  <2>2. pages[n] \in VpnRange /\ random[n] \in WayIds
    BY <1>1, <2>1, RandomsAreWays
  <2>3. PICK st, d : st = f[n - 1] /\ d = g[n - 1]
    OBVIOUS
  <2>4. Kept(st) /\ Agrees(st, d)
    <3> HIDE DEF Stored
    <3> QED
      BY <1>3, <1>7, <2>1, <2>3
  <2>5. f[n] = translate_page(st, pages[n], mode, random[n])
    BY <1>2, <2>3 DEF Chain
  <2>6. g[n] = WalkPage(d, pages[n], mode)
    <3>1. g[n] = Direct!WalkPage(d, pages[n], mode)
      BY <1>4, <2>3 DEF DirectChain
    <3>2. d \in DirectState
      BY <2>4 DEF Agrees
    <3> QED
      BY <1>5, <2>2, <3>1, <3>2, DirectWalkPage
  <2>7. should_translate(VmEnabled, satp, mode.priv) => pages[n] \notin unfenced
    BY <1>2 DEF Fenced
  <2>8. Agrees(f[n], g[n])
    BY <1>5, <2>2, <2>4, <2>5, <2>6, <2>7, PageIsWalk DEF Kept
  <2>9. ASSUME mode.op = "WRITE", should_translate(VmEnabled, satp, mode.priv)
        PROVE  /\ Len(g[n].frames) \in 0 .. n
               /\ g[n].cause = "NONE" => Len(g[n].frames) = n
               /\ \A k \in 1 .. Len(g[n].frames) : DirtyLeaf(g[n].pt, pages[k])
    <3>1. /\ Len(d.frames) \in 0 .. n - 1
          /\ d.cause = "NONE" => Len(d.frames) = n - 1
          /\ \A k \in 1 .. Len(d.frames) : DirtyLeaf(d.pt, pages[k])
      BY <1>7, <2>3, <2>9
    <3>2. d \in DirectState /\ d.pt \in PageTableSet
      BY <2>4 DEF Agrees, DirectState
    <3>3. PICK q : q = g[n]
      OBVIOUS
    <3>4. /\ q \in DirectState /\ Similar(d.pt, q.pt) /\ MarksKept(d.pt, q.pt)
          /\ \/ q.frames = d.frames /\ q.cause # "NONE"
             \/ /\ d.cause = "NONE" /\ q.cause = "NONE" /\ Len(q.frames) = Len(d.frames) + 1
                /\ DirtyLeaf(q.pt, pages[n])
      BY <1>5, <2>2, <2>6, <2>9, <3>2, <3>3, WalkDirties
    <3>5. q.pt \in PageTableSet
      BY <3>4 DEF DirectState
    <3>6. ASSUME NEW k \in 1 .. Len(d.frames) PROVE DirtyLeaf(q.pt, pages[k])
      <4>1. k \in 1 .. Len(pages)
        BY <1>1, <3>1
      <4> QED
        BY <1>1, <1>5, <3>1, <3>2, <3>4, <3>5, <4>1, DirtyStays
    <3>7. Len(q.frames) \in 0 .. n /\ (q.cause = "NONE" => Len(q.frames) = n)
      BY <3>1, <3>4
    <3>8. ASSUME NEW k \in 1 .. Len(q.frames) PROVE DirtyLeaf(q.pt, pages[k])
      <4>1. CASE q.frames = d.frames
        BY <3>6, <4>1
      <4>2. CASE /\ d.cause = "NONE" /\ Len(q.frames) = Len(d.frames) + 1
                 /\ DirtyLeaf(q.pt, pages[n])
        <5>1. k \in 1 .. Len(d.frames) \/ k = n
          BY <2>1, <3>1, <4>2
        <5> QED
          BY <3>6, <4>2, <5>1
      <4> QED
        BY <3>4, <4>1, <4>2
    <3> QED
      BY <3>3, <3>7, <3>8
  <2>10. Stored(n)
    BY <2>9
  <2> HIDE DEF Stored
  <2> QED
    BY <2>1, <2>8, <2>10
<1> HIDE DEF S, Stored
<1>8. Len(pages) \in S
  BY <1>1, <1>6, <1>7, UpTo
<1> USE DEF S
<1>9. Agrees(f[Len(pages)], g[Len(pages)]) /\ Stored(Len(pages))
  BY <1>8
<1>10. PICK end, q : end = f[Len(pages)] /\ q = g[Len(pages)]
  OBVIOUS
<1>11. end.pt = q.pt /\ end.frames = q.frames /\ end.cause = q.cause
  BY <1>9, <1>10 DEF Agrees
<1>12. /\ pt' = end.pt /\ last'.mode = mode /\ last'.pages = pages /\ last'.frames = end.frames
       /\ last'.cause = end.cause /\ UNCHANGED <<satp, sstatus>>
  BY <1>2, <1>10 DEF Leaves
<1>13. Direct!Access(mode, pages)
  BY <1>4, <1>10, <1>11, <1>12
<1>14. ASSUME mode.op = "WRITE", should_translate(VmEnabled, satp, mode.priv), NEW n \in 1 .. Len(last'.frames)
       PROVE  n <= Len(pages) /\ DirtyLeaf(pt', pages[n])
  <2>1. Len(q.frames) \in 0 .. Len(pages) /\ \A k \in 1 .. Len(q.frames) : DirtyLeaf(q.pt, pages[k])
    BY <1>9, <1>10, <1>14 DEF Stored
  <2> QED
    BY <1>1, <1>11, <1>12, <1>14, <2>1
<1> QED
  BY <1>12, <1>13, <1>14

\* One step marks what it stored through.
StoreMarks ==
    last'.mode.op = "WRITE" /\ should_translate(VmEnabled, satp, last'.mode.priv) /\ last' # last =>
        \A n \in 1 .. Len(last'.frames) :
            LET res == walk(pt', last'.pages[n], satp, sstatus, last'.mode)
            IN  res.cause = "NONE" => res.pte.a /\ res.pte.d

\* A page that is marked is walked to an entry that is marked.
LEMMA DirtyWalk ==
    ASSUME RegisterType, NEW t \in PageTableSet, NEW vpn \in Nat, NEW mode \in AccessMode, DirtyLeaf(t, vpn),
           walk(t, vpn, satp, sstatus, mode).cause = "NONE"
    PROVE  walk(t, vpn, satp, sstatus, mode).pte.a /\ walk(t, vpn, satp, sstatus, mode).pte.d
<1> DEFINE res == walk(t, vpn, satp, sstatus, mode)
           leaf == find_leaf(t, vpn, satp)
<1>1. leaf # NoLeaf /\ res.pte = leaf.pte
  <2> HIDE DEF res, leaf
  <2> QED
    BY WalkCases DEF res, leaf
<1> HIDE DEF res
<1>2. leaf.pte.a /\ leaf.pte.d
  BY <1>1 DEF DirtyLeaf
<1> HIDE DEF leaf
<1> QED
  BY <1>1, <1>2 DEF res

\* An access of the program marks what it stored through.
LEMMA AccessMarks ==
    ASSUME IInv, IInv', Disciplined, NEW mode \in AccessMode, NEW pages \in PageRuns,
           NEW random \in [1 .. 2 -> Randoms], Access(mode, pages, random)
    PROVE  StoreMarks
<1> SUFFICES ASSUME last'.mode.op = "WRITE", should_translate(VmEnabled, satp, last'.mode.priv),
                    NEW n \in 1 .. Len(last'.frames),
                    walk(pt', last'.pages[n], satp, sstatus, last'.mode).cause = "NONE"
             PROVE  /\ walk(pt', last'.pages[n], satp, sstatus, last'.mode).pte.a
                    /\ walk(pt', last'.pages[n], satp, sstatus, last'.mode).pte.d
  BY DEF StoreMarks
<1>1. /\ last'.mode = mode /\ last'.pages = pages
      /\ mode.op = "WRITE" /\ should_translate(VmEnabled, satp, mode.priv) =>
            \A k \in 1 .. Len(last'.frames) : k <= Len(pages) /\ DirtyLeaf(pt', pages[k])
  BY AccessIsDirect
<1>2. RegisterType /\ pt' \in PageTableSet
  BY DEF IInv, VmType
<1>3. PICK t2 : t2 = pt'
  OBVIOUS
<1>4. last'.frames \in Seq(Int)
  BY DEF IInv, VmType
<1>5. n \in 1 .. Len(pages) /\ DirtyLeaf(t2, pages[n])
  BY <1>1, <1>3, <1>4, PagesOfRun
<1>6. pages[n] \in Nat
  BY <1>5, PagesOfRun, VpnIsNumber
<1> QED
  BY <1>1, <1>2, <1>3, <1>5, <1>6, DirtyWalk

\* A step that is no access leaves the record of the last one alone.
LEMMA StepMarks == ASSUME Disciplined, IInv, IInv', [Next]_vars PROVE StoreMarks \/ UNCHANGED vars
<1> USE VirtualMemoryAssumption
<1>1. CASE UNCHANGED vars
  BY <1>1
<1>2. ASSUME NEW acc \in Accesses, NEW random \in [1 .. 2 -> Randoms],
             fetch(acc, random) \/ read(acc, random) \/ write(acc, random)
      PROVE  StoreMarks
  BY <1>2, AccessTypes, AccessMarks DEF fetch, read, write
<1>3. CASE last' = last
  BY <1>3 DEF StoreMarks
<1> QED
  BY <1>1, <1>2, <1>3 DEF Next, WritePte, WriteSatp, WriteSstatus, FencePage, FenceAsid, FenceAll

\* A page that a store went through is marked dirty in memory when the store is
\* done, hit or miss, first page or second, whatever the policy did.
THEOREM StoredPagesDirtyTheorem == ASSUME Disciplined PROVE Spec => StoredPagesDirty
<1>1. IInv /\ IInv' /\ [Next]_vars => [StoreMarks]_vars
  BY StepMarks
<1>2. [StoreMarks]_vars <=>
      [last'.mode.op = "WRITE" /\ should_translate(VmEnabled, satp, last'.mode.priv)
       /\ last' # last =>
          \A n \in 1 .. Len(last'.frames) :
             LET res == walk(pt', last'.pages[n], satp, sstatus, last'.mode)
             IN  res.cause = "NONE" => res.pte.a /\ res.pte.d]_vars
  BY DEF StoreMarks
<1> QED
  BY <1>1, <1>2, VirtualMemoryInvariant, PTL DEF Spec, StoredPagesDirty

\* The direct specification has the same pages, entries and modes.
LEMMA DirectSets ==
    /\ Direct!AccessMode = AccessMode /\ Direct!PageRuns = PageRuns /\ Direct!Slots = Slots
    /\ Direct!Pte = Pte /\ Direct!Satp = Satp /\ Direct!Sstatus = Sstatus
    /\ Direct!Indices = Indices
  BY DEF Direct!AccessMode, AccessMode, Direct!PageRuns, PageRuns, Direct!VpnRange, VpnRange,
         Direct!Span, Span, Direct!Slots, Slots, Direct!Indices, Indices, Direct!Pte, Pte,
         Direct!PteFields, PteFields, Direct!is_leaf, is_leaf, Direct!Satp, Satp,
         Direct!Sstatus, Sstatus, Direct!PrivilegeLevels, PrivilegeLevels,
         Direct!AccessOps, AccessOps

\* The steps of the program, as the direct specification sees them.
LEMMA StepIsDirect == ASSUME Disciplined, IInv, [Next]_vars PROVE [Direct!Next]_Direct!dwVars
<1> USE VirtualMemoryAssumption
<1>1. CASE UNCHANGED vars
  BY <1>1 DEF vars, Direct!dwVars
<1>2. ASSUME NEW acc \in Accesses, NEW random \in [1 .. 2 -> Randoms],
             fetch(acc, random) \/ read(acc, random) \/ write(acc, random)
      PROVE  Direct!Next
  <2>1. acc.mode \in AccessMode /\ acc.pages \in PageRuns /\ Access(acc.mode, acc.pages, random)
    BY <1>2, AccessTypes DEF fetch, read, write
  <2>2. Direct!Access(acc.mode, acc.pages) /\ last'.mode = acc.mode /\ last'.pages = acc.pages
    BY <2>1, AccessIsDirect
  <2>3. /\ last'.mode \in Direct!AccessMode /\ last'.pages \in Direct!PageRuns
        /\ Direct!Access(last'.mode, last'.pages)
    BY <2>1, <2>2, DirectSets
  <2> QED
    BY <2>3 DEF Direct!Next
<1>3. ASSUME NEW sp \in PteWrites, WritePte(sp[1], sp[2]) PROVE Direct!Next
  <2>1. PICK slot \in Slots, pte \in Pte : slot = sp[1] /\ pte = sp[2]
    OBVIOUS
  <2>2. pt \in PageTableSet
    BY DEF IInv, VmType
  <2>3. /\ pt' = [pt EXCEPT ![slot[1]][slot[2]] = pte]
        /\ UNCHANGED <<satp, sstatus, last>>
    BY <1>3, <2>1 DEF WritePte
  <2>4. Direct!Entry(pt', slot) = pte
    BY <2>2, <2>3 DEF Direct!Entry, PageTableSet, Slots
  <2>5. Direct!WritePte(slot, pte)
    BY <2>3 DEF Direct!WritePte
  <2> QED
    BY <2>1, <2>4, <2>5, DirectSets DEF Direct!Next
<1>4. ASSUME NEW value \in Satps, WriteSatp(value) PROVE Direct!Next
  BY <1>4, DirectSets DEF WriteSatp, Direct!WriteSatp, Direct!Next
<1>5. ASSUME NEW value \in Sstatuses, WriteSstatus(value) PROVE Direct!Next
  BY <1>5, DirectSets DEF WriteSstatus, Direct!WriteSstatus, Direct!Next
<1>6. CASE UNCHANGED <<pt, satp, sstatus, last>>
  BY <1>6 DEF Direct!dwVars
<1> QED
  BY <1>1, <1>2, <1>3, <1>4, <1>5, <1>6 DEF Next, FencePage, FenceAsid, FenceAll

\* With software that fences, the two TLBs are not to be noticed: the machine with
\* them does what the machine that walks the tables at every access does, whatever
\* the sizes of the tables and of the TLBs, and whatever the policy.
THEOREM ImplementsDirectWalkTheorem == ASSUME Disciplined PROVE Spec => ImplementsDirectWalk
<1> USE VirtualMemoryAssumption
<1>1. Init => Direct!Init
  BY DirectSets DEF Init, Direct!Init, Direct!NoAccess
<1>2. IInv /\ [Next]_vars => [Direct!Next]_Direct!dwVars
  BY StepIsDirect
<1> QED
  BY <1>1, <1>2, VirtualMemoryInvariant, PTL DEF Spec, ImplementsDirectWalk, Direct!Spec
============================================================================
