---------------------------- MODULE TlbPolicies ----------------------------
(***************************************************************************)
(* The replacement policies of src/machine/memory/tlb/tlb_policy.cpp, for  *)
(* one set of a TLB.  They are not those of the caches: an entry that is   *)
(* flushed is not reported to the policy.                                  *)
(***************************************************************************)
EXTENDS Integers

CONSTANT Ways    \* the number of ways, the associativity of the TLB

ASSUME WaysAssumption == Ways \in Nat \ {0}

WayIds == 0 .. Ways - 1
PolicyKinds == {"RAND", "LRU", "LFU", "PLRU"}

Pow2[n \in 0 .. Ways] == IF n = 0 THEN 1 ELSE 2 * Pow2[n - 1]

\* The depth of PLRU's tree: the logarithm of the number of ways, rounded up.
c_log2 == CHOOSE n \in 0 .. Ways : Pow2[n] >= Ways /\ (n = 0 \/ Pow2[n - 1] < Ways)

TreeNodes == 0 .. Pow2[c_log2] - 2

RowInit(policy) ==
    CASE policy = "RAND" -> <<>>
      [] policy = "LRU"  -> [i \in WayIds |-> i]
      [] policy = "LFU"  -> [w \in WayIds |-> 0]
      [] policy = "PLRU" -> [n \in TreeNodes |-> 0]

\* PLRU follows the bits from the root to a way.
PLRUWay(tree) ==
    LET idx[lvl \in 0 .. c_log2] ==
            IF lvl = 0 THEN 0
            ELSE 2 * idx[lvl - 1] + tree[Pow2[lvl - 1] - 1 + idx[lvl - 1]]
    IN  IF idx[c_log2] < Ways THEN idx[c_log2] ELSE Ways - 1

\* LFU takes the first way after way 0 with a zero count, else the first of the
\* least used.
LFUWay(counts) ==
    LET zeros == {w \in WayIds \ {0} : counts[w] = 0}
        least == {w \in WayIds : \A v \in WayIds : counts[w] <= counts[v]}
        first == IF zeros # {} THEN zeros ELSE least
    IN  CHOOSE w \in first : \A v \in first : w <= v

\* The way to replace; random is what std::rand() % associativity gives.
select_way(policy, row, random) ==
    CASE policy = "RAND" -> random
      [] policy = "LRU"  -> row[0]
      [] policy = "LFU"  -> LFUWay(row)
      [] policy = "PLRU" -> PLRUWay(row)

\* Mutant: the way that was used goes to the front of the queue.
notify_access_Front(policy, row, way) ==
    CASE policy = "RAND" -> row
      [] policy = "LRU"  -> [i \in WayIds |-> IF i = 0 THEN way
                                ELSE LET p == CHOOSE j \in WayIds : row[j] = way
                                     IN  IF i <= p THEN row[i - 1] ELSE row[i]]
      [] policy = "LFU"  -> [row EXCEPT ![way] = @ + 1]
      [] policy = "PLRU" -> row

\* The way that was used moves to the back of LRU's queue, counts up in LFU,
\* and turns the bits of PLRU's tree away from itself.  The node of the next
\* level is found from the last direction alone.
notify_access(policy, row, way) ==
    CASE policy = "RAND" -> row
      [] policy = "LRU"  -> LET p == CHOOSE j \in WayIds : row[j] = way
                            IN  [i \in WayIds |-> IF i < p THEN row[i]
                                    ELSE IF i < Ways - 1 THEN row[i + 1] ELSE way]
      [] policy = "LFU"  -> [row EXCEPT ![way] = @ + 1]
      [] policy = "PLRU" ->
            LET dir(lvl)  == (way \div Pow2[c_log2 - lvl - 1]) % 2
                node(lvl) == IF lvl = 0 THEN 0 ELSE Pow2[lvl] - 1 + dir(lvl - 1)
            IN  [n \in TreeNodes |->
                    IF \E lvl \in 0 .. c_log2 - 1 : node(lvl) = n
                    THEN 1 - dir(CHOOSE lvl \in 0 .. c_log2 - 1 : node(lvl) = n)
                    ELSE row[n]]
=============================================================================
