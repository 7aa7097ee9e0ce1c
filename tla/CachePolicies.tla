--------------------------- MODULE CachePolicies ---------------------------
(***************************************************************************)
(* The five replacement policies of src/machine/memory/cache/              *)
(* cache_policy.cpp, each as the set of states of one row, the initial     *)
(* state, update_stats and the results select_way_to_evict may have.       *)
(***************************************************************************)
EXTENDS Integers

CONSTANTS
    Associativity,
    LfuMod       \* LFU's statistics are unsigned: modulo 2^32 in the code

ASSUME PoliciesAssumption ==
    /\ Associativity \in Nat \ {0}
    /\ LfuMod \in Nat \ {0, 1}

Ways == 0 .. Associativity - 1

(***************************************************************************)
(* LRU: a queue of all ways, the next one to evict at index 0              *)
(***************************************************************************)
LRUStates == {q \in [Ways -> Ways] : \A w \in Ways : \E i \in Ways :
                                        \A j \in Ways : q[j] = w <=> j = i}

LRUInit == [i \in Ways |-> i]

\* Mutant: an invalid way goes to the back as well.
LRUUpdate_Back(q, way, is_valid) ==
    LET p == CHOOSE i \in Ways : q[i] = way
    IN  [i \in Ways |-> IF i < p THEN q[i]
                        ELSE IF i < Associativity - 1 THEN q[i + 1] ELSE way]

\* Mutant: a hit moves its way by one place only.
LRUUpdate_Step(q, way, is_valid) ==
    LET p == CHOOSE i \in Ways : q[i] = way
        n == IF is_valid THEN IF p = Associativity - 1 THEN p ELSE p + 1
             ELSE IF p = 0 THEN p ELSE p - 1
    IN  [q EXCEPT ![p] = q[n], ![n] = way]

\* The pass of swaps takes `way` out of its place and puts it at the back
\* (valid) or at the front (invalid) of the queue.
LRUUpdate(q, way, is_valid) ==
    LET p == CHOOSE i \in Ways : q[i] = way
    IN  IF is_valid
        THEN [i \in Ways |-> IF i < p THEN q[i]
                             ELSE IF i < Associativity - 1 THEN q[i + 1] ELSE way]
        ELSE [i \in Ways |-> IF i > p THEN q[i]
                             ELSE IF i > 0 THEN q[i - 1] ELSE way]

LRUEvict(q) == {q[0]}

(***************************************************************************)
(* LFU: a use count per way                                                *)
(***************************************************************************)
LFUStates == [Ways -> 0 .. LfuMod - 1]

LFUInit == [w \in Ways |-> 0]

LFUUpdate(s, way, is_valid) ==
    [s EXCEPT ![way] = IF is_valid THEN (@ + 1) % LfuMod ELSE 0]

\* The scan stops at the first zero; otherwise the first minimum wins.
LFUEvict(s) == {w \in Ways : /\ \A v \in Ways : s[w] <= s[v]
                             /\ \A v \in Ways : v < w => s[v] > s[w]}

(***************************************************************************)
(* RAND: no state                                                          *)
(***************************************************************************)
RANDStates == {"none"}

RANDInit == "none"

RANDUpdate(s, way, is_valid) == s

RANDEvict(s) == Ways

(***************************************************************************)
(* PLRU: a binary tree of pointers, level by level in one array            *)
(***************************************************************************)
Pow2[n \in 0 .. Associativity] == IF n = 0 THEN 1 ELSE 2 * Pow2[n - 1]

\* ceil(log2(associativity))
CLog2 == CHOOSE n \in 0 .. Associativity :
             /\ Pow2[n] >= Associativity
             /\ n = 0 \/ Pow2[n - 1] < Associativity

PLRUNodes == 0 .. Pow2[CLog2] - 2

PLRUStates == [PLRUNodes -> {0, 1}]

PLRUInit == [n \in PLRUNodes |-> 0]

\* The node visited at level i, the top i bits of the way being `prefix`.
PLRUNode(i, prefix) == Pow2[i] - 1 + prefix

\* The top i bits of a way: way >> (associativityCLog2 - i).
PLRUPrefix(way, i) == way \div Pow2[CLog2 - i]

\* Mutant: the pointers are turned towards `way`.
PLRUUpdate_Towards(s, way, is_valid) ==
    [n \in PLRUNodes |->
        IF \E i \in 0 .. CLog2 - 1 : n = PLRUNode(i, PLRUPrefix(way, i))
        THEN LET i == CHOOSE i \in 0 .. CLog2 - 1 : n = PLRUNode(i, PLRUPrefix(way, i))
             IN  PLRUPrefix(way, i + 1) % 2
        ELSE s[n]]

\* Mutant: only the pointer of the root is turned.
PLRUUpdate_Root(s, way, is_valid) ==
    [s EXCEPT ![0] = 1 - (PLRUPrefix(way, 1) % 2)]

\* Every pointer on the path to `way` is turned to the other direction.
PLRUUpdate(s, way, is_valid) ==
    [n \in PLRUNodes |->
        IF \E i \in 0 .. CLog2 - 1 : n = PLRUNode(i, PLRUPrefix(way, i))
        THEN LET i == CHOOSE i \in 0 .. CLog2 - 1 : n = PLRUNode(i, PLRUPrefix(way, i))
             IN  1 - (PLRUPrefix(way, i + 1) % 2)
        ELSE s[n]]

\* Following the pointers from the root, one more bit of the way per level.
PLRUEvict(s) ==
    LET idx[i \in 0 .. CLog2] ==
            IF i = 0 THEN 0 ELSE idx[i - 1] * 2 + s[PLRUNode(i - 1, idx[i - 1])]
    IN  {IF idx[CLog2] >= Associativity THEN Associativity - 1 ELSE idx[CLog2]}

(***************************************************************************)
(* NMRU: the most recently used way                                        *)
(***************************************************************************)
NMRUStates == Ways

NMRUInit == 0

NMRUUpdate(s, way, is_valid) == way

\* A random index below associativity - 1 that skips the most recent way.
NMRUEvict(s) ==
    IF Associativity = 1 THEN {0}
    ELSE {IF i < s THEN i ELSE i + 1 : i \in 0 .. Associativity - 2}

(***************************************************************************)
(* get_policy_instance: the policy of cache_config.replacement_policy()    *)
(***************************************************************************)
RowStates(policy) ==
    CASE policy = "RP_LRU" -> LRUStates
      [] policy = "RP_LFU" -> LFUStates
      [] policy = "RP_RAND" -> RANDStates
      [] policy = "RP_PLRU" -> PLRUStates
      [] policy = "RP_NMRU" -> NMRUStates

RowInit(policy) ==
    CASE policy = "RP_LRU" -> LRUInit
      [] policy = "RP_LFU" -> LFUInit
      [] policy = "RP_RAND" -> RANDInit
      [] policy = "RP_PLRU" -> PLRUInit
      [] policy = "RP_NMRU" -> NMRUInit

update_stats(policy, s, way, is_valid) ==
    CASE policy = "RP_LRU" -> LRUUpdate(s, way, is_valid)
      [] policy = "RP_LFU" -> LFUUpdate(s, way, is_valid)
      [] policy = "RP_RAND" -> RANDUpdate(s, way, is_valid)
      [] policy = "RP_PLRU" -> PLRUUpdate(s, way, is_valid)
      [] policy = "RP_NMRU" -> NMRUUpdate(s, way, is_valid)

\* The results select_way_to_evict may have.
select_way_to_evict(policy, s) ==
    CASE policy = "RP_LRU" -> LRUEvict(s)
      [] policy = "RP_LFU" -> LFUEvict(s)
      [] policy = "RP_RAND" -> RANDEvict(s)
      [] policy = "RP_PLRU" -> PLRUEvict(s)
      [] policy = "RP_NMRU" -> NMRUEvict(s)
=============================================================================
