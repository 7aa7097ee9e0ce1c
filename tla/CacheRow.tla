------------------------------ MODULE CacheRow ------------------------------
(***************************************************************************)
(* The replacement policy at work in one row of a cache: the calls         *)
(* access(), kick() and reset() of cache.cpp make on it, in any order.     *)
(* `valid` is the valid bit of the row's lines.  `older`, `last` and       *)
(* `streak` only record the past, for the properties.                      *)
(***************************************************************************)
EXTENDS CachePolicies, Sequences, FiniteSets

CONSTANT Policies   \* the policies a cache of this kind may be configured with

ASSUME RowAssumption ==
    Policies \subseteq {"RP_LRU", "RP_LFU", "RP_RAND", "RP_PLRU", "RP_NMRU"}

VARIABLES
    policy,   \* the configured policy
    stats,    \* what the policy keeps for the row
    valid,    \* the ways that hold a valid line
    older,    \* the pairs of valid ways the first of which was accessed longer ago (LRU)
    last,     \* the way of the last update_stats call
    streak    \* the ways filled by the misses since the last other call

vars == <<policy, stats, valid, older, last, streak>>

\* The record of accesses without those to way w, and after one to it.
Without(w) == {p \in older : w # p[1] /\ w # p[2]}

Accessed(w) ==
    IF policy = "RP_LRU" THEN Without(w) \cup {<<u, w>> : u \in valid \ {w}} ELSE older

Init ==
    /\ policy \in Policies
    /\ stats = RowInit(policy)
    /\ valid = {}
    /\ older = {}
    /\ last = 0
    /\ streak = <<>>

\* access() finds the block in way w.
Hit(w) ==
    /\ w \in valid
    /\ stats' = update_stats(policy, stats, w, TRUE)
    /\ older' = Accessed(w)
    /\ last' = w
    /\ streak' = <<>>
    /\ UNCHANGED <<policy, valid>>

\* access() misses: the chosen way is kicked and filled.
Miss ==
    \E w \in select_way_to_evict(policy, stats) :
        /\ stats' = update_stats(policy, update_stats(policy, stats, w, FALSE), w, TRUE)
        /\ valid' = valid \cup {w}
        /\ older' = Accessed(w)
        /\ last' = w
        /\ streak' = IF Len(streak) < Associativity THEN Append(streak, w) ELSE <<w>>
        /\ UNCHANGED policy

\* flush() kicks the valid line of way w.
Kick(w) ==
    /\ w \in valid
    /\ stats' = update_stats(policy, stats, w, FALSE)
    /\ valid' = valid \ {w}
    /\ older' = Without(w)
    /\ last' = w
    /\ streak' = <<>>
    /\ UNCHANGED policy

\* reset() clears the valid bits and leaves the statistics.
Reset ==
    /\ valid' = {}
    /\ older' = {}
    /\ streak' = <<>>
    /\ UNCHANGED <<policy, stats, last>>

Next ==
    \/ \E w \in Ways : Hit(w) \/ Kick(w)
    \/ Miss

Spec == Init /\ [][Next]_vars

SpecReset == Init /\ [][Next \/ Reset]_vars

\* The statistics keep their shape; for LRU, the queue never loses a way (the
\* code throws "LRU lost the way from priority queue" if it does).
TypeOK ==
    /\ stats \in RowStates(policy)
    /\ valid \subseteq Ways
    /\ last \in Ways

\* LRU and LFU: a valid line is only evicted when the row has no invalid one left.  For
\* LFU this holds until the count of a line wraps to zero, which "only invalid blocks"
\* are taken to have.
InvalidFirst ==
    valid # Ways /\ (policy = "RP_LRU" \/ (policy = "RP_LFU" /\ \A w \in valid : stats[w] # 0))
        => select_way_to_evict(policy, stats) \cap valid = {}

\* LRU's victim is the way whose last access is the oldest.
LeastRecentVictim ==
    policy = "RP_LRU" /\ valid = Ways
        => \A v \in select_way_to_evict(policy, stats) :
               \A u \in Ways \ {v} : <<v, u>> \in older

\* PLRU and NMRU never evict the way they touched last.
NotLastTouched ==
    policy \in {"RP_PLRU", "RP_NMRU"} /\ Associativity > 1 /\ valid # {}
        => last \notin select_way_to_evict(policy, stats)

\* The victim of a full row is the one the policy is named for, after any mixture of
\* hits, misses, kicks and restarts.
PolicyVictim == LeastRecentVictim /\ NotLastTouched

\* LRU and PLRU: as many misses in a row as there are ways replace every way once.  PLRU
\* keeps this only if its tree has as many leaves as the row has ways; otherwise the
\* last way stands for the missing ones and its turn comes too often.
MissesReplaceAll ==
    policy = "RP_LRU" \/ (policy = "RP_PLRU" /\ Pow2[CLog2] = Associativity) =>
        \A i, j \in 1 .. Len(streak) : streak[i] = streak[j] => i = j
=============================================================================
