------------------------------ MODULE MCCache ------------------------------
(* Cache with the replacement policies and small constants, for TLC. *)
EXTENDS Cache

CONSTANTS ReplacementPolicy, LfuMod

P == INSTANCE CachePolicies

MCPolicyStates == P!RowStates(ReplacementPolicy)
MCPolicyInit == P!RowInit(ReplacementPolicy)
MCUpdateStats(s, w, v) == P!update_stats(ReplacementPolicy, s, w, v)
MCWaysToEvict(s) == P!select_way_to_evict(ReplacementPolicy, s)

\* The memory starts with zeros and one other byte.
MCInitMem == [a \in Addr |-> IF a = 1 THEN 1 ELSE 0]

Req(a, n) == [addr |-> a, size |-> n]

\* A byte, two bytes across a block boundary, and a byte of a third block.
CachedRequests == {Req(1, 1), Req(1, 2), Req(4, 1)}

\* With UncachedStart = 6: the same, and a byte of the uncached area.
SeparateRequests == CachedRequests \cup {Req(6, 1)}

\* With UncachedStart = 4: a byte of the last cacheable block, and the whole of it.
LastBlockRequests == {Req(2, 1), Req(2, 2)}
=============================================================================
