----------------------------- MODULE MCVirtual -----------------------------
(* Sv32-like tables of two levels: a root (frame 0) with a pointer and a   *)
(* superpage, and one table (frame 1).                                     *)
EXTENDS VirtualMemory, TLC

PteOf(r, w, x, u, ppn) ==
    [v |-> TRUE, r |-> r, w |-> w, x |-> x, u |-> u, a |-> FALSE, d |-> FALSE, ppn |-> ppn]

Invalid == [PteOf(FALSE, FALSE, FALSE, FALSE, 0) EXCEPT !.v = FALSE]
Pointer == PteOf(FALSE, FALSE, FALSE, FALSE, 1)
UserRW  == PteOf(TRUE, TRUE, FALSE, TRUE, 4)
KernRWX == PteOf(TRUE, TRUE, TRUE, FALSE, 6)    \* aligned for a superpage
ExecOdd == PteOf(FALSE, FALSE, TRUE, TRUE, 5)   \* misaligned for a superpage

MCFrames == 0 .. 7
MCTables == {0, 1}
MCInitTables == {(0 :> (0 :> Pointer @@ 1 :> KernRWX)) @@ (1 :> (0 :> UserRW @@ 1 :> Invalid))}
\* The last write clears A and D of a page in use.
MCPteWrites == {<<<<0, 1>>, Pointer>>, <<<<1, 0>>, ExecOdd>>, <<<<1, 0>>, UserRW>>}
MCSatps == {[on |-> FALSE, root |-> 0], [on |-> TRUE, root |-> 0], [on |-> TRUE, root |-> 1]}
MCSstatuses == {[sum |-> FALSE, mxr |-> FALSE], [sum |-> TRUE, mxr |-> TRUE]}
MCAccess(priv, op, pages) == [mode |-> [priv |-> priv, op |-> op], pages |-> pages]
MCAccesses == {MCAccess("SUPERVISOR", "FETCH", <<2>>), MCAccess("SUPERVISOR", "WRITE", <<0>>),
               MCAccess("UNPRIVILEGED", "READ", <<0>>), MCAccess("SUPERVISOR", "READ", <<2, 3>>),
               MCAccess("MACHINE", "WRITE", <<2>>)}
=============================================================================
