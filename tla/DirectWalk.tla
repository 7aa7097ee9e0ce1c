----------------------------- MODULE DirectWalk -----------------------------
(***************************************************************************)
(* What virtual memory promises: every access walks the page tables as     *)
(* they are in memory at that moment, page by page, and marks the entries  *)
(* it goes through.  There is no TLB here.                                 *)
(***************************************************************************)
EXTENDS PageTables

CONSTANT VmEnabled   \* MachineConfig::get_vm_enabled

VARIABLES pt, satp, sstatus, last

dwVars == <<pt, satp, sstatus, last>>

\* One page of an access: the state so far, and what the walk adds to it.
WalkPage(so_far, vpn, mode) ==
    LET r == walk(so_far.pt, vpn, satp, sstatus, mode)
    IN  IF so_far.cause # "NONE" THEN so_far
        ELSE IF ~should_translate(VmEnabled, satp, mode.priv)
             THEN [so_far EXCEPT !.frames = Append(@, vpn)]
        ELSE IF r.cause # "NONE" THEN [so_far EXCEPT !.cause = r.cause]
        ELSE [so_far EXCEPT !.frames = Append(@, r.frame),
                            !.pt[r.slot[1]][r.slot[2]] = with_ad_bits(@, mode.op)]

Access(mode, pages) ==
    LET done[n \in 0 .. Len(pages)] ==
            IF n = 0 THEN [pt |-> pt, frames |-> <<>>, cause |-> "NONE"]
            ELSE WalkPage(done[n - 1], pages[n], mode)
        res == done[Len(pages)]
    IN  /\ pt' = res.pt
        /\ last' = [mode |-> mode, pages |-> pages, frames |-> res.frames, cause |-> res.cause]
        /\ UNCHANGED <<satp, sstatus>>

WritePte(slot, pte) ==
    /\ pt' = [pt EXCEPT ![slot[1]][slot[2]] = pte]
    /\ UNCHANGED <<satp, sstatus, last>>

WriteSatp(value) ==
    /\ satp' = value
    /\ UNCHANGED <<pt, sstatus, last>>

WriteSstatus(value) ==
    /\ sstatus' = value
    /\ UNCHANGED <<pt, satp, last>>

NoAccess == [mode |-> [priv |-> "MACHINE", op |-> "FETCH"], pages |-> <<>>,
             frames |-> <<>>, cause |-> "NONE"]

Init ==
    /\ pt \in [Tables -> [Indices -> Pte]]
    /\ satp \in Satp /\ ~satp.on
    /\ sstatus = [sum |-> FALSE, mxr |-> FALSE]
    /\ last = NoAccess

Next ==
    \/ /\ last'.mode \in AccessMode
       /\ last'.pages \in PageRuns
       /\ Access(last'.mode, last'.pages)
    \/ \E slot \in Slots : Entry(pt', slot) \in Pte /\ WritePte(slot, Entry(pt', slot))
    \/ \E value \in Satp : WriteSatp(value)
    \/ \E value \in Sstatus : WriteSstatus(value)

Spec == Init /\ [][Next]_dwVars
=============================================================================
