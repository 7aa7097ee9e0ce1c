---------------------------- MODULE ControlState ----------------------------
(***************************************************************************)
(* The control and status registers that traps and interrupts use:         *)
(* src/machine/csr/controlstate.cpp, for RV32.  A status register is the   *)
(* record of its fields, an interrupt register the set of its bits, a trap *)
(* vector whether it is set, a cause register <<exception>>, or <<"INT",    *)
(* number>>.                                                               *)
(***************************************************************************)
EXTENDS Integers

PrivilegeLevels == {"UNPRIVILEGED", "SUPERVISOR", "MACHINE"}

Rank(priv) == CASE priv = "UNPRIVILEGED" -> 0 [] priv = "SUPERVISOR" -> 1 [] priv = "MACHINE" -> 3

\* The interrupt lines of the machine, and the bits a program may change.
Irqs == {1, 3, 5, 7, 9, 11, 16, 17}
MieMask == {1, 3, 5, 7, 9, 11} \cup 16 .. 23
MipMask == {1, 5, 9}
SieMask == {1, 5, 9, 16}
SipMask == SieMask

Sstatus == [sie : BOOLEAN, spie : BOOLEAN, spp : {"UNPRIVILEGED", "SUPERVISOR"}]
Mstatus == [sie : BOOLEAN, spie : BOOLEAN, spp : {"UNPRIVILEGED", "SUPERVISOR"},
            mie : BOOLEAN, mpie : BOOLEAN, mpp : PrivilegeLevels]

\* The registers after reset, with the given enables and delegations written.
reset(setup) ==
    [mstatus |-> [sie |-> FALSE, spie |-> FALSE, spp |-> "UNPRIVILEGED",
                  mie |-> FALSE, mpie |-> FALSE, mpp |-> "UNPRIVILEGED"],
     sstatus |-> [sie |-> FALSE, spie |-> FALSE, spp |-> "UNPRIVILEGED"],
     mie |-> setup.mie \cap MieMask, mip |-> {}, sie |-> setup.sie \cap SieMask, sip |-> {},
     mideleg |-> setup.mideleg, medeleg |-> setup.medeleg,
     mtvec |-> setup.mtvec, stvec |-> setup.stvec, mcause |-> <<>>, scause |-> <<>>]

(***************************************************************************)
(* Write handlers                                                          *)
(***************************************************************************)
SView(mstatus) == [sie |-> mstatus.sie, spie |-> mstatus.spie, spp |-> mstatus.spp]

write_mstatus(csr, val) == [csr EXCEPT !.mstatus = val, !.sstatus = SView(val)]

write_sstatus(csr, val) ==
    LET m == [csr.mstatus EXCEPT !.sie = val.sie, !.spie = val.spie, !.spp = val.spp]
    IN  [csr EXCEPT !.mstatus = m, !.sstatus = SView(m)]

\* default_wlrl_write_handler: only the bits of the mask change.
Masked(reg, val, mask) == (val \cap mask) \cup (reg \ mask)

write_mip(csr, val) == [csr EXCEPT !.mip = Masked(@, val, MipMask)]
write_sip(csr, val) == [csr EXCEPT !.sip = Masked(@, val, SipMask)]

(***************************************************************************)
(* Interrupts                                                              *)
(***************************************************************************)
\* Mutant: an inactive line leaves the bit.
set_interrupt_signal_Sticky(csr, irq, active) ==
    LET mip == IF active THEN csr.mip \cup {irq} ELSE csr.mip
    IN  [csr EXCEPT !.mip = mip, !.sip = mip \cap csr.mideleg]

set_interrupt_signal(csr, irq, active) ==
    LET mip == IF active THEN csr.mip \cup {irq} ELSE csr.mip \ {irq}
    IN  [csr EXCEPT !.mip = mip, !.sip = mip \cap csr.mideleg]

core_interrupt_request(csr, priv) ==
    IF csr.mip \cap csr.mie # {} /\ (priv # "MACHINE" \/ csr.mstatus.mie) THEN "INT_M"
    ELSE IF csr.sip \cap csr.sie # {}
            /\ (priv = "UNPRIVILEGED" \/ (priv = "SUPERVISOR" /\ csr.mstatus.sie)) THEN "INT_S"
    ELSE "NONE"

\* The lowest interrupt that is pending and enabled, 0 if there is none.
LowestIrq(irqs) == IF irqs = {} THEN 0 ELSE CHOOSE i \in irqs : \A j \in irqs : i <= j

update_exception_cause(csr, excause, to_priv) ==
    LET value == IF excause \notin {"INT_M", "INT_S"} THEN <<excause>>
                 ELSE IF to_priv = "SUPERVISOR" THEN <<"INT", LowestIrq(csr.sie \cap csr.sip)>>
                 ELSE <<"INT", LowestIrq(csr.mie \cap csr.mip)>>
    IN  IF to_priv = "MACHINE" THEN [csr EXCEPT !.mcause = value]
        ELSE [csr EXCEPT !.scause = value]

(***************************************************************************)
(* Entry to a handler and return from it                                   *)
(***************************************************************************)
\* Mutant: interrupts are disabled before the enable is saved.
exception_initiate_Order(csr, priv, to_priv) ==
    IF to_priv = "MACHINE"
    THEN write_mstatus(csr, [csr.mstatus EXCEPT !.mpie = FALSE, !.mie = FALSE, !.mpp = priv])
    ELSE write_sstatus(csr, [csr.sstatus EXCEPT !.spie = FALSE, !.sie = FALSE,
             !.spp = IF priv = "SUPERVISOR" THEN priv ELSE "UNPRIVILEGED"])

exception_initiate(csr, priv, to_priv) ==
    IF to_priv = "MACHINE"
    THEN write_mstatus(csr, [csr.mstatus EXCEPT !.mpie = csr.mstatus.mie, !.mie = FALSE, !.mpp = priv])
    ELSE write_sstatus(csr, [csr.sstatus EXCEPT !.spie = csr.sstatus.sie, !.sie = FALSE,
             !.spp = IF priv = "SUPERVISOR" THEN priv ELSE "UNPRIVILEGED"])

\* The registers after mret or sret, and the privilege restored.  The source also clears
\* MPRV, a field that nothing reads and that is not kept here; an MPP of HYPERVISOR can
\* only be what a program wrote, and programs here write no MPP.
exception_return(csr, xret) ==
    IF xret = "MACHINE"
    THEN [csr |-> write_mstatus(csr, [csr.mstatus EXCEPT !.mie = csr.mstatus.mpie, !.mpie = TRUE,
                                                         !.mpp = "UNPRIVILEGED"]),
          priv |-> csr.mstatus.mpp]
    ELSE [csr |-> write_mstatus(csr, [csr.mstatus EXCEPT !.sie = csr.mstatus.spie, !.spie = TRUE,
                                                         !.spp = "UNPRIVILEGED"]),
          priv |-> csr.mstatus.spp]

(***************************************************************************)
(* Core::handle_exception: who takes the trap, and what is recorded.  The  *)
(* cause goes to the register of the level the trap comes FROM, unless it  *)
(* is delegated.                                                           *)
(***************************************************************************)
deliver_to_s(csr, priv, excause) ==
    \/ excause = "INT_S"
    \/ excause # "INT_M" /\ priv # "MACHINE" /\ excause \in csr.medeleg

handle_exception(csr, priv, excause) ==
    LET to_s   == deliver_to_s(csr, priv, excause)
        target == IF to_s THEN "SUPERVISOR" ELSE "MACHINE"
        caused == update_exception_cause(csr, excause, IF to_s THEN "SUPERVISOR" ELSE priv)
        vector == IF to_s THEN csr.stvec ELSE csr.mtvec
    IN  IF vector THEN [csr |-> exception_initiate(caused, priv, target), priv |-> target]
        ELSE [csr |-> caused, priv |-> priv]
=============================================================================
