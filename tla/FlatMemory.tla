----------------------------- MODULE FlatMemory -----------------------------
(***************************************************************************)
(* What every FrontendMemory promises its user, stated without caches: an  *)
(* array of bytes that only write() changes, a read() that delivers the    *)
(* bytes last written, a sync() that changes no byte, and a restart that   *)
(* brings the loaded program back.  read() and write() take effect in one  *)
(* step, or are called in one step and return in a later one.              *)
(***************************************************************************)
EXTENDS Integers

CONSTANTS Addr, Val, InitMem, Requests

VARIABLES m,    \* the bytes
          out,  \* what the last read() delivered, by address
          call  \* the call in progress

Idle == [type |-> "idle"]

Flushing == [type |-> "flush"]

Called(type, r) == [type |-> type, addr |-> r.addr, size |-> r.size]

Bytes(r) == r.addr .. r.addr + r.size - 1

Written(r, buf) == [x \in Addr |-> IF x \in Bytes(r) THEN buf[x] ELSE m[x]]

Delivered(r) == [x \in Bytes(r) |-> m[x]]

Init ==
    /\ m = InitMem
    /\ out = [x \in {} |-> 0]
    /\ call = Idle

\* read() and write() in one step.
Read(r) ==
    /\ call = Idle
    /\ out' = Delivered(r)
    /\ UNCHANGED <<m, call>>

Write(r, buf) ==
    /\ call = Idle
    /\ m' = Written(r, buf)
    /\ UNCHANGED <<out, call>>

\* read() called, and returning with the bytes.
ReadCall(r) ==
    /\ call = Idle
    /\ call' = Called("READ", r)
    /\ UNCHANGED <<m, out>>

ReadReturn(r) ==
    /\ call = Called("READ", r)
    /\ out' = Delivered(r)
    /\ call' = Idle
    /\ UNCHANGED m

\* write() called, which takes effect at once, and returning.
WriteCall(r, buf) ==
    /\ call = Idle
    /\ call' = Called("WRITE", r)
    /\ m' = Written(r, buf)
    /\ UNCHANGED out

WriteReturn(r) ==
    /\ call = Called("WRITE", r)
    /\ call' = Idle
    /\ UNCHANGED <<m, out>>

\* sync() called, and returning.
Flush ==
    /\ \/ call = Idle /\ call' = Flushing
       \/ call = Flushing /\ call' = Idle
    /\ UNCHANGED <<m, out>>

Reload ==
    /\ call = Idle
    /\ m' = InitMem
    /\ UNCHANGED <<out, call>>

Next ==
    \/ \E r \in Requests :
          \/ Read(r)
          \/ ReadCall(r)
          \/ ReadReturn(r)
          \/ WriteReturn(r)
          \/ \E buf \in [Bytes(r) -> Val] : Write(r, buf) \/ WriteCall(r, buf)
    \/ Flush
    \/ Reload

Spec == Init /\ [][Next]_<<m, out, call>>
=============================================================================
