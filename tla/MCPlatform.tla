----------------------------- MODULE MCPlatform -----------------------------
EXTENDS Platform

MCSetup(uses_, raises, mie, sie, mideleg, medeleg, stvec, writes) ==
    [uses |-> uses_, raises |-> raises, mie |-> mie, sie |-> sie, mideleg |-> mideleg,
     medeleg |-> medeleg, mtvec |-> TRUE, stvec |-> stvec, writes |-> writes]

MCExceptions == {"ECALL_ANY", "LOAD_PAGE_FAULT"}

\* Delegated exceptions and nested traps; software interrupts for both levels;
\* the timer; the serial port, delegated and not, with and without a handler.
MCSetups ==
    {MCSetup({}, MCExceptions, {}, {}, {}, {"LOAD_PAGE_FAULT"}, TRUE, {"mstatus", "sstatus"}),
     MCSetup({"mswi", "sswi"}, {"ECALL_ANY"}, {3}, {1}, {1}, {"ECALL_ANY"}, TRUE,
             {"mstatus", "sstatus", "mip", "sip"}),
     MCSetup({"mtimer"}, {}, {7}, {}, {}, {}, FALSE, {"mstatus"}),
     MCSetup({"serial"}, {}, {17}, {16}, {16}, {}, TRUE, {"sstatus"}),
     MCSetup({"serial"}, {"ECALL_ANY"}, {16}, {}, {}, {}, FALSE, {})}
=============================================================================
