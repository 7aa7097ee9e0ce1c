---------------------------- MODULE MCAssembler ----------------------------
(* The assembler on small sources, for TLC. *)
EXTENDS Assembler

L(label_, op, args, weight) == [label |-> label_, op |-> op, args |-> args, weight |-> weight]
R(r) == [e |-> S(r), base |-> ""]
E(e) == [e |-> e, base |-> ""]
O(e, r) == [e |-> e, base |-> r]

\* Far across a 12-bit boundary, so that the lower half of an address is negative.
Far == 2048

Layout ==
    {L("a", "", <<>>, 1), L("b", "addi", <<R("x5"), R("x0"), E(S("a"))>>, 1),
     L("", ".org", <<N(Far)>>, 1), L("a", ".byte", <<S("a"), N(255)>>, 1),
     L("", ".org", <<B(S("a"), "+", N(2))>>, 1), L("", ".space", <<N(3), N(7)>>, 1),
     L("", ".asciz", << <<65, 66>> >>, 1), L("", ".ascii", << <<65, -1>>, <<67>> >>, 1),
     L("", ".equ", <<B(B(S("b"), "-", S("a")), "-", N(4))>>, 1) @@ [name |-> "a"],
     L("", ".equ", <<>>, 1) @@ [name |-> "b"],
     L("", "#include", <<>>, 1) @@ [file |-> "f"], L("", "#include", <<>>, 1) @@ [file |-> "none"],
     L("c", "#pragma", <<B(S("a"), "+", N(4))>>, 1) @@ [view |-> "memory"],
     L("", "#pragma", <<S("c")>>, 2) @@ [view |-> "program"],
     L("", ".equ", <<>>, 2) @@ [name |-> "noat"], L("c", "syntax error", <<>>, 1)}

Code1 ==
    {L("", ".word", <<S("b"), N(3)>>, 1), L("", "la", <<R("x5"), E(S("b"))>>, 1),
     L("", "li", <<R("x6"), E(U("-", N(1)))>>, 1), L("", "call", <<E(S("a"))>>, 1),
     L("", "beqz", <<R("x5"), E(S("b"))>>, 1), L("", "j", <<E(S("a"))>>, 1),
     L("", "sw", <<R("x31"), O(U("%lo", S("a")), "x5")>>, 1), L("", "jr", <<O(S("a"), "x6")>>, 1),
     L("", "lui", <<R("x5"), E(U("%hi", S("b")))>>, 1), L("", "sext.b", <<R("x5"), R("x6")>>, 1)}

Atoms == {N(1), N(6), S("a")}
Small == Atoms \cup {B(x, op, y) : x \in {N(6), S("a")}, op \in {"+", "-", "*", "&"}, y \in Atoms}
              \cup {U(op, x) : op \in {"-", "~"}, x \in Atoms}
Expressions == {B(x, op, y) : x \in Small, op \in {"-", "/", "|"}, y \in {N(2)}}
          \cup {B(y, op, x) : x \in Small, op \in {"-", "*", "^"}, y \in {S("a")}}
\* Words: a jump by 0x80000, a jalr with a bit of funct3 and a shift with bit 25.
Words == {L("", ".word", <<N(524399), N(4199), N(33558547)>>, 2)}
ExpressionLines == {L("", ".equ", <<e>>, 2) @@ [name |-> "b"] : e \in Expressions}
                   \cup {L("", ".word", <<e>>, 2) : e \in Expressions}

AllLines == Layout \cup Code1 \cup Words \cup ExpressionLines

IncludeF(f) == L("", "#include", <<>>, 0) @@ [file |-> f]
MCFiles == [f |-> <<L("a", "lw", <<R("x5"), O(S("b"), "x6")>>, 0), IncludeF("g")>>,
            g |-> <<L("", ".byte", <<S("c")>>, 0), IncludeF("f"), IncludeF("g")>>]

MCImages == {[segments |-> <<>>, symbols |-> <<>>],
             [segments |-> <<[vaddr |-> 510, data |-> <<{0}, {1}, {2}, {3}>>], [vaddr |-> 512, data |-> <<{7}>>]>>,
              symbols |-> << <<"c", 512>>, <<"b", 510>>, <<"c", 4>> >>]}

MCStores == {<<508, <<{0}, {}, {1}, {}>>>>, <<511, <<{7}, {6}>>>>, <<516, <<{}, {}, {}, {}>>>>, <<Far - 2, <<{3}>>>>,
             <<4096, <<{1}>>>>, <<LedStart + 4, <<{0}, {1}, {}, {}>>>>, <<LedStart + 5, <<{}, {}>>>>,
             <<LedStart + 19, <<{1}, {2}>>>>, <<LedStart + 36, <<{1}>>>>, <<LcdStart + 1, <<{5}, {4}>>>>,
             <<LcdStart + 2, <<{}, {}, {3}, {}>>>>}
MCTyped == {L("", "addi", <<R("x5"), R("x6"), E(U("-", N(2)))>>, 0), L("", "j", <<E(N(512))>>, 0), L("", "j", <<E(S("a"))>>, 0)}
MCPlaces == {0, 6, 512, 516, Far - 2, LedStart + 4}
MCKnobs == {<<{16, 18}, 16 .. 23>>, <<{16}, 16 .. 23>>, <<{24}, {24}>>, <<{}, {24}>>}
=============================================================================
