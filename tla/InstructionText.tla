-------------------------- MODULE InstructionText --------------------------
(***************************************************************************)
(* From the text of an instruction to words and relocations                *)
(* (instruction.cpp): templates, fields, pseudo-instructions.              *)
(***************************************************************************)
EXTENDS Expression, TLC

(***************************************************************************)
(* Instructions.  The table has the names this model assembles, each with  *)
(* its templates in the order they are tried.                              *)
(***************************************************************************)
\* The bits an instruction is recognised by are those that are in no argument; shifts
\* leave bit 25 to RV64, and jalr is known by its opcode whatever bits 12 to 14 are.
Letters(args) == UNION {ToSet(args[k]) : k \in DOMAIN args} \ {"(", ")"}
Mask(name, args) ==
    (0 .. 31) \ (UNION {encode(arg_desc(letter).arg, -1) : letter \in Letters(args)}
                  \cup (IF name \in {"slli", "srai"} THEN {25} ELSE {})
                  \cup (IF name = "jalr" THEN 12 .. 14 ELSE {}))
Template(name, args, code) ==
    [name |-> name, args |-> args, code |-> Word(code), mask |-> Mask(name, args)]
OffsetOf(o) == <<o, "(", "s", ")">>
C_inst_map ==
    <<Template("addi", <<<<"d">>, <<"s">>, <<"j">>>>, 19),
      Template("slli", <<<<"d">>, <<"s">>, <<">">>>>, 4115),
      Template("srai", <<<<"d">>, <<"s">>, <<">">>>>, 1073762323),
      Template("lui", <<<<"d">>, <<"u">>>>, 55),
      Template("auipc", <<<<"d">>, <<"u">>>>, 23),
      Template("lw", <<<<"d">>, OffsetOf("o")>>, 8195),
      Template("sw", <<<<"t">>, OffsetOf("q")>>, 8227),
      Template("beq", <<<<"s">>, <<"t">>, <<"p">>>>, 99),
      Template("jal", <<<<"d">>, <<"a">>>>, 111),
      Template("jalr", <<<<"d">>, OffsetOf("o")>>, 103),
      Template("csrrw", <<<<"d">>, <<"E">>, <<"s">>>>, 4211)>>

inst_aliases ==
    <<Template("mv", <<<<"d">>, <<"s">>>>, 19),
      Template("beqz", <<<<"s">>, <<"p">>>>, 99),
      Template("j", <<<<"a">>>>, 111),
      Template("jal", <<<<"a">>>>, 239),
      Template("jr", <<<<"s">>>>, 103),
      Template("jr", <<OffsetOf("o")>>, 103),
      Template("jalr", <<<<"s">>>>, 231),
      Template("jalr", <<OffsetOf("o")>>, 231),
      Template("jalr", <<<<"d">>, <<"s">>, <<"o">>>>, 103),
      Template("csrw", <<<<"E">>, <<"s">>>>, 4211)>>

Templates == C_inst_map \o inst_aliases

RegisterNames == [x0 |-> 0, x1 |-> 1, x2 |-> 2, x3 |-> 3, x4 |-> 4, x5 |-> 5, x6 |-> 6, x7 |-> 7, x8
                  |-> 8, x9 |-> 9, x10 |-> 10, x11 |-> 11, x12 |-> 12, x13 |-> 13, x14 |-> 14, x15
                  |-> 15, x16 |-> 16, x17 |-> 17, x18 |-> 18, x19 |-> 19, x20 |-> 20, x21 |-> 21,
                  x22 |-> 22, x23 |-> 23, x24 |-> 24, x25 |-> 25, x26 |-> 26, x27 |-> 27, x28 |->
                  28, x29 |-> 29, x30 |-> 30, x31 |-> 31]
CsrNames == [mtvec |-> 773, mepc |-> 833]

\* A relocation: where, which expression, and how its value goes into the word.
Reloc(loc, expr, offset, min, max, arg, mod) ==
    [loc |-> loc, expr |-> expr, offset |-> offset, min |-> min, max |-> max, arg |-> arg, mod |-> mod]

Operators == {"+", "-", "/", "*", "|", "&", "^", "~"}

\* The longest run of tokens of an expression: a bracket that follows neither an
\* operator nor a modifier starts the next field.
read_reloc_expression(tokens) ==
    LET Opens(k) == /\ IsOp(tokens[k], {"("})
                    /\ k = 1 \/ ~IsOp(tokens[k - 1], Operators \cup Modifiers)
        stops == {k \in DOMAIN tokens : Opens(k)}
    IN  IF stops = {} THEN tokens
        ELSE SubSeq(tokens, 1, (CHOOSE k \in stops : \A j \in stops : k <= j) - 1)

\* The number a field starts with: how many tokens, and its value.
LeadingNumber(tokens) ==
    IF tokens[1][1] = "num" THEN <<1, tokens[1][2]>>
    ELSE IF Len(tokens) > 1 /\ tokens[2][1] = "num" THEN <<2, -tokens[2][2]>> ELSE <<0, 0>>

Drop(tokens, n) == SubSeq(tokens, n + 1, Len(tokens))
ParseError(f) == [f EXCEPT !.ok = FALSE]

\* parse_immediate_value: a number counts at once, an expression by a relocation.
parse_immediate_value(f, desc, c) ==
    LET base == (IF desc.kind \in {"a", "p"} THEN -c.addr ELSE 0) + c.initial
        number == LeadingNumber(f.rest)
        numeric == /\ f.rest[1][1] = "num" \/ IsOp(f.rest[1], {"-"})
                   /\ number[1] < Len(f.rest)
                        => ~IsOp(f.rest[number[1] + 1], Operators \cup Modifiers)
        expr == read_reloc_expression(f.rest)
        val == modify_pseudoinst_imm(c.mod, base + number[2])
    IN  IF numeric
        THEN [f EXCEPT !.rest = Drop(@, number[1]), !.bits = @ \cup encode(desc.arg, val),
                       !.ok = c.mod # "NONE" \/ is_value_in_field_range(desc, val)]
        ELSE IF expr = <<>> THEN ParseError(f)
        ELSE [f EXCEPT !.rest = Drop(@, Len(expr)),
                       !.reloc = Append(@, Reloc(c.addr, expr, base, desc.min, desc.max, desc.arg, c.mod))]

Named(tok, names) == tok[1] = "sym" /\ tok[2] \in DOMAIN names

\* parse_field, for one letter of a template.
parse_letter(f, code, c) ==
    IF ~f.ok \/ f.rest = <<>> THEN ParseError(f)
    ELSE IF code \in {"(", ")"}
    THEN IF IsOp(f.rest[1], {code}) THEN [f EXCEPT !.rest = Tail(@)] ELSE ParseError(f)
    ELSE LET desc == arg_desc(code)
             names == IF desc.kind = "g" THEN RegisterNames ELSE CsrNames
         IN  IF desc.kind \notin {"g", "E"} THEN parse_immediate_value(f, desc, c)
             ELSE IF desc.kind = "E" /\ f.rest[1][1] = "num"
             THEN [f EXCEPT !.rest = Tail(@), !.bits = @ \cup encode(desc.arg, f.rest[1][2]),
                            !.ok = is_value_in_field_range(desc, f.rest[1][2])]
             ELSE IF ~Named(f.rest[1], names) THEN ParseError(f)
             ELSE [f EXCEPT !.rest = Tail(@), !.bits = @ \cup encode(desc.arg, names[f.rest[1][2]])]

\* Relocations of a field stay in the list when a later one does not match.
Consumed(f) == IF f.rest = <<>> THEN f ELSE ParseError(f)
parse_field(f, tokens, arg, c) ==
    IF ~f.ok THEN f
    ELSE Consumed(FoldLeft(LAMBDA g, code : parse_letter(g, code, c), [f EXCEPT !.rest = tokens], arg))

Tried(s, f) ==
    IF f.ok THEN [s EXCEPT !.matched = TRUE, !.word = f.bits, !.reloc = f.reloc]
    ELSE [s EXCEPT !.threw = TRUE, !.reloc = f.reloc]
try_template(s, t, args, c) ==
    IF s.matched THEN s
    ELSE IF Len(args) # Len(t.args) THEN [s EXCEPT !.threw = TRUE]
    ELSE Tried(s, FoldLeft(LAMBDA f, k : parse_field(f, args[k], t.args[k], c),
                           [ok |-> TRUE, rest |-> <<>>, bits |-> t.code, reloc |-> s.reloc],
                           [k \in DOMAIN args |-> k]))

\* The first template of the name that matches the arguments.
base_from_tokens(base, args, c, relocs) ==
    FoldLeft(LAMBDA s, t : try_template(s, t, args, c),
             [matched |-> FALSE, threw |-> FALSE, word |-> {}, reloc |-> relocs],
             SelectSeq(Templates, LAMBDA t : t.name = base))

Context(addr, mod, initial) == [addr |-> addr, mod |-> mod, initial |-> initial]
Bracket(reg) == <<Op("("), Sym(reg), Op(")")>>

\* The two instructions of a pseudo-instruction: name, arguments and context of each.
PseudoPair(base, args, a) ==
    LET Shift(shift, n) == LET amount == <<Sym("XLEN"), Op("-"), Num(n)>>
                           IN  <<<<"slli", args \o <<amount>>, Context(a, "NONE", 0)>>,
                                 <<shift, <<args[1], args[1], amount>>, Context(a, "NONE", 0)>>>>
        Far(link) == <<<<"auipc", <<<<Sym("x6")>>>> \o args, Context(a, "UPPER", -a)>>,
                              <<"jalr", <<<<Sym(link)>>, args[1] \o Bracket("x6")>>, Context(a + 4, "LOWER", -a)>>>>
    IN  CASE base = "la" -> <<<<"auipc", args, Context(a, "UPPER", -a)>>,
                              <<"addi", <<args[1]>> \o args, Context(a + 4, "LOWER", -a)>>>>
          [] base = "li" -> <<<<"lui", args, Context(a, "UPPER", 0)>>,
                              <<"addi", <<args[1]>> \o args, Context(a + 4, "LOWER", 0)>>>>
          [] base = "call" -> Far("x1")
          [] base = "tail" -> Far("x0")
          [] base = "sext.b" -> Shift("srai", 8)
          [] base = "sext.h" -> Shift("srai", 16)

PseudoArgs == [la |-> 2, li |-> 2, call |-> 1, tail |-> 1] @@ [b \in {"sext.b", "sext.h"} |-> 2]

Code(ok, words, relocs) == [ok |-> ok, words |-> words, reloc |-> relocs]

\* Each instruction of the pair in turn; the first that does not match ends it.
Joined(c, r) ==
    IF r.matched THEN Code(TRUE, Append(c.words, r.word), r.reloc) ELSE Code(FALSE, <<>>, r.reloc)
pseudo_from_tokens(base, args, a, relocs) ==
    IF base = "nop" THEN Code(args = <<>>, <<Word(19)>>, relocs)
    ELSE IF base \notin DOMAIN PseudoArgs \/ Len(args) # PseudoArgs[base] THEN Code(FALSE, <<>>, relocs)
    ELSE FoldLeft(LAMBDA c, i : IF c.ok THEN Joined(c, base_from_tokens(i[1], i[2], i[3], c.reloc)) ELSE c,
                  Code(TRUE, <<>>, relocs), PseudoPair(base, args, a))

\* A name with templates of which none matches is not tried as a pseudo-instruction.
CodeAfter(r, base, args, a) ==
    IF r.matched THEN Code(TRUE, <<r.word>>, r.reloc)
    ELSE IF r.threw THEN Code(FALSE, <<>>, r.reloc)
    ELSE pseudo_from_tokens(base, args, a, r.reloc)
code_from_tokens(base, args, a, relocs) ==
    CodeAfter(base_from_tokens(base, args, Context(a, "NONE", 0), relocs), base, args, a)

(***************************************************************************)
(* Back from words to text, as the program window shows it                 *)
(***************************************************************************)
InstructionMapFind(w) == {t \in ToSet(C_inst_map) : w \cap t.mask = t.code}

\* A register is x and its number, a signed field decimal, any other hexadecimal; a
\* target is the address it reaches.
Unsigned(n) == IF n < 0 THEN WordMax ELSE n     \* a large number, whatever n is
FieldValue(w, desc) ==
    IF desc.min < 0 THEN extend(decode(desc.arg, w), Width(desc.arg)) ELSE decode(desc.arg, w)
to_str_letter(w, a, letter) ==
    IF letter \in {"(", ")"} THEN <<Op(letter)>>
    ELSE LET desc == arg_desc(letter)
             n == FieldValue(w, desc)
             value == IF desc.kind \in {"a", "p"} THEN Unsigned(n + a) ELSE n
         IN  IF desc.kind = "g" THEN <<Sym(CHOOSE r \in DOMAIN RegisterNames : RegisterNames[r] = n)>>
             ELSE IF value < 0 THEN <<Op("-"), Num(-value)>> ELSE <<Num(value)>>

\* The name and the fields of the word's text.
TextOf(t, w, a) ==
    <<t.name, [k \in DOMAIN t.args |-> FlattenSeq([j \in DOMAIN t.args[k] |-> to_str_letter(w, a, t.args[k][j])])]>>
to_str(w, a) ==
    IF InstructionMapFind(w) = {} THEN <<"unknown", <<>>>>
    ELSE IF w = Word(19) THEN <<"nop", <<>>>>
    ELSE TextOf(CHOOSE t \in InstructionMapFind(w) : TRUE, w, a)
=============================================================================
