----------------------------- MODULE Assembler -----------------------------
(***************************************************************************)
(* The internal assembler (assembler/simpleasm.cpp) and the symbol table   *)
(* (symboltable.cpp), over the data bus.  A source line is processed in    *)
(* one step: it defines symbols, writes through the bus and leaves         *)
(* relocations behind; finish applies those.                               *)
(*                                                                         *)
(* A line is a record [label, op, args].  An argument of an instruction is *)
(* an expression with a register in brackets after it or none, of a        *)
(* directive an expression, of .ascii a sequence of characters.            *)
(***************************************************************************)
EXTENDS MemoryView, InstructionText

CONSTANTS
    Lines,            \* the lines a source is made of
    Files,            \* the files that can be included: name -> sequence of lines
    Typed,            \* the instructions typed into the program window
    Xlen,             \* 32 or 64
    StartAddress,     \* where assembling starts (0x200)
    MaxLength         \* bound on the source, whose lines have a weight, and on what follows it

ASSUME AssemblerAssumption == Xlen \in {32, 64} /\ StartAddress \in Nat /\ MaxLength \in Nat

VARIABLES
    address,          \* SimpleAsm::address
    by_name,          \* SymbolTable::map_name_to_symbol: name -> value
    by_value,         \* SymbolTable::map_value_to_symbol: <<value, name>>, latest last
    reloc,            \* SimpleAsm::reloc
    error_occured,
    fatal_occured,
    include_stack,    \* the files being read, outermost first: [name, rest of its lines]
    phase,            \* "lines", "done"
    length,           \* weight of the main source so far, and accesses after it
    \* what the source means, for the properties:
    items,            \* what the lines placed: [addr, size, ...]
    meant             \* the symbols as the source defines them

asmVars == <<address, by_name, by_value, reloc, error_occured, fatal_occured, include_stack>>
vars == <<asmVars, phase, length, items, meant, busVars, views>>

(***************************************************************************)
(* The symbol table.  A name has one symbol; a value may have several.     *)
(***************************************************************************)
add_symbol(t, name, v) ==
    [name |-> name :> v @@ t.name, value |-> Append(t.value, <<v, name>>)]

\* Mutant: the symbol stays under its value.
remove_symbol_Stays(t, name) == [t EXCEPT !.name = [n \in DOMAIN t.name \ {name} |-> t.name[n]]]

\* The entry the name leads to, the latest of its value and name, is removed; an equal
\* one that a program brought before it stays.
remove_symbol(t, name) ==
    IF name \notin DOMAIN t.name THEN t
    ELSE [name |-> [n \in DOMAIN t.name \ {name} |-> t.name[n]],
          value |-> RemoveAt(t.value, Max({k \in DOMAIN t.value : t.value[k] = <<t.name[name], name>>}))]

set_symbol(t, name, v) == add_symbol(remove_symbol(t, name), name, v)

\* ProgramLoader::get_symbol_table
get_symbol_table(symbols) ==
    FoldLeft(LAMBDA t, s : add_symbol(t, s[1], s[2]), [name |-> <<>>, value |-> <<>>], symbols)

(***************************************************************************)
(* Lines.  What a line does to the assembler, as a function on the record  *)
(* of its state.                                                           *)
(***************************************************************************)
State ==
    [a |-> address, t |-> [name |-> by_name, value |-> by_value], r |-> reloc, b |-> bus, f |-> flat,
     err |-> error_occured, fatal |-> fatal_occured, stop |-> FALSE, items |-> items, meant |-> meant]

\* An error ends the line.
Failed(s) == [s EXCEPT !.err = TRUE, !.stop = TRUE]
Fatal(s) == [Failed(s) EXCEPT !.fatal = TRUE]
ForEach(Op1(_, _), s, args) == FoldLeft(LAMBDA q, x : IF q.stop THEN q ELSE Op1(q, x), s, args)
Value(s, e) == value_of(Written(e), s.t.name, s.a)

\* Every write is skipped once a fatal error occured; the address moves on.
put(s, bytes) ==
    [s EXCEPT !.a = @ + Len(bytes),
              !.b = IF s.fatal THEN @ ELSE bus_write(@, s.a, bytes),
              !.f = IF s.fatal THEN @ ELSE flat_write(@, s.a, bytes)]
put_bytes(s, bytes) == FoldLeft(LAMBDA q, byte : put(q, <<byte>>), s, bytes)
Placed(s, item) == [s EXCEPT !.items = Append(@, item)]
put_item(s, bytes) == Placed(put_bytes(s, bytes), [addr |-> s.a, bytes |-> bytes])
AsByte(v) == {i \in 0 .. 7 : Bit(v, i) = 1}

label(s, l) ==
    IF l = "" THEN s
    ELSE [s EXCEPT !.t = set_symbol(@, l, s.a), !.meant = l :> s.a @@ @]

org(s, args) ==
    IF Len(args) # 1 THEN Failed(s)
    ELSE LET v == Value(s, args[1]) IN IF v = <<>> THEN Fatal(s) ELSE [s EXCEPT !.a = v[1]]

space(s, args) ==
    IF Len(args) \notin 1 .. 2 THEN Failed(s)
    ELSE LET fill == IF Len(args) = 2 THEN Value(s, args[2]) ELSE <<0>>
             v == Value(s, args[1])
         IN  IF fill = <<>> \/ v = <<>> THEN Fatal(s)
             ELSE put_item(s, [k \in 1 .. v[1] |-> AsByte(fill[1])])

\* A symbol without a value is one; a bad expression is an error, not a fatal one.  Two
\* names of MIPS sources (the second misspelt in the source) are skipped.
equ(s, name, args) ==
    LET v == IF args = <<>> THEN <<1>> ELSE Value(s, args[1])
        m == IF args = <<>> THEN <<1>> ELSE Meaning(args[1], s.meant, s.a)
    IN  IF Len(args) > 1 THEN Failed(s)
        ELSE IF name \in {"noat", "noreored"} THEN s
        ELSE IF v = <<>> THEN Failed(s)
        ELSE [s EXCEPT !.t = set_symbol(@, name, v[1]), !.meant = name :> m[1] @@ @]

\* The characters up to a bad escape sequence are in memory already.
ascii_string(s, chars, zero) ==
    LET bad == {k \in DOMAIN chars : chars[k] < 0}
        good == IF bad = {} THEN chars ELSE SubSeq(chars, 1, (CHOOSE k \in bad : \A j \in bad : k <= j) - 1)
        bytes == [k \in DOMAIN good |-> AsByte(good[k])] \o (IF zero /\ bad = {} THEN <<Zero>> ELSE <<>>)
    IN  put_item(IF bad = {} THEN s ELSE Failed(s), bytes)
ascii(s, strings, zero) == ForEach(LAMBDA q, chars : ascii_string(q, chars, zero), s, strings)

byte_value(s, e) ==
    LET v == Value(s, e)
        meaning == Meaning(e, s.meant, s.a)
    IN  IF v = <<>> THEN Fatal(s)
        ELSE Placed(put(s, <<AsByte(v[1])>>), [addr |-> s.a, bytes |-> <<AsByte(meaning[1])>>])
byte(s, args) == ForEach(byte_value, s, args)

align4(s) ==
    LET pad == Zeros((4 - (s.a % 4)) % 4)
    IN  IF pad = <<>> THEN s ELSE put_item(s, pad)

IsNumber(tokens) == tokens[1][1] = "num" \/ (Len(tokens) = 2 /\ tokens[2][1] = "num")
word_value(s, e) ==
    LET tokens == Written(e)
        number == Len(tokens) <= 2 /\ IsNumber(tokens) /\ (Len(tokens) = 2 => IsOp(tokens[1], {"-", "+"}))
        val == IF number THEN Word(Value(s, e)[1]) ELSE {}
        rel == Reloc(s.a, tokens, 0, WordMin, WordMax, wordArg, "NONE")
    IN  Placed([put(s, WordBytes(val)) EXCEPT !.r = IF number THEN @ ELSE Append(@, rel)],
               [addr |-> s.a, op |-> ".word", args |-> <<[e |-> e, base |-> ""]>>])
word(s, args) == FoldLeft(word_value, s, args)

FieldTokens(arg) == Written(arg.e) \o (IF arg.base = "" THEN <<>> ELSE Bracket(arg.base))
emit(s, c, item) ==
    IF c.ok THEN Placed(FoldLeft(LAMBDA q, w : put(q, WordBytes(w)), [s EXCEPT !.r = c.reloc], c.words), item)
    ELSE Failed([s EXCEPT !.r = c.reloc])
instruction(s, op, args) ==
    emit(s, code_from_tokens(op, [k \in DOMAIN args |-> FieldTokens(args[k])], s.a, s.r),
         [addr |-> s.a, op |-> op, args |-> args])

\* process_line without #include.  A line comes apart in label, operation and operands
\* here; what the tokenizer refuses (an empty label or operand, quotes before the
\* operands or without an end) is a "syntax error" line, which defines no label.
operation(s, l) ==
    CASE l.op \in {"", ".text", "#pragma"} -> s
      [] l.op = ".org" -> org(s, l.args)
      [] l.op = ".space" -> space(s, l.args)
      [] l.op = ".equ" -> equ(s, l.name, l.args)
      [] l.op \in {".ascii", ".asciz"} -> ascii(s, l.args, l.op = ".asciz")
      [] l.op = ".byte" -> byte(s, l.args)
      [] l.op = ".word" -> word(align4(s), l.args)
      [] OTHER -> instruction(align4(s), l.op, l.args)
process_line(s, l) ==
    IF l.op = "syntax error" THEN Failed(s) ELSE operation(label(s, l.label), l)

Becomes(s) ==
    /\ address' = s.a /\ by_name' = s.t.name /\ by_value' = s.t.value /\ reloc' = s.r
    /\ bus' = s.b /\ flat' = s.f
    /\ error_occured' = s.err /\ fatal_occured' = s.fatal
    /\ items' = s.items /\ meant' = s.meant

(***************************************************************************)
(* Files.  The main source is chosen line by line; a file that is included *)
(* is read to its end before the line after the #include.                  *)
(***************************************************************************)
OpenFiles == {"main"} \cup {include_stack[k].name : k \in DOMAIN include_stack}

Recursive(file) == file \in OpenFiles

\* A line is done; `stack` is the include stack without it.
Line(l, stack) ==
    IF l.op # "#include" THEN Becomes(process_line(State, l)) /\ include_stack' = stack
    ELSE LET s == label(State, l.label)
         IN  IF Recursive(l.file) \/ l.file \notin DOMAIN Files
             THEN Becomes(Failed(s)) /\ include_stack' = stack
             ELSE Becomes(s) /\ include_stack' = Append(stack, [name |-> l.file, rest |-> Files[l.file]])

\* #pragma qtrvsim focus memory, or program: the window goes to the value the expression
\* has at this line.  A value it does not have yet is only a warning.
PragmaFocus(l) ==
    LET v == IF l.op = "#pragma" /\ l.args # <<>> THEN Value(label(State, l.label), l.args[1]) ELSE <<>>
    IN  views' = IF v = <<>> THEN Untold ELSE [Untold EXCEPT ![l.view] = focus_address(@, bus', v[1])]

MainLine == \E l \in Lines :
    /\ phase = "lines" /\ include_stack = <<>>
    /\ length + l.weight <= MaxLength
    /\ length' = length + l.weight
    /\ Line(l, <<>>) /\ PragmaFocus(l)
    /\ UNCHANGED <<phase, dials>>

IncludedLine ==
    /\ phase = "lines" /\ include_stack # <<>> /\ Last(include_stack).rest # <<>>
    /\ Line(Head(Last(include_stack).rest), [include_stack EXCEPT ![Len(include_stack)].rest = Tail(@)])
    /\ views' = Untold
    /\ UNCHANGED <<phase, length, dials>>

EndOfFile ==
    /\ phase = "lines" /\ include_stack # <<>> /\ Last(include_stack).rest = <<>>
    /\ include_stack' = Front(include_stack)
    /\ UNCHANGED <<address, by_name, by_value, reloc, error_occured, fatal_occured, items, meant,
                   phase, length, busVars, views>>

(***************************************************************************)
(* The end of the source.  Relocations are applied in the order they were  *)
(* recorded, each to the word in memory then.                              *)
(***************************************************************************)
patch(s, loc, u) ==
    LET bytes == WordBytes(u.word)
    IN  [s EXCEPT !.err = @ \/ ~u.ok,
                  !.b = IF s.fatal THEN @ ELSE bus_write(@, loc, bytes),
                  !.f = IF s.fatal THEN @ ELSE flat_write(@, loc, bytes)]
relocate(s, r) ==
    LET v == value_of(r.expr, s.t.name, r.loc)
    IN  IF v = <<>> THEN [s EXCEPT !.err = TRUE]
        ELSE patch(s, r.loc, update(WordBits(bus_read(s.b, r.loc, 4)), v[1], r))

finish ==
    /\ phase = "lines" /\ include_stack = <<>>
    /\ Becomes([FoldLeft(relocate, State, reloc) EXCEPT !.r = <<>>])
    /\ Notified
    /\ phase' = "done"
    /\ UNCHANGED <<include_stack, length, dials>>

\* The command line does not finish a source with errors (cli: assemble).
abandon ==
    /\ phase = "lines" /\ include_stack = <<>> /\ error_occured
    /\ phase' = "done"
    /\ UNCHANGED <<asmVars, length, items, meant, busVars, views>>

\* ProgramModel::setData: an instruction typed into the program window.  It has no
\* list of relocations, so only numbers count.
write_code(a, c) ==
    /\ c.ok /\ c.reloc = <<>> /\ Len(c.words) = 1
    /\ Edit("program", a, WordBytes(c.words[1]))
EditInstruction == \E l \in Typed, a \in CellsOf(views.program) \cap Places :
    write_code(a, code_from_tokens(l.op, [k \in DOMAIN l.args |-> FieldTokens(l.args[k])], a, <<>>))

\* The assembled program runs, and the user works with knobs and windows.
Use ==
    /\ phase = "done" /\ length < MaxLength
    /\ (Store /\ Notified) \/ KnobStep \/ WindowStep \/ EditInstruction
    /\ length' = length + 1
    /\ items' = <<>>
    /\ UNCHANGED <<asmVars, phase, meant>>

\* SimpleAsm::setup on a machine with a loaded program or none.
Init == \E image \in Images :
    LET t == set_symbol(get_symbol_table(image.symbols), "XLEN", Xlen)
    IN  /\ BusInit(image.segments)
        /\ by_name = t.name /\ by_value = t.value
        /\ address = StartAddress
        /\ reloc = <<>> /\ include_stack = <<>>
        /\ error_occured = FALSE /\ fatal_occured = FALSE
        /\ phase = "lines" /\ length = 0
        /\ items = <<>> /\ meant = t.name
        /\ ViewInit

Next == MainLine \/ IncludedLine \/ EndOfFile \/ finish \/ abandon \/ Use
Spec == Init /\ [][Next]_vars

(***************************************************************************)
(* What the source means, after the RISC-V instruction formats             *)
(***************************************************************************)
\* Bits from .. from + n - 1 of a value, at bit `at` of a word.
Place(v, from, n, at) == {at + i : i \in {j \in 0 .. n - 1 : Bit(v, from + j) = 1}}
Rd(r) == Place(r, 0, 5, 7)
Rs1(r) == Place(r, 0, 5, 15)
Rs2(r) == Place(r, 0, 5, 20)
ImmI(v) == Place(v, 0, 12, 20)
ImmS(v) == Place(v, 0, 5, 7) \cup Place(v, 5, 7, 25)
ImmB(v) == Place(v, 1, 4, 8) \cup Place(v, 5, 6, 25) \cup Place(v, 11, 1, 7) \cup Place(v, 12, 1, 31)
ImmU(v) == Place(v, 0, 20, 12)
ImmJ(v) == Place(v, 1, 10, 21) \cup Place(v, 11, 1, 20) \cup Place(v, 12, 8, 12) \cup Place(v, 20, 1, 31)

\* The word an item stands for; its arguments have these values.
Reference(item, v) ==
    LET a == item.addr
        Base(k) == RegisterNames[item.args[k].base]
        Reg(k) == RegisterNames[item.args[k].e.tok[2]]
        op == item.op
        n == Len(item.args)
    IN  CASE op = ".word" -> Word(v[1])
          [] op = "addi" -> Word(19) \cup Rd(Reg(1)) \cup Rs1(Reg(2)) \cup ImmI(v[3])
          [] op = "slli" -> Word(4115) \cup Rd(Reg(1)) \cup Rs1(Reg(2)) \cup ImmI(v[3])
          [] op = "lui" -> Word(55) \cup Rd(Reg(1)) \cup ImmU(v[2])
          [] op = "lw" -> Word(8195) \cup Rd(Reg(1)) \cup Rs1(Base(2)) \cup ImmI(v[2])
          [] op = "sw" -> Word(8227) \cup Rs2(Reg(1)) \cup Rs1(Base(2)) \cup ImmS(v[2])
          [] op = "beqz" -> Word(99) \cup Rs1(Reg(1)) \cup ImmB(v[2] - a)
          [] op = "j" -> Word(111) \cup ImmJ(v[1] - a)
          [] op = "jal" -> Word(111) \cup Rd(IF n = 1 THEN 1 ELSE Reg(1)) \cup ImmJ(v[n] - a)
          [] op = "jr" -> Word(103) \cup Rs1(Base(1)) \cup ImmI(v[1])

Number(w, from, n) == FoldSet(LAMBDA i, sum : sum + 2 ^ (i - from), 0, {i \in w : i \in from .. from + n - 1})
Signed(v, n) == IF v >= 2 ^ (n - 1) THEN v - 2 ^ n ELSE v

\* A pair loads or reaches `target`: the upper part counts from the first word's
\* address, or from zero, and the second word adds its signed lower part.
Reaches(item, w1, w2, target) ==
    LET from == IF item.op = "li" THEN 0 ELSE item.addr
        link == CASE item.op = "call" -> 1 [] item.op = "tail" -> 0 [] OTHER -> RegisterNames[item.args[1].e.tok[2]]
    IN  /\ from + 4096 * Signed(Number(w1, 12, 20), 20) + Signed(Number(w2, 20, 12), 12) = target
        /\ Number(w1, 7, 5) = Number(w2, 15, 5) /\ Number(w2, 7, 5) = link

Pairs == {"la", "li", "call", "tail"}
Extended(item) == "op" \in DOMAIN item /\ item.op \in {"sext.b", "sext.h"}
ItemSize(item) == IF "bytes" \in DOMAIN item THEN Len(item.bytes)
                  ELSE IF item.op \in Pairs \/ Extended(item) THEN 8 ELSE 4
Cells(item) == item.addr .. item.addr + ItemSize(item) - 1

WordAt(a) == WordBits(bus_read(bus, a, 4))
\* Registers are no symbols: they mean nothing as values.
ArgumentValue(item, arg) ==
    IF arg.e.k = "leaf" /\ Named(arg.e.tok, RegisterNames) THEN <<0>>
    ELSE Meaning(arg.e, meant, item.addr)

MeantItem(item) ==
    IF "bytes" \in DOMAIN item THEN \A k \in DOMAIN item.bytes : bus_read(bus, item.addr + k - 1, 1)[1] = item.bytes[k]
    ELSE LET m == [k \in DOMAIN item.args |-> ArgumentValue(item, item.args[k])]
             v == [k \in DOMAIN m |-> m[k][1]]
         IN  /\ \A k \in DOMAIN m : m[k] # <<>>
             /\ IF item.op \in Pairs THEN Reaches(item, WordAt(item.addr), WordAt(item.addr + 4), v[Len(v)])
                ELSE WordAt(item.addr) = Reference(item, v)

(***************************************************************************)
(* Properties                                                              *)
(***************************************************************************)
\* A source assembled without an error is in memory as it reads: every byte, word,
\* instruction and pair of instructions holds the values its expressions have with the
\* symbols as they are at the end, labels defined further down included (those of .byte,
\* which is evaluated at once, with the symbols as they are at its line), whatever
\* precedence the parser worked out and across the carry between the two halves of an
\* address.  Left out are items that a later .org laid over one another (their
\* relocations are applied all the same) and sext.b and sext.h, whose second
\* relocation is recorded at the first instruction.
ImageMatchesSource ==
    phase = "done" /\ ~error_occured =>
        \A k \in DOMAIN items :
            \/ Extended(items[k])
            \/ \E j \in DOMAIN items : j # k /\ Cells(items[j]) \cap Cells(items[k]) # {}
            \/ \E a \in Cells(items[k]) : Device(a) # "mem"
            \/ MeantItem(items[k])

\* The bits that the text of a word tells: those the instruction is recognised by and
\* those of its fields.
Told(t) == t.mask \cup UNION {encode(arg_desc(letter).arg, -1) : letter \in Letters(t.args)}

\* The target of a jump or branch can be typed: it is in the range the assembler allows
\* and not below address zero.
Typable(t, w, a) ==
    \A letter \in Letters(t.args) :
        LET desc == arg_desc(letter)
        IN  desc.kind \in {"a", "p"} => /\ is_value_in_field_range(desc, FieldValue(w, desc))
                                       /\ FieldValue(w, desc) + a >= 0

\* Typed back at its address, the text of a word gives what it tells of the word.
Gives(c, w) == c.ok /\ c.reloc = <<>> /\ c.words = <<w>>
TypedBack(w, text, a) ==
    LET c == code_from_tokens(text[1], text[2], a, <<>>)
    IN  \A t \in InstructionMapFind(w) : IF Typable(t, w, a) THEN Gives(c, w \cap Told(t)) ELSE ~c.ok
ReadsBack(a) == TypedBack(WordAt(a), to_str(WordAt(a), a), a)

\* The text the program window shows for a word that is an instruction is the source of
\* that word: typed back at the same address it gives the same bits, whatever fields the
\* instruction is split into and whatever sign they have.  Two things are excepted.  The
\* text does not tell bits 12 to 14 of a jalr and bit 25 of a shift, which come back as
\* zeros.  And the text of a jump by less than -0x80000 or more than 0x7ffff (the field
\* holds twice as much), or to a target below address zero, is refused; it is never
\* taken for another instruction.
TextReadsBack ==
    phase = "done" => \A k \in DOMAIN items : \A a \in {x \in Cells(items[k]) : x % 4 = 0} : ReadsBack(a)

Ambiguous == {n \in DOMAIN by_name : \E i \in Images : Cardinality({k \in DOMAIN i.symbols : i.symbols[k][1] = n}) > 1}

\* The two maps of the symbol table stay one table while labels move and symbols are
\* redefined: a name has the value the source gave it last, and an address shows only
\* names that are still there.  Names a loaded program has twice are left out.
SymbolsMatch ==
    /\ by_name = meant
    /\ \A k \in DOMAIN by_value : by_value[k][2] \notin Ambiguous => by_name[by_value[k][2]] = by_value[k][1]
=============================================================================
