------------------------------ MODULE Encoding ------------------------------
(***************************************************************************)
(* How the assembler places values into instruction words: bit fields      *)
(* (bitfield.h), the argument descriptions and the relocation of a word    *)
(* (instruction.cpp).  A word is the set of its bits that are one; values  *)
(* are integers, whose two's complement bits Bit gives.                    *)
(***************************************************************************)
EXTENDS Integers, Sequences, SequencesExt

\* Bit i of a value; every bit above the 30th is the sign.
Bit(v, i) == IF i > 30 THEN IF v < 0 THEN 1 ELSE 0 ELSE (v \div 2 ^ i) % 2
Word(v) == {i \in 0 .. 31 : Bit(v, i) = 1}

(***************************************************************************)
(* Fields.  A value's bits go to the parts of a split field lowest first,  *)
(* after the low `shift` bits are dropped.                                 *)
(***************************************************************************)
Field(parts, shift) == [parts |-> parts, shift |-> shift]
Before(parts, k) == FoldLeft(LAMBDA n, part : n + part[1], 0, SubSeq(parts, 1, k - 1))

encode(arg, v) ==
    UNION {{arg.parts[k][2] + i : i \in {j \in 0 .. arg.parts[k][1] - 1 :
                                            Bit(v, arg.shift + Before(arg.parts, k) + j) = 1}}
           : k \in DOMAIN arg.parts}

\* The other way round, and the sign of a field of so many bits.
decode(arg, w) ==
    FoldLeft(LAMBDA sum, k :
                 sum + FoldLeft(LAMBDA n, i : IF arg.parts[k][2] + i - 1 \in w
                                              THEN n + 2 ^ (arg.shift + Before(arg.parts, k) + i - 1) ELSE n,
                                0, [i \in 1 .. arg.parts[k][1] |-> i]),
             0, [k \in DOMAIN arg.parts |-> k])
Width(arg) == arg.shift + Before(arg.parts, Len(arg.parts) + 1)

\* Mutant: the sign bit is taken one place too high.
extend_High(value, used_bits) == IF value >= 2 ^ used_bits THEN value - 2 ^ used_bits ELSE value

extend(value, used_bits) == IF value >= 2 ^ (used_bits - 1) THEN value - 2 ^ used_bits ELSE value

\* name, kind: g register, n number, a and p relative to the instruction,
\* o offset, E control and status register; parts are <<count, offset>>
Desc(kind, min, max, parts, shift) ==
    [kind |-> kind, min |-> min, max |-> max, arg |-> Field(parts, shift)]

\* Registers and immediates as instruction templates name them.  The largest value of
\* "u" is 0xfffff000 in the source, here the largest number TLC has.
arg_desc(code) ==
    CASE code = "d" -> Desc("g", 0, 31, <<<<5, 7>>>>, 0)
      [] code = "s" -> Desc("g", 0, 31, <<<<5, 15>>>>, 0)
      [] code = "t" -> Desc("g", 0, 31, <<<<5, 20>>>>, 0)
      [] code = "j" -> Desc("n", -2048, 2047, <<<<12, 20>>>>, 0)
      [] code = ">" -> Desc("n", 0, 31, <<<<5, 20>>>>, 0)
      [] code = "a" -> Desc("a", -524288, 524287, <<<<10, 21>>, <<1, 20>>, <<8, 12>>, <<1, 31>>>>, 1)
      [] code = "u" -> Desc("n", 0, 2147483647, <<<<20, 12>>>>, 0)
      [] code = "p" -> Desc("p", -4096, 4095, <<<<4, 8>>, <<6, 25>>, <<1, 7>>, <<1, 31>>>>, 1)
      [] code = "o" -> Desc("o", -2048, 2047, <<<<12, 20>>>>, 0)
      [] code = "q" -> Desc("o", -2048, 2047, <<<<5, 7>>, <<7, 25>>>>, 0)
      [] code = "Z" -> Desc("n", 0, 31, <<<<5, 15>>>>, 0)
      [] code = "E" -> Desc("E", 0, 4095, <<<<12, 20>>>>, 0)

is_value_in_field_range(desc, v) == v \in desc.min .. desc.max

\* A word of data.  The lower limit is the source's -0xffffffff, which is an
\* unsigned number: one.
wordArg == Field(<<<<32, 0>>>>, 0)
WordMin == 1
WordMax == 2147483647

(***************************************************************************)
(* A value too wide for one instruction is composed of two parts; the      *)
(* lower part is sign extended when the pair executes.                     *)
(***************************************************************************)
get_bits_31_12(v) == (v \div 4096) % 1048576
get_bits_11_0(v) == v % 4096
get_bit_11(v) == (v \div 2048) % 2

sign_extend_12(v) == IF v % 4096 >= 2048 THEN (v % 4096) - 4096 ELSE v % 4096

\* Mutant: the upper part does not make up for a negative lower part.
modify_pseudoinst_imm_NoCarry(mod, v) ==
    CASE mod = "NONE" -> v
      [] mod = "UPPER" -> get_bits_31_12(v)
      [] mod = "LOWER" -> get_bits_11_0(v)

modify_pseudoinst_imm(mod, v) ==
    CASE mod = "NONE" -> v
      [] mod = "UPPER" -> get_bits_31_12(v) + get_bit_11(v)
      [] mod = "LOWER" -> get_bits_11_0(v)

\* Instruction::update: the word after a relocation, and whether the value fits.
\* A value that does not leaves the field cleared.  The source also tries a value that
\* is above a signed field's range less 2^32; the values here stay below 2^31.
update(word, value, r) ==
    LET val == value + r.offset
        cleared == word \ encode(r.arg, -1)
        fits == r.mod # "NONE" \/ (val % (2 ^ r.arg.shift) = 0 /\ val \in r.min .. r.max)
    IN  [ok |-> fits,
         word |-> IF fits THEN cleared \cup encode(r.arg, modify_pseudoinst_imm(r.mod, val)) ELSE cleared]

(***************************************************************************)
(* The modifiers of expressions                                            *)
(***************************************************************************)
modifier(op, v, location) ==
    CASE op = "%hi" -> get_bits_31_12(v + 2048)
      [] op = "%lo" -> sign_extend_12(get_bits_11_0(v))
      [] op = "%pcrel_hi" -> get_bits_31_12(v - location) + get_bit_11(v - location)
      [] op = "%pcrel_lo" -> sign_extend_12(get_bits_11_0((v - location) + 4))
=============================================================================
