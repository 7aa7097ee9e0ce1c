----------------------------- MODULE Expression -----------------------------
(***************************************************************************)
(* Expressions of the assembler (fixmatheval.cpp).  The parser keeps a     *)
(* tree and walks down its last children only; a tree is therefore the     *)
(* sequence of the nodes on that path, each with its left operand, which   *)
(* is such a sequence again.  A node without a child ends the path.        *)
(*                                                                         *)
(* A token is <<"num", n>>, <<"sym", name>> or <<"op", text>>.             *)
(***************************************************************************)
EXTENDS Encoding, Folds

Num(n) == <<"num", n>>
Sym(s) == <<"sym", s>>
Op(o) == <<"op", o>>
IsOp(tok, ops) == tok[1] = "op" /\ tok[2] \in ops

Modifiers == {"%hi", "%lo", "%pcrel_hi", "%pcrel_lo"}
Leaf == 2147483647     \* INT_MAX, the priority of constants and symbols

Binary(prio, op, left) == [kind |-> "binary", prio |-> prio, op |-> op, left |-> left]
Unary(prio, op) == [kind |-> "unary", prio |-> prio, op |-> op]

\* The node a new operator goes under: the first whose child binds at least as
\* tightly as the operator.  0 is the expression itself.
AttachPoint(tree, prio) ==
    IF \E k \in 1 .. Len(tree) : tree[k].prio >= prio
    THEN (CHOOSE k \in 1 .. Len(tree) : tree[k].prio >= prio /\ \A j \in 1 .. k - 1 : tree[j].prio < prio) - 1
    ELSE Len(tree)

Priority(op) ==
    CASE op \in {"*", "/"} -> 30 [] op \in {"+", "-"} -> 20 [] op \in {"&", "^"} -> 15 [] op = "|" -> 10

\* A constant or symbol becomes the last child; a leaf takes no child.
parse_word(p, tok) ==
    IF p.tree # <<>> /\ Last(p.tree).prio = Leaf THEN [p EXCEPT !.ok = FALSE]
    ELSE [p EXCEPT !.tree = Append(@, [kind |-> tok[1], prio |-> Leaf, v |-> tok[2]]), !.unary = FALSE]

parse_operator(p, op) ==
    IF op \in Modifiers \cup {"~"} \/ (op = "-" /\ p.unary)
    THEN LET at == AttachPoint(p.tree, p.base + 90)
         IN  [p EXCEPT !.tree = Append(SubSeq(p.tree, 1, at), Unary(p.base + 90, op))]
    ELSE LET prio == p.base + Priority(op)
             at == AttachPoint(p.tree, prio)
         IN  [p EXCEPT !.tree = Append(SubSeq(p.tree, 1, at),
                                       Binary(prio, op, SubSeq(p.tree, at + 1, Len(p.tree)))),
                       !.unary = TRUE]

parse_token(p, tok) ==
    IF ~p.ok THEN p
    ELSE IF tok[1] # "op" THEN parse_word(p, tok)
    ELSE CASE tok[2] = "(" -> [p EXCEPT !.base = @ + 100]
           [] tok[2] = ")" -> [p EXCEPT !.base = @ - 100, !.ok = p.base > 100]
           [] tok[2] = "+" /\ p.unary -> p
           [] OTHER -> parse_operator(p, tok[2])

parse(tokens) == FoldLeft(parse_token, [tree |-> <<>>, base |-> 100, unary |-> TRUE, ok |-> TRUE], tokens)

(***************************************************************************)
(* Values.  Symbols are looked up in `table`; `location` is the address    *)
(* the expression stands at.  Results are sequences: empty for an error.   *)
(***************************************************************************)
\* Bitwise operators on values of at most 16 bits.
FromBits(bits) == FoldSet(LAMBDA i, n : n + (IF i = 15 THEN -32768 ELSE 2 ^ i), 0, bits)
Low(v) == {i \in 0 .. 15 : Bit(v, i) = 1}
Quotient(a, b) == IF (a >= 0) = (b > 0) THEN (IF a >= 0 THEN a ELSE -a) \div (IF b > 0 THEN b ELSE -b)
                  ELSE -((IF a >= 0 THEN a ELSE -a) \div (IF b > 0 THEN b ELSE -b))

unary_op(op, a, location) == CASE op = "-" -> -a [] op = "~" -> -a - 1 [] OTHER -> modifier(op, a, location)
binary_op(op, a, b) ==
    CASE op = "+" -> a + b [] op = "-" -> a - b [] op = "*" -> a * b [] op = "/" -> Quotient(a, b)
      [] op = "&" -> FromBits(Low(a) \cap Low(b))
      [] op = "|" -> FromBits(Low(a) \cup Low(b))
      [] op = "^" -> FromBits((Low(a) \ Low(b)) \cup (Low(b) \ Low(a)))

RECURSIVE eval(_, _, _)
eval(tree, table, location) ==
    IF tree = <<>> THEN <<>>
    ELSE LET node == Head(tree)
             child == eval(Tail(tree), table, location)
         IN  CASE node.kind = "num" -> <<node.v>>
               [] node.kind = "sym" -> IF node.v \in DOMAIN table THEN <<table[node.v]>> ELSE <<>>
               [] node.kind = "unary" -> IF child = <<>> THEN <<>> ELSE <<unary_op(node.op, child[1], location)>>
               [] node.kind = "binary" ->
                    LET left == eval(node.left, table, location)
                    IN  IF left = <<>> \/ child = <<>> THEN <<>> ELSE <<binary_op(node.op, left[1], child[1])>>

\* Parsed and evaluated: "parse" and "eval" errors, or the value.
value_of(tokens, table, location) ==
    LET p == parse(tokens) IN IF ~p.ok THEN <<>> ELSE eval(p.tree, table, location)

(***************************************************************************)
(* The reference: expressions as trees, what they mean, and how they are   *)
(* written with the usual precedence and as few brackets as it allows      *)
(***************************************************************************)
N(n) == [k |-> "leaf", tok |-> Num(n)]
S(s) == [k |-> "leaf", tok |-> Sym(s)]
U(op, a) == [k |-> "unary", op |-> op, a |-> a]
B(a, op, b) == [k |-> "binary", op |-> op, a |-> a, b |-> b]

RECURSIVE Meaning(_, _, _)
Meaning(e, table, location) ==
    CASE e.k = "leaf" -> IF e.tok[1] = "num" THEN <<e.tok[2]>>
                         ELSE IF e.tok[2] \in DOMAIN table THEN <<table[e.tok[2]]>> ELSE <<>>
      [] e.k = "unary" -> LET a == Meaning(e.a, table, location)
                          IN  IF a = <<>> THEN <<>> ELSE <<unary_op(e.op, a[1], location)>>
      [] e.k = "binary" -> LET a == Meaning(e.a, table, location)
                               b == Meaning(e.b, table, location)
                           IN  IF a = <<>> \/ b = <<>> THEN <<>> ELSE <<binary_op(e.op, a[1], b[1])>>

Binding(e) == CASE e.k = "leaf" -> 100 [] e.k = "unary" -> 90 [] e.k = "binary" -> Priority(e.op)

RECURSIVE Written(_)
Bracketed(e) == <<Op("(")>> \o Written(e) \o <<Op(")")>>
Written(e) ==
    CASE e.k = "leaf" -> <<e.tok>>
      [] e.k = "unary" -> <<Op(e.op)>> \o (IF e.a.k = "leaf" /\ e.op \notin Modifiers THEN Written(e.a)
                                           ELSE Bracketed(e.a))
      [] e.k = "binary" -> (IF Binding(e.a) >= Binding(e) THEN Written(e.a) ELSE Bracketed(e.a))
                           \o <<Op(e.op)>>
                           \o (IF Binding(e.b) > Binding(e) THEN Written(e.b) ELSE Bracketed(e.b))
=============================================================================
