---------------------------- MODULE CacheProofs ----------------------------
(***************************************************************************)
(* Proofs about Cache, for every geometry, write policy and replacement    *)
(* policy: address arithmetic, the invariant of its lines, and then the    *)
(* proof that it implements FlatMemory.                                    *)
(***************************************************************************)
EXTENDS Cache, TLAPS

(***************************************************************************)
(* Division                                                                *)
(***************************************************************************)
\* Multiples of d are at least d apart.
LEMMA MultiplesApart ==
    ASSUME NEW a \in Nat, NEW b \in Nat, NEW d \in Nat, a < b
    PROVE  a * d + d <= b * d
<1>1. PICK k \in Nat : b = a + 1 + k
  <2>1. b - a - 1 \in Nat
    OBVIOUS
  <2>2. b = a + 1 + (b - a - 1)
    OBVIOUS
  <2> QED
    BY <2>1, <2>2
<1>2. b * d = a * d + d + k * d
  BY <1>1
<1>3. k * d \in Nat
  OBVIOUS
<1> QED
  BY <1>2, <1>3

\* The defining property of quotient and remainder.
LEMMA DivMod ==
    ASSUME NEW a \in Nat, NEW d \in Nat \ {0}
    PROVE  /\ a \div d \in Nat
           /\ a % d \in 0 .. d - 1
           /\ a = (a \div d) * d + (a % d)
OBVIOUS

\* Quotient and remainder are determined by it.
LEMMA DivUnique ==
    ASSUME NEW q \in Nat, NEW d \in Nat \ {0}, NEW r \in 0 .. d - 1, NEW a \in Nat,
           a = q * d + r
    PROVE  a \div d = q /\ a % d = r
<1>1. /\ a \div d \in Nat
      /\ a % d \in 0 .. d - 1
      /\ a = (a \div d) * d + (a % d)
  BY DivMod
<1> DEFINE p == a \div d
<1> DEFINE s == a % d
<1>2. p \in Nat /\ s \in 0 .. d - 1 /\ a = p * d + s
  BY <1>1
<1> HIDE DEF p, s
<1>3. ~(p < q)
  <2> SUFFICES ASSUME p < q PROVE FALSE
    OBVIOUS
  <2>1. p * d + d <= q * d
    BY <1>2, MultiplesApart
  <2> QED
    BY <2>1, <1>2
<1>4. ~(q < p)
  <2> SUFFICES ASSUME q < p PROVE FALSE
    OBVIOUS
  <2>1. q * d + d <= p * d
    BY <1>2, MultiplesApart
  <2> QED
    BY <2>1, <1>2
<1>5. p = q
  BY <1>2, <1>3, <1>4
<1>6. s = r
  BY <1>2, <1>5
<1> QED
  BY <1>5, <1>6 DEF p, s

\* So a number is a quotient and a remainder in one way only.
LEMMA PairUnique ==
    ASSUME NEW p \in Nat, NEW q \in Nat, NEW d \in Nat \ {0},
           NEW r \in 0 .. d - 1, NEW s \in 0 .. d - 1, p * d + r = q * d + s
    PROVE  p = q /\ r = s
<1>1. ~(p < q)
  <2> SUFFICES ASSUME p < q PROVE FALSE
    OBVIOUS
  <2>1. p * d + d <= q * d
    BY MultiplesApart
  <2> QED
    BY <2>1
<1>2. ~(q < p)
  <2> SUFFICES ASSUME q < p PROVE FALSE
    OBVIOUS
  <2>1. q * d + d <= p * d
    BY MultiplesApart
  <2> QED
    BY <2>1
<1> QED
  BY <1>1, <1>2

(***************************************************************************)
(* Addresses                                                               *)
(***************************************************************************)
\* The sizes are positive integers.
LEMMA Sizes ==
    /\ BlockBytes \in Nat \ {0}
    /\ SetCount * BlockSize \in Nat \ {0}
    /\ BlockBytes = BlockSize * BLOCK_ITEM_SIZE
<1>1. \A x, y \in Nat \ {0} : x * y \in Nat \ {0}
  OBVIOUS
<1> QED
  BY <1>1, GeometryAssumption DEF BlockBytes

\* compute_location splits an address into a block and an offset in it, and
\* calc_base_address is its inverse.
LEMMA LocationInverse ==
    ASSUME NEW a \in Addr
    PROVE  /\ compute_location(a).tag \in Tags
           /\ compute_location(a).row \in Rows
           /\ compute_location(a).off \in Cols
           /\ a = Base(compute_location(a).tag, compute_location(a).row)
                    + compute_location(a).off
<1> DEFINE I == BLOCK_ITEM_SIZE
           W == SetCount * BlockSize
           w == a \div I
           b == a % I
           t == w \div W
           x == w % W
           r == x \div BlockSize
           c == x % BlockSize
<1>1. /\ a \in Nat /\ I \in Nat \ {0} /\ W \in Nat \ {0}
      /\ BlockSize \in Nat \ {0} /\ SetCount \in Nat \ {0} /\ MaxTag \in Nat
      /\ BlockBytes = BlockSize * I
  <2>1. (MaxTag + 1) * SetCount * BlockBytes - 1 \in Int
    BY Sizes, GeometryAssumption
  <2>2. a \in Nat
    BY <2>1 DEF Addr
  <2> QED
    BY <2>2, Sizes, GeometryAssumption
<1>2. w \in Nat /\ b \in 0 .. I - 1 /\ a = w * I + b
  BY <1>1, DivMod
<1> HIDE DEF w, b
<1>3. t \in Nat /\ x \in 0 .. W - 1 /\ w = t * W + x
  BY <1>1, <1>2, DivMod
<1> HIDE DEF t, x
<1>4. r \in Nat /\ c \in 0 .. BlockSize - 1 /\ x = r * BlockSize + c
  <2>1. x \in Nat
    <3> HIDE DEF W
    <3> QED
      BY <1>1, <1>3
  <2> QED
    BY <1>1, <2>1, DivMod
<1> HIDE DEF r, c
<1>5. r \in Rows
  <2>1. SUFFICES ~(SetCount <= r)
    BY <1>1, <1>4 DEF Rows
  <2>2. SUFFICES ASSUME SetCount <= r PROVE FALSE
    OBVIOUS
  <2>3. W <= r * BlockSize
    BY <1>1, <1>4, <2>2, MultiplesApart
  <2> QED
    BY <1>1, <1>3, <1>4, <2>3
<1>6. c * I + b \in Cols
  <2>1. c * I + I <= BlockSize * I
    BY <1>1, <1>4, MultiplesApart
  <2>2. c * I \in Nat
    BY <1>1, <1>4
  <2> QED
    BY <1>1, <1>2, <2>1, <2>2 DEF Cols
<1>7. t \in Tags
  <2>1. SUFFICES ASSUME MaxTag + 1 <= t PROVE FALSE
    BY <1>1, <1>3 DEF Tags
  <2>2. (MaxTag + 1) * W <= t * W
    BY <1>1, <1>3, <2>1, MultiplesApart
  <2>3. (MaxTag + 1) * W <= w
    BY <1>1, <1>3, <2>2
  <2>4. ((MaxTag + 1) * W) * I <= w * I
    <3>1. (MaxTag + 1) * W \in Nat
      BY <1>1
    <3> QED
      BY <1>1, <1>2, <2>3, <3>1, MultiplesApart
  <2>5. (MaxTag + 1) * SetCount * BlockBytes = ((MaxTag + 1) * W) * I
    BY <1>1
  <2> QED
    BY <1>1, <1>2, <2>4, <2>5 DEF Addr
<1>8. a = (t * SetCount + r) * BlockSize * I + (c * I + b)
  <2>1. a = (t * (SetCount * BlockSize) + (r * BlockSize + c)) * I + b
    BY <1>2, <1>3, <1>4
  <2> QED
    BY <1>1, <1>2, <1>3, <1>4, <2>1
<1>9. compute_location(a) = [tag |-> t, row |-> r, off |-> c * I + b]
  BY DEF compute_location, w, b, t, x, r, c
<1> QED
  BY <1>5, <1>6, <1>7, <1>8, <1>9 DEF Base, calc_base_address

\* The bytes of a block are addresses, and are located in that block.
LEMMA LocationOfBlock ==
    ASSUME NEW tag \in Tags, NEW row \in Rows, NEW o \in Cols
    PROVE  /\ Base(tag, row) + o \in Addr
           /\ compute_location(Base(tag, row) + o) = [tag |-> tag, row |-> row, off |-> o]
<1> DEFINE I == BLOCK_ITEM_SIZE
           W == SetCount * BlockSize
           c == o \div I
           b == o % I
           x == row * BlockSize + c
           w == tag * W + x
           a == Base(tag, row) + o
<1>1. /\ I \in Nat \ {0} /\ W \in Nat \ {0} /\ o \in Nat /\ o < BlockSize * I
      /\ BlockSize \in Nat \ {0} /\ SetCount \in Nat \ {0} /\ MaxTag \in Nat
      /\ tag \in Nat /\ tag <= MaxTag /\ row \in Nat /\ row < SetCount
      /\ BlockBytes = BlockSize * I
  BY Sizes, GeometryAssumption DEF Cols, Tags, Rows
<1>2. c \in Nat /\ b \in 0 .. I - 1 /\ o = c * I + b
  BY <1>1, DivMod
<1> HIDE DEF c, b
<1>3. c \in 0 .. BlockSize - 1
  <2>1. SUFFICES ASSUME BlockSize <= c PROVE FALSE
    BY <1>1, <1>2
  <2>2. BlockSize * I <= c * I
    BY <1>1, <1>2, <2>1, MultiplesApart
  <2> QED
    BY <1>1, <1>2, <2>2
<1>4. x \in 0 .. W - 1
  <2>1. row * BlockSize + BlockSize <= SetCount * BlockSize
    BY <1>1, MultiplesApart
  <2>2. row * BlockSize \in Nat
    BY <1>1
  <2> QED
    BY <1>1, <1>3, <2>1, <2>2
<1>5. w \in Nat
  <2>1. tag * W \in Nat
    BY <1>1
  <2> QED
    BY <1>1, <1>4, <2>1
<1>6. a = w * I + b
  <2>1. a = (tag * SetCount + row) * BlockSize * I + (c * I + b)
    BY <1>2 DEF Base, calc_base_address
  <2>2. (tag * SetCount + row) * BlockSize * I + (c * I + b)
          = (tag * (SetCount * BlockSize) + (row * BlockSize + c)) * I + b
    BY <1>1, <1>2
  <2> QED
    BY <2>1, <2>2
<1>7. a \in Nat
  <2>1. w * I \in Nat
    BY <1>1, <1>5
  <2> QED
    BY <1>2, <1>6, <2>1
<1>8. a \in Addr
  <2>1. tag * W + W <= (MaxTag + 1) * W
    BY <1>1, MultiplesApart
  <2>2. w < (MaxTag + 1) * W
    BY <1>1, <1>4, <2>1
  <2>3. w * I + I <= ((MaxTag + 1) * W) * I
    <3>1. (MaxTag + 1) * W \in Nat
      BY <1>1
    <3> QED
      BY <1>1, <1>5, <2>2, <3>1, MultiplesApart
  <2>4. (MaxTag + 1) * SetCount * BlockBytes = ((MaxTag + 1) * W) * I
    BY <1>1
  <2>5. w * I \in Nat
    BY <1>1, <1>5
  <2> HIDE DEF a, w, W
  <2> QED
    BY <1>1, <1>2, <1>6, <1>7, <2>3, <2>4, <2>5 DEF Addr
<1>9. a \div I = w /\ a % I = b
  <2> HIDE DEF a, w
  <2> QED
    BY <1>1, <1>2, <1>5, <1>6, <1>7, DivUnique, SMTT(40)
<1>10. w \div W = tag /\ w % W = x
  <2>1. w = tag * W + x
    OBVIOUS
  <2> HIDE DEF w, W, x
  <2> QED
    BY <1>1, <1>4, <1>5, <2>1, DivUnique, SMTT(40)
<1>11. x \div BlockSize = row /\ x % BlockSize = c
  BY <1>1, <1>3, <1>4, DivUnique
<1>12. compute_location(a) = [tag |-> tag, row |-> row, off |-> c * I + b]
  <2> HIDE DEF a, w, x
  <2> QED
    BY <1>9, <1>10, <1>11 DEF compute_location
<1> QED
  BY <1>2, <1>8, <1>12

\* Addresses are an interval of natural numbers.
LEMMA AddrConvex ==
    /\ Addr \subseteq Nat
    /\ \A a, b \in Addr : \A c \in Int : a <= c /\ c <= b => c \in Addr
<1>1. (MaxTag + 1) * SetCount * BlockBytes - 1 \in Int
  BY Sizes, GeometryAssumption
<1> QED
  BY <1>1 DEF Addr

(***************************************************************************)
(* The call in progress                                                    *)
(***************************************************************************)
\* A running access() serves one of the requests.
LEMMA CallAccess ==
    ASSUME CallOK, op.pc = "access"
    PROVE  /\ op = [pc |-> "access", type |-> op.type, addr |-> op.addr,
                    size |-> op.size, pos |-> op.pos, buf |-> op.buf]
           /\ op.type \in {READ, WRITE}
           /\ [addr |-> op.addr, size |-> op.size] \in Requests
           /\ op.addr \in Nat /\ op.size \in Nat \ {0} /\ op.pos \in 0 .. op.size
           /\ Span(op, op.size) \subseteq Addr
           /\ op.buf \in [Span(op, IF op.type = READ THEN op.pos ELSE op.size) -> Val]
<1>1. /\ op = [pc |-> "access", type |-> op.type, addr |-> op.addr,
               size |-> op.size, pos |-> op.pos, buf |-> op.buf]
      /\ op.type \in {READ, WRITE}
      /\ [addr |-> op.addr, size |-> op.size] \in Requests
      /\ op.pos \in 0 .. op.size
      /\ op.buf \in [Span(op, IF op.type = READ THEN op.pos ELSE op.size) -> Val]
  <2>1. op # Idle
    BY DEF Idle
  <2>2. op # [pc |-> "flush", pos |-> op.pos]
    OBVIOUS
  <2> QED
    BY <2>1, <2>2 DEF CallOK
<1>2. op.addr \in Addr /\ op.size \in Nat \ {0} /\ op.addr + op.size - 1 \in Addr
  BY <1>1, RequestAssumption
<1>3. op.addr \in Nat
  BY <1>2, AddrConvex
<1>4. Span(op, op.size) \subseteq Addr
  BY <1>2, <1>3, AddrConvex DEF Span
<1> QED
  BY <1>1, <1>2, <1>3, <1>4

\* The bytes accessed next lie in one block, start where the call stands, and
\* stop at the end of the block or of the request.
LEMMA CurBlock ==
    ASSUME CallOK, op.pc = "access", op.pos < op.size
    PROVE  /\ CurLoc.tag \in Tags /\ CurLoc.row \in Rows /\ CurLoc.off \in Cols
           /\ Base(CurLoc.tag, CurLoc.row) \in Int
           /\ op.addr + op.pos = Base(CurLoc.tag, CurLoc.row) + CurLoc.off
           /\ CurSize \in Nat \ {0}
           /\ op.pos + CurSize \in 0 .. op.size
           /\ op.pos + CurSize = op.size \/ CurLoc.off + CurSize = BlockBytes
           /\ CurSpan \subseteq Span(op, op.size)
           /\ \A x \in CurSpan :
                /\ x - Base(CurLoc.tag, CurLoc.row) \in Cols
                /\ compute_location(x) = [tag |-> CurLoc.tag, row |-> CurLoc.row,
                                          off |-> x - Base(CurLoc.tag, CurLoc.row)]
<1> DEFINE a == op.addr + op.pos
           B == Base(CurLoc.tag, CurLoc.row)
<1>1. /\ op.addr \in Nat /\ op.size \in Nat \ {0} /\ op.pos \in 0 .. op.size
      /\ Span(op, op.size) \subseteq Addr
  BY CallAccess
<1>2. a \in Addr /\ a \in Nat
  BY <1>1, AddrConvex DEF Span
<1>3. /\ CurLoc.tag \in Tags /\ CurLoc.row \in Rows /\ CurLoc.off \in Cols
      /\ a = B + CurLoc.off
  <2> HIDE DEF a
  <2>1. CurLoc = compute_location(a)
    BY DEF CurLoc, a
  <2> QED
    BY <1>2, <2>1, LocationInverse
<1>4. B \in Int
  <2>1. \A p, q, t, r \in Int : (p * q + r) * t \in Int
    OBVIOUS
  <2>2. CurLoc.tag \in Int /\ CurLoc.row \in Int
    BY <1>3 DEF Tags, Rows
  <2>3. (CurLoc.tag * SetCount + CurLoc.row) \in Int
    BY <2>2, GeometryAssumption
  <2>4. \A p, q, r \in Int : p * q * r \in Int
    OBVIOUS
  <2> QED
    BY <2>3, <2>4, GeometryAssumption DEF Base, calc_base_address
<1> HIDE DEF B
<1>5. /\ CurSize \in Nat \ {0}
      /\ op.pos + CurSize \in 0 .. op.size
      /\ op.pos + CurSize = op.size \/ CurLoc.off + CurSize = BlockBytes
      /\ CurLoc.off + CurSize <= BlockBytes
  BY <1>1, <1>3, Sizes DEF CurSize, size_within_block, Cols
<1>6. CurSpan \subseteq Span(op, op.size)
  BY <1>1, <1>5 DEF CurSpan, Span
<1>7. ASSUME NEW x \in CurSpan
      PROVE  /\ x - B \in Cols
             /\ compute_location(x) = [tag |-> CurLoc.tag, row |-> CurLoc.row, off |-> x - B]
  <2>1. x - B \in Cols
    BY <1>1, <1>3, <1>4, <1>5, Sizes DEF CurSpan, Cols
  <2>2. x = B + (x - B)
    BY <1>1, <1>4, <1>5 DEF CurSpan
  <2> QED
    BY <1>3, <2>1, <2>2, LocationOfBlock DEF B
<1> QED
  BY <1>3, <1>4, <1>5, <1>6, <1>7 DEF B

(***************************************************************************)
(* Type correctness                                                        *)
(***************************************************************************)
\* The counters stay below CounterMod, whatever is added.
LEMMA CountedType ==
    ASSUME cnt \in [Counters -> 0 .. CounterMod - 1],
           NEW inc, \A c \in DOMAIN inc : inc[c] \in Nat
    PROVE  Counted(inc) \in [Counters -> 0 .. CounterMod - 1]
<1>1. ASSUME NEW c \in Counters
      PROVE  (cnt[c] + (IF c \in DOMAIN inc THEN inc[c] ELSE 0)) % CounterMod
                \in 0 .. CounterMod - 1
  <2>1. cnt[c] + (IF c \in DOMAIN inc THEN inc[c] ELSE 0) \in Nat
    <3>1. cnt[c] \in Nat
      BY GeometryAssumption
    <3>2. (IF c \in DOMAIN inc THEN inc[c] ELSE 0) \in Nat
      OBVIOUS
    <3> QED
      BY <3>1, <3>2
  <2> QED
    BY <2>1, DivMod, GeometryAssumption
<1> QED
  BY <1>1 DEF Counted

\* kick() leaves a memory, and adds natural numbers to the counters.
LEMMA KickedType ==
    ASSUME TypeOK, NEW w \in Ways, NEW r \in Rows
    PROVE  /\ KickedMem(w, r) \in [Addr -> Val]
           /\ KickedInc(w, r) = [mem_writes |-> KickedInc(w, r).mem_writes,
                                 burst_writes |-> KickedInc(w, r).burst_writes,
                                 change_counter |-> 1]
           /\ KickedInc(w, r).mem_writes \in Nat
           /\ KickedInc(w, r).burst_writes \in Nat
           /\ KickedInc(w, r).change_counter = 1
<1> DEFINE cd == dt[w][r]
<1>1. cd \in Line
  BY DEF TypeOK
<1>2. ASSUME NEW x \in BlockSpan(cd.tag, r)
      PROVE  cd.data[x - Base(cd.tag, r)] \in Val
  <2>1. cd.tag \in Tags /\ cd.data \in [Cols -> Val]
    BY <1>1 DEF Line
  <2>2. Base(cd.tag, r) \in Int
    <3>1. cd.tag \in Int /\ r \in Int
      BY <2>1 DEF Tags, Rows
    <3>2. cd.tag * SetCount + r \in Int
      BY <3>1, GeometryAssumption
    <3>3. \A p, q, k \in Int : p * q * k \in Int
      OBVIOUS
    <3> QED
      BY <3>2, <3>3, GeometryAssumption DEF Base, calc_base_address
  <2>3. x - Base(cd.tag, r) \in Cols
    <3> HIDE DEF cd
    <3> QED
      BY <2>2, Sizes DEF BlockSpan, Cols
  <2> QED
    BY <2>1, <2>3
<1>3. KickedMem(w, r) \in [Addr -> Val]
  BY <1>2 DEF KickedMem, Stored, TypeOK
<1> QED
  BY <1>3, GeometryAssumption DEF KickedInc

\* Reading or writing the current block in a line keeps line and call typed.
LEMMA AccessLineType ==
    ASSUME TypeOK, op.pc = "access", op.pos < op.size,
           NEW way \in Ways, NEW line \in Line, AccessLine(way, line, CurLoc)
    PROVE  /\ Touched(line, CurLoc) \in Line
           /\ dt' \in [Ways -> [Rows -> Line]]
           /\ CallOK'
<1>1. CallOK
  BY DEF TypeOK
<1>2. /\ op = [pc |-> "access", type |-> op.type, addr |-> op.addr,
               size |-> op.size, pos |-> op.pos, buf |-> op.buf]
      /\ op.type \in {READ, WRITE}
      /\ [addr |-> op.addr, size |-> op.size] \in Requests
      /\ op.addr \in Nat /\ op.size \in Nat \ {0} /\ op.pos \in 0 .. op.size
      /\ op.buf \in [Span(op, IF op.type = READ THEN op.pos ELSE op.size) -> Val]
  BY <1>1, CallAccess
<1>3. /\ CurLoc.row \in Rows
      /\ CurSize \in Nat \ {0} /\ op.pos + CurSize \in 0 .. op.size
      /\ CurSpan \subseteq Span(op, op.size)
      /\ \A x \in CurSpan : x - Base(CurLoc.tag, CurLoc.row) \in Cols
  BY <1>1, CurBlock
<1>4. Touched(line, CurLoc) \in Line
  <2>1. CASE op.type = READ
    BY <2>1 DEF Touched
  <2>2. CASE op.type = WRITE
    <3>1. op.buf \in [Span(op, op.size) -> Val]
      BY <1>2, <2>2 DEF READ, WRITE
    <3>2. op.type # READ
      BY <2>2 DEF READ, WRITE
    <3>3. \A x \in CurSpan : op.buf[x] \in Val
      BY <1>3, <3>1
    <3> QED
      BY <3>2, <3>3 DEF Touched, Line
  <2> QED
    BY <1>2, <2>1, <2>2
<1>5. dt' \in [Ways -> [Rows -> Line]]
  BY <1>3, <1>4 DEF AccessLine, TypeOK
<1>6. Delivered(line, CurLoc)
        \in [Span(op, IF op.type = READ THEN op.pos + CurSize ELSE op.size) -> Val]
  <2>1. CASE op.type = WRITE
    BY <1>2, <2>1 DEF Delivered, READ, WRITE
  <2>2. CASE op.type = READ
    <3>1. op.buf \in [Span(op, op.pos) -> Val] /\ op.type # WRITE
      BY <1>2, <2>2 DEF READ, WRITE
    <3>2. line.data \in [Cols -> Val]
      BY DEF Line
    <3>3. \A x \in Span(op, op.pos + CurSize) : x \in CurSpan \/ x \in Span(op, op.pos)
      BY <1>2, <1>3 DEF Span, CurSpan
    <3>4. \A x \in CurSpan : line.data[x - Base(CurLoc.tag, CurLoc.row)] \in Val
      BY <1>3, <3>2
    <3> QED
      BY <2>2, <3>1, <3>3, <3>4 DEF Delivered
  <2> QED
    BY <1>2, <2>1, <2>2
<1>7. op' = [pc |-> "access", type |-> op.type, addr |-> op.addr, size |-> op.size,
             pos |-> op.pos + CurSize, buf |-> Delivered(line, CurLoc)]
  BY <1>2 DEF AccessLine
<1>8. CallOK'
  BY <1>2, <1>3, <1>6, <1>7 DEF CallOK, Span
<1> QED
  BY <1>4, <1>5, <1>8

\* UniqueBlocks, of lines d.
Unique(d) ==
    \A row \in Rows : \A v, w \in Ways :
        /\ d[v][row].valid /\ d[w][row].valid
        /\ d[v][row].tag = d[w][row].tag
        => v = w

\* A search that succeeds returns the way that matches.
LEMMA FindsMatch ==
    ASSUME NEW d, Unique(d), NEW loc, loc.row \in Rows, NEW w \in Matching(d, loc)
    PROVE  /\ w \in Ways
           /\ find_block_index(d, loc) = w
<1>1. \A v \in Matching(d, loc) : v = w
  BY DEF Unique, Matching
<1>2. w \in Ways /\ w <= w
  BY GeometryAssumption DEF Matching, Ways
<1>3. \A v \in Matching(d, loc) :
         (\A u \in Matching(d, loc) : v <= u) <=> v = w
  BY <1>1, <1>2
<1> QED
  BY <1>1, <1>2, <1>3 DEF find_block_index

\* Replacing the line of one way by one of a block that no other way holds.
LEMMA ReplacedUnique ==
    ASSUME dt \in [Ways -> [Rows -> Line]], UniqueBlocks,
           NEW way \in Ways, NEW row \in Rows, NEW line \in Line,
           line.valid => \A w \in Ways \ {way} :
                            ~(dt[w][row].valid /\ dt[w][row].tag = line.tag),
           dt' = [dt EXCEPT ![way][row] = line]
    PROVE  UniqueBlocks'
<1>1. \A w \in Ways, r \in Rows :
         dt'[w][r] = IF w = way /\ r = row THEN line ELSE dt[w][r]
  OBVIOUS
<1> QED
  BY <1>1 DEF UniqueBlocks

\* Writing into a line changes neither its tag nor its valid bit.
LEMMA TouchedKeeps ==
    ASSUME NEW line \in Line, NEW loc
    PROVE  /\ Touched(line, loc).valid = line.valid
           /\ Touched(line, loc).tag = line.tag
BY DEF Touched, Line

(***************************************************************************)
(* Access steps                                                            *)
(***************************************************************************)
\* What a hit does.
LEMMA HitFacts ==
    ASSUME TypeOK, UniqueBlocks, AccessHit
    PROVE  \E way \in Ways :
             /\ way \in Matching(dt, CurLoc)
             /\ find_block_index(dt, CurLoc) = way
             /\ dt[way][CurLoc.row] \in Line
             /\ CurLoc.row \in Rows
             /\ AccessLine(way, dt[way][CurLoc.row], CurLoc)
<1>1. CurLoc.row \in Rows
  BY CurBlock DEF AccessHit, TypeOK
<1>2. PICK way \in Matching(dt, CurLoc) : TRUE
  BY DEF AccessHit
<1>3. way \in Ways /\ find_block_index(dt, CurLoc) = way
  BY <1>1, <1>2, FindsMatch DEF UniqueBlocks, Unique
<1>4. AccessLine(way, dt[way][CurLoc.row], CurLoc)
  BY <1>3 DEF AccessHit
<1>5. dt[way][CurLoc.row] \in Line
  BY <1>1, <1>3 DEF TypeOK
<1> QED
  BY <1>1, <1>2, <1>3, <1>4, <1>5

\* The line that a miss fills in way `way`.
FilledLine(way) ==
    [valid |-> TRUE, dirty |-> FALSE, tag |-> CurLoc.tag,
     data |-> [c \in Cols |-> KickedMem(way, CurLoc.row)[Base(CurLoc.tag, CurLoc.row) + c]]]

\* What a miss does.
LEMMA MissFacts ==
    ASSUME TypeOK, AccessMiss
    PROVE  \E way \in Ways :
             /\ way \in WaysToEvict(repl[CurLoc.row])
             /\ Matching(dt, CurLoc) = {}
             /\ CurLoc.row \in Rows /\ CurLoc.tag \in Tags
             /\ FilledLine(way) \in Line
             /\ mem' = KickedMem(way, CurLoc.row)
             /\ AccessLine(way, FilledLine(way), CurLoc)
             /\ repl' \in [Rows -> PolicyStates]
             /\ cnt' \in [Counters -> 0 .. CounterMod - 1]
<1>1. CurLoc.row \in Rows /\ CurLoc.tag \in Tags
  BY CurBlock DEF AccessMiss, TypeOK
<1>2. PICK way \in WaysToEvict(repl[CurLoc.row]) :
        LET kinc == KickedInc(way, CurLoc.row)
            line == FilledLine(way)
        IN  /\ mem' = KickedMem(way, CurLoc.row)
            /\ AccessLine(way, line, CurLoc)
            /\ repl' = [repl EXCEPT ![CurLoc.row] =
                          UpdateStats(UpdateStats(@, way, FALSE), way, TRUE)]
            /\ cnt' = Counted(
                 [miss_read |-> IF op.type = READ THEN 1 ELSE 0,
                  miss_write |-> IF op.type = WRITE THEN 1 ELSE 0,
                  mem_reads |-> BlockSize,
                  burst_reads |-> BlockSize - 1,
                  mem_writes |-> kinc.mem_writes,
                  burst_writes |-> kinc.burst_writes,
                  change_counter |->
                     kinc.change_counter + BlockSize
                     + (IF Touched(line, CurLoc).data # line.data THEN 1 ELSE 0)])
  BY DEF AccessMiss, FilledLine
<1>3. way \in Ways
  BY <1>1, <1>2, PolicyAssumption DEF TypeOK
<1>4. FilledLine(way) \in Line
  <2>1. KickedMem(way, CurLoc.row) \in [Addr -> Val]
    BY <1>1, <1>3, KickedType
  <2>2. \A c \in Cols : Base(CurLoc.tag, CurLoc.row) + c \in Addr
    BY <1>1, LocationOfBlock
  <2> QED
    BY <1>1, <2>1, <2>2 DEF FilledLine, Line
<1>5. repl' \in [Rows -> PolicyStates]
  <2>1. repl[CurLoc.row] \in PolicyStates
    BY <1>1 DEF TypeOK
  <2>2. UpdateStats(repl[CurLoc.row], way, FALSE) \in PolicyStates
    BY <1>3, <2>1, PolicyAssumption
  <2>3. UpdateStats(UpdateStats(repl[CurLoc.row], way, FALSE), way, TRUE) \in PolicyStates
    BY <1>3, <2>2, PolicyAssumption
  <2> QED
    BY <1>1, <1>2, <2>3 DEF TypeOK
<1>6. cnt' \in [Counters -> 0 .. CounterMod - 1]
  <2> DEFINE kinc == KickedInc(way, CurLoc.row)
             line == FilledLine(way)
             inc == [miss_read |-> IF op.type = READ THEN 1 ELSE 0,
                     miss_write |-> IF op.type = WRITE THEN 1 ELSE 0,
                     mem_reads |-> BlockSize,
                     burst_reads |-> BlockSize - 1,
                     mem_writes |-> kinc.mem_writes,
                     burst_writes |-> kinc.burst_writes,
                     change_counter |->
                        kinc.change_counter + BlockSize
                        + (IF Touched(line, CurLoc).data # line.data THEN 1 ELSE 0)]
  <2>1. /\ kinc.mem_writes \in Nat /\ kinc.burst_writes \in Nat
        /\ kinc.change_counter \in Nat
    BY <1>1, <1>3, KickedType
  <2>2. cnt' = Counted(inc)
    BY <1>2
  <2> HIDE DEF kinc, line
  <2>3. \A c \in DOMAIN inc : inc[c] \in Nat
    BY <2>1, GeometryAssumption
  <2> HIDE DEF inc
  <2> QED
    BY <2>2, <2>3, CountedType DEF TypeOK
<1>7. Matching(dt, CurLoc) = {}
  BY DEF AccessMiss
<1> QED
  BY <1>1, <1>2, <1>3, <1>4, <1>5, <1>6, <1>7

\* What a turn of flush() does.
LEMMA FlushFacts ==
    ASSUME TypeOK, FlushLine
    PROVE  \E way \in Ways : \E row \in Rows :
             /\ op.pos = way * SetCount + row
             /\ op' = [pc |-> "flush", pos |-> op.pos + 1]
             /\ op.pos + 1 \in 0 .. Associativity * SetCount
             /\ dt[way][row] \in Line
             /\ IF dt[way][row].valid
                THEN /\ mem' = KickedMem(way, row)
                     /\ dt' = [dt EXCEPT ![way][row] =
                                 [dt[way][row] EXCEPT !.valid = FALSE, !.dirty = FALSE]]
                     /\ repl' = [repl EXCEPT ![row] = UpdateStats(@, way, FALSE)]
                     /\ cnt' = Counted(KickedInc(way, row))
                ELSE UNCHANGED <<dt, repl, mem, cnt>>
<1> DEFINE way == op.pos \div SetCount
           row == op.pos % SetCount
<1>1. /\ op.pc = "flush" /\ op.pos < Associativity * SetCount
      /\ op' = [op EXCEPT !.pos = @ + 1]
      /\ IF dt[way][row].valid
         THEN /\ mem' = KickedMem(way, row)
              /\ dt' = [dt EXCEPT ![way][row] = kicked(@)]
              /\ repl' = [repl EXCEPT ![row] = UpdateStats(@, way, FALSE)]
              /\ cnt' = Counted(KickedInc(way, row))
         ELSE UNCHANGED <<dt, repl, mem, cnt>>
  BY DEF FlushLine
<1>2. op = [pc |-> "flush", pos |-> op.pos] /\ op.pos \in 0 .. Associativity * SetCount
  BY <1>1 DEF TypeOK, CallOK, Idle
<1>3. Associativity * SetCount \in Nat
  BY GeometryAssumption
<1>4. op.pos \in Nat /\ op.pos + 1 \in 0 .. Associativity * SetCount
  BY <1>1, <1>2, <1>3
<1>5. way \in Nat /\ row \in 0 .. SetCount - 1 /\ op.pos = way * SetCount + row
  BY <1>4, DivMod, GeometryAssumption
<1> HIDE DEF way, row
<1>6. row \in Rows
  BY <1>5 DEF Rows
<1>7. way \in Ways
  <2>1. SUFFICES ASSUME Associativity <= way PROVE FALSE
    BY <1>5, GeometryAssumption DEF Ways
  <2>2. Associativity * SetCount <= way * SetCount
    BY <1>5, <2>1, MultiplesApart, GeometryAssumption
  <2>3. way * SetCount \in Nat
    BY <1>5, GeometryAssumption
  <2> QED
    BY <1>1, <1>3, <1>5, <2>2, <2>3, GeometryAssumption
<1>8. dt[way][row] \in Line
  BY <1>6, <1>7 DEF TypeOK
<1>9. op' = [pc |-> "flush", pos |-> op.pos + 1]
  BY <1>1, <1>2
<1>10. [dt EXCEPT ![way][row] = kicked(@)]
         = [dt EXCEPT ![way][row] =
              [dt[way][row] EXCEPT !.valid = FALSE, !.dirty = FALSE]]
  BY <1>6, <1>7, <1>8 DEF TypeOK, kicked
<1> QED
  BY <1>1, <1>4, <1>5, <1>6, <1>7, <1>8, <1>9, <1>10

(***************************************************************************)
(* Every state is typed, and no block is in two ways                       *)
(***************************************************************************)
\* A byte buffer of a request.
LEMMA RequestBuffer ==
    ASSUME TypeOK, NEW r \in Requests, NEW buf \in [Span(r, r.size) -> Val]
    PROVE  Stored(mem, buf) \in [Addr -> Val]
BY DEF Stored, TypeOK

\* The constructor leaves typed, empty lines.
LEMMA InitTyped == Init => TypeOK /\ UniqueBlocks
<1> SUFFICES ASSUME Init PROVE TypeOK /\ UniqueBlocks
  OBVIOUS
<1>1. EmptyLine \in Line
  BY MemoryAssumption, GeometryAssumption DEF EmptyLine, Line, Tags
<1>2. 0 \in 0 .. CounterMod - 1
  BY GeometryAssumption
<1>3. TypeOK
  BY <1>1, <1>2, MemoryAssumption, PolicyAssumption DEF Init, TypeOK, CallOK
<1>4. \A w \in Ways, r \in Rows : ~dt[w][r].valid
  BY DEF Init, EmptyLine
<1> QED
  BY <1>3, <1>4 DEF UniqueBlocks

\* Every call keeps the types and never duplicates a block.
LEMMA NextTyped ==
    ASSUME TypeOK, UniqueBlocks, Next
    PROVE  TypeOK' /\ UniqueBlocks'
<1> USE DEF UniqueBlocks
<1>1. ASSUME NEW r \in Requests, ReadBypass(r)
      PROVE  TypeOK' /\ UniqueBlocks'
  <2>1. cnt' \in [Counters -> 0 .. CounterMod - 1]
    BY <1>1, CountedType DEF ReadBypass, TypeOK
  <2> QED
    BY <1>1, <2>1 DEF ReadBypass, TypeOK, CallOK, Span
<1>2. ASSUME NEW r \in Requests, ReadInternal(r)
      PROVE  TypeOK' /\ UniqueBlocks'
  BY <1>2 DEF ReadInternal, TypeOK, CallOK, Span
<1>3. ASSUME NEW r \in Requests, NEW buf \in [Span(r, r.size) -> Val], WriteBypass(r, buf)
      PROVE  TypeOK' /\ UniqueBlocks'
  <2>1. cnt' \in [Counters -> 0 .. CounterMod - 1]
    BY <1>3, CountedType DEF WriteBypass, TypeOK
  <2>2. mem' \in [Addr -> Val]
    BY <1>3, RequestBuffer DEF WriteBypass
  <2> QED
    BY <1>3, <2>1, <2>2 DEF WriteBypass, TypeOK, CallOK, Span
<1>4. ASSUME NEW r \in Requests, ReadCall(r)
      PROVE  TypeOK' /\ UniqueBlocks'
  <2>1. [addr |-> r.addr, size |-> r.size] \in Requests
    BY RequestAssumption
  <2>2. r.addr \in Nat /\ r.size \in Nat \ {0}
    BY RequestAssumption, AddrConvex
  <2> QED
    BY <1>4, <2>1, <2>2 DEF ReadCall, TypeOK, CallOK, Span, READ, WRITE
<1>5. ASSUME NEW r \in Requests, NEW buf \in [Span(r, r.size) -> Val], WriteCall(r, buf)
      PROVE  TypeOK' /\ UniqueBlocks'
  <2>1. [addr |-> r.addr, size |-> r.size] \in Requests
    BY RequestAssumption
  <2>2. r.addr \in Nat /\ r.size \in Nat \ {0}
    BY RequestAssumption, AddrConvex
  <2> QED
    BY <1>5, <2>1, <2>2 DEF WriteCall, TypeOK, CallOK, Span, READ, WRITE
<1>6. CASE AccessHit
  <2>1. PICK way \in Ways :
             /\ way \in Matching(dt, CurLoc)
             /\ find_block_index(dt, CurLoc) = way
             /\ dt[way][CurLoc.row] \in Line
             /\ CurLoc.row \in Rows
             /\ AccessLine(way, dt[way][CurLoc.row], CurLoc)
    BY <1>6, HitFacts
  <2>2. op.pc = "access" /\ op.pos < op.size /\ UNCHANGED <<mem, ret>>
    BY <1>6 DEF AccessHit
  <2>3. /\ Touched(dt[way][CurLoc.row], CurLoc) \in Line
        /\ dt' \in [Ways -> [Rows -> Line]]
        /\ CallOK'
    BY <2>1, <2>2, AccessLineType
  <2>4. repl' \in [Rows -> PolicyStates]
    BY <1>6, <2>1, PolicyAssumption DEF AccessHit, TypeOK
  <2>5. cnt' \in [Counters -> 0 .. CounterMod - 1]
    <3> DEFINE line == dt[way][CurLoc.row]
               inc == [hit_read |-> IF op.type = READ THEN 1 ELSE 0,
                       hit_write |-> IF op.type = WRITE THEN 1 ELSE 0,
                       change_counter |-> IF Touched(line, CurLoc).data # line.data
                                          THEN 1 ELSE 0]
    <3>1. cnt' = Counted(inc)
      BY <1>6, <2>1 DEF AccessHit
    <3>2. \A c \in DOMAIN inc : inc[c] \in Nat
      OBVIOUS
    <3> HIDE DEF inc
    <3> QED
      BY <3>1, <3>2, CountedType DEF TypeOK
  <2>6. UniqueBlocks'
    <3>1. dt' = [dt EXCEPT ![way][CurLoc.row] = Touched(dt[way][CurLoc.row], CurLoc)]
      BY <2>1 DEF AccessLine
    <3>2. \A w \in Ways \ {way} :
             ~(dt[w][CurLoc.row].valid
                 /\ dt[w][CurLoc.row].tag = Touched(dt[way][CurLoc.row], CurLoc).tag)
      BY <2>1, TouchedKeeps DEF Matching
    <3> HIDE DEF UniqueBlocks
    <3> QED
      BY <2>1, <2>3, <3>1, <3>2, ReplacedUnique DEF TypeOK
  <2> QED
    BY <2>2, <2>3, <2>4, <2>5, <2>6 DEF TypeOK
<1>7. CASE AccessMiss
  <2>1. PICK way \in Ways :
             /\ way \in WaysToEvict(repl[CurLoc.row])
             /\ Matching(dt, CurLoc) = {}
             /\ CurLoc.row \in Rows /\ CurLoc.tag \in Tags
             /\ FilledLine(way) \in Line
             /\ mem' = KickedMem(way, CurLoc.row)
             /\ AccessLine(way, FilledLine(way), CurLoc)
             /\ repl' \in [Rows -> PolicyStates]
             /\ cnt' \in [Counters -> 0 .. CounterMod - 1]
    BY <1>7, MissFacts
  <2>2. /\ Touched(FilledLine(way), CurLoc) \in Line
        /\ dt' \in [Ways -> [Rows -> Line]]
        /\ CallOK'
    BY <1>7, <2>1, AccessLineType DEF AccessMiss
  <2>3. mem' \in [Addr -> Val]
    BY <2>1, KickedType
  <2>4. UniqueBlocks'
    <3>1. dt' = [dt EXCEPT ![way][CurLoc.row] = Touched(FilledLine(way), CurLoc)]
      BY <2>1 DEF AccessLine
    <3>2. \A w \in Ways \ {way} :
             ~(dt[w][CurLoc.row].valid
                 /\ dt[w][CurLoc.row].tag = Touched(FilledLine(way), CurLoc).tag)
      BY <2>1, TouchedKeeps DEF Matching, FilledLine
    <3> HIDE DEF UniqueBlocks
    <3> QED
      BY <2>1, <2>2, <3>1, <3>2, ReplacedUnique DEF TypeOK
  <2> QED
    BY <2>1, <2>2, <2>3, <2>4 DEF TypeOK
<1>8. CASE AccessMissNoAlloc
  <2>1. cnt' \in [Counters -> 0 .. CounterMod - 1]
    BY <1>8, CountedType DEF AccessMissNoAlloc, TypeOK
  <2>2. CallOK'
    <3>1. /\ op.pc = "access" /\ op.pos < op.size /\ op.type = WRITE
          /\ op' = [op EXCEPT !.pos = @ + CurSize]
      BY <1>8 DEF AccessMissNoAlloc
    <3>2. /\ op = [pc |-> "access", type |-> op.type, addr |-> op.addr,
                   size |-> op.size, pos |-> op.pos, buf |-> op.buf]
          /\ [addr |-> op.addr, size |-> op.size] \in Requests
          /\ op.buf \in [Span(op, IF op.type = READ THEN op.pos ELSE op.size) -> Val]
      BY <3>1, CallAccess DEF TypeOK
    <3>3. op.pos + CurSize \in 0 .. op.size
      BY <3>1, CurBlock DEF TypeOK
    <3>4. op' = [pc |-> "access", type |-> WRITE, addr |-> op.addr, size |-> op.size,
                 pos |-> op.pos + CurSize, buf |-> op.buf]
      BY <3>1, <3>2
    <3> QED
      BY <3>1, <3>2, <3>3, <3>4 DEF CallOK, Span, READ, WRITE
  <2> QED
    BY <1>8, <2>1, <2>2 DEF AccessMissNoAlloc, TypeOK
<1>9. CASE ReadReturn
  BY <1>9 DEF ReadReturn, TypeOK, CallOK
<1>10. CASE WriteReturn
  <2>1. /\ op.buf \in [Span(op, op.size) -> Val]
    BY <1>10, CallAccess DEF WriteReturn, TypeOK, READ, WRITE
  <2>2. Stored(mem, op.buf) \in [Addr -> Val]
    BY <2>1 DEF Stored, TypeOK
  <2>3. cnt' \in [Counters -> 0 .. CounterMod - 1]
    BY <1>10, CountedType DEF WriteReturn, TypeOK
  <2> QED
    BY <1>10, <2>2, <2>3 DEF WriteReturn, TypeOK, CallOK
<1>11. CASE FlushCall
  <2>1. Associativity * SetCount \in Nat
    BY GeometryAssumption
  <2> QED
    BY <1>11, <2>1 DEF FlushCall, TypeOK, CallOK
<1>12. CASE FlushLine
  <2>1. PICK way \in Ways, row \in Rows :
             /\ op' = [pc |-> "flush", pos |-> op.pos + 1]
             /\ op.pos + 1 \in 0 .. Associativity * SetCount
             /\ dt[way][row] \in Line
             /\ IF dt[way][row].valid
                THEN /\ mem' = KickedMem(way, row)
                     /\ dt' = [dt EXCEPT ![way][row] =
                                 [dt[way][row] EXCEPT !.valid = FALSE, !.dirty = FALSE]]
                     /\ repl' = [repl EXCEPT ![row] = UpdateStats(@, way, FALSE)]
                     /\ cnt' = Counted(KickedInc(way, row))
                ELSE UNCHANGED <<dt, repl, mem, cnt>>
    BY <1>12, FlushFacts
  <2>2. CallOK'
    BY <2>1 DEF CallOK
  <2>3. CASE ~dt[way][row].valid
    BY <2>1, <2>2, <2>3 DEF TypeOK
  <2>4. CASE dt[way][row].valid
    <3> DEFINE line == [dt[way][row] EXCEPT !.valid = FALSE, !.dirty = FALSE]
    <3>1. line \in Line /\ ~line.valid
      BY <2>1 DEF Line
    <3>2. dt' \in [Ways -> [Rows -> Line]]
      <4>1. dt' = [dt EXCEPT ![way][row] = line]
        BY <2>1, <2>4
      <4> HIDE DEF line
      <4> QED
        BY <3>1, <4>1 DEF TypeOK
    <3>3. mem' \in [Addr -> Val]
      BY <2>1, <2>4, KickedType
    <3>4. repl' \in [Rows -> PolicyStates]
      <4>1. UpdateStats(repl[row], way, FALSE) \in PolicyStates
        BY PolicyAssumption DEF TypeOK
      <4>2. repl' = [repl EXCEPT ![row] = UpdateStats(repl[row], way, FALSE)]
        BY <2>1, <2>4
      <4> QED
        BY <4>1, <4>2 DEF TypeOK
    <3>5. cnt' \in [Counters -> 0 .. CounterMod - 1]
      <4> DEFINE inc == KickedInc(way, row)
      <4>1. \A c \in DOMAIN inc : inc[c] \in Nat
        BY KickedType
      <4>2. cnt' = Counted(inc)
        BY <2>1, <2>4
      <4> HIDE DEF inc
      <4> QED
        BY <4>1, <4>2, CountedType DEF TypeOK
    <3>6. UniqueBlocks'
      <4> HIDE DEF UniqueBlocks, line
      <4> QED
        BY <2>1, <2>4, <3>1, ReplacedUnique DEF TypeOK, line
    <3> QED
      BY <2>2, <3>2, <3>3, <3>4, <3>5, <3>6 DEF TypeOK
  <2> QED
    BY <2>3, <2>4
<1>13. CASE FlushReturn
  <2>1. cnt' \in [Counters -> 0 .. CounterMod - 1]
    BY <1>13, CountedType DEF FlushReturn, TypeOK
  <2> QED
    BY <1>13, <2>1 DEF FlushReturn, TypeOK, CallOK
<1> QED
  BY <1>1, <1>2, <1>3, <1>4, <1>5, <1>6, <1>7, <1>8, <1>9, <1>10, <1>11, <1>12, <1>13
     DEF Next

\* So does a restart of the machine.
LEMMA RestartTyped ==
    ASSUME TypeOK, UniqueBlocks, Restart
    PROVE  TypeOK' /\ UniqueBlocks'
<1>1. dt' \in [Ways -> [Rows -> Line]]
  <2>1. ASSUME NEW w \in Ways, NEW r \in Rows
        PROVE  [dt[w][r] EXCEPT !.valid = FALSE] \in Line
    <3>1. dt[w][r] \in Line
      BY DEF TypeOK
    <3> QED
      BY <3>1 DEF Line
  <2> QED
    BY <2>1 DEF Restart, TypeOK
<1>2. cnt' \in [Counters -> 0 .. CounterMod - 1]
  BY GeometryAssumption DEF Restart, TypeOK
<1>3. TypeOK'
  BY <1>1, <1>2, MemoryAssumption DEF Restart, TypeOK, CallOK, Span
<1>4. UniqueBlocks'
  BY GeometryAssumption DEF Restart, TypeOK, UniqueBlocks, Line
<1> QED
  BY <1>3, <1>4

(***************************************************************************)
(* Theorems                                                                *)
(***************************************************************************)
\* Every call of Cache, restarts of the machine included, keeps every variable
\* in the shape the class declares, whatever the geometry and the policies.
THEOREM TypeCorrect == SpecRestart => []TypeOK
<1>1. TypeOK /\ UniqueBlocks /\ [Next \/ Restart]_vars => TypeOK' /\ UniqueBlocks'
  <2> SUFFICES ASSUME TypeOK, UniqueBlocks, [Next \/ Restart]_vars
               PROVE  TypeOK' /\ UniqueBlocks'
    OBVIOUS
  <2>1. CASE UNCHANGED vars
    BY <2>1 DEF vars, TypeOK, CallOK, Span, UniqueBlocks
  <2> QED
    BY <2>1, NextTyped, RestartTyped
<1> QED
  BY <1>1, InitTyped, PTL DEF SpecRestart

\* access(), flush() and reset() never leave one block in two ways of its row, so
\* that find_block_index may stop on the first match.
THEOREM BlocksUnique == SpecRestart => []UniqueBlocks
<1>1. TypeOK /\ UniqueBlocks /\ [Next \/ Restart]_vars => TypeOK' /\ UniqueBlocks'
  <2> SUFFICES ASSUME TypeOK, UniqueBlocks, [Next \/ Restart]_vars
               PROVE  TypeOK' /\ UniqueBlocks'
    OBVIOUS
  <2>1. CASE UNCHANGED vars
    BY <2>1 DEF vars, TypeOK, CallOK, Span, UniqueBlocks
  <2> QED
    BY <2>1, NextTyped, RestartTyped
<1> QED
  BY <1>1, InitTyped, PTL DEF SpecRestart

\* access() and flush() clean a line when they invalidate it, so kick() never
\* writes back a line that was already dropped.  (reset() does not clean: the
\* theorem is about Spec, without restarts.)
THEOREM InvalidLinesClean == Spec => []InvalidClean
<1> DEFINE I == TypeOK /\ UniqueBlocks /\ InvalidClean
<1>1. Init => I
  <2>1. Init => InvalidClean
    BY DEF Init, EmptyLine, InvalidClean
  <2> QED
    BY <2>1, InitTyped
<1>2. I /\ [Next]_vars => I'
  <2>1. I /\ UNCHANGED vars => I'
    BY DEF vars, TypeOK, CallOK, Span, UniqueBlocks, InvalidClean
  <2> SUFFICES ASSUME TypeOK, UniqueBlocks, InvalidClean, Next
               PROVE  InvalidClean'
    BY <2>1, NextTyped
  <2>2. ASSUME NEW way \in Ways, NEW row \in Rows, NEW line,
               line.dirty => line.valid, dt' = [dt EXCEPT ![way][row] = line]
        PROVE  InvalidClean'
    <3>1. \A w \in Ways, r \in Rows :
             dt'[w][r] = IF w = way /\ r = row THEN line ELSE dt[w][r]
      BY <2>2 DEF TypeOK
    <3> QED
      BY <2>2, <3>1 DEF InvalidClean
  <2>3. CASE AccessHit
    <3>1. PICK way \in Ways :
             /\ way \in Matching(dt, CurLoc)
             /\ dt[way][CurLoc.row] \in Line
             /\ CurLoc.row \in Rows
             /\ AccessLine(way, dt[way][CurLoc.row], CurLoc)
      BY <2>3, HitFacts
    <3>2. Touched(dt[way][CurLoc.row], CurLoc).valid
      BY <3>1, TouchedKeeps DEF Matching
    <3> QED
      BY <2>2, <3>1, <3>2 DEF AccessLine
  <2>4. CASE AccessMiss
    <3>1. PICK way \in Ways :
             /\ CurLoc.row \in Rows
             /\ FilledLine(way) \in Line
             /\ AccessLine(way, FilledLine(way), CurLoc)
      BY <2>4, MissFacts
    <3>2. Touched(FilledLine(way), CurLoc).valid
      BY <3>1, TouchedKeeps DEF FilledLine
    <3> QED
      BY <2>2, <3>1, <3>2 DEF AccessLine
  <2>5. CASE FlushLine
    <3>1. PICK way \in Ways, row \in Rows :
             /\ dt[way][row] \in Line
             /\ IF dt[way][row].valid
                THEN dt' = [dt EXCEPT ![way][row] =
                              [dt[way][row] EXCEPT !.valid = FALSE, !.dirty = FALSE]]
                ELSE dt' = dt
      BY <2>5, FlushFacts
    <3> DEFINE line == [dt[way][row] EXCEPT !.valid = FALSE, !.dirty = FALSE]
    <3>2. ~line.dirty
      BY <3>1 DEF Line
    <3>3. CASE dt[way][row].valid
      <4>1. dt' = [dt EXCEPT ![way][row] = line]
        BY <3>1, <3>3
      <4> HIDE DEF line
      <4> QED
        BY <2>2, <3>2, <4>1
    <3>4. CASE ~dt[way][row].valid
      BY <3>1, <3>4 DEF InvalidClean
    <3> QED
      BY <3>3, <3>4
  <2>6. CASE dt' = dt
    BY <2>6 DEF InvalidClean
  <2>7. AccessHit \/ AccessMiss \/ FlushLine \/ dt' = dt
    BY DEF Next, ReadBypass, ReadCall, ReadInternal, WriteBypass, WriteCall,
           AccessMissNoAlloc, ReadReturn, WriteReturn, FlushCall, FlushReturn
  <2> QED
    BY <2>3, <2>4, <2>5, <2>6, <2>7
<1> QED
  BY <1>1, <1>2, PTL DEF Spec

(***************************************************************************)
(* Cache implements FlatMemory, for every geometry, write policy and       *)
(* replacement policy, as long as no block is accessed both through the    *)
(* cache and around it (Separated).                                        *)
(***************************************************************************)
L(x) == compute_location(x)

(***************************************************************************)
(* The inductive invariant, with TypeOK and UniqueBlocks                   *)
(***************************************************************************)
\* What kick() would write to memory is a valid line.
NoStaleWriteBack ==
    \A w \in Ways, row \in Rows : written_back(dt[w][row]) => dt[w][row].valid

\* CleanMatchesMemory byte by byte.  A write-back cache keeps it during a write.
CleanBytes ==
    \A x \in Addr : \A w \in Matching(dt, L(x)) :
        /\ ~written_back(dt[w][L(x).row])
        /\ WritePolicy = WP_BACK \/ ~Pending(x)
        => dt[w][L(x).row].data[L(x).off] = mem[x]

\* Byte x is in a block that some request reaches through the cache.
Cacheable(x) ==
    \E q \in Requests :
        /\ ~bypassed(q)
        /\ \E y \in Span(q, q.size) : L(y).tag = L(x).tag /\ L(y).row = L(x).row

\* Only such blocks are ever cached.
FromRequests ==
    \A x \in Addr : Matching(dt, L(x)) # {} => Cacheable(x)

\* access() runs for such a request only, and after its first block it stands at
\* the start of a block.
CallAligned ==
    op.pc = "access" =>
        /\ ~bypassed([addr |-> op.addr, size |-> op.size])
        /\ 0 < op.pos /\ op.pos < op.size => CurLoc.off = 0

\* A read has delivered what the requester sees.
ReadSoFar ==
    op.pc = "access" /\ op.type = READ =>
        \A x \in Span(op, op.pos) : op.buf[x] = View(dt, mem, x)

\* A write has reached the bytes it passed, where they are cached.
WrittenSoFar ==
    op.pc = "access" /\ op.type = WRITE =>
        \A x \in Span(op, op.pos) :
            WritePolicy = WP_BACK \/ Matching(dt, L(x)) # {}
            => View(dt, mem, x) = op.buf[x]

\* flush() has emptied the lines it passed.
FlushedSoFar ==
    op.pc = "flush" =>
        \A w \in Ways, row \in Rows :
            w * SetCount + row < op.pos => ~dt[w][row].valid

Inv ==
    /\ TypeOK
    /\ UniqueBlocks
    /\ NoStaleWriteBack
    /\ CleanBytes
    /\ FromRequests
    /\ CallAligned
    /\ ReadSoFar
    /\ WrittenSoFar
    /\ FlushedSoFar

(***************************************************************************)
(* Views                                                                   *)
(***************************************************************************)
\* An address and its location determine each other.
LEMMA Location ==
    ASSUME NEW x \in Addr
    PROVE  /\ L(x).tag \in Tags /\ L(x).row \in Rows /\ L(x).off \in Cols
           /\ x = Base(L(x).tag, L(x).row) + L(x).off
           /\ x \in Int
BY LocationInverse, AddrConvex DEF L

\* The cached copy is what the requester sees ...
LEMMA ViewHeld ==
    ASSUME NEW d, Unique(d), NEW m, NEW x \in Addr, NEW w \in Matching(d, L(x))
    PROVE  View(d, m, x) = d[w][L(x).row].data[L(x).off]
<1>1. w \in Ways /\ find_block_index(d, L(x)) = w
  BY Location, FindsMatch
<1> QED
  BY <1>1 DEF View, L

\* ... and else the memory.
LEMMA ViewMem ==
    ASSUME NEW d, NEW m, NEW x, Matching(d, L(x)) = {}
    PROVE  View(d, m, x) = m[x]
BY DEF View, L

\* The block of a line, byte by byte.
LEMMA BlockBytesOf ==
    ASSUME NEW x \in Addr, NEW tag \in Tags, NEW row \in Rows
    PROVE  /\ x \in BlockSpan(tag, row) <=> (L(x).tag = tag /\ L(x).row = row)
           /\ L(x).tag = tag /\ L(x).row = row => x - Base(tag, row) = L(x).off
<1> DEFINE B == Base(tag, row)
<1>1. B \in Int
  <2>1. tag * SetCount + row \in Int
    BY GeometryAssumption DEF Tags, Rows
  <2>2. \A p, q, k \in Int : p * q * k \in Int
    OBVIOUS
  <2> QED
    BY <2>1, <2>2, GeometryAssumption DEF Base, calc_base_address
<1> HIDE DEF B
<1>2. ASSUME L(x).tag = tag, L(x).row = row
      PROVE  x - B = L(x).off /\ x \in BlockSpan(tag, row)
  <2>1. x = B + L(x).off /\ L(x).off \in Cols
    BY <1>2, Location DEF B
  <2> QED
    BY <1>1, <2>1, Sizes DEF BlockSpan, Cols, B
<1>3. ASSUME x \in BlockSpan(tag, row)
      PROVE  L(x).tag = tag /\ L(x).row = row
  <2>1. x - B \in Cols /\ x = B + (x - B)
    BY <1>1, <1>3, Sizes, Location DEF BlockSpan, Cols, B
  <2>2. L(B + (x - B)) = [tag |-> tag, row |-> row, off |-> x - B]
    BY <2>1, LocationOfBlock DEF L, B
  <2> QED
    BY <2>1, <2>2
<1> QED
  BY <1>2, <1>3 DEF B

\* kick() writes the evicted block back, or nothing.
LEMMA KickedAt ==
    ASSUME TypeOK, NEW way \in Ways, NEW row \in Rows, NEW x \in Addr
    PROVE  KickedMem(way, row)[x] =
             IF /\ written_back(dt[way][row])
                /\ L(x).tag = dt[way][row].tag
                /\ L(x).row = row
             THEN dt[way][row].data[L(x).off]
             ELSE mem[x]
<1>1. dt[way][row].tag \in Tags
  BY DEF TypeOK, Line
<1>2. /\ x \in BlockSpan(dt[way][row].tag, row)
            <=> (L(x).tag = dt[way][row].tag /\ L(x).row = row)
      /\ L(x).tag = dt[way][row].tag /\ L(x).row = row
            => x - Base(dt[way][row].tag, row) = L(x).off
  BY <1>1, BlockBytesOf
<1> QED
  BY <1>2 DEF KickedMem, Stored

\* Two ways of a row do not hold the same byte.
LEMMA OneHolder ==
    ASSUME UniqueBlocks, NEW x \in Addr,
           NEW v \in Matching(dt, L(x)), NEW w \in Matching(dt, L(x))
    PROVE  v = w
BY Location DEF UniqueBlocks, Matching

\* The bytes a write puts into the line of the current block.
LEMMA TouchedAt ==
    ASSUME TypeOK, op.pc = "access", op.pos < op.size, NEW line \in Line,
           NEW x \in Addr, L(x).tag = CurLoc.tag, L(x).row = CurLoc.row
    PROVE  Touched(line, CurLoc).data[L(x).off] =
             IF op.type = WRITE /\ x \in CurSpan THEN op.buf[x]
             ELSE line.data[L(x).off]
<1>1. L(x).off \in Cols /\ x = Base(CurLoc.tag, CurLoc.row) + L(x).off
  BY Location
<1>2. op.type \in {READ, WRITE}
  BY CallAccess DEF TypeOK
<1>3. CASE op.type = READ
  BY <1>3 DEF Touched, READ, WRITE
<1>4. CASE op.type = WRITE
  BY <1>1, <1>4 DEF Touched, Line, READ, WRITE
<1> QED
  BY <1>2, <1>3, <1>4

\* Whether the bytes of the current block are accessed.
LEMMA SpanInBlock ==
    ASSUME TypeOK, op.pc = "access", op.pos < op.size, NEW x \in CurSpan
    PROVE  /\ x \in Addr /\ x \in Span(op, op.size)
           /\ L(x).tag = CurLoc.tag /\ L(x).row = CurLoc.row
           /\ x - Base(CurLoc.tag, CurLoc.row) = L(x).off
<1>1. x \in Span(op, op.size)
      /\ compute_location(x) = [tag |-> CurLoc.tag, row |-> CurLoc.row,
                                off |-> x - Base(CurLoc.tag, CurLoc.row)]
  BY CurBlock DEF TypeOK
<1>2. Span(op, op.size) \subseteq Addr
  BY CallAccess DEF TypeOK
<1> QED
  BY <1>1, <1>2 DEF L

(***************************************************************************)
(* What the steps that change lines do to the view                         *)
(***************************************************************************)
\* An access to a cached block changes the view where it writes, and nowhere else.
LEMMA HitView ==
    ASSUME TypeOK, UniqueBlocks, AccessHit, NEW x \in Addr
    PROVE  /\ Matching(dt', L(x)) = Matching(dt, L(x))
           /\ x \in CurSpan => Matching(dt, L(x)) # {}
           /\ View(dt', mem', x) =
                IF op.type = WRITE /\ x \in CurSpan THEN op.buf[x] ELSE View(dt, mem, x)
<1>1. op.pc = "access" /\ op.pos < op.size /\ mem' = mem
  BY DEF AccessHit
<1>2. PICK way \in Ways :
             /\ way \in Matching(dt, CurLoc)
             /\ dt[way][CurLoc.row] \in Line
             /\ CurLoc.row \in Rows
             /\ AccessLine(way, dt[way][CurLoc.row], CurLoc)
  BY HitFacts
<1> DEFINE row == CurLoc.row
           line == Touched(dt[way][row], CurLoc)
<1>3. line.valid = dt[way][row].valid /\ line.tag = dt[way][row].tag
  BY <1>2, TouchedKeeps
<1>4. \A w \in Ways, r \in Rows :
         dt'[w][r] = IF w = way /\ r = row THEN line ELSE dt[w][r]
  BY <1>2 DEF AccessLine, TypeOK
<1> HIDE DEF line
<1>5. L(x).row \in Rows
  BY Location
<1>6. Matching(dt', L(x)) = Matching(dt, L(x))
  BY <1>3, <1>4, <1>5 DEF Matching
<1>7. Unique(dt) /\ Unique(dt')
  <2>1. UniqueBlocks'
    BY NextTyped DEF Next
  <2> QED
    BY <2>1 DEF UniqueBlocks, Unique
<1>8. x \in CurSpan => L(x).tag = CurLoc.tag /\ L(x).row = row
  BY <1>1, SpanInBlock
<1>9. CASE L(x).tag = CurLoc.tag /\ L(x).row = row
  <2>1. way \in Matching(dt, L(x)) /\ way \in Matching(dt', L(x))
    BY <1>2, <1>6, <1>9 DEF Matching
  <2>2. View(dt, mem, x) = dt[way][row].data[L(x).off]
    BY <1>7, <1>9, <2>1, ViewHeld
  <2>3. View(dt', mem', x) = line.data[L(x).off]
    BY <1>2, <1>4, <1>7, <1>9, <2>1, ViewHeld
  <2>4. line.data[L(x).off] =
          IF op.type = WRITE /\ x \in CurSpan THEN op.buf[x] ELSE dt[way][row].data[L(x).off]
    BY <1>1, <1>2, <1>9, TouchedAt DEF line
  <2> QED
    BY <1>6, <2>1, <2>2, <2>3, <2>4
<1>10. CASE ~(L(x).tag = CurLoc.tag /\ L(x).row = row)
  <2>1. x \notin CurSpan
    BY <1>8, <1>10
  <2>2. CASE Matching(dt, L(x)) = {}
    BY <1>1, <1>6, <2>1, <2>2, ViewMem
  <2>3. ASSUME NEW w \in Matching(dt, L(x))
        PROVE  View(dt', mem', x) = View(dt, mem, x)
    <3>1. dt'[w][L(x).row] = dt[w][L(x).row]
      BY <1>2, <1>4, <1>5, <1>10, <2>3 DEF Matching
    <3>2. View(dt, mem, x) = dt[w][L(x).row].data[L(x).off]
      BY <1>7, ViewHeld
    <3>3. View(dt', mem', x) = dt'[w][L(x).row].data[L(x).off]
      BY <1>6, <1>7, ViewHeld
    <3> QED
      BY <3>1, <3>2, <3>3
  <2> QED
    BY <1>6, <2>1, <2>2, <2>3
<1> QED
  BY <1>9, <1>10

\* The line that kick() leaves, or that a fill puts in its place, hides at most
\* bytes the memory has as well.
LEMMA KickView ==
    ASSUME TypeOK, UniqueBlocks, Unique(dt'), NoStaleWriteBack, CleanBytes,
           NEW way \in Ways, NEW row \in Rows, NEW line \in Line, NEW x \in Addr,
           dt' = [dt EXCEPT ![way][row] = line],
           mem' = KickedMem(way, row),
           ~(line.valid /\ L(x).tag = line.tag /\ L(x).row = row)
    PROVE  /\ Matching(dt', L(x)) \subseteq Matching(dt, L(x))
           /\ \/ WritePolicy = WP_BACK
              \/ ~Pending(x)
              \/ Matching(dt', L(x)) # {}
              => View(dt', mem', x) = View(dt, mem, x)
<1>1. \A w \in Ways, r \in Rows :
         dt'[w][r] = IF w = way /\ r = row THEN line ELSE dt[w][r]
  BY DEF TypeOK
<1>2. L(x).row \in Rows
  BY Location
<1>3. ASSUME NEW w \in Matching(dt', L(x))
      PROVE  w \in Matching(dt, L(x)) /\ dt'[w][L(x).row] = dt[w][L(x).row]
  BY <1>1, <1>2, <1>3 DEF Matching
<1>4. Unique(dt)
  BY DEF UniqueBlocks, Unique
<1>5. ASSUME NEW w \in Matching(dt', L(x))
      PROVE  View(dt', mem', x) = View(dt, mem, x)
  <2>1. w \in Matching(dt, L(x)) /\ dt'[w][L(x).row] = dt[w][L(x).row]
    BY <1>3
  <2>2. View(dt, mem, x) = dt[w][L(x).row].data[L(x).off]
    BY <1>4, <2>1, ViewHeld
  <2>3. View(dt', mem', x) = dt'[w][L(x).row].data[L(x).off]
    BY ViewHeld, ZenonT(40)
  <2> QED
    BY <2>1, <2>2, <2>3
<1>6. ASSUME Matching(dt', L(x)) = {}, WritePolicy = WP_BACK \/ ~Pending(x)
      PROVE  View(dt', mem', x) = View(dt, mem, x)
  <2>1. View(dt', mem', x) = KickedMem(way, row)[x]
    BY <1>6, ViewMem, ZenonT(40)
  <2>2. KickedMem(way, row)[x] =
             IF /\ written_back(dt[way][row])
                /\ L(x).tag = dt[way][row].tag
                /\ L(x).row = row
             THEN dt[way][row].data[L(x).off]
             ELSE mem[x]
    BY KickedAt
  <2>3. CASE Matching(dt, L(x)) = {}
    <3>1. View(dt, mem, x) = mem[x]
      BY <2>3, ViewMem
    <3>2. ~(/\ written_back(dt[way][row])
            /\ L(x).tag = dt[way][row].tag
            /\ L(x).row = row)
      BY <2>3 DEF NoStaleWriteBack, Matching
    <3> QED
      BY <2>1, <2>2, <3>1, <3>2
  <2>4. ASSUME NEW w \in Matching(dt, L(x))
        PROVE  View(dt', mem', x) = View(dt, mem, x)
    <3>1. w = way /\ L(x).row = row /\ dt[way][row].tag = L(x).tag
      BY <1>1, <1>2, <1>6, <2>4 DEF Matching
    <3>2. View(dt, mem, x) = dt[way][row].data[L(x).off]
      BY <1>4, <3>1, ViewHeld
    <3>3. ~written_back(dt[way][row]) => dt[way][row].data[L(x).off] = mem[x]
      BY <1>6, <3>1 DEF CleanBytes
    <3> QED
      BY <2>1, <2>2, <3>1, <3>2, <3>3
  <2> QED
    BY <2>3, <2>4
<1> QED
  BY <1>3, <1>5, <1>6

\* A miss changes the view where it writes.  Elsewhere it does not, except that a
\* write-through cache may drop a block that the write has not yet sent to memory.
LEMMA MissView ==
    ASSUME TypeOK, UniqueBlocks, NoStaleWriteBack, CleanBytes, AccessMiss, NEW x \in Addr
    PROVE  /\ L(x).tag = CurLoc.tag /\ L(x).row = CurLoc.row
              => /\ Matching(dt, L(x)) = {} /\ Matching(dt', L(x)) # {}
                 /\ View(dt', mem', x) = IF op.type = WRITE /\ x \in CurSpan
                                         THEN op.buf[x] ELSE View(dt, mem, x)
           /\ ~(L(x).tag = CurLoc.tag /\ L(x).row = CurLoc.row)
              => /\ Matching(dt', L(x)) \subseteq Matching(dt, L(x))
                 /\ \/ WritePolicy = WP_BACK
                    \/ ~Pending(x)
                    \/ Matching(dt', L(x)) # {}
                    => View(dt', mem', x) = View(dt, mem, x)
<1>1. op.pc = "access" /\ op.pos < op.size
  BY DEF AccessMiss
<1>2. PICK way \in Ways :
             /\ Matching(dt, CurLoc) = {}
             /\ CurLoc.row \in Rows /\ CurLoc.tag \in Tags
             /\ FilledLine(way) \in Line
             /\ mem' = KickedMem(way, CurLoc.row)
             /\ AccessLine(way, FilledLine(way), CurLoc)
  BY MissFacts
<1> DEFINE row == CurLoc.row
           line == Touched(FilledLine(way), CurLoc)
<1>3. line \in Line /\ line.valid /\ line.tag = CurLoc.tag
  BY <1>1, <1>2, AccessLineType, TouchedKeeps DEF FilledLine
<1>4. dt' = [dt EXCEPT ![way][row] = line]
  BY <1>2 DEF AccessLine
<1> HIDE DEF line
<1>5. Unique(dt) /\ Unique(dt')
  <2>1. UniqueBlocks'
    BY NextTyped DEF Next
  <2> QED
    BY <2>1 DEF UniqueBlocks, Unique
<1>6. CASE L(x).tag = CurLoc.tag /\ L(x).row = row
  <2>1. Matching(dt, L(x)) = {}
    BY <1>2, <1>6 DEF Matching
  <2>2. dt'[way][row] = line
    BY <1>2, <1>4 DEF TypeOK
  <2>3. way \in Matching(dt', L(x))
    BY <1>3, <1>6, <2>2 DEF Matching
  <2>4. View(dt', mem', x) = line.data[L(x).off]
    BY <1>5, <1>6, <2>2, <2>3, ViewHeld
  <2>5. line.data[L(x).off] = IF op.type = WRITE /\ x \in CurSpan
                              THEN op.buf[x] ELSE FilledLine(way).data[L(x).off]
    BY <1>1, <1>2, <1>6, TouchedAt DEF line
  <2>6. FilledLine(way).data[L(x).off] = KickedMem(way, row)[x]
    <3>1. x = Base(CurLoc.tag, CurLoc.row) + L(x).off /\ L(x).off \in Cols
      BY <1>6, Location
    <3> QED
      BY <3>1 DEF FilledLine
  <2>7. KickedMem(way, row)[x] = mem[x]
    <3>1. ~(/\ written_back(dt[way][row])
            /\ L(x).tag = dt[way][row].tag
            /\ L(x).row = row)
      BY <1>2, <2>1 DEF NoStaleWriteBack, Matching
    <3> QED
      BY <1>2, <3>1, KickedAt
  <2>8. View(dt, mem, x) = mem[x]
    BY <2>1, ViewMem
  <2> QED
    BY <1>6, <2>1, <2>3, <2>4, <2>5, <2>6, <2>7, <2>8
<1>7. CASE ~(L(x).tag = CurLoc.tag /\ L(x).row = row)
  <2>1. ~(line.valid /\ L(x).tag = line.tag /\ L(x).row = row)
    BY <1>3, <1>7
  <2> QED
    BY <1>2, <1>3, <1>4, <1>5, <1>7, <2>1, KickView
<1> QED
  BY <1>6, <1>7

(***************************************************************************)
(* The call moves from block to block                                      *)
(***************************************************************************)
\* Blocks start at multiples of their size.
LEMMA BaseMultiple ==
    ASSUME NEW tag \in Tags, NEW row \in Rows
    PROVE  \E k \in Nat : Base(tag, row) = k * BlockBytes
<1>1. tag \in Nat /\ row \in Nat
  BY DEF Tags, Rows
<1>2. tag * SetCount + row \in Nat
  <2>1. tag * SetCount \in Nat
    BY <1>1, GeometryAssumption
  <2> QED
    BY <1>1, <2>1
<1>3. \A k \in Nat : k * BlockSize * BLOCK_ITEM_SIZE = k * BlockBytes
  BY GeometryAssumption DEF BlockBytes
<1> QED
  BY <1>2, <1>3 DEF Base, calc_base_address

\* The byte after a block starts the next one.
LEMMA NextBlock ==
    ASSUME NEW tag \in Tags, NEW row \in Rows, Base(tag, row) + BlockBytes \in Addr
    PROVE  L(Base(tag, row) + BlockBytes).off = 0
<1> DEFINE a == Base(tag, row) + BlockBytes
<1>1. a \in Addr
  OBVIOUS
<1>2. PICK k \in Nat : Base(tag, row) = k * BlockBytes
  BY BaseMultiple
<1>3. /\ L(a).tag \in Tags /\ L(a).row \in Rows /\ L(a).off \in Cols
      /\ a = Base(L(a).tag, L(a).row) + L(a).off
  BY <1>1, Location
<1>4. PICK j \in Nat : Base(L(a).tag, L(a).row) = j * BlockBytes
  BY <1>3, BaseMultiple
<1>5. a = (k + 1) * BlockBytes + 0
  BY <1>2, Sizes
<1>6. a = j * BlockBytes + L(a).off
  BY <1>3, <1>4
<1> DEFINE o == L(a).off
           n == k + 1
           z == 0
           S == BlockBytes
<1>7. a \in Nat
  BY <1>1, AddrConvex
<1>8. n \in Nat /\ S \in Nat \ {0} /\ z \in 0 .. S - 1
  BY Sizes
<1>9. o \in 0 .. S - 1
  BY <1>3 DEF Cols
<1>10. a = n * S + z
  BY <1>5
<1>11. a = j * S + o
  BY <1>6
<1> HIDE DEF a, o, n, z, S
<1>12. a % S = z
  BY <1>7, <1>8, <1>10, DivUnique
<1>13. a % S = o
  BY <1>7, <1>8, <1>9, <1>11, DivUnique
<1> QED
  BY <1>12, <1>13 DEF a, o, z

\* The step to the next block.
LEMMA CallMoves ==
    ASSUME TypeOK, CallAligned, op.pc = "access", op.pos < op.size, NEW b,
           op' = [op EXCEPT !.pos = @ + CurSize, !.buf = b]
    PROVE  /\ op' = [pc |-> "access", type |-> op.type, addr |-> op.addr,
                     size |-> op.size, pos |-> op.pos + CurSize, buf |-> b]
           /\ op'.pos = op.pos + CurSize
           /\ \A n : Span(op', n) = Span(op, n)
           /\ \A x : Pending(x)' <=> Pending(x)
           /\ \A x \in Span(op, op.pos + CurSize) : x \in Span(op, op.pos) \/ x \in CurSpan
           /\ CallAligned'
<1>1. /\ op = [pc |-> "access", type |-> op.type, addr |-> op.addr,
               size |-> op.size, pos |-> op.pos, buf |-> op.buf]
      /\ op.addr \in Nat /\ op.size \in Nat \ {0} /\ op.pos \in 0 .. op.size
      /\ Span(op, op.size) \subseteq Addr
  BY CallAccess DEF TypeOK
<1>2. /\ CurLoc.tag \in Tags /\ CurLoc.row \in Rows /\ CurLoc.off \in Cols
      /\ Base(CurLoc.tag, CurLoc.row) \in Int
      /\ op.addr + op.pos = Base(CurLoc.tag, CurLoc.row) + CurLoc.off
      /\ CurSize \in Nat \ {0}
      /\ op.pos + CurSize \in 0 .. op.size
      /\ op.pos + CurSize = op.size \/ CurLoc.off + CurSize = BlockBytes
  BY CurBlock DEF TypeOK
<1>3. op' = [pc |-> "access", type |-> op.type, addr |-> op.addr, size |-> op.size,
             pos |-> op.pos + CurSize, buf |-> b]
  BY <1>1
<1>4. \A n : Span(op', n) = Span(op, n)
  BY <1>3 DEF Span
<1>5. \A x : Pending(x)' <=> Pending(x)
  BY <1>1, <1>3 DEF Pending, Span
<1>6. \A x \in Span(op, op.pos + CurSize) : x \in Span(op, op.pos) \/ x \in CurSpan
  BY <1>1, <1>2 DEF Span, CurSpan
<1>7. ASSUME op'.pos < op'.size
      PROVE  CurLoc'.off = 0
  <2>1. op'.addr + op'.pos = Base(CurLoc.tag, CurLoc.row) + BlockBytes
    BY <1>1, <1>2, <1>3, <1>7, Sizes DEF Cols
  <2>2. op'.addr + op'.pos \in Addr
    <3>1. op.addr + (op.pos + CurSize) \in Span(op, op.size)
      BY <1>1, <1>2, <1>3, <1>7 DEF Span
    <3> QED
      BY <1>1, <1>3, <3>1
  <2>3. CurLoc' = L(op'.addr + op'.pos)
    BY DEF CurLoc, L
  <2> QED
    BY <1>2, <2>1, <2>2, <2>3, NextBlock
<1>8. CallAligned'
  BY <1>1, <1>3, <1>7 DEF CallAligned, bypassed, is_in_uncached_area
<1> QED
  BY <1>3, <1>4, <1>5, <1>6, <1>8

\* The bytes accessed before are in other blocks.
LEMMA DoneElsewhere ==
    ASSUME TypeOK, CallAligned, op.pc = "access", op.pos < op.size,
           NEW x \in Span(op, op.pos)
    PROVE  /\ x \in Addr
           /\ ~(L(x).tag = CurLoc.tag /\ L(x).row = CurLoc.row)
           /\ x \notin CurSpan
<1>1. /\ op.addr \in Nat /\ op.size \in Nat \ {0} /\ op.pos \in 0 .. op.size
      /\ Span(op, op.size) \subseteq Addr
  BY CallAccess DEF TypeOK
<1>2. x \in Addr /\ x \in Int /\ 0 < op.pos /\ x < op.addr + op.pos
  BY <1>1 DEF Span
<1>3. /\ CurLoc.tag \in Tags /\ CurLoc.row \in Rows
      /\ Base(CurLoc.tag, CurLoc.row) \in Int
      /\ op.addr + op.pos = Base(CurLoc.tag, CurLoc.row) + CurLoc.off
      /\ CurLoc.off = 0
  BY <1>2, CurBlock DEF TypeOK, CallAligned
<1>4. x \notin BlockSpan(CurLoc.tag, CurLoc.row)
  BY <1>2, <1>3 DEF BlockSpan
<1>5. ~(L(x).tag = CurLoc.tag /\ L(x).row = CurLoc.row)
  BY <1>2, <1>3, <1>4, BlockBytesOf
<1> QED
  BY <1>2, <1>5, SpanInBlock

\* The bytes a read has after the current block.
LEMMA DeliveredAt ==
    ASSUME TypeOK, op.pc = "access", op.pos < op.size, op.type = READ, NEW line,
           NEW x \in Span(op, op.pos + CurSize)
    PROVE  Delivered(line, CurLoc)[x] =
             IF x \in CurSpan THEN line.data[L(x).off] ELSE op.buf[x]
<1>1. x \in CurSpan => x - Base(CurLoc.tag, CurLoc.row) = L(x).off
  BY SpanInBlock
<1> QED
  BY <1>1 DEF Delivered, READ, WRITE

(***************************************************************************)
(* The invariant is inductive                                              *)
(***************************************************************************)
\* access() of a cached block keeps the invariant.
LEMMA HitInv ==
    ASSUME Inv, AccessHit
    PROVE  Inv'
<1>1. TypeOK' /\ UniqueBlocks'
  BY NextTyped DEF Inv, Next
<1>2. /\ TypeOK /\ UniqueBlocks /\ NoStaleWriteBack /\ CleanBytes /\ CallAligned
      /\ Unique(dt) /\ Unique(dt')
  BY <1>1 DEF Inv, UniqueBlocks, Unique
<1>3. op.pc = "access" /\ op.pos < op.size /\ mem' = mem
  BY DEF AccessHit
<1>4. PICK way \in Ways :
             /\ way \in Matching(dt, CurLoc)
             /\ dt[way][CurLoc.row] \in Line
             /\ CurLoc.row \in Rows
             /\ AccessLine(way, dt[way][CurLoc.row], CurLoc)
  BY <1>2, HitFacts
<1> DEFINE row == CurLoc.row
           old == dt[way][row]
           line == Touched(old, CurLoc)
<1>5. /\ line.valid /\ line.tag = old.tag /\ old.valid /\ old.tag = CurLoc.tag
      /\ written_back(old) => written_back(line)
      /\ op.type = WRITE => line.dirty
  BY <1>4, TouchedKeeps DEF Touched, Line, Matching, written_back, READ, WRITE
<1>6. \A w \in Ways, r \in Rows :
         dt'[w][r] = IF w = way /\ r = row THEN line ELSE dt[w][r]
  BY <1>2, <1>4 DEF AccessLine, TypeOK
<1>7. /\ op' = [pc |-> "access", type |-> op.type, addr |-> op.addr, size |-> op.size,
                pos |-> op.pos + CurSize, buf |-> Delivered(old, CurLoc)]
      /\ \A n : Span(op', n) = Span(op, n)
      /\ \A x : Pending(x)' <=> Pending(x)
      /\ \A x \in Span(op, op.pos + CurSize) : x \in Span(op, op.pos) \/ x \in CurSpan
      /\ CallAligned'
  <2>1. op' = [op EXCEPT !.pos = @ + CurSize, !.buf = Delivered(old, CurLoc)]
    BY <1>4 DEF AccessLine
  <2> HIDE DEF old
  <2> QED
    BY <1>2, <1>3, <2>1, CallMoves
<1> HIDE DEF line, old
<1>8. ASSUME NEW x \in Addr
      PROVE  /\ L(x).row \in Rows
             /\ Matching(dt', L(x)) = Matching(dt, L(x))
             /\ x \in CurSpan => Matching(dt, L(x)) # {}
             /\ View(dt', mem', x) =
                  IF op.type = WRITE /\ x \in CurSpan THEN op.buf[x] ELSE View(dt, mem, x)
  BY <1>2, HitView, Location
<1>9. NoStaleWriteBack'
  BY <1>2, <1>5, <1>6 DEF NoStaleWriteBack
<1>10. CleanBytes'
  <2> SUFFICES ASSUME NEW x \in Addr, NEW w \in Matching(dt', L(x)),
                      ~written_back(dt'[w][L(x).row]),
                      WritePolicy = WP_BACK \/ ~Pending(x)'
               PROVE  dt'[w][L(x).row].data[L(x).off] = mem'[x]
    BY DEF CleanBytes
  <2>1. w \in Matching(dt, L(x)) /\ w \in Ways
    BY <1>8 DEF Matching
  <2>2. /\ dt'[w][L(x).row].data[L(x).off] = View(dt', mem', x)
        /\ dt[w][L(x).row].data[L(x).off] = View(dt, mem, x)
    BY <1>2, <2>1, ViewHeld
  <2>3. ~(op.type = WRITE /\ x \in CurSpan)
    <3> SUFFICES ASSUME op.type = WRITE, x \in CurSpan PROVE FALSE
      OBVIOUS
    <3>1. Pending(x)
      BY <1>2, <1>3, SpanInBlock DEF Pending
    <3>2. WritePolicy = WP_BACK
      BY <1>7, <3>1
    <3>3. L(x).tag = CurLoc.tag /\ L(x).row = row
      BY <1>2, <1>3, SpanInBlock
    <3>4. w = way
      BY <1>2, <1>4, <2>1, <3>3 DEF Unique, Matching
    <3>5. dt'[w][L(x).row] = line
      BY <1>4, <1>6, <3>3, <3>4
    <3> QED
      BY <1>5, <3>2, <3>5 DEF written_back
  <2>4. ~written_back(dt[w][L(x).row])
    BY <1>5, <1>6, <1>8, <2>1 DEF old
  <2>5. dt[w][L(x).row].data[L(x).off] = mem[x]
    BY <1>2, <1>7, <2>1, <2>4 DEF CleanBytes
  <2> QED
    BY <1>3, <1>8, <2>2, <2>3, <2>5
<1>11. FromRequests'
  BY <1>8 DEF Inv, FromRequests, Cacheable, Span
<1>12. ReadSoFar'
  <2> SUFFICES ASSUME op.type = READ, NEW x \in Span(op, op.pos + CurSize)
               PROVE  op'.buf[x] = View(dt', mem', x)
    BY <1>7 DEF ReadSoFar
  <2>1. op'.buf[x] = IF x \in CurSpan THEN old.data[L(x).off] ELSE op.buf[x]
    BY <1>2, <1>3, <1>7, DeliveredAt
  <2>2. CASE x \in CurSpan
    <3>1. x \in Addr /\ L(x).tag = CurLoc.tag /\ L(x).row = row
      BY <1>2, <1>3, <2>2, SpanInBlock
    <3>2. way \in Matching(dt, L(x))
      BY <1>4, <3>1 DEF Matching
    <3>3. View(dt, mem, x) = old.data[L(x).off]
      BY <1>2, <3>1, <3>2, ViewHeld DEF old
    <3>4. op.type # WRITE
      BY DEF READ, WRITE
    <3> QED
      BY <1>8, <2>1, <2>2, <3>1, <3>3, <3>4
  <2>3. CASE x \notin CurSpan
    <3>1. x \in Span(op, op.pos)
      BY <1>7, <2>3
    <3>2. x \in Addr
      BY <1>2, <1>3, <3>1, DoneElsewhere
    <3>3. op.buf[x] = View(dt, mem, x)
      BY <1>3, <3>1 DEF Inv, ReadSoFar
    <3> QED
      BY <1>8, <2>1, <2>3, <3>2, <3>3
  <2> QED
    BY <2>2, <2>3
<1>13. WrittenSoFar'
  <2> SUFFICES ASSUME op.type = WRITE, NEW x \in Span(op, op.pos + CurSize),
                      WritePolicy = WP_BACK \/ Matching(dt', L(x)) # {}
               PROVE  View(dt', mem', x) = op'.buf[x]
    BY <1>7 DEF WrittenSoFar
  <2>1. op'.buf = op.buf
    BY <1>7 DEF Delivered
  <2>2. CASE x \in CurSpan
    BY <1>2, <1>3, <1>8, <2>1, <2>2, SpanInBlock
  <2>3. CASE x \notin CurSpan
    <3>1. x \in Span(op, op.pos)
      BY <1>7, <2>3
    <3>2. x \in Addr
      BY <1>2, <1>3, <3>1, DoneElsewhere
    <3>3. View(dt, mem, x) = op.buf[x]
      BY <1>3, <1>8, <3>1, <3>2 DEF Inv, WrittenSoFar
    <3> QED
      BY <1>8, <2>1, <2>3, <3>2, <3>3
  <2> QED
    BY <2>2, <2>3
<1>14. FlushedSoFar'
  BY <1>7 DEF FlushedSoFar
<1> QED
  BY <1>1, <1>7, <1>9, <1>10, <1>11, <1>12, <1>13, <1>14 DEF Inv

\* kick() changes no byte of memory that a remaining line has a copy of.
LEMMA KickClean ==
    ASSUME TypeOK, UniqueBlocks, NoStaleWriteBack, CleanBytes,
           NEW way \in Ways, NEW row \in Rows, NEW line \in Line, NEW x \in Addr,
           dt' = [dt EXCEPT ![way][row] = line],
           mem' = KickedMem(way, row),
           ~(line.valid /\ L(x).tag = line.tag /\ L(x).row = row),
           NEW w \in Matching(dt', L(x)),
           ~written_back(dt'[w][L(x).row]),
           WritePolicy = WP_BACK \/ ~Pending(x)
    PROVE  dt'[w][L(x).row].data[L(x).off] = mem'[x]
<1>1. \A v \in Ways, r \in Rows :
         dt'[v][r] = IF v = way /\ r = row THEN line ELSE dt[v][r]
  BY DEF TypeOK
<1>2. L(x).row \in Rows
  BY Location
<1>3. /\ w \in Matching(dt, L(x)) /\ dt'[w][L(x).row] = dt[w][L(x).row]
      /\ ~(w = way /\ L(x).row = row)
  BY <1>1, <1>2 DEF Matching
<1>4. dt[w][L(x).row].data[L(x).off] = mem[x]
  BY <1>3 DEF CleanBytes
<1>5. ~(/\ written_back(dt[way][row])
        /\ L(x).tag = dt[way][row].tag
        /\ L(x).row = row)
  BY <1>3, OneHolder DEF NoStaleWriteBack, Matching
<1>6. mem'[x] = mem[x]
  BY <1>5, KickedAt
<1> QED
  BY <1>3, <1>4, <1>6

\* access() that evicts and fills keeps the invariant.
LEMMA MissInv ==
    ASSUME Inv, AccessMiss
    PROVE  Inv'
<1>1. TypeOK' /\ UniqueBlocks'
  BY NextTyped DEF Inv, Next
<1>2. /\ TypeOK /\ UniqueBlocks /\ NoStaleWriteBack /\ CleanBytes /\ CallAligned
      /\ Unique(dt) /\ Unique(dt')
  BY <1>1 DEF Inv, UniqueBlocks, Unique
<1>3. op.pc = "access" /\ op.pos < op.size
  BY DEF AccessMiss
<1>4. PICK way \in Ways :
             /\ Matching(dt, CurLoc) = {}
             /\ CurLoc.row \in Rows /\ CurLoc.tag \in Tags
             /\ FilledLine(way) \in Line
             /\ mem' = KickedMem(way, CurLoc.row)
             /\ AccessLine(way, FilledLine(way), CurLoc)
  BY <1>2, MissFacts
<1> DEFINE row == CurLoc.row
           new == FilledLine(way)
           line == Touched(new, CurLoc)
<1>5. /\ line \in Line /\ line.valid /\ line.tag = CurLoc.tag
      /\ op.type = WRITE => line.dirty
  <2>1. line \in Line
    BY <1>2, <1>3, <1>4, AccessLineType
  <2>2. op.type = WRITE => line.dirty
    BY <1>4 DEF Touched, Line, READ, WRITE
  <2> QED
    BY <1>4, <2>1, <2>2, TouchedKeeps DEF FilledLine
<1>6. dt' = [dt EXCEPT ![way][row] = line]
  BY <1>4 DEF AccessLine
<1>7. /\ op' = [pc |-> "access", type |-> op.type, addr |-> op.addr, size |-> op.size,
                pos |-> op.pos + CurSize, buf |-> Delivered(new, CurLoc)]
      /\ \A n : Span(op', n) = Span(op, n)
      /\ \A x : Pending(x)' <=> Pending(x)
      /\ \A x \in Span(op, op.pos + CurSize) : x \in Span(op, op.pos) \/ x \in CurSpan
      /\ CallAligned'
  <2>1. op' = [op EXCEPT !.pos = @ + CurSize, !.buf = Delivered(new, CurLoc)]
    BY <1>4 DEF AccessLine
  <2> HIDE DEF new
  <2> QED
    BY <1>2, <1>3, <2>1, CallMoves
<1> DEFINE InBlock(x) == L(x).tag = CurLoc.tag /\ L(x).row = CurLoc.row
<1> HIDE DEF line, new
<1>8. ASSUME NEW x \in Addr
      PROVE  /\ L(x).row \in Rows
             /\ InBlock(x)
                => /\ Matching(dt, L(x)) = {} /\ Matching(dt', L(x)) # {}
                   /\ View(dt', mem', x) = IF op.type = WRITE /\ x \in CurSpan
                                           THEN op.buf[x] ELSE View(dt, mem, x)
             /\ ~InBlock(x)
                => /\ Matching(dt', L(x)) \subseteq Matching(dt, L(x))
                   /\ \/ WritePolicy = WP_BACK
                      \/ ~Pending(x)
                      \/ Matching(dt', L(x)) # {}
                      => View(dt', mem', x) = View(dt, mem, x)
  BY <1>2, MissView, Location
<1>9. \A w \in Ways, r \in Rows :
         dt'[w][r] = IF w = way /\ r = row THEN line ELSE dt[w][r]
  BY <1>2, <1>4, <1>6 DEF TypeOK
<1>10. NoStaleWriteBack'
  BY <1>2, <1>5, <1>9 DEF NoStaleWriteBack
<1>11. CleanBytes'
  <2> SUFFICES ASSUME NEW x \in Addr, NEW w \in Matching(dt', L(x)),
                      ~written_back(dt'[w][L(x).row]),
                      WritePolicy = WP_BACK \/ ~Pending(x)'
               PROVE  dt'[w][L(x).row].data[L(x).off] = mem'[x]
    BY DEF CleanBytes
  <2>1. CASE ~InBlock(x)
    <3>1. ~(line.valid /\ L(x).tag = line.tag /\ L(x).row = row)
      BY <1>5, <2>1
    <3> QED
      BY <1>2, <1>4, <1>5, <1>6, <1>7, <3>1, KickClean
  <2>2. CASE InBlock(x)
    <3>1. way \in Matching(dt', L(x))
      BY <1>4, <1>5, <1>9, <2>2 DEF Matching
    <3>2. w = way
      BY <1>2, <1>8, <3>1 DEF Unique, Matching
    <3>3. ~(op.type = WRITE /\ x \in CurSpan)
      <4> SUFFICES ASSUME op.type = WRITE, x \in CurSpan PROVE FALSE
        OBVIOUS
      <4>1. Pending(x)
        BY <1>2, <1>3, SpanInBlock DEF Pending
      <4>2. WritePolicy = WP_BACK
        BY <1>7, <4>1
      <4>3. dt'[w][L(x).row] = line
        BY <1>4, <1>9, <2>2, <3>2
      <4> QED
        BY <1>5, <4>2, <4>3 DEF written_back
    <3>4. dt'[w][L(x).row].data[L(x).off] = View(dt', mem', x)
      BY <1>2, ViewHeld
    <3>5. View(dt', mem', x) = mem[x]
      BY <1>8, <2>2, <3>3, ViewMem
    <3>6. mem'[x] = mem[x]
      <4>1. ~(/\ written_back(dt[way][row])
              /\ L(x).tag = dt[way][row].tag
              /\ L(x).row = row)
        BY <1>2, <1>4, <1>8, <2>2 DEF NoStaleWriteBack, Matching
      <4> QED
        BY <1>2, <1>4, <4>1, KickedAt
    <3> QED
      BY <3>4, <3>5, <3>6
  <2> QED
    BY <2>1, <2>2
<1>12. FromRequests'
  <2> SUFFICES ASSUME NEW x \in Addr, Matching(dt', L(x)) # {}
               PROVE  Cacheable(x)
    BY DEF FromRequests, Cacheable, Span
  <2>1. CASE ~InBlock(x)
    BY <1>8, <2>1 DEF Inv, FromRequests
  <2>2. CASE InBlock(x)
    <3> DEFINE q == [addr |-> op.addr, size |-> op.size]
               y == op.addr + op.pos
    <3>1. q \in Requests /\ ~bypassed(q)
      BY <1>2, <1>3, CallAccess DEF TypeOK, CallAligned
    <3>2. y \in Span(q, q.size)
      BY <1>2, <1>3, CallAccess DEF TypeOK, Span
    <3>3. L(y).tag = L(x).tag /\ L(y).row = L(x).row
      BY <2>2 DEF L, CurLoc
    <3> HIDE DEF q, y
    <3> QED
      BY <3>1, <3>2, <3>3 DEF Cacheable
  <2> QED
    BY <2>1, <2>2
<1>13. ReadSoFar'
  <2> SUFFICES ASSUME op.type = READ, NEW x \in Span(op, op.pos + CurSize)
               PROVE  op'.buf[x] = View(dt', mem', x)
    BY <1>7 DEF ReadSoFar
  <2>1. op'.buf[x] = IF x \in CurSpan THEN new.data[L(x).off] ELSE op.buf[x]
    BY <1>2, <1>3, <1>7, DeliveredAt
  <2>2. CASE x \in CurSpan
    <3>1. x \in Addr /\ InBlock(x)
      BY <1>2, <1>3, <2>2, SpanInBlock
    <3>2. way \in Matching(dt', L(x))
      BY <1>4, <1>5, <1>9, <3>1 DEF Matching
    <3>3. View(dt', mem', x) = line.data[L(x).off]
      BY <1>2, <1>4, <1>9, <3>1, <3>2, ViewHeld
    <3>4. line = new
      BY DEF line, Touched
    <3> QED
      BY <2>1, <2>2, <3>3, <3>4
  <2>3. CASE x \notin CurSpan
    <3>1. x \in Span(op, op.pos)
      BY <1>7, <2>3
    <3>2. x \in Addr /\ ~InBlock(x)
      BY <1>2, <1>3, <3>1, DoneElsewhere
    <3>3. op.buf[x] = View(dt, mem, x)
      BY <1>3, <3>1 DEF Inv, ReadSoFar
    <3>4. ~Pending(x)
      BY DEF Pending, READ, WRITE
    <3> QED
      BY <1>8, <2>1, <2>3, <3>2, <3>3, <3>4
  <2> QED
    BY <2>2, <2>3
<1>14. WrittenSoFar'
  <2> SUFFICES ASSUME op.type = WRITE, NEW x \in Span(op, op.pos + CurSize),
                      WritePolicy = WP_BACK \/ Matching(dt', L(x)) # {}
               PROVE  View(dt', mem', x) = op'.buf[x]
    BY <1>7 DEF WrittenSoFar
  <2>1. op'.buf = op.buf
    BY <1>7 DEF Delivered
  <2>2. CASE x \in CurSpan
    BY <1>2, <1>3, <1>8, <2>1, <2>2, SpanInBlock
  <2>3. CASE x \notin CurSpan
    <3>1. x \in Span(op, op.pos)
      BY <1>7, <2>3
    <3>2. x \in Addr /\ ~InBlock(x)
      BY <1>2, <1>3, <3>1, DoneElsewhere
    <3>3. View(dt, mem, x) = op.buf[x]
      BY <1>3, <1>8, <3>1, <3>2 DEF Inv, WrittenSoFar
    <3> QED
      BY <1>8, <2>1, <2>3, <3>2, <3>3
  <2> QED
    BY <2>2, <2>3
<1>15. FlushedSoFar'
  BY <1>7 DEF FlushedSoFar
<1> QED
  BY <1>1, <1>7, <1>10, <1>11, <1>12, <1>13, <1>14, <1>15 DEF Inv

\* Steps that change neither lines nor memory.
LEMMA QuietInv ==
    ASSUME Inv, UNCHANGED <<dt, mem>>,
           \A x \in Addr : Pending(x) => WritePolicy = WP_BACK \/ Pending(x)'
    PROVE  NoStaleWriteBack' /\ CleanBytes' /\ FromRequests'
<1>1. NoStaleWriteBack'
  BY DEF Inv, NoStaleWriteBack
<1>2. FromRequests'
  BY DEF Inv, FromRequests, Cacheable, Span
<1>3. CleanBytes'
  BY DEF Inv, CleanBytes
<1> QED
  BY <1>1, <1>2, <1>3

\* A write that passes by the cache keeps the invariant.
LEMMA NoAllocInv ==
    ASSUME Inv, AccessMissNoAlloc
    PROVE  Inv'
<1>1. TypeOK' /\ UniqueBlocks'
  BY NextTyped DEF Inv, Next
<1>2. TypeOK /\ CallAligned
  BY DEF Inv
<1>3. /\ op.pc = "access" /\ op.pos < op.size /\ op.type = WRITE
      /\ WritePolicy # WP_BACK /\ Matching(dt, CurLoc) = {}
      /\ dt' = dt /\ mem' = mem
      /\ op' = [op EXCEPT !.pos = @ + CurSize, !.buf = op.buf]
  BY <1>2, CallAccess
     DEF AccessMissNoAlloc, TypeOK, WP_BACK, WP_THROUGH_NOALLOC
<1>4. /\ op' = [pc |-> "access", type |-> op.type, addr |-> op.addr, size |-> op.size,
                pos |-> op.pos + CurSize, buf |-> op.buf]
      /\ \A n : Span(op', n) = Span(op, n)
      /\ \A x : Pending(x)' <=> Pending(x)
      /\ \A x \in Span(op, op.pos + CurSize) : x \in Span(op, op.pos) \/ x \in CurSpan
      /\ CallAligned'
  BY <1>2, <1>3, CallMoves
<1>5. NoStaleWriteBack' /\ CleanBytes' /\ FromRequests'
  BY <1>3, <1>4, QuietInv
<1>6. WrittenSoFar'
  <2> SUFFICES ASSUME NEW x \in Span(op, op.pos + CurSize), Matching(dt, L(x)) # {}
               PROVE  View(dt, mem, x) = op.buf[x]
    BY <1>3, <1>4 DEF WrittenSoFar
  <2>1. x \notin CurSpan
    <3> SUFFICES ASSUME x \in CurSpan PROVE FALSE
      OBVIOUS
    <3>1. L(x).tag = CurLoc.tag /\ L(x).row = CurLoc.row
      BY <1>2, <1>3, SpanInBlock
    <3> QED
      BY <1>3, <3>1 DEF Matching
  <2> QED
    BY <1>3, <1>4, <2>1 DEF Inv, WrittenSoFar
<1>7. ReadSoFar' /\ FlushedSoFar'
  BY <1>3, <1>4 DEF ReadSoFar, FlushedSoFar, READ, WRITE
<1> QED
  BY <1>1, <1>4, <1>5, <1>6, <1>7 DEF Inv

\* The write to memory that ends write() reaches every copy.
LEMMA WriteReturnInv ==
    ASSUME Inv, WriteReturn
    PROVE  Inv'
<1>1. TypeOK' /\ UniqueBlocks'
  BY NextTyped DEF Inv, Next
<1>2. TypeOK /\ UniqueBlocks /\ Unique(dt)
  BY DEF Inv, UniqueBlocks, Unique
<1>3. op.pc = "access" /\ op.pos = op.size /\ op.type = WRITE /\ op' = Idle /\ dt' = dt
  BY DEF WriteReturn
<1>4. op.buf \in [Span(op, op.size) -> Val]
  BY <1>2, <1>3, CallAccess DEF TypeOK, READ, WRITE
<1>5. NoStaleWriteBack' /\ FromRequests'
  BY <1>3 DEF Inv, NoStaleWriteBack, FromRequests, Cacheable, Span
<1>6. CleanBytes'
  <2> SUFFICES ASSUME NEW x \in Addr, NEW w \in Matching(dt, L(x)),
                      ~written_back(dt[w][L(x).row])
               PROVE  dt[w][L(x).row].data[L(x).off] = mem'[x]
    BY <1>3 DEF CleanBytes
  <2>1. CASE WritePolicy = WP_BACK
    BY <2>1 DEF WriteReturn, Inv, CleanBytes
  <2>2. CASE WritePolicy # WP_BACK
    <3>1. mem'[x] = IF x \in Span(op, op.size) THEN op.buf[x] ELSE mem[x]
      BY <1>4, <2>2 DEF WriteReturn, Stored
    <3>2. CASE x \in Span(op, op.size)
      <4>1. View(dt, mem, x) = op.buf[x]
        BY <1>3, <3>2 DEF Inv, WrittenSoFar
      <4> QED
        BY <1>2, <3>1, <3>2, <4>1, ViewHeld
    <3>3. CASE x \notin Span(op, op.size)
      <4>1. ~Pending(x)
        BY <3>3 DEF Pending
      <4> QED
        BY <3>1, <3>3, <4>1 DEF Inv, CleanBytes
    <3> QED
      BY <3>2, <3>3
  <2> QED
    BY <2>1, <2>2
<1>7. CallAligned' /\ ReadSoFar' /\ WrittenSoFar' /\ FlushedSoFar'
  BY <1>3 DEF CallAligned, ReadSoFar, WrittenSoFar, FlushedSoFar, Idle
<1> QED
  BY <1>1, <1>5, <1>6, <1>7 DEF Inv

\* A turn of flush() changes no byte of the view.
LEMMA FlushInv ==
    ASSUME Inv, FlushLine
    PROVE  /\ Inv'
           /\ \A x \in Addr : View(dt', mem', x) = View(dt, mem, x)
<1>1. TypeOK' /\ UniqueBlocks'
  BY NextTyped DEF Inv, Next
<1>2. /\ TypeOK /\ UniqueBlocks /\ NoStaleWriteBack /\ CleanBytes
      /\ Unique(dt) /\ Unique(dt')
  BY <1>1 DEF Inv, UniqueBlocks, Unique
<1>3. PICK way \in Ways, row \in Rows :
             /\ op.pos = way * SetCount + row
             /\ op' = [pc |-> "flush", pos |-> op.pos + 1]
             /\ dt[way][row] \in Line
             /\ IF dt[way][row].valid
                THEN /\ mem' = KickedMem(way, row)
                     /\ dt' = [dt EXCEPT ![way][row] =
                                 [dt[way][row] EXCEPT !.valid = FALSE, !.dirty = FALSE]]
                ELSE dt' = dt /\ mem' = mem
  BY <1>2, FlushFacts
<1>4. op.pc = "flush"
  BY DEF FlushLine
<1>5. CallAligned' /\ ReadSoFar' /\ WrittenSoFar'
  BY <1>3 DEF CallAligned, ReadSoFar, WrittenSoFar
<1>6. \A x : ~Pending(x) /\ ~Pending(x)'
  BY <1>3, <1>4 DEF Pending
\* The line flush() stands at is the only one it passes.
<1>7. ASSUME NEW w \in Ways, NEW r \in Rows, w * SetCount + r < op.pos + 1
      PROVE  (w = way /\ r = row) \/ w * SetCount + r < op.pos
  <2> SUFFICES ASSUME w * SetCount + r = op.pos
               PROVE  w = way /\ r = row
    <3>1. w * SetCount + r \in Int /\ op.pos \in Int
      <4>1. w * SetCount \in Int /\ way * SetCount \in Int
        BY GeometryAssumption DEF Ways
      <4> QED
        BY <1>3, <4>1 DEF Rows
    <3> QED
      BY <1>7, <3>1
  <2>1. /\ w \in Nat /\ way \in Nat /\ SetCount \in Nat \ {0}
        /\ r \in 0 .. SetCount - 1 /\ row \in 0 .. SetCount - 1
    BY GeometryAssumption DEF Ways, Rows
  <2>2. w * SetCount + r = way * SetCount + row
    BY <1>3
  <2> QED
    BY <2>1, <2>2, PairUnique
<1>8. CASE ~dt[way][row].valid
  <2>1. dt' = dt /\ mem' = mem
    BY <1>3, <1>8
  <2>2. NoStaleWriteBack' /\ CleanBytes' /\ FromRequests'
    BY <1>6, <2>1, QuietInv
  <2>3. FlushedSoFar'
    BY <1>3, <1>4, <1>7, <1>8, <2>1 DEF Inv, FlushedSoFar
  <2> QED
    BY <1>1, <1>5, <2>1, <2>2, <2>3 DEF Inv
<1>9. CASE dt[way][row].valid
  <2> DEFINE line == [dt[way][row] EXCEPT !.valid = FALSE, !.dirty = FALSE]
  <2>1. line \in Line /\ ~line.valid /\ ~line.dirty
    BY <1>3 DEF Line
  <2>2. mem' = KickedMem(way, row) /\ dt' = [dt EXCEPT ![way][row] = line]
    BY <1>3, <1>9
  <2> HIDE DEF line
  <2>3. \A w \in Ways, r \in Rows :
           dt'[w][r] = IF w = way /\ r = row THEN line ELSE dt[w][r]
    BY <1>2, <2>2 DEF TypeOK
  <2>4. ASSUME NEW x \in Addr
        PROVE  /\ Matching(dt', L(x)) \subseteq Matching(dt, L(x))
               /\ View(dt', mem', x) = View(dt, mem, x)
    BY <1>2, <1>6, <2>1, <2>2, KickView
  <2>5. NoStaleWriteBack'
    BY <1>2, <2>1, <2>3 DEF NoStaleWriteBack, written_back
  <2>6. FromRequests'
    <3> SUFFICES ASSUME NEW x \in Addr, Matching(dt', L(x)) # {}
                 PROVE  Cacheable(x)
      BY DEF FromRequests, Cacheable, Span
    <3> QED
      BY <2>4 DEF Inv, FromRequests
  <2>7. CleanBytes'
    <3> SUFFICES ASSUME NEW x \in Addr, NEW w \in Matching(dt', L(x)),
                        ~written_back(dt'[w][L(x).row])
                 PROVE  dt'[w][L(x).row].data[L(x).off] = mem'[x]
      BY DEF CleanBytes
    <3> QED
      BY <1>2, <1>6, <2>1, <2>2, KickClean
  <2>8. FlushedSoFar'
    BY <1>3, <1>4, <1>7, <2>1, <2>3 DEF Inv, FlushedSoFar
  <2> QED
    BY <1>1, <1>5, <2>4, <2>5, <2>6, <2>7, <2>8 DEF Inv
<1> QED
  BY <1>8, <1>9

(***************************************************************************)
(* Accesses around the cache                                               *)
(***************************************************************************)
\* No byte of a request that bypasses the cache is cached.
LEMMA BypassUncached ==
    ASSUME Inv, Separated, NEW r \in Requests, bypassed(r), NEW x \in Span(r, r.size)
    PROVE  x \in Addr /\ Matching(dt, L(x)) = {}
<1>1. x \in Addr
  <2>1. /\ r.addr \in Addr /\ r.addr + r.size - 1 \in Addr
        /\ r.addr \in Nat /\ r.size \in Nat
    BY RequestAssumption, AddrConvex
  <2>2. x \in Int /\ r.addr <= x /\ x <= r.addr + r.size - 1
    BY <2>1 DEF Span
  <2> QED
    BY <2>1, <2>2, AddrConvex
<1>2. ~Cacheable(x)
  <2> SUFFICES ASSUME Cacheable(x) PROVE FALSE
    OBVIOUS
  <2>1. PICK q \in Requests : ~bypassed(q) /\
           \E y \in Span(q, q.size) : L(y).tag = L(x).tag /\ L(y).row = L(x).row
    BY DEF Cacheable
  <2>2. PICK y \in Span(q, q.size) : L(y).tag = L(x).tag /\ L(y).row = L(x).row
    BY <2>1
  <2>3. [tag |-> L(x).tag, row |-> L(x).row] \in Blocks(r) \cap Blocks(q)
    BY <2>2 DEF Blocks, L
  <2> QED
    BY <2>1, <2>3 DEF Separated
<1> QED
  BY <1>1, <1>2 DEF Inv, FromRequests

\* A write around the cache reaches memory and no cached byte.
LEMMA WriteBypassInv ==
    ASSUME Inv, Separated, NEW r \in Requests,
           NEW buf \in [Span(r, r.size) -> Val], WriteBypass(r, buf)
    PROVE  /\ Inv'
           /\ \A x \in Addr : View(dt', mem', x) =
                                IF x \in Span(r, r.size) THEN buf[x] ELSE View(dt, mem, x)
<1>1. TypeOK' /\ UniqueBlocks'
  BY NextTyped DEF Inv, Next
<1>2. op = Idle /\ op' = op /\ dt' = dt /\ bypassed(r) /\ mem' = Stored(mem, buf)
  BY DEF WriteBypass
<1>3. \A x \in Addr : mem'[x] = IF x \in Span(r, r.size) THEN buf[x] ELSE mem[x]
  BY <1>2 DEF Stored
<1>4. \A x \in Span(r, r.size) : x \in Addr /\ Matching(dt, L(x)) = {}
  BY <1>2, BypassUncached
<1>5. NoStaleWriteBack' /\ FromRequests'
  BY <1>2 DEF Inv, NoStaleWriteBack, FromRequests, Cacheable, Span
<1>6. CleanBytes'
  <2> SUFFICES ASSUME NEW x \in Addr, NEW w \in Matching(dt, L(x)),
                      ~written_back(dt[w][L(x).row])
               PROVE  dt[w][L(x).row].data[L(x).off] = mem'[x]
    BY <1>2 DEF CleanBytes
  <2>1. x \notin Span(r, r.size)
    BY <1>4
  <2>2. ~Pending(x)
    BY <1>2 DEF Pending, Idle
  <2> QED
    BY <1>3, <2>1, <2>2 DEF Inv, CleanBytes
<1>7. CallAligned' /\ ReadSoFar' /\ WrittenSoFar' /\ FlushedSoFar'
  BY <1>2 DEF CallAligned, ReadSoFar, WrittenSoFar, FlushedSoFar, Idle
<1>8. ASSUME NEW x \in Addr
      PROVE  View(dt', mem', x) = IF x \in Span(r, r.size) THEN buf[x] ELSE View(dt, mem, x)
  <2>1. CASE Matching(dt, L(x)) = {}
    BY <1>2, <1>3, <2>1, ViewMem
  <2>2. CASE Matching(dt, L(x)) # {}
    BY <1>2, <1>4, <2>2 DEF View, L
  <2> QED
    BY <2>1, <2>2
<1> QED
  BY <1>1, <1>5, <1>6, <1>7, <1>8 DEF Inv

(***************************************************************************)
(* Every step keeps the invariant and is a step of the flat memory         *)
(***************************************************************************)
\* The constructor establishes the invariant, and the view is the loaded memory.
LEMMA InitInv == Init => Inv /\ Flat!Init
<1> SUFFICES ASSUME Init PROVE Inv /\ Flat!Init
  OBVIOUS
<1>1. TypeOK /\ UniqueBlocks
  BY InitTyped
<1>2. \A w \in Ways, row \in Rows : ~dt[w][row].valid /\ ~dt[w][row].dirty
  BY DEF Init, EmptyLine
<1>3. \A x \in Addr : Matching(dt, L(x)) = {}
  BY <1>2, Location DEF Matching
<1>4. op.pc = "idle"
  BY DEF Init, Idle
<1>5. NoStaleWriteBack /\ CleanBytes /\ FromRequests
  BY <1>2, <1>3 DEF NoStaleWriteBack, written_back, CleanBytes, FromRequests
<1>6. CallAligned /\ ReadSoFar /\ WrittenSoFar /\ FlushedSoFar
  BY <1>4 DEF CallAligned, ReadSoFar, WrittenSoFar, FlushedSoFar
<1>7. \A x \in Addr : ~Pending(x) /\ View(dt, mem, x) = InitMem[x]
  BY <1>3, <1>4, ViewMem DEF Init, Pending
<1>8. FlatMem = InitMem
  BY <1>7, MemoryAssumption DEF FlatMem
<1> QED
  BY <1>1, <1>4, <1>5, <1>6, <1>8 DEF Inv, Init, Flat!Init, FlatCall, Flat!Idle

\* Steps that leave the pending bytes and the view of the others alone.
LEMMA SameFlat ==
    ASSUME \A x \in Addr : /\ Pending(x)' <=> Pending(x)
                           /\ Pending(x) => op'.buf[x] = op.buf[x]
                           /\ ~Pending(x) => View(dt', mem', x) = View(dt, mem, x)
    PROVE  FlatMem' = FlatMem
BY DEF FlatMem

\* While no call runs the requester sees the view.
LEMMA IdleFlat ==
    ASSUME op.pc # "access", NEW x \in Addr
    PROVE  ~Pending(x) /\ FlatMem[x] = View(dt, mem, x)
BY DEF FlatMem, Pending

\* The bytes of a request are addresses.
LEMMA RequestBytes ==
    ASSUME NEW r \in Requests
    PROVE  /\ Span(r, r.size) \subseteq Addr
           /\ Flat!Bytes(r) = Span(r, r.size)
           /\ r = [addr |-> r.addr, size |-> r.size]
<1>1. /\ r.addr \in Addr /\ r.addr + r.size - 1 \in Addr
      /\ r.addr \in Nat /\ r.size \in Nat
      /\ r = [addr |-> r.addr, size |-> r.size]
  BY RequestAssumption, AddrConvex
<1>2. \A x \in Span(r, r.size) : x \in Int /\ r.addr <= x /\ x <= r.addr + r.size - 1
  BY <1>1 DEF Span
<1> QED
  BY <1>1, <1>2, AddrConvex DEF Span, Flat!Bytes

\* The steps of access() for one block.
LEMMA AccessStep ==
    ASSUME Inv, AccessHit \/ AccessMiss \/ AccessMissNoAlloc
    PROVE  /\ Inv'
           /\ UNCHANGED <<FlatMem, ret, FlatCall>>
<1>1. Inv'
  BY HitInv, MissInv, NoAllocInv
<1>2. /\ TypeOK /\ UniqueBlocks /\ NoStaleWriteBack /\ CleanBytes /\ CallAligned
  BY DEF Inv
<1>3. op.pc = "access" /\ op.pos < op.size /\ ret' = ret
  BY DEF AccessHit, AccessMiss, AccessMissNoAlloc
<1>4. \E b : /\ op' = [op EXCEPT !.pos = @ + CurSize, !.buf = b]
             /\ op.type = WRITE => b = op.buf
  <2>1. CASE AccessHit
    BY <2>1 DEF AccessHit, AccessLine, Delivered
  <2>2. CASE AccessMiss
    BY <1>2, <2>2, MissFacts DEF AccessLine, Delivered
  <2>3. CASE AccessMissNoAlloc
    <3>1. op' = [op EXCEPT !.pos = @ + CurSize, !.buf = op.buf]
      BY <1>2, <1>3, <2>3, CallAccess DEF AccessMissNoAlloc, TypeOK
    <3> QED
      BY <3>1
  <2> QED
    BY <2>1, <2>2, <2>3
<1>5. PICK b : /\ op' = [op EXCEPT !.pos = @ + CurSize, !.buf = b]
               /\ op.type = WRITE => b = op.buf
  BY <1>4
<1>6. /\ op'.buf = b
      /\ \A x : Pending(x)' <=> Pending(x)
  BY <1>2, <1>3, <1>5, CallMoves
<1>7. ASSUME NEW x \in Addr, Pending(x)
      PROVE  op'.buf[x] = op.buf[x]
  BY <1>5, <1>6, <1>7 DEF Pending
<1>8. ASSUME NEW x \in Addr, ~Pending(x)
      PROVE  View(dt', mem', x) = View(dt, mem, x)
  <2>1. ~(op.type = WRITE /\ x \in CurSpan)
    BY <1>2, <1>3, <1>8, SpanInBlock DEF Pending
  <2>2. CASE AccessHit
    BY <1>2, <2>1, <2>2, HitView
  <2>3. CASE AccessMiss
    BY <1>2, <1>8, <2>1, <2>3, MissView
  <2>4. CASE AccessMissNoAlloc
    BY <2>4 DEF AccessMissNoAlloc
  <2> QED
    BY <2>2, <2>3, <2>4
<1>9. FlatMem' = FlatMem
  BY <1>6, <1>7, <1>8, SameFlat
<1>10. FlatCall' = FlatCall
  <2>1. op' = [pc |-> "access", type |-> op.type, addr |-> op.addr, size |-> op.size,
               pos |-> op.pos + CurSize, buf |-> b]
    BY <1>2, <1>3, <1>5, CallMoves
  <2> QED
    BY <1>3, <2>1 DEF FlatCall
<1> QED
  BY <1>1, <1>3, <1>9, <1>10

\* Every step of a call keeps the invariant and maps to a step or a stutter of FlatMemory.
LEMMA NextStep ==
    ASSUME Inv, Separated, Next
    PROVE  Inv' /\ [Flat!Next]_<<FlatMem, ret, FlatCall>>
<1>1. TypeOK' /\ UniqueBlocks'
  BY NextTyped DEF Inv
<1>2. TypeOK /\ UniqueBlocks /\ Unique(dt)
  BY DEF Inv, UniqueBlocks, Unique
<1> DEFINE Quiet == NoStaleWriteBack' /\ CleanBytes' /\ FromRequests'
           Call == CallAligned' /\ ReadSoFar' /\ WrittenSoFar' /\ FlushedSoFar'
<1>3. ASSUME NEW r \in Requests, ReadBypass(r)
      PROVE  Inv' /\ Flat!Read(r)
  <2>1. op = Idle /\ op' = op /\ dt' = dt /\ mem' = mem /\ bypassed(r)
        /\ ret' = [x \in Span(r, r.size) |-> mem[x]]
    BY <1>3 DEF ReadBypass
  <2>2. op.pc = "idle"
    BY <2>1 DEF Idle
  <2>3. Quiet
    BY <2>1, <2>2, QuietInv DEF Pending
  <2>4. Call
    BY <2>1, <2>2 DEF CallAligned, ReadSoFar, WrittenSoFar, FlushedSoFar
  <2>5. FlatMem' = FlatMem
    BY <2>1, <2>2, SameFlat DEF Pending
  <2>6. \A x \in Span(r, r.size) : FlatMem[x] = mem[x]
    BY <2>1, <2>2, BypassUncached, IdleFlat, ViewMem
  <2>7. FlatCall = Flat!Idle /\ FlatCall' = FlatCall
    BY <2>1, <2>2 DEF FlatCall, Flat!Idle
  <2> QED
    BY <1>1, <2>1, <2>3, <2>4, <2>5, <2>6, <2>7, RequestBytes
       DEF Inv, Flat!Read, Flat!Delivered
<1>4. ASSUME NEW r \in Requests, ReadInternal(r)
      PROVE  Inv' /\ Flat!Read(r)
  <2> DEFINE loc == L(r.addr)
  <2>1. op = Idle /\ op' = op /\ dt' = dt /\ mem' = mem /\ loc.off + r.size <= BlockBytes
        /\ ret' = [x \in Span(r, r.size) |->
                      IF Matching(dt, loc) # {}
                      THEN dt[find_block_index(dt, loc)][loc.row].data[loc.off + x - r.addr]
                      ELSE mem[x]]
    BY <1>4 DEF ReadInternal, L
  <2>2. op.pc = "idle"
    BY <2>1 DEF Idle
  <2>3. Quiet
    BY <2>1, <2>2, QuietInv DEF Pending
  <2>4. Call
    BY <2>1, <2>2 DEF CallAligned, ReadSoFar, WrittenSoFar, FlushedSoFar
  <2>5. FlatMem' = FlatMem
    BY <2>1, <2>2, SameFlat DEF Pending
  <2>6. ASSUME NEW x \in Span(r, r.size)
        PROVE  FlatMem[x] = ret'[x]
    <3>1. x \in Addr /\ r.addr \in Addr /\ r.addr \in Nat /\ r.size \in Nat
      BY RequestBytes, RequestAssumption, AddrConvex
    <3>2. /\ loc.tag \in Tags /\ loc.row \in Rows /\ loc.off \in Cols
          /\ r.addr = Base(loc.tag, loc.row) + loc.off
      BY <3>1, Location
    <3> HIDE DEF loc
    <3>3. loc.off + x - r.addr \in Cols
      BY <2>1, <3>1, <3>2, Sizes DEF Span, Cols
    <3>4. x = Base(loc.tag, loc.row) + (loc.off + x - r.addr)
      <4>1. PICK k \in Nat : Base(loc.tag, loc.row) = k * BlockBytes
        BY <3>2, BaseMultiple
      <4>2. Base(loc.tag, loc.row) \in Int
        BY <4>1, Sizes
      <4> QED
        BY <3>1, <3>2, <4>2 DEF Span, Cols
    <3>5. L(x) = [tag |-> loc.tag, row |-> loc.row, off |-> loc.off + x - r.addr]
      BY <3>2, <3>3, <3>4, LocationOfBlock DEF L
    <3>6. Matching(dt, L(x)) = Matching(dt, loc)
      BY <3>5 DEF Matching
    <3>7. find_block_index(dt, L(x)) = find_block_index(dt, loc)
      BY <3>6 DEF find_block_index
    <3>8. FlatMem[x] = View(dt, mem, x)
      BY <2>2, <3>1, IdleFlat
    <3> QED
      BY <2>1, <3>5, <3>6, <3>7, <3>8 DEF View, L
  <2>7. ret' = [x \in Span(r, r.size) |-> FlatMem[x]]
    BY <2>1, <2>6
  <2>8. FlatCall = Flat!Idle /\ FlatCall' = FlatCall
    BY <2>1, <2>2 DEF FlatCall, Flat!Idle
  <2> QED
    BY <1>1, <2>3, <2>4, <2>5, <2>7, <2>8, RequestBytes DEF Inv, Flat!Read, Flat!Delivered
<1>5. ASSUME NEW r \in Requests, NEW buf \in [Span(r, r.size) -> Val], WriteBypass(r, buf)
      PROVE  Inv' /\ Flat!Write(r, buf)
  <2>1. op = Idle /\ op' = op /\ ret' = ret
    BY <1>5 DEF WriteBypass
  <2>2. op.pc # "access" /\ op'.pc # "access"
    BY <2>1 DEF Idle
  <2>3. /\ Inv'
        /\ \A x \in Addr : View(dt', mem', x) =
                             IF x \in Span(r, r.size) THEN buf[x] ELSE View(dt, mem, x)
    BY <1>5, WriteBypassInv
  <2>4. \A x \in Addr : FlatMem[x] = View(dt, mem, x)
    BY <2>2, IdleFlat
  <2>5. FlatMem' = [x \in Addr |-> View(dt', mem', x)]
    BY <2>2 DEF FlatMem, Pending
  <2>6. FlatMem' = [x \in Addr |-> IF x \in Span(r, r.size) THEN buf[x] ELSE FlatMem[x]]
    BY <2>3, <2>4, <2>5
  <2>7. FlatCall = Flat!Idle /\ FlatCall' = FlatCall
    BY <2>1 DEF FlatCall, Flat!Idle, Idle
  <2> QED
    BY <2>1, <2>3, <2>6, <2>7, RequestBytes DEF Flat!Write, Flat!Written
<1>6. ASSUME NEW r \in Requests, ReadCall(r)
      PROVE  Inv' /\ Flat!ReadCall(r)
  <2>1. /\ op = Idle /\ dt' = dt /\ mem' = mem /\ ret' = ret /\ ~bypassed(r)
        /\ op' = [pc |-> "access", type |-> READ, addr |-> r.addr, size |-> r.size,
                  pos |-> 0, buf |-> [x \in {} |-> 0]]
    BY <1>6 DEF ReadCall
  <2>2. \A x : ~Pending(x) /\ ~Pending(x)'
    BY <2>1 DEF Pending, Idle, READ, WRITE
  <2>3. Quiet
    BY <2>1, <2>2, QuietInv
  <2>4. Span(op', 0) = {}
    <3>1. r.addr \in Nat /\ op'.addr = r.addr
      BY <2>1, RequestAssumption, AddrConvex
    <3> QED
      BY <3>1 DEF Span
  <2>5. Call
    BY <2>1, <2>4, RequestBytes
       DEF CallAligned, ReadSoFar, WrittenSoFar, FlushedSoFar, READ, WRITE
  <2>6. FlatMem' = FlatMem
    BY <2>1, <2>2, SameFlat
  <2>7. FlatCall = Flat!Idle /\ FlatCall' = Flat!Called("READ", r)
    BY <2>1 DEF FlatCall, Flat!Idle, Flat!Called, Idle, READ
  <2> QED
    BY <1>1, <2>1, <2>3, <2>5, <2>6, <2>7 DEF Inv, Flat!ReadCall
<1>7. ASSUME NEW r \in Requests, NEW buf \in [Span(r, r.size) -> Val], WriteCall(r, buf)
      PROVE  Inv' /\ Flat!WriteCall(r, buf)
  <2>1. /\ op = Idle /\ dt' = dt /\ mem' = mem /\ ret' = ret /\ ~bypassed(r)
        /\ op' = [pc |-> "access", type |-> WRITE, addr |-> r.addr, size |-> r.size,
                  pos |-> 0, buf |-> buf]
    BY <1>7 DEF WriteCall
  <2>2. op.pc # "access"
    BY <2>1 DEF Idle
  <2>3. \A x : ~Pending(x) /\ (Pending(x)' <=> x \in Span(r, r.size))
    BY <2>1, <2>2 DEF Pending, Span
  <2>4. Quiet
    BY <2>1, <2>3, QuietInv
  <2>5. Span(op', 0) = {}
    <3>1. r.addr \in Nat /\ op'.addr = r.addr
      BY <2>1, RequestAssumption, AddrConvex
    <3> QED
      BY <3>1 DEF Span
  <2>6. Call
    BY <2>1, <2>5, RequestBytes
       DEF CallAligned, ReadSoFar, WrittenSoFar, FlushedSoFar, READ, WRITE
  <2>7. FlatMem' = [x \in Addr |-> IF x \in Span(r, r.size) THEN buf[x] ELSE FlatMem[x]]
    <3>1. \A x \in Addr : FlatMem[x] = View(dt, mem, x)
      BY <2>2, IdleFlat
    <3> QED
      BY <2>1, <2>3, <3>1 DEF FlatMem
  <2>8. FlatCall = Flat!Idle /\ FlatCall' = Flat!Called("WRITE", r)
    BY <2>1 DEF FlatCall, Flat!Idle, Flat!Called, Idle, WRITE
  <2> QED
    BY <1>1, <2>1, <2>4, <2>6, <2>7, <2>8, RequestBytes DEF Inv, Flat!WriteCall, Flat!Written
<1>8. ASSUME ReadReturn
      PROVE  Inv' /\ \E r \in Requests : Flat!ReadReturn(r)
  <2>1. /\ op.pc = "access" /\ op.pos = op.size /\ op.type = READ
        /\ op' = Idle /\ ret' = op.buf /\ dt' = dt /\ mem' = mem
    BY <1>8 DEF ReadReturn
  <2>2. \A x : ~Pending(x) /\ ~Pending(x)'
    BY <2>1 DEF Pending, Idle, READ, WRITE
  <2>3. Quiet
    BY <2>1, <2>2, QuietInv
  <2>4. Call
    BY <2>1 DEF CallAligned, ReadSoFar, WrittenSoFar, FlushedSoFar, Idle
  <2>5. FlatMem' = FlatMem
    BY <2>1, <2>2, SameFlat
  <2> DEFINE r == [addr |-> op.addr, size |-> op.size]
  <2>6. /\ r \in Requests /\ Span(op, op.size) \subseteq Addr
        /\ op.buf \in [Span(op, op.size) -> Val]
    BY <1>2, <2>1, CallAccess DEF TypeOK
  <2>7. Flat!Bytes(r) = Span(op, op.size)
    BY DEF Flat!Bytes, Span
  <2>8. \A x \in Span(op, op.size) : op.buf[x] = FlatMem[x]
    BY <2>1, <2>2, <2>6 DEF Inv, ReadSoFar, FlatMem
  <2>9. ret' = [x \in Span(op, op.size) |-> FlatMem[x]]
    BY <2>1, <2>6, <2>8
  <2>10. FlatCall = Flat!Called("READ", r) /\ FlatCall' = Flat!Idle
    BY <2>1 DEF FlatCall, Flat!Idle, Flat!Called, Idle, READ
  <2>11. Flat!ReadReturn(r)
    BY <2>5, <2>7, <2>9, <2>10 DEF Flat!ReadReturn, Flat!Delivered
  <2> QED
    BY <1>1, <2>3, <2>4, <2>6, <2>11 DEF Inv
<1>9. ASSUME WriteReturn
      PROVE  Inv' /\ \E r \in Requests : Flat!WriteReturn(r)
  <2>1. /\ op.pc = "access" /\ op.pos = op.size /\ op.type = WRITE
        /\ op' = Idle /\ dt' = dt /\ ret' = ret
    BY <1>9 DEF WriteReturn
  <2>2. op.buf \in [Span(op, op.size) -> Val]
    BY <1>2, <2>1, CallAccess DEF TypeOK, READ, WRITE
  <2>3. \A x \in Addr : mem'[x] = IF WritePolicy # WP_BACK /\ x \in Span(op, op.size)
                                  THEN op.buf[x] ELSE mem[x]
    BY <1>9, <2>2 DEF WriteReturn, Stored
  <2>4. ASSUME NEW x \in Addr
        PROVE  View(dt', mem', x) = IF Pending(x) THEN op.buf[x] ELSE View(dt, mem, x)
    <3>1. Pending(x) <=> x \in Span(op, op.size)
      BY <2>1 DEF Pending
    <3>2. Pending(x) /\ (WritePolicy = WP_BACK \/ Matching(dt, L(x)) # {})
            => View(dt, mem, x) = op.buf[x]
      BY <2>1, <3>1 DEF Inv, WrittenSoFar
    <3>3. CASE Matching(dt, L(x)) = {}
      <4>1. View(dt', mem', x) = mem'[x] /\ View(dt, mem, x) = mem[x]
        BY <2>1, <3>3, ViewMem
      <4> QED
        BY <2>3, <3>1, <3>2, <4>1
    <3>4. CASE Matching(dt, L(x)) # {}
      <4>1. View(dt', mem', x) = View(dt, mem, x)
        BY <2>1, <3>4 DEF View, L
      <4> QED
        BY <3>2, <3>4, <4>1
    <3> QED
      BY <3>3, <3>4
  <2>5. FlatMem' = FlatMem
    BY <2>1, <2>4 DEF FlatMem, Pending, Idle
  <2> DEFINE r == [addr |-> op.addr, size |-> op.size]
  <2>6. r \in Requests
    BY <1>2, <2>1, CallAccess DEF TypeOK
  <2>7. FlatCall = Flat!Called("WRITE", r) /\ FlatCall' = Flat!Idle
    BY <2>1 DEF FlatCall, Flat!Idle, Flat!Called, Idle, WRITE
  <2>8. Flat!WriteReturn(r)
    BY <2>1, <2>5, <2>7 DEF Flat!WriteReturn
  <2> QED
    BY <1>9, <2>6, <2>8, WriteReturnInv
<1>10. ASSUME FlushCall \/ FlushReturn
       PROVE  Inv' /\ Flat!Flush
  <2>1. /\ dt' = dt /\ mem' = mem /\ ret' = ret
        /\ op.pc # "access"
        /\ op' = Idle \/ op' = [pc |-> "flush", pos |-> 0]
    BY <1>10 DEF FlushCall, FlushReturn, Idle
  <2>2. op'.pc # "access"
    BY <2>1 DEF Idle
  <2>3. \A x : ~Pending(x) /\ ~Pending(x)'
    BY <2>1, <2>2 DEF Pending
  <2>4. Quiet
    BY <2>1, <2>3, QuietInv
  <2>5. FlushedSoFar'
    <3>1. \A w \in Ways, row \in Rows : ~(w * SetCount + row < 0)
      <4> SUFFICES ASSUME NEW w \in Ways, NEW row \in Rows
                   PROVE  ~(w * SetCount + row < 0)
        OBVIOUS
      <4>1. w * SetCount \in Nat /\ row \in Nat
        BY GeometryAssumption DEF Ways, Rows
      <4> QED
        BY <4>1
    <3> QED
      BY <2>1, <3>1 DEF FlushedSoFar, Idle
  <2>6. CallAligned' /\ ReadSoFar' /\ WrittenSoFar'
    BY <2>2 DEF CallAligned, ReadSoFar, WrittenSoFar
  <2>7. FlatMem' = FlatMem
    BY <2>1, <2>3, SameFlat
  <2>8. \/ FlatCall = Flat!Idle /\ FlatCall' = Flat!Flushing
        \/ FlatCall = Flat!Flushing /\ FlatCall' = Flat!Idle
    BY <1>10 DEF FlushCall, FlushReturn, FlatCall, Flat!Idle, Flat!Flushing, Idle
  <2> QED
    BY <1>1, <2>1, <2>4, <2>5, <2>6, <2>7, <2>8 DEF Inv, Flat!Flush
<1>11. ASSUME FlushLine
       PROVE  Inv' /\ UNCHANGED <<FlatMem, ret, FlatCall>>
  <2>1. /\ op.pc = "flush" /\ ret' = ret
        /\ op' = [pc |-> "flush", pos |-> op.pos + 1]
    BY <1>2, <1>11, FlushFacts DEF FlushLine
  <2>2. \A x : ~Pending(x) /\ ~Pending(x)'
    BY <2>1 DEF Pending
  <2>3. Inv' /\ \A x \in Addr : View(dt', mem', x) = View(dt, mem, x)
    BY <1>11, FlushInv
  <2>4. FlatCall' = FlatCall
    BY <2>1 DEF FlatCall
  <2> QED
    BY <2>1, <2>2, <2>3, <2>4, SameFlat
<1>12. \A r \in Requests : \A buf : buf \in [Span(r, r.size) -> Val]
          => buf \in [Flat!Bytes(r) -> Val]
  BY RequestBytes
<1> QED
  BY <1>3, <1>4, <1>5, <1>6, <1>7, <1>8, <1>9, <1>10, <1>11, <1>12, AccessStep
     DEF Next, Flat!Next

\* A restart of a write-through cache: nothing is left to write back.
LEMMA RestartStep ==
    ASSUME Inv, WritePolicy # WP_BACK, Restart
    PROVE  Inv' /\ Flat!Reload
<1>1. TypeOK' /\ UniqueBlocks'
  BY RestartTyped DEF Inv
<1>2. op = Idle /\ op' = op /\ mem' = InitMem /\ ret' = ret
  BY DEF Restart
<1>3. \A w \in Ways, row \in Rows : ~dt'[w][row].valid
  <2>1. CASE Enabled
    BY <2>1 DEF Restart, Inv, TypeOK, Line
  <2>2. CASE ~Enabled
    <3> SUFFICES ASSUME NEW w \in Ways, NEW row \in Rows, dt[w][row].valid PROVE FALSE
      BY <2>2 DEF Restart
    <3>1. dt[w][row].tag \in Tags
      BY DEF Inv, TypeOK, Line
    <3> DEFINE x == Base(dt[w][row].tag, row) + 0
    <3>2. 0 \in Cols
      BY Sizes DEF Cols
    <3>3. /\ x \in Addr
          /\ L(x) = [tag |-> dt[w][row].tag, row |-> row, off |-> 0]
      BY <3>1, <3>2, LocationOfBlock DEF L
    <3> HIDE DEF x
    <3>4. w \in Matching(dt, L(x))
      BY <3>3 DEF Matching
    <3>5. Cacheable(x)
      BY <3>3, <3>4 DEF Inv, FromRequests
    <3> QED
      BY <2>2, <3>5 DEF Cacheable, bypassed
  <2> QED
    BY <2>1, <2>2
<1>4. \A x \in Addr : Matching(dt', L(x)) = {}
  BY <1>3, Location DEF Matching
<1>5. NoStaleWriteBack' /\ CleanBytes' /\ FromRequests'
  BY <1>4 DEF NoStaleWriteBack, written_back, CleanBytes, FromRequests
<1>6. CallAligned' /\ ReadSoFar' /\ WrittenSoFar' /\ FlushedSoFar'
  BY <1>2 DEF CallAligned, ReadSoFar, WrittenSoFar, FlushedSoFar, Idle
<1>7. \A x \in Addr : ~Pending(x)' /\ View(dt', mem', x) = InitMem[x]
  BY <1>2, <1>4, ViewMem DEF Pending, Idle
<1>8. FlatMem' = InitMem
  BY <1>7, MemoryAssumption DEF FlatMem
<1> QED
  BY <1>1, <1>2, <1>5, <1>6, <1>8 DEF Inv, Flat!Reload, FlatCall, Flat!Idle, Idle

\* Stuttering maps to stuttering.
LEMMA StutterStep ==
    ASSUME Inv, UNCHANGED vars
    PROVE  Inv' /\ UNCHANGED <<FlatMem, ret, FlatCall>>
<1>1. /\ dt' = dt /\ repl' = repl /\ mem' = mem /\ cnt' = cnt /\ op' = op /\ ret' = ret
  BY DEF vars
<1>2. \A x : Pending(x)' <=> Pending(x)
  BY <1>1 DEF Pending, Span
<1>3. TypeOK' /\ UniqueBlocks'
  BY <1>1 DEF Inv, TypeOK, CallOK, Span, UniqueBlocks
<1>4. NoStaleWriteBack' /\ CleanBytes' /\ FromRequests'
  BY <1>1, <1>2, QuietInv
<1>5. CallAligned' /\ ReadSoFar' /\ WrittenSoFar' /\ FlushedSoFar'
  BY <1>1 DEF Inv, CallAligned, ReadSoFar, WrittenSoFar, FlushedSoFar, CurLoc, Span
<1>6. FlatMem' = FlatMem
  BY <1>1, <1>2, SameFlat
<1>7. FlatCall' = FlatCall
  BY <1>1 DEF FlatCall
<1> QED
  BY <1>1, <1>3, <1>4, <1>5, <1>6, <1>7 DEF Inv

(***************************************************************************)
(* Theorems                                                                *)
(***************************************************************************)
\* The invariant on which the following theorems rest, for every call sequence of
\* Cache::read, Cache::write and Cache::flush.
THEOREM InvAlways ==
    ASSUME Separated
    PROVE  Spec => []Inv
<1>1. Init => Inv
  BY InitInv
<1>2. Inv /\ [Next]_vars => Inv'
  BY NextStep, StutterStep
<1> QED
  BY <1>1, <1>2, PTL DEF Spec

\* A line that kick() would drop holds what memory holds.
THEOREM CleanCopies ==
    ASSUME Separated
    PROVE  Spec => []CleanMatchesMemory
<1>1. Inv => CleanMatchesMemory
  <2> SUFFICES ASSUME Inv, NEW w \in Ways, NEW row \in Rows, NEW c \in Cols,
                      dt[w][row].valid, ~written_back(dt[w][row]),
                      ~Pending(Base(dt[w][row].tag, row) + c)
               PROVE  dt[w][row].data[c] = mem[Base(dt[w][row].tag, row) + c]
    BY DEF CleanMatchesMemory
  <2> DEFINE x == Base(dt[w][row].tag, row) + c
  <2>1. dt[w][row].tag \in Tags
    BY DEF Inv, TypeOK, Line
  <2>2. x \in Addr /\ L(x) = [tag |-> dt[w][row].tag, row |-> row, off |-> c]
    BY <2>1, LocationOfBlock DEF L
  <2>3. ~Pending(x)
    OBVIOUS
  <2>4. SUFFICES dt[w][row].data[c] = mem[x]
    OBVIOUS
  <2> HIDE DEF x
  <2>5. w \in Matching(dt, L(x))
    BY <2>2 DEF Matching
  <2> QED
    BY <2>2, <2>3, <2>5 DEF Inv, CleanBytes
<1> QED
  BY <1>1, InvAlways, PTL

\* When flush() is done with its loop memory alone has what the requester sees.
THEOREM FlushWritesAll ==
    ASSUME Separated
    PROVE  Spec => []FlushedToMemory
<1>1. Inv => FlushedToMemory
  <2> SUFFICES ASSUME Inv, op.pc = "flush", op.pos = Associativity * SetCount
               PROVE  FlatMem = mem
    BY DEF FlushedToMemory
  <2>1. ASSUME NEW w \in Ways, NEW row \in Rows
        PROVE  ~dt[w][row].valid
    <3>1. /\ w \in Nat /\ row \in Nat /\ row < SetCount /\ w < Associativity
          /\ SetCount \in Nat /\ Associativity \in Nat
      BY GeometryAssumption DEF Ways, Rows
    <3>2. w * SetCount + SetCount <= Associativity * SetCount
      BY <3>1, MultiplesApart
    <3>3. w * SetCount \in Nat /\ Associativity * SetCount \in Nat
      BY <3>1
    <3>4. w * SetCount + row < op.pos
      BY <3>1, <3>2, <3>3
    <3> QED
      BY <3>4 DEF Inv, FlushedSoFar
  <2>2. \A x \in Addr : Matching(dt, L(x)) = {}
    BY <2>1, Location DEF Matching
  <2>3. \A x \in Addr : FlatMem[x] = mem[x]
    BY <2>2, IdleFlat, ViewMem
  <2> QED
    BY <2>3 DEF FlatMem, Inv, TypeOK
<1> QED
  BY <1>1, InvAlways, PTL

\* Cache implements FlatMemory: whatever is evicted, filled and flushed in between,
\* every read() delivers the bytes last written.
THEOREM CacheTransparent ==
    ASSUME Separated
    PROVE  Spec => Transparent
<1>1. Init => Inv /\ Flat!Init
  BY InitInv
<1>2. Inv /\ [Next]_vars => Inv' /\ [Flat!Next]_<<FlatMem, ret, FlatCall>>
  BY NextStep, StutterStep
<1> QED
  BY <1>1, <1>2, PTL DEF Spec, Transparent, Flat!Spec

\* The same for a machine that is restarted, if its cache writes through.  (Of a
\* write-back cache it is false: Cache::reset leaves the dirty bits.)
THEOREM RestartTransparent ==
    ASSUME Separated, WritePolicy # WP_BACK
    PROVE  SpecRestart => Transparent
<1>1. Init => Inv /\ Flat!Init
  BY InitInv
<1>2. Inv /\ [Next \/ Restart]_vars => Inv' /\ [Flat!Next]_<<FlatMem, ret, FlatCall>>
  BY NextStep, RestartStep, StutterStep DEF Flat!Next
<1> QED
  BY <1>1, <1>2, PTL DEF SpecRestart, Transparent, Flat!Spec
=============================================================================
