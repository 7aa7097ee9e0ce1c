-------------------------- MODULE MemoryViewProofs --------------------------
(***************************************************************************)
(* Proofs about the memory bus and the windows on it, for every size of a  *)
(* section, the display and a table, every program and every sequence of   *)
(* accesses and of the user's actions.                                     *)
(***************************************************************************)
EXTENDS MemoryView, WellFoundedInduction, TLAPS

(***************************************************************************)
(* Numbers                                                                 *)
(***************************************************************************)
\* A set of natural numbers that is not empty has a least element.
LEMMA LeastExists ==
    ASSUME NEW S \in SUBSET Nat, S # {}
    PROVE  \E i \in S : \A j \in S : i <= j
<1>1. PICK x \in S : \A y \in S : ~ (<<y, x>> \in OpToRel(<, Nat))
  BY NatLessThanWellFounded, WFMin, Zenon
<1>2. \A y \in S : ~ (y < x)
  BY <1>1 DEF OpToRel
<1> QED
  BY <1>2

\* Induction up to a bound: a set that holds 0, and with a number the next one, holds
\* every number up to the bound.
LEMMA UpTo ==
    ASSUME NEW n \in Nat, NEW S, 0 \in S, \A i \in 1 .. n : i - 1 \in S => i \in S
    PROVE  \A i \in 0 .. n : i \in S
<1> DEFINE bad == {i \in 0 .. n : i \notin S}
<1>1. SUFFICES ASSUME bad # {} PROVE FALSE
  OBVIOUS
<1>2. bad \in SUBSET Nat
  OBVIOUS
<1>3. PICK m \in bad : \A j \in bad : m <= j
  BY <1>1, <1>2, LeastExists
<1>4. m \in 1 .. n /\ m - 1 \in 0 .. n
  BY <1>3
<1>5. m - 1 \notin bad
  <2> HIDE DEF bad
  <2> QED
    BY <1>3, <1>4
<1> QED
  BY <1>3, <1>4, <1>5

\* Multiples of d are at least d apart.
LEMMA MultiplesApart ==
    ASSUME NEW a \in Nat, NEW b \in Nat, NEW d \in Nat, a < b
    PROVE  a * d + d <= b * d
<1>1. PICK k \in Nat : b = a + 1 + k
  <2>1. b - a - 1 \in Nat
    OBVIOUS
  <2>2. b = a + 1 + (b - a - 1)
    OBVIOUS
  <2> QED
    BY <2>1, <2>2
<1>2. b * d = a * d + d + k * d
  BY <1>1
<1>3. k * d \in Nat
  OBVIOUS
<1> QED
  BY <1>2, <1>3

\* The defining property of quotient and remainder.
LEMMA DivMod ==
    ASSUME NEW a \in Nat, NEW d \in Nat \ {0}
    PROVE  /\ a \div d \in Nat
           /\ a % d \in 0 .. d - 1
           /\ a = (a \div d) * d + (a % d)
OBVIOUS

\* Quotient and remainder are determined by it.
LEMMA DivUnique ==
    ASSUME NEW q \in Nat, NEW d \in Nat \ {0}, NEW r \in 0 .. d - 1, NEW a \in Nat,
           a = q * d + r
    PROVE  a \div d = q /\ a % d = r
<1>1. /\ a \div d \in Nat
      /\ a % d \in 0 .. d - 1
      /\ a = (a \div d) * d + (a % d)
  BY DivMod
<1> DEFINE p == a \div d
<1> DEFINE s == a % d
<1>2. p \in Nat /\ s \in 0 .. d - 1 /\ a = p * d + s
  BY <1>1
<1> HIDE DEF p, s
<1>3. ~(p < q)
  <2> SUFFICES ASSUME p < q PROVE FALSE
    OBVIOUS
  <2>1. p * d + d <= q * d
    BY <1>2, MultiplesApart
  <2> QED
    BY <2>1, <1>2
<1>4. ~(q < p)
  <2> SUFFICES ASSUME q < p PROVE FALSE
    OBVIOUS
  <2>1. q * d + d <= p * d
    BY <1>2, MultiplesApart
  <2> QED
    BY <2>1, <1>2
<1>5. p = q
  BY <1>2, <1>3, <1>4
<1>6. s = r
  BY <1>2, <1>5
<1> QED
  BY <1>5, <1>6 DEF p, s

(***************************************************************************)
(* Main memory                                                             *)
(***************************************************************************)
\* The byte at an address, zero where no section is allocated.
ByteAt(mem, x) == get_section(mem, Section(x))[get_section_offset_mask(x)]

IsMemory(mem) ==
    /\ DOMAIN mem \subseteq Nat
    /\ \A s \in DOMAIN mem : mem[s] \in [0 .. SectionSize - 1 -> Byte]

\* An address is its section and the offset in it.
LEMMA SectionFacts ==
    ASSUME NEW x \in Nat
    PROVE  /\ Section(x) \in Nat
           /\ get_section_offset_mask(x) \in 0 .. SectionSize - 1
           /\ \A y \in Nat : /\ Section(y) = Section(x)
                             /\ get_section_offset_mask(y) = get_section_offset_mask(x)
                             => y = x
<1>1. SectionSize \in Nat \ {0}
  BY BusAssumption
<1>2. \A y \in Nat : /\ y \div SectionSize \in Nat
                     /\ y % SectionSize \in 0 .. SectionSize - 1
                     /\ y = (y \div SectionSize) * SectionSize + (y % SectionSize)
  BY <1>1, DivMod
<1>3. ASSUME NEW y \in Nat, y \div SectionSize = x \div SectionSize,
             y % SectionSize = x % SectionSize
      PROVE  y = x
  <2>1. y = (y \div SectionSize) * SectionSize + (y % SectionSize)
    BY <1>2
  <2>2. x = (x \div SectionSize) * SectionSize + (x % SectionSize)
    BY <1>2
  <2> QED
    BY <1>3, <2>1, <2>2
<1> QED
  BY <1>2, <1>3 DEF Section, get_section_offset_mask

LEMMA SectionIsBytes ==
    ASSUME NEW mem, IsMemory(mem), NEW s
    PROVE  get_section(mem, s) \in [0 .. SectionSize - 1 -> Byte]
BY DEF IsMemory, get_section, Zero, Byte

\* A write puts its bytes at their addresses, whatever sections they are in, and leaves
\* the others.
LEMMA WrittenBytes ==
    ASSUME NEW mem, IsMemory(mem), NEW a \in Nat, NEW bytes \in Seq(Byte)
    PROVE  /\ IsMemory(memory_write(mem, a, bytes))
           /\ \A x \in Nat : ByteAt(memory_write(mem, a, bytes), x) =
                  IF x \in a .. a + Len(bytes) - 1 THEN bytes[x - a + 1] ELSE ByteAt(mem, x)
<1> DEFINE new == memory_write(mem, a, bytes)
           here(s, o) == {i \in 1 .. Len(bytes) : /\ Section(a + i - 1) = s
                                                  /\ get_section_offset_mask(a + i - 1) = o}
           sec(s) == [o \in 0 .. SectionSize - 1 |->
                         IF here(s, o) = {} THEN get_section(mem, s)[o]
                         ELSE bytes[CHOOSE i \in here(s, o) : TRUE]]
           secs == DOMAIN mem \cup Touched(a, Len(bytes))
<1>1. new = [s \in secs |-> sec(s)]
  BY DEF memory_write
<1>2. Len(bytes) \in Nat /\ \A i \in 1 .. Len(bytes) : bytes[i] \in Byte /\ a + i - 1 \in Nat
  OBVIOUS
<1>3. \A i \in 1 .. Len(bytes) : Section(a + i - 1) \in Touched(a, Len(bytes))
  <2> TAKE i \in 1 .. Len(bytes)
  <2>1. i - 1 \in 0 .. Len(bytes) - 1 /\ a + (i - 1) = a + i - 1
    BY <1>2
  <2> QED
    BY <2>1 DEF Touched
<1> HIDE DEF new
<1>4. ASSUME NEW s, NEW o \in 0 .. SectionSize - 1 PROVE sec(s)[o] \in Byte
  <2>1. get_section(mem, s)[o] \in Byte
    BY SectionIsBytes
  <2>2. here(s, o) # {} => (CHOOSE i \in here(s, o) : TRUE) \in 1 .. Len(bytes)
    OBVIOUS
  <2> QED
    BY <1>2, <2>1, <2>2
<1>5. IsMemory(new)
  <2>1. secs \subseteq Nat
    <3>1. ASSUME NEW i \in 0 .. Len(bytes) - 1 PROVE Section(a + i) \in Nat
      <4>1. a + i \in Nat
        BY <1>2
      <4> QED
        BY <4>1, SectionFacts
    <3> QED
      BY <3>1 DEF IsMemory, Touched
  <2>2. \A s \in secs : new[s] \in [0 .. SectionSize - 1 -> Byte]
    <3> TAKE s \in secs
    <3>1. new[s] = sec(s)
      BY <1>1
    <3>2. \A o \in 0 .. SectionSize - 1 : sec(s)[o] \in Byte
      BY <1>4
    <3> QED
      BY <3>1, <3>2
  <2>3. DOMAIN new = secs
    BY <1>1
  <2> HIDE DEF secs
  <2> QED
    BY <2>1, <2>2, <2>3 DEF IsMemory
<1>6. ASSUME NEW x \in Nat
      PROVE  ByteAt(new, x) = IF x \in a .. a + Len(bytes) - 1 THEN bytes[x - a + 1]
                              ELSE ByteAt(mem, x)
  <2> DEFINE s == Section(x)
             o == get_section_offset_mask(x)
  <2>1. s \in Nat /\ o \in 0 .. SectionSize - 1
    BY SectionFacts
  <2>2. ASSUME NEW i \in here(s, o) PROVE i \in 1 .. Len(bytes) /\ a + i - 1 = x
    <3>1. /\ i \in 1 .. Len(bytes)
          /\ Section(a + i - 1) = Section(x)
          /\ get_section_offset_mask(a + i - 1) = get_section_offset_mask(x)
      OBVIOUS
    <3> QED
      BY <1>2, <3>1, SectionFacts
  <2>3. CASE x \in a .. a + Len(bytes) - 1
    <3> DEFINE k == x - a + 1
    <3>1. k \in 1 .. Len(bytes) /\ a + k - 1 = x
      BY <1>2, <2>3
    <3>2. k \in here(s, o) /\ s \in secs
      BY <1>3, <3>1
    <3>3. (CHOOSE i \in here(s, o) : TRUE) \in here(s, o)
      BY <3>2
    <3>4. (CHOOSE i \in here(s, o) : TRUE) = k
      <4> DEFINE c == CHOOSE i \in here(s, o) : TRUE
      <4>1. c \in 1 .. Len(bytes) /\ a + c - 1 = x
        BY <2>2, <3>3
      <4> HIDE DEF c
      <4>2. c = k
        BY <1>2, <3>1, <4>1
      <4> QED
        BY <4>2 DEF c
    <3>5. sec(s)[o] = bytes[k]
      BY <2>1, <3>2, <3>4
    <3>6. ByteAt(new, x) = sec(s)[o]
      BY <1>1, <3>2 DEF ByteAt, get_section
    <3> QED
      BY <2>3, <3>5, <3>6
  <2>4. CASE x \notin a .. a + Len(bytes) - 1
    <3>1. here(s, o) = {}
      BY <1>2, <2>2, <2>4
    <3>2. CASE s \in secs
      <4>1. ByteAt(new, x) = sec(s)[o]
        BY <1>1, <3>2 DEF ByteAt, get_section
      <4>2. sec(s)[o] = get_section(mem, s)[o]
        BY <2>1, <3>1
      <4> QED
        BY <2>4, <4>1, <4>2 DEF ByteAt
    <3>3. CASE s \notin secs
      <4>1. s \notin DOMAIN new /\ s \notin DOMAIN mem
        BY <1>1, <3>3
      <4> QED
        BY <2>4, <4>1 DEF ByteAt, get_section
    <3> QED
      BY <3>2, <3>3
  <2> QED
    BY <2>3, <2>4
<1> QED
  BY <1>5, <1>6 DEF new

\* What a memory without sections holds at an address, zero where nothing was written.
FlatByte(f, x) == IF x \in DOMAIN f THEN f[x] ELSE Zero

\* A memory with sections and one without hold the same bytes.
Agrees(mem, f) ==
    /\ IsMemory(mem)
    /\ DOMAIN f \subseteq Nat
    /\ \A x \in Nat : ByteAt(mem, x) = FlatByte(f, x)

\* A write of the memory without sections.
LEMMA FlatAfterBytes ==
    ASSUME NEW f, NEW a \in Nat, NEW bytes \in Seq(Byte), DOMAIN f \subseteq Nat
    PROVE  /\ DOMAIN FlatAfter(f, a, bytes) = (a .. a + Len(bytes) - 1) \cup DOMAIN f
           /\ DOMAIN FlatAfter(f, a, bytes) \subseteq Nat
           /\ \A x \in Nat : FlatByte(FlatAfter(f, a, bytes), x) =
                  IF x \in a .. a + Len(bytes) - 1 THEN bytes[x - a + 1] ELSE FlatByte(f, x)
<1> DEFINE written == a .. a + Len(bytes) - 1
<1>1. Len(bytes) \in Nat
  OBVIOUS
<1>2. written \subseteq Nat
  BY <1>1
<1>3. FlatAfter(f, a, bytes) =
        [i \in DOMAIN f \cup written |-> IF i \in written THEN bytes[i - a + 1] ELSE f[i]]
  BY DEF FlatAfter
<1> HIDE DEF written
<1>4. \A x \in Nat : FlatByte(FlatAfter(f, a, bytes), x) =
          IF x \in written THEN bytes[x - a + 1] ELSE FlatByte(f, x)
  BY <1>3 DEF FlatByte
<1> USE DEF written
<1> QED
  BY <1>2, <1>3, <1>4

\* Both memories agree after the same write.
LEMMA WriteAgrees ==
    ASSUME NEW mem, NEW f, Agrees(mem, f), NEW a \in Nat, NEW bytes \in Seq(Byte)
    PROVE  Agrees(memory_write(mem, a, bytes), FlatAfter(f, a, bytes))
<1>1. IsMemory(mem) /\ DOMAIN f \subseteq Nat /\ \A x \in Nat : ByteAt(mem, x) = FlatByte(f, x)
  BY DEF Agrees
<1>2. /\ IsMemory(memory_write(mem, a, bytes))
      /\ \A x \in Nat : ByteAt(memory_write(mem, a, bytes), x) =
            IF x \in a .. a + Len(bytes) - 1 THEN bytes[x - a + 1] ELSE ByteAt(mem, x)
  BY <1>1, WrittenBytes
<1>3. /\ DOMAIN FlatAfter(f, a, bytes) \subseteq Nat
      /\ \A x \in Nat : FlatByte(FlatAfter(f, a, bytes), x) =
            IF x \in a .. a + Len(bytes) - 1 THEN bytes[x - a + 1] ELSE FlatByte(f, x)
  BY <1>1, FlatAfterBytes
<1> QED
  BY <1>1, <1>2, <1>3 DEF Agrees

\* The memory after the first segments of an image, with sections and without: the
\* recursive definitions have a solution.
LEMMA LoadFunctions ==
    ASSUME NEW image, NEW n \in Nat
    PROVE  /\ \E f : f = [k \in 0 .. n |-> IF k = 0 THEN <<>>
                              ELSE memory_write(f[k - 1], image[k].vaddr, image[k].data)]
           /\ \E f : f = [k \in 0 .. n |-> IF k = 0 THEN <<>>
                              ELSE FlatAfter(f[k - 1], image[k].vaddr, image[k].data)]
<1> DEFINE Sectioned(f, m) == f = [k \in 0 .. m |-> IF k = 0 THEN <<>>
                                      ELSE memory_write(f[k - 1], image[k].vaddr, image[k].data)]
           Plain(f, m) == f = [k \in 0 .. m |-> IF k = 0 THEN <<>>
                                  ELSE FlatAfter(f[k - 1], image[k].vaddr, image[k].data)]
           S == {m \in Nat : \E f : Sectioned(f, m)}
           T == {m \in Nat : \E f : Plain(f, m)}
<1>1. 0 \in S
  <2>1. Sectioned([k \in 0 .. 0 |-> <<>>], 0)
    OBVIOUS
  <2> QED
    BY <2>1
<1>2. ASSUME NEW m \in 1 .. n, m - 1 \in S PROVE m \in S
  <2>1. PICK f : Sectioned(f, m - 1)
    BY <1>2
  <2> DEFINE h == [k \in 0 .. m |-> IF k = 0 THEN <<>>
                       ELSE memory_write(f[k - 1], image[k].vaddr, image[k].data)]
  <2>2. \A k \in 0 .. m - 1 : h[k] = f[k]
    BY <2>1
  <2> HIDE DEF h
  <2>3. \A k \in 0 .. m : k # 0 => h[k - 1] = f[k - 1]
    BY <2>2
  <2> USE DEF h
  <2>4. Sectioned(h, m)
    BY <2>3
  <2> HIDE DEF h, Sectioned
  <2> QED
    BY <2>4
<1>3. 0 \in T
  <2>1. Plain([k \in 0 .. 0 |-> <<>>], 0)
    OBVIOUS
  <2> QED
    BY <2>1
<1>4. ASSUME NEW m \in 1 .. n, m - 1 \in T PROVE m \in T
  <2>1. PICK f : Plain(f, m - 1)
    BY <1>4
  <2> DEFINE h == [k \in 0 .. m |-> IF k = 0 THEN <<>>
                       ELSE FlatAfter(f[k - 1], image[k].vaddr, image[k].data)]
  <2>2. \A k \in 0 .. m - 1 : h[k] = f[k]
    BY <2>1
  <2> HIDE DEF h
  <2>3. \A k \in 0 .. m : k # 0 => h[k - 1] = f[k - 1]
    BY <2>2
  <2> USE DEF h
  <2>4. Plain(h, m)
    BY <2>3
  <2> HIDE DEF h, Plain
  <2> QED
    BY <2>4
<1> HIDE DEF S, T
<1>5. n \in S /\ n \in T
  BY <1>1, <1>2, <1>3, <1>4, UpTo
<1> USE DEF S, T
<1> QED
  BY <1>5

\* The loaded image is the same with sections and without.
LEMMA LoadedAgrees ==
    ASSUME NEW image \in Seq(Segment)
    PROVE  Agrees(to_memory(image), FlatImage(image))
<1> DEFINE n == Len(image)
           f == CHOOSE h : h = [k \in 0 .. n |-> IF k = 0 THEN <<>>
                              ELSE memory_write(h[k - 1], image[k].vaddr, image[k].data)]
           g == CHOOSE h : h = [k \in 0 .. n |-> IF k = 0 THEN <<>>
                              ELSE FlatAfter(h[k - 1], image[k].vaddr, image[k].data)]
<1>1. n \in Nat
  OBVIOUS
<1>2. /\ f = [k \in 0 .. n |-> IF k = 0 THEN <<>>
                  ELSE memory_write(f[k - 1], image[k].vaddr, image[k].data)]
      /\ g = [k \in 0 .. n |-> IF k = 0 THEN <<>>
                  ELSE FlatAfter(g[k - 1], image[k].vaddr, image[k].data)]
  <2> HIDE DEF n
  <2> QED
    BY <1>1, LoadFunctions, Zenon
<1>3. to_memory(image) = f[n]
  BY Zenon DEF to_memory
<1>4. FlatImage(image) = g[n]
  BY Zenon DEF FlatImage
<1> HIDE DEF f, g
<1> DEFINE S == {k \in 0 .. n : Agrees(f[k], g[k])}
<1>5. 0 \in S
  <2>1. f[0] = <<>> /\ g[0] = <<>>
    BY <1>1, <1>2
  <2>2. Agrees(<<>>, <<>>)
    <3>1. IsMemory(<<>>)
      BY DEF IsMemory
    <3>2. \A x \in Nat : ByteAt(<<>>, x) = Zero
      BY SectionFacts DEF ByteAt, get_section
    <3>3. \A x : FlatByte(<<>>, x) = Zero
      BY DEF FlatByte
    <3> QED
      BY <3>1, <3>2, <3>3 DEF Agrees
  <2> QED
    BY <1>1, <2>1, <2>2
<1>6. ASSUME NEW k \in 1 .. n, k - 1 \in S PROVE k \in S
  <2>1. Agrees(f[k - 1], g[k - 1])
    BY <1>6
  <2>2. image[k].vaddr \in Nat /\ image[k].data \in Seq(Byte)
    <3>1. image[k] \in Segment
      OBVIOUS
    <3> QED
      BY <3>1 DEF Segment
  <2>3. /\ f[k] = memory_write(f[k - 1], image[k].vaddr, image[k].data)
        /\ g[k] = FlatAfter(g[k - 1], image[k].vaddr, image[k].data)
    <3> HIDE DEF n
    <3>1. k \in 0 .. n /\ k # 0
      BY <1>1
    <3> QED
      BY <1>2, <3>1
  <2>4. Agrees(f[k], g[k])
    BY <2>1, <2>2, <2>3, WriteAgrees
  <2> QED
    BY <2>4
<1> HIDE DEF S, n
<1>7. \A k \in 0 .. n : k \in S
  BY <1>1, <1>5, <1>6, UpTo
<1>8. n \in S
  BY <1>1, <1>7
<1> USE DEF S
<1> QED
  BY <1>3, <1>4, <1>8

\* The bytes of an aligned access are in one section, next to each other.
LEMMA AlignedSection ==
    ASSUME NEW n \in {1, 2, 4}, NEW a \in Nat, a % n = 0
    PROVE  \A i \in 0 .. n - 1 :
               /\ Section(a + i) = Section(a)
               /\ get_section_offset_mask(a + i) = get_section_offset_mask(a) + i
<1> DEFINE m == SectionSize \div n
           q == a \div n
<1>1. SectionSize \in Nat \ {0} /\ SectionSize % n = 0
  BY BusAssumption
<1>2. m \in Nat /\ SectionSize = m * n /\ m # 0
  BY <1>1
<1>3. q \in Nat /\ a = q * n
  OBVIOUS
<1> HIDE DEF m, q
<1> DEFINE d == q \div m
           r == q % m
<1>4. d \in Nat /\ r \in 0 .. m - 1 /\ q = d * m + r
  BY <1>2, <1>3, DivMod
<1> HIDE DEF d, r
<1>5. a = (d * m + r) * n
  BY <1>3, <1>4
<1>6. (d * m + r) * n = d * (m * n) + r * n
  BY <1>2, <1>4
<1>7. a = d * SectionSize + r * n
  BY <1>2, <1>5, <1>6
<1>8. r * n \in Nat /\ r * n + n <= SectionSize
  BY <1>2, <1>4
<1>9. ASSUME NEW i \in 0 .. n - 1
      PROVE  (a + i) \div SectionSize = d /\ (a + i) % SectionSize = (r * n) + i
  <2>1. (r * n) + i \in 0 .. SectionSize - 1 /\ a + i \in Nat
    BY <1>1, <1>8
  <2>2. a + i = d * SectionSize + ((r * n) + i)
    <3>1. d * SectionSize \in Nat
      BY <1>1, <1>4
    <3> QED
      BY <1>7, <1>8, <3>1
  <2> DEFINE s == (r * n) + i
             x == a + i
  <2>3. s \in 0 .. SectionSize - 1 /\ x \in Nat /\ x = d * SectionSize + s
    BY <2>1, <2>2
  <2> HIDE DEF s, x
  <2>4. x \div SectionSize = d /\ x % SectionSize = s
    BY <1>1, <1>4, <2>3, DivUnique
  <2> QED
    BY <2>4 DEF s, x
<1>10. a + 0 = a /\ (r * n) + 0 = r * n /\ 0 \in 0 .. n - 1
  BY <1>8
<1>11. a \div SectionSize = d /\ a % SectionSize = r * n
  BY <1>9, <1>10
<1> QED
  BY <1>9, <1>11 DEF Section, get_section_offset_mask

\* An aligned read gives the bytes at its addresses.
LEMMA AlignedRead ==
    ASSUME NEW n \in {1, 2, 4}, NEW a \in Nat, a % n = 0
    PROVE  \A mem : IsMemory(mem) =>
               memory_read(mem, a, n) = [k \in 1 .. n |-> ByteAt(mem, a + k - 1)]
<1> TAKE mem
<1> HAVE IsMemory(mem)
<1> DEFINE absent == {i \in PartStarts(a, n) : Section(a + i) \notin DOMAIN mem}
<1>1. \A i \in 0 .. n - 1 : /\ Section(a + i) = Section(a)
                            /\ get_section_offset_mask(a + i) = get_section_offset_mask(a) + i
                            /\ get_section_offset_mask(a) \in Nat
                            /\ get_section_offset_mask(a + i) \in 0 .. SectionSize - 1
  <2>1. \A i \in 0 .. n - 1 : a + i \in Nat
    OBVIOUS
  <2>2. get_section_offset_mask(a) \in Nat
    <3>1. get_section_offset_mask(a) \in 0 .. SectionSize - 1
      BY SectionFacts
    <3> QED
      BY <3>1, BusAssumption
  <2>3. \A i \in 0 .. n - 1 : get_section_offset_mask(a + i) \in 0 .. SectionSize - 1
    BY <2>1, SectionFacts
  <2> QED
    BY <2>2, <2>3, AlignedSection
<1>2. PartStarts(a, n) \subseteq {0}
  BY <1>1 DEF PartStarts
<1>3. 0 \in PartStarts(a, n)
  BY DEF PartStarts
<1>4. absent = IF Section(a) \in DOMAIN mem THEN {} ELSE {0}
  <2>1. a + 0 = a
    OBVIOUS
  <2> QED
    BY <1>2, <1>3, <2>1
<1>5. memory_read(mem, a, n) =
        [k \in 1 .. n |-> IF \E i \in absent : i < k THEN Zero
                          ELSE mem[Section(a + k - 1)][get_section_offset_mask(a + k - 1)]]
  BY DEF memory_read
<1> HIDE DEF absent
<1>6. ASSUME NEW k \in 1 .. n
      PROVE  ByteAt(mem, a + k - 1) =
               IF \E i \in absent : i < k THEN Zero
               ELSE mem[Section(a + k - 1)][get_section_offset_mask(a + k - 1)]
  <2>1. k - 1 \in 0 .. n - 1 /\ a + k - 1 = a + (k - 1) /\ 0 < k
    OBVIOUS
  <2>2. /\ Section(a + k - 1) = Section(a)
        /\ get_section_offset_mask(a + k - 1) \in 0 .. SectionSize - 1
    BY <1>1, <2>1
  <2>3. CASE Section(a) \in DOMAIN mem
    BY <1>4, <2>2, <2>3 DEF ByteAt, get_section
  <2>4. CASE Section(a) \notin DOMAIN mem
    BY <1>4, <2>1, <2>2, <2>4 DEF ByteAt, get_section
  <2> QED
    BY <2>3, <2>4
<1> QED
  BY <1>5, <1>6

(***************************************************************************)
(* The devices on the bus                                                  *)
(***************************************************************************)
\* The size of the frame buffer is a positive even number of bytes.
LEMMA FrameBuffer ==
    /\ FbWidth \in Nat \ {0} /\ FbHeight \in Nat \ {0}
    /\ get_fb_size_bytes \in Nat
    /\ get_fb_size_bytes = 2 * (FbHeight * FbWidth)
    /\ FbHeight * FbWidth \in Nat /\ FbHeight * FbWidth > 0
<1>1. FbWidth \in Nat \ {0} /\ FbHeight \in Nat \ {0}
  BY BusAssumption
<1>2. FbHeight * FbWidth \in Nat /\ FbHeight * FbWidth > 0
  BY <1>1
<1>3. get_fb_size_bytes = 2 * (FbHeight * FbWidth)
  BY <1>1 DEF get_fb_size_bytes, get_fb_line_size
<1> QED
  BY <1>1, <1>2, <1>3

\* The devices lie above main memory, the display below or above the LED panel.
LEMMA Apart ==
    /\ RamLast \in Nat /\ LedStart \in Nat /\ LcdStart \in Nat
    /\ LedStart > RamLast /\ LcdStart > RamLast
    /\ LcdStart + get_fb_size_bytes <= LedStart \/ LedStart + 256 <= LcdStart
    /\ get_fb_size_bytes \in Nat /\ get_fb_size_bytes > 0
<1>1. get_fb_size_bytes = 2 * FbWidth * FbHeight
  BY DEF get_fb_size_bytes, get_fb_line_size
<1> QED
  BY <1>1, BusAssumption, FrameBuffer

\* The three devices do not overlap, so every one is inserted.
LEMMA AllInserted ==
    Ranges = {BusRange("mem", 0, RamLast), BusRange("perip_spi_led", LedStart, LedStart + 255),
              BusRange("perip_lcd_display", LcdStart, LcdStart + get_fb_size_bytes - 1)}
<1> DEFINE m == BusRange("mem", 0, RamLast)
           l == BusRange("perip_spi_led", LedStart, LedStart + 255)
           d == BusRange("perip_lcd_display", LcdStart, LcdStart + get_fb_size_bytes - 1)
<1>1. /\ RamLast \in Nat /\ LedStart \in Nat /\ LcdStart \in Nat
      /\ LedStart > RamLast /\ LcdStart > RamLast
      /\ LcdStart + get_fb_size_bytes <= LedStart \/ LedStart + 256 <= LcdStart
      /\ get_fb_size_bytes \in Nat /\ get_fb_size_bytes > 0
  BY Apart
<1>2. /\ m.start = 0 /\ m.last = RamLast /\ l.start = LedStart /\ l.last = LedStart + 255
      /\ d.start = LcdStart /\ d.last = LcdStart + get_fb_size_bytes - 1
  BY DEF BusRange
<1> HIDE DEF m, l, d
<1>3. insert_device_to_range({}, m) = {m}
  BY DEF insert_device_to_range, lowerBound
<1>4. insert_device_to_range({m}, l) = {m, l}
  <2>1. lowerBound({m}, l.start) = {}
    BY <1>1, <1>2 DEF lowerBound
  <2> QED
    BY <2>1 DEF insert_device_to_range
<1>5. insert_device_to_range({m, l}, d) = {m, l, d}
  <2>1. lowerBound({m, l}, d.start) \subseteq {l}
    BY <1>1, <1>2 DEF lowerBound
  <2>2. l \in lowerBound({m, l}, d.start) => ~Overlaps(l, d.start, d.last)
    BY <1>1, <1>2 DEF lowerBound, Overlaps
  <2> QED
    BY <2>1, <2>2 DEF insert_device_to_range
<1>6. Ranges = insert_device_to_range(insert_device_to_range(insert_device_to_range({}, m), l), d)
  BY DEF Ranges, m, l, d
<1>7. Ranges = {m, l, d}
  BY <1>3, <1>4, <1>5, <1>6
<1> QED
  BY <1>7 DEF m, l, d

\* The device of an address.
LEMMA Devices ==
    ASSUME NEW a \in Nat
    PROVE  /\ a <= RamLast => Device(a) = "mem"
           /\ a \in LedStart .. LedStart + 255 => Device(a) = "perip_spi_led"
           /\ a \in LcdStart .. LcdStart + get_fb_size_bytes - 1 => Device(a) = "perip_lcd_display"
           /\ Device(a) = "mem" => a <= RamLast
           /\ Device(a) = "perip_spi_led" => a \in LedStart .. LedStart + 255
           /\ Device(a) = "perip_lcd_display" => a \in LcdStart .. LcdStart + get_fb_size_bytes - 1
<1> DEFINE m == BusRange("mem", 0, RamLast)
           l == BusRange("perip_spi_led", LedStart, LedStart + 255)
           d == BusRange("perip_lcd_display", LcdStart, LcdStart + get_fb_size_bytes - 1)
<1>1. /\ RamLast \in Nat /\ LedStart \in Nat /\ LcdStart \in Nat
      /\ LedStart > RamLast /\ LcdStart > RamLast
      /\ LcdStart + get_fb_size_bytes <= LedStart \/ LedStart + 256 <= LcdStart
      /\ get_fb_size_bytes \in Nat /\ get_fb_size_bytes > 0
  BY Apart
<1>2. /\ m.start = 0 /\ m.last = RamLast /\ l.start = LedStart /\ l.last = LedStart + 255
      /\ d.start = LcdStart /\ d.last = LcdStart + get_fb_size_bytes - 1
      /\ m.device = "mem" /\ l.device = "perip_spi_led" /\ d.device = "perip_lcd_display"
  BY DEF BusRange
<1>3. Ranges = {m, l, d}
  BY AllInserted
<1> HIDE DEF m, l, d
<1>4. m # l /\ m # d /\ l # d
  BY <1>2
<1>5. CASE a <= RamLast
  <2>1. find_range(a) = {m}
    BY <1>1, <1>2, <1>3, <1>5 DEF find_range, lowerBound
  <2>2. Device(a) = "mem"
    BY <1>2, <2>1 DEF Device
  <2> QED
    BY <1>1, <1>5, <2>2
<1>6. CASE a \in LedStart .. LedStart + 255
  <2>1. find_range(a) = {l}
    BY <1>1, <1>2, <1>3, <1>6 DEF find_range, lowerBound
  <2>2. Device(a) = "perip_spi_led"
    BY <1>2, <2>1 DEF Device
  <2> QED
    BY <1>1, <1>6, <2>2
<1>7. CASE a \in LcdStart .. LcdStart + get_fb_size_bytes - 1
  <2>1. find_range(a) = {d}
    BY <1>1, <1>2, <1>3, <1>7 DEF find_range, lowerBound
  <2>2. Device(a) = "perip_lcd_display"
    BY <1>2, <2>1 DEF Device
  <2> QED
    BY <1>1, <1>7, <2>2
<1>8. CASE /\ ~(a <= RamLast)
           /\ a \notin LedStart .. LedStart + 255
           /\ a \notin LcdStart .. LcdStart + get_fb_size_bytes - 1
  <2>1. find_range(a) = {}
    BY <1>1, <1>2, <1>3, <1>8 DEF find_range, lowerBound
  <2>2. Device(a) = "none"
    BY <2>1 DEF Device
  <2> QED
    BY <1>8, <2>2
<1> QED
  BY <1>5, <1>6, <1>7, <1>8

\* The address of a pixel in the frame buffer, and the pixel of an address.
PixelAt(x, y) == 2 * (y * FbWidth + x)

LEMMA PixelAddress ==
    ASSUME NEW x \in 0 .. FbWidth - 1, NEW y \in 0 .. FbHeight - 1
    PROVE  /\ PixelAt(x, y) \in Nat /\ PixelAt(x, y) % 2 = 0
           /\ PixelAt(x, y) + 1 < get_fb_size_bytes
           /\ get_pixel_from_address(PixelAt(x, y)) = <<x, y>>
<1> DEFINE h == y * FbWidth + x
<1>1. FbWidth \in Nat \ {0} /\ FbHeight \in Nat \ {0} /\ x \in Nat /\ y \in Nat
  BY FrameBuffer
<1>2. h \in Nat /\ y * FbWidth \in Nat
  BY <1>1
<1>3. y * FbWidth + FbWidth <= FbHeight * FbWidth
  BY <1>1, MultiplesApart
<1>4. h + 1 <= FbHeight * FbWidth
  BY <1>1, <1>2, <1>3, FrameBuffer
<1>5. PixelAt(x, y) = 2 * h
  BY DEF PixelAt
<1>6. 2 * h = y * (2 * FbWidth) + 2 * x
  BY <1>1
<1>7. y * (2 * FbWidth) \in Nat
  BY <1>1
<1> HIDE DEF h
<1>8. PixelAt(x, y) \in Nat /\ PixelAt(x, y) % 2 = 0
  BY <1>2, <1>5
<1>9. PixelAt(x, y) + 1 < get_fb_size_bytes
  BY <1>2, <1>4, <1>5, FrameBuffer
<1>10. (2 * h) \div (2 * FbWidth) = y
  <2> DEFINE d == 2 * FbWidth
             r == 2 * x
             o == 2 * h
  <2>1. d \in Nat \ {0} /\ r \in 0 .. d - 1 /\ o \in Nat /\ o = y * d + r
    BY <1>1, <1>2, <1>6
  <2> HIDE DEF d, r, o
  <2>2. o \div d = y
    BY <1>1, <2>1, DivUnique
  <2> QED
    BY <2>2 DEF d, o
<1>11. (2 * h - y * (2 * FbWidth)) \div 2 = x
  BY <1>1, <1>2, <1>6, <1>7
<1>12. get_pixel_from_address(2 * h) = <<x, y>>
  BY <1>10, <1>11 DEF get_pixel_from_address, get_fb_line_size
<1> QED
  BY <1>5, <1>8, <1>9, <1>12

LEMMA PixelPlace ==
    ASSUME NEW o \in Nat, o % 2 = 0, o < get_fb_size_bytes
    PROVE  \E x \in 0 .. FbWidth - 1, y \in 0 .. FbHeight - 1 : o = PixelAt(x, y)
<1> DEFINE h == o \div 2
<1>1. h \in Nat /\ o = 2 * h
  OBVIOUS
<1> HIDE DEF h
<1> DEFINE x == h % FbWidth
           y == h \div FbWidth
<1>2. FbWidth \in Nat \ {0} /\ FbHeight \in Nat \ {0} /\ h < FbHeight * FbWidth
  BY <1>1, FrameBuffer
<1>3. x \in 0 .. FbWidth - 1 /\ y \in Nat /\ h = y * FbWidth + x
  BY <1>1, <1>2, DivMod
<1> HIDE DEF x, y
<1>4. y < FbHeight
  <2> SUFFICES ASSUME FbHeight <= y PROVE FALSE
    BY <1>2, <1>3
  <2>1. FbHeight * FbWidth <= y * FbWidth
    <3>1. CASE FbHeight = y
      BY <3>1, <1>2, <1>3
    <3>2. CASE FbHeight < y
      <4>1. FbHeight * FbWidth + FbWidth <= y * FbWidth
        BY <1>2, <1>3, <3>2, MultiplesApart
      <4>2. FbHeight * FbWidth \in Nat /\ y * FbWidth \in Nat
        BY <1>2, <1>3
      <4> QED
        BY <1>2, <4>1, <4>2
    <3> QED
      BY <1>2, <1>3, <3>1, <3>2
  <2>2. FbHeight * FbWidth \in Nat /\ y * FbWidth \in Nat
    BY <1>2, <1>3
  <2> QED
    BY <1>2, <1>3, <2>1, <2>2
<1>5. o = PixelAt(x, y)
  BY <1>1, <1>3 DEF PixelAt
<1> QED
  BY <1>2, <1>3, <1>4, <1>5

\* An address stands for one pixel only.
LEMMA PixelUnique ==
    ASSUME NEW o \in Nat, o % 2 = 0, o < get_fb_size_bytes,
           NEW x \in 0 .. FbWidth - 1, NEW y \in 0 .. FbHeight - 1,
           get_pixel_from_address(o) = <<x, y>>
    PROVE  o = PixelAt(x, y)
<1>1. PICK u \in 0 .. FbWidth - 1, v \in 0 .. FbHeight - 1 : o = PixelAt(u, v)
  BY PixelPlace
<1>2. get_pixel_from_address(o) = <<u, v>>
  BY <1>1, PixelAddress
<1>3. u = x /\ v = y
  BY <1>2
<1> QED
  BY <1>1, <1>3

(***************************************************************************)
(* What is true of the bus                                                 *)
(***************************************************************************)
Word == [1 .. 4 -> Byte]
BusFields == {"sections", "leds", "led_view", "knobs", "fb_data", "lcd_view", "changes", "program"}

\* The display's widget shows the frame buffer.
LcdShown(b) ==
    /\ DOMAIN b.lcd_view = (0 .. FbWidth - 1) \X (0 .. FbHeight - 1)
    /\ \A x \in 0 .. FbWidth - 1, y \in 0 .. FbHeight - 1 :
          b.lcd_view[<<x, y>>] = <<b.fb_data[PixelAt(x, y)], b.fb_data[PixelAt(x, y) + 1]>>

\* The sections hold what a memory without sections would; the widgets show the
\* registers and the frame buffer; the knobs are as the user left them.
BusInv(b, f, d) ==
    /\ DOMAIN b = BusFields
    /\ Agrees(b.sections, f)
    /\ b.leds \in [LedRegisters -> Word]
    /\ b.led_view = b.leds
    /\ b.knobs \in SUBSET (0 .. 31) /\ b.knobs = d
    /\ b.fb_data \in [0 .. get_fb_size_bytes - 1 -> Byte]
    /\ LcdShown(b)
    /\ b.changes \in Nat
    /\ b.program \in Seq(Segment)

\* After a write of the LED panel its widgets show the registers; the rest of the bus
\* is as before.
LEMMA LedWritten ==
    ASSUME NEW b, DOMAIN b = BusFields, b.leds \in [LedRegisters -> Word], b.led_view = b.leds,
           NEW o \in Nat, NEW bytes \in Seq(Byte)
    PROVE  LET w == led_write(b, o, bytes)
           IN  /\ DOMAIN w = BusFields
               /\ w.leds \in [LedRegisters -> Word] /\ w.led_view = w.leds
               /\ w.sections = b.sections /\ w.knobs = b.knobs /\ w.fb_data = b.fb_data
               /\ w.lcd_view = b.lcd_view /\ w.changes = b.changes /\ w.program = b.program
<1> DEFINE new == [reg \in LedRegisters |-> Merged(b.leds[reg], reg, o, bytes)]
           w == led_write(b, o, bytes)
<1>1. w = [b EXCEPT !.leds = new, !.led_view = led_changed(b, new)]
  BY DEF led_write
<1>2. new \in [LedRegisters -> Word]
  <2> SUFFICES ASSUME NEW reg \in LedRegisters PROVE Merged(b.leds[reg], reg, o, bytes) \in Word
    OBVIOUS
  <2>1. b.leds[reg] \in [1 .. 4 -> Byte]
    BY DEF Word
  <2>2. \A k \in DOMAIN bytes : bytes[k] \in Byte
    OBVIOUS
  <2> QED
    BY <2>1, <2>2 DEF Merged, Word
<1> HIDE DEF new
<1>3. led_changed(b, new) = new
  BY <1>2 DEF led_changed
<1>4. w = [b EXCEPT !.leds = new, !.led_view = new]
  BY <1>1, <1>3
<1> HIDE DEF w
<1>5. /\ DOMAIN w = BusFields /\ w.leds = new /\ w.led_view = new
      /\ w.sections = b.sections /\ w.knobs = b.knobs /\ w.fb_data = b.fb_data
      /\ w.lcd_view = b.lcd_view /\ w.changes = b.changes /\ w.program = b.program
  BY <1>4 DEF BusFields
<1> QED
  BY <1>2, <1>5 DEF w

\* After a write of the display its widget shows the frame buffer; the rest of the bus
\* is as before.
LEMMA LcdWritten ==
    ASSUME NEW b, DOMAIN b = BusFields, b.fb_data \in [0 .. get_fb_size_bytes - 1 -> Byte],
           LcdShown(b),
           NEW o \in Nat, NEW bytes \in Seq(Byte)
    PROVE  LET w == lcd_write(b, o, bytes)
           IN  /\ DOMAIN w = BusFields
               /\ w.fb_data \in [0 .. get_fb_size_bytes - 1 -> Byte]
               /\ LcdShown(w)
               /\ w.sections = b.sections /\ w.knobs = b.knobs /\ w.leds = b.leds
               /\ w.led_view = b.led_view /\ w.changes = b.changes /\ w.program = b.program
<1> DEFINE new == [p \in DOMAIN b.fb_data |->
                      IF p - o + 1 \in DOMAIN bytes THEN bytes[p - o + 1] ELSE b.fb_data[p]]
           w == lcd_write(b, o, bytes)
           Pixel(fb, p) == <<fb[p], fb[p + 1]>>
           changed == {p \in DOMAIN new : p % 2 = 0 /\ Pixel(new, p) # Pixel(b.fb_data, p)}
           at(p) == {c \in changed : get_pixel_from_address(c) = p}
           view == pixel_update(b, new)
<1>1. w = [b EXCEPT !.fb_data = new, !.lcd_view = view]
  BY DEF lcd_write
<1>2. new \in [0 .. get_fb_size_bytes - 1 -> Byte]
  <2>1. \A k \in DOMAIN bytes : bytes[k] \in Byte
    OBVIOUS
  <2>2. DOMAIN b.fb_data = 0 .. get_fb_size_bytes - 1
    OBVIOUS
  <2> QED
    BY <2>1, <2>2
<1> HIDE DEF new
<1>3. view = [p \in DOMAIN b.lcd_view |->
                 IF at(p) = {} THEN b.lcd_view[p] ELSE Pixel(new, CHOOSE c \in at(p) : TRUE)]
  BY DEF pixel_update
<1> HIDE DEF view, w
<1>4. /\ DOMAIN w = BusFields /\ w.fb_data = new /\ w.lcd_view = view
      /\ w.sections = b.sections /\ w.knobs = b.knobs /\ w.leds = b.leds
      /\ w.led_view = b.led_view /\ w.changes = b.changes /\ w.program = b.program
  BY <1>1 DEF BusFields
<1>5. DOMAIN view = DOMAIN b.lcd_view
  BY <1>3
<1>6. ASSUME NEW x \in 0 .. FbWidth - 1, NEW y \in 0 .. FbHeight - 1
      PROVE  view[<<x, y>>] = Pixel(new, PixelAt(x, y))
  <2> DEFINE p == PixelAt(x, y)
  <2>1. /\ p \in Nat /\ p % 2 = 0 /\ p + 1 < get_fb_size_bytes
        /\ get_pixel_from_address(p) = <<x, y>>
    BY PixelAddress
  <2>2. get_fb_size_bytes \in Nat
    BY FrameBuffer
  <2>3. ASSUME NEW c \in at(<<x, y>>) PROVE c = p
    <3>1. /\ c \in DOMAIN new /\ c % 2 = 0 /\ get_pixel_from_address(c) = <<x, y>>
      OBVIOUS
    <3>2. c \in Nat /\ c < get_fb_size_bytes
      BY <1>2, <2>2, <3>1
    <3> QED
      BY <3>1, <3>2, PixelUnique
  <2>4. <<x, y>> \in DOMAIN b.lcd_view
    BY DEF LcdShown
  <2> HIDE DEF p
  <2>5. p \in DOMAIN new
    BY <1>2, <2>1, <2>2
  <2>6. CASE p \in changed
    <3>1. p \in at(<<x, y>>)
      BY <2>1, <2>6
    <3>2. (CHOOSE c \in at(<<x, y>>) : TRUE) \in at(<<x, y>>)
      BY <3>1
    <3>3. (CHOOSE c \in at(<<x, y>>) : TRUE) = p
      BY <2>3, <3>2
    <3> HIDE DEF at
    <3>4. view[<<x, y>>] = Pixel(new, p)
      BY <1>3, <2>4, <3>1, <3>3
    <3> QED
      BY <3>4 DEF p
  <2>7. CASE p \notin changed
    <3>1. at(<<x, y>>) = {}
      BY <2>3, <2>7
    <3>2. Pixel(new, p) = Pixel(b.fb_data, p)
      BY <2>1, <2>5, <2>7
    <3> HIDE DEF at
    <3>3. view[<<x, y>>] = b.lcd_view[<<x, y>>]
      BY <1>3, <2>4, <3>1
    <3>4. b.lcd_view[<<x, y>>] = Pixel(b.fb_data, p)
      BY DEF p, LcdShown
    <3> QED
      BY <3>2, <3>3, <3>4 DEF p
  <2> QED
    BY <2>6, <2>7
<1>7. LcdShown(w)
  BY <1>4, <1>5, <1>6 DEF LcdShown
<1> QED
  BY <1>2, <1>4, <1>7 DEF w

\* A write, whatever device it is for.
LEMMA BusWritten ==
    ASSUME NEW b, NEW f, NEW d, BusInv(b, f, d), NEW a \in Nat, NEW bytes \in Seq(Byte)
    PROVE  BusInv(bus_write(b, a, bytes), flat_write(f, a, bytes), d)
<1> DEFINE changes == IF Changed(b, a, bytes) THEN b.changes + 1 ELSE b.changes
           counted == [b EXCEPT !.changes = IF Changed(b, a, bytes) THEN @ + 1 ELSE @]
           w == bus_write(b, a, bytes)
<1>1. changes \in Nat
  <2>1. b.changes \in Nat
    BY DEF BusInv
  <2> HIDE DEF changes
  <2>2. changes = b.changes \/ changes = b.changes + 1
    BY DEF changes
  <2> QED
    BY <2>1, <2>2
<1>2. /\ DOMAIN counted = BusFields /\ counted.changes = changes
      /\ counted.sections = b.sections /\ counted.leds = b.leds /\ counted.led_view = b.led_view
      /\ counted.knobs = b.knobs /\ counted.fb_data = b.fb_data /\ counted.lcd_view = b.lcd_view
      /\ counted.program = b.program
  BY DEF BusInv, BusFields
<1>3. /\ Device(a) = "mem" => w = [counted EXCEPT !.sections = memory_write(@, a, bytes)]
      /\ Device(a) = "perip_spi_led" => w = led_write(counted, a - LedStart, bytes)
      /\ Device(a) = "perip_lcd_display" => w = lcd_write(counted, a - LcdStart, bytes)
      /\ Device(a) \notin {"mem", "perip_spi_led", "perip_lcd_display"} => w = b
  BY DEF bus_write
<1>4. LedStart \in Nat /\ LcdStart \in Nat /\ get_fb_size_bytes \in Nat
  BY BusAssumption, FrameBuffer
<1> HIDE DEF changes, counted, w
<1>5. CASE Device(a) = "mem"
  <2>1. w = [counted EXCEPT !.sections = memory_write(b.sections, a, bytes)]
    BY <1>2, <1>3, <1>5
  <2>2. /\ DOMAIN w = BusFields /\ w.changes = changes
        /\ w.sections = memory_write(b.sections, a, bytes) /\ w.leds = b.leds
        /\ w.led_view = b.led_view /\ w.knobs = b.knobs /\ w.fb_data = b.fb_data
        /\ w.lcd_view = b.lcd_view /\ w.program = b.program
    BY <1>2, <2>1 DEF BusFields
  <2>3. Agrees(w.sections, flat_write(f, a, bytes))
    BY <1>5, <2>2, WriteAgrees DEF BusInv, flat_write
  <2>4. BusInv(w, flat_write(f, a, bytes), d)
    BY <1>1, <2>2, <2>3 DEF BusInv, LcdShown
  <2> QED
    BY <2>4 DEF w
<1>6. CASE Device(a) = "perip_spi_led"
  <2>1. w = led_write(counted, a - LedStart, bytes)
    BY <1>3, <1>6
  <2>2. a - LedStart \in Nat
    BY <1>4, <1>6, Devices
  <2>3. counted.leds \in [LedRegisters -> Word] /\ counted.led_view = counted.leds
    BY <1>2 DEF BusInv
  <2>4. /\ DOMAIN w = BusFields
        /\ w.leds \in [LedRegisters -> Word] /\ w.led_view = w.leds
        /\ w.sections = counted.sections /\ w.knobs = counted.knobs /\ w.fb_data = counted.fb_data
        /\ w.lcd_view = counted.lcd_view /\ w.changes = counted.changes /\ w.program = counted.program
    BY <1>2, <2>1, <2>2, <2>3, LedWritten
  <2>5. flat_write(f, a, bytes) = f
    BY <1>6 DEF flat_write
  <2>6. BusInv(w, f, d)
    BY <1>1, <1>2, <2>4 DEF BusInv, LcdShown
  <2> QED
    BY <2>5, <2>6 DEF w
<1>7. CASE Device(a) = "perip_lcd_display"
  <2>1. w = lcd_write(counted, a - LcdStart, bytes)
    BY <1>3, <1>7
  <2>2. a - LcdStart \in Nat
    BY <1>4, <1>7, Devices
  <2>3. /\ counted.fb_data \in [0 .. get_fb_size_bytes - 1 -> Byte]
        /\ LcdShown(counted)
    BY <1>2 DEF BusInv, LcdShown
  <2>4. /\ DOMAIN w = BusFields
        /\ w.fb_data \in [0 .. get_fb_size_bytes - 1 -> Byte]
        /\ LcdShown(w)
        /\ w.sections = counted.sections /\ w.knobs = counted.knobs /\ w.leds = counted.leds
        /\ w.led_view = counted.led_view /\ w.changes = counted.changes /\ w.program = counted.program
    BY <1>2, <2>1, <2>2, <2>3, LcdWritten
  <2>5. flat_write(f, a, bytes) = f
    BY <1>7 DEF flat_write
  <2>6. BusInv(w, f, d)
    BY <1>1, <1>2, <2>4 DEF BusInv
  <2> QED
    BY <2>5, <2>6 DEF w
<1>8. CASE Device(a) \notin {"mem", "perip_spi_led", "perip_lcd_display"}
  <2>1. w = b /\ flat_write(f, a, bytes) = f
    BY <1>3, <1>8 DEF flat_write
  <2> QED
    BY <2>1 DEF w
<1> QED
  BY <1>5, <1>6, <1>7, <1>8

\* A read depends on the bytes of main memory, the registers and the frame buffer.
LEMMA SameReads ==
    ASSUME NEW b, NEW w, IsMemory(b.sections), IsMemory(w.sections),
           \A x \in Nat : ByteAt(w.sections, x) = ByteAt(b.sections, x),
           w.leds = b.leds, w.knobs = b.knobs, w.fb_data = b.fb_data,
           NEW n \in {1, 2, 4}, NEW a \in Nat, a % n = 0
    PROVE  bus_read(w, a, n) = bus_read(b, a, n)
<1>1. memory_read(w.sections, a, n) = memory_read(b.sections, a, n)
  <2>1. \A mem : IsMemory(mem) => memory_read(mem, a, n) = [k \in 1 .. n |-> ByteAt(mem, a + k - 1)]
    BY AlignedRead
  <2>2. \A k \in 1 .. n : a + k - 1 \in Nat
    OBVIOUS
  <2>3. \A k \in 1 .. n : ByteAt(w.sections, a + k - 1) = ByteAt(b.sections, a + k - 1)
    BY <2>2
  <2> QED
    BY <2>1, <2>3
<1>2. led_read(w, a - LedStart, n) = led_read(b, a - LedStart, n)
  <2>1. \A u : led_read_reg(w, u) = led_read_reg(b, u)
    BY DEF led_read_reg
  <2> QED
    BY <2>1 DEF led_read
<1>3. lcd_read(w, a - LcdStart, n) = lcd_read(b, a - LcdStart, n)
  <2>1. \A u : read_raw_pixel(w, u) = read_raw_pixel(b, u)
    BY DEF read_raw_pixel
  <2> QED
    BY <2>1 DEF lcd_read
<1> QED
  BY <1>1, <1>2, <1>3, Zenon DEF bus_read

\* A write that the device does not report as a change leaves the counter, and every
\* aligned read gives what it gave.
LEMMA QuietWrite ==
    ASSUME NEW b, NEW f, NEW d, BusInv(b, f, d), NEW a \in Nat, NEW bytes \in Seq(Byte)
    PROVE  /\ bus_write(b, a, bytes).changes \in {b.changes, b.changes + 1}
           /\ bus_write(b, a, bytes).program = b.program
           /\ bus_write(b, a, bytes).changes = b.changes =>
                  \A n \in {1, 2, 4}, x \in Nat :
                      x % n = 0 => bus_read(bus_write(b, a, bytes), x, n) = bus_read(b, x, n)
<1> DEFINE counted == [b EXCEPT !.changes = IF Changed(b, a, bytes) THEN @ + 1 ELSE @]
           w == bus_write(b, a, bytes)
<1>1. b.changes \in Nat /\ b.changes + 1 # b.changes
  BY DEF BusInv
<1>2. /\ DOMAIN counted = BusFields
      /\ Changed(b, a, bytes) => counted.changes = b.changes + 1
      /\ ~Changed(b, a, bytes) => counted.changes = b.changes
      /\ counted.sections = b.sections /\ counted.leds = b.leds /\ counted.led_view = b.led_view
      /\ counted.knobs = b.knobs /\ counted.fb_data = b.fb_data /\ counted.lcd_view = b.lcd_view
      /\ counted.program = b.program
  BY DEF BusInv, BusFields
<1>3. /\ Device(a) = "mem" => w = [counted EXCEPT !.sections = memory_write(@, a, bytes)]
      /\ Device(a) = "perip_spi_led" => w = led_write(counted, a - LedStart, bytes)
      /\ Device(a) = "perip_lcd_display" => w = lcd_write(counted, a - LcdStart, bytes)
      /\ Device(a) \notin {"mem", "perip_spi_led", "perip_lcd_display"} => w = b
  BY DEF bus_write
<1>4. LedStart \in Nat /\ LcdStart \in Nat /\ get_fb_size_bytes \in Nat
  BY BusAssumption, FrameBuffer
<1>5. BusInv(w, flat_write(f, a, bytes), d)
  BY BusWritten
<1>6. IsMemory(b.sections) /\ IsMemory(w.sections)
  BY <1>5 DEF BusInv, Agrees
<1> HIDE DEF counted, w
<1>7. /\ Device(a) \in {"mem", "perip_spi_led", "perip_lcd_display"} => w.changes = counted.changes
      /\ w.program = b.program
  <2>1. CASE Device(a) = "mem"
    BY <1>2, <1>3, <2>1 DEF BusFields
  <2>2. CASE Device(a) = "perip_spi_led"
    BY <1>2, <1>3, <2>2 DEF BusFields, led_write
  <2>3. CASE Device(a) = "perip_lcd_display"
    BY <1>2, <1>3, <2>3 DEF BusFields, lcd_write
  <2>4. CASE Device(a) \notin {"mem", "perip_spi_led", "perip_lcd_display"}
    BY <1>3, <2>4
  <2> QED
    BY <2>1, <2>2, <2>3, <2>4
<1>8. CASE Device(a) \notin {"mem", "perip_spi_led", "perip_lcd_display"}
  BY <1>3, <1>8 DEF w
<1>9. CASE Device(a) \in {"mem", "perip_spi_led", "perip_lcd_display"} /\ Changed(b, a, bytes)
  BY <1>1, <1>2, <1>7, <1>9 DEF w
<1>10. CASE Device(a) \in {"mem", "perip_spi_led", "perip_lcd_display"} /\ ~Changed(b, a, bytes)
  <2>1. counted.changes = b.changes
    BY <1>2, <1>10
  <2>2. /\ \A x \in Nat : ByteAt(w.sections, x) = ByteAt(b.sections, x)
        /\ w.leds = b.leds /\ w.knobs = b.knobs /\ w.fb_data = b.fb_data
    <3>1. CASE Device(a) = "mem"
      <4>1. w = [counted EXCEPT !.sections = memory_write(b.sections, a, bytes)]
        BY <1>2, <1>3, <3>1
      <4>2. /\ w.sections = memory_write(b.sections, a, bytes)
            /\ w.leds = b.leds /\ w.knobs = b.knobs /\ w.fb_data = b.fb_data
        BY <1>2, <4>1 DEF BusFields
      <4>3. \A i \in DOMAIN bytes : ByteAt(b.sections, a + i - 1) = bytes[i]
        BY <1>10, <3>1 DEF Changed, ByteAt
      <4>4. ASSUME NEW x \in Nat PROVE ByteAt(w.sections, x) = ByteAt(b.sections, x)
        <5>1. \A mem : IsMemory(mem) => \A z \in Nat : ByteAt(memory_write(mem, a, bytes), z) =
                  IF z \in a .. a + Len(bytes) - 1 THEN bytes[z - a + 1] ELSE ByteAt(mem, z)
          BY WrittenBytes
        <5>2. ByteAt(w.sections, x) = IF x \in a .. a + Len(bytes) - 1 THEN bytes[x - a + 1]
                                      ELSE ByteAt(b.sections, x)
          BY <1>6, <4>2, <5>1
        <5>3. x \in a .. a + Len(bytes) - 1 => x - a + 1 \in DOMAIN bytes /\ a + (x - a + 1) - 1 = x
          OBVIOUS
        <5> QED
          BY <4>3, <5>2, <5>3
      <4> QED
        BY <4>2, <4>4
    <3>2. CASE Device(a) = "perip_spi_led"
      <4>1. w = led_write(counted, a - LedStart, bytes) /\ led_write(b, a - LedStart, bytes).leds = b.leds
        BY <1>3, <1>10, <3>2 DEF Changed
      <4>2. w.leds = led_write(b, a - LedStart, bytes).leds
        BY <1>2, <4>1 DEF led_write, BusInv, BusFields
      <4>3. w.sections = b.sections /\ w.knobs = b.knobs /\ w.fb_data = b.fb_data
        BY <1>2, <4>1 DEF led_write, BusFields
      <4> QED
        BY <4>1, <4>2, <4>3
    <3>3. CASE Device(a) = "perip_lcd_display"
      <4>1. /\ w = lcd_write(counted, a - LcdStart, bytes)
            /\ lcd_write(b, a - LcdStart, bytes).fb_data = b.fb_data
        BY <1>3, <1>10, <3>3 DEF Changed
      <4>2. w.fb_data = lcd_write(b, a - LcdStart, bytes).fb_data
        BY <1>2, <4>1 DEF lcd_write, BusInv, BusFields
      <4>3. w.sections = b.sections /\ w.knobs = b.knobs /\ w.leds = b.leds
        BY <1>2, <4>1 DEF lcd_write, BusFields
      <4> QED
        BY <4>1, <4>2, <4>3
    <3> QED
      BY <1>10, <3>1, <3>2, <3>3
  <2>3. \A n \in {1, 2, 4}, x \in Nat : x % n = 0 => bus_read(w, x, n) = bus_read(b, x, n)
    BY <1>6, <2>2, SameReads
  <2>4. w.changes = b.changes
    BY <1>7, <1>10, <2>1
  <2> QED
    BY <1>7, <2>3, <2>4 DEF w
<1> QED
  BY <1>8, <1>9, <1>10

\* A knob is turned or pushed: nothing changes, or the bus counts a change.
LEMMA KnobTurned ==
    ASSUME NEW b, NEW f, NEW d, BusInv(b, f, d),
           NEW val \in SUBSET (0 .. 31), NEW mask \in SUBSET (0 .. 31)
    PROVE  LET w == knob_update_notify(b, val, mask)
           IN  /\ BusInv(w, f, (d \ mask) \cup val)
               /\ w = b \/ w.changes = b.changes + 1
               /\ w.program = b.program
<1> DEFINE w == knob_update_notify(b, val, mask)
<1>1. CASE b.knobs \cap mask = val
  <2>1. w = b
    BY <1>1 DEF knob_update_notify
  <2>2. (d \ mask) \cup val = d
    BY <1>1 DEF BusInv
  <2> QED
    BY <2>1, <2>2
<1>2. CASE b.knobs \cap mask # val
  <2> DEFINE new == (b.knobs \ mask) \cup val
             count == b.changes + 1
  <2>1. w = [b EXCEPT !.knobs = new, !.changes = count]
    BY <1>2 DEF knob_update_notify
  <2>2. new \in SUBSET (0 .. 31) /\ new = (d \ mask) \cup val /\ count \in Nat
    <3>1. b.knobs \in SUBSET (0 .. 31) /\ b.knobs = d /\ b.changes \in Nat
      BY DEF BusInv
    <3>2. new \in SUBSET (0 .. 31)
      BY <3>1
    <3>3. new = (d \ mask) \cup val
      BY <3>1, Zenon
    <3> HIDE DEF new
    <3>4. count \in Nat
      BY <3>1
    <3> QED
      BY <3>2, <3>3, <3>4
  <2> HIDE DEF new, count, w
  <2>3. /\ DOMAIN w = BusFields /\ w.knobs = new /\ w.changes = count
        /\ w.sections = b.sections /\ w.leds = b.leds /\ w.led_view = b.led_view
        /\ w.fb_data = b.fb_data /\ w.lcd_view = b.lcd_view /\ w.program = b.program
    BY <2>1 DEF BusInv, BusFields
  <2>4. BusInv(w, f, new)
    BY <2>2, <2>3 DEF BusInv, LcdShown
  <2> QED
    BY <2>2, <2>3, <2>4 DEF w, count
<1> QED
  BY <1>1, <1>2

\* The program is loaded into an empty machine.
LEMMA BusStarts ==
    ASSUME NEW image \in Seq(Segment), BusInit(image)
    PROVE  BusInv(bus, flat, dials)
<1>1. Zeros(4) \in Word
  BY DEF Zeros, Word, Zero, Byte
<1>2. /\ DOMAIN bus = BusFields
      /\ bus.sections = to_memory(image)
      /\ bus.leds = [reg \in LedRegisters |-> Zeros(4)]
      /\ bus.led_view = [reg \in LedRegisters |-> Zeros(4)]
      /\ bus.knobs = {}
      /\ bus.fb_data = [o \in 0 .. get_fb_size_bytes - 1 |-> Zero]
      /\ bus.lcd_view = [p \in (0 .. FbWidth - 1) \X (0 .. FbHeight - 1) |-> Zeros(2)]
      /\ bus.changes = 0
      /\ bus.program = image
      /\ flat = FlatImage(image) /\ dials = {}
  BY DEF BusInit, BusFields
<1>3. Agrees(bus.sections, flat)
  BY <1>2, LoadedAgrees
<1>4. bus.fb_data \in [0 .. get_fb_size_bytes - 1 -> Byte]
  BY <1>2 DEF Zero, Byte
<1>5. LcdShown(bus)
  <2>1. ASSUME NEW x \in 0 .. FbWidth - 1, NEW y \in 0 .. FbHeight - 1
        PROVE  bus.lcd_view[<<x, y>>] = <<bus.fb_data[PixelAt(x, y)], bus.fb_data[PixelAt(x, y) + 1]>>
    <3>1. PixelAt(x, y) \in Nat /\ PixelAt(x, y) + 1 < get_fb_size_bytes /\ get_fb_size_bytes \in Nat
      BY PixelAddress, FrameBuffer
    <3>2. bus.fb_data[PixelAt(x, y)] = Zero /\ bus.fb_data[PixelAt(x, y) + 1] = Zero
      BY <1>2, <3>1
    <3>3. bus.lcd_view[<<x, y>>] = Zeros(2)
      BY <1>2
    <3>4. Zeros(2) = <<Zero, Zero>>
      BY DEF Zeros
    <3> QED
      BY <3>2, <3>3, <3>4
  <2> QED
    BY <1>2, <2>1 DEF LcdShown
<1> QED
  BY <1>1, <1>2, <1>3, <1>4, <1>5 DEF BusInv

\* The program is loaded again.
LEMMA BusRestarts ==
    ASSUME NEW b, NEW f, NEW d, BusInv(b, f, d)
    PROVE  LET w == [b EXCEPT !.sections = to_memory(b.program)]
           IN  /\ BusInv(w, FlatImage(b.program), d)
               /\ w.changes = b.changes /\ w.program = b.program
<1> DEFINE new == to_memory(b.program)
           w == [b EXCEPT !.sections = new]
<1>1. Agrees(new, FlatImage(b.program))
  BY LoadedAgrees DEF BusInv
<1> HIDE DEF new
<1>2. /\ DOMAIN w = BusFields /\ w.sections = new
      /\ w.leds = b.leds /\ w.led_view = b.led_view /\ w.knobs = b.knobs
      /\ w.fb_data = b.fb_data /\ w.lcd_view = b.lcd_view /\ w.program = b.program
      /\ w.changes = b.changes
  BY DEF BusInv, BusFields
<1> HIDE DEF w
<1>3. BusInv(w, FlatImage(b.program), d)
  BY <1>1, <1>2 DEF BusInv, LcdShown
<1> QED
  BY <1>2, <1>3 DEF w, new

\* What is true of the bus implies that words are flat ...
LEMMA WordsFollow ==
    ASSUME BusInv(bus, flat, dials)
    PROVE  WordsAreFlat
<1> SUFFICES ASSUME NEW a \in {Unit(x, 4) : x \in DOMAIN flat} \cup {SectionSize * s : s \in DOMAIN bus.sections},
                    a + 3 <= RamLast
             PROVE  bus_read(bus, a, 4) = FlatRead(flat, a, 4)
  BY DEF WordsAreFlat
<1>1. /\ IsMemory(bus.sections) /\ DOMAIN flat \subseteq Nat /\ DOMAIN bus.sections \subseteq Nat
      /\ \A x \in Nat : ByteAt(bus.sections, x) = FlatByte(flat, x)
  BY DEF BusInv, Agrees, IsMemory
<1>2. RamLast \in Nat /\ SectionSize \in Nat \ {0} /\ SectionSize % 4 = 0
  BY BusAssumption
<1>3. a \in Nat /\ a % 4 = 0
  <2>1. ASSUME NEW x \in DOMAIN flat, a = Unit(x, 4) PROVE a \in Nat /\ a % 4 = 0
    <3>1. x \in Nat
      BY <1>1
    <3> QED
      BY <2>1, <3>1 DEF Unit
  <2>2. ASSUME NEW s \in DOMAIN bus.sections, a = SectionSize * s PROVE a \in Nat /\ a % 4 = 0
    <3> DEFINE m == SectionSize \div 4
    <3>1. s \in Nat
      BY <1>1
    <3>2. m \in Nat /\ SectionSize = 4 * m
      BY <1>2
    <3> HIDE DEF m
    <3> DEFINE p == m * s
    <3>3. p \in Nat /\ a = 4 * p
      BY <2>2, <3>1, <3>2
    <3> HIDE DEF p
    <3> QED
      BY <3>3
  <2> QED
    BY <2>1, <2>2
<1>4. Device(a) = "mem"
  <2>1. a <= RamLast
    BY <1>2, <1>3
  <2> QED
    BY <1>3, <2>1, Devices
<1>5. bus_read(bus, a, 4) = memory_read(bus.sections, a, 4)
  BY <1>4 DEF bus_read
<1>6. memory_read(bus.sections, a, 4) = [k \in 1 .. 4 |-> ByteAt(bus.sections, a + k - 1)]
  BY <1>1, <1>3, AlignedRead
<1>7. FlatRead(flat, a, 4) = [k \in 1 .. 4 |-> FlatByte(flat, a + k - 1)]
  BY DEF FlatRead, FlatByte
<1>8. \A k \in 1 .. 4 : a + k - 1 \in Nat
  BY <1>3
<1>9. \A k \in 1 .. 4 : ByteAt(bus.sections, a + k - 1) = FlatByte(flat, a + k - 1)
  BY <1>1, <1>8
<1> QED
  BY <1>5, <1>6, <1>7, <1>9

\* A read is made by the device of its first address.
LEMMA DeviceRead ==
    \A b, a, n :
        /\ Device(a) = "perip_spi_led" => bus_read(b, a, n) = led_read(b, a - LedStart, n)
        /\ Device(a) = "perip_lcd_display" => bus_read(b, a, n) = lcd_read(b, a - LcdStart, n)
BY DEF bus_read

\* ... and that the widgets show the devices.
LEMMA DevicesFollow ==
    ASSUME BusInv(bus, flat, dials)
    PROVE  DevicesShown
<1>1. /\ LedStart \in Nat /\ LcdStart \in Nat /\ get_fb_size_bytes \in Nat
  BY BusAssumption, FrameBuffer
<1>2. ASSUME NEW reg \in {LED_LINE, LED_RGB1, LED_RGB2, KNOBS_8BIT}
      PROVE  bus_read(bus, LedStart + reg, 4) = led_read_reg(bus, reg)
  <2>1. reg \in Nat /\ reg <= 255 /\ reg % 4 = 0
    BY DEF LED_LINE, LED_RGB1, LED_RGB2, KNOBS_8BIT
  <2>2. Device(LedStart + reg) = "perip_spi_led"
    <3>1. LedStart + reg \in Nat /\ LedStart + reg \in LedStart .. LedStart + 255
      BY <1>1, <2>1
    <3> QED
      BY <3>1, Devices
  <2>3. (LedStart + reg) - LedStart = reg
    BY <1>1, <2>1
  <2>4. bus_read(bus, LedStart + reg, 4) = led_read(bus, reg, 4)
    <3> DEFINE a == LedStart + reg
    <3>1. Device(a) = "perip_spi_led" /\ a - LedStart = reg
      BY <2>2, <2>3
    <3> HIDE DEF a
    <3>2. bus_read(bus, a, 4) = led_read(bus, reg, 4)
      BY <3>1, DeviceRead
    <3> QED
      BY <3>2 DEF a
  <2>5. \A k \in 1 .. 4 : Unit(reg + k - 1, 4) = reg /\ 1 + ((reg + k - 1) % 4) = k
    BY <2>1 DEF Unit
  <2>6. reg \in Units(4, reg, 4)
    BY <2>5 DEF Units
  <2>7. led_read(bus, reg, 4) = [k \in 1 .. 4 |-> led_read_reg(bus, reg)[k]]
    BY <2>5, <2>6 DEF led_read, read_by
  <2>8. led_read_reg(bus, reg) \in Word
    <3>1. bus.leds \in [LedRegisters -> Word]
      BY DEF BusInv
    <3>2. WordBytes(bus.knobs) \in Word
      BY DEF WordBytes, Word, Byte
    <3>3. Zeros(4) \in Word
      BY DEF Zeros, Word, Zero, Byte
    <3> QED
      BY <3>1, <3>2, <3>3 DEF led_read_reg
  <2> QED
    BY <2>4, <2>7, <2>8 DEF Word
<1>3. bus.led_view = [reg \in LedRegisters |-> bus_read(bus, LedStart + reg, 4)]
  <2>1. bus.led_view = bus.leds /\ bus.leds \in [LedRegisters -> Word]
    BY DEF BusInv
  <2>2. \A reg \in LedRegisters : bus_read(bus, LedStart + reg, 4) = bus.leds[reg]
    BY <1>2 DEF LedRegisters, led_read_reg
  <2> QED
    BY <2>1, <2>2
<1>4. WordBits(bus_read(bus, LedStart + KNOBS_8BIT, 4)) = dials
  <2>1. bus.knobs = dials /\ dials \subseteq 0 .. 31
    BY DEF BusInv
  <2>2. bus_read(bus, LedStart + KNOBS_8BIT, 4) = WordBytes(dials)
    BY <1>2, <2>1 DEF led_read_reg, LedRegisters, LED_LINE, LED_RGB1, LED_RGB2, KNOBS_8BIT
  <2>3. ASSUME NEW i \in 1 .. 4, NEW b \in WordBytes(dials)[i] PROVE 8 * (i - 1) + b \in dials
    BY DEF WordBytes
  <2>4. ASSUME NEW x \in dials
        PROVE  \E i \in 1 .. 4 : \E b \in WordBytes(dials)[i] : x = 8 * (i - 1) + b
    <3> DEFINE i == (x \div 8) + 1
               b == x % 8
    <3>1. x \in 0 .. 31
      BY <2>1
    <3>2. i \in 1 .. 4 /\ b \in 0 .. 7 /\ x = 8 * (i - 1) + b
      BY <3>1
    <3> HIDE DEF i, b
    <3>3. b \in WordBytes(dials)[i]
      BY <3>2 DEF WordBytes
    <3> QED
      BY <3>2, <3>3
  <2>5. WordBits(WordBytes(dials)) = dials
    BY <2>3, <2>4 DEF WordBits
  <2> QED
    BY <2>2, <2>5
<1>5. ASSUME NEW x \in 0 .. FbWidth - 1, NEW y \in 0 .. FbHeight - 1
      PROVE  bus.lcd_view[<<x, y>>] = bus_read(bus, LcdStart + (2 * (y * FbWidth + x)), 2)
  <2> DEFINE o == PixelAt(x, y)
  <2>1. o \in Nat /\ o % 2 = 0 /\ o + 1 < get_fb_size_bytes
    BY PixelAddress
  <2>2. 2 * (y * FbWidth + x) = o
    BY DEF PixelAt
  <2>3. bus.lcd_view[<<x, y>>] = <<bus.fb_data[o], bus.fb_data[o + 1]>>
    BY DEF BusInv, LcdShown
  <2> HIDE DEF o
  <2>4. Device(LcdStart + o) = "perip_lcd_display"
    <3>1. LcdStart + o \in Nat /\ LcdStart + o \in LcdStart .. LcdStart + get_fb_size_bytes - 1
      BY <1>1, <2>1
    <3> QED
      BY <3>1, Devices
  <2>5. (LcdStart + o) - LcdStart = o
    BY <1>1, <2>1
  <2>6. bus_read(bus, LcdStart + o, 2) = lcd_read(bus, o, 2)
    <3> DEFINE a == LcdStart + o
    <3>1. Device(a) = "perip_lcd_display" /\ a - LcdStart = o
      BY <2>4, <2>5
    <3> HIDE DEF a
    <3>2. bus_read(bus, a, 2) = lcd_read(bus, o, 2)
      BY <3>1, DeviceRead
    <3> QED
      BY <3>2 DEF a
  <2>7. \A k \in 1 .. 2 : Unit(o + k - 1, 2) = o /\ 1 + ((o + k - 1) % 2) = k
    BY <2>1 DEF Unit
  <2>8. o \in Units(2, o, 2)
    BY <2>7 DEF Units
  <2>9. lcd_read(bus, o, 2) = [k \in 1 .. 2 |-> read_raw_pixel(bus, o)[k]]
    BY <2>7, <2>8 DEF lcd_read, read_by
  <2>10. read_raw_pixel(bus, o) = <<bus.fb_data[o], bus.fb_data[o + 1]>>
    BY <1>1, <2>1 DEF read_raw_pixel
  <2>11. lcd_read(bus, o, 2) = <<bus.fb_data[o], bus.fb_data[o + 1]>>
    BY <2>9, <2>10
  <2> QED
    BY <2>2, <2>3, <2>6, <2>11
<1> QED
  BY <1>3, <1>4, <1>5 DEF DevicesShown

(***************************************************************************)
(* The tables of the windows                                               *)
(***************************************************************************)
\* Where a table is moved to, in numbers: s bytes in a cell, c cells in a row, and the
\* address to show.
LEMMA TableMoves ==
    ASSUME NEW s \in {1, 2, 4}, NEW c \in Nat \ {0}, NEW address \in Nat
    PROVE  LET R == s * c
               a == address - (address % s)
               half == (RowCount \div 2) * R
               off == IF half <= a THEN a - half ELSE IF a \div R = 0 THEN 0 ELSE a - (a \div R) * R
               r == (a - off) \div R
           IN  /\ R \in Nat \ {0} /\ a \in Nat /\ off \in Nat /\ off % s = 0 /\ off <= a
               /\ r \in 0 .. RowCount \div 2
               /\ address \in off + r * R .. off + r * R + (R - 1)
               /\ address % s = 0 /\ address >= R => off + r * R = address
               /\ address = 0 => off = 0 /\ r = 0
<1> DEFINE R == s * c
           a == address - (address % s)
           h == RowCount \div 2
           half == h * R
           row == a \div R
           off == IF half <= a THEN a - half ELSE IF row = 0 THEN 0 ELSE a - row * R
           r == (a - off) \div R
           p == address \div s
<1>1. h \in Nat /\ h >= 4
  BY ViewAssumption
<1>2. R \in Nat \ {0} /\ s <= R /\ R = s * c
  OBVIOUS
<1>3. /\ a \in Nat /\ a <= address /\ address <= a + (s - 1) /\ (address % s = 0 => a = address)
      /\ p \in Nat /\ a = s * p
  OBVIOUS
<1> HIDE DEF R, a, h, p
<1>4. half = h * R /\ half \in Nat /\ half >= 4
  BY <1>1, <1>2
<1>5. row \in Nat /\ a % R \in 0 .. R - 1 /\ a = row * R + (a % R)
  BY <1>2, <1>3, DivMod
<1>6. off = IF half <= a THEN a - half ELSE IF row = 0 THEN 0 ELSE a - row * R
  OBVIOUS
<1>7. r = (a - off) \div R
  OBVIOUS
<1> HIDE DEF half, row, off, r
<1>8. ASSUME NEW k \in Nat PROVE (k * R) \div R = k /\ k * R \in Nat
  <2> DEFINE x == k * R
  <2>1. x \in Nat /\ x = k * R + 0 /\ 0 \in 0 .. R - 1
    BY <1>2
  <2> HIDE DEF x
  <2>2. x \div R = k
    BY <1>2, <2>1, DivUnique
  <2> QED
    BY <2>1, <2>2 DEF x
<1>9. ASSUME NEW k \in Nat, NEW x \in Nat, a = x + k * R PROVE x % s = 0
  <2> DEFINE m == k * c
             q == p - m
  <2>1. m \in Nat /\ k * R = s * m
    BY <1>2
  <2>2. x = s * q /\ q \in Int
    BY <1>3, <1>9, <2>1
  <2> HIDE DEF m, q
  <2> QED
    BY <2>2
\* The conclusions follow once the row of the address is known.
<1>10. ASSUME NEW k \in 0 .. h, off \in Nat, a = off + k * R
       PROVE  /\ off % s = 0 /\ off <= a /\ r = k
              /\ address \in off + r * R .. off + r * R + (R - 1)
              /\ address % s = 0 => off + r * R = address
  <2>1. k \in Nat /\ k * R \in Nat /\ (k * R) \div R = k
    BY <1>1, <1>8
  <2>2. a - off = k * R
    BY <1>10, <2>1
  <2>3. r = k
    BY <1>7, <2>1, <2>2
  <2>4. off % s = 0
    BY <1>9, <1>10, <2>1
  <2> DEFINE z == k * R
  <2>5. z \in Nat /\ a = off + z /\ r * R = z
    BY <1>10, <2>1, <2>3
  <2> HIDE DEF z
  <2> QED
    BY <1>2, <1>3, <1>10, <2>3, <2>4, <2>5
<1>11. CASE half <= a
  <2>1. off = a - half /\ off \in Nat
    BY <1>3, <1>4, <1>6, <1>11
  <2>2. a = off + h * R
    BY <1>3, <1>4, <2>1
  <2>3. address # 0
    BY <1>3, <1>4, <1>11
  <2>4. h \in 0 .. h
    BY <1>1
  <2>5. /\ off % s = 0 /\ off <= a /\ r = h
        /\ address \in off + r * R .. off + r * R + (R - 1)
        /\ address % s = 0 => off + r * R = address
    BY <1>10, <2>1, <2>2, <2>4
  <2> QED
    BY <1>2, <1>3, <2>1, <2>3, <2>4, <2>5 DEF R, a, half, off, row, r, h
<1>12. CASE ~(half <= a) /\ row = 0
  <2>1. off = 0 /\ a - off = a
    BY <1>3, <1>6, <1>12
  <2>2. a < R
    <3>1. 0 * R = 0
      BY <1>2
    <3> QED
      BY <1>2, <1>3, <1>5, <1>12, <3>1
  <2>3. a + s <= R
    BY <1>2, <1>3, <2>2
  <2>4. r = 0
    BY <1>7, <1>12, <2>1 DEF row
  <2>5. r * R = 0
    BY <1>2, <2>4
  <2>6. ~(address >= R)
    BY <1>2, <1>3, <2>3
  <2>7. address \in off + r * R .. off + r * R + (R - 1)
    BY <1>2, <1>3, <2>1, <2>3, <2>5
  <2>8. off % s = 0 /\ off <= a /\ r \in 0 .. h
    BY <1>1, <1>3, <2>1, <2>4
  <2> QED
    BY <1>2, <1>3, <2>1, <2>4, <2>6, <2>7, <2>8 DEF R, a, half, off, row, r, h
<1>13. CASE ~(half <= a) /\ row # 0
  <2> DEFINE z == row * R
  <2>1. z \in Nat /\ a = z + (a % R) /\ z >= R
    <3>1. z >= R
      <4>1. 0 * R + R <= row * R
        BY <1>2, <1>5, <1>13, MultiplesApart
      <4>2. 0 * R + R = R
        BY <1>2
      <4> QED
        BY <4>1, <4>2
    <3> QED
      BY <1>5, <1>8, <3>1
  <2>2. row <= h
    <3> SUFFICES ASSUME h < row PROVE FALSE
      BY <1>1, <1>5
    <3>1. h * R + R <= z
      BY <1>1, <1>2, <1>5, MultiplesApart
    <3> HIDE DEF z
    <3> QED
      BY <1>2, <1>3, <1>4, <1>5, <1>13, <2>1, <3>1
  <2>3. off = a - z
    BY <1>6, <1>13
  <2> HIDE DEF z
  <2>4. off \in Nat /\ a = off + z /\ address # 0
    BY <1>2, <1>3, <1>5, <2>1, <2>3
  <2>5. a = off + row * R
    BY <2>4 DEF z
  <2>6. row \in 0 .. h
    BY <1>1, <1>5, <2>2
  <2>7. /\ off % s = 0 /\ off <= a /\ r = row
        /\ address \in off + r * R .. off + r * R + (R - 1)
        /\ address % s = 0 => off + r * R = address
    BY <1>10, <2>4, <2>5, <2>6
  <2> QED
    BY <1>2, <1>3, <2>4, <2>6, <2>7 DEF R, a, half, off, row, r, h
<1> QED
  BY <1>11, <1>12, <1>13

ViewFields == {"size", "cells", "offset", "top", "row", "counter", "shown", "stage", "top_aim",
               "aim", "told", "replaced"}

\* A table has cells of one, two or four bytes.
IsTable(v) == DOMAIN v = ViewFields /\ v.size \in {1, 2, 4} /\ v.cells \in Nat \ {0}

\* It starts at a multiple of the cell size; the row at the top and the current row hold
\* the addresses they were set for.
ViewPlaces(v) ==
    /\ IsTable(v)
    /\ v.offset \in Nat /\ v.offset % v.size = 0
    /\ v.top \in Nat /\ InRow(v, v.top, v.top_aim)
    /\ v.row \in Nat \cup {-1} /\ (v.row # -1 => InRow(v, v.row, v.aim))

\* It is painted with what the bus reads when it has seen the last change or was told of it.
ViewPainted(v, b) ==
    /\ v.counter \in Nat /\ v.counter <= b.changes
    /\ ~v.replaced /\ v.counter = b.changes => v.shown = data(v, b)
    /\ v.told /\ ~v.replaced => v.shown = data(v, b)

ViewInv(v, b) == ViewPlaces(v) /\ ViewPainted(v, b)

\* Rows have at least one byte, and as many as a multiple of the cell size.
LEMMA RowBytesFacts ==
    ASSUME NEW v, IsTable(v)
    PROVE  RowBytes(v) \in Nat \ {0} /\ RowBytes(v) = v.size * v.cells /\ RowBytes(v) % v.size = 0
<1>1. RowBytes(v) = v.size * v.cells
  BY DEF RowBytes
<1>2. v.size \in {1, 2, 4} /\ v.cells \in Nat \ {0}
  BY DEF IsTable
<1> DEFINE s == v.size
           c == v.cells
<1>3. s \in {1, 2, 4} /\ c \in Nat \ {0}
  BY <1>2
<1> HIDE DEF s, c
<1>4. s * c \in Nat \ {0} /\ (s * c) % s = 0
  BY <1>3
<1> QED
  BY <1>1, <1>4 DEF s, c

\* The address of a row is a multiple of the cell size.
LEMMA RowAddress ==
    ASSUME NEW v, IsTable(v), v.offset \in Nat, v.offset % v.size = 0, NEW r \in Nat
    PROVE  /\ r * RowBytes(v) \in Nat
           /\ get_row_address(v, r) = v.offset + r * RowBytes(v)
           /\ get_row_address(v, r) \in Nat /\ get_row_address(v, r) % v.size = 0
<1> DEFINE s == v.size
           c == v.cells
           o == v.offset
           m == r * c
<1>1. s \in {1, 2, 4} /\ c \in Nat \ {0} /\ o \in Nat /\ o % s = 0
  BY DEF IsTable
<1>2. RowBytes(v) = s * c
  BY DEF RowBytes
<1> HIDE DEF s, c, o
<1>3. m \in Nat /\ r * (s * c) = s * m
  BY <1>1
<1> HIDE DEF m
<1>4. s * m \in Nat /\ o + s * m \in Nat /\ (o + s * m) % s = 0
  BY <1>1, <1>3
<1>5. get_row_address(v, r) = o + r * RowBytes(v)
  BY DEF get_row_address, o
<1> QED
  BY <1>2, <1>3, <1>4, <1>5 DEF s, o

\* The cells of a table are at multiples of their size.
LEMMA CellsAligned ==
    ASSUME NEW v, IsTable(v), v.offset \in Nat, v.offset % v.size = 0
    PROVE  \A a \in CellsOf(v) : a \in Nat /\ a % v.size = 0
<1> SUFFICES ASSUME NEW r \in 0 .. RowCount - 1, NEW c \in 0 .. v.cells - 1
             PROVE  LET a == get_row_address(v, r) + v.size * c IN a \in Nat /\ a % v.size = 0
  BY DEF CellsOf
<1> DEFINE s == v.size
           g == get_row_address(v, r)
<1>1. r \in Nat /\ c \in Nat
  BY ViewAssumption DEF IsTable
<1>2. g \in Nat /\ g % s = 0
  BY <1>1, RowAddress
<1>3. s \in {1, 2, 4}
  BY DEF IsTable
<1> HIDE DEF s, g
<1>4. g + s * c \in Nat /\ (g + s * c) % s = 0
  BY <1>1, <1>2, <1>3
<1> QED
  BY <1>4 DEF s, g

\* Two views of the same table show the same.
LEMMA SameTable ==
    ASSUME NEW v, NEW w, w.size = v.size, w.cells = v.cells, w.offset = v.offset
    PROVE  /\ RowBytes(w) = RowBytes(v)
           /\ \A b : data(w, b) = data(v, b)
           /\ \A r, a : InRow(w, r, a) = InRow(v, r, a)
           /\ \A r : get_row_address(w, r) = get_row_address(v, r)
<1>1. RowBytes(w) = RowBytes(v)
  BY DEF RowBytes
<1>2. \A r : get_row_address(w, r) = get_row_address(v, r)
  BY <1>1 DEF get_row_address
<1>3. CellsOf(w) = CellsOf(v)
  BY <1>2 DEF CellsOf
<1>4. \A b : data(w, b) = data(v, b)
  BY <1>3 DEF data
<1>5. \A r, a : InRow(w, r, a) = InRow(v, r, a)
  BY <1>1, <1>2 DEF InRow
<1> QED
  BY <1>1, <1>2, <1>4, <1>5

\* Buses that give the same aligned reads give the same table.
SameAligned(w, b) ==
    \A n \in {1, 2, 4}, x \in Nat : x % n = 0 => bus_read(w, x, n) = bus_read(b, x, n)

LEMMA SameData ==
    ASSUME NEW v, IsTable(v), v.offset \in Nat, v.offset % v.size = 0,
           NEW b, NEW w, SameAligned(w, b)
    PROVE  data(v, w) = data(v, b)
<1>1. \A a \in CellsOf(v) : a \in Nat /\ a % v.size = 0
  BY CellsAligned
<1>2. v.size \in {1, 2, 4}
  BY DEF IsTable
<1>3. \A a \in CellsOf(v) : bus_read(w, a, v.size) = bus_read(b, a, v.size)
  BY <1>1, <1>2 DEF SameAligned
<1> QED
  BY <1>3 DEF data

\* update_all: the cells are painted, the rest of the view stays.
LEMMA UpdatedAll ==
    ASSUME NEW v, DOMAIN v = ViewFields, NEW b
    PROVE  LET u == update_all(v, b)
           IN  /\ DOMAIN u = ViewFields
               /\ u.size = v.size /\ u.cells = v.cells /\ u.offset = v.offset
               /\ u.top = v.top /\ u.row = v.row /\ u.top_aim = v.top_aim /\ u.aim = v.aim
               /\ u.counter = b.changes /\ u.shown = data(v, b) /\ u.replaced = FALSE
               /\ u.told = v.told
<1> DEFINE d == data(v, b)
           p == [v EXCEPT !.shown = d]
           u == update_all(v, b)
<1>1. u = [p EXCEPT !.counter = b.changes, !.replaced = FALSE]
  BY DEF update_all, Painted
<1> HIDE DEF d, u
<1>2. /\ DOMAIN p = ViewFields
      /\ p.size = v.size /\ p.cells = v.cells /\ p.offset = v.offset
      /\ p.top = v.top /\ p.row = v.row /\ p.top_aim = v.top_aim /\ p.aim = v.aim
      /\ p.shown = d
  BY DEF ViewFields
<1>3. p.told = v.told
  BY Zenon DEF ViewFields
<1> HIDE DEF p
<1>4. /\ DOMAIN u = ViewFields
      /\ u.size = p.size /\ u.cells = p.cells /\ u.offset = p.offset
      /\ u.top = p.top /\ u.row = p.row /\ u.top_aim = p.top_aim /\ u.aim = p.aim
      /\ u.shown = p.shown /\ u.counter = b.changes
  BY <1>1, <1>2 DEF ViewFields
<1>5. u.told = p.told /\ u.replaced = FALSE
  BY <1>1, <1>2, Zenon DEF ViewFields
<1>6. /\ u.size = v.size /\ u.cells = v.cells /\ u.offset = v.offset
      /\ u.top = v.top /\ u.row = v.row /\ u.top_aim = v.top_aim /\ u.aim = v.aim
      /\ u.shown = data(v, b)
  BY <1>2, <1>4 DEF d
<1>7. u.told = v.told
  BY <1>3, <1>5
<1> QED
  BY <1>4, <1>5, <1>6, <1>7 DEF u

\* A view whose places are right is right after update_all.
LEMMA RightAfterUpdate ==
    ASSUME NEW v, ViewPlaces(v), NEW b, b.changes \in Nat
    PROVE  ViewInv(update_all(v, b), b)
<1> DEFINE u == update_all(v, b)
<1>1. IsTable(v) /\ DOMAIN v = ViewFields
  BY DEF ViewPlaces, IsTable
<1>2. /\ DOMAIN u = ViewFields
      /\ u.size = v.size /\ u.cells = v.cells /\ u.offset = v.offset
      /\ u.top = v.top /\ u.row = v.row /\ u.top_aim = v.top_aim /\ u.aim = v.aim
      /\ u.counter = b.changes /\ u.shown = data(v, b)
  BY <1>1, UpdatedAll
<1> HIDE DEF u
<1>3. data(u, b) = data(v, b) /\ \A r, a : InRow(u, r, a) = InRow(v, r, a)
  BY <1>2, SameTable
<1>4. ViewPlaces(u)
  <2>1. IsTable(u)
    BY <1>1, <1>2 DEF IsTable
  <2>2. InRow(u, u.top, u.top_aim)
    BY <1>2, <1>3 DEF ViewPlaces
  <2>3. u.row # -1 => InRow(u, u.row, u.aim)
    BY <1>2, <1>3 DEF ViewPlaces
  <2> QED
    BY <1>2, <2>1, <2>2, <2>3 DEF ViewPlaces
<1>5. u.counter \in Nat /\ u.counter <= b.changes
  BY <1>2
<1>6. u.shown = data(u, b)
  BY <1>2, <1>3
<1>7. ViewPainted(u, b)
  BY <1>5, <1>6, Zenon DEF ViewPainted
<1> QED
  BY <1>4, <1>7 DEF ViewInv, u

\* adjustRowAndOffset: only the offset moves, and the row it gives holds the address.
LEMMA Adjusted ==
    ASSUME NEW v, IsTable(v), NEW address \in Nat
    PROVE  LET w == adjustRowAndOffset(v, address)[1]
               r == adjustRowAndOffset(v, address)[2]
           IN  /\ DOMAIN w = ViewFields
               /\ w.size = v.size /\ w.cells = v.cells
               /\ w.top = v.top /\ w.row = v.row /\ w.top_aim = v.top_aim /\ w.aim = v.aim
               /\ w.counter = v.counter
               /\ w.told = v.told /\ w.replaced = v.replaced
               /\ w.offset \in Nat /\ w.offset % v.size = 0
               /\ r \in 0 .. RowCount - 1
               /\ InRow(w, r, address)
               /\ address % v.size = 0 /\ address >= RowBytes(v) => get_row_address(w, r) = address
               /\ address = 0 => w.offset = 0 /\ r = 0
<1> DEFINE s == v.size
           c == v.cells
           R == s * c
           a == address - (address % s)
           half == (RowCount \div 2) * R
           off == IF half <= a THEN a - half ELSE IF a \div R = 0 THEN 0 ELSE a - (a \div R) * R
           r == (a - off) \div R
           w == [v EXCEPT !.offset = off]
<1>1. s \in {1, 2, 4} /\ c \in Nat \ {0} /\ DOMAIN v = ViewFields
  BY DEF IsTable
<1>2. /\ R \in Nat \ {0} /\ a \in Nat /\ off \in Nat /\ off % s = 0 /\ off <= a
      /\ r \in 0 .. RowCount \div 2
      /\ address \in off + r * R .. off + r * R + (R - 1)
      /\ address % s = 0 /\ address >= R => off + r * R = address
      /\ address = 0 => off = 0 /\ r = 0
  <2> HIDE DEF s, c
  <2> QED
    BY <1>1, TableMoves, ZenonT(60)
<1>3. RowBytes(v) = R
  BY DEF RowBytes
<1>4. adjustRowAndOffset(v, address) = <<w, get_row_for_address(w, a)[2]>>
  BY <1>3 DEF adjustRowAndOffset
<1>5. r = (a - off) \div R
  OBVIOUS
<1> HIDE DEF R, a, half, off, r
<1>6. /\ DOMAIN w = ViewFields
      /\ w.size = v.size /\ w.cells = v.cells /\ w.offset = off
      /\ w.top = v.top /\ w.row = v.row /\ w.top_aim = v.top_aim /\ w.aim = v.aim
      /\ w.counter = v.counter
  BY <1>1 DEF ViewFields
<1>7. w.told = v.told /\ w.replaced = v.replaced
  BY <1>1, Zenon DEF ViewFields
<1> HIDE DEF w
<1>8. RowBytes(w) = R
  BY <1>3, <1>6 DEF RowBytes
<1>9. r \in 0 .. RowCount - 1 /\ ~(r > RowCount) /\ RowCount \in Nat
  BY <1>2, ViewAssumption
<1>10. get_row_for_address(w, a)[2] = r
  <2>1. ~(a < w.offset) /\ (a - w.offset) \div RowBytes(w) = r
    BY <1>2, <1>5, <1>6, <1>8
  <2>2. get_row_for_address(w, a) = <<TRUE, r>>
    BY <1>9, <2>1, Zenon DEF get_row_for_address
  <2> QED
    BY <2>2
<1>11. adjustRowAndOffset(v, address)[1] = w /\ adjustRowAndOffset(v, address)[2] = r
  BY <1>4, <1>10
<1>12. get_row_address(w, r) = off + r * R
  BY <1>6, <1>8 DEF get_row_address
<1>13. InRow(w, r, address)
  <2> DEFINE z == off + r * R
  <2>1. z \in Nat /\ address \in z .. z + (R - 1)
    BY <1>2, <1>9
  <2> HIDE DEF z
  <2>2. address \in z .. z + R - 1
    BY <1>2, <2>1
  <2> QED
    BY <1>8, <1>12, <2>2 DEF InRow, z
<1> QED
  BY <1>2, <1>3, <1>6, <1>7, <1>9, <1>11, <1>12, <1>13

\* go_to_address: the row at the top and the current row hold the address.
LEMMA GoneTo ==
    ASSUME NEW v, IsTable(v), NEW a \in Nat, NEW b, b.changes \in Nat
    PROVE  ViewInv(go_to_address(v, b, a), b)
<1> DEFINE m == adjustRowAndOffset(v, a)[1]
           r == adjustRowAndOffset(v, a)[2]
           w == [m EXCEPT !.top = r, !.row = r, !.top_aim = a, !.aim = a]
<1>1. /\ DOMAIN m = ViewFields /\ m.size = v.size /\ m.cells = v.cells
      /\ m.offset \in Nat /\ m.offset % v.size = 0
      /\ r \in 0 .. RowCount - 1
      /\ InRow(m, r, a)
  BY Adjusted
<1>2. go_to_address(v, b, a) = update_all(w, b)
  BY DEF go_to_address
<1> HIDE DEF m, r
<1>3. /\ DOMAIN w = ViewFields /\ w.size = m.size /\ w.cells = m.cells /\ w.offset = m.offset
      /\ w.top = r /\ w.row = r /\ w.top_aim = a /\ w.aim = a
  BY <1>1 DEF ViewFields
<1> HIDE DEF w
<1>4. InRow(w, r, a)
  BY <1>1, <1>3, SameTable
<1>5. r \in Nat
  BY <1>1, ViewAssumption
<1>6. ViewPlaces(w)
  <2>1. IsTable(w)
    BY <1>1, <1>3 DEF IsTable
  <2>2. w.offset \in Nat /\ w.offset % w.size = 0
    BY <1>1, <1>3
  <2> QED
    BY <1>3, <1>4, <1>5, <2>1, <2>2 DEF ViewPlaces
<1> QED
  BY <1>2, <1>6, RightAfterUpdate

\* A view painted like another one.
LEMMA PaintedAlike ==
    ASSUME NEW v, NEW u, NEW b, ViewPainted(v, b),
           u.size = v.size, u.cells = v.cells, u.offset = v.offset,
           u.counter = v.counter, u.shown = v.shown, u.told = v.told, u.replaced = v.replaced
    PROVE  ViewPainted(u, b)
<1>1. data(u, b) = data(v, b)
  BY SameTable
<1> QED
  BY <1>1, Zenon DEF ViewPainted

\* The row an address is found in holds it.
LEMMA FoundRow ==
    ASSUME NEW v, IsTable(v), v.offset \in Nat, NEW a \in Nat, get_row_for_address(v, a)[1]
    PROVE  get_row_for_address(v, a)[2] \in Nat /\ InRow(v, get_row_for_address(v, a)[2], a)
<1> DEFINE R == RowBytes(v)
           off == v.offset
           row == (a - off) \div R
           found == get_row_for_address(v, a)
<1>1. R \in Nat \ {0} /\ off \in Nat
  BY RowBytesFacts
<1>2. found = IF a < off THEN <<FALSE, -1>>
              ELSE IF row > RowCount THEN <<FALSE, RowCount>> ELSE <<TRUE, row>>
  BY DEF get_row_for_address
<1>3. get_row_address(v, row) = off + row * R
  BY DEF get_row_address
<1>4. row = (a - off) \div R
  OBVIOUS
<1> HIDE DEF R, off, row
<1>5. ~(a < off) /\ found[2] = row
  <2>1. found[1]
    OBVIOUS
  <2> HIDE DEF found
  <2>2. CASE a < off
    BY <1>2, <2>1, <2>2, Zenon
  <2>3. CASE ~(a < off) /\ row > RowCount
    BY <1>2, <2>1, <2>3, Zenon
  <2>4. CASE ~(a < off) /\ ~(row > RowCount)
    <3>1. found = <<TRUE, row>>
      BY <1>2, <2>4, Zenon
    <3> QED
      BY <2>4, <3>1
  <2> QED
    BY <2>2, <2>3, <2>4
<1> DEFINE x == a - off
<1>6. x \in Nat
  BY <1>1, <1>5
<1>7. row = x \div R
  BY <1>4
<1>8. a = off + x
  BY <1>1
<1> HIDE DEF x
<1>9. row \in Nat /\ x % R \in 0 .. R - 1 /\ x = row * R + (x % R)
  BY <1>1, <1>6, <1>7, DivMod
<1>10. a \in off + row * R .. off + row * R + R - 1
  <2> DEFINE z == row * R
             y == x % R
  <2>1. z \in Nat /\ y \in 0 .. R - 1 /\ x = z + y
    BY <1>1, <1>9
  <2> HIDE DEF z, y
  <2>2. a \in off + z .. off + z + R - 1
    BY <1>1, <1>8, <2>1
  <2> QED
    BY <2>2 DEF z
<1>11. InRow(v, row, a)
  BY <1>3, <1>10 DEF InRow, R
<1> QED
  BY <1>5, <1>9, <1>11

\* focus_address: the current row, if there is one, holds the address.
LEMMA Focused ==
    ASSUME NEW v, NEW b, ViewInv(v, b), NEW a \in Nat, b.changes \in Nat
    PROVE  ViewInv(focus_address(v, b, a), b)
<1> DEFINE w == IF get_row_for_address(v, a)[1] THEN v ELSE go_to_address(v, b, a)
           found == get_row_for_address(w, a)
           u == [w EXCEPT !.row = Current(found[2]), !.aim = a]
<1>1. focus_address(v, b, a) = IF found[1] THEN u ELSE w
  BY DEF focus_address
<1>2. ViewInv(w, b)
  <2>1. IsTable(v)
    BY DEF ViewInv, ViewPlaces
  <2>2. ViewInv(go_to_address(v, b, a), b)
    BY <2>1, GoneTo
  <2>3. w = v \/ w = go_to_address(v, b, a)
    OBVIOUS
  <2> HIDE DEF w
  <2> QED
    BY <2>2, <2>3
<1> HIDE DEF w
<1>3. IsTable(w) /\ w.offset \in Nat /\ DOMAIN w = ViewFields
  BY <1>2 DEF ViewInv, ViewPlaces, IsTable
<1>4. ASSUME found[1] PROVE ViewInv(u, b)
  <2> DEFINE r == found[2]
             c == Current(r)
  <2>1. r \in Nat /\ InRow(w, r, a)
    BY <1>3, <1>4, FoundRow
  <2>2. u = [w EXCEPT !.row = c, !.aim = a]
    OBVIOUS
  <2>3. c = r \/ c = -1
    BY DEF Current
  <2> HIDE DEF r, c, u
  <2>4. /\ DOMAIN u = ViewFields /\ u.size = w.size /\ u.cells = w.cells /\ u.offset = w.offset
        /\ u.top = w.top /\ u.row = c /\ u.top_aim = w.top_aim /\ u.aim = a
        /\ u.counter = w.counter /\ u.shown = w.shown
    BY <1>3, <2>2 DEF ViewFields
  <2>5. u.told = w.told /\ u.replaced = w.replaced
    BY <1>3, <2>2, Zenon DEF ViewFields
  <2>6. ViewPainted(u, b)
    BY <1>2, <2>4, <2>5, PaintedAlike DEF ViewInv
  <2>7. \A q, x : InRow(u, q, x) = InRow(w, q, x)
    BY <2>4, SameTable
  <2>8. IsTable(u)
    BY <1>3, <2>4 DEF IsTable
  <2>9. u.offset \in Nat /\ u.offset % u.size = 0 /\ u.top \in Nat
    BY <1>2, <2>4 DEF ViewInv, ViewPlaces
  <2>10. InRow(u, u.top, u.top_aim)
    BY <1>2, <2>4, <2>7 DEF ViewInv, ViewPlaces
  <2>11. u.row \in Nat \cup {-1}
    BY <2>1, <2>3, <2>4
  <2>12. u.row # -1 => InRow(u, u.row, u.aim)
    BY <2>1, <2>3, <2>4, <2>7
  <2> QED
    BY <2>6, <2>8, <2>9, <2>10, <2>11, <2>12 DEF ViewInv, ViewPlaces
<1> HIDE DEF u, found
<1>5. CASE found[1]
  BY <1>1, <1>4, <1>5, Zenon
<1>6. CASE ~found[1]
  BY <1>1, <1>2, <1>6, Zenon
<1> QED
  BY <1>5, <1>6

\* set_cell_size: the address at the top stays there.
LEMMA CellSizeSet ==
    ASSUME NEW v, NEW b, ViewInv(v, b), NEW size \in {1, 2, 4}, NEW cells \in Nat \ {0}
    PROVE  ViewInv(set_cell_size(v, b, size, cells), b)
<1> DEFINE address == get_row_address(v, v.top)
           o == v.offset - (v.offset % size)
           w == [v EXCEPT !.size = size, !.cells = cells, !.offset = o]
           m == adjustRowAndOffset(w, address)[1]
           r == adjustRowAndOffset(w, address)[2]
           n == [m EXCEPT !.top = r, !.row = -1, !.top_aim = address]
           u == [n EXCEPT !.shown = data(n, b)]
<1>1. set_cell_size(v, b, size, cells) = u
  BY DEF set_cell_size, Painted
<1>2. /\ IsTable(v) /\ DOMAIN v = ViewFields /\ v.offset \in Nat /\ v.offset % v.size = 0
      /\ v.top \in Nat
  BY DEF ViewInv, ViewPlaces, IsTable
<1>3. address \in Nat
  BY <1>2, RowAddress
<1> HIDE DEF address, o
<1>4. /\ DOMAIN w = ViewFields /\ w.size = size /\ w.cells = cells /\ w.counter = v.counter
  BY <1>2 DEF ViewFields
<1>5. w.told = v.told /\ w.replaced = v.replaced
  BY <1>2, Zenon DEF ViewFields
<1> HIDE DEF w
<1>6. IsTable(w)
  BY <1>4 DEF IsTable
<1>7. /\ DOMAIN m = ViewFields /\ m.size = size /\ m.cells = cells /\ m.counter = v.counter
      /\ m.offset \in Nat /\ m.offset % size = 0
      /\ r \in 0 .. RowCount - 1
      /\ InRow(m, r, address)
  BY <1>3, <1>4, <1>6, Adjusted
<1> HIDE DEF m, r
<1>9. /\ DOMAIN n = ViewFields /\ n.size = size /\ n.cells = cells /\ n.counter = v.counter
      /\ n.offset = m.offset /\ n.top = r /\ n.row = -1 /\ n.top_aim = address
  BY <1>7 DEF ViewFields
<1> HIDE DEF n
<1>11. /\ DOMAIN u = ViewFields /\ u.size = size /\ u.cells = cells /\ u.counter = v.counter
       /\ u.offset = m.offset /\ u.top = r /\ u.row = -1 /\ u.top_aim = address
       /\ u.shown = data(n, b)
  BY <1>9 DEF ViewFields
<1> HIDE DEF u
<1>13. data(u, b) = data(n, b)
  BY <1>9, <1>11, SameTable
<1>14. InRow(u, r, address)
  BY <1>7, <1>11, SameTable
<1>15. r \in Nat
  BY <1>7, ViewAssumption
<1>16. ViewPlaces(u)
  <2>1. IsTable(u)
    BY <1>11 DEF IsTable
  <2> QED
    BY <1>7, <1>11, <1>14, <1>15, <2>1 DEF ViewPlaces
<1>17. u.counter \in Nat /\ u.counter <= b.changes
  BY <1>11 DEF ViewInv, ViewPainted
<1>18. u.shown = data(u, b)
  BY <1>11, <1>13
<1>19. ViewPainted(u, b)
  BY <1>17, <1>18, Zenon DEF ViewPainted
<1> QED
  BY <1>1, <1>16, <1>19 DEF ViewInv

\* resizeEvent: the address at the top stays there.
LEMMA Resized ==
    ASSUME NEW v, NEW b, ViewInv(v, b), NEW cells \in Nat \ {0}, b.changes \in Nat
    PROVE  ViewInv(resizeEvent(v, b, cells), b)
<1> DEFINE w == [v EXCEPT !.cells = cells]
<1>1. /\ IsTable(v) /\ DOMAIN v = ViewFields /\ v.offset \in Nat /\ v.offset % v.size = 0
      /\ v.top \in Nat /\ v.size \in {1, 2, 4}
  BY DEF ViewInv, ViewPlaces, IsTable
<1>2. get_row_address(v, v.top) \in Nat
  BY <1>1, RowAddress
<1>3. DOMAIN w = ViewFields /\ w.size = v.size /\ w.cells = cells
  BY <1>1 DEF ViewFields
<1>4. IsTable(w)
  BY <1>1, <1>3 DEF IsTable
<1> HIDE DEF w
<1>5. ViewInv(go_to_address(w, b, get_row_address(v, v.top)), b)
  BY <1>2, <1>4, GoneTo
<1> QED
  BY <1>5 DEF resizeEvent, w

\* adjust_scroll_pos_process: the table may move under the rows, which keep their
\* addresses; or it snaps to address zero, and the mark moves with it.
LEMMA Scrolled ==
    ASSUME NEW v, NEW b, ViewInv(v, b), NEW row \in Nat, b.changes \in Nat
    PROVE  ViewInv(adjust_scroll_pos_process(v, b, row), b)
<1> DEFINE R == RowBytes(v)
           near == row < RowCount \div 8
           first == near /\ row = 0 /\ v.offset < R /\ v.offset # 0
           moves == first \/ (near /\ v.offset > R) \/ row > RowCount - (RowCount \div 8)
           address == get_row_address(v, row)
           target == IF first THEN 0 ELSE address
           m == adjustRowAndOffset(v, target)[1]
           r == adjustRowAndOffset(v, target)[2]
           mark == IF first THEN m.aim - v.offset ELSE m.aim
           current == IF m.row = -1 THEN -1
                      ELSE IF m.row + r - row \in 0 .. RowCount - 1 THEN m.row + r - row ELSE -1
           n == [m EXCEPT !.top = r, !.top_aim = address, !.aim = mark, !.row = current]
           stay == [v EXCEPT !.top = row, !.top_aim = address]
<1>1. /\ IsTable(v) /\ DOMAIN v = ViewFields /\ v.offset \in Nat /\ v.offset % v.size = 0
      /\ v.top \in Nat /\ v.size \in {1, 2, 4} /\ v.row \in Nat \cup {-1}
      /\ (v.row # -1 => InRow(v, v.row, v.aim))
  BY DEF ViewInv, ViewPlaces, IsTable
<1>2. /\ address \in Nat /\ address = v.offset + row * R /\ row * R \in Nat
      /\ address % v.size = 0
  BY <1>1, RowAddress
<1>3. R \in Nat \ {0}
  BY <1>1, RowBytesFacts
<1>4. target \in Nat
  BY <1>2
<1>5. /\ moves => adjust_scroll_pos_process(v, b, row) = update_all(n, b)
      /\ ~moves => adjust_scroll_pos_process(v, b, row) = stay
  <2>1. DOMAIN m = ViewFields
    BY <1>1, <1>4, Adjusted
  <2>2. n = [m EXCEPT !.top = r, !.top_aim = address,
                      !.aim = IF first THEN @ - v.offset ELSE @,
                      !.row = IF @ = -1 THEN -1
                              ELSE IF @ + r - row \in 0 .. RowCount - 1 THEN @ + r - row
                              ELSE -1]
    OBVIOUS
  <2> HIDE DEF n, stay
  <2>3. ASSUME moves PROVE adjust_scroll_pos_process(v, b, row) = update_all(n, b)
    BY <2>2, <2>3, Zenon DEF adjust_scroll_pos_process
  <2>4. ASSUME ~moves PROVE adjust_scroll_pos_process(v, b, row) = stay
    BY <2>4, Zenon DEF adjust_scroll_pos_process, stay
  <2> QED
    BY <2>3, <2>4
<1>6. /\ DOMAIN m = ViewFields /\ m.size = v.size /\ m.cells = v.cells
      /\ m.row = v.row /\ m.aim = v.aim
      /\ m.offset \in Nat /\ m.offset % v.size = 0
      /\ r \in 0 .. RowCount - 1
      /\ InRow(m, r, target)
      /\ target % v.size = 0 /\ target >= R => get_row_address(m, r) = target
      /\ target = 0 => m.offset = 0 /\ r = 0
  BY <1>1, <1>4, Adjusted
<1>7. first => target = 0
  OBVIOUS
<1>8. ~first => target = address
  OBVIOUS
<1>9. RowCount \in Nat /\ RowCount >= 8
  BY ViewAssumption
<1>10. first => row = 0 /\ v.offset < R
  OBVIOUS
<1>11. moves /\ ~first => address >= R
  <2>1. ASSUME v.offset > R PROVE address >= R
    BY <1>1, <1>2, <1>3, <2>1
  <2>2. ASSUME row > RowCount - (RowCount \div 8) PROVE address >= R
    <3>1. row > 0
      BY <1>9, <2>2
    <3>2. 0 * R + R <= row * R
      BY <1>3, <3>1, MultiplesApart
    <3>3. 0 * R + R = R
      BY <1>3
    <3> QED
      BY <1>1, <1>2, <1>3, <3>2, <3>3
  <2> QED
    BY <2>1, <2>2
<1>12. /\ first => mark = v.aim - v.offset
       /\ ~first => mark = v.aim
  BY <1>6
<1>13. current = IF v.row = -1 THEN -1
                 ELSE IF v.row + r - row \in 0 .. RowCount - 1 THEN v.row + r - row ELSE -1
  BY <1>6
<1> HIDE DEF first, moves, address, target, m, r, mark, current
<1>14. CASE ~moves
  <2>1. /\ DOMAIN stay = ViewFields /\ stay.size = v.size /\ stay.cells = v.cells
        /\ stay.offset = v.offset /\ stay.top = row /\ stay.row = v.row
        /\ stay.top_aim = address /\ stay.aim = v.aim
        /\ stay.counter = v.counter /\ stay.shown = v.shown
    BY <1>1 DEF ViewFields
  <2>2. stay.told = v.told /\ stay.replaced = v.replaced
    BY <1>1, Zenon DEF ViewFields
  <2> HIDE DEF stay
  <2>3. ViewPainted(stay, b)
    BY <2>1, <2>2, PaintedAlike DEF ViewInv
  <2>4. \A q, x : InRow(stay, q, x) = InRow(v, q, x)
    BY <2>1, SameTable
  <2>5. InRow(v, row, address)
    BY <1>2, <1>3 DEF InRow, address, R
  <2>6. IsTable(stay)
    BY <1>1, <2>1 DEF IsTable
  <2>7. InRow(stay, stay.top, stay.top_aim)
    BY <2>1, <2>4, <2>5
  <2>8. stay.row # -1 => InRow(stay, stay.row, stay.aim)
    BY <1>1, <2>1, <2>4
  <2>9. ViewPlaces(stay)
    BY <1>1, <2>1, <2>6, <2>7, <2>8 DEF ViewPlaces
  <2> QED
    BY <1>5, <1>14, <2>3, <2>9 DEF ViewInv
<1>15. CASE moves
  <2>1. /\ DOMAIN n = ViewFields /\ n.size = v.size /\ n.cells = v.cells /\ n.offset = m.offset
        /\ n.top = r /\ n.row = current /\ n.top_aim = address /\ n.aim = mark
    BY <1>6 DEF ViewFields
  <2> HIDE DEF n
  <2>2. RowBytes(n) = R /\ RowBytes(m) = R
    BY <1>6, <2>1 DEF RowBytes, R
  <2>3. r \in Nat
    BY <1>6, <1>9
  <2> DEFINE base == m.offset
             z == r * R
  <2>4. base \in Nat /\ z \in Nat
    BY <1>3, <1>6, <2>3
  <2>5. \A q : get_row_address(n, q) = base + q * R
    BY <2>1, <2>2 DEF get_row_address
  <2>6. \A q : get_row_address(m, q) = base + q * R
    BY <2>2 DEF get_row_address
  \* The row the table was moved for keeps its address, or both start at zero.
  <2>7. \/ first /\ base = 0 /\ r = 0 /\ row = 0
        \/ ~first /\ base + r * R = v.offset + row * R
    <3>1. CASE first
      BY <1>6, <1>7, <1>10, <3>1
    <3>2. CASE ~first
      <4>1. get_row_address(m, r) = address
        BY <1>2, <1>6, <1>8, <1>11, <1>15, <3>2
      <4> QED
        BY <1>2, <2>6, <3>2, <4>1
    <3> QED
      BY <3>1, <3>2
  <2>8. InRow(n, r, address)
    <3>1. CASE first
      <4>1. base = 0 /\ r = 0 /\ row = 0 /\ 0 * R = 0
        BY <1>3, <2>7, <3>1
      <4>2. address = v.offset /\ address < R
        BY <1>1, <1>2, <1>10, <3>1, <4>1
      <4>3. get_row_address(n, r) = 0
        BY <2>5, <4>1
      <4> QED
        BY <1>2, <1>3, <2>2, <4>2, <4>3 DEF InRow
    <3>2. CASE ~first
      <4>1. get_row_address(n, r) = address
        BY <1>2, <2>5, <2>7, <3>2
      <4> QED
        BY <1>2, <1>3, <2>2, <4>1 DEF InRow
    <3> QED
      BY <3>1, <3>2
  <2> HIDE DEF base, z
  <2>9. current \in Nat \cup {-1}
    BY <1>13
  <2>10. ASSUME current # -1 PROVE InRow(n, current, mark)
    <3>1. v.row # -1 /\ v.row \in Nat /\ current = v.row + (r - row) /\ current \in Nat
      BY <1>1, <1>9, <1>13, <2>10
    <3> DEFINE y == v.row * R
               x == v.offset
               k == v.aim
               g == row * R
    <3>2. y \in Nat /\ x \in Nat /\ g \in Nat
      BY <1>1, <1>2, <1>3, <3>1
    <3>3. k \in x + y .. x + y + R - 1
      BY <1>1, <3>1 DEF InRow, get_row_address, R
    <3>4. current * R = y + (z - g)
      <4> DEFINE p == v.row
      <4>1. p \in Nat /\ current = p + (r - row)
        BY <3>1
      <4> HIDE DEF p
      <4>2. (p + (r - row)) * R = p * R + (r * R - row * R)
        BY <1>3, <2>3, <4>1
      <4> QED
        BY <4>1, <4>2 DEF p, z
    <3>5. get_row_address(n, current) = base + current * R
      BY <2>5
    <3>6. \/ first /\ base = 0 /\ z = 0 /\ g = 0
          \/ ~first /\ base + z = x + g
      <4>1. 0 * R = 0
        BY <1>3
      <4> QED
        BY <2>7, <4>1 DEF z
    <3>7. (first => mark = k - x) /\ (~first => mark = k)
      BY <1>12
    <3> HIDE DEF y, x, k, g
    <3>8. mark \in base + current * R .. base + current * R + R - 1
      BY <1>3, <2>4, <3>2, <3>3, <3>4, <3>6, <3>7
    <3> QED
      BY <2>2, <3>5, <3>8 DEF InRow
  <2>11. IsTable(n)
    BY <1>1, <2>1 DEF IsTable
  <2>12. ViewPlaces(n)
    BY <1>6, <2>1, <2>3, <2>8, <2>9, <2>10, <2>11 DEF ViewPlaces
  <2>13. ViewInv(update_all(n, b), b)
    BY <2>12, RightAfterUpdate
  <2> QED
    BY <1>5, <1>15, <2>13
<1> QED
  BY <1>14, <1>15

(***************************************************************************)
(* The windows when the bus moves                                          *)
(***************************************************************************)
\* The bus moves on: the counter does not go back, and while it stays the same, so do
\* the aligned reads.
Moves(b, w) ==
    /\ b.changes \in Nat /\ w.changes \in Nat /\ b.changes <= w.changes
    /\ w.changes = b.changes => SameAligned(w, b)

\* What a view shows stays right until the counter moves.
LEMMA StillShown ==
    ASSUME NEW v, NEW b, NEW w, ViewInv(v, b), Moves(b, w)
    PROVE  /\ v.counter \in Nat /\ v.counter <= w.changes
           /\ ~v.replaced /\ v.counter = w.changes => v.shown = data(v, w) /\ data(v, w) = data(v, b)
<1>1. /\ v.counter \in Nat /\ v.counter <= b.changes
      /\ b.changes \in Nat /\ w.changes \in Nat /\ b.changes <= w.changes
  BY DEF ViewInv, ViewPainted, Moves
<1>2. ASSUME ~v.replaced, v.counter = w.changes PROVE v.shown = data(v, w) /\ data(v, w) = data(v, b)
  <2>1. v.counter = b.changes /\ w.changes = b.changes
    BY <1>1, <1>2
  <2>2. v.shown = data(v, b)
    BY <1>2, <2>1, Zenon DEF ViewInv, ViewPainted
  <2>3. IsTable(v) /\ v.offset \in Nat /\ v.offset % v.size = 0
    BY DEF ViewInv, ViewPlaces
  <2>4. data(v, w) = data(v, b)
    BY <2>1, <2>3, SameData DEF Moves
  <2> QED
    BY <2>2, <2>4
<1>3. v.counter <= w.changes
  BY <1>1
<1> QED
  BY <1>1, <1>2, <1>3, Zenon

\* The windows are told: they are painted when the counter has moved.
LEMMA ToldOfIt ==
    ASSUME NEW v, NEW b, NEW w, ViewInv(v, b), Moves(b, w)
    PROVE  ViewInv(check_for_updates(v, w), w)
<1> DEFINE t == IF v.counter # w.changes THEN update_all(v, w) ELSE v
           u == [t EXCEPT !.told = TRUE]
<1>1. check_for_updates(v, w) = u
  BY DEF check_for_updates
<1>2. ViewPlaces(t) /\ t.counter \in Nat /\ t.counter <= w.changes
  <2>1. CASE v.counter # w.changes
    <3>1. t = update_all(v, w)
      BY <2>1
    <3>2. ViewInv(t, w)
      BY <3>1, RightAfterUpdate DEF ViewInv, Moves
    <3> QED
      BY <3>2 DEF ViewInv, ViewPainted
  <2>2. CASE v.counter = w.changes
    <3>1. t = v
      BY <2>2
    <3> QED
      BY <3>1, StillShown DEF ViewInv
  <2> QED
    BY <2>1, <2>2
<1>3. ~t.replaced => t.shown = data(t, w)
  <2>1. CASE v.counter # w.changes
    <3>1. t = update_all(v, w)
      BY <2>1
    <3>2. ViewInv(t, w) /\ t.counter = w.changes
      <4>1. DOMAIN v = ViewFields
        BY DEF ViewInv, ViewPlaces, IsTable
      <4> QED
        BY <3>1, <4>1, RightAfterUpdate, UpdatedAll DEF ViewInv, Moves
    <3> QED
      BY <3>2, Zenon DEF ViewInv, ViewPainted
  <2>2. CASE v.counter = w.changes
    <3>1. t = v
      BY <2>2
    <3> QED
      BY <2>2, <3>1, StillShown, Zenon
  <2> QED
    BY <2>1, <2>2
<1> HIDE DEF t
<1>4. DOMAIN t = ViewFields /\ IsTable(t)
  BY <1>2 DEF ViewPlaces, IsTable
<1>5. /\ DOMAIN u = ViewFields /\ u.size = t.size /\ u.cells = t.cells /\ u.offset = t.offset
      /\ u.top = t.top /\ u.row = t.row /\ u.top_aim = t.top_aim /\ u.aim = t.aim
      /\ u.counter = t.counter /\ u.shown = t.shown
  BY <1>4 DEF ViewFields
<1>6. u.replaced = t.replaced
  BY <1>4, Zenon DEF ViewFields
<1> HIDE DEF u
<1>7. data(u, w) = data(t, w) /\ \A q, x : InRow(u, q, x) = InRow(t, q, x)
  BY <1>5, SameTable
<1>8. ViewPlaces(u)
  <2>1. IsTable(u)
    BY <1>4, <1>5 DEF IsTable
  <2>2. InRow(u, u.top, u.top_aim)
    BY <1>2, <1>5, <1>7 DEF ViewPlaces
  <2>3. u.row # -1 => InRow(u, u.row, u.aim)
    BY <1>2, <1>5, <1>7 DEF ViewPlaces
  <2> QED
    BY <1>2, <1>5, <2>1, <2>2, <2>3 DEF ViewPlaces
<1>9. u.counter \in Nat /\ u.counter <= w.changes
  BY <1>2, <1>5
<1>10. ~u.replaced => u.shown = data(u, w)
  BY <1>3, <1>5, <1>6, <1>7, Zenon
<1>11. ViewPainted(u, w)
  BY <1>9, <1>10, Zenon DEF ViewPainted
<1> QED
  BY <1>1, <1>8, <1>11 DEF ViewInv

\* The bus has not moved.
LEMMA NoMove ==
    ASSUME NEW b, b.changes \in Nat
    PROVE  Moves(b, b)
BY DEF Moves, SameAligned

\* update_stage_addr: the window is painted when the stage's address has moved.
LEMMA StageFollowed ==
    ASSUME NEW v, NEW b, ViewInv(v, b), b.changes \in Nat, NEW pc
    PROVE  ViewInv(update_stage_addr(v, b, pc), b)
<1> DEFINE s == [v EXCEPT !.stage = pc]
           t == update_all(s, b)
           u == [t EXCEPT !.told = TRUE]
<1>1. CASE v.stage = pc
  BY <1>1, NoMove, ToldOfIt DEF update_stage_addr
<1>2. CASE v.stage # pc
  <2>1. update_stage_addr(v, b, pc) = u
    BY <1>2 DEF update_stage_addr
  <2>2. DOMAIN v = ViewFields
    BY DEF ViewInv, ViewPlaces, IsTable
  <2>3. /\ DOMAIN s = ViewFields /\ s.size = v.size /\ s.cells = v.cells /\ s.offset = v.offset
        /\ s.top = v.top /\ s.row = v.row /\ s.top_aim = v.top_aim /\ s.aim = v.aim
    BY <2>2 DEF ViewFields
  <2> HIDE DEF s
  <2>4. \A q, x : InRow(s, q, x) = InRow(v, q, x)
    BY <2>3, SameTable
  <2>5. ViewPlaces(s)
    <3>1. IsTable(s)
      BY <2>3 DEF IsTable, ViewInv, ViewPlaces
    <3>2. InRow(s, s.top, s.top_aim)
      BY <2>3, <2>4 DEF ViewInv, ViewPlaces
    <3>3. s.row # -1 => InRow(s, s.row, s.aim)
      BY <2>3, <2>4 DEF ViewInv, ViewPlaces
    <3> QED
      BY <2>3, <3>1, <3>2, <3>3 DEF ViewInv, ViewPlaces
  <2>6. ViewInv(t, b) /\ t.counter = b.changes
    BY <2>3, <2>5, RightAfterUpdate, UpdatedAll
  <2> HIDE DEF t
  <2>7. check_for_updates(t, b) = u
    BY <2>6 DEF check_for_updates
  <2> HIDE DEF u
  <2>8. ViewInv(u, b)
    BY <2>6, <2>7, NoMove, ToldOfIt
  <2> QED
    BY <2>1, <2>8
<1> QED
  BY <1>1, <1>2

\* The bus moves and the window is not told.
LEMMA NotTold ==
    ASSUME NEW v, NEW b, NEW w, ViewInv(v, b), Moves(b, w)
    PROVE  ViewInv([v EXCEPT !.told = FALSE], w)
<1> DEFINE u == [v EXCEPT !.told = FALSE]
<1>1. DOMAIN v = ViewFields /\ IsTable(v)
  BY DEF ViewInv, ViewPlaces, IsTable
<1>2. /\ DOMAIN u = ViewFields /\ u.size = v.size /\ u.cells = v.cells /\ u.offset = v.offset
      /\ u.top = v.top /\ u.row = v.row /\ u.top_aim = v.top_aim /\ u.aim = v.aim
      /\ u.counter = v.counter /\ u.shown = v.shown
  BY <1>1 DEF ViewFields
<1>3. u.replaced = v.replaced /\ ~u.told
  BY <1>1, Zenon DEF ViewFields
<1> HIDE DEF u
<1>4. data(u, w) = data(v, w) /\ \A q, x : InRow(u, q, x) = InRow(v, q, x)
  BY <1>2, SameTable
<1>5. ViewPlaces(u)
  <2>1. IsTable(u)
    BY <1>1, <1>2 DEF IsTable
  <2>2. InRow(u, u.top, u.top_aim)
    BY <1>2, <1>4 DEF ViewInv, ViewPlaces
  <2>3. u.row # -1 => InRow(u, u.row, u.aim)
    BY <1>2, <1>4 DEF ViewInv, ViewPlaces
  <2> QED
    BY <1>2, <2>1, <2>2, <2>3 DEF ViewInv, ViewPlaces
<1>6. u.counter \in Nat /\ u.counter <= w.changes
  BY <1>2, StillShown
<1>7. ~u.replaced /\ u.counter = w.changes => u.shown = data(u, w)
  BY <1>2, <1>3, <1>4, StillShown, Zenon
<1>8. ViewPainted(u, w)
  BY <1>3, <1>6, <1>7, Zenon DEF ViewPainted
<1> QED
  BY <1>5, <1>8 DEF ViewInv, u

\* The window whose cell was edited paints that cell.
LEMMA CellPainted ==
    ASSUME NEW v, NEW w, ViewInv(v, w), ~v.told, NEW cell \in CellsOf(v)
    PROVE  ViewInv([v EXCEPT !.shown = [v.shown EXCEPT ![cell] = bus_read(w, cell, v.size)]], w)
<1> DEFINE new == [v.shown EXCEPT ![cell] = bus_read(w, cell, v.size)]
           u == [v EXCEPT !.shown = new]
<1>1. DOMAIN v = ViewFields /\ IsTable(v)
  BY DEF ViewInv, ViewPlaces, IsTable
<1>2. ASSUME v.shown = data(v, w) PROVE new = data(v, w)
  <2>1. data(v, w) = [a \in CellsOf(v) |-> bus_read(w, a, v.size)]
    BY DEF data
  <2> QED
    BY <1>2, <2>1
<1> HIDE DEF new
<1>3. /\ DOMAIN u = ViewFields /\ u.size = v.size /\ u.cells = v.cells /\ u.offset = v.offset
      /\ u.top = v.top /\ u.row = v.row /\ u.top_aim = v.top_aim /\ u.aim = v.aim
      /\ u.counter = v.counter /\ u.shown = new
  BY <1>1 DEF ViewFields
<1>4. u.replaced = v.replaced /\ u.told = v.told
  BY <1>1, Zenon DEF ViewFields
<1> HIDE DEF u
<1>5. data(u, w) = data(v, w) /\ \A q, x : InRow(u, q, x) = InRow(v, q, x)
  BY <1>3, SameTable
<1>6. ViewPlaces(u)
  <2>1. IsTable(u)
    BY <1>1, <1>3 DEF IsTable
  <2>2. InRow(u, u.top, u.top_aim)
    BY <1>3, <1>5 DEF ViewInv, ViewPlaces
  <2>3. u.row # -1 => InRow(u, u.row, u.aim)
    BY <1>3, <1>5 DEF ViewInv, ViewPlaces
  <2> QED
    BY <1>3, <2>1, <2>2, <2>3 DEF ViewInv, ViewPlaces
<1>7. u.counter \in Nat /\ u.counter <= w.changes
  BY <1>3 DEF ViewInv, ViewPainted
<1>8. ~u.replaced /\ u.counter = w.changes => u.shown = data(u, w)
  BY <1>2, <1>3, <1>4, <1>5, Zenon DEF ViewInv, ViewPainted
<1>9. ViewPainted(u, w)
  BY <1>4, <1>7, <1>8, Zenon DEF ViewPainted
<1> QED
  BY <1>6, <1>9 DEF ViewInv, u, new

\* Memory is replaced: what the window shows is out of date until it is painted again.
LEMMA OutOfDate ==
    ASSUME NEW v, NEW b, NEW w, ViewInv(v, b), w.changes = b.changes
    PROVE  ViewInv([v EXCEPT !.replaced = TRUE], w)
<1> DEFINE u == [v EXCEPT !.replaced = TRUE]
<1>1. DOMAIN v = ViewFields /\ IsTable(v)
  BY DEF ViewInv, ViewPlaces, IsTable
<1>2. /\ DOMAIN u = ViewFields /\ u.size = v.size /\ u.cells = v.cells /\ u.offset = v.offset
      /\ u.top = v.top /\ u.row = v.row /\ u.top_aim = v.top_aim /\ u.aim = v.aim
      /\ u.counter = v.counter
  BY <1>1 DEF ViewFields
<1>3. u.replaced = TRUE
  BY <1>1, Zenon DEF ViewFields
<1> HIDE DEF u
<1>4. \A q, x : InRow(u, q, x) = InRow(v, q, x)
  BY <1>2, SameTable
<1>5. ViewPlaces(u)
  <2>1. IsTable(u)
    BY <1>1, <1>2 DEF IsTable
  <2>2. InRow(u, u.top, u.top_aim)
    BY <1>2, <1>4 DEF ViewInv, ViewPlaces
  <2>3. u.row # -1 => InRow(u, u.row, u.aim)
    BY <1>2, <1>4 DEF ViewInv, ViewPlaces
  <2> QED
    BY <1>2, <2>1, <2>2, <2>3 DEF ViewInv, ViewPlaces
<1>6. u.counter \in Nat /\ u.counter <= w.changes
  BY <1>2 DEF ViewInv, ViewPainted
<1>7. ViewPainted(u, w)
  BY <1>3, <1>6, Zenon DEF ViewPainted
<1> QED
  BY <1>5, <1>7 DEF ViewInv, u

(***************************************************************************)
(* The specification                                                       *)
(***************************************************************************)
\* Any access of the running program or of the assembler, of which the windows are told
\* or not told.
AnyWrite == \E a \in Nat, bytes \in Seq(Byte) : Write(a, bytes) /\ (Notified \/ views' = Untold)

\* The user edits any cell of a window.
AnyEdit ==
    \E n \in DOMAIN views : \E cell \in CellsOf(views[n]), bytes \in [1 .. views[n].size -> Byte] :
        Edit(n, cell, bytes)

\* The machine has stepped.
Told == UNCHANGED busVars /\ Notified

ViewNext == AnyWrite \/ AnyEdit \/ Told \/ KnobStep \/ WindowStep

ViewSpec ==
    /\ (\E image \in Images : BusInit(image.segments)) /\ ViewInit
    /\ [][ViewNext]_<<busVars, views>>

ViewsInv ==
    /\ BusInv(bus, flat, dials)
    /\ DOMAIN views = {"memory", "program"}
    /\ \A n \in DOMAIN views : ViewInv(views[n], bus)

\* A new window shows the start of memory.
LEMMA NewViewRight ==
    ASSUME NEW b, b.changes \in Nat
    PROVE  ViewInv(NewView(1, b), b)
<1> DEFINE v == [size |-> 4, cells |-> 1, offset |-> 0, top |-> 0, row |-> 0, counter |-> 0,
                 shown |-> <<>>, stage |-> 0, top_aim |-> 0, aim |-> 0, told |-> TRUE,
                 replaced |-> FALSE]
<1>1. NewView(1, b) = update_all(v, b)
  BY DEF NewView
<1>2. /\ DOMAIN v = ViewFields /\ v.size = 4 /\ v.cells = 1 /\ v.offset = 0
      /\ v.top = 0 /\ v.row = 0 /\ v.top_aim = 0 /\ v.aim = 0
  BY DEF ViewFields
<1> HIDE DEF v
<1>3. IsTable(v)
  BY <1>2 DEF IsTable
<1>4. InRow(v, 0, 0)
  BY <1>2 DEF InRow, get_row_address, RowBytes
<1>5. ViewPlaces(v)
  BY <1>2, <1>3, <1>4 DEF ViewPlaces
<1> QED
  BY <1>1, <1>5, RightAfterUpdate

LEMMA ViewsStart ==
    ASSUME NEW image \in Images, BusInit(image.segments), ViewInit
    PROVE  ViewsInv
<1>1. image.segments \in Seq(Segment)
  BY BusAssumption
<1>2. BusInv(bus, flat, dials)
  BY <1>1, BusStarts
<1>3. ViewInv(NewView(1, bus), bus)
  BY <1>2, NewViewRight DEF BusInv
<1>4. /\ DOMAIN views = {"memory", "program"}
      /\ views.memory = NewView(1, bus) /\ views.program = NewView(1, bus)
  BY DEF ViewInit
<1> QED
  BY <1>2, <1>3, <1>4 DEF ViewsInv

\* A write of any device moves the bus.
LEMMA WriteMoves ==
    ASSUME ViewsInv, NEW a \in Nat, NEW bytes \in Seq(Byte), Write(a, bytes)
    PROVE  BusInv(bus', flat', dials') /\ Moves(bus, bus')
<1>1. BusInv(bus, flat, dials)
  BY DEF ViewsInv
<1>2. BusInv(bus', flat', dials')
  BY <1>1, BusWritten DEF Write
<1>3. /\ bus'.changes \in {bus.changes, bus.changes + 1}
      /\ bus'.changes = bus.changes =>
            \A n \in {1, 2, 4}, x \in Nat : x % n = 0 => bus_read(bus', x, n) = bus_read(bus, x, n)
  BY <1>1, QuietWrite DEF Write
<1>4. bus.changes \in Nat
  BY <1>1 DEF BusInv
<1> QED
  BY <1>2, <1>3, <1>4 DEF Moves, SameAligned

\* The windows are told of a move, or not told.
LEMMA AllTold ==
    ASSUME ViewsInv, BusInv(bus', flat', dials'), Moves(bus, bus'), Notified
    PROVE  ViewsInv'
<1>1. DOMAIN views = {"memory", "program"} /\ \A n \in DOMAIN views : ViewInv(views[n], bus)
  BY DEF ViewsInv
<1>2. views' = [n \in DOMAIN views |-> check_for_updates(views[n], bus')]
  BY DEF Notified
<1>3. \A n \in DOMAIN views : ViewInv(check_for_updates(views[n], bus'), bus')
  BY <1>1, ToldOfIt
<1>4. \A n \in DOMAIN views' : ViewInv(views'[n], bus')
  BY <1>2, <1>3
<1> QED
  BY <1>1, <1>2, <1>4 DEF ViewsInv

LEMMA NoneTold ==
    ASSUME ViewsInv, Moves(bus, bus')
    PROVE  /\ DOMAIN Untold = {"memory", "program"}
           /\ \A n \in DOMAIN views : ViewInv(Untold[n], bus') /\ ~Untold[n].told
           /\ \A n \in DOMAIN views : CellsOf(Untold[n]) = CellsOf(views[n]) /\ Untold[n].size = views[n].size
<1>1. DOMAIN views = {"memory", "program"} /\ \A n \in DOMAIN views : ViewInv(views[n], bus)
  BY DEF ViewsInv
<1>2. Untold = [n \in DOMAIN views |-> [views[n] EXCEPT !.told = FALSE]]
  BY DEF Untold
<1>3. ASSUME NEW n \in DOMAIN views
      PROVE  /\ ViewInv(Untold[n], bus') /\ ~Untold[n].told
             /\ CellsOf(Untold[n]) = CellsOf(views[n]) /\ Untold[n].size = views[n].size
  <2> DEFINE v == views[n]
             u == [v EXCEPT !.told = FALSE]
  <2>1. Untold[n] = u
    BY <1>2
  <2>2. ViewInv(v, bus)
    BY <1>1
  <2>3. ViewInv(u, bus')
    BY <2>2, NotTold
  <2> HIDE DEF v
  <2>4. DOMAIN v = ViewFields
    BY <2>2 DEF ViewInv, ViewPlaces, IsTable
  <2>5. u.size = v.size /\ u.cells = v.cells /\ u.offset = v.offset
    BY <2>4 DEF ViewFields
  <2>6. ~u.told
    BY <2>4, Zenon DEF ViewFields
  <2> HIDE DEF u
  <2>7. CellsOf(u) = CellsOf(v)
    BY <2>5 DEF CellsOf, get_row_address, RowBytes
  <2> QED
    BY <2>1, <2>3, <2>5, <2>6, <2>7 DEF v
<1> QED
  BY <1>1, <1>2, <1>3

\* One window is moved over a bus that stays.
LEMMA OneMoved ==
    ASSUME ViewsInv, NEW n \in DOMAIN views, NEW v, ViewInv(v, bus), ViewChanges(n, v)
    PROVE  ViewsInv'
<1>1. /\ BusInv(bus, flat, dials) /\ DOMAIN views = {"memory", "program"}
      /\ \A k \in DOMAIN views : ViewInv(views[k], bus)
  BY DEF ViewsInv
<1>2. views' = [views EXCEPT ![n] = v] /\ bus' = bus /\ flat' = flat /\ dials' = dials
  BY DEF ViewChanges, busVars
<1>3. DOMAIN views' = DOMAIN views /\ \A k \in DOMAIN views : views'[k] = IF k = n THEN v ELSE views[k]
  BY <1>2
<1>4. \A k \in DOMAIN views' : ViewInv(views'[k], bus')
  BY <1>1, <1>2, <1>3
<1>5. BusInv(bus', flat', dials')
  BY <1>1, <1>2
<1> QED
  BY <1>1, <1>3, <1>4, <1>5 DEF ViewsInv

\* A cell is edited.
LEMMA EditRight ==
    ASSUME ViewsInv, NEW n \in DOMAIN views, NEW cell \in CellsOf(views[n]),
           NEW bytes \in Seq(Byte), Edit(n, cell, bytes)
    PROVE  ViewsInv'
<1>1. /\ DOMAIN views = {"memory", "program"} /\ ViewInv(views[n], bus)
  BY DEF ViewsInv
<1>2. cell \in Nat
  BY <1>1, CellsAligned DEF ViewInv, ViewPlaces
<1>3. BusInv(bus', flat', dials') /\ Moves(bus, bus')
  BY <1>2, WriteMoves DEF Edit
<1>4. /\ DOMAIN Untold = {"memory", "program"}
      /\ \A k \in DOMAIN views : ViewInv(Untold[k], bus') /\ ~Untold[k].told
      /\ \A k \in DOMAIN views : CellsOf(Untold[k]) = CellsOf(views[k]) /\ Untold[k].size = views[k].size
  BY <1>3, NoneTold
<1> DEFINE u == Untold[n]
           p == [u EXCEPT !.shown = [u.shown EXCEPT ![cell] = bus_read(bus', cell, u.size)]]
<1>5. ViewInv(p, bus')
  <2>1. ViewInv(u, bus') /\ ~u.told /\ cell \in CellsOf(u)
    BY <1>4
  <2> HIDE DEF u
  <2> QED
    BY <2>1, CellPainted
<1>6. views' = [Untold EXCEPT ![n].shown[cell] = bus_read(bus', cell, views[n].size)]
  BY DEF Edit
<1>7. views' = [Untold EXCEPT ![n] = p]
  <2>1. u.size = views[n].size
    BY <1>4
  <2> QED
    BY <1>6, <2>1
<1> HIDE DEF p
<1>8. DOMAIN views' = DOMAIN Untold /\ \A k \in DOMAIN Untold : views'[k] = IF k = n THEN p ELSE Untold[k]
  BY <1>7
<1>9. \A k \in DOMAIN views' : ViewInv(views'[k], bus')
  BY <1>1, <1>4, <1>5, <1>8
<1> QED
  BY <1>3, <1>4, <1>8, <1>9 DEF ViewsInv

\* The window and the memory it shows are right after every step of the user.
LEMMA WindowStepRight ==
    ASSUME ViewsInv, WindowStep
    PROVE  ViewsInv'
<1> DEFINE v == views.memory
<1>1. /\ DOMAIN views = {"memory", "program"} /\ BusInv(bus, flat, dials)
      /\ ViewInv(views["memory"], bus) /\ ViewInv(views["program"], bus)
      /\ \A n \in DOMAIN views : ViewInv(views[n], bus)
  BY DEF ViewsInv
<1>2. ViewInv(v, bus) /\ IsTable(v) /\ "memory" \in DOMAIN views
  BY <1>1 DEF ViewInv, ViewPlaces
<1>3. bus.changes \in Nat
  BY <1>1 DEF BusInv
<1>4. Places \subseteq Nat /\ CellCounts \subseteq Nat \ {0} /\ RowCount \in Nat /\ RowCount >= 8
  BY ViewAssumption
<1> HIDE DEF v
<1>5. CASE GoTo
  <2>1. PICK a \in Places : ViewChanges("memory", go_to_address(v, bus, a))
    BY <1>5 DEF GoTo, v
  <2>2. ViewInv(go_to_address(v, bus, a), bus)
    BY <1>2, <1>3, <1>4, GoneTo
  <2> QED
    BY <1>2, <2>1, <2>2, OneMoved
<1>6. CASE Focus
  <2>1. PICK a \in Places : ViewChanges("memory", focus_address(v, bus, a))
    BY <1>6 DEF Focus, v
  <2>2. ViewInv(focus_address(v, bus, a), bus)
    BY <1>2, <1>3, <1>4, Focused
  <2> QED
    BY <1>2, <2>1, <2>2, OneMoved
<1>7. CASE SetCellSize
  <2>1. PICK size \in {1, 2, 4}, cells \in CellCounts :
            ViewChanges("memory", set_cell_size(v, bus, size, cells))
    BY <1>7 DEF SetCellSize, v
  <2>2. ViewInv(set_cell_size(v, bus, size, cells), bus)
    BY <1>2, <1>4, CellSizeSet
  <2> QED
    BY <1>2, <2>1, <2>2, OneMoved
<1>8. CASE Resize
  <2>1. PICK cells \in CellCounts : ViewChanges("memory", resizeEvent(v, bus, cells))
    BY <1>8 DEF Resize, v
  <2>2. ViewInv(resizeEvent(v, bus, cells), bus)
    BY <1>2, <1>3, <1>4, Resized
  <2> QED
    BY <1>2, <2>1, <2>2, OneMoved
<1>9. CASE Scroll
  <2>1. PICK row \in {0, 1, RowCount - 1} :
            ViewChanges("memory", adjust_scroll_pos_process(v, bus, row))
    BY <1>9 DEF Scroll, v
  <2>2. row \in Nat
    BY <1>4
  <2>3. ViewInv(adjust_scroll_pos_process(v, bus, row), bus)
    BY <1>2, <1>3, <2>2, Scrolled
  <2> QED
    BY <1>2, <2>1, <2>3, OneMoved
<1>10. CASE Follow
  <2>1. PICK pc \in Places :
            /\ UNCHANGED busVars
            /\ views' = [memory |-> check_for_updates(views.memory, bus),
                         program |-> update_stage_addr(focus_address(views.program, bus, pc), bus, pc)]
    BY <1>10 DEF Follow
  <2> DEFINE m == check_for_updates(views.memory, bus)
             f == focus_address(views.program, bus, pc)
             p == update_stage_addr(f, bus, pc)
  <2>2. ViewInv(m, bus)
    BY <1>1, <1>3, NoMove, ToldOfIt
  <2>3. ViewInv(f, bus)
    BY <1>1, <1>3, <1>4, Focused
  <2>4. ViewInv(p, bus)
    <3> HIDE DEF f
    <3> QED
      BY <1>3, <2>3, StageFollowed
  <2>5. views' = [memory |-> m, program |-> p] /\ bus' = bus /\ flat' = flat /\ dials' = dials
    BY <2>1 DEF busVars
  <2> HIDE DEF m, f, p
  <2>6. DOMAIN views' = {"memory", "program"} /\ views'["memory"] = m /\ views'["program"] = p
    BY <2>5
  <2>7. \A n \in DOMAIN views' : ViewInv(views'[n], bus')
    BY <2>2, <2>4, <2>5, <2>6
  <2>8. BusInv(bus', flat', dials')
    BY <1>1, <2>5
  <2> QED
    BY <2>6, <2>7, <2>8 DEF ViewsInv
<1>11. CASE EditCell
  <2>1. PICK cell \in CellsOf(views.memory) : Edit("memory", cell, [k \in 1 .. views.memory.size |-> {6}])
    BY <1>11 DEF EditCell
  <2> DEFINE bytes == [k \in 1 .. views.memory.size |-> {6}]
  <2>2. views.memory.size \in Nat
    BY <1>2 DEF IsTable, v
  <2>3. {6} \in Byte
    BY DEF Byte
  <2>4. bytes \in Seq(Byte)
    <3> DEFINE n == views.memory.size
    <3>1. bytes \in [1 .. n -> Byte]
      BY <2>3
    <3> HIDE DEF n, bytes
    <3> QED
      BY <2>2, <3>1 DEF n
  <2> HIDE DEF bytes
  <2>5. Edit("memory", cell, bytes)
    BY <2>1 DEF bytes
  <2> QED
    BY <1>2, <2>4, <2>5, EditRight
<1>12. CASE Restart
  <2>1. /\ bus' = [bus EXCEPT !.sections = to_memory(bus.program)]
        /\ flat' = FlatImage(bus.program)
        /\ views' = [n \in DOMAIN views |-> [views[n] EXCEPT !.replaced = TRUE]]
        /\ dials' = dials
    BY <1>12 DEF Restart
  <2>2. BusInv(bus', flat', dials') /\ bus'.changes = bus.changes
    BY <1>1, <2>1, BusRestarts
  <2>3. \A n \in DOMAIN views : ViewInv([views[n] EXCEPT !.replaced = TRUE], bus')
    BY <1>1, <2>2, OutOfDate
  <2>4. DOMAIN views' = DOMAIN views /\ \A n \in DOMAIN views' : ViewInv(views'[n], bus')
    BY <2>1, <2>3
  <2> QED
    BY <1>1, <2>2, <2>4 DEF ViewsInv
<1> QED
  BY <1>5, <1>6, <1>7, <1>8, <1>9, <1>10, <1>11, <1>12 DEF WindowStep

\* Turning a knob.
LEMMA KnobStepRight ==
    ASSUME ViewsInv, KnobStep
    PROVE  ViewsInv'
<1>1. BusInv(bus, flat, dials) /\ bus.changes \in Nat
  BY DEF ViewsInv, BusInv
<1>2. PICK k \in Knobs : /\ bus' = knob_update_notify(bus, k[1], k[2])
                         /\ dials' = (dials \ k[2]) \cup k[1]
                         /\ flat' = flat
  BY DEF KnobStep, TurnKnob
<1>3. k[1] \in SUBSET (0 .. 31) /\ k[2] \in SUBSET (0 .. 31)
  BY BusAssumption
<1>4. BusInv(bus', flat', dials') /\ (bus' = bus \/ bus'.changes = bus.changes + 1)
  BY <1>1, <1>2, <1>3, KnobTurned
<1>5. CASE bus' = bus
  <2>1. views' = views
    BY <1>5 DEF KnobStep
  <2> QED
    BY <1>4, <1>5, <2>1 DEF ViewsInv
<1>6. CASE bus' # bus
  <2>1. Notified
    BY <1>6 DEF KnobStep
  <2>2. Moves(bus, bus')
    BY <1>1, <1>4, <1>6 DEF Moves
  <2> QED
    BY <1>4, <2>1, <2>2, AllTold
<1> QED
  BY <1>5, <1>6

\* The invariant is inductive.
THEOREM ViewsInductive == ViewSpec => []ViewsInv
<1>1. (\E image \in Images : BusInit(image.segments)) /\ ViewInit => ViewsInv
  BY ViewsStart
<1>2. ASSUME ViewsInv, [ViewNext]_<<busVars, views>> PROVE ViewsInv'
  <2>1. CASE AnyWrite
    <3>1. PICK a \in Nat, bytes \in Seq(Byte) : Write(a, bytes) /\ (Notified \/ views' = Untold)
      BY <2>1 DEF AnyWrite
    <3>2. BusInv(bus', flat', dials') /\ Moves(bus, bus')
      BY <1>2, <3>1, WriteMoves
    <3>3. CASE Notified
      BY <1>2, <3>2, <3>3, AllTold
    <3>4. CASE views' = Untold
      <4>1. /\ DOMAIN Untold = {"memory", "program"}
            /\ \A n \in DOMAIN views : ViewInv(Untold[n], bus')
        BY <1>2, <3>2, NoneTold
      <4>2. DOMAIN views = {"memory", "program"}
        BY <1>2 DEF ViewsInv
      <4> QED
        BY <3>2, <3>4, <4>1, <4>2 DEF ViewsInv
    <3> QED
      BY <3>1, <3>3, <3>4
  <2>2. CASE AnyEdit
    <3>1. PICK n \in DOMAIN views :
            \E cell \in CellsOf(views[n]), bytes \in [1 .. views[n].size -> Byte] : Edit(n, cell, bytes)
      BY <2>2 DEF AnyEdit
    <3>2. PICK cell \in CellsOf(views[n]), bytes \in [1 .. views[n].size -> Byte] : Edit(n, cell, bytes)
      BY <3>1
    <3>3. views[n].size \in Nat
      BY <1>2 DEF ViewsInv, ViewInv, ViewPlaces, IsTable
    <3>4. bytes \in Seq(Byte)
      BY <3>3
    <3> QED
      BY <1>2, <3>2, <3>4, EditRight
  <2>3. CASE Told
    <3>1. bus' = bus /\ flat' = flat /\ dials' = dials /\ Notified
      BY <2>3 DEF Told, busVars
    <3>2. BusInv(bus, flat, dials) /\ bus.changes \in Nat
      BY <1>2 DEF ViewsInv, BusInv
    <3>3. BusInv(bus', flat', dials') /\ Moves(bus, bus')
      BY <3>1, <3>2, NoMove
    <3> QED
      BY <1>2, <3>1, <3>3, AllTold
  <2>4. CASE KnobStep
    BY <1>2, <2>4, KnobStepRight
  <2>5. CASE WindowStep
    BY <1>2, <2>5, WindowStepRight
  <2>6. CASE UNCHANGED <<busVars, views>>
    BY <1>2, <2>6 DEF busVars, ViewsInv
  <2> QED
    BY <1>2, <2>1, <2>2, <2>3, <2>4, <2>5, <2>6 DEF ViewNext
<1> QED
  BY <1>1, <1>2, PTL DEF ViewSpec

\* Memory::read and Memory::write: the sections are an implementation detail.  Whatever
\* program was loaded and whatever was stored since, an aligned word read through the bus
\* holds the bytes last written at its addresses.
THEOREM WordsFlat == ViewSpec => []WordsAreFlat
<1>1. ViewsInv => WordsAreFlat
  BY WordsFollow DEF ViewsInv
<1> QED
  BY <1>1, ViewsInductive, PTL

\* PeripSpiLed and LcdDisplay: told only of changes, the widgets show every register and
\* every pixel as the program reads it back, and it reads the knobs as they were left.
THEOREM DevicesStayShown == ViewSpec => []DevicesShown
<1>1. ViewsInv => DevicesShown
  BY DevicesFollow DEF ViewsInv
<1> QED
  BY <1>1, ViewsInductive, PTL

\* MemoryModel::check_for_updates polls change_counter: once told, a window paints what the
\* bus reads in every cell, unless memory was replaced by a restart in the meantime.
THEOREM ViewsStayCurrent == ViewSpec => []ViewsCurrent
<1>1. ViewsInv => ViewsCurrent
  <2> SUFFICES ASSUME ViewsInv, NEW n \in DOMAIN views
               PROVE  views[n].told /\ ~views[n].replaced => views[n].shown = data(views[n], bus)
    BY DEF ViewsCurrent
  <2>1. ViewPainted(views[n], bus)
    BY DEF ViewsInv, ViewInv
  <2> QED
    BY <2>1, Zenon DEF ViewPainted
<1> QED
  BY <1>1, ViewsInductive, PTL

\* MemoryModel::adjustRowAndOffset: however the table is moved under the window, the row at
\* the top and the current row hold the addresses they were set for.
THEOREM AddressesStayFound == ViewSpec => []AddressesFound
<1>1. ViewsInv => AddressesFound
  <2> SUFFICES ASSUME ViewsInv, NEW n \in DOMAIN views
               PROVE  /\ InRow(views[n], views[n].top, views[n].top_aim)
                      /\ views[n].row # -1 => InRow(views[n], views[n].row, views[n].aim)
    BY DEF AddressesFound
  <2>1. ViewPlaces(views[n])
    BY DEF ViewsInv, ViewInv
  <2> QED
    BY <2>1 DEF ViewPlaces
<1> QED
  BY <1>1, ViewsInductive, PTL
=============================================================================
