----------------------------- MODULE OsProofs -----------------------------
(***************************************************************************)
(* Proofs about the emulated system calls: for any host, any programs and  *)
(* any sizes, host descriptors have one owner, a transfer reports what it  *)
(* moved and anonymous regions do not overlap.                             *)
(***************************************************************************)
EXTENDS OsSyscall, WellFoundedInduction, TLAPS

(***************************************************************************)
(* The inductive invariant                                                 *)
(***************************************************************************)
Entries == HostFds \cup {FD_UNUSED, FD_TERMINAL}
Addresses == 0 .. Word - 1

OsType ==
    /\ fs_root \in BOOLEAN
    /\ fd_mapping \in Seq(Entries)
    /\ host \in SUBSET HostFds
    /\ anonymous_last \in Addresses
    /\ brk_limit \in Addresses
    /\ a0 \in Int
    /\ state \in {"running", "stopped", "trapped"}
    /\ input \in Nat /\ typed \in Nat /\ moved \in Nat
    /\ maps \in Seq(Addresses \X Addresses)

\* A region that ends before the address space does.
Fits(k) == maps[k][1] + maps[k][2] < Word

\* While the regions fit, each begins after the ones before it, and the next one
\* will begin after all of them.
RegionsAscend ==
    /\ \A i, j \in DOMAIN maps :
          i < j /\ (\A k \in i .. j - 1 : Fits(k)) => maps[i][1] + maps[i][2] <= maps[j][1]
    /\ \A i \in DOMAIN maps :
          (\A k \in i .. Len(maps) : Fits(k)) => maps[i][1] + maps[i][2] <= anonymous_last

IInv == OsType /\ DescriptorsOwned /\ BytesReported /\ RegionsAscend

(***************************************************************************)
(* Lemmas about the operators                                              *)
(***************************************************************************)
\* A set of natural numbers that is not empty has a least element.
LEMMA LeastExists ==
    ASSUME NEW S \in SUBSET Nat, S # {}
    PROVE  \E i \in S : \A j \in S : i <= j
<1>1. PICK x \in S : \A y \in S : ~ (<<y, x>> \in OpToRel(<, Nat))
  BY NatLessThanWellFounded, WFMin, Zenon
<1>2. \A y \in S : ~ (y < x)
  BY <1>1 DEF OpToRel
<1> QED
  BY <1>2

\* Min returns it.
LEMMA MinLeast ==
    ASSUME NEW S \in SUBSET Nat, S # {}
    PROVE  Min(S) \in S
  BY LeastExists DEF Min

\* From table `t` to `new`, one entry, free before, is now `val`.
Placed(t, new, val) ==
    /\ new \in Seq(Entries)
    /\ DOMAIN t \subseteq DOMAIN new
    /\ \E p \in DOMAIN new :
          /\ new[p] = val
          /\ p \in DOMAIN t => t[p] = FD_UNUSED
          /\ p > Len(t) \/ t[p] # new[p]
          /\ \A i \in DOMAIN new : i # p => i \in DOMAIN t /\ new[i] = t[i]

\* allocate_fd takes the first free entry, or adds one.
LEMMA AllocatePlaces ==
    ASSUME NEW t \in Seq(Entries), NEW val \in Entries, val # FD_UNUSED
    PROVE  Placed(t, allocate_fd(t, val), val)
<1> DEFINE free == {i \in DOMAIN t : t[i] = FD_UNUSED}
<1>1. CASE free = {}
  <2>1. allocate_fd(t, val) = Append(t, val)
    BY <1>1 DEF allocate_fd
  <2>2. /\ Append(t, val) \in Seq(Entries) /\ Len(Append(t, val)) = Len(t) + 1
        /\ DOMAIN Append(t, val) = 1 .. Len(t) + 1
        /\ Append(t, val)[Len(t) + 1] = val
        /\ \A i \in 1 .. Len(t) : Append(t, val)[i] = t[i]
    OBVIOUS
  <2>3. DOMAIN t = 1 .. Len(t) /\ Len(t) \in Nat
    OBVIOUS
  <2> QED
    BY <2>1, <2>2, <2>3 DEF Placed
<1>2. CASE free # {}
  <2>1. DOMAIN t = 1 .. Len(t) /\ Len(t) \in Nat
    OBVIOUS
  <2>2. free \in SUBSET Nat
    BY <2>1
  <2>3. Min(free) \in free
    BY <1>2, <2>2, MinLeast
  <2>4. PICK p \in free : p = Min(free)
    BY <2>3
  <2>5. allocate_fd(t, val) = [t EXCEPT ![p] = val]
    BY <1>2, <2>4 DEF allocate_fd
  <2>6. [t EXCEPT ![p] = val] \in Seq(Entries)
    BY <2>4
  <2> QED
    BY <2>1, <2>4, <2>5, <2>6 DEF Placed
<1> QED
  BY <1>1, <1>2

\* The descriptor given to the program is a number.
LEMMA AllocatedIsNumber ==
    ASSUME NEW t \in Seq(Entries), NEW val \in Entries, val # FD_UNUSED
    PROVE  Allocated(t, allocate_fd(t, val)) \in Int
<1> DEFINE new == allocate_fd(t, val)
           changed == {i \in DOMAIN new : i > Len(t) \/ t[i] # new[i]}
<1>1. Placed(t, new, val)
  BY AllocatePlaces
<1>2. changed # {} /\ new \in Seq(Entries)
  BY <1>1 DEF Placed
<1>3. changed \in SUBSET Nat
  BY <1>2
<1>4. Min(changed) \in changed
  BY <1>2, <1>3, MinLeast
<1>5. Min(changed) \in Nat
  BY <1>3, <1>4
<1> QED
  BY <1>5 DEF Allocated

\* A number of errno_map is negated, another error is -1.
LEMMA ErrorsNegative ==
    ASSUME NEW e
    PROVE  result_errno_if_error(e) \in Int /\ result_errno_if_error(e) < 0
<1>1. \A x \in DOMAIN errno_map : errno_map[x] \in 1 .. 24
  BY DEF errno_map
<1> QED
  BY <1>1 DEF result_errno_if_error

\* A result reaches a0 as it is: no status is negative.
LEMMA FinishWritesResult ==
    ASSUME NEW result \in Int, Finish(result)
    PROVE  a0' = result
  BY DEF Finish, Return, status_from_result

(***************************************************************************)
(* Transfers                                                               *)
(***************************************************************************)
\* A call under way reports the bytes it moved; only one that has ended may
\* report an error, and then it moved none.
Reports(run) ==
    /\ run.result \in Int /\ run.moved \in Nat /\ run.input \in Nat
    /\ run.result = run.moved \/ (run.moved = 0 /\ run.done)

\* The host's counts are those of bytes or errors.
LEMMA HostCountsNumbers ==
    ASSUME NEW len \in Nat, NEW c \in HostCounts(len)
    PROVE  c \in Int /\ (c >= 0 \/ c < 0)
  BY ErrorsNegative DEF HostCounts

\* One more buffer keeps the report true.
LEMMA ExtendReports ==
    ASSUME NEW op, NEW fd, NEW run, Reports(run), NEW len \in Nat,
           NEW r \in Extend(op, fd, run, len)
    PROVE  Reports(r)
<1> DEFINE left == IF op = "read" /\ fd = FD_TERMINAL
                   THEN IF len <= run.input THEN run.input - len ELSE 0
                   ELSE run.input
           counts == IF op = "read" THEN read_io(fd, len, run.input) ELSE write_io(fd, len)
<1>1. CASE run.done
  BY <1>1 DEF Extend
<1>2. CASE ~run.done
  <2>1. PICK c \in counts : r = Transfer(run, c, len, left)
    BY <1>2 DEF Extend
  <2>2. c \in Int
    BY HostCountsNumbers DEF read_io, write_io, Reports
  <2>3. left \in Nat
    BY DEF Reports
  <2> HIDE DEF left, counts
  <2>4. run.result = run.moved /\ run.moved \in Nat
    BY <1>2 DEF Reports
  <2>5. /\ r.result = IF c >= 0 THEN run.result + c ELSE IF run.result = 0 THEN c ELSE run.result
        /\ r.moved = run.moved + (IF c >= 0 THEN c ELSE 0)
        /\ r.input = left
    BY <2>1 DEF Transfer
  <2>6. c < len => r.done
    BY <2>1 DEF Transfer
  <2> QED
    BY <2>2, <2>3, <2>4, <2>5, <2>6 DEF Reports
<1> QED
  BY <1>1, <1>2 DEF Reports

\* Every call that a list of buffers may lead to reports the bytes it moved.  The
\* recursive function of Runs exists, and what holds of a first buffer and is kept
\* by each next one holds of all: both by the least number for which it would fail.
LEMMA RunsReport ==
    ASSUME input \in Nat, NEW op, NEW fd, NEW iov \in Seq(Nat), NEW run \in Runs(op, fd, iov)
    PROVE  Reports(run)
<1> DEFINE start == {[result |-> 0, moved |-> 0, input |-> input, done |-> FALSE]}
           More(n, runs) == UNION {Extend(op, fd, r, iov[n]) : r \in runs}
           IsRun(g, m) == g = [n \in 0 .. m |-> IF n = 0 THEN start ELSE More(n, g[n - 1])]
           after == CHOOSE g : IsRun(g, Len(iov))
<1>1. Runs(op, fd, iov) = after[Len(iov)]
  BY DEF Runs
<1>2. \A r \in start : Reports(r)
  BY DEF Reports
<1>3. \A n \in 1 .. Len(iov) : \A runs :
         (\A r \in runs : Reports(r)) => \A r \in More(n, runs) : Reports(r)
  BY ExtendReports
<1> HIDE DEF start, More
<1>4. \A m \in Nat : \E g : IsRun(g, m)
  <2> DEFINE bad == {m \in Nat : ~ \E g : IsRun(g, m)}
  <2>1. SUFFICES ASSUME bad # {} PROVE FALSE
    OBVIOUS
  <2>2. bad \in SUBSET Nat
    OBVIOUS
  <2>3. PICK m \in bad : \A j \in bad : m <= j
    BY <2>1, <2>2, LeastExists
  <2>4. CASE m = 0
    <3>1. IsRun([n \in 0 .. 0 |-> start], 0)
      OBVIOUS
    <3> QED
      BY <2>4, <3>1
  <2>5. CASE m # 0
    <3> HIDE DEF bad
    <3>1. m \in Nat /\ m - 1 \in Nat /\ m - 1 \notin bad
      BY <2>2, <2>3, <2>5
    <3> USE DEF bad
    <3>2. PICK g : IsRun(g, m - 1)
      BY <3>1
    <3> DEFINE h == [n \in 0 .. m |-> IF n = 0 THEN start ELSE More(n, g[n - 1])]
    <3>3. \A n \in 0 .. m - 1 : h[n] = g[n]
      BY <3>1, <3>2
    <3> HIDE DEF h
    <3>4. \A n \in 0 .. m : n # 0 => h[n - 1] = g[n - 1]
      BY <3>1, <3>3
    <3> USE DEF h
    <3>5. IsRun(h, m)
      BY <3>4
    <3> QED
      BY <3>5
  <2> QED
    BY <2>4, <2>5
<1>5. IsRun(after, Len(iov))
  <2>1. \E g : IsRun(g, Len(iov))
    BY <1>4
  <2> HIDE DEF IsRun
  <2> QED
    BY <2>1, Zenon
<1>6. \A m \in 0 .. Len(iov) : \A r \in after[m] : Reports(r)
  <2> HIDE DEF after
  <2> DEFINE bad == {m \in 0 .. Len(iov) : ~ \A r \in after[m] : Reports(r)}
  <2>1. SUFFICES ASSUME bad # {} PROVE FALSE
    OBVIOUS
  <2>2. bad \in SUBSET Nat
    OBVIOUS
  <2>3. PICK m \in bad : \A j \in bad : m <= j
    BY <2>1, <2>2, LeastExists
  <2>4. CASE m = 0
    BY <1>2, <1>5, <2>4
  <2>5. CASE m # 0
    <3>1. m - 1 \in 0 .. Len(iov) /\ m - 1 \notin bad /\ m \in 1 .. Len(iov)
      BY <2>3, <2>5
    <3>2. \A r \in after[m - 1] : Reports(r)
      BY <3>1
    <3>3. after[m] = More(m, after[m - 1])
      BY <1>5, <2>5, <3>1
    <3> QED
      BY <1>3, <3>1, <3>2, <3>3
  <2> QED
    BY <2>4, <2>5
<1> QED
  BY <1>1, <1>6

(***************************************************************************)
(* The invariant, part by part                                             *)
(***************************************************************************)
\* What the calls that leave the table alone share.
LEMMA StopsSomewhere ==
    ASSUME NEW b, Stop(b)
    PROVE  state' \in {"running", "stopped", "trapped"}
  BY DEF Stop

\* The table and the host's descriptors stay: so does who owns them.
LEMMA OwnersStay ==
    ASSUME DescriptorsOwned, UNCHANGED <<fd_mapping, host>>
    PROVE  DescriptorsOwned'
  BY DEF DescriptorsOwned

\* The regions stay where they are.
LEMMA RegionsStay ==
    ASSUME RegionsAscend, UNCHANGED <<maps, anonymous_last>>
    PROVE  RegionsAscend'
  BY DEF RegionsAscend, Fits

\* A new descriptor that the host did not have open gets one owner.
LEMMA OpenOwned ==
    ASSUME OsType, DescriptorsOwned, NEW val \in Entries, val # FD_UNUSED, val \notin host,
           Placed(fd_mapping, fd_mapping', val),
           host' = host \cup ({val} \cap HostFds)
    PROVE  DescriptorsOwned'
<1> USE OsAssumption
<1>1. /\ host = {fd_mapping[i] : i \in DOMAIN fd_mapping} \cap HostFds
      /\ \A i, j \in DOMAIN fd_mapping :
            i # j /\ fd_mapping[i] \in HostFds => fd_mapping[i] # fd_mapping[j]
  BY DEF DescriptorsOwned
<1>2. PICK p \in DOMAIN fd_mapping' :
          /\ fd_mapping'[p] = val
          /\ p \in DOMAIN fd_mapping => fd_mapping[p] = FD_UNUSED
          /\ \A i \in DOMAIN fd_mapping' :
                i # p => i \in DOMAIN fd_mapping /\ fd_mapping'[i] = fd_mapping[i]
  BY DEF Placed
<1>3. DOMAIN fd_mapping \subseteq DOMAIN fd_mapping'
  BY DEF Placed
<1>4. FD_UNUSED \notin HostFds
  BY DEF FD_UNUSED
<1>5. \A i \in DOMAIN fd_mapping : fd_mapping[i] \in HostFds => i # p /\ fd_mapping'[i] = fd_mapping[i]
  BY <1>2, <1>3, <1>4
<1>6. \A i \in DOMAIN fd_mapping : fd_mapping[i] \in HostFds => fd_mapping[i] # val
  BY <1>1
<1>7. host' = {fd_mapping'[i] : i \in DOMAIN fd_mapping'} \cap HostFds
  <2>1. ASSUME NEW x \in host' PROVE x \in {fd_mapping'[i] : i \in DOMAIN fd_mapping'} \cap HostFds
    <3>1. CASE x \in host
      BY <1>1, <1>3, <1>5, <3>1
    <3>2. CASE x = val /\ x \in HostFds
      BY <1>2, <3>2
    <3> QED
      BY <2>1, <3>1, <3>2
  <2>2. ASSUME NEW i \in DOMAIN fd_mapping', fd_mapping'[i] \in HostFds PROVE fd_mapping'[i] \in host'
    BY <1>1, <1>2, <2>2
  <2> QED
    BY <2>1, <2>2
<1>8. ASSUME NEW i \in DOMAIN fd_mapping', NEW j \in DOMAIN fd_mapping', i # j,
             fd_mapping'[i] \in HostFds
      PROVE  fd_mapping'[i] # fd_mapping'[j]
  BY <1>1, <1>2, <1>6, <1>8
<1> QED
  BY <1>7, <1>8 DEF DescriptorsOwned

\* A free descriptor of the host, when it has one.
LEMMA FreeDescriptor ==
    ASSUME OsType, host # HostFds
    PROVE  Min(HostFds \ host) \in HostFds \ host
<1>1. HostFds \ host \in SUBSET Nat /\ HostFds \ host # {}
  BY OsAssumption DEF OsType
<1> QED
  BY <1>1, MinLeast

\* file_open keeps the table and the host's descriptors in agreement.
LEMMA FileOpenKeeps ==
    ASSUME OsType, DescriptorsOwned, NEW path, file_open(path)
    PROVE  /\ DescriptorsOwned'
           /\ fd_mapping' \in Seq(Entries) /\ host' \in SUBSET HostFds /\ a0' \in Int
<1> USE OsAssumption
<1>1. CASE ~fs_root /\ fd_mapping' = allocate_fd(fd_mapping, FD_TERMINAL) /\ UNCHANGED host
           /\ Finish(Allocated(fd_mapping, allocate_fd(fd_mapping, FD_TERMINAL)))
  <2>1. FD_TERMINAL \in Entries /\ FD_TERMINAL # FD_UNUSED /\ FD_TERMINAL \notin HostFds
    BY DEF Entries, FD_TERMINAL, FD_UNUSED
  <2>2. Placed(fd_mapping, fd_mapping', FD_TERMINAL)
    BY <1>1, <2>1, AllocatePlaces DEF OsType
  <2>3. DescriptorsOwned'
    BY <1>1, <2>1, <2>2, OpenOwned DEF OsType
  <2>4. a0' \in Int
    BY <1>1, <2>1, AllocatedIsNumber, FinishWritesResult DEF OsType
  <2> QED
    BY <1>1, <2>2, <2>3, <2>4 DEF OsType, Placed
<1>2. CASE \E new \in HostFds \ host :
              /\ host' = host \cup {new}
              /\ fd_mapping' = allocate_fd(fd_mapping, new)
              /\ Finish(Allocated(fd_mapping, allocate_fd(fd_mapping, new)))
  <2>1. PICK new \in HostFds \ host :
              /\ host' = host \cup {new}
              /\ fd_mapping' = allocate_fd(fd_mapping, new)
              /\ Finish(Allocated(fd_mapping, allocate_fd(fd_mapping, new)))
    BY <1>2
  <2>2. new \in Entries /\ new # FD_UNUSED /\ new \in HostFds
    BY <2>1 DEF Entries, FD_UNUSED
  <2>3. Placed(fd_mapping, fd_mapping', new)
    BY <2>1, <2>2, AllocatePlaces DEF OsType
  <2>4. DescriptorsOwned'
    BY <2>1, <2>2, <2>3, OpenOwned
  <2>5. a0' \in Int
    BY <2>1, <2>2, AllocatedIsNumber, FinishWritesResult DEF OsType
  <2> QED
    BY <2>1, <2>3, <2>4, <2>5 DEF OsType, Placed
<1>3. CASE /\ Finish(result_errno_if_error(IF host = HostFds THEN "EMFILE" ELSE "ENOENT"))
           /\ UNCHANGED <<fd_mapping, host>>
  BY <1>3, OwnersStay, ErrorsNegative, FinishWritesResult DEF OsType
<1> QED
  BY <1>1, <1>2, <1>3, FreeDescriptor DEF file_open

\* A close takes the entry and the host's descriptor away together.
LEMMA CloseOwned ==
    ASSUME OsType, DescriptorsOwned, NEW targetfd \in Int,
           targetfd_to_fd(targetfd) # FD_INVALID,
           host' = host \ {targetfd_to_fd(targetfd)},
           fd_mapping' = close_fd(fd_mapping, targetfd)
    PROVE  DescriptorsOwned' /\ fd_mapping' \in Seq(Entries) /\ host' \in SUBSET HostFds
<1> USE OsAssumption
<1>1. targetfd \in 0 .. Len(fd_mapping) - 1 /\ targetfd_to_fd(targetfd) = fd_mapping[targetfd + 1]
  BY DEF targetfd_to_fd
<1>2. /\ fd_mapping \in Seq(Entries) /\ Len(fd_mapping) \in Nat
      /\ DOMAIN fd_mapping = 1 .. Len(fd_mapping)
  BY DEF OsType
<1> DEFINE p == targetfd + 1
<1>3. p \in DOMAIN fd_mapping /\ targetfd <= Len(fd_mapping)
  BY <1>1, <1>2
<1>4. fd_mapping' = [fd_mapping EXCEPT ![p] = FD_UNUSED]
  BY <1>3 DEF close_fd
<1>5. FD_UNUSED \in Entries /\ FD_UNUSED \notin HostFds
  BY DEF Entries, FD_UNUSED
<1>6. /\ fd_mapping' \in Seq(Entries) /\ DOMAIN fd_mapping' = DOMAIN fd_mapping
      /\ fd_mapping'[p] = FD_UNUSED
      /\ \A i \in DOMAIN fd_mapping : i # p => fd_mapping'[i] = fd_mapping[i]
  BY <1>2, <1>3, <1>4, <1>5
<1>7. host' = host \ {fd_mapping[p]}
  BY <1>1
<1> HIDE DEF p
<1>8. DescriptorsOwned'
  BY <1>3, <1>5, <1>6, <1>7 DEF DescriptorsOwned
<1> QED
  BY <1>6, <1>7, <1>8 DEF OsType

\* The remainder of a number below the divisor.
LEMMA ModSmall ==
    ASSUME NEW a \in Nat, NEW w \in Nat, a < w
    PROVE  a % w = a
  OBVIOUS

\* A new region begins at the end of the last one, and moves that end up.
LEMMA MmapAscends ==
    ASSUME OsType, RegionsAscend, NEW length \in MapLengths, do_sys_mmap(length)
    PROVE  RegionsAscend' /\ anonymous_last' \in Addresses /\ maps' \in Seq(Addresses \X Addresses)
<1> USE OsAssumption
<1>1. /\ maps \in Seq(Addresses \X Addresses) /\ anonymous_last \in Nat /\ length \in Nat
      /\ Word \in Nat \ {0} /\ length \in Addresses /\ anonymous_last \in Addresses
  BY DEF OsType, Addresses
<1>0. PICK n \in Nat : n = Len(maps)
  BY <1>1
<1>2. /\ maps' = Append(maps, <<anonymous_last, length>>)
      /\ anonymous_last' = (anonymous_last + length) % Word
  BY DEF do_sys_mmap, NextRegion
<1>3. anonymous_last' \in Addresses
  BY <1>1, <1>2 DEF Addresses
<1>4. anonymous_last + length < Word => anonymous_last' = anonymous_last + length
  <2>1. anonymous_last + length \in Nat /\ Word \in Nat
    BY <1>1
  <2> QED
    BY <1>2, <2>1, ModSmall
<1>5. /\ maps' \in Seq(Addresses \X Addresses) /\ n \in Nat
      /\ DOMAIN maps = 1 .. n /\ DOMAIN maps' = 1 .. n + 1 /\ Len(maps') = n + 1
      /\ maps'[n + 1] = <<anonymous_last, length>>
      /\ \A i \in 1 .. n : maps'[i] = maps[i]
  BY <1>0, <1>1, <1>2
<1>6. /\ maps'[n + 1][1] = anonymous_last /\ maps'[n + 1][2] = length
      /\ \A i \in 1 .. n : maps'[i][1] = maps[i][1] /\ maps'[i][2] = maps[i][2]
                           /\ maps[i][1] \in Nat /\ maps[i][2] \in Nat
  <2>1. \A i \in 1 .. n : maps[i] \in Addresses \X Addresses
    BY <1>1, <1>5
  <2> QED
    BY <1>5, <2>1, SMTT(40) DEF Addresses
<1>7. \A i \in 1 .. n : Fits(i)' <=> Fits(i)
  BY <1>6 DEF Fits
<1>8. Fits(n + 1)' <=> anonymous_last + length < Word
  BY <1>6 DEF Fits
<1>9. ASSUME NEW i \in DOMAIN maps', NEW j \in DOMAIN maps', i < j,
             \A k \in i .. j - 1 : Fits(k)'
      PROVE  maps'[i][1] + maps'[i][2] <= maps'[j][1]
  <2>1. i \in 1 .. n /\ \A k \in i .. j - 1 : Fits(k)
    BY <1>5, <1>7, <1>9
  <2>2. CASE j \in 1 .. n
    BY <1>5, <1>6, <1>9, <2>1, <2>2 DEF RegionsAscend
  <2>3. CASE j = n + 1
    <3>1. \A k \in i .. n : Fits(k)
      BY <1>5, <2>1, <2>3
    <3>2. maps[i][1] + maps[i][2] <= anonymous_last
      BY <1>0, <1>5, <2>1, <3>1 DEF RegionsAscend
    <3> QED
      BY <1>6, <2>1, <2>3, <3>2
  <2> QED
    BY <1>5, <2>2, <2>3
<1>10. ASSUME NEW i \in DOMAIN maps', \A k \in i .. Len(maps') : Fits(k)'
       PROVE  maps'[i][1] + maps'[i][2] <= anonymous_last'
  <2>1. i \in 1 .. n + 1 /\ anonymous_last' = anonymous_last + length
    BY <1>4, <1>5, <1>8, <1>10
  <2>2. CASE i = n + 1
    <3>1. maps'[i][1] = anonymous_last /\ maps'[i][2] = length
      BY <1>6, <2>2
    <3> QED
      BY <1>1, <2>1, <3>1
  <2>3. CASE i \in 1 .. n
    <3>1. \A k \in i .. n : Fits(k)
      BY <1>5, <1>7, <1>10, <2>3
    <3>2. maps[i][1] + maps[i][2] <= anonymous_last
      BY <1>0, <1>5, <2>3, <3>1 DEF RegionsAscend
    <3> QED
      BY <1>1, <1>6, <2>1, <2>3, <3>2
  <2> QED
    BY <2>1, <2>2, <2>3, <1>5
<1>11. RegionsAscend'
  BY <1>9, <1>10 DEF RegionsAscend
<1> QED
  BY <1>3, <1>5, <1>11

\* A transfer keeps the invariant: it touches a0, the input and the counts.
LEMMA TransferKeeps ==
    ASSUME IInv, NEW op, NEW targetfd, NEW iov \in Seq(Nat), UNCHANGED fs_root,
           DoTransfer(op, targetfd, iov)
    PROVE  IInv'
<1>1. a0' \in Int /\ moved' \in Nat /\ input' \in Nat /\ BytesReported'
  <2>1. CASE targetfd_to_fd(targetfd) = FD_INVALID
    <3>1. Return(0, -TARGET_EINVAL) /\ moved' = 0 /\ UNCHANGED input
      BY <2>1 DEF DoTransfer
    <3> QED
      BY <3>1 DEF Return, TARGET_EINVAL, IInv, OsType, BytesReported
  <2>2. CASE targetfd_to_fd(targetfd) # FD_INVALID
    <3>1. PICK run \in Runs(op, targetfd_to_fd(targetfd), iov) :
             Finish(run.result) /\ moved' = run.moved /\ input' = run.input
      BY <2>2 DEF DoTransfer
    <3>2. Reports(run)
      BY RunsReport DEF IInv, OsType
    <3>3. run.result \in Int /\ run.moved \in Nat /\ run.input \in Nat
          /\ (run.result = run.moved \/ run.moved = 0)
      BY <3>2 DEF Reports
    <3>4. a0' = run.result
      BY <3>1, <3>3, FinishWritesResult
    <3> QED
      BY <3>1, <3>3, <3>4 DEF BytesReported
  <2> QED
    BY <2>1, <2>2
<1>2. Stop(FALSE) /\ UNCHANGED <<fd_mapping, anonymous_last, brk_limit, host, typed, maps>>
  BY DEF DoTransfer
<1> QED
  BY <1>1, <1>2, StopsSomewhere, OwnersStay, RegionsStay DEF IInv, OsType

\* So does every other call, and a key.
LEMMA OtherStepsKeep ==
    ASSUME IInv, UNCHANGED fs_root
    PROVE  /\ \A at_cwd \in BOOLEAN, path \in Paths : do_sys_openat(at_cwd, path) => IInv'
           /\ \A fd \in Int : do_sys_close(fd) => IInv'
           /\ \A fd \in Int : do_sys_ftruncate(fd) => IInv'
           /\ \A limit \in MapLengths : do_sys_brk(limit) => IInv'
           /\ \A length \in MapLengths : do_sys_mmap(length) => IInv'
           /\ do_sys_exit => IInv'
           /\ syscall_default_handler => IInv'
           /\ syscall_unknown => IInv'
           /\ Type => IInv'
<1> USE OsAssumption
<1>1. ASSUME NEW at_cwd \in BOOLEAN, NEW path \in Paths, do_sys_openat(at_cwd, path) PROVE IInv'
  <2>1. DescriptorsOwned' /\ fd_mapping' \in Seq(Entries) /\ host' \in SUBSET HostFds /\ a0' \in Int
    <3>1. CASE at_cwd
      BY <1>1, <3>1, FileOpenKeeps DEF IInv, do_sys_openat
    <3>2. CASE ~at_cwd
      <4>1. Return(TARGET_ENOSYS, 0) /\ UNCHANGED <<fd_mapping, host>>
        BY <1>1, <3>2 DEF do_sys_openat
      <4>2. a0' = 0
        BY <4>1 DEF Return, TARGET_ENOSYS
      <4> QED
        BY <4>1, <4>2, OwnersStay DEF IInv, OsType
    <3> QED
      BY <3>1, <3>2
  <2>2. state' \in {"running", "stopped", "trapped"}
    BY <1>1, StopsSomewhere DEF do_sys_openat
  <2>3. moved' = 0 /\ UNCHANGED <<anonymous_last, brk_limit, input, typed, maps>>
    BY <1>1 DEF do_sys_openat
  <2> QED
    BY <2>1, <2>2, <2>3, RegionsStay DEF IInv, OsType, BytesReported
<1>2. ASSUME NEW fd \in Int, do_sys_close(fd) PROVE IInv'
  <2>1. DescriptorsOwned' /\ fd_mapping' \in Seq(Entries) /\ host' \in SUBSET HostFds /\ a0' \in Int
    <3>1. CASE targetfd_to_fd(fd) = FD_INVALID
      <4>1. Return(0, -TARGET_EINVAL) /\ UNCHANGED <<fd_mapping, host>>
        BY <1>2, <3>1 DEF do_sys_close
      <4>2. a0' = -22
        BY <4>1 DEF Return, TARGET_EINVAL
      <4> QED
        BY <4>1, <4>2, OwnersStay DEF IInv, OsType
    <3>2. CASE targetfd_to_fd(fd) # FD_INVALID
      <4>1. Finish(0) /\ host' = host \ {targetfd_to_fd(fd)} /\ fd_mapping' = close_fd(fd_mapping, fd)
        BY <1>2, <3>2 DEF do_sys_close
      <4> QED
        BY <3>2, <4>1, CloseOwned, FinishWritesResult DEF IInv
    <3> QED
      BY <3>1, <3>2
  <2>2. state' \in {"running", "stopped", "trapped"}
    BY <1>2, StopsSomewhere DEF do_sys_close
  <2>3. moved' = 0 /\ UNCHANGED <<anonymous_last, brk_limit, input, typed, maps>>
    BY <1>2 DEF do_sys_close
  <2> QED
    BY <2>1, <2>2, <2>3, RegionsStay DEF IInv, OsType, BytesReported
<1>3. ASSUME NEW fd \in Int, do_sys_ftruncate(fd) PROVE IInv'
  <2>1. a0' \in Int
    <3>1. \/ Return(0, -TARGET_EINVAL) \/ Finish(0)
          \/ \E e \in HostErrors \cup {"EBADF"} : Finish(result_errno_if_error(e))
      BY <1>3 DEF do_sys_ftruncate
    <3> QED
      BY <3>1, ErrorsNegative, FinishWritesResult DEF Return, TARGET_EINVAL
  <2>2. state' \in {"running", "stopped", "trapped"}
    BY <1>3, StopsSomewhere DEF do_sys_ftruncate
  <2>3. moved' = 0 /\ UNCHANGED <<fd_mapping, anonymous_last, brk_limit, host, input, typed, maps>>
    BY <1>3 DEF do_sys_ftruncate
  <2> QED
    BY <2>1, <2>2, <2>3, RegionsStay, OwnersStay DEF IInv, OsType, BytesReported
<1>4. ASSUME NEW limit \in MapLengths, do_sys_brk(limit) PROVE IInv'
  <2>1. limit \in Addresses /\ limit \in Int
    BY DEF Addresses
  <2>2. brk_limit' = limit /\ a0' = limit
    BY <1>4 DEF do_sys_brk, Return
  <2>3. state' \in {"running", "stopped", "trapped"}
    BY <1>4, StopsSomewhere DEF do_sys_brk
  <2>4. moved' = 0 /\ UNCHANGED <<fd_mapping, anonymous_last, host, input, typed, maps>>
    BY <1>4 DEF do_sys_brk
  <2> QED
    BY <2>1, <2>2, <2>3, <2>4, RegionsStay, OwnersStay DEF IInv, OsType, BytesReported
<1>5. ASSUME NEW length \in MapLengths, do_sys_mmap(length) PROVE IInv'
  <2>1. RegionsAscend' /\ anonymous_last' \in Addresses /\ maps' \in Seq(Addresses \X Addresses)
    BY <1>5, MmapAscends DEF IInv
  <2>2. a0' = anonymous_last /\ anonymous_last \in Int
    BY <1>5 DEF do_sys_mmap, Return, IInv, OsType, Addresses
  <2>3. state' \in {"running", "stopped", "trapped"}
    BY <1>5, StopsSomewhere DEF do_sys_mmap
  <2>4. moved' = 0 /\ UNCHANGED <<fd_mapping, brk_limit, host, input, typed>>
    BY <1>5 DEF do_sys_mmap
  <2> QED
    BY <2>1, <2>2, <2>3, <2>4, OwnersStay DEF IInv, OsType, BytesReported
<1>6. ASSUME do_sys_exit PROVE IInv'
  <2>1. a0' = 0
    BY <1>6, FinishWritesResult DEF do_sys_exit
  <2>2. state' \in {"running", "stopped", "trapped"}
    BY <1>6, StopsSomewhere DEF do_sys_exit
  <2> QED
    BY <1>6, <2>1, <2>2, RegionsStay, OwnersStay
    DEF do_sys_exit, IInv, OsType, BytesReported
<1>7. ASSUME syscall_default_handler PROVE IInv'
  <2>1. a0' = 0
    BY <1>7 DEF syscall_default_handler, Return, TARGET_ENOSYS
  <2> QED
    BY <1>7, <2>1, StopsSomewhere, RegionsStay, OwnersStay
    DEF syscall_default_handler, IInv, OsType, BytesReported
<1>8. ASSUME syscall_unknown PROVE IInv'
  BY <1>8, RegionsStay, OwnersStay DEF syscall_unknown, IInv, OsType, BytesReported
<1>9. ASSUME Type PROVE IInv'
  BY <1>9, RegionsStay, OwnersStay DEF Type, IInv, OsType, BytesReported
<1> QED
  BY <1>1, <1>2, <1>3, <1>4, <1>5, <1>6, <1>7, <1>8, <1>9

\* The table the program starts with holds the terminal, and standard input from a
\* file when it is redirected.
LEMMA InitInvariant == Init => IInv
<1> SUFFICES ASSUME Init PROVE IInv
  OBVIOUS
<1> USE OsAssumption
<1>1. fd_mapping \in Seq(Entries) /\ host \in SUBSET HostFds /\ DescriptorsOwned
  <2>1. CASE MapStdin
    <3>1. Min(HostFds) \in HostFds
      BY <2>1, MinLeast DEF MapStdin
    <3>2. PICK h \in HostFds : h = Min(HostFds)
      BY <3>1
    <3>3. /\ host = {h} /\ fd_mapping = <<h, FD_TERMINAL, FD_TERMINAL>>
          /\ h \in Entries /\ FD_TERMINAL \in Entries /\ FD_TERMINAL \notin HostFds
      BY <2>1, <3>2 DEF MapStdin, Entries, FD_TERMINAL
    <3>4. DOMAIN fd_mapping = 1 .. 3 /\ fd_mapping[1] = h /\ fd_mapping[2] = FD_TERMINAL
          /\ fd_mapping[3] = FD_TERMINAL
      BY <3>3
    <3> QED
      BY <3>3, <3>4 DEF DescriptorsOwned
  <2>2. CASE host = {} /\ fd_mapping = [i \in 1 .. 3 |-> FD_TERMINAL]
    <3>1. FD_TERMINAL \in Entries /\ FD_TERMINAL \notin HostFds
      BY DEF Entries, FD_TERMINAL
    <3> QED
      BY <2>2, <3>1 DEF DescriptorsOwned
  <2> QED
    BY <2>1, <2>2 DEF Init
<1>2. RegionsAscend /\ BytesReported
  BY DEF Init, RegionsAscend, BytesReported
<1>3. maps \in Seq(Addresses \X Addresses)
  BY DEF Init
<1> QED
  BY <1>1, <1>2, <1>3 DEF Init, IInv, OsType, Addresses

\* Every step keeps the invariant.
LEMMA NextInvariant == IInv /\ [Next]_vars => IInv'
<1> SUFFICES ASSUME IInv, [Next]_vars PROVE IInv'
  OBVIOUS
<1> USE OsAssumption
<1>1. CASE UNCHANGED vars
  BY <1>1, RegionsStay, OwnersStay DEF vars, IInv, OsType, BytesReported
<1>2. CASE Next
  <2>1. UNCHANGED fs_root
    BY <1>2 DEF Next
  <2>2. CASE Type
    BY <2>1, <2>2, OtherStepsKeep
  <2>3. CASE \E number \in Numbers : handle_exception(number)
    <3>1. PICK number \in Numbers : handle_exception(number)
      BY <2>3
    <3>2. \A fd \in TargetFds : fd \in Int
      BY DEF TargetFds
    <3>3. \A len \in Lengths : <<len>> \in Seq(Nat)
      OBVIOUS
    <3>4. \A iov \in Iovs : iov \in Seq(Nat)
      OBVIOUS
    <3>5. ASSUME NEW fd \in TargetFds, NEW len \in Lengths, do_sys_read(fd, len) \/ do_sys_write(fd, len)
          PROVE  IInv'
      BY <2>1, <3>3, <3>5, TransferKeeps DEF do_sys_read, do_sys_write
    <3>6. ASSUME NEW fd \in TargetFds, NEW iov \in Iovs, do_sys_readv(fd, iov) \/ do_sys_writev(fd, iov)
          PROVE  IInv'
      BY <2>1, <3>4, <3>6, TransferKeeps DEF do_sys_readv, do_sys_writev
    <3> QED
      BY <2>1, <3>1, <3>2, <3>5, <3>6, OtherStepsKeep DEF handle_exception
  <2> QED
    BY <1>2, <2>2, <2>3 DEF Next
<1> QED
  BY <1>1, <1>2

(***************************************************************************)
(* Theorems                                                                *)
(***************************************************************************)
\* The types, the ownership of descriptors, the report of transfers and the order
\* of regions hold in every state the system calls reach.
THEOREM OsInvariant == Spec => []IInv
<1> QED
  BY InitInvariant, NextInvariant, PTL DEF Spec

\* Host descriptors have one owner in the table and none leaks: allocate_fd,
\* file_open and do_sys_close keep the table and the host in agreement.
THEOREM DescriptorsOwnedTheorem == Spec => []DescriptorsOwned
<1>1. IInv => DescriptorsOwned
  BY DEF IInv
<1> QED
  BY <1>1, OsInvariant, PTL

\* read, write, readv and writev report the bytes they moved, for any list of
\* buffers and whatever the host does with each of them.
THEOREM BytesReportedTheorem == Spec => []BytesReported
<1>1. IInv => BytesReported
  BY DEF IInv
<1> QED
  BY <1>1, OsInvariant, PTL

\* The regions mmap gives out are disjoint until one reaches the end of the
\* address space.
THEOREM MappingsDisjointTheorem == Spec => []MappingsDisjoint
<1>1. IInv => MappingsDisjoint
  <2> SUFFICES ASSUME IInv, NEW i \in DOMAIN maps, NEW j \in DOMAIN maps, i < j,
                      \A k \in i .. j - 1 : maps[k][1] + maps[k][2] < Word
               PROVE  (maps[i][1] .. maps[i][1] + maps[i][2] - 1)
                      \cap (maps[j][1] .. maps[j][1] + maps[j][2] - 1) = {}
    BY DEF MappingsDisjoint
  <2>1. maps[i][1] + maps[i][2] <= maps[j][1]
    BY DEF IInv, RegionsAscend, Fits
  <2>2. maps[i] \in Addresses \X Addresses /\ maps[j] \in Addresses \X Addresses
    BY DEF IInv, OsType
  <2>3. /\ maps[i][1] \in Int /\ maps[i][2] \in Int /\ maps[j][1] \in Int /\ maps[j][2] \in Int
    BY <2>2 DEF Addresses
  <2> QED
    BY <2>1, <2>3
<1> QED
  BY <1>1, OsInvariant, PTL
===========================================================================
