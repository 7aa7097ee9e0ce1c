--------------------------- MODULE CacheRowProofs ---------------------------
(***************************************************************************)
(* Proofs about the replacement policies at work in a row, for every       *)
(* associativity.                                                          *)
(***************************************************************************)
EXTENDS CacheRow, WellFoundedInduction, TLAPS

\* The operators of the row when LRU is configured.
LEMMA RowIsLRU ==
    ASSUME policy = "RP_LRU"
    PROVE  /\ RowStates(policy) = LRUStates
           /\ RowInit(policy) = LRUInit
           /\ \A s, w, v : update_stats(policy, s, w, v) = LRUUpdate(s, w, v)
           /\ \A s : select_way_to_evict(policy, s) = LRUEvict(s)
BY DEF RowStates, RowInit, update_stats, select_way_to_evict

\* Ways are the integers from 0 to Associativity - 1.
LEMMA WaysFacts ==
    /\ Associativity \in Int
    /\ 0 \in Ways /\ Associativity - 1 \in Ways
    /\ \A i \in Ways : i \in Int /\ 0 <= i /\ i <= Associativity - 1
    /\ \A i \in Int : 0 <= i /\ i <= Associativity - 1 => i \in Ways
BY PoliciesAssumption DEF Ways

\* A way has one place in the queue.
LEMMA Place ==
    ASSUME NEW q \in LRUStates, NEW way \in Ways
    PROVE  \E p \in Ways : /\ p = CHOOSE i \in Ways : q[i] = way
                           /\ \A j \in Ways : q[j] = way <=> j = p
<1>1. PICK p \in Ways : \A j \in Ways : q[j] = way <=> j = p
  BY DEF LRUStates
<1>2. p = CHOOSE i \in Ways : q[i] = way
  BY <1>1
<1> QED
  BY <1>1, <1>2

\* An access moves its way to the back of the queue and keeps the rest in order.
LEMMA MovedBack ==
    ASSUME NEW q \in LRUStates, NEW way \in Ways
    PROVE  /\ LRUUpdate(q, way, TRUE) \in LRUStates
           /\ \E p \in Ways :
                /\ q[p] = way
                /\ \A i \in Ways :
                      /\ i < p => LRUUpdate(q, way, TRUE)[i] = q[i]
                      /\ ~(i < p) /\ i < Associativity - 1 =>
                            LRUUpdate(q, way, TRUE)[i] = q[i + 1]
                      /\ i = Associativity - 1 => LRUUpdate(q, way, TRUE)[i] = way
<1>1. PICK p \in Ways : /\ p = CHOOSE i \in Ways : q[i] = way
                        /\ \A j \in Ways : q[j] = way <=> j = p
  BY Place
<1> DEFINE r == LRUUpdate(q, way, TRUE)
<1>2. r = [i \in Ways |-> IF i < p THEN q[i]
                          ELSE IF i < Associativity - 1 THEN q[i + 1] ELSE way]
  BY <1>1 DEF LRUUpdate
<1> HIDE DEF r
<1>3. r \in [Ways -> Ways]
  BY <1>2, PoliciesAssumption DEF LRUStates, Ways
<1>4. ASSUME NEW i \in Ways
      PROVE  /\ i < p => r[i] = q[i]
             /\ ~(i < p) /\ i < Associativity - 1 => r[i] = q[i + 1]
             /\ i = Associativity - 1 => r[i] = way
  <2>1. r[i] = IF i < p THEN q[i] ELSE IF i < Associativity - 1 THEN q[i + 1] ELSE way
    BY <1>2
  <2>2. i = Associativity - 1 => ~(i < p) /\ ~(i < Associativity - 1)
    BY WaysFacts
  <2> QED
    BY <2>1, <2>2
<1>5. ASSUME NEW w \in Ways
      PROVE  \E i \in Ways : \A j \in Ways : r[j] = w <=> j = i
  <2>1. PICK k \in Ways : \A j \in Ways : q[j] = w <=> j = k
    BY DEF LRUStates
  <2>2. CASE w = way
    <3>1. ASSUME NEW j \in Ways, j < Associativity - 1 PROVE r[j] # w
      <4>1. CASE j < p
        <5>1. r[j] = q[j] /\ j # p
          BY <1>4, <4>1, WaysFacts
        <5> QED
          BY <1>1, <2>2, <5>1
      <4>2. CASE ~(j < p)
        <5>1. r[j] = q[j + 1]
          BY <1>4, <3>1, <4>2
        <5>2. j + 1 \in Ways /\ j + 1 # p
          BY <3>1, <4>2, WaysFacts
        <5> QED
          BY <1>1, <2>2, <5>1, <5>2
      <4> QED
        BY <4>1, <4>2
    <3> QED
      BY <1>4, <2>2, <3>1, WaysFacts
  <2>3. CASE w # way /\ k < p
    <3>1. ASSUME NEW j \in Ways PROVE r[j] = w <=> j = k
      <4>1. CASE j < p
        BY <1>4, <2>1, <4>1
      <4>2. CASE ~(j < p)
        BY <1>4, <2>1, <2>3, <4>2, WaysFacts
      <4> QED
        BY <4>1, <4>2
    <3> QED
      BY <3>1
  <2>4. CASE w # way /\ ~(k < p)
    <3>1. k # p
      BY <1>1, <2>1, <2>4
    <3>2. k - 1 \in Ways /\ ~(k - 1 < p) /\ k - 1 < Associativity - 1 /\ (k - 1) + 1 = k
      BY <2>4, <3>1, WaysFacts
    <3>3. ASSUME NEW j \in Ways PROVE r[j] = w <=> j = k - 1
      <4>1. CASE j < p
        BY <1>4, <2>1, <2>4, <3>2, <4>1
      <4>2. CASE ~(j < p)
        BY <1>4, <2>1, <2>4, <4>2, <3>2, WaysFacts
      <4> QED
        BY <4>1, <4>2
    <3> QED
      BY <3>2, <3>3
  <2> QED
    BY <2>2, <2>3, <2>4
<1>6. r \in LRUStates
  BY <1>3, <1>5 DEF LRUStates
<1>7. q[p] = way
  BY <1>1
<1> QED
  BY <1>4, <1>6, <1>7 DEF r

\* A kick moves its way to the front of the queue and keeps the rest in order.
LEMMA MovedFront ==
    ASSUME NEW q \in LRUStates, NEW way \in Ways
    PROVE  /\ LRUUpdate(q, way, FALSE) \in LRUStates
           /\ \E p \in Ways :
                /\ q[p] = way
                /\ \A i \in Ways :
                      /\ i > p => LRUUpdate(q, way, FALSE)[i] = q[i]
                      /\ ~(i > p) /\ i > 0 => LRUUpdate(q, way, FALSE)[i] = q[i - 1]
                      /\ i = 0 => LRUUpdate(q, way, FALSE)[i] = way
<1>1. PICK p \in Ways : /\ p = CHOOSE i \in Ways : q[i] = way
                        /\ \A j \in Ways : q[j] = way <=> j = p
  BY Place
<1> DEFINE r == LRUUpdate(q, way, FALSE)
<1>2. r = [i \in Ways |-> IF i > p THEN q[i] ELSE IF i > 0 THEN q[i - 1] ELSE way]
  BY <1>1 DEF LRUUpdate
<1> HIDE DEF r
<1>3. r \in [Ways -> Ways]
  BY <1>2, PoliciesAssumption DEF LRUStates, Ways
<1>4. ASSUME NEW i \in Ways
      PROVE  /\ i > p => r[i] = q[i]
             /\ ~(i > p) /\ i > 0 => r[i] = q[i - 1]
             /\ i = 0 => r[i] = way
  <2>1. r[i] = IF i > p THEN q[i] ELSE IF i > 0 THEN q[i - 1] ELSE way
    BY <1>2
  <2>2. i = 0 => ~(i > p) /\ ~(i > 0)
    BY WaysFacts
  <2> QED
    BY <2>1, <2>2
<1>5. ASSUME NEW w \in Ways
      PROVE  \E i \in Ways : \A j \in Ways : r[j] = w <=> j = i
  <2>1. PICK k \in Ways : \A j \in Ways : q[j] = w <=> j = k
    BY DEF LRUStates
  <2>2. CASE w = way
    <3>1. ASSUME NEW j \in Ways, j > 0 PROVE r[j] # w
      <4>1. CASE j > p
        <5>1. r[j] = q[j] /\ j # p
          BY <1>4, <4>1, WaysFacts
        <5> QED
          BY <1>1, <2>2, <5>1
      <4>2. CASE ~(j > p)
        <5>1. r[j] = q[j - 1]
          BY <1>4, <3>1, <4>2
        <5>2. j - 1 \in Ways /\ j - 1 # p
          BY <3>1, <4>2, WaysFacts
        <5> QED
          BY <1>1, <2>2, <5>1, <5>2
      <4> QED
        BY <4>1, <4>2
    <3> QED
      BY <1>4, <2>2, <3>1, WaysFacts
  <2>3. CASE w # way /\ k > p
    <3>1. ASSUME NEW j \in Ways PROVE r[j] = w <=> j = k
      <4>1. CASE j > p
        BY <1>4, <2>1, <4>1
      <4>2. CASE ~(j > p)
        BY <1>4, <2>1, <2>3, <4>2, WaysFacts
      <4> QED
        BY <4>1, <4>2
    <3> QED
      BY <3>1
  <2>4. CASE w # way /\ ~(k > p)
    <3>1. k # p
      BY <1>1, <2>1, <2>4
    <3>2. k + 1 \in Ways /\ ~(k + 1 > p) /\ k + 1 > 0 /\ (k + 1) - 1 = k
      BY <2>4, <3>1, WaysFacts
    <3>3. ASSUME NEW j \in Ways PROVE r[j] = w <=> j = k + 1
      <4>1. CASE j > p
        BY <1>4, <2>1, <2>4, <3>2, <4>1
      <4>2. CASE ~(j > p)
        BY <1>4, <2>1, <2>4, <4>2, <3>2, WaysFacts
      <4> QED
        BY <4>1, <4>2
    <3> QED
      BY <3>2, <3>3
  <2> QED
    BY <2>2, <2>3, <2>4
<1>6. r \in LRUStates
  BY <1>3, <1>5 DEF LRUStates
<1>7. q[p] = way
  BY <1>1
<1> QED
  BY <1>4, <1>6, <1>7 DEF r

(***************************************************************************)
(* The invariant: the invalid ways are in front of the valid ones          *)
(***************************************************************************)
QueueOrdered(q, v) ==
    \A i, j \in Ways : i < j /\ q[i] \in v => q[j] \in v

Ordered == QueueOrdered(stats, valid)

\* The way that an access makes valid goes behind all others.
LEMMA BackOrdered ==
    ASSUME NEW q \in LRUStates, NEW w \in Ways, NEW v, QueueOrdered(q, v)
    PROVE  QueueOrdered(LRUUpdate(q, w, TRUE), v \cup {w})
<1> DEFINE r == LRUUpdate(q, w, TRUE)
<1>1. PICK p \in Ways :
         /\ q[p] = w
         /\ \A i \in Ways :
               /\ i < p => r[i] = q[i]
               /\ ~(i < p) /\ i < Associativity - 1 => r[i] = q[i + 1]
               /\ i = Associativity - 1 => r[i] = w
  BY MovedBack
<1> HIDE DEF r
<1>2. \A a, b \in Ways : q[a] = q[b] => a = b
  BY DEF LRUStates
<1>3. \A a, b \in Ways : a < b /\ q[a] \in v => q[b] \in v
  BY DEF QueueOrdered
<1>4. ASSUME NEW i \in Ways, NEW j \in Ways, i < j, r[i] \in v \cup {w}
      PROVE  r[j] \in v \cup {w}
  <2>1. CASE j = Associativity - 1
    BY <1>1, <2>1
  <2>2. CASE j < Associativity - 1
    <3>1. i \in Int /\ j \in Int /\ p \in Int /\ i < Associativity - 1
      BY <1>4, <2>2, WaysFacts
    <3>2. i + 1 \in Ways /\ j + 1 \in Ways
      BY <2>2, <3>1, WaysFacts
    <3>3. CASE i < p
      <4>1. r[i] = q[i] /\ q[i] # w
        BY <1>1, <1>2, <3>1, <3>3
      <4>2. q[i] \in v
        BY <1>4, <4>1
      <4>3. CASE j < p
        BY <1>1, <1>3, <1>4, <4>2, <4>3
      <4>4. CASE ~(j < p)
        <5>1. r[j] = q[j + 1] /\ i < j + 1
          BY <1>1, <1>4, <2>2, <3>1, <4>4
        <5> QED
          BY <1>3, <3>2, <4>2, <5>1
      <4> QED
        BY <4>3, <4>4
    <3>4. CASE ~(i < p)
      <4>1. r[i] = q[i + 1]
        BY <1>1, <3>1, <3>4
      <4>2. i + 1 # p /\ ~(j < p) /\ i + 1 < j + 1
        BY <1>4, <3>1, <3>4
      <4>3. q[i + 1] \in v
        BY <1>1, <1>2, <1>4, <3>2, <4>1, <4>2
      <4>4. r[j] = q[j + 1]
        BY <1>1, <2>2, <4>2
      <4> QED
        BY <1>3, <3>2, <4>2, <4>3, <4>4
    <3> QED
      BY <3>3, <3>4
  <2> QED
    BY <2>1, <2>2, WaysFacts
<1> QED
  BY <1>4 DEF QueueOrdered, r

\* The way that a kick makes invalid goes in front of all others.
LEMMA FrontOrdered ==
    ASSUME NEW q \in LRUStates, NEW w \in Ways, NEW v, QueueOrdered(q, v)
    PROVE  QueueOrdered(LRUUpdate(q, w, FALSE), v \ {w})
<1> DEFINE r == LRUUpdate(q, w, FALSE)
<1>1. PICK p \in Ways :
         /\ q[p] = w
         /\ \A i \in Ways :
               /\ i > p => r[i] = q[i]
               /\ ~(i > p) /\ i > 0 => r[i] = q[i - 1]
               /\ i = 0 => r[i] = w
  BY MovedFront
<1> HIDE DEF r
<1>2. \A a, b \in Ways : q[a] = q[b] => a = b
  BY DEF LRUStates
<1>3. \A a, b \in Ways : a < b /\ q[a] \in v => q[b] \in v
  BY DEF QueueOrdered
<1>4. ASSUME NEW i \in Ways, NEW j \in Ways, i < j, r[i] \in v \ {w}
      PROVE  r[j] \in v \ {w}
  <2>1. i \in Int /\ j \in Int /\ p \in Int /\ i > 0 /\ j > 0
    BY <1>1, <1>4, WaysFacts
  <2>2. i - 1 \in Ways /\ j - 1 \in Ways
    BY <2>1, WaysFacts
  <2>3. CASE j > p
    <3>1. r[j] = q[j] /\ q[j] # w
      BY <1>1, <1>2, <2>1, <2>3
    <3>2. CASE i > p
      BY <1>1, <1>3, <1>4, <3>1, <3>2
    <3>3. CASE ~(i > p)
      <4>1. r[i] = q[i - 1] /\ i - 1 < j
        BY <1>1, <1>4, <2>1, <3>3
      <4> QED
        BY <1>3, <1>4, <2>2, <3>1, <4>1
    <3> QED
      BY <3>2, <3>3
  <2>4. CASE ~(j > p)
    <3>1. j - 1 # p /\ i - 1 < j - 1 /\ ~(i > p)
      BY <1>4, <2>1, <2>4
    <3>2. r[j] = q[j - 1] /\ q[j - 1] # w
      BY <1>1, <1>2, <2>1, <2>2, <2>4, <3>1
    <3>3. r[i] = q[i - 1]
      BY <1>1, <2>1, <3>1
    <3> QED
      BY <1>3, <1>4, <2>2, <3>1, <3>2, <3>3
  <2> QED
    BY <2>3, <2>4
<1> QED
  BY <1>4 DEF QueueOrdered, r

\* Kicking the way at the front leaves the queue as it is.
LEMMA FrontStays ==
    ASSUME NEW q \in LRUStates
    PROVE  LRUUpdate(q, q[0], FALSE) = q
<1> DEFINE w == q[0]
           r == LRUUpdate(q, w, FALSE)
<1>1. w \in Ways
  BY WaysFacts DEF LRUStates
<1>2. \A a, b \in Ways : q[a] = q[b] => a = b
  BY <1>1 DEF LRUStates
<1>3. r \in LRUStates
  BY <1>1, MovedFront
<1> HIDE DEF w
<1>4. PICK p \in Ways :
         /\ q[p] = w
         /\ \A i \in Ways :
               /\ i > p => r[i] = q[i]
               /\ ~(i > p) /\ i > 0 => r[i] = q[i - 1]
               /\ i = 0 => r[i] = w
  BY <1>1, MovedFront
<1> HIDE DEF r
<1>5. p = 0 /\ q[0] = w
  BY <1>2, <1>4, WaysFacts DEF w
<1>6. ASSUME NEW i \in Ways PROVE r[i] = q[i]
  <2>1. i = 0 \/ i > 0
    BY WaysFacts
  <2> QED
    BY <1>4, <1>5, <2>1
<1>7. r = [i \in Ways |-> r[i]] /\ q = [i \in Ways |-> q[i]]
  BY <1>3 DEF LRUStates
<1>8. r = q
  BY <1>6, <1>7
<1> QED
  BY <1>8 DEF r, w

\* reset() leaves the queue and invalidates every way; the other calls move the way
\* they make valid to the back and the way they make invalid to the front.
LEMMA LRUStep ==
    ASSUME policy = "RP_LRU", TypeOK, Ordered, [Next \/ Reset]_vars
    PROVE  TypeOK' /\ Ordered'
<1>0. policy' = policy /\ RowStates(policy') = LRUStates
  <2>1. policy' = policy
    BY DEF Next, Hit, Kick, Miss, Reset, vars
  <2> QED
    BY <2>1, RowIsLRU
<1>1. stats \in LRUStates /\ stats \in [Ways -> Ways] /\ valid \subseteq Ways
  BY RowIsLRU DEF TypeOK, LRUStates
<1>2. ASSUME NEW w \in Ways, last' = w, valid' = valid \cup {w},
             stats' = LRUUpdate(stats, w, TRUE)
      PROVE  TypeOK' /\ Ordered'
  <2>1. stats' \in LRUStates
    BY <1>1, <1>2, MovedBack
  <2>2. QueueOrdered(stats', valid')
    BY <1>1, <1>2, BackOrdered DEF Ordered
  <2> QED
    BY <1>0, <1>1, <1>2, <2>1, <2>2 DEF TypeOK, Ordered, QueueOrdered
<1>3. ASSUME NEW w \in Ways, Hit(w)
      PROVE  TypeOK' /\ Ordered'
  <2>1. stats' = LRUUpdate(stats, w, TRUE) /\ valid' = valid \cup {w} /\ last' = w
    BY <1>3, RowIsLRU DEF Hit
  <2> QED
    BY <1>2, <2>1
<1>4. ASSUME Miss
      PROVE  TypeOK' /\ Ordered'
  <2>1. PICK w \in LRUEvict(stats) :
           /\ stats' = LRUUpdate(LRUUpdate(stats, w, FALSE), w, TRUE)
           /\ valid' = valid \cup {w}
           /\ last' = w
    <3>1. PICK w \in select_way_to_evict(policy, stats) :
             /\ stats' = update_stats(policy, update_stats(policy, stats, w, FALSE), w, TRUE)
             /\ valid' = valid \cup {w}
             /\ last' = w
      BY <1>4 DEF Miss
    <3> QED
      BY <3>1, RowIsLRU
  <2>2. w = stats[0] /\ w \in Ways
    BY <1>1, <2>1, WaysFacts DEF LRUEvict
  <2>3. LRUUpdate(stats, w, FALSE) = stats
    BY <1>1, <2>2, FrontStays
  <2>4. stats' = LRUUpdate(stats, w, TRUE)
    BY <2>1, <2>3
  <2> QED
    BY <1>2, <2>1, <2>2, <2>4
<1>5. ASSUME NEW w \in Ways, Kick(w)
      PROVE  TypeOK' /\ Ordered'
  <2>1. stats' = LRUUpdate(stats, w, FALSE) /\ valid' = valid \ {w} /\ last' = w
    BY <1>5, RowIsLRU DEF Kick
  <2>2. stats' \in LRUStates
    BY <1>1, <2>1, MovedFront
  <2>3. QueueOrdered(stats', valid')
    BY <1>1, <2>1, FrontOrdered DEF Ordered
  <2> QED
    BY <1>0, <1>1, <2>1, <2>2, <2>3 DEF TypeOK, Ordered, QueueOrdered
<1>6. CASE Reset
  BY <1>6 DEF Reset, TypeOK, Ordered, QueueOrdered
<1>7. CASE UNCHANGED vars
  BY <1>7 DEF vars, TypeOK, Ordered, QueueOrdered
<1> QED
  BY <1>3, <1>4, <1>5, <1>6, <1>7 DEF Next

\* The constructor queues the ways in order and no way is valid.
LEMMA LRUStart ==
    ASSUME policy = "RP_LRU", Init
    PROVE  TypeOK /\ Ordered
<1>1. LRUInit \in LRUStates
  BY DEF LRUInit, LRUStates
<1> QED
  BY <1>1, RowIsLRU, PoliciesAssumption DEF Init, TypeOK, Ordered, QueueOrdered, Ways

(***************************************************************************)
(* Theorems                                                                *)
(***************************************************************************)
\* The inductive invariant: the queue holds every way once, invalid ways first.
LRUInv == policy = "RP_LRU" => TypeOK /\ Ordered

LEMMA LRUInvariant == SpecReset => []LRUInv
<1>1. Init => LRUInv
  BY LRUStart DEF LRUInv
<1>2. LRUInv /\ [Next \/ Reset]_vars => LRUInv'
  <2> SUFFICES ASSUME LRUInv, [Next \/ Reset]_vars, policy' = "RP_LRU"
               PROVE  TypeOK' /\ Ordered'
    BY DEF LRUInv
  <2>1. policy = "RP_LRU"
    BY DEF Next, Hit, Kick, Miss, Reset, vars
  <2> QED
    BY <2>1, LRUStep DEF LRUInv
<1> QED
  BY <1>1, <1>2, PTL DEF SpecReset

\* The pass of swaps in CachePolicyLRU::update_stats never loses a way from its
\* queue, so that its loops end and "LRU lost the way" is never thrown.
THEOREM LRUKeepsWays == SpecReset => [](policy = "RP_LRU" => TypeOK)
<1>1. LRUInv => (policy = "RP_LRU" => TypeOK)
  BY DEF LRUInv
<1> QED
  BY <1>1, LRUInvariant, PTL

\* The invalid ways are in front of the queue, so that LRU takes one of them.
LEMMA LRUSparesValid ==
    ASSUME LRUInv, policy = "RP_LRU", valid # Ways
    PROVE  select_way_to_evict(policy, stats) \cap valid = {}
<1>1. PICK w \in Ways : w \notin valid
  BY DEF TypeOK, LRUInv
<1>2. PICK k \in Ways : stats[k] = w
  BY RowIsLRU DEF TypeOK, LRUStates, LRUInv
<1>3. 0 \in Ways /\ (k = 0 \/ 0 < k)
  BY PoliciesAssumption DEF Ways
<1>4. stats[0] \notin valid
  BY <1>1, <1>2, <1>3 DEF Ordered, QueueOrdered, LRUInv
<1> QED
  BY <1>4, RowIsLRU DEF LRUEvict

\* In a row whose policy is not LFU a valid line is never evicted by LRU while the
\* row has an invalid one, restarts of the machine included.
THEOREM LRUInvalidFirst ==
    ASSUME "RP_LFU" \notin Policies
    PROVE  SpecReset => []InvalidFirst
<1> DEFINE Configured == policy \in Policies
<1>1. Init => Configured
  BY DEF Init
<1>2. Configured /\ [Next \/ Reset]_vars => Configured'
  BY DEF Next, Hit, Kick, Miss, Reset, vars
<1>3. Configured /\ LRUInv => InvalidFirst
  BY LRUSparesValid DEF InvalidFirst
<1> HIDE DEF Configured
<1> QED
  BY <1>1, <1>2, <1>3, LRUInvariant, PTL DEF SpecReset

(***************************************************************************)
(* LRU's victim is the least recently used way                             *)
(***************************************************************************)
\* Of two valid ways the one in front in the queue was accessed longer ago.
QueueByAge(q, v, o) ==
    \A i, j \in Ways : i < j /\ q[i] \in v /\ q[j] \in v => <<q[i], q[j]>> \in o

\* An access leaves the order of the other ways.
LEMMA BackKeepsOrder ==
    ASSUME NEW q \in LRUStates, NEW w \in Ways
    PROVE  \A i, j \in Ways : i < j /\ LRUUpdate(q, w, TRUE)[i] # w /\ LRUUpdate(q, w, TRUE)[j] # w =>
              \E a, b \in Ways : a < b /\ q[a] = LRUUpdate(q, w, TRUE)[i] /\ q[b] = LRUUpdate(q, w, TRUE)[j]
<1> DEFINE r == LRUUpdate(q, w, TRUE)
<1>1. PICK p \in Ways :
         /\ q[p] = w
         /\ \A n \in Ways :
               /\ n < p => r[n] = q[n]
               /\ ~(n < p) /\ n < Associativity - 1 => r[n] = q[n + 1]
               /\ n = Associativity - 1 => r[n] = w
  BY MovedBack
<1> HIDE DEF r
<1>2. SUFFICES ASSUME NEW i \in Ways, NEW j \in Ways, i < j, r[i] # w, r[j] # w
               PROVE  \E a, b \in Ways : a < b /\ q[a] = r[i] /\ q[b] = r[j]
  BY DEF r
<1>3. j < Associativity - 1 /\ i < Associativity - 1
  BY <1>1, <1>2, WaysFacts
<1> DEFINE a == IF i < p THEN i ELSE i + 1
           b == IF j < p THEN j ELSE j + 1
<1>4. a \in Ways /\ b \in Ways /\ a < b
  BY <1>2, <1>3, WaysFacts
<1>5. q[a] = r[i] /\ q[b] = r[j]
  BY <1>1, <1>3
<1> QED
  BY <1>4, <1>5

\* A kick leaves the order of the other ways.
LEMMA FrontKeepsOrder ==
    ASSUME NEW q \in LRUStates, NEW w \in Ways
    PROVE  \A i, j \in Ways : i < j /\ LRUUpdate(q, w, FALSE)[i] # w /\ LRUUpdate(q, w, FALSE)[j] # w =>
              \E a, b \in Ways : a < b /\ q[a] = LRUUpdate(q, w, FALSE)[i] /\ q[b] = LRUUpdate(q, w, FALSE)[j]
<1> DEFINE r == LRUUpdate(q, w, FALSE)
<1>1. PICK p \in Ways :
         /\ q[p] = w
         /\ \A n \in Ways :
               /\ n > p => r[n] = q[n]
               /\ ~(n > p) /\ n > 0 => r[n] = q[n - 1]
               /\ n = 0 => r[n] = w
  BY MovedFront
<1> HIDE DEF r
<1>2. SUFFICES ASSUME NEW i \in Ways, NEW j \in Ways, i < j, r[i] # w, r[j] # w
               PROVE  \E a, b \in Ways : a < b /\ q[a] = r[i] /\ q[b] = r[j]
  BY DEF r
<1>3. i > 0 /\ j > 0
  BY <1>1, <1>2, WaysFacts
<1> DEFINE a == IF i > p THEN i ELSE i - 1
           b == IF j > p THEN j ELSE j - 1
<1>4. a \in Ways /\ b \in Ways /\ a < b
  BY <1>2, <1>3, WaysFacts
<1>5. q[a] = r[i] /\ q[b] = r[j]
  BY <1>1, <1>3
<1> QED
  BY <1>4, <1>5

\* The queue follows the accesses.
LEMMA AccessByAge ==
    ASSUME NEW q \in LRUStates, NEW w \in Ways, NEW v, NEW o, QueueByAge(q, v, o)
    PROVE  QueueByAge(LRUUpdate(q, w, TRUE), v \cup {w},
                      {p \in o : w # p[1] /\ w # p[2]} \cup {<<u, w>> : u \in v \ {w}})
<1> DEFINE r == LRUUpdate(q, w, TRUE)
           n == {p \in o : w # p[1] /\ w # p[2]} \cup {<<u, w>> : u \in v \ {w}}
<1>1. ASSUME NEW i \in Ways, NEW j \in Ways, i < j, r[i] \in v \cup {w}, r[j] \in v \cup {w}
      PROVE  <<r[i], r[j]>> \in n
  <2>1. r \in LRUStates /\ r[Associativity - 1] = w
    BY MovedBack, WaysFacts, ZenonT(40)
  <2>2. \A a, b \in Ways : r[a] = r[b] => a = b
    <3>1. \A q0 \in LRUStates : \A a, b \in Ways : q0[a] = q0[b] => a = b
      BY DEF LRUStates
    <3> QED
      BY <2>1, <3>1
  <2> HIDE DEF r
  <2>5. r[i] # w
    BY <1>1, <2>1, <2>2, WaysFacts
  <2>3. CASE r[j] = w
    BY <1>1, <2>5, <2>3
  <2>4. CASE r[j] # w
    <3>1. PICK a, b \in Ways : a < b /\ q[a] = r[i] /\ q[b] = r[j]
      BY <1>1, <2>5, <2>4, BackKeepsOrder DEF r
    <3>2. <<r[i], r[j]>> \in o
      BY <1>1, <2>5, <2>4, <3>1 DEF QueueByAge
    <3> QED
      BY <2>5, <2>4, <3>2
  <2> QED
    BY <2>3, <2>4
<1> QED
  BY <1>1 DEF QueueByAge

LEMMA KickByAge ==
    ASSUME NEW q \in LRUStates, NEW w \in Ways, NEW v, NEW o, QueueByAge(q, v, o)
    PROVE  QueueByAge(LRUUpdate(q, w, FALSE), v \ {w}, {p \in o : w # p[1] /\ w # p[2]})
<1> DEFINE r == LRUUpdate(q, w, FALSE)
<1>1. ASSUME NEW i \in Ways, NEW j \in Ways, i < j, r[i] \in v \ {w}, r[j] \in v \ {w}
      PROVE  <<r[i], r[j]>> \in {p \in o : w # p[1] /\ w # p[2]}
  <2>1. PICK a, b \in Ways : a < b /\ q[a] = r[i] /\ q[b] = r[j]
    BY <1>1, FrontKeepsOrder, ZenonT(40)
  <2> QED
    BY <1>1, <2>1 DEF QueueByAge
<1> QED
  BY <1>1 DEF QueueByAge

(***************************************************************************)
(* LRU: misses in a row fill the back of the queue                         *)
(***************************************************************************)
QueueEndsIn(q, s) ==
    /\ s \in Seq(Ways)
    /\ Len(s) <= Associativity
    /\ \A k \in 1 .. Len(s) : q[Associativity - Len(s) + k - 1] = s[k]

LEMMA StreakGrows ==
    ASSUME NEW q \in LRUStates, NEW s, QueueEndsIn(q, s)
    PROVE  QueueEndsIn(LRUUpdate(q, q[0], TRUE),
                       IF Len(s) < Associativity THEN Append(s, q[0]) ELSE <<q[0]>>)
<1> DEFINE w == q[0]
           r == LRUUpdate(q, w, TRUE)
<1>1. w \in Ways /\ \A a, b \in Ways : q[a] = q[b] => a = b
  BY WaysFacts DEF LRUStates
<1> HIDE DEF w
<1>2. PICK p \in Ways :
         /\ q[p] = w
         /\ \A n \in Ways :
               /\ n < p => r[n] = q[n]
               /\ ~(n < p) /\ n < Associativity - 1 => r[n] = q[n + 1]
               /\ n = Associativity - 1 => r[n] = w
  BY <1>1, MovedBack
<1> HIDE DEF r
<1>3. p = 0
  BY <1>1, <1>2, WaysFacts DEF w
<1>4. /\ r[Associativity - 1] = w
      /\ \A n \in Ways : n < Associativity - 1 => r[n] = q[n + 1]
  BY <1>2, <1>3, WaysFacts
<1>5. CASE Len(s) < Associativity
  <2> DEFINE t == Append(s, w)
  <2>1. t \in Seq(Ways) /\ Len(t) = Len(s) + 1 /\ Len(s) \in Nat
    BY <1>1 DEF QueueEndsIn
  <2>2. ASSUME NEW k \in 1 .. Len(t) PROVE r[Associativity - Len(t) + k - 1] = t[k]
    <3>1. CASE k = Len(t)
      <4>1. t[k] = w /\ Associativity - Len(t) + k - 1 = Associativity - 1
        BY <2>1, <3>1, WaysFacts DEF QueueEndsIn
      <4> QED
        BY <1>4, <4>1
    <3>2. CASE k # Len(t)
      <4> DEFINE n == Associativity - Len(t) + k - 1
      <4>1. k \in 1 .. Len(s) /\ t[k] = s[k]
        BY <1>1, <2>1, <3>2 DEF QueueEndsIn
      <4>2. /\ n \in Ways /\ n < Associativity - 1
            /\ n + 1 = Associativity - Len(s) + k - 1
        BY <1>5, <2>1, <4>1, WaysFacts
      <4>3. r[n] = q[Associativity - Len(s) + k - 1]
        BY <1>4, <4>2
      <4> QED
        BY <4>1, <4>3 DEF QueueEndsIn
    <3> QED
      BY <3>1, <3>2
  <2>3. Len(t) <= Associativity
    BY <1>5, <2>1, WaysFacts
  <2> HIDE DEF t
  <2>4. QueueEndsIn(r, t)
    BY <2>1, <2>2, <2>3 DEF QueueEndsIn
  <2> QED
    BY <1>5, <2>4 DEF w, r, t
<1>6. CASE ~(Len(s) < Associativity)
  <2>1. QueueEndsIn(r, <<w>>)
    BY <1>1, <1>4, WaysFacts DEF QueueEndsIn
  <2> QED
    BY <1>6, <2>1 DEF w, r
<1> QED
  BY <1>5, <1>6

\* What LRU's queue says of the calls made so far.
LRUHistory == QueueByAge(stats, valid, older) /\ QueueEndsIn(stats, streak)

LEMMA LRUHistoryStep ==
    ASSUME policy = "RP_LRU", TypeOK, LRUHistory, [Next \/ Reset]_vars
    PROVE  LRUHistory'
<1>1. stats \in LRUStates /\ stats \in [Ways -> Ways] /\ valid \subseteq Ways
  BY RowIsLRU DEF TypeOK, LRUStates
<1>2. \A q : QueueEndsIn(q, <<>>)
  BY WaysFacts DEF QueueEndsIn
<1>3. ASSUME NEW w \in Ways, stats' = LRUUpdate(stats, w, TRUE), valid' = valid \cup {w},
             older' = Without(w) \cup {<<u, w>> : u \in valid \ {w}}
      PROVE  QueueByAge(stats', valid', older')
  BY <1>1, <1>3, AccessByAge DEF LRUHistory, Without
<1>4. ASSUME NEW w \in Ways, Hit(w) PROVE LRUHistory'
  <2>1. /\ stats' = LRUUpdate(stats, w, TRUE) /\ valid' = valid \cup {w}
        /\ older' = Without(w) \cup {<<u, w>> : u \in valid \ {w}} /\ streak' = <<>>
    BY <1>4, RowIsLRU DEF Hit, Accessed
  <2>2. QueueByAge(stats', valid', older')
    BY <1>3, <2>1
  <2>3. QueueEndsIn(stats', streak')
    BY <1>2, <2>1
  <2> QED
    BY <2>2, <2>3 DEF LRUHistory, QueueByAge, QueueEndsIn
<1>5. ASSUME Miss PROVE LRUHistory'
  <2>1. PICK w \in LRUEvict(stats) :
           /\ stats' = LRUUpdate(LRUUpdate(stats, w, FALSE), w, TRUE)
           /\ valid' = valid \cup {w}
           /\ older' = Without(w) \cup {<<u, w>> : u \in valid \ {w}}
           /\ streak' = IF Len(streak) < Associativity THEN Append(streak, w) ELSE <<w>>
    <3>1. PICK w \in select_way_to_evict(policy, stats) :
             /\ stats' = update_stats(policy, update_stats(policy, stats, w, FALSE), w, TRUE)
             /\ valid' = valid \cup {w}
             /\ older' = Accessed(w)
             /\ streak' = IF Len(streak) < Associativity THEN Append(streak, w) ELSE <<w>>
      BY <1>5 DEF Miss
    <3> QED
      BY <3>1, RowIsLRU DEF Accessed
  <2>2. w = stats[0] /\ w \in Ways
    BY <1>1, <2>1, WaysFacts DEF LRUEvict
  <2>3. LRUUpdate(stats, w, FALSE) = stats
    BY <1>1, <2>2, FrontStays
  <2>4. stats' = LRUUpdate(stats, w, TRUE)
    BY <2>1, <2>3
  <2>5. QueueByAge(stats', valid', older')
    BY <1>3, <2>1, <2>2, <2>4
  <2>6. QueueEndsIn(stats', streak')
    <3>1. QueueEndsIn(LRUUpdate(stats, stats[0], TRUE),
             IF Len(streak) < Associativity THEN Append(streak, stats[0]) ELSE <<stats[0]>>)
      BY <1>1, StreakGrows DEF LRUHistory
    <3> QED
      BY <2>1, <2>2, <2>4, <3>1
  <2> QED
    BY <2>5, <2>6 DEF LRUHistory, QueueByAge, QueueEndsIn
<1>6. ASSUME NEW w \in Ways, Kick(w) PROVE LRUHistory'
  <2>1. /\ stats' = LRUUpdate(stats, w, FALSE) /\ valid' = valid \ {w}
        /\ older' = {p \in older : w # p[1] /\ w # p[2]} /\ streak' = <<>>
    BY <1>6, RowIsLRU DEF Kick, Without
  <2>2. QueueByAge(stats', valid', older')
    BY <1>1, <2>1, KickByAge DEF LRUHistory
  <2>3. QueueEndsIn(stats', streak')
    BY <1>2, <2>1
  <2> QED
    BY <2>2, <2>3 DEF LRUHistory, QueueByAge, QueueEndsIn
<1>7. CASE Reset
  <2>1. valid' = {} /\ streak' = <<>>
    BY <1>7 DEF Reset
  <2>2. QueueEndsIn(stats', streak')
    BY <1>2, <2>1
  <2> QED
    BY <2>1, <2>2 DEF LRUHistory, QueueByAge, QueueEndsIn
<1>8. CASE UNCHANGED vars
  BY <1>8 DEF vars, LRUHistory, QueueByAge, QueueEndsIn
<1> QED
  BY <1>4, <1>5, <1>6, <1>7, <1>8 DEF Next

LEMMA LRUHistoryInvariant == SpecReset => [](policy = "RP_LRU" => LRUHistory)
<1>1. Init => (policy = "RP_LRU" => LRUHistory)
  BY WaysFacts DEF Init, LRUHistory, QueueByAge, QueueEndsIn
<1>2. LRUInv /\ (policy = "RP_LRU" => LRUHistory) /\ [Next \/ Reset]_vars
         => (policy = "RP_LRU" => LRUHistory)'
  <2> SUFFICES ASSUME LRUInv, policy = "RP_LRU" => LRUHistory, [Next \/ Reset]_vars,
                      policy' = "RP_LRU"
               PROVE  LRUHistory'
    OBVIOUS
  <2>1. policy = "RP_LRU"
    BY DEF Next, Hit, Kick, Miss, Reset, vars
  <2> QED
    BY <2>1, LRUHistoryStep DEF LRUInv
<1> QED
  BY <1>1, <1>2, LRUInvariant, PTL DEF SpecReset

\* In a full row the way at the front of the queue was accessed before all others.
LEMMA LRUVictim ==
    ASSUME LRUInv, policy = "RP_LRU" => LRUHistory
    PROVE  LeastRecentVictim
<1> SUFFICES ASSUME policy = "RP_LRU", valid = Ways, NEW u \in Ways, u # stats[0]
             PROVE  <<stats[0], u>> \in older
  BY RowIsLRU DEF LeastRecentVictim, LRUEvict
<1>1. PICK k \in Ways : stats[k] = u
  BY RowIsLRU DEF LRUInv, TypeOK, LRUStates
<1>2. 0 \in Ways /\ 0 < k /\ stats[0] \in Ways
  BY <1>1, WaysFacts, RowIsLRU DEF LRUInv, TypeOK, LRUStates
<1> QED
  BY <1>1, <1>2 DEF LRUHistory, QueueByAge

\* The places at the back of the queue are different, and so are the ways in them.
LEMMA LRUStreakDistinct ==
    ASSUME LRUInv, policy = "RP_LRU" => LRUHistory, policy = "RP_LRU"
    PROVE  \A i, j \in 1 .. Len(streak) : streak[i] = streak[j] => i = j
<1>1. \A a, b \in Ways : stats[a] = stats[b] => a = b
  <2>1. stats \in LRUStates
    BY RowIsLRU DEF LRUInv, TypeOK
  <2>2. \A q \in LRUStates : \A a, b \in Ways : q[a] = q[b] => a = b
    BY DEF LRUStates
  <2> QED
    BY <2>1, <2>2
<1> SUFFICES ASSUME NEW i \in 1 .. Len(streak), NEW j \in 1 .. Len(streak),
                    streak[i] = streak[j]
             PROVE  i = j
  OBVIOUS
<1> DEFINE a == Associativity - Len(streak) + i - 1
           b == Associativity - Len(streak) + j - 1
<1>2. Len(streak) \in Nat /\ Len(streak) <= Associativity
  BY DEF LRUHistory, QueueEndsIn
<1>3. a \in Ways /\ b \in Ways
  BY <1>2, WaysFacts
<1>4. stats[a] = streak[i] /\ stats[b] = streak[j]
  BY DEF LRUHistory, QueueEndsIn
<1>5. a = b
  <2> HIDE DEF a, b
  <2> QED
    BY <1>1, <1>3, <1>4
<1> QED
  BY <1>2, <1>5, WaysFacts

(***************************************************************************)
(* NMRU                                                                    *)
(***************************************************************************)
\* NMRU keeps the way of the last call, restarts included.
NMRUInv == policy = "RP_NMRU" => stats = last

LEMMA NMRUInvariant == SpecReset => []NMRUInv
<1>1. Init => NMRUInv
  BY DEF Init, NMRUInv, RowInit, NMRUInit
<1>2. NMRUInv /\ [Next \/ Reset]_vars => NMRUInv'
  <2> SUFFICES ASSUME NMRUInv, [Next \/ Reset]_vars, policy' = "RP_NMRU"
               PROVE  stats' = last'
    BY DEF NMRUInv
  <2>1. policy = "RP_NMRU"
    BY DEF Next, Hit, Kick, Miss, Reset, vars
  <2>2. \A s, w, v : update_stats(policy, s, w, v) = w
    BY <2>1 DEF update_stats, NMRUUpdate
  <2>3. ASSUME NEW w \in Ways, Hit(w) \/ Kick(w) PROVE stats' = last'
    <3>1. last' = w
      BY <2>3 DEF Hit, Kick
    <3>2. CASE Hit(w)
      BY <2>2, <3>1, <3>2 DEF Hit
    <3>3. CASE Kick(w)
      BY <2>2, <3>1, <3>3 DEF Kick
    <3> QED
      BY <2>3, <3>2, <3>3
  <2>4. CASE Miss
    BY <2>2, <2>4 DEF Miss
  <2>5. CASE Reset \/ UNCHANGED vars
    BY <2>1, <2>5 DEF Reset, vars, NMRUInv
  <2> QED
    BY <2>3, <2>4, <2>5 DEF Next
<1> QED
  BY <1>1, <1>2, PTL DEF SpecReset

\* The index that NMRU draws skips the way it keeps.
LEMMA NMRUVictim ==
    ASSUME NMRUInv, policy = "RP_NMRU", Associativity > 1
    PROVE  last \notin select_way_to_evict(policy, stats)
<1>1. select_way_to_evict(policy, stats) = NMRUEvict(last)
  BY DEF select_way_to_evict, NMRUInv
<1>2. \A i \in 0 .. Associativity - 2 : last # IF i < last THEN i ELSE i + 1
  OBVIOUS
<1> QED
  BY <1>1, <1>2, PoliciesAssumption DEF NMRUEvict

(***************************************************************************)
(* LFU                                                                     *)
(***************************************************************************)
\* Without a restart the count of an invalid way is zero under LFU.
LFUInv ==
    policy = "RP_LFU" =>
        /\ stats \in LFUStates
        /\ valid \subseteq Ways
        /\ \A w \in Ways : w \notin valid => stats[w] = 0

LEMMA LFUInvariant == Spec => []LFUInv
<1> USE PoliciesAssumption
<1>1. Init => LFUInv
  BY DEF Init, LFUInv, RowInit, LFUInit, LFUStates
<1>2. LFUInv /\ [Next]_vars => LFUInv'
  <2> SUFFICES ASSUME LFUInv, [Next]_vars, policy' = "RP_LFU"
               PROVE  /\ stats' \in LFUStates
                      /\ valid' \subseteq Ways
                      /\ \A w \in Ways : w \notin valid' => stats'[w] = 0
    BY DEF LFUInv
  <2>1. policy = "RP_LFU"
    BY DEF Next, Hit, Kick, Miss, Reset, vars
  <2>2. /\ stats \in [Ways -> 0 .. LfuMod - 1]
        /\ valid \subseteq Ways
        /\ \A w \in Ways : w \notin valid => stats[w] = 0
    BY <2>1 DEF LFUInv, LFUStates
  <2>3. \A s, w, v : update_stats(policy, s, w, v) = LFUUpdate(s, w, v)
    BY <2>1 DEF update_stats
  <2>4. ASSUME NEW w \in Ways, NEW n \in 0 .. LfuMod - 1, stats' = [stats EXCEPT ![w] = n],
               valid' = valid \cup {w}
        PROVE  /\ stats' \in LFUStates
               /\ valid' \subseteq Ways
               /\ \A u \in Ways : u \notin valid' => stats'[u] = 0
    BY <2>2, <2>4 DEF LFUStates
  <2>5. ASSUME NEW w \in Ways, Hit(w)
        PROVE  /\ stats' \in LFUStates
               /\ valid' \subseteq Ways
               /\ \A u \in Ways : u \notin valid' => stats'[u] = 0
    <3>1. stats' = LFUUpdate(stats, w, TRUE) /\ valid' = valid \cup {w}
      BY <2>3, <2>5 DEF Hit
    <3>2. stats[w] \in Nat
      BY <2>2
    <3>3. (stats[w] + 1) % LfuMod \in 0 .. LfuMod - 1
      BY <3>2
    <3>4. stats' = [stats EXCEPT ![w] = (stats[w] + 1) % LfuMod]
      BY <3>1 DEF LFUUpdate
    <3> QED
      BY <2>4, <3>1, <3>3, <3>4
  <2>6. ASSUME Miss
        PROVE  /\ stats' \in LFUStates
               /\ valid' \subseteq Ways
               /\ \A u \in Ways : u \notin valid' => stats'[u] = 0
    <3>1. PICK w \in LFUEvict(stats) :
             /\ stats' = LFUUpdate(LFUUpdate(stats, w, FALSE), w, TRUE)
             /\ valid' = valid \cup {w}
      <4>1. PICK w \in select_way_to_evict(policy, stats) :
               /\ stats' = update_stats(policy, update_stats(policy, stats, w, FALSE), w, TRUE)
               /\ valid' = valid \cup {w}
        BY <2>6 DEF Miss
      <4>2. select_way_to_evict(policy, stats) = LFUEvict(stats)
        BY <2>1 DEF select_way_to_evict
      <4> QED
        BY <2>3, <4>1, <4>2
    <3>2. w \in Ways
      BY DEF LFUEvict
    <3>3. LFUUpdate(stats, w, FALSE) = [stats EXCEPT ![w] = 0]
      BY DEF LFUUpdate
    <3>4. (0 + 1) % LfuMod = 1 /\ 1 \in 0 .. LfuMod - 1
      OBVIOUS
    <3>5. stats' = [[stats EXCEPT ![w] = 0] EXCEPT ![w] = 1]
      BY <2>2, <3>1, <3>2, <3>3, <3>4 DEF LFUUpdate
    <3>6. stats' = [stats EXCEPT ![w] = 1]
      BY <2>2, <3>5
    <3> QED
      BY <2>4, <3>1, <3>2, <3>4, <3>6
  <2>7. ASSUME NEW w \in Ways, Kick(w)
        PROVE  /\ stats' \in LFUStates
               /\ valid' \subseteq Ways
               /\ \A u \in Ways : u \notin valid' => stats'[u] = 0
    <3>1. stats' = [stats EXCEPT ![w] = 0] /\ valid' = valid \ {w}
      BY <2>3, <2>7 DEF Kick, LFUUpdate
    <3> QED
      BY <2>2, <3>1 DEF LFUStates
  <2>8. CASE UNCHANGED vars
    BY <2>2, <2>8 DEF vars, LFUStates
  <2> QED
    BY <2>5, <2>6, <2>7, <2>8 DEF Next
<1> QED
  BY <1>1, <1>2, PTL DEF Spec

(***************************************************************************)
(* Numbers                                                                 *)
(***************************************************************************)
\* A set of natural numbers that is not empty has a least element.
LEMMA LeastExists ==
    ASSUME NEW S \in SUBSET Nat, S # {}
    PROVE  \E i \in S : \A j \in S : i <= j
<1>1. PICK x \in S : \A y \in S : ~ (<<y, x>> \in OpToRel(<, Nat))
  BY NatLessThanWellFounded, WFMin, Zenon
<1>2. \A y \in S : ~ (y < x)
  BY <1>1 DEF OpToRel
<1> QED
  BY <1>2

\* Induction up to a bound: a set that holds 0, and with a number the next one, holds
\* every number up to the bound.
LEMMA UpTo ==
    ASSUME NEW n \in Nat, NEW S, 0 \in S, \A i \in 1 .. n : i - 1 \in S => i \in S
    PROVE  \A i \in 0 .. n : i \in S
<1> DEFINE bad == {i \in 0 .. n : i \notin S}
<1>1. SUFFICES ASSUME bad # {} PROVE FALSE
  OBVIOUS
<1>2. bad \in SUBSET Nat
  OBVIOUS
<1>3. PICK m \in bad : \A j \in bad : m <= j
  BY <1>1, <1>2, LeastExists
<1>4. m \in 1 .. n /\ m - 1 \in 0 .. n
  BY <1>3
<1>5. m - 1 \notin bad
  <2> HIDE DEF bad
  <2> QED
    BY <1>3, <1>4
<1> QED
  BY <1>3, <1>4, <1>5

\* Multiples of d are at least d apart.
LEMMA MultiplesApart ==
    ASSUME NEW a \in Nat, NEW b \in Nat, NEW d \in Nat, a < b
    PROVE  a * d + d <= b * d
<1>1. PICK k \in Nat : b = a + 1 + k
  <2>1. b - a - 1 \in Nat
    OBVIOUS
  <2>2. b = a + 1 + (b - a - 1)
    OBVIOUS
  <2> QED
    BY <2>1, <2>2
<1>2. b * d = a * d + d + k * d
  BY <1>1
<1>3. k * d \in Nat
  OBVIOUS
<1> QED
  BY <1>2, <1>3

\* The defining property of quotient and remainder.
LEMMA DivMod ==
    ASSUME NEW a \in Nat, NEW d \in Nat \ {0}
    PROVE  /\ a \div d \in Nat
           /\ a % d \in 0 .. d - 1
           /\ a = (a \div d) * d + (a % d)
OBVIOUS

\* Quotient and remainder are determined by it.
LEMMA DivUnique ==
    ASSUME NEW q \in Nat, NEW d \in Nat \ {0}, NEW r \in 0 .. d - 1, NEW a \in Nat,
           a = q * d + r
    PROVE  a \div d = q /\ a % d = r
<1>1. /\ a \div d \in Nat
      /\ a % d \in 0 .. d - 1
      /\ a = (a \div d) * d + (a % d)
  BY DivMod
<1> DEFINE p == a \div d
<1> DEFINE s == a % d
<1>2. p \in Nat /\ s \in 0 .. d - 1 /\ a = p * d + s
  BY <1>1
<1> HIDE DEF p, s
<1>3. ~(p < q)
  <2> SUFFICES ASSUME p < q PROVE FALSE
    OBVIOUS
  <2>1. p * d + d <= q * d
    BY <1>2, MultiplesApart
  <2> QED
    BY <2>1, <1>2
<1>4. ~(q < p)
  <2> SUFFICES ASSUME q < p PROVE FALSE
    OBVIOUS
  <2>1. q * d + d <= p * d
    BY <1>2, MultiplesApart
  <2> QED
    BY <2>1, <1>2
<1>5. p = q
  BY <1>2, <1>3, <1>4
<1>6. s = r
  BY <1>2, <1>5
<1> QED
  BY <1>5, <1>6 DEF p, s

\* The powers of two, by their recursive definition on 0 .. n: the function exists.
LEMMA PowerFunction ==
    ASSUME NEW n \in Nat
    PROVE  \E f : f = [i \in 0 .. n |-> IF i = 0 THEN 1 ELSE 2 * f[i - 1]]
<1> DEFINE IsPower(f, m) == f = [i \in 0 .. m |-> IF i = 0 THEN 1 ELSE 2 * f[i - 1]]
           S == {m \in Nat : \E f : IsPower(f, m)}
<1>1. 0 \in S
  <2>1. IsPower([i \in 0 .. 0 |-> 1], 0)
    OBVIOUS
  <2> QED
    BY <2>1
<1>2. ASSUME NEW m \in 1 .. n, m - 1 \in S PROVE m \in S
  <2>1. PICK f : IsPower(f, m - 1)
    BY <1>2
  <2> DEFINE h == [i \in 0 .. m |-> IF i = 0 THEN 1 ELSE 2 * f[i - 1]]
  <2>2. \A i \in 0 .. m - 1 : h[i] = f[i]
    BY <2>1
  <2> HIDE DEF h
  <2>3. \A i \in 0 .. m : i # 0 => h[i - 1] = f[i - 1]
    BY <2>2
  <2> USE DEF h
  <2>4. IsPower(h, m)
    BY <2>3
  <2> HIDE DEF h, IsPower
  <2> QED
    BY <2>4
<1> HIDE DEF S
<1>3. n \in S
  BY <1>1, <1>2, UpTo
<1> USE DEF S
<1> QED
  BY <1>3

\* Powers of two.
LEMMA Pow2Facts ==
    /\ Pow2[0] = 1
    /\ \A i \in 1 .. Associativity : Pow2[i] = 2 * Pow2[i - 1]
    /\ \A i \in 0 .. Associativity : Pow2[i] \in Nat /\ Pow2[i] > i
<1> USE PoliciesAssumption
<1>1. \E f : f = [i \in 0 .. Associativity |-> IF i = 0 THEN 1 ELSE 2 * f[i - 1]]
  BY PowerFunction
<1>2. Pow2 = [i \in 0 .. Associativity |-> IF i = 0 THEN 1 ELSE 2 * Pow2[i - 1]]
  BY <1>1, Zenon DEF Pow2
<1>3. Pow2[0] = 1
  BY <1>2
<1>4. ASSUME NEW i \in 1 .. Associativity PROVE Pow2[i] = 2 * Pow2[i - 1]
  BY <1>2
<1> DEFINE S == {i \in 0 .. Associativity : Pow2[i] \in Nat /\ Pow2[i] > i}
<1>5. 0 \in S
  BY <1>3
<1>6. ASSUME NEW i \in 1 .. Associativity, i - 1 \in S PROVE i \in S
  BY <1>4, <1>6
<1> HIDE DEF S
<1>7. \A i \in 0 .. Associativity : i \in S
  BY <1>5, <1>6, UpTo
<1> USE DEF S
<1> QED
  BY <1>3, <1>4, <1>7

\* A larger exponent gives a larger power.
LEMMA Pow2Grows ==
    ASSUME NEW n \in 0 .. Associativity
    PROVE  \A i \in 0 .. n : Pow2[i] <= Pow2[n]
<1> USE PoliciesAssumption, Pow2Facts
<1> DEFINE S == {m \in 0 .. Associativity : \A i \in 0 .. m : Pow2[i] <= Pow2[m]}
<1>1. 0 \in S
  OBVIOUS
<1>2. ASSUME NEW m \in 1 .. Associativity, m - 1 \in S PROVE m \in S
  <2>1. Pow2[m] = 2 * Pow2[m - 1] /\ Pow2[m - 1] \in Nat
    OBVIOUS
  <2>2. \A i \in 0 .. m - 1 : Pow2[i] <= Pow2[m - 1] /\ Pow2[i] \in Nat
    BY <1>2
  <2>3. ASSUME NEW i \in 0 .. m PROVE Pow2[i] <= Pow2[m]
    BY <2>1, <2>2
  <2> QED
    BY <2>3
<1> HIDE DEF S
<1>3. n \in S
  BY <1>1, <1>2, UpTo
<1> USE DEF S
<1> QED
  BY <1>3

\* The depth of the tree is that of the smallest power that covers the ways.
LEMMA CLog2Facts ==
    /\ CLog2 \in 0 .. Associativity
    /\ Pow2[CLog2] >= Associativity
    /\ CLog2 = 0 \/ Pow2[CLog2 - 1] < Associativity
<1> USE PoliciesAssumption, Pow2Facts
<1> DEFINE S == {n \in 0 .. Associativity : Pow2[n] >= Associativity}
<1>1. Associativity \in S /\ S \in SUBSET Nat
  OBVIOUS
<1>2. PICK n \in S : \A m \in S : n <= m
  <2> HIDE DEF S
  <2> QED
    BY <1>1, LeastExists
<1>3. n \in 0 .. Associativity /\ Pow2[n] >= Associativity
  OBVIOUS
<1>4. n = 0 \/ Pow2[n - 1] < Associativity
  <2>1. SUFFICES ASSUME n # 0 PROVE n - 1 \notin S
    BY <1>3
  <2> QED
    BY <1>2, <1>3, <2>1
<1>5. \E k \in 0 .. Associativity : Pow2[k] >= Associativity /\ (k = 0 \/ Pow2[k - 1] < Associativity)
  BY <1>3, <1>4
<1> QED
  BY <1>5 DEF CLog2

(***************************************************************************)
(* PLRU's tree                                                             *)
(***************************************************************************)
\* Dividing by 2 d is dividing by d and halving.
LEMMA HalfDiv ==
    ASSUME NEW a \in Nat, NEW d \in Nat \ {0}
    PROVE  a \div (2 * d) = (a \div d) \div 2
<1>1. PICK q \in Nat, r \in 0 .. d - 1 : q = a \div d /\ a = q * d + r
  BY DivMod
<1>2. PICK h \in Nat, b \in {0, 1} : h = q \div 2 /\ q = 2 * h + b
  <2>1. q \div 2 \in Nat /\ q % 2 \in 0 .. 2 - 1 /\ q = (q \div 2) * 2 + (q % 2)
    BY DivMod
  <2> QED
    BY <2>1
<1>3. a = h * (2 * d) + (b * d + r)
  <2>1. h * (2 * d) = (2 * h) * d
    OBVIOUS
  <2>2. (2 * h + b) * d = (2 * h) * d + b * d
    OBVIOUS
  <2>3. q * d = h * (2 * d) + b * d
    BY <1>2, <2>1, <2>2
  <2> QED
    BY <1>1, <2>3
<1>4. b * d + r \in 0 .. 2 * d - 1 /\ 2 * d \in Nat \ {0}
  BY <1>1, <1>2
<1>5. a \div (2 * d) = h
  BY <1>3, <1>4, DivUnique
<1> QED
  BY <1>1, <1>2, <1>5

Leaves == 0 .. Pow2[CLog2] - 1

\* The direction from level i of the tree towards a leaf.
Bit(w, i) == PLRUPrefix(w, i + 1) % 2

\* The prefixes of a leaf grow by one bit per level, from none to the whole leaf.
LEMMA PrefixFacts ==
    ASSUME NEW w \in Leaves
    PROVE  /\ PLRUPrefix(w, 0) = 0
           /\ PLRUPrefix(w, CLog2) = w
           /\ \A i \in 0 .. CLog2 : PLRUPrefix(w, i) \in 0 .. Pow2[i] - 1
           /\ \A i \in 0 .. CLog2 - 1 : /\ Bit(w, i) \in {0, 1}
                                        /\ PLRUPrefix(w, i + 1) = 2 * PLRUPrefix(w, i) + Bit(w, i)
<1> USE PoliciesAssumption
<1>1. CLog2 \in Nat /\ CLog2 <= Associativity
  BY CLog2Facts
<1>2. Pow2[CLog2] \in Nat /\ w \in Nat /\ w < Pow2[CLog2]
  BY <1>1, Pow2Facts DEF Leaves
<1>3. PLRUPrefix(w, 0) = 0
  <2>1. Pow2[CLog2] \in Nat \ {0} /\ CLog2 - 0 = CLog2
    BY <1>1, <1>2
  <2>2. w = 0 * Pow2[CLog2] + w /\ w \in 0 .. Pow2[CLog2] - 1
    BY <1>2
  <2>3. w \div Pow2[CLog2] = 0
    BY <2>1, <2>2, <1>2, DivUnique
  <2> QED
    BY <2>1, <2>3 DEF PLRUPrefix
<1>4. PLRUPrefix(w, CLog2) = w
  <2>1. CLog2 - CLog2 = 0 /\ Pow2[0] = 1
    BY <1>1, Pow2Facts
  <2>2. w \div 1 = w
    BY <1>2
  <2> QED
    BY <2>1, <2>2 DEF PLRUPrefix
<1>5. ASSUME NEW i \in 0 .. CLog2 - 1
      PROVE  /\ PLRUPrefix(w, i + 1) \in Nat
             /\ PLRUPrefix(w, i) = PLRUPrefix(w, i + 1) \div 2
  <2> DEFINE d == Pow2[CLog2 - (i + 1)]
  <2>1. /\ CLog2 - (i + 1) \in 0 .. Associativity /\ CLog2 - i \in 1 .. Associativity
        /\ (CLog2 - i) - 1 = CLog2 - (i + 1)
    BY <1>1
  <2>2. d \in Nat \ {0} /\ Pow2[CLog2 - i] = 2 * d
    BY <2>1, Pow2Facts
  <2> HIDE DEF d
  <2>3. w \div (2 * d) = (w \div d) \div 2 /\ w \div d \in Nat
    BY <1>2, <2>2, HalfDiv, DivMod
  <2> QED
    BY <2>2, <2>3 DEF PLRUPrefix, d
<1>6. ASSUME NEW i \in 0 .. CLog2 - 1
      PROVE  /\ Bit(w, i) \in {0, 1}
             /\ PLRUPrefix(w, i + 1) = 2 * PLRUPrefix(w, i) + Bit(w, i)
  <2> DEFINE x == PLRUPrefix(w, i + 1)
  <2>1. x \in Nat /\ PLRUPrefix(w, i) = x \div 2
    BY <1>5
  <2> HIDE DEF x
  <2>2. x % 2 \in 0 .. 2 - 1 /\ x \div 2 \in Nat /\ x = (x \div 2) * 2 + (x % 2)
    BY <2>1, DivMod
  <2> QED
    BY <2>1, <2>2 DEF Bit, x
<1> DEFINE S == {i \in 0 .. CLog2 : PLRUPrefix(w, i) \in 0 .. Pow2[i] - 1}
<1>7. 0 \in S
  BY <1>1, <1>3, Pow2Facts
<1>8. ASSUME NEW i \in 1 .. CLog2, i - 1 \in S PROVE i \in S
  <2>1. /\ i - 1 \in 0 .. CLog2 - 1 /\ (i - 1) + 1 = i /\ i \in 1 .. Associativity
        /\ i - 1 \in 0 .. Associativity
    BY <1>1
  <2>2. Pow2[i] = 2 * Pow2[i - 1] /\ Pow2[i - 1] \in Nat
    BY <2>1, Pow2Facts
  <2>3. PLRUPrefix(w, i - 1) \in 0 .. Pow2[i - 1] - 1
    BY <1>8
  <2>4. Bit(w, i - 1) \in {0, 1} /\ PLRUPrefix(w, i) = 2 * PLRUPrefix(w, i - 1) + Bit(w, i - 1)
    BY <1>6, <2>1
  <2>5. PLRUPrefix(w, i) \in 0 .. Pow2[i] - 1
    BY <2>2, <2>3, <2>4
  <2> QED
    BY <1>1, <2>5
<1> HIDE DEF S
<1>9. \A i \in 0 .. CLog2 : i \in S
  BY <1>1, <1>7, <1>8, UpTo
<1> USE DEF S
<1> QED
  BY <1>3, <1>4, <1>6, <1>9

\* The nodes of the tree are numbered level by level.
LEMMA NodeUnique ==
    ASSUME NEW i \in 0 .. CLog2 - 1, NEW p \in 0 .. Pow2[i] - 1
    PROVE  /\ PLRUNode(i, p) \in PLRUNodes
           /\ \A j \in 0 .. CLog2 - 1 : \A r \in 0 .. Pow2[j] - 1 :
                 PLRUNode(j, r) = PLRUNode(i, p) => j = i /\ r = p
<1> USE PoliciesAssumption
<1>1. CLog2 \in Nat /\ CLog2 <= Associativity
  BY CLog2Facts
<1>2. ASSUME NEW j \in 0 .. CLog2 - 1, NEW n \in j + 1 .. CLog2
      PROVE  Pow2[j] \in Nat /\ Pow2[n] \in Nat /\ 2 * Pow2[j] <= Pow2[n]
  <2>1. j + 1 \in 1 .. Associativity /\ (j + 1) - 1 = j /\ n \in 0 .. Associativity
        /\ j \in 0 .. Associativity /\ j + 1 \in 0 .. n
    BY <1>1
  <2>2. Pow2[j + 1] = 2 * Pow2[j] /\ Pow2[j + 1] <= Pow2[n]
    BY <2>1, Pow2Facts, Pow2Grows
  <2> QED
    BY <2>1, <2>2, Pow2Facts
<1>3. PLRUNode(i, p) \in PLRUNodes
  BY <1>1, <1>2 DEF PLRUNode, PLRUNodes
<1>4. ASSUME NEW j \in 0 .. CLog2 - 1, NEW r \in 0 .. Pow2[j] - 1,
             PLRUNode(j, r) = PLRUNode(i, p)
      PROVE  j = i /\ r = p
  <2>1. Pow2[i] \in Nat /\ Pow2[j] \in Nat
    BY <1>1, Pow2Facts
  <2>2. Pow2[j] - 1 + r = Pow2[i] - 1 + p
    BY <1>4 DEF PLRUNode
  <2>3. CASE j < i
    <3>1. 2 * Pow2[j] <= Pow2[i]
      BY <1>1, <1>2, <2>3
    <3> QED
      BY <2>1, <2>2, <3>1
  <2>4. CASE i < j
    <3>1. 2 * Pow2[i] <= Pow2[j]
      BY <1>1, <1>2, <2>4
    <3> QED
      BY <2>1, <2>2, <3>1
  <2>5. CASE i = j
    BY <2>1, <2>2, <2>5
  <2> QED
    BY <1>1, <2>3, <2>4, <2>5
<1> QED
  BY <1>3, <1>4

\* An update turns the pointers on the path to its way, whether the way is valid or not.
Turned(s, w) == PLRUUpdate(s, w, TRUE)

LEMMA TurnedFacts ==
    ASSUME NEW s \in PLRUStates, NEW w \in Leaves
    PROVE  /\ \A v : PLRUUpdate(s, w, v) = Turned(s, w)
           /\ Turned(s, w) \in PLRUStates
           /\ \A i \in 0 .. CLog2 - 1 : \A p \in 0 .. Pow2[i] - 1 :
                 Turned(s, w)[PLRUNode(i, p)] =
                    IF PLRUPrefix(w, i) = p THEN 1 - Bit(w, i) ELSE s[PLRUNode(i, p)]
<1>1. \A v : PLRUUpdate(s, w, v) = Turned(s, w)
  BY DEF PLRUUpdate, Turned
<1> DEFINE On(n, i) == n = PLRUNode(i, PLRUPrefix(w, i))
           Level(n) == CHOOSE i \in 0 .. CLog2 - 1 : On(n, i)
           t == Turned(s, w)
<1>2. t = [n \in PLRUNodes |-> IF \E i \in 0 .. CLog2 - 1 : On(n, i)
                                THEN 1 - Bit(w, Level(n)) ELSE s[n]]
  BY DEF Turned, PLRUUpdate, Bit
<1> HIDE DEF t
<1>3. \A i \in 0 .. CLog2 - 1 : Bit(w, i) \in {0, 1} /\ PLRUPrefix(w, i) \in 0 .. Pow2[i] - 1
  <2>1. \A i \in 0 .. CLog2 - 1 : i \in 0 .. CLog2
    BY CLog2Facts, PoliciesAssumption
  <2> QED
    BY <2>1, PrefixFacts
<1>4. ASSUME NEW n \in PLRUNodes PROVE t[n] \in {0, 1}
  <2>1. CASE \E i \in 0 .. CLog2 - 1 : On(n, i)
    <3>1. Level(n) \in 0 .. CLog2 - 1
      BY <2>1
    <3> HIDE DEF On, Level
    <3>2. t[n] = 1 - Bit(w, Level(n)) /\ Bit(w, Level(n)) \in {0, 1}
      BY <1>2, <1>3, <2>1, <3>1
    <3> QED
      BY <3>2
  <2>2. CASE ~ \E i \in 0 .. CLog2 - 1 : On(n, i)
    BY <1>2, <2>2 DEF PLRUStates
  <2> QED
    BY <2>1, <2>2
<1>5. t \in PLRUStates
  <2> HIDE DEF On, Level
  <2>1. t = [n \in PLRUNodes |-> t[n]]
    BY <1>2
  <2> QED
    BY <1>4, <2>1 DEF PLRUStates
<1>6. ASSUME NEW i \in 0 .. CLog2 - 1, NEW p \in 0 .. Pow2[i] - 1
      PROVE  t[PLRUNode(i, p)] =
                IF PLRUPrefix(w, i) = p THEN 1 - Bit(w, i) ELSE s[PLRUNode(i, p)]
  <2> DEFINE n == PLRUNode(i, p)
  <2>1. n \in PLRUNodes
    BY NodeUnique
  <2>2. \A j \in 0 .. CLog2 - 1 : On(n, j) => j = i /\ PLRUPrefix(w, j) = p
    <3> TAKE j \in 0 .. CLog2 - 1
    <3>1. PLRUPrefix(w, j) \in 0 .. Pow2[j] - 1
      BY <1>3
    <3> QED
      BY <3>1, NodeUnique
  <2>3. On(n, i) <=> PLRUPrefix(w, i) = p
    BY <2>2
  <2>4. CASE PLRUPrefix(w, i) = p
    <3>1. Level(n) = i
      BY <2>2, <2>3, <2>4
    <3> HIDE DEF On, Level, n
    <3> QED
      BY <1>2, <2>1, <2>3, <2>4, <3>1 DEF n
  <2>5. CASE PLRUPrefix(w, i) # p
    <3> HIDE DEF On, Level, n
    <3>1. ~ \E j \in 0 .. CLog2 - 1 : On(n, j)
      BY <2>2, <2>5
    <3>2. t[n] = s[n]
      BY <1>2, <2>1, <3>1
    <3> QED
      BY <2>5, <3>2 DEF n
  <2> QED
    BY <2>4, <2>5
<1> QED
  BY <1>1, <1>5, <1>6 DEF t

\* PLRU's walk from the root ends at the leaf each bit of which is the pointer of the
\* node it passes; the last way stands for the leaves that are no way.
LEMMA PLRUWalk ==
    ASSUME NEW s \in PLRUStates
    PROVE  \E x \in Leaves :
              /\ PLRUEvict(s) = {IF x >= Associativity THEN Associativity - 1 ELSE x}
              /\ \A i \in 0 .. CLog2 - 1 : Bit(x, i) = s[PLRUNode(i, PLRUPrefix(x, i))]
<1> USE PoliciesAssumption
<1> DEFINE More(i, x) == x * 2 + s[PLRUNode(i - 1, x)]
           IsWalk(f, n) == f = [i \in 0 .. n |-> IF i = 0 THEN 0 ELSE More(i, f[i - 1])]
           S == {n \in Nat : \E f : IsWalk(f, n)}
<1>1. CLog2 \in Nat /\ CLog2 <= Associativity
  BY CLog2Facts
<1>2. 0 \in S
  <2>1. IsWalk([i \in 0 .. 0 |-> 0], 0)
    OBVIOUS
  <2> HIDE DEF IsWalk
  <2> QED
    BY <2>1
<1>3. ASSUME NEW m \in 1 .. CLog2, m - 1 \in S PROVE m \in S
  <2>1. PICK f : IsWalk(f, m - 1)
    BY <1>3
  <2> HIDE DEF More, S
  <2> DEFINE h == [i \in 0 .. m |-> IF i = 0 THEN 0 ELSE More(i, f[i - 1])]
  <2>2. \A i \in 0 .. m - 1 : h[i] = f[i]
    <3> TAKE i \in 0 .. m - 1
    <3>1. f[i] = IF i = 0 THEN 0 ELSE More(i, f[i - 1])
      BY <2>1
    <3>2. i \in 0 .. m
      BY <1>1
    <3> QED
      BY <3>1, <3>2
  <2> HIDE DEF h
  <2>3. \A i \in 0 .. m : i # 0 => h[i - 1] = f[i - 1]
    BY <1>1, <2>2
  <2> USE DEF h
  <2>4. IsWalk(h, m)
    BY <2>3
  <2> HIDE DEF h, IsWalk
  <2> USE DEF S
  <2> QED
    BY <1>1, <2>4
<1> HIDE DEF S
<1>4. CLog2 \in S
  BY <1>1, <1>2, <1>3, UpTo
<1> USE DEF S
<1> DEFINE idx == CHOOSE f : IsWalk(f, CLog2)
<1>5. IsWalk(idx, CLog2)
  <2> HIDE DEF IsWalk
  <2> QED
    BY <1>4, Zenon
<1>6. PLRUEvict(s) = {IF idx[CLog2] >= Associativity THEN Associativity - 1 ELSE idx[CLog2]}
  BY DEF PLRUEvict
<1> HIDE DEF idx, S
<1>7. idx[0] = 0 /\ \A i \in 1 .. CLog2 : idx[i] = More(i, idx[i - 1])
  BY <1>1, <1>5
<1> DEFINE T == {i \in 0 .. CLog2 : idx[i] \in 0 .. Pow2[i] - 1}
<1>8. 0 \in T
  BY <1>1, <1>7, Pow2Facts
<1>9. \A i \in 1 .. CLog2 : i - 1 \in T =>
         /\ s[PLRUNode(i - 1, idx[i - 1])] \in {0, 1}
         /\ idx[i] = 2 * idx[i - 1] + s[PLRUNode(i - 1, idx[i - 1])]
         /\ idx[i] \in 0 .. Pow2[i] - 1
  <2> TAKE i \in 1 .. CLog2
  <2> HAVE i - 1 \in T
  <2> DEFINE y == idx[i - 1]
             n == PLRUNode(i - 1, y)
  <2>1. /\ i - 1 \in 0 .. CLog2 - 1 /\ i \in 1 .. Associativity
        /\ i - 1 \in 0 .. Associativity
    BY <1>1
  <2>2. Pow2[i] = 2 * Pow2[i - 1] /\ Pow2[i - 1] \in Nat
    BY <2>1, Pow2Facts
  <2>3. y \in 0 .. Pow2[i - 1] - 1
    OBVIOUS
  <2>4. n \in PLRUNodes
    BY <2>1, <2>3, NodeUnique
  <2>5. s[n] \in {0, 1}
    BY <2>4 DEF PLRUStates
  <2>6. idx[i] = y * 2 + s[n]
    BY <1>7
  <2> HIDE DEF y, n
  <2>7. idx[i] = 2 * y + s[n] /\ idx[i] \in 0 .. Pow2[i] - 1
    BY <2>2, <2>3, <2>5, <2>6
  <2> QED
    BY <2>5, <2>7 DEF y, n
<1> HIDE DEF More, IsWalk
<1>10. \A i \in 0 .. CLog2 : i \in T
  <2>1. \A i \in 1 .. CLog2 : i - 1 \in T => i \in T
    BY <1>1, <1>9
  <2> HIDE DEF T
  <2> QED
    BY <1>1, <1>8, <2>1, UpTo
<1> DEFINE x == idx[CLog2]
<1>11. x \in Leaves
  BY <1>1, <1>10 DEF Leaves
<1> DEFINE D == {k \in 0 .. CLog2 : PLRUPrefix(x, CLog2 - k) = idx[CLog2 - k]}
<1>12. 0 \in D
  BY <1>1, <1>11, PrefixFacts
<1> HIDE DEF x
<1>13. \A i \in 0 .. CLog2 - 1 : PLRUPrefix(x, i + 1) = idx[i + 1] =>
          /\ PLRUPrefix(x, i) = idx[i]
          /\ Bit(x, i) = s[PLRUNode(i, idx[i])]
  <2> TAKE i \in 0 .. CLog2 - 1
  <2> HAVE PLRUPrefix(x, i + 1) = idx[i + 1]
  <2>1. i + 1 \in 1 .. CLog2 /\ i \in 0 .. CLog2 /\ (i + 1) - 1 = i
    BY <1>1
  <2>2. /\ s[PLRUNode(i, idx[i])] \in {0, 1}
        /\ idx[i + 1] = 2 * idx[i] + s[PLRUNode(i, idx[i])]
    BY <1>9, <1>10, <2>1
  <2>3. idx[i] \in Int
    BY <1>10, <2>1
  <2>4. /\ Bit(x, i) \in {0, 1}
        /\ PLRUPrefix(x, i + 1) = 2 * PLRUPrefix(x, i) + Bit(x, i)
        /\ PLRUPrefix(x, i) \in Int
    BY <1>11, <2>1, PrefixFacts
  <2>5. \A p, y \in Int : \A b, c \in {0, 1} : 2 * p + b = 2 * y + c => p = y /\ b = c
    OBVIOUS
  <2> QED
    BY <2>2, <2>3, <2>4, <2>5, ZenonT(40)
<1>14. ASSUME NEW k \in 1 .. CLog2, k - 1 \in D PROVE k \in D
  <2>1. /\ CLog2 - k \in 0 .. CLog2 - 1 /\ k \in 0 .. CLog2
        /\ (CLog2 - k) + 1 = CLog2 - (k - 1)
    BY <1>1
  <2> QED
    BY <1>13, <1>14, <2>1
<1>15. \A k \in 0 .. CLog2 : k \in D
  <2> HIDE DEF D
  <2> QED
    BY <1>1, <1>12, <1>14, UpTo
<1>16. \A i \in 0 .. CLog2 : PLRUPrefix(x, i) = idx[i]
  <2> TAKE i \in 0 .. CLog2
  <2>1. CLog2 - i \in 0 .. CLog2 /\ CLog2 - (CLog2 - i) = i
    BY <1>1
  <2> QED
    BY <1>15, <2>1
<1>17. ASSUME NEW i \in 0 .. CLog2 - 1 PROVE Bit(x, i) = s[PLRUNode(i, PLRUPrefix(x, i))]
  <2>1. i + 1 \in 0 .. CLog2 /\ i \in 0 .. CLog2
    BY <1>1
  <2> QED
    BY <1>13, <1>16, <2>1
<1> QED
  BY <1>6, <1>11, <1>17 DEF x

(***************************************************************************)
(* PLRU: misses in a row                                                   *)
(***************************************************************************)
\* n is a multiple of the i-th power of two.
Multiple(n, i) == \E c \in Nat : n = c * Pow2[i]

LEMMA MultipleFacts ==
    ASSUME NEW i \in 0 .. CLog2 - 1, NEW n \in Nat \ {0}
    PROVE  /\ Multiple(n, i + 1) => Multiple(n, i)
           /\ n < Pow2[i] => ~Multiple(n, i)
           /\ Multiple(n, i) => n >= Pow2[i]
           /\ Multiple(n, i) => (Multiple(n - Pow2[i], i + 1) <=> ~Multiple(n, i + 1))
<1>1. PICK P \in Nat \ {0} : P = Pow2[i] /\ Pow2[i + 1] = 2 * P
  <2>1. i + 1 \in 1 .. Associativity /\ (i + 1) - 1 = i /\ i \in 0 .. Associativity
    BY CLog2Facts, PoliciesAssumption
  <2> QED
    BY <2>1, Pow2Facts
<1>2. ASSUME NEW a \in Nat, NEW b \in Nat, a * P = b * P PROVE a = b
  <2>1. a < b => a * P + P <= b * P
    BY MultiplesApart
  <2>2. b < a => b * P + P <= a * P
    BY MultiplesApart
  <2> QED
    BY <1>2, <2>1, <2>2
<1>3. ASSUME NEW c \in Nat PROVE c * Pow2[i + 1] = (2 * c) * P
  BY <1>1
<1>4. Multiple(n, i + 1) => Multiple(n, i)
  BY <1>1, <1>3 DEF Multiple
<1>5. ASSUME NEW c \in Nat, n = c * P PROVE c >= 1 /\ n >= P
  <2>1. c # 0
    BY <1>5
  <2>2. c * P = P + (c - 1) * P /\ (c - 1) * P \in Nat
    BY <2>1
  <2> QED
    BY <1>5, <2>1, <2>2
<1>6. Multiple(n, i) => n >= P
  BY <1>1, <1>5 DEF Multiple
<1>7. n < P => ~Multiple(n, i)
  BY <1>6
<1>8. ASSUME Multiple(n, i) PROVE Multiple(n - P, i + 1) <=> ~Multiple(n, i + 1)
  <2>1. PICK c \in Nat : n = c * P
    BY <1>1, <1>8 DEF Multiple
  <2>2. c >= 1 /\ c - 1 \in Nat /\ n - P = (c - 1) * P
    BY <1>5, <2>1
  <2>3. Multiple(n, i + 1) <=> \E e \in Nat : c = 2 * e
    <3>1. \A e \in Nat : n = e * Pow2[i + 1] <=> c = 2 * e
      BY <1>2, <1>3, <2>1
    <3> QED
      BY <3>1 DEF Multiple
  <2>4. Multiple(n - P, i + 1) <=> \E e \in Nat : c - 1 = 2 * e
    <3>1. \A e \in Nat : n - P = e * Pow2[i + 1] <=> c - 1 = 2 * e
      BY <1>2, <1>3, <2>2
    <3> QED
      BY <3>1 DEF Multiple
  <2>5. (\E e \in Nat : c - 1 = 2 * e) <=> ~(\E e \in Nat : c = 2 * e)
    <3>1. PICK h \in Nat, b \in {0, 1} : c = 2 * h + b
      <4>1. c \div 2 \in Nat /\ c % 2 \in 0 .. 2 - 1 /\ c = (c \div 2) * 2 + (c % 2)
        BY DivMod
      <4> QED
        BY <4>1
    <3>2. CASE b = 0
      <4>1. c = 2 * h /\ \A e \in Nat : c - 1 # 2 * e
        BY <3>1, <3>2
      <4> QED
        BY <4>1
    <3>3. CASE b = 1
      <4>1. c - 1 = 2 * h /\ \A e \in Nat : c # 2 * e
        BY <3>1, <3>3
      <4> QED
        BY <4>1
    <3> QED
      BY <3>2, <3>3
  <2> QED
    BY <2>3, <2>4, <2>5
<1> QED
  BY <1>1, <1>4, <1>6, <1>7, <1>8

\* Of the ways of a streak, the last one that passed a node has turned its pointer away.
Turns(s, t) ==
    \A k \in 1 .. Len(t), i \in 0 .. CLog2 - 1 :
        (\A l \in k + 1 .. Len(t) : PLRUPrefix(t[l], i) # PLRUPrefix(t[k], i)) =>
            s[PLRUNode(i, PLRUPrefix(t[k], i))] = 1 - Bit(t[k], i)

\* A streak comes back to a node of level i every 2^i misses.
Spaced(t) ==
    \A k, l \in 1 .. Len(t) : k < l =>
        \A i \in 0 .. CLog2 :
            PLRUPrefix(t[k], i) = PLRUPrefix(t[l], i) <=> Multiple(l - k, i)

\* The next victim of a streak keeps that distance to every way before it: on each level
\* the walk takes the direction that the last way through the node did not take.
LEMMA NextSpaced ==
    ASSUME NEW s \in PLRUStates, NEW t \in Seq(Leaves), Turns(s, t), Spaced(t),
           NEW x \in Leaves,
           \A i \in 0 .. CLog2 - 1 : Bit(x, i) = s[PLRUNode(i, PLRUPrefix(x, i))]
    PROVE  \A k \in 1 .. Len(t) : \A i \in 0 .. CLog2 :
              PLRUPrefix(t[k], i) = PLRUPrefix(x, i) <=> Multiple(Len(t) + 1 - k, i)
<1> DEFINE E(k, i) == PLRUPrefix(t[k], i) = PLRUPrefix(x, i)
           m == Len(t) + 1
           S == {i \in 0 .. CLog2 : \A k \in 1 .. Len(t) : E(k, i) <=> Multiple(m - k, i)}
<1>1. CLog2 \in Nat /\ Len(t) \in Nat /\ \A k \in 1 .. Len(t) : t[k] \in Leaves
  BY CLog2Facts, PoliciesAssumption
<1>2. 0 \in S
  <2>1. ASSUME NEW k \in 1 .. Len(t) PROVE E(k, 0) /\ Multiple(m - k, 0)
    <3>1. E(k, 0)
      BY <1>1, PrefixFacts
    <3>2. m - k \in Nat /\ m - k = (m - k) * Pow2[0]
      BY <1>1, Pow2Facts
    <3> QED
      BY <3>1, <3>2 DEF Multiple
  <2> HIDE DEF E
  <2> QED
    BY <1>1, <2>1
<1>3. ASSUME NEW i \in 1 .. CLog2, i - 1 \in S PROVE i \in S
  <2> DEFINE g == i - 1
             P == Pow2[g]
  <2>1. g \in 0 .. CLog2 - 1 /\ g + 1 = i /\ g \in 0 .. CLog2 /\ i \in 0 .. CLog2
    BY <1>1
  <2>2. P \in Nat \ {0}
    <3>1. g \in 0 .. Associativity
      BY <2>1, CLog2Facts, PoliciesAssumption
    <3> QED
      BY <3>1, Pow2Facts
  <2>3. \A k \in 1 .. Len(t) : E(k, g) <=> Multiple(m - k, g)
    BY <1>3
  <2> HIDE DEF S, g
  <2>4. ASSUME NEW a \in Leaves, NEW b \in Leaves
        PROVE  /\ Bit(a, g) \in {0, 1} /\ Bit(b, g) \in {0, 1}
               /\ PLRUPrefix(a, i) = PLRUPrefix(b, i) <=>
                     PLRUPrefix(a, g) = PLRUPrefix(b, g) /\ Bit(a, g) = Bit(b, g)
    <3>1. /\ Bit(a, g) \in {0, 1} /\ Bit(b, g) \in {0, 1}
          /\ PLRUPrefix(a, g + 1) = 2 * PLRUPrefix(a, g) + Bit(a, g)
          /\ PLRUPrefix(b, g + 1) = 2 * PLRUPrefix(b, g) + Bit(b, g)
          /\ PLRUPrefix(a, g) \in Int /\ PLRUPrefix(b, g) \in Int
      BY <2>1, PrefixFacts
    <3>2. \A p, y \in Int : \A c, d \in {0, 1} : 2 * p + c = 2 * y + d <=> p = y /\ c = d
      OBVIOUS
    <3> QED
      BY <2>1, <3>1, <3>2
  <2>5. ASSUME NEW k \in 1 .. Len(t) PROVE E(k, i) <=> Multiple(m - k, i)
    <3>1. m - k \in Nat \ {0} /\ t[k] \in Leaves
      BY <1>1
    <3>2. CASE ~Multiple(m - k, g)
      <4>1. ~E(k, g)
        BY <2>3, <3>2
      <4>2. ~Multiple(m - k, i)
        BY <2>1, <3>1, <3>2, MultipleFacts
      <4>3. ~E(k, i)
        BY <2>4, <3>1, <4>1
      <4> QED
        BY <4>2, <4>3
    <3>3. CASE Multiple(m - k, g)
      <4> DEFINE z == m - P
      <4>1. m - k >= P
        BY <2>1, <3>1, <3>3, MultipleFacts
      <4>2. z \in k .. Len(t) /\ z \in 1 .. Len(t) /\ m - z = P /\ t[z] \in Leaves
        BY <1>1, <2>2, <3>1, <4>1
      <4>3. E(k, g) /\ E(z, g)
        <5>1. P = 1 * P
          BY <2>2
        <5>2. Multiple(m - z, g)
          BY <4>2, <5>1 DEF Multiple
        <5> QED
          BY <2>3, <3>3, <4>2, <5>2
      <4> HIDE DEF z
      <4>4. ASSUME NEW l \in z + 1 .. Len(t) PROVE PLRUPrefix(t[l], g) # PLRUPrefix(t[z], g)
        <5>1. l \in 1 .. Len(t) /\ m - l \in Nat \ {0} /\ m - l < P
          BY <1>1, <2>2, <4>2
        <5>2. ~Multiple(m - l, g)
          BY <2>1, <5>1, MultipleFacts
        <5> QED
          BY <2>3, <4>3, <5>1, <5>2
      <4>5. s[PLRUNode(g, PLRUPrefix(t[z], g))] = 1 - Bit(t[z], g)
        BY <2>1, <4>2, <4>4 DEF Turns
      <4>6. Bit(x, g) = 1 - Bit(t[z], g)
        BY <2>1, <4>3, <4>5
      <4>7. PLRUPrefix(t[k], i) = PLRUPrefix(t[z], i) <=> Multiple((m - k) - P, i)
        <5>1. z - k = (m - k) - P
          BY <1>1, <2>2, <4>2
        <5>2. CASE k < z
          BY <2>1, <4>2, <5>1, <5>2 DEF Spaced
        <5>3. CASE k = z
          <6>1. (m - k) - P = 0 /\ 0 = 0 * Pow2[i]
            <7>1. Pow2[i] \in Nat
              BY CLog2Facts, Pow2Facts, PoliciesAssumption
            <7> QED
              BY <1>1, <4>2, <5>1, <5>3, <7>1
          <6>2. Multiple((m - k) - P, i)
            BY <6>1 DEF Multiple
          <6> QED
            BY <5>3, <6>2
        <5> QED
          BY <1>1, <4>2, <5>2, <5>3
      <4>8. Multiple((m - k) - P, i) <=> ~Multiple(m - k, i)
        BY <2>1, <3>1, <3>3, MultipleFacts
      <4>9. /\ Bit(t[k], g) \in {0, 1} /\ Bit(t[z], g) \in {0, 1}
            /\ Bit(t[k], g) = Bit(t[z], g) <=> PLRUPrefix(t[k], i) = PLRUPrefix(t[z], i)
            /\ Bit(t[k], g) = Bit(x, g) <=> E(k, i)
        BY <2>4, <3>1, <4>2, <4>3
      <4> HIDE DEF E
      <4> QED
        BY <4>6, <4>7, <4>8, <4>9
    <3> QED
      BY <3>2, <3>3
  <2> HIDE DEF E
  <2> QED
    BY <2>1, <2>5 DEF S
<1>4. \A i \in 0 .. CLog2 : i \in S
  <2> HIDE DEF S
  <2> QED
    BY <1>1, <1>2, <1>3, UpTo
<1> QED
  BY <1>4

\* What PLRU's tree says of a streak of misses.
TreeFollows(s, t) ==
    /\ t \in Seq(Leaves)
    /\ Len(t) <= Associativity
    /\ Turns(s, t)
    /\ Spaced(t)

LEMMA PLRUStreakGrows ==
    ASSUME NEW s \in PLRUStates, NEW t, TreeFollows(s, t), NEW x \in Leaves,
           \A i \in 0 .. CLog2 - 1 : Bit(x, i) = s[PLRUNode(i, PLRUPrefix(x, i))]
    PROVE  TreeFollows(Turned(Turned(s, x), x),
                       IF Len(t) < Associativity THEN Append(t, x) ELSE <<x>>)
<1> DEFINE r == Turned(Turned(s, x), x)
<1>1. \A i \in 0 .. CLog2 - 1 : \A p \in 0 .. Pow2[i] - 1 :
         r[PLRUNode(i, p)] = IF PLRUPrefix(x, i) = p THEN 1 - Bit(x, i) ELSE s[PLRUNode(i, p)]
  <2> DEFINE q == Turned(s, x)
  <2>1. q \in PLRUStates
    BY TurnedFacts
  <2>2. \A i \in 0 .. CLog2 - 1 : \A p \in 0 .. Pow2[i] - 1 :
           q[PLRUNode(i, p)] = IF PLRUPrefix(x, i) = p THEN 1 - Bit(x, i) ELSE s[PLRUNode(i, p)]
    BY TurnedFacts
  <2> HIDE DEF q
  <2>3. \A i \in 0 .. CLog2 - 1 : \A p \in 0 .. Pow2[i] - 1 :
           Turned(q, x)[PLRUNode(i, p)]
              = IF PLRUPrefix(x, i) = p THEN 1 - Bit(x, i) ELSE q[PLRUNode(i, p)]
    BY <2>1, TurnedFacts
  <2> QED
    BY <2>2, <2>3 DEF q
<1> HIDE DEF r
<1>2. CLog2 \in Nat /\ Len(t) \in Nat /\ t \in Seq(Leaves) /\ Associativity \in Nat \ {0}
  BY CLog2Facts, PoliciesAssumption DEF TreeFollows
<1>3. \A w \in Leaves : \A i \in 0 .. CLog2 - 1 : PLRUPrefix(w, i) \in 0 .. Pow2[i] - 1
  <2>1. \A i \in 0 .. CLog2 - 1 : i \in 0 .. CLog2
    BY <1>2
  <2> QED
    BY <2>1, PrefixFacts
<1>4. CASE Len(t) < Associativity
  <2> DEFINE u == Append(t, x)
  <2>1. /\ u \in Seq(Leaves) /\ Len(u) = Len(t) + 1 /\ u[Len(t) + 1] = x
        /\ \A k \in 1 .. Len(t) : u[k] = t[k] /\ t[k] \in Leaves
    BY <1>2
  <2> HIDE DEF u
  <2>2. ASSUME NEW k \in 1 .. Len(u), NEW i \in 0 .. CLog2 - 1,
               \A l \in k + 1 .. Len(u) : PLRUPrefix(u[l], i) # PLRUPrefix(u[k], i)
        PROVE  r[PLRUNode(i, PLRUPrefix(u[k], i))] = 1 - Bit(u[k], i)
    <3>1. CASE k = Len(u)
      <4>1. u[k] = x /\ PLRUPrefix(x, i) \in 0 .. Pow2[i] - 1
        BY <1>3, <2>1, <3>1
      <4> QED
        BY <1>1, <4>1
    <3>2. CASE k # Len(u)
      <4>1. k \in 1 .. Len(t) /\ Len(u) \in k + 1 .. Len(u)
        BY <1>2, <2>1, <3>2
      <4>2. u[k] = t[k] /\ t[k] \in Leaves /\ PLRUPrefix(x, i) # PLRUPrefix(t[k], i)
        BY <2>1, <2>2, <4>1
      <4>3. r[PLRUNode(i, PLRUPrefix(t[k], i))] = s[PLRUNode(i, PLRUPrefix(t[k], i))]
        BY <1>1, <1>3, <4>2
      <4>4. ASSUME NEW l \in k + 1 .. Len(t) PROVE PLRUPrefix(t[l], i) # PLRUPrefix(t[k], i)
        <5>1. l \in k + 1 .. Len(u) /\ l \in 1 .. Len(t)
          BY <1>2, <2>1, <4>1
        <5> QED
          BY <2>1, <2>2, <4>2, <5>1
      <4>5. s[PLRUNode(i, PLRUPrefix(t[k], i))] = 1 - Bit(t[k], i)
        BY <4>1, <4>4 DEF TreeFollows, Turns
      <4> QED
        BY <4>2, <4>3, <4>5
    <3> QED
      BY <3>1, <3>2
  <2>3. ASSUME NEW k \in 1 .. Len(u), NEW l \in 1 .. Len(u), k < l, NEW i \in 0 .. CLog2
        PROVE  PLRUPrefix(u[k], i) = PLRUPrefix(u[l], i) <=> Multiple(l - k, i)
    <3>1. k \in 1 .. Len(t) /\ u[k] = t[k]
      BY <1>2, <2>1, <2>3
    <3>2. CASE l = Len(u)
      <4>1. u[l] = x /\ l - k = Len(t) + 1 - k
        BY <1>2, <2>1, <3>2
      <4>2. PLRUPrefix(t[k], i) = PLRUPrefix(x, i) <=> Multiple(Len(t) + 1 - k, i)
        BY <1>2, <3>1, NextSpaced DEF TreeFollows
      <4> QED
        BY <3>1, <4>1, <4>2
    <3>3. CASE l # Len(u)
      <4>1. l \in 1 .. Len(t) /\ u[l] = t[l]
        BY <1>2, <2>1, <3>3
      <4> QED
        BY <2>3, <3>1, <4>1 DEF TreeFollows, Spaced
    <3> QED
      BY <3>2, <3>3
  <2>4. Len(u) <= Associativity
    BY <1>2, <1>4, <2>1
  <2>5. TreeFollows(r, u)
    BY <2>1, <2>2, <2>3, <2>4 DEF TreeFollows, Turns, Spaced
  <2> QED
    BY <1>4, <2>5 DEF r, u
<1>5. CASE ~(Len(t) < Associativity)
  <2> DEFINE u == <<x>>
  <2>1. u \in Seq(Leaves) /\ Len(u) = 1 /\ u[1] = x
    OBVIOUS
  <2> HIDE DEF u
  <2>2. Turns(r, u)
    <3> SUFFICES ASSUME NEW i \in 0 .. CLog2 - 1
                 PROVE  r[PLRUNode(i, PLRUPrefix(x, i))] = 1 - Bit(x, i)
      BY <2>1 DEF Turns
    <3> QED
      BY <1>1, <1>3
  <2>3. Spaced(u)
    BY <2>1 DEF Spaced
  <2>4. TreeFollows(r, u)
    BY <1>2, <2>1, <2>2, <2>3 DEF TreeFollows
  <2> QED
    BY <1>5, <2>4 DEF r, u
<1> QED
  BY <1>4, <1>5

\* The root points away from the last way, and the tree follows the streak if every leaf
\* is a way.
PLRUInv ==
    policy = "RP_PLRU" =>
        /\ stats \in PLRUStates
        /\ last \in Ways
        /\ valid # {} /\ CLog2 > 0 => stats[PLRUNode(0, 0)] = 1 - Bit(last, 0)
        /\ Pow2[CLog2] = Associativity => TreeFollows(stats, streak)

LEMMA WaysAreLeaves ==
    /\ Ways \subseteq Leaves
    /\ Pow2[CLog2] = Associativity => Ways = Leaves
BY CLog2Facts, Pow2Facts, PoliciesAssumption DEF Ways, Leaves

LEMMA RootTurned ==
    ASSUME NEW s \in PLRUStates, NEW w \in Ways, CLog2 > 0
    PROVE  Turned(s, w)[PLRUNode(0, 0)] = 1 - Bit(w, 0)
<1>1. 0 \in 0 .. CLog2 - 1 /\ 0 \in 0 .. Pow2[0] - 1
  BY CLog2Facts, Pow2Facts, PoliciesAssumption
<1>2. w \in Leaves
  BY WaysAreLeaves
<1>3. PLRUPrefix(w, 0) = 0
  BY <1>2, PrefixFacts
<1> QED
  BY <1>1, <1>2, <1>3, TurnedFacts

LEMMA EmptyStreak == \A s : TreeFollows(s, <<>>)
BY PoliciesAssumption DEF TreeFollows, Turns, Spaced

LEMMA PLRUInvariant == SpecReset => []PLRUInv
<1> USE PoliciesAssumption
<1>1. Init => PLRUInv
  <2> SUFFICES ASSUME Init, policy = "RP_PLRU"
               PROVE  stats \in PLRUStates /\ last \in Ways /\ valid = {}
                      /\ TreeFollows(stats, streak)
    BY DEF PLRUInv
  <2>1. stats = PLRUInit /\ last = 0 /\ valid = {} /\ streak = <<>>
    BY DEF Init, RowInit
  <2> QED
    BY <2>1, EmptyStreak, WaysFacts DEF PLRUInit, PLRUStates
<1>2. PLRUInv /\ [Next \/ Reset]_vars => PLRUInv'
  <2> SUFFICES ASSUME PLRUInv, [Next \/ Reset]_vars, policy' = "RP_PLRU"
               PROVE  /\ stats' \in PLRUStates
                      /\ last' \in Ways
                      /\ valid' # {} /\ CLog2 > 0 =>
                            stats'[PLRUNode(0, 0)] = 1 - Bit(last', 0)
                      /\ Pow2[CLog2] = Associativity => TreeFollows(stats', streak')
    BY DEF PLRUInv, TreeFollows, Turns, Spaced, Bit, PLRUPrefix
  <2> DEFINE Goal == /\ stats' \in PLRUStates
                     /\ last' \in Ways
                     /\ valid' # {} /\ CLog2 > 0 =>
                           stats'[PLRUNode(0, 0)] = 1 - Bit(last', 0)
                     /\ Pow2[CLog2] = Associativity => TreeFollows(stats', streak')
  <2>1. policy = "RP_PLRU"
    BY DEF Next, Hit, Kick, Miss, Reset, vars
  <2>2. /\ stats \in PLRUStates
        /\ last \in Ways
        /\ valid # {} /\ CLog2 > 0 => stats[PLRUNode(0, 0)] = 1 - Bit(last, 0)
        /\ Pow2[CLog2] = Associativity => TreeFollows(stats, streak)
    BY <2>1 DEF PLRUInv
  <2>3. \A s \in PLRUStates : \A w \in Ways : \A v : update_stats(policy, s, w, v) = Turned(s, w)
    BY <2>1, TurnedFacts, WaysAreLeaves DEF update_stats
  <2>4. ASSUME NEW w \in Ways, Hit(w) \/ Kick(w) PROVE Goal
    <3>1. stats' = Turned(stats, w) /\ last' = w /\ streak' = <<>>
      <4>1. CASE Hit(w)
        BY <2>2, <2>3, <4>1 DEF Hit
      <4>2. CASE Kick(w)
        BY <2>2, <2>3, <4>2 DEF Kick
      <4> QED
        BY <2>4, <4>1, <4>2
    <3>2. Turned(stats, w) \in PLRUStates
      BY <2>2, TurnedFacts, WaysAreLeaves
    <3>3. CLog2 > 0 => Turned(stats, w)[PLRUNode(0, 0)] = 1 - Bit(w, 0)
      BY <2>2, RootTurned
    <3> QED
      BY <3>1, <3>2, <3>3, EmptyStreak
  <2>5. CASE Miss
    <3>1. PICK w \in PLRUEvict(stats) :
             /\ stats' = update_stats(policy, update_stats(policy, stats, w, FALSE), w, TRUE)
             /\ last' = w
             /\ streak' = IF Len(streak) < Associativity THEN Append(streak, w) ELSE <<w>>
      <4>1. select_way_to_evict(policy, stats) = PLRUEvict(stats)
        BY <2>1 DEF select_way_to_evict
      <4> QED
        BY <2>5, <4>1 DEF Miss
    <3>2. PICK x \in Leaves :
             /\ PLRUEvict(stats) = {IF x >= Associativity THEN Associativity - 1 ELSE x}
             /\ \A i \in 0 .. CLog2 - 1 : Bit(x, i) = stats[PLRUNode(i, PLRUPrefix(x, i))]
      BY <2>2, PLRUWalk
    <3>3. x \in Nat
      BY CLog2Facts, Pow2Facts DEF Leaves
    <3>4. w = IF x >= Associativity THEN Associativity - 1 ELSE x
      BY <3>1, <3>2
    <3>5. w \in Ways
      BY <3>3, <3>4 DEF Ways
    <3> DEFINE q == Turned(stats, w)
    <3>6. q \in PLRUStates /\ Turned(q, w) \in PLRUStates
      BY <2>2, <3>5, TurnedFacts, WaysAreLeaves
    <3>7. stats' = Turned(q, w)
      <4>1. update_stats(policy, stats, w, FALSE) = q
        BY <2>2, <2>3, <3>5
      <4>2. update_stats(policy, q, w, TRUE) = Turned(q, w)
        BY <2>3, <3>5, <3>6
      <4> QED
        BY <3>1, <4>1, <4>2
    <3>8. CLog2 > 0 => Turned(q, w)[PLRUNode(0, 0)] = 1 - Bit(w, 0)
      BY <3>5, <3>6, RootTurned
    <3>9. ASSUME Pow2[CLog2] = Associativity PROVE TreeFollows(stats', streak')
      <4>1. w = x
        BY <3>3, <3>4, <3>9 DEF Leaves
      <4>2. TreeFollows(stats, streak)
        BY <2>2, <3>9
      <4>3. TreeFollows(Turned(Turned(stats, x), x),
                        IF Len(streak) < Associativity THEN Append(streak, x) ELSE <<x>>)
        BY <2>2, <3>2, <4>2, PLRUStreakGrows
      <4> QED
        BY <3>1, <3>7, <4>1, <4>3
    <3> HIDE DEF q
    <3> QED
      BY <3>1, <3>5, <3>6, <3>7, <3>8, <3>9
  <2>6. CASE Reset
    <3>1. stats' = stats /\ last' = last /\ valid' = {} /\ streak' = <<>>
      BY <2>6 DEF Reset
    <3> QED
      BY <2>2, <3>1, EmptyStreak
  <2>7. CASE UNCHANGED vars
    <3>1. stats' = stats /\ last' = last /\ valid' = valid /\ streak' = streak
      BY <2>7 DEF vars
    <3> QED
      BY <2>2, <3>1
  <2> QED
    BY <2>4, <2>5, <2>6, <2>7 DEF Next
<1> QED
  BY <1>1, <1>2, PTL DEF SpecReset

\* The walk leaves the root for the half of the tree that the last way is not in.
LEMMA PLRUVictim ==
    ASSUME PLRUInv, policy = "RP_PLRU", Associativity > 1, valid # {}
    PROVE  last \notin select_way_to_evict(policy, stats)
<1> USE PoliciesAssumption
<1>1. stats \in PLRUStates /\ last \in Ways
  BY DEF PLRUInv
<1>2. PICK x \in Leaves :
         /\ PLRUEvict(stats) = {IF x >= Associativity THEN Associativity - 1 ELSE x}
         /\ \A i \in 0 .. CLog2 - 1 : Bit(x, i) = stats[PLRUNode(i, PLRUPrefix(x, i))]
  BY <1>1, PLRUWalk
<1>3. /\ CLog2 \in 1 .. Associativity /\ Pow2[CLog2 - 1] < Associativity
      /\ Pow2[CLog2 - 1] \in Nat \ {0}
  <2>1. CLog2 # 0
    BY CLog2Facts, Pow2Facts
  <2> QED
    BY <2>1, CLog2Facts, Pow2Facts
<1>4. stats[PLRUNode(0, 0)] = 1 - Bit(last, 0)
  BY <1>3 DEF PLRUInv
<1> DEFINE P == Pow2[CLog2 - 1]
<1>5. ASSUME NEW w \in Leaves
      PROVE  /\ Bit(w, 0) \in {0, 1} /\ w \in Nat
             /\ Bit(w, 0) = 0 => w < P
             /\ Bit(w, 0) = 1 => w >= P
  <2>1. 0 \in 0 .. CLog2 - 1 /\ 0 + 1 = 1
    BY <1>3
  <2>2. Bit(w, 0) \in {0, 1} /\ PLRUPrefix(w, 1) = 2 * PLRUPrefix(w, 0) + Bit(w, 0)
        /\ PLRUPrefix(w, 0) = 0
    BY <2>1, PrefixFacts
  <2>3. w \in Nat
    BY CLog2Facts, Pow2Facts DEF Leaves
  <2>4. w \div P = Bit(w, 0)
    BY <2>2 DEF PLRUPrefix
  <2>5. w = (w \div P) * P + (w % P) /\ w % P \in 0 .. P - 1
    BY <1>3, <2>3, DivMod
  <2> HIDE DEF P
  <2>6. P \in Nat
    BY <1>3 DEF P
  <2>7. Bit(w, 0) = 0 => w = w % P
    BY <2>3, <2>4, <2>5, <2>6
  <2>8. Bit(w, 0) = 1 => w = P + (w % P)
    BY <2>3, <2>4, <2>5, <2>6
  <2> QED
    BY <2>2, <2>3, <2>5, <2>6, <2>7, <2>8
<1>6. Bit(x, 0) = 1 - Bit(last, 0)
  <2>1. 0 \in 0 .. CLog2 - 1 /\ PLRUPrefix(x, 0) = 0
    BY <1>3, PrefixFacts
  <2> QED
    BY <1>2, <1>4, <2>1
<1>7. last \in Leaves /\ last \in Nat /\ last < Associativity
  BY <1>1, WaysAreLeaves DEF Ways
<1>8. last # IF x >= Associativity THEN Associativity - 1 ELSE x
  <2> HIDE DEF P
  <2>1. P \in Nat /\ P < Associativity
    BY <1>3 DEF P
  <2>2. CASE Bit(last, 0) = 0
    <3>1. last < P /\ x >= P /\ x \in Nat
      BY <1>5, <1>6, <1>7, <2>2
    <3> QED
      BY <1>7, <2>1, <3>1
  <2>3. CASE Bit(last, 0) = 1
    <3>1. last >= P /\ x < P /\ x \in Nat
      BY <1>5, <1>6, <1>7, <2>3
    <3> QED
      BY <1>7, <2>1, <3>1
  <2> QED
    BY <1>5, <1>7, <2>2, <2>3
<1>9. select_way_to_evict(policy, stats) = PLRUEvict(stats)
  BY DEF select_way_to_evict
<1> QED
  BY <1>2, <1>8, <1>9

\* The distance of two ways of a streak is less than the number of leaves.
LEMMA PLRUStreakDistinct ==
    ASSUME PLRUInv, policy = "RP_PLRU", Pow2[CLog2] = Associativity
    PROVE  \A i, j \in 1 .. Len(streak) : streak[i] = streak[j] => i = j
<1>1. TreeFollows(stats, streak)
  BY DEF PLRUInv
<1>2. /\ Len(streak) \in Nat /\ Len(streak) <= Associativity /\ Spaced(streak)
      /\ \A k \in 1 .. Len(streak) : streak[k] \in Leaves
  BY <1>1 DEF TreeFollows
<1>3. CLog2 \in 0 .. CLog2 /\ Associativity \in Nat \ {0}
  BY CLog2Facts, PoliciesAssumption
<1>4. ASSUME NEW k \in 1 .. Len(streak), NEW l \in 1 .. Len(streak), k < l
      PROVE  streak[k] # streak[l]
  <2>1. PLRUPrefix(streak[k], CLog2) = streak[k] /\ PLRUPrefix(streak[l], CLog2) = streak[l]
    BY <1>2, PrefixFacts
  <2>2. streak[k] = streak[l] <=> Multiple(l - k, CLog2)
    BY <1>2, <1>3, <1>4, <2>1 DEF Spaced
  <2>3. ASSUME NEW c \in Nat PROVE l - k # c * Associativity
    <3>1. l - k > 0 /\ l - k < Associativity
      BY <1>2, <1>3, <1>4
    <3>2. CASE c = 0
      BY <1>2, <1>3, <3>1, <3>2
    <3>3. CASE c # 0
      <4>1. 0 * Associativity + Associativity <= c * Associativity
        BY <1>3, <3>3, MultiplesApart
      <4>2. Associativity <= c * Associativity
        BY <1>3, <4>1
      <4> QED
        BY <1>3, <3>1, <4>2
    <3> QED
      BY <3>2, <3>3
  <2> QED
    BY <2>2, <2>3 DEF Multiple
<1> QED
  BY <1>2, <1>4

(***************************************************************************)
(* The properties of a row, whatever its policy and associativity          *)
(***************************************************************************)
\* After any mixture of hits, misses, kicks and restarts LRU's victim in a full row is
\* the way whose last access is the oldest, and PLRU and NMRU spare the way they touched
\* last: PolicyVictim, of select_way_to_evict and update_stats in cache_policy.cpp.
THEOREM PolicyVictims == SpecReset => []PolicyVictim
<1>1. LRUInv /\ (policy = "RP_LRU" => LRUHistory) /\ NMRUInv /\ PLRUInv => PolicyVictim
  <2> SUFFICES ASSUME LRUInv, policy = "RP_LRU" => LRUHistory, NMRUInv, PLRUInv
               PROVE  PolicyVictim
    OBVIOUS
  <2>1. LeastRecentVictim
    BY LRUVictim
  <2>2. NotLastTouched
    BY NMRUVictim, PLRUVictim DEF NotLastTouched
  <2> QED
    BY <2>1, <2>2 DEF PolicyVictim
<1> QED
  BY <1>1, LRUInvariant, LRUHistoryInvariant, NMRUInvariant, PLRUInvariant, PTL

\* As many misses in a row as there are ways replace every way once, under LRU with any
\* number of ways and under PLRU if the number of ways is a power of two:
\* MissesReplaceAll, of the same two functions.
THEOREM MissesReplaceEveryWay == SpecReset => []MissesReplaceAll
<1>1. LRUInv /\ (policy = "RP_LRU" => LRUHistory) /\ PLRUInv => MissesReplaceAll
  <2> SUFFICES ASSUME LRUInv, policy = "RP_LRU" => LRUHistory, PLRUInv
               PROVE  MissesReplaceAll
    OBVIOUS
  <2>1. policy = "RP_LRU" => \A i, j \in 1 .. Len(streak) : streak[i] = streak[j] => i = j
    BY LRUStreakDistinct
  <2>2. policy = "RP_PLRU" /\ Pow2[CLog2] = Associativity =>
           \A i, j \in 1 .. Len(streak) : streak[i] = streak[j] => i = j
    BY PLRUStreakDistinct
  <2> QED
    BY <2>1, <2>2 DEF MissesReplaceAll
<1> QED
  BY <1>1, LRUInvariant, LRUHistoryInvariant, PLRUInvariant, PTL

\* As long as the machine is not restarted, LRU and LFU evict a valid line only when the
\* row has no invalid one (LFU until a count wraps): InvalidFirst, for every set of
\* policies.
THEOREM ColdWaysFirst == Spec => []InvalidFirst
<1>1. [Next]_vars => [Next \/ Reset]_vars
  OBVIOUS
<1>2. LRUInv /\ LFUInv => InvalidFirst
  <2> SUFFICES ASSUME LRUInv, LFUInv PROVE InvalidFirst
    OBVIOUS
  <2>1. ASSUME policy = "RP_LRU", valid # Ways
        PROVE  select_way_to_evict(policy, stats) \cap valid = {}
    BY <2>1, LRUSparesValid
  <2>2. ASSUME policy = "RP_LFU", valid # Ways, \A w \in valid : stats[w] # 0
        PROVE  select_way_to_evict(policy, stats) \cap valid = {}
    <3>1. PICK w \in Ways : w \notin valid
      BY <2>2 DEF LFUInv
    <3>2. stats \in [Ways -> 0 .. LfuMod - 1] /\ \A v \in Ways : v \notin valid => stats[v] = 0
      BY <2>2 DEF LFUInv, LFUStates
    <3>3. \A v \in LFUEvict(stats) : v \in Ways /\ stats[v] = 0
      BY <3>1, <3>2, PoliciesAssumption DEF LFUEvict
    <3>4. select_way_to_evict(policy, stats) = LFUEvict(stats)
      BY <2>2 DEF select_way_to_evict
    <3> QED
      BY <2>2, <3>3, <3>4
  <2> QED
    BY <2>1, <2>2 DEF InvalidFirst
<1> QED
  BY <1>1, <1>2, LRUInvariant, LFUInvariant, PTL DEF Spec, SpecReset
=============================================================================
