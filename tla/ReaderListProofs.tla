--------------------------- MODULE ReaderListProofs ---------------------------
(***************************************************************************)
(* The list of readers, for every number of entries: as long as no reader  *)
(* at an end of several is removed, both chains of links run through the   *)
(* readers added and not removed, in their order.                          *)
(***************************************************************************)
EXTENDS ReaderList, FiniteSetTheorems, SequenceTheorems, TLAPS

-----------------------------------------------------------------------------
(* What the links say when both chains run through the list: the inductive *)
(* invariant.  Of an entry off the list they say nothing: vreader_dequeue  *)
(* clears them, but no walk comes there.                                   *)
Count == Len(listed)

Distinct(s) == \A i, j \in 1..Len(s) : s[i] = s[j] => i = j

Apart == /\ listed \in Seq(Entries) /\ Distinct(listed)
         /\ removed \subseteq Entries /\ deleted \subseteq Entries
         /\ \A i \in 1..Count : listed[i] \notin removed \cup deleted

Ended == /\ head = (IF Count = 0 THEN None ELSE listed[1])
         /\ tail = (IF Count = 0 THEN None ELSE listed[Count])

Forward == /\ next \in [Entries -> Entries \cup {None}]
           /\ \A i \in 1..Count :
                 next[listed[i]] = IF i < Count THEN listed[i + 1] ELSE None

Backward == /\ prev \in [Entries -> Entries \cup {None}]
            /\ \A i \in 1..Count :
                  prev[listed[i]] = IF i > 1 THEN listed[i - 1] ELSE None

Linked == Apart /\ Ended /\ Forward /\ Backward

-----------------------------------------------------------------------------
(* A number is reached from 0 one by one: a set of numbers that lacks one  *)
(* has a number whose successor it lacks.  Otherwise the numbers up to the *)
(* missing one that are missing too would be fewer than themselves.        *)
LEMMA LeavesSomewhere ==
    ASSUME NEW S, 0 \in S, NEW x \in Nat, x \notin S
    PROVE  \E n \in 0 .. x - 1 : n \in S /\ n + 1 \notin S
<1>1. SUFFICES ASSUME \A n \in 0 .. x - 1 : n \in S => n + 1 \in S PROVE FALSE
  OBVIOUS
<1> DEFINE T == {y \in 0 .. x : y \notin S}
           U == T \ {x}
           f == [y \in T |-> y - 1]
<1>2. ASSUME NEW y \in T
      PROVE  y \in 0 .. x /\ y # 0 /\ y - 1 \in 0 .. x - 1 /\ y - 1 \notin S
  <2>1. y \in 0 .. x /\ y # 0 /\ y - 1 \in 0 .. x - 1 /\ (y - 1) + 1 = y
    OBVIOUS
  <2> QED BY <1>1, <2>1
<1>3. f \in [T -> U]
  BY <1>2
<1>4. IsFiniteSet(T) /\ x \in T
  <2>1. IsFiniteSet(0 .. x) /\ T \in SUBSET (0 .. x) /\ x \in T
    BY FS_Interval
  <2> HIDE DEF T
  <2> QED BY <2>1, FS_Subset
<1>5. IsFiniteSet(U) /\ Cardinality(U) = Cardinality(T) - 1 /\ Cardinality(T) \in Nat
  BY <1>4, FS_RemoveElement, FS_CardinalityType
<1>6. Cardinality(U) < Cardinality(T)
  BY <1>5
<1> HIDE DEF U, T, f
<1>7. \E y, z \in T : y # z /\ f[y] = f[z]
  BY <1>3, <1>4, <1>5, <1>6, FS_PigeonHole
<1> QED BY <1>2, <1>7 DEF f

(* Distinct entries are no more than there are *)
LEMMA DistinctFit ==
    ASSUME NEW s \in Seq(Entries), Distinct(s)
    PROVE  /\ Len(s) \in Nat /\ Cardinality(Entries) \in Nat
           /\ Len(s) <= Cardinality(Entries)
<1>1. Len(s) \in Nat /\ s \in [1 .. Len(s) -> Entries]
  BY LenProperties
<1>2. s \in Injection(1 .. Len(s), Entries)
  <2>1. \A i, j \in DOMAIN s : s[i] = s[j] => i = j
    BY <1>1 DEF Distinct
  <2> QED BY <1>1, <2>1 DEF Injection, IsInjective
<1>3. Cardinality(1 .. Len(s)) = Len(s)
  BY <1>1, FS_Interval
<1> QED BY <1>1, <1>2, <1>3, EntryAssumption, FS_Injection, FS_CardinalityType

(* The links run through s from first, and end after its last entry *)
Chain(first, link, s) ==
    /\ first = IF Len(s) = 0 THEN None ELSE s[1]
    /\ \A i \in 1..Len(s) : link[s[i]] = IF i < Len(s) THEN s[i + 1] ELSE None

(* A walk along such links meets the entries of s, in order, and no other *)
LEMMA FollowsChain ==
    ASSUME NEW s \in Seq(Entries), Distinct(s), NEW first, NEW link,
           Chain(first, link, s)
    PROVE  Follow(first, link) = s
<1> DEFINE size == Cardinality(Entries)
           n == Len(s)
           Step(h, k) == IF k = 0 THEN first
                         ELSE IF h[k - 1] = None THEN None ELSE link[h[k - 1]]
           Eq(h) == h = [k \in 0..size |-> Step(h, k)]
           nth(k) == IF k < n THEN s[k + 1] ELSE None
           W == [k \in 0..size |-> nth(k)]
<1>1. n \in Nat /\ size \in Nat /\ n <= size
  BY DistinctFit
<1>2. s = [i \in 1..n |-> s[i]] /\ \A i \in 1..n : s[i] \in Entries /\ s[i] # None
  BY <1>1, LenProperties, EntryAssumption
<1>3. \A k \in 0..size : W[k] = nth(k)
  OBVIOUS
<1> HIDE DEF W
<1>4. ASSUME NEW k \in 0..size PROVE Step(W, k) = nth(k)
  <2>1. CASE k = 0
    <3>1. Step(W, k) = first
      BY <2>1
    <3>2. first = IF n = 0 THEN None ELSE s[1]
      BY DEF Chain
    <3>3. CASE n = 0
      BY <3>1, <3>2, <3>3, <2>1
    <3>4. CASE n # 0
      <4>1. k < n /\ k + 1 = 1
        BY <3>4, <2>1, <1>1
      <4> QED BY <3>1, <3>2, <3>4, <4>1
    <3> QED BY <3>3, <3>4
  <2>2. ASSUME k # 0, k - 1 < n PROVE Step(W, k) = nth(k)
    <3>1. k - 1 \in 0..size /\ (k - 1) + 1 = k /\ k \in 1..n
      BY <2>2, <1>1
    <3>2. W[k - 1] = s[k] /\ s[k] # None
      BY <3>1, <1>3, <1>2, <2>2
    <3>3. Step(W, k) = link[s[k]]
      BY <3>2, <2>2
    <3>4. link[s[k]] = IF k < n THEN s[k + 1] ELSE None
      BY <3>1 DEF Chain
    <3> QED BY <3>3, <3>4
  <2>3. ASSUME k # 0, ~(k - 1 < n) PROVE Step(W, k) = nth(k)
    <3>1. k - 1 \in 0..size /\ ~(k < n)
      BY <2>3, <1>1
    <3>2. W[k - 1] = None
      BY <3>1, <1>3, <2>3
    <3> QED BY <3>1, <3>2, <2>3
  <2> QED BY <2>1, <2>2, <2>3
<1>5. Eq(W)
  <2>1. W = [k \in 0..size |-> nth(k)]
    BY DEF W
  <2> HIDE DEF nth, Step
  <2>2. [k \in 0..size |-> nth(k)] = [k \in 0..size |-> Step(W, k)]
    BY <1>4, Zenon
  <2> QED BY <2>1, <2>2
<1> DEFINE at == CHOOSE h : Eq(h)
<1>6. Eq(at)
  <2> HIDE DEF Eq
  <2> QED BY <1>5, Zenon
<1> DEFINE met == {k \in 0..size : at[k] # None}
<1>7. Follow(first, link) = [k \in 1..Cardinality(met) |-> at[k - 1]]
  BY DEF Follow
<1> HIDE DEF at
<1>8. \A k \in 0..size : at[k] = Step(at, k)
  <2> HIDE DEF Step
  <2>1. at = [k \in 0..size |-> Step(at, k)]
    BY <1>6
  <2> QED BY <2>1, Zenon
<1>9. ASSUME NEW k \in 0..size PROVE at[k] = nth(k)
  <2> DEFINE S == {j \in 0..size : at[j] = W[j]}
  <2>1. SUFFICES ASSUME k \notin S PROVE FALSE
    BY <1>3
  <2>2. 0 \in S
    <3>1. 0 \in 0..size
      BY <1>1
    <3>2. at[0] = first /\ Step(W, 0) = first
      BY <3>1, <1>8
    <3> QED BY <3>1, <3>2, <1>3, <1>4
  <2>3. PICK m \in 0 .. k - 1 : m \in S /\ m + 1 \notin S
    <3> HIDE DEF S
    <3> QED BY <2>1, <2>2, <1>1, LeavesSomewhere
  <2>4. m + 1 \in 0..size /\ m + 1 # 0 /\ (m + 1) - 1 = m
    BY <2>3, <1>1
  <2>5. Step(at, m + 1) = Step(W, m + 1)
    BY <2>3, <2>4
  <2>6. at[m + 1] = W[m + 1]
    <3> HIDE DEF Step, nth
    <3> QED BY <2>4, <2>5, <1>8, <1>4, <1>3
  <2> QED BY <2>3, <2>4, <2>6
<1>10. met = 0 .. n - 1
  BY <1>9, <1>1, <1>2
<1>11. Cardinality(met) = n
  <2> DEFINE last == n - 1
  <2>1. 0 \in Int /\ last \in Int /\ (IF 0 > last THEN 0 ELSE last - 0 + 1) = n
    BY <1>1
  <2> HIDE DEF last, met
  <2>2. Cardinality(0 .. last) = n
    <3>1. Cardinality(0 .. last) = IF 0 > last THEN 0 ELSE last - 0 + 1
      BY <2>1, FS_Interval, Zenon
    <3> HIDE DEF n
    <3> QED BY <2>1, <3>1
  <2>3. met = 0 .. last
    BY <1>10 DEF last
  <2> QED BY <2>2, <2>3, Zenon
<1>12. [k \in 1..n |-> at[k - 1]] = [k \in 1..n |-> s[k]]
  <2>1. ASSUME NEW k \in 1..n PROVE at[k - 1] = s[k]
    <3>1. k - 1 \in 0..size /\ k - 1 < n /\ (k - 1) + 1 = k
      BY <1>1
    <3> QED BY <3>1, <1>9
  <2> QED BY <2>1, Zenon
<1> HIDE DEF met
<1> QED BY <1>7, <1>11, <1>12, <1>2

(* So the links of the invariant walk through the list both ways *)
LEMMA LinkedWalks == Linked => WalkIsList
<1> SUFFICES ASSUME Linked PROVE WalkIsList
  OBVIOUS
<1> DEFINE n == Count
           back == Reverse(listed)
<1>1. listed \in Seq(Entries) /\ Distinct(listed) /\ n \in Nat
  BY LenProperties DEF Linked, Apart, Count
<1>2. Chain(head, next, listed)
  BY DEF Linked, Ended, Forward, Chain, Count
<1>3. Walk = listed
  BY <1>1, <1>2, FollowsChain DEF Walk
<1>4. back = [i \in 1..n |-> listed[(n - i) + 1]]
  BY DEF Reverse, Count
<1>5. \A i \in 1..n : (n - i) + 1 \in 1..n /\ listed[(n - i) + 1] \in Entries
  BY <1>1, LenProperties DEF Count
<1>6. back \in Seq(Entries) /\ Len(back) = n
  <2> HIDE DEF back
  <2>1. back \in [1..n -> Entries]
    BY <1>4, <1>5
  <2> QED BY <2>1, <1>1, IsASeq, LenProperties
<1>7. \A i \in 1..n : back[i] = listed[(n - i) + 1]
  BY <1>4
<1> HIDE DEF back
<1>8. Distinct(back)
  <2> SUFFICES ASSUME NEW i \in 1..n, NEW j \in 1..n, back[i] = back[j] PROVE i = j
    BY <1>6 DEF Distinct
  <2>1. listed[(n - i) + 1] = listed[(n - j) + 1]
    BY <1>7
  <2>2. (n - i) + 1 = (n - j) + 1
    BY <2>1, <1>1, <1>5 DEF Distinct, Count
  <2> QED BY <2>2, <1>1
<1>9. Chain(tail, prev, back)
  <2>1. tail = IF Len(back) = 0 THEN None ELSE back[1]
    <3>1. CASE n = 0
      BY <3>1, <1>6 DEF Linked, Ended
    <3>2. CASE n # 0
      <4>1. 1 \in 1..n /\ (n - 1) + 1 = n
        BY <3>2, <1>1
      <4>2. tail = listed[n]
        BY <3>2 DEF Linked, Ended
      <4> QED BY <4>1, <4>2, <3>2, <1>6, <1>7
    <3> QED BY <3>1, <3>2
  <2>2. ASSUME NEW i \in 1..n
        PROVE  prev[back[i]] = IF i < Len(back) THEN back[i + 1] ELSE None
    <3> DEFINE j == (n - i) + 1
    <3>1. j \in 1..n /\ back[i] = listed[j]
      BY <1>5, <1>7
    <3>2. prev[listed[j]] = IF j > 1 THEN listed[j - 1] ELSE None
      BY <3>1 DEF Linked, Backward
    <3>3. CASE i < n
      <4>1. j > 1 /\ i + 1 \in 1..n /\ (n - (i + 1)) + 1 = j - 1
        BY <3>3, <1>1
      <4>2. back[i + 1] = listed[j - 1]
        BY <4>1, <1>7
      <4> QED BY <3>1, <3>2, <3>3, <4>1, <4>2, <1>6
    <3>4. CASE ~(i < n)
      <4>1. ~(j > 1)
        BY <3>4, <1>1
      <4> QED BY <3>1, <3>2, <3>4, <4>1, <1>6
    <3> QED BY <3>3, <3>4
  <2> QED BY <2>1, <2>2, <1>6 DEF Chain
<1>10. Follow(tail, prev) = back
  BY <1>6, <1>8, <1>9, FollowsChain
<1> QED BY <1>3, <1>10 DEF WalkIsList, back

-----------------------------------------------------------------------------
(* The sequence without its i-th element *)
LEMMA RemovedAt ==
    ASSUME NEW S, NEW s \in Seq(S), NEW i \in 1..Len(s)
    PROVE  LET t == RemoveAt(s, i)
           IN  /\ t \in Seq(S) /\ Len(t) = Len(s) - 1
               /\ \A j \in 1..Len(s) - 1 : t[j] = IF j < i THEN s[j] ELSE s[j + 1]
<1> DEFINE n == Len(s)
           u == SubSeq(s, 1, i - 1)
           v == SubSeq(s, i + 1, n)
           t == RemoveAt(s, i)
<1>1. n \in Nat /\ i \in Int /\ 1 <= i /\ i <= n
  BY LenProperties
<1>2. u \in Seq(S) /\ Len(u) = i - 1 /\ \A j \in 1..i - 1 : u[j] = s[j]
  BY <1>1, LenProperties, SubSeqProperties
<1>3. v \in Seq(S) /\ Len(v) = n - i /\ \A j \in 1..n - i : v[j] = s[i + j]
  BY <1>1, LenProperties, SubSeqProperties
<1>4. t = u \o v
  BY DEF RemoveAt
<1> HIDE DEF t, u, v
<1>5. t \in Seq(S) /\ Len(t) = n - 1
  <2>1. t \in Seq(S) /\ Len(t) = Len(u) + Len(v)
    BY <1>2, <1>3, <1>4, ConcatProperties
  <2> QED BY <2>1, <1>1, <1>2, <1>3
<1>6. ASSUME NEW j \in 1..n - 1 PROVE t[j] = IF j < i THEN s[j] ELSE s[j + 1]
  <2>1. CASE j < i
    <3>1. j \in 1..i - 1
      BY <2>1, <1>1
    <3> QED BY <3>1, <2>1, <1>1, <1>2, <1>3, <1>4, ConcatProperties
  <2>2. CASE ~(j < i)
    <3>1. j - Len(u) \in 1..n - i /\ i + (j - Len(u)) = j + 1
      BY <2>2, <1>1, <1>2
    <3>2. t[j] = v[j - Len(u)]
      BY <2>2, <1>1, <1>2, <1>3, <1>4, ConcatProperties
    <3> QED BY <3>1, <3>2, <2>2, <1>3
  <2> QED BY <2>1, <2>2
<1> QED BY <1>5, <1>6 DEF t

(* vreader_add_reader puts its entry after the last one *)
LEMMA AddKeepsLinked == Linked /\ vreader_add_reader => Linked'
<1> SUFFICES ASSUME Linked, vreader_add_reader PROVE Linked'
  OBVIOUS
<1> DEFINE n == Count
<1>1. PICK e \in Fresh : /\ vreader_queue(e) /\ listed' = Append(listed, e)
                         /\ UNCHANGED <<removed, deleted>>
  BY DEF vreader_add_reader
<1>2. n \in Nat /\ \A i \in 1..n : listed[i] \in Entries /\ listed[i] # None
  BY LenProperties, EntryAssumption DEF Linked, Apart, Count
<1>3. e \in Entries /\ e # None /\ e \notin removed \cup deleted
  BY EntryAssumption DEF Fresh
<1>4. \A i \in 1..n : listed[i] # e
  <2>1. \A i \in 1..n : listed[i] \in ToSet(listed)
    BY <1>2 DEF ToSet, Count, Linked, Apart
  <2> QED BY <2>1 DEF Fresh
<1>5. /\ listed' \in Seq(Entries) /\ Count' = n + 1 /\ listed'[n + 1] = e
      /\ \A i \in 1..n : listed'[i] = listed[i]
  BY <1>1, <1>3, AppendProperties DEF Linked, Apart, Count
<1>6. Apart'
  <2>1. Distinct(listed)'
    <3> SUFFICES ASSUME NEW i \in 1..n + 1, NEW j \in 1..n + 1, listed'[i] = listed'[j]
                 PROVE  i = j
      BY <1>5 DEF Distinct, Count
    <3>1. CASE i \in 1..n /\ j \in 1..n
      BY <3>1, <1>5 DEF Linked, Apart, Distinct, Count
    <3>2. CASE i = n + 1 /\ j \in 1..n
      BY <3>2, <1>4, <1>5
    <3>3. CASE i \in 1..n /\ j = n + 1
      BY <3>3, <1>4, <1>5
    <3> QED BY <1>2, <3>1, <3>2, <3>3
  <2>2. ASSUME NEW i \in 1..n + 1 PROVE listed'[i] \notin removed \cup deleted
    <3>1. CASE i \in 1..n
      BY <3>1, <1>5 DEF Linked, Apart
    <3>2. CASE i = n + 1
      BY <3>2, <1>3, <1>5
    <3> QED BY <1>2, <3>1, <3>2
  <2> QED BY <1>1, <1>5, <2>1, <2>2 DEF Linked, Apart
<1>7. head = None <=> n = 0
  BY <1>2 DEF Linked, Ended
<1>8. Ended'
  <2>1. tail' = e /\ head' = IF n = 0 THEN e ELSE head
    BY <1>1, <1>7 DEF vreader_queue
  <2>2. n # 0 => head = listed[1] /\ listed'[1] = listed[1]
    BY <1>2, <1>5 DEF Linked, Ended
  <2> QED BY <2>1, <2>2, <1>2, <1>5 DEF Ended
<1>9. Forward'
  <2>1. next \in [Entries -> Entries \cup {None}]
    BY DEF Linked, Forward
  <2>2. CASE n = 0
    <3>1. next' = [next EXCEPT ![e] = None]
      BY <1>1, <1>7, <2>2 DEF vreader_queue
    <3> QED BY <3>1, <2>1, <2>2, <1>3, <1>5 DEF Forward
  <2>3. CASE n # 0
    <3>1. next' = [next EXCEPT ![e] = None, ![listed[n]] = e]
      BY <1>1, <1>7, <2>3 DEF vreader_queue, Linked, Ended
    <3>2. n \in 1..n /\ listed[n] \in Entries /\ listed[n] # e
      BY <1>2, <1>4, <2>3
    <3>3. /\ next' \in [Entries -> Entries \cup {None}]
          /\ next'[e] = None /\ next'[listed[n]] = e
          /\ \A x \in Entries : x # e /\ x # listed[n] => next'[x] = next[x]
      BY <3>1, <3>2, <2>1, <1>3
    <3>4. ASSUME NEW i \in 1..n + 1
          PROVE  next'[listed'[i]] = IF i < n + 1 THEN listed'[i + 1] ELSE None
      <4>1. CASE i = n + 1
        BY <4>1, <3>3, <1>5
      <4>2. CASE i = n
        BY <4>2, <3>2, <3>3, <1>5, <1>2
      <4>3. CASE i \in 1..n - 1
        <5>1. i \in 1..n /\ i + 1 \in 1..n /\ i < n
          BY <4>3, <1>2
        <5>2. listed[i] # listed[n]
          BY <4>3, <5>1, <3>2 DEF Linked, Apart, Distinct, Count
        <5>3. next'[listed[i]] = next[listed[i]]
          BY <5>1, <5>2, <3>3, <1>2, <1>4
        <5>4. next[listed[i]] = listed[i + 1]
          BY <5>1 DEF Linked, Forward
        <5>5. listed'[i] = listed[i] /\ listed'[i + 1] = listed[i + 1] /\ i < n + 1
          BY <5>1, <1>2, <1>5
        <5> QED BY <5>3, <5>4, <5>5
      <4> QED BY <1>2, <4>1, <4>2, <4>3
    <3> QED BY <3>3, <3>4, <1>5 DEF Forward
  <2> QED BY <2>2, <2>3
<1>10. Backward'
  <2>1. prev' = [prev EXCEPT ![e] = tail] /\ prev \in [Entries -> Entries \cup {None}]
    BY <1>1 DEF vreader_queue, Linked, Backward
  <2>2. tail \in Entries \cup {None} /\ tail = IF n = 0 THEN None ELSE listed[n]
    BY <1>2 DEF Linked, Ended
  <2>3. /\ prev' \in [Entries -> Entries \cup {None}] /\ prev'[e] = tail
        /\ \A x \in Entries : x # e => prev'[x] = prev[x]
    BY <2>1, <2>2, <1>3
  <2>4. ASSUME NEW i \in 1..n + 1
        PROVE  prev'[listed'[i]] = IF i > 1 THEN listed'[i - 1] ELSE None
    <3>1. CASE i = n + 1
      <4>1. i > 1 => i - 1 = n /\ n \in 1..n /\ n # 0
        BY <3>1, <1>2
      <4>2. ~(i > 1) => n = 0
        BY <3>1, <1>2
      <4> QED BY <4>1, <4>2, <3>1, <2>2, <2>3, <1>5
    <3>2. CASE i \in 1..n
      <4>1. prev'[listed'[i]] = prev[listed[i]]
        BY <3>2, <2>3, <1>2, <1>4, <1>5
      <4>2. prev[listed[i]] = IF i > 1 THEN listed[i - 1] ELSE None
        BY <3>2 DEF Linked, Backward
      <4>3. i > 1 => i - 1 \in 1..n
        BY <3>2, <1>2
      <4> QED BY <4>1, <4>2, <4>3, <1>5
    <3> QED BY <1>2, <3>1, <3>2
  <2> QED BY <2>3, <2>4, <1>5 DEF Backward
<1> QED BY <1>6, <1>8, <1>9, <1>10 DEF Linked

(* vreader_remove_reader of the only reader empties the list; of one in    *)
(* the middle it joins the neighbours.  Only of the first or the last of   *)
(* several, whose neighbour keeps its link to the removed entry, would     *)
(* this fail.                                                              *)
LEMMA RemoveKeepsLinked ==
    ASSUME Ends = FALSE, Linked, vreader_remove_reader
    PROVE  Linked'
<1> DEFINE n == Count
<1>1. PICK i \in 1..n :
        /\ ~AtAnEnd(listed[i]) /\ vreader_dequeue(listed[i])
        /\ removed' = removed \cup {listed[i]} /\ listed' = RemoveAt(listed, i)
        /\ UNCHANGED deleted
  BY DEF vreader_remove_reader, Count
<1> DEFINE e == listed[i]
           from(j) == IF j < i THEN j ELSE j + 1
<1>2. n \in Nat /\ \A j \in 1..n : listed[j] \in Entries /\ listed[j] # None
  BY LenProperties, EntryAssumption DEF Linked, Apart, Count
<1>3. /\ listed' \in Seq(Entries) /\ Count' = n - 1
      /\ \A j \in 1..n - 1 : listed'[j] = listed[from(j)]
  <2>1. listed \in Seq(Entries) /\ i \in 1..Len(listed)
    BY DEF Linked, Apart, Count
  <2>2. /\ RemoveAt(listed, i) \in Seq(Entries) /\ Len(RemoveAt(listed, i)) = n - 1
        /\ \A j \in 1..n - 1 :
              RemoveAt(listed, i)[j] = IF j < i THEN listed[j] ELSE listed[j + 1]
    BY <2>1, RemovedAt DEF Count
  <2> QED BY <1>1, <2>2 DEF Count
<1>4. \A j \in 1..n - 1 : from(j) \in 1..n /\ from(j) # i
  BY <1>2
<1>5. \A j, k \in 1..n : listed[j] = listed[k] => j = k
  BY DEF Linked, Apart, Distinct, Count
<1>6. Apart'
  <2>1. Distinct(listed)'
    <3> SUFFICES ASSUME NEW j \in 1..n - 1, NEW k \in 1..n - 1, listed'[j] = listed'[k]
                 PROVE  j = k
      BY <1>3 DEF Distinct, Count
    <3>1. from(j) = from(k)
      BY <1>3, <1>4, <1>5
    <3> QED BY <3>1, <1>2
  <2>2. ASSUME NEW j \in 1..n - 1 PROVE listed'[j] \notin (removed \cup deleted)'
    <3>1. from(j) \in 1..n /\ listed[from(j)] # e
      BY <1>4, <1>5
    <3>2. listed[from(j)] \notin removed \cup deleted
      BY <3>1 DEF Linked, Apart
    <3> QED BY <1>1, <1>3, <3>1, <3>2
  <2> QED BY <1>1, <1>2, <1>3, <2>1, <2>2 DEF Linked, Apart
<1>7. /\ next[e] = (IF i < n THEN listed[i + 1] ELSE None)
      /\ prev[e] = (IF i > 1 THEN listed[i - 1] ELSE None)
  BY DEF Linked, Forward, Backward
<1>8. /\ next \in [Entries -> Entries \cup {None}]
      /\ prev \in [Entries -> Entries \cup {None}]
  BY DEF Linked, Forward, Backward
<1>9. CASE n = 1
  <2>1. i = 1 /\ next[e] = None /\ prev[e] = None
    BY <1>7, <1>9
  <2>2. NewTail(e) = None /\ ~InTheMiddle(e)
    BY <2>1 DEF NewTail, InTheMiddle
  <2>3. /\ head' = None /\ tail' = None
        /\ next' = [next EXCEPT ![e] = None] /\ prev' = [prev EXCEPT ![e] = None]
    BY <1>1, <2>2 DEF vreader_dequeue
  <2>4. Count' = 0 /\ 1..Count' = {}
    BY <1>3, <1>9
  <2>5. Ended' /\ Forward' /\ Backward'
    BY <2>3, <2>4, <1>8 DEF Ended, Forward, Backward
  <2> QED BY <1>6, <2>5 DEF Linked
<1>10. CASE n > 1
  <2>1. i # 1 /\ i # n
    BY <1>1, <1>10 DEF AtAnEnd, Count
  <2>2. i - 1 \in 1..n /\ i + 1 \in 1..n /\ i < n /\ i > 1 /\ 1 \in 1..n /\ n \in 1..n
    BY <2>1, <1>2
  <2> DEFINE before == listed[i - 1]
             after == listed[i + 1]
  <2>3. next[e] = after /\ prev[e] = before /\ after # None /\ before # None
    BY <1>2, <1>7, <2>2
  <2>4. InTheMiddle(e) /\ NewTail(e) = tail /\ NewHead(e) = head
    BY <2>3 DEF InTheMiddle, NewTail, NewHead
  <2>5. head = listed[1] /\ tail = listed[n] /\ head # None /\ tail # None
    BY <1>2, <1>10, <2>2 DEF Linked, Ended
  <2>6. /\ head' = head /\ tail' = tail
        /\ next' = [next EXCEPT ![before] = after, ![e] = None]
        /\ prev' = [prev EXCEPT ![after] = before, ![e] = None]
    BY <1>1, <2>3, <2>4, <2>5 DEF vreader_dequeue
  <2>7. /\ before \in Entries /\ after \in Entries /\ e \in Entries
        /\ before # e /\ after # e
    BY <1>2, <1>5, <2>2
  <2> HIDE DEF before, after, e
  <2>8. /\ next' \in [Entries -> Entries \cup {None}] /\ next'[before] = after
        /\ \A x \in Entries : x # e /\ x # before => next'[x] = next[x]
    BY <2>6, <2>7, <1>8
  <2>9. /\ prev' \in [Entries -> Entries \cup {None}] /\ prev'[after] = before
        /\ \A x \in Entries : x # e /\ x # after => prev'[x] = prev[x]
    BY <2>6, <2>7, <1>8
  <2>10. \A j \in 1..n : /\ listed[j] = e => j = i
                         /\ listed[j] = before => j = i - 1
                         /\ listed[j] = after => j = i + 1
    BY <1>5, <2>2 DEF e, before, after
  <2>11. Ended'
    <3>1. n - 1 # 0 /\ 1 \in 1..n - 1 /\ n - 1 \in 1..n - 1 /\ from(1) = 1 /\ from(n - 1) = n
      BY <2>2, <1>2
    <3>2. listed'[1] = listed[1] /\ listed'[n - 1] = listed[n]
      BY <3>1, <1>3
    <3> QED BY <3>1, <3>2, <2>5, <2>6, <1>3 DEF Ended
  <2>12. ASSUME NEW j \in 1..n - 1
         PROVE  next'[listed'[j]] = IF j < n - 1 THEN listed'[j + 1] ELSE None
    <3>1. CASE j = i - 1
      <4>1. from(j) = j /\ from(j + 1) = i + 1 /\ j < n - 1 /\ j + 1 \in 1..n - 1
        BY <3>1, <2>2
      <4>2. listed'[j] = before /\ listed'[j + 1] = after
        BY <4>1, <3>1, <1>3 DEF before, after
      <4> QED BY <4>1, <4>2, <2>8
    <3>2. CASE j # i - 1
      <4>1. from(j) \in 1..n /\ from(j) # i /\ from(j) # i - 1
        BY <3>2, <1>4, <2>2
      <4>2. next'[listed'[j]] = next[listed[from(j)]]
        BY <4>1, <1>2, <1>3, <2>8, <2>10
      <4>3. next[listed[from(j)]] =
              IF from(j) < n THEN listed[from(j) + 1] ELSE None
        BY <4>1 DEF Linked, Forward
      <4>4. /\ from(j) < n <=> j < n - 1
            /\ j < n - 1 => j + 1 \in 1..n - 1 /\ from(j + 1) = from(j) + 1
        BY <3>2, <2>2
      <4>5. j < n - 1 => listed'[j + 1] = listed[from(j) + 1]
        BY <4>4, <1>3
      <4> QED BY <4>2, <4>3, <4>4, <4>5
    <3> QED BY <3>1, <3>2
  <2>13. ASSUME NEW j \in 1..n - 1
         PROVE  prev'[listed'[j]] = IF j > 1 THEN listed'[j - 1] ELSE None
    <3>1. CASE j = i
      <4>1. from(j) = i + 1 /\ from(j - 1) = i - 1 /\ j > 1 /\ j - 1 \in 1..n - 1
        BY <3>1, <2>2
      <4>2. listed'[j] = after /\ listed'[j - 1] = before
        BY <4>1, <3>1, <1>3 DEF before, after
      <4> QED BY <4>1, <4>2, <2>9
    <3>2. CASE j # i
      <4>1. from(j) \in 1..n /\ from(j) # i /\ from(j) # i + 1
        BY <3>2, <1>4, <2>2
      <4>2. prev'[listed'[j]] = prev[listed[from(j)]]
        BY <4>1, <1>2, <1>3, <2>9, <2>10
      <4>3. prev[listed[from(j)]] =
              IF from(j) > 1 THEN listed[from(j) - 1] ELSE None
        BY <4>1 DEF Linked, Backward
      <4>4. /\ from(j) > 1 <=> j > 1
            /\ j > 1 => j - 1 \in 1..n - 1 /\ from(j - 1) = from(j) - 1
        BY <3>2, <2>2
      <4>5. j > 1 => listed'[j - 1] = listed[from(j) - 1]
        BY <4>4, <1>3
      <4> QED BY <4>2, <4>3, <4>4, <4>5
    <3> QED BY <3>1, <3>2
  <2>14. Forward' /\ Backward'
    BY <2>8, <2>9, <2>12, <2>13, <1>3 DEF Forward, Backward
  <2> QED BY <1>6, <2>11, <2>14 DEF Linked
<1> QED BY <1>2, <1>9, <1>10

(* vreader_list_entry_delete takes an entry that is off the list *)
LEMMA DeleteKeepsLinked == Linked /\ vreader_list_entry_delete => Linked'
  BY DEF vreader_list_entry_delete, Linked, Apart, Ended, Forward, Backward,
         Count, Distinct

(* The list that vreader_get_reader_list copies and that the lookups       *)
(* search is the readers added and not removed, each once and in their     *)
(* order, and the links back and the tail describe the same list, for any  *)
(* number of entries and any history in which vreader_remove_reader takes  *)
(* the only reader or one in the middle.  The hypothesis is what           *)
(* vreader_dequeue needs: it does not mend the neighbour of an end.        *)
THEOREM WalkIsAlwaysList ==
    ASSUME Ends = FALSE
    PROVE  Spec => []WalkIsList
<1>1. Init => Linked
  BY EntryAssumption DEF Init, Linked, Apart, Ended, Forward, Backward, Count, Distinct
<1>2. Linked /\ [Next]_vars => Linked'
  <2> SUFFICES ASSUME Linked, [Next]_vars PROVE Linked'
    OBVIOUS
  <2>1. CASE vreader_add_reader
    BY <2>1, AddKeepsLinked
  <2>2. CASE vreader_remove_reader
    BY <2>2, RemoveKeepsLinked
  <2>3. CASE vreader_list_entry_delete
    BY <2>3, DeleteKeepsLinked
  <2>4. CASE UNCHANGED vars
    BY <2>4 DEF vars, Linked, Apart, Ended, Forward, Backward, Count, Distinct
  <2> QED BY <2>1, <2>2, <2>3, <2>4 DEF Next
<1> QED BY <1>1, <1>2, LinkedWalks, PTL DEF Spec
=============================================================================
