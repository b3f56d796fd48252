--------------------------- MODULE Processing_proofs ---------------------------
(***************************************************************************)
(* How the documents are shared among the tasks of a batch job, whatever   *)
(* their number and the parts, and what becomes of one of them, whatever   *)
(* its pages, the size of its parts, its contents, the answers of the      *)
(* model and the labels: the slices of a list, the file the parser puts    *)
(* together again of its parts, the chunks that are cut out of it, and the *)
(* section types by which the tagger labels them.                          *)
(***************************************************************************)
EXTENDS PartitionRuns, ParseParts, DocumentChunks, ContentsTags, FiniteSetTheorems,
        SequenceTheorems, WellFoundedInduction, TLAPS

Under == {p \in Nat \X Nat : p[1] < p[2]}

\* A non-empty set of natural numbers has a least element.
LEMMA LeastOf ==
    ASSUME NEW T \in SUBSET Nat, T # {}
    PROVE  \E m \in T : \A k \in T : m <= k
<1>1. IsWellFoundedOn(Under, Nat)
  BY NatLessThanWellFounded DEF Under, OpToRel
<1>2. PICK m \in T : \A k \in T : <<k, m>> \notin Under
  BY <1>1, WFMin
<1>3. m \in Nat /\ \A k \in T : k \in Nat
  OBVIOUS
<1>4. \A k \in T : ~(k < m)
  BY <1>2, <1>3 DEF Under
<1> QED
  BY <1>3, <1>4

-----------------------------------------------------------------------------
(* Slices of a list                                                        *)

Min2(a, b) == IF a <= b THEN a ELSE b

LEMMA DivMod ==
    ASSUME NEW n \in Nat, NEW t \in Nat \ {0}
    PROVE  /\ n \div t \in Nat
           /\ n % t \in 0 .. t - 1
           /\ n = t * (n \div t) + (n % t)
OBVIOUS

LEMMA ShareNat ==
    ASSUME NEW n \in Nat, NEW t \in Nat \ {0}, NEW i \in Nat
    PROVE  Share(i, n, t) \in Nat
BY DivMod DEF Share

\* The loop's running sum is a function on the naturals, and satisfies its
\* equation: here is one that does.
LEMMA StartEquation ==
    ASSUME NEW n \in Nat, NEW t \in Nat \ {0}
    PROVE  LET s == PartitionStart(n, t) IN
           s = [k \in Nat |-> IF k <= 1 THEN 0 ELSE s[k - 1] + Share(k - 1, n, t)]
<1> DEFINE q == n \div t
           r == n % t
           g == [k \in Nat |-> IF k <= 1 THEN 0 ELSE (k - 1) * q + Min2(k - 1, r)]
<1>1. ASSUME NEW k \in Nat, k > 1
      PROVE  (k - 1) * q + Min2(k - 1, r) = g[k - 1] + Share(k - 1, n, t)
  <2>1. q \in Nat /\ r \in Nat
    BY DivMod
  <2>2. Share(k - 1, n, t) = q + (IF k - 1 <= r THEN 1 ELSE 0)
    BY DEF Share
  <2> HIDE DEF q, r
  <2>3. g[k - 1] = IF k = 2 THEN 0 ELSE (k - 2) * q + Min2(k - 2, r)
    <3>1. k - 1 \in Nat /\ k - 1 - 1 = k - 2 /\ (k - 1 <= 1 <=> k = 2)
      BY <1>1
    <3>2. g[k - 1] = IF k - 1 <= 1 THEN 0 ELSE (k - 1 - 1) * q + Min2(k - 1 - 1, r)
      BY <3>1
    <3> HIDE DEF g
    <3> QED
      BY <3>1, <3>2
  <2> HIDE DEF g
  <2>4. (k - 1) * q = (k - 2) * q + q
    BY <2>1, <1>1
  <2>5. CASE k = 2
    BY <2>1, <2>2, <2>3, <2>4, <2>5 DEF Min2
  <2>6. CASE k > 2
    BY <2>1, <2>2, <2>3, <2>4, <2>6 DEF Min2
  <2> QED
    BY <1>1, <2>5, <2>6
<1>2. \A k \in Nat : g[k] = IF k <= 1 THEN 0 ELSE g[k - 1] + Share(k - 1, n, t)
  <2>1. \A k \in Nat : k > 1 =>
           (k - 1) * q + Min2(k - 1, r) = g[k - 1] + Share(k - 1, n, t)
    BY <1>1
  <2>2. \A k \in Nat : g[k] = IF k <= 1 THEN 0 ELSE (k - 1) * q + Min2(k - 1, r)
    OBVIOUS
  <2>3. \A k \in Nat : k > 1 <=> ~(k <= 1)
    OBVIOUS
  <2> HIDE DEF g, q, r
  <2> QED
    BY <2>1, <2>2, <2>3
<1>3. g = [k \in Nat |-> g[k]]
  OBVIOUS
<1> HIDE DEF g
<1>4. g = [k \in Nat |-> IF k <= 1 THEN 0 ELSE g[k - 1] + Share(k - 1, n, t)]
  BY <1>2, <1>3
<1> QED
  BY <1>4 DEF PartitionStart

\* ... and the least k at which another function could differ does not exist.
LEMMA StartClosed ==
    ASSUME NEW n \in Nat, NEW t \in Nat \ {0}, NEW k \in Nat \ {0}
    PROVE  PartitionStart(n, t)[k] = (k - 1) * (n \div t) + Min2(k - 1, n % t)
<1> DEFINE s == PartitionStart(n, t)
           q == n \div t
           r == n % t
           T == {j \in Nat \ {0} : s[j] # (j - 1) * q + Min2(j - 1, r)}
<1>1. s = [j \in Nat |-> IF j <= 1 THEN 0 ELSE s[j - 1] + Share(j - 1, n, t)]
  BY StartEquation
<1>2. q \in Nat /\ r \in Nat
  BY DivMod
<1>s. \A j \in Nat : Share(j, n, t) = q + (IF j <= r THEN 1 ELSE 0)
  BY DEF Share
<1> HIDE DEF s, q, r
<1>3. ASSUME NEW m \in T, \A j \in T : m <= j PROVE FALSE
  <2>1. CASE m = 1
    BY <1>1, <1>2, <1>3, <2>1 DEF Min2
  <2>2. CASE m # 1
    <3>1. m \in Nat /\ m > 1 /\ m - 1 \in Nat \ {0} /\ m - 1 \notin T
      BY <1>3, <2>2
    <3>2. s[m - 1] = (m - 2) * q + Min2(m - 2, r)
      BY <3>1
    <3>3. s[m] = s[m - 1] + Share(m - 1, n, t)
      BY <1>1, <3>1
    <3>4. (m - 1) * q = (m - 2) * q + q
      BY <1>2, <3>1
    <3>5. s[m] = (m - 1) * q + Min2(m - 1, r)
      BY <1>2, <1>s, <3>1, <3>2, <3>3, <3>4 DEF Min2
    <3> QED
      BY <1>3, <3>5
  <2> QED
    BY <2>1, <2>2
<1>4. T = {}
  <2> SUFFICES ASSUME T # {} PROVE FALSE
    OBVIOUS
  <2> QED
    BY <1>3, LeastOf
<1> QED
  BY <1>4 DEF s, q, r

-----------------------------------------------------------------------------
\* The slices have no position in common, and together they have them all:
\* get_partition_slice loses and repeats nothing, whatever total is, n < total
\* included.
THEOREM SlicesPartition ==
    ASSUME NEW n \in Nat, NEW t \in Nat \ {0}
    PROVE  /\ \A j, k \in 1 .. t : j # k => Positions(j, n, t) \intersect Positions(k, n, t) = {}
           /\ UNION {Positions(k, n, t) : k \in 1 .. t} = 1 .. n
<1> DEFINE q == n \div t
           r == n % t
           Upto(k) == k * q + Min2(k, r)
<1>1. q \in Nat /\ r \in Nat /\ r < t /\ n = t * q + r
  BY DivMod
<1>2. ASSUME NEW k \in Nat \ {0}
      PROVE  Positions(k, n, t) = Upto(k - 1) + 1 .. Upto(k)
  <2>1. PartitionStart(n, t)[k] = Upto(k - 1)
    BY StartClosed
  <2>2. Share(k, n, t) = q + (IF k <= r THEN 1 ELSE 0)
    BY DEF Share
  <2>3. Positions(k, n, t) = Upto(k - 1) + 1 .. Upto(k - 1) + Share(k, n, t)
    BY <2>1 DEF Positions
  <2> HIDE DEF q, r
  <2>4. k * q = (k - 1) * q + q
    BY <1>1
  <2>5. Upto(k) = Upto(k - 1) + Share(k, n, t)
    BY <1>1, <2>2, <2>4 DEF Min2
  <2> QED
    BY <2>3, <2>5
<1> HIDE DEF q, r
<1>3. ASSUME NEW j \in Nat, NEW k \in Nat, j <= k
      PROVE  Upto(j) \in Nat /\ Upto(k) \in Nat /\ Upto(j) <= Upto(k)
  <2>1. PICK m \in Nat : k = j + m
    BY <1>3, k - j \in Nat
  <2>2. k * q = j * q + m * q
    BY <1>1, <2>1
  <2>3. j * q \in Nat /\ m * q \in Nat
    BY <1>1, <2>1
  <2> QED
    BY <1>1, <1>3, <2>2, <2>3 DEF Min2
<1>4. Upto(0) = 0 /\ Upto(t) = n
  BY <1>1 DEF Min2
<1>5. ASSUME NEW j \in 1 .. t, NEW k \in 1 .. t, j < k
      PROVE  Positions(j, n, t) \intersect Positions(k, n, t) = {}
  <2>1. Upto(j) <= Upto(k - 1) /\ Upto(j) \in Nat /\ Upto(k - 1) \in Nat
    BY <1>3, <1>5
  <2>2. Upto(j - 1) \in Nat /\ Upto(k) \in Nat
    BY <1>3
  <2> HIDE DEF Upto
  <2> QED
    BY <1>2, <2>1, <2>2
<1>6. ASSUME NEW k \in 1 .. t PROVE Positions(k, n, t) \subseteq 1 .. n
  <2>1. Upto(k - 1) \in Nat /\ Upto(k) \in Nat /\ Upto(k) <= n
    BY <1>3, <1>4
  <2> HIDE DEF Upto
  <2> QED
    BY <1>2, <2>1
<1>7. ASSUME NEW p \in 1 .. n PROVE \E k \in 1 .. t : p \in Positions(k, n, t)
  <2> DEFINE T == {k \in Nat : p <= Upto(k)}
  <2>1. t \in T
    BY <1>4
  <2>2. PICK k \in T : \A j \in T : k <= j
    BY <2>1, LeastOf
  <2>3. k # 0
    BY <1>4, <2>2
  <2>4. k \in 1 .. t /\ k - 1 \in Nat /\ k - 1 \notin T
    BY <2>1, <2>2, <2>3
  <2>5. Upto(k - 1) \in Nat /\ Upto(k) \in Nat
    BY <1>3, <2>4
  <2>6. Upto(k - 1) < p /\ p <= Upto(k)
    BY <2>2, <2>4, <2>5
  <2> HIDE DEF Upto
  <2> QED
    BY <1>2, <2>4, <2>5, <2>6
<1> QED
  BY <1>5, <1>6, <1>7

-----------------------------------------------------------------------------
\* A list a task has collected names no document twice (dedupe_docs_by_id).
NoRepeats(s) == \A i, j \in 1 .. Len(s) : s[i] = s[j] => i = j

ListsOK ==
    /\ advanced \in [Tasks -> SUBSET Docs]
    /\ list \in [Tasks -> Seq(Docs)]
    /\ \A k \in Tasks : NoRepeats(list[k])

LEMMA CollectedList ==
    ASSUME NEW A \in SUBSET Docs, NEW F \in SUBSET Docs, NEW s \in Lists(A, F)
    PROVE  s \in Seq(Docs) /\ NoRepeats(s)
<1>1. Cardinality(A \union F) \in Nat
  BY JobAssumption, FS_Subset, FS_CardinalityType, A \union F \in SUBSET Docs
<1> DEFINE n == Cardinality(A \union F)
<1>2. s \in [1 .. n -> A \union F]
  BY DEF Lists
<1>4. \A i, j \in 1 .. n : i < j => s[i] # s[j]
  BY <1>2 DEF Lists
<1> HIDE DEF n
<1>3. s \in Seq(Docs) /\ Len(s) = n
  <2>1. s \in [1 .. n -> Docs]
    BY <1>2
  <2>2. n \in Nat
    BY <1>1 DEF n
  <2> QED
    BY <2>1, <2>2
<1>5. n \in Nat
  BY <1>1 DEF n
<1> QED
  BY <1>3, <1>4, <1>5 DEF NoRepeats

LEMMA ListsInductive == Spec => []ListsOK
<1>1. Init => ListsOK
  BY DEF Init, ListsOK, NoRepeats
<1>2. ListsOK /\ [Next]_vars => ListsOK'
  <2> SUFFICES ASSUME ListsOK, [Next]_vars PROVE ListsOK'
    OBVIOUS
  <2>1. ASSUME NEW k \in Tasks, CollectAdvanced(k) PROVE ListsOK'
    BY <2>1 DEF ListsOK, CollectAdvanced, Fetched
  <2>2. ASSUME NEW k \in Tasks, CollectFresh(k) PROVE ListsOK'
    <3>1. PICK s \in Lists(advanced[k], Fetched("downloaded")) :
             list' = [list EXCEPT ![k] = s]
      BY <2>2 DEF CollectFresh
    <3>2. advanced[k] \in SUBSET Docs /\ Fetched("downloaded") \in SUBSET Docs
      BY DEF ListsOK, Fetched
    <3>3. s \in Seq(Docs) /\ NoRepeats(s)
      BY <3>1, <3>2, CollectedList
    <3> QED
      BY <2>2, <3>1, <3>3 DEF ListsOK, CollectFresh
  <2>3. CASE UNCHANGED <<advanced, list>>
    BY <2>3 DEF ListsOK
  <2>4. ASSUME NEW k \in Tasks,
               \/ Start(k) \/ Begin(k) \/ Parsed(k) \/ BeginIndex(k) \/ Indexed(k)
               \/ Fail(k) \/ Finish(k) \/ Die(k)
        PROVE  UNCHANGED <<advanced, list>>
    BY <2>4 DEF Start, Begin, Parsed, BeginIndex, Indexed, Fail, Finish, Die
  <2> QED
    BY <2>1, <2>2, <2>3, <2>4 DEF Next, vars
<1> QED
  BY <1>1, <1>2, PTL DEF Spec

LEMMA SliceIsPositions ==
    ASSUME ListsOK, NEW k \in Tasks
    PROVE  Slice(k) = {list[k][p] : p \in Positions(k, Len(list[k]), Total)}
<1> DEFINE n == Len(list[k])
           a == PartitionStart(n, Total)[k]
           b == a + Share(k, n, Total)
<1>1. n \in Nat /\ list[k] \in Seq(Docs) /\ k \in Nat \ {0} /\ Total \in Nat \ {0}
  BY JobAssumption DEF ListsOK, Tasks
<1>2. Share(k, n, Total) \in Nat
  BY <1>1, ShareNat
<1>3. a \in Nat
  <2> DEFINE q == n \div Total
             r == n % Total
  <2>1. q \in Nat /\ r \in Nat
    <3>1. n \div Total \in Nat /\ n % Total \in 0 .. Total - 1
      BY <1>1, DivMod
    <3>2. \A x \in 0 .. Total - 1 : x \in Nat
      BY <1>1
    <3> QED
      BY <3>1, <3>2, Zenon
  <2>2. a = (k - 1) * q + Min2(k - 1, r)
    BY <1>1, StartClosed
  <2> HIDE DEF a, n, q, r
  <2> QED
    BY <1>1, <2>1, <2>2 DEF Min2
<1>4. Positions(k, n, Total) = a + 1 .. b /\ Mine(k) = SubSeq(list[k], a + 1, b)
  BY DEF Positions, Mine, PartitionSlice
<1>5. a + 1 .. b \subseteq 1 .. n
  <2>1. UNION {Positions(j, n, Total) : j \in Tasks} = 1 .. n
    BY <1>1, SlicesPartition DEF Tasks
  <2> QED
    BY <1>4, <2>1
<1>6. b \in Nat /\ (a + 1 <= b => b <= n)
  BY <1>1, <1>2, <1>3, <1>5
<1> DEFINE m == SubSeq(list[k], a + 1, b)
<1>7. Slice(k) = {m[i] : i \in 1 .. Len(m)}
  BY <1>4 DEF Slice
<1> HIDE DEF a, b, n
<1>8. CASE a + 1 <= b
  <2>1. Len(m) = b - a /\ \A i \in 1 .. b - a : m[i] = list[k][a + i]
    BY <1>1, <1>3, <1>6, <1>8 DEF n
  <2> HIDE DEF m
  <2>2. \A p \in a + 1 .. b : p - a \in 1 .. b - a /\ a + (p - a) = p
    BY <1>3, <1>6
  <2>3. \A i \in 1 .. b - a : a + i \in a + 1 .. b
    BY <1>3, <1>6
  <2> QED
    BY <1>4, <1>7, <2>1, <2>2, <2>3 DEF n
<1>9. CASE ~(a + 1 <= b)
  <2>1. Len(m) = 0
    BY <1>1, <1>3, <1>6, <1>9
  <2>2. a + 1 .. b = {} /\ 1 .. 0 = {}
    BY <1>3, <1>6, <1>9
  <2> HIDE DEF m
  <2> QED
    BY <1>4, <1>7, <2>1, <2>2 DEF n
<1> QED
  BY <1>8, <1>9

\* Tasks that collected the same list share no document, and if all of them did
\* every document of it is in a slice: dedupe_docs_by_id and get_partition_slice
\* split a list whatever the documents, the machines and the partitions are.
THEOREM SameListSplitAlways == Spec => []SameListSplit
<1>1. ListsOK => SameListSplit
  <2> SUFFICES ASSUME ListsOK PROVE SameListSplit
    OBVIOUS
  <2>1. Total \in Nat \ {0}
    BY JobAssumption
  <2>2. ASSUME NEW j \in Tasks, NEW k \in Tasks, j # k, list[j] = list[k]
        PROVE  Slice(j) \intersect Slice(k) = {}
    <3> DEFINE s == list[k]
               n == Len(s)
    <3>1. n \in Nat /\ NoRepeats(s)
      BY DEF ListsOK
    <3>2. /\ Positions(j, n, Total) \intersect Positions(k, n, Total) = {}
          /\ Positions(j, n, Total) \subseteq 1 .. n
          /\ Positions(k, n, Total) \subseteq 1 .. n
      <4>1. UNION {Positions(i, n, Total) : i \in Tasks} = 1 .. n
        BY <2>1, <3>1, SlicesPartition DEF Tasks
      <4>2. \A i \in Tasks : Positions(i, n, Total) \subseteq 1 .. n
        BY <4>1
      <4>3. Positions(j, n, Total) \intersect Positions(k, n, Total) = {}
        BY <2>1, <2>2, <3>1, SlicesPartition DEF Tasks
      <4> HIDE DEF n
      <4> QED
        BY <2>2, <4>2, <4>3
    <3>3. /\ Slice(j) = {s[p] : p \in Positions(j, n, Total)}
          /\ Slice(k) = {s[p] : p \in Positions(k, n, Total)}
      BY <2>2, SliceIsPositions
    <3> QED
      BY <3>1, <3>2, <3>3 DEF NoRepeats
  <2>3. ASSUME NEW j \in Tasks, \A k \in Tasks : list[k] = list[j]
        PROVE  UNION {Slice(k) : k \in Tasks} = Listed(j)
    <3> DEFINE s == list[j]
               n == Len(s)
    <3>1. n \in Nat
      BY DEF ListsOK
    <3>2. UNION {Positions(k, n, Total) : k \in Tasks} = 1 .. n
      BY <2>1, <3>1, SlicesPartition DEF Tasks
    <3>3. \A k \in Tasks : Slice(k) = {s[p] : p \in Positions(k, n, Total)}
      BY <2>3, SliceIsPositions
    <3>4. Listed(j) = {s[p] : p \in 1 .. n}
      BY DEF Listed
    <3> HIDE DEF s, n
    <3> QED
      BY <3>2, <3>3, <3>4
  <2> QED
    BY <2>2, <2>3 DEF SameListSplit
<1> QED
  BY <1>1, ListsInductive, PTL
-----------------------------------------------------------------------------
\* A list has everything that was found.
LEMMA ListsAll ==
    ASSUME NEW A \in SUBSET Docs, NEW F \in SUBSET Docs, NEW u \in Lists(A, F)
    PROVE  /\ Len(u) = Cardinality(A \union F)
           /\ u \in Surjection(1 .. Cardinality(A \union F), A \union F)
<1> DEFINE D == A \union F
           n == Cardinality(D)
<1>1. IsFiniteSet(D) /\ n \in Nat
  BY JobAssumption, FS_Subset, FS_CardinalityType, D \in SUBSET Docs
<1>2. u \in [1 .. n -> D]
  BY DEF Lists
<1>3. \A i, j \in 1 .. n : i < j => u[i] # u[j]
  BY <1>2 DEF Lists
<1>4. IsFiniteSet(1 .. n) /\ Cardinality(1 .. n) = n
  BY <1>1, FS_Interval
<1> HIDE DEF D, n
<1>5. \A i, j \in 1 .. n : i = j \/ i < j \/ j < i
  BY <1>1
<1>6. u \in Injection(1 .. n, D)
  BY <1>2, <1>3, <1>5 DEF Injection, IsInjective
<1>7. u \in Surjection(1 .. n, D)
  BY <1>1, <1>4, <1>6, FS_Injection DEF n
<1>8. Len(u) = n
  BY <1>1, <1>2
<1> QED
  BY <1>7, <1>8 DEF n, D

\* With --recent-first, among documents that have a year, the order in which a
\* task lists what it found is total ...
LEMMA BeforeIsTotal ==
    ASSUME NEW A \in SUBSET Docs, NEW d \in Docs, NEW e \in Docs, d # e,
           RecentFirst, Year[d] > 0, Year[e] > 0
    PROVE  Before(A, d, e) <=> ~Before(A, e, d)
<1>1. Id[d] \in Nat /\ Id[e] \in Nat /\ Id[d] # Id[e] /\ Year[d] \in Nat /\ Year[e] \in Nat
  BY JobAssumption
<1> DEFINE old(x) == x \in A
<1>2. CASE Year[d] # Year[e]
  BY <1>1, <1>2 DEF Before
<1>3. CASE Year[d] = Year[e] /\ (d \in A <=> e \in A)
  BY <1>1, <1>3 DEF Before
<1>4. CASE Year[d] = Year[e] /\ ~(d \in A <=> e \in A)
  BY <1>1, <1>4 DEF Before
<1> QED
  BY <1>2, <1>3, <1>4

\* ... so what was found in the same stages is listed in the same way, whatever
\* order the database likes (sort_recent_first): the first place at which two
\* lists differ would hold two documents, each listed before the other.
LEMMA OneList ==
    ASSUME NEW A \in SUBSET Docs, NEW F \in SUBSET Docs, RecentFirst,
           \A d \in A \union F : Year[d] > 0,
           NEW s \in Lists(A, F), NEW t \in Lists(A, F)
    PROVE  s = t
<1>a. s \in Surjection(1 .. Cardinality(A \union F), A \union F)
  BY ListsAll
<1>b. t \in Surjection(1 .. Cardinality(A \union F), A \union F)
  BY ListsAll
<1> DEFINE D == A \union F
           n == Cardinality(D)
           Differ == {p \in 1 .. n : s[p] # t[p]}
<1>1. IsFiniteSet(D) /\ n \in Nat /\ D \subseteq Docs
  BY JobAssumption, FS_Subset, FS_CardinalityType
<1>2. s \in [1 .. n -> D] /\ t \in [1 .. n -> D]
  BY DEF Lists
<1>3. /\ \A i, j \in 1 .. n : i < j => s[i] # s[j] /\ ~Before(A, s[j], s[i])
      /\ \A i, j \in 1 .. n : i < j => t[i] # t[j] /\ ~Before(A, t[j], t[i])
  BY <1>2 DEF Lists
<1>4. \A d \in D : Year[d] > 0
  OBVIOUS
<1> HIDE DEF n, D
<1>5. \A d \in D : (\E p \in 1 .. n : s[p] = d) /\ (\E p \in 1 .. n : t[p] = d)
  BY <1>a, <1>b DEF n, D, Surjection
<1>6. ASSUME NEW p \in Differ, \A q \in Differ : p <= q PROVE FALSE
  <2>1. p \in 1 .. n /\ s[p] # t[p] /\ \A q \in 1 .. n : q < p => s[q] = t[q]
    <3> HIDE DEF Differ
    <3>1. p \in 1 .. n /\ s[p] # t[p]
      BY DEF Differ
    <3>2. ASSUME NEW q \in 1 .. n, q < p PROVE s[q] = t[q]
      BY <1>1, <1>6, <3>1, <3>2 DEF Differ
    <3> QED
      BY <3>1, <3>2
  <2>2. s[p] \in Docs /\ t[p] \in Docs /\ s[p] \in D /\ t[p] \in D
    BY <1>1, <1>2, <2>1
  <2>3. PICK q \in 1 .. n : t[q] = s[p]
    BY <1>5, <2>2
  <2>4. PICK r \in 1 .. n : s[r] = t[p]
    BY <1>5, <2>2
  <2>5. p < q
    <3>1. q # p
      BY <2>1, <2>3
    <3>2. ~(q < p)
      BY <1>3, <2>1, <2>3
    <3> QED
      BY <1>1, <2>1, <3>1, <3>2
  <2>6. p < r
    <3>1. r # p
      BY <2>1, <2>4
    <3>2. ~(r < p)
      BY <1>3, <2>1, <2>4
    <3> QED
      BY <1>1, <2>1, <3>1, <3>2
  <2>7. ~Before(A, t[p], s[p]) /\ ~Before(A, s[p], t[p])
    BY <1>3, <2>1, <2>3, <2>4, <2>5, <2>6
  <2> QED
    BY <1>4, <2>1, <2>2, <2>7, BeforeIsTotal
<1>7. Differ = {}
  <2> SUFFICES ASSUME Differ # {} PROVE FALSE
    OBVIOUS
  <2>1. Differ \in SUBSET Nat
    BY <1>1
  <2> HIDE DEF Differ
  <2> QED
    BY <1>6, <2>1, LeastOf
<1>8. \A p \in 1 .. n : s[p] = t[p]
  BY <1>7
<1>9. s = [p \in 1 .. n |-> s[p]] /\ t = [p \in 1 .. n |-> t[p]]
  BY <1>2
<1> QED
  BY <1>8, <1>9, Zenon

\* What a task lists is what it found, in an order that it may have.
DrawnInv ==
    /\ ListsOK
    /\ pc \in [Tasks -> Places]
    /\ fresh \in [Tasks -> SUBSET Docs]
    /\ \A k \in Tasks : Drawn(k) => list[k] \in Lists(advanced[k], fresh[k])

\* The list of a task stays as it was drawn.
Kept(k) ==
    /\ UNCHANGED <<advanced, fresh, list>>
    /\ \E to \in Places : pc' = [pc EXCEPT ![k] = to] /\ (Drawn(k)' => Drawn(k))

LEMMA DrawnInductive == Spec => []DrawnInv
<1>1. Init => DrawnInv
  BY DEF Init, DrawnInv, ListsOK, NoRepeats, Drawn, Places
<1>2. ListsOK' /\ DrawnInv /\ [Next]_vars => DrawnInv'
  <2> SUFFICES ASSUME ListsOK', DrawnInv, [Next]_vars PROVE DrawnInv'
    OBVIOUS
  <2>1. ASSUME NEW k \in Tasks, CollectAdvanced(k) PROVE DrawnInv'
    <3>1. /\ pc' = [pc EXCEPT ![k] = "half"] /\ "half" \in Places
          /\ advanced' = [advanced EXCEPT ![k] = Fetched("parsed")]
          /\ UNCHANGED <<fresh, list>>
      BY <2>1 DEF CollectAdvanced, Moves, Places
    <3>2. pc' \in [Tasks -> Places] /\ fresh' \in [Tasks -> SUBSET Docs]
      BY <3>1 DEF DrawnInv
    <3>3. ASSUME NEW j \in Tasks, Drawn(j)' PROVE list'[j] \in Lists(advanced'[j], fresh'[j])
      <4>1. j # k
        BY <3>1, <3>3 DEF DrawnInv, Drawn
      <4> QED
        BY <3>1, <3>3, <4>1 DEF DrawnInv, ListsOK, Drawn
    <3> QED
      BY <3>2, <3>3 DEF DrawnInv
  <2>2. ASSUME NEW k \in Tasks, CollectFresh(k) PROVE DrawnInv'
    <3>1. PICK s \in Lists(advanced[k], Fetched("downloaded")) :
             list' = [list EXCEPT ![k] = s]
      BY <2>2 DEF CollectFresh
    <3>2. /\ pc' = [pc EXCEPT ![k] = "running"] /\ "running" \in Places
          /\ fresh' = [fresh EXCEPT ![k] = Fetched("downloaded")]
          /\ UNCHANGED advanced
      BY <2>2 DEF CollectFresh, Moves, Places
    <3>3. Fetched("downloaded") \in SUBSET Docs
      BY DEF Fetched
    <3>4. pc' \in [Tasks -> Places] /\ fresh' \in [Tasks -> SUBSET Docs]
      BY <3>2, <3>3 DEF DrawnInv
    <3>5. ASSUME NEW j \in Tasks, Drawn(j)' PROVE list'[j] \in Lists(advanced'[j], fresh'[j])
      <4>1. CASE j = k
        BY <3>1, <3>2, <4>1 DEF DrawnInv, ListsOK
      <4>2. CASE j # k
        BY <3>1, <3>2, <3>5, <4>2 DEF DrawnInv, ListsOK, Drawn
      <4> QED
        BY <4>1, <4>2
    <3> QED
      BY <3>4, <3>5 DEF DrawnInv
  <2>3. CASE UNCHANGED vars
    BY <2>3 DEF DrawnInv, vars, Drawn
  <2>4. ASSUME NEW k \in Tasks, Kept(k) PROVE DrawnInv'
    BY <2>4 DEF Kept, DrawnInv, Drawn
  <2>5. ASSUME NEW k \in Tasks, Start(k) PROVE Kept(k)
    <3>1. pc' = [pc EXCEPT ![k] = "start"] /\ pc'[k] = "start"
      BY <2>5 DEF Start, Moves, DrawnInv
    <3> QED
      BY <2>5, <3>1 DEF Start, Kept, Drawn, Places
  <2>6. ASSUME NEW k \in Tasks, Begin(k) \/ Parsed(k) \/ BeginIndex(k) \/ Indexed(k)
                                \/ Fail(k) \/ Finish(k)
        PROVE  Kept(k)
    <3>1. UNCHANGED <<advanced, fresh, list>> /\ Drawn(k)
      BY <2>6 DEF Begin, Parsed, BeginIndex, Indexed, Fail, Finish, Moves, Drawn
    <3>2. \E to \in Places : pc' = [pc EXCEPT ![k] = to]
      BY <2>6 DEF Begin, Parsed, BeginIndex, Indexed, Fail, Finish, Moves, Places
    <3> QED
      BY <3>1, <3>2 DEF Kept
  <2>7. ASSUME NEW k \in Tasks, Die(k) PROVE Kept(k)
    <3>1. pc' = [pc EXCEPT ![k] = "died"] /\ pc'[k] = "died"
      BY <2>7 DEF Die, Moves, DrawnInv
    <3> QED
      BY <2>7, <3>1 DEF Die, Kept, Drawn, Places
  <2> QED
    BY <2>1, <2>2, <2>3, <2>4, <2>5, <2>6, <2>7 DEF Next
<1> QED
  BY <1>1, <1>2, ListsInductive, PTL DEF Spec

\* With --recent-first, tasks that found every document in the same stage, each with
\* a year, share none, for any number of them: what they have listed is the same.
THEOREM SnapshotSplitAlways == Spec => []SnapshotSplit
<1>1. DrawnInv /\ SameListSplit => SnapshotSplit
  <2> SUFFICES ASSUME DrawnInv, SameListSplit, NEW j \in Tasks, NEW k \in Tasks,
                      RecentFirst, j # k, Drawn(j), Drawn(k),
                      advanced[j] = advanced[k], fresh[j] = fresh[k],
                      \A d \in Listed(j) : Year[d] > 0
               PROVE  Slice(j) \intersect Slice(k) = {}
    BY DEF SnapshotSplit
  <2>1. PICK A \in SUBSET Docs, F \in SUBSET Docs : A = advanced[j] /\ F = fresh[j]
    BY DEF DrawnInv, ListsOK
  <2>2. list[j] \in Lists(A, F) /\ list[k] \in Lists(A, F)
    BY <2>1 DEF DrawnInv
  <2>3. \A d \in A \union F : Year[d] > 0
    <3>1. Len(list[j]) = Cardinality(A \union F)
      BY <2>2, ListsAll
    <3>2. \A d \in A \union F : \E p \in 1 .. Cardinality(A \union F) : list[j][p] = d
      BY <2>2, ListsAll DEF Surjection
    <3>3. \A d \in A \union F : d \in Listed(j)
      BY <3>1, <3>2, Zenon DEF Listed
    <3> QED
      BY <3>3
  <2>4. list[j] = list[k]
    BY <2>2, <2>3, OneList
  <2> QED
    BY <2>4 DEF SameListSplit
<1> QED
  BY <1>1, DrawnInductive, SameListSplitAlways, PTL

-----------------------------------------------------------------------------
(* A long file, parsed in parts                                            *)

AtWork == {"next", "convert", "superscripts", "postprocess", "headings", "contents",
           "parsed", "unparsed"}

PartsTypeOK ==
    /\ pages \in Nat \ {0}
    /\ doing \in {"none", "leave"} \cup AtWork
    /\ results \in Seq(BOOLEAN)

\* While a parse goes on all its parts are there, and one that is not tried yet is in hand.
UnderParse ==
    /\ verdict = "parsed" => doing = "leave"
    /\ doing \in AtWork => /\ temporary = 1 .. PartCount
                           /\ Len(results) <= PartCount
    /\ doing \in AtWork \ {"next"} => Len(results) < PartCount

PartsIInv == PartsTypeOK /\ UnderParse /\ PartsAreRight

\* Pages are whole numbers, and every part has some.
LEMMA PartsProperties ==
    ASSUME pages \in Nat \ {0}
    PROVE  /\ PartCount \in Nat \ {0}
           /\ \A k \in 1 .. PartCount :
                 /\ StartPage(k) \in 1 .. pages /\ EndPage(k) \in StartPage(k) .. pages
                 /\ EndPage(k) = pages \/ EndPage(k) = StartPage(k) + ChunkSize - 1
                 /\ k < PartCount => EndPage(k) = StartPage(k) + ChunkSize - 1
                 /\ k = PartCount => EndPage(k) = pages
                 /\ StartPage(k) + ChunkSize = StartPage(k + 1)
                 /\ \A m \in 1 .. k : StartPage(m) <= StartPage(k)
           /\ StartPage(1) = 1
<1> DEFINE C == ChunkSize
           N == PartCount
<1>1. C \in Nat \ {0} /\ pages \in Nat \ {0}
  BY PartsAssumption
<1>2. PICK q \in Int, r \in 0 .. C - 1 : q = (pages + C - 1) \div C /\ pages + C - 1 = C * q + r
  <2>1. pages + C - 1 \in Int
    BY <1>1
  <2> QED
    BY <1>1, <2>1
<1>3. N = q
  BY <1>2 DEF PartCount
<1>4. C * q <= pages + C - 1 /\ pages <= C * q
  <2>1. C * q \in Int
    BY <1>1
  <2> QED
    BY <1>1, <1>2, <2>1
<1>5. q \in Nat \ {0}
  <2> SUFFICES ASSUME q <= 0 PROVE FALSE
    OBVIOUS
  <2>1. -q \in Nat /\ C * (-q) \in Nat
    BY <1>1
  <2>2. C * (-q) = -(C * q) /\ C * q \in Int
    BY <1>1
  <2> QED
    BY <1>1, <1>4, <2>1, <2>2
<1>6. ASSUME NEW k \in 1 .. N
      PROVE  /\ StartPage(k) \in 1 .. pages /\ EndPage(k) \in StartPage(k) .. pages
             /\ EndPage(k) = pages \/ EndPage(k) = StartPage(k) + C - 1
             /\ k < N => EndPage(k) = StartPage(k) + C - 1
             /\ k = N => EndPage(k) = pages
             /\ StartPage(k) + C = StartPage(k + 1)
             /\ \A m \in 1 .. k : StartPage(m) <= StartPage(k)
  <2> HIDE DEF C, N
  <2>1. k \in Nat \ {0} /\ k <= q
    BY <1>3, <1>5
  <2>2. PICK b \in Nat : b = (k - 1) * C
    BY <1>1, <2>1
  <2>3. k * C = b + C /\ (k + 1 - 1) * C = b + C
    BY <1>1, <2>1, <2>2
  <2>4. b + C <= C * q
    <3>1. q - k \in Nat /\ C * (q - k) \in Nat
      BY <1>1, <1>5, <2>1
    <3>2. C * (q - k) = C * q - k * C
      BY <1>1, <1>5, <2>1
    <3>3. C * q \in Int
      BY <1>1
    <3> QED
      BY <1>1, <2>2, <2>3, <3>1, <3>2, <3>3
  <2>5. k < q => b + 2 * C <= C * q
    <3> SUFFICES ASSUME k < q PROVE b + 2 * C <= C * q
      OBVIOUS
    <3>1. q - k - 1 \in Nat /\ C * (q - k - 1) \in Nat
      BY <1>1, <1>5, <2>1
    <3>2. C * (q - k - 1) = C * q - k * C - C
      BY <1>1, <1>5, <2>1
    <3>3. C * q \in Int
      BY <1>1
    <3> QED
      BY <1>1, <2>2, <2>3, <3>1, <3>2, <3>3
  <2>6. C * q \in Int
    BY <1>1
  <2>7. StartPage(k) = b + 1 /\ StartPage(k + 1) = b + C + 1
    BY <1>1, <2>1, <2>2, <2>3 DEF StartPage, C
  <2>8. b < pages /\ (k < q => b + C < pages)
    BY <1>1, <1>4, <2>2, <2>4, <2>5, <2>6
  <2>9. EndPage(k) = IF b + C <= pages THEN b + C ELSE pages
    <3>1. EndPage(k) = Min({b + C, pages})
      BY <2>3 DEF EndPage, C
    <3>2. PICK e : e = IF b + C <= pages THEN b + C ELSE pages
      OBVIOUS
    <3>3. /\ e \in {b + C, pages} /\ \A y \in {b + C, pages} : e <= y
          /\ \A x \in {b + C, pages} : (\A y \in {b + C, pages} : x <= y) => x = e
      BY <1>1, <2>2, <3>2
    <3>4. Min({b + C, pages}) = e
      BY <3>3 DEF Min
    <3> QED
      BY <3>1, <3>2, <3>4
  <2>10. k = N => EndPage(k) = pages
    <3> SUFFICES ASSUME k = N PROVE EndPage(k) = pages
      OBVIOUS
    <3>1. b + C = C * q
      BY <1>1, <1>3, <2>1, <2>2, <2>3
    <3> QED
      BY <1>1, <1>4, <2>2, <2>6, <2>9, <3>1
  <2>11. ASSUME NEW m \in 1 .. k PROVE StartPage(m) <= StartPage(k)
    <3>1. k - m \in Nat /\ (k - m) * C \in Nat /\ (m - 1) * C \in Nat
      BY <1>1, <2>1
    <3>2. (k - m) * C = b - (m - 1) * C
      BY <1>1, <2>1, <2>2
    <3>3. StartPage(m) = (m - 1) * C + 1
      BY DEF StartPage, C
    <3> QED
      BY <2>2, <2>7, <3>1, <3>2, <3>3
  <2> QED
    BY <1>1, <1>3, <2>2, <2>7, <2>8, <2>9, <2>10, <2>11
<1>7. StartPage(1) = 1
  BY <1>1 DEF StartPage
<1> QED
  BY <1>3, <1>5, <1>6, <1>7

\* What a part holds.
LEMMA PartHolds ==
    ASSUME pages \in Nat \ {0}, NEW k \in 1 .. PartCount
    PROVE  LET n == EndPage(k) - StartPage(k) + 1
           IN  /\ n \in Nat \ {0} /\ Cardinality(PagesOf(k)) = n
               /\ PartPages(k) \in Seq(Nat) /\ Len(PartPages(k)) = n
               /\ DOMAIN PartPages(k) = 1 .. n
               /\ \A i \in 1 .. n : PartPages(k)[i] = StartPage(k) + i - 1
               /\ PagesOf(k) = {PartPages(k)[i] : i \in 1 .. n}
<1>1. PICK a \in Nat, b \in Nat : a = StartPage(k) /\ b = EndPage(k) /\ 1 <= a /\ a <= b
  BY PartsProperties
<1>2. PICK n \in Nat \ {0} : n = b - a + 1
  BY <1>1
<1>3. Cardinality(PagesOf(k)) = n
  BY <1>1, <1>2, FS_Interval DEF PagesOf
<1>4. PartPages(k) = [i \in 1 .. n |-> a + i - 1]
  BY <1>1, <1>3 DEF PartPages
<1>5. \A i \in 1 .. n : a + i - 1 \in Nat
  BY <1>1, <1>2
<1>6. PartPages(k) \in [1 .. n -> Nat]
  BY <1>4, <1>5
<1>7. PartPages(k) \in Seq(Nat) /\ Len(PartPages(k)) = n
  BY <1>2, <1>6, SeqDef, LenProperties
<1>8. DOMAIN PartPages(k) = 1 .. n /\ \A i \in 1 .. n : PartPages(k)[i] = a + i - 1
  BY <1>4
<1>9. PagesOf(k) = {PartPages(k)[i] : i \in 1 .. n}
  <2>1. \A p \in a .. b : p - a + 1 \in 1 .. n /\ a + (p - a + 1) - 1 = p
    BY <1>1, <1>2
  <2>2. \A i \in 1 .. n : a + i - 1 \in a .. b
    BY <1>1, <1>2
  <2>3. PagesOf(k) = a .. b
    BY <1>1 DEF PagesOf
  <2>4. \A p \in a .. b : \E i \in 1 .. n : p = PartPages(k)[i]
    BY <1>8, <2>1
  <2> QED
    BY <1>8, <2>2, <2>3, <2>4
<1> QED
  BY <1>1, <1>2, <1>3, <1>7, <1>8, <1>9

\* The part n after what was joined before it.
JoinedBy(n, was) == IF n \in Succeeded THEN was \o PartPages(n) ELSE was
Joins(n, f) == f = [m \in 0 .. n |-> IF m = 0 THEN <<>> ELSE JoinedBy(m, f[m - 1])]

LEMMA JoinsExist ==
    ASSUME NEW L \in Nat
    PROVE  \E f : Joins(L, f)
<1> DEFINE T == {n \in Nat : ~\E f : Joins(n, f)}
<1>1. ASSUME T # {} PROVE FALSE
  <2>1. PICK m \in T : \A k \in T : m <= k
    BY <1>1, LeastOf
  <2>2. m \in Nat /\ ~\E f : Joins(m, f)
    BY <2>1
  <2>3. m # 0
    <3> SUFFICES ASSUME m = 0 PROVE FALSE
      OBVIOUS
    <3> DEFINE g == [j \in 0 .. 0 |-> <<>>]
    <3>1. g = [j \in 0 .. 0 |-> IF j = 0 THEN <<>> ELSE JoinedBy(j, g[j - 1])]
      OBVIOUS
    <3>2. Joins(0, g)
      BY <3>1 DEF Joins
    <3> QED
      BY <2>2, <3>2
  <2>4. m - 1 \in Nat /\ ~(m <= m - 1)
    BY <2>2, <2>3
  <2>5. PICK f : Joins(m - 1, f)
    BY <2>1, <2>4
  <2> DEFINE g == [j \in 0 .. m |-> IF j = m THEN JoinedBy(m, f[m - 1]) ELSE f[j]]
  <2>6. ASSUME NEW j \in 0 .. m
        PROVE  g[j] = IF j = 0 THEN <<>> ELSE JoinedBy(j, g[j - 1])
    <3>1. CASE j = 0
      <4>1. 0 \in 0 .. m - 1 /\ 0 # m
        BY <2>2, <2>3
      <4>2. f[0] = <<>>
        BY <2>5, <4>1 DEF Joins
      <4> QED
        BY <3>1, <4>1, <4>2
    <3>2. CASE j # 0 /\ j # m
      <4>1. j \in 0 .. m - 1 /\ j - 1 \in 0 .. m /\ j - 1 # m
        BY <2>2, <3>2
      <4>2. f[j] = JoinedBy(j, f[j - 1])
        BY <2>5, <3>2, <4>1 DEF Joins
      <4>3. g[j] = f[j] /\ g[j - 1] = f[j - 1]
        BY <3>2, <4>1
      <4> QED
        BY <3>2, <4>2, <4>3
    <3>3. CASE j = m
      <4>1. j - 1 \in 0 .. m /\ j - 1 # m /\ j # 0
        BY <2>2, <2>3, <3>3
      <4>2. g[j] = JoinedBy(j, f[j - 1]) /\ g[j - 1] = f[j - 1]
        BY <3>3, <4>1
      <4> QED
        BY <4>1, <4>2
    <3> QED
      BY <3>1, <3>2, <3>3
  <2>7. g = [j \in 0 .. m |-> g[j]]
    OBVIOUS
  <2> HIDE DEF g
  <2>8. g = [j \in 0 .. m |-> IF j = 0 THEN <<>> ELSE JoinedBy(j, g[j - 1])]
    BY <2>6, <2>7
  <2>9. Joins(m, g)
    BY <2>8 DEF Joins
  <2> QED
    BY <2>2, <2>9
<1> QED
  BY <1>1

LEMMA RangeOfConcat ==
    ASSUME NEW S, NEW x \in Seq(S), NEW y \in Seq(S)
    PROVE  ToSet(x \o y) = ToSet(x) \cup ToSet(y)
<1> DEFINE z == x \o y
           a == Len(x)
           b == Len(y)
<1>1. /\ z \in Seq(S) /\ Len(z) = a + b /\ a \in Nat /\ b \in Nat
      /\ \A i \in 1 .. a + b : z[i] = IF i <= a THEN x[i] ELSE y[i - a]
  BY ConcatProperties, LenProperties
<1>2. DOMAIN x = 1 .. a /\ DOMAIN y = 1 .. b /\ DOMAIN z = 1 .. a + b
  BY <1>1, LenProperties
<1> HIDE DEF z, a, b
<1>3. ASSUME NEW i \in 1 .. a + b PROVE z[i] \in ToSet(x) \cup ToSet(y)
  <2>1. CASE i <= a
    <3>1. i \in DOMAIN x /\ z[i] = x[i]
      BY <1>1, <1>2, <2>1
    <3> QED
      BY <3>1 DEF ToSet
  <2>2. CASE ~(i <= a)
    <3>1. i - a \in 1 .. b
      BY <1>1, <2>2
    <3>2. i - a \in DOMAIN y /\ z[i] = y[i - a]
      BY <1>1, <1>2, <2>2, <3>1
    <3> QED
      BY <3>2 DEF ToSet
  <2> QED
    BY <2>1, <2>2
<1>4. ASSUME NEW i \in 1 .. a PROVE x[i] \in ToSet(z)
  <2>1. i \in 1 .. a + b /\ z[i] = x[i]
    BY <1>1
  <2> QED
    BY <1>2, <2>1 DEF ToSet
<1>5. ASSUME NEW i \in 1 .. b PROVE y[i] \in ToSet(z)
  <2>1. i + a \in 1 .. a + b /\ ~(i + a <= a) /\ i + a - a = i
    BY <1>1
  <2>2. z[i + a] = y[i]
    BY <1>1, <2>1
  <2> QED
    BY <1>2, <2>1, <2>2 DEF ToSet
<1>6. ToSet(z) \subseteq ToSet(x) \cup ToSet(y)
  BY <1>2, <1>3 DEF ToSet
<1>7. ToSet(x) \subseteq ToSet(z) /\ ToSet(y) \subseteq ToSet(z)
  BY <1>2, <1>4, <1>5 DEF ToSet
<1>8. ToSet(z) = ToSet(x) \cup ToSet(y)
  BY <1>6, <1>7
<1> QED
  BY <1>8 DEF z

\* The JSON holds the pages of the parts that succeeded, and those before the first
\* that failed at their own places.
LEMMA ConcatenatedProperties ==
    ASSUME PartsTypeOK, Len(results) = PartCount
    PROVE  /\ ToSet(Concatenated) = UNION {PagesOf(k) : k \in Succeeded}
           /\ \A p \in 1 .. pages :
                 (\A k \in 1 .. PartCount : k \notin Succeeded => p < StartPage(k))
                 => Concatenated[p] = p
<1> DEFINE L == PartCount
           joined == CHOOSE f : f = [n \in 0 .. Len(results) |-> IF n = 0 THEN <<>>
                           ELSE IF n \in Succeeded THEN f[n - 1] \o PartPages(n) ELSE f[n - 1]]
           Upto(n) == IF n = 0 THEN 0 ELSE EndPage(n)
           Held(n) == UNION {PagesOf(k) : k \in Succeeded \cap (1 .. n)}
           Clear(p, n) == \A k \in 1 .. n : k \notin Succeeded => p < StartPage(k)
           Sound(n) == /\ joined[n] \in Seq(Nat)
                       /\ ToSet(joined[n]) = Held(n)
                       /\ 1 .. n \subseteq Succeeded => Len(joined[n]) = Upto(n)
                       /\ \A p \in 1 .. Upto(n) :
                             Clear(p, n) => p \in 1 .. Len(joined[n]) /\ joined[n][p] = p
           T == {n \in 0 .. L : ~Sound(n)}
<1>1. L \in Nat \ {0} /\ Succeeded \subseteq 1 .. L /\ pages \in Nat \ {0}
  <2>1. DOMAIN results = 1 .. L
    BY LenProperties DEF PartsTypeOK
  <2> QED
    BY <2>1, PartsProperties DEF PartsTypeOK, Succeeded
<1>2. Concatenated = joined[L]
  BY DEF Concatenated
<1>3. /\ joined[0] = <<>>
      /\ \A n \in 1 .. L : joined[n] = JoinedBy(n, joined[n - 1])
  <2>1. PICK f : Joins(L, f)
    BY <1>1, JoinsExist
  <2>2. f = [n \in 0 .. Len(results) |-> IF n = 0 THEN <<>>
                ELSE IF n \in Succeeded THEN f[n - 1] \o PartPages(n) ELSE f[n - 1]]
    BY <2>1 DEF Joins, JoinedBy
  <2>3. joined = [n \in 0 .. L |-> IF n = 0 THEN <<>>
                ELSE IF n \in Succeeded THEN joined[n - 1] \o PartPages(n) ELSE joined[n - 1]]
    BY <2>2
  <2> HIDE DEF joined, L
  <2>4. 0 \in 0 .. L /\ \A n \in 1 .. L : n \in 0 .. L /\ n # 0
    BY <1>1
  <2> QED
    BY <2>3, <2>4 DEF JoinedBy
<1> HIDE DEF joined
<1>4. ASSUME NEW n \in 1 .. L
      PROVE  /\ n \in Nat \ {0} /\ n - 1 \in 0 .. L /\ Upto(n - 1) \in Nat
             /\ StartPage(n) = Upto(n - 1) + 1
             /\ Upto(n) = EndPage(n) /\ Upto(n) \in StartPage(n) .. pages
             /\ \A k \in 1 .. n : StartPage(k) \in Nat /\ StartPage(k) <= StartPage(n)
  <2>1. n \in Nat \ {0} /\ n - 1 \in 0 .. L
    BY <1>1
  <2>2. \A k \in 1 .. n : k \in 1 .. L
    BY <1>1
  <2>3. /\ StartPage(n) \in 1 .. pages /\ EndPage(n) \in StartPage(n) .. pages
        /\ \A k \in 1 .. n : StartPage(k) \in 1 .. pages /\ StartPage(k) <= StartPage(n)
    BY <1>1, <2>2, PartsProperties
  <2>4. Upto(n - 1) \in Nat /\ StartPage(n) = Upto(n - 1) + 1
    <3>1. CASE n = 1
      BY <1>1, <3>1, PartsProperties
    <3>2. CASE n # 1
      <4>1. n - 1 \in 1 .. L /\ n - 1 < L /\ n - 1 # 0 /\ (n - 1) + 1 = n
        BY <1>1, <3>2
      <4>2. PICK k \in 1 .. L : k = n - 1
        BY <4>1
      <4>3. k < L /\ k # 0 /\ k + 1 = n
        BY <4>1, <4>2
      <4>4. /\ StartPage(k) \in 1 .. pages /\ EndPage(k) = StartPage(k) + ChunkSize - 1
            /\ StartPage(k) + ChunkSize = StartPage(n)
        BY <1>1, <4>3, PartsProperties
      <4>5. ChunkSize \in Nat \ {0} /\ Upto(n - 1) = EndPage(k)
        BY PartsAssumption, <4>2, <4>3
      <4> QED
        BY <1>1, <4>4, <4>5
    <3> QED
      BY <3>1, <3>2
  <2> QED
    BY <1>1, <2>1, <2>3, <2>4
<1>5. ASSUME T # {} PROVE FALSE
  <2> T \in SUBSET Nat
    BY <1>1
  <2>1. PICK m \in T : \A k \in T : m <= k
    <3> HIDE DEF T
    <3> QED
      BY <1>5, LeastOf
  <2>2. m \in 0 .. L /\ ~Sound(m)
    BY <2>1
  <2>3. m # 0
    <3>1. <<>> \in Seq(Nat) /\ ToSet(<<>>) = {} /\ Len(<<>>) = 0
      BY DEF ToSet
    <3>2. Held(0) = {} /\ Upto(0) = 0
      <4>1. 1 .. 0 = {}
        OBVIOUS
      <4> QED
        BY <4>1
    <3>3. \A p : p \notin 1 .. 0
      OBVIOUS
    <3>4. Sound(0)
      <4> HIDE DEF Held, Upto, Clear
      <4> QED
        BY <1>3, <3>1, <3>2, <3>3
    <3> QED
      BY <2>2, <3>4
  <2>4. m \in 1 .. L /\ m - 1 \in 0 .. L /\ ~(m <= m - 1)
    BY <1>1, <2>2, <2>3
  <2>5. Sound(m - 1)
    BY <2>1, <2>4
  <2>6. PICK x \in Seq(Nat), u \in Nat : x = joined[m - 1] /\ u = Upto(m - 1)
    BY <1>4, <2>4, <2>5
  <2>7. /\ ToSet(x) = Held(m - 1)
        /\ 1 .. m - 1 \subseteq Succeeded => Len(x) = u
        /\ \A p \in 1 .. u : Clear(p, m - 1) => p \in 1 .. Len(x) /\ x[p] = p
    BY <2>5, <2>6
  <2>8. /\ m \in Nat \ {0} /\ StartPage(m) = u + 1
        /\ Upto(m) = EndPage(m) /\ EndPage(m) \in u + 1 .. pages
        /\ \A k \in 1 .. m : StartPage(k) \in Nat /\ StartPage(k) <= u + 1
    BY <1>4, <2>4, <2>6
  <2>9. \A k : k \in 1 .. m <=> (k \in 1 .. m - 1 \/ k = m)
    BY <2>8
  <2>10. \A p : Clear(p, m) => Clear(p, m - 1)
    BY <2>9
  <2>11. CASE m \in Succeeded
    <3> DEFINE y == PartPages(m)
               z == x \o y
    <3>1. joined[m] = z
      BY <1>3, <2>4, <2>6, <2>11 DEF JoinedBy
    <3>2. PICK n \in Nat \ {0} : n = EndPage(m) - StartPage(m) + 1
      BY <1>1, <2>4, PartHolds
    <3>3. /\ y \in Seq(Nat) /\ Len(y) = n /\ DOMAIN y = 1 .. n
          /\ \A i \in 1 .. n : y[i] = StartPage(m) + i - 1
          /\ PagesOf(m) = {y[i] : i \in 1 .. n}
      BY <1>1, <2>4, <3>2, PartHolds
    <3>4. ToSet(y) = PagesOf(m)
      BY <3>3 DEF ToSet
    <3> HIDE DEF y
    <3>5. /\ z \in Seq(Nat) /\ Len(z) = Len(x) + n /\ Len(x) \in Nat
          /\ \A i \in 1 .. Len(x) + n : z[i] = IF i <= Len(x) THEN x[i] ELSE y[i - Len(x)]
      <4>1. /\ z \in Seq(Nat) /\ Len(z) = Len(x) + Len(y)
            /\ \A i \in 1 .. Len(x) + Len(y) : z[i] = IF i <= Len(x) THEN x[i] ELSE y[i - Len(x)]
        <5>1. y \in Seq(Nat)
          BY <3>3
        <5>2. PICK e \in Seq(Nat) : e = y
          BY <5>1
        <5>3. /\ x \o e \in Seq(Nat) /\ Len(x \o e) = Len(x) + Len(e)
              /\ \A i \in 1 .. Len(x) + Len(e) :
                     (x \o e)[i] = IF i <= Len(x) THEN x[i] ELSE e[i - Len(x)]
          BY ConcatProperties
        <5> QED
          BY <5>2, <5>3
      <4>2. Len(y) = n /\ Len(x) \in Nat
        BY <3>3, LenProperties
      <4> HIDE DEF z
      <4> QED
        BY <4>1, <4>2
    <3>6. ToSet(z) = Held(m - 1) \cup PagesOf(m)
      BY <2>7, <3>3, <3>4, RangeOfConcat
    <3>7. Held(m) = Held(m - 1) \cup PagesOf(m)
      <4>1. Succeeded \cap (1 .. m) = (Succeeded \cap (1 .. m - 1)) \cup {m}
        BY <2>9, <2>11
      <4> QED
        BY <4>1
    <3> HIDE DEF z, Held
    <3>8. 1 .. m \subseteq Succeeded => Len(z) = Upto(m)
      <4> SUFFICES ASSUME 1 .. m \subseteq Succeeded PROVE Len(z) = EndPage(m)
        BY <2>8
      <4>1. Len(x) = u
        BY <2>7, <2>9
      <4> QED
        BY <1>1, <2>8, <3>2, <3>5, <4>1
    <3>9. ASSUME NEW p \in 1 .. Upto(m), Clear(p, m)
          PROVE  p \in 1 .. Len(z) /\ z[p] = p
      <4>1. p \in 1 .. EndPage(m) /\ EndPage(m) \in Nat
        BY <1>1, <2>8
      <4>2. CASE p <= u
        <5>1. p \in 1 .. Len(x) /\ x[p] = p
          BY <2>7, <2>10, <3>9, <4>1, <4>2
        <5> QED
          BY <3>5, <5>1
      <4>3. CASE p > u
        <5>1. 1 .. m \subseteq Succeeded
          <6>1. \A k \in 1 .. m : ~(p < StartPage(k))
            BY <2>8, <4>1, <4>3
          <6> QED
            BY <3>9, <6>1
        <5>2. Len(x) = u
          BY <2>7, <2>9, <5>1
        <5>3. /\ p \in 1 .. Len(x) + n /\ ~(p <= Len(x)) /\ p - Len(x) \in 1 .. n
              /\ StartPage(m) + (p - Len(x)) - 1 = p
          BY <1>1, <2>8, <3>2, <4>1, <4>3, <5>2
        <5>4. z[p] = y[p - Len(x)] /\ y[p - Len(x)] = StartPage(m) + (p - Len(x)) - 1
          BY <3>3, <3>5, <5>3
        <5> QED
          BY <3>5, <5>3, <5>4
      <4> QED
        BY <4>1, <4>2, <4>3
    <3> HIDE DEF Upto, Clear
    <3> QED
      BY <2>2, <3>1, <3>5, <3>6, <3>7, <3>8, <3>9
  <2>12. CASE m \notin Succeeded
    <3>1. joined[m] = x
      BY <1>3, <2>4, <2>6, <2>12 DEF JoinedBy
    <3>2. Held(m) = Held(m - 1)
      <4>1. Succeeded \cap (1 .. m) = Succeeded \cap (1 .. m - 1)
        BY <2>9, <2>12
      <4> QED
        BY <4>1
    <3>3. ~(1 .. m \subseteq Succeeded)
      BY <2>9, <2>12
    <3>4. ASSUME NEW p \in 1 .. Upto(m), Clear(p, m)
          PROVE  p \in 1 .. Len(x) /\ x[p] = p
      <4>1. p \in Nat \ {0} /\ p < u + 1
        BY <1>1, <2>8, <2>9, <2>12, <3>4
      <4>2. p \in 1 .. u
        BY <4>1
      <4> QED
        BY <2>7, <2>10, <3>4, <4>2
    <3> HIDE DEF Upto, Clear, Held
    <3> QED
      BY <2>2, <2>7, <3>1, <3>2, <3>3, <3>4
  <2> QED
    BY <2>11, <2>12
<1>6. Sound(L)
  <2>1. L \in 0 .. L
    BY <1>1
  <2> QED
    BY <1>5, <2>1
<1>7. Upto(L) = pages
  BY <1>1, PartsProperties
<1>8. Held(L) = UNION {PagesOf(k) : k \in Succeeded}
  <2>1. Succeeded \cap (1 .. L) = Succeeded
    BY <1>1
  <2> QED
    BY <2>1
<1> HIDE DEF Upto, Held, L
<1>9. ToSet(joined[L]) = UNION {PagesOf(k) : k \in Succeeded}
  BY <1>6, <1>8
<1>10. \A p \in 1 .. pages : Clear(p, L) => joined[L][p] = p
  BY <1>6, <1>7
<1> QED
  BY <1>2, <1>9, <1>10 DEF L

LEMMA PartsStart == PartsInit => PartsIInv
BY PartsAssumption
   DEF PartsInit, PartsIInv, PartsTypeOK, UnderParse, AtWork, PartsAreRight, OwnAlarm, PagesAgree

\* Once every part was tried, the pages that were parsed and what the contents say of them.
LEMMA WholeFile ==
    ASSUME PartsTypeOK, UnderParse, AllTried
    PROVE  /\ Len(results) = PartCount
           /\ {c[2] : c \in Numbered} = UNION {PagesOf(k) : k \in Succeeded}
           /\ \A c \in Numbered : c[1] = c[2]
           /\ ToSet(Concatenated) = UNION {PagesOf(k) : k \in Succeeded}
           /\ \A p \in {q \in 1 .. pages : \A k \in {j \in DOMAIN results : ~results[j]} :
                                                q < StartPage(k)} : Concatenated[p] = p
<1>1. /\ Len(results) \in Nat /\ DOMAIN results = 1 .. Len(results)
      /\ PartCount \in Nat \ {0} /\ pages \in Nat \ {0}
  BY LenProperties, PartsProperties DEF PartsTypeOK
<1>2. Len(results) = PartCount
  <2>1. Len(results) <= PartCount /\ Len(results) + 1 \notin 1 .. PartCount
    BY DEF AllTried, UnderParse, AtWork, Present
  <2>2. PICK m \in Nat, n \in Nat \ {0} : m = Len(results) /\ n = PartCount
    BY <1>1
  <2>3. m <= n /\ m + 1 \notin 1 .. n
    BY <2>1, <2>2
  <2>4. m = n
    BY <2>3
  <2> QED
    BY <2>2, <2>4
<1>3. \A k \in 1 .. PartCount : k \in Succeeded <=> results[k]
  BY <1>1, <1>2 DEF Succeeded
<1>4. Succeeded \subseteq 1 .. PartCount
  BY <1>1, <1>2 DEF Succeeded
<1>5. \A c \in Numbered : c[1] = c[2]
  BY DEF Numbered, AtPage
<1>6. \A k \in Succeeded : PagesOf(k) = {StartPage(k) + i - 1 : i \in DOMAIN PartPages(k)}
  <2> SUFFICES ASSUME NEW k \in Succeeded
               PROVE  PagesOf(k) = {StartPage(k) + i - 1 : i \in DOMAIN PartPages(k)}
    OBVIOUS
  <2>1. PICK n : n = EndPage(k) - StartPage(k) + 1
    OBVIOUS
  <2>2. /\ DOMAIN PartPages(k) = 1 .. n
        /\ \A i \in 1 .. n : PartPages(k)[i] = StartPage(k) + i - 1
        /\ PagesOf(k) = {PartPages(k)[i] : i \in 1 .. n}
    BY <1>1, <1>4, <2>1, PartHolds
  <2> QED
    BY <2>2
<1>7. \A q : (\E c \in Numbered : q = c[2]) <=>
               \E k \in Succeeded : \E i \in DOMAIN PartPages(k) : q = StartPage(k) + i - 1
  <2>1. \A c : c \in Numbered <=>
                \E k \in Succeeded : \E i \in DOMAIN PartPages(k) :
                    c = <<StartPage(k) + i - 1, StartPage(k) + i - 1>>
    BY DEF Numbered, AtPage
  <2>2. ASSUME NEW k \in Succeeded, NEW i \in DOMAIN PartPages(k), NEW q, q = StartPage(k) + i - 1
        PROVE  \E c \in Numbered : q = c[2]
    <3>1. <<q, q>> \in Numbered
      BY <2>1, <2>2
    <3> QED
      BY <3>1
  <2>3. ASSUME NEW c \in Numbered
        PROVE  \E k \in Succeeded : \E i \in DOMAIN PartPages(k) : c[2] = StartPage(k) + i - 1
    BY <2>1
  <2> QED
    BY <2>2, <2>3
<1>8. {c[2] : c \in Numbered} = UNION {PagesOf(k) : k \in Succeeded}
  <2>1. \A q : q \in UNION {PagesOf(k) : k \in Succeeded} <=>
                \E k \in Succeeded : \E i \in DOMAIN PartPages(k) : q = StartPage(k) + i - 1
    BY <1>6
  <2>2. \A q : q \in {c[2] : c \in Numbered} <=> \E c \in Numbered : q = c[2]
    OBVIOUS
  <2> QED
    BY <1>7, <2>1, <2>2
<1>9. ASSUME NEW p \in 1 .. pages,
             \A k \in {j \in DOMAIN results : ~results[j]} : p < StartPage(k)
      PROVE  Concatenated[p] = p
  <2>1. \A k \in 1 .. PartCount : k \notin Succeeded => p < StartPage(k)
    BY <1>1, <1>2, <1>3, <1>9
  <2> QED
    BY <1>2, <2>1, ConcatenatedProperties
<1>10. ToSet(Concatenated) = UNION {PagesOf(k) : k \in Succeeded}
  BY <1>2, ConcatenatedProperties
<1> QED
  BY <1>2, <1>5, <1>8, <1>9, <1>10

\* What was merged stays merged.
LEMMA MergedStays ==
    ASSUME PagesAgree, UNCHANGED <<pages, results, contents, jsonPages, jsonIsNew>>,
           verdict' = "parsed" => verdict = "parsed"
    PROVE  PagesAgree'
BY DEF PagesAgree, PartCount, Succeeded, PagesOf, StartPage, EndPage

LEMMA PartsInductive == PartsIInv /\ [PartsNext]_partsVars => PartsIInv'
<1> SUFFICES ASSUME PartsIInv, [PartsNext]_partsVars PROVE PartsIInv'
  OBVIOUS
<1>0. /\ PartsTypeOK /\ UnderParse /\ OwnAlarm /\ PagesAgree
      /\ PartCount \in Nat \ {0} /\ Len(results) \in Nat /\ results \in Seq(BOOLEAN)
  BY LenProperties, PartsProperties DEF PartsIInv, PartsAreRight, PartsTypeOK
<1>1. CASE UNCHANGED partsVars \/ SetAlarm \/ Proceed \/ Raise \/ AlarmRings \/ CleanUp
  <2>1. /\ UNCHANGED <<pages, results, verdict, jsonPages, jsonIsNew, contents>>
        /\ PartCount' = PartCount /\ Present' = Present
    BY <1>1 DEF partsVars, SetAlarm, Proceed, Raise, AlarmRings, CleanUp, PartCount, Present
  <2>2. PartsTypeOK'
    BY <1>0, <1>1, <2>1 DEF partsVars, SetAlarm, Proceed, Raise, AlarmRings, CleanUp, PartsTypeOK,
          AtWork, Following, Swallowing
  <2>3. UnderParse'
    <3>1. CASE UNCHANGED partsVars
      BY <1>0, <2>1, <3>1 DEF partsVars, UnderParse
    <3>2. CASE SetAlarm
      <4>1. doing = "next" /\ doing' = "convert" /\ temporary' = temporary
            /\ Len(results) + 1 \in temporary
        BY <3>2 DEF SetAlarm, Present
      <4>2. temporary = 1 .. PartCount
        BY <1>0, <4>1 DEF UnderParse, AtWork
      <4>3. Len(results) < PartCount
        BY <1>0, <4>1, <4>2
      <4> QED
        BY <1>0, <2>1, <4>1, <4>2, <4>3 DEF UnderParse, AtWork
    <3>3. CASE Proceed \/ Raise \/ AlarmRings
      <4>1. /\ doing \in AtWork \ {"next"} /\ doing' \in AtWork \ {"next"}
            /\ temporary' = temporary
        BY <1>0, <3>3 DEF Proceed, Raise, AlarmRings, OwnAlarm, PartsTypeOK, AtWork, Following, Swallowing
      <4> QED
        BY <1>0, <2>1, <4>1 DEF UnderParse, AtWork
    <3>4. CASE CleanUp
      <4>1. doing = "leave" /\ doing' = "leave"
        BY <3>4 DEF CleanUp
      <4> QED
        BY <4>1 DEF UnderParse, AtWork
    <3> QED
      BY <1>1, <3>1, <3>2, <3>3, <3>4
  <2>4. OwnAlarm'
    BY <1>0, <1>1, <2>1 DEF partsVars, SetAlarm, Proceed, Raise, AlarmRings, CleanUp, OwnAlarm,
          Following, Swallowing
  <2>5. PagesAgree'
    BY <1>0, <2>1, MergedStays
  <2> QED
    BY <2>2, <2>3, <2>4, <2>5 DEF PartsIInv, PartsAreRight
<1>2. CASE ClearAlarm
  <2>1. /\ doing \in {"parsed", "unparsed"} /\ doing' = "next" /\ alarm' = 0
        /\ results' = Append(results, doing = "parsed")
        /\ UNCHANGED <<pages, temporary, verdict>> /\ PartCount' = PartCount
    BY <1>2 DEF ClearAlarm, PartCount
  <2>2. results' \in Seq(BOOLEAN) /\ Len(results') = Len(results) + 1
    BY <1>0, <2>1, AppendProperties
  <2>3. verdict' # "parsed" /\ temporary = 1 .. PartCount /\ Len(results) < PartCount
    BY <1>0, <2>1 DEF UnderParse, AtWork
  <2>4. UnderParse'
    BY <1>0, <2>1, <2>2, <2>3 DEF UnderParse, AtWork
  <2> QED
    BY <1>0, <2>1, <2>2, <2>3, <2>4 DEF PartsIInv, PartsTypeOK, PartsAreRight, OwnAlarm, PagesAgree, AtWork
<1>3. CASE SplitFile \/ SplitFails
  <2>1. /\ doing \in {"none", "leave"} /\ alarm' = 0 /\ verdict' # "parsed"
        /\ pages' = pages /\ PartCount' = PartCount
        /\ \/ doing' = "next" /\ temporary' = 1 .. PartCount /\ results' = <<>>
           \/ doing' = "leave" /\ results' = results
    BY <1>0, <1>3 DEF SplitFile, SplitFails, PartCount, OwnAlarm
  <2>2. results' \in Seq(BOOLEAN)
    <3>1. <<>> \in Seq(BOOLEAN)
      BY EmptySeq
    <3> QED
      BY <1>0, <2>1, <3>1
  <2>3. UnderParse'
    <3>1. Len(<<>>) = 0
      OBVIOUS
    <3> QED
      BY <1>0, <2>1, <3>1 DEF UnderParse, AtWork
  <2> QED
    BY <1>0, <2>1, <2>2, <2>3 DEF PartsIInv, PartsTypeOK, PartsAreRight, OwnAlarm, PagesAgree, AtWork
<1>4. CASE NoneParsed \/ \E merged \in BOOLEAN : MergeFails(merged)
  <2>1. /\ doing = "next" /\ doing' = "leave" /\ verdict' = "failed"
        /\ UNCHANGED <<pages, alarm, results>>
    BY <1>4 DEF NoneParsed, MergeFails, AllTried, Leave
  <2>2. alarm' = 0
    BY <1>0, <2>1 DEF OwnAlarm
  <2> QED
    BY <1>0, <2>1, <2>2
       DEF PartsIInv, PartsTypeOK, UnderParse, PartsAreRight, OwnAlarm, PagesAgree, AtWork
<1>5. CASE \E merges \in BOOLEAN : MergeParts(merges)
  <2>1. PICK merges \in BOOLEAN : MergeParts(merges)
    BY <1>5
  <2>2. /\ AllTried /\ doing = "next" /\ doing' = "leave" /\ verdict' = "parsed"
        /\ contents' = Numbered /\ UNCHANGED <<pages, alarm, results>>
        /\ jsonIsNew' => jsonPages' = Concatenated
    BY <2>1 DEF MergeParts, AllTried, Leave
  <2>3. alarm' = 0
    BY <1>0, <2>2 DEF OwnAlarm
  <2>4. /\ PartCount' = PartCount /\ Succeeded' = Succeeded
        /\ \A k : StartPage(k)' = StartPage(k) /\ PagesOf(k)' = PagesOf(k)
    BY <2>2 DEF PartCount, Succeeded, PagesOf, StartPage, EndPage
  <2>5. PagesAgree'
    <3>1. PICK json, told : json = jsonPages' /\ told = contents'
      OBVIOUS
    <3>2. Len(results') = PartCount'
      BY <1>0, <2>2, <2>4, WholeFile
    <3>3. {c[2] : c \in contents'} = (UNION {PagesOf(k) : k \in Succeeded})'
      <4>1. {c[2] : c \in Numbered} = UNION {PagesOf(k) : k \in Succeeded}
        BY <1>0, <2>2, WholeFile
      <4> QED
        BY <2>2, <2>4, <4>1
    <3>4. \A c \in contents' : c[1] = c[2]
      BY <1>0, <2>2, WholeFile
    <3>5. ASSUME jsonIsNew'
          PROVE  /\ ToSet(jsonPages') = {c[2] : c \in contents'}
                 /\ \A p \in {q \in 1 .. pages : \A k \in {j \in DOMAIN results : ~results[j]} :
                                                       q < StartPage(k)} : jsonPages'[p] = p
      BY <1>0, <2>2, <3>5, WholeFile
    <3> QED
      BY <2>2, <2>4, <3>2, <3>3, <3>4, <3>5 DEF PagesAgree
  <2> QED
    BY <1>0, <2>2, <2>3, <2>5 DEF PartsIInv, PartsTypeOK, UnderParse, PartsAreRight, OwnAlarm, AtWork
<1> QED
  BY <1>1, <1>2, <1>3, <1>4, <1>5 DEF PartsNext

\* For files of any length in parts of any size, whatever parts fail or run out of time,
\* however often a file is parsed: an alarm rings only in the part it was set for, and what
\* is parsed has the pages of all parts that succeeded, numbered as in the file - in
\* the contents always, in the JSON up to the first part that failed (parse_with_chunking,
\* parse_chunk, merge_chunks).
THEOREM PartsAlwaysRight == PartsSpec => []PartsAreRight
<1>1. PartsIInv => PartsAreRight
  BY DEF PartsIInv
<1> QED
  BY <1>1, PartsStart, PartsInductive, PTL DEF PartsSpec


-----------------------------------------------------------------------------
(* The contents of a document and the section types of its chunks          *)

LEMMA LeastIsMin ==
    ASSUME NEW T \in SUBSET Nat, T # {}
    PROVE  Min(T) \in T /\ \A k \in T : Min(T) <= k
<1>1. PICK m \in T : \A k \in T : m <= k
  BY LeastOf
<1> QED
  BY <1>1 DEF Min

LEMMA GreatestIsMax ==
    ASSUME NEW n \in Nat, NEW T \in SUBSET (1 .. n), T # {}
    PROVE  Max(T) \in T /\ \A k \in T : k <= Max(T)
<1> DEFINE U == {n - k : k \in T}
<1>1. U \in SUBSET Nat /\ U # {}
  <2>1. \A k \in T : n - k \in Nat
    OBVIOUS
  <2>2. PICK k \in T : TRUE
    OBVIOUS
  <2>3. n - k \in U
    OBVIOUS
  <2> QED
    BY <2>1, <2>3
<1>2. PICK u \in U : \A v \in U : u <= v
  <2> HIDE DEF U
  <2> QED
    BY <1>1, LeastOf
<1>3. PICK m \in T : u = n - m
  BY <1>2
<1>4. \A k \in T : k <= m
  <2>1. \A k \in T : n - k \in U
    OBVIOUS
  <2> HIDE DEF U
  <2>2. \A k \in T : n - m <= n - k
    BY <1>2, <1>3, <2>1
  <2> QED
    BY <2>2
<1>5. \A k \in T : m >= k
  BY <1>4
<1>6. Max(T) \in T /\ \A k \in T : Max(T) >= k
  BY <1>5 DEF Max
<1> QED
  BY <1>6

\* The rules that come last leave no label before the annexes behind them, and the
\* entries of the executive summary together.
RulesHold(es, ls) == NothingBeforeAnnexes(es, ls) /\ OneSummary(es, ls)

LEMMA AnnexesLast ==
    ASSUME NEW es, NEW ls, DOMAIN es \subseteq Nat
    PROVE  NothingBeforeAnnexes(es, AnnexBoundary(es, ls))
<1> DEFINE A == {i \in DOMAIN es : ls[i] = "annexes"}
           new == AnnexBoundary(es, ls)
<1>1. \A i \in DOMAIN es :
         new[i] = IF A # {} /\ i > Min(A) /\ ls[i] \in PreAnnex THEN "annexes" ELSE ls[i]
  BY DEF AnnexBoundary
<1>2. A # {} => Min(A) \in Nat /\ \A k \in A : Min(A) <= k
  BY LeastIsMin
<1> HIDE DEF new
<1>3. ASSUME NEW i \in DOMAIN es, NEW j \in DOMAIN es, i < j, new[i] = "annexes"
      PROVE  new[j] \notin PreAnnex
  <2>1. A # {} /\ Min(A) <= i /\ Min(A) \in Nat
    <3>1. CASE ls[i] = "annexes"
      BY <1>2, <3>1
    <3>2. CASE ls[i] # "annexes"
      <4>1. A # {} /\ i > Min(A)
        BY <1>1, <1>3, <3>2
      <4> QED
        BY <1>2, <4>1
    <3> QED
      BY <3>1, <3>2
  <2>2. j > Min(A)
    BY <1>3, <2>1
  <2>3. "annexes" \notin PreAnnex
    BY DEF PreAnnex
  <2> QED
    BY <1>1, <2>1, <2>2, <2>3
<1> QED
  BY <1>3 DEF NothingBeforeAnnexes, new

LEMMA SummaryTogether ==
    ASSUME NEW es, NEW ls, DOMAIN es \subseteq Nat, NothingBeforeAnnexes(es, ls)
    PROVE  RulesHold(es, SummaryUniqueness(es, ls))
<1> DEFINE X == {i \in DOMAIN es : ls[i] = "executive_summary"}
           later(i) == \E j \in DOMAIN es \ X : Min(X) < j /\ j < i
           new == SummaryUniqueness(es, ls)
<1>1. \A i \in DOMAIN es : new[i] = IF i \in X /\ later(i) THEN "findings" ELSE ls[i]
  BY DEF SummaryUniqueness
<1>2. X # {} => Min(X) \in Nat /\ \A k \in X : Min(X) <= k
  BY LeastIsMin
<1>3. \A i \in DOMAIN es : new[i] = "executive_summary" => i \in X /\ ~later(i)
  BY <1>1
<1> HIDE DEF new
<1>4. ASSUME NEW i \in DOMAIN es, NEW j \in DOMAIN es, i < j, new[i] = "annexes"
      PROVE  new[j] \notin PreAnnex
  <2>1. ls[i] = "annexes"
    BY <1>1, <1>4
  <2>2. ls[j] \notin PreAnnex
    BY <1>4, <2>1 DEF NothingBeforeAnnexes
  <2>3. j \notin X
    BY <2>2 DEF PreAnnex
  <2> QED
    BY <1>1, <2>2, <2>3
<1>5. ASSUME NEW i \in DOMAIN es, NEW j \in DOMAIN es, NEW k \in DOMAIN es, i < j, j < k,
             new[i] = "executive_summary", new[k] = "executive_summary"
      PROVE  new[j] = "executive_summary"
  <2>1. i \in X /\ k \in X /\ ~later(k)
    BY <1>3, <1>5
  <2>2. Min(X) \in Nat /\ Min(X) < j
    BY <1>2, <1>5, <2>1
  <2>3. j \in X
    BY <1>5, <2>1, <2>2
  <2>4. ~later(j)
    <3> SUFFICES ASSUME NEW m \in DOMAIN es \ X, Min(X) < m, m < j
                 PROVE  FALSE
      OBVIOUS
    <3>1. m < k
      BY <1>5
    <3> QED
      BY <2>1, <3>1
  <2> QED
    BY <1>1, <2>3, <2>4
<1> QED
  BY <1>4, <1>5 DEF RulesHold, NothingBeforeAnnexes, OneSummary, new

LEMMA SequencedHolds ==
    ASSUME NEW es, NEW total, NEW ls, DOMAIN es \subseteq Nat
    PROVE  RulesHold(es, Sequenced(es, total, ls))
<1>1. ASSUME NEW was PROVE RulesHold(es, Settled(es, total, was))
  <2> DEFINE last == SummaryUniqueness(es, AnnexBoundary(es, ExplicitAnnexes(es, was)))
             new == Settled(es, total, was)
  <2>1. RulesHold(es, last)
    BY AnnexesLast, SummaryTogether
  <2>2. \A i \in DOMAIN es : new[i] = last[i] \/ (last[i] = "front_matter" /\ new[i] = "other")
    <3> HIDE DEF last
    <3>1. new = FrontNeedsFrontPages(es, total, last)
      BY DEF Settled, last
    <3> QED
      BY <3>1 DEF FrontNeedsFrontPages
  <2> HIDE DEF last, new
  <2>3. NothingBeforeAnnexes(es, new)
    BY <2>1, <2>2 DEF RulesHold, NothingBeforeAnnexes, PreAnnex
  <2>4. OneSummary(es, new)
    BY <2>1, <2>2 DEF RulesHold, OneSummary
  <2> QED
    BY <2>3, <2>4 DEF RulesHold, new
<1>2. RulesHold(es, [i \in DOMAIN es |-> "executive_summary"])
  BY DEF RulesHold, NothingBeforeAnnexes, OneSummary
<1> QED
  BY <1>1, <1>2 DEF Sequenced

-----------------------------------------------------------------------------
\* Labels that the rules have left for the contents of t.
Ruled(t, labels) == RulesHold(Entries[t], labels)

LEMMA EntriesArePlaces ==
    ASSUME NEW t \in Tocs
    PROVE  DOMAIN Entries[t] \subseteq Nat
<1>1. Entries[t] \in Seq([title : Titles, level : Nat, page : Nat, front : BOOLEAN])
  BY ContentsAssumption
<1> QED
  BY <1>1, LenProperties

\* What the chunks are labelled with is of one list that the rules have left.
OneContents ==
    \E labels : /\ Ruled(toc, labels)
                /\ \A p \in Passages : sections[p] # Unlabelled =>
                      sections[p] = SectionAt(toc, labels, p)

ContentsTypeOK ==
    /\ toc \in Tocs
    /\ sections = [p \in Passages |-> sections[p]]

\* A worker that is at a document has its contents, and its cache is of them.
AtDocument ==
    /\ worker.at = "idle" => cache = Nothing
    /\ worker = [at |-> worker.at, doc |-> worker.doc]
    /\ worker.at # "idle" => worker.doc.toc = toc
    /\ worker.at \in {"indexed", "chunks"} => stage = "indexed"
    /\ worker.at = "save" => cache # Nothing
    /\ cache # Nothing =>
          /\ cache = [of |-> cache.of, labels |-> cache.labels, unsaved |-> cache.unsaved,
                      own |-> cache.own]
          /\ cache.of = toc /\ Ruled(toc, cache.labels)

\* Chunks are tagged from the cache, once they are indexed.
TaggedFromCache ==
    /\ stage \in {"summarized", "tagging", "tagged", "indexing"} => sections = Untagged
    /\ worker.at \notin {"idle", "chunks"} => sections = Untagged
    /\ worker.at = "chunks" /\ cache = Nothing => sections = Untagged
    /\ cache # Nothing => \A p \in Passages : sections[p] # Unlabelled =>
                              sections[p] = SectionAt(toc, cache.labels, p)

\* What a worker saved is there, also in what the index stage writes back.
SavedStays ==
    cache # Nothing /\ cache.own =>
        /\ ~cache.unsaved => classified = AsSaved(cache)
        /\ worker.at = "index" => worker.doc.classified = classified

ContentsIInv == ContentsTypeOK /\ AtDocument /\ TaggedFromCache /\ SavedStays /\ OneContents

LEMMA UntaggedList ==
    ASSUME NEW t \in Tocs
    PROVE  \E labels : /\ Ruled(t, labels)
                       /\ \A p \in Passages : Untagged[p] # Unlabelled =>
                             Untagged[p] = SectionAt(t, labels, p)
<1>1. \A p \in Passages : Untagged[p] = Unlabelled
  BY DEF Untagged
<1>2. PICK labels : labels = Sequenced(Entries[t], 0, <<>>)
  OBVIOUS
<1>3. Ruled(t, labels)
  BY <1>2, EntriesArePlaces, SequencedHolds DEF Ruled
<1> QED
  BY <1>1, <1>3

LEMMA ContentsStart == ContentsInit => ContentsIInv
<1> SUFFICES ASSUME ContentsInit PROVE ContentsIInv
  OBVIOUS
<1>1. /\ toc \in Tocs /\ sections = Untagged /\ cache = Nothing /\ worker = AtRest
      /\ worker.at = "idle" /\ worker = [at |-> worker.at, doc |-> worker.doc]
  BY DEF ContentsInit, AtRest
<1>2. OneContents
  BY <1>1, UntaggedList DEF OneContents
<1> QED
  BY <1>1, <1>2 DEF ContentsIInv, ContentsTypeOK, AtDocument, TaggedFromCache, SavedStays, Untagged

\* A cache that was just made is of the document, ruled, and not saved by this worker.
LEMMA NewCache ==
    ASSUME ContentsIInv, worker.at # "idle", NEW onto, Classify(onto)
    PROVE  /\ cache' # Nothing
           /\ cache' = [of |-> cache'.of, labels |-> cache'.labels, unsaved |-> cache'.unsaved,
                        own |-> cache'.own]
           /\ cache'.of = toc /\ Ruled(toc, cache'.labels)
           /\ cache'.own => cache'.unsaved
<1>1. toc \in Tocs /\ worker.doc.toc = toc /\ DOMAIN Entries[toc] \subseteq Nat
  BY EntriesArePlaces DEF ContentsIInv, ContentsTypeOK, AtDocument
<1>2. PICK c : c = cache'
  OBVIOUS
<1>3. \E total, ls : \E u, w \in BOOLEAN :
         /\ c = [of |-> toc, labels |-> Sequenced(Entries[toc], total, ls), unsaved |-> u, own |-> w]
         /\ w => u
  <2>1. CASE Restorable(worker.doc)
    <3>1. c = Restored(worker.doc)
      BY <1>2, <2>1 DEF Classify
    <3> QED
      BY <1>1, <3>1 DEF Restored
  <2>2. CASE ~Restorable(worker.doc)
    <3>1. c \in Computed(worker.doc)
      BY <1>2, <2>2 DEF Classify
    <3>2. PICK ls : c = [of |-> worker.doc.toc,
                         labels |-> Classified(Entries[worker.doc.toc],
                                               PageCount[worker.doc.toc], ls),
                         unsaved |-> TRUE, own |-> TRUE]
      BY <3>1 DEF Computed
    <3> QED
      BY <1>1, <3>2 DEF Classified
  <2> QED
    BY <2>1, <2>2
<1>4. PICK total, ls, u, w :
         /\ c = [of |-> toc, labels |-> Sequenced(Entries[toc], total, ls), unsaved |-> u, own |-> w]
         /\ w => u
  BY <1>3
<1>5. PICK labels : labels = Sequenced(Entries[toc], total, ls)
  OBVIOUS
<1>6. Ruled(toc, labels)
  BY <1>1, <1>5, SequencedHolds DEF Ruled
<1>7. c = [of |-> toc, labels |-> labels, unsaved |-> u, own |-> w]
  BY <1>4, <1>5
<1>8. c # Nothing
  <2>1. "of" \in DOMAIN c
    BY <1>7
  <2>2. DOMAIN Nothing = {}
    BY DEF Nothing
  <2> QED
    BY <2>1, <2>2
<1>9. c.of = toc /\ c.labels = labels /\ c.unsaved = u /\ c.own = w
  BY <1>7
<1> QED
  BY <1>2, <1>4, <1>6, <1>7, <1>8, <1>9

\* Saving changes what is saved and that it is, and the cache in nothing else.
LEMMA SavedCache ==
    ASSUME ContentsIInv, cache # Nothing, Save
    PROVE  /\ cache' # Nothing
           /\ cache' = [of |-> cache'.of, labels |-> cache'.labels, unsaved |-> cache'.unsaved,
                        own |-> cache'.own]
           /\ cache'.of = cache.of /\ cache'.labels = cache.labels
           /\ cache'.own => cache.own
           /\ cache'.own /\ ~cache'.unsaved => classified' = AsSaved(cache')
<1>1. PICK o, ls, u, w : cache = [of |-> o, labels |-> ls, unsaved |-> u, own |-> w]
  BY DEF ContentsIInv, AtDocument
<1>2. CASE UNCHANGED <<classified, cache>>
  BY <1>2 DEF ContentsIInv, AtDocument, SavedStays, AsSaved
<1>3. CASE classified' = AsSaved(cache) /\ cache' = [cache EXCEPT !.unsaved = FALSE]
  <2>1. cache' = [of |-> o, labels |-> ls, unsaved |-> FALSE, own |-> w]
    BY <1>1, <1>3
  <2>2. cache' # Nothing
    <3>1. "of" \in DOMAIN cache'
      BY <2>1
    <3>2. DOMAIN Nothing = {}
      BY DEF Nothing
    <3> QED
      BY <3>1, <3>2
  <2> QED
    BY <1>1, <1>3, <2>1, <2>2 DEF AsSaved
<1> QED
  BY <1>2, <1>3 DEF Save

LEMMA ContentsInductive == ContentsIInv /\ [ContentsNext]_contentsVars => ContentsIInv'
<1> SUFFICES ASSUME ContentsIInv, [ContentsNext]_contentsVars PROVE ContentsIInv'
  OBVIOUS
<1>0. ContentsTypeOK /\ AtDocument /\ TaggedFromCache /\ SavedStays /\ OneContents
  BY DEF ContentsIInv
<1>a. ASSUME UNCHANGED <<toc, sections>> PROVE ContentsTypeOK' /\ OneContents'
  BY <1>0, <1>a DEF ContentsTypeOK, OneContents
<1>1. CASE UNCHANGED contentsVars
  BY <1>0, <1>1 DEF contentsVars, ContentsIInv, ContentsTypeOK, AtDocument, TaggedFromCache,
        SavedStays, OneContents
<1>2. ASSUME NEW t \in Tocs, Reparse(t) PROVE ContentsIInv'
  <2>1. /\ toc' = t /\ sections' = Untagged /\ UNCHANGED <<classified, worker, cache>>
        /\ worker.at = "idle" /\ cache = Nothing /\ stage' = "summarized"
    BY <1>0, <1>2 DEF Reparse, AtDocument
  <2>2. OneContents'
    BY <2>1, UntaggedList DEF OneContents
  <2>3. ContentsTypeOK'
    BY <2>1 DEF ContentsTypeOK, Untagged
  <2> QED
    BY <1>0, <2>1, <2>2, <2>3 DEF ContentsIInv, AtDocument, TaggedFromCache, SavedStays
<1>3. CASE StartTagging \/ StartIndexing
  <2>1. /\ UNCHANGED <<toc, classified, cache, sections>>
        /\ \E at \in {"classify", "index"} : worker' = [at |-> at, doc |-> Loaded]
        /\ sections = Untagged
    BY <1>0, <1>3 DEF StartTagging, StartIndexing, TaggedFromCache
  <2>2. PICK at \in {"classify", "index"} : worker' = [at |-> at, doc |-> Loaded]
    BY <2>1
  <2>3. /\ worker'.at = at /\ worker' = [at |-> worker'.at, doc |-> worker'.doc]
        /\ worker'.doc.toc = toc /\ worker'.doc.classified = classified
    BY <2>2 DEF Loaded
  <2>4. AtDocument'
    BY <1>0, <2>1, <2>2, <2>3 DEF AtDocument
  <2>5. TaggedFromCache'
    BY <2>1, <2>2, <2>3 DEF TaggedFromCache, Untagged
  <2>6. SavedStays'
    BY <1>0, <2>1, <2>3 DEF SavedStays
  <2> QED
    BY <1>a, <2>1, <2>4, <2>5, <2>6 DEF ContentsIInv
<1>4. CASE ClassifyContents \/ ClassifyForChunks
  <2>1. PICK onto : /\ Classify(onto) /\ cache = Nothing
                    /\ onto \in {"save", "chunks"} /\ worker' = [worker EXCEPT !.at = onto]
                    /\ worker.at \in {"classify", "chunks"}
                    /\ worker.at = "chunks" <=> onto = "chunks"
                    /\ UNCHANGED <<toc, classified, stage, sections>>
    BY <1>4 DEF ClassifyContents, ClassifyForChunks, Classify
  <2>2. /\ worker'.at = onto /\ worker' = [at |-> worker'.at, doc |-> worker'.doc]
        /\ worker'.doc = worker.doc
    BY <1>0, <2>1 DEF AtDocument
  <2>3. sections = Untagged
    BY <1>0, <2>1 DEF TaggedFromCache
  <2>4. /\ cache' # Nothing
        /\ cache' = [of |-> cache'.of, labels |-> cache'.labels, unsaved |-> cache'.unsaved,
                     own |-> cache'.own]
        /\ cache'.of = toc /\ Ruled(toc, cache'.labels)
        /\ cache'.own => cache'.unsaved
    BY <2>1, NewCache
  <2>5. AtDocument'
    BY <1>0, <2>1, <2>2, <2>4 DEF AtDocument
  <2>6. TaggedFromCache'
    BY <2>1, <2>3, <2>4 DEF TaggedFromCache, Untagged
  <2>7. SavedStays'
    BY <2>1, <2>2, <2>4 DEF SavedStays
  <2> QED
    BY <1>a, <2>1, <2>5, <2>6, <2>7 DEF ContentsIInv
<1>5. CASE SaveContents
  <2>1. /\ worker.at = "save" /\ Save /\ worker' = [worker EXCEPT !.at = "tagged"]
        /\ UNCHANGED <<toc, stage, sections>>
    BY <1>5 DEF SaveContents
  <2>2. /\ worker'.at = "tagged" /\ worker' = [at |-> worker'.at, doc |-> worker'.doc]
        /\ worker'.doc = worker.doc
    BY <1>0, <2>1 DEF AtDocument
  <2>3. sections = Untagged
    BY <1>0, <2>1 DEF TaggedFromCache
  <2>4. cache # Nothing
    BY <1>0, <2>1 DEF AtDocument
  <2>5. /\ cache' # Nothing
        /\ cache' = [of |-> cache'.of, labels |-> cache'.labels, unsaved |-> cache'.unsaved,
                     own |-> cache'.own]
        /\ cache'.of = cache.of /\ cache'.labels = cache.labels
        /\ cache'.own /\ ~cache'.unsaved => classified' = AsSaved(cache')
    BY <2>1, <2>4, SavedCache
  <2>6. AtDocument'
    BY <1>0, <2>1, <2>2, <2>4, <2>5 DEF AtDocument
  <2>7. TaggedFromCache'
    BY <1>0, <2>1, <2>2, <2>3, <2>5 DEF TaggedFromCache, Untagged
  <2>8. SavedStays'
    BY <2>2, <2>5 DEF SavedStays, AsSaved
  <2> QED
    BY <1>a, <2>1, <2>6, <2>7, <2>8 DEF ContentsIInv
<1>6. CASE FinishTagging \/ StartChunks
  <2>1. /\ UNCHANGED <<toc, classified, cache, sections>> /\ sections = Untagged
        /\ worker.at \notin {"idle"}
        /\ \/ worker'.at = "ready" /\ worker' = [worker EXCEPT !.at = "ready"] /\ stage' = "tagged"
           \/ worker' = [at |-> "chunks", doc |-> Loaded] /\ stage' = "indexed"
    BY <1>0, <1>6 DEF FinishTagging, StartChunks, TaggedFromCache, AtDocument
  <2>2. /\ worker'.at \in {"ready", "chunks"} /\ worker' = [at |-> worker'.at, doc |-> worker'.doc]
        /\ worker'.doc.toc = toc /\ (worker'.at = "chunks" => stage' = "indexed")
    BY <1>0, <2>1 DEF Loaded, AtDocument
  <2>3. AtDocument'
    BY <1>0, <2>1, <2>2 DEF AtDocument
  <2>4. TaggedFromCache'
    BY <2>1 DEF TaggedFromCache, Untagged
  <2>5. SavedStays'
    BY <1>0, <2>1, <2>2 DEF SavedStays
  <2> QED
    BY <1>a, <2>1, <2>3, <2>4, <2>5 DEF ContentsIInv
<1>7. CASE Index
  <2>1. /\ worker.at = "index" /\ sections' = Untagged /\ classified' = worker.doc.classified
        /\ stage' = "indexed" /\ worker' = [worker EXCEPT !.at = "indexed"]
        /\ UNCHANGED <<toc, cache>>
    BY <1>7 DEF Index
  <2>2. /\ worker'.at = "indexed" /\ worker' = [at |-> worker'.at, doc |-> worker'.doc]
        /\ worker'.doc = worker.doc
    BY <1>0, <2>1 DEF AtDocument
  <2>3. OneContents' /\ ContentsTypeOK'
    BY <1>0, <2>1, UntaggedList DEF OneContents, ContentsTypeOK, Untagged
  <2>4. AtDocument'
    BY <1>0, <2>1, <2>2 DEF AtDocument
  <2>5. TaggedFromCache'
    BY <2>1, <2>2 DEF TaggedFromCache, Untagged
  <2>6. SavedStays'
    BY <1>0, <2>1, <2>2 DEF SavedStays
  <2> QED
    BY <2>3, <2>4, <2>5, <2>6 DEF ContentsIInv
<1>8. ASSUME NEW p \in Passages, TagChunk(p) PROVE ContentsIInv'
  <2>1. /\ worker.at = "chunks" /\ cache # Nothing /\ Save
        /\ sections' = [sections EXCEPT ![p] = SectionAt(cache.of, cache.labels, p)]
        /\ UNCHANGED <<toc, stage, worker>> /\ stage = "indexed"
    BY <1>0, <1>8 DEF TagChunk, AtDocument
  <2>2. /\ cache' # Nothing
        /\ cache' = [of |-> cache'.of, labels |-> cache'.labels, unsaved |-> cache'.unsaved,
                     own |-> cache'.own]
        /\ cache'.of = cache.of /\ cache'.labels = cache.labels
        /\ cache'.own /\ ~cache'.unsaved => classified' = AsSaved(cache')
    BY <2>1, SavedCache
  <2>3. PICK ls : ls = cache.labels
    OBVIOUS
  <2>4. cache.of = toc /\ Ruled(toc, ls)
    BY <1>0, <2>1, <2>3 DEF AtDocument
  <2>5. \A q \in Passages : sections'[q] # Unlabelled => sections'[q] = SectionAt(toc, ls, q)
    <3>1. \A q \in Passages : sections[q] # Unlabelled => sections[q] = SectionAt(toc, ls, q)
      BY <1>0, <2>1, <2>3 DEF TaggedFromCache
    <3>2. \A q \in Passages : sections'[q] = IF q = p THEN SectionAt(toc, ls, p) ELSE sections[q]
      BY <1>0, <2>1, <2>3, <2>4 DEF ContentsTypeOK
    <3> QED
      BY <3>1, <3>2
  <2>6. OneContents'
    BY <2>1, <2>4, <2>5 DEF OneContents
  <2>7. ContentsTypeOK'
    BY <1>0, <2>1 DEF ContentsTypeOK
  <2>8. AtDocument'
    BY <1>0, <2>1, <2>2 DEF AtDocument
  <2>9. TaggedFromCache'
    BY <2>1, <2>2, <2>3, <2>5 DEF TaggedFromCache
  <2>10. SavedStays'
    BY <2>1, <2>2 DEF SavedStays
  <2> QED
    BY <2>6, <2>7, <2>8, <2>9, <2>10 DEF ContentsIInv
<1>9. CASE WorkerEnds
  <2>1. worker' = AtRest /\ cache' = Nothing /\ UNCHANGED <<toc, classified, stage, sections>>
    BY <1>9 DEF WorkerEnds
  <2>2. worker'.at = "idle" /\ worker' = [at |-> worker'.at, doc |-> worker'.doc]
    BY <2>1 DEF AtRest
  <2> QED
    BY <1>0, <1>a, <2>1, <2>2 DEF ContentsIInv, AtDocument, TaggedFromCache, SavedStays
<1>10. CASE OpenContents
  BY <1>0, <1>a, <1>10 DEF OpenContents, ContentsIInv, AtDocument, TaggedFromCache, SavedStays
<1>11. ASSUME NEW i, NEW l, EditContents(i, l) PROVE ContentsIInv'
  <2>1. /\ cache' = IF cache = Nothing THEN cache ELSE [cache EXCEPT !.own = FALSE]
        /\ UNCHANGED <<toc, stage, worker, sections>>
    BY <1>11 DEF EditContents
  <2>2. CASE cache = Nothing
    BY <1>0, <1>a, <2>1, <2>2 DEF ContentsIInv, AtDocument, TaggedFromCache, SavedStays
  <2>3. CASE cache # Nothing
    <3>1. PICK o, ls, u, w : cache = [of |-> o, labels |-> ls, unsaved |-> u, own |-> w]
      BY <1>0, <2>3 DEF AtDocument
    <3>2. cache' = [of |-> o, labels |-> ls, unsaved |-> u, own |-> FALSE]
      BY <2>1, <2>3, <3>1
    <3>0. cache' # Nothing
      <4>1. "of" \in DOMAIN cache'
        BY <3>2
      <4>2. DOMAIN Nothing = {}
        BY DEF Nothing
      <4> QED
        BY <4>1, <4>2
    <3>3. /\ cache'.of = cache.of /\ cache'.labels = cache.labels /\ ~cache'.own
          /\ cache' = [of |-> cache'.of, labels |-> cache'.labels, unsaved |-> cache'.unsaved,
                       own |-> cache'.own]
      BY <3>1, <3>2
    <3>4. AtDocument'
      BY <1>0, <2>1, <2>3, <3>0, <3>3 DEF AtDocument
    <3>5. TaggedFromCache'
      BY <1>0, <2>1, <2>3, <3>0, <3>3 DEF TaggedFromCache
    <3>6. SavedStays'
      BY <3>3 DEF SavedStays
    <3> QED
      BY <1>a, <2>1, <3>4, <3>5, <3>6 DEF ContentsIInv
  <2> QED
    BY <2>2, <2>3
<1> QED
  BY <1>1, <1>2, <1>3, <1>4, <1>5, <1>6, <1>7, <1>8, <1>9, <1>10, <1>11 DEF ContentsNext

\* What a worker that has classified and saved the contents itself tags the chunks with is
\* what the saved contents say of their pages, whatever failed to be saved at first and
\* although the index stage writes the document back - unless somebody edits them
\* meanwhile (_run_tag_stage, _run_index_stage, classify_document_toc).
THEOREM ChunksAlwaysFollow == ContentsSpec => []ChunksFollowContents
<1>1. ContentsIInv => ChunksFollowContents
  BY DEF ContentsIInv, AtDocument, TaggedFromCache, SavedStays, ChunksFollowContents, AsSaved
<1> QED
  BY <1>1, ContentsStart, ContentsInductive, PTL DEF ContentsSpec

-----------------------------------------------------------------------------
\* Entries with a page are in the order of their pages, as headings are found.
EntriesInOrder ==
    \A t \in Tocs : \A i, j \in DOMAIN Entries[t] :
        i < j /\ Entries[t][i].page # 0 /\ Entries[t][j].page # 0 =>
            Entries[t][i].page <= Entries[t][j].page

\* The entry of a page is the last that is reached by it, so later pages have later ones.
LEMMA EntriesFollowPages ==
    ASSUME EntriesInOrder, NEW t \in Tocs, NEW p \in Nat, NEW q \in Nat, p < q
    PROVE  /\ EntryAt(t, p) \in {0} \cup DOMAIN Entries[t]
           /\ EntryAt(t, q) \in {0} \cup DOMAIN Entries[t]
           /\ EntryAt(t, p) <= EntryAt(t, q)
<1> DEFINE es == Entries[t]
           reached(r) == {i \in DOMAIN es : es[i].page \in 1 .. r}
           nearest(r) == {i \in reached(r) : \A j \in reached(r) : es[j].page <= es[i].page}
<1>1. PICK n \in Nat : DOMAIN es = 1 .. n /\ \A i \in 1 .. n : es[i].page \in Nat
  <2>1. es \in Seq([title : Titles, level : Nat, page : Nat, front : BOOLEAN])
    BY ContentsAssumption
  <2>2. DOMAIN es = 1 .. Len(es) /\ Len(es) \in Nat
    BY <2>1, LenProperties
  <2>3. \A i \in 1 .. Len(es) : es[i] \in [title : Titles, level : Nat, page : Nat, front : BOOLEAN]
    BY <2>1, ElementOfSeq
  <2> QED
    BY <2>2, <2>3
<1>2. \A i, j \in 1 .. n : i < j /\ es[i].page # 0 /\ es[j].page # 0 => es[i].page <= es[j].page
  BY <1>1 DEF EntriesInOrder
<1>3. \A r : EntryAt(t, r) = IF reached(r) = {} THEN 0 ELSE Max(nearest(r))
  BY DEF EntryAt
<1>4. ASSUME NEW r \in Nat, reached(r) # {}
      PROVE  /\ EntryAt(t, r) \in reached(r)
             /\ \A k \in reached(r) : k <= EntryAt(t, r)
  <2>1. reached(r) \in SUBSET (1 .. n)
    BY <1>1
  <2>2. PICK m \in reached(r) : \A k \in reached(r) : k <= m
    <3> HIDE DEF reached
    <3> QED
      BY <1>4, <2>1, GreatestIsMax
  <2>3. ASSUME NEW j \in reached(r) PROVE es[j].page <= es[m].page
    <3>1. j \in 1 .. n /\ m \in 1 .. n /\ es[j].page # 0 /\ es[m].page # 0 /\ j <= m
      BY <1>1, <2>2
    <3>2. j = m \/ j < m
      BY <3>1
    <3> QED
      BY <1>1, <1>2, <3>1, <3>2
  <2>4. m \in nearest(r) /\ nearest(r) \subseteq reached(r)
    BY <2>3
  <2>5. nearest(r) \in SUBSET (1 .. n) /\ nearest(r) # {}
    BY <2>1, <2>4
  <2> HIDE DEF nearest, reached
  <2>6. Max(nearest(r)) \in nearest(r) /\ \A k \in nearest(r) : k <= Max(nearest(r))
    BY <2>5, GreatestIsMax
  <2>7. Max(nearest(r)) = m
    <3>1. Max(nearest(r)) \in reached(r) /\ m <= Max(nearest(r))
      BY <2>4, <2>6
    <3>2. Max(nearest(r)) <= m /\ m \in 1 .. n /\ Max(nearest(r)) \in 1 .. n
      BY <2>1, <2>2, <3>1
    <3> QED
      BY <3>1, <3>2
  <2> QED
    BY <1>3, <1>4, <2>2, <2>7
<1>5. reached(p) \subseteq reached(q)
  BY <1>1
<1>6. reached(p) \subseteq 1 .. n /\ reached(q) \subseteq 1 .. n
  BY <1>1
<1> HIDE DEF reached, es
<1>7. CASE reached(p) = {}
  <2>1. EntryAt(t, p) = 0
    BY <1>3, <1>7
  <2>2. EntryAt(t, q) = 0 \/ EntryAt(t, q) \in 1 .. n
    BY <1>3, <1>4, <1>6
  <2> QED
    BY <1>1, <2>1, <2>2 DEF es
<1>8. CASE reached(p) # {}
  <2>1. EntryAt(t, p) \in reached(p)
    BY <1>4, <1>8
  <2>2. EntryAt(t, p) \in reached(q)
    BY <1>5, <2>1
  <2>3. EntryAt(t, q) \in 1 .. n /\ EntryAt(t, p) <= EntryAt(t, q)
    BY <1>4, <1>6, <2>2
  <2>4. EntryAt(t, p) \in 1 .. n
    BY <1>6, <2>1
  <2> QED
    BY <1>1, <2>3, <2>4 DEF es
<1> QED
  BY <1>7, <1>8

LEMMA ListGivesOrder ==
    ASSUME EntriesInOrder, ContentsTypeOK, OneContents
    PROVE  SectionsInOrder
<1>1. PICK labels : /\ Ruled(toc, labels)
                    /\ \A p \in Passages : sections[p] # Unlabelled =>
                          sections[p] = SectionAt(toc, labels, p)
  BY DEF OneContents
<1>2. toc \in Tocs /\ DOMAIN Entries[toc] \subseteq Nat /\ \A p \in Passages : p.page \in Nat
  BY ContentsAssumption, EntriesArePlaces DEF ContentsTypeOK
<1> DEFINE D == DOMAIN Entries[toc]
           e(p) == EntryAt(toc, p.page)
<1>3. \A p, q \in Passages : p.page < q.page => /\ e(p) \in {0} \cup D /\ e(q) \in {0} \cup D
                                                /\ e(p) <= e(q)
  BY <1>2, EntriesFollowPages
<1>4. /\ \A i, j \in D : i < j /\ labels[i] = "annexes" => labels[j] \notin PreAnnex
      /\ \A i, j, k \in D : /\ i < j /\ j < k
                            /\ labels[i] = "executive_summary" /\ labels[k] = "executive_summary"
                            => labels[j] = "executive_summary"
  BY <1>1 DEF Ruled, RulesHold, NothingBeforeAnnexes, OneSummary
<1>5. \A p \in Passages : sections[p] # Unlabelled /\ e(p) # 0 =>
          sections[p] = ValidLabel(labels[e(p)])
  BY <1>1 DEF SectionAt
<1>6. "annexes" \notin PreAnnex /\ "other" \notin PreAnnex
  BY DEF PreAnnex
<1>7. D \subseteq Nat
  BY <1>2
<1>8. /\ \A l : ValidLabel(l) \in {l, "other"}
      /\ ValidLabel("executive_summary") = "executive_summary"
  <2>1. 3 \in DOMAIN RuleOrder /\ RuleOrder[3] = "executive_summary"
    BY DEF RuleOrder
  <2>2. "executive_summary" \in Labels
    BY <2>1 DEF Labels
  <2> QED
    BY <2>2 DEF ValidLabel
<1> HIDE DEF e, D
<1> SUFFICES ASSUME NEW p \in Passages, NEW q \in Passages, e(p) # 0, p.page < q.page,
                    sections[p] # Unlabelled, sections[q] # Unlabelled
             PROVE  /\ sections[p] = "annexes" => sections[q] \notin PreAnnex
                    /\ \A r \in Passages :
                          /\ q.page < r.page /\ sections[p] = "executive_summary"
                          /\ sections[r] = "executive_summary"
                          => sections[q] = "executive_summary"
  BY DEF SectionsInOrder, e
<1>9. PICK a \in D : a = e(p) /\ a \in Nat \ {0}
  BY <1>3, <1>7
<1>10. PICK b \in D : b = e(q) /\ b \in Nat \ {0} /\ (a = b \/ a < b)
  <2>1. e(q) \in {0} \cup D /\ a <= e(q)
    BY <1>3, <1>9
  <2>2. PICK b \in {0} \cup D : b = e(q)
    BY <2>1
  <2>3. b \in Nat
    BY <1>7
  <2> QED
    BY <1>9, <2>1, <2>2, <2>3
<1>11. /\ sections[p] = ValidLabel(labels[a]) /\ sections[q] = ValidLabel(labels[b])
  BY <1>5, <1>9, <1>10
<1>12. ASSUME sections[p] = "annexes" PROVE sections[q] \notin PreAnnex
  <2>1. labels[a] = "annexes"
    BY <1>8, <1>11, <1>12
  <2>2. labels[b] \notin PreAnnex
    BY <1>4, <1>6, <1>10, <2>1
  <2>3. sections[q] \in {labels[b], "other"}
    BY <1>8, <1>11
  <2> QED
    BY <1>6, <2>2, <2>3
<1>13. ASSUME NEW r \in Passages, q.page < r.page, sections[p] = "executive_summary",
              sections[r] = "executive_summary"
       PROVE  sections[q] = "executive_summary"
  <2>1. PICK c \in D : c = e(r) /\ c \in Nat \ {0} /\ (b = c \/ b < c)
    <3>1. e(r) \in {0} \cup D /\ b <= e(r)
      BY <1>3, <1>10, <1>13
    <3>2. PICK c \in {0} \cup D : c = e(r)
      BY <3>1
    <3>3. c \in Nat
      BY <1>7
    <3> QED
      BY <1>10, <3>1, <3>2, <3>3
  <2>2. sections[r] # Unlabelled
    <3>1. sections[r] = sections[p]
      BY <1>13
    <3> QED
      BY <3>1
  <2>3. sections[r] = ValidLabel(labels[c])
    BY <1>5, <2>1, <2>2
  <2>4. labels[a] = "executive_summary" /\ labels[c] = "executive_summary"
    BY <1>8, <1>11, <1>13, <2>3
  <2>5. labels[b] = "executive_summary"
    BY <1>4, <1>10, <2>1, <2>4
  <2> QED
    BY <1>8, <1>11, <2>5
<1> QED
  BY <1>12, <1>13

\* Of contents whose entries are in the order of their pages, whatever the model answers, a
\* user edits or a worker restores of an earlier parse: from the first page that has an
\* entry on, no chunk behind the annexes has a section that belongs before them, and those
\* of the executive summary are consecutive (apply_sequence_rules,
\* select_toc_entry_by_page, tag_chunk).
THEOREM SectionsAlwaysInOrder ==
    ASSUME EntriesInOrder
    PROVE  ContentsSpec => []SectionsInOrder
<1>1. ContentsIInv => SectionsInOrder
  BY ListGivesOrder DEF ContentsIInv
<1> QED
  BY <1>1, ContentsStart, ContentsInductive, PTL DEF ContentsSpec

-----------------------------------------------------------------------------
(* The chunks of a document: lists                                         *)

\* Sequences are functions on 1 .. Len.
IsList(s) == Len(s) \in Nat /\ s = [k \in 1 .. Len(s) |-> s[k]]

LEMMA ListLength ==
    ASSUME NEW n \in Nat, NEW s, s = [k \in 1 .. n |-> s[k]]
    PROVE  IsList(s) /\ Len(s) = n /\ DOMAIN s = 1 .. n
<1> DEFINE S == {s[k] : k \in 1 .. n}
<1>1. DOMAIN s = 1 .. n
  OBVIOUS
<1>2. \A k \in 1 .. n : s[k] \in S
  OBVIOUS
<1> HIDE DEF S
<1>3. s \in [1 .. n -> S]
  BY <1>2
<1>4. Seq(S) = UNION {[1 .. k -> S] : k \in Nat}
  BY SeqDef
<1>5. s \in Seq(S)
  BY <1>3, <1>4
<1>6. Len(s) \in Nat /\ 1 .. Len(s) = 1 .. n
  BY <1>1, <1>5, LenProperties
<1>7. Len(s) = n
  <2>1. CASE Len(s) < n
    <3>1. n \in 1 .. n /\ n \notin 1 .. Len(s)
      BY <1>6, <2>1
    <3> QED
      BY <1>6, <3>1
  <2>2. CASE n < Len(s)
    <3>1. Len(s) \in 1 .. Len(s) /\ Len(s) \notin 1 .. n
      BY <1>6, <2>2
    <3> QED
      BY <1>6, <3>1
  <2> QED
    BY <1>6, <2>1, <2>2
<1> QED
  BY <1>1, <1>6, <1>7 DEF IsList

LEMMA ListDomain ==
    ASSUME NEW s, IsList(s)
    PROVE  DOMAIN s = 1 .. Len(s)
BY DEF IsList

LEMMA NoList ==
    IsList(<<>>) /\ Len(<<>>) = 0 /\ DOMAIN <<>> = {}
<1>1. Len(<<>>) = 0
  OBVIOUS
<1>2. 1 .. 0 = {} /\ <<>> = [k \in 1 .. 0 |-> <<>>[k]] /\ DOMAIN <<>> = {}
  OBVIOUS
<1> QED
  BY <1>1, <1>2 DEF IsList

LEMMA ListInSeq ==
    ASSUME NEW s, IsList(s), NEW S, \A k \in 1 .. Len(s) : s[k] \in S
    PROVE  s \in Seq(S)
<1>1. s \in [1 .. Len(s) -> S] /\ Len(s) \in Nat
  BY DEF IsList
<1>2. Seq(S) = UNION {[1 .. k -> S] : k \in Nat}
  BY SeqDef
<1> QED
  BY <1>1, <1>2

LEMMA AppendIsList ==
    ASSUME NEW s, IsList(s), NEW e
    PROVE  /\ IsList(Append(s, e)) /\ Len(Append(s, e)) = Len(s) + 1
           /\ \A k \in 1 .. Len(s) : Append(s, e)[k] = s[k]
           /\ Append(s, e)[Len(s) + 1] = e
<1> DEFINE S == {s[k] : k \in 1 .. Len(s)} \cup {e}
<1>1. (\A k \in 1 .. Len(s) : s[k] \in S) /\ e \in S
  OBVIOUS
<1> HIDE DEF S
<1>2. s \in Seq(S) /\ Len(s) \in Nat
  BY <1>1, ListInSeq DEF IsList
<1>3. /\ Append(s, e) \in Seq(S) /\ Len(Append(s, e)) = Len(s) + 1
      /\ \A k \in 1 .. Len(s) : Append(s, e)[k] = s[k]
      /\ Append(s, e)[Len(s) + 1] = e
  BY <1>1, <1>2, AppendProperties
<1>4. IsList(Append(s, e))
  BY <1>3, LenProperties DEF IsList
<1> QED
  BY <1>3, <1>4

\* An order of all members of a set.
Ordered(S, order) ==
    /\ \A c \in S : <<c, c>> \notin order
    /\ \A c, d \in S : c = d \/ <<c, d>> \in order \/ <<d, c>> \in order
    /\ \A c, d, x \in S : <<c, d>> \in order /\ <<d, x>> \in order => <<c, x>> \in order

\* A list of all members of a set, in an order.
Follows(l, S, order) ==
    /\ Cardinality(S) \in Nat
    /\ l = [k \in 1 .. Cardinality(S) |-> l[k]]
    /\ \A k \in 1 .. Cardinality(S) : l[k] \in S
    /\ \A c \in S : \E k \in 1 .. Cardinality(S) : l[k] = c
    /\ \A j, k \in 1 .. Cardinality(S) : j < k => <<l[j], l[k]>> \in order

LEMMA InTurnLists ==
    ASSUME NEW S, IsFiniteSet(S), NEW order, Ordered(S, order)
    PROVE  Follows(InTurn(S, order), S, order)
<1> DEFINE n == Cardinality(S)
           before(c) == {x \in S : <<x, c>> \in order}
           spot == [c \in S |-> Cardinality(before(c)) + 1]
           l == InTurn(S, order)
<1>1. n \in Nat
  BY FS_CardinalityType
<1>2. \A c, d \in S : \/ c = d \/ <<c, d>> \in order \/ <<d, c>> \in order
  BY DEF Ordered
<1>3. \A c, d, x \in S : <<x, c>> \in order /\ <<c, d>> \in order => <<x, d>> \in order
  BY DEF Ordered
<1>4. \A c \in S : <<c, c>> \notin order
  BY DEF Ordered
<1>5. \A c \in S : IsFiniteSet(before(c)) /\ Cardinality(before(c)) \in Nat
  <2>1. ASSUME NEW c \in S PROVE IsFiniteSet(before(c)) /\ Cardinality(before(c)) \in Nat
    <3>1. before(c) \in SUBSET S
      OBVIOUS
    <3>2. IsFiniteSet(before(c))
      BY <3>1, FS_Subset
    <3> QED
      BY <3>2, FS_CardinalityType
  <2> QED
    BY <2>1
<1>6. ASSUME NEW c \in S, NEW d \in S, <<c, d>> \in order
      PROVE  Cardinality(before(c)) + 1 <= Cardinality(before(d))
  <2>1. before(c) \cup {c} \in SUBSET before(d)
    BY <1>3, <1>6
  <2>2. c \notin before(c)
    BY <1>4
  <2> HIDE DEF before
  <2>3. /\ IsFiniteSet(before(c) \cup {c})
        /\ Cardinality(before(c) \cup {c}) = Cardinality(before(c)) + 1
    BY <1>5, <2>2, FS_AddElement
  <2>4. Cardinality(before(c) \cup {c}) <= Cardinality(before(d))
    BY <1>5, <2>1, FS_Subset
  <2> QED
    BY <2>3, <2>4
<1>7. \A c \in S : spot[c] \in 1 .. n
  <2>1. ASSUME NEW c \in S PROVE spot[c] \in 1 .. n
    <3>1. before(c) \cup {c} \in SUBSET S /\ c \notin before(c)
      BY <1>4
    <3> HIDE DEF before
    <3>2. Cardinality(before(c) \cup {c}) = Cardinality(before(c)) + 1
      BY <1>5, <3>1, FS_AddElement
    <3>3. Cardinality(before(c) \cup {c}) <= n
      BY <3>1, FS_Subset
    <3> QED
      BY <1>1, <1>5, <3>2, <3>3
  <2> QED
    BY <2>1
<1>8. \A c, d \in S : <<c, d>> \in order => spot[c] < spot[d]
  <2> HIDE DEF before
  <2> QED
    BY <1>5, <1>6
<1> HIDE DEF before
<1>9. \A c \in S : spot[c] = Cardinality(before(c)) + 1
  OBVIOUS
<1> HIDE DEF spot
<1>10. \A c, d \in S : spot[c] = spot[d] => c = d
  <2> SUFFICES ASSUME NEW c \in S, NEW d \in S, spot[c] = spot[d], c # d PROVE FALSE
    OBVIOUS
  <2>1. spot[c] \in Int /\ spot[d] \in Int
    BY <1>7
  <2>2. <<c, d>> \in order \/ <<d, c>> \in order
    BY <1>2
  <2>3. spot[c] < spot[d] \/ spot[d] < spot[c]
    BY <1>8, <2>2
  <2> QED
    BY <2>1, <2>3
<1>11. \A k \in 1 .. n : \E c \in S : spot[c] = k
  <2>1. spot \in Injection(S, 1 .. n)
    <3>1. spot \in [S -> 1 .. n]
      BY <1>7 DEF spot
    <3> QED
      BY <1>10, <3>1, Zenon DEF Injection, IsInjective
  <2>2. IsFiniteSet(1 .. n) /\ Cardinality(1 .. n) = n
    BY <1>1, FS_Interval
  <2>3. spot \in Surjection(S, 1 .. n)
    BY <2>1, <2>2, FS_Injection
  <2> QED
    BY <2>3 DEF Surjection
<1>12. l = [k \in 1 .. n |-> CHOOSE c \in S : Cardinality(before(c)) = k - 1]
  BY DEF InTurn, before
<1> HIDE DEF l
<1>13. ASSUME NEW k \in 1 .. n PROVE l[k] \in S /\ spot[l[k]] = k
  <2>1. PICK c \in S : spot[c] = k
    BY <1>11
  <2>2. Cardinality(before(c)) = k - 1
    BY <1>5, <1>9, <2>1
  <2>3. l[k] \in S /\ Cardinality(before(l[k])) = k - 1
    BY <1>12, <2>2
  <2>4. spot[l[k]] = Cardinality(before(l[k])) + 1
    BY <1>9, <2>3
  <2>5. k - 1 + 1 = k
    BY <1>1
  <2> QED
    BY <2>3, <2>4, <2>5
<1>14. \A c \in S : \E k \in 1 .. n : l[k] = c
  BY <1>7, <1>10, <1>13
<1>15. ASSUME NEW j \in 1 .. n, NEW k \in 1 .. n, j < k PROVE <<l[j], l[k]>> \in order
  <2>1. spot[l[j]] = j /\ spot[l[k]] = k /\ l[j] \in S /\ l[k] \in S
    BY <1>13
  <2>2. ~(k < j) /\ j # k
    BY <1>15
  <2> QED
    BY <1>2, <1>8, <2>1, <2>2
<1>16. l = [k \in 1 .. n |-> l[k]]
  BY <1>12
<1> QED
  BY <1>1, <1>13, <1>14, <1>15, <1>16 DEF Follows, l

\* A list of what another has at some places, no more and no less.
Draws(r, s, places) ==
    /\ IsList(r) /\ Len(r) = Cardinality(places)
    /\ \A k \in 1 .. Len(r) : \E i \in places : r[k] = s[i]
    /\ \A i \in places : \E k \in 1 .. Len(r) : r[k] = s[i]

LEMMA PickedLists ==
    ASSUME NEW s, NEW places, IsFiniteSet(places), places \subseteq Int
    PROVE  Draws(Picked(s, places), s, places)
<1> DEFINE order == {p \in places \X places : p[1] < p[2]}
           r == Picked(s, places)
           n == Cardinality(places)
<1>1. Ordered(places, order)
  BY DEF Ordered
<1>2. PICK o : o = Rising(places)
  OBVIOUS
<1>3. Follows(o, places, order)
  BY <1>1, <1>2, InTurnLists DEF Rising
<1> HIDE DEF order
<1>4. n \in Nat /\ r = [k \in 1 .. n |-> s[o[k]]]
  BY <1>2, <1>3 DEF Picked, Follows
<1> HIDE DEF r
<1>5. \A k \in 1 .. n : r[k] = s[o[k]]
  BY <1>4
<1>6. r = [k \in 1 .. n |-> r[k]]
  BY <1>4
<1>7. IsList(r) /\ Len(r) = n
  BY <1>4, <1>6, ListLength
<1>8. /\ \A k \in 1 .. n : \E i \in places : r[k] = s[i]
      /\ \A i \in places : \E k \in 1 .. n : r[k] = s[i]
  BY <1>3, <1>5 DEF Follows
<1> QED
  BY <1>7, <1>8 DEF Draws, r

-----------------------------------------------------------------------------
(* Elements                                                                *)

\* All that the chunks of a document can have.
Elements == [item : DOMAIN Items, page : UNION {Items[i].pages : i \in DOMAIN Items}]

LEMMA ItemsAre ==
    ASSUME paper \in Papers
    PROVE  /\ Len(Items) \in Nat /\ DOMAIN Items = 1 .. Len(Items)
           /\ \A i \in DOMAIN Items :
                 /\ Items[i].pages \in SUBSET Nat /\ IsFiniteSet(Items[i].pages)
                 /\ Items[i].place \in Int
BY ChunksAssumption DEF Items

LEMMA ElementsAreFew ==
    ASSUME paper \in Papers
    PROVE  /\ IsFiniteSet(Elements)
           /\ \A e \in Elements : /\ e.item \in Int /\ e.page \in Int
                                   /\ Items[e.item].place \in Int
<1>1. IsFiniteSet(DOMAIN Items) /\ DOMAIN Items \subseteq Int
  BY ItemsAre, FS_Interval
<1> DEFINE few == [i \in DOMAIN Items |-> Items[i].pages]
           sets == {Items[i].pages : i \in DOMAIN Items}
<1>2. IsFiniteSet(sets)
  <2>1. few \in [DOMAIN Items -> sets] /\ \A T \in sets : \E i \in DOMAIN Items : few[i] = T
    OBVIOUS
  <2>2. few \in Surjection(DOMAIN Items, sets)
    BY <2>1 DEF Surjection
  <2> HIDE DEF few, sets
  <2> QED
    BY <1>1, <2>2, FS_Surjection
<1>3. \A T \in sets : IsFiniteSet(T) /\ T \subseteq Int
  BY ItemsAre
<1> DEFINE leaves == UNION sets
<1>4. IsFiniteSet(leaves)
  BY <1>2, <1>3, FS_UNION
<1>5. leaves \subseteq Int
  BY <1>3
<1> HIDE DEF sets
<1> DEFINE pairs == (DOMAIN Items) \X leaves
           made == [p \in pairs |-> [item |-> p[1], page |-> p[2]]]
<1>6. Elements = [item : DOMAIN Items, page : leaves]
  BY DEF Elements, sets
<1> HIDE DEF leaves
<1>7. IsFiniteSet(pairs)
  BY <1>1, <1>4, FS_Product
<1>8. IsFiniteSet(Elements)
  <2>1. made \in [pairs -> Elements]
    BY <1>6
  <2>2. \A e \in Elements : \E p \in pairs : made[p] = e
    <3>1. ASSUME NEW e \in Elements PROVE \E p \in pairs : made[p] = e
      <4>1. /\ e.item \in DOMAIN Items /\ e.page \in leaves
            /\ e = [item |-> e.item, page |-> e.page]
        BY <1>6
      <4>2. <<e.item, e.page>> \in pairs /\ made[<<e.item, e.page>>] = e
        BY <4>1
      <4> QED
        BY <4>2
    <3> QED
      BY <3>1
  <2> HIDE DEF made, pairs
  <2>3. made \in Surjection(pairs, Elements)
    BY <2>1, <2>2 DEF Surjection
  <2> QED
    BY <1>7, <2>3, FS_Surjection
<1>9. ASSUME NEW e \in Elements
      PROVE  e.item \in Int /\ e.page \in Int /\ Items[e.item].place \in Int
  <2>1. e.item \in DOMAIN Items /\ e.page \in leaves
    BY <1>6
  <2> QED
    BY <1>1, <1>5, <2>1, ItemsAre
<1> QED
  BY <1>8, <1>9

LEMMA InOrderLists ==
    ASSUME paper \in Papers, NEW S \in SUBSET Elements
    PROVE  /\ \A k \in DOMAIN InOrder(S) : InOrder(S)[k] \in S
           /\ \A e \in S : \E k \in DOMAIN InOrder(S) : InOrder(S)[k] = e
           /\ S # {} => 1 \in DOMAIN InOrder(S)
<1> DEFINE order == {p \in S \X S : Precedes(p[1], p[2])}
<1>1. IsFiniteSet(S)
  BY ElementsAreFew, FS_Subset
<1>2. \A e \in S : /\ e.item \in Int /\ e.page \in Int /\ Items[e.item].place \in Int
  BY ElementsAreFew
<1>3. \A d, e \in S : d.item = e.item /\ d.page = e.page => d = e
  BY DEF Elements
<1>4. \A d, e \in S : <<d, e>> \in order <=> Precedes(d, e)
  OBVIOUS
<1> HIDE DEF order
<1>5. Ordered(S, order)
  <2>1. \A d \in S : ~Precedes(d, d)
    BY <1>2 DEF Precedes
  <2>2. ASSUME NEW d \in S, NEW e \in S PROVE d = e \/ Precedes(d, e) \/ Precedes(e, d)
    <3>1. d.item = e.item /\ d.page = e.page => d = e
      BY <1>3
    <3> QED
      BY <1>2, <3>1 DEF Precedes
  <2>3. ASSUME NEW c \in S, NEW d \in S, NEW e \in S, Precedes(c, d), Precedes(d, e)
        PROVE  Precedes(c, e)
    <3>1. /\ c.item \in Int /\ c.page \in Int /\ Items[c.item].place \in Int
          /\ d.item \in Int /\ d.page \in Int /\ Items[d.item].place \in Int
          /\ e.item \in Int /\ e.page \in Int /\ Items[e.item].place \in Int
      BY <1>2
    <3> QED
      BY <2>3, <3>1 DEF Precedes
  <2> QED
    BY <1>4, <2>1, <2>2, <2>3 DEF Ordered
<1>6. PICK l : l = InOrder(S)
  OBVIOUS
<1>7. Follows(l, S, order)
  BY <1>1, <1>5, <1>6, InTurnLists DEF InOrder, order
<1>8. DOMAIN l = 1 .. Cardinality(S) /\ Cardinality(S) \in Nat
  BY <1>7 DEF Follows
<1>9. /\ \A k \in DOMAIN l : l[k] \in S
      /\ \A e \in S : \E k \in DOMAIN l : l[k] = e
  BY <1>7, <1>8 DEF Follows
<1>10. S # {} => 1 \in DOMAIN l
  <2>1. \A k \in DOMAIN l : k \in Int /\ 1 <= k /\ k <= Cardinality(S)
    BY <1>8
  <2> QED
    BY <1>8, <1>9, <2>1
<1> QED
  BY <1>6, <1>9, <1>10

LEMMA ElementsInside ==
    ASSUME paper \in Papers, NEW run
    PROVE  ElementsOf(run) \in SUBSET Elements
<1>1. Inside(run) \subseteq DOMAIN Items
  BY DEF Inside
<1>2. UNION {Items[i].pages : i \in Inside(run)} \subseteq UNION {Items[i].pages : i \in DOMAIN Items}
  BY <1>1
<1>3. [item : Inside(run), page : UNION {Items[i].pages : i \in Inside(run)}] \subseteq Elements
  BY <1>1, <1>2 DEF Elements
<1> QED
  BY <1>3 DEF ElementsOf

-----------------------------------------------------------------------------
(* Footnotes                                                               *)

Numbers(S) == {NumberOf(e) : e \in {e \in S : HasNumber(e)}}

\* The first definitions are of the numbers that are defined.
LEMMA NotesFound ==
    ASSUME paper \in Papers, NEW cs, IsList(cs), \A k \in 1 .. Len(cs) : cs[k].elements \in SUBSET Elements
    PROVE  /\ DOMAIN NotesIn(cs) = UNION {Numbers(cs[k].elements) : k \in 1 .. Len(cs)}
           /\ \A n \in DOMAIN NotesIn(cs) :
                 /\ NotesIn(cs)[n] \in Elements /\ HasNumber(NotesIn(cs)[n])
                 /\ NumberOf(NotesIn(cs)[n]) = n
<1>1. DOMAIN cs = 1 .. Len(cs) /\ Len(cs) \in Nat
  BY ListDomain DEF IsList
<1> DEFINE first(n) == Min({k \in DOMAIN cs : Defining(cs[k], n) # {}})
<1>2. NotesIn(cs) = [n \in UNION {Numbers(cs[k].elements) : k \in DOMAIN cs} |->
                        InOrder(Defining(cs[first(n)], n))[1]]
  BY DEF NotesIn, Numbers
<1>3. ASSUME NEW n \in UNION {Numbers(cs[k].elements) : k \in DOMAIN cs}
      PROVE  InOrder(Defining(cs[first(n)], n))[1] \in Defining(cs[first(n)], n) /\ first(n) \in DOMAIN cs
  <2> DEFINE T == {k \in DOMAIN cs : Defining(cs[k], n) # {}}
  <2>1. PICK k \in DOMAIN cs : n \in Numbers(cs[k].elements)
    OBVIOUS
  <2>2. k \in T
    BY <2>1 DEF Numbers, Defining
  <2>3. T \in SUBSET Nat
    BY <1>1
  <2> HIDE DEF T
  <2>4. PICK m \in T : \A j \in T : m <= j
    BY <2>2, <2>3, LeastOf
  <2>5. Min(T) \in T
    BY <2>4 DEF Min
  <2>6. first(n) \in T
    BY <2>5 DEF T
  <2> HIDE DEF first
  <2>7. first(n) \in DOMAIN cs /\ Defining(cs[first(n)], n) # {}
    BY <2>6 DEF T
  <2>8. Defining(cs[first(n)], n) \in SUBSET Elements
    BY <1>1, <2>7 DEF Defining
  <2> QED
    BY <2>7, <2>8, InOrderLists
<1> HIDE DEF first
<1>4. ASSUME NEW n \in UNION {Numbers(cs[k].elements) : k \in DOMAIN cs}
      PROVE  /\ NotesIn(cs)[n] \in Elements /\ HasNumber(NotesIn(cs)[n])
             /\ NumberOf(NotesIn(cs)[n]) = n
  <2>1. NotesIn(cs)[n] = InOrder(Defining(cs[first(n)], n))[1]
    BY <1>2
  <2>2. NotesIn(cs)[n] \in Defining(cs[first(n)], n)
    BY <1>3, <2>1
  <2>3. cs[first(n)].elements \in SUBSET Elements
    BY <1>1, <1>3
  <2> QED
    BY <2>2, <2>3 DEF Defining
<1> QED
  BY <1>1, <1>2, <1>4

\* A definition for each of some numbers.
Defines(ns, D) ==
    /\ DOMAIN ns = D
    /\ \A n \in D : ns[n] \in Elements /\ HasNumber(ns[n]) /\ NumberOf(ns[n]) = n

\* What a chunk has to be for what was cut out of the document.
Has(c, own, D) ==
    /\ c.elements \in SUBSET Elements /\ Relevant(own) \subseteq c.elements
    /\ Numbers(c.elements) = Cited(c.elements) \cap D

LEMMA MendedHas ==
    ASSUME NEW c, c = [page |-> c.page, heading |-> c.heading,
                       elements |-> c.elements, whole |-> c.whole],
           c.elements \in SUBSET Elements, NEW ns, NEW D, Defines(ns, D), Numbers(c.elements) \subseteq D
    PROVE  /\ Mended(c, ns).page = c.page /\ Mended(c, ns).heading = c.heading
           /\ Has(Mended(c, ns), c.elements, D)
           /\ Mended(c, ns) = [page |-> c.page, heading |-> c.heading,
                               elements |-> Mended(c, ns).elements, whole |-> c.whole]
<1> DEFINE own == c.elements
           all == Relevant(own) \cup Added(own, ns)
<1>1. /\ Mended(c, ns) = [page |-> c.page, heading |-> c.heading, elements |-> all, whole |-> c.whole]
      /\ Mended(c, ns).elements = all
  BY DEF Mended
<1> DEFINE missing == Cited(own) \ Numbers(own)
<1>2. Added(own, ns) = {ns[n] : n \in missing \cap D}
  BY DEF Added, Numbers, Defines
<1>3. \A e \in Added(own, ns) : e \in Elements /\ HasNumber(e) /\ NumberOf(e) \in missing \cap D
  BY <1>2 DEF Defines
<1>4. \A e : HasNumber(e) => IsReference(e)
  BY DEF HasNumber, IsReference
<1>5. {e \in all : ~IsReference(e)} = {e \in own : ~IsReference(e)}
  BY <1>3, <1>4 DEF Relevant
<1>6. Cited(all) = Cited(own)
  BY <1>5 DEF Cited
<1>7. Numbers(all) = Cited(own) \cap D
  <2>1. ASSUME NEW n \in Numbers(all) PROVE n \in Cited(own) \cap D
    <3>1. PICK e \in all : HasNumber(e) /\ n = NumberOf(e)
      BY DEF Numbers
    <3>2. CASE e \in Added(own, ns)
      BY <1>3, <3>1, <3>2
    <3>3. CASE e \in Relevant(own)
      BY <3>1, <3>3 DEF Relevant, Numbers
    <3> QED
      BY <3>2, <3>3
  <2>2. ASSUME NEW n \in Cited(own) \cap D PROVE n \in Numbers(all)
    <3>1. CASE n \in Numbers(own)
      <4>1. PICK e \in own : HasNumber(e) /\ n = NumberOf(e)
        BY <3>1 DEF Numbers
      <4>2. e \in Relevant(own)
        BY <2>2, <4>1 DEF Relevant
      <4> QED
        BY <4>1, <4>2 DEF Numbers
    <3>2. CASE n \notin Numbers(own)
      <4>1. ns[n] \in Added(own, ns)
        BY <1>2, <3>2
      <4>2. HasNumber(ns[n]) /\ NumberOf(ns[n]) = n
        BY DEF Defines
      <4> QED
        BY <4>1, <4>2 DEF Numbers
    <3> QED
      BY <3>1, <3>2
  <2> QED
    BY <2>1, <2>2
<1>8. all \in SUBSET Elements
  BY <1>3 DEF Relevant
<1> HIDE DEF all
<1>9. Has(Mended(c, ns), own, D)
  <2>1. Relevant(own) \subseteq all
    BY DEF all
  <2> QED
    BY <1>1, <1>6, <1>7, <1>8, <2>1 DEF Has
<1> QED
  BY <1>1, <1>9

-----------------------------------------------------------------------------
(* The chunks at each step                                                 *)

Spared == {r \in DOMAIN cuts : Substantive(cuts[r])}
Defined == UNION {Numbers(ElementsOf(cuts[r])) : r \in Spared}

\* The chunks of some runs and of no others.
Read(cs, runs) ==
    /\ IsList(cs)
    /\ \A k \in 1 .. Len(cs) : \E r \in runs : Substantive(cuts[r]) /\ cs[k] = ChunkOf(cuts[r])
    /\ \A r \in runs : Substantive(cuts[r]) => \E k \in 1 .. Len(cs) : cs[k] = ChunkOf(cuts[r])

\* What the k-th chunk is of a run once the footnotes of the first m are in place.
Stands(c, run, ns, k, m) == c = IF k <= m THEN Mended(ChunkOf(run), ns) ELSE ChunkOf(run)
MendedUpTo(cs, ns, m) ==
    /\ IsList(cs)
    /\ \A k \in 1 .. Len(cs) : \E r \in Spared : Stands(cs[k], cuts[r], ns, k, m)
    /\ \A r \in Spared : \E k \in 1 .. Len(cs) : Stands(cs[k], cuts[r], ns, k, m)

\* A chunk that has the text of a run, and its footnotes.
Told(c) == {Items[e.item].says : e \in c.elements}
SaidIn(run) == {Items[e.item].says : e \in Relevant(ElementsOf(run))}
Covers(c, run) ==
    /\ c.page = ChunkOf(run).page /\ c.heading = ChunkOf(run).heading
    /\ SaidIn(run) \subseteq Told(c)
Entire(c) ==
    /\ c = [page |-> c.page, heading |-> c.heading, elements |-> c.elements, whole |-> c.whole]
    /\ Numbers(c.elements) = Cited(c.elements) \cap Defined
Whole(cs) ==
    /\ IsList(cs)
    /\ \A k \in 1 .. Len(cs) : Entire(cs[k])
    /\ \A r \in Spared : SaidIn(cuts[r]) = {} \/ \E k \in 1 .. Len(cs) : Covers(cs[k], cuts[r])

ChunksIInv ==
    /\ paper \in Papers
    /\ cutting \in {"none", "reading", "mending", "embedding", "done", "failed"}
    /\ cutting \in {"reading", "mending", "embedding", "done"} => IsList(cuts)
    /\ cutting = "reading" => readUpTo \in 0 .. Len(cuts) /\ Read(chunks, 1 .. readUpTo)
    /\ cutting = "mending" => /\ mended \in 0 .. Len(chunks) /\ Defines(notes, Defined)
                              /\ MendedUpTo(chunks, notes, mended)
    /\ cutting \in {"embedding", "done"} => Whole(chunks)

LEMMA WholeIsWhole == IsList(cuts) /\ Whole(chunks) => NotesFollow /\ TextIsKept
<1> SUFFICES ASSUME IsList(cuts), Whole(chunks) PROVE NotesFollow /\ TextIsKept
  OBVIOUS
<1>1. DOMAIN chunks = 1 .. Len(chunks)
  BY ListDomain DEF Whole
<1> DEFINE read == UNION {ElementsOf(cuts[k]) : k \in {k \in DOMAIN cuts : Substantive(cuts[k])}}
<1>2. {NumberOf(e) : e \in {e \in read : HasNumber(e)}} = Defined
  BY DEF Defined, Numbers, Spared
<1>3. NotesFollow
  BY <1>1, <1>2 DEF NotesFollow, Whole, Entire, Numbers
<1>4. TextIsKept
  BY <1>1 DEF TextIsKept, Whole, Covers, SaidIn, Told, Spared
<1> QED
  BY <1>3, <1>4

-----------------------------------------------------------------------------
(* The steps                                                               *)

\* What is said of a document's runs is the same after a step.
LEMMA SameRuns ==
    ASSUME paper' = paper, cuts' = cuts
    PROVE  /\ \A run : /\ Substantive(run)' = Substantive(run) /\ ChunkOf(run)' = ChunkOf(run)
                       /\ ElementsOf(run)' = ElementsOf(run)
           /\ Spared' = Spared /\ Defined' = Defined /\ Elements' = Elements
           /\ \A S : Numbers(S)' = Numbers(S)
<1>1. Items' = Items
  BY DEF Items
<1>2. Pieces' = Pieces
  BY <1>1 DEF Pieces, PiecesUpTo
<1>3. ASSUME NEW run PROVE Inside(run)' = Inside(run)
  BY <1>1, <1>2 DEF Inside
<1>4. ASSUME NEW run PROVE ElementsOf(run)' = ElementsOf(run)
  BY <1>1, <1>3 DEF ElementsOf
<1>5. ASSUME NEW run PROVE Substantive(run)' = Substantive(run)
  BY <1>1, <1>2, <1>4 DEF Substantive, IsNoise, SizeOf, KindOf
<1>6. ASSUME NEW run PROVE ChunkOf(run)' = ChunkOf(run)
  BY <1>1, <1>2, <1>3, <1>4 DEF ChunkOf
<1>7. ASSUME NEW S PROVE Numbers(S)' = Numbers(S)
  BY <1>1 DEF Numbers, NumberOf, HasNumber, KindOf
<1>8. Spared' = Spared
  BY <1>5 DEF Spared
<1>9. Defined' = Defined
  BY <1>4, <1>7, <1>8 DEF Defined
<1>10. Elements' = Elements
  BY <1>1 DEF Elements
<1> QED
  BY <1>4, <1>5, <1>6, <1>7, <1>8, <1>9, <1>10

LEMMA SameText ==
    ASSUME paper' = paper, cuts' = cuts, registry' = registry
    PROVE  /\ \A c, ns : Mended(c, ns)' = Mended(c, ns)
           /\ \A c : Told(c)' = Told(c) /\ Entire(c)' = Entire(c)
           /\ \A c, run : Covers(c, run)' = Covers(c, run)
           /\ \A run : SaidIn(run)' = SaidIn(run)
<1>1. Items' = Items
  BY DEF Items
<1>2. ASSUME NEW S PROVE Cited(S)' = Cited(S)
  BY <1>1 DEF Cited, IsReference, KindOf
<1>3. ASSUME NEW S PROVE Relevant(S)' = Relevant(S)
  BY <1>1, <1>2 DEF Relevant, HasNumber, KindOf, NumberOf
<1>4. ASSUME NEW S, NEW ns PROVE Added(S, ns)' = Added(S, ns)
  BY <1>1, <1>2 DEF Added, HasNumber, KindOf, NumberOf
<1>5. ASSUME NEW c, NEW ns PROVE Mended(c, ns)' = Mended(c, ns)
  BY <1>3, <1>4 DEF Mended
<1>6. ASSUME NEW c PROVE Told(c)' = Told(c)
  BY <1>1 DEF Told
<1>7. ASSUME NEW run PROVE SaidIn(run)' = SaidIn(run)
  <2>1. ElementsOf(run)' = ElementsOf(run)
    BY SameRuns
  <2> QED
    BY <1>1, <1>3, <2>1 DEF SaidIn
<1>8. ASSUME NEW c PROVE Entire(c)' = Entire(c)
  BY <1>2, SameRuns DEF Entire
<1>9. ASSUME NEW c, NEW run PROVE Covers(c, run)' = Covers(c, run)
  BY <1>6, <1>7, SameRuns DEF Covers
<1> QED
  BY <1>5, <1>6, <1>7, <1>8, <1>9

LEMMA ChunksStart == ChunksInit => ChunksIInv
BY DEF ChunksInit, ChunksIInv

LEMMA RunsAreCut == ChunksIInv /\ (\E ends \in SUBSET (1 .. Len(Pieces) - 1) : HybridChunk(ends)) => ChunksIInv'
<1> SUFFICES ASSUME ChunksIInv, NEW ends \in SUBSET (1 .. Len(Pieces) - 1), HybridChunk(ends)
             PROVE  ChunksIInv'
  OBVIOUS
<1>1. /\ cutting' = "reading" /\ cuts' = Runs(ends) /\ readUpTo' = 0 /\ chunks' = <<>>
      /\ paper' = paper /\ paper \in Papers
  BY DEF HybridChunk, ChunksIInv
<1> DEFINE last == Rising((ends \cup {Len(Pieces)}) \ {0})
           places == (ends \cup {Len(Pieces)}) \ {0}
<1>2. PICK pieces \in Nat : pieces = PiecesUpTo(Len(Items))
  <2> DEFINE sets == {{j} \X (1 .. Items[j].parts) : j \in 1 .. Len(Items)}
  <2>1. Len(Items) \in Nat /\ \A j \in 1 .. Len(Items) : Items[j].parts \in Nat
    BY <1>1, ChunksAssumption DEF Items
  <2> DEFINE f == [j \in 1 .. Len(Items) |-> {j} \X (1 .. Items[j].parts)]
  <2>2. IsFiniteSet(sets)
    <3>1. f \in [1 .. Len(Items) -> sets] /\ \A T \in sets : \E j \in 1 .. Len(Items) : f[j] = T
      OBVIOUS
    <3>2. f \in Surjection(1 .. Len(Items), sets)
      BY <3>1 DEF Surjection
    <3>3. IsFiniteSet(1 .. Len(Items))
      BY <2>1, FS_Interval
    <3> HIDE DEF f, sets
    <3> QED
      BY <3>2, <3>3, FS_Surjection
  <2>3. ASSUME NEW j \in 1 .. Len(Items) PROVE IsFiniteSet({j} \X (1 .. Items[j].parts))
    <3>1. IsFiniteSet({j})
      BY FS_Singleton
    <3>2. Items[j].parts \in Int /\ 1 \in Int
      BY <2>1
    <3>3. IsFiniteSet(1 .. Items[j].parts)
      BY <3>2, FS_Interval
    <3> QED
      BY <3>1, <3>3, FS_Product
  <2>4. \A T \in sets : IsFiniteSet(T)
    BY <2>3
  <2>5. IsFiniteSet(UNION sets)
    <3> HIDE DEF sets
    <3> QED
      BY <2>2, <2>4, FS_UNION
  <2>6. Cardinality(UNION sets) \in Nat
    <3> HIDE DEF sets
    <3> QED
      BY <2>5, FS_CardinalityType
  <2> QED
    BY <2>6 DEF PiecesUpTo
<1>3. Len(Pieces) = pieces
  <2>1. Pieces = [k \in 1 .. pieces |-> Pieces[k]]
    BY <1>2 DEF Pieces
  <2> QED
    BY <1>2, <2>1, ListLength
<1>4. places \in SUBSET (1 .. pieces)
  <2>1. \A x \in ends : x \in 1 .. pieces - 1
    BY <1>3
  <2>2. ASSUME NEW x \in places PROVE x \in 1 .. pieces
    <3>1. CASE x \in ends
      BY <1>2, <2>1, <3>1
    <3>2. CASE x = pieces /\ x # 0
      BY <1>2, <3>2
    <3> QED
      BY <1>3, <3>1, <3>2
  <2> QED
    BY <2>2
<1> HIDE DEF places
<1>5. IsFiniteSet(places)
  <2>1. IsFiniteSet(1 .. pieces)
    BY <1>2, FS_Interval
  <2> QED
    BY <1>4, <2>1, FS_Subset
<1>6. Cardinality(places) \in Nat
  BY <1>5, FS_CardinalityType
<1>7. DOMAIN last = 1 .. Cardinality(places)
  BY DEF Rising, InTurn, places
<1> HIDE DEF last
<1>8. Runs(ends) = [n \in 1 .. Cardinality(places) |-> Runs(ends)[n]]
  <2>1. Runs(ends) = [n \in DOMAIN last |-> <<IF n = 1 THEN 1 ELSE last[n - 1] + 1, last[n]>>]
    BY DEF Runs, last
  <2> QED
    BY <1>7, <2>1
<1>9. IsList(cuts')
  BY <1>1, <1>6, <1>8, ListLength
<1>10. IsList(cuts)'
  BY <1>9 DEF IsList
<1>11. Read(chunks, 1 .. readUpTo)'
  BY <1>1, NoList DEF Read, IsList
<1>12. readUpTo' \in 0 .. Len(cuts')
  BY <1>1, <1>9 DEF IsList
<1> QED
  BY <1>1, <1>10, <1>11, <1>12 DEF ChunksIInv

LEMMA SameReading ==
    ASSUME paper' = paper, cuts' = cuts
    PROVE  /\ \A cs, runs : Read(cs, runs)' = Read(cs, runs)
           /\ \A ns, D : Defines(ns, D)' = Defines(ns, D)
<1>1. ASSUME NEW cs, NEW runs PROVE Read(cs, runs)' = Read(cs, runs)
  BY SameRuns DEF Read, IsList
<1>2. ASSUME NEW ns, NEW D PROVE Defines(ns, D)' = Defines(ns, D)
  <2>1. Items' = Items
    BY DEF Items
  <2> QED
    BY <2>1, SameRuns DEF Defines, HasNumber, NumberOf, KindOf
<1> QED
  BY <1>1, <1>2

LEMMA SameMending ==
    ASSUME paper' = paper, cuts' = cuts, registry' = registry
    PROVE  /\ \A cs, ns, m : MendedUpTo(cs, ns, m)' = MendedUpTo(cs, ns, m)
           /\ \A cs : Whole(cs)' = Whole(cs)
<1>1. ASSUME NEW c, NEW run, NEW ns, NEW k, NEW m
      PROVE  Stands(c, run, ns, k, m)' = Stands(c, run, ns, k, m)
  BY SameRuns, SameText DEF Stands
<1>2. ASSUME NEW cs, NEW ns, NEW m PROVE MendedUpTo(cs, ns, m)' = MendedUpTo(cs, ns, m)
  BY <1>1, SameRuns DEF MendedUpTo, IsList
<1>3. ASSUME NEW cs PROVE Whole(cs)' = Whole(cs)
  BY SameRuns, SameText DEF Whole, IsList
<1> QED
  BY <1>2, <1>3

LEMMA ChunkIsRead == ChunksIInv /\ ReadChunk => ChunksIInv'
<1> SUFFICES ASSUME ChunksIInv, ReadChunk PROVE ChunksIInv'
  OBVIOUS
<1>1. /\ paper' = paper /\ cuts' = cuts /\ cutting' = "reading" /\ cutting = "reading"
      /\ paper \in Papers
  BY DEF ReadChunk, ChunksIInv
<1>2. IsList(cuts) /\ Len(cuts) \in Nat /\ readUpTo \in 0 .. Len(cuts) /\ Read(chunks, 1 .. readUpTo)
  BY <1>1 DEF ChunksIInv, IsList
<1>3. PICK n : n = readUpTo + 1
  OBVIOUS
<1>4. n \in 1 .. Len(cuts) /\ 1 .. n = (1 .. readUpTo) \cup {n} /\ readUpTo' = n
  BY <1>2, <1>3 DEF ReadChunk
<1>5. PICK cs : cs = chunks'
  OBVIOUS
<1>6. Read(cs, 1 .. n)
  <2>1. CASE IsNoise(cuts[n])
    <3>1. cs = chunks
      BY <1>3, <1>5, <2>1 DEF ReadChunk
    <3>2. ~Substantive(cuts[n])
      BY <2>1 DEF Substantive
    <3> QED
      BY <1>2, <1>4, <3>1, <3>2 DEF Read
  <2>2. CASE ~IsNoise(cuts[n])
    <3>1. cs = Append(chunks, ChunkOf(cuts[n]))
      BY <1>3, <1>5, <2>2 DEF ReadChunk
    <3>2. IsList(chunks) /\ Len(chunks) \in Nat
      BY <1>2 DEF Read, IsList
    <3>3. /\ IsList(cs) /\ Len(cs) = Len(chunks) + 1
          /\ \A k \in 1 .. Len(chunks) : cs[k] = chunks[k]
          /\ cs[Len(chunks) + 1] = ChunkOf(cuts[n])
      BY <3>1, <3>2, AppendIsList
    <3>4. 1 .. Len(cs) = (1 .. Len(chunks)) \cup {Len(chunks) + 1}
      BY <3>2, <3>3
    <3>5. Substantive(cuts[n])
      BY <2>2 DEF Substantive
    <3>6. ASSUME NEW k \in 1 .. Len(cs)
          PROVE  \E r \in 1 .. n : Substantive(cuts[r]) /\ cs[k] = ChunkOf(cuts[r])
      <4>1. CASE k \in 1 .. Len(chunks)
        <5>1. PICK r \in 1 .. readUpTo : Substantive(cuts[r]) /\ chunks[k] = ChunkOf(cuts[r])
          BY <1>2, <4>1 DEF Read
        <5>2. r \in 1 .. n /\ cs[k] = chunks[k]
          BY <1>4, <3>3, <4>1
        <5> QED
          BY <5>1, <5>2
      <4>2. CASE k = Len(chunks) + 1
        <5>1. n \in 1 .. n
          BY <1>4
        <5> QED
          BY <3>3, <3>5, <4>2, <5>1
      <4> QED
        BY <3>4, <4>1, <4>2
    <3>7. ASSUME NEW r \in 1 .. n, Substantive(cuts[r])
          PROVE  \E k \in 1 .. Len(cs) : cs[k] = ChunkOf(cuts[r])
      BY <1>2, <1>4, <3>3, <3>4, <3>7 DEF Read
    <3> QED
      BY <3>3, <3>6, <3>7 DEF Read
  <2> QED
    BY <2>1, <2>2
<1>7. Read(chunks, 1 .. readUpTo)'
  BY <1>1, <1>4, <1>5, <1>6, SameReading
<1> QED
  BY <1>1, <1>2, <1>4, <1>7 DEF ChunksIInv, IsList

LEMMA NotesAreSurveyed == ChunksIInv /\ SurveyNotes => ChunksIInv'
<1> SUFFICES ASSUME ChunksIInv, SurveyNotes PROVE ChunksIInv'
  OBVIOUS
<1>1. /\ paper' = paper /\ cuts' = cuts /\ chunks' = chunks /\ cutting' = "mending"
      /\ notes' = NotesIn(chunks) /\ mended' = 0 /\ cutting = "reading" /\ paper \in Papers
  BY DEF SurveyNotes, ChunksIInv
<1>2. /\ IsList(cuts) /\ DOMAIN cuts = 1 .. Len(cuts)
      /\ Read(chunks, DOMAIN cuts) /\ IsList(chunks) /\ Len(chunks) \in Nat
  <2>1. IsList(cuts) /\ readUpTo = Len(cuts)
    BY <1>1 DEF ChunksIInv, SurveyNotes
  <2>2. DOMAIN cuts = 1 .. Len(cuts)
    BY <2>1, ListDomain
  <2> QED
    BY <1>1, <2>1, <2>2 DEF ChunksIInv, Read, IsList
<1>3. /\ \A k \in 1 .. Len(chunks) : \E r \in Spared : chunks[k] = ChunkOf(cuts[r])
      /\ \A r \in Spared : \E k \in 1 .. Len(chunks) : chunks[k] = ChunkOf(cuts[r])
  BY <1>2 DEF Read, Spared
<1>4. \A run : ChunkOf(run).elements = ElementsOf(run)
  BY DEF ChunkOf
<1>5. \A k \in 1 .. Len(chunks) : chunks[k].elements \in SUBSET Elements
  BY <1>1, <1>3, <1>4, ElementsInside
<1>6. UNION {Numbers(chunks[k].elements) : k \in 1 .. Len(chunks)} = Defined
  <2>1. ASSUME NEW k \in 1 .. Len(chunks) PROVE Numbers(chunks[k].elements) \subseteq Defined
    BY <1>3, <1>4 DEF Defined
  <2>2. ASSUME NEW r \in Spared
        PROVE  \E k \in 1 .. Len(chunks) : Numbers(ElementsOf(cuts[r])) = Numbers(chunks[k].elements)
    BY <1>3, <1>4
  <2> QED
    BY <2>1, <2>2 DEF Defined
<1>7. PICK ns : ns = NotesIn(chunks)
  OBVIOUS
<1>8. Defines(ns, Defined)
  BY <1>1, <1>2, <1>5, <1>6, <1>7, NotesFound DEF Defines
<1>9. Defines(notes, Defined)'
  BY <1>1, <1>7, <1>8, SameReading, SameRuns
<1>10. MendedUpTo(chunks, notes, mended)'
  <2>1. \A k \in 1 .. Len(chunks) : ~(k <= 0)
    BY <1>2
  <2>2. /\ \A k \in 1 .. Len(chunks) : \E r \in Spared' : chunks'[k] = ChunkOf(cuts[r])'
        /\ \A r \in Spared' : \E k \in 1 .. Len(chunks) : chunks'[k] = ChunkOf(cuts[r])'
    BY <1>1, <1>3, SameRuns
  <2> QED
    BY <1>1, <1>2, <2>1, <2>2 DEF MendedUpTo, Stands, IsList
<1> QED
  BY <1>1, <1>2, <1>9, <1>10 DEF ChunksIInv, IsList

LEMMA ChunkIsMended == ChunksIInv /\ MendChunk => ChunksIInv'
<1> SUFFICES ASSUME ChunksIInv, MendChunk PROVE ChunksIInv'
  OBVIOUS
<1>1. /\ paper' = paper /\ cuts' = cuts /\ registry' = registry /\ notes' = notes
      /\ cutting' = "mending" /\ cutting = "mending" /\ paper \in Papers
      /\ IsList(cuts) /\ Defines(notes, Defined)
  BY DEF MendChunk, ChunksIInv
<1>2. /\ MendedUpTo(chunks, notes, mended) /\ mended \in 0 .. Len(chunks)
      /\ IsList(chunks) /\ Len(chunks) \in Nat /\ mended < Len(chunks)
  BY <1>1 DEF ChunksIInv, MendChunk, MendedUpTo, IsList
<1>3. PICK m : m = mended + 1
  OBVIOUS
<1>4. m \in 1 .. Len(chunks) /\ mended' = m /\ mended \in Nat
  BY <1>2, <1>3 DEF MendChunk
<1>5. PICK cs : cs = chunks'
  OBVIOUS
<1>6. cs = [chunks EXCEPT ![m] = Mended(@, notes)]
  BY <1>3, <1>5 DEF MendChunk
<1>7. DOMAIN chunks = 1 .. Len(chunks)
  BY <1>2, ListDomain
<1>8. cs = [k \in 1 .. Len(chunks) |-> cs[k]]
  BY <1>6, <1>7
<1>9. IsList(cs) /\ Len(cs) = Len(chunks)
  BY <1>2, <1>8, ListLength
<1>10. /\ cs[m] = Mended(chunks[m], notes)
       /\ \A k \in 1 .. Len(chunks) : k # m => cs[k] = chunks[k]
  BY <1>4, <1>6, <1>7
<1>11. ASSUME NEW k \in 1 .. Len(chunks), NEW r \in Spared, Stands(chunks[k], cuts[r], notes, k, mended)
       PROVE  Stands(cs[k], cuts[r], notes, k, m)
  <2>1. CASE k = m
    <3>1. ~(k <= mended) /\ k <= m
      BY <1>3, <1>4, <2>1
    <3> QED
      BY <1>10, <1>11, <2>1, <3>1 DEF Stands
  <2>2. CASE k # m
    <3>1. k <= mended <=> k <= m
      BY <1>3, <1>4, <2>2
    <3> QED
      BY <1>10, <1>11, <2>2, <3>1 DEF Stands
  <2> QED
    BY <2>1, <2>2
<1>12. MendedUpTo(cs, notes, m)
  BY <1>2, <1>9, <1>11 DEF MendedUpTo
<1>13. MendedUpTo(chunks, notes, mended)'
  <2>1. PICK ns : ns = notes
    OBVIOUS
  <2> QED
    BY <1>1, <1>4, <1>5, <1>12, <2>1, SameMending
<1>14. Defines(notes, Defined)'
  <2>1. PICK ns : ns = notes
    OBVIOUS
  <2> QED
    BY <1>1, <2>1, SameReading, SameRuns
<1>15. mended' \in 0 .. Len(chunks')
  BY <1>2, <1>4, <1>5, <1>9
<1> QED
  BY <1>1, <1>13, <1>14, <1>15 DEF ChunksIInv, IsList

\* Two chunks of one text say the same.
LEMMA SameTextSays ==
    ASSUME paper \in Papers, NEW c, NEW d, c.elements \in SUBSET Elements, d.elements \in SUBSET Elements,
           TextOf(c) = TextOf(d)
    PROVE  c.heading = d.heading /\ Told(c) = Told(d)
<1> DEFINE says(x) == [k \in DOMAIN InOrder(x.elements) |-> Items[InOrder(x.elements)[k].item].says]
<1>1. ASSUME NEW x, x.elements \in SUBSET Elements
      PROVE  Told(x) = {says(x)[k] : k \in DOMAIN says(x)}
  <2>1. PICK l : l = InOrder(x.elements)
    OBVIOUS
  <2>2. /\ \A k \in DOMAIN l : l[k] \in x.elements
        /\ \A e \in x.elements : \E k \in DOMAIN l : l[k] = e
    BY <1>1, <2>1, InOrderLists
  <2>3. says(x) = [k \in DOMAIN l |-> Items[l[k].item].says]
    BY <2>1
  <2> HIDE DEF says
  <2>4. DOMAIN says(x) = DOMAIN l /\ \A k \in DOMAIN l : says(x)[k] = Items[l[k].item].says
    BY <2>3
  <2> QED
    BY <2>2, <2>4 DEF Told
<1>2. TextOf(c) = <<c.heading, says(c)>> /\ TextOf(d) = <<d.heading, says(d)>>
  BY DEF TextOf
<1> HIDE DEF says
<1>3. c.heading = d.heading /\ says(c) = says(d)
  <2>1. PICK f, g : f = says(c) /\ g = says(d)
    OBVIOUS
  <2>2. <<c.heading, f>> = <<d.heading, g>>
    BY <1>2, <2>1
  <2>3. <<c.heading, f>>[1] = c.heading /\ <<c.heading, f>>[2] = f
    OBVIOUS
  <2> QED
    BY <2>1, <2>2
<1> QED
  BY <1>1, <1>3

\* What the footnotes were put into has the text of its run, and its footnotes.
LEMMA MendedIsEntire ==
    ASSUME paper \in Papers, NEW ns, Defines(ns, Defined), NEW r \in Spared,
           NEW c, c = Mended(ChunkOf(cuts[r]), ns)
    PROVE  Entire(c) /\ Covers(c, cuts[r]) /\ c.elements \in SUBSET Elements
<1>1. PICK d : d = ChunkOf(cuts[r])
  OBVIOUS
<1>2. /\ d = [page |-> d.page, heading |-> d.heading, elements |-> d.elements, whole |-> d.whole]
      /\ d.elements = ElementsOf(cuts[r])
  BY <1>1 DEF ChunkOf
<1>3. d.elements \in SUBSET Elements
  BY <1>2, ElementsInside
<1>4. Numbers(d.elements) \subseteq Defined
  BY <1>2 DEF Defined
<1>5. /\ c.page = d.page /\ c.heading = d.heading /\ Has(c, d.elements, Defined)
      /\ c = [page |-> d.page, heading |-> d.heading, elements |-> c.elements, whole |-> d.whole]
  BY <1>1, <1>2, <1>3, <1>4, MendedHas
<1>6. Entire(c)
  <2>1. c.whole = d.whole
    BY <1>5
  <2> QED
    BY <1>5, <2>1 DEF Entire, Has
<1>7. Covers(c, cuts[r])
  BY <1>1, <1>2, <1>5 DEF Covers, Has, SaidIn, Told
<1> QED
  BY <1>5, <1>6, <1>7 DEF Has

LEMMA RepeatsAreDropped == ChunksIInv /\ Deduplicate => ChunksIInv'
<1> SUFFICES ASSUME ChunksIInv, Deduplicate PROVE ChunksIInv'
  OBVIOUS
<1>1. /\ paper' = paper /\ cuts' = cuts /\ registry' = registry
      /\ cutting' = "embedding" /\ cutting = "mending" /\ paper \in Papers
      /\ IsList(cuts) /\ Defines(notes, Defined) /\ mended = Len(chunks)
      /\ MendedUpTo(chunks, notes, mended) /\ IsList(chunks) /\ Len(chunks) \in Nat
  BY DEF Deduplicate, ChunksIInv, MendedUpTo, IsList
<1>2. /\ \A k \in 1 .. Len(chunks) : \E r \in Spared : chunks[k] = Mended(ChunkOf(cuts[r]), notes)
      /\ \A r \in Spared : \E k \in 1 .. Len(chunks) : chunks[k] = Mended(ChunkOf(cuts[r]), notes)
  <2>1. \A k \in 1 .. Len(chunks) : k <= mended
    BY <1>1
  <2> QED
    BY <1>1, <2>1 DEF MendedUpTo, Stands
<1>3. \A k \in 1 .. Len(chunks) : Entire(chunks[k]) /\ chunks[k].elements \in SUBSET Elements
  BY <1>1, <1>2, MendedIsEntire
<1>4. \A r \in Spared : \E k \in 1 .. Len(chunks) : Covers(chunks[k], cuts[r])
  BY <1>1, <1>2, MendedIsEntire
<1> DEFINE same(j, k) == <<chunks[j].page, TextOf(chunks[j])>> = <<chunks[k].page, TextOf(chunks[k])>>
           first(k) == \A j \in 1 .. k - 1 : ~same(j, k)
           firsts == {k \in 1 .. Len(chunks) : first(k)}
<1>5. PICK cs : cs = chunks'
  OBVIOUS
<1>6. cs = Picked(chunks, firsts)
  <2>1. DOMAIN chunks = 1 .. Len(chunks)
    BY <1>1, ListDomain
  <2> QED
    BY <1>5, <2>1 DEF Deduplicate
<1>7. IsFiniteSet(firsts) /\ firsts \subseteq Int /\ firsts \subseteq 1 .. Len(chunks)
  <2>1. IsFiniteSet(1 .. Len(chunks))
    BY <1>1, FS_Interval
  <2>2. firsts \in SUBSET (1 .. Len(chunks))
    OBVIOUS
  <2> HIDE DEF firsts
  <2>3. IsFiniteSet(firsts)
    BY <2>1, <2>2, FS_Subset
  <2>4. \A k \in firsts : k \in Int
    BY <1>1, <2>2
  <2> QED
    BY <2>2, <2>3, <2>4
<1>8. ASSUME NEW k \in 1 .. Len(chunks) PROVE \E m \in firsts : same(m, k)
  <2> DEFINE T == {j \in 1 .. Len(chunks) : same(j, k)}
  <2>1. T \in SUBSET Nat /\ k \in T
    BY <1>1
  <2> HIDE DEF T
  <2>2. PICK m \in T : \A j \in T : m <= j
    BY <2>1, LeastOf
  <2>3. m \in 1 .. Len(chunks) /\ same(m, k) /\ m \in Nat
    BY <2>1, <2>2 DEF T
  <2>4. ASSUME NEW j \in 1 .. m - 1, same(j, m) PROVE FALSE
    <3>1. j \in 1 .. Len(chunks) /\ j < m /\ j \in Nat
      BY <1>1, <2>3
    <3>2. same(j, k)
      BY <2>3, <2>4
    <3>3. j \in T
      BY <3>1, <3>2 DEF T
    <3> QED
      BY <2>2, <2>3, <3>1, <3>3
  <2>5. first(m)
    BY <2>4
  <2> QED
    BY <2>3, <2>5
<1> HIDE DEF firsts, same
<1>9. /\ IsList(cs)
      /\ \A k \in 1 .. Len(cs) : \E i \in firsts : cs[k] = chunks[i]
      /\ \A i \in firsts : \E k \in 1 .. Len(cs) : cs[k] = chunks[i]
  <2>1. Draws(cs, chunks, firsts)
    BY <1>6, <1>7, PickedLists
  <2> QED
    BY <2>1 DEF Draws
<1>10. ASSUME NEW r \in Spared PROVE \E k \in 1 .. Len(cs) : Covers(cs[k], cuts[r])
  <2>1. PICK i \in 1 .. Len(chunks) : Covers(chunks[i], cuts[r])
    BY <1>4
  <2>2. PICK m \in firsts : same(m, i)
    BY <1>8
  <2>3. chunks[m].page = chunks[i].page /\ TextOf(chunks[m]) = TextOf(chunks[i])
    BY <2>2 DEF same
  <2>4. chunks[m].heading = chunks[i].heading /\ Told(chunks[m]) = Told(chunks[i])
    BY <1>1, <1>3, <1>7, <2>3, SameTextSays
  <2>5. Covers(chunks[m], cuts[r])
    BY <2>1, <2>3, <2>4 DEF Covers
  <2> QED
    BY <1>9, <2>5
<1>11. Whole(cs)
  BY <1>3, <1>7, <1>9, <1>10 DEF Whole
<1>12. Whole(chunks)'
  BY <1>1, <1>5, <1>11, SameMending
<1> QED
  BY <1>1, <1>12 DEF ChunksIInv, IsList

LEMMA ValidAreLeft == ChunksIInv /\ FilterValid => ChunksIInv'
<1> SUFFICES ASSUME ChunksIInv, FilterValid PROVE ChunksIInv'
  OBVIOUS
<1>1. /\ paper' = paper /\ cuts' = cuts /\ registry' = registry
      /\ cutting' \in {"done", "failed"} /\ paper \in Papers
      /\ IsList(cuts) /\ Whole(chunks) /\ IsList(chunks) /\ Len(chunks) \in Nat
  BY DEF FilterValid, ChunksIInv, Whole, IsList
<1> DEFINE full == {k \in 1 .. Len(chunks) : ~IsEmpty(chunks[k])}
           fits(c) == LengthOf(c) <= EmbedLimit
<1>2. PICK valid : valid = Picked(chunks, full)
  OBVIOUS
<1>3. PICK cs : cs = chunks'
  OBVIOUS
<1>4. cs = [k \in DOMAIN valid |-> [valid[k] EXCEPT !.whole = fits(valid[k])]]
  <2>1. DOMAIN chunks = 1 .. Len(chunks)
    BY <1>1, ListDomain
  <2> QED
    BY <1>2, <1>3, <2>1 DEF FilterValid
<1> HIDE DEF fits
<1>5. IsFiniteSet(full) /\ full \subseteq Int /\ full \subseteq 1 .. Len(chunks)
  <2>1. IsFiniteSet(1 .. Len(chunks))
    BY <1>1, FS_Interval
  <2>2. full \in SUBSET (1 .. Len(chunks))
    OBVIOUS
  <2> HIDE DEF full
  <2>3. IsFiniteSet(full)
    BY <2>1, <2>2, FS_Subset
  <2>4. \A k \in full : k \in Int
    BY <1>1, <2>2
  <2> QED
    BY <2>2, <2>3, <2>4
<1>6. \A k \in 1 .. Len(chunks) : IsEmpty(chunks[k]) \/ k \in full
  OBVIOUS
<1> HIDE DEF full
<1>7. /\ IsList(valid)
      /\ \A k \in 1 .. Len(valid) : \E i \in full : valid[k] = chunks[i]
      /\ \A i \in full : \E k \in 1 .. Len(valid) : valid[k] = chunks[i]
  <2>1. Draws(valid, chunks, full)
    BY <1>2, <1>5, PickedLists
  <2> QED
    BY <2>1 DEF Draws
<1>8. DOMAIN valid = 1 .. Len(valid) /\ Len(valid) \in Nat
  BY <1>7, ListDomain DEF IsList
<1>9. cs = [k \in 1 .. Len(valid) |-> cs[k]]
  BY <1>4, <1>8
<1>10. IsList(cs) /\ Len(cs) = Len(valid)
  BY <1>8, <1>9, ListLength
<1>11. ASSUME NEW k \in 1 .. Len(cs)
       PROVE  /\ Entire(cs[k]) /\ cs[k].page = valid[k].page
              /\ cs[k].heading = valid[k].heading /\ cs[k].elements = valid[k].elements
  <2>1. cs[k] = [valid[k] EXCEPT !.whole = fits(valid[k])]
    BY <1>4, <1>8, <1>10
  <2>2. Entire(valid[k])
    BY <1>1, <1>5, <1>7, <1>10 DEF Whole
  <2>3. PICK v : v = valid[k]
    OBVIOUS
  <2>4. v = [page |-> v.page, heading |-> v.heading, elements |-> v.elements, whole |-> v.whole]
    BY <2>2, <2>3 DEF Entire
  <2>5. cs[k] = [page |-> v.page, heading |-> v.heading, elements |-> v.elements, whole |-> fits(v)]
    BY <2>1, <2>3, <2>4
  <2>6. cs[k].page = v.page /\ cs[k].heading = v.heading /\ cs[k].elements = v.elements
    BY <2>5
  <2>7. cs[k] = [page |-> cs[k].page, heading |-> cs[k].heading,
                 elements |-> cs[k].elements, whole |-> cs[k].whole]
    BY <2>5
  <2> QED
    BY <2>2, <2>3, <2>6, <2>7 DEF Entire
<1>12. ASSUME NEW r \in Spared, SaidIn(cuts[r]) # {} PROVE \E k \in 1 .. Len(cs) : Covers(cs[k], cuts[r])
  <2>1. PICK i \in 1 .. Len(chunks) : Covers(chunks[i], cuts[r])
    BY <1>1, <1>12 DEF Whole
  <2>2. ~IsEmpty(chunks[i])
    BY <1>12, <2>1 DEF IsEmpty, Covers, Told
  <2>3. PICK k \in 1 .. Len(valid) : valid[k] = chunks[i]
    BY <1>6, <1>7, <2>2
  <2>4. k \in 1 .. Len(cs)
    BY <1>10
  <2>5. Covers(cs[k], cuts[r])
    BY <1>11, <2>1, <2>3, <2>4 DEF Covers, Told
  <2> QED
    BY <2>4, <2>5
<1>13. Whole(cs)
  BY <1>10, <1>11, <1>12 DEF Whole
<1>14. Whole(chunks)'
  BY <1>1, <1>3, <1>13, SameMending
<1> QED
  BY <1>1, <1>14 DEF ChunksIInv, IsList

LEMMA ChunkingStops == ChunksIInv /\ (ChunkingFails \/ UNCHANGED chunkVars) => ChunksIInv'
<1> SUFFICES ASSUME ChunksIInv, ChunkingFails \/ UNCHANGED chunkVars PROVE ChunksIInv'
  OBVIOUS
<1>1. CASE ChunkingFails
  BY <1>1 DEF ChunkingFails, ChunksIInv
<1>2. CASE UNCHANGED chunkVars
  <2>1. /\ paper' = paper /\ cuts' = cuts /\ registry' = registry /\ chunks' = chunks
        /\ notes' = notes /\ mended' = mended /\ readUpTo' = readUpTo /\ cutting' = cutting
    BY <1>2 DEF chunkVars
  <2>2. PICK cs, ns, m, u : cs = chunks /\ ns = notes /\ m = mended /\ u = readUpTo
    OBVIOUS
  <2>3. /\ Read(chunks, 1 .. readUpTo)' <=> Read(chunks, 1 .. readUpTo)
        /\ Defines(notes, Defined)' <=> Defines(notes, Defined)
        /\ MendedUpTo(chunks, notes, mended)' <=> MendedUpTo(chunks, notes, mended)
        /\ Whole(chunks)' <=> Whole(chunks)
    BY <2>1, <2>2, SameReading, SameMending, SameRuns
  <2> QED
    BY <2>1, <2>3 DEF ChunksIInv, IsList
<1> QED
  BY <1>1, <1>2

LEMMA ChunksInductive == ChunksIInv /\ [ChunksNext]_chunkVars => ChunksIInv'
BY RunsAreCut, ChunkIsRead, NotesAreSurveyed, ChunkIsMended, RepeatsAreDropped, ValidAreLeft,
   ChunkingStops DEF ChunksNext

\* Whatever a document is made of and however it is cut: its chunks have all it says but
\* noise and footnotes nobody cites, each where it stands, and a chunk has the footnotes
\* that it cites, as far as they are defined, and no other (Chunker.create_chunks and
\* post_process_chunks, up to what is embedded).
THEOREM ChunksAlwaysWhole == ChunksSpec => []ChunksAreWhole
<1>1. ChunksIInv => ChunksAreWhole
  BY WholeIsWhole DEF ChunksIInv, ChunksAreWhole
<1> QED
  BY <1>1, ChunksStart, ChunksInductive, PTL DEF ChunksSpec
=============================================================================
