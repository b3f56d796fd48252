----------------------------- MODULE Search_proofs -----------------------------
(***************************************************************************)
(* What a search answers, for any index, question and limits, and whatever *)
(* the pipeline rewrites meanwhile: lists are followed through ranking,    *)
(* cutting, filtering, fusing and the dropping of repeated texts.          *)
(***************************************************************************)
EXTENDS SearchRequest, FiniteSetTheorems, SequenceTheorems, WellFoundedInduction, TLAPS

-----------------------------------------------------------------------------
(* Lists                                                                   *)

\* A list of all members of a set, the best first.
Lists(l, S, score) ==
    /\ Cardinality(S) \in Nat
    /\ l = [k \in 1 .. Cardinality(S) |-> l[k]]
    /\ \A k \in 1 .. Cardinality(S) : l[k] \in S
    /\ \A c \in S : \E k \in 1 .. Cardinality(S) : l[k] = c
    /\ \A j, k \in 1 .. Cardinality(S) : j < k => Ahead(score, l[j], l[k])

LEMMA ByScoreIsList ==
    ASSUME NEW S, IsFiniteSet(S), S \subseteq Int, NEW score, \A c \in S : score[c] \in Int
    PROVE  Lists(ByScore(S, score), S, score)
<1> DEFINE n == Cardinality(S)
           before(c) == {x \in S : Ahead(score, x, c)}
           spot == [c \in S |-> Cardinality(before(c)) + 1]
           l == ByScore(S, score)
<1>1. n \in Nat
  BY FS_CardinalityType
<1>2. \A c, d \in S : \/ c = d \/ Ahead(score, c, d) \/ Ahead(score, d, c)
  <2>1. ASSUME NEW c \in S, NEW d \in S
        PROVE  c = d \/ Ahead(score, c, d) \/ Ahead(score, d, c)
    <3>1. c \in Int /\ d \in Int /\ score[c] \in Int /\ score[d] \in Int
      OBVIOUS
    <3> QED
      BY <3>1 DEF Ahead
  <2> QED
    BY <2>1
<1>3. \A c, d, x \in S : Ahead(score, x, c) /\ Ahead(score, c, d) => Ahead(score, x, d)
  <2>1. ASSUME NEW c \in S, NEW d \in S, NEW x \in S, Ahead(score, x, c), Ahead(score, c, d)
        PROVE  Ahead(score, x, d)
    <3>1. c \in Int /\ d \in Int /\ x \in Int
      OBVIOUS
    <3>2. score[c] \in Int /\ score[d] \in Int /\ score[x] \in Int
      OBVIOUS
    <3> QED
      BY <2>1, <3>1, <3>2 DEF Ahead
  <2> QED
    BY <2>1
<1>4. \A c \in S : ~Ahead(score, c, c)
  <2>1. ASSUME NEW c \in S PROVE ~Ahead(score, c, c)
    <3>1. c \in Int /\ score[c] \in Int
      OBVIOUS
    <3> QED
      BY <3>1 DEF Ahead
  <2> QED
    BY <2>1
<1>5. \A c \in S : IsFiniteSet(before(c)) /\ Cardinality(before(c)) \in Nat
  <2>1. ASSUME NEW c \in S PROVE IsFiniteSet(before(c)) /\ Cardinality(before(c)) \in Nat
    <3>1. before(c) \in SUBSET S
      OBVIOUS
    <3>2. IsFiniteSet(before(c))
      BY <3>1, FS_Subset
    <3> QED
      BY <3>2, FS_CardinalityType
  <2> QED
    BY <2>1
<1>6. ASSUME NEW c \in S, NEW d \in S, Ahead(score, c, d)
      PROVE  Cardinality(before(c)) + 1 <= Cardinality(before(d))
  <2>1. before(c) \cup {c} \in SUBSET before(d)
    BY <1>3, <1>6
  <2>2. c \notin before(c)
    BY <1>4
  <2> HIDE DEF before
  <2>3. /\ IsFiniteSet(before(c) \cup {c})
        /\ Cardinality(before(c) \cup {c}) = Cardinality(before(c)) + 1
    BY <1>5, <2>2, FS_AddElement
  <2>4. Cardinality(before(c) \cup {c}) <= Cardinality(before(d))
    BY <1>5, <2>1, FS_Subset
  <2> QED
    BY <2>3, <2>4
<1>7. \A c \in S : spot[c] \in 1 .. n
  <2>1. ASSUME NEW c \in S PROVE spot[c] \in 1 .. n
    <3>1. before(c) \cup {c} \in SUBSET S /\ c \notin before(c)
      BY <1>4
    <3> HIDE DEF before
    <3>2. Cardinality(before(c) \cup {c}) = Cardinality(before(c)) + 1
      BY <1>5, <3>1, FS_AddElement
    <3>3. Cardinality(before(c) \cup {c}) <= n
      BY <3>1, FS_Subset
    <3> QED
      BY <1>1, <1>5, <3>2, <3>3
  <2> QED
    BY <2>1
<1>8. \A c, d \in S : Ahead(score, c, d) => spot[c] < spot[d]
  <2> HIDE DEF before
  <2> QED
    BY <1>5, <1>6
<1> HIDE DEF before
<1>9. \A c \in S : spot[c] = Cardinality(before(c)) + 1
  OBVIOUS
<1> HIDE DEF spot
<1>10. \A c, d \in S : spot[c] = spot[d] => c = d
  <2>1. \A c \in S : spot[c] \in Int
    BY <1>7
  <2> QED
    BY <1>2, <1>8, <2>1
<1>11. \A k \in 1 .. n : \E c \in S : spot[c] = k
  <2>1. spot \in Injection(S, 1 .. n)
    <3>1. spot \in [S -> 1 .. n]
      BY <1>7 DEF spot
    <3> QED
      BY <1>10, <3>1, Zenon DEF Injection, IsInjective
  <2>2. IsFiniteSet(1 .. n) /\ Cardinality(1 .. n) = n
    BY <1>1, FS_Interval
  <2>3. spot \in Surjection(S, 1 .. n)
    BY <2>1, <2>2, FS_Injection
  <2> QED
    BY <2>3 DEF Surjection
<1>12. l = [k \in 1 .. n |-> CHOOSE c \in S : Cardinality(before(c)) = k - 1]
  BY DEF ByScore, before
<1> HIDE DEF l
<1>13. ASSUME NEW k \in 1 .. n PROVE l[k] \in S /\ spot[l[k]] = k
  <2>1. PICK c \in S : spot[c] = k
    BY <1>11
  <2>2. Cardinality(before(c)) = k - 1
    BY <1>5, <1>9, <2>1
  <2>3. l[k] \in S /\ Cardinality(before(l[k])) = k - 1
    BY <1>12, <2>2
  <2>4. spot[l[k]] = Cardinality(before(l[k])) + 1
    BY <1>9, <2>3
  <2>5. k - 1 + 1 = k
    BY <1>1
  <2> QED
    BY <2>3, <2>4, <2>5
<1>14. \A c \in S : \E k \in 1 .. n : l[k] = c
  BY <1>7, <1>10, <1>13
<1>15. ASSUME NEW j \in 1 .. n, NEW k \in 1 .. n, j < k PROVE Ahead(score, l[j], l[k])
  <2>1. spot[l[j]] = j /\ spot[l[k]] = k /\ l[j] \in S /\ l[k] \in S
    BY <1>13
  <2>2. ~(k < j) /\ j # k
    BY <1>15
  <2> QED
    BY <1>2, <1>8, <2>1, <2>2
<1>16. l = [k \in 1 .. n |-> l[k]]
  BY <1>12
<1> QED
  BY <1>1, <1>13, <1>14, <1>15, <1>16 DEF Lists, l

\* Sequences are functions on 1 .. Len.
IsList(s) == Len(s) \in Nat /\ s = [k \in 1 .. Len(s) |-> s[k]]

LEMMA ListLength ==
    ASSUME NEW n \in Nat, NEW s, s = [k \in 1 .. n |-> s[k]]
    PROVE  IsList(s) /\ Len(s) = n /\ DOMAIN s = 1 .. n
<1> DEFINE S == {s[k] : k \in 1 .. n}
<1>1. DOMAIN s = 1 .. n
  OBVIOUS
<1>2. \A k \in 1 .. n : s[k] \in S
  OBVIOUS
<1> HIDE DEF S
<1>3. s \in [1 .. n -> S]
  BY <1>2
<1>4. Seq(S) = UNION {[1 .. k -> S] : k \in Nat}
  BY SeqDef
<1>5. s \in Seq(S)
  BY <1>3, <1>4
<1>6. Len(s) \in Nat /\ 1 .. Len(s) = 1 .. n
  BY <1>1, <1>5, LenProperties
<1>7. Len(s) = n
  <2>1. CASE Len(s) < n
    <3>1. n \in 1 .. n /\ n \notin 1 .. Len(s)
      BY <1>6, <2>1
    <3> QED
      BY <1>6, <3>1
  <2>2. CASE n < Len(s)
    <3>1. Len(s) \in 1 .. Len(s) /\ Len(s) \notin 1 .. n
      BY <1>6, <2>2
    <3> QED
      BY <1>6, <3>1
  <2> QED
    BY <1>6, <2>1, <2>2
<1> QED
  BY <1>1, <1>6, <1>7 DEF IsList

LEMMA ListDomain ==
    ASSUME NEW s, IsList(s)
    PROVE  DOMAIN s = 1 .. Len(s)
BY DEF IsList

LEMMA NoList ==
    IsList(<<>>) /\ Len(<<>>) = 0 /\ DOMAIN <<>> = {}
<1>1. Len(<<>>) = 0
  OBVIOUS
<1>2. 1 .. 0 = {} /\ <<>> = [k \in 1 .. 0 |-> <<>>[k]] /\ DOMAIN <<>> = {}
  OBVIOUS
<1> QED
  BY <1>1, <1>2 DEF IsList

LEMMA LesserOfTwo ==
    ASSUME NEW a \in Nat, NEW b \in Nat
    PROVE  Min({a, b}) = IF a <= b THEN a ELSE b
<1>1. CASE a <= b
  <2>1. \A y \in {a, b} : a <= y
    BY <1>1
  <2>2. \A x \in {a, b} : (\A y \in {a, b} : x <= y) => x = a
    BY <1>1
  <2> QED
    BY <1>1, <2>1, <2>2 DEF Min
<1>2. CASE ~(a <= b)
  <2>1. \A y \in {a, b} : b <= y
    BY <1>2
  <2>2. \A x \in {a, b} : (\A y \in {a, b} : x <= y) => x = b
    BY <1>2
  <2> QED
    BY <1>2, <2>1, <2>2 DEF Min
<1> QED
  BY <1>1, <1>2

\* The first n of a list.
Cut(t, s, n) ==
    /\ IsList(t) /\ Len(t) <= n /\ Len(t) <= Len(s) /\ Len(t) \in {n, Len(s)}
    /\ \A k \in 1 .. Len(t) : t[k] = s[k]

LEMMA TopIsCut ==
    ASSUME NEW s, IsList(s), NEW n \in Nat
    PROVE  Cut(Top(s, n), s, n)
<1> DEFINE t == Top(s, n)
           m == Min({n, Len(s)})
<1>1. m = IF n <= Len(s) THEN n ELSE Len(s)
  BY LesserOfTwo DEF IsList
<1>2. t = [k \in 1 .. m |-> s[k]]
  BY DEF Top
<1> HIDE DEF t, m
<1>3. m \in Nat /\ m <= n /\ m <= Len(s) /\ m \in {n, Len(s)}
  BY <1>1 DEF IsList
<1>4. t = [k \in 1 .. m |-> t[k]] /\ \A k \in 1 .. m : t[k] = s[k]
  BY <1>2
<1>5. IsList(t) /\ Len(t) = m
  BY <1>3, <1>4, ListLength
<1> QED
  BY <1>3, <1>4, <1>5 DEF Cut, t

\* The members of a list at some places, each once.
Picks(r, s, places, o) ==
    /\ IsList(r) /\ Len(r) = Cardinality(places)
    /\ \A k \in 1 .. Len(r) : o[k] \in places /\ r[k] = s[o[k]]
    /\ \A i \in places : \E k \in 1 .. Len(r) : o[k] = i
    /\ \A j, k \in 1 .. Len(r) : o[j] = o[k] => j = k

LEMMA ByScorePicks ==
    ASSUME NEW s, IsList(s), NEW places \in SUBSET DOMAIN s, NEW score,
           \A i \in places : score[i] \in Int,
           NEW r, r = [k \in 1 .. Cardinality(places) |-> s[ByScore(places, score)[k]]]
    PROVE  /\ Picks(r, s, places, ByScore(places, score))
           /\ \A j, k \in 1 .. Len(r) :
                 j < k => Ahead(score, ByScore(places, score)[j], ByScore(places, score)[k])
<1> DEFINE o == ByScore(places, score)
           n == Cardinality(places)
<1>1. IsFiniteSet(places) /\ places \subseteq Int
  <2>1. DOMAIN s = 1 .. Len(s) /\ Len(s) \in Nat
    BY ListDomain DEF IsList
  <2>2. IsFiniteSet(1 .. Len(s)) /\ 1 .. Len(s) \subseteq Int
    BY <2>1, FS_Interval
  <2> QED
    BY <2>1, <2>2, FS_Subset
<1>2. Lists(o, places, score)
  BY <1>1, ByScoreIsList
<1>3. r = [k \in 1 .. n |-> s[o[k]]]
  OBVIOUS
<1> HIDE DEF o
<1>4. n \in Nat
  BY <1>2 DEF Lists
<1>5. r = [k \in 1 .. n |-> r[k]] /\ \A k \in 1 .. n : r[k] = s[o[k]]
  BY <1>3
<1> HIDE DEF n
<1>6. IsList(r) /\ Len(r) = n
  BY <1>4, <1>5, ListLength
<1>7. /\ \A k \in 1 .. n : o[k] \in places
      /\ \A i \in places : \E k \in 1 .. n : o[k] = i
      /\ \A j, k \in 1 .. n : j < k => Ahead(score, o[j], o[k])
  BY <1>2 DEF Lists, n
<1>8. \A i \in places : ~Ahead(score, i, i)
  <2>1. ASSUME NEW i \in places PROVE ~Ahead(score, i, i)
    <3>1. i \in Int /\ score[i] \in Int
      BY <1>1
    <3> QED
      BY <3>1 DEF Ahead
  <2> QED
    BY <2>1
<1>9. ASSUME NEW j \in 1 .. n, NEW k \in 1 .. n, o[j] = o[k] PROVE j = k
  <2>1. j < k \/ k < j \/ j = k
    BY <1>4
  <2> QED
    BY <1>7, <1>8, <1>9, <2>1
<1> QED
  BY <1>5, <1>6, <1>7, <1>9 DEF Picks, o, n

\* Places in their order (Only), or by falling score (Ranked).
Kept(r, s, places) ==
    \E o : /\ Picks(r, s, places, o)
           /\ \A j, k \in 1 .. Len(r) : j < k => o[j] < o[k]
Sorted(r, s) ==
    \E o : /\ Picks(r, s, DOMAIN s, o)
           /\ \A j, k \in 1 .. Len(r) : j < k => r[j].score >= r[k].score

LEMMA OnlyKeeps ==
    ASSUME NEW s, IsList(s), NEW places \in SUBSET DOMAIN s
    PROVE  Kept(Only(s, places), s, places)
<1> DEFINE score == [i \in places |-> 0]
           r == Only(s, places)
<1>1. \A i \in places : score[i] \in Int /\ score[i] = 0
  OBVIOUS
<1>2. r = [k \in 1 .. Cardinality(places) |-> s[ByScore(places, score)[k]]]
  BY DEF Only
<1> HIDE DEF r, score
<1>3. /\ Picks(r, s, places, ByScore(places, score))
      /\ \A j, k \in 1 .. Len(r) :
            j < k => Ahead(score, ByScore(places, score)[j], ByScore(places, score)[k])
  BY <1>1, <1>2, ByScorePicks
<1>4. PICK o : o = ByScore(places, score)
  OBVIOUS
<1>5. ASSUME NEW j \in 1 .. Len(r), NEW k \in 1 .. Len(r), j < k PROVE o[j] < o[k]
  <2>1. o[j] \in places /\ o[k] \in places /\ Ahead(score, o[j], o[k])
    BY <1>3, <1>4, <1>5 DEF Picks
  <2>2. score[o[j]] = 0 /\ score[o[k]] = 0
    BY <1>1, <2>1
  <2> QED
    BY <2>1, <2>2 DEF Ahead
<1> QED
  BY <1>3, <1>4, <1>5 DEF Kept, r

LEMMA RankedSorts ==
    ASSUME NEW s, IsList(s), \A k \in 1 .. Len(s) : s[k].score \in Int
    PROVE  Sorted(Ranked(s), s) /\ Len(Ranked(s)) = Len(s)
<1> DEFINE score == [i \in DOMAIN s |-> s[i].score]
           r == Ranked(s)
<1>1. DOMAIN s = 1 .. Len(s) /\ Len(s) \in Nat
  BY ListDomain DEF IsList
<1>2. \A i \in DOMAIN s : score[i] \in Int /\ score[i] = s[i].score
  BY <1>1
<1>3. Cardinality(DOMAIN s) = Len(s)
  BY <1>1, FS_Interval
<1>4. r = [k \in 1 .. Cardinality(DOMAIN s) |-> s[ByScore(DOMAIN s, score)[k]]]
  BY <1>1, <1>3 DEF Ranked
<1> HIDE DEF r, score
<1>5. /\ Picks(r, s, DOMAIN s, ByScore(DOMAIN s, score))
      /\ \A j, k \in 1 .. Len(r) :
            j < k => Ahead(score, ByScore(DOMAIN s, score)[j], ByScore(DOMAIN s, score)[k])
  BY <1>2, <1>4, ByScorePicks
<1>6. PICK o : o = ByScore(DOMAIN s, score)
  OBVIOUS
<1>7. ASSUME NEW j \in 1 .. Len(r), NEW k \in 1 .. Len(r), j < k PROVE r[j].score >= r[k].score
  <2>1. /\ o[j] \in DOMAIN s /\ o[k] \in DOMAIN s /\ Ahead(score, o[j], o[k])
        /\ r[j] = s[o[j]] /\ r[k] = s[o[k]]
    BY <1>5, <1>6, <1>7 DEF Picks
  <2>2. score[o[j]] = r[j].score /\ score[o[k]] = r[k].score /\ r[j].score \in Int /\ r[k].score \in Int
    BY <1>2, <2>1
  <2> QED
    BY <2>1, <2>2 DEF Ahead
<1>8. Len(r) = Len(s)
  BY <1>3, <1>5 DEF Picks
<1> QED
  BY <1>5, <1>6, <1>7, <1>8 DEF Sorted, r

LEMMA ListInSeq ==
    ASSUME NEW s, IsList(s), NEW S, \A k \in 1 .. Len(s) : s[k] \in S
    PROVE  s \in Seq(S)
<1>1. s \in [1 .. Len(s) -> S] /\ Len(s) \in Nat
  BY DEF IsList
<1>2. Seq(S) = UNION {[1 .. k -> S] : k \in Nat}
  BY SeqDef
<1> QED
  BY <1>1, <1>2

\* One list after another.
Joined(r, s, t) ==
    /\ IsList(r) /\ Len(r) = Len(s) + Len(t)
    /\ \A k \in 1 .. Len(s) : r[k] = s[k]
    /\ \A k \in 1 .. Len(t) : r[Len(s) + k] = t[k]
    /\ \A k \in 1 .. Len(r) : k \in 1 .. Len(s) \/ (k - Len(s) \in 1 .. Len(t) /\ r[k] = t[k - Len(s)])

LEMMA ConcatJoins ==
    ASSUME NEW s, IsList(s), NEW t, IsList(t)
    PROVE  Joined(s \o t, s, t)
<1> DEFINE S == {s[k] : k \in 1 .. Len(s)} \cup {t[k] : k \in 1 .. Len(t)}
<1>1. (\A k \in 1 .. Len(s) : s[k] \in S) /\ \A k \in 1 .. Len(t) : t[k] \in S
  OBVIOUS
<1> HIDE DEF S
<1>2. s \in Seq(S) /\ t \in Seq(S) /\ Len(s) \in Nat /\ Len(t) \in Nat
  BY <1>1, ListInSeq DEF IsList
<1>3. PICK r : r = s \o t
  OBVIOUS
<1>4. /\ r \in Seq(S) /\ Len(r) = Len(s) + Len(t)
      /\ \A k \in 1 .. Len(s) + Len(t) : r[k] = IF k <= Len(s) THEN s[k] ELSE t[k - Len(s)]
  BY <1>2, <1>3, ConcatProperties
<1>5. IsList(r)
  BY <1>4, LenProperties DEF IsList
<1>6. \A k \in 1 .. Len(s) : r[k] = s[k]
  BY <1>2, <1>4
<1>7. ASSUME NEW k \in 1 .. Len(t) PROVE r[Len(s) + k] = t[k]
  <2>1. /\ Len(s) + k \in 1 .. Len(s) + Len(t) /\ ~(Len(s) + k <= Len(s))
        /\ Len(s) + k - Len(s) = k
    BY <1>2
  <2> QED
    BY <1>4, <2>1
<1>8. ASSUME NEW k \in 1 .. Len(r), k \notin 1 .. Len(s)
      PROVE  k - Len(s) \in 1 .. Len(t) /\ r[k] = t[k - Len(s)]
  BY <1>2, <1>4, <1>8
<1> QED
  BY <1>3, <1>4, <1>5, <1>6, <1>7, <1>8 DEF Joined

-----------------------------------------------------------------------------
(* Hits                                                                    *)

Passage(p) ==
    p # Gone => /\ p.size \in Nat /\ p.bare \in Nat
                /\ p.dense \in Int /\ p.sparse \in Int /\ p.rerank \in Int
SearchTypeOK ==
    /\ wanted \in Questions
    /\ held = [c \in ChunkIds |-> held[c]] /\ vectors = [c \in ChunkIds |-> vectors[c]]
    /\ \A c \in ChunkIds : Passage(held[c]) /\ Passage(vectors[c])

\* A chunk that the request asks for, as far as its point told.
Asked(c) ==
    /\ c \in ChunkIds
    /\ narrowed # Unasked => PaperOf[c] \in narrowed
    /\ calm => /\ vectors[c] # Gone
               /\ wanted.sections # {} => vectors[c].section \in wanted.sections
IsHit(h) == h = Hit(h.id, h.score, h.section) /\ h.score \in Int
GoodHits(s) == IsList(s) /\ \A k \in 1 .. Len(s) : IsHit(s[k]) /\ Asked(s[k].id)

LEMMA HitFields ==
    ASSUME NEW c, NEW n \in Int, NEW section
    PROVE  /\ IsHit(Hit(c, n, section)) /\ Hit(c, n, section).id = c
           /\ Hit(c, n, section).score = n
BY DEF IsHit, Hit

LEMMA RatedFields ==
    ASSUME NEW h, NEW n \in Int
    PROVE  IsHit(Rated(h, n)) /\ Rated(h, n).id = h.id /\ Rated(h, n).score = n
BY HitFields DEF Rated

LEMMA PickedHits ==
    ASSUME NEW s, GoodHits(s), NEW places \in SUBSET DOMAIN s, NEW r, NEW o, Picks(r, s, places, o)
    PROVE  GoodHits(r) /\ Len(r) <= Len(s)
<1>1. IsList(s) /\ DOMAIN s = 1 .. Len(s) /\ Len(s) \in Nat
  BY ListDomain DEF GoodHits, IsList
<1>2. IsFiniteSet(1 .. Len(s)) /\ Cardinality(1 .. Len(s)) = Len(s)
  BY <1>1, FS_Interval
<1>3. Cardinality(places) <= Len(s)
  BY <1>1, <1>2, FS_Subset
<1> QED
  BY <1>1, <1>3 DEF GoodHits, Picks

LEMMA CutHits ==
    ASSUME NEW s, GoodHits(s), NEW n \in Nat
    PROVE  GoodHits(Top(s, n)) /\ Len(Top(s, n)) <= n /\ Len(Top(s, n)) <= Len(s)
<1>1. PICK t : t = Top(s, n)
  OBVIOUS
<1>2. Cut(t, s, n)
  BY <1>1, TopIsCut DEF GoodHits
<1>3. Len(t) \in Nat /\ Len(s) \in Nat /\ Len(t) <= n /\ Len(t) <= Len(s)
  BY <1>2 DEF Cut, IsList, GoodHits
<1>4. \A k \in 1 .. Len(t) : k \in 1 .. Len(s)
  BY <1>3
<1> QED
  BY <1>1, <1>2, <1>3, <1>4 DEF Cut, GoodHits

LEMMA RankedHits ==
    ASSUME NEW s, GoodHits(s)
    PROVE  GoodHits(Ranked(s)) /\ Len(Ranked(s)) = Len(s)
<1>1. \A k \in 1 .. Len(s) : s[k].score \in Int
  BY DEF GoodHits, IsHit
<1>2. Sorted(Ranked(s), s) /\ Len(Ranked(s)) = Len(s)
  BY <1>1, RankedSorts DEF GoodHits
<1>3. PICK r, o : r = Ranked(s) /\ Picks(r, s, DOMAIN s, o)
  BY <1>2 DEF Sorted
<1>4. PICK places : places = DOMAIN s
  OBVIOUS
<1>5. GoodHits(r)
  BY <1>3, <1>4, PickedHits
<1> QED
  BY <1>2, <1>3, <1>5

LEMMA OnlyHits ==
    ASSUME NEW s, GoodHits(s), NEW places \in SUBSET DOMAIN s
    PROVE  GoodHits(Only(s, places)) /\ Len(Only(s, places)) <= Len(s)
<1>1. Kept(Only(s, places), s, places)
  BY OnlyKeeps DEF GoodHits
<1>2. PICK r, o : r = Only(s, places) /\ Picks(r, s, places, o)
  BY <1>1 DEF Kept
<1>3. GoodHits(r) /\ Len(r) <= Len(s)
  BY <1>2, PickedHits
<1> QED
  BY <1>2, <1>3

\* The same chunks with other scores.
LEMMA RatedHits ==
    ASSUME NEW s, GoodHits(s), NEW score, \A k \in 1 .. Len(s) : score[k] \in Int,
           NEW r, r = [k \in 1 .. Len(s) |-> Rated(s[k], score[k])]
    PROVE  /\ GoodHits(r) /\ Len(r) = Len(s)
           /\ \A k \in 1 .. Len(s) : r[k].id = s[k].id /\ r[k].score = score[k]
<1>1. Len(s) \in Nat
  BY DEF GoodHits, IsList
<1>2. r = [k \in 1 .. Len(s) |-> r[k]] /\ \A k \in 1 .. Len(s) : r[k] = Rated(s[k], score[k])
  OBVIOUS
<1>3. IsList(r) /\ Len(r) = Len(s)
  <2>1. PICK n \in Nat : n = Len(s)
    BY <1>1
  <2> QED
    BY <1>2, <2>1, ListLength
<1>4. ASSUME NEW k \in 1 .. Len(s)
      PROVE  IsHit(r[k]) /\ r[k].id = s[k].id /\ r[k].score = score[k]
  BY <1>2, RatedFields
<1> QED
  BY <1>3, <1>4 DEF GoodHits

-----------------------------------------------------------------------------
(* What Qdrant finds                                                       *)

\* The first of the chunks that match, by meaning or by words.
Heads(t, mode, n) ==
    /\ IsList(t) /\ Len(t) <= n /\ Len(t) <= Cardinality(Matching)
    /\ Len(t) \in {n, Cardinality(Matching)}
    /\ \A k \in 1 .. Len(t) : /\ IsHit(t[k]) /\ t[k].id = RankedBy(mode)[k]
                              /\ t[k].score = Score(mode, RankedBy(mode)[k])

LEMMA MatchingIsFinite ==
    ASSUME SearchTypeOK
    PROVE  /\ IsFiniteSet(Matching) /\ Cardinality(Matching) \in Nat /\ Matching \subseteq ChunkIds
           /\ Matching \subseteq Int
           /\ \A c \in Matching : Asked(c)
<1>1. IsFiniteSet(ChunkIds) /\ ChunkIds \subseteq Int
  BY SearchAssumption
<1>2. Matching \subseteq ChunkIds
  BY DEF Matching
<1>3. IsFiniteSet(Matching)
  BY <1>1, <1>2, FS_Subset
<1>4. Cardinality(Matching) \in Nat
  BY <1>3, FS_CardinalityType
<1>5. \A c \in Matching : Asked(c)
  BY DEF Matching, PassesFilter, Asked
<1> QED
  BY <1>1, <1>2, <1>3, <1>4, <1>5

LEMMA ScoreIsInt ==
    ASSUME SearchTypeOK, NEW mode \in {"scroll", "dense", "sparse"}, NEW c \in Matching
    PROVE  Score(mode, c) \in Int
<1>1. vectors[c] # Gone /\ Passage(vectors[c])
  BY DEF SearchTypeOK, Matching, PassesFilter
<1>2. vectors[c].dense \in Int /\ vectors[c].sparse \in Int
  BY <1>1 DEF Passage
<1> QED
  BY <1>2 DEF Score

LEMMA RankedByIsList ==
    ASSUME SearchTypeOK, NEW mode \in {"scroll", "dense", "sparse"}
    PROVE  Lists(RankedBy(mode), Matching, [c \in Matching |-> Score(mode, c)])
<1> DEFINE score == [c \in Matching |-> Score(mode, c)]
<1>1. \A c \in Matching : score[c] \in Int
  BY ScoreIsInt
<1> HIDE DEF score
<1>2. Lists(ByScore(Matching, score), Matching, score)
  BY <1>1, MatchingIsFinite, ByScoreIsList
<1> QED
  BY <1>2 DEF RankedBy, score

LEMMA FoundHeads ==
    ASSUME SearchTypeOK, NEW mode \in {"scroll", "dense", "sparse"}, NEW n \in Nat
    PROVE  Heads(Found(mode, n), mode, n) /\ GoodHits(Found(mode, n))
<1> DEFINE all == [k \in 1 .. Cardinality(Matching) |->
                Hit(RankedBy(mode)[k], Score(mode, RankedBy(mode)[k]),
                    vectors[RankedBy(mode)[k]].section)]
<1>1. PICK m \in Nat : m = Cardinality(Matching)
  BY MatchingIsFinite
<1>2. \A k \in 1 .. m : RankedBy(mode)[k] \in Matching
  BY <1>1, RankedByIsList DEF Lists
<1>3. ASSUME NEW k \in 1 .. m
      PROVE  /\ IsHit(all[k]) /\ all[k].id = RankedBy(mode)[k]
             /\ all[k].score = Score(mode, RankedBy(mode)[k])
  <2>1. all[k] = Hit(RankedBy(mode)[k], Score(mode, RankedBy(mode)[k]),
                     vectors[RankedBy(mode)[k]].section)
    BY <1>1
  <2>2. Score(mode, RankedBy(mode)[k]) \in Int
    BY <1>2, ScoreIsInt
  <2> HIDE DEF all
  <2> QED
    BY <2>1, <2>2, HitFields
<1>4. all = [k \in 1 .. m |-> all[k]]
  BY <1>1
<1>5. Found(mode, n) = Top(all, n)
  BY DEF Found
<1> HIDE DEF all
<1>6. IsList(all) /\ Len(all) = m
  BY <1>4, ListLength
<1>7. PICK t : t = Found(mode, n)
  OBVIOUS
<1>8. Cut(t, all, n)
  BY <1>5, <1>6, <1>7, TopIsCut
<1>9. Len(t) \in Nat /\ Len(t) <= m /\ Len(t) <= n /\ Len(t) \in {n, m} /\ IsList(t)
  BY <1>6, <1>8 DEF Cut, IsList
<1>10. \A k \in 1 .. Len(t) : k \in 1 .. m
  BY <1>9
<1>11. \A k \in 1 .. Len(t) : t[k] = all[k]
  BY <1>8 DEF Cut
<1>12. Heads(t, mode, n)
  BY <1>1, <1>3, <1>9, <1>10, <1>11 DEF Heads
<1>13. \A k \in 1 .. Len(t) : Asked(t[k].id)
  BY <1>2, <1>10, <1>12, MatchingIsFinite DEF Heads
<1>14. GoodHits(t)
  BY <1>12, <1>13 DEF Heads, GoodHits
<1> QED
  BY <1>7, <1>12, <1>14

LEMMA WindowIsNat ==
    ASSUME SearchTypeOK
    PROVE  /\ Window \in Nat /\ 3 * Window \in Nat
           /\ wanted.limit \in Nat \ {0} /\ wanted.minSize \in Nat /\ wanted.candidates \in Nat
           /\ wanted.mode \in Modes
<1>1. /\ wanted.limit \in Nat \ {0} /\ wanted.minSize \in Nat /\ wanted.candidates \in Nat
      /\ wanted.mode \in Modes
  BY SearchAssumption DEF SearchTypeOK
<1>2. FetchLimit \in Nat
  BY SearchAssumption
<1>3. 2 * wanted.limit \in Nat
  BY <1>1
<1>4. Window \in Nat
  BY <1>1, <1>2, <1>3 DEF Window
<1> QED
  BY <1>1, <1>4

-----------------------------------------------------------------------------
(* Whatever is done with hits, they are still asked for                    *)

LEMMA RankIsInt ==
    ASSUME NEW s, GoodHits(s), NEW c
    PROVE  RankIn(s, c) \in Int
<1>1. CASE \E k \in DOMAIN s : s[k].id = c
  <2>1. PICK i : i = CHOOSE k \in DOMAIN s : s[k].id = c
    OBVIOUS
  <2>2. i \in DOMAIN s
    BY <1>1, <2>1
  <2>3. i \in Nat
    BY <2>2, ListDomain DEF GoodHits
  <2>4. 100000 \div (60 + i) \in Int
    BY <2>3
  <2> QED
    BY <1>1, <2>1, <2>4 DEF RankIn
<1>2. CASE ~\E k \in DOMAIN s : s[k].id = c
  BY <1>2 DEF RankIn
<1> QED
  BY <1>1, <1>2

LEMMA JoinedHits ==
    ASSUME NEW s, GoodHits(s), NEW t, GoodHits(t)
    PROVE  GoodHits(s \o t) /\ Joined(s \o t, s, t)
<1>1. PICK r : r = s \o t
  OBVIOUS
<1>2. Joined(r, s, t)
  BY <1>1, ConcatJoins DEF GoodHits
<1>3. ASSUME NEW k \in 1 .. Len(r) PROVE IsHit(r[k]) /\ Asked(r[k].id)
  <2>1. CASE k \in 1 .. Len(s)
    BY <1>2, <2>1 DEF Joined, GoodHits
  <2>2. CASE k \notin 1 .. Len(s)
    BY <1>2, <2>2 DEF Joined, GoodHits
  <2> QED
    BY <2>1, <2>2
<1> QED
  BY <1>1, <1>2, <1>3 DEF Joined, GoodHits

LEMMA FusedHits ==
    ASSUME NEW s, GoodHits(s), NEW t, GoodHits(t), NEW n \in Nat
    PROVE  GoodHits(Fused(s, t, n))
<1> DEFINE places == {i \in DOMAIN t : \A k \in DOMAIN s : s[k].id # t[i].id}
<1>1. PICK u : u = OnlyIn(t, s)
  OBVIOUS
<1>2. GoodHits(u)
  <2>1. u = Only(t, places) /\ places \in SUBSET DOMAIN t
    BY <1>1 DEF OnlyIn
  <2> HIDE DEF places
  <2> QED
    BY <2>1, OnlyHits
<1>3. PICK both : both = s \o u
  OBVIOUS
<1>4. GoodHits(both)
  BY <1>2, <1>3, JoinedHits
<1> DEFINE score == [k \in DOMAIN both |-> RankIn(s, both[k].id) + RankIn(t, both[k].id)]
           rated == [k \in DOMAIN both |-> Rated(both[k], RankIn(s, both[k].id) + RankIn(t, both[k].id))]
<1>5. DOMAIN both = 1 .. Len(both)
  BY <1>4, ListDomain DEF GoodHits
<1>6. \A k \in 1 .. Len(both) : score[k] \in Int
  <2>1. ASSUME NEW k \in 1 .. Len(both) PROVE score[k] \in Int
    <3>1. RankIn(s, both[k].id) \in Int /\ RankIn(t, both[k].id) \in Int
      BY RankIsInt
    <3> QED
      BY <1>5, <3>1
  <2> QED
    BY <2>1
<1>7. rated = [k \in 1 .. Len(both) |-> Rated(both[k], score[k])]
  BY <1>5
<1>8. Fused(s, t, n) = Top(Ranked(rated), n)
  BY <1>1, <1>3 DEF Fused
<1> HIDE DEF rated, score
<1>9. GoodHits(rated)
  BY <1>4, <1>6, <1>7, RatedHits
<1>10. GoodHits(Ranked(rated))
  BY <1>9, RankedHits
<1> QED
  BY <1>8, <1>10, CutHits

LEMMA SuitableHits ==
    ASSUME NEW s, GoodHits(s)
    PROVE  GoodHits(Suitable(s)) /\ Len(Suitable(s)) <= Len(s)
<1> DEFINE places == {i \in DOMAIN s : InSection(s[i]) /\ LargeEnough(s[i])}
<1>1. places \in SUBSET DOMAIN s
  OBVIOUS
<1>2. Suitable(s) = Only(s, places)
  BY DEF Suitable
<1> HIDE DEF places
<1> QED
  BY <1>1, <1>2, OnlyHits

LEMMA RerankedHits ==
    ASSUME SearchTypeOK, NEW s, GoodHits(s)
    PROVE  GoodHits(Reranked(s))
<1>1. CASE wanted.rerank # "yes"
  BY <1>1 DEF Reranked
<1>2. CASE wanted.rerank = "yes"
  <2>1. IsList(s) /\ Len(s) \in Nat /\ DOMAIN s = 1 .. Len(s)
    BY ListDomain DEF GoodHits, IsList
  <2>2. PICK n : n = IF wanted.candidates = 0 THEN Len(s) ELSE Min({wanted.candidates, Len(s)})
    OBVIOUS
  <2>3. n \in Nat /\ n <= Len(s)
    BY <2>1, <2>2, WindowIsNat, LesserOfTwo
  <2>4. Min({n, Len(s)}) = n
    BY <2>1, <2>3, LesserOfTwo
  <2>5. PICK head : head = Top(s, n)
    OBVIOUS
  <2>6. head = [k \in 1 .. n |-> s[k]]
    BY <2>4, <2>5 DEF Top
  <2>7. GoodHits(head)
    BY <2>3, <2>5, CutHits
  <2>8. Len(head) = n /\ \A k \in 1 .. n : head[k] = s[k]
    <3>1. head = [k \in 1 .. n |-> head[k]] /\ \A k \in 1 .. n : head[k] = s[k]
      BY <2>6
    <3> QED
      BY <2>3, <3>1, ListLength
  <2> DEFINE score == [k \in 1 .. n |-> RerankScore(s[k])]
             rated == [k \in 1 .. n |-> Rated(s[k], RerankScore(s[k]))]
             first == Ranked(rated)
             all == [k \in DOMAIN s |-> IF k <= n THEN first[k] ELSE s[k]]
  <2>9. \A k \in 1 .. n : k \in 1 .. Len(s)
    BY <2>1, <2>3
  <2>10. \A k \in 1 .. Len(head) : score[k] \in Int
    <3>1. ASSUME NEW k \in 1 .. n PROVE RerankScore(s[k]) \in Int
      <4>1. s[k].id \in ChunkIds
        BY <2>9 DEF GoodHits, Asked
      <4>2. Passage(held[s[k].id])
        BY <4>1 DEF SearchTypeOK
      <4> QED
        BY <4>2 DEF RerankScore, Passage
    <3> QED
      BY <2>8, <3>1
  <2>11. rated = [k \in 1 .. Len(head) |-> Rated(head[k], score[k])]
    BY <2>8
  <2>12. Reranked(s) = Top(all, wanted.limit)
    BY <1>2, <2>2 DEF Reranked
  <2> HIDE DEF score, rated
  <2>13. GoodHits(rated) /\ Len(rated) = n
    BY <2>7, <2>8, <2>10, <2>11, RatedHits
  <2>14. GoodHits(first) /\ Len(first) = n
    BY <2>13, RankedHits
  <2>15. /\ all = [k \in 1 .. Len(s) |-> all[k]]
         /\ \A k \in 1 .. Len(s) : all[k] = IF k <= n THEN first[k] ELSE s[k]
    BY <2>1
  <2> HIDE DEF all, first
  <2>16. IsList(all) /\ Len(all) = Len(s)
    <3>1. PICK m \in Nat : m = Len(s)
      BY <2>1
    <3> QED
      BY <2>15, <3>1, ListLength
  <2>17. ASSUME NEW k \in 1 .. Len(s) PROVE IsHit(all[k]) /\ Asked(all[k].id)
    <3>1. CASE k <= n
      <4>1. k \in 1 .. n
        BY <2>1, <2>3, <3>1
      <4> QED
        BY <2>14, <2>15, <3>1, <4>1 DEF GoodHits
    <3>2. CASE ~(k <= n)
      BY <2>15, <3>2 DEF GoodHits
    <3> QED
      BY <3>1, <3>2
  <2>18. GoodHits(all)
    BY <2>16, <2>17 DEF GoodHits
  <2> QED
    BY <2>12, <2>18, WindowIsNat, CutHits
<1> QED
  BY <1>1, <1>2

LEMMA RecentHits ==
    ASSUME SearchTypeOK, NEW s, GoodHits(s)
    PROVE  GoodHits(WithRecency(s))
<1>1. CASE ~wanted.recency
  BY <1>1 DEF WithRecency
<1>2. CASE wanted.recency
  <2> DEFINE score == [k \in DOMAIN s |-> s[k].score + Recent[YearOf[PaperOf[s[k].id]]]]
             rated == [k \in DOMAIN s |-> Rated(s[k], s[k].score + Recent[YearOf[PaperOf[s[k].id]]])]
  <2>1. DOMAIN s = 1 .. Len(s)
    BY ListDomain DEF GoodHits
  <2>2. ASSUME NEW k \in 1 .. Len(s) PROVE score[k] \in Int
    <3>1. s[k].id \in ChunkIds /\ s[k].score \in Int
      BY DEF GoodHits, Asked, IsHit
    <3>2. PaperOf[s[k].id] \in Reports
      BY <3>1, SearchAssumption
    <3>3. Recent[YearOf[PaperOf[s[k].id]]] \in Int
      BY <3>2, SearchAssumption
    <3>4. score[k] = s[k].score + Recent[YearOf[PaperOf[s[k].id]]]
      BY <2>1
    <3> QED
      BY <3>1, <3>3, <3>4
  <2>3. rated = [k \in 1 .. Len(s) |-> Rated(s[k], score[k])]
    BY <2>1
  <2>4. WithRecency(s) = Ranked(rated)
    BY <1>2 DEF WithRecency
  <2> HIDE DEF score, rated
  <2>5. GoodHits(rated)
    BY <2>2, <2>3, RatedHits
  <2> QED
    BY <2>4, <2>5, RankedHits
<1> QED
  BY <1>1, <1>2

LEMMA AdjustedHits ==
    ASSUME SearchTypeOK, NEW s, GoodHits(s)
    PROVE  GoodHits(Adjusted(s)) /\ Len(Adjusted(s)) <= wanted.limit
<1>1. PICK r : r = WithRecency(Reranked(Suitable(s)))
  OBVIOUS
<1>2. GoodHits(r)
  BY <1>1, SuitableHits, RerankedHits, RecentHits
<1>3. Adjusted(s) = Top(r, wanted.limit)
  BY <1>1 DEF Adjusted
<1> QED
  BY <1>2, <1>3, WindowIsNat, CutHits

-----------------------------------------------------------------------------
(* Results                                                                 *)

\* A result that may be shown.
Showable(r) ==
    /\ Asked(r.id) /\ Presentable(r) /\ r.score \in Int
    /\ r.paper = PaperOf[r.id] /\ r.text = TextOfRow(r)
GoodResults(s) == IsList(s) /\ \A k \in 1 .. Len(s) : Showable(s[k])

\* No chunk that was not there; none that was there left out.
NoneNew(r, s) == \A k \in 1 .. Len(r) : \E i \in 1 .. Len(s) : r[k].id = s[i].id
NoneLost(r, s) == \A i \in 1 .. Len(s) : \E k \in 1 .. Len(r) : r[k].id = s[i].id

LEMMA ResultFields ==
    ASSUME NEW h, NEW n
    PROVE  /\ Result(h, n).id = h.id /\ Result(h, n).paper = PaperOf[h.id]
           /\ Result(h, n).text = TextOfRow(h) /\ Result(h, n).score = n
           /\ TextOfRow(Result(h, n)) = TextOfRow(h)
           /\ Presentable(Result(h, n)) <=> Presentable(h)
<1>1. /\ Result(h, n).id = h.id /\ Result(h, n).paper = PaperOf[h.id]
      /\ Result(h, n).text = TextOfRow(h) /\ Result(h, n).score = n
  BY DEF Result
<1>2. PICK r : r = Result(h, n)
  OBVIOUS
<1>3. r.id = h.id
  BY <1>1, <1>2
<1>4. TextOfRow(r) = TextOfRow(h)
  BY <1>3 DEF TextOfRow
<1>5. BareSize(r) = BareSize(h)
  BY <1>3 DEF BareSize
<1>6. Presentable(r) <=> Presentable(h)
  BY <1>3, <1>5 DEF Presentable
<1> QED
  BY <1>1, <1>2, <1>4, <1>6

LEMMA BuiltResults ==
    ASSUME SearchTypeOK, NEW s, GoodHits(s)
    PROVE  /\ GoodResults(Built(s)) /\ Len(Built(s)) <= wanted.limit /\ NoneNew(Built(s), s)
           /\ Len(s) <= wanted.limit =>
                 \A i \in 1 .. Len(s) : Presentable(s[i]) =>
                    \E k \in 1 .. Len(Built(s)) : Built(s)[k].id = s[i].id
<1> DEFINE places == {i \in DOMAIN s : Presentable(s[i])}
           L == wanted.limit
<1>1. places \in SUBSET DOMAIN s /\ DOMAIN s = 1 .. Len(s) /\ IsList(s)
  BY ListDomain DEF GoodHits
<1>2. PICK o : o = Only(s, places)
  OBVIOUS
<1>3. PICK t : t = Top(o, L)
  OBVIOUS
<1>4. PICK r : r = Built(s)
  OBVIOUS
<1>5. r = [k \in DOMAIN t |-> Result(t[k], t[k].score)]
  BY <1>2, <1>3, <1>4 DEF Built
<1>6. \A i \in places : Presentable(s[i])
  OBVIOUS
<1>7. \A i \in 1 .. Len(s) : Presentable(s[i]) => i \in places
  BY <1>1
<1> HIDE DEF places
<1>8. Kept(o, s, places) /\ GoodHits(o) /\ Len(o) <= Len(s)
  BY <1>1, <1>2, OnlyKeeps, OnlyHits
<1>9. PICK q : Picks(o, s, places, q)
  BY <1>8 DEF Kept
<1>10. GoodHits(t) /\ Cut(t, o, L) /\ L \in Nat
  BY <1>3, <1>8, WindowIsNat, CutHits, TopIsCut DEF GoodHits
<1>11. DOMAIN t = 1 .. Len(t) /\ Len(t) \in Nat
  BY <1>10, ListDomain DEF GoodHits, IsList
<1>12. \A k \in 1 .. Len(t) : r[k] = Result(t[k], t[k].score)
  BY <1>5, <1>11
<1>13. IsList(r) /\ Len(r) = Len(t)
  <2>1. PICK m \in Nat : m = Len(t)
    BY <1>11
  <2>2. r = [k \in 1 .. m |-> r[k]]
    BY <1>5, <1>11, <2>1
  <2> QED
    BY <2>1, <2>2, ListLength
<1>14. Len(t) <= L /\ Len(o) \in Nat /\ Len(s) \in Nat
       /\ Len(t) <= Len(o) /\ Len(t) \in {L, Len(o)}
  BY <1>1, <1>8, <1>10 DEF Cut, IsList, GoodHits
<1>15. ASSUME NEW k \in 1 .. Len(t)
       PROVE  /\ k \in 1 .. Len(o) /\ q[k] \in places /\ t[k] = s[q[k]] /\ Presentable(t[k])
              /\ q[k] \in 1 .. Len(s)
  <2>1. k \in 1 .. Len(o)
    BY <1>11, <1>14
  <2>2. t[k] = o[k]
    BY <1>10 DEF Cut
  <2>3. q[k] \in places /\ o[k] = s[q[k]]
    BY <1>9, <2>1 DEF Picks
  <2> QED
    BY <1>1, <1>6, <2>1, <2>2, <2>3
<1>16. ASSUME NEW k \in 1 .. Len(r) PROVE Showable(r[k]) /\ r[k].id = s[q[k]].id
  <2>1. /\ r[k] = Result(t[k], t[k].score) /\ Presentable(t[k]) /\ t[k] = s[q[k]]
        /\ Asked(t[k].id) /\ t[k].score \in Int
    BY <1>10, <1>12, <1>13, <1>15 DEF GoodHits, IsHit
  <2> QED
    BY <2>1, ResultFields DEF Showable
<1>17. NoneNew(r, s)
  BY <1>13, <1>15, <1>16 DEF NoneNew
<1>18. ASSUME Len(s) <= L, NEW i \in 1 .. Len(s), Presentable(s[i])
       PROVE  \E k \in 1 .. Len(r) : r[k].id = s[i].id
  <2>1. i \in places
    BY <1>7, <1>18
  <2>2. PICK k \in 1 .. Len(o) : q[k] = i
    BY <1>9, <2>1 DEF Picks
  <2>3. Len(o) <= L
    BY <1>8, <1>10, <1>14, <1>18
  <2>4. Len(t) = Len(o)
    BY <1>10, <1>14, <2>3
  <2>5. k \in 1 .. Len(r)
    BY <1>13, <2>4
  <2> QED
    BY <1>16, <2>2, <2>5
<1> QED
  BY <1>4, <1>13, <1>14, <1>16, <1>17, <1>18 DEF GoodResults

LEMMA SameResults ==
    ASSUME NEW s, GoodResults(s)
    PROVE  NoneNew(s, s) /\ NoneLost(s, s)
BY DEF NoneNew, NoneLost

LEMMA PickedResults ==
    ASSUME NEW s, GoodResults(s), NEW places \in SUBSET DOMAIN s, NEW r, NEW o, Picks(r, s, places, o)
    PROVE  /\ GoodResults(r) /\ Len(r) <= Len(s) /\ NoneNew(r, s)
           /\ places = DOMAIN s => NoneLost(r, s)
<1>1. IsList(s) /\ DOMAIN s = 1 .. Len(s) /\ Len(s) \in Nat
  BY ListDomain DEF GoodResults, IsList
<1>2. IsFiniteSet(1 .. Len(s)) /\ Cardinality(1 .. Len(s)) = Len(s)
  BY <1>1, FS_Interval
<1>3. Cardinality(places) <= Len(s)
  BY <1>1, <1>2, FS_Subset
<1>4. \A k \in 1 .. Len(r) : o[k] \in 1 .. Len(s) /\ r[k] = s[o[k]]
  BY <1>1 DEF Picks
<1>5. GoodResults(r)
  BY <1>4 DEF GoodResults, Picks
<1>6. NoneNew(r, s)
  BY <1>4 DEF NoneNew
<1>7. ASSUME places = DOMAIN s PROVE NoneLost(r, s)
  <2>1. ASSUME NEW i \in 1 .. Len(s) PROVE \E k \in 1 .. Len(r) : r[k].id = s[i].id
    <3>1. PICK k \in 1 .. Len(r) : o[k] = i
      BY <1>1, <1>7, <2>1 DEF Picks
    <3> QED
      BY <1>4, <3>1
  <2> QED
    BY <2>1 DEF NoneLost
<1>8. Len(r) <= Len(s)
  BY <1>3 DEF Picks
<1> QED
  BY <1>5, <1>6, <1>7, <1>8

LEMMA OnlyResults ==
    ASSUME NEW s, GoodResults(s), NEW places \in SUBSET DOMAIN s
    PROVE  GoodResults(Only(s, places)) /\ Len(Only(s, places)) <= Len(s) /\ NoneNew(Only(s, places), s)
<1>1. Kept(Only(s, places), s, places)
  BY OnlyKeeps DEF GoodResults
<1>2. PICK r, o : r = Only(s, places) /\ Picks(r, s, places, o)
  BY <1>1 DEF Kept
<1>3. GoodResults(r) /\ Len(r) <= Len(s) /\ NoneNew(r, s)
  BY <1>2, PickedResults
<1> QED
  BY <1>2, <1>3

LEMMA RankedResults ==
    ASSUME NEW s, GoodResults(s)
    PROVE  /\ GoodResults(Ranked(s)) /\ Len(Ranked(s)) <= Len(s)
           /\ NoneNew(Ranked(s), s) /\ NoneLost(Ranked(s), s)
<1>1. \A k \in 1 .. Len(s) : s[k].score \in Int
  BY DEF GoodResults, Showable
<1>2. Sorted(Ranked(s), s)
  BY <1>1, RankedSorts DEF GoodResults
<1>3. PICK r, o : r = Ranked(s) /\ Picks(r, s, DOMAIN s, o)
  BY <1>2 DEF Sorted
<1>4. PICK places : places = DOMAIN s
  OBVIOUS
<1>5. GoodResults(r) /\ Len(r) <= Len(s) /\ NoneNew(r, s) /\ NoneLost(r, s)
  BY <1>3, <1>4, PickedResults
<1> QED
  BY <1>3, <1>5

LEMMA BoostedResults ==
    ASSUME NEW s, GoodResults(s)
    PROVE  /\ GoodResults(Boosted(s)) /\ Len(Boosted(s)) <= Len(s) /\ NoneNew(Boosted(s), s)
           /\ wanted.boost # "only" => NoneLost(Boosted(s), s)
<1>1. CASE wanted.boost = "none"
  <2>1. Boosted(s) = s /\ Len(s) \in Nat
    BY <1>1 DEF Boosted, GoodResults, IsList
  <2> QED
    BY <2>1, SameResults
<1>2. CASE wanted.boost # "none"
  <2> DEFINE places == {i \in DOMAIN s : Mentioned(s[i])}
             more(n) == IF wanted.boost = "only" THEN Size(n) ELSE Size(n) \div 2
  <2>1. PICK left : left = IF wanted.boost = "only" THEN Only(s, places) ELSE s
    OBVIOUS
  <2>2. Len(s) \in Nat
    BY DEF GoodResults, IsList
  <2>3. /\ GoodResults(left) /\ Len(left) <= Len(s) /\ NoneNew(left, s)
        /\ wanted.boost # "only" => NoneLost(left, s)
    <3>1. places \in SUBSET DOMAIN s
      OBVIOUS
    <3> HIDE DEF places
    <3> QED
      BY <2>1, <2>2, <3>1, OnlyResults, SameResults
  <2> DEFINE lifted == [k \in DOMAIN left |-> IF Mentioned(left[k])
                           THEN Result(left[k], left[k].score + more(left[k].score)) ELSE left[k]]
  <2>4. Boosted(s) = Ranked(lifted)
    BY <1>2, <2>1 DEF Boosted
  <2>5. \A n \in Int : more(n) \in Int
    <3>1. ASSUME NEW n \in Int PROVE more(n) \in Int
      <4>1. Size(n) \in Int
        BY DEF Size
      <4>2. Size(n) \div 2 \in Int
        BY <4>1
      <4> QED
        BY <4>1, <4>2
    <3> QED
      BY <3>1
  <2>6. DOMAIN left = 1 .. Len(left) /\ Len(left) \in Nat
    BY <2>3, ListDomain DEF GoodResults, IsList
  <2> HIDE DEF more
  <2>7. /\ lifted = [k \in 1 .. Len(left) |-> lifted[k]]
        /\ \A k \in 1 .. Len(left) :
              lifted[k] = IF Mentioned(left[k])
                          THEN Result(left[k], left[k].score + more(left[k].score)) ELSE left[k]
    BY <2>6
  <2> HIDE DEF lifted
  <2>8. IsList(lifted) /\ Len(lifted) = Len(left)
    <3>1. PICK m \in Nat : m = Len(left)
      BY <2>6
    <3> QED
      BY <2>7, <3>1, ListLength
  <2>9. ASSUME NEW k \in 1 .. Len(left) PROVE Showable(lifted[k]) /\ lifted[k].id = left[k].id
    <3>1. Showable(left[k])
      BY <2>3 DEF GoodResults
    <3>2. CASE ~Mentioned(left[k])
      BY <2>7, <3>1, <3>2
    <3>3. CASE Mentioned(left[k])
      <4>1. PICK n : n = left[k].score + more(left[k].score)
        OBVIOUS
      <4>2. n \in Int
        BY <2>5, <3>1, <4>1 DEF Showable
      <4>3. lifted[k] = Result(left[k], n)
        BY <2>7, <3>3, <4>1
      <4> QED
        BY <3>1, <4>2, <4>3, ResultFields DEF Showable
    <3> QED
      BY <3>2, <3>3
  <2>10. GoodResults(lifted)
    BY <2>8, <2>9 DEF GoodResults
  <2>11. PICK r : r = Ranked(lifted)
    OBVIOUS
  <2>12. /\ GoodResults(r) /\ Len(r) <= Len(lifted)
         /\ NoneNew(r, lifted) /\ NoneLost(r, lifted)
    BY <2>10, <2>11, RankedResults
  <2>13. NoneNew(r, s)
    BY <2>3, <2>8, <2>9, <2>12 DEF NoneNew
  <2>14. wanted.boost # "only" => NoneLost(r, s)
    BY <2>3, <2>8, <2>9, <2>12 DEF NoneLost
  <2>15. Len(r) <= Len(s)
    <3>1. Len(r) \in Nat
      BY <2>12 DEF GoodResults, IsList
    <3> QED
      BY <2>2, <2>3, <2>6, <2>8, <2>12, <3>1
  <2> QED
    BY <2>4, <2>11, <2>12, <2>13, <2>14, <2>15
<1> QED
  BY <1>1, <1>2

LEMMA AboveWorstResults ==
    ASSUME NEW s, GoodResults(s)
    PROVE  /\ GoodResults(AboveWorst(s)) /\ Len(AboveWorst(s)) <= Len(s) /\ NoneNew(AboveWorst(s), s)
           /\ ~wanted.auto => NoneLost(AboveWorst(s), s)
<1> DEFINE places == {i \in DOMAIN s :
                        s[i].score >= Ranked(s)[Len(s) - (3 * Len(s)) \div 10].score}
<1>1. places \in SUBSET DOMAIN s
  OBVIOUS
<1>2. AboveWorst(s) = IF wanted.auto /\ s # <<>> THEN Only(s, places) ELSE s
  BY DEF AboveWorst
<1> HIDE DEF places
<1>3. Len(s) \in Nat
  BY DEF GoodResults, IsList
<1>4. CASE wanted.auto /\ s # <<>>
  BY <1>1, <1>2, <1>4, OnlyResults
<1>5. CASE ~(wanted.auto /\ s # <<>>)
  <2>1. AboveWorst(s) = s
    BY <1>2, <1>5
  <2> QED
    BY <1>3, <1>4, <1>5, <2>1, SameResults
<1> QED
  BY <1>4, <1>5

\* Results that are shown of hits.
Improves(r, s) ==
    /\ GoodResults(r) /\ Len(r) <= wanted.limit
    /\ NoneNew(r, s)
    /\ wanted.boost # "only" /\ ~wanted.auto /\ Len(s) <= wanted.limit =>
          \A i \in 1 .. Len(s) : Presentable(s[i]) => \E k \in 1 .. Len(r) : r[k].id = s[i].id

LEMMA ImprovedResults ==
    ASSUME SearchTypeOK, NEW s, GoodHits(s)
    PROVE  Improves(Improved(s), s)
<1>1. PICK b : b = Built(s)
  OBVIOUS
<1>2. PICK m : m = Boosted(b)
  OBVIOUS
<1>3. PICK r : r = AboveWorst(m)
  OBVIOUS
<1>4. r = Improved(s)
  BY <1>1, <1>2, <1>3 DEF Improved
<1>5. /\ GoodResults(b) /\ Len(b) <= wanted.limit /\ NoneNew(b, s)
      /\ Len(s) <= wanted.limit =>
            \A i \in 1 .. Len(s) : Presentable(s[i]) => \E k \in 1 .. Len(b) : b[k].id = s[i].id
  BY <1>1, BuiltResults
<1>6. /\ GoodResults(m) /\ Len(m) <= Len(b) /\ NoneNew(m, b)
      /\ wanted.boost # "only" => NoneLost(m, b)
  BY <1>2, <1>5, BoostedResults
<1>7. /\ GoodResults(r) /\ Len(r) <= Len(m) /\ NoneNew(r, m)
      /\ ~wanted.auto => NoneLost(r, m)
  BY <1>3, <1>6, AboveWorstResults
<1>8. Len(r) <= wanted.limit
  <2>1. Len(b) \in Nat /\ Len(m) \in Nat /\ Len(r) \in Nat /\ wanted.limit \in Nat
    BY <1>5, <1>6, <1>7, WindowIsNat DEF GoodResults, IsList
  <2> QED
    BY <1>5, <1>6, <1>7, <2>1
<1>9. NoneNew(r, s)
  BY <1>5, <1>6, <1>7 DEF NoneNew
<1>10. ASSUME wanted.boost # "only", ~wanted.auto, Len(s) <= wanted.limit,
              NEW i \in 1 .. Len(s), Presentable(s[i])
       PROVE  \E k \in 1 .. Len(r) : r[k].id = s[i].id
  <2>1. PICK k1 \in 1 .. Len(b) : b[k1].id = s[i].id
    BY <1>5, <1>10
  <2>2. PICK k2 \in 1 .. Len(m) : m[k2].id = s[i].id
    BY <1>6, <1>10, <2>1 DEF NoneLost
  <2> QED
    BY <1>7, <1>10, <2>2 DEF NoneLost
<1> QED
  BY <1>4, <1>7, <1>8, <1>9, <1>10 DEF Improves

-----------------------------------------------------------------------------
(* Of equal texts the newest                                               *)

Under == {p \in Nat \X Nat : p[1] < p[2]}

\* A non-empty set of natural numbers has a least element.
LEMMA LeastOf ==
    ASSUME NEW T \in SUBSET Nat, T # {}
    PROVE  \E m \in T : \A k \in T : m <= k
<1>1. IsWellFoundedOn(Under, Nat)
  BY NatLessThanWellFounded DEF Under, OpToRel
<1>2. PICK m \in T : \A k \in T : <<k, m>> \notin Under
  BY <1>1, WFMin
<1>3. m \in Nat /\ \A k \in T : k \in Nat
  OBVIOUS
<1>4. \A k \in T : ~(k < m)
  BY <1>2, <1>3 DEF Under
<1> QED
  BY <1>3, <1>4

LEMMA AppendIsList ==
    ASSUME NEW s, IsList(s), NEW e
    PROVE  /\ IsList(Append(s, e)) /\ Len(Append(s, e)) = Len(s) + 1
           /\ \A k \in 1 .. Len(s) : Append(s, e)[k] = s[k]
           /\ Append(s, e)[Len(s) + 1] = e
<1> DEFINE S == {s[k] : k \in 1 .. Len(s)} \cup {e}
<1>1. (\A k \in 1 .. Len(s) : s[k] \in S) /\ e \in S
  OBVIOUS
<1> HIDE DEF S
<1>2. s \in Seq(S) /\ Len(s) \in Nat
  BY <1>1, ListInSeq DEF IsList
<1>3. /\ Append(s, e) \in Seq(S) /\ Len(Append(s, e)) = Len(s) + 1
      /\ \A k \in 1 .. Len(s) : Append(s, e)[k] = s[k]
      /\ Append(s, e)[Len(s) + 1] = e
  BY <1>1, <1>2, AppendProperties
<1>4. IsList(Append(s, e))
  BY <1>3, LenProperties DEF IsList
<1> QED
  BY <1>3, <1>4

\* The first n results, each text once, with the newest document that has it.
KeepsNewest(r, s, n) ==
    /\ IsList(r) /\ Len(r) <= n
    /\ \A k \in 1 .. Len(r) : \E i \in 1 .. n : r[k] = s[i]
    /\ \A j, k \in 1 .. Len(r) : r[j].text = r[k].text => j = k
    /\ \A i \in 1 .. n : \E k \in 1 .. Len(r) :
          r[k].text = s[i].text /\ YearOf[s[i].paper] <= YearOf[r[k].paper]

LEMMA YearIsInt ==
    ASSUME NEW s, GoodResults(s), NEW i \in 1 .. Len(s)
    PROVE  YearOf[s[i].paper] \in Int
<1>1. s[i].id \in ChunkIds /\ s[i].paper = PaperOf[s[i].id]
  BY DEF GoodResults, Showable, Asked
<1>2. s[i].paper \in Reports
  BY <1>1, SearchAssumption
<1> QED
  BY <1>2, SearchAssumption

LEMMA OneMore ==
    ASSUME NEW s, GoodResults(s), NEW n \in 1 .. Len(s), NEW r, KeepsNewest(r, s, n - 1)
    PROVE  KeepsNewest(WithResult(r, s[n]), s, n)
<1> DEFINE same == {k \in DOMAIN r : r[k].text = s[n].text}
<1>1. n \in Nat /\ Len(s) \in Nat /\ n - 1 \in Nat
  BY DEF GoodResults, IsList
<1>2. /\ IsList(r) /\ Len(r) \in Nat /\ Len(r) <= n - 1 /\ DOMAIN r = 1 .. Len(r)
  BY ListDomain DEF KeepsNewest, IsList
<1>3. \A i \in 1 .. n - 1 : i \in 1 .. n /\ i \in 1 .. Len(s)
  BY <1>1
<1>4. \A i \in 1 .. n : i \in 1 .. n - 1 \/ i = n
  BY <1>1
<1>5. n \in 1 .. n /\ \A i \in 1 .. n : YearOf[s[i].paper] \in Int
  <2>1. \A i \in 1 .. n : i \in 1 .. Len(s)
    BY <1>1
  <2> QED
    BY <1>1, <2>1, YearIsInt
<1>6. WithResult(r, s[n]) = IF same = {} THEN Append(r, s[n])
        ELSE [k \in DOMAIN r |-> IF k \in same /\ Newer(s[n], r[k]) THEN s[n] ELSE r[k]]
  BY DEF WithResult
<1>7. \A k \in 1 .. Len(r) : k \in same <=> r[k].text = s[n].text
  BY <1>2
<1>8. PICK w : w = WithResult(r, s[n])
  OBVIOUS
<1>9. \A k \in 1 .. Len(r) : \E i \in 1 .. n : r[k] = s[i]
  BY <1>3 DEF KeepsNewest
<1>10. \A k \in 1 .. Len(r) : YearOf[r[k].paper] \in Int
  BY <1>5, <1>9
<1> HIDE DEF same
<1>11. CASE same = {}
  <2>1. /\ IsList(w) /\ Len(w) = Len(r) + 1
        /\ \A k \in 1 .. Len(r) : w[k] = r[k]
        /\ w[Len(r) + 1] = s[n]
    BY <1>2, <1>6, <1>8, <1>11, AppendIsList
  <2>2. \A k \in 1 .. Len(w) : k \in 1 .. Len(r) \/ k = Len(r) + 1
    BY <1>2, <2>1
  <2>3. /\ \A k \in 1 .. Len(r) : k \in 1 .. Len(w)
        /\ Len(r) + 1 \in 1 .. Len(w)
    BY <1>2, <2>1
  <2>4. \A k \in 1 .. Len(r) : r[k].text # s[n].text
    BY <1>7, <1>11
  <2>5. Len(w) <= n
    BY <1>1, <1>2, <2>1
  <2>6. ASSUME NEW k \in 1 .. Len(w) PROVE \E i \in 1 .. n : w[k] = s[i]
    BY <1>5, <1>9, <2>1, <2>2
  <2>7. ASSUME NEW j \in 1 .. Len(w), NEW k \in 1 .. Len(w), w[j].text = w[k].text PROVE j = k
    <3>1. CASE j \in 1 .. Len(r) /\ k \in 1 .. Len(r)
      BY <2>1, <2>7, <3>1 DEF KeepsNewest
    <3>2. CASE j = Len(r) + 1 /\ k \in 1 .. Len(r)
      BY <2>1, <2>4, <2>7, <3>2
    <3>3. CASE j \in 1 .. Len(r) /\ k = Len(r) + 1
      BY <2>1, <2>4, <2>7, <3>3
    <3> QED
      BY <2>2, <3>1, <3>2, <3>3
  <2>8. ASSUME NEW i \in 1 .. n
        PROVE  \E k \in 1 .. Len(w) :
                  w[k].text = s[i].text /\ YearOf[s[i].paper] <= YearOf[w[k].paper]
    <3>1. CASE i \in 1 .. n - 1
      <4>1. PICK k \in 1 .. Len(r) :
               r[k].text = s[i].text /\ YearOf[s[i].paper] <= YearOf[r[k].paper]
        BY <3>1 DEF KeepsNewest
      <4> QED
        BY <2>1, <2>3, <4>1
    <3>2. CASE i = n
      <4>1. YearOf[s[n].paper] <= YearOf[s[n].paper]
        BY <1>5
      <4> QED
        BY <2>1, <2>3, <3>2, <4>1
    <3> QED
      BY <1>4, <3>1, <3>2
  <2> QED
    BY <1>8, <2>1, <2>5, <2>6, <2>7, <2>8 DEF KeepsNewest
<1>12. CASE same # {}
  <2>1. w = [k \in 1 .. Len(r) |-> IF k \in same /\ Newer(s[n], r[k]) THEN s[n] ELSE r[k]]
    BY <1>2, <1>6, <1>8, <1>12
  <2>2. /\ w = [k \in 1 .. Len(r) |-> w[k]]
        /\ \A k \in 1 .. Len(r) : w[k] = IF k \in same /\ Newer(s[n], r[k]) THEN s[n] ELSE r[k]
    BY <2>1
  <2>3. IsList(w) /\ Len(w) = Len(r)
    <3>1. PICK m \in Nat : m = Len(r)
      BY <1>2
    <3> QED
      BY <2>2, <3>1, ListLength
  <2>4. ASSUME NEW k \in 1 .. Len(r)
        PROVE  w[k].text = r[k].text /\ YearOf[r[k].paper] <= YearOf[w[k].paper]
    <3>1. CASE k \in same /\ Newer(s[n], r[k])
      <4>1. w[k] = s[n] /\ r[k].text = s[n].text
        BY <1>7, <2>2, <3>1
      <4>2. YearOf[r[k].paper] <= YearOf[s[n].paper]
        BY <1>5, <1>10, <3>1 DEF Newer
      <4> QED
        BY <4>1, <4>2
    <3>2. CASE ~(k \in same /\ Newer(s[n], r[k]))
      <4>1. w[k] = r[k]
        BY <2>2, <3>2
      <4> QED
        BY <1>10, <4>1
    <3> QED
      BY <3>1, <3>2
  <2>5. Len(w) <= n
    BY <1>1, <1>2, <2>3
  <2>6. ASSUME NEW k \in 1 .. Len(w) PROVE \E i \in 1 .. n : w[k] = s[i]
    <3>1. w[k] = s[n] \/ w[k] = r[k]
      BY <2>2, <2>3
    <3> QED
      BY <1>5, <1>9, <2>3, <3>1
  <2>7. \A j, k \in 1 .. Len(w) : w[j].text = w[k].text => j = k
    BY <2>3, <2>4 DEF KeepsNewest
  <2>8. \A k \in 1 .. Len(w) : YearOf[w[k].paper] \in Int
    BY <1>5, <2>6
  <2>9. ASSUME NEW i \in 1 .. n
        PROVE  \E k \in 1 .. Len(w) :
                  w[k].text = s[i].text /\ YearOf[s[i].paper] <= YearOf[w[k].paper]
    <3>1. CASE i \in 1 .. n - 1
      <4>1. PICK k \in 1 .. Len(r) :
               r[k].text = s[i].text /\ YearOf[s[i].paper] <= YearOf[r[k].paper]
        BY <3>1 DEF KeepsNewest
      <4>2. w[k].text = s[i].text
        BY <2>4, <4>1
      <4>3. YearOf[s[i].paper] <= YearOf[w[k].paper]
        <5>1. YearOf[s[i].paper] \in Int /\ YearOf[r[k].paper] \in Int /\ YearOf[w[k].paper] \in Int
          BY <1>5, <1>10, <2>3, <2>8
        <5>2. YearOf[r[k].paper] <= YearOf[w[k].paper]
          BY <2>4
        <5> QED
          BY <4>1, <5>1, <5>2
      <4> QED
        BY <2>3, <4>2, <4>3
    <3>2. CASE i = n
      <4>1. PICK k \in 1 .. Len(r) : k \in same
        BY <1>2, <1>12 DEF same
      <4>2. w[k].text = s[n].text
        BY <1>7, <2>4, <4>1
      <4>3. YearOf[s[n].paper] <= YearOf[w[k].paper]
        <5>1. CASE Newer(s[n], r[k])
          <6>1. w[k] = s[n]
            BY <2>2, <4>1, <5>1
          <6> QED
            BY <1>5, <6>1
        <5>2. CASE ~Newer(s[n], r[k])
          <6>1. w[k] = r[k]
            BY <2>2, <5>2
          <6>2. ~(YearOf[s[n].paper] > YearOf[r[k].paper])
            BY <5>2 DEF Newer
          <6> QED
            BY <1>5, <1>10, <6>1, <6>2
        <5> QED
          BY <5>1, <5>2
      <4> QED
        BY <2>3, <3>2, <4>2, <4>3
    <3> QED
      BY <1>4, <3>1, <3>2
  <2> QED
    BY <1>8, <2>3, <2>5, <2>6, <2>7, <2>9 DEF KeepsNewest
<1> QED
  BY <1>11, <1>12

\* What is kept of the first results, one after another.
Keeping(s, n, f) == f = [m \in 0 .. n |-> IF m = 0 THEN <<>> ELSE WithResult(f[m - 1], s[m])]

LEMMA KeepingExists ==
    ASSUME NEW s, NEW L \in Nat
    PROVE  \E f : Keeping(s, L, f)
<1> DEFINE T == {n \in Nat : ~\E f : Keeping(s, n, f)}
<1>1. ASSUME T # {} PROVE FALSE
  <2>1. PICK m \in T : \A k \in T : m <= k
    BY <1>1, LeastOf
  <2>2. m \in Nat /\ ~\E f : Keeping(s, m, f)
    BY <2>1
  <2>3. m # 0
    <3> SUFFICES ASSUME m = 0 PROVE FALSE
      OBVIOUS
    <3> DEFINE g == [j \in 0 .. 0 |-> <<>>]
    <3>1. g = [j \in 0 .. 0 |-> IF j = 0 THEN <<>> ELSE WithResult(g[j - 1], s[j])]
      OBVIOUS
    <3>2. Keeping(s, 0, g)
      BY <3>1 DEF Keeping
    <3> QED
      BY <2>2, <3>2
  <2>4. m - 1 \in Nat /\ ~(m <= m - 1)
    BY <2>2, <2>3
  <2>5. PICK f : Keeping(s, m - 1, f)
    BY <2>1, <2>4
  <2> DEFINE g == [j \in 0 .. m |-> IF j = m THEN WithResult(f[m - 1], s[m]) ELSE f[j]]
  <2>6. ASSUME NEW j \in 0 .. m
        PROVE  g[j] = IF j = 0 THEN <<>> ELSE WithResult(g[j - 1], s[j])
    <3>1. CASE j = 0
      <4>1. 0 \in 0 .. m - 1 /\ 0 # m
        BY <2>2, <2>3
      <4>2. f[0] = <<>>
        BY <2>5, <4>1 DEF Keeping
      <4> QED
        BY <3>1, <4>1, <4>2
    <3>2. CASE j # 0 /\ j # m
      <4>1. j \in 0 .. m - 1 /\ j - 1 \in 0 .. m /\ j - 1 # m
        BY <2>2, <3>2
      <4>2. f[j] = WithResult(f[j - 1], s[j])
        BY <2>5, <3>2, <4>1 DEF Keeping
      <4>3. g[j] = f[j] /\ g[j - 1] = f[j - 1]
        BY <3>2, <4>1
      <4> QED
        BY <3>2, <4>2, <4>3
    <3>3. CASE j = m
      <4>1. j - 1 \in 0 .. m /\ j - 1 # m /\ j # 0
        BY <2>2, <2>3, <3>3
      <4>2. g[j] = WithResult(f[j - 1], s[j]) /\ g[j - 1] = f[j - 1]
        BY <3>3, <4>1
      <4> QED
        BY <4>1, <4>2
    <3> QED
      BY <3>1, <3>2, <3>3
  <2>7. g = [j \in 0 .. m |-> g[j]]
    OBVIOUS
  <2> HIDE DEF g
  <2>8. g = [j \in 0 .. m |-> IF j = 0 THEN <<>> ELSE WithResult(g[j - 1], s[j])]
    BY <2>6, <2>7
  <2>9. Keeping(s, m, g)
    BY <2>8 DEF Keeping
  <2> QED
    BY <2>2, <2>9
<1> QED
  BY <1>1

LEMMA DeduplicatedKeepsNewest ==
    ASSUME NEW s, GoodResults(s), wanted.dedup
    PROVE  KeepsNewest(Deduplicated(s), s, Len(s))
<1> DEFINE L == Len(s)
           kept == CHOOSE f : f = [n \in 0 .. Len(s) |->
                                      IF n = 0 THEN <<>> ELSE WithResult(f[n - 1], s[n])]
           T == {n \in 0 .. L : ~KeepsNewest(kept[n], s, n)}
<1>1. L \in Nat
  BY DEF GoodResults, IsList
<1>2. Deduplicated(s) = kept[L]
  BY DEF Deduplicated
<1>3. /\ kept[0] = <<>>
      /\ \A n \in 1 .. L : kept[n] = WithResult(kept[n - 1], s[n])
  <2>1. PICK f : Keeping(s, L, f)
    BY <1>1, KeepingExists
  <2>2. f = [n \in 0 .. Len(s) |-> IF n = 0 THEN <<>> ELSE WithResult(f[n - 1], s[n])]
    BY <2>1 DEF Keeping
  <2>3. kept = [n \in 0 .. L |-> IF n = 0 THEN <<>> ELSE WithResult(kept[n - 1], s[n])]
    BY <2>2
  <2> HIDE DEF kept, L
  <2>4. 0 \in 0 .. L /\ \A n \in 1 .. L : n \in 0 .. L /\ n # 0
    BY <1>1
  <2> QED
    BY <2>3, <2>4
<1> HIDE DEF kept
<1>4. KeepsNewest(<<>>, s, 0)
  <2>1. IsList(<<>>) /\ Len(<<>>) = 0
    BY NoList
  <2>2. 1 .. 0 = {}
    OBVIOUS
  <2> QED
    BY <2>1, <2>2 DEF KeepsNewest
<1>5. ASSUME T # {} PROVE FALSE
  <2>1. T \in SUBSET Nat
    BY <1>1
  <2>2. PICK m \in T : \A k \in T : m <= k
    BY <1>5, <2>1, LeastOf
  <2>3. m \in 0 .. L /\ ~KeepsNewest(kept[m], s, m)
    BY <2>2
  <2>4. m # 0
    BY <1>3, <1>4, <2>3
  <2>5. m \in 1 .. L /\ m - 1 \in 0 .. L /\ ~(m <= m - 1)
    BY <1>1, <2>3, <2>4
  <2>6. KeepsNewest(kept[m - 1], s, m - 1)
    BY <2>2, <2>5
  <2>7. KeepsNewest(WithResult(kept[m - 1], s[m]), s, m)
    BY <2>5, <2>6, OneMore
  <2> QED
    BY <1>3, <2>3, <2>5, <2>7
<1>6. L \in 0 .. L
  BY <1>1
<1> QED
  BY <1>2, <1>5, <1>6

-----------------------------------------------------------------------------
(* The best                                                                *)

\* Chunks of a set, the worthiest first, and none left out is worth more.
Best(s, E, worth) ==
    /\ IsList(s) /\ \A k \in 1 .. Len(s) : s[k].id \in E
    /\ \A j, k \in 1 .. Len(s) : s[j].id = s[k].id => j = k
    /\ \A j, k \in 1 .. Len(s) : j < k => worth[s[j].id] >= worth[s[k].id]
    /\ \A c \in E : \/ \E k \in 1 .. Len(s) : s[k].id = c
                    \/ \A k \in 1 .. Len(s) : worth[c] <= worth[s[k].id]
\* The best n of a set.
Chosen(s, n, E, worth) ==
    Best(s, E, worth) /\ Len(s) <= n /\ Len(s) \in {n, Cardinality(E)}
IdsOf(s) == {s[k].id : k \in 1 .. Len(s)}
Worths == [c \in ChunkIds |-> Worth(c)]

LEMMA BestIds ==
    ASSUME NEW s, NEW E, IsFiniteSet(E), NEW worth, Best(s, E, worth)
    PROVE  /\ Cardinality(IdsOf(s)) = Len(s) /\ IdsOf(s) \subseteq E
           /\ Len(s) \in Nat /\ Cardinality(E) \in Nat /\ Len(s) <= Cardinality(E)
           /\ Len(s) = Cardinality(E) <=> IdsOf(s) = E
<1>1. PICK n \in Nat : n = Len(s)
  BY DEF Best, IsList
<1>2. PICK ids : ids = IdsOf(s)
  OBVIOUS
<1>3. (\A k \in 1 .. n : s[k].id \in ids) /\ \A c \in ids : \E k \in 1 .. n : s[k].id = c
  BY <1>1, <1>2 DEF IdsOf
<1> DEFINE f == [k \in 1 .. n |-> s[k].id]
<1>4. f \in [1 .. n -> ids] /\ \A k \in 1 .. n : f[k] = s[k].id
  BY <1>3
<1> HIDE DEF f
<1>5. \A j, k \in 1 .. n : f[j] = f[k] => j = k
  BY <1>1, <1>4 DEF Best
<1>6. f \in Injection(1 .. n, ids)
  BY <1>4, <1>5, Zenon DEF Injection, IsInjective
<1>7. f \in Surjection(1 .. n, ids)
  BY <1>3, <1>4 DEF Surjection
<1>8. IsFiniteSet(1 .. n) /\ Cardinality(1 .. n) = n
  <2>1. n \in Nat /\ n \in Int
    BY <1>1
  <2> QED
    BY <2>1, FS_Interval
<1>9. /\ IsFiniteSet(ids)
      /\ Cardinality(ids) = Cardinality(1 .. n) <=> f \in Injection(1 .. n, ids)
  BY <1>7, <1>8, FS_Surjection
<1>10. IsFiniteSet(ids) /\ Cardinality(ids) = n
  BY <1>6, <1>8, <1>9
<1>11. ids \subseteq E
  BY <1>1, <1>3 DEF Best
<1>12. Cardinality(ids) <= Cardinality(E) /\ (Cardinality(ids) = Cardinality(E) => ids = E)
  BY <1>11, FS_Subset
<1>13. Cardinality(E) \in Nat
  BY FS_CardinalityType
<1> QED
  BY <1>1, <1>2, <1>10, <1>11, <1>12, <1>13

LEMMA CutIsBest ==
    ASSUME NEW s, NEW E, NEW worth, Best(s, E, worth), \A c \in E : worth[c] \in Int,
           NEW n, NEW t, Cut(t, s, n)
    PROVE  Best(t, E, worth)
<1>1. IsList(t) /\ Len(t) \in Nat /\ Len(s) \in Nat /\ Len(t) <= Len(s)
  BY DEF Cut, Best, IsList
<1>2. \A k \in 1 .. Len(t) : k \in 1 .. Len(s)
  BY <1>1
<1>3. \A k \in 1 .. Len(t) : t[k] = s[k]
  BY DEF Cut
<1>4. \A k \in 1 .. Len(t) : t[k].id \in E
  BY <1>2, <1>3 DEF Best
<1>5. \A j, k \in 1 .. Len(t) : t[j].id = t[k].id => j = k
  BY <1>2, <1>3 DEF Best
<1>6. \A j, k \in 1 .. Len(t) : j < k => worth[t[j].id] >= worth[t[k].id]
  BY <1>2, <1>3 DEF Best
<1>7. ASSUME NEW c \in E, ~\E k \in 1 .. Len(t) : t[k].id = c, NEW k \in 1 .. Len(t)
      PROVE  worth[c] <= worth[t[k].id]
  <2>1. CASE \E i \in 1 .. Len(s) : s[i].id = c
    <3>1. PICK i \in 1 .. Len(s) : s[i].id = c
      BY <2>1
    <3>2. i \notin 1 .. Len(t)
      BY <1>3, <1>7, <3>1
    <3>3. k < i
      BY <1>1, <3>1, <3>2
    <3>4. worth[s[k].id] >= worth[s[i].id]
      BY <1>2, <3>3 DEF Best
    <3>5. s[k].id \in E /\ worth[s[k].id] \in Int /\ worth[c] \in Int
      BY <1>2 DEF Best
    <3> QED
      BY <1>3, <3>1, <3>4, <3>5
  <2>2. CASE ~\E i \in 1 .. Len(s) : s[i].id = c
    BY <1>2, <1>3, <2>2 DEF Best
  <2> QED
    BY <2>1, <2>2
<1> QED
  BY <1>1, <1>4, <1>5, <1>6, <1>7 DEF Best

\* What is left of the best is the best of what is left.
LEMMA KeptIsBest ==
    ASSUME NEW s, NEW E, NEW worth, Best(s, E, worth), NEW F \in SUBSET E,
           NEW places, NEW r, Kept(r, s, places), places \subseteq 1 .. Len(s),
           \A i \in 1 .. Len(s) : i \in places <=> s[i].id \in F
    PROVE  Best(r, F, worth)
<1>1. PICK o : /\ Picks(r, s, places, o)
               /\ \A j, k \in 1 .. Len(r) : j < k => o[j] < o[k]
  BY DEF Kept
<1>2. \A k \in 1 .. Len(r) : o[k] \in places /\ o[k] \in 1 .. Len(s) /\ r[k] = s[o[k]]
  BY <1>1 DEF Picks
<1>3. \A k \in 1 .. Len(r) : r[k].id \in F
  BY <1>2
<1>4. ASSUME NEW j \in 1 .. Len(r), NEW k \in 1 .. Len(r), r[j].id = r[k].id PROVE j = k
  <2>1. o[j] = o[k]
    BY <1>2, <1>4 DEF Best
  <2> QED
    BY <1>1, <2>1 DEF Picks
<1>5. \A j, k \in 1 .. Len(r) : j < k => worth[r[j].id] >= worth[r[k].id]
  BY <1>1, <1>2 DEF Best
<1>6. ASSUME NEW c \in F, ~\E k \in 1 .. Len(r) : r[k].id = c, NEW k \in 1 .. Len(r)
      PROVE  worth[c] <= worth[r[k].id]
  <2>1. ~\E i \in 1 .. Len(s) : s[i].id = c
    <3> SUFFICES ASSUME NEW i \in 1 .. Len(s), s[i].id = c PROVE FALSE
      OBVIOUS
    <3>1. i \in places
      OBVIOUS
    <3>2. PICK m \in 1 .. Len(r) : o[m] = i
      BY <1>1, <3>1 DEF Picks
    <3> QED
      BY <1>2, <1>6, <3>2
  <2>2. c \in E
    OBVIOUS
  <2> QED
    BY <1>2, <2>1, <2>2 DEF Best
<1>7. IsList(r)
  BY <1>1 DEF Picks
<1> QED
  BY <1>3, <1>4, <1>5, <1>6, <1>7 DEF Best

-----------------------------------------------------------------------------
(* Ranks                                                                   *)

LEMMA RanksDiffer ==
    ASSUME SearchTypeOK, NEW mode \in {"scroll", "dense", "sparse"}
    PROVE  /\ Cardinality(Matching) \in Nat
           /\ \A k \in 1 .. Cardinality(Matching) : RankedBy(mode)[k] \in Matching
           /\ \A c \in Matching : \E k \in 1 .. Cardinality(Matching) : RankedBy(mode)[k] = c
           /\ \A j, k \in 1 .. Cardinality(Matching) :
                 j < k => Score(mode, RankedBy(mode)[j]) >= Score(mode, RankedBy(mode)[k])
           /\ \A j, k \in 1 .. Cardinality(Matching) : RankedBy(mode)[j] = RankedBy(mode)[k] => j = k
<1>1. PICK l : l = RankedBy(mode)
  OBVIOUS
<1>2. PICK M : M = Matching
  OBVIOUS
<1>3. PICK n \in Nat : n = Cardinality(M)
  BY <1>2, MatchingIsFinite
<1> DEFINE score == [c \in M |-> Score(mode, c)]
<1>4. Lists(l, M, score)
  BY <1>1, <1>2, RankedByIsList
<1>5. \A c \in M : score[c] = Score(mode, c) /\ score[c] \in Int /\ c \in Int
  BY <1>2, ScoreIsInt, MatchingIsFinite
<1> HIDE DEF score
<1>6. \A k \in 1 .. n : l[k] \in M
  BY <1>3, <1>4 DEF Lists
<1>7. ASSUME NEW j \in 1 .. n, NEW k \in 1 .. n, j < k
      PROVE  score[l[j]] >= score[l[k]] /\ l[j] # l[k]
  <2>1. Ahead(score, l[j], l[k])
    BY <1>3, <1>4, <1>7 DEF Lists
  <2>2. score[l[j]] \in Int /\ score[l[k]] \in Int /\ l[j] \in Int /\ l[k] \in Int
    BY <1>5, <1>6
  <2> QED
    BY <2>1, <2>2 DEF Ahead
<1>8. ASSUME NEW j \in 1 .. n, NEW k \in 1 .. n, l[j] = l[k] PROVE j = k
  <2>1. j < k \/ k < j \/ j = k
    BY <1>3
  <2> QED
    BY <1>7, <1>8, <2>1
<1>9. \A c \in M : \E k \in 1 .. n : l[k] = c
  BY <1>3, <1>4 DEF Lists
<1>10. \A j, k \in 1 .. n : j < k => Score(mode, l[j]) >= Score(mode, l[k])
  BY <1>5, <1>6, <1>7
<1> QED
  BY <1>1, <1>2, <1>3, <1>6, <1>8, <1>9, <1>10

LEMMA HeadsAreChosen ==
    ASSUME SearchTypeOK, NEW mode \in {"scroll", "dense", "sparse"}, NEW n \in Nat,
           NEW t, Heads(t, mode, n), wanted.mode = mode
    PROVE  Chosen(t, n, Matching, Worths)
<1>1. PICK l : l = RankedBy(mode)
  OBVIOUS
<1>2. PICK N \in Nat : N = Cardinality(Matching)
  BY MatchingIsFinite
<1>3. /\ IsList(t) /\ Len(t) \in Nat /\ Len(t) <= N /\ Len(t) <= n /\ Len(t) \in {n, N}
      /\ \A k \in 1 .. Len(t) : t[k].id = l[k]
  BY <1>1, <1>2 DEF Heads, IsList
<1>4. \A k \in 1 .. Len(t) : k \in 1 .. N
  BY <1>3
<1>5. \A c \in Matching : Worths[c] = Score(mode, c) /\ Worths[c] \in Int
  <2>1. \A c \in Matching : c \in ChunkIds /\ Score(mode, c) \in Int
    BY MatchingIsFinite, ScoreIsInt
  <2>2. mode # "hybrid"
    OBVIOUS
  <2> QED
    BY <2>1, <2>2 DEF Worths, Worth
<1>6. /\ \A k \in 1 .. N : l[k] \in Matching
      /\ \A c \in Matching : \E k \in 1 .. N : l[k] = c
      /\ \A j, k \in 1 .. N : j < k => Score(mode, l[j]) >= Score(mode, l[k])
      /\ \A j, k \in 1 .. N : l[j] = l[k] => j = k
  BY <1>1, <1>2, RanksDiffer
<1>7. \A k \in 1 .. Len(t) : t[k].id \in Matching
  BY <1>3, <1>4, <1>6
<1>8. \A j, k \in 1 .. Len(t) : t[j].id = t[k].id => j = k
  BY <1>3, <1>4, <1>6
<1>9. \A j, k \in 1 .. Len(t) : j < k => Worths[t[j].id] >= Worths[t[k].id]
  <2>1. ASSUME NEW j \in 1 .. Len(t), NEW k \in 1 .. Len(t), j < k
        PROVE  Worths[t[j].id] >= Worths[t[k].id]
    <3>1. Score(mode, l[j]) >= Score(mode, l[k])
      BY <1>4, <1>6, <2>1
    <3> QED
      BY <1>3, <1>4, <1>5, <1>6, <3>1
  <2> QED
    BY <2>1
<1>10. ASSUME NEW c \in Matching, ~\E k \in 1 .. Len(t) : t[k].id = c, NEW k \in 1 .. Len(t)
       PROVE  Worths[c] <= Worths[t[k].id]
  <2>1. PICK i \in 1 .. N : l[i] = c
    BY <1>6
  <2>2. i \notin 1 .. Len(t)
    BY <1>3, <1>10, <2>1
  <2>3. k < i
    BY <1>3, <2>1, <2>2
  <2>4. Score(mode, l[k]) >= Score(mode, l[i])
    BY <1>4, <1>6, <2>3
  <2>5. Worths[c] = Score(mode, l[i]) /\ Worths[t[k].id] = Score(mode, l[k])
    BY <1>3, <1>4, <1>5, <1>6, <2>1
  <2>6. Worths[c] \in Int /\ Worths[t[k].id] \in Int
    BY <1>5, <1>7
  <2> QED
    BY <2>4, <2>5, <2>6
<1>11. Best(t, Matching, Worths)
  BY <1>3, <1>7, <1>8, <1>9, <1>10 DEF Best
<1> QED
  BY <1>2, <1>3, <1>11 DEF Chosen

LEMMA RankByHolds ==
    ASSUME SearchTypeOK, NEW mode \in {"scroll", "dense", "sparse"}, NEW c \in Matching
    PROVE  /\ RankBy(mode, c) \in 1 .. Cardinality(Matching)
           /\ RankedBy(mode)[RankBy(mode, c)] = c
<1>1. \E k \in 1 .. Cardinality(Matching) : RankedBy(mode)[k] = c
  BY RanksDiffer
<1> QED
  BY <1>1 DEF RankBy

LEMMA ByRankIsNat ==
    ASSUME NEW n \in Nat
    PROVE  ByRank(n) \in Nat
<1>1. 100000 \div (60 + n) \in Nat
  OBVIOUS
<1> QED
  BY <1>1 DEF ByRank

\* What the rank in one half adds up to, and nothing for what that half does not have.
LEMMA RankInFound ==
    ASSUME SearchTypeOK, NEW mode \in {"scroll", "dense", "sparse"},
           NEW s, Heads(s, mode, 3 * Window), NEW c \in Matching
    PROVE  /\ RankIn(s, c) = ByRank(RankBy(mode, c)) /\ RankIn(s, c) \in Nat
           /\ (\E k \in DOMAIN s : s[k].id = c) \/ RankIn(s, c) = 0
<1>1. PICK l : l = RankedBy(mode)
  OBVIOUS
<1>2. PICK N \in Nat : N = Cardinality(Matching)
  BY MatchingIsFinite
<1>3. PICK W \in Nat : W = 3 * Window
  BY WindowIsNat
<1>4. PICK j : j = RankBy(mode, c)
  OBVIOUS
<1>5. j \in 1 .. N /\ l[j] = c /\ j \in Nat
  BY <1>1, <1>2, <1>4, RankByHolds
<1>6. \A i, k \in 1 .. N : l[i] = l[k] => i = k
  BY <1>1, <1>2, RanksDiffer
<1>7. /\ IsList(s) /\ Len(s) \in Nat /\ Len(s) <= N /\ Len(s) <= W /\ Len(s) \in {W, N}
      /\ \A k \in 1 .. Len(s) : s[k].id = l[k]
  BY <1>1, <1>2, <1>3 DEF Heads, IsList
<1>8. DOMAIN s = 1 .. Len(s)
  BY <1>7, ListDomain
<1>9. \A k \in 1 .. Len(s) : k \in 1 .. N
  BY <1>7
<1>10. \A k \in 1 .. Len(s) : s[k].id = c => k = j
  BY <1>5, <1>6, <1>7, <1>9
<1>11. ByRank(j) = IF j <= W THEN 100000 \div (60 + j) ELSE 0
  BY <1>3 DEF ByRank
<1>12. CASE j <= Len(s)
  <2>0. W \in Nat /\ N \in Nat
    BY <1>2, <1>3
  <2>1. j \in 1 .. Len(s) /\ j <= W
    BY <1>5, <1>7, <1>12, <2>0
  <2>6. j \in DOMAIN s /\ s[j].id = c
    BY <1>5, <1>7, <1>8, <2>1
  <2>2. (CHOOSE k \in DOMAIN s : s[k].id = c) = j
    BY <1>8, <1>10, <2>6
  <2>7. \E k \in DOMAIN s : s[k].id = c
    BY <2>6
  <2>3. RankIn(s, c) = 100000 \div (60 + j)
    <3>1. PICK i : i = CHOOSE k \in DOMAIN s : s[k].id = c
      OBVIOUS
    <3>2. RankIn(s, c) = 100000 \div (60 + i)
      BY <2>7, <3>1 DEF RankIn
    <3>3. i = j
      BY <2>2, <3>1
    <3> QED
      BY <3>2, <3>3
  <2>4. RankIn(s, c) = ByRank(j)
    BY <1>11, <2>1, <2>3
  <2>5. ByRank(j) \in Nat
    BY <1>5, ByRankIsNat
  <2> QED
    BY <1>4, <2>4, <2>5, <2>7
<1>13. CASE ~(j <= Len(s))
  <2>1. ~(j <= W) /\ j \notin 1 .. Len(s)
    <3>1. W \in Nat /\ N \in Nat
      BY <1>2, <1>3
    <3>2. j <= N /\ j \in Nat
      BY <1>5, <3>1
    <3> QED
      BY <1>7, <1>13, <3>1, <3>2
  <2>2. ~\E k \in DOMAIN s : s[k].id = c
    BY <1>8, <1>10, <2>1
  <2>3. RankIn(s, c) = 0
    BY <2>2 DEF RankIn
  <2> QED
    BY <1>4, <1>11, <2>1, <2>3
<1> QED
  BY <1>12, <1>13

\* One half of a hybrid search, and of the other what the first does not have.
Halves(both, s, t) ==
    /\ GoodHits(both) /\ Len(both) \in Nat /\ Len(s) \in Nat /\ Len(s) <= Len(both)
    /\ \A k \in 1 .. Len(both) : both[k].id \in Matching
    /\ \A j, k \in 1 .. Len(both) : both[j].id = both[k].id => j = k
    /\ \A k \in 1 .. Len(s) : \E i \in 1 .. Len(both) : both[i].id = s[k].id
    /\ \A k \in 1 .. Len(t) : \E i \in 1 .. Len(both) : both[i].id = t[k].id

LEMMA BothHalves ==
    ASSUME SearchTypeOK, NEW s, Heads(s, "dense", 3 * Window), GoodHits(s),
           NEW t, Heads(t, "sparse", 3 * Window), GoodHits(t),
           NEW both, both = s \o OnlyIn(t, s)
    PROVE  Halves(both, s, t)
<1> DEFINE places == {i \in DOMAIN t : \A k \in DOMAIN s : s[k].id # t[i].id}
<1>1. DOMAIN s = 1 .. Len(s) /\ DOMAIN t = 1 .. Len(t) /\ IsList(s) /\ IsList(t)
  BY ListDomain DEF GoodHits
<1>2. PICK u : u = OnlyIn(t, s)
  OBVIOUS
<1>3. u = Only(t, places)
  BY <1>2 DEF OnlyIn
<1>4. /\ places \in SUBSET DOMAIN t
      /\ \A i \in places : i \in 1 .. Len(t) /\ \A k \in 1 .. Len(s) : s[k].id # t[i].id
      /\ \A i \in 1 .. Len(t) : i \in places \/ \E k \in 1 .. Len(s) : s[k].id = t[i].id
  BY <1>1
<1> HIDE DEF places
<1>5. GoodHits(u) /\ Kept(u, t, places)
  BY <1>1, <1>3, <1>4, OnlyHits, OnlyKeeps
<1>6. PICK o : Picks(u, t, places, o)
  BY <1>5 DEF Kept
<1>7. GoodHits(both) /\ Joined(both, s, u)
  BY <1>2, <1>5, JoinedHits
<1>8. Len(both) = Len(s) + Len(u) /\ Len(s) \in Nat /\ Len(u) \in Nat
  BY <1>1, <1>5, <1>7 DEF Joined, GoodHits, IsList
<1>9. \A k \in 1 .. Len(s) : both[k] = s[k] /\ k \in 1 .. Len(both)
  BY <1>7, <1>8 DEF Joined
<1>10. \A k \in 1 .. Len(u) : both[Len(s) + k] = u[k] /\ Len(s) + k \in 1 .. Len(both)
  BY <1>7, <1>8 DEF Joined
<1>11. \A k \in 1 .. Len(both) :
          \/ k \in 1 .. Len(s)
          \/ k - Len(s) \in 1 .. Len(u) /\ both[k] = u[k - Len(s)]
  BY <1>7 DEF Joined
<1>12. \A k \in 1 .. Len(u) : o[k] \in places /\ u[k] = t[o[k]]
  BY <1>6 DEF Picks
<1>13. ASSUME NEW mode \in {"dense", "sparse"}, NEW r, Heads(r, mode, 3 * Window)
       PROVE  /\ \A k \in 1 .. Len(r) : r[k].id \in Matching
              /\ \A j, k \in 1 .. Len(r) : r[j].id = r[k].id => j = k
  <2>1. PICK N \in Nat : N = Cardinality(Matching)
    BY MatchingIsFinite
  <2>2. /\ Len(r) \in Nat /\ Len(r) <= N
        /\ \A k \in 1 .. Len(r) : r[k].id = RankedBy(mode)[k]
    BY <1>13, <2>1 DEF Heads, IsList
  <2>3. \A k \in 1 .. Len(r) : k \in 1 .. N
    BY <2>2
  <2>4. /\ \A k \in 1 .. N : RankedBy(mode)[k] \in Matching
        /\ \A j, k \in 1 .. N : RankedBy(mode)[j] = RankedBy(mode)[k] => j = k
    <3>1. mode \in {"scroll", "dense", "sparse"}
      OBVIOUS
    <3> QED
      BY <2>1, <3>1, RanksDiffer
  <2> QED
    BY <2>2, <2>3, <2>4
<1>14. /\ \A k \in 1 .. Len(s) : s[k].id \in Matching
       /\ \A j, k \in 1 .. Len(s) : s[j].id = s[k].id => j = k
       /\ \A k \in 1 .. Len(t) : t[k].id \in Matching
       /\ \A j, k \in 1 .. Len(t) : t[j].id = t[k].id => j = k
  BY <1>13
<1>15. \A k \in 1 .. Len(u) : u[k].id \in Matching
  BY <1>4, <1>12, <1>14
<1>16. \A k \in 1 .. Len(both) : both[k].id \in Matching
  BY <1>9, <1>11, <1>14, <1>15
<1>17. \A j \in 1 .. Len(s), k \in 1 .. Len(u) : s[j].id # u[k].id
  BY <1>4, <1>12
<1>18. ASSUME NEW j \in 1 .. Len(u), NEW k \in 1 .. Len(u), u[j].id = u[k].id PROVE j = k
  <2>1. o[j] = o[k]
    BY <1>4, <1>12, <1>14, <1>18
  <2> QED
    BY <1>6, <2>1 DEF Picks
<1>19. ASSUME NEW j \in 1 .. Len(both), NEW k \in 1 .. Len(both), both[j].id = both[k].id
       PROVE  j = k
  <2>1. CASE j \in 1 .. Len(s) /\ k \in 1 .. Len(s)
    BY <1>9, <1>14, <1>19, <2>1
  <2>2. CASE j \in 1 .. Len(s) /\ k \notin 1 .. Len(s)
    BY <1>9, <1>11, <1>17, <1>19, <2>2
  <2>3. CASE j \notin 1 .. Len(s) /\ k \in 1 .. Len(s)
    BY <1>9, <1>11, <1>17, <1>19, <2>3
  <2>4. CASE j \notin 1 .. Len(s) /\ k \notin 1 .. Len(s)
    <3>1. j - Len(s) = k - Len(s)
      BY <1>11, <1>18, <1>19, <2>4
    <3>2. j \in Int /\ k \in Int /\ Len(s) \in Int
      BY <1>8
    <3> QED
      BY <3>1, <3>2
  <2> QED
    BY <2>1, <2>2, <2>3, <2>4
<1>20. \A k \in 1 .. Len(s) : \E i \in 1 .. Len(both) : both[i].id = s[k].id
  BY <1>9
<1>21. ASSUME NEW k \in 1 .. Len(t) PROVE \E i \in 1 .. Len(both) : both[i].id = t[k].id
  <2>1. CASE k \in places
    <3>1. PICK m \in 1 .. Len(u) : o[m] = k
      BY <1>6, <2>1 DEF Picks
    <3> QED
      BY <1>10, <1>12, <3>1
  <2>2. CASE k \notin places
    <3>1. PICK m \in 1 .. Len(s) : s[m].id = t[k].id
      BY <1>4, <2>2
    <3> QED
      BY <1>9, <3>1
  <2> QED
    BY <2>1, <2>2
<1>22. Len(both) \in Nat /\ Len(s) <= Len(both)
  BY <1>8
<1> QED
  BY <1>7, <1>8, <1>16, <1>19, <1>20, <1>21, <1>22 DEF Halves

LEMMA WorthIsInt ==
    ASSUME SearchTypeOK, NEW c \in Matching
    PROVE  Worths[c] \in Int
<1>1. Worths[c] = Worth(c)
  BY MatchingIsFinite DEF Worths
<1>2. CASE wanted.mode = "hybrid"
  <2>1. PICK N \in Nat : N = Cardinality(Matching)
    BY MatchingIsFinite
  <2>2. RankBy("dense", c) \in 1 .. N /\ RankBy("sparse", c) \in 1 .. N
    BY <2>1, RankByHolds
  <2>3. RankBy("dense", c) \in Nat /\ RankBy("sparse", c) \in Nat
    BY <2>2
  <2>4. ByRank(RankBy("dense", c)) \in Nat /\ ByRank(RankBy("sparse", c)) \in Nat
    BY <2>3, ByRankIsNat
  <2> QED
    BY <1>1, <1>2, <2>4 DEF Worth
<1>3. CASE wanted.mode # "hybrid"
  <2>1. wanted.mode \in {"scroll", "dense", "sparse"}
    BY <1>3, WindowIsNat DEF Modes
  <2> QED
    BY <1>1, <1>3, <2>1, ScoreIsInt DEF Worth
<1> QED
  BY <1>2, <1>3

LEMMA FusedIsChosen ==
    ASSUME SearchTypeOK, wanted.mode = "hybrid", Window >= wanted.limit,
           NEW s, Heads(s, "dense", 3 * Window), GoodHits(s),
           NEW t, Heads(t, "sparse", 3 * Window), GoodHits(t)
    PROVE  Chosen(Fused(s, t, wanted.limit), wanted.limit, Matching, Worths)
<1>1. PICK both : both = s \o OnlyIn(t, s)
  OBVIOUS
<1>2. /\ GoodHits(both) /\ Len(both) \in Nat /\ Len(s) \in Nat /\ Len(s) <= Len(both)
      /\ \A k \in 1 .. Len(both) : both[k].id \in Matching
      /\ \A j, k \in 1 .. Len(both) : both[j].id = both[k].id => j = k
      /\ \A k \in 1 .. Len(s) : \E i \in 1 .. Len(both) : both[i].id = s[k].id
      /\ \A k \in 1 .. Len(t) : \E i \in 1 .. Len(both) : both[i].id = t[k].id
  <2>1. Halves(both, s, t)
    BY <1>1, BothHalves
  <2> QED
    BY <2>1 DEF Halves
<1> DEFINE score == [k \in DOMAIN both |-> RankIn(s, both[k].id) + RankIn(t, both[k].id)]
           rated == [k \in DOMAIN both |-> Rated(both[k], RankIn(s, both[k].id) + RankIn(t, both[k].id))]
<1>3. DOMAIN both = 1 .. Len(both) /\ DOMAIN s = 1 .. Len(s) /\ DOMAIN t = 1 .. Len(t)
  BY <1>2, ListDomain DEF GoodHits
<1>4. \A c \in Matching :
         /\ Worths[c] = RankIn(s, c) + RankIn(t, c) /\ RankIn(s, c) \in Nat /\ RankIn(t, c) \in Nat
         /\ Worths[c] \in Nat
  <2>1. ASSUME NEW c \in Matching
        PROVE  /\ Worths[c] = RankIn(s, c) + RankIn(t, c)
               /\ RankIn(s, c) \in Nat /\ RankIn(t, c) \in Nat /\ Worths[c] \in Nat
    <3>1. Worths[c] = Worth(c)
      BY MatchingIsFinite DEF Worths
    <3>2. Worth(c) = ByRank(RankBy("dense", c)) + ByRank(RankBy("sparse", c))
      BY DEF Worth
    <3>3. /\ RankIn(s, c) = ByRank(RankBy("dense", c)) /\ RankIn(s, c) \in Nat
          /\ RankIn(t, c) = ByRank(RankBy("sparse", c)) /\ RankIn(t, c) \in Nat
      BY RankInFound
    <3> QED
      BY <3>1, <3>2, <3>3
  <2> QED
    BY <2>1
<1>5. \A k \in 1 .. Len(both) : score[k] = Worths[both[k].id] /\ score[k] \in Int
  BY <1>2, <1>3, <1>4
<1>6. rated = [k \in 1 .. Len(both) |-> Rated(both[k], score[k])]
  BY <1>3
<1>7. Fused(s, t, wanted.limit) = Top(Ranked(rated), wanted.limit)
  BY <1>1 DEF Fused
<1> HIDE DEF rated, score
<1>8. /\ GoodHits(rated) /\ Len(rated) = Len(both)
      /\ \A k \in 1 .. Len(both) : rated[k].id = both[k].id /\ rated[k].score = Worths[both[k].id]
  <2>1. GoodHits(both) /\ \A k \in 1 .. Len(both) : score[k] \in Int
    BY <1>2, <1>5
  <2>2. /\ GoodHits(rated) /\ Len(rated) = Len(both)
        /\ \A k \in 1 .. Len(both) : rated[k].id = both[k].id /\ rated[k].score = score[k]
    BY <1>6, <2>1, RatedHits
  <2> QED
    BY <1>5, <2>2
<1>9. PICK r : r = Ranked(rated)
  OBVIOUS
<1>10. \A k \in 1 .. Len(rated) : rated[k].score \in Int
  BY <1>8 DEF GoodHits, IsHit
<1>11. Sorted(r, rated) /\ Len(r) = Len(both) /\ GoodHits(r)
  BY <1>8, <1>9, <1>10, RankedSorts, RankedHits DEF GoodHits
<1>12. PICK o : /\ Picks(r, rated, DOMAIN rated, o)
                /\ \A j, k \in 1 .. Len(r) : j < k => r[j].score >= r[k].score
  BY <1>11 DEF Sorted
<1>13. DOMAIN rated = 1 .. Len(both)
  BY <1>8, ListDomain DEF GoodHits
<1>14. \A k \in 1 .. Len(r) :
          /\ o[k] \in 1 .. Len(both)
          /\ r[k].id = both[o[k]].id /\ r[k].score = Worths[r[k].id] /\ r[k].id \in Matching
  BY <1>2, <1>8, <1>12, <1>13 DEF Picks
<1>15. \A i \in 1 .. Len(both) : \E k \in 1 .. Len(r) : r[k].id = both[i].id
  BY <1>8, <1>12, <1>13, <1>14 DEF Picks
<1>16. ASSUME NEW j \in 1 .. Len(r), NEW k \in 1 .. Len(r), r[j].id = r[k].id PROVE j = k
  <2>1. o[j] = o[k]
    <3>1. \A a, b \in 1 .. Len(both) : both[a].id = both[b].id => a = b
      BY <1>2
    <3>2. o[j] \in 1 .. Len(both) /\ o[k] \in 1 .. Len(both) /\ both[o[j]].id = both[o[k]].id
      BY <1>14, <1>16
    <3> QED
      BY <3>1, <3>2
  <2> QED
    BY <1>12, <2>1 DEF Picks
<1>17. \A j, k \in 1 .. Len(r) : j < k => Worths[r[j].id] >= Worths[r[k].id]
  BY <1>12, <1>14
<1>18. ASSUME NEW c \in Matching, ~\E k \in 1 .. Len(r) : r[k].id = c, NEW k \in 1 .. Len(r)
       PROVE  Worths[c] <= Worths[r[k].id]
  <2>0. ~\E i \in 1 .. Len(both) : both[i].id = c
    BY <1>15, <1>18
  <2>1. ~\E i \in DOMAIN s : s[i].id = c
    <3>1. \A i \in 1 .. Len(s) : \E m \in 1 .. Len(both) : both[m].id = s[i].id
      BY <1>2
    <3> QED
      BY <1>3, <2>0, <3>1
  <2>2. ~\E i \in DOMAIN t : t[i].id = c
    <3>1. \A i \in 1 .. Len(t) : \E m \in 1 .. Len(both) : both[m].id = t[i].id
      BY <1>2
    <3> QED
      BY <1>3, <2>0, <3>1
  <2>3. RankIn(s, c) = 0 /\ RankIn(t, c) = 0
    BY <2>1, <2>2, RankInFound
  <2>4. Worths[c] = 0 /\ Worths[r[k].id] \in Nat
    <3>1. Worths[c] = RankIn(s, c) + RankIn(t, c)
      BY <1>4
    <3>2. r[k].id \in Matching
      BY <1>14
    <3>3. Worths[c] = 0 + 0
      BY <2>3, <3>1
    <3>4. Worths[r[k].id] \in Nat
      BY <1>4, <3>2
    <3> QED
      BY <3>3, <3>4
  <2> QED
    BY <2>4
<1>19. IsList(r)
  BY <1>11 DEF GoodHits
<1>20. Best(r, Matching, Worths)
  BY <1>14, <1>16, <1>17, <1>18, <1>19 DEF Best
<1>21. PICK L \in Nat : L = wanted.limit
  BY WindowIsNat
<1>22. PICK u : u = Fused(s, t, wanted.limit)
  OBVIOUS
<1>23. Cut(u, r, L)
  BY <1>7, <1>9, <1>19, <1>21, <1>22, TopIsCut
<1>24. Best(u, Matching, Worths)
  BY <1>20, <1>23, WorthIsInt, CutIsBest
<1>25. Len(u) <= L /\ Len(u) \in {L, Cardinality(Matching)}
  <2>1. PICK N \in Nat : N = Cardinality(Matching)
    BY MatchingIsFinite
  <2>2. PICK W \in Nat : W = Window
    BY WindowIsNat
  <2>3. Len(s) \in {3 * W, N}
    BY <2>1, <2>2 DEF Heads
  <2>4. Len(r) <= N
    BY <1>20, <2>1, BestIds, MatchingIsFinite
  <2>5. /\ Len(u) <= L /\ Len(u) <= Len(r) /\ Len(u) \in {L, Len(r)} /\ Len(u) \in Nat
    BY <1>23 DEF Cut, IsList
  <2>6. W >= L /\ Len(r) = Len(both)
    BY <1>11, <1>21, <2>2
  <2>7. Len(u) = L \/ Len(u) = N
    BY <1>2, <2>3, <2>4, <2>5, <2>6
  <2> QED
    BY <2>1, <2>5, <2>7
<1> QED
  BY <1>21, <1>22, <1>24, <1>25 DEF Chosen

\* Of the best that match, the rows leave those that are large enough.
LEMMA AdjustedIsChosen ==
    ASSUME SearchTypeOK, calm, held = vectors, Plain, EnoughFound, wanted.mode # "scroll",
           NEW m, m = IF wanted.mode = "hybrid" THEN wanted.limit ELSE Window,
           NEW s, GoodHits(s), Chosen(s, m, Matching, Worths)
    PROVE  Chosen(Adjusted(s), wanted.limit, Eligible, Worths)
<1> DEFINE places == {i \in DOMAIN s : InSection(s[i]) /\ LargeEnough(s[i])}
<1>1. PICK L \in Nat : L = wanted.limit
  BY WindowIsNat
<1>2. PICK N \in Nat : N = Cardinality(Matching)
  BY MatchingIsFinite
<1>3. PICK W \in Nat : W = Window
  BY WindowIsNat
<1>4. L \in Nat /\ N \in Nat /\ W \in Nat /\ m \in Nat /\ W >= L /\ m >= L
  BY <1>1, <1>2, <1>3 DEF EnoughFound
<1>5. DOMAIN s = 1 .. Len(s) /\ Len(s) \in Nat /\ IsList(s)
  BY ListDomain DEF GoodHits, IsList
<1>6. Best(s, Matching, Worths) /\ Len(s) <= m /\ Len(s) \in {m, N}
  BY <1>2 DEF Chosen
<1>7. Eligible \in SUBSET Matching /\ \A c \in Matching : c \in Eligible <=> held[c].size >= wanted.minSize
  BY DEF Eligible
<1>8. ASSUME NEW i \in 1 .. Len(s) PROVE i \in places <=> s[i].id \in Eligible
  <2>1. s[i].id \in Matching
    BY <1>6 DEF Best
  <2>2. /\ vectors[s[i].id] # Gone
        /\ wanted.sections # {} => vectors[s[i].id].section \in wanted.sections
    BY <2>1 DEF Matching, PassesFilter
  <2>3. InSection(s[i])
    BY <2>2 DEF InSection, SectionOf
  <2>4. SizeOfRow(s[i]) = held[s[i].id].size
    BY <2>2 DEF SizeOfRow
  <2>5. LargeEnough(s[i]) <=> s[i].id \in Eligible
    BY <1>7, <2>1, <2>4 DEF LargeEnough
  <2> QED
    BY <1>5, <2>3, <2>5
<1>9. PICK r : r = Suitable(s)
  OBVIOUS
<1>10. r = Only(s, places) /\ places \in SUBSET DOMAIN s
  BY <1>9 DEF Suitable
<1> HIDE DEF places
<1>11. Kept(r, s, places) /\ IsList(r)
  BY <1>5, <1>9, <1>10, OnlyKeeps, SuitableHits DEF GoodHits
<1>12. Best(r, Eligible, Worths)
  BY <1>5, <1>6, <1>7, <1>8, <1>10, <1>11, KeptIsBest
<1>13. PICK u : u = Adjusted(s)
  OBVIOUS
<1>14. u = Top(r, L)
  BY <1>1, <1>9, <1>13 DEF Adjusted, Plain, Reranked, WithRecency
<1>15. Cut(u, r, L)
  BY <1>4, <1>11, <1>14, TopIsCut
<1>16. Best(u, Eligible, Worths)
  BY <1>7, <1>12, <1>15, WorthIsInt, CutIsBest
<1>17. IsFiniteSet(Eligible) /\ IsFiniteSet(Matching)
  BY <1>7, MatchingIsFinite, FS_Subset
<1>18. PICK M \in Nat : M = Cardinality(Eligible)
  BY <1>17, FS_CardinalityType
<1>19. /\ Len(r) \in Nat /\ Len(r) <= M
       /\ Len(r) = M <=> IdsOf(r) = Eligible
       /\ IdsOf(r) \subseteq Eligible
  BY <1>12, <1>17, <1>18, BestIds
<1>20. ASSUME Len(s) = N PROVE Len(r) = M
  <2>1. IdsOf(s) = Matching
    BY <1>2, <1>6, <1>17, <1>20, BestIds
  <2>2. PICK o : Picks(r, s, places, o)
    BY <1>11 DEF Kept
  <2>3. ASSUME NEW c \in Eligible PROVE c \in IdsOf(r)
    <3>1. PICK i \in 1 .. Len(s) : s[i].id = c
      BY <1>7, <2>1 DEF IdsOf
    <3>2. i \in places
      BY <1>8, <3>1
    <3>3. PICK k \in 1 .. Len(r) : o[k] = i
      BY <2>2, <3>2 DEF Picks
    <3>4. r[k].id = c
      BY <2>2, <3>1, <3>3 DEF Picks
    <3> QED
      BY <3>4 DEF IdsOf
  <2> QED
    BY <1>19, <2>3
<1>21. Len(r) = M \/ Len(r) >= L
  <2>1. CASE Len(s) = N
    BY <1>20, <2>1
  <2>2. CASE Len(s) # N
    <3>1. Len(s) = m /\ Len(s) >= L
      BY <1>4, <1>5, <1>6, <2>2
    <3>2. wanted.minSize = 0
      <4> SUFFICES ASSUME wanted.minSize # 0 PROVE FALSE
        OBVIOUS
      <4>1. m = W /\ N <= W
        BY <1>2, <1>3 DEF EnoughFound
      <4>2. Len(s) <= N
        BY <1>2, <1>6, <1>17, BestIds
      <4> QED
        BY <1>4, <1>5, <2>2, <3>1, <4>1, <4>2
    <3>3. Eligible = Matching
      <4>1. ASSUME NEW c \in Matching PROVE c \in Eligible
        <5>1. held[c] # Gone /\ c \in ChunkIds
          BY MatchingIsFinite DEF Matching, PassesFilter
        <5>2. held[c].size \in Nat
          BY <5>1 DEF SearchTypeOK, Passage
        <5>3. held[c].size >= wanted.minSize
          BY <3>2, <5>2
        <5> QED
          BY <1>7, <5>3
      <4> QED
        BY <1>7, <4>1
    <3>4. places = 1 .. Len(s)
      <4>1. \A i \in 1 .. Len(s) : i \in places
        BY <1>6, <1>8, <3>3 DEF Best
      <4> QED
        BY <1>5, <1>10, <4>1
    <3>5. Cardinality(places) = Len(s)
      <4>1. PICK n : n = Len(s)
        OBVIOUS
      <4>2. n \in Nat /\ n \in Int
        BY <1>5, <4>1
      <4>3. Cardinality(1 .. n) = n
        BY <4>2, FS_Interval
      <4> QED
        BY <3>4, <4>1, <4>3
    <3>6. Len(r) = Len(s)
      BY <1>11, <3>5 DEF Kept, Picks
    <3> QED
      BY <3>1, <3>6
  <2> QED
    BY <2>1, <2>2
<1>22. Len(u) <= L /\ Len(u) \in {L, M}
  <2>1. Len(u) <= L /\ Len(u) <= Len(r) /\ Len(u) \in {L, Len(r)} /\ Len(u) \in Nat
    BY <1>15 DEF Cut, IsList
  <2>2. M \in Nat
    BY <1>18
  <2> QED
    BY <1>4, <1>19, <1>21, <2>1, <2>2
<1> QED
  BY <1>1, <1>13, <1>16, <1>18, <1>22 DEF Chosen

-----------------------------------------------------------------------------
(* The answer                                                              *)

\* An answer shows hits: each once if repeated texts go, and of the presentable the
\* text, of one as new, unless something else leaves them out.
Shows(g, s) ==
    /\ GoodResults(g) /\ Len(g) <= wanted.limit
    /\ NoneNew(g, s)
    /\ wanted.dedup => \A j, k \in 1 .. Len(g) : g[j].text = g[k].text => j = k
    /\ wanted.boost # "only" /\ ~wanted.auto =>
          \A i \in 1 .. Len(s) : Presentable(s[i]) =>
             \E k \in 1 .. Len(g) : /\ g[k].text = TextOfRow(s[i])
                                    /\ YearOf[PaperOf[s[i].id]] <= YearOf[g[k].paper]

LEMMA AnswerShows ==
    ASSUME SearchTypeOK, NEW s, GoodHits(s), Len(s) <= wanted.limit
    PROVE  Shows(Deduplicated(Improved(s)), s)
<1>1. PICK r : r = Improved(s)
  OBVIOUS
<1>2. Improves(r, s)
  BY <1>1, ImprovedResults
<1>3. PICK g : g = Deduplicated(r)
  OBVIOUS
<1>4. GoodResults(r) /\ Len(r) <= wanted.limit /\ NoneNew(r, s)
  BY <1>2 DEF Improves
<1>5. ASSUME wanted.boost # "only", ~wanted.auto, NEW i \in 1 .. Len(s), Presentable(s[i])
      PROVE  \E k \in 1 .. Len(r) : /\ r[k].text = TextOfRow(s[i])
                                    /\ r[k].paper = PaperOf[s[i].id]
                                    /\ YearOf[r[k].paper] \in Int
  <2>1. PICK k \in 1 .. Len(r) : r[k].id = s[i].id
    BY <1>2, <1>5 DEF Improves
  <2>2. r[k].text = TextOfRow(r[k]) /\ r[k].paper = PaperOf[r[k].id]
    BY <1>4 DEF GoodResults, Showable
  <2>3. TextOfRow(r[k]) = TextOfRow(s[i])
    BY <2>1 DEF TextOfRow
  <2>4. YearOf[r[k].paper] \in Int
    BY <1>4, YearIsInt
  <2> QED
    BY <2>1, <2>2, <2>3, <2>4
<1>6. CASE ~wanted.dedup
  <2>1. g = r
    BY <1>3, <1>6 DEF Deduplicated
  <2>2. ASSUME wanted.boost # "only", ~wanted.auto, NEW i \in 1 .. Len(s), Presentable(s[i])
        PROVE  \E k \in 1 .. Len(r) : /\ r[k].text = TextOfRow(s[i])
                                      /\ YearOf[PaperOf[s[i].id]] <= YearOf[r[k].paper]
    <3>1. PICK k \in 1 .. Len(r) : /\ r[k].text = TextOfRow(s[i])
                                   /\ r[k].paper = PaperOf[s[i].id]
                                   /\ YearOf[r[k].paper] \in Int
      BY <1>5, <2>2
    <3>2. YearOf[PaperOf[s[i].id]] <= YearOf[r[k].paper]
      BY <3>1
    <3> QED
      BY <3>1, <3>2
  <2> QED
    BY <1>1, <1>3, <1>4, <1>6, <2>1, <2>2 DEF Shows
<1>7. CASE wanted.dedup
  <2>1. KeepsNewest(g, r, Len(r))
    BY <1>3, <1>4, <1>7, DeduplicatedKeepsNewest
  <2>2. \A k \in 1 .. Len(g) : \E i \in 1 .. Len(r) : g[k] = r[i]
    BY <2>1 DEF KeepsNewest
  <2>3. IsList(g) /\ Len(g) <= Len(r)
    BY <2>1 DEF KeepsNewest
  <2>4. GoodResults(g)
    BY <1>4, <2>2, <2>3 DEF GoodResults
  <2>5. Len(g) <= wanted.limit
    <3>1. Len(g) \in Nat /\ Len(r) \in Nat /\ wanted.limit \in Nat
      BY <1>4, <2>3, WindowIsNat DEF GoodResults, IsList
    <3> QED
      BY <1>4, <2>3, <3>1
  <2>6. NoneNew(g, s)
    BY <1>4, <2>2 DEF NoneNew
  <2>7. \A j, k \in 1 .. Len(g) : g[j].text = g[k].text => j = k
    BY <2>1 DEF KeepsNewest
  <2>8. ASSUME wanted.boost # "only", ~wanted.auto, NEW i \in 1 .. Len(s), Presentable(s[i])
        PROVE  \E k \in 1 .. Len(g) : /\ g[k].text = TextOfRow(s[i])
                                      /\ YearOf[PaperOf[s[i].id]] <= YearOf[g[k].paper]
    <3>1. PICK j \in 1 .. Len(r) : /\ r[j].text = TextOfRow(s[i])
                                   /\ r[j].paper = PaperOf[s[i].id]
      BY <1>5, <2>8
    <3>2. PICK k \in 1 .. Len(g) :
             g[k].text = r[j].text /\ YearOf[r[j].paper] <= YearOf[g[k].paper]
      BY <2>1 DEF KeepsNewest
    <3> QED
      BY <3>1, <3>2
  <2> QED
    BY <1>1, <1>3, <2>4, <2>5, <2>6, <2>7, <2>8 DEF Shows
<1> QED
  BY <1>6, <1>7

\* What an answer is to be, of any list of results.
Within(g) ==
    /\ Len(g) <= wanted.limit
    /\ \A i \in DOMAIN g :
          /\ g[i].paper \in Registered
          /\ wanted.title # Unasked => TitleOf[g[i].paper] = wanted.title
          /\ wanted.dedup => \A j \in DOMAIN g : g[i].text = g[j].text => i = j
          /\ calm => /\ held[g[i].id].bare >= wanted.minSize
                     /\ wanted.sections # {} => held[g[i].id].section \in wanted.sections
Newest(g) ==
    wanted.dedup /\ wanted.boost # "only" /\ ~wanted.auto =>
        \A i \in DOMAIN g : \A k \in DOMAIN hits :
            Presentable(hits[k]) /\ TextOfRow(hits[k]) = g[i].text =>
                YearOf[PaperOf[hits[k].id]] <= YearOf[g[i].paper]
BestOf(g) ==
    /\ calm /\ Plain /\ EnoughFound
    /\ wanted.title # Unasked => Titled(wanted.title) # {}
    => LET chosen == {hits[k].id : k \in DOMAIN hits} IN
       /\ Cardinality(chosen) = Min({wanted.limit, Cardinality(Eligible)})
       /\ \A c \in Eligible \ chosen, d \in chosen : Worth(c) <= Worth(d)
       /\ {g[i].text : i \in DOMAIN g}
             = {held[c].text : c \in {d \in chosen : /\ PaperOf[d] \in Registered
                                                     /\ held[d].bare >= wanted.minSize}}

\* What a request holds when its results are built.
ReadyToBuild ==
    /\ SearchTypeOK
    /\ narrowed = NarrowedBy(wanted)
    /\ calm => held = vectors
    /\ GoodHits(hits) /\ Len(hits) <= wanted.limit
    /\ calm /\ Plain /\ EnoughFound => Chosen(hits, wanted.limit, Eligible, Worths)

LEMMA AnswerIsWithin ==
    ASSUME ReadyToBuild, NEW g, Shows(g, hits)
    PROVE  Within(g)
<1>1. GoodResults(g) /\ Len(g) <= wanted.limit /\ DOMAIN g = 1 .. Len(g)
  BY ListDomain DEF Shows, GoodResults
<1>2. ASSUME NEW i \in 1 .. Len(g)
      PROVE  /\ g[i].paper \in Registered
             /\ wanted.title # Unasked => TitleOf[g[i].paper] = wanted.title
             /\ calm => /\ held[g[i].id].bare >= wanted.minSize
                        /\ wanted.sections # {} => held[g[i].id].section \in wanted.sections
  <2>1. Asked(g[i].id) /\ Presentable(g[i]) /\ g[i].paper = PaperOf[g[i].id]
    BY <1>1 DEF GoodResults, Showable
  <2>2. g[i].paper \in Registered
    BY <2>1 DEF Presentable
  <2>3. ASSUME wanted.title # Unasked PROVE TitleOf[g[i].paper] = wanted.title
    <3>1. narrowed = Titled(wanted.title)
      BY <2>3 DEF ReadyToBuild, NarrowedBy
    <3>2. narrowed \in SUBSET Reports
      BY <3>1, SearchAssumption DEF Titled
    <3>3. narrowed # Unasked
      BY <3>2, SearchAssumption
    <3>4. g[i].paper \in narrowed
      BY <2>1, <3>3 DEF Asked
    <3> QED
      BY <3>1, <3>4 DEF Titled
  <2>4. ASSUME calm
        PROVE  /\ held[g[i].id].bare >= wanted.minSize
               /\ wanted.sections # {} => held[g[i].id].section \in wanted.sections
    <3>1. held = vectors /\ SearchTypeOK
      BY <2>4 DEF ReadyToBuild
    <3>2. /\ g[i].id \in ChunkIds /\ held[g[i].id] # Gone
          /\ wanted.sections # {} => held[g[i].id].section \in wanted.sections
      BY <2>1, <2>4, <3>1 DEF Asked
    <3>3. held[g[i].id].bare \in Nat
      BY <3>1, <3>2 DEF SearchTypeOK, Passage
    <3>4. BareSize(g[i]) = held[g[i].id].bare
      BY <3>2 DEF BareSize
    <3>5. wanted.minSize \in Nat
      BY <3>1, WindowIsNat
    <3>6. held[g[i].id].bare >= wanted.minSize
      <4>1. CASE wanted.minSize > 0
        BY <2>1, <3>4, <4>1 DEF Presentable
      <4>2. CASE ~(wanted.minSize > 0)
        <5>1. wanted.minSize = 0
          BY <3>5, <4>2
        <5> QED
          BY <3>3, <5>1
      <4> QED
        BY <4>1, <4>2
    <3> QED
      BY <3>2, <3>6
  <2> QED
    BY <2>2, <2>3, <2>4
<1>3. wanted.dedup => \A j, k \in 1 .. Len(g) : g[j].text = g[k].text => j = k
  BY DEF Shows
<1> QED
  BY <1>1, <1>2, <1>3 DEF Within

LEMMA AnswerIsNewest ==
    ASSUME ReadyToBuild, NEW g, Shows(g, hits)
    PROVE  Newest(g)
<1>1. PICK s : s = hits
  OBVIOUS
<1>2. DOMAIN g = 1 .. Len(g)
  BY ListDomain DEF Shows, GoodResults
<1>3. DOMAIN s = 1 .. Len(s)
  BY <1>1, ListDomain DEF ReadyToBuild, GoodHits
<1>4. ASSUME wanted.dedup, wanted.boost # "only", ~wanted.auto, NEW i \in 1 .. Len(g),
             NEW k \in 1 .. Len(s), Presentable(s[k]), TextOfRow(s[k]) = g[i].text
      PROVE  YearOf[PaperOf[s[k].id]] <= YearOf[g[i].paper]
  <2>1. PICK j \in 1 .. Len(g) : /\ g[j].text = TextOfRow(s[k])
                                 /\ YearOf[PaperOf[s[k].id]] <= YearOf[g[j].paper]
    BY <1>1, <1>4 DEF Shows
  <2>2. j = i
    BY <1>4, <2>1 DEF Shows
  <2> QED
    BY <2>1, <2>2
<1> QED
  BY <1>1, <1>2, <1>3, <1>4 DEF Newest

\* The texts of an answer are those of the best chunks that may be presented.
LEMMA AnswerTexts ==
    ASSUME ReadyToBuild, calm, Plain, NEW g, Shows(g, hits), NEW chosen, chosen = IdsOf(hits)
    PROVE  {g[i].text : i \in DOMAIN g}
             = {held[c].text : c \in {d \in chosen : /\ PaperOf[d] \in Registered
                                                     /\ held[d].bare >= wanted.minSize}}
<1>1. PICK s : s = hits
  OBVIOUS
<1>2. DOMAIN g = 1 .. Len(g) /\ GoodResults(g)
  BY ListDomain DEF Shows, GoodResults
<1>3. held = vectors /\ SearchTypeOK /\ GoodHits(s) /\ wanted.minSize \in Nat
  BY <1>1, WindowIsNat DEF ReadyToBuild
<1>4. ASSUME NEW h, Asked(h.id)
      PROVE  /\ TextOfRow(h) = held[h.id].text
             /\ Presentable(h) <=> PaperOf[h.id] \in Registered /\ held[h.id].bare >= wanted.minSize
  <2>1. h.id \in ChunkIds /\ held[h.id] # Gone
    BY <1>3, <1>4 DEF Asked
  <2>2. TextOfRow(h) = held[h.id].text /\ BareSize(h) = held[h.id].bare
    BY <2>1 DEF TextOfRow, BareSize
  <2>3. held[h.id].bare \in Nat
    BY <1>3, <2>1 DEF SearchTypeOK, Passage
  <2>4. (wanted.minSize > 0 => BareSize(h) >= wanted.minSize) <=> held[h.id].bare >= wanted.minSize
    <3>1. CASE wanted.minSize > 0
      BY <2>2, <3>1
    <3>2. CASE ~(wanted.minSize > 0)
      <4>1. wanted.minSize = 0
        BY <1>3, <3>2
      <4>2. held[h.id].bare >= wanted.minSize
        BY <2>3, <4>1
      <4> QED
        BY <3>2, <4>2
    <3> QED
      BY <3>1, <3>2
  <2> QED
    BY <2>2, <2>4 DEF Presentable
<1> DEFINE fit == {d \in chosen : PaperOf[d] \in Registered /\ held[d].bare >= wanted.minSize}
<1>5. ASSUME NEW i \in 1 .. Len(g)
      PROVE  \E c \in fit : g[i].text = held[c].text
  <2>1. PICK k \in 1 .. Len(s) : g[i].id = s[k].id
    BY <1>1 DEF Shows, NoneNew
  <2>2. Asked(g[i].id) /\ Presentable(g[i]) /\ g[i].text = TextOfRow(g[i])
    BY <1>2 DEF GoodResults, Showable
  <2>3. g[i].id \in chosen
    BY <1>1, <2>1 DEF IdsOf
  <2>4. /\ g[i].text = held[g[i].id].text
        /\ PaperOf[g[i].id] \in Registered /\ held[g[i].id].bare >= wanted.minSize
    BY <1>4, <2>2
  <2> QED
    BY <2>3, <2>4
<1>6. ASSUME NEW c \in fit
      PROVE  \E i \in 1 .. Len(g) : g[i].text = held[c].text
  <2>1. PICK k \in 1 .. Len(s) : s[k].id = c
    BY <1>1 DEF IdsOf
  <2>2. Asked(s[k].id)
    BY <1>3 DEF GoodHits
  <2>3. Presentable(s[k]) /\ TextOfRow(s[k]) = held[c].text
    BY <1>4, <2>1, <2>2
  <2>4. PICK i \in 1 .. Len(g) : g[i].text = TextOfRow(s[k])
    BY <1>1, <2>3 DEF Shows, Plain
  <2> QED
    BY <2>3, <2>4
<1> HIDE DEF fit
<1>7. {g[i].text : i \in 1 .. Len(g)} = {held[c].text : c \in fit}
  BY <1>5, <1>6
<1> QED
  BY <1>2, <1>7 DEF fit

LEMMA AnswerIsBest ==
    ASSUME ReadyToBuild, NEW g, Shows(g, hits)
    PROVE  BestOf(g)
<1> SUFFICES ASSUME calm, Plain, EnoughFound
             PROVE  BestOf(g)
  BY DEF BestOf
<1>1. PICK s : s = hits
  OBVIOUS
<1>2. PICK chosen : chosen = IdsOf(hits)
  OBVIOUS
<1>3. /\ SearchTypeOK /\ GoodHits(s) /\ wanted.limit \in Nat
      /\ Best(s, Eligible, Worths) /\ Len(s) <= wanted.limit
      /\ Len(s) \in {wanted.limit, Cardinality(Eligible)}
  BY <1>1, WindowIsNat DEF ReadyToBuild, Chosen
<1>4. chosen = {hits[k].id : k \in DOMAIN hits}
  BY <1>1, <1>2, <1>3, ListDomain DEF IdsOf, GoodHits
<1>5. Eligible \subseteq Matching /\ IsFiniteSet(Eligible)
  <2>1. Eligible \subseteq Matching
    BY DEF Eligible
  <2> QED
    BY <1>3, <2>1, MatchingIsFinite, FS_Subset
<1>6. /\ Cardinality(chosen) = Len(s) /\ chosen \subseteq Eligible /\ Len(s) \in Nat
      /\ Cardinality(Eligible) \in Nat /\ Len(s) <= Cardinality(Eligible)
  BY <1>1, <1>2, <1>3, <1>5, BestIds
<1>7. Cardinality(chosen) = Min({wanted.limit, Cardinality(Eligible)})
  <2>1. PICK M : M = Cardinality(Eligible)
    OBVIOUS
  <2>2. PICK L : L = wanted.limit
    OBVIOUS
  <2>3. Min({L, M}) = IF L <= M THEN L ELSE M
    BY <1>3, <1>6, <2>1, <2>2, LesserOfTwo
  <2>4. Len(s) = IF L <= M THEN L ELSE M
    BY <1>3, <1>6, <2>1, <2>2
  <2> QED
    BY <1>6, <2>1, <2>2, <2>3, <2>4
<1>8. ASSUME NEW c \in Eligible \ chosen, NEW d \in chosen
      PROVE  Worth(c) <= Worth(d)
  <2>1. PICK k \in 1 .. Len(s) : s[k].id = d
    BY <1>1, <1>2 DEF IdsOf
  <2>2. ~\E j \in 1 .. Len(s) : s[j].id = c
    BY <1>1, <1>2 DEF IdsOf
  <2>3. Worths[c] <= Worths[d]
    BY <1>3, <2>1, <2>2 DEF Best
  <2>4. c \in ChunkIds /\ d \in ChunkIds
    BY <1>3, <1>5, <1>6, MatchingIsFinite
  <2> QED
    BY <2>3, <2>4 DEF Worths
<1>9. {g[i].text : i \in DOMAIN g}
         = {held[c].text : c \in {d \in chosen : /\ PaperOf[d] \in Registered
                                                 /\ held[d].bare >= wanted.minSize}}
  BY <1>2, AnswerTexts
<1> QED
  BY <1>4, <1>7, <1>8, <1>9 DEF BestOf

-----------------------------------------------------------------------------
(* What stays as it was while nothing of the question or of the index changes. *)

SameIndex == UNCHANGED <<held, vectors, wanted, narrowed, calm>>

LEMMA SameQuestion ==
    ASSUME SameIndex
    PROVE  /\ SearchTypeOK' <=> SearchTypeOK
           /\ Matching' = Matching /\ Eligible' = Eligible /\ Window' = Window
           /\ EnoughFound' <=> EnoughFound
           /\ Plain' <=> Plain
<1> USE DEF SameIndex
<1>1. SearchTypeOK' <=> SearchTypeOK
  BY DEF SearchTypeOK
<1>2. ASSUME NEW c PROVE PassesFilter(c)' <=> PassesFilter(c)
  BY DEF PassesFilter
<1>3. Matching' = Matching
  BY <1>2 DEF Matching
<1>4. Window' = Window
  BY DEF Window
<1>5. Eligible' = Eligible
  BY <1>3 DEF Eligible
<1>6. EnoughFound' <=> EnoughFound
  BY <1>3, <1>4 DEF EnoughFound
<1>7. Plain' <=> Plain
  BY DEF Plain
<1> QED
  BY <1>1, <1>3, <1>4, <1>5, <1>6, <1>7

LEMMA SameRanks ==
    ASSUME SameIndex, NEW mode
    PROVE  /\ RankedBy(mode)' = RankedBy(mode)
           /\ \A c : Score(mode, c)' = Score(mode, c) /\ RankBy(mode, c)' = RankBy(mode, c)
<1>1. Matching' = Matching
  BY SameQuestion
<1>2. ASSUME NEW c PROVE Score(mode, c)' = Score(mode, c)
  BY DEF Score, SameIndex
<1>3. RankedBy(mode)' = RankedBy(mode)
  BY <1>1, <1>2 DEF RankedBy
<1>4. ASSUME NEW c PROVE RankBy(mode, c)' = RankBy(mode, c)
  BY <1>1, <1>3 DEF RankBy
<1> QED
  BY <1>2, <1>3, <1>4

LEMMA SameWorth ==
    ASSUME SameIndex, NEW c
    PROVE  Worth(c)' = Worth(c)
<1>1. Window' = Window
  BY SameQuestion
<1>2. ASSUME NEW n PROVE ByRank(n)' = ByRank(n)
  BY <1>1 DEF ByRank
<1>3. /\ RankBy("dense", c)' = RankBy("dense", c) /\ RankBy("sparse", c)' = RankBy("sparse", c)
  BY SameRanks
<1>4. wanted' = wanted
  BY DEF SameIndex
<1>5. /\ Score("scroll", c)' = Score("scroll", c) /\ Score("dense", c)' = Score("dense", c)
      /\ Score("sparse", c)' = Score("sparse", c)
  BY SameRanks
<1>6. Score(wanted.mode, c)' = Score(wanted.mode, c)
  BY DEF Score, SameIndex
<1> QED
  BY <1>2, <1>3, <1>4, <1>6 DEF Worth

LEMMA SameWorths ==
    ASSUME SameIndex
    PROVE  Worths' = Worths
BY SameWorth DEF Worths

LEMMA SameHits ==
    ASSUME SameIndex, NEW s
    PROVE  GoodHits(s)' <=> GoodHits(s)
BY DEF SameIndex, GoodHits, Asked

LEMMA SameHeads ==
    ASSUME SameIndex, NEW s, NEW mode, Heads(s, mode, 3 * Window)
    PROVE  Heads(s, mode, 3 * Window)'
<1>1. Matching' = Matching /\ Window' = Window
  BY SameQuestion
<1>2. /\ RankedBy(mode)' = RankedBy(mode)
      /\ \A c : Score(mode, c)' = Score(mode, c)
  BY SameRanks
<1>3. (3 * Window)' = 3 * Window
  BY <1>1
<1> QED
  BY <1>1, <1>2, <1>3 DEF Heads

LEMMA NowReady ==
    ASSUME SameIndex, NEW s, hits' = s,
           SearchTypeOK, narrowed = NarrowedBy(wanted), calm => held = vectors,
           GoodHits(s), Len(s) <= wanted.limit,
           calm /\ Plain /\ EnoughFound => Chosen(s, wanted.limit, Eligible, Worths)
    PROVE  ReadyToBuild'
<1>1. SearchTypeOK'
  BY SameQuestion
<1>2. GoodHits(s)'
  BY SameHits
<1>3. /\ Eligible' = Eligible /\ Worths' = Worths
      /\ EnoughFound' <=> EnoughFound
      /\ Plain' <=> Plain
  BY SameQuestion, SameWorths
<1>4. /\ narrowed' = NarrowedBy(wanted)'
      /\ calm' => held' = vectors'
      /\ Len(s) <= wanted'.limit
      /\ calm' /\ Plain' /\ EnoughFound' => Chosen(s, wanted'.limit, Eligible', Worths')
  BY <1>3 DEF SameIndex, NarrowedBy
<1> QED
  BY <1>1, <1>2, <1>4 DEF ReadyToBuild

LEMMA SameAnswer ==
    ASSUME SameIndex, hits' = hits, NEW g, Within(g), Newest(g), BestOf(g)
    PROVE  Within(g)' /\ Newest(g)' /\ BestOf(g)'
<1>1. Within(g)'
  BY DEF Within, SameIndex
<1>2. Newest(g)'
  <2>1. ASSUME NEW h
        PROVE  Presentable(h)' = Presentable(h) /\ TextOfRow(h)' = TextOfRow(h)
    BY DEF Presentable, BareSize, TextOfRow, SameIndex
  <2>2. wanted' = wanted
    BY DEF SameIndex
  <2> QED
    BY <2>1, <2>2 DEF Newest
<1>3. BestOf(g)'
  <2>1. PICK chosen : chosen = {hits[k].id : k \in DOMAIN hits}
    OBVIOUS
  <2>2. chosen = {hits'[k].id : k \in DOMAIN hits'}
    BY <2>1
  <2>3. /\ Eligible' = Eligible
        /\ EnoughFound' <=> EnoughFound
        /\ Plain' <=> Plain
    BY SameQuestion
  <2>4. held' = held /\ wanted' = wanted /\ (calm' <=> calm)
    BY DEF SameIndex
  <2>5. \A c : Worth(c)' = Worth(c)
    BY SameWorth
  <2> SUFFICES ASSUME (/\ calm /\ Plain /\ EnoughFound
                       /\ wanted.title # Unasked => Titled(wanted.title) # {})'
               PROVE  (/\ Cardinality(chosen) = Min({wanted.limit, Cardinality(Eligible)})
                       /\ \A c \in Eligible \ chosen, d \in chosen : Worth(c) <= Worth(d)
                       /\ {g[i].text : i \in DOMAIN g}
                             = {held[c].text : c \in {d \in chosen : /\ PaperOf[d] \in Registered
                                                     /\ held[d].bare >= wanted.minSize}})'
    BY <2>2 DEF BestOf
  <2>6. /\ Cardinality(chosen) = Min({wanted.limit, Cardinality(Eligible)})
        /\ \A c \in Eligible \ chosen, d \in chosen : Worth(c) <= Worth(d)
        /\ {g[i].text : i \in DOMAIN g}
              = {held[c].text : c \in {d \in chosen : /\ PaperOf[d] \in Registered
                                                      /\ held[d].bare >= wanted.minSize}}
    BY <2>1, <2>3, <2>4 DEF BestOf
  <2> QED
    BY <2>3, <2>4, <2>5, <2>6
<1> QED
  BY <1>1, <1>2, <1>3

-----------------------------------------------------------------------------
(* A search                                                                *)

Searching == {"search", "words", "adjust", "build"}
SearchIInv ==
    /\ SearchTypeOK
    /\ calm => held = vectors
    /\ place \in {"idle", "done", "failed"} \cup Searching
    /\ place = "idle" => hits = <<>> /\ given = <<>>
    /\ place \in Searching => narrowed = NarrowedBy(wanted)
    /\ place = "words" =>
          /\ wanted.mode = "hybrid" /\ GoodHits(byMeaning)
          /\ calm => Heads(byMeaning, "dense", 3 * Window)
    /\ place = "adjust" =>
          /\ wanted.mode # "scroll" /\ GoodHits(hits)
          /\ calm /\ EnoughFound =>
                Chosen(hits, IF wanted.mode = "hybrid" THEN wanted.limit ELSE Window, Matching, Worths)
    /\ place = "build" => ReadyToBuild
    /\ place = "done" => Within(given) /\ Newest(given) /\ BestOf(given)

LEMMA SearchStart == SearchInit => SearchIInv
<1> SUFFICES ASSUME SearchInit PROVE SearchIInv
  OBVIOUS
<1>1. \A c \in ChunkIds : Passage(InitiallyIn[c])
  BY SearchAssumption DEF Passage
<1>2. InitiallyIn = [c \in ChunkIds |-> InitiallyIn[c]]
  BY SearchAssumption
<1>3. SearchTypeOK
  BY <1>1, <1>2 DEF SearchInit, SearchTypeOK
<1> QED
  BY <1>3 DEF SearchInit, SearchIInv, Searching

\* A rewrite leaves nothing to be told of what the index holds.
LEMMA RewrittenChunk ==
    ASSUME SearchIInv, NEW c \in ChunkIds, RewriteChunk(c)
    PROVE  SearchIInv'
<1>1. /\ UNCHANGED <<place, wanted, narrowed, byMeaning, hits, given>> /\ ~calm'
      /\ place \in Searching
  BY DEF RewriteChunk, SearchIInv
<1>2. Passage(Gone) /\ Passage(Later[c])
  BY SearchAssumption DEF Passage
<1>3. SearchTypeOK'
  <2>1. PICK p \in {Gone, Later[c]} :
           \/ held' = [held EXCEPT ![c] = p] /\ UNCHANGED vectors
           \/ vectors' = [vectors EXCEPT ![c] = p] /\ UNCHANGED held
    BY DEF RewriteChunk
  <2>2. Passage(p)
    BY <1>2, <2>1
  <2>3. /\ wanted \in Questions
        /\ held = [d \in ChunkIds |-> held[d]] /\ vectors = [d \in ChunkIds |-> vectors[d]]
        /\ \A d \in ChunkIds : Passage(held[d]) /\ Passage(vectors[d])
    BY DEF SearchIInv, SearchTypeOK
  <2>4. /\ held' = [d \in ChunkIds |-> held'[d]] /\ vectors' = [d \in ChunkIds |-> vectors'[d]]
        /\ \A d \in ChunkIds : Passage(held'[d]) /\ Passage(vectors'[d])
    <3>1. CASE held' = [held EXCEPT ![c] = p] /\ UNCHANGED vectors
      BY <2>2, <2>3, <3>1
    <3>2. CASE vectors' = [vectors EXCEPT ![c] = p] /\ UNCHANGED held
      BY <2>2, <2>3, <3>2
    <3> QED
      BY <2>1, <3>1, <3>2
  <2> QED
    BY <1>1, <2>3, <2>4 DEF SearchTypeOK
<1>4. ASSUME NEW s, GoodHits(s) PROVE GoodHits(s)'
  BY <1>1, <1>4 DEF GoodHits, Asked
<1>5. NarrowedBy(wanted)' = NarrowedBy(wanted)
  BY <1>1 DEF NarrowedBy
<1>6. place = "build" => ReadyToBuild'
  <2> SUFFICES ASSUME place = "build" PROVE ReadyToBuild'
    OBVIOUS
  <2>1. GoodHits(hits) /\ Len(hits) <= wanted.limit /\ narrowed = NarrowedBy(wanted)
    BY DEF SearchIInv, ReadyToBuild
  <2>2. PICK s : s = hits
    OBVIOUS
  <2>3. GoodHits(s)' /\ Len(s) <= wanted.limit
    BY <1>4, <2>1, <2>2
  <2> QED
    BY <1>1, <1>3, <1>5, <2>1, <2>2, <2>3 DEF ReadyToBuild
<1>7. place = "words" => wanted.mode = "hybrid" /\ GoodHits(byMeaning)'
  <2>1. PICK s : s = byMeaning
    OBVIOUS
  <2>2. place = "words" => wanted.mode = "hybrid" /\ GoodHits(s)
    BY <2>1 DEF SearchIInv
  <2>3. place = "words" => GoodHits(s)'
    BY <1>4, <2>2
  <2> QED
    BY <1>1, <2>1, <2>2, <2>3 DEF GoodHits, Asked
<1>8. place = "adjust" => wanted.mode # "scroll" /\ GoodHits(hits)'
  <2>1. PICK s : s = hits
    OBVIOUS
  <2>2. place = "adjust" => wanted.mode # "scroll" /\ GoodHits(s)
    BY <2>1 DEF SearchIInv
  <2>3. place = "adjust" => GoodHits(s)'
    BY <1>4, <2>2
  <2> QED
    BY <1>1, <2>1, <2>2, <2>3 DEF GoodHits, Asked
<1>9. narrowed' = NarrowedBy(wanted)'
  BY <1>1, <1>5 DEF SearchIInv
<1> QED
  BY <1>1, <1>3, <1>6, <1>7, <1>8, <1>9 DEF SearchIInv, Searching

LEMMA StaysSound ==
    ASSUME SearchIInv, SameIndex
    PROVE  SearchTypeOK' /\ (calm' => held' = vectors')
BY SameQuestion DEF SearchIInv, SameIndex

LEMMA SearchAsked ==
    ASSUME SearchIInv, Ask
    PROVE  SearchIInv'
<1>1. /\ narrowed' = NarrowedBy(wanted) /\ place' = "search"
      /\ UNCHANGED <<held, vectors, wanted, calm>>
  BY DEF Ask
<1>2. SearchTypeOK' /\ (calm' => held' = vectors')
  BY <1>1 DEF SearchIInv, SearchTypeOK
<1>3. narrowed' = NarrowedBy(wanted)'
  BY <1>1 DEF NarrowedBy
<1> QED
  BY <1>1, <1>2, <1>3 DEF SearchIInv, Searching

LEMMA GivenIs ==
    ASSUME NEW g, given' = g, Within(g)', Newest(g)', BestOf(g)'
    PROVE  Within(given)' /\ Newest(given)' /\ BestOf(given)'
<1>1. Within(given)'
  BY DEF Within
<1>2. Newest(given)'
  BY DEF Newest
<1>3. BestOf(given)'
  BY DEF BestOf
<1> QED
  BY <1>1, <1>2, <1>3

LEMMA NothingAsked ==
    ASSUME SearchIInv, AskNothing
    PROVE  SearchIInv'
<1>1. /\ hits = <<>> /\ given = <<>> /\ hits' = hits /\ given' = given /\ place' = "done"
      /\ SameIndex
      /\ wanted.title # Unasked /\ Titled(wanted.title) = {}
  BY DEF AskNothing, SearchIInv, SameIndex
<1>2. SearchTypeOK' /\ (calm' => held' = vectors')
  BY <1>1, StaysSound
<1>3. PICK g : g = given
  OBVIOUS
<1>4. g = <<>> /\ Len(g) = 0 /\ DOMAIN g = {}
  BY <1>1, <1>3, NoList
<1>5. Within(g)
  <2>1. 0 <= wanted.limit
    BY WindowIsNat DEF SearchIInv
  <2> QED
    BY <1>4, <2>1 DEF Within
<1>6. Newest(g)
  BY <1>4 DEF Newest
<1>7. BestOf(g)
  BY <1>1 DEF BestOf
<1>8. Within(g)' /\ Newest(g)' /\ BestOf(g)'
  BY <1>1, <1>5, <1>6, <1>7, SameAnswer
<1>9. given' = g
  BY <1>1, <1>3
<1>10. Within(given)' /\ Newest(given)' /\ BestOf(given)'
  BY <1>8, <1>9, GivenIs
<1> QED
  BY <1>1, <1>2, <1>10 DEF SearchIInv, Searching

LEMMA QueriedOnce ==
    ASSUME SearchIInv, QueryOnce
    PROVE  SearchIInv'
<1>1. /\ SameIndex /\ place = "search" /\ wanted.mode # "hybrid"
      /\ SearchTypeOK /\ narrowed = NarrowedBy(wanted) /\ (calm => held = vectors)
  BY DEF SearchIInv, QueryOnce, SameIndex, Searching
<1>2. SearchTypeOK' /\ (calm' => held' = vectors')
  BY <1>1, StaysSound
<1>3. narrowed' = NarrowedBy(wanted)'
  BY <1>1 DEF NarrowedBy, SameIndex
<1>4. CASE wanted.mode = "scroll"
  <2>1. PICK s : s = Found("scroll", wanted.limit)
    OBVIOUS
  <2>2. hits' = s /\ place' = "build"
    BY <1>4, <2>1 DEF QueryOnce
  <2>3. Heads(s, "scroll", wanted.limit) /\ GoodHits(s)
    BY <1>1, <2>1, FoundHeads, WindowIsNat
  <2>4. Chosen(s, wanted.limit, Matching, Worths)
    BY <1>1, <1>4, <2>3, HeadsAreChosen, WindowIsNat
  <2>5. Eligible = Matching
    BY <1>4 DEF Eligible
  <2>6. Len(s) <= wanted.limit
    BY <2>4 DEF Chosen
  <2>7. ReadyToBuild'
    BY <1>1, <2>2, <2>3, <2>4, <2>5, <2>6, NowReady
  <2> QED
    BY <1>2, <1>3, <2>2, <2>7 DEF SearchIInv, Searching
<1>5. CASE wanted.mode # "scroll"
  <2>1. PICK s : s = Found(wanted.mode, Window)
    OBVIOUS
  <2>2. hits' = s /\ place' = "adjust"
    BY <1>5, <2>1 DEF QueryOnce
  <2>3. wanted.mode \in {"scroll", "dense", "sparse"}
    BY <1>1, WindowIsNat DEF Modes
  <2>4. Heads(s, wanted.mode, Window) /\ GoodHits(s)
    BY <1>1, <2>1, <2>3, FoundHeads, WindowIsNat
  <2>5. Chosen(s, Window, Matching, Worths)
    BY <1>1, <2>3, <2>4, HeadsAreChosen, WindowIsNat
  <2>6. GoodHits(s)'
    BY <1>1, <2>4, SameHits
  <2>7. Window' = Window /\ Matching' = Matching /\ Worths' = Worths /\ wanted' = wanted
    BY <1>1, SameQuestion, SameWorths DEF SameIndex
  <2>8. /\ Chosen(hits', Window', Matching', Worths')
        /\ wanted'.mode # "scroll" /\ wanted'.mode # "hybrid"
    BY <1>1, <1>5, <2>2, <2>5, <2>7
  <2>9. GoodHits(hits)'
    BY <2>2, <2>6 DEF GoodHits, Asked
  <2> QED
    BY <1>2, <1>3, <2>2, <2>8, <2>9 DEF SearchIInv, Searching, Chosen, Best
<1> QED
  BY <1>4, <1>5

LEMMA QueriedByMeaning ==
    ASSUME SearchIInv, QueryByMeaning
    PROVE  SearchIInv'
<1>1. /\ SameIndex /\ place = "search" /\ wanted.mode = "hybrid" /\ place' = "words"
      /\ SearchTypeOK /\ narrowed = NarrowedBy(wanted)
  BY DEF SearchIInv, QueryByMeaning, SameIndex, Searching
<1>2. SearchTypeOK' /\ (calm' => held' = vectors')
  BY <1>1, StaysSound
<1>3. narrowed' = NarrowedBy(wanted)' /\ wanted'.mode = "hybrid"
  BY <1>1 DEF NarrowedBy, SameIndex
<1>4. PICK s : s = Found("dense", 3 * Window)
  OBVIOUS
<1>5. byMeaning' = s
  BY <1>4 DEF QueryByMeaning
<1>6. Heads(s, "dense", 3 * Window) /\ GoodHits(s)
  BY <1>1, <1>4, FoundHeads, WindowIsNat
<1>7. Heads(s, "dense", 3 * Window)' /\ GoodHits(s)'
  BY <1>1, <1>6, SameHeads, SameHits
<1>8. Heads(byMeaning, "dense", 3 * Window)' /\ GoodHits(byMeaning)'
  BY <1>5, <1>7 DEF Heads, GoodHits, Asked
<1> QED
  BY <1>1, <1>2, <1>3, <1>8 DEF SearchIInv, Searching

LEMMA QueriedByWords ==
    ASSUME SearchIInv, QueryByWords
    PROVE  SearchIInv'
<1>1. PICK s : s = byMeaning
  OBVIOUS
<1>2. /\ SameIndex /\ place = "words" /\ place' = "adjust"
      /\ SearchTypeOK /\ narrowed = NarrowedBy(wanted) /\ wanted.mode = "hybrid"
      /\ GoodHits(s)
      /\ calm => Heads(s, "dense", 3 * Window)
  BY <1>1 DEF SearchIInv, QueryByWords, SameIndex, Searching
<1>3. SearchTypeOK' /\ (calm' => held' = vectors')
  BY <1>2, StaysSound
<1>4. narrowed' = NarrowedBy(wanted)' /\ wanted' = wanted
  BY <1>2 DEF NarrowedBy, SameIndex
<1>5. PICK t : t = Found("sparse", 3 * Window)
  OBVIOUS
<1>6. Heads(t, "sparse", 3 * Window) /\ GoodHits(t)
  BY <1>2, <1>5, FoundHeads, WindowIsNat
<1>7. PICK u : u = Fused(s, t, wanted.limit)
  OBVIOUS
<1>8. hits' = u
  BY <1>1, <1>5, <1>7 DEF QueryByWords
<1>9. GoodHits(u)
  BY <1>2, <1>6, <1>7, FusedHits, WindowIsNat
<1>10. calm /\ EnoughFound => Chosen(u, wanted.limit, Matching, Worths)
  <2> SUFFICES ASSUME calm, EnoughFound PROVE Chosen(u, wanted.limit, Matching, Worths)
    OBVIOUS
  <2>1. Window >= wanted.limit
    BY DEF EnoughFound
  <2>2. Heads(s, "dense", 3 * Window)
    BY <1>2
  <2>3. Chosen(Fused(s, t, wanted.limit), wanted.limit, Matching, Worths)
    BY <1>2, <1>6, <2>1, <2>2, FusedIsChosen
  <2> QED
    BY <1>7, <2>3
<1>11. GoodHits(u)'
  BY <1>2, <1>9, SameHits
<1>12. GoodHits(hits)'
  BY <1>8, <1>11 DEF GoodHits, Asked
<1>13. /\ Matching' = Matching /\ Worths' = Worths
       /\ EnoughFound' <=> EnoughFound
       /\ calm' <=> calm
  BY <1>2, SameQuestion, SameWorths DEF SameIndex
<1>14. calm' /\ EnoughFound' => Chosen(hits', wanted'.limit, Matching', Worths')
  BY <1>4, <1>8, <1>10, <1>13
<1> QED
  BY <1>2, <1>3, <1>4, <1>12, <1>14 DEF SearchIInv, Searching, Chosen, Best

LEMMA SearchAdjusted ==
    ASSUME SearchIInv, Adjust
    PROVE  SearchIInv'
<1>1. PICK s : s = hits
  OBVIOUS
<1>2. PICK m : m = IF wanted.mode = "hybrid" THEN wanted.limit ELSE Window
  OBVIOUS
<1>3. /\ SameIndex /\ place = "adjust" /\ place' = "build"
      /\ SearchTypeOK /\ narrowed = NarrowedBy(wanted) /\ wanted.mode # "scroll"
      /\ calm => held = vectors
      /\ GoodHits(s)
      /\ calm /\ EnoughFound => Chosen(s, m, Matching, Worths)
  BY <1>1, <1>2 DEF SearchIInv, Adjust, SameIndex, Searching
<1>4. SearchTypeOK' /\ (calm' => held' = vectors')
  BY <1>3, StaysSound
<1>5. narrowed' = NarrowedBy(wanted)'
  BY <1>3 DEF NarrowedBy, SameIndex
<1>6. PICK u : u = Adjusted(s)
  OBVIOUS
<1>7. hits' = u
  BY <1>1, <1>6 DEF Adjust
<1>8. GoodHits(u) /\ Len(u) <= wanted.limit
  BY <1>3, <1>6, AdjustedHits
<1>9. calm /\ Plain /\ EnoughFound => Chosen(u, wanted.limit, Eligible, Worths)
  <2> SUFFICES ASSUME calm, Plain, EnoughFound PROVE Chosen(u, wanted.limit, Eligible, Worths)
    OBVIOUS
  <2>1. Chosen(Adjusted(s), wanted.limit, Eligible, Worths)
    BY <1>2, <1>3, AdjustedIsChosen
  <2> QED
    BY <1>6, <2>1
<1>10. ReadyToBuild'
  BY <1>3, <1>7, <1>8, <1>9, NowReady
<1> QED
  BY <1>3, <1>4, <1>5, <1>10 DEF SearchIInv, Searching

LEMMA AnswerBuilt ==
    ASSUME SearchIInv, Build
    PROVE  SearchIInv'
<1>1. /\ SameIndex /\ hits' = hits /\ place' = "done" /\ ReadyToBuild
  BY DEF SearchIInv, Build, SameIndex
<1>2. SearchTypeOK' /\ (calm' => held' = vectors')
  BY <1>1, StaysSound
<1>3. PICK g : g = Deduplicated(Improved(hits))
  OBVIOUS
<1>4. given' = g
  BY <1>3 DEF Build
<1>5. Shows(g, hits)
  <2>1. SearchTypeOK /\ GoodHits(hits) /\ Len(hits) <= wanted.limit
    BY <1>1 DEF ReadyToBuild
  <2> QED
    BY <1>3, <2>1, AnswerShows
<1>6. Within(g) /\ Newest(g) /\ BestOf(g)
  BY <1>1, <1>5, AnswerIsWithin, AnswerIsNewest, AnswerIsBest
<1>7. Within(g)' /\ Newest(g)' /\ BestOf(g)'
  BY <1>1, <1>6, SameAnswer
<1>8. Within(given)' /\ Newest(given)' /\ BestOf(given)'
  BY <1>4, <1>7, GivenIs
<1> QED
  BY <1>1, <1>2, <1>8 DEF SearchIInv, Searching

LEMMA SearchStopped ==
    ASSUME SearchIInv, SearchFails
    PROVE  SearchIInv'
<1>1. SameIndex /\ place' = "failed"
  BY DEF SearchFails, SameIndex
<1>2. SearchTypeOK' /\ (calm' => held' = vectors')
  BY <1>1, StaysSound
<1> QED
  BY <1>1, <1>2 DEF SearchIInv, Searching

LEMMA SearchIdles ==
    ASSUME SearchIInv, UNCHANGED searchVars
    PROVE  SearchIInv'
<1>1. SameIndex /\ UNCHANGED <<place, byMeaning, hits, given>>
  BY DEF searchVars, SameIndex
<1>2. SearchTypeOK' /\ (calm' => held' = vectors')
  BY <1>1, StaysSound
<1>3. PICK h, m, g : h = hits /\ m = byMeaning /\ g = given
  OBVIOUS
<1>4. hits' = h /\ byMeaning' = m /\ given' = g /\ wanted' = wanted /\ (calm' <=> calm)
  BY <1>1, <1>3 DEF SameIndex
<1>5. place \in Searching => narrowed' = NarrowedBy(wanted)'
  BY <1>1 DEF SearchIInv, NarrowedBy, SameIndex
<1>6. place = "words" =>
         /\ wanted.mode = "hybrid" /\ GoodHits(byMeaning)'
         /\ calm' => Heads(byMeaning, "dense", 3 * Window)'
  <2> SUFFICES ASSUME place = "words"
               PROVE  /\ wanted.mode = "hybrid" /\ GoodHits(byMeaning)'
                      /\ calm' => Heads(byMeaning, "dense", 3 * Window)'
    OBVIOUS
  <2>1. wanted.mode = "hybrid" /\ GoodHits(m) /\ (calm => Heads(m, "dense", 3 * Window))
    BY <1>3 DEF SearchIInv
  <2>2. GoodHits(m)' /\ (calm' => Heads(m, "dense", 3 * Window)')
    BY <1>1, <1>4, <2>1, SameHits, SameHeads
  <2> QED
    BY <1>4, <2>1, <2>2 DEF Heads, GoodHits, Asked
<1>7. place = "adjust" =>
         /\ wanted'.mode # "scroll" /\ GoodHits(hits)'
         /\ calm' /\ EnoughFound' =>
               Chosen(hits', IF wanted'.mode = "hybrid" THEN wanted'.limit ELSE Window',
                      Matching', Worths')
  <2> SUFFICES ASSUME place = "adjust"
               PROVE  /\ wanted'.mode # "scroll" /\ GoodHits(hits)'
                      /\ calm' /\ EnoughFound' =>
                            Chosen(hits', IF wanted'.mode = "hybrid" THEN wanted'.limit ELSE Window',
                                   Matching', Worths')
    OBVIOUS
  <2>1. /\ wanted.mode # "scroll" /\ GoodHits(h)
        /\ calm /\ EnoughFound =>
              Chosen(h, IF wanted.mode = "hybrid" THEN wanted.limit ELSE Window, Matching, Worths)
    BY <1>3 DEF SearchIInv
  <2>2. /\ Window' = Window /\ Matching' = Matching /\ Worths' = Worths
        /\ EnoughFound' <=> EnoughFound
    BY <1>1, SameQuestion, SameWorths
  <2>3. GoodHits(h)'
    BY <1>1, <2>1, SameHits
  <2>4. GoodHits(hits)'
    BY <1>4, <2>3 DEF GoodHits, Asked
  <2> QED
    BY <1>4, <2>1, <2>2, <2>4
<1>8. place = "build" => ReadyToBuild'
  <2> SUFFICES ASSUME place = "build" PROVE ReadyToBuild'
    OBVIOUS
  <2>1. /\ SearchTypeOK /\ narrowed = NarrowedBy(wanted) /\ (calm => held = vectors)
        /\ GoodHits(h) /\ Len(h) <= wanted.limit
        /\ calm /\ Plain /\ EnoughFound => Chosen(h, wanted.limit, Eligible, Worths)
    BY <1>3 DEF SearchIInv, ReadyToBuild
  <2> QED
    BY <1>1, <1>4, <2>1, NowReady
<1>9. place = "done" => Within(given)' /\ Newest(given)' /\ BestOf(given)'
  <2> SUFFICES ASSUME place = "done" PROVE Within(given)' /\ Newest(given)' /\ BestOf(given)'
    OBVIOUS
  <2>1. Within(g) /\ Newest(g) /\ BestOf(g)
    BY <1>3 DEF SearchIInv
  <2>2. Within(g)' /\ Newest(g)' /\ BestOf(g)'
    BY <1>1, <2>1, SameAnswer
  <2> QED
    BY <1>4, <2>2, GivenIs
<1>10. /\ place' \in {"idle", "done", "failed"} \cup Searching
       /\ place' = "idle" => hits' = <<>> /\ given' = <<>>
       /\ place' = place
  BY <1>1 DEF SearchIInv
<1> QED
  BY <1>2, <1>4, <1>5, <1>6, <1>7, <1>8, <1>9, <1>10 DEF SearchIInv, Chosen, Best

LEMMA SearchInductive == SearchIInv /\ [SearchNext]_searchVars => SearchIInv'
BY RewrittenChunk, SearchAsked, NothingAsked, QueriedOnce, QueriedByMeaning, QueriedByWords,
   SearchAdjusted, AnswerBuilt, SearchStopped, SearchIdles DEF SearchNext

\* Whatever is asked and whatever is rewritten meanwhile, an answer is no longer than was
\* wanted, of the documents asked for, and shows no text twice, each from one of the newest
\* documents; and if nothing was rewritten a plain question gets the best that match it,
\* in full (search, search_chunks and _deduplicate_results).
THEOREM AnswersAlwaysBest == SearchSpec => []AnswersAreTheBest
<1>1. SearchIInv => AnswersAreTheBest
  <2> SUFFICES ASSUME SearchIInv, place = "done"
               PROVE  WithinTheQuestion /\ NewestAreShown /\ BestAreShown
    BY DEF AnswersAreTheBest
  <2>1. Within(given) /\ Newest(given) /\ BestOf(given)
    BY DEF SearchIInv
  <2> QED
    BY <2>1 DEF Within, Newest, BestOf, WithinTheQuestion, NewestAreShown, BestAreShown
<1> QED
  BY <1>1, SearchStart, SearchInductive, PTL DEF SearchSpec
=============================================================================
