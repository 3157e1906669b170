----------------------------- MODULE RpcListProofs -----------------------------
(***************************************************************************)
(* Lemmas about sequences, finite sets and recursion: what the lists of    *)
(* the program need, which insert at the head, remove anywhere and search  *)
(* for the first element that fits, and what its loops need, which add up  *)
(* sizes, put bytes behind one another and divide until nothing is left.   *)
(***************************************************************************)
EXTENDS Integers, SequencesExt, SequenceTheorems, FiniteSetTheorems,
        WellFoundedInduction, TLAPS

\* What RemoveAt returns: one element less, the elements before the removed one
\* where they were, those after it one place lower.
LEMMA RemoveAtProperties ==
  ASSUME NEW S, NEW q \in Seq(S), NEW i \in 1..Len(q)
  PROVE  /\ RemoveAt(q, i) \in Seq(S)
         /\ Len(RemoveAt(q, i)) = Len(q) - 1
         /\ \A j \in 1..(Len(q) - 1) :
               RemoveAt(q, i)[j] = IF j < i THEN q[j] ELSE q[j + 1]
<1> DEFINE u == SubSeq(q, 1, i - 1)
           v == SubSeq(q, i + 1, Len(q))
<1>0. Len(q) \in Nat /\ i \in Nat
  BY LenProperties
<1>1. /\ u \in Seq(S) /\ Len(u) = i - 1
      /\ \A j \in 1..(i - 1) : u[j] = q[j]
  BY <1>0, SubSeqProperties
<1>2. /\ v \in Seq(S) /\ Len(v) = Len(q) - i
      /\ \A j \in 1..(Len(q) - i) : v[j] = q[i + j]
  BY <1>0, SubSeqProperties
<1> HIDE DEF u, v
<1>3. /\ u \o v \in Seq(S) /\ Len(u \o v) = Len(u) + Len(v)
      /\ \A j \in 1..(Len(u) + Len(v)) :
            (u \o v)[j] = IF j <= Len(u) THEN u[j] ELSE v[j - Len(u)]
  BY <1>1, <1>2, ConcatProperties
<1>4. Len(u) + Len(v) = Len(q) - 1
  BY <1>0, <1>1, <1>2
<1>5. ASSUME NEW j \in 1..(Len(q) - 1)
      PROVE  (u \o v)[j] = IF j < i THEN q[j] ELSE q[j + 1]
  <2>1. (u \o v)[j] = IF j <= i - 1 THEN u[j] ELSE v[j - (i - 1)]
    BY <1>1, <1>3, <1>4
  <2>2. CASE j < i
    BY <1>0, <1>1, <2>1, <2>2
  <2>3. CASE ~(j < i)
    <3>1. j - (i - 1) \in 1..(Len(q) - i) /\ i + (j - (i - 1)) = j + 1
      BY <1>0, <2>3
    <3>2. v[j - (i - 1)] = q[j + 1]
      BY <1>2, <3>1
    <3> QED BY <1>0, <2>1, <2>3, <3>2
  <2> QED BY <2>2, <2>3
<1> QED BY <1>3, <1>4, <1>5 DEF RemoveAt, u, v

\* Inserting at the head of a sequence moves the others one place up.
LEMMA Prepend ==
  ASSUME NEW S, NEW q \in Seq(S), NEW e \in S
  PROVE  /\ DOMAIN q = 1..Len(q) /\ Len(q) \in Nat
         /\ <<e>> \o q \in Seq(S)
         /\ DOMAIN (<<e>> \o q) = 1..(Len(q) + 1)
         /\ (<<e>> \o q)[1] = e
         /\ \A i \in 2..(Len(q) + 1) : (<<e>> \o q)[i] = q[i - 1]
<1> DEFINE h == <<e>>
<1>1. h \in Seq(S) /\ Len(h) = 1 /\ h[1] = e
  OBVIOUS
<1>2. Len(q) \in Nat /\ DOMAIN q = 1..Len(q)
  BY LenProperties
<1> HIDE DEF h
<1>3. /\ h \o q \in Seq(S) /\ Len(h \o q) = Len(h) + Len(q)
      /\ \A i \in 1..(Len(h) + Len(q)) :
            (h \o q)[i] = IF i <= Len(h) THEN h[i] ELSE q[i - Len(h)]
  BY <1>1, ConcatProperties
<1>4. DOMAIN (h \o q) = 1..Len(h \o q)
  BY <1>3, LenProperties
<1>5. Len(h \o q) = Len(q) + 1
  BY <1>1, <1>2, <1>3
<1>6. (h \o q)[1] = e
  BY <1>1, <1>2, <1>3
<1>7. \A i \in 2..(Len(q) + 1) : (h \o q)[i] = q[i - 1]
  BY <1>1, <1>2, <1>3
<1> QED BY <1>2, <1>3, <1>4, <1>5, <1>6, <1>7 DEF h

\* A set of natural numbers that is not empty has a least element.
LEMMA LeastPlace ==
  ASSUME NEW I \in SUBSET Nat, I # {}
  PROVE  /\ Min(I) \in I
         /\ \A j \in I : Min(I) <= j
<1> DEFINE R == {ss \in Nat \X Nat : ss[1] < ss[2]}
<1>1. IsWellFoundedOn(R, Nat)
  BY NatLessThanWellFounded, Zenon DEF OpToRel
<1>2. PICK i \in I : \A j \in I : ~ (<<j, i>> \in R)
  BY <1>1, WFMin
<1>3. ASSUME NEW j \in I
      PROVE  i <= j
  <2>1. j < i => <<j, i>> \in R
    OBVIOUS
  <2> QED BY <1>2, <2>1
<1> QED BY <1>3 DEF Min

-----------------------------------------------------------------------------
(* Recursion.                                                              *)

\* What it takes to define a function by recursion: every element of D has a rank,
\* and one of positive rank has another of lower rank before it.
Descends(D, S, rank, prev, base, step) ==
  /\ rank \in [D -> Nat] /\ prev \in [D -> D]
  /\ base \in S /\ step \in [D -> [S -> S]]
  /\ \A d \in D : rank[d] # 0 => rank[prev[d]] < rank[d]

\* Then there is a function that is base where the rank is 0, and elsewhere follows
\* from its own value at the element before.
LEMMA RecursionByRank ==
  ASSUME NEW D, NEW S, NEW rank, NEW prev, NEW base, NEW step,
         Descends(D, S, rank, prev, base, step)
  PROVE  \E f \in [D -> S] :
           \A d \in D : f[d] = IF rank[d] = 0 THEN base ELSE step[d][f[prev[d]]]
<1> USE DEF Descends
<1> DEFINE Follows(f, d) == f[d] = IF rank[d] = 0 THEN base ELSE step[d][f[prev[d]]]
           Sol(k) == {f \in [D -> S] : \A d \in D : rank[d] <= k => Follows(f, d)}
\* By induction on the rank: functions that are right up to a rank exist,
<1>1. ASSUME NEW k \in Nat
      PROVE  Sol(k) # {}
  <2> DEFINE Bad == {j \in Nat : Sol(j) = {}}
  <2> SUFFICES ASSUME Bad # {}
               PROVE  FALSE
    OBVIOUS
  <2>1. PICK j \in Nat : j \in Bad /\ \A i \in Bad : j <= i
    BY LeastPlace
  <2>2. CASE j = 0
    <3> DEFINE f == [d \in D |-> base]
    <3>1. f \in Sol(0)
      OBVIOUS
    <3> QED BY <2>1, <2>2, <3>1
  <2>3. CASE j # 0
    <3>1. j - 1 \in Nat /\ j - 1 \notin Bad
      <4>1. j - 1 \in Nat /\ ~(j <= j - 1)
        BY <2>3
      <4> HIDE DEF Bad
      <4> QED BY <2>1, <4>1
    <3>2. PICK g \in [D -> S] : \A d \in D : rank[d] <= j - 1 => Follows(g, d)
      BY <3>1
    <3> DEFINE h == [d \in D |-> IF rank[d] = 0 THEN base ELSE step[d][g[prev[d]]]]
    <3>3. h \in [D -> S]
      OBVIOUS
    <3>4. \A d \in D : rank[d] <= j - 1 => h[d] = g[d]
      BY <3>2
    <3>5. \A d \in D : rank[d] # 0 /\ rank[d] <= j => rank[prev[d]] <= j - 1
      <4> SUFFICES ASSUME NEW d \in D, rank[d] # 0, rank[d] <= j
                   PROVE  rank[prev[d]] <= j - 1
        OBVIOUS
      <4>1. rank[prev[d]] < rank[d] /\ rank[d] \in Nat /\ rank[prev[d]] \in Nat
        OBVIOUS
      <4> QED BY <4>1
    <3>6. \A d \in D : rank[d] # 0 /\ rank[d] <= j => h[prev[d]] = g[prev[d]]
      BY <3>4, <3>5
    <3>7. \A d \in D : rank[d] <= j => Follows(h, d)
      BY <3>6
    <3> QED BY <2>1, <3>3, <3>7
  <2> QED BY <2>2, <2>3
\* and agree where both are right.
<1>2. ASSUME NEW j \in Nat, NEW k \in Nat, NEW g \in Sol(j), NEW h \in Sol(k),
             NEW d \in D, rank[d] <= j, rank[d] <= k
      PROVE  g[d] = h[d]
  <2> DEFINE Bad == {i \in Nat : \E e \in D : /\ rank[e] = i /\ i <= j /\ i <= k
                                           /\ g[e] # h[e]}
  <2> SUFFICES ASSUME g[d] # h[d]
               PROVE  FALSE
    OBVIOUS
  <2>1. Bad \in SUBSET Nat /\ Bad # {}
    <3>1. rank[d] \in Nat
      OBVIOUS
    <3> QED BY <1>2, <3>1
  <2>2. PICK r \in Bad : \A i \in Bad : r <= i
    BY <2>1, LeastPlace
  <2>3. PICK e \in D : r = rank[e] /\ rank[e] <= j /\ rank[e] <= k /\ g[e] # h[e]
    OBVIOUS
  <2>4. rank[e] # 0
    BY <2>3
  <2>5. rank[prev[e]] < rank[e] /\ rank[prev[e]] \in Nat /\ rank[e] \in Nat /\ prev[e] \in D
    BY <2>4
  <2>6. g[prev[e]] = h[prev[e]]
    <3>1. rank[prev[e]] \notin Bad
      <4>1. ~(r <= rank[prev[e]])
        BY <2>3, <2>5
      <4> HIDE DEF Bad
      <4> QED BY <2>2, <4>1
    <3>2. rank[prev[e]] <= j /\ rank[prev[e]] <= k
      BY <2>3, <2>5
    <3> QED BY <2>5, <3>1, <3>2
  <2>7. g[e] = step[e][g[prev[e]]] /\ h[e] = step[e][h[prev[e]]]
    BY <2>3, <2>4
  <2> QED BY <2>3, <2>6, <2>7
<1> DEFINE Right(d) == CHOOSE f \in Sol(rank[d]) : TRUE
           F == [d \in D |-> Right(d)[d]]
<1>3. \A d \in D : Right(d) \in Sol(rank[d])
  BY <1>1
<1> HIDE DEF Right
<1>4. F \in [D -> S]
  BY <1>3
<1>5. ASSUME NEW d \in D
      PROVE  Follows(F, d)
  <2>1. CASE rank[d] = 0
    BY <1>3, <2>1
  <2>2. CASE rank[d] # 0
    <3>1. rank[prev[d]] < rank[d] /\ rank[prev[d]] \in Nat /\ rank[d] \in Nat /\ prev[d] \in D
      BY <2>2
    <3>2. rank[prev[d]] <= rank[d] /\ rank[prev[d]] <= rank[prev[d]]
      BY <3>1
    <3>3. Right(d) \in Sol(rank[d]) /\ Right(prev[d]) \in Sol(rank[prev[d]])
      BY <1>3, <3>1
    <3> HIDE DEF Sol
    <3>4. Right(d)[prev[d]] = Right(prev[d])[prev[d]]
      BY <1>2, <3>1, <3>2, <3>3
    <3> USE DEF Sol
    <3>5. Right(d)[d] = step[d][Right(d)[prev[d]]]
      BY <2>2, <3>1, <3>3
    <3> QED BY <2>2, <3>1, <3>4, <3>5
  <2> QED BY <2>1, <2>2
<1> QED BY <1>4, <1>5

\* What holds at every element if it holds at the one before holds everywhere.
LEMMA InductionByRank ==
  ASSUME NEW D, NEW S, NEW rank, NEW prev, NEW base, NEW step,
         Descends(D, S, rank, prev, base, step),
         NEW G, \A d \in D : (rank[d] # 0 => prev[d] \in G) => d \in G
  PROVE  \A d \in D : d \in G
<1> USE DEF Descends
<1> DEFINE Ranks == {rank[d] : d \in {e \in D : e \notin G}}
<1> SUFFICES ASSUME Ranks # {}
             PROVE  FALSE
  OBVIOUS
<1>1. PICK m \in Ranks : \A k \in Ranks : m <= k
  <2>1. Ranks \in SUBSET Nat
    OBVIOUS
  <2> QED BY <2>1, LeastPlace
<1>2. PICK d \in D : d \notin G /\ m = rank[d]
  OBVIOUS
<1>3. rank[d] # 0 /\ prev[d] \in D /\ prev[d] \notin G
  BY <1>2
<1>4. rank[prev[d]] \in Ranks /\ rank[prev[d]] \in Nat /\ rank[d] \in Nat
  BY <1>3
<1>5. rank[d] <= rank[prev[d]] /\ rank[prev[d]] < rank[d]
  BY <1>1, <1>2, <1>3, <1>4
<1> QED BY <1>4, <1>5

-----------------------------------------------------------------------------
(* Folds, which FoldLeft takes from the last element down.                 *)

\* The greatest of the first k numbers, and of any of them.
LEMMA GreatestPlace ==
  ASSUME NEW n \in Nat, NEW s \in SUBSET (1..n), s # {}
  PROVE  /\ Max(s) \in s
         /\ \A i \in s : i <= Max(s)
<1> DEFINE Up == {k \in Nat : \A i \in s : i <= k}
<1>1. n \in Up
  OBVIOUS
<1>2. PICK m \in Up : \A k \in Up : m <= k
  <2>1. Up \in SUBSET Nat /\ Up # {}
    BY <1>1
  <2> QED BY <2>1, LeastPlace
<1>3. m \in s
  <2> SUFFICES ASSUME m \notin s
               PROVE  FALSE
    OBVIOUS
  <2>1. PICK e \in s : TRUE
    OBVIOUS
  <2>2. m \in Nat /\ e \in Nat /\ 1 <= e /\ e <= m
    OBVIOUS
  <2>3. m - 1 \in Nat
    BY <2>2
  <2>4. \A i \in s : i <= m - 1
    <3> SUFFICES ASSUME NEW i \in s
                 PROVE  i <= m - 1
      OBVIOUS
    <3>1. i \in Nat /\ i <= m /\ i # m
      OBVIOUS
    <3> QED BY <2>2, <3>1
  <2>5. m <= m - 1
    BY <1>2, <2>3, <2>4
  <2> QED BY <2>2, <2>5
<1>4. \A i \in s : m >= i
  OBVIOUS
<1>5. \E x \in s : \A y \in s : x >= y
  BY <1>3, <1>4
<1>6. Max(s) \in s /\ \A y \in s : Max(s) >= y
  BY <1>5 DEF Max
<1> QED BY <1>6

\* Induction over the first numbers, as a set that holds them.
LEMMA UpTo ==
  ASSUME NEW n \in Nat, NEW G, 0 \in G, \A k \in 1..n : k - 1 \in G => k \in G
  PROVE  \A k \in 0..n : k \in G
<1> SUFFICES ASSUME {k \in 0..n : k \notin G} # {}
             PROVE  FALSE
  OBVIOUS
<1>1. PICK k \in {i \in 0..n : i \notin G} : \A j \in {i \in 0..n : i \notin G} : k <= j
  <2>1. {i \in 0..n : i \notin G} \in SUBSET Nat
    OBVIOUS
  <2> QED BY <2>1, LeastPlace
<1>2. k \in 1..n /\ k - 1 \in 0..n /\ ~(k <= k - 1)
  OBVIOUS
<1>3. k - 1 \in G
  BY <1>1, <1>2
<1> QED BY <1>1, <1>2, <1>3

\* The greatest of the first k numbers is k.
LEMMA FirstNumbers ==
  ASSUME NEW n \in Nat
  PROVE  /\ 1..0 = {}
         /\ \A k \in 1..n : /\ 1..k \in SUBSET (1..n) /\ 1..k # {}
                            /\ Max(1..k) = k /\ (1..k) \ {Max(1..k)} = 1..(k - 1)
<1>1. ASSUME NEW k \in 1..n
      PROVE  /\ 1..k \in SUBSET (1..n) /\ 1..k # {}
             /\ Max(1..k) = k /\ (1..k) \ {Max(1..k)} = 1..(k - 1)
  <2>1. 1..k \in SUBSET (1..n) /\ k \in 1..k /\ k \in Nat /\ (1..k) \ {k} = 1..(k - 1)
    OBVIOUS
  <2>2. Max(1..k) \in 1..k /\ \A i \in 1..k : i <= Max(1..k)
    BY <2>1, GreatestPlace
  <2>3. PICK m \in 1..k : m = Max(1..k)
    BY <2>2
  <2>4. k <= m
    BY <2>1, <2>2, <2>3
  <2>5. Max(1..k) = k
    BY <2>1, <2>3, <2>4
  <2> QED BY <2>1, <2>5
<1> QED BY <1>1

\* What FoldLeft defines f to be for a sequence of n elements, step being what each of
\* them does to the value so far.
IsFold(f, n, base, step) ==
  f = [s \in SUBSET (1..n) |-> IF s = {} THEN base ELSE step[Max(s)][f[s \ {Max(s)}]]]

LEMMA FoldExists ==
  ASSUME NEW n \in Nat, NEW S, NEW base \in S, NEW step \in [1..n -> [S -> S]]
  PROVE  \E f \in [SUBSET (1..n) -> S] : IsFold(f, n, base, step)
<1> DEFINE D == SUBSET (1..n)
           rank == [s \in D |-> Cardinality(s)]
           prev == [s \in D |-> s \ {Max(s)}]
           last == [s \in D |-> IF s = {} THEN [x \in S |-> x] ELSE step[Max(s)]]
<1>1. ASSUME NEW s \in D
      PROVE  /\ IsFiniteSet(s) /\ Cardinality(s) \in Nat
             /\ Cardinality(s) = 0 <=> s = {}
  <2>1. IsFiniteSet(1..n)
    BY FS_Interval
  <2>2. IsFiniteSet(s)
    BY <2>1, FS_Subset
  <2> QED BY <2>2, FS_CardinalityType, FS_EmptySet
<1>2. ASSUME NEW s \in D, s # {}
      PROVE  /\ Max(s) \in 1..n /\ Max(s) \in s
             /\ Cardinality(s \ {Max(s)}) = Cardinality(s) - 1
  BY <1>1, <1>2, GreatestPlace, FS_RemoveElement
<1>3. rank \in [D -> Nat] /\ prev \in [D -> D]
  BY <1>1
<1>4. last \in [D -> [S -> S]]
  <2>1. ASSUME NEW s \in D
        PROVE  last[s] \in [S -> S]
    <3>1. CASE s = {}
      BY <3>1
    <3>2. CASE s # {}
      <4>1. Max(s) \in 1..n /\ last[s] = step[Max(s)]
        BY <1>2, <3>2
      <4> QED BY <4>1
    <3> QED BY <3>1, <3>2
  <2>2. last = [s \in D |-> last[s]]
    OBVIOUS
  <2> HIDE DEF last, D
  <2> QED BY <2>1, <2>2
<1>5. \A s \in D : rank[s] # 0 => rank[prev[s]] < rank[s]
  <2> SUFFICES ASSUME NEW s \in D, rank[s] # 0
               PROVE  rank[prev[s]] < rank[s]
    OBVIOUS
  <2>1. s # {} /\ Cardinality(s) \in Nat /\ Cardinality(s \ {Max(s)}) = Cardinality(s) - 1
    BY <1>1, <1>2
  <2>2. rank[s] = Cardinality(s) /\ rank[prev[s]] = Cardinality(s \ {Max(s)})
    OBVIOUS
  <2> HIDE DEF rank, prev
  <2> QED BY <2>1, <2>2
<1> HIDE DEF rank, prev, last
<1>6. PICK f \in [D -> S] :
        \A s \in D : f[s] = IF rank[s] = 0 THEN base ELSE last[s][f[prev[s]]]
  <2> HIDE DEF D
  <2>1. Descends(D, S, rank, prev, base, last)
    BY <1>3, <1>4, <1>5 DEF Descends
  <2> QED BY <2>1, RecursionByRank
<1>7. ASSUME NEW s \in D
      PROVE  f[s] = IF s = {} THEN base ELSE step[Max(s)][f[s \ {Max(s)}]]
  <2>1. CASE s = {}
    BY <1>1, <1>6, <2>1 DEF rank
  <2>2. CASE s # {}
    <3>1. f[s] = last[s][f[prev[s]]]
      BY <1>1, <1>6, <2>2 DEF rank
    <3>2. prev[s] = s \ {Max(s)} /\ last[s] = step[Max(s)]
      BY <2>2 DEF prev, last
    <3> QED BY <2>2, <3>1, <3>2
  <2> QED BY <2>1, <2>2
<1>8. f = [s \in D |-> f[s]]
  OBVIOUS
<1>9. f = [s \in D |-> IF s = {} THEN base ELSE step[Max(s)][f[s \ {Max(s)}]]]
  BY <1>7, <1>8
<1> QED BY <1>6, <1>9 DEF IsFold

\* A fold that goes from T[k - 1] to T[k] with each element is in T[k] after k of them.
LEMMA FoldWithin ==
  ASSUME NEW n \in Nat, NEW S, NEW base, NEW step, NEW f \in [SUBSET (1..n) -> S],
         IsFold(f, n, base, step),
         NEW T, base \in T[0],
         \A i \in 1..n : \A k \in 1..n : \A x \in T[k - 1] : step[i][x] \in T[k]
  PROVE  \A s \in SUBSET (1..n) : f[s] \in T[Cardinality(s)]
<1> DEFINE Ranks == {Cardinality(s) : s \in {t \in SUBSET (1..n) : f[t] \notin T[Cardinality(t)]}}
<1>1. ASSUME NEW s \in SUBSET (1..n)
      PROVE  /\ IsFiniteSet(s) /\ Cardinality(s) \in 0..n
             /\ Cardinality(s) = 0 <=> s = {}
  <2>1. IsFiniteSet(1..n) /\ Cardinality(1..n) = n
    BY FS_Interval
  <2>2. s \subseteq 1..n
    OBVIOUS
  <2>3. IsFiniteSet(s) /\ Cardinality(s) <= Cardinality(1..n)
    BY <2>1, <2>2, FS_Subset
  <2>4. PICK c \in Nat : c = Cardinality(s)
    BY <2>3, FS_CardinalityType
  <2>5. c \in 0..n
    BY <2>1, <2>3, <2>4
  <2>6. Cardinality(s) = 0 <=> s = {}
    BY <2>3, FS_EmptySet
  <2> QED BY <2>3, <2>4, <2>5, <2>6
<1> SUFFICES ASSUME Ranks # {}
             PROVE  FALSE
  OBVIOUS
<1>2. PICK m \in Ranks : \A k \in Ranks : m <= k
  <2>1. Ranks \in SUBSET Nat
    BY <1>1
  <2> QED BY <2>1, LeastPlace
<1>3. PICK s \in SUBSET (1..n) : f[s] \notin T[Cardinality(s)] /\ m = Cardinality(s)
  OBVIOUS
<1>4. \A t \in SUBSET (1..n) : f[t] = IF t = {} THEN base ELSE step[Max(t)][f[t \ {Max(t)}]]
  BY DEF IsFold
<1>5. s # {} /\ Cardinality(s) \in 1..n
  <2>1. s # {}
    <3> SUFFICES ASSUME s = {}
                 PROVE  FALSE
      OBVIOUS
    <3>1. f[s] = base /\ Cardinality(s) = 0
      BY <1>1, <1>4
    <3> QED BY <1>3, <3>1
  <2>2. PICK c \in 0..n : c = Cardinality(s)
    BY <1>1
  <2>3. c # 0
    BY <1>1, <2>1, <2>2
  <2> QED BY <2>1, <2>2, <2>3
<1>6. /\ Max(s) \in 1..n /\ Max(s) \in s
      /\ Cardinality(s \ {Max(s)}) = Cardinality(s) - 1
  BY <1>1, <1>5, GreatestPlace, FS_RemoveElement
<1>7. PICK r \in SUBSET (1..n), k \in 1..n :
        r = s \ {Max(s)} /\ k = Cardinality(s) /\ Cardinality(r) = k - 1
  BY <1>5, <1>6
<1>8. f[r] \in T[k - 1]
  <2>1. Cardinality(r) \notin Ranks
    <3>1. ~(m <= Cardinality(r))
      BY <1>3, <1>7
    <3> HIDE DEF Ranks
    <3> QED BY <1>2, <3>1
  <2> QED BY <1>7, <2>1
<1>9. f[s] = step[Max(s)][f[r]]
  BY <1>4, <1>5, <1>7
<1> HIDE DEF Ranks
<1>10. step[Max(s)][f[r]] \in T[k]
  BY <1>6, <1>7, <1>8
<1> QED BY <1>3, <1>7, <1>9, <1>10

-----------------------------------------------------------------------------
(* Sums.                                                                   *)

\* What FoldLeft defines f to be when it adds up the n elements of w.
IsSum(f, n, w) ==
  f = [s \in SUBSET (1..n) |-> IF s = {} THEN 0 ELSE f[s \ {Max(s)}] + w[Max(s)]]

LEMMA SumExists ==
  ASSUME NEW n \in Nat, NEW w \in [1..n -> Int]
  PROVE  \E f : IsSum(f, n, w)
<1> DEFINE step == [i \in 1..n |-> [x \in Int |-> x + w[i]]]
<1>1. step \in [1..n -> [Int -> Int]] /\ 0 \in Int
  OBVIOUS
<1>2. PICK f \in [SUBSET (1..n) -> Int] : IsFold(f, n, 0, step)
  <2> HIDE DEF step
  <2> QED BY <1>1, FoldExists
<1>3. ASSUME NEW s \in SUBSET (1..n), s # {}
      PROVE  step[Max(s)][f[s \ {Max(s)}]] = f[s \ {Max(s)}] + w[Max(s)]
  <2>1. Max(s) \in 1..n
    BY <1>3, GreatestPlace
  <2>2. f[s \ {Max(s)}] \in Int
    OBVIOUS
  <2> QED BY <2>1, <2>2
<1> HIDE DEF step
<1>4. f = [s \in SUBSET (1..n) |-> IF s = {} THEN 0 ELSE step[Max(s)][f[s \ {Max(s)}]]]
  BY <1>2 DEF IsFold
<1>5. f = [s \in SUBSET (1..n) |-> IF s = {} THEN 0 ELSE f[s \ {Max(s)}] + w[Max(s)]]
  BY <1>3, <1>4
<1> QED BY <1>5 DEF IsSum

\* A sum over the first k numbers is the one over those before and the k-th.
LEMMA SumOfPrefix ==
  ASSUME NEW n \in Nat, NEW w \in [1..n -> Int], NEW f, IsSum(f, n, w)
  PROVE  /\ f[1..0] = 0
         /\ \A k \in 1..n : f[1..k] = f[1..(k - 1)] + w[k]
<1>1. \A s \in SUBSET (1..n) :
        f[s] = IF s = {} THEN 0 ELSE f[s \ {Max(s)}] + w[Max(s)]
  BY DEF IsSum
<1>2. f[1..0] = 0
  <2>1. 1..0 = {}
    OBVIOUS
  <2> QED BY <1>1, <2>1
<1>3. \A k \in 1..n : f[1..k] = f[1..(k - 1)] + w[k]
  BY <1>1, FirstNumbers
<1> QED BY <1>2, <1>3

\* c adds up by how much the n elements of w exceed those of u.
AddsUp(c, n, u, w) ==
  /\ n \in Nat /\ u \in [1..n -> Int] /\ w \in [1..n -> Int] /\ c \in [0..n -> Int]
  /\ c[0] = 0
  /\ \A k \in 1..n : c[k] - c[k - 1] = w[k] - u[k]

\* Two sums differ by what their elements differ by, added up.
LEMMA SumsDiffer ==
  ASSUME NEW n, NEW u, NEW w, NEW c, AddsUp(c, n, u, w),
         NEW f, IsSum(f, n, u), NEW g, IsSum(g, n, w)
  PROVE  /\ f[1..n] \in Int
         /\ g[1..n] = f[1..n] + c[n]
<1> USE DEF AddsUp
<1>1. /\ f[1..0] = 0 /\ \A k \in 1..n : f[1..k] = f[1..(k - 1)] + u[k]
      /\ g[1..0] = 0 /\ \A k \in 1..n : g[1..k] = g[1..(k - 1)] + w[k]
  BY SumOfPrefix
<1> DEFINE Good(k) == f[1..k] \in Int /\ g[1..k] = f[1..k] + c[k]
           Bad == {k \in 0..n : ~Good(k)}
<1> SUFFICES ASSUME Bad # {}
             PROVE  FALSE
  <2>1. n \in 0..n
    OBVIOUS
  <2>2. Bad = {} => Good(n)
    <3> HIDE DEF Good
    <3> QED BY <2>1
  <2> QED BY <2>2
<1>2. PICK k \in Bad : \A j \in Bad : k <= j
  <2>1. Bad \in SUBSET Nat
    OBVIOUS
  <2> QED BY <2>1, LeastPlace
<1>3. k \in 0..n /\ ~Good(k)
  OBVIOUS
<1>4. CASE k = 0
  BY <1>1, <1>3, <1>4
<1>5. CASE k # 0
  <2>1. k \in 1..n /\ k - 1 \in 0..n /\ ~(k <= k - 1)
    BY <1>3, <1>5
  <2>2. Good(k - 1)
    BY <1>2, <2>1
  <2>3. /\ f[1..k] = f[1..(k - 1)] + u[k] /\ g[1..k] = g[1..(k - 1)] + w[k]
        /\ c[k] - c[k - 1] = w[k] - u[k]
    BY <1>1, <2>1
  <2>4. PICK x \in Int, y \in Int, d \in Int, e \in Int :
          u[k] = x /\ w[k] = y /\ c[k] = d /\ c[k - 1] = e
    BY <2>1
  <2>5. PICK a \in Int : a = f[1..(k - 1)] /\ g[1..(k - 1)] = a + e
    BY <2>2, <2>4
  <2>6. f[1..k] = a + x /\ g[1..k] = (a + e) + y /\ c[k] = d /\ d - e = y - x
    BY <2>3, <2>4, <2>5
  <2>7. a + x \in Int /\ (a + e) + y = (a + x) + d
    BY <2>6
  <2>8. f[1..k] \in Int /\ g[1..k] = f[1..k] + c[k]
    BY <2>6, <2>7
  <2> QED BY <1>3, <2>8
<1> QED BY <1>4, <1>5

\* A sum, element by element.
LEMMA SumRun ==
  ASSUME NEW n \in Nat, NEW w \in [1..n -> Nat], NEW f, IsSum(f, n, w)
  PROVE  \E h \in [0..n -> Nat] :
           h[0] = 0 /\ h[n] = f[1..n] /\ \A k \in 1..n : h[k] = h[k - 1] + w[k]
<1> DEFINE h == [k \in 0..n |-> f[1..k]]
<1>1. w \in [1..n -> Int]
  OBVIOUS
<1>2. f[1..0] = 0 /\ \A k \in 1..n : f[1..k] = f[1..(k - 1)] + w[k]
  BY <1>1, SumOfPrefix
<1>3. h[0] = 0 /\ h[n] = f[1..n] /\ \A k \in 1..n : h[k] = h[k - 1] + w[k]
  <2>1. ASSUME NEW k \in 1..n
        PROVE  h[k] = f[1..k] /\ h[k - 1] = f[1..(k - 1)]
    OBVIOUS
  <2>2. h[0] = f[1..0] /\ h[n] = f[1..n]
    OBVIOUS
  <2> HIDE DEF h
  <2> QED BY <1>2, <2>1, <2>2
<1>4. \A k \in 0..n : h[k] \in Nat
  <2> DEFINE G == {k \in 0..n : h[k] \in Nat}
  <2>1. 0 \in G
    BY <1>3
  <2>2. \A k \in 1..n : k - 1 \in G => k \in G
    <3> SUFFICES ASSUME NEW k \in 1..n, k - 1 \in G
                 PROVE  k \in G
      OBVIOUS
    <3> HIDE DEF h
    <3>1. h[k - 1] \in Nat /\ w[k] \in Nat /\ h[k] = h[k - 1] + w[k]
      BY <1>3
    <3> QED BY <3>1
  <2> HIDE DEF G
  <2>3. \A k \in 0..n : k \in G
    BY <2>1, <2>2, UpTo
  <2> QED BY <2>3 DEF G
<1>5. h \in [0..n -> Nat]
  BY <1>4
<1> QED BY <1>3, <1>5

-----------------------------------------------------------------------------
(* Concatenations.                                                         *)

\* h holds what the first sequences of q are together, of n sequences over S.
PutTogether(S, n, q, h) ==
  /\ h \in [0..n -> Seq(S)]
  /\ h[0] = << >> /\ h[n] = FlattenSeq(q)
  /\ \A k \in 1..n : h[k] = h[k - 1] \o q[k]

\* FlattenSeq puts them together one by one.
LEMMA FlattenRun ==
  ASSUME NEW S, NEW n \in Nat, NEW q, q \in [1..n -> Seq(S)]
  PROVE  \E h : PutTogether(S, n, q, h)
<1> USE DEF PutTogether
<1>1. q \in Seq(Seq(S)) /\ Len(q) = n
  BY IsASeq
<1>2. CASE n = 0
  <2> DEFINE h == [k \in 0..n |-> << >>]
  <2>1. q = << >> /\ FlattenSeq(q) = q
    BY <1>1, <1>2 DEF FlattenSeq
  <2>2. h \in [0..n -> Seq(S)] /\ h[0] = << >> /\ h[n] = << >>
    OBVIOUS
  <2>3. \A k \in 1..n : FALSE
    BY <1>2
  <2> HIDE DEF h
  <2> QED BY <2>1, <2>2, <2>3
<1>3. CASE n # 0
  <2> DEFINE D == 1..n
             rank == [i \in D |-> i - 1]
             prev == [i \in D |-> IF i = 1 THEN 1 ELSE i - 1]
             base == q[1]
             step == [i \in D |-> [x \in Seq(S) |-> x \o q[i]]]
             F(f) == f = [i \in D |-> IF i = 1 THEN q[i] ELSE f[i - 1] \o q[i]]
  <2>1. rank \in [D -> Nat] /\ prev \in [D -> D] /\ base \in Seq(S)
    BY <1>3
  <2>2. step \in [D -> [Seq(S) -> Seq(S)]]
    <3>1. \A i \in D : \A x \in Seq(S) : x \o q[i] \in Seq(S)
      BY ConcatProperties
    <3> QED BY <3>1
  <2>3. \A i \in D : rank[i] # 0 => rank[prev[i]] < rank[i]
    OBVIOUS
  <2>4. Descends(D, Seq(S), rank, prev, base, step)
    <3> HIDE DEF rank, prev, base, step, D
    <3> QED BY <2>1, <2>2, <2>3 DEF Descends
  <2>5. PICK f \in [D -> Seq(S)] :
          \A i \in D : f[i] = IF rank[i] = 0 THEN base ELSE step[i][f[prev[i]]]
    <3> HIDE DEF rank, prev, base, step, D
    <3>1. PICK T : T = Seq(S)
      OBVIOUS
    <3>2. Descends(D, T, rank, prev, base, step)
      BY <2>4, <3>1
    <3>3. \E f \in [D -> T] :
            \A i \in D : f[i] = IF rank[i] = 0 THEN base ELSE step[i][f[prev[i]]]
      BY <3>2, RecursionByRank
    <3> QED BY <3>1, <3>3
  <2>6. ASSUME NEW i \in D
        PROVE  f[i] = IF i = 1 THEN q[i] ELSE f[i - 1] \o q[i]
    <3>1. CASE i = 1
      <4>1. rank[i] = 0
        BY <3>1
      <4>2. f[i] = base
        <5> HIDE DEF rank, prev, base, step
        <5> QED BY <2>5, <4>1
      <4> QED BY <3>1, <4>2
    <3>2. CASE i # 1
      <4>1. rank[i] # 0 /\ prev[i] = i - 1 /\ i - 1 \in D
        BY <3>2
      <4>2. f[i] = step[i][f[i - 1]]
        <5> HIDE DEF rank, prev, base, step
        <5> QED BY <2>5, <4>1
      <4>3. f[i - 1] \in Seq(S)
        BY <4>1
      <4>4. step[i][f[i - 1]] = f[i - 1] \o q[i]
        BY <4>3
      <4> QED BY <3>2, <4>2, <4>4
    <3> QED BY <3>1, <3>2
  <2>7. F(f)
    <3>1. f = [i \in D |-> f[i]]
      OBVIOUS
    <3> QED BY <2>6, <3>1
  <2> DEFINE g == CHOOSE x : F(x)
  <2>8. FlattenSeq(q) = g[n]
    BY <1>1, <1>3 DEF FlattenSeq
  <2> HIDE DEF F
  <2>9. F(g)
    BY <2>7
  <2> HIDE DEF g
  <2>10. \A i \in D : g[i] = IF i = 1 THEN q[i] ELSE g[i - 1] \o q[i]
    BY <2>9 DEF F
  <2> DEFINE h == [k \in 0..n |-> IF k = 0 THEN << >> ELSE g[k]]
  <2>11. /\ h[0] = << >> /\ h[n] = g[n]
         /\ \A k \in 1..n : h[k] = IF k = 1 THEN q[k] ELSE h[k - 1] \o q[k]
    <3>1. ASSUME NEW k \in 1..n
          PROVE  h[k] = g[k] /\ (k # 1 => h[k - 1] = g[k - 1])
      OBVIOUS
    <3>2. h[0] = << >> /\ h[n] = g[n]
      BY <1>3
    <3> HIDE DEF h
    <3> QED BY <2>10, <3>1, <3>2
  <2> HIDE DEF h
  <2>12. \A k \in 1..n : h[k] = h[k - 1] \o q[k]
    <3> SUFFICES ASSUME NEW k \in 1..n
                 PROVE  h[k] = h[k - 1] \o q[k]
      OBVIOUS
    <3>1. CASE k = 1
      <4>1. q[k] \in Seq(S)
        OBVIOUS
      <4>2. << >> \o q[k] = q[k]
        BY <4>1, ConcatEmptySeq
      <4> QED BY <2>11, <3>1, <4>2
    <3> QED BY <2>11, <3>1
  <2>13. \A k \in 0..n : h[k] \in Seq(S)
    <3> DEFINE G == {k \in 0..n : h[k] \in Seq(S)}
    <3>1. 0 \in G
      <4>1. h[0] \in Seq(S) /\ 0 \in 0..n
        BY <2>11
      <4> QED BY <4>1
    <3>2. \A k \in 1..n : k - 1 \in G => k \in G
      <4> SUFFICES ASSUME NEW k \in 1..n, k - 1 \in G
                   PROVE  k \in G
        OBVIOUS
      <4>1. h[k - 1] \in Seq(S) /\ q[k] \in Seq(S) /\ h[k] = h[k - 1] \o q[k]
        BY <2>12
      <4>2. h[k] \in Seq(S)
        BY <4>1, ConcatProperties
      <4> QED BY <4>2
    <3> HIDE DEF G
    <3>3. \A k \in 0..n : k \in G
      BY <3>1, <3>2, UpTo
    <3> QED BY <3>3 DEF G
  <2>14. h \in [0..n -> Seq(S)]
    <3>1. h = [k \in 0..n |-> h[k]]
      BY DEF h
    <3> QED BY <2>13, <3>1
  <2> QED BY <2>8, <2>11, <2>12, <2>14
<1> QED BY <1>2, <1>3
=============================================================================
