--------------------------- MODULE RpcDocTextProofs ---------------------------
(***************************************************************************)
(* Proofs about the two computations of the length of the documentation,   *)
(* for lists of functions of any length.                                   *)
(***************************************************************************)
EXTENDS RpcDocText, RpcListProofs

\* The sums over types that the two computations take.
Bare(s)      == Sum(TypeSize, s)
Separated(s) == Sum(LAMBDA typ : TypeSize(typ) + 1, s)

LEMMA SumOfTypes ==
  ASSUME NEW T, NEW s \in Seq(T)
  PROVE  /\ \E f : /\ IsSum(f, Len(s), [i \in 1..Len(s) |-> TypeSize(s[i])])
                   /\ Bare(s) = f[1..Len(s)]
         /\ \E g : /\ IsSum(g, Len(s), [i \in 1..Len(s) |-> TypeSize(s[i]) + 1])
                   /\ Separated(s) = g[1..Len(s)]
<1>1. Len(s) \in Nat /\ DOMAIN s = 1..Len(s)
  BY LenProperties
<1> DEFINE D == 1..Len(s)
           u == [i \in D |-> TypeSize(s[i])]
           w == [i \in D |-> TypeSize(s[i]) + 1]
           F(f) == f = [t \in SUBSET D |->
                          IF t = {} THEN 0 ELSE f[t \ {Max(t)}] + TypeSize(s[Max(t)])]
           G(f) == f = [t \in SUBSET D |->
                          IF t = {} THEN 0 ELSE f[t \ {Max(t)}] + (TypeSize(s[Max(t)]) + 1)]
<1>2. u \in [D -> Int] /\ w \in [D -> Int]
  BY DEF TypeSize
<1>3. \A t \in SUBSET D : t # {} => /\ u[Max(t)] = TypeSize(s[Max(t)])
                                    /\ w[Max(t)] = TypeSize(s[Max(t)]) + 1
  BY <1>1, GreatestPlace
<1>4. \A f : (IsSum(f, Len(s), u) => F(f)) /\ (F(f) => IsSum(f, Len(s), u))
  BY <1>3 DEF IsSum
<1>5. \A f : (IsSum(f, Len(s), w) => G(f)) /\ (G(f) => IsSum(f, Len(s), w))
  BY <1>3 DEF IsSum
<1>6. (\E f : IsSum(f, Len(s), u)) /\ (\E f : IsSum(f, Len(s), w))
  BY <1>1, <1>2, SumExists
<1>7. /\ Bare(s) = (CHOOSE f : F(f))[D]
      /\ Separated(s) = (CHOOSE f : G(f))[D]
  BY <1>1 DEF Bare, Separated, Sum, FoldLeft, MapThenFoldSet
<1> HIDE DEF F, G, u, w
<1>8. F(CHOOSE f : F(f)) /\ G(CHOOSE f : G(f))
  BY <1>4, <1>5, <1>6
<1> QED BY <1>4, <1>5, <1>7, <1>8 DEF u, w

\* Counting a separator with each type adds their number.
LEMMA TypesAddUp ==
  ASSUME NEW T, NEW s \in Seq(T)
  PROVE  /\ Bare(s) \in Int
         /\ Separated(s) = Bare(s) + Len(s)
<1>1. PICK n \in Nat : n = Len(s)
  BY LenProperties
<1> DEFINE u == [i \in 1..n |-> TypeSize(s[i])]
           w == [i \in 1..n |-> TypeSize(s[i]) + 1]
           c == [k \in 0..n |-> k]
<1>2. PICK f, g : /\ IsSum(f, n, u) /\ Bare(s) = f[1..n]
                  /\ IsSum(g, n, w) /\ Separated(s) = g[1..n]
  BY <1>1, SumOfTypes
<1>3. u \in [1..n -> Int] /\ w \in [1..n -> Int] /\ c \in [0..n -> Int] /\ c[0] = 0
  BY DEF TypeSize
<1>4. \A k \in 1..n : c[k] - c[k - 1] = w[k] - u[k]
  <2> SUFFICES ASSUME NEW k \in 1..n
               PROVE  c[k] - c[k - 1] = w[k] - u[k]
    OBVIOUS
  <2>1. c[k] = k /\ c[k - 1] = k - 1
    OBVIOUS
  <2>2. PICK e \in Int : u[k] = e /\ w[k] = e + 1
    BY DEF TypeSize
  <2> HIDE DEF c, u, w
  <2> QED BY <2>1, <2>2
<1>5. c[n] = n
  OBVIOUS
<1> HIDE DEF c, u, w
<1>6. f[1..n] \in Int /\ g[1..n] = f[1..n] + c[n]
  <2>1. AddsUp(c, n, u, w)
    BY <1>3, <1>4 DEF AddsUp
  <2> QED BY <1>2, <2>1, SumsDiffer
<1> QED BY <1>1, <1>2, <1>5, <1>6

\* The number of digits is a number, and comes from the digits but the last.
LEMMA IntSizeType ==
  \A i \in Nat : /\ IntSize[i] \in Nat
                 /\ IntSize[i] = IF i = 0 THEN 0 ELSE 1 + IntSize[i \div 10]
<1> DEFINE rank == [i \in Nat |-> i]
           prev == [i \in Nat |-> i \div 10]
           step == [i \in Nat |-> [x \in Nat |-> 1 + x]]
           F(f) == f = [i \in Nat |-> IF i = 0 THEN 0 ELSE 1 + f[i \div 10]]
<1>1. Descends(Nat, Nat, rank, prev, 0, step)
  <2>1. rank \in [Nat -> Nat] /\ prev \in [Nat -> Nat] /\ step \in [Nat -> [Nat -> Nat]]
    OBVIOUS
  <2>2. \A i \in Nat : rank[i] # 0 => rank[prev[i]] < rank[i]
    OBVIOUS
  <2> QED BY <2>1, <2>2 DEF Descends
<1>2. PICK f \in [Nat -> Nat] :
        \A i \in Nat : f[i] = IF rank[i] = 0 THEN 0 ELSE step[i][f[prev[i]]]
  <2> HIDE DEF rank, prev, step
  <2>1. PICK N : N = Nat
    OBVIOUS
  <2>2. Descends(N, N, rank, prev, 0, step)
    BY <1>1, <2>1
  <2> QED BY <2>1, <2>2, RecursionByRank
<1>3. \A i \in Nat : f[i] = IF i = 0 THEN 0 ELSE 1 + f[i \div 10]
  <2> SUFFICES ASSUME NEW i \in Nat
               PROVE  f[i] = IF i = 0 THEN 0 ELSE 1 + f[i \div 10]
    OBVIOUS
  <2>1. i \div 10 \in Nat /\ f[i \div 10] \in Nat
    OBVIOUS
  <2> QED BY <1>2, <2>1
<1>4. F(f)
  <2>1. f = [i \in Nat |-> f[i]]
    OBVIOUS
  <2> QED BY <1>3, <2>1
<1>5. IntSize = CHOOSE g : F(g)
  BY DEF IntSize
<1> HIDE DEF F
<1>6. F(IntSize)
  BY <1>4, <1>5
<1>7. IntSize = [i \in Nat |-> IF i = 0 THEN 0 ELSE 1 + IntSize[i \div 10]]
  BY <1>6 DEF F
<1> DEFINE Good == {i \in Nat : IntSize[i] \in Nat}
<1>8. ASSUME NEW i \in Nat, rank[i] # 0 => prev[i] \in Good
      PROVE  i \in Good
  BY <1>7, <1>8
<1> HIDE DEF rank, prev, step, Good
<1>9. PICK N : N = Nat
  OBVIOUS
<1>10. Descends(N, N, rank, prev, 0, step)
  BY <1>1, <1>9
<1>11. \A i \in N : i \in Good
  <2>1. \A i \in N : (rank[i] # 0 => prev[i] \in Good) => i \in Good
    BY <1>8, <1>9
  <2> QED BY <1>10, <2>1, InductionByRank
<1>12. \A i \in Nat : IntSize[i] \in Nat
  BY <1>9, <1>11 DEF Good
<1> QED BY <1>7, <1>12

\* For one function measuring and writing differ by the placeholder only.
Placeholder(m) == IF m.description_length = 0 THEN NoDoc ELSE 0

\* The functions whose text has a length.
HasText(m) ==
  m.name_length \in Int /\ m.description_length \in Nat /\ \E T : m.argv \in Seq(T)

LEMMA EntryDiffers ==
  ASSUME NEW m, HasText(m)
  PROVE  /\ EntrySize(m) \in Int
         /\ EntryWritten(m) = EntrySize(m) + Placeholder(m)
<1>1. /\ m.name_length \in Int /\ m.description_length \in Nat
      /\ TypeSize(m.return_type) \in Int
  BY DEF HasText, TypeSize
<1> PICK T : m.argv \in Seq(T)
  BY DEF HasText
<1>2. PICK argc \in Nat : argc = Len(m.argv)
  BY LenProperties
<1>3. PICK types \in Int : types = Bare(m.argv) /\ Separated(m.argv) = types + argc
  BY <1>2, TypesAddUp
<1>4. PICK digits \in Nat : digits = IntSize[argc]
  BY IntSizeType
<1>5. PICK name \in Int, doc \in Nat, ty \in Int :
        name = m.name_length /\ doc = m.description_length /\ ty = TypeSize(m.return_type)
  BY <1>1
<1>6. EntrySize(m) = 6 + name + 1 + 5 + doc + 1 + 15 + ty + 1 + 22 + digits + 1
                     + (IF argc > 0 THEN 17 + (types + argc) + 1 ELSE 0)
  BY <1>2, <1>3, <1>4, <1>5
     DEF EntrySize, Separated, HdName, HdDoc, HdRetType, HdNbParam, HdParamTypes
<1>7. EntryWritten(m) = 6 + name + 1 + 5 + (IF doc > 0 THEN doc ELSE 20) + 1 + 15 + ty + 1
                        + 22 + digits + 1 + (IF argc > 0 THEN 17 + types + argc + 1 ELSE 0)
  BY <1>2, <1>3, <1>4, <1>5
     DEF EntryWritten, Bare, HdName, HdDoc, NoDoc, HdRetType, HdNbParam, HdParamTypes
<1>8. Placeholder(m) = IF doc = 0 THEN 20 ELSE 0
  BY <1>5 DEF Placeholder, NoDoc
<1> QED BY <1>6, <1>7, <1>8

\* The sums over the functions that the two computations take.
LEMMA SumOfEntries ==
  ASSUME NEW E, \A m \in E : HasText(m), NEW q \in Seq(E)
  PROVE  /\ \E f : /\ IsSum(f, Len(q), [i \in 1..Len(q) |-> EntrySize(q[i])])
                   /\ Sum(EntrySize, q) = f[1..Len(q)]
         /\ \E g : /\ IsSum(g, Len(q), [i \in 1..Len(q) |-> EntryWritten(q[i])])
                   /\ Sum(EntryWritten, q) = g[1..Len(q)]
<1>1. Len(q) \in Nat /\ DOMAIN q = 1..Len(q)
  BY LenProperties
<1> DEFINE D == 1..Len(q)
           u == [i \in D |-> EntrySize(q[i])]
           w == [i \in D |-> EntryWritten(q[i])]
           F(f) == f = [t \in SUBSET D |->
                          IF t = {} THEN 0 ELSE f[t \ {Max(t)}] + EntrySize(q[Max(t)])]
           G(f) == f = [t \in SUBSET D |->
                          IF t = {} THEN 0 ELSE f[t \ {Max(t)}] + EntryWritten(q[Max(t)])]
<1>2. u \in [D -> Int] /\ w \in [D -> Int]
  <2>1. \A i \in D : q[i] \in E
    BY ElementOfSeq
  <2>2. \A i \in D : EntrySize(q[i]) \in Int /\ EntryWritten(q[i]) \in Int
    <3>1. \A m \in E : Placeholder(m) \in Int
      BY DEF Placeholder, NoDoc
    <3> QED BY <2>1, <3>1, EntryDiffers
  <2> QED BY <2>2
<1>3. \A t \in SUBSET D : t # {} => /\ u[Max(t)] = EntrySize(q[Max(t)])
                                    /\ w[Max(t)] = EntryWritten(q[Max(t)])
  BY <1>1, GreatestPlace
<1>4. \A f : (IsSum(f, Len(q), u) => F(f)) /\ (F(f) => IsSum(f, Len(q), u))
  BY <1>3 DEF IsSum
<1>5. \A f : (IsSum(f, Len(q), w) => G(f)) /\ (G(f) => IsSum(f, Len(q), w))
  BY <1>3 DEF IsSum
<1>6. (\E f : IsSum(f, Len(q), u)) /\ (\E f : IsSum(f, Len(q), w))
  BY <1>1, <1>2, SumExists
<1>7. /\ Sum(EntrySize, q) = (CHOOSE f : F(f))[D]
      /\ Sum(EntryWritten, q) = (CHOOSE f : G(f))[D]
  BY <1>1 DEF Sum, FoldLeft, MapThenFoldSet
<1> HIDE DEF F, G, u, w
<1>8. F(CHOOSE f : F(f)) /\ G(CHOOSE f : G(f))
  BY <1>4, <1>5, <1>6
<1> QED BY <1>4, <1>5, <1>7, <1>8 DEF u, w

\* For a list they differ by the placeholders of all functions without description.
LEMMA ListsDiffer ==
  ASSUME NEW E, \A m \in E : HasText(m), NEW q \in Seq(E)
  PROVE  /\ Sum(EntrySize, q) \in Int
         /\ Sum(EntryWritten, q)
              = Sum(EntrySize, q)
                  + NoDoc * Cardinality({i \in DOMAIN q : q[i].description_length = 0})
<1>1. PICK n \in Nat : n = Len(q) /\ DOMAIN q = 1..n
  BY LenProperties
<1> DEFINE u == [i \in 1..n |-> EntrySize(q[i])]
           w == [i \in 1..n |-> EntryWritten(q[i])]
           Without(k) == {i \in 1..k : q[i].description_length = 0}
           c == [k \in 0..n |-> NoDoc * Cardinality(Without(k))]
<1>2. /\ \E f : IsSum(f, n, u) /\ Sum(EntrySize, q) = f[1..n]
      /\ \E g : IsSum(g, n, w) /\ Sum(EntryWritten, q) = g[1..n]
  BY <1>1, SumOfEntries
<1>3. \A i \in 1..n : q[i] \in E
  BY <1>1, ElementOfSeq
<1>4. \A i \in 1..n : /\ EntrySize(q[i]) \in Int /\ Placeholder(q[i]) \in Int
                      /\ EntryWritten(q[i]) = EntrySize(q[i]) + Placeholder(q[i])
  <2>1. \A m \in E : Placeholder(m) \in Int
    BY DEF Placeholder, NoDoc
  <2> QED BY <1>3, <2>1, EntryDiffers
<1>5. u \in [1..n -> Int] /\ w \in [1..n -> Int]
  BY <1>4
<1>6. ASSUME NEW k \in 0..n
      PROVE  IsFiniteSet(Without(k)) /\ Cardinality(Without(k)) \in Nat
  <2>1. IsFiniteSet(1..k)
    BY FS_Interval
  <2> QED BY <2>1, FS_Subset, FS_CardinalityType
<1>7. c \in [0..n -> Int] /\ c[0] = 0
  <2>1. ASSUME NEW k \in 0..n
        PROVE  NoDoc * Cardinality(Without(k)) \in Int
    <3>1. PICK a \in Nat : a = Cardinality(Without(k))
      BY <1>6
    <3>2. NoDoc * a \in Int
      BY DEF NoDoc
    <3> HIDE DEF Without
    <3> QED BY <3>1, <3>2
  <2>2. Without(0) = {}
    OBVIOUS
  <2>3. c[0] = NoDoc * 0
    BY <2>2, FS_EmptySet
  <2> HIDE DEF Without
  <2> QED BY <2>1, <2>3 DEF NoDoc
<1>8. ASSUME NEW k \in 1..n
      PROVE  c[k] - c[k - 1] = w[k] - u[k]
  <2>1. k \in 0..n /\ k - 1 \in 0..n /\ k \in Nat
    OBVIOUS
  <2>2. PICK a \in Nat, b \in Nat :
          a = Cardinality(Without(k)) /\ b = Cardinality(Without(k - 1))
    BY <1>6, <2>1
  <2>3. c[k] = 20 * a /\ c[k - 1] = 20 * b
    BY <2>1, <2>2 DEF NoDoc
  <2>4. Placeholder(q[k]) = 20 * (a - b)
    <3>1. k \notin Without(k - 1)
      BY <2>1
    <3>2. CASE q[k].description_length = 0
      <4>1. Without(k) = Without(k - 1) \cup {k}
        BY <2>1, <3>2
      <4>2. a = b + 1
        BY <1>6, <2>1, <2>2, <3>1, <4>1, FS_AddElement
      <4> QED BY <3>2, <4>2 DEF Placeholder, NoDoc
    <3>3. CASE q[k].description_length # 0
      <4>1. Without(k) = Without(k - 1)
        BY <2>1, <3>3
      <4>2. a = b
        BY <2>2, <4>1
      <4> QED BY <3>3, <4>2 DEF Placeholder
    <3> QED BY <3>2, <3>3
  <2>5. PICK e \in Int : u[k] = e /\ w[k] = e + Placeholder(q[k])
    BY <1>4
  <2> HIDE DEF c, u, w
  <2> QED BY <2>3, <2>4, <2>5
<1>9. c[n] = NoDoc * Cardinality({i \in DOMAIN q : q[i].description_length = 0})
  BY <1>1
<1> HIDE DEF c, u, w
<1>10. AddsUp(c, n, u, w)
  BY <1>5, <1>7, <1>8 DEF AddsUp
<1>11. PICK f, g : /\ IsSum(f, n, u) /\ Sum(EntrySize, q) = f[1..n]
                   /\ IsSum(g, n, w) /\ Sum(EntryWritten, q) = g[1..n]
  BY <1>2
<1>12. f[1..n] \in Int /\ g[1..n] = f[1..n] + c[n]
  BY <1>10, <1>11, SumsDiffer
<1> QED BY <1>9, <1>11, <1>12
==============================================================================
