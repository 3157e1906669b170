----------------------------- MODULE RpcMapperProofs -----------------------------
(***************************************************************************)
(* Proofs about the function memory and the documentation of what it       *)
(* holds, for any names, functions and length of the list.                 *)
(***************************************************************************)
EXTENDS RpcDocumentation, RpcDocTextProofs

-----------------------------------------------------------------------------
(* Searching and changing the list.                                        *)

LEMMA PlacesType ==
  ASSUME NEW q \in Seq(FunctionMapper), NEW n
  PROVE  /\ DOMAIN q = 1..Len(q) /\ Len(q) \in Nat
         /\ Places(q, n) \subseteq DOMAIN q /\ Places(q, n) \in SUBSET Nat
         /\ IsFiniteSet(Places(q, n)) /\ Cardinality(Places(q, n)) \in Nat
<1>1. DOMAIN q = 1..Len(q) /\ Len(q) \in Nat
  BY LenProperties
<1>2. Places(q, n) \in SUBSET Nat /\ Places(q, n) \subseteq 1..Len(q)
  BY <1>1 DEF Places
<1>3. IsFiniteSet(1..Len(q))
  BY <1>1, FS_Interval
<1> QED BY <1>1, <1>2, <1>3, FS_Subset, FS_CardinalityType

\* The searches of the code stop at the first function with the name.
LEMMA FindIsFirst ==
  ASSUME fmap \in Seq(FunctionMapper), NEW n
  PROVE  /\ Places(fmap, n) = {} => Find(n) = 0
         /\ Places(fmap, n) # {} => /\ Find(n) \in Places(fmap, n)
                                    /\ \A j \in Places(fmap, n) : Find(n) <= j
         /\ Find(n) # 0 => Find(n) \in 1..Len(fmap)
<1>1. /\ DOMAIN fmap = 1..Len(fmap) /\ Places(fmap, n) \in SUBSET Nat
      /\ Places(fmap, n) \subseteq 1..Len(fmap)
  BY PlacesType
<1>2. Find(n) = IF Places(fmap, n) # {} THEN Min(Places(fmap, n)) ELSE 0
  BY <1>1 DEF Find, SelectInSeq, Places
<1> QED BY <1>1, <1>2, LeastPlace

-----------------------------------------------------------------------------
(* The places of a finite set of natural numbers, in their order.          *)

Rank(I, i) == Cardinality({j \in I : j <= i})

\* Ranks lie between 1 and the number of places, and grow with the place.
LEMMA RankOrder ==
  ASSUME NEW I \in SUBSET Nat, IsFiniteSet(I), NEW i \in I
  PROVE  /\ Rank(I, i) \in 1..Cardinality(I)
         /\ \A j \in I : i < j => Rank(I, i) < Rank(I, j)
<1> DEFINE Upto(j) == {m \in I : m <= j}
<1>1. ASSUME NEW j \in I
      PROVE  /\ IsFiniteSet(Upto(j)) /\ Rank(I, j) = Cardinality(Upto(j))
             /\ Cardinality(Upto(j)) \in Nat /\ Cardinality(Upto(j)) <= Cardinality(I)
  BY FS_Subset, FS_CardinalityType DEF Rank
<1>2. Cardinality(I) \in Nat
  BY FS_CardinalityType
<1>3. Rank(I, i) # 0
  <2>1. i \in Upto(i)
    OBVIOUS
  <2> QED BY <1>1, <2>1, FS_EmptySet
<1>4. ASSUME NEW j \in I, i < j
      PROVE  Rank(I, i) < Rank(I, j)
  <2>1. Upto(i) \in SUBSET Upto(j)
    <3>1. i \in Nat /\ j \in Nat /\ \A m \in I : m \in Nat
      OBVIOUS
    <3>2. \A m \in I : m <= i => m <= j
      BY <1>4, <3>1
    <3> QED BY <3>2
  <2>2. j \in Upto(j) /\ j \notin Upto(i)
    BY <1>4
  <2>3. Cardinality(Upto(i)) <= Cardinality(Upto(j)) /\ Cardinality(Upto(i)) # Cardinality(Upto(j))
    BY <1>1, <2>1, <2>2, FS_Subset
  <2> QED BY <1>1, <2>3
<1>5. Rank(I, i) \in 1..Cardinality(I)
  <2>1. Rank(I, i) \in Nat /\ Rank(I, i) <= Cardinality(I)
    BY <1>1
  <2> QED BY <1>2, <1>3, <2>1
<1> QED BY <1>4, <1>5

\* So every number up to that of the places is the rank of one place.
LEMMA RankOfNth ==
  ASSUME NEW I \in SUBSET Nat, IsFiniteSet(I)
  PROVE  /\ \A k \in 1..Cardinality(I) : Nth(I, k) \in I /\ Rank(I, Nth(I, k)) = k
         /\ \A i \in I : Nth(I, Rank(I, i)) = i
<1> DEFINE T == 1..Cardinality(I)
           f == [i \in I |-> Rank(I, i)]
<1>1. \A i, j \in I : Rank(I, i) = Rank(I, j) => i = j
  <2> SUFFICES ASSUME NEW i \in I, NEW j \in I, Rank(I, i) = Rank(I, j), i # j
               PROVE  FALSE
    OBVIOUS
  <2>1. i < j \/ j < i
    OBVIOUS
  <2> QED BY <2>1, RankOrder
<1>2. f \in Injection(I, T)
  BY <1>1, RankOrder DEF Injection, IsInjective
<1>3. IsFiniteSet(T) /\ Cardinality(T) = Cardinality(I)
  BY FS_Interval, FS_CardinalityType
<1>4. f \in Surjection(I, T)
  BY <1>2, <1>3, FS_Injection
<1>5. \A k \in T : \E i \in I : Rank(I, i) = k
  BY <1>4 DEF Surjection
<1>6. \A k \in T : Nth(I, k) \in I /\ Rank(I, Nth(I, k)) = k
  BY <1>5 DEF Nth, Rank
<1>7. ASSUME NEW i \in I
      PROVE  Nth(I, Rank(I, i)) = i
  <2>1. Rank(I, i) \in T
    BY RankOrder
  <2>2. Nth(I, Rank(I, i)) \in I /\ Rank(I, Nth(I, Rank(I, i))) = Rank(I, i)
    BY <1>6, <2>1
  <2> QED BY <1>1, <2>2
<1> QED BY <1>6, <1>7

\* Moving the places without changing their order keeps the ranks.
LEMMA NthMoves ==
  ASSUME NEW I \in SUBSET Nat, IsFiniteSet(I), NEW J \in SUBSET Nat, NEW h \in [I -> J],
         \A i, j \in I : i < j => h[i] < h[j],
         \A j \in J : \E i \in I : h[i] = j
  PROVE  /\ Cardinality(J) = Cardinality(I)
         /\ \A k \in 1..Cardinality(I) : Nth(J, k) = h[Nth(I, k)]
<1>1. \A i, j \in I : h[i] = h[j] => i = j
  <2> SUFFICES ASSUME NEW i \in I, NEW j \in I, h[i] = h[j], i # j
               PROVE  FALSE
    OBVIOUS
  <2>1. i < j \/ j < i
    OBVIOUS
  <2>2. h[i] < h[j] \/ h[j] < h[i]
    BY <2>1
  <2>3. h[i] \in Nat /\ h[j] \in Nat
    OBVIOUS
  <2> QED BY <2>2, <2>3
<1>2. \A i, j \in I : j <= i <=> h[j] <= h[i]
  <2> SUFFICES ASSUME NEW i \in I, NEW j \in I
               PROVE  j <= i <=> h[j] <= h[i]
    OBVIOUS
  <2>1. (i < j => h[i] < h[j]) /\ (j < i => h[j] < h[i])
    OBVIOUS
  <2>2. h[i] \in Nat /\ h[j] \in Nat /\ i \in Nat /\ j \in Nat
    OBVIOUS
  <2> QED BY <2>1, <2>2
<1>3. IsFiniteSet(J) /\ Cardinality(J) = Cardinality(I)
  <2>1. h \in Bijection(I, J)
    BY <1>1 DEF Bijection, Injection, IsInjective, Surjection
  <2> QED BY <2>1, FS_Bijection DEF ExistsBijection
<1>4. ASSUME NEW i \in I
      PROVE  Rank(J, h[i]) = Rank(I, i)
  <2> DEFINE A == {j \in I : j <= i}
             B == {j \in J : j <= h[i]}
             g == [j \in A |-> h[j]]
  <2>1. g \in [A -> B]
    BY <1>2
  <2>2. \A b \in B : \E a \in A : g[a] = b
    BY <1>2
  <2>3. g \in Bijection(A, B)
    BY <1>1, <2>1, <2>2 DEF Bijection, Injection, IsInjective, Surjection
  <2>4. IsFiniteSet(A)
    BY FS_Subset
  <2>5. Cardinality(B) = Cardinality(A)
    BY <2>3, <2>4, FS_Bijection DEF ExistsBijection
  <2> QED BY <2>5 DEF Rank
<1>5. ASSUME NEW k \in 1..Cardinality(I)
      PROVE  Nth(J, k) = h[Nth(I, k)]
  <2>1. Nth(I, k) \in I /\ Rank(I, Nth(I, k)) = k
    BY RankOfNth
  <2>2. PICK j \in J : j = h[Nth(I, k)] /\ Rank(J, j) = k
    BY <1>4, <2>1
  <2>3. Nth(J, Rank(J, j)) = j
    BY <1>3, RankOfNth
  <2> QED BY <2>2, <2>3
<1> QED BY <1>3, <1>5

\* Taking the least place away takes the first away.
LEMMA NthAfterFirst ==
  ASSUME NEW I \in SUBSET Nat, IsFiniteSet(I), NEW m \in I, \A i \in I : m <= i
  PROVE  /\ Cardinality(I) \in Nat \ {0} /\ Nth(I, 1) = m
         /\ IsFiniteSet(I \ {m}) /\ Cardinality(I \ {m}) = Cardinality(I) - 1
         /\ \A k \in 1..(Cardinality(I) - 1) : Nth(I \ {m}, k) = Nth(I, k + 1)
<1>1. IsFiniteSet(I \ {m}) /\ Cardinality(I \ {m}) = Cardinality(I) - 1
  BY FS_RemoveElement
<1>2. Cardinality(I) \in Nat \ {0}
  BY FS_CardinalityType, FS_EmptySet
<1>3. Rank(I, m) = 1
  <2>1. {j \in I : j <= m} = {m}
    <3>1. m \in Nat /\ \A j \in I : j \in Nat /\ m <= j
      OBVIOUS
    <3>2. \A j \in I : j <= m <=> j = m
      BY <3>1
    <3> QED BY <3>2
  <2> QED BY <2>1, FS_Singleton DEF Rank
<1>4. Nth(I, 1) = m
  BY <1>3, RankOfNth
<1>5. ASSUME NEW i \in I \ {m}
      PROVE  Rank(I \ {m}, i) = Rank(I, i) - 1
  <2> DEFINE A == {j \in I : j <= i}
  <2>1. IsFiniteSet(A) /\ m \in A
    BY FS_Subset
  <2>2. {j \in I \ {m} : j <= i} = A \ {m}
    OBVIOUS
  <2> QED BY <2>1, <2>2, FS_RemoveElement DEF Rank
<1>6. ASSUME NEW k \in 1..(Cardinality(I) - 1)
      PROVE  Nth(I \ {m}, k) = Nth(I, k + 1)
  <2>1. k + 1 \in 1..Cardinality(I) /\ k + 1 # 1 /\ (k + 1) - 1 = k
    BY <1>2
  <2>2. PICK i \in I : i = Nth(I, k + 1) /\ Rank(I, i) = k + 1
    BY <2>1, RankOfNth
  <2>3. i \in I \ {m} /\ Rank(I \ {m}, i) = k
    BY <1>3, <1>5, <2>1, <2>2
  <2>4. Nth(I \ {m}, k) = i
    BY <1>1, <2>3, RankOfNth
  <2> QED BY <2>2, <2>4
<1> QED BY <1>1, <1>2, <1>4, <1>6

-----------------------------------------------------------------------------
(* What the changes of the list do to the functions under a name.          *)

\* The functions under a name form a sequence.
LEMMA StackType ==
  ASSUME NEW q \in Seq(FunctionMapper), NEW n
  PROVE  /\ Stack(q, n) \in Seq(FunctionMapper)
         /\ Len(Stack(q, n)) = Cardinality(Places(q, n))
         /\ \A k \in 1..Cardinality(Places(q, n)) :
               Stack(q, n)[k] = q[Nth(Places(q, n), k)]
         /\ Stack(q, n) = << >> <=> Places(q, n) = {}
<1> DEFINE I == Places(q, n)
<1>1. /\ I \in SUBSET Nat /\ IsFiniteSet(I) /\ Cardinality(I) \in Nat
      /\ I \subseteq 1..Len(q)
  BY PlacesType
<1>2. Stack(q, n) = [k \in 1..Cardinality(I) |-> q[Nth(I, k)]]
  BY DEF Stack
<1> HIDE DEF I
<1>3. \A k \in 1..Cardinality(I) : q[Nth(I, k)] \in FunctionMapper
  BY <1>1, RankOfNth, ElementOfSeq
<1>4. Stack(q, n) \in Seq(FunctionMapper) /\ Len(Stack(q, n)) = Cardinality(I)
  BY <1>1, <1>2, <1>3, IsASeq, LenProperties
<1>5. Stack(q, n) = << >> <=> I = {}
  BY <1>1, <1>4, EmptySeq, FS_EmptySet
<1> QED BY <1>2, <1>4, <1>5 DEF I

\* Their head, if there is one, is what the searches find.
LEMMA StackHead ==
  ASSUME fmap \in Seq(FunctionMapper), NEW n
  PROVE  /\ Stack(fmap, n) = << >> <=> Find(n) = 0
         /\ Find(n) # 0 => Head(Stack(fmap, n)) = fmap[Find(n)]
<1>1. PICK I \in SUBSET Nat : I = Places(fmap, n) /\ IsFiniteSet(I) /\ I \subseteq 1..Len(fmap)
  BY PlacesType
<1>2. I = {} <=> Find(n) = 0
  BY <1>1, FindIsFirst
<1>3. ASSUME Find(n) # 0
      PROVE  Head(Stack(fmap, n)) = fmap[Find(n)]
  <2>1. PICK m \in I : m = Find(n) /\ \A j \in I : m <= j
    BY <1>1, <1>2, <1>3, FindIsFirst
  <2>2. Nth(I, 1) = m /\ Cardinality(I) \in Nat \ {0}
    BY <1>1, <2>1, NthAfterFirst
  <2>3. Stack(fmap, n)[1] = fmap[m]
    BY <1>1, <2>2, StackType
  <2>4. Head(Stack(fmap, n)) = Stack(fmap, n)[1]
    BY <1>1, <1>2, <1>3, StackType, HeadTailProperties
  <2> QED BY <2>1, <2>3, <2>4
<1> QED BY <1>1, <1>2, <1>3, StackType

\* A function at the head of the list comes before the others of its name.
LEMMA StackAdd ==
  ASSUME NEW q \in Seq(FunctionMapper), NEW m \in FunctionMapper, NEW n
  PROVE  Stack(<<m>> \o q, n) = IF m.name = n THEN <<m>> \o Stack(q, n) ELSE Stack(q, n)
<1>1. PICK r \in Seq(FunctionMapper) : r = <<m>> \o q
  BY Prepend
<1>2. /\ Len(q) \in Nat /\ DOMAIN q = 1..Len(q) /\ DOMAIN r = 1..(Len(q) + 1)
      /\ r[1] = m /\ \A i \in 2..(Len(q) + 1) : r[i] = q[i - 1]
  BY <1>1, Prepend
<1>3. PICK I \in SUBSET Nat : I = Places(q, n) /\ I \subseteq 1..Len(q) /\ IsFiniteSet(I)
  BY PlacesType
<1>4. PICK J \in SUBSET Nat : J = Places(r, n) /\ IsFiniteSet(J)
  BY PlacesType
<1>5. \A i \in I : i + 1 \in J /\ r[i + 1] = q[i]
  <2> SUFFICES ASSUME NEW i \in I
               PROVE  i + 1 \in J /\ r[i + 1] = q[i]
    OBVIOUS
  <2>1. i \in 1..Len(q) /\ q[i].name = n
    BY <1>3 DEF Places
  <2>2. i + 1 \in 2..(Len(q) + 1) /\ (i + 1) - 1 = i /\ i + 1 \in DOMAIN r
    BY <1>2, <2>1
  <2>3. r[i + 1] = q[i]
    BY <1>2, <2>2
  <2> QED BY <1>4, <2>1, <2>2, <2>3 DEF Places
<1>6. ASSUME NEW j \in J, j # 1
      PROVE  j - 1 \in I /\ (j - 1) + 1 = j
  <2>1. j \in 1..(Len(q) + 1) /\ r[j].name = n
    BY <1>2, <1>4 DEF Places
  <2>2. j \in 2..(Len(q) + 1) /\ j - 1 \in 1..Len(q) /\ (j - 1) + 1 = j
    BY <1>2, <1>6, <2>1
  <2>3. r[j] = q[j - 1]
    BY <1>2, <2>2
  <2> QED BY <1>2, <1>3, <2>1, <2>2, <2>3 DEF Places
<1>7. 1 \in J <=> m.name = n
  BY <1>2, <1>4 DEF Places
<1>8. /\ Stack(q, n) \in Seq(FunctionMapper) /\ Len(Stack(q, n)) = Cardinality(I)
      /\ \A k \in 1..Cardinality(I) : Stack(q, n)[k] = q[Nth(I, k)]
      /\ Cardinality(I) \in Nat
  BY <1>3, StackType, PlacesType
<1>9. /\ Stack(r, n) \in Seq(FunctionMapper) /\ Len(Stack(r, n)) = Cardinality(J)
      /\ \A k \in 1..Cardinality(J) : Stack(r, n)[k] = r[Nth(J, k)]
  BY <1>4, StackType
<1> DEFINE h == [i \in I |-> i + 1]
<1>10. \A i, j \in I : i < j => h[i] < h[j]
  <2> SUFFICES ASSUME NEW i \in I, NEW j \in I, i < j
               PROVE  h[i] < h[j]
    OBVIOUS
  <2>1. i \in Nat /\ j \in Nat
    OBVIOUS
  <2> QED BY <2>1
<1>11. \A i \in I : h[i] # 1 /\ h[i] = i + 1
  <2> SUFFICES ASSUME NEW i \in I
               PROVE  h[i] # 1 /\ h[i] = i + 1
    OBVIOUS
  <2>1. i \in 1..Len(q)
    BY <1>3
  <2> QED BY <1>2, <2>1
<1>12. \A j \in J : j # 1 => \E i \in I : h[i] = j
  BY <1>6
<1>13. h \in [I -> J \ {1}]
  <2>1. \A i \in I : i + 1 \in J \ {1}
    BY <1>5, <1>11
  <2> QED BY <2>1
<1> HIDE DEF h
<1>14. /\ Cardinality(J \ {1}) = Cardinality(I)
       /\ \A k \in 1..Cardinality(I) :
             /\ Nth(I, k) \in I
             /\ Nth(J \ {1}, k) = Nth(I, k) + 1
             /\ r[Nth(J \ {1}, k)] = q[Nth(I, k)]
  <2>1. PICK K \in SUBSET Nat : K = J \ {1}
    OBVIOUS
  <2>2. h \in [I -> K] /\ \A j \in K : \E i \in I : h[i] = j
    BY <1>12, <1>13, <2>1
  <2>3. /\ Cardinality(K) = Cardinality(I)
        /\ \A k \in 1..Cardinality(I) : Nth(K, k) = h[Nth(I, k)]
    BY <1>3, <1>10, <2>2, NthMoves
  <2>4. \A k \in 1..Cardinality(I) : Nth(I, k) \in I
    BY <1>3, RankOfNth
  <2> QED BY <1>5, <1>11, <2>1, <2>3, <2>4
<1>15. CASE m.name # n
  <2>1. J \ {1} = J
    BY <1>7, <1>15
  <2>2. \A k \in 1..Len(Stack(q, n)) : Stack(r, n)[k] = Stack(q, n)[k]
    BY <1>8, <1>9, <1>14, <2>1
  <2>3. Stack(r, n) = Stack(q, n)
    BY <1>8, <1>9, <1>14, <2>1, <2>2, SeqEqual
  <2> QED BY <1>1, <1>15, <2>3
<1>16. CASE m.name = n
  <2>1. 1 \in J /\ \A j \in J : 1 <= j
    <3>1. \A j \in J : j \in 1..(Len(q) + 1)
      BY <1>2, <1>4 DEF Places
    <3> QED BY <1>2, <1>7, <1>16, <3>1
  <2>2. /\ Nth(J, 1) = 1 /\ Cardinality(J) \in Nat /\ Cardinality(J \ {1}) = Cardinality(J) - 1
        /\ \A k \in 1..(Cardinality(J) - 1) : Nth(J \ {1}, k) = Nth(J, k + 1)
    BY <1>4, <2>1, NthAfterFirst
  <2>3. Cardinality(J) = Cardinality(I) + 1
    BY <1>8, <1>14, <2>2
  <2>4. PICK t \in Seq(FunctionMapper) : t = <<m>> \o Stack(q, n)
    BY <1>8, Prepend
  <2>5. /\ Len(t) = Cardinality(I) + 1 /\ t[1] = m
        /\ \A k \in 2..(Cardinality(I) + 1) : t[k] = Stack(q, n)[k - 1]
    <3>1. DOMAIN t = 1..(Cardinality(I) + 1)
      BY <1>8, <2>4, Prepend
    <3>2. DOMAIN t = 1..Len(t) /\ Len(t) \in Nat
      BY LenProperties
    <3>3. Len(t) = Cardinality(I) + 1
      BY <1>8, <3>1, <3>2
    <3> QED BY <1>8, <2>4, <3>3, Prepend
  <2>6. ASSUME NEW k \in 1..Len(t)
        PROVE  Stack(r, n)[k] = t[k]
    <3>1. CASE k = 1
      BY <1>2, <1>8, <1>9, <2>2, <2>3, <2>5, <3>1
    <3>2. CASE k # 1
      <4>1. /\ k - 1 \in 1..Cardinality(I) /\ (k - 1) + 1 = k
            /\ k \in 2..(Cardinality(I) + 1) /\ k \in 1..Cardinality(J)
            /\ k - 1 \in 1..(Cardinality(J) - 1)
        BY <1>8, <2>3, <2>5, <3>2
      <4>2. Nth(J \ {1}, k - 1) = Nth(J, k)
        BY <2>2, <4>1
      <4>3. r[Nth(J, k)] = q[Nth(I, k - 1)]
        BY <1>14, <4>1, <4>2
      <4>4. Stack(r, n)[k] = r[Nth(J, k)] /\ t[k] = Stack(q, n)[k - 1]
        BY <1>9, <2>5, <4>1
      <4>5. Stack(q, n)[k - 1] = q[Nth(I, k - 1)]
        BY <1>8, <4>1
      <4> QED BY <4>3, <4>4, <4>5
    <3> QED BY <3>1, <3>2
  <2>7. Len(Stack(r, n)) = Len(t)
    BY <1>9, <2>3, <2>5
  <2>8. Stack(r, n) = t
    BY <1>9, <2>6, <2>7, SeqEqual
  <2> QED BY <1>1, <1>16, <2>4, <2>8
<1> QED BY <1>15, <1>16

\* Removing the function a search finds uncovers the one before it, and leaves the
\* functions under the other names.
LEMMA StackRemove ==
  ASSUME fmap \in Seq(FunctionMapper), NEW sought, Find(sought) # 0, NEW n
  PROVE  Stack(RemoveAt(fmap, Find(sought)), n)
           = IF n = sought THEN Tail(Stack(fmap, n)) ELSE Stack(fmap, n)
<1>1. PICK p \in 1..Len(fmap) : p = Find(sought)
  BY FindIsFirst
<1>2. PICK r \in Seq(FunctionMapper) : r = RemoveAt(fmap, p)
  BY RemoveAtProperties
<1>3. /\ Len(fmap) \in Nat /\ DOMAIN fmap = 1..Len(fmap) /\ DOMAIN r = 1..(Len(fmap) - 1)
      /\ \A j \in 1..(Len(fmap) - 1) : r[j] = IF j < p THEN fmap[j] ELSE fmap[j + 1]
  <2>1. Len(r) = Len(fmap) - 1 /\ DOMAIN r = 1..Len(r) /\ Len(fmap) \in Nat
    BY <1>2, RemoveAtProperties, LenProperties
  <2>2. DOMAIN fmap = 1..Len(fmap)
    BY LenProperties
  <2> QED BY <1>2, <2>1, <2>2, RemoveAtProperties
<1>4. PICK A \in SUBSET Nat : A = Places(fmap, n) /\ A \subseteq 1..Len(fmap) /\ IsFiniteSet(A)
  BY PlacesType
<1>5. PICK I \in SUBSET A : I = A \ {p}
  OBVIOUS
<1>6. PICK J \in SUBSET Nat : J = Places(r, n) /\ J \subseteq 1..(Len(fmap) - 1)
  BY <1>3, PlacesType
<1>7. p \in A <=> n = sought
  <2>1. p \in Places(fmap, sought)
    BY <1>1, FindIsFirst
  <2> QED BY <1>4, <2>1 DEF Places
<1> DEFINE Down(i) == IF i < p THEN i ELSE i - 1
           h == [i \in I |-> Down(i)]
<1>8. ASSUME NEW i \in I
      PROVE  Down(i) \in J /\ r[Down(i)] = fmap[i]
  <2>1. i \in 1..Len(fmap) /\ fmap[i].name = n /\ i # p
    BY <1>4, <1>5 DEF Places
  <2>2. /\ Down(i) \in 1..(Len(fmap) - 1)
        /\ Down(i) < p <=> i < p
        /\ i < p => Down(i) = i
        /\ ~(i < p) => Down(i) + 1 = i
    BY <1>3, <2>1
  <2> HIDE DEF Down
  <2>3. r[Down(i)] = fmap[i]
    BY <1>3, <2>2
  <2> QED BY <1>3, <1>6, <2>1, <2>2, <2>3 DEF Places
<1>9. ASSUME NEW i \in I, NEW j \in I, i < j
      PROVE  Down(i) < Down(j)
  <2>1. i \in Nat /\ j \in Nat /\ i # p /\ j # p /\ p \in Nat
    BY <1>3, <1>5
  <2> QED BY <1>9, <2>1
<1>10. ASSUME NEW j \in J
       PROVE  \E i \in I : Down(i) = j
  <2> DEFINE i == IF j < p THEN j ELSE j + 1
  <2>1. j \in 1..(Len(fmap) - 1) /\ r[j].name = n
    BY <1>6 DEF Places
  <2>2. i \in 1..Len(fmap) /\ i # p /\ Down(i) = j
    BY <1>3, <2>1
  <2>3. fmap[i] = r[j]
    BY <1>3, <2>1
  <2> HIDE DEF i, Down
  <2>4. i \in I
    BY <1>3, <1>4, <1>5, <2>1, <2>2, <2>3 DEF Places
  <2> QED BY <2>2, <2>4
<1>11. \A i \in I : h[i] = Down(i)
  OBVIOUS
<1>12. h \in [I -> J]
  BY <1>8
<1> HIDE DEF h, Down
<1>13. /\ Len(Stack(r, n)) = Cardinality(I)
       /\ \A k \in 1..Cardinality(I) : Stack(r, n)[k] = fmap[Nth(I, k)]
  <2>1. \A i, j \in I : i < j => h[i] < h[j]
    BY <1>9, <1>11
  <2>2. \A j \in J : \E i \in I : h[i] = j
    BY <1>10, <1>11
  <2>3. I \in SUBSET Nat /\ IsFiniteSet(I)
    BY <1>4, <1>5, FS_Subset
  <2>4. /\ Cardinality(J) = Cardinality(I)
        /\ \A k \in 1..Cardinality(I) : Nth(J, k) = h[Nth(I, k)]
    BY <1>12, <2>1, <2>2, <2>3, NthMoves
  <2>5. \A k \in 1..Cardinality(I) : Nth(I, k) \in I
    BY <2>3, RankOfNth
  <2>6. \A k \in 1..Cardinality(I) : r[Nth(J, k)] = fmap[Nth(I, k)]
    BY <1>8, <1>11, <2>4, <2>5
  <2> QED BY <1>6, <2>4, <2>6, StackType
<1>14. PICK s \in Seq(FunctionMapper) :
         /\ s = Stack(fmap, n) /\ Len(s) = Cardinality(A)
         /\ \A k \in 1..Cardinality(A) : s[k] = fmap[Nth(A, k)]
  BY <1>4, StackType
<1>15. Stack(r, n) \in Seq(FunctionMapper)
  BY StackType
<1>16. CASE n # sought
  <2>1. I = A
    BY <1>5, <1>7, <1>16
  <2>2. Stack(r, n) = s
    BY <1>13, <1>14, <1>15, <2>1, SeqEqual
  <2> QED BY <1>1, <1>2, <1>14, <1>16, <2>2
<1>17. CASE n = sought
  <2>1. p \in A /\ \A j \in A : p <= j
    BY <1>1, <1>4, <1>7, <1>17, FindIsFirst
  <2>2. /\ Cardinality(A) \in Nat \ {0} /\ Cardinality(I) = Cardinality(A) - 1
        /\ \A k \in 1..(Cardinality(A) - 1) : Nth(I, k) = Nth(A, k + 1)
    <3>1. PICK m \in A : m = p /\ \A j \in A : m <= j
      BY <2>1
    <3>2. /\ Cardinality(A) \in Nat \ {0} /\ Cardinality(A \ {m}) = Cardinality(A) - 1
          /\ \A k \in 1..(Cardinality(A) - 1) : Nth(A \ {m}, k) = Nth(A, k + 1)
      BY <1>4, <3>1, NthAfterFirst
    <3> QED BY <1>5, <3>1, <3>2
  <2>3. s # << >>
    BY <1>14, <2>2, EmptySeq
  <2>4. /\ Tail(s) \in Seq(FunctionMapper) /\ Len(Tail(s)) = Cardinality(I)
        /\ \A k \in 1..Cardinality(I) : Tail(s)[k] = s[k + 1]
    BY <1>14, <2>2, <2>3, HeadTailProperties
  <2>5. ASSUME NEW k \in 1..Cardinality(I)
        PROVE  Stack(r, n)[k] = Tail(s)[k]
    <3>1. k + 1 \in 1..Cardinality(A)
      BY <2>2
    <3> QED BY <1>13, <1>14, <2>2, <2>4, <3>1
  <2>6. Stack(r, n) = Tail(s)
    BY <1>13, <1>15, <2>4, <2>5, SeqEqual
  <2> QED BY <1>1, <1>2, <1>14, <1>17, <2>6
<1> QED BY <1>16, <1>17

-----------------------------------------------------------------------------
(* Types, and the counter kept beside the list.                            *)

\* memory->size is the length of the list, which is why it never wraps below 0; the
\* caller's structure is one that create_function filled, or the zeroed one.
Counted   == size = Len(fmap)
Made      == map \in {Mapper(c) : c \in Candidates} \cup {Zeroed}
Inductive == TypeOK /\ Counted /\ Made

\* What create_function lets through has the types of the structure.
LEMMA CreateFunctionType ==
  ASSUME TypeOK, Made, NEW c \in Candidates, CreateFunction(c)
  PROVE  /\ map' \in FunctionMapper /\ Made'
         /\ ret' \in {0, -1, -2, -3}
<1>1. /\ c.name \in Names /\ c.name_length \in Nat /\ c.argv \in Seq(Types)
      /\ c.description_length \in Nat \cup {NULL} /\ FunctionNameLength \in Nat
  BY MapperAssumption DEF MapperAssumption
<1>2. ret' \in {0, -2, -3} /\ UNCHANGED fmap
  BY DEF CreateFunction
<1>3. CASE ret' = 0
  <2>1. c.name_length \in 0..FunctionNameLength /\ c.return_type \in Types
    BY <1>1, <1>3 DEF CreateFunction
  <2>2. map' = Mapper(c)
    BY <1>3 DEF CreateFunction
  <2>3. Mapper(c) \in FunctionMapper
    BY <1>1, <2>1 DEF Mapper, FunctionMapper
  <2>4. Made'
    BY <2>2 DEF Made
  <2> QED BY <1>2, <2>2, <2>3, <2>4
<1>4. CASE ret' # 0
  <2>1. map' = map
    BY <1>4 DEF CreateFunction
  <2> QED BY <1>2, <2>1 DEF TypeOK, Made
<1> QED BY <1>3, <1>4

\* The cleared structure is one that the list may hold.
LEMMA ZeroedFits == Zeroed \in FunctionMapper
<1>1. << >> \in Seq(Types)
  BY EmptySeq
<1>2. PICK empty \in Names : empty = ""
  BY MapperAssumption
<1>3. FunctionNameLength \in Nat
  BY MapperAssumption
<1>4. 0 \in Nat /\ 0 \in 0..FunctionNameLength
  BY <1>3
<1>5. "void" \in Types
  BY DEF Types
<1>6. Zeroed = [name |-> empty, name_length |-> 0, description_length |-> 0,
                return_type |-> "void", argv |-> << >>]
  BY <1>2, Zenon DEF Zeroed
<1> QED BY <1>1, <1>4, <1>5, <1>6 DEF FunctionMapper

\* It holds at first.
LEMMA InitInductive == Init => Inductive
<1> SUFFICES ASSUME Init PROVE Inductive
  OBVIOUS
<1>1. Zeroed \in FunctionMapper
  BY ZeroedFits
<1>2. fmap \in Seq(FunctionMapper) /\ Len(fmap) = 0
  BY EmptySeq DEF Init
<1> QED BY <1>1, <1>2 DEF Init, Inductive, TypeOK, Counted, Made

\* Every step keeps it.
LEMMA NextInductive == Inductive /\ [Next]_vars => Inductive'
<1> SUFFICES ASSUME Inductive, [Next]_vars PROVE Inductive'
  OBVIOUS
<1>1. TypeOK /\ Counted /\ Made
  BY DEF Inductive
<1>2. Len(fmap) \in Nat
  BY <1>1, LenProperties DEF TypeOK
<1>3. ASSUME NEW c \in Candidates, CreateFunction(c)
      PROVE  Inductive'
  <2>1. UNCHANGED <<initialized, fmap, size, found>>
    BY <1>3 DEF CreateFunction
  <2> QED BY <1>1, <1>3, <2>1, CreateFunctionType DEF Inductive, TypeOK, Counted
<1>4. CASE AddFunction
  <2>1. /\ fmap' \in Seq(FunctionMapper)
        /\ DOMAIN fmap' = 1..(Len(fmap) + 1)
    BY <1>1, <1>4, Prepend DEF AddFunction, TypeOK
  <2>2. Len(fmap') = Len(fmap) + 1
    <3>1. PICK r \in Seq(FunctionMapper) : r = fmap' /\ DOMAIN r = 1..(Len(fmap) + 1)
      BY <2>1
    <3>2. DOMAIN r = 1..Len(r) /\ Len(r) \in Nat
      BY LenProperties
    <3> QED BY <1>2, <3>1, <3>2
  <2> QED BY <1>1, <1>2, <1>4, <2>1, <2>2
          DEF AddFunction, Inductive, TypeOK, Counted, Made
<1>5. CASE AddFunctionFails
  BY <1>1, <1>5 DEF AddFunctionFails, Inductive, TypeOK, Counted, Made
<1>6. ASSUME NEW n \in Names, ExistFunction(n)
      PROVE  Inductive'
  BY <1>1, <1>6 DEF ExistFunction, Inductive, TypeOK, Counted, Made
<1>7. ASSUME NEW n \in Names, GetFunction(n)
      PROVE  Inductive'
  <2>1. found' \in FunctionMapper \cup {NULL}
    BY <1>1, <1>7, FindIsFirst, ElementOfSeq DEF GetFunction, TypeOK
  <2> QED BY <1>1, <1>7, <2>1 DEF GetFunction, Inductive, TypeOK, Counted, Made
<1>8. ASSUME NEW n \in Names, RemoveFunction(n)
      PROVE  Inductive'
  <2>1. CASE Find(n) # 0
    <3>1. PICK p \in 1..Len(fmap) : p = Find(n)
      BY <1>1, <2>1, FindIsFirst DEF TypeOK
    <3>2. /\ fmap' \in Seq(FunctionMapper) /\ Len(fmap') = Len(fmap) - 1
          /\ size' = size - 1 /\ ret' = 0 /\ UNCHANGED <<map, initialized, found>>
      BY <1>1, <1>8, <2>1, <3>1, RemoveAtProperties DEF RemoveFunction, TypeOK
    <3>3. size' \in Nat /\ Counted'
      BY <1>1, <1>2, <3>1, <3>2 DEF Counted
    <3>4. initialized'
      <4>1. fmap # << >>
        BY <1>2, <3>1, EmptySeq
      <4> QED BY <1>1, <3>2, <4>1 DEF TypeOK
    <3> QED BY <1>1, <3>2, <3>3, <3>4 DEF Inductive, TypeOK, Made
  <2>2. CASE Find(n) = 0
    BY <1>1, <1>8, <2>2 DEF RemoveFunction, Inductive, TypeOK, Counted, Made
  <2> QED BY <2>1, <2>2
<1>9. CASE ClearMapper
  <2>1. fmap' = << >> /\ fmap' \in Seq(FunctionMapper) /\ Len(fmap') = 0
    BY <1>9, EmptySeq DEF ClearMapper
  <2> QED BY <1>1, <1>9, <2>1 DEF ClearMapper, Inductive, TypeOK, Counted, Made
<1>10. CASE Memset
  BY <1>1, <1>10, ZeroedFits DEF Memset, Inductive, TypeOK, Counted, Made
<1>11. CASE UNCHANGED vars
  BY <1>1, <1>11 DEF vars, Inductive, TypeOK, Counted, Made
<1> QED BY <1>3, <1>4, <1>5, <1>6, <1>7, <1>8, <1>9, <1>10, <1>11 DEF Next

\* It is an invariant.
LEMMA AlwaysInductive == Spec => []Inductive
BY InitInductive, NextInductive, PTL DEF Spec

\* The list stays a list of functions that fit their structure, initialized before
\* it holds one, and the counter a natural number.
THEOREM MapperTypeCorrect == Spec => []TypeOK
<1>1. Inductive => TypeOK
  BY DEF Inductive
<1> QED BY <1>1, AlwaysInductive, PTL

-----------------------------------------------------------------------------
(* The abstract state.                                                     *)

\* What RpcMapper puts for stacks and Mappers.
Stacks  == [n \in Names |-> Stack(fmap, n)]
Mappers == {Mapper(c) : c \in Candidates} \cup {Zeroed}

\* What RpcRegistry says of a step, with the state of the memory put in.
LEMMA RegistryExpanded ==
  /\ Registry!Init <=> /\ Stacks = [n \in Names |-> << >>]
                       /\ size = 0 /\ ret = 0 /\ found = NULL
  /\ \A m \in Mappers : Registry!Add(m) <=>
       /\ Stacks' = [Stacks EXCEPT ![m.name] = <<m>> \o @]
       /\ size' = size + 1 /\ ret' = 0 /\ UNCHANGED found
  /\ Registry!Make <=> ret' \in {0, -1, -2, -3} /\ UNCHANGED <<Stacks, size, found>>
  /\ \A n \in Names : Registry!Exist(n) <=>
       /\ ret' = IF Stacks[n] = << >> THEN 0 ELSE 1
       /\ UNCHANGED <<Stacks, size, found>>
  /\ \A n \in Names : Registry!Get(n) <=>
       /\ found' = IF Stacks[n] = << >> THEN NULL ELSE Head(Stacks[n])
       /\ UNCHANGED <<Stacks, size, ret>>
  /\ \A n \in Names : Registry!Remove(n) <=>
       /\ IF Stacks[n] = << >>
          THEN ret' = -1 /\ UNCHANGED <<Stacks, size>>
          ELSE /\ Stacks' = [Stacks EXCEPT ![n] = Tail(@)]
               /\ size' = size - 1 /\ ret' = 0
       /\ UNCHANGED found
  /\ Registry!Clear <=> /\ Stacks' = [n \in Names |-> << >>]
                        /\ size' = 0 /\ UNCHANGED <<ret, found>>
  /\ Registry!Next <=> \/ \E m \in Mappers : Registry!Add(m)
                       \/ Registry!Make
                       \/ \E n \in Names : \/ Registry!Exist(n) \/ Registry!Get(n)
                                           \/ Registry!Remove(n)
                       \/ Registry!Clear
BY DEF Stacks, Mappers, Registry!Init, Registry!Add, Registry!Make, Registry!Exist,
   Registry!Get, Registry!Remove, Registry!Clear, Registry!Next

\* An empty list has an empty stack under every name.
LEMMA EmptyStack ==
  ASSUME NEW n
  PROVE  Stack(<< >>, n) = << >>
<1>1. PICK q \in Seq(FunctionMapper) : q = << >>
  BY EmptySeq
<1>2. DOMAIN q = {}
  BY <1>1
<1>3. Places(q, n) = {}
  BY <1>2 DEF Places
<1> QED BY <1>1, <1>3, StackType

-----------------------------------------------------------------------------
(* Each operation is one of the registry.                                  *)

LEMMA AddFunctionAdds ==
  ASSUME Inductive, AddFunction
  PROVE  Registry!Next
<1>1. PICK m \in FunctionMapper : m = map /\ m \in Mappers /\ m.name \in Names
  BY DEF Inductive, TypeOK, Made, Mappers, FunctionMapper
<1>2. PICK q \in Seq(FunctionMapper) : q = fmap
  BY DEF Inductive, TypeOK
<1>3. fmap' = <<m>> \o q
  BY <1>1, <1>2 DEF AddFunction
<1>4. ASSUME NEW n \in Names
      PROVE  Stack(<<m>> \o q, n) = [Stacks EXCEPT ![m.name] = <<m>> \o @][n]
  BY <1>2, StackAdd DEF Stacks
<1>5. Stacks' = [Stacks EXCEPT ![m.name] = <<m>> \o @]
  BY <1>3, <1>4 DEF Stacks
<1>6. Registry!Add(m)
  BY <1>1, <1>5, RegistryExpanded DEF AddFunction
<1> QED BY <1>1, <1>6, RegistryExpanded

LEMMA RemoveFunctionRemoves ==
  ASSUME Inductive, NEW sought \in Names, RemoveFunction(sought)
  PROVE  Registry!Next
<1>1. fmap \in Seq(FunctionMapper)
  BY DEF Inductive, TypeOK
<1>2. Stacks[sought] = << >> <=> Find(sought) = 0
  BY <1>1, StackHead DEF Stacks
<1>3. CASE Find(sought) # 0
  <2>1. fmap' = RemoveAt(fmap, Find(sought))
    BY <1>3 DEF RemoveFunction
  <2>2. ASSUME NEW n \in Names
        PROVE  Stack(RemoveAt(fmap, Find(sought)), n)
                 = [Stacks EXCEPT ![sought] = Tail(@)][n]
    BY <1>1, <1>3, StackRemove DEF Stacks
  <2>3. Stacks' = [Stacks EXCEPT ![sought] = Tail(@)]
    BY <2>1, <2>2 DEF Stacks
  <2>4. Registry!Remove(sought)
    BY <1>2, <1>3, <2>3, RegistryExpanded DEF RemoveFunction
  <2> QED BY <2>4, RegistryExpanded
<1>4. CASE Find(sought) = 0
  <2>1. UNCHANGED Stacks
    BY <1>4 DEF RemoveFunction, Stacks
  <2>2. Registry!Remove(sought)
    BY <1>2, <1>4, <2>1, RegistryExpanded DEF RemoveFunction
  <2> QED BY <2>2, RegistryExpanded
<1> QED BY <1>3, <1>4

LEMMA SearchesSearch ==
  ASSUME Inductive, NEW n \in Names, ExistFunction(n) \/ GetFunction(n)
  PROVE  Registry!Next
<1>1. fmap \in Seq(FunctionMapper)
  BY DEF Inductive, TypeOK
<1>2. /\ Stacks[n] = << >> <=> Find(n) = 0
      /\ Find(n) # 0 => Head(Stacks[n]) = fmap[Find(n)]
  BY <1>1, StackHead DEF Stacks
<1>3. UNCHANGED <<Stacks, size>>
  BY DEF Stacks, ExistFunction, GetFunction
<1>4. CASE ExistFunction(n)
  <2>1. Registry!Exist(n)
    BY <1>2, <1>3, <1>4, RegistryExpanded DEF ExistFunction
  <2> QED BY <2>1, RegistryExpanded
<1>5. CASE GetFunction(n)
  <2>1. Registry!Get(n)
    BY <1>2, <1>3, <1>5, RegistryExpanded DEF GetFunction
  <2> QED BY <2>1, RegistryExpanded
<1> QED BY <1>4, <1>5

LEMMA RegistryStep ==
  ASSUME Inductive, [Next]_vars
  PROVE  [Registry!Next]_<<Stacks, size, ret, found>>
<1>1. ASSUME NEW c \in Candidates, CreateFunction(c)
      PROVE  Registry!Next
  <2>1. ret' \in {0, -1, -2, -3}
    BY <1>1, CreateFunctionType DEF Inductive
  <2>2. UNCHANGED <<Stacks, size, found>>
    BY <1>1 DEF CreateFunction, Stacks
  <2> QED BY <2>1, <2>2, RegistryExpanded
<1>2. CASE AddFunction
  BY <1>2, AddFunctionAdds
<1>3. CASE AddFunctionFails
  <2>1. ret' \in {0, -1, -2, -3} /\ UNCHANGED <<Stacks, size, found>>
    BY <1>3 DEF AddFunctionFails, Stacks
  <2> QED BY <2>1, RegistryExpanded
<1>4. ASSUME NEW n \in Names, ExistFunction(n) \/ GetFunction(n)
      PROVE  Registry!Next
  BY <1>4, SearchesSearch
<1>5. ASSUME NEW n \in Names, RemoveFunction(n)
      PROVE  Registry!Next
  BY <1>5, RemoveFunctionRemoves
<1>6. CASE ClearMapper
  <2>1. fmap' = << >>
    BY <1>6 DEF ClearMapper
  <2>2. Stacks' = [n \in Names |-> << >>]
    BY <2>1, EmptyStack DEF Stacks
  <2>3. Registry!Clear
    BY <1>6, <2>2, RegistryExpanded DEF ClearMapper
  <2> QED BY <2>3, RegistryExpanded
<1>7. CASE Memset
  BY <1>7 DEF Memset, Stacks
<1>8. CASE UNCHANGED vars
  BY <1>8 DEF vars, Stacks
<1> QED BY <1>1, <1>2, <1>3, <1>4, <1>5, <1>6, <1>7, <1>8 DEF Next

\* For any names, functions and length of the list, the function memory is a
\* registry: a search finds the function registered last under a name, removing it
\* brings the one before back, nothing touches the other names, and memory->size
\* counts the functions of them all.
THEOREM MapperImplementsRegistry == Spec => ImplementsRegistry
<1>1. Init => Registry!Init
  <2> SUFFICES ASSUME Init PROVE Registry!Init
    OBVIOUS
  <2>1. Stacks = [n \in Names |-> << >>]
    BY EmptyStack DEF Init, Stacks
  <2> QED BY <2>1, RegistryExpanded DEF Init
<1>2. Inductive /\ [Next]_vars => [Registry!Next]_<<Stacks, size, ret, found>>
  BY RegistryStep
<1> QED BY <1>1, <1>2, AlwaysInductive, PTL
        DEF Spec, ImplementsRegistry, Registry!Spec, Stacks

-----------------------------------------------------------------------------
(* The documentation of the list.                                          *)

\* The functions of the memory have a text.
LEMMA FunctionsHaveText == \A m \in FunctionMapper : HasText(m)
<1>1. FunctionNameLength \in Nat
  BY MapperAssumption
<1> QED BY <1>1 DEF FunctionMapper, HasText

\* Making the documentation reads the memory and leaves it alone.
LEMMA DocumentationReads == DocSpec => Spec
<1>1. DocInit => Init
  BY DEF DocInit
<1>2. [DocNext]_<<vars, docVars>> => [Next]_vars
  BY DEF DocNext, GenerateDocumentation, vars
<1> QED BY <1>1, <1>2, PTL DEF DocSpec, Spec

\* For any list, of any functions with any number of parameters: the documentation is
\* written exactly as far as it was measured, but for the placeholder of every function
\* without a description.
THEOREM WrittenAsMeasured == DocSpec => WritesMeasuredAndPlaceholders
<1>1. ASSUME Inductive, GenerateDocumentation
      PROVE  written' = allocated'
               + NoDoc * Cardinality({i \in DOMAIN fmap : fmap[i].description_length = 0})
  <2>1. PICK q \in Seq(FunctionMapper) : q = fmap
    BY <1>1 DEF Inductive, TypeOK
  <2>2. PICK k \in Int : k = NoDoc * Cardinality({i \in DOMAIN q : q[i].description_length = 0})
    <3>1. IsFiniteSet(DOMAIN q)
      BY LenProperties, FS_Interval
    <3>2. PICK a \in Nat : a = Cardinality({i \in DOMAIN q : q[i].description_length = 0})
      BY <3>1, FS_Subset, FS_CardinalityType
    <3>3. NoDoc * a \in Int
      BY DEF NoDoc
    <3> QED BY <3>2, <3>3
  <2>3. PICK e \in Int : Sum(EntrySize, q) = e /\ Sum(EntryWritten, q) = e + k
    BY <2>2, ListsDiffer, FunctionsHaveText
  <2>4. allocated' = (e + 1) + 1 /\ written' = (e + k) + 2
    BY <1>1, <2>1, <2>3 DEF GenerateDocumentation, DocumentationSize
  <2> QED BY <2>1, <2>2, <2>4
<1>2. Inductive /\ [DocNext]_<<vars, docVars>>
      => [GenerateDocumentation =>
            written' = allocated'
              + NoDoc * Cardinality({i \in DOMAIN fmap : fmap[i].description_length = 0})
         ]_<<vars, docVars>>
  BY <1>1
<1> QED BY <1>2, DocumentationReads, AlwaysInductive, PTL
        DEF DocSpec, WritesMeasuredAndPlaceholders
=============================================================================
