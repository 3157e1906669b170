---------------------------- MODULE RpcClientProofs ----------------------------
(***************************************************************************)
(* Proofs about a call from the command line to the printed answer, for    *)
(* any command lines and messages and any width of an int up to 32 bits.   *)
(***************************************************************************)
EXTENDS RpcClient, RpcDocTextProofs

-----------------------------------------------------------------------------
(* Integers of C.                                                          *)

\* The powers of two that bound an int.
LEMMA Width ==
  \E h \in Nat : h >= 8 /\ h <= 2147483648 /\ 2^(IntBits - 1) = h /\ 2^IntBits = 2 * h
<1>1. PICK i \in 3..31 : i = IntBits - 1 /\ IntBits = i + 1
  BY CodecAssumption
<1>2. ASSUME NEW k
      PROVE  /\ k = 3 => 2^k = 8
             /\ k = 4 => 2^k = 16
             /\ k = 5 => 2^k = 32
             /\ k = 6 => 2^k = 64
             /\ k = 7 => 2^k = 128
             /\ k = 8 => 2^k = 256
             /\ k = 9 => 2^k = 512
             /\ k = 10 => 2^k = 1024
             /\ k = 11 => 2^k = 2048
             /\ k = 12 => 2^k = 4096
             /\ k = 13 => 2^k = 8192
             /\ k = 14 => 2^k = 16384
             /\ k = 15 => 2^k = 32768
             /\ k = 16 => 2^k = 65536
             /\ k = 17 => 2^k = 131072
             /\ k = 18 => 2^k = 262144
             /\ k = 19 => 2^k = 524288
             /\ k = 20 => 2^k = 1048576
             /\ k = 21 => 2^k = 2097152
             /\ k = 22 => 2^k = 4194304
             /\ k = 23 => 2^k = 8388608
             /\ k = 24 => 2^k = 16777216
             /\ k = 25 => 2^k = 33554432
             /\ k = 26 => 2^k = 67108864
             /\ k = 27 => 2^k = 134217728
             /\ k = 28 => 2^k = 268435456
             /\ k = 29 => 2^k = 536870912
             /\ k = 30 => 2^k = 1073741824
             /\ k = 31 => 2^k = 2147483648
             /\ k = 32 => 2^k = 4294967296
  <2>1. k = 3 => 2^k = 8
    OBVIOUS
  <2>2. k = 4 => 2^k = 16
    OBVIOUS
  <2>3. k = 5 => 2^k = 32
    OBVIOUS
  <2>4. k = 6 => 2^k = 64
    OBVIOUS
  <2>5. k = 7 => 2^k = 128
    OBVIOUS
  <2>6. k = 8 => 2^k = 256
    OBVIOUS
  <2>7. k = 9 => 2^k = 512
    OBVIOUS
  <2>8. k = 10 => 2^k = 1024
    OBVIOUS
  <2>9. k = 11 => 2^k = 2048
    OBVIOUS
  <2>10. k = 12 => 2^k = 4096
    OBVIOUS
  <2>11. k = 13 => 2^k = 8192
    OBVIOUS
  <2>12. k = 14 => 2^k = 16384
    OBVIOUS
  <2>13. k = 15 => 2^k = 32768
    OBVIOUS
  <2>14. k = 16 => 2^k = 65536
    OBVIOUS
  <2>15. k = 17 => 2^k = 131072
    OBVIOUS
  <2>16. k = 18 => 2^k = 262144
    OBVIOUS
  <2>17. k = 19 => 2^k = 524288
    OBVIOUS
  <2>18. k = 20 => 2^k = 1048576
    OBVIOUS
  <2>19. k = 21 => 2^k = 2097152
    OBVIOUS
  <2>20. k = 22 => 2^k = 4194304
    OBVIOUS
  <2>21. k = 23 => 2^k = 8388608
    OBVIOUS
  <2>22. k = 24 => 2^k = 16777216
    OBVIOUS
  <2>23. k = 25 => 2^k = 33554432
    OBVIOUS
  <2>24. k = 26 => 2^k = 67108864
    OBVIOUS
  <2>25. k = 27 => 2^k = 134217728
    OBVIOUS
  <2>26. k = 28 => 2^k = 268435456
    OBVIOUS
  <2>27. k = 29 => 2^k = 536870912
    OBVIOUS
  <2>28. k = 30 => 2^k = 1073741824
    OBVIOUS
  <2>29. k = 31 => 2^k = 2147483648
    OBVIOUS
  <2>30. k = 32 => 2^k = 4294967296
    OBVIOUS
  <2> QED BY <2>1, <2>2, <2>3, <2>4, <2>5, <2>6, <2>7, <2>8, <2>9, <2>10,
             <2>11, <2>12, <2>13, <2>14, <2>15, <2>16, <2>17, <2>18, <2>19, <2>20,
             <2>21, <2>22, <2>23, <2>24, <2>25, <2>26, <2>27, <2>28, <2>29, <2>30
<1>3. PICK j \in 4..32 : j = i + 1
  BY <1>1
<1>4. PICK h, g : h = 2^i /\ g = 2^j
  OBVIOUS
<1>5. h \in Nat /\ h >= 8 /\ h <= 2147483648 /\ g = 2 * h
  BY <1>2, <1>3, <1>4
<1> QED BY <1>1, <1>3, <1>4, <1>5

\* A conversion to int or char gives one.
LEMMA Conversions ==
  /\ IntType \subseteq Int /\ 0 \in IntType /\ 1 \in IntType
  /\ \A n \in Int : AsInt(n) \in IntType /\ Char(n) \in CharType
<1>1. PICK h \in Nat : h >= 8 /\ 2^(IntBits - 1) = h /\ 2^IntBits = 2 * h
  BY Width
<1>2. IntType = -h..(h - 1)
  BY <1>1 DEF IntType
<1>3. ASSUME NEW n \in Int
      PROVE  AsInt(n) \in IntType
  <2>1. AsInt(n) = ((n + h) % (2 * h)) - h
    BY <1>1 DEF AsInt, Wrap
  <2>2. (n + h) % (2 * h) \in 0..(2 * h - 1)
    BY <1>1
  <2>3. PICK r \in 0..(2 * h - 1) : r = (n + h) % (2 * h)
    BY <2>2
  <2> QED BY <1>2, <2>1, <2>3
<1>4. ASSUME NEW n \in Int
      PROVE  Char(n) \in CharType
  <2>1. 2^(8 - 1) = 128 /\ 2^8 = 256
    OBVIOUS
  <2>2. Char(n) = ((n + 128) % 256) - 128
    BY <2>1 DEF Char, Wrap
  <2> QED BY <2>2 DEF CharType
<1>5. -h..(h - 1) \subseteq Int /\ 0 \in -h..(h - 1) /\ 1 \in -h..(h - 1)
  BY <1>1
<1>6. IntType \subseteq Int /\ 0 \in IntType /\ 1 \in IntType
  BY <1>2, <1>5
<1>7. \A n \in Int : AsInt(n) \in IntType
  BY <1>3
<1>8. \A n \in Int : Char(n) \in CharType
  BY <1>4
<1> QED BY <1>6, <1>7, <1>8

\* Division by ten comes closer to zero.
LEMMA Quotients ==
  \A n \in Int : /\ Quot(n) \in Int /\ Rem(n) \in Int
                 /\ n > 0 => Quot(n) >= 0 /\ Quot(n) < n
                 /\ n < 0 => Quot(n) <= 0 /\ Quot(n) > n
  BY DEF Quot, Rem

\* The divisions end, so the two functions of digits are what their recursion says.
DigitsFollow(n) ==
  /\ DigitCount[n] = IF n = 0 THEN 0 ELSE 1 + DigitCount[Quot(n)]
  /\ Digits[n] = IF n = 0 THEN << >> ELSE Append(Digits[Quot(n)], Char(Zero + Rem(n)))

\* The recursion is well founded: an integer loses a digit at every step.
LEMMA DigitsDefined == \A n \in Int : DigitsFollow(n)
<1> DEFINE rank == [n \in Int |-> IF n < 0 THEN -n ELSE n]
           prev == [n \in Int |-> Quot(n)]
           more == [n \in Int |-> [x \in Nat |-> 1 + x]]
           next == [n \in Int |-> [x \in Seq(CharType) |-> Append(x, Char(Zero + Rem(n)))]]
           F(f) == f = [n \in Int |-> IF n = 0 THEN 0 ELSE 1 + f[Quot(n)]]
           G(f) == f = [n \in Int |-> IF n = 0 THEN << >>
                                      ELSE Append(f[Quot(n)], Char(Zero + Rem(n)))]
<1>1. rank \in [Int -> Nat] /\ prev \in [Int -> Int]
  BY Quotients
<1>2. \A n \in Int : rank[n] # 0 => rank[prev[n]] < rank[n]
  BY Quotients
<1>3. \A n \in Int : Char(Zero + Rem(n)) \in CharType
  BY Quotients, Conversions DEF Zero
<1>4. more \in [Int -> [Nat -> Nat]]
  OBVIOUS
<1>5. next \in [Int -> [Seq(CharType) -> Seq(CharType)]]
  <2>1. \A n \in Int, x \in Seq(CharType) : Append(x, Char(Zero + Rem(n))) \in Seq(CharType)
    BY <1>3, AppendProperties
  <2> QED BY <2>1
<1>6. << >> \in Seq(CharType) /\ 0 \in Nat
  OBVIOUS
<1>7. \A n \in Int : rank[n] = 0 <=> n = 0
  OBVIOUS
<1>8. \A n \in Int : prev[n] = Quot(n) /\ Quot(n) \in Int
  BY Quotients
<1>10. \E f \in [Int -> Nat] : F(f)
  <2>1. Descends(Int, Nat, rank, prev, 0, more)
    <3> HIDE DEF rank, prev, more
    <3> QED BY <1>1, <1>2, <1>4, <1>6 DEF Descends
  <2>2. PICK f \in [Int -> Nat] :
          \A n \in Int : f[n] = IF rank[n] = 0 THEN 0 ELSE more[n][f[prev[n]]]
    <3> HIDE DEF rank, prev, more
    <3>1. PICK Z, N : Z = Int /\ N = Nat
      OBVIOUS
    <3>2. Descends(Z, N, rank, prev, 0, more)
      BY <2>1, <3>1
    <3> QED BY <3>1, <3>2, RecursionByRank
  <2>3. \A n \in Int : f[n] = IF n = 0 THEN 0 ELSE 1 + f[Quot(n)]
    <3>1. \A n \in Int : f[n] = IF n = 0 THEN 0 ELSE more[n][f[Quot(n)]]
      <4> HIDE DEF rank, prev, more
      <4> QED BY <1>7, <1>8, <2>2
    <3>2. \A n \in Int : f[Quot(n)] \in Nat
      BY <1>8
    <3>3. \A n \in Int : \A x \in Nat : more[n][x] = 1 + x
      OBVIOUS
    <3> HIDE DEF more
    <3> QED BY <3>1, <3>2, <3>3
  <2>4. f = [n \in Int |-> f[n]] /\ f \in [Int -> Nat]
    OBVIOUS
  <2>5. F(f)
    BY <2>3, <2>4
  <2> QED BY <2>4, <2>5
<1>11. \E f \in [Int -> Seq(CharType)] : G(f)
  <2>1. Descends(Int, Seq(CharType), rank, prev, << >>, next)
    <3> HIDE DEF rank, prev, next
    <3> QED BY <1>1, <1>2, <1>5, <1>6 DEF Descends
  <2>2. PICK f \in [Int -> Seq(CharType)] :
          \A n \in Int : f[n] = IF rank[n] = 0 THEN << >> ELSE next[n][f[prev[n]]]
    <3> HIDE DEF rank, prev, next
    <3>1. PICK Z, S, e : Z = Int /\ S = Seq(CharType) /\ e = << >>
      OBVIOUS
    <3>2. Descends(Z, S, rank, prev, e, next)
      BY <2>1, <3>1
    <3>3. \E f \in [Z -> S] : \A n \in Z : f[n] = IF rank[n] = 0 THEN e ELSE next[n][f[prev[n]]]
      BY <3>2, RecursionByRank
    <3> QED BY <3>1, <3>3, SMTT(40)
  <2>3. \A n \in Int : f[n] = IF n = 0 THEN << >> ELSE Append(f[Quot(n)], Char(Zero + Rem(n)))
    <3>1. \A n \in Int : f[n] = IF n = 0 THEN << >> ELSE next[n][f[Quot(n)]]
      <4> HIDE DEF rank, prev, next
      <4> QED BY <1>7, <1>8, <2>2
    <3>2. \A n \in Int : f[Quot(n)] \in Seq(CharType)
      BY <1>8
    <3>3. \A n \in Int : \A x \in Seq(CharType) : next[n][x] = Append(x, Char(Zero + Rem(n)))
      OBVIOUS
    <3> HIDE DEF next
    <3> QED BY <3>1, <3>2, <3>3
  <2>4. f = [n \in Int |-> f[n]] /\ f \in [Int -> Seq(CharType)]
    OBVIOUS
  <2>5. G(f)
    BY <2>3, <2>4
  <2> QED BY <2>4, <2>5
<1>12. DigitCount = (CHOOSE f : F(f)) /\ Digits = (CHOOSE f : G(f))
  BY DEF DigitCount, Digits
<1> HIDE DEF F, G
<1>13. F(DigitCount) /\ G(Digits)
  BY <1>10, <1>11, <1>12
<1>14. \A n \in Int :
         /\ DigitCount[n] = IF n = 0 THEN 0 ELSE 1 + DigitCount[Quot(n)]
         /\ Digits[n] = IF n = 0 THEN << >> ELSE Append(Digits[Quot(n)], Char(Zero + Rem(n)))
  BY <1>13 DEF F, G
<1> QED BY <1>14 DEF DigitsFollow

\* What holds of an int if it holds of its quotient, or the int is 0, holds of all.
LEMMA DigitInduction ==
  ASSUME NEW G, 0 \in G, \A n \in Int : n # 0 /\ Quot(n) \in G => n \in G
  PROVE  \A n \in Int : n \in G
<1> DEFINE rank == [n \in Int |-> IF n < 0 THEN -n ELSE n]
           prev == [n \in Int |-> Quot(n)]
           step == [n \in Int |-> [x \in Nat |-> x]]
<1>1. rank \in [Int -> Nat] /\ prev \in [Int -> Int] /\ step \in [Int -> [Nat -> Nat]]
  BY Quotients
<1>2. \A n \in Int : /\ rank[n] # 0 => rank[prev[n]] < rank[n]
                     /\ rank[n] = 0 <=> n = 0
                     /\ prev[n] = Quot(n)
  BY Quotients
<1> HIDE DEF rank, prev, step
<1>3. Descends(Int, Nat, rank, prev, 0, step)
  BY <1>1, <1>2 DEF Descends
<1>4. PICK Z, N : Z = Int /\ N = Nat
  OBVIOUS
<1>5. Descends(Z, N, rank, prev, 0, step)
  BY <1>3, <1>4
<1>6. \A n \in Z : (rank[n] # 0 => prev[n] \in G) => n \in G
  BY <1>2, <1>4
<1>7. \A n \in Z : n \in G
  BY <1>5, <1>6, InductionByRank
<1> QED BY <1>4, <1>7

\* The digits that arg_size counts are those serialize_integer writes.
LEMMA DigitsCounted ==
  \A n \in Int : /\ DigitCount[n] \in Nat
                 /\ Digits[n] \in Seq(CharType)
                 /\ Len(Digits[n]) = DigitCount[n]
<1> DEFINE Good == {n \in Int : /\ DigitCount[n] \in Nat /\ Digits[n] \in Seq(CharType)
                                /\ Len(Digits[n]) = DigitCount[n]}
<1>1. 0 \in Good
  <2>1. DigitCount[0] = 0 /\ Digits[0] = << >>
    BY DigitsDefined DEF DigitsFollow
  <2>2. /\ DigitCount[0] \in Nat /\ Digits[0] \in Seq(CharType)
        /\ Len(Digits[0]) = DigitCount[0]
    BY <2>1
  <2> QED BY <2>2
<1>2. ASSUME NEW n \in Int, n # 0, Quot(n) \in Good
      PROVE  n \in Good
  <2>1. PICK k : k = Quot(n)
    OBVIOUS
  <2>2. /\ DigitCount[k] \in Nat /\ Digits[k] \in Seq(CharType)
        /\ Len(Digits[k]) = DigitCount[k]
    BY <1>2, <2>1
  <2>3. PICK ch \in CharType : ch = Char(Zero + Rem(n))
    BY Quotients, Conversions DEF Zero
  <2>4. DigitCount[n] = 1 + DigitCount[k] /\ Digits[n] = Append(Digits[k], ch)
    BY <1>2, <2>1, <2>3, DigitsDefined DEF DigitsFollow
  <2>5. Append(Digits[k], ch) \in Seq(CharType) /\ Len(Append(Digits[k], ch)) = Len(Digits[k]) + 1
    BY <2>2, <2>3, AppendProperties
  <2>6. /\ DigitCount[n] \in Nat /\ Digits[n] \in Seq(CharType)
        /\ Len(Digits[n]) = DigitCount[n]
    BY <2>2, <2>4, <2>5
  <2> QED BY <2>6
<1> HIDE DEF Good
<1>3. \A n \in Int : n \in Good
  BY <1>1, <1>2, DigitInduction
<1> QED BY <1>3 DEF Good

-----------------------------------------------------------------------------
(* What is written, and what was measured.                                 *)

\* The bytes that serialize_integer writes, and those that arg_size counts for an
\* argument.
Magnitude(n) == IF n < 0 THEN AsInt(-n) ELSE n
IntegerLength(n) ==
  1 + (IF n < 0 THEN 1 ELSE 0) + (IF n = 0 THEN 1 ELSE DigitCount[Magnitude(n)])
SizeOf(a) ==
  CASE a.typ = Void -> 1
    [] a.typ = Str  -> 2 + Len(a.data)
    [] a.typ = Int32 -> 2 + (IF a.data < 0 THEN 1 ELSE 0)
                          + (IF a.data = 0 THEN 1 ELSE DigitCount[Magnitude(a.data)])

\* The length of an integer is a number.
LEMMA IntegerLengths ==
  ASSUME NEW n \in Int
  PROVE  /\ Magnitude(n) \in Int /\ IntegerLength(n) \in Nat
         /\ DigitCount[Magnitude(n)] \in Nat
<1>1. Magnitude(n) \in Int
  <2>1. PICK m \in Int : m = -n
    OBVIOUS
  <2>2. AsInt(m) \in IntType /\ IntType \subseteq Int
    BY Conversions
  <2>3. AsInt(m) \in Int
    BY <2>2
  <2> QED BY <2>1, <2>3 DEF Magnitude
<1>2. PICK k \in Nat : k = DigitCount[Magnitude(n)]
  BY <1>1, DigitsCounted
<1> QED BY <1>1, <1>2 DEF IntegerLength

\* An integer is written with its length, its sign and its digits.
LEMMA IntegerWritten ==
  ASSUME NEW n \in Int
  PROVE  /\ SerializeInteger(n) \in Seq(CharType)
         /\ Len(SerializeInteger(n)) = IntegerLength(n)
<1>1. CASE n = 0
  <2>1. SerializeInteger(n) = <<1, Zero>> /\ IntegerLength(n) = 2
    BY <1>1 DEF SerializeInteger, IntegerLength
  <2>2. 1 \in CharType /\ Zero \in CharType
    BY DEF CharType, Zero
  <2>3. <<1, Zero>> \in Seq(CharType) /\ Len(<<1, Zero>>) = 2
    BY <2>2
  <2> QED BY <2>1, <2>3
<1>2. CASE n # 0
  <2>1. PICK i \in Int : i = Magnitude(n)
    BY IntegerLengths
  <2>2. PICK d \in Seq(CharType), k \in Nat : d = Digits[i] /\ Len(d) = k /\ k = DigitCount[i]
    BY <2>1, DigitsCounted
  <2>3. PICK sign : sign = IF n < 0 THEN <<Minus>> ELSE << >>
    OBVIOUS
  <2>4. sign \in Seq(CharType) /\ Len(sign) = IF n < 0 THEN 1 ELSE 0
    <3>1. Minus \in CharType
      BY DEF CharType, Minus
    <3>2. CASE n < 0
      BY <2>3, <3>1, <3>2
    <3>3. CASE ~(n < 0)
      BY <2>3, <3>3
    <3> QED BY <3>2, <3>3
  <2>5. PICK text : text = sign \o d
    OBVIOUS
  <2>6. text \in Seq(CharType) /\ Len(text) = Len(sign) + k
    BY <2>2, <2>4, <2>5, ConcatProperties, SMTT(40)
  <2>7. PICK length \in CharType : length = Char(Len(text))
    <3>1. Len(text) \in Int
      BY <2>6, LenProperties
    <3> QED BY <3>1, Conversions
  <2>8. SerializeInteger(n) = <<length>> \o text
    BY <1>2, <2>1, <2>2, <2>3, <2>5, <2>7 DEF SerializeInteger, Magnitude
  <2>9. <<length>> \in Seq(CharType) /\ Len(<<length>>) = 1
    OBVIOUS
  <2>10. <<length>> \o text \in Seq(CharType) /\ Len(<<length>> \o text) = 1 + Len(text)
    BY <2>6, <2>9, ConcatProperties
  <2>11. IntegerLength(n) = 1 + (IF n < 0 THEN 1 ELSE 0) + k
    BY <1>2, <2>1, <2>2 DEF IntegerLength
  <2> QED BY <2>4, <2>6, <2>8, <2>10, <2>11
<1> QED BY <1>1, <1>2

\* An argument is written with as many bytes as were counted for it.
LEMMA ArgumentWritten ==
  ASSUME NEW a \in ArgType
  PROVE  /\ SerializeArg(a) \in Seq(CharType)
         /\ SizeOf(a) \in Nat /\ Len(SerializeArg(a)) = SizeOf(a)
         /\ SizeOf(a) >= 1 /\ SerializeArg(a)[1] = a.typ
<1>1. /\ Void = 0 /\ Int32 = 1 /\ Str = 2
      /\ Void \in CharType /\ Int32 \in CharType /\ Str \in CharType
  BY DEF Void, Int32, Str, CharType
<1>2. CASE a.typ = Void
  <2>1. SerializeArg(a) = <<Void>> /\ SizeOf(a) = 1
    BY <1>1, <1>2 DEF SerializeArg, SizeOf
  <2> QED BY <1>1, <1>2, <2>1
<1>3. CASE a.typ = Int32
  <2>1. PICK n \in Int : n = a.data
    <3>1. a.data \in IntType
      BY <1>1, <1>3 DEF ArgType
    <3>2. IntType \subseteq Int
      BY Conversions
    <3> QED BY <3>1, <3>2
  <2>2. PICK s \in Seq(CharType), k \in Nat :
          s = SerializeInteger(n) /\ Len(s) = k /\ SizeOf(a) = 1 + k
    <3>1. PICK d \in Nat : d = DigitCount[Magnitude(n)]
      BY IntegerLengths
    <3>2. SizeOf(a) = 2 + (IF n < 0 THEN 1 ELSE 0) + (IF n = 0 THEN 1 ELSE d)
      BY <1>1, <1>3, <2>1, <3>1 DEF SizeOf
    <3>3. IntegerLength(n) = 1 + (IF n < 0 THEN 1 ELSE 0) + (IF n = 0 THEN 1 ELSE d)
      BY <3>1 DEF IntegerLength
    <3>4. PICK s : s = SerializeInteger(n)
      OBVIOUS
    <3>5. s \in Seq(CharType) /\ Len(s) = IntegerLength(n) /\ IntegerLength(n) \in Nat
      BY <3>4, IntegerWritten, IntegerLengths
    <3>6. SizeOf(a) = 1 + IntegerLength(n)
      BY <3>1, <3>2, <3>3
    <3> QED BY <3>4, <3>5, <3>6
  <2>3. SerializeArg(a) = <<Int32>> \o s
    BY <1>1, <1>3, <2>1, <2>2 DEF SerializeArg
  <2>4. <<Int32>> \in Seq(CharType) /\ Len(<<Int32>>) = 1
    BY <1>1
  <2>5. /\ <<Int32>> \o s \in Seq(CharType) /\ Len(<<Int32>> \o s) = 1 + Len(s)
        /\ (<<Int32>> \o s)[1] = Int32
    BY <2>2, <2>4, ConcatProperties
  <2> QED BY <1>3, <2>2, <2>3, <2>5
<1>4. CASE a.typ = Str
  <2>1. PICK s \in Seq(CharType), n \in Nat : s = a.data /\ n = Len(s)
    <3>1. a.data \in Seq(CharType \ {0})
      BY <1>1, <1>4 DEF ArgType, StringType
    <3>2. a.data \in Seq(CharType)
      BY <3>1
    <3> QED BY <3>2, LenProperties
  <2>2. PICK head : head = <<Str, Char(n)>>
    OBVIOUS
  <2>3. head \in Seq(CharType) /\ Len(head) = 2 /\ head[1] = Str
    <3>1. PICK c \in CharType : c = Char(n)
      BY Conversions
    <3>2. <<Str, c>> \in Seq(CharType) /\ Len(<<Str, c>>) = 2 /\ <<Str, c>>[1] = Str
      BY <1>1
    <3> QED BY <2>2, <3>1, <3>2
  <2>4. SerializeArg(a) = head \o s /\ SizeOf(a) = 2 + n
    BY <1>1, <1>4, <2>1, <2>2 DEF SerializeArg, SizeOf
  <2>5. head \o s \in Seq(CharType) /\ Len(head \o s) = 2 + n /\ (head \o s)[1] = Str
    <3>1. /\ head \o s \in Seq(CharType) /\ Len(head \o s) = Len(head) + Len(s)
          /\ \A i \in 1..(Len(head) + Len(s)) :
               (head \o s)[i] = IF i <= Len(head) THEN head[i] ELSE s[i - Len(head)]
      BY <2>1, <2>3, ConcatProperties
    <3> QED BY <2>1, <2>3, <3>1
  <2> QED BY <1>4, <2>1, <2>4, <2>5
<1> QED BY <1>1, <1>2, <1>3, <1>4 DEF ArgType

\* What arg_size adds up.
LEMMA ArgSizeRun ==
  ASSUME NEW args \in Seq(ArgType)
  PROVE  \E h \in [0..Len(args) -> Nat] :
           /\ h[0] = 0 /\ h[Len(args)] = ArgSize(args)
           /\ \A k \in 1..Len(args) : h[k] = h[k - 1] + SizeOf(args[k])
<1>1. PICK n \in Nat : n = Len(args) /\ DOMAIN args = 1..n
  BY LenProperties
<1> DEFINE D == 1..n
           w == [i \in D |-> SizeOf(args[i])]
           F(f) == f = [t \in SUBSET D |->
                          IF t = {} THEN 0 ELSE f[t \ {Max(t)}] + SizeOf(args[Max(t)])]
<1>2. \A i \in D : args[i] \in ArgType /\ SizeOf(args[i]) \in Nat
  <2>1. \A i \in D : args[i] \in ArgType
    BY <1>1, ElementOfSeq
  <2> QED BY <2>1, ArgumentWritten
<1>3. w \in [D -> Nat] /\ w \in [D -> Int]
  BY <1>2
<1>4. \A t \in SUBSET D : t # {} => w[Max(t)] = SizeOf(args[Max(t)])
  BY GreatestPlace
<1>5. \A f : (IsSum(f, n, w) => F(f)) /\ (F(f) => IsSum(f, n, w))
  BY <1>4 DEF IsSum
<1>6. \E f : IsSum(f, n, w)
  BY <1>3, SumExists
<1>7. ArgSize(args) = (CHOOSE f : F(f))[D]
  BY <1>1 DEF ArgSize, FoldLeft, MapThenFoldSet, SizeOf, Magnitude
<1> HIDE DEF F, w
<1>8. F(CHOOSE f : F(f))
  BY <1>5, <1>6
<1>9. PICK f : IsSum(f, n, w) /\ ArgSize(args) = f[1..n]
  BY <1>5, <1>7, <1>8
<1>10. PICK h \in [0..n -> Nat] :
         h[0] = 0 /\ h[n] = f[1..n] /\ \A k \in 1..n : h[k] = h[k - 1] + w[k]
  BY <1>3, <1>9, SumRun
<1>11. \A k \in 1..n : w[k] = SizeOf(args[k])
  BY DEF w
<1> QED BY <1>1, <1>9, <1>10, <1>11

\* The bytes of a message argument by argument: after k of them they are g[k], which is as
\* many as the h[k] that arg_size has counted then.
MessageRuns(m, g, h) ==
  /\ g \in [0..Len(m.argv) -> Seq(CharType)] /\ h \in [0..Len(m.argv) -> Nat]
  /\ g[0] = << >> /\ g[Len(m.argv)] = SerializeMessage(m).bytes
  /\ h[0] = 0 /\ h[Len(m.argv)] = SerializeMessage(m).size
  /\ \A k \in 1..Len(m.argv) : /\ g[k] = g[k - 1] \o SerializeArg(m.argv[k])
                               /\ h[k] = h[k - 1] + SizeOf(m.argv[k])
  /\ \A k \in 0..Len(m.argv) : Len(g[k]) = h[k]

\* Such runs exist for every message.
LEMMA MessageRun ==
  ASSUME NEW m \in MessageType
  PROVE  \E g, h : MessageRuns(m, g, h)
<1>1. m.command \in STRING /\ m.return_type \in TypeCodes /\ m.argv \in Seq(ArgType)
  BY DEF MessageType
<1>2. PICK n \in Nat : n = Len(m.argv) /\ DOMAIN m.argv = 1..n
  BY <1>1, LenProperties
<1> DEFINE q == [i \in 1..n |-> SerializeArg(m.argv[i])]
<1>3. \A i \in 1..n : m.argv[i] \in ArgType
  BY <1>1, <1>2, ElementOfSeq
<1>4. \A i \in 1..n : /\ q[i] \in Seq(CharType)
                      /\ SizeOf(m.argv[i]) \in Nat /\ Len(q[i]) = SizeOf(m.argv[i])
  BY <1>3, ArgumentWritten
<1>5. q \in [1..n -> Seq(CharType)]
  BY <1>4
<1>6. SerializeMessage(m) =
        [command |-> m.command, return_type |-> m.return_type, argc |-> n,
         size |-> ArgSize(m.argv), bytes |-> FlattenSeq(q)]
  BY <1>2 DEF SerializeMessage
<1> HIDE DEF q
<1>7. PICK g \in [0..n -> Seq(CharType)] :
        /\ g[0] = << >> /\ g[n] = FlattenSeq(q)
        /\ \A k \in 1..n : g[k] = g[k - 1] \o q[k]
  <2>1. PICK S : S = CharType
    OBVIOUS
  <2>2. q \in [1..n -> Seq(S)]
    BY <1>5, <2>1
  <2>3. \E g : PutTogether(S, n, q, g)
    BY <2>2, FlattenRun
  <2> QED BY <2>1, <2>3 DEF PutTogether
<1>8. PICK h \in [0..n -> Nat] :
        /\ h[0] = 0 /\ h[n] = ArgSize(m.argv)
        /\ \A k \in 1..n : h[k] = h[k - 1] + SizeOf(m.argv[k])
  BY <1>1, <1>2, ArgSizeRun
<1>9. \A k \in 0..n : Len(g[k]) = h[k]
  <2> DEFINE G == {k \in 0..n : Len(g[k]) = h[k]}
  <2>1. 0 \in G
    <3>1. Len(g[0]) = h[0] /\ 0 \in 0..n
      BY <1>7, <1>8
    <3> QED BY <3>1
  <2>2. ASSUME NEW k \in 1..n, k - 1 \in G
        PROVE  k \in G
    <3>1. Len(g[k - 1]) = h[k - 1] /\ k - 1 \in 0..n /\ k \in 0..n
      BY <2>2
    <3>2. PICK u, v : u = g[k - 1] /\ v = q[k]
      OBVIOUS
    <3>3. u \in Seq(CharType) /\ v \in Seq(CharType) /\ g[k] = u \o v
      BY <1>4, <1>7, <3>1, <3>2
    <3>4. Len(g[k]) = Len(u) + Len(v)
      BY <3>3, ConcatProperties
    <3>5. Len(g[k]) = h[k]
      BY <1>4, <1>8, <3>1, <3>2, <3>4
    <3> QED BY <3>1, <3>5
  <2> HIDE DEF G
  <2>3. \A k \in 0..n : k \in G
    BY <2>1, <2>2, UpTo
  <2> QED BY <2>3 DEF G
<1>10. \A k \in 1..n : g[k] = g[k - 1] \o SerializeArg(m.argv[k])
  BY <1>7 DEF q
<1>11. SerializeMessage(m).bytes = g[n] /\ SerializeMessage(m).size = h[n]
  BY <1>6, <1>7, <1>8
<1>12. MessageRuns(m, g, h)
  BY <1>2, <1>7, <1>8, <1>9, <1>10, <1>11 DEF MessageRuns
<1> QED BY <1>12

\* The bytes of a message are as many as its frame announces.
LEMMA MessageWritten ==
  ASSUME NEW m \in MessageType
  PROVE  /\ SerializeMessage(m) \in [command : STRING, return_type : TypeCodes, argc : Nat,
                                     size : Nat, bytes : Seq(CharType)]
         /\ SerializeMessage(m).size = Len(SerializeMessage(m).bytes)
<1>1. m.command \in STRING /\ m.return_type \in TypeCodes /\ m.argv \in Seq(ArgType)
  BY DEF MessageType
<1>2. PICK n \in Nat : n = Len(m.argv)
  BY <1>1, LenProperties
<1>3. PICK g, h : MessageRuns(m, g, h)
  BY MessageRun
<1>4. PICK size \in Nat, bytes \in Seq(CharType) :
        /\ size = SerializeMessage(m).size /\ bytes = SerializeMessage(m).bytes
        /\ size = Len(bytes)
  BY <1>2, <1>3 DEF MessageRuns
<1>5. SerializeMessage(m) = [command |-> m.command, return_type |-> m.return_type, argc |-> n,
                             size |-> size, bytes |-> bytes]
  BY <1>2, <1>4 DEF SerializeMessage
<1> QED BY <1>1, <1>4, <1>5

\* So are those of an answer.
LEMMA AnswerWritten ==
  ASSUME NEW a \in AnswerType
  PROVE  /\ SerializeAnswer(a.status, a.arg) \in [size : Nat, bytes : Seq(CharType)]
         /\ SerializeAnswer(a.status, a.arg).size = Len(SerializeAnswer(a.status, a.arg).bytes)
         /\ SerializeAnswer(a.status, a.arg).bytes[1] = a.status
         /\ SerializeAnswer(a.status, a.arg).size >= 1
         /\ a.status = OK => /\ SerializeAnswer(a.status, a.arg).size >= 2
                             /\ SerializeAnswer(a.status, a.arg).bytes[2] = a.arg.typ
<1>1. OK = 0 /\ Statuses \subseteq CharType /\ a.status \in Statuses
  BY DEF OK, Statuses, CharType, AnswerType
<1>2. CASE a.status # OK
  <2>1. SerializeAnswer(a.status, a.arg) = [size |-> 1, bytes |-> <<a.status>>]
    BY <1>2 DEF SerializeAnswer
  <2>2. <<a.status>> \in Seq(CharType) /\ Len(<<a.status>>) = 1 /\ <<a.status>>[1] = a.status
    BY <1>1
  <2> QED BY <1>2, <2>1, <2>2
<1>3. CASE a.status = OK
  <2>1. PICK r \in ArgType : r = a.arg
    BY <1>3 DEF AnswerType
  <2>2. PICK s \in Seq(CharType), k \in Nat : /\ s = SerializeArg(r) /\ Len(s) = k /\ k = SizeOf(r)
                                           /\ k >= 1 /\ s[1] = r.typ
    BY ArgumentWritten
  <2>3. ArgSize(<<r>>) = k
    <3>0. PICK args : args = <<r>>
      OBVIOUS
    <3>1. args \in Seq(ArgType) /\ args = <<r>> /\ Len(args) = 1 /\ args[1] = r
      BY <3>0
    <3>2. PICK h \in [0..1 -> Nat] :
            h[0] = 0 /\ h[1] = ArgSize(args) /\ \A i \in 1..1 : h[i] = h[i - 1] + SizeOf(args[i])
      BY <3>1, ArgSizeRun
    <3>3. h[1] = h[1 - 1] + SizeOf(args[1]) /\ 1 - 1 = 0
      BY <3>2
    <3> QED BY <2>2, <3>1, <3>2, <3>3
  <2>4. SerializeAnswer(a.status, a.arg) = [size |-> 1 + k, bytes |-> <<a.status>> \o s]
    BY <1>3, <2>1, <2>2, <2>3 DEF SerializeAnswer
  <2>5. <<a.status>> \in Seq(CharType) /\ Len(<<a.status>>) = 1 /\ <<a.status>>[1] = a.status
    BY <1>1
  <2>6. /\ <<a.status>> \o s \in Seq(CharType) /\ Len(<<a.status>> \o s) = 1 + k
        /\ (<<a.status>> \o s)[1] = a.status /\ (<<a.status>> \o s)[2] = r.typ
    BY <2>2, <2>5, ConcatProperties
  <2> QED BY <2>1, <2>2, <2>4, <2>6
<1> QED BY <1>2, <1>3

-----------------------------------------------------------------------------
(* What is read, from a memory that is long enough, whatever it holds.     *)

\* The bytes from place i to place j.
LEMMA Piece ==
  ASSUME NEW b \in Seq(CharType), NEW i \in Nat \ {0}, NEW j \in Int, j <= Len(b)
  PROVE  /\ SubSeq(b, i, j) \in Seq(CharType)
         /\ Len(SubSeq(b, i, j)) = IF i <= j THEN j - i + 1 ELSE 0
         /\ \A k \in 1..(j - i + 1) : SubSeq(b, i, j)[k] = b[i + k - 1]
<1>1. PICK n \in Nat : n = Len(b)
  BY LenProperties
<1>2. \A k \in i..j : b[k] \in CharType
  <2> SUFFICES ASSUME NEW k \in i..j
               PROVE  b[k] \in CharType
    OBVIOUS
  <2>1. k \in 1..n
    BY <1>1
  <2> QED BY <1>1, <2>1, ElementOfSeq
<1>3. i \in Int
  OBVIOUS
<1>4. PICK S : S = CharType
  OBVIOUS
<1>5. /\ SubSeq(b, i, j) \in Seq(S)
      /\ Len(SubSeq(b, i, j)) = IF i <= j THEN j - i + 1 ELSE 0
      /\ \A k \in 1..(j - i + 1) : SubSeq(b, i, j)[k] = b[i + k - 1]
  BY <1>2, <1>3, <1>4, SubSeqProperties
<1> QED BY <1>4, <1>5

\* A string ends before the first NUL.
LEMMA StringRead ==
  ASSUME NEW b \in Seq(CharType)
  PROVE  CString(b) \in StringType /\ Len(CString(b)) <= Len(b)
<1>1. PICK n \in Nat : n = Len(b) /\ DOMAIN b = 1..n
  BY LenProperties
<1>2. \A i \in 1..n : b[i] \in CharType
  BY <1>1, ElementOfSeq
<1> DEFINE I == {i \in 1..n : b[i] = 0}
<1>3. CString(b) = IF (IF I # {} THEN Min(I) ELSE 0) = 0 THEN b
                   ELSE SubSeq(b, 1, (IF I # {} THEN Min(I) ELSE 0) - 1)
  BY <1>1 DEF CString, SelectInSeq
<1>4. PICK S : S = CharType \ {0}
  OBVIOUS
<1>5. CASE I = {}
  <2>1. CString(b) = b
    BY <1>3, <1>5
  <2>2. \A i \in 1..n : b[i] \in S
    BY <1>2, <1>4, <1>5
  <2>3. b = [i \in 1..n |-> b[i]]
    BY <1>1
  <2>4. [i \in 1..n |-> b[i]] \in Seq(S)
    BY <2>2, IsASeq
  <2>5. b \in StringType
    BY <1>4, <2>3, <2>4 DEF StringType
  <2>6. Len(b) <= Len(b)
    BY <1>1
  <2> QED BY <2>1, <2>5, <2>6
<1>6. CASE I # {}
  <2>1. PICK z \in I : z = Min(I) /\ \A i \in I : z <= i
    <3>1. I \in SUBSET Nat
      OBVIOUS
    <3> HIDE DEF I
    <3> QED BY <1>6, <3>1, LeastPlace
  <2>2. z \in 1..n /\ z # 0
    OBVIOUS
  <2>3. CString(b) = SubSeq(b, 1, z - 1)
    <3> HIDE DEF I
    <3> QED BY <1>3, <1>6, <2>1, <2>2
  <2>4. \A i \in 1..(z - 1) : b[i] \in S
    <3> SUFFICES ASSUME NEW i \in 1..(z - 1)
                 PROVE  b[i] \in S
      OBVIOUS
    <3>1. i \in 1..n /\ ~(z <= i)
      BY <2>2
    <3>2. i \notin I
      <4> HIDE DEF I
      <4> QED BY <2>1, <3>1
    <3> QED BY <1>2, <1>4, <3>1, <3>2
  <2>5. PICK m \in Nat : m = z - 1 /\ m <= n
    BY <2>2
  <2>6. /\ SubSeq(b, 1, m) \in Seq(S)
        /\ Len(SubSeq(b, 1, m)) = IF 1 <= m THEN m - 1 + 1 ELSE 0
    BY <2>4, <2>5, SubSeqProperties
  <2>7. Len(SubSeq(b, 1, m)) <= n
    BY <2>5, <2>6
  <2> QED BY <1>1, <1>4, <2>3, <2>5, <2>6, <2>7 DEF StringType
<1> QED BY <1>5, <1>6

\* What deserialize_integer adds up from digits, or from other bytes, is an int.
Value(s) == FoldLeft(LAMBDA acc, ch : AsInt(acc * 10 + ch - Zero), 0, s)

ValueRuns(h, s) ==
  /\ h \in [0..Len(s) -> IntType] /\ h[0] = 0 /\ h[Len(s)] = Value(s)
  /\ \A k \in 1..Len(s) : h[k] = AsInt(h[k - 1] * 10 + s[k] - Zero)

\* Such a run exists for every text.
LEMMA ValueRun ==
  ASSUME NEW s \in Seq(CharType)
  PROVE  \E h : ValueRuns(h, s)
<1>1. PICK n \in Nat : n = Len(s) /\ DOMAIN s = 1..n
  BY LenProperties
<1>2. \A i \in 1..n : s[i] \in CharType
  BY <1>1, ElementOfSeq
<1> DEFINE D == 1..n
           step == [i \in D |-> [x \in IntType |-> AsInt(x * 10 + s[i] - Zero)]]
           F(f) == f = [t \in SUBSET D |->
                          IF t = {} THEN 0
                          ELSE AsInt(f[t \ {Max(t)}] * 10 + s[Max(t)] - Zero)]
<1>3. ASSUME NEW x \in IntType, NEW i \in D
      PROVE  AsInt(x * 10 + s[i] - Zero) \in IntType
  <2>1. PICK y \in Int : y = x
    BY Conversions
  <2>2. PICK c \in -128..127 : c = s[i]
    BY <1>2 DEF CharType
  <2>3. y * 10 + c - Zero \in Int
    BY DEF Zero
  <2>4. AsInt(y * 10 + c - Zero) \in IntType
    BY <2>3, Conversions
  <2> QED BY <2>1, <2>2, <2>4
<1>4. step \in [D -> [IntType -> IntType]] /\ 0 \in IntType
  BY <1>3, Conversions
<1>5. PICK f \in [SUBSET D -> IntType] : IsFold(f, n, 0, step)
  <2>1. PICK T : T = IntType
    OBVIOUS
  <2>2. step \in [D -> [T -> T]] /\ 0 \in T
    BY <1>4, <2>1
  <2> HIDE DEF step
  <2>3. \E f \in [SUBSET D -> T] : IsFold(f, n, 0, step)
    BY <2>2, FoldExists
  <2> QED BY <2>1, <2>3
<1>6. F(f)
  <2>1. \A t \in SUBSET D : t # {} =>
          step[Max(t)][f[t \ {Max(t)}]] = AsInt(f[t \ {Max(t)}] * 10 + s[Max(t)] - Zero)
    <3> SUFFICES ASSUME NEW t \in SUBSET D, t # {}
                 PROVE  step[Max(t)][f[t \ {Max(t)}]]
                          = AsInt(f[t \ {Max(t)}] * 10 + s[Max(t)] - Zero)
      OBVIOUS
    <3>1. Max(t) \in D
      BY GreatestPlace
    <3>2. f[t \ {Max(t)}] \in IntType
      OBVIOUS
    <3> QED BY <3>1, <3>2
  <2> HIDE DEF step
  <2> QED BY <1>5, <2>1 DEF IsFold
<1>7. Value(s) = (CHOOSE g : F(g))[D]
  BY <1>1 DEF Value, FoldLeft, MapThenFoldSet
<1> DEFINE g == CHOOSE h : F(h)
<1> HIDE DEF F
<1>8. F(g)
  BY <1>6
<1> HIDE DEF g
<1>9. \A k \in 1..n : g[1..k] = AsInt(g[1..(k - 1)] * 10 + s[k] - Zero)
  BY <1>8, FirstNumbers DEF F
<1>10. g[1..0] = 0
  BY <1>8, FirstNumbers DEF F
<1> DEFINE G == {k \in 0..n : g[1..k] \in IntType}
<1>11. 0 \in G
  BY <1>4, <1>10
<1>12. \A k \in 1..n : k - 1 \in G => k \in G
  <2> SUFFICES ASSUME NEW k \in 1..n, k - 1 \in G
               PROVE  k \in G
    OBVIOUS
  <2>1. PICK x \in IntType : x = g[1..(k - 1)]
    OBVIOUS
  <2>2. g[1..k] \in IntType
    BY <1>3, <1>9, <2>1
  <2> QED BY <2>2
<1> HIDE DEF G
<1>13. \A k \in 0..n : k \in G
  BY <1>11, <1>12, UpTo
<1>14. PICK h : h = [k \in 0..n |-> g[1..k]]
  OBVIOUS
<1>15. h \in [0..n -> IntType]
  BY <1>13, <1>14 DEF G
<1>16. h[0] = 0 /\ h[n] = Value(s)
  BY <1>7, <1>10, <1>14 DEF g
<1>17. \A k \in 1..n : h[k] = AsInt(h[k - 1] * 10 + s[k] - Zero)
  <2> SUFFICES ASSUME NEW k \in 1..n
               PROVE  h[k] = AsInt(h[k - 1] * 10 + s[k] - Zero)
    OBVIOUS
  <2>1. h[k] = g[1..k] /\ h[k - 1] = g[1..(k - 1)]
    BY <1>14
  <2> QED BY <1>9, <2>1
<1> QED BY <1>1, <1>15, <1>16, <1>17 DEF ValueRuns

\* What is read is an int.
LEMMA ValueRead ==
  ASSUME NEW s \in Seq(CharType)
  PROVE  Value(s) \in IntType
<1>1. PICK h : ValueRuns(h, s)
  BY ValueRun
<1>2. PICK n \in Nat : n = Len(s)
  BY LenProperties
<1> QED BY <1>1, <1>2 DEF ValueRuns

\* An integer is read from 128 bytes at most.
LEMMA IntegerRead ==
  ASSUME NEW b \in Seq(CharType), Len(b) >= 128
  PROVE  /\ DeserializeInteger(b).data \in IntType
         /\ DeserializeInteger(b).next \in 1..128
<1>1. b[1] \in CharType /\ b[2] \in CharType
  <2>1. 1 \in 1..Len(b) /\ 2 \in 1..Len(b)
    BY LenProperties
  <2> QED BY <2>1, ElementOfSeq
<1>2. PICK l \in -128..127 : l = b[1]
  BY <1>1 DEF CharType
<1>3. PICK from \in {1, 2} : from = IF b[2] = Minus THEN 2 ELSE 1
  OBVIOUS
<1>4. SubSeq(b, from + 1, l + 1) \in Seq(CharType)
  <2>1. Len(b) \in Nat
    BY LenProperties
  <2>2. from + 1 \in Nat \ {0} /\ l + 1 \in Int /\ l + 1 <= Len(b)
    BY <2>1
  <2> QED BY <2>2, Piece
<1>5. PICK res \in IntType : res = Value(SubSeq(b, from + 1, l + 1))
  BY <1>4, ValueRead
<1>6. DeserializeInteger(b) = [data |-> IF b[2] = Minus THEN AsInt(-res) ELSE res,
                               next |-> Max({l + 1, from})]
  BY <1>2, <1>3, <1>5 DEF DeserializeInteger, Value
<1>7. AsInt(-res) \in IntType
  <2>1. res \in Int
    BY Conversions
  <2>2. -res \in Int
    BY <2>1
  <2> QED BY <2>2, Conversions
<1>8. Max({l + 1, from}) \in 1..128
  <2>1. \E x \in {l + 1, from} : \A y \in {l + 1, from} : x >= y
    OBVIOUS
  <2>2. PICK x \in {l + 1, from} : x = Max({l + 1, from}) /\ \A y \in {l + 1, from} : x >= y
    BY <2>1 DEF Max
  <2>3. x >= from
    BY <2>2
  <2>4. x \in 1..128
    BY <2>3
  <2> QED BY <2>2, <2>4
<1> QED BY <1>6, <1>7, <1>8

\* An argument that is read is one, and takes 129 bytes at most.
LEMMA ArgumentRead ==
  ASSUME NEW b \in Seq(CharType), Len(b) >= 129
  PROVE  /\ DeserializeArg(b).ok \in BOOLEAN
         /\ DeserializeArg(b).ok =>
              /\ DeserializeArg(b).arg \in ArgType /\ DeserializeArg(b).next \in 1..129
              /\ OctetHolds(DeserializeArg(b).arg)
<1>1. PICK n \in Nat : n = Len(b) /\ n >= 129
  BY LenProperties
<1>2. b[1] \in CharType /\ b[2] \in CharType
  <2>1. 1 \in 1..Len(b) /\ 2 \in 1..Len(b)
    BY <1>1
  <2> QED BY <2>1, ElementOfSeq
<1>3. CASE b[1] = Void
  <2>1. DeserializeArg(b) = [ok |-> TRUE, arg |-> [typ |-> Void, data |-> NULL], next |-> 1]
    BY <1>3 DEF DeserializeArg, Void, Int32, Str
  <2> QED BY <2>1 DEF ArgType, OctetHolds, Void, Str
<1>4. CASE b[1] = Int32
  <2>1. PICK t : t = Tail(b)
    OBVIOUS
  <2>2. t \in Seq(CharType) /\ Len(t) >= 128
    <3>1. b # << >>
      BY <1>1
    <3>2. t \in Seq(CharType) /\ Len(t) = n - 1
      BY <1>1, <2>1, <3>1, HeadTailProperties
    <3> QED BY <1>1, <3>2
  <2>3. PICK d \in IntType, k \in 1..128 :
          d = DeserializeInteger(t).data /\ k = DeserializeInteger(t).next
    BY <2>2, IntegerRead
  <2>4. DeserializeArg(b) =
          [ok |-> TRUE, arg |-> [typ |-> Int32, data |-> d], next |-> 1 + k]
    BY <1>4, <2>1, <2>3 DEF DeserializeArg, Void, Int32, Str
  <2>5. [typ |-> Int32, data |-> d] \in ArgType
    BY DEF ArgType
  <2>6. 1 + k \in 1..129
    OBVIOUS
  <2> QED BY <2>4, <2>5, <2>6 DEF OctetHolds, Int32, Str
<1>5. CASE b[1] = Str /\ b[2] >= 0
  <2>1. PICK l \in 0..127 : l = b[2]
    <3>1. PICK l \in -128..127 : l = b[2]
      BY <1>2 DEF CharType
    <3>2. l >= 0
      BY <1>5, <3>1
    <3>3. l \in 0..127
      BY <3>2
    <3> QED BY <3>1, <3>3
  <2>2. PICK p \in Seq(CharType) : p = SubSeq(b, 3, 2 + l) /\ Len(p) = l
    <3>1. 3 \in Nat \ {0} /\ 2 + l \in Int /\ 2 + l <= Len(b)
      BY <1>1
    <3>2. Len(SubSeq(b, 3, 2 + l)) = IF 3 <= 2 + l THEN 2 + l - 3 + 1 ELSE 0
      BY <3>1, Piece
    <3>3. Len(SubSeq(b, 3, 2 + l)) = l
      BY <3>2
    <3> QED BY <3>1, <3>3, Piece
  <2>3. PICK s \in StringType : s = CString(SubSeq(b, 3, 2 + l)) /\ Len(s) <= l
    BY <2>2, StringRead
  <2>4. DeserializeArg(b) = [ok |-> TRUE, arg |-> [typ |-> Str, data |-> s], next |-> 2 + l]
    BY <1>5, <2>1, <2>3 DEF DeserializeArg, Void, Int32, Str
  <2>5. [typ |-> Str, data |-> s] \in ArgType
    BY DEF ArgType
  <2>6. Len(s) <= 127
    <3>1. PICK n2 \in Nat : n2 = Len(s)
      BY LenProperties DEF StringType
    <3> QED BY <2>3, <3>1
  <2>7. OctetHolds([typ |-> Str, data |-> s])
    BY <2>6 DEF OctetHolds
  <2> QED BY <2>4, <2>5, <2>7
<1>6. CASE b[1] # Void /\ b[1] # Int32 /\ ~(b[1] = Str /\ b[2] >= 0)
  <2>1. DeserializeArg(b) = [ok |-> FALSE]
    BY <1>6 DEF DeserializeArg
  <2> QED BY <2>1
<1> QED BY <1>3, <1>4, <1>5, <1>6

\* What deserialize_message knows after one more argument, x being what it knew before.
NextArg(b, x) ==
  IF x = NULL THEN NULL
  ELSE LET d == DeserializeArg(SubSeq(b, x.next + 1, Len(b)))
       IN IF d.ok THEN [argv |-> Append(x.argv, d.arg), next |-> x.next + d.next] ELSE NULL

\* What it may know after k arguments, whose strings have the length of an octet.
Short(args, k) == \A i \in 1..k : OctetHolds(args[i])
ReadType == [argv : Seq(ArgType), next : Nat] \cup {NULL}
ReadAfter(k) == {x \in ReadType : x # NULL =>
                   x.next <= 129 * k /\ Len(x.argv) = k /\ Short(x.argv, k)}

\* One more argument leaves it in its type, and at its place.
LEMMA NextArgumentRead ==
  ASSUME NEW b \in Seq(CharType), NEW k \in Nat, Len(b) >= 129 * (k + 1),
         NEW x \in ReadType, x # NULL => x.next <= 129 * k
  PROVE  /\ NextArg(b, x) \in ReadType
         /\ x \in ReadAfter(k) => NextArg(b, x) \in ReadAfter(k + 1)
<1>1. CASE x = NULL
  BY <1>1 DEF NextArg, ReadType, ReadAfter
<1>2. CASE x # NULL
  <2>1. PICK n \in Nat : n = x.next /\ n <= 129 * k
    BY <1>2 DEF ReadType
  <2>2. PICK l \in Nat : l = Len(b) /\ n + 129 <= l
    <3>1. PICK l \in Nat : l = Len(b)
      BY LenProperties
    <3> QED BY <2>1, <3>1
  <2>3. PICK s : s = SubSeq(b, n + 1, l)
    OBVIOUS
  <2>4. s \in Seq(CharType) /\ Len(s) >= 129
    <3>1. n + 1 \in Nat \ {0} /\ l \in Int /\ l <= Len(b)
      BY <2>2
    <3>2. /\ SubSeq(b, n + 1, l) \in Seq(CharType)
          /\ Len(SubSeq(b, n + 1, l)) = IF n + 1 <= l THEN l - (n + 1) + 1 ELSE 0
      BY <3>1, Piece
    <3>3. Len(s) = l - n
      BY <2>2, <2>3, <3>2
    <3> QED BY <2>2, <2>3, <3>2, <3>3
  <2>5. CASE ~DeserializeArg(s).ok
    <3>1. NextArg(b, x) = NULL
      BY <1>2, <2>1, <2>2, <2>3, <2>5 DEF NextArg
    <3> QED BY <3>1 DEF ReadType, ReadAfter
  <2>6. CASE DeserializeArg(s).ok
    <3>1. PICK a \in ArgType, j \in 1..129 :
            /\ a = DeserializeArg(s).arg /\ j = DeserializeArg(s).next
            /\ OctetHolds(a)
      BY <2>4, <2>6, ArgumentRead
    <3>2. PICK u : u = Append(x.argv, a)
      OBVIOUS
    <3>3. x.argv \in Seq(ArgType)
      BY <1>2 DEF ReadType
    <3>4. u \in Seq(ArgType) /\ Len(u) = Len(x.argv) + 1 /\ Len(x.argv) \in Nat
      BY <3>2, <3>3, AppendProperties, LenProperties
    <3>5. NextArg(b, x) = [argv |-> u, next |-> n + j]
      BY <1>2, <2>1, <2>2, <2>3, <2>6, <3>1, <3>2 DEF NextArg
    <3>6. n + j \in Nat /\ n + j <= 129 * (k + 1)
      <4>1. PICK e \in Nat : e = 129 * k /\ 129 * (k + 1) = e + 129
        OBVIOUS
      <4>2. n + j \in Nat /\ n + j <= e + 129
        BY <2>1, <4>1
      <4> QED BY <4>1, <4>2
    <3>7. NextArg(b, x) \in ReadType
      BY <3>4, <3>5, <3>6 DEF ReadType
    <3>8. x \in ReadAfter(k) => Len(u) = k + 1
      BY <1>2, <3>4 DEF ReadAfter
    <3>9. x \in ReadAfter(k) => Short(u, k + 1)
      <4> SUFFICES ASSUME x \in ReadAfter(k), NEW i \in 1..(k + 1)
                   PROVE  OctetHolds(u[i])
        BY DEF Short
      <4>1. Len(x.argv) = k /\ Short(x.argv, k)
        BY <1>2 DEF ReadAfter
      <4>2. CASE i = k + 1
        BY <3>1, <3>2, <3>3, <4>1, <4>2, AppendProperties
      <4>3. CASE i # k + 1
        <5>1. i \in 1..k
          BY <4>3
        <5>2. u[i] = x.argv[i]
          BY <3>2, <3>3, <4>1, <5>1, AppendProperties
        <5> QED BY <4>1, <5>1, <5>2 DEF Short
      <4> QED BY <4>2, <4>3
    <3> QED BY <3>5, <3>6, <3>7, <3>8, <3>9 DEF ReadAfter
  <2> QED BY <2>5, <2>6
<1> QED BY <1>1, <1>2

\* What it knows after each of them.
ArgumentsRun(h, b, argc) ==
  /\ h[0] = [argv |-> << >>, next |-> 0] /\ h[argc] = DeserializeArgs(b, argc)
  /\ \A k \in 1..argc : h[k] = NextArg(b, h[k - 1])
  /\ \A k \in 0..argc : h[k] \in ReadAfter(k)

\* Such a run exists in a buffer that is long enough.
LEMMA ArgumentsRead ==
  ASSUME NEW b \in Seq(CharType), NEW argc \in Nat, Len(b) >= 129 * argc
  PROVE  \E h : ArgumentsRun(h, b, argc)
<1> DEFINE D == 1..argc
           base == [argv |-> << >>, next |-> 0]
           Far(x) == x # NULL /\ x.next > 129 * (argc - 1)
           step == [i \in D |-> [x \in ReadType |-> IF Far(x) THEN NULL ELSE NextArg(b, x)]]
           T == [k \in 0..argc |-> ReadAfter(k)]
           F(f) == f = [t \in SUBSET D |-> IF t = {} THEN base ELSE NextArg(b, f[t \ {Max(t)}])]
<1>1. base \in ReadType /\ base \in ReadAfter(0)
  <2>1. PICK e : e = << >>
    OBVIOUS
  <2>2. e \in Seq(ArgType) /\ Len(e) = 0
    BY <2>1
  <2>3. base = [argv |-> e, next |-> 0]
    BY <2>1
  <2> HIDE DEF base
  <2> QED BY <2>2, <2>3 DEF ReadType, ReadAfter, Short
<1>2. ASSUME NEW i \in D
      PROVE  /\ \A x \in ReadType : step[i][x] \in ReadType
             /\ \A k \in D : \A x \in ReadAfter(k - 1) : step[i][x] \in ReadAfter(k)
  <2>1. argc - 1 \in Nat /\ 129 * ((argc - 1) + 1) = 129 * argc
    OBVIOUS
  <2>2. ASSUME NEW x \in ReadType
        PROVE  step[i][x] \in ReadType
    <3>1. CASE Far(x)
      BY <3>1 DEF ReadType
    <3>2. CASE ~Far(x)
      <4>1. x # NULL => x.next <= 129 * (argc - 1)
        <5> SUFFICES ASSUME x # NULL
                     PROVE  x.next <= 129 * (argc - 1)
          OBVIOUS
        <5>1. PICK n \in Nat : n = x.next
          BY DEF ReadType
        <5>2. ~(n > 129 * (argc - 1))
          BY <3>2, <5>1
        <5> QED BY <5>1, <5>2
      <4>2. NextArg(b, x) \in ReadType
        BY <2>1, <4>1, NextArgumentRead
      <4> QED BY <3>2, <4>2
    <3> QED BY <3>1, <3>2
  <2>3. ASSUME NEW k \in D, NEW x \in ReadAfter(k - 1)
        PROVE  step[i][x] \in ReadAfter(k)
    <3>1. PICK j \in Nat : j = k - 1 /\ k = j + 1 /\ Len(b) >= 129 * (j + 1)
      OBVIOUS
    <3>2. x \in ReadType /\ x \in ReadAfter(j)
      BY <3>1 DEF ReadAfter
    <3>3. x # NULL => x.next <= 129 * j
      BY <3>2 DEF ReadAfter
    <3>4. NextArg(b, x) \in ReadAfter(k)
      BY <3>1, <3>2, <3>3, NextArgumentRead
    <3>5. ~Far(x)
      <4> SUFFICES ASSUME x # NULL
                   PROVE  ~(x.next > 129 * (argc - 1))
        OBVIOUS
      <4>1. PICK n \in Nat : n = x.next
        BY <3>2 DEF ReadType
      <4>2. n <= 129 * j
        BY <3>3, <4>1
      <4>3. ~(n > 129 * (argc - 1))
        BY <3>1, <4>2
      <4> QED BY <4>1, <4>3
    <3> QED BY <3>2, <3>4, <3>5
  <2> QED BY <2>2, <2>3
<1>3. step \in [D -> [ReadType -> ReadType]]
  <2>1. \A i \in D : step[i] \in [ReadType -> ReadType]
    BY <1>2
  <2>2. step = [i \in D |-> step[i]]
    OBVIOUS
  <2> HIDE DEF step
  <2> QED BY <2>1, <2>2
<1>4. ASSUME NEW x \in ReadType, ~Far(x), NEW i \in D
      PROVE  step[i][x] = NextArg(b, x)
  BY <1>4
<1> HIDE DEF step, base
<1>5. PICK f \in [SUBSET D -> ReadType] : IsFold(f, argc, base, step)
  BY <1>1, <1>3, FoldExists
<1>6. ASSUME NEW s \in SUBSET D
      PROVE  f[s] \in T[Cardinality(s)]
  <2>1. base \in T[0]
    BY <1>1
  <2>2. \A i \in D : \A k \in D : \A x \in T[k - 1] : step[i][x] \in T[k]
    <3> SUFFICES ASSUME NEW i \in D, NEW k \in D, NEW x \in T[k - 1]
                 PROVE  step[i][x] \in T[k]
      OBVIOUS
    <3>1. T[k] = ReadAfter(k) /\ T[k - 1] = ReadAfter(k - 1)
      OBVIOUS
    <3> QED BY <1>2, <3>1
  <2> HIDE DEF T
  <2> QED BY <1>5, <2>1, <2>2, FoldWithin
<1>7. ASSUME NEW s \in SUBSET D, s # {}
      PROVE  step[Max(s)][f[s \ {Max(s)}]] = NextArg(b, f[s \ {Max(s)}])
  <2>1. Max(s) \in D /\ Max(s) \in s
    BY <1>7, GreatestPlace
  <2>2. PICK r \in SUBSET D : r = s \ {Max(s)}
    OBVIOUS
  <2>3. Cardinality(r) \in 0..(argc - 1)
    <3>1. IsFiniteSet(D) /\ Cardinality(D) = argc
      BY FS_Interval
    <3>2. IsFiniteSet(s) /\ Cardinality(s) <= Cardinality(D)
      <4>1. s \subseteq D
        OBVIOUS
      <4> QED BY <3>1, <4>1, FS_Subset
    <3>3. Cardinality(r) = Cardinality(s) - 1
      BY <2>1, <2>2, <3>2, FS_RemoveElement, ZenonT(60)
    <3>4. IsFiniteSet(r)
      BY <2>2, <3>2, FS_Subset
    <3>5. PICK c \in Nat, d \in Nat : c = Cardinality(s) /\ d = Cardinality(r)
      BY <3>2, <3>4, FS_CardinalityType
    <3>6. c <= argc /\ d = c - 1
      BY <3>1, <3>2, <3>3, <3>5
    <3>7. d \in 0..(argc - 1)
      BY <3>6
    <3> QED BY <3>5, <3>7
  <2>4. PICK k \in 0..(argc - 1) : k = Cardinality(r)
    BY <2>3
  <2>5. f[r] \in T[k] /\ T[k] = ReadAfter(k)
    <3>1. f[r] \in T[Cardinality(r)]
      BY <1>6
    <3>2. k \in 0..argc
      OBVIOUS
    <3>3. T[k] = ReadAfter(k)
      BY <3>2
    <3> HIDE DEF T
    <3> QED BY <2>4, <3>1, <3>3
  <2>6. PICK x \in ReadType : x = f[r] /\ x \in ReadAfter(k)
    BY <2>5
  <2>7. ~Far(x)
    <3> SUFFICES ASSUME x # NULL
                 PROVE  ~(x.next > 129 * (argc - 1))
      OBVIOUS
    <3>1. PICK n \in Nat : n = x.next
      BY DEF ReadType
    <3>2. n <= 129 * k
      BY <2>6, <3>1 DEF ReadAfter
    <3>3. ~(n > 129 * (argc - 1))
      BY <3>2
    <3> QED BY <3>1, <3>3
  <2> HIDE DEF Far
  <2> QED BY <1>4, <2>1, <2>2, <2>6, <2>7
<1>8. F(f)
  BY <1>5, <1>7 DEF IsFold
<1>9. DeserializeArgs(b, argc) = (CHOOSE g : F(g))[D]
  BY DEF DeserializeArgs, FoldLeft, MapThenFoldSet, NextArg, base
<1> DEFINE g == CHOOSE h : F(h)
<1> HIDE DEF F
<1>10. F(g)
  BY <1>8
<1> HIDE DEF g
<1>11. g[1..0] = base /\ \A k \in D : g[1..k] = NextArg(b, g[1..(k - 1)])
  BY <1>10, FirstNumbers, ZenonT(60) DEF F
<1> DEFINE G == {k \in 0..argc : g[1..k] \in ReadAfter(k)}
<1>12. 0 \in G
  <2>1. g[1..0] \in ReadAfter(0) /\ 0 \in 0..argc
    BY <1>1, <1>11
  <2> QED BY <2>1
<1>13. ASSUME NEW k \in D, k - 1 \in G
       PROVE  k \in G
  <2>1. PICK j \in Nat : j = k - 1 /\ k = j + 1 /\ Len(b) >= 129 * (j + 1)
    OBVIOUS
  <2>2. PICK x : x = g[1..(k - 1)] /\ x \in ReadAfter(j)
    BY <1>13, <2>1
  <2>3. x \in ReadType /\ (x # NULL => x.next <= 129 * j)
    BY <2>2 DEF ReadAfter
  <2>4. NextArg(b, x) \in ReadAfter(j + 1)
    BY <2>1, <2>2, <2>3, NextArgumentRead
  <2>5. g[1..k] \in ReadAfter(k)
    BY <1>11, <2>1, <2>2, <2>4
  <2> QED BY <2>5
<1> HIDE DEF G
<1>14. \A k \in 0..argc : k \in G
  BY <1>12, <1>13, UpTo
<1>15. PICK h : h = [k \in 0..argc |-> g[1..k]]
  OBVIOUS
<1>16. \A k \in 0..argc : h[k] = g[1..k] /\ h[k] \in ReadAfter(k)
  BY <1>14, <1>15 DEF G
<1>17. \A k \in 1..argc : h[k] = NextArg(b, h[k - 1])
  <2> SUFFICES ASSUME NEW k \in 1..argc
               PROVE  h[k] = NextArg(b, h[k - 1])
    OBVIOUS
  <2>1. h[k] = g[1..k] /\ h[k - 1] = g[1..(k - 1)]
    BY <1>16
  <2> QED BY <1>11, <2>1
<1>18. h[0] = base /\ h[argc] = DeserializeArgs(b, argc)
  BY <1>9, <1>11, <1>16 DEF g
<1> QED BY <1>16, <1>17, <1>18 DEF ArgumentsRun, base

\* A message that is read has the fixed fields that were sent, and as many arguments.
LEMMA MessageRead ==
  ASSUME NEW m \in MessageType, NEW b \in Seq(CharType), Len(b) >= 129 * Len(m.argv)
  PROVE  LET r == DeserializeMessage(SerializeMessage(m), b)
         IN r # NULL => /\ r \in MessageType /\ Len(r.argv) = Len(m.argv)
                        /\ r.command = m.command /\ r.return_type = m.return_type
                        /\ Short(r.argv, Len(r.argv))
<1>1. m.command \in STRING /\ m.return_type \in TypeCodes /\ m.argv \in Seq(ArgType)
  BY DEF MessageType
<1>2. PICK argc \in Nat : argc = Len(m.argv)
  BY <1>1, LenProperties
<1>3. PICK w : w = SerializeMessage(m)
  OBVIOUS
<1>4. w.command = m.command /\ w.return_type = m.return_type /\ w.argc = argc
  BY <1>2, <1>3 DEF SerializeMessage
<1>5. PICK args : args = DeserializeArgs(b, argc)
  OBVIOUS
<1>6. args \in ReadAfter(argc)
  <2>1. PICK h : ArgumentsRun(h, b, argc)
    BY <1>2, ArgumentsRead
  <2> QED BY <1>5, <2>1 DEF ArgumentsRun
<1>7. PICK r : r = DeserializeMessage(w, b)
  OBVIOUS
<1>8. r = IF args = NULL \/ args.next - w.size = -1 THEN NULL
          ELSE [command |-> m.command, return_type |-> m.return_type, argv |-> args.argv]
  BY <1>4, <1>5, <1>7 DEF DeserializeMessage
<1>9. ASSUME r # NULL
      PROVE  /\ r \in MessageType /\ Len(r.argv) = Len(m.argv)
             /\ r.command = m.command /\ r.return_type = m.return_type
             /\ Short(r.argv, Len(r.argv))
  <2>1. args.argv \in Seq(ArgType) /\ Len(args.argv) = argc /\ Short(args.argv, argc)
    BY <1>6, <1>8, <1>9 DEF ReadAfter, ReadType
  <2>2. r = [command |-> m.command, return_type |-> m.return_type, argv |-> args.argv]
    BY <1>8, <1>9
  <2> QED BY <1>1, <1>2, <2>1, <2>2 DEF MessageType
<1> QED BY <1>3, <1>7, <1>9

\* An answer whose status and type have arrived is read as one with that status and type.
LEMMA AnswerRead ==
  ASSUME NEW a \in AnswerType, NEW w, w = SerializeAnswer(a.status, a.arg),
         NEW b \in Seq(CharType), Len(b) >= w.size + 129,
         b[1] = w.bytes[1], w.size >= 2 => b[2] = w.bytes[2]
  PROVE  /\ DeserializeAnswer(w, b) \in AnswerType
         /\ DeserializeAnswer(w, b).status = a.status
         /\ a.status = OK => DeserializeAnswer(w, b).arg.typ = a.arg.typ
<1>1. b[1] = a.status
  BY AnswerWritten
<1>2. CASE a.status # OK
  <2>1. DeserializeAnswer(w, b) = [status |-> a.status, arg |-> NULL]
    BY <1>1, <1>2 DEF DeserializeAnswer
  <2> QED BY <1>2, <2>1 DEF AnswerType
<1>3. CASE a.status = OK
  <2>1. PICK size \in Nat : size = w.size /\ size >= 2
    BY <1>3, AnswerWritten
  <2>2. PICK typ \in TypeCodes : typ = b[2] /\ typ = a.arg.typ
    <3>1. b[2] = a.arg.typ
      BY <1>3, <2>1, AnswerWritten
    <3>2. a.arg \in ArgType
      BY <1>3 DEF AnswerType
    <3>3. a.arg.typ \in TypeCodes
      BY <3>2 DEF ArgType, TypeCodes
    <3> QED BY <3>1, <3>3
  <2>3. PICK l \in Nat : l = Len(b) /\ l >= size + 129
    BY <2>1, LenProperties
  <2>4. PICK data :
          data = CASE typ = Int32 -> DeserializeInteger(SubSeq(b, 3, l)).data
                   [] typ = Str -> CString(SubSeq(b, 4, size))
                   [] OTHER -> NULL
    OBVIOUS
  <2>5. DeserializeAnswer(w, b) = [status |-> OK, arg |-> [typ |-> typ, data |-> data]]
    BY <1>1, <1>3, <2>1, <2>2, <2>3, <2>4 DEF DeserializeAnswer
  <2>6. [typ |-> typ, data |-> data] \in ArgType
    <3>1. CASE typ = Int32
      <4>1. PICK s : s = SubSeq(b, 3, l)
        OBVIOUS
      <4>2. s \in Seq(CharType) /\ Len(s) = IF 3 <= l THEN l - 3 + 1 ELSE 0
        BY <2>3, <4>1, Piece
      <4>3. Len(s) >= 128
        BY <2>1, <2>3, <4>2
      <4>4. data = DeserializeInteger(s).data
        <5>1. typ # Str
          BY <3>1 DEF Int32, Str
        <5> QED BY <2>4, <3>1, <4>1, <5>1
      <4>5. data \in IntType
        BY <4>2, <4>3, <4>4, IntegerRead
      <4> QED BY <3>1, <4>5 DEF ArgType
    <3>2. CASE typ = Str
      <4>1. PICK s : s = SubSeq(b, 4, size)
        OBVIOUS
      <4>2. s \in Seq(CharType)
        BY <2>1, <2>3, <4>1, Piece
      <4>3. typ # Int32
        BY <3>2 DEF Int32, Str
      <4>4. data = CString(s)
        BY <2>4, <3>2, <4>1, <4>3
      <4>5. data \in StringType
        BY <4>2, <4>4, StringRead
      <4> QED BY <3>2, <4>5 DEF ArgType
    <3>3. CASE typ = Void
      <4>1. data = NULL
        BY <2>4, <3>3 DEF Void, Int32, Str
      <4> QED BY <3>3, <4>1 DEF ArgType
    <3> QED BY <3>1, <3>2, <3>3 DEF TypeCodes
  <2> QED BY <1>3, <2>2, <2>5, <2>6 DEF AnswerType
<1> QED BY <1>2, <1>3

-----------------------------------------------------------------------------
(* What was written is read again.                                         *)

\* The sum of one more byte.
LEMMA ValueOfMore ==
  ASSUME NEW s \in Seq(CharType), NEW c \in CharType
  PROVE  Value(Append(s, c)) = AsInt(Value(s) * 10 + c - Zero)
<1>1. PICK n \in Nat : n = Len(s)
  BY LenProperties
<1>2. PICK t : t = Append(s, c)
  OBVIOUS
<1>3. /\ t \in Seq(CharType) /\ Len(t) = n + 1
      /\ \A i \in 1..n : t[i] = s[i]
      /\ t[n + 1] = c
  BY <1>1, <1>2, AppendProperties
<1>4. PICK h : ValueRuns(h, s)
  BY ValueRun
<1>5. PICK g : ValueRuns(g, t)
  BY <1>3, ValueRun
<1>6. /\ h[0] = 0 /\ h[n] = Value(s)
      /\ \A k \in 1..n : h[k] = AsInt(h[k - 1] * 10 + s[k] - Zero)
  BY <1>1, <1>4 DEF ValueRuns
<1>7. /\ g[0] = 0 /\ g[n + 1] = Value(t)
      /\ \A k \in 1..(n + 1) : g[k] = AsInt(g[k - 1] * 10 + t[k] - Zero)
  BY <1>3, <1>5 DEF ValueRuns
<1> DEFINE G == {k \in 0..n : g[k] = h[k]}
<1>8. 0 \in G
  BY <1>6, <1>7
<1>9. \A k \in 1..n : k - 1 \in G => k \in G
  <2> SUFFICES ASSUME NEW k \in 1..n, k - 1 \in G
               PROVE  k \in G
    OBVIOUS
  <2>1. g[k - 1] = h[k - 1] /\ t[k] = s[k] /\ k \in 1..(n + 1)
    BY <1>3
  <2>2. g[k] = AsInt(g[k - 1] * 10 + t[k] - Zero) /\ h[k] = AsInt(h[k - 1] * 10 + s[k] - Zero)
    BY <1>6, <1>7, <2>1
  <2>3. g[k] = h[k]
    BY <2>1, <2>2
  <2> QED BY <2>3
<1> HIDE DEF G
<1>10. \A k \in 0..n : k \in G
  BY <1>8, <1>9, UpTo
<1>11. g[n] = h[n]
  <2>1. n \in 0..n
    OBVIOUS
  <2> QED BY <1>10, <2>1 DEF G
<1>12. n + 1 \in 1..(n + 1) /\ (n + 1) - 1 = n
  OBVIOUS
<1>13. g[n + 1] = AsInt(g[(n + 1) - 1] * 10 + t[n + 1] - Zero)
  BY <1>7, <1>12
<1> QED BY <1>2, <1>3, <1>6, <1>7, <1>11, <1>12, <1>13

\* The sum of no byte.
LEMMA ValueOfNothing == Value(<< >>) = 0
<1>1. PICK s : s = << >>
  OBVIOUS
<1>2. s \in Seq(CharType) /\ Len(s) = 0
  BY <1>1
<1>3. PICK h : ValueRuns(h, s)
  BY <1>2, ValueRun
<1>4. h[0] = 0 /\ h[0] = Value(s)
  BY <1>2, <1>3 DEF ValueRuns
<1> QED BY <1>1, <1>4

\* What fits into an int is not changed by a conversion to one.
LEMMA IntsKept ==
  /\ \A n \in IntType : AsInt(n) = n
  /\ \A n \in CharType : Char(n) = n
<1>1. PICK h \in Nat : h >= 8 /\ 2^(IntBits - 1) = h /\ 2^IntBits = 2 * h
  BY Width
<1>2. ASSUME NEW n \in IntType
      PROVE  AsInt(n) = n
  <2>1. n \in -h..(h - 1)
    BY <1>1 DEF IntType
  <2>2. PICK e \in Nat, m \in Nat : e = n + h /\ m = 2 * h /\ e < m /\ n = e - h /\ n \in Int
    BY <1>1, <2>1
  <2>3. e % m = e
    BY <2>2
  <2>4. AsInt(n) = ((n + h) % (2 * h)) - h
    BY <1>1 DEF AsInt, Wrap
  <2> QED BY <2>2, <2>3, <2>4
<1>3. ASSUME NEW n \in CharType
      PROVE  Char(n) = n
  <2>1. 2^(8 - 1) = 128 /\ 2^8 = 256
    OBVIOUS
  <2>2. Char(n) = ((n + 128) % 256) - 128
    BY <2>1 DEF Char, Wrap
  <2> QED BY <2>2 DEF CharType
<1> QED BY <1>2, <1>3

\* The range of a char, for steps to which it is too long to be listed.
LEMMA Chars == \A n \in Int : n \in CharType <=> -128 <= n /\ n <= 127
BY DEF CharType

\* Zero has no digit: both recursions end at it.
LEMMA NoDigits == DigitCount[0] = 0 /\ Digits[0] = << >>
BY DigitsDefined DEF DigitsFollow

\* A number of a magnitude.
Within(n, m) == -m <= n /\ n <= m

\* Division by ten of what a width allows.
LEMMA Tenths ==
  /\ \A n \in IntType : Quot(n) \in IntType
  /\ \A n \in Int : /\ Quot(n) \in Int /\ Rem(n) \in Int /\ Within(Rem(n), 9) /\ n = Quot(n) * 10 + Rem(n)
                    /\ n > 0 => Rem(n) >= 0
                    /\ Within(n, 2147483648) => Within(Quot(n), 214748364)
                    /\ Within(n, 214748364) => Within(Quot(n), 21474836)
                    /\ Within(n, 21474836) => Within(Quot(n), 2147483)
                    /\ Within(n, 2147483) => Within(Quot(n), 214748)
                    /\ Within(n, 214748) => Within(Quot(n), 21474)
                    /\ Within(n, 21474) => Within(Quot(n), 2147)
                    /\ Within(n, 2147) => Within(Quot(n), 214)
                    /\ Within(n, 214) => Within(Quot(n), 21)
                    /\ Within(n, 21) => Within(Quot(n), 2)
                    /\ Within(n, 2) => Quot(n) = 0
<1>1. PICK h \in Nat : h >= 8 /\ 2^(IntBits - 1) = h
  BY Width
<1>2. \A n \in IntType : Quot(n) \in IntType
  BY <1>1 DEF IntType, Quot
<1>3. \A n \in Int : /\ Quot(n) \in Int /\ Rem(n) \in Int /\ Within(Rem(n), 9) /\ n = Quot(n) * 10 + Rem(n)
                     /\ n > 0 => Rem(n) >= 0
  BY DEF Quot, Rem, Within
<1>4. \A n \in Int : /\ Within(n, 2147483648) => Within(Quot(n), 214748364)
                     /\ Within(n, 214748364) => Within(Quot(n), 21474836)
                     /\ Within(n, 21474836) => Within(Quot(n), 2147483)
                     /\ Within(n, 2147483) => Within(Quot(n), 214748)
                     /\ Within(n, 214748) => Within(Quot(n), 21474)
                     /\ Within(n, 21474) => Within(Quot(n), 2147)
                     /\ Within(n, 2147) => Within(Quot(n), 214)
                     /\ Within(n, 214) => Within(Quot(n), 21)
                     /\ Within(n, 21) => Within(Quot(n), 2)
                     /\ Within(n, 2) => Quot(n) = 0
  BY DEF Quot, Within
<1> QED BY <1>2, <1>3, <1>4

\* The digits of an int are read as that int, the least one included.
LEMMA DigitsRead ==
  ASSUME NEW n \in IntType
  PROVE  Value(Digits[n]) = n
<1> DEFINE G == {k \in Int : k \in IntType => Value(Digits[k]) = k}
<1>1. 0 \in G
  <2>1. Digits[0] = << >>
    BY DigitsDefined DEF DigitsFollow
  <2>2. Value(Digits[0]) = 0
    BY <2>1, ValueOfNothing
  <2> QED BY <2>2
<1>2. ASSUME NEW k \in Int, k # 0, Quot(k) \in G
      PROVE  k \in G
  <2> SUFFICES ASSUME k \in IntType
               PROVE  Value(Digits[k]) = k
    OBVIOUS
  <2>1. PICK q \in Int, r \in Int : q = Quot(k) /\ r = Rem(k) /\ k = q * 10 + r /\ -9 <= r /\ r <= 9
    <3>1. PICK q, r : q = Quot(k) /\ r = Rem(k)
      OBVIOUS
    <3>2. q \in Int /\ r \in Int /\ Within(r, 9) /\ k = q * 10 + r
      BY <3>1, Tenths
    <3> QED BY <3>1, <3>2 DEF Within
  <2>2. Value(Digits[q]) = q
    BY <1>2, <2>1, Tenths
  <2>3. PICK c \in CharType : c = Char(Zero + r) /\ c = 48 + r
    <3>1. 48 + r \in CharType
      BY <2>1, Chars
    <3>2. Char(48 + r) = 48 + r
      BY <3>1, IntsKept
    <3> QED BY <3>1, <3>2 DEF Zero
  <2>4. Digits[k] = Append(Digits[q], c)
    BY <1>2, <2>1, <2>3, DigitsDefined DEF DigitsFollow
  <2>5. Value(Digits[k]) = AsInt(Value(Digits[q]) * 10 + c - Zero)
    BY <2>4, DigitsCounted, ValueOfMore
  <2>6. Value(Digits[q]) * 10 + c - Zero = k
    <3>1. q * 10 + (48 + r) - 48 = k
      BY <2>1
    <3> QED BY <2>2, <2>3, <3>1 DEF Zero
  <2> QED BY <2>5, <2>6, IntsKept
<1> HIDE DEF G
<1>3. \A k \in Int : k \in G
  BY <1>1, <1>2, DigitInduction
<1>4. n \in Int
  BY Conversions
<1> QED BY <1>3, <1>4 DEF G

\* An int has ten digits at most, and a positive one begins with a digit.
LEMMA DigitsFew ==
  /\ \A n \in IntType : DigitCount[n] <= 10
  /\ \A n \in Int : n > 0 => Len(Digits[n]) >= 1 /\ Digits[n][1] >= 48
<1>1. ASSUME NEW n \in IntType
      PROVE  DigitCount[n] <= 10
  <2>1. PICK k1 \in Int : k1 = n /\ Within(k1, 2147483648)
    <3>1. PICK h \in Nat : h <= 2147483648 /\ 2^(IntBits - 1) = h
      BY Width
    <3> QED BY <3>1 DEF IntType, Within
  <2>2. PICK k2 \in Int : k2 = Quot(k1) /\ Within(k2, 214748364)
    BY <2>1, Tenths
  <2>3. PICK k3 \in Int : k3 = Quot(k2) /\ Within(k3, 21474836)
    BY <2>2, Tenths
  <2>4. PICK k4 \in Int : k4 = Quot(k3) /\ Within(k4, 2147483)
    BY <2>3, Tenths
  <2>5. PICK k5 \in Int : k5 = Quot(k4) /\ Within(k5, 214748)
    BY <2>4, Tenths
  <2>6. PICK k6 \in Int : k6 = Quot(k5) /\ Within(k6, 21474)
    BY <2>5, Tenths
  <2>7. PICK k7 \in Int : k7 = Quot(k6) /\ Within(k7, 2147)
    BY <2>6, Tenths
  <2>8. PICK k8 \in Int : k8 = Quot(k7) /\ Within(k8, 214)
    BY <2>7, Tenths
  <2>9. PICK k9 \in Int : k9 = Quot(k8) /\ Within(k9, 21)
    BY <2>8, Tenths
  <2>10. PICK k10 \in Int : k10 = Quot(k9) /\ Within(k10, 2)
    BY <2>9, Tenths
  <2>11. Quot(k10) = 0
    BY <2>10, Tenths
  <2>12. \A k \in Int : DigitCount[k] \in Nat /\ DigitCount[k] <= 1 + DigitCount[Quot(k)]
    <3> SUFFICES ASSUME NEW k \in Int
                 PROVE  DigitCount[k] \in Nat /\ DigitCount[k] <= 1 + DigitCount[Quot(k)]
      OBVIOUS
    <3>1. PICK d \in Nat, e \in Nat : d = DigitCount[k] /\ e = DigitCount[Quot(k)]
      BY DigitsCounted, Quotients
    <3>2. d = IF k = 0 THEN 0 ELSE 1 + e
      BY <3>1, DigitsDefined DEF DigitsFollow
    <3> QED BY <3>1, <3>2
  <2>13. DigitCount[k10] <= 1
    <3>1. PICK d \in Nat : d = DigitCount[k10] /\ d <= 1 + DigitCount[Quot(k10)]
      BY <2>10, <2>12
    <3>2. DigitCount[Quot(k10)] = 0
      BY <2>11, NoDigits
    <3> QED BY <3>1, <3>2
  <2>14. DigitCount[k9] <= 2
    BY <2>9, <2>10, <2>12, <2>13
  <2>15. DigitCount[k8] <= 3
    BY <2>8, <2>9, <2>12, <2>14
  <2>16. DigitCount[k7] <= 4
    BY <2>7, <2>8, <2>12, <2>15
  <2>17. DigitCount[k6] <= 5
    BY <2>6, <2>7, <2>12, <2>16
  <2>18. DigitCount[k5] <= 6
    BY <2>5, <2>6, <2>12, <2>17
  <2>19. DigitCount[k4] <= 7
    BY <2>4, <2>5, <2>12, <2>18
  <2>20. DigitCount[k3] <= 8
    BY <2>3, <2>4, <2>12, <2>19
  <2>21. DigitCount[k2] <= 9
    BY <2>2, <2>3, <2>12, <2>20
  <2>22. DigitCount[k1] <= 10
    BY <2>1, <2>2, <2>12, <2>21
  <2> QED BY <2>1, <2>22
<1> DEFINE G == {k \in Int : k > 0 => Len(Digits[k]) >= 1 /\ Digits[k][1] >= 48}
<1>2. 0 \in G
  OBVIOUS
<1>3. ASSUME NEW k \in Int, k # 0, Quot(k) \in G
      PROVE  k \in G
  <2> SUFFICES ASSUME k > 0
               PROVE  Len(Digits[k]) >= 1 /\ Digits[k][1] >= 48
    OBVIOUS
  <2>1. PICK q \in Nat, r \in Nat : q = Quot(k) /\ r = Rem(k) /\ r <= 9
    <3>1. PICK q, r : q = Quot(k) /\ r = Rem(k)
      OBVIOUS
    <3>2. q \in Int /\ r \in Int /\ Within(r, 9) /\ r >= 0
      BY <3>1, Tenths
    <3>3. q >= 0
      BY <3>1, Quotients
    <3> QED BY <3>1, <3>2, <3>3 DEF Within
  <2>2. PICK c \in CharType : c = Char(Zero + r) /\ c >= 48
    <3>1. 48 + r \in CharType /\ 48 + r >= 48 /\ 48 + r <= 57
      BY <2>1, Chars
    <3>2. Char(48 + r) = 48 + r
      BY <3>1, IntsKept
    <3> QED BY <3>1, <3>2 DEF Zero
  <2>3. PICK d \in Seq(CharType), l \in Nat : d = Digits[q] /\ l = Len(d)
    BY DigitsCounted, LenProperties
  <2>4. Digits[k] = Append(d, c)
    BY <1>3, <2>1, <2>2, <2>3, DigitsDefined DEF DigitsFollow
  <2>5. /\ Len(Append(d, c)) = l + 1
        /\ \A i \in 1..l : Append(d, c)[i] = d[i]
        /\ Append(d, c)[l + 1] = c
    BY <2>2, <2>3, AppendProperties
  <2>6. CASE q = 0
    <3>1. l = 0
      <4>1. Digits[0] = << >>
        BY DigitsDefined DEF DigitsFollow
      <4> QED BY <2>3, <2>6, <4>1
    <3>2. Append(d, c)[1] = c /\ Len(Append(d, c)) = 1
      BY <2>5, <3>1
    <3> QED BY <2>2, <2>4, <3>2
  <2>7. CASE q > 0
    <3>1. l >= 1 /\ d[1] >= 48
      BY <1>3, <2>1, <2>3, <2>7
    <3>2. Append(d, c)[1] = d[1] /\ l + 1 >= 1
      BY <2>5, <3>1
    <3> QED BY <2>4, <2>5, <3>1, <3>2
  <2> QED BY <2>6, <2>7
<1> HIDE DEF G
<1>4. \A k \in Int : k \in G
  BY <1>2, <1>3, DigitInduction
<1> QED BY <1>1, <1>4 DEF G


\* A buffer that begins with some bytes.
Begins(b, s) == Len(s) <= Len(b) /\ \A k \in 1..Len(s) : b[k] = s[k]

\* The greater of two numbers.
LEMMA PairMax ==
  ASSUME NEW i \in Int, NEW j \in Int, j <= i
  PROVE  Max({i, j}) = i
<1>1. i \in {i, j} /\ \A y \in {i, j} : i >= y
  OBVIOUS
<1>2. PICK x \in {i, j} : x = Max({i, j}) /\ \A y \in {i, j} : x >= y
  BY <1>1 DEF Max
<1>3. x = i
  BY <1>2
<1> QED BY <1>2, <1>3

\* The sign and the magnitude make the integer again, even where the magnitude of the
\* least integer is negative.
LEMMA SignsKept ==
  ASSUME NEW n \in IntType
  PROVE  /\ Magnitude(n) \in IntType /\ (IF n < 0 THEN AsInt(-Magnitude(n)) ELSE Magnitude(n)) = n
         /\ n # 0 => Magnitude(n) # 0
         /\ n > 0 => Magnitude(n) = n
<1>1. PICK h \in Nat : h >= 8 /\ 2^(IntBits - 1) = h /\ 2^IntBits = 2 * h
  BY Width
<1>2. n \in -h..(h - 1) /\ n \in Int
  BY <1>1 DEF IntType
<1>3. CASE n >= 0
  BY <1>2, <1>3 DEF Magnitude
<1>4. CASE n < 0 /\ n # -h
  <2>1. -n \in IntType
    BY <1>1, <1>2, <1>4 DEF IntType
  <2>2. AsInt(-n) = -n /\ AsInt(n) = n
    BY <2>1, IntsKept
  <2>3. -(-n) = n /\ -n # 0
    BY <1>2, <1>4
  <2> QED BY <1>2, <1>4, <2>1, <2>2, <2>3 DEF Magnitude
<1>5. CASE n = -h
  <2>1. -n = h /\ n < 0 /\ n # 0 /\ ~(n > 0)
    BY <1>1, <1>5
  <2>2. AsInt(h) = ((h + h) % (2 * h)) - h
    BY <1>1 DEF AsInt, Wrap
  <2>3. PICK m \in Nat : m = 2 * h /\ m = h + h /\ m > 0
    BY <1>1
  <2>4. m % m = 0
    BY <2>3
  <2>5. 0 - h = n
    BY <1>1, <1>5
  <2>6. AsInt(h) = n
    BY <2>2, <2>3, <2>4, <2>5
  <2>7. Magnitude(n) = n
    BY <2>1, <2>6 DEF Magnitude
  <2> QED BY <2>1, <2>6, <2>7
<1> QED BY <1>2, <1>3, <1>4, <1>5

\* deserialize_integer reads what serialize_integer wrote, for every int, and takes
\* exactly its bytes.
LEMMA IntegerReadBack ==
  ASSUME NEW n \in IntType, NEW b \in Seq(CharType), Begins(b, SerializeInteger(n))
  PROVE  DeserializeInteger(b) = [data |-> n, next |-> IntegerLength(n)]
<1>0. n \in Int
  BY Conversions
<1>1. PICK s \in Seq(CharType), size \in Nat :
        s = SerializeInteger(n) /\ size = Len(s) /\ size = IntegerLength(n)
  BY <1>0, IntegerWritten, LenProperties
<1>2. PICK l \in Nat : l = Len(b) /\ size <= l
  BY <1>1, LenProperties DEF Begins
<1>3. \A k \in 1..size : b[k] = s[k]
  BY <1>1 DEF Begins
<1>4. CASE n = 0
  <2>1. s = <<1, Zero>> /\ size = 2
    BY <1>1, <1>4 DEF SerializeInteger, IntegerLength
  <2>2. b[1] = 1 /\ b[2] = 48
    BY <1>3, <2>1 DEF Zero
  <2>3. PICK t : t = SubSeq(b, 2, 2)
    OBVIOUS
  <2>4. t \in Seq(CharType) /\ Len(t) = 1 /\ t[1] = 48
    <3>1. 2 \in Nat \ {0} /\ 2 \in Int /\ 2 <= Len(b)
      BY <1>2, <2>1
    <3>2. /\ t \in Seq(CharType) /\ Len(t) = IF 2 <= 2 THEN 2 - 2 + 1 ELSE 0
          /\ \A k \in 1..(2 - 2 + 1) : t[k] = b[2 + k - 1]
      BY <2>3, <3>1, Piece
    <3>3. t[1] = b[2 + 1 - 1]
      BY <3>2
    <3> QED BY <2>2, <3>2, <3>3
  <2>5. Value(t) = 0
    <3>1. PICK h : ValueRuns(h, t)
      BY <2>4, ValueRun
    <3>2. h[0] = 0 /\ h[1] = Value(t) /\ h[1] = AsInt(h[1 - 1] * 10 + t[1] - Zero)
      BY <2>4, <3>1 DEF ValueRuns
    <3>3. 1 - 1 = 0 /\ 0 * 10 + 48 - 48 = 0
      OBVIOUS
    <3>4. h[1] = AsInt(0)
      BY <2>4, <3>2, <3>3 DEF Zero
    <3> QED BY <3>2, <3>4, IntsKept, Conversions
  <2>6. Max({1 + 1, 1}) = 2
    BY PairMax
  <2>7. DeserializeInteger(b) = [data |-> Value(t), next |-> Max({1 + 1, 1})]
    <3>1. 1 + 1 = 2 /\ b[2] # Minus
      BY <2>2 DEF Minus
    <3> QED BY <2>2, <2>3, <3>1 DEF DeserializeInteger, Value
  <2> QED BY <1>1, <1>4, <2>1, <2>5, <2>6, <2>7
<1>5. CASE n # 0
  <2>1. PICK i \in IntType : i = Magnitude(n)
    BY SignsKept
  <2>2. PICK d \in Seq(CharType), k \in Nat : d = Digits[i] /\ Len(d) = k /\ k = DigitCount[i]
    <3>1. i \in Int
      BY Conversions
    <3>2. PICK k \in Nat : k = DigitCount[i]
      BY <3>1, DigitsCounted
    <3> QED BY <3>1, <3>2, DigitsCounted
  <2>3. k <= 10
    BY <2>2, DigitsFew
  <2>4. Value(d) = i
    BY <2>2, DigitsRead
  <2>5. CASE n < 0
    <3>1. PICK text : text = <<Minus>> \o d
      OBVIOUS
    <3>2. /\ text \in Seq(CharType) /\ Len(text) = k + 1 /\ text[1] = Minus
          /\ \A j \in 1..k : text[1 + j] = d[j]
      <4>1. <<Minus>> \in Seq(CharType) /\ Len(<<Minus>>) = 1 /\ <<Minus>>[1] = Minus
        <5>1. Minus \in CharType
          BY Chars DEF Minus
        <5> QED BY <5>1
      <4>2. /\ text \in Seq(CharType) /\ Len(text) = 1 + k
            /\ \A j \in 1..(1 + k) : text[j] = IF j <= 1 THEN <<Minus>>[j] ELSE d[j - 1]
        BY <2>2, <3>1, <4>1, ConcatProperties
      <4> HIDE DEF Minus
      <4>3. text[1] = Minus
        BY <4>1, <4>2
      <4>4. \A j \in 1..k : text[1 + j] = d[j]
        BY <4>2
      <4> QED BY <4>2, <4>3, <4>4
    <3>3. PICK c \in CharType : c = Char(k + 1) /\ c = k + 1
      <4>1. k + 1 \in CharType
        BY <2>3, Chars
      <4> QED BY <4>1, IntsKept
    <3>4. s = <<c>> \o text
      <4>1. i = AsInt(-n)
        BY <2>1, <2>5 DEF Magnitude
      <4> QED BY <1>1, <1>5, <2>2, <2>5, <3>1, <3>2, <3>3, <4>1 DEF SerializeInteger
    <3>5. /\ size = k + 2 /\ s[1] = c
          /\ \A j \in 1..(k + 1) : s[1 + j] = text[j]
      <4>1. <<c>> \in Seq(CharType) /\ Len(<<c>>) = 1 /\ <<c>>[1] = c
        OBVIOUS
      <4>2. /\ Len(s) = 1 + (k + 1)
            /\ \A j \in 1..(1 + (k + 1)) : s[j] = IF j <= 1 THEN <<c>>[j] ELSE text[j - 1]
        BY <3>2, <3>4, <4>1, ConcatProperties
      <4>3. s[1] = c
        BY <4>1, <4>2
      <4>4. \A j \in 1..(k + 1) : s[1 + j] = text[j]
        BY <4>2
      <4>5. Len(s) = k + 2
        BY <4>2
      <4> QED BY <1>1, <4>3, <4>4, <4>5
    <3>6. b[1] = k + 1 /\ b[2] = Minus
      <4>1. 1 \in 1..size /\ 2 \in 1..size /\ 1 \in 1..(k + 1) /\ 1 + 1 = 2
        BY <3>5
      <4>2. b[1] = s[1] /\ b[2] = s[2] /\ s[1 + 1] = text[1]
        BY <1>3, <3>5, <4>1
      <4> QED BY <3>2, <3>3, <3>5, <4>1, <4>2
    <3>7. PICK t : t = SubSeq(b, 3, k + 2)
      OBVIOUS
    <3>8. t = d
      <4>1. 3 \in Nat \ {0} /\ k + 2 \in Int /\ k + 2 <= Len(b)
        BY <1>2, <3>5
      <4>2. /\ t \in Seq(CharType) /\ Len(t) = IF 3 <= k + 2 THEN k + 2 - 3 + 1 ELSE 0
            /\ \A j \in 1..(k + 2 - 3 + 1) : t[j] = b[3 + j - 1]
        BY <3>7, <4>1, Piece
      <4>3. Len(t) = k
        BY <4>2
      <4>4. \A j \in 1..k : t[j] = d[j]
        <5> SUFFICES ASSUME NEW j \in 1..k
                     PROVE  t[j] = d[j]
          OBVIOUS
        <5>1. t[j] = b[2 + j]
          <6>1. j \in 1..(k + 2 - 3 + 1) /\ 3 + j - 1 = 2 + j
            OBVIOUS
          <6> QED BY <4>2, <6>1
        <5>2. b[2 + j] = s[2 + j]
          <6>1. 2 + j \in 1..size
            BY <3>5
          <6> QED BY <1>3, <6>1
        <5>3. s[2 + j] = text[1 + j]
          <6>1. 1 + j \in 1..(k + 1) /\ 1 + (1 + j) = 2 + j
            OBVIOUS
          <6> QED BY <3>5, <6>1
        <5> QED BY <3>2, <5>1, <5>2, <5>3
      <4> QED BY <2>2, <4>2, <4>3, <4>4, SeqEqual
    <3>9. Max({(k + 1) + 1, 2}) = k + 2
      <4>1. PICK e \in Int : e = (k + 1) + 1 /\ e = k + 2 /\ 2 <= e
        OBVIOUS
      <4> QED BY <4>1, PairMax
    <3>10. DeserializeInteger(b) =
             [data |-> AsInt(-Value(t)), next |-> Max({(k + 1) + 1, 2})]
      <4>1. (k + 1) + 1 = k + 2 /\ 2 + 1 = 3
        OBVIOUS
      <4> QED BY <3>6, <3>7, <4>1 DEF DeserializeInteger, Value
    <3>11. AsInt(-i) = n
      BY <2>1, <2>5, SignsKept
    <3> QED BY <1>1, <2>4, <3>5, <3>8, <3>9, <3>10, <3>11
  <2>6. CASE n > 0
    <3>1. i = n
      BY <2>1, <2>6, SignsKept
    <3>2. k >= 1 /\ d[1] >= 48
      BY <1>0, <2>2, <2>6, <3>1, DigitsFew
    <3>3. PICK c \in CharType : c = Char(k) /\ c = k
      <4>1. k \in CharType
        BY <2>3, Chars
      <4> QED BY <4>1, IntsKept
    <3>4. s = <<c>> \o d
      <4>1. << >> \o d = d
        BY <2>2, ConcatEmptySeq
      <4>2. ~(n < 0)
        BY <1>0, <2>6
      <4> QED BY <1>1, <1>5, <2>2, <3>1, <3>3, <4>1, <4>2 DEF SerializeInteger
    <3>5. /\ size = k + 1 /\ s[1] = c
          /\ \A j \in 1..k : s[1 + j] = d[j]
      <4>1. <<c>> \in Seq(CharType) /\ Len(<<c>>) = 1 /\ <<c>>[1] = c
        OBVIOUS
      <4>2. /\ Len(s) = 1 + k
            /\ \A j \in 1..(1 + k) : s[j] = IF j <= 1 THEN <<c>>[j] ELSE d[j - 1]
        BY <2>2, <3>4, <4>1, ConcatProperties
      <4>3. s[1] = c
        BY <4>1, <4>2
      <4>4. \A j \in 1..k : s[1 + j] = d[j]
        BY <4>2
      <4>5. Len(s) = k + 1
        BY <4>2
      <4> QED BY <1>1, <4>3, <4>4, <4>5
    <3>6. b[1] = k /\ b[2] # Minus
      <4>1. 1 \in 1..size /\ 2 \in 1..size /\ 1 \in 1..k /\ 1 + 1 = 2
        BY <3>2, <3>5
      <4>2. b[1] = s[1] /\ b[2] = s[2] /\ s[1 + 1] = d[1]
        BY <1>3, <3>5, <4>1
      <4> QED BY <3>2, <3>3, <3>5, <4>1, <4>2 DEF Minus
    <3>7. PICK t : t = SubSeq(b, 2, k + 1)
      OBVIOUS
    <3>8. t = d
      <4>1. 2 \in Nat \ {0} /\ k + 1 \in Int /\ k + 1 <= Len(b)
        BY <1>2, <3>5
      <4>2. /\ t \in Seq(CharType) /\ Len(t) = IF 2 <= k + 1 THEN k + 1 - 2 + 1 ELSE 0
            /\ \A j \in 1..(k + 1 - 2 + 1) : t[j] = b[2 + j - 1]
        BY <3>7, <4>1, Piece
      <4>3. Len(t) = k
        BY <4>2
      <4>4. \A j \in 1..k : t[j] = d[j]
        <5> SUFFICES ASSUME NEW j \in 1..k
                     PROVE  t[j] = d[j]
          OBVIOUS
        <5>1. t[j] = b[1 + j]
          <6>1. j \in 1..(k + 1 - 2 + 1) /\ 2 + j - 1 = 1 + j
            OBVIOUS
          <6> QED BY <4>2, <6>1
        <5>2. b[1 + j] = s[1 + j]
          BY <1>3, <3>5
        <5> QED BY <3>5, <5>1, <5>2
      <4> QED BY <2>2, <4>2, <4>3, <4>4, SeqEqual
    <3>9. Max({k + 1, 1}) = k + 1
      <4>1. PICK e \in Int : e = k + 1 /\ 1 <= e
        OBVIOUS
      <4> QED BY <4>1, PairMax
    <3>10. DeserializeInteger(b) = [data |-> Value(t), next |-> Max({k + 1, 1})]
      <4>1. 1 + 1 = 2
        OBVIOUS
      <4> QED BY <3>6, <3>7, <4>1 DEF DeserializeInteger, Value
    <3> QED BY <1>1, <2>4, <3>1, <3>5, <3>8, <3>9, <3>10
  <2> QED BY <1>0, <1>5, <2>5, <2>6
<1> QED BY <1>4, <1>5

\* A string loses nothing in front of the first NUL.
LEMMA StringKept ==
  ASSUME NEW b \in Seq(CharType), NEW k \in 0..Len(b), \A i \in 1..k : b[i] # 0
  PROVE  /\ k <= Len(CString(b))
         /\ \A i \in 1..k : CString(b)[i] = b[i]
<1>1. PICK n \in Nat : n = Len(b) /\ DOMAIN b = 1..n
  BY LenProperties
<1> DEFINE I == {i \in 1..n : b[i] = 0}
<1>2. CString(b) = IF (IF I # {} THEN Min(I) ELSE 0) = 0 THEN b
                   ELSE SubSeq(b, 1, (IF I # {} THEN Min(I) ELSE 0) - 1)
  BY <1>1 DEF CString, SelectInSeq
<1>3. CASE I = {}
  <2>1. CString(b) = b
    BY <1>2, <1>3
  <2> QED BY <1>1, <2>1
<1>4. CASE I # {}
  <2>1. PICK z \in I : z = Min(I)
    <3>1. I \in SUBSET Nat
      OBVIOUS
    <3> HIDE DEF I
    <3> QED BY <1>4, <3>1, LeastPlace
  <2>2. z \in 1..n /\ z # 0 /\ z > k
    <3>1. z \in 1..n /\ b[z] = 0
      OBVIOUS
    <3>2. k \in Nat
      BY <1>1
    <3>3. ~(z \in 1..k)
      BY <3>1
    <3> QED BY <3>1, <3>2, <3>3
  <2>3. CString(b) = SubSeq(b, 1, z - 1)
    <3> HIDE DEF I
    <3> QED BY <1>2, <1>4, <2>1, <2>2
  <2>4. PICK m \in Nat : m = z - 1 /\ m <= n /\ k <= m
    BY <1>1, <2>2
  <2>5. /\ Len(SubSeq(b, 1, m)) = IF 1 <= m THEN m - 1 + 1 ELSE 0
        /\ \A j \in 1..(m - 1 + 1) : SubSeq(b, 1, m)[j] = b[1 + j - 1]
    <3>1. 1 \in Nat \ {0} /\ m \in Int /\ m <= Len(b)
      BY <1>1, <2>4
    <3> QED BY <3>1, Piece
  <2>6. Len(SubSeq(b, 1, m)) = m
    BY <2>5
  <2>7. \A j \in 1..k : SubSeq(b, 1, m)[j] = b[j]
    <3> SUFFICES ASSUME NEW j \in 1..k
                 PROVE  SubSeq(b, 1, m)[j] = b[j]
      OBVIOUS
    <3>1. k \in Nat
      BY <1>1
    <3>2. j \in 1..(m - 1 + 1) /\ 1 + j - 1 = j
      BY <2>4, <3>1
    <3> QED BY <2>5, <3>2
  <2> QED BY <2>3, <2>4, <2>6, <2>7
<1> QED BY <1>3, <1>4

\* Without a NUL it is the bytes.
LEMMA StringReadBack ==
  ASSUME NEW b \in StringType
  PROVE  CString(b) = b
<1>1. b \in Seq(CharType)
  BY DEF StringType
<1>2. PICK n \in Nat : n = Len(b)
  BY <1>1, LenProperties
<1>3. \A i \in 1..n : b[i] # 0
  <2> SUFFICES ASSUME NEW i \in 1..n
               PROVE  b[i] # 0
    OBVIOUS
  <2>1. PICK S : S = CharType \ {0}
    OBVIOUS
  <2>2. b \in Seq(S)
    BY <2>1 DEF StringType
  <2>3. b[i] \in S
    BY <1>2, <2>2, ElementOfSeq
  <2> QED BY <2>1, <2>3
<1>4. n \in 0..Len(b)
  BY <1>2
<1>5. PICK s \in Seq(CharType) : s = CString(b) /\ Len(s) <= n
  <2>1. CString(b) \in StringType /\ Len(CString(b)) <= n
    BY <1>1, <1>2, StringRead
  <2> QED BY <2>1 DEF StringType
<1>6. n <= Len(s) /\ \A i \in 1..n : s[i] = b[i]
  BY <1>1, <1>3, <1>4, <1>5, StringKept
<1>7. Len(s) = n
  <2>1. PICK m \in Nat : m = Len(s)
    BY LenProperties
  <2> QED BY <1>5, <1>6, <2>1
<1> QED BY <1>1, <1>2, <1>5, <1>6, <1>7, SeqEqual

\* An argument is read as it was written if its octet holds its length, and else is
\* refused or shortened.
LEMMA ArgumentReadBack ==
  ASSUME NEW a \in ArgType, NEW b \in Seq(CharType), Begins(b, SerializeArg(a))
  PROVE  /\ OctetHolds(a) => DeserializeArg(b) = [ok |-> TRUE, arg |-> a, next |-> SizeOf(a)]
         /\ DeserializeArg(b).ok => DeserializeArg(b).arg = Shortened(a)
<1>1. PICK s \in Seq(CharType), size \in Nat :
        s = SerializeArg(a) /\ size = Len(s) /\ size = SizeOf(a) /\ size >= 1
  BY ArgumentWritten
<1>2. PICK l \in Nat : l = Len(b) /\ size <= l
  BY <1>1, LenProperties DEF Begins
<1>3. \A k \in 1..size : b[k] = s[k]
  BY <1>1 DEF Begins
<1>4. Void = 0 /\ Int32 = 1 /\ Str = 2
  BY DEF Void, Int32, Str
<1>5. b[1] = a.typ
  <2>1. s[1] = a.typ /\ 1 \in 1..size
    BY <1>1, ArgumentWritten
  <2> QED BY <1>3, <2>1
<1>6. CASE a.typ = Void
  <2>1. a = [typ |-> Void, data |-> NULL]
    BY <1>4, <1>6 DEF ArgType
  <2>2. SizeOf(a) = 1 /\ Shortened(a) = a
    BY <1>4, <1>6 DEF SizeOf, Shortened
  <2>3. DeserializeArg(b) = [ok |-> TRUE, arg |-> [typ |-> Void, data |-> NULL], next |-> 1]
    BY <1>4, <1>5, <1>6 DEF DeserializeArg
  <2>4. DeserializeArg(b) = [ok |-> TRUE, arg |-> a, next |-> SizeOf(a)]
    BY <2>1, <2>2, <2>3
  <2>5. DeserializeArg(b).arg = a
    BY <2>4
  <2> QED BY <2>2, <2>4, <2>5
<1>7. CASE a.typ = Int32
  <2>1. PICK n \in IntType : n = a.data /\ a = [typ |-> Int32, data |-> n]
    BY <1>4, <1>7 DEF ArgType
  <2>2. PICK u \in Seq(CharType), k \in Nat :
          u = SerializeInteger(n) /\ Len(u) = k /\ k = IntegerLength(n)
    <3>1. n \in Int
      BY Conversions
    <3> QED BY <3>1, IntegerWritten, IntegerLengths
  <2>3. s = <<Int32>> \o u
    BY <1>1, <1>4, <1>7, <2>1, <2>2 DEF SerializeArg
  <2>4. size = 1 + k /\ \A j \in 1..k : s[1 + j] = u[j]
    <3>1. <<Int32>> \in Seq(CharType) /\ Len(<<Int32>>) = 1
      <4>1. Int32 \in CharType
        BY <1>4, Chars
      <4> QED BY <4>1
    <3>2. /\ Len(s) = 1 + k
          /\ \A j \in 1..(1 + k) : s[j] = IF j <= 1 THEN <<Int32>>[j] ELSE u[j - 1]
      BY <2>2, <2>3, <3>1, ConcatProperties
    <3>3. \A j \in 1..k : s[1 + j] = u[j]
      <4> SUFFICES ASSUME NEW j \in 1..k
                   PROVE  s[1 + j] = u[j]
        OBVIOUS
      <4>1. 1 + j \in 1..(1 + k) /\ ~(1 + j <= 1) /\ (1 + j) - 1 = j
        BY <2>2
      <4> QED BY <3>2, <4>1
    <3>4. Len(s) = 1 + k
      BY <3>2
    <3> QED BY <1>1, <3>3, <3>4
  <2>5. PICK t : t = Tail(b)
    OBVIOUS
  <2>6. t \in Seq(CharType) /\ Begins(t, SerializeInteger(n))
    <3>1. b # << >>
      BY <1>1, <1>2
    <3>2. /\ t \in Seq(CharType) /\ Len(t) = l - 1
          /\ \A j \in 1..(l - 1) : t[j] = b[j + 1]
      BY <1>2, <2>5, <3>1, HeadTailProperties
    <3>3. \A j \in 1..k : t[j] = u[j]
      <4> SUFFICES ASSUME NEW j \in 1..k
                   PROVE  t[j] = u[j]
        OBVIOUS
      <4>1. j \in 1..(l - 1) /\ j + 1 \in 1..size /\ j + 1 = 1 + j
        BY <1>2, <2>4
      <4>2. t[j] = b[j + 1] /\ b[j + 1] = s[j + 1]
        BY <1>3, <3>2, <4>1
      <4> QED BY <2>4, <4>1, <4>2
    <3>4. k <= l - 1
      BY <1>2, <2>4
    <3> QED BY <2>2, <3>2, <3>3, <3>4 DEF Begins
  <2>7. DeserializeInteger(t) = [data |-> n, next |-> k]
    BY <2>2, <2>6, IntegerReadBack
  <2>8. DeserializeArg(b) =
          [ok |-> TRUE, arg |-> [typ |-> Int32, data |-> n], next |-> 1 + k]
    <3>1. PICK i : i = DeserializeInteger(Tail(b))
      OBVIOUS
    <3>2. i.data = n /\ i.next = k
      BY <2>5, <2>7, <3>1
    <3>3. DeserializeArg(b) =
            [ok |-> TRUE, arg |-> [typ |-> Int32, data |-> i.data], next |-> 1 + i.next]
      BY <1>4, <1>5, <1>7, <3>1 DEF DeserializeArg
    <3> QED BY <3>2, <3>3
  <2>9. Shortened(a) = a
    BY <1>4, <1>7 DEF Shortened
  <2>10. DeserializeArg(b) = [ok |-> TRUE, arg |-> a, next |-> SizeOf(a)]
    BY <1>1, <2>1, <2>4, <2>8
  <2>11. DeserializeArg(b).arg = a
    BY <2>10
  <2> QED BY <2>9, <2>10, <2>11
<1>8. CASE a.typ = Str
  <2>1. PICK d \in StringType, n \in Nat : d = a.data /\ n = Len(d) /\ a = [typ |-> Str, data |-> d]
    <3>1. a.data \in StringType /\ a = [typ |-> Str, data |-> a.data]
      BY <1>4, <1>8 DEF ArgType
    <3>2. a.data \in Seq(CharType)
      BY <3>1 DEF StringType
    <3> QED BY <3>1, <3>2, LenProperties
  <2>2. PICK c \in CharType : c = Char(n)
    BY Conversions
  <2>3. s = <<Str, c>> \o d
    BY <1>1, <1>4, <1>8, <2>1, <2>2 DEF SerializeArg
  <2>4. d \in Seq(CharType)
    BY DEF StringType
  <2>5. size = 2 + n /\ s[2] = c /\ \A j \in 1..n : s[2 + j] = d[j]
    <3>1. PICK head : head = <<Str, c>>
      OBVIOUS
    <3>2. head \in Seq(CharType) /\ Len(head) = 2 /\ head[2] = c
      <4>1. Str \in CharType
        BY <1>4, Chars
      <4>2. <<Str, c>> \in Seq(CharType) /\ Len(<<Str, c>>) = 2 /\ <<Str, c>>[2] = c
        BY <4>1
      <4> QED BY <3>1, <4>2
    <3>3. /\ Len(s) = 2 + n
          /\ \A j \in 1..(2 + n) : s[j] = IF j <= 2 THEN head[j] ELSE d[j - 2]
      BY <2>1, <2>3, <2>4, <3>1, <3>2, ConcatProperties
    <3>4. \A j \in 1..n : s[2 + j] = d[j]
      BY <3>3
    <3>5. s[2] = c
      BY <3>2, <3>3
    <3>6. Len(s) = 2 + n
      BY <3>3
    <3> QED BY <1>1, <3>4, <3>5, <3>6
  <2>6. b[2] = c /\ \A j \in 1..n : b[2 + j] = d[j]
    <3>1. 2 \in 1..size
      BY <2>5
    <3>2. \A j \in 1..n : 2 + j \in 1..size
      BY <2>5
    <3> QED BY <1>3, <2>5, <3>1, <3>2
  <2>7. PICK e \in Int : e = c /\ -128 <= e /\ e <= 127 /\ (e >= 0 => e = n % 256)
                          /\ (n <= 127 => e = n)
    <3>1. PICK e \in Int : e = c
      BY DEF CharType
    <3>2. -128 <= e /\ e <= 127
      BY <3>1, Chars
    <3>3. e = ((n + 128) % 256) - 128
      <4>1. 2^(8 - 1) = 128 /\ 2^8 = 256
        OBVIOUS
      <4> QED BY <2>2, <3>1, <4>1 DEF Char, Wrap
    <3>4. e >= 0 => e = n % 256
      BY <3>3
    <3>5. n <= 127 => e = n
      BY <3>3
    <3> QED BY <3>1, <3>2, <3>4, <3>5
  <2>8. CASE e < 0
    <3>1. b[1] # Void /\ b[1] # Int32 /\ ~(b[2] >= 0)
      BY <1>4, <1>5, <1>8, <2>6, <2>7, <2>8
    <3>2. DeserializeArg(b) = [ok |-> FALSE]
      BY <3>1 DEF DeserializeArg
    <3>3. ~(n <= 127)
      BY <2>7, <2>8
    <3> QED BY <1>8, <2>1, <3>2, <3>3 DEF OctetHolds
  <2>9. CASE e >= 0
    <3>1. e <= n /\ e \in Nat
      BY <2>7, <2>9
    <3>2. PICK t : t = SubSeq(b, 3, 2 + e)
      OBVIOUS
    <3>3. PICK v : v = SubSeq(d, 1, e)
      OBVIOUS
    <3>4. /\ v \in Seq(CharType) /\ Len(v) = e /\ \A j \in 1..e : v[j] = d[j]
      <4>1. 1 \in Nat \ {0} /\ e \in Int /\ e <= Len(d)
        BY <2>1, <3>1
      <4>2. /\ v \in Seq(CharType) /\ Len(v) = IF 1 <= e THEN e - 1 + 1 ELSE 0
            /\ \A j \in 1..(e - 1 + 1) : v[j] = d[1 + j - 1]
        BY <2>4, <3>3, <4>1, Piece
      <4>3. Len(v) = e
        BY <3>1, <4>2
      <4>4. \A j \in 1..e : v[j] = d[j]
        <5> SUFFICES ASSUME NEW j \in 1..e
                     PROVE  v[j] = d[j]
          OBVIOUS
        <5>1. j \in 1..(e - 1 + 1) /\ 1 + j - 1 = j
          BY <3>1
        <5> QED BY <4>2, <5>1
      <4> QED BY <4>2, <4>3, <4>4
    <3>5. t = v
      <4>1. 3 \in Nat \ {0} /\ 2 + e \in Int /\ 2 + e <= Len(b)
        BY <1>2, <2>5, <3>1
      <4>2. /\ t \in Seq(CharType) /\ Len(t) = IF 3 <= 2 + e THEN 2 + e - 3 + 1 ELSE 0
            /\ \A j \in 1..(2 + e - 3 + 1) : t[j] = b[3 + j - 1]
        BY <3>2, <4>1, Piece
      <4>3. Len(t) = e
        BY <3>1, <4>2
      <4>4. \A j \in 1..e : t[j] = v[j]
        <5> SUFFICES ASSUME NEW j \in 1..e
                     PROVE  t[j] = v[j]
          OBVIOUS
        <5>1. j \in 1..(2 + e - 3 + 1) /\ 3 + j - 1 = 2 + j /\ j \in 1..n
          BY <3>1
        <5>2. t[j] = b[3 + j - 1]
          BY <4>2, <5>1
        <5>3. b[2 + j] = d[j] /\ v[j] = d[j]
          BY <2>6, <3>4, <5>1
        <5> QED BY <5>1, <5>2, <5>3
      <4> QED BY <3>4, <4>2, <4>3, <4>4, SeqEqual
    <3>6. v \in StringType
      <4>1. PICK S : S = CharType \ {0}
        OBVIOUS
      <4>2. d \in Seq(S)
        BY <4>1 DEF StringType
      <4>3. \A j \in 1..e : d[j] \in S
        <5> SUFFICES ASSUME NEW j \in 1..e
                     PROVE  d[j] \in S
          OBVIOUS
        <5>1. j \in 1..n
          BY <3>1
        <5> QED BY <2>1, <4>2, <5>1, ElementOfSeq
      <4>4. \A j \in 1..e : v[j] \in S
        BY <3>4, <4>3
      <4>5. v = [j \in 1..e |-> v[j]]
        BY <3>4
      <4>6. v \in Seq(S)
        BY <3>1, <4>4, <4>5, IsASeq
      <4> QED BY <4>1, <4>6 DEF StringType
    <3>7. CString(t) = v
      BY <3>5, <3>6, StringReadBack
    <3>8. DeserializeArg(b) = [ok |-> TRUE, arg |-> [typ |-> Str, data |-> v], next |-> 2 + e]
      <4>1. b[1] # Void /\ b[1] # Int32 /\ b[1] = Str /\ b[2] >= 0 /\ b[2] = e
        BY <1>4, <1>5, <1>8, <2>6, <2>7, <2>9
      <4> QED BY <3>2, <3>7, <4>1 DEF DeserializeArg
    <3>9. Shortened(a) = [typ |-> Str, data |-> v]
      <4>1. n % 256 = e
        BY <2>7, <2>9
      <4> QED BY <1>8, <2>1, <3>3, <4>1, ZenonT(60) DEF Shortened
    <3>10. OctetHolds(a) => v = d /\ 2 + e = size
      <4> SUFFICES ASSUME OctetHolds(a)
                   PROVE  v = d /\ 2 + e = size
        OBVIOUS
      <4>1. n <= 127
        BY <1>8, <2>1 DEF OctetHolds
      <4>2. e = n
        BY <2>7, <4>1
      <4>3. \A j \in 1..Len(v) : v[j] = d[j]
        BY <3>4
      <4>4. v = d
        BY <2>1, <2>4, <3>4, <4>2, <4>3, SeqEqual
      <4> QED BY <2>5, <4>2, <4>4
    <3>11. DeserializeArg(b).arg = Shortened(a)
      BY <3>8, <3>9
    <3>12. ASSUME OctetHolds(a)
           PROVE  DeserializeArg(b) = [ok |-> TRUE, arg |-> a, next |-> SizeOf(a)]
      <4>1. v = d /\ 2 + e = SizeOf(a)
        BY <1>1, <3>10, <3>12
      <4> QED BY <2>1, <3>8, <4>1
    <3> QED BY <3>11, <3>12
  <2> QED BY <2>7, <2>8, <2>9
<1> QED BY <1>6, <1>7, <1>8 DEF ArgType

\* The bytes of an argument stand in the frame where those before it end.
LEMMA ArgumentsLaid ==
  ASSUME NEW m \in MessageType, NEW g, NEW h, MessageRuns(m, g, h),
         NEW n \in Nat, n = Len(m.argv)
  PROVE  /\ \A k \in 0..n : h[k] <= h[n]
         /\ \A k \in 1..n : \A j \in 1..SizeOf(m.argv[k]) :
              SerializeMessage(m).bytes[h[k - 1] + j] = SerializeArg(m.argv[k])[j]
<1>1. /\ g \in [0..n -> Seq(CharType)] /\ h \in [0..n -> Nat]
      /\ h[0] = 0 /\ g[n] = SerializeMessage(m).bytes
      /\ \A k \in 1..n : g[k] = g[k - 1] \o SerializeArg(m.argv[k])
      /\ \A k \in 0..n : Len(g[k]) = h[k]
  BY DEF MessageRuns
<1>2. \A k \in 1..n : /\ SerializeArg(m.argv[k]) \in Seq(CharType)
                      /\ SizeOf(m.argv[k]) \in Nat
                      /\ Len(SerializeArg(m.argv[k])) = SizeOf(m.argv[k])
  <2>1. \A k \in 1..n : m.argv[k] \in ArgType
    <3>1. m.argv \in Seq(ArgType)
      BY DEF MessageType
    <3> QED BY <3>1, ElementOfSeq
  <2> QED BY <2>1, ArgumentWritten
<1> DEFINE G == {k \in 0..n : \A i \in 0..k : h[i] <= h[k] /\ \A j \in 1..h[i] : g[k][j] = g[i][j]}
<1>3. 0 \in G
  <2>1. h[0] <= h[0]
    BY <1>1
  <2>2. \A i \in 0..0 : i = 0
    OBVIOUS
  <2> QED BY <2>1, <2>2
<1>4. ASSUME NEW k \in 1..n, k - 1 \in G
      PROVE  k \in G
  <2>0. PICK u, v, x, y : /\ u = g[k - 1] /\ v = SerializeArg(m.argv[k])
                          /\ x = h[k - 1] /\ y = SizeOf(m.argv[k])
    OBVIOUS
  <2>1. /\ u \in Seq(CharType) /\ v \in Seq(CharType) /\ x \in Nat /\ y \in Nat
        /\ x = Len(u) /\ y = Len(v)
    <3>1. k - 1 \in 0..n
      OBVIOUS
    <3>2. u \in Seq(CharType) /\ x \in Nat /\ Len(u) = x
      BY <1>1, <2>0, <3>1
    <3>3. v \in Seq(CharType) /\ y \in Nat /\ Len(v) = y
      BY <1>2, <2>0
    <3> QED BY <3>2, <3>3
  <2>2. /\ g[k] = u \o v /\ Len(u \o v) = x + y
        /\ \A j \in 1..(x + y) : (u \o v)[j] = IF j <= x THEN u[j] ELSE v[j - x]
    <3>1. g[k] = u \o v
      BY <1>1, <2>0
    <3> QED BY <2>1, <3>1, ConcatProperties
  <2>3. h[k] = x + y
    <3>1. g[k] = u \o v /\ Len(u \o v) = x + y
      BY <2>2
    <3>2. Len(g[k]) = h[k]
      BY <1>1
    <3> QED BY <3>1, <3>2
  <2>4. ASSUME NEW i \in 0..k
        PROVE  h[i] <= h[k] /\ \A j \in 1..h[i] : g[k][j] = g[i][j]
    <3>1. CASE i = k
      <4>1. h[k] <= h[k]
        BY <2>1, <2>3
      <4> QED BY <3>1, <4>1
    <3>2. CASE i # k
      <4>1. i \in 0..(k - 1)
        BY <3>2
      <4>2. PICK z \in Nat : z = h[i] /\ z <= x
        BY <1>1, <1>4, <2>0, <2>1, <4>1
      <4>3. \A j \in 1..z : u[j] = g[i][j]
        BY <1>4, <2>0, <4>1, <4>2
      <4>4. \A j \in 1..z : g[k][j] = u[j]
        <5> SUFFICES ASSUME NEW j \in 1..z
                     PROVE  g[k][j] = u[j]
          OBVIOUS
        <5>1. j \in 1..(x + y) /\ j <= x
          BY <2>1, <4>2
        <5> QED BY <2>2, <5>1
      <4>5. z <= x + y
        BY <2>1, <4>2
      <4>6. \A j \in 1..z : g[k][j] = g[i][j]
        BY <4>3, <4>4
      <4> QED BY <2>3, <4>2, <4>5, <4>6
    <3> QED BY <3>1, <3>2
  <2> QED BY <2>4
<1> HIDE DEF G
<1>5. \A k \in 0..n : k \in G
  BY <1>3, <1>4, UpTo
<1>6. \A k \in 0..n : h[k] <= h[n] /\ \A j \in 1..h[k] : g[n][j] = g[k][j]
  <2>1. n \in G
    BY <1>5
  <2> QED BY <2>1 DEF G
<1>7. ASSUME NEW k \in 1..n, NEW j \in 1..SizeOf(m.argv[k])
      PROVE  g[n][h[k - 1] + j] = SerializeArg(m.argv[k])[j]
  <2>0. PICK u, v, x, y : /\ u = g[k - 1] /\ v = SerializeArg(m.argv[k])
                          /\ x = h[k - 1] /\ y = SizeOf(m.argv[k])
    OBVIOUS
  <2>1. /\ u \in Seq(CharType) /\ v \in Seq(CharType) /\ x \in Nat /\ y \in Nat
        /\ x = Len(u) /\ y = Len(v)
    <3>1. k - 1 \in 0..n
      OBVIOUS
    <3>2. u \in Seq(CharType) /\ x \in Nat /\ Len(u) = x
      BY <1>1, <2>0, <3>1
    <3>3. v \in Seq(CharType) /\ y \in Nat /\ Len(v) = y
      BY <1>2, <2>0
    <3> QED BY <3>2, <3>3
  <2>2. /\ g[k] = u \o v /\ Len(u \o v) = x + y
        /\ \A i \in 1..(x + y) : (u \o v)[i] = IF i <= x THEN u[i] ELSE v[i - x]
    <3>1. g[k] = u \o v
      BY <1>1, <2>0
    <3> QED BY <2>1, <3>1, ConcatProperties
  <2>3. h[k] = x + y
    <3>1. g[k] = u \o v /\ Len(u \o v) = x + y
      BY <2>2
    <3>2. Len(g[k]) = h[k]
      BY <1>1
    <3> QED BY <3>1, <3>2
  <2>4. x + j \in 1..(x + y) /\ ~(x + j <= x) /\ (x + j) - x = j
    <3>1. x \in Nat /\ y \in Nat /\ j \in 1..y
      BY <2>0, <2>1
    <3> QED BY <3>1
  <2>5. (u \o v)[x + j] = v[j]
    BY <2>2, <2>4
  <2>6. g[n][x + j] = g[k][x + j]
    BY <1>6, <2>3, <2>4
  <2> QED BY <2>0, <2>2, <2>5, <2>6
<1>8. \A k \in 0..n : h[k] <= h[n]
  BY <1>6
<1>9. PICK d : d = SerializeMessage(m).bytes /\ d = g[n]
  BY <1>1
<1>10. \A k \in 1..n : \A j \in 1..SizeOf(m.argv[k]) :
         d[h[k - 1] + j] = SerializeArg(m.argv[k])[j]
  BY <1>7, <1>9
<1> QED BY <1>8, <1>9, <1>10

\* How many bytes the first arguments take.
LEMMA SizeOfFirst ==
  ASSUME NEW m \in MessageType, NEW g, NEW h, MessageRuns(m, g, h),
         NEW n \in Nat, n = Len(m.argv), NEW i \in 1..n
  PROVE  ArgSize(SubSeq(m.argv, 1, i)) = h[i]
<1>1. h \in [0..n -> Nat] /\ h[0] = 0 /\ \A k \in 1..n : h[k] = h[k - 1] + SizeOf(m.argv[k])
  BY DEF MessageRuns
<1>2. m.argv \in Seq(ArgType)
  BY DEF MessageType
<1>3. \A k \in 1..n : m.argv[k] \in ArgType
  BY <1>2, ElementOfSeq
<1>4. PICK p : p = SubSeq(m.argv, 1, i)
  OBVIOUS
<1>5. p \in Seq(ArgType) /\ Len(p) = i /\ \A k \in 1..i : p[k] = m.argv[k]
  <2>1. PICK S : S = ArgType
    OBVIOUS
  <2>2. \A k \in 1..i : m.argv[k] \in S
    BY <1>3, <2>1
  <2>3. 1 \in Int /\ i \in Int
    OBVIOUS
  <2>4. /\ SubSeq(m.argv, 1, i) \in Seq(S)
        /\ Len(SubSeq(m.argv, 1, i)) = IF 1 <= i THEN i - 1 + 1 ELSE 0
        /\ \A k \in 1..(i - 1 + 1) : SubSeq(m.argv, 1, i)[k] = m.argv[1 + k - 1]
    BY <2>2, <2>3, SubSeqProperties
  <2>5. Len(p) = i
    BY <1>4, <2>4
  <2>6. \A k \in 1..i : p[k] = m.argv[k]
    <3> SUFFICES ASSUME NEW k \in 1..i
                 PROVE  p[k] = m.argv[k]
      OBVIOUS
    <3>1. k \in 1..(i - 1 + 1) /\ 1 + k - 1 = k
      OBVIOUS
    <3> QED BY <1>4, <2>4, <3>1
  <2> QED BY <1>4, <2>1, <2>4, <2>5, <2>6
<1>6. PICK f \in [0..i -> Nat] :
        f[0] = 0 /\ f[i] = ArgSize(p) /\ \A k \in 1..i : f[k] = f[k - 1] + SizeOf(p[k])
  BY <1>5, ArgSizeRun
<1> DEFINE G == {k \in 0..i : f[k] = h[k]}
<1>7. 0 \in G
  BY <1>1, <1>6
<1>8. ASSUME NEW k \in 1..i, k - 1 \in G
      PROVE  k \in G
  <2>1. f[k - 1] = h[k - 1] /\ p[k] = m.argv[k] /\ k \in 1..n
    BY <1>5, <1>8
  <2>2. f[k] = h[k]
    BY <1>1, <1>6, <2>1
  <2> QED BY <2>2
<1> HIDE DEF G
<1>9. \A k \in 0..i : k \in G
  <2>1. i \in Nat
    OBVIOUS
  <2> QED BY <1>7, <1>8, <2>1, UpTo
<1>10. f[i] = h[i]
  <2>1. i \in 0..i
    OBVIOUS
  <2> QED BY <1>9, <2>1 DEF G
<1> QED BY <1>4, <1>6, <1>10

\* An argument is told as it was if it arrived and no octet before it overflowed.
Told(m, n, i) ==
  n >= ArgSize(SubSeq(m.argv, 1, i)) /\ \A j \in 1..(i - 1) : OctetHolds(m.argv[j])

\* What the reading r of n bytes says of the message m.
Tells(r, m, n) ==
  /\ r # NULL => \A i \in 1..Len(m.argv) : Told(m, n, i) => r.argv[i] = Shortened(m.argv[i])
  /\ n = ArgSize(m.argv) /\ (\A i \in 1..Len(m.argv) : OctetHolds(m.argv[i])) => r # NULL

\* deserialize_message tells the arguments that arrived, up to the first whose octet
\* overflowed, and refuses no whole message without such an argument.
LEMMA MessageReadBack ==
  ASSUME NEW m \in MessageType, NEW w, w = SerializeMessage(m), NEW n \in 0..w.size,
         NEW b \in Seq(CharType), Len(b) >= w.size, Len(b) >= 129 * Len(m.argv),
         \A i \in 1..n : b[i] = w.bytes[i],
         NEW r, r = DeserializeMessage(w, b)
  PROVE  Tells(r, m, n)
<1>1. m.argv \in Seq(ArgType)
  BY DEF MessageType
<1>2. PICK argc \in Nat : argc = Len(m.argv)
  BY <1>1, LenProperties
<1>3. PICK args : args = m.argv
  OBVIOUS
<1>4. PICK g, h : MessageRuns(m, g, h)
  BY MessageRun
<1>5. PICK size \in Nat : size = w.size /\ size = h[argc] /\ n \in 0..size
  <2>1. PICK size : size = w.size
    OBVIOUS
  <2>2. size = h[argc]
    BY <1>2, <1>4, <2>1 DEF MessageRuns
  <2>3. h \in [0..argc -> Nat] /\ argc \in 0..argc
    BY <1>2, <1>4 DEF MessageRuns
  <2> QED BY <2>1, <2>2, <2>3
<1>6. /\ h \in [0..argc -> Nat] /\ h[0] = 0
      /\ \A k \in 1..argc : h[k] = h[k - 1] + SizeOf(args[k])
  BY <1>2, <1>3, <1>4 DEF MessageRuns
<1>7. /\ \A k \in 0..argc : h[k] <= size
      /\ \A k \in 1..argc : \A j \in 1..SizeOf(args[k]) :
              w.bytes[h[k - 1] + j] = SerializeArg(args[k])[j]
  BY <1>2, <1>3, <1>4, <1>5, ArgumentsLaid
<1>8. \A k \in 1..argc : args[k] \in ArgType
  BY <1>1, <1>2, <1>3, ElementOfSeq
<1>9. PICK l \in Nat : l = Len(b) /\ size <= l
  BY <1>5, LenProperties
<1>10. PICK H : ArgumentsRun(H, b, argc)
  BY <1>2, ArgumentsRead
<1>11. /\ H[0] = [argv |-> << >>, next |-> 0] /\ H[argc] = DeserializeArgs(b, argc)
       /\ \A k \in 1..argc : H[k] = NextArg(b, H[k - 1])
       /\ \A k \in 0..argc : H[k] \in ReadAfter(k)
  BY <1>10 DEF ArgumentsRun
<1> DEFINE Octets(k) == \A j \in 1..k : OctetHolds(args[j])
           Placed(k) == h[k] <= n /\ Octets(k) => H[k] # NULL /\ H[k].next = h[k]
           True(k)   == H[k] # NULL =>
                          \A i \in 1..k : h[i] <= n /\ Octets(i - 1) => H[k].argv[i] = Shortened(args[i])
           G == {k \in 0..argc : Placed(k) /\ True(k)}
<1>12. 0 \in G
  <2>1. PICK e : e = [argv |-> << >>, next |-> 0]
    OBVIOUS
  <2>2. e \in ReadType
    BY <1>11, <2>1 DEF ReadAfter
  <2>3. e \in [argv : Seq(ArgType), next : Nat]
    <3>1. PICK q : q = << >>
      OBVIOUS
    <3>2. q \in Seq(ArgType)
      BY <3>1
    <3> QED BY <2>1, <3>1, <3>2
  <2>4. e # NULL /\ e.next = 0
    BY <2>1, <2>3, CodecAssumption
  <2> QED BY <1>6, <1>11, <2>1, <2>4
<1>13. ASSUME NEW k \in 1..argc, k - 1 \in G
       PROVE  k \in G
  <2>1. PICK p \in Nat : p = k - 1 /\ p \in 0..argc /\ k = p + 1
    OBVIOUS
  <2>2. PICK x : x = H[p] /\ x \in ReadAfter(p) /\ H[k] = NextArg(b, x)
    BY <1>11, <2>1
  <2>3. PICK o \in Nat, y \in Nat, e \in Nat : o = h[p] /\ y = SizeOf(args[k]) /\ e = h[k] /\ e = o + y
    <3>1. PICK o, y, e : o = h[p] /\ y = SizeOf(args[k]) /\ e = h[k]
      OBVIOUS
    <3>2. o \in Nat /\ y \in Nat /\ e = o + y
      BY <1>6, <1>8, <2>1, <3>1, ArgumentWritten
    <3> QED BY <3>1, <3>2
  <2>4. e <= n => o <= n
    BY <1>5, <2>3
  <2>5. Octets(k) <=> Octets(p) /\ OctetHolds(args[k])
    BY <2>1
  <2>6. CASE x = NULL
    <3>1. H[k] = NULL
      BY <2>2, <2>6 DEF NextArg
    <3>2. ~(o <= n /\ Octets(p))
      BY <1>13, <2>1, <2>2, <2>3, <2>6
    <3>3. Placed(k) /\ True(k)
      <4> HIDE DEF Octets
      <4> QED BY <2>3, <2>4, <2>5, <3>1, <3>2
    <3> QED BY <3>3
  <2>7. CASE x # NULL
    <3>1. PICK q \in Seq(ArgType), f \in Nat : q = x.argv /\ f = x.next /\ Len(q) = p
      BY <2>2, <2>7 DEF ReadAfter, ReadType
    <3>2. PICK t : t = SubSeq(b, f + 1, l)
      OBVIOUS
    <3>3. PICK d : d = DeserializeArg(t)
      OBVIOUS
    <3>4. H[k] = IF d.ok THEN [argv |-> Append(q, d.arg), next |-> f + d.next] ELSE NULL
      BY <1>9, <2>2, <2>7, <3>1, <3>2, <3>3 DEF NextArg
    <3>5. ASSUME e <= n, Octets(p)
          PROVE  /\ f = o /\ (d.ok => d.arg = Shortened(args[k]))
                 /\ OctetHolds(args[k]) => d.ok /\ d.arg = args[k] /\ d.next = y
      <4>1. f = o
        BY <1>13, <2>1, <2>2, <2>3, <2>4, <2>7, <3>1, <3>5
      <4>2. t \in Seq(CharType) /\ Begins(t, SerializeArg(args[k]))
        <5>1. e <= l
          BY <1>5, <1>9, <2>3, <3>5
        <5>2. o + 1 \in Nat \ {0} /\ l \in Int /\ l <= Len(b)
          BY <1>9, <2>3, SMTT(40)
        <5>3. /\ t \in Seq(CharType) /\ Len(t) = IF o + 1 <= l THEN l - (o + 1) + 1 ELSE 0
              /\ \A j \in 1..(l - (o + 1) + 1) : t[j] = b[(o + 1) + j - 1]
          BY <3>2, <4>1, <5>2, Piece, SMTT(40)
        <5>4. y <= Len(t)
          <6>1. Len(t) = IF o + 1 <= l THEN l - (o + 1) + 1 ELSE 0
            BY <5>3
          <6>2. o <= l /\ y <= l - o
            BY <2>3, <5>1
          <6>3. CASE o + 1 <= l
            <7>1. Len(t) = l - o
              BY <1>9, <2>3, <6>1, <6>3
            <7> QED BY <6>2, <7>1
          <6>4. CASE ~(o + 1 <= l)
            <7>1. Len(t) = 0
              BY <6>1, <6>4
            <7>2. y <= 0
              BY <1>9, <2>3, <6>2, <6>4
            <7> QED BY <7>1, <7>2
          <6> QED BY <6>3, <6>4
        <5>5. \A j \in 1..y : t[j] = SerializeArg(args[k])[j]
          <6> SUFFICES ASSUME NEW j \in 1..y
                       PROVE  t[j] = SerializeArg(args[k])[j]
            OBVIOUS
          <6>1. j \in 1..(l - (o + 1) + 1) /\ (o + 1) + j - 1 = o + j /\ o + j \in 1..n
            <7>1. PICK v \in Nat : v = j /\ v >= 1 /\ v <= y
              BY <2>3
            <7>2. o + v <= l /\ o + v <= n
              BY <1>5, <1>9, <2>3, <3>5, <5>1, <7>1, SMTT(40)
            <7>3. v <= l - (o + 1) + 1 /\ (o + 1) + v - 1 = o + v
              <8>1. l \in Nat /\ o \in Nat /\ v \in Nat /\ o + v <= l
                BY <1>9, <2>3, <7>1, <7>2
              <8> QED BY <8>1
            <7>4. o + v \in 1..n
              <8>1. n \in Nat /\ o \in Nat /\ v \in Nat
                BY <1>5, <2>3, <7>1
              <8>2. v >= 1 /\ o + v <= n
                BY <7>1, <7>2
              <8> QED BY <8>1, <8>2
            <7>5. v \in 1..(l - (o + 1) + 1)
              <8>1. l \in Nat /\ o \in Nat /\ v \in Nat
                BY <1>9, <2>3, <7>1
              <8> QED BY <7>1, <7>3, <8>1
            <7> QED BY <7>1, <7>3, <7>4, <7>5
          <6>2. t[j] = b[o + j] /\ b[o + j] = w.bytes[o + j]
            BY <5>3, <6>1
          <6>3. w.bytes[o + j] = SerializeArg(args[k])[j]
            BY <1>7, <2>1, <2>3
          <6> QED BY <6>2, <6>3
        <5>6. Len(SerializeArg(args[k])) = y
          BY <1>8, <2>3, ArgumentWritten
        <5> QED BY <5>3, <5>4, <5>5, <5>6 DEF Begins
      <4>3. /\ OctetHolds(args[k]) => d = [ok |-> TRUE, arg |-> args[k], next |-> y]
            /\ d.ok => d.arg = Shortened(args[k])
        BY <1>8, <2>3, <3>3, <4>2, ArgumentReadBack
      <4> QED BY <4>1, <4>3
    <3>6. CASE ~d.ok
      <4>1. H[k] = NULL
        BY <3>4, <3>6
      <4>2. ~(e <= n /\ Octets(k))
        <5> HIDE DEF Octets
        <5> QED BY <2>5, <3>5, <3>6
      <4>3. Placed(k) /\ True(k)
        <5> HIDE DEF Octets
        <5> QED BY <2>3, <4>1, <4>2
      <4> QED BY <4>3
    <3>7. CASE d.ok
      <4>1. PICK a \in ArgType, z \in 1..129 : a = d.arg /\ z = d.next
        <5>1. f <= 129 * p
          BY <2>2, <2>7, <3>1 DEF ReadAfter
        <5>2. l >= 129 * argc
          BY <1>2, <1>9
        <5>3. f + 129 <= l
          <6>1. p + 1 <= argc
            BY <2>1
          <6> QED BY <5>1, <5>2, <6>1
        <5>4. t \in Seq(CharType) /\ Len(t) >= 129
          <6>1. f + 1 \in Nat \ {0} /\ l \in Int /\ l <= Len(b)
            BY <1>9
          <6>2. t \in Seq(CharType) /\ Len(t) = IF f + 1 <= l THEN l - (f + 1) + 1 ELSE 0
            BY <3>2, <6>1, Piece
          <6>3. f + 1 <= l /\ l - (f + 1) + 1 >= 129
            BY <1>9, <3>1, <5>3
          <6> QED BY <6>2, <6>3
        <5> QED BY <3>3, <3>7, <5>4, ArgumentRead
      <4>2. PICK u : u = Append(q, a)
        OBVIOUS
      <4>3. /\ u \in Seq(ArgType) /\ Len(u) = p + 1
            /\ (\A i \in 1..p : u[i] = q[i]) /\ u[p + 1] = a
        BY <3>1, <4>2, AppendProperties
      <4>4. H[k] = [argv |-> u, next |-> f + z]
        BY <3>4, <3>7, <4>1, <4>2
      <4>5. H[k] # NULL
        <5>1. f + z \in Nat
          OBVIOUS
        <5>2. H[k] \in [argv : Seq(ArgType), next : Nat]
          BY <4>3, <4>4, <5>1
        <5> QED BY <5>2, CodecAssumption
      <4>6. Placed(k)
        <5> SUFFICES ASSUME e <= n, Octets(k)
                     PROVE  H[k].next = e
          BY <2>3, <4>5
        <5>1. f = o /\ z = y
          BY <2>5, <3>5, <4>1
        <5> QED BY <2>3, <4>4, <5>1
      <4>7. True(k)
        <5> SUFFICES ASSUME NEW i \in 1..k, h[i] <= n, Octets(i - 1)
                     PROVE  H[k].argv[i] = Shortened(args[i])
          OBVIOUS
        <5>1. CASE i = k
          <6>1. e <= n /\ Octets(p)
            BY <2>1, <2>3, <5>1
          <6>2. a = Shortened(args[k])
            <7> HIDE DEF Octets
            <7> QED BY <3>5, <3>7, <4>1, <6>1
          <6> QED BY <2>1, <4>3, <4>4, <5>1, <6>2
        <5>2. CASE i # k
          <6>1. i \in 1..p
            BY <2>1, <5>2
          <6>2. q[i] = Shortened(args[i])
            <7>1. True(p)
              BY <1>13, <2>1
            <7>2. H[p].argv[i] = Shortened(args[i])
              <8> HIDE DEF Octets
              <8> QED BY <2>2, <2>7, <6>1, <7>1
            <7> QED BY <2>2, <3>1, <7>2
          <6> QED BY <4>3, <4>4, <6>1, <6>2
        <5> QED BY <5>1, <5>2
      <4> QED BY <4>6, <4>7
    <3> QED BY <3>6, <3>7
  <2> QED BY <2>6, <2>7
<1> HIDE DEF G
<1>14. \A k \in 0..argc : k \in G
  BY <1>12, <1>13, UpTo
<1>15. Placed(argc) /\ True(argc)
  <2>1. argc \in 0..argc
    OBVIOUS
  <2> QED BY <1>14, <2>1 DEF G
<1>16. size = ArgSize(m.argv)
  BY <1>5 DEF SerializeMessage
<1>17. PICK x : x = H[argc]
  OBVIOUS
<1>18. r = IF x = NULL \/ x.next - size = -1 THEN NULL
           ELSE [command |-> m.command, return_type |-> m.return_type, argv |-> x.argv]
  <2>1. w.command = m.command /\ w.return_type = m.return_type /\ w.argc = argc
    BY <1>2 DEF SerializeMessage
  <2> QED BY <1>5, <1>11, <1>17, <2>1 DEF DeserializeMessage
<1>19. ASSUME r # NULL, NEW i \in 1..argc, Told(m, n, i)
       PROVE  r.argv[i] = Shortened(args[i])
  <2>1. x # NULL /\ r.argv = x.argv
    BY <1>18, <1>19
  <2>2. h[i] <= n /\ Octets(i - 1)
    <3>1. ArgSize(SubSeq(m.argv, 1, i)) = h[i]
      BY <1>2, <1>4, SizeOfFirst
    <3>2. PICK e \in Nat : e = h[i]
      BY <1>6
    <3>3. e <= n
      BY <1>5, <1>19, <3>1, <3>2 DEF Told
    <3> QED BY <1>3, <1>19, <3>2, <3>3 DEF Told
  <2> HIDE DEF Octets
  <2> QED BY <1>15, <1>17, <2>1, <2>2
<1>20. ASSUME n = size, \A i \in 1..argc : OctetHolds(args[i])
       PROVE  r # NULL
  <2>1. x # NULL /\ x.next = size
    <3>1. h[argc] <= n /\ Octets(argc)
      BY <1>5, <1>20
    <3> HIDE DEF Octets
    <3> QED BY <1>5, <1>15, <1>17, <3>1
  <2>2. ~(x.next - size = -1)
    <3>1. size - size # -1
      OBVIOUS
    <3> QED BY <2>1, <3>1
  <2>3. x.argv \in Seq(ArgType)
    BY <1>11, <1>17, <2>1 DEF ReadAfter, ReadType
  <2>4. r = [command |-> m.command, return_type |-> m.return_type, argv |-> x.argv]
    BY <1>18, <2>1, <2>2
  <2>5. r \in MessageType
    BY <2>3, <2>4 DEF MessageType
  <2> QED BY <2>5, CodecAssumption
<1> QED BY <1>2, <1>3, <1>16, <1>19, <1>20 DEF Tells

-----------------------------------------------------------------------------
(* The functions of a server.                                              *)

\* The parts of an entry that the checks compare, and its lengths.
Signs(i, name, return_type, args) ==
  /\ DefaultFunctions[i].name = name /\ DefaultFunctions[i].return_type = return_type
  /\ DefaultFunctions[i].argv = args
  /\ DefaultFunctions[i].name_length \in Nat /\ DefaultFunctions[i].description_length \in Nat

\* The entries, one by one.
LEMMA DefaultEntries ==
  /\ DOMAIN DefaultFunctions = 1..11
  /\ Signs(1, "documentation", "str", << >>)
  /\ Signs(2, "concat", "str", <<"str", "str">>)
  /\ Signs(3, "identity", "str", <<"str">>)
  /\ Signs(4, "shutdown", "void", <<"str">>)
  /\ Signs(5, "plus", "int", <<"int", "int">>)
  /\ Signs(6, "minus", "int", <<"int", "int">>)
  /\ Signs(7, "multiplication", "int", <<"int", "int">>)
  /\ Signs(8, "division", "int", <<"int", "int">>)
  /\ Signs(9, "power", "int", <<"int", "int">>)
  /\ Signs(10, "square", "int", <<"int">>)
  /\ Signs(11, "string_length", "int", <<"str">>)
BY DEF Signs, DefaultFunctions, Entry, BinaryOperator

\* Each of them has a text of some length.
LEMMA DefaultsHaveText ==
  ASSUME NEW i \in 1..11
  PROVE  HasText(DefaultFunctions[i])
<1>1. PICK T, u, v, w, x, y : /\ T = {"int", "str"} /\ u = << >> /\ v = <<"str">> /\ w = <<"int">>
                              /\ x = <<"str", "str">> /\ y = <<"int", "int">>
  OBVIOUS
<1>2. u \in Seq(T) /\ v \in Seq(T) /\ w \in Seq(T) /\ x \in Seq(T) /\ y \in Seq(T)
  BY <1>1
<1>3. i = 1 \/ i = 2 \/ i = 3 \/ i = 4 \/ i = 5 \/ i = 6 \/ i = 7 \/ i = 8 \/ i = 9 \/ i = 10
        \/ i = 11
  OBVIOUS
<1>4. DefaultFunctions[i].argv \in {u, v, w, x, y}
  BY <1>1, <1>3, DefaultEntries, ZenonT(60) DEF Signs
<1>5. /\ DefaultFunctions[i].name_length \in Nat
      /\ DefaultFunctions[i].description_length \in Nat
  BY <1>3, DefaultEntries DEF Signs
<1>6. DefaultFunctions[i].argv \in Seq(T)
  BY <1>2, <1>4
<1>7. DefaultFunctions[i].name_length \in Int
  BY <1>5
<1> QED BY <1>5, <1>6, <1>7 DEF HasText

\* The message m names the function at place i and has its types.
Fits(i, m) ==
  /\ DefaultFunctions[i].name = m.command
  /\ DefaultFunctions[i].return_type = TypeName[m.return_type]
  /\ Len(DefaultFunctions[i].argv) = Len(m.argv)
  /\ \A j \in DOMAIN DefaultFunctions[i].argv :
       DefaultFunctions[i].argv[j] = TypeName[m.argv[j].typ]

\* A message gets one of the statuses, and OK only if one of the functions fits it.
LEMMA Verdicts ==
  ASSUME NEW m \in MessageType
  PROVE  Verdict(m) \in Statuses /\ (Verdict(m) = OK => \E i \in 1..11 : Fits(i, m))
<1>1. OK = 0 /\ Statuses = 0..5
  BY DEF OK, Statuses
<1>2. CASE Named(m.command) = {}
  BY <1>1, <1>2 DEF Verdict, Code
<1>3. CASE Named(m.command) # {}
  <2>1. PICK i \in Named(m.command) : TheFunction(m.command) = DefaultFunctions[i]
    BY <1>3 DEF TheFunction
  <2>2. i \in 1..11 /\ DefaultFunctions[i].name = m.command
    BY DefaultEntries DEF Named
  <2>3. PICK f : f = DefaultFunctions[i]
    OBVIOUS
  <2>4. PICK argc \in Nat : argc = Len(m.argv) /\ DOMAIN m.argv = 1..argc
    <3>1. m.argv \in Seq(ArgType)
      BY DEF MessageType
    <3> QED BY <3>1, LenProperties
  <2>5. PICK t : t = TypesOf(m)
    OBVIOUS
  <2>6. /\ t.return_type = TypeName[m.return_type]
        /\ t.argv = [j \in 1..argc |-> TypeName[m.argv[j].typ]]
    BY <2>4, <2>5 DEF TypesOf
  <2>7. Len(t.argv) = argc
    BY <2>6
  <2>8. PICK v : v = Protocol!Verification(f, t)
    OBVIOUS
  <2>9. v = IF Len(f.argv) # Len(t.argv) THEN "WRONG_NUMBER_ARGS"
            ELSE IF \E j \in DOMAIN f.argv : f.argv[j] # t.argv[j] THEN "WRONG_ARG"
            ELSE IF f.return_type # t.return_type THEN "WRONG_TYP"
            ELSE "OK"
    BY <2>8 DEF Protocol!Verification
  <2>10. Verdict(m) = Code[v]
    BY <1>3, <2>1, <2>3, <2>5, <2>8 DEF Verdict
  <2>11. /\ Code["OK"] = 0 /\ Code["WRONG_ARG"] = 2 /\ Code["WRONG_TYP"] = 4
         /\ Code["WRONG_NUMBER_ARGS"] = 5
    BY DEF Code
  <2>12. Code[v] \in 0..5 /\ (Code[v] = 0 => v = "OK")
    BY <2>9, <2>11
  <2>13. v = "OK" => Fits(i, m)
    <3> SUFFICES ASSUME v = "OK"
                 PROVE  Fits(i, m)
      OBVIOUS
    <3>1. /\ Len(f.argv) = argc /\ f.return_type = t.return_type
          /\ \A j \in DOMAIN f.argv : f.argv[j] = t.argv[j]
      BY <2>7, <2>9
    <3>2. DOMAIN f.argv = 1..Len(f.argv)
      <4>1. PICK T : f.argv \in Seq(T)
        BY <2>2, <2>3, DefaultsHaveText DEF HasText
      <4> QED BY <4>1, LenProperties
    <3>3. \A j \in DOMAIN f.argv : f.argv[j] = TypeName[m.argv[j].typ]
      BY <2>6, <3>1, <3>2
    <3> QED BY <2>2, <2>3, <2>4, <2>6, <3>1, <3>3 DEF Fits
  <2> QED BY <1>1, <2>2, <2>10, <2>12, <2>13
<1> QED BY <1>2, <1>3

\* A quotient that the processor does not refuse is an int.
LEMMA Quotient ==
  ASSUME NEW a \in IntType, NEW b \in IntType,
         b # 0, ~(a = -(2^(IntBits - 1)) /\ b = -1)
  PROVE  Divide(a, b) \in IntType
<1>1. PICK h \in Nat : h >= 8 /\ 2^(IntBits - 1) = h /\ 2^IntBits = 2 * h
  BY Width
<1>2. IntType = -h..(h - 1)
  BY <1>1 DEF IntType
<1>3. PICK n \in -h..(h - 1), d \in -h..(h - 1) : n = a /\ d = b
  BY <1>2
<1>4. d # 0 /\ ~(n = -h /\ d = -1)
  BY <1>1, <1>3
<1>5. PICK x \in 0..h, y \in 1..h :
        x = (IF n < 0 THEN -n ELSE n) /\ y = (IF d < 0 THEN -d ELSE d)
  BY <1>4
<1>6. PICK q : q = x \div y
  OBVIOUS
<1>7. q \in 0..x /\ (q = h => n = -h /\ d = 1)
  <2>1. q \in Int /\ y * q <= x /\ x < y * q + y
    BY <1>6
  <2>2. q >= 0
    <3> SUFFICES ASSUME q <= -1
                 PROVE  FALSE
      BY <2>1
    <3>1. y * q <= -y
      BY <2>1
    <3> QED BY <2>1, <3>1
  <2>3. y >= 2 => q * 2 <= x
    BY <2>1, <2>2
  <2>4. q <= x
    BY <2>1, <2>2
  <2>5. q = h => x = h /\ y = 1
    BY <1>1, <2>2, <2>3, <2>4
  <2>6. q = h => n = -h /\ (d = 1 \/ d = -1)
    BY <1>5, <2>5
  <2> QED BY <1>4, <2>1, <2>2, <2>4, <2>6
<1>8. Divide(a, b) = IF (n < 0) = (d < 0) THEN q ELSE -q
  BY <1>3, <1>5, <1>6 DEF Divide
<1>9. CASE (n < 0) = (d < 0)
  <2>1. q # h
    BY <1>1, <1>7, <1>9
  <2>2. q \in 0..(h - 1)
    BY <1>7, <2>1
  <2> QED BY <1>2, <1>8, <1>9, <2>2
<1>10. CASE ~((n < 0) = (d < 0))
  <2>1. -q \in -h..(h - 1)
    BY <1>1, <1>7
  <2> QED BY <1>2, <1>8, <1>10, <2>1
<1> QED BY <1>9, <1>10

\* A power, factor by factor.
LEMMA PowerRun ==
  ASSUME NEW a \in IntType, NEW n \in Nat
  PROVE  \E h \in [0..n -> IntType] :
           h[0] = a /\ h[n] = Power(a, n + 1) /\ \A k \in 1..n : h[k] = AsInt(h[k - 1] * a)
<1> DEFINE D == 1..n
           s == [i \in D |-> a]
           step == [i \in D |-> [x \in IntType |-> AsInt(x * a)]]
           F(f) == f = [t \in SUBSET D |->
                          IF t = {} THEN a ELSE AsInt(f[t \ {Max(t)}] * s[Max(t)])]
<1>1. ASSUME NEW x \in IntType
      PROVE  AsInt(x * a) \in IntType
  <2>1. PICK y \in Int, z \in Int : y = x /\ z = a
    BY Conversions
  <2>2. y * z \in Int
    OBVIOUS
  <2>3. AsInt(y * z) \in IntType
    BY <2>2, Conversions
  <2> QED BY <2>1, <2>3
<1>2. step \in [D -> [IntType -> IntType]]
  BY <1>1
<1>3. PICK f \in [SUBSET D -> IntType] : IsFold(f, n, a, step)
  <2>1. PICK T : T = IntType
    OBVIOUS
  <2>2. step \in [D -> [T -> T]] /\ a \in T
    BY <1>2, <2>1
  <2> HIDE DEF step
  <2>3. \E f \in [SUBSET D -> T] : IsFold(f, n, a, step)
    BY <2>2, FoldExists
  <2> QED BY <2>1, <2>3
<1>4. F(f)
  <2>1. \A t \in SUBSET D : t # {} =>
          step[Max(t)][f[t \ {Max(t)}]] = AsInt(f[t \ {Max(t)}] * s[Max(t)])
    <3> SUFFICES ASSUME NEW t \in SUBSET D, t # {}
                 PROVE  step[Max(t)][f[t \ {Max(t)}]] = AsInt(f[t \ {Max(t)}] * s[Max(t)])
      OBVIOUS
    <3>1. Max(t) \in D
      BY GreatestPlace
    <3>2. f[t \ {Max(t)}] \in IntType
      OBVIOUS
    <3> QED BY <3>1, <3>2
  <2> HIDE DEF step, s
  <2> QED BY <1>3, <2>1 DEF IsFold
<1>5. Power(a, n + 1) = (CHOOSE g : F(g))[D]
  <2>1. Power(a, n + 1) = FoldLeft(LAMBDA res, x : AsInt(res * x), a, s)
    <3>1. n + 1 # 0 /\ 1..((n + 1) - 1) = 1..n
      OBVIOUS
    <3> QED BY <3>1 DEF Power
  <2>2. DOMAIN s = D
    OBVIOUS
  <2> HIDE DEF s
  <2> QED BY <2>1, <2>2 DEF FoldLeft, MapThenFoldSet
<1> DEFINE g == CHOOSE h : F(h)
<1> HIDE DEF F
<1>6. F(g)
  BY <1>4
<1> HIDE DEF g
<1>7. \A k \in D : g[1..k] = AsInt(g[1..(k - 1)] * a)
  <2>1. \A k \in D : g[1..k] = AsInt(g[1..(k - 1)] * s[k])
    <3> HIDE DEF s
    <3> QED BY <1>6, FirstNumbers DEF F
  <2> QED BY <2>1
<1>8. g[1..0] = a
  <2> HIDE DEF s
  <2> QED BY <1>6, FirstNumbers DEF F
<1> DEFINE G == {k \in 0..n : g[1..k] \in IntType}
<1>9. 0 \in G
  BY <1>8
<1>10. \A k \in D : k - 1 \in G => k \in G
  <2> SUFFICES ASSUME NEW k \in D, k - 1 \in G
               PROVE  k \in G
    OBVIOUS
  <2>1. PICK x \in IntType : x = g[1..(k - 1)]
    OBVIOUS
  <2>2. g[1..k] \in IntType
    BY <1>1, <1>7, <2>1
  <2> QED BY <2>2
<1> HIDE DEF G
<1>11. \A k \in 0..n : k \in G
  BY <1>9, <1>10, UpTo
<1> DEFINE h == [k \in 0..n |-> g[1..k]]
<1>12. h \in [0..n -> IntType]
  BY <1>11 DEF G
<1>13. \A k \in 1..n : h[k] = AsInt(h[k - 1] * a)
  <2> SUFFICES ASSUME NEW k \in 1..n
               PROVE  h[k] = AsInt(h[k - 1] * a)
    OBVIOUS
  <2>1. h[k] = g[1..k] /\ h[k - 1] = g[1..(k - 1)]
    OBVIOUS
  <2> QED BY <1>7, <2>1
<1>14. h[0] = a /\ h[n] = Power(a, n + 1)
  BY <1>5, <1>8 DEF g
<1> QED BY <1>12, <1>13, <1>14

\* It is an int, also with an exponent below zero.
LEMMA Powers ==
  ASSUME NEW a \in IntType, NEW b \in Int
  PROVE  Power(a, b) \in IntType
<1>1. CASE b = 0
  BY <1>1, Conversions DEF Power
<1>2. CASE b # 0
  <2>1. PICK n \in Nat : 1..(b - 1) = 1..n
    <3>1. CASE b >= 1
      BY <3>1
    <3>2. CASE b < 1
      <4>1. 1..(b - 1) = 1..0
        BY <3>2
      <4> QED BY <4>1
    <3> QED BY <3>1, <3>2
  <2>2. Power(a, b) = Power(a, n + 1)
    <3>1. n + 1 # 0 /\ 1..((n + 1) - 1) = 1..n
      OBVIOUS
    <3> QED BY <1>2, <2>1, <3>1 DEF Power
  <2>3. PICK h \in [0..n -> IntType] : h[n] = Power(a, n + 1)
    BY PowerRun
  <2>4. n \in 0..n
    OBVIOUS
  <2> QED BY <2>2, <2>3, <2>4
<1> QED BY <1>1, <1>2

\* The documentation is a string of some length.
LEMMA DocumentationWritten == Documentation \in StringType
<1> DEFINE E == {DefaultFunctions[i] : i \in 1..11}
<1>1. DefaultFunctions \in Seq(E)
  <2>1. \A i \in 1..11 : DefaultFunctions[i] \in E
    OBVIOUS
  <2>2. DefaultFunctions = [i \in 1..11 |-> DefaultFunctions[i]]
    BY DefaultEntries DEF DefaultFunctions
  <2>3. [i \in 1..11 |-> DefaultFunctions[i]] \in Seq(E)
    BY <2>1, IsASeq
  <2> QED BY <2>2, <2>3
<1>2. \A m \in E : HasText(m)
  BY DefaultsHaveText
<1>3. PICK n \in Int : n = Sum(EntryWritten, DefaultFunctions) + 1
  <2> HIDE DEF E
  <2>1. PICK x : x \in Int /\ x = Sum(EntrySize, DefaultFunctions)
    BY <1>1, <1>2, ListsDiffer
  <2>2. PICK I : I = {i \in DOMAIN DefaultFunctions : DefaultFunctions[i].description_length = 0}
    OBVIOUS
  <2>3. PICK c \in Nat : c = Cardinality(I)
    <3>1. I \subseteq 1..11
      BY <2>2, DefaultEntries
    <3>2. IsFiniteSet(1..11)
      <4>1. PICK n \in Nat : n = 11
        OBVIOUS
      <4>2. IsFiniteSet(1..n)
        BY FS_Interval
      <4> QED BY <4>1, <4>2
    <3>3. IsFiniteSet(I)
      BY <3>1, <3>2, FS_Subset
    <3> QED BY <3>3, FS_CardinalityType
  <2>4. Sum(EntryWritten, DefaultFunctions) = x + NoDoc * c
    BY <1>1, <1>2, <2>1, <2>2, <2>3, ListsDiffer
  <2>5. x + NoDoc * c + 1 \in Int
    BY <2>1 DEF NoDoc
  <2> QED BY <2>4, <2>5
<1>4. PICK S : S = CharType \ {0}
  OBVIOUS
<1>5. 100 \in S
  BY <1>4 DEF CharType
<1>6. Documentation = [i \in 1..n |-> 100]
  BY <1>3 DEF Documentation
<1>7. PICK k \in Nat : 1..n = 1..k
  <2>1. CASE n >= 0
    BY <2>1
  <2>2. CASE n < 0
    <3>1. 1..n = 1..0
      BY <2>2
    <3> QED BY <3>1
  <2> QED BY <2>1, <2>2
<1>8. [i \in 1..k |-> 100] \in Seq(S)
  BY <1>5, IsASeq
<1> QED BY <1>4, <1>6, <1>7, <1>8 DEF StringType

\* What a message is that passes the checks: a call of one of the functions, with its types.
Calling(m, names, return_type, types) ==
  /\ m.command \in names /\ m.return_type = return_type
  /\ Len(m.argv) = Len(types)
  /\ \A j \in 1..Len(types) : m.argv[j].typ = types[j]
  /\ \A j \in 1..Len(types) :
       /\ types[j] = Int32 => m.argv[j].data \in IntType /\ DataOf(m)[j] = m.argv[j].data
       /\ types[j] = Str => m.argv[j].data \in StringType /\ DataOf(m)[j] = m.argv[j].data

Operators == {"plus", "minus", "multiplication", "division", "power"}
Passes(m) ==
  \/ Calling(m, {"documentation"}, Str, << >>)
  \/ Calling(m, {"concat"}, Str, <<Str, Str>>)
  \/ Calling(m, {"identity"}, Str, <<Str>>)
  \/ Calling(m, {"shutdown"}, Void, <<Str>>)
  \/ Calling(m, Operators, Int32, <<Int32, Int32>>)
  \/ Calling(m, {"square"}, Int32, <<Int32>>)
  \/ Calling(m, {"string_length"}, Int32, <<Str>>)

\* A message that passes is a call of one of the functions.
LEMMA Passed ==
  ASSUME NEW m \in MessageType, Verdict(m) = OK
  PROVE  Passes(m)
<1>1. PICK i \in 1..11 : Fits(i, m)
  BY Verdicts
<1>2. PICK argc \in Nat : argc = Len(m.argv) /\ DOMAIN m.argv = 1..argc
  <2>1. m.argv \in Seq(ArgType)
    BY DEF MessageType
  <2> QED BY <2>1, LenProperties
<1>3. \A j \in 1..argc : m.argv[j] \in ArgType
  <2>1. m.argv \in Seq(ArgType)
    BY DEF MessageType
  <2> QED BY <1>2, <2>1, ElementOfSeq
<1>4. \A j \in 1..argc : DataOf(m)[j] = m.argv[j].data
  BY <1>2 DEF DataOf
<1>5. /\ TypeName[Void] = "void" /\ TypeName[Int32] = "int" /\ TypeName[Str] = "str"
      /\ \A t \in TypeCodes : t = Void \/ t = Int32 \/ t = Str
      /\ Void # Int32 /\ Void # Str /\ Int32 # Str
  BY DEF TypeName, TypeCodes, Void, Int32, Str
<1>6. ASSUME NEW j \in 1..argc
      PROVE  /\ TypeName[m.argv[j].typ] = "int" =>
                  m.argv[j].typ = Int32 /\ m.argv[j].data \in IntType
             /\ TypeName[m.argv[j].typ] = "str" =>
                  m.argv[j].typ = Str /\ m.argv[j].data \in StringType
  <2>1. PICK a \in ArgType : a = m.argv[j]
    BY <1>3
  <2>2. a.typ \in TypeCodes
    BY DEF ArgType, TypeCodes
  <2>3. /\ a.typ = Int32 => a.data \in IntType
        /\ a.typ = Str => a.data \in StringType
    BY DEF ArgType, Void, Int32, Str
  <2> QED BY <1>5, <2>1, <2>2, <2>3
<1>7. PICK f : f = DefaultFunctions[i]
  OBVIOUS
<1>8. /\ f.name = m.command /\ f.return_type = TypeName[m.return_type] /\ Len(f.argv) = argc
      /\ \A j \in DOMAIN f.argv : f.argv[j] = TypeName[m.argv[j].typ]
  BY <1>1, <1>2, <1>7 DEF Fits
<1>9. /\ f.return_type = "int" => m.return_type = Int32
      /\ f.return_type = "str" => m.return_type = Str
      /\ f.return_type = "void" => m.return_type = Void
  <2>1. m.return_type \in TypeCodes
    BY DEF MessageType
  <2> QED BY <1>5, <1>8, <2>1
<1>10. ASSUME NEW name, NEW ret, NEW t, NEW names, NEW typ, NEW return_type,
              f.name = name, f.return_type = ret, name \in names,
              <<ret, return_type>> \in {<<"int", Int32>>, <<"str", Str>>, <<"void", Void>>},
              <<t, typ>> \in {<<"int", Int32>>, <<"str", Str>>}
       PROVE  /\ f.argv = << >> => Calling(m, names, return_type, << >>)
              /\ f.argv = <<t>> => Calling(m, names, return_type, <<typ>>)
              /\ f.argv = <<t, t>> => Calling(m, names, return_type, <<typ, typ>>)
  <2>1. m.command \in names /\ m.return_type = return_type
    BY <1>8, <1>9, <1>10
  <2>2. ASSUME NEW j \in 1..argc, TypeName[m.argv[j].typ] = t
        PROVE  /\ m.argv[j].typ = typ
               /\ typ = Int32 => m.argv[j].data \in IntType /\ DataOf(m)[j] = m.argv[j].data
               /\ typ = Str => m.argv[j].data \in StringType /\ DataOf(m)[j] = m.argv[j].data
    <3>1. DataOf(m)[j] = m.argv[j].data
      BY <1>4
    <3>2. (t = "int" /\ typ = Int32) \/ (t = "str" /\ typ = Str)
      BY <1>10
    <3> QED BY <1>5, <1>6, <2>2, <3>1, <3>2
  <2>3. PICK e, u, v : e = << >> /\ u = <<t>> /\ v = <<t, t>>
    OBVIOUS
  <2>4. /\ Len(e) = 0
        /\ DOMAIN u = {1} /\ Len(u) = 1 /\ u[1] = t
        /\ DOMAIN v = {1, 2} /\ Len(v) = 2 /\ v[1] = t /\ v[2] = t
    BY <2>3
  <2>5. PICK ce, cu, cv : ce = << >> /\ cu = <<typ>> /\ cv = <<typ, typ>>
    OBVIOUS
  <2>6. /\ Len(ce) = 0 /\ Len(cu) = 1 /\ cu[1] = typ
        /\ Len(cv) = 2 /\ cv[1] = typ /\ cv[2] = typ
        /\ 1..0 = {} /\ 1..1 = {1} /\ 1..2 = {1, 2}
    BY <2>5
  <2>7. f.argv = e => Calling(m, names, return_type, ce)
    BY <1>2, <1>8, <2>1, <2>4, <2>6 DEF Calling
  <2>8. f.argv = u => Calling(m, names, return_type, cu)
    <3> SUFFICES ASSUME f.argv = u
                 PROVE  Calling(m, names, return_type, cu)
      OBVIOUS
    <3>1. argc = 1 /\ 1 \in 1..argc /\ TypeName[m.argv[1].typ] = t
      <4>1. Len(f.argv) = 1 /\ 1 \in DOMAIN f.argv /\ f.argv[1] = t
        BY <2>4
      <4>2. f.argv[1] = TypeName[m.argv[1].typ]
        BY <1>8, <4>1
      <4>3. argc = 1
        BY <1>8, <4>1
      <4> QED BY <4>1, <4>2, <4>3
    <3> QED BY <1>2, <2>1, <2>2, <2>6, <3>1 DEF Calling
  <2>9. f.argv = v => Calling(m, names, return_type, cv)
    <3> SUFFICES ASSUME f.argv = v
                 PROVE  Calling(m, names, return_type, cv)
      OBVIOUS
    <3>1. /\ argc = 2 /\ 1 \in 1..argc /\ 2 \in 1..argc
          /\ TypeName[m.argv[1].typ] = t /\ TypeName[m.argv[2].typ] = t
      <4>1. /\ Len(f.argv) = 2 /\ 1 \in DOMAIN f.argv /\ f.argv[1] = t
            /\ 2 \in DOMAIN f.argv /\ f.argv[2] = t
        BY <2>4
      <4>2. f.argv[1] = TypeName[m.argv[1].typ] /\ f.argv[2] = TypeName[m.argv[2].typ]
        BY <1>8, <4>1
      <4>3. argc = 2
        BY <1>8, <4>1
      <4> QED BY <4>1, <4>2, <4>3
    <3> QED BY <1>2, <2>1, <2>2, <2>6, <3>1 DEF Calling
  <2> QED BY <2>3, <2>5, <2>7, <2>8, <2>9
<1>11. CASE i = 1
  <2>1. f.name = "documentation" /\ f.return_type = "str" /\ f.argv = << >>
    BY <1>7, <1>11, DefaultEntries DEF Signs
  <2>2. Calling(m, {"documentation"}, Str, << >>)
    BY <1>10, <2>1
  <2> QED BY <2>2 DEF Passes
<1>12. CASE i = 2
  <2>1. f.name = "concat" /\ f.return_type = "str" /\ f.argv = <<"str", "str">>
    BY <1>7, <1>12, DefaultEntries DEF Signs
  <2>2. Calling(m, {"concat"}, Str, <<Str, Str>>)
    BY <1>10, <2>1
  <2> QED BY <2>2 DEF Passes
<1>13. CASE i = 3
  <2>1. f.name = "identity" /\ f.return_type = "str" /\ f.argv = <<"str">>
    BY <1>7, <1>13, DefaultEntries DEF Signs
  <2>2. Calling(m, {"identity"}, Str, <<Str>>)
    BY <1>10, <2>1
  <2> QED BY <2>2 DEF Passes
<1>14. CASE i = 4
  <2>1. f.name = "shutdown" /\ f.return_type = "void" /\ f.argv = <<"str">>
    BY <1>7, <1>14, DefaultEntries DEF Signs
  <2>2. Calling(m, {"shutdown"}, Void, <<Str>>)
    BY <1>10, <2>1
  <2> QED BY <2>2 DEF Passes
<1>15. CASE i \in 5..9
  <2>1. i = 5 \/ i = 6 \/ i = 7 \/ i = 8 \/ i = 9
    BY <1>15
  <2>2. f.name \in Operators /\ f.return_type = "int" /\ f.argv = <<"int", "int">>
    BY <1>7, <2>1, DefaultEntries, ZenonT(60) DEF Signs, Operators
  <2>3. Calling(m, Operators, Int32, <<Int32, Int32>>)
    BY <1>10, <2>2
  <2> QED BY <2>3 DEF Passes
<1>16. CASE i = 10
  <2>1. f.name = "square" /\ f.return_type = "int" /\ f.argv = <<"int">>
    BY <1>7, <1>16, DefaultEntries DEF Signs
  <2>2. Calling(m, {"square"}, Int32, <<Int32>>)
    BY <1>10, <2>1
  <2> QED BY <2>2 DEF Passes
<1>17. CASE i = 11
  <2>1. f.name = "string_length" /\ f.return_type = "int" /\ f.argv = <<"str">>
    BY <1>7, <1>17, DefaultEntries DEF Signs
  <2>2. Calling(m, {"string_length"}, Int32, <<Str>>)
    BY <1>10, <2>1
  <2> QED BY <2>2 DEF Passes
<1> QED BY <1>11, <1>12, <1>13, <1>14, <1>15, <1>16, <1>17

\* The data of such a call.
LEMMA CalledWith ==
  ASSUME NEW m, NEW names, NEW return_type, NEW d, d = DataOf(m)
  PROVE  /\ Calling(m, names, return_type, <<Int32>>) =>
              /\ m.return_type = return_type /\ Len(m.argv) = 1 /\ m.argv[1].typ = Int32
              /\ d[1] = m.argv[1].data /\ d[1] \in IntType
         /\ Calling(m, names, return_type, <<Str>>) =>
              /\ m.return_type = return_type /\ Len(m.argv) = 1 /\ m.argv[1].typ = Str
              /\ d[1] = m.argv[1].data /\ d[1] \in StringType
         /\ Calling(m, names, return_type, <<Int32, Int32>>) =>
              /\ m.return_type = return_type
              /\ Len(m.argv) = 2 /\ m.argv[1].typ = Int32 /\ m.argv[2].typ = Int32
              /\ d[1] = m.argv[1].data /\ d[2] = m.argv[2].data
              /\ d[1] \in IntType /\ d[2] \in IntType
         /\ Calling(m, names, return_type, <<Str, Str>>) =>
              /\ m.return_type = return_type
              /\ Len(m.argv) = 2 /\ m.argv[1].typ = Str /\ m.argv[2].typ = Str
              /\ d[1] = m.argv[1].data /\ d[2] = m.argv[2].data
              /\ d[1] \in StringType /\ d[2] \in StringType
<1>1. ASSUME NEW typ
      PROVE  /\ Calling(m, names, return_type, <<typ>>) =>
                  /\ m.return_type = return_type /\ Len(m.argv) = 1 /\ m.argv[1].typ = typ
                  /\ typ = Int32 => d[1] = m.argv[1].data /\ m.argv[1].data \in IntType
                  /\ typ = Str => d[1] = m.argv[1].data /\ m.argv[1].data \in StringType
             /\ Calling(m, names, return_type, <<typ, typ>>) =>
                  /\ m.return_type = return_type /\ Len(m.argv) = 2
                  /\ m.argv[1].typ = typ /\ m.argv[2].typ = typ
                  /\ typ = Int32 => /\ d[1] = m.argv[1].data /\ m.argv[1].data \in IntType
                                    /\ d[2] = m.argv[2].data /\ m.argv[2].data \in IntType
                  /\ typ = Str => /\ d[1] = m.argv[1].data /\ m.argv[1].data \in StringType
                                  /\ d[2] = m.argv[2].data /\ m.argv[2].data \in StringType
  <2>1. PICK u, v : u = <<typ>> /\ v = <<typ, typ>>
    OBVIOUS
  <2>2. /\ Len(u) = 1 /\ u[1] = typ /\ Len(v) = 2 /\ v[1] = typ /\ v[2] = typ
        /\ 1 \in 1..1 /\ 1 \in 1..2 /\ 2 \in 1..2
    BY <2>1
  <2>3. Calling(m, names, return_type, u) =>
          /\ m.return_type = return_type /\ Len(m.argv) = 1 /\ m.argv[1].typ = typ
          /\ typ = Int32 => d[1] = m.argv[1].data /\ m.argv[1].data \in IntType
          /\ typ = Str => d[1] = m.argv[1].data /\ m.argv[1].data \in StringType
    BY <2>2 DEF Calling
  <2>4. Calling(m, names, return_type, v) =>
          /\ m.return_type = return_type /\ Len(m.argv) = 2
          /\ m.argv[1].typ = typ /\ m.argv[2].typ = typ
          /\ typ = Int32 => /\ d[1] = m.argv[1].data /\ m.argv[1].data \in IntType
                            /\ d[2] = m.argv[2].data /\ m.argv[2].data \in IntType
          /\ typ = Str => /\ d[1] = m.argv[1].data /\ m.argv[1].data \in StringType
                          /\ d[2] = m.argv[2].data /\ m.argv[2].data \in StringType
    BY <2>2 DEF Calling
  <2> QED BY <2>1, <2>3, <2>4
<1> QED BY <1>1

\* What a function returns has the type of the function, whatever its arguments.
LEMMA Executed ==
  ASSUME NEW m \in MessageType, Verdict(m) = OK, ~Traps(m.command, DataOf(m))
  PROVE  ExecuteFunction(m) \in ArgType
<1>1. PICK d, name, rt : d = DataOf(m) /\ name = m.command /\ rt = m.return_type
  OBVIOUS
<1>2. ExecuteFunction(m) = [typ |-> rt, data |-> Apply(name, d)]
  BY <1>1 DEF ExecuteFunction
<1>3. /\ \A n \in IntType : [typ |-> Int32, data |-> n] \in ArgType
      /\ \A s \in StringType : [typ |-> Str, data |-> s] \in ArgType
  BY DEF ArgType
<1>4. CASE Calling(m, {"documentation"}, Str, << >>)
  <2>1. name = "documentation" /\ rt = Str
    BY <1>1, <1>4 DEF Calling
  <2>2. Apply(name, d) = Documentation
    BY <2>1 DEF Apply
  <2> QED BY <1>2, <1>3, <2>1, <2>2, DocumentationWritten
<1>5. CASE Calling(m, {"concat"}, Str, <<Str, Str>>)
  <2>1. name = "concat" /\ rt = Str /\ d[1] \in StringType /\ d[2] \in StringType
    BY <1>1, <1>5, CalledWith DEF Calling
  <2>2. Apply(name, d) = d[1] \o d[2]
    BY <2>1 DEF Apply
  <2>3. d[1] \o d[2] \in StringType
    BY <2>1, ConcatProperties DEF StringType
  <2> QED BY <1>2, <1>3, <2>1, <2>2, <2>3
<1>6. CASE Calling(m, {"identity"}, Str, <<Str>>)
  <2>1. name = "identity" /\ rt = Str /\ d[1] \in StringType
    BY <1>1, <1>6, CalledWith DEF Calling
  <2>2. Apply(name, d) = d[1]
    BY <2>1 DEF Apply
  <2> QED BY <1>2, <1>3, <2>1, <2>2
<1>7. CASE Calling(m, {"shutdown"}, Void, <<Str>>)
  <2>1. name = "shutdown" /\ rt = Void
    BY <1>1, <1>7 DEF Calling
  <2>2. Apply(name, d) = NULL
    BY <2>1 DEF Apply
  <2> QED BY <1>2, <2>1, <2>2 DEF ArgType
<1>8. CASE Calling(m, Operators, Int32, <<Int32, Int32>>)
  <2>1. name \in Operators /\ rt = Int32 /\ d[1] \in IntType /\ d[2] \in IntType
    BY <1>1, <1>8, CalledWith DEF Calling
  <2>2. PICK x \in IntType, y \in IntType : x = d[1] /\ y = d[2]
    BY <2>1
  <2>3. PICK u \in Int, v \in Int : u = x /\ v = y
    BY Conversions
  <2>4. CASE name = "division"
    <3>1. Apply(name, d) = Divide(x, y)
      BY <2>2, <2>4 DEF Apply
    <3>2. y # 0 /\ ~(x = -(2^(IntBits - 1)) /\ y = -1)
      BY <1>1, <2>2, <2>4 DEF Traps
    <3>3. Divide(x, y) \in IntType
      BY <3>2, Quotient
    <3> QED BY <1>2, <1>3, <2>1, <3>1, <3>3
  <2>5. CASE name = "power"
    <3>1. Apply(name, d) = Power(x, y)
      BY <2>2, <2>5 DEF Apply
    <3>2. Power(x, y) \in IntType
      BY <2>3, Powers
    <3> QED BY <1>2, <1>3, <2>1, <3>1, <3>2
  <2>6. CASE name = "plus"
    <3>1. Apply(name, d) = AsInt(u + v) /\ u + v \in Int
      BY <2>2, <2>3, <2>6 DEF Apply
    <3> QED BY <1>2, <1>3, <2>1, <3>1, Conversions
  <2>7. CASE name = "minus"
    <3>1. Apply(name, d) = AsInt(u - v) /\ u - v \in Int
      BY <2>2, <2>3, <2>7 DEF Apply
    <3> QED BY <1>2, <1>3, <2>1, <3>1, Conversions
  <2>8. CASE name = "multiplication"
    <3>1. Apply(name, d) = AsInt(u * v) /\ u * v \in Int
      BY <2>2, <2>3, <2>8 DEF Apply
    <3> QED BY <1>2, <1>3, <2>1, <3>1, Conversions
  <2> QED BY <2>1, <2>4, <2>5, <2>6, <2>7, <2>8 DEF Operators
<1>9. CASE Calling(m, {"square"}, Int32, <<Int32>>)
  <2>1. name = "square" /\ rt = Int32 /\ d[1] \in IntType
    BY <1>1, <1>9, CalledWith DEF Calling
  <2>2. Apply(name, d) = Power(d[1], 2)
    BY <2>1 DEF Apply
  <2>3. Power(d[1], 2) \in IntType
    BY <2>1, Powers
  <2> QED BY <1>2, <1>3, <2>1, <2>2, <2>3
<1>10. CASE Calling(m, {"string_length"}, Int32, <<Str>>)
  <2>1. name = "string_length" /\ rt = Int32 /\ d[1] \in StringType
    BY <1>1, <1>10, CalledWith DEF Calling
  <2>2. Apply(name, d) = AsInt(Len(d[1]))
    BY <2>1 DEF Apply
  <2>3. Len(d[1]) \in Int
    BY <2>1, LenProperties DEF StringType
  <2> QED BY <1>2, <1>3, <2>1, <2>2, <2>3, Conversions
<1> QED BY <1>4, <1>5, <1>6, <1>7, <1>8, <1>9, <1>10, Passed DEF Passes

-----------------------------------------------------------------------------
(* The command line.                                                       *)

\* The words of a line, and the types that it has for each argument.
LEMMA Line ==
  ASSUME argv \in Lines
  PROVE  /\ Len(argv) \in Nat
         /\ \A i \in 1..Len(argv) :
              argv[i] \in STRING /\ Number[argv[i]] \in IntType /\ Text[argv[i]] \in StringType
<1>1. argv \in Seq(STRING)
  BY ClientAssumption
<1>2. Len(argv) \in Nat /\ DOMAIN argv = 1..Len(argv)
  BY <1>1, LenProperties
<1>3. \A i \in 1..Len(argv) : argv[i] \in STRING
  BY <1>1, ElementOfSeq
<1> QED BY <1>2, <1>3, ClientAssumption

\* A line with n arguments of two words each: the lines HELP's form leaves without void.
Regular(line) ==
  \E n \in 0..Len(line) :
    /\ Len(line) = 5 + 2 * n
    /\ line[2] \in CommandFlags /\ line[4] = "-ret"
    /\ \A i \in 1..n : line[4 + 2 * i] \in {"-int", "-str"}

\* Places from 6 on, two apart, that end where a line ends: all the even ones.
LEMMA EvenPlaces ==
  ASSUME NEW L \in Nat, L >= 5, NEW T \in SUBSET (6..L),
         T \cup {L + 1} = {6} \cup {k + 2 : k \in T}
  PROVE  \E n \in 0..L : L = 5 + 2 * n /\ \A i \in 1..n : 4 + 2 * i \in T
<1>1. ASSUME NEW k \in T
      PROVE  \E j \in Nat : k = 6 + 2 * j
  <2> DEFINE O == {l \in T : ~ \E j \in Nat : l = 6 + 2 * j}
  <2> SUFFICES ASSUME O # {}
               PROVE  FALSE
    BY <1>1
  <2>1. O \in SUBSET Nat
    OBVIOUS
  <2>2. PICK l \in O : \A m \in O : l <= m
    BY <2>1, LeastPlace
  <2>3. l # 6
    <3>1. 0 \in Nat /\ 6 = 6 + 2 * 0
      OBVIOUS
    <3> QED BY <2>2, <3>1
  <2>4. PICK m \in T : l = m + 2
    BY <2>2, <2>3
  <2>5. m \notin O
    BY <2>2, <2>4
  <2>6. PICK j \in Nat : m = 6 + 2 * j
    BY <2>4, <2>5
  <2>7. j + 1 \in Nat /\ l = 6 + 2 * (j + 1)
    BY <2>4, <2>6
  <2> QED BY <2>2, <2>7
<1>2. PICK n \in Nat : L = 5 + 2 * n
  <2>1. L + 1 = 6 \/ \E k \in T : L + 1 = k + 2
    OBVIOUS
  <2>2. CASE L + 1 = 6
    <3>1. 0 \in Nat /\ L = 5 + 2 * 0
      BY <2>2
    <3> QED BY <3>1
  <2>3. ASSUME NEW k \in T, L + 1 = k + 2
        PROVE  \E n \in Nat : L = 5 + 2 * n
    <3>1. PICK j \in Nat : k = 6 + 2 * j
      BY <1>1
    <3>2. j + 1 \in Nat /\ L = 5 + 2 * (j + 1)
      BY <2>3, <3>1
    <3> QED BY <3>2
  <2> QED BY <2>1, <2>2, <2>3
<1>3. ASSUME NEW i \in 1..n
      PROVE  4 + 2 * i \in T
  <2> DEFINE O == {l \in 1..n : 4 + 2 * l \notin T}
  <2> SUFFICES ASSUME O # {}
               PROVE  FALSE
    BY <1>3
  <2>1. O \in SUBSET Nat
    OBVIOUS
  <2>2. PICK l \in O : \A m \in O : l <= m
    BY <2>1, LeastPlace
  <2>3. l \in 1..n /\ 4 + 2 * l \notin T /\ 4 + 2 * l # L + 1
    BY <1>2, <2>2
  <2>4. CASE l = 1
    <3>1. 6 \in T \cup {L + 1}
      OBVIOUS
    <3> QED BY <2>3, <2>4, <3>1
  <2>5. CASE l # 1
    <3>1. PICK m \in 1..n : m = l - 1 /\ m < l
      BY <2>3, <2>5
    <3>2. m \notin O
      BY <2>2, <3>1
    <3>3. PICK k \in T : k = 4 + 2 * m
      BY <3>1, <3>2
    <3>4. k + 2 \in T \cup {L + 1}
      BY <3>3
    <3>5. k + 2 = 4 + 2 * l
      BY <3>1, <3>3
    <3> QED BY <2>3, <3>4, <3>5
  <2> QED BY <2>4, <2>5
<1>4. n \in 0..L
  BY <1>2
<1> QED BY <1>2, <1>3, <1>4

\* They are all the lines of that form.
LEMMA TakenIsRegular ==
  ASSUME NEW line \in Seq(STRING)
  PROVE  Taken(line) <=> Regular(line)
<1>1. PICK L \in Nat : L = Len(line)
  BY LenProperties
<1>2. ASSUME Taken(line)
      PROVE  Regular(line)
  <2>1. PICK types \in SUBSET (6..L) :
          CommandForm(line, types) /\ \A k \in types : line[k] # "-void"
    BY <1>1, <1>2 DEF Taken
  <2>2. \A k \in types : line[k] \in {"-int", "-str"}
    BY <2>1 DEF CommandForm, TypeWords
  <2>3. {k + (IF line[k] = "-void" THEN 1 ELSE 2) : k \in types} = {k + 2 : k \in types}
    BY <2>1
  <2>4. L >= 5 /\ types \cup {L + 1} = {6} \cup {k + 2 : k \in types}
    BY <1>1, <2>1, <2>3 DEF CommandForm
  <2>5. PICK n \in 0..L : L = 5 + 2 * n /\ \A i \in 1..n : 4 + 2 * i \in types
    BY <2>4, EvenPlaces
  <2>6. line[2] \in CommandFlags /\ line[4] = "-ret"
    BY <2>1 DEF CommandForm
  <2> QED BY <1>1, <2>2, <2>5, <2>6 DEF Regular
<1>3. ASSUME Regular(line)
      PROVE  Taken(line)
  <2>1. PICK n \in 0..L : /\ L = 5 + 2 * n
                          /\ line[2] \in CommandFlags /\ line[4] = "-ret"
                          /\ \A i \in 1..n : line[4 + 2 * i] \in {"-int", "-str"}
    BY <1>1, <1>3 DEF Regular
  <2> DEFINE T == {4 + 2 * i : i \in 1..n}
  <2>2. T \in SUBSET (6..L)
    BY <2>1
  <2>3. \A k \in T : line[k] \in {"-int", "-str"}
    BY <2>1
  <2>4. {k + (IF line[k] = "-void" THEN 1 ELSE 2) : k \in T} = {k + 2 : k \in T}
    BY <2>3
  <2>5. T \cup {L + 1} = {6} \cup {k + 2 : k \in T}
    <3>1. ASSUME NEW i \in 1..n
          PROVE  4 + 2 * i = 6 \/ \E k \in T : 4 + 2 * i = k + 2
      <4>1. CASE i = 1
        BY <4>1
      <4>2. CASE i # 1
        <5>1. i - 1 \in 1..n /\ 4 + 2 * i = (4 + 2 * (i - 1)) + 2
          BY <4>2
        <5> QED BY <5>1
      <4> QED BY <4>1, <4>2
    <3>2. L + 1 = 6 \/ \E k \in T : L + 1 = k + 2
      <4>1. CASE n = 0
        BY <2>1, <4>1
      <4>2. CASE n # 0
        <5>1. n \in 1..n /\ L + 1 = (4 + 2 * n) + 2
          BY <2>1, <4>2
        <5> QED BY <5>1
      <4> QED BY <4>1, <4>2
    <3>3. 6 = L + 1 \/ 6 \in T
      <4>1. CASE n = 0
        BY <2>1, <4>1
      <4>2. CASE n # 0
        <5>1. 1 \in 1..n /\ 4 + 2 * 1 = 6
          BY <4>2
        <5> QED BY <5>1
      <4> QED BY <4>1, <4>2
    <3>4. ASSUME NEW i \in 1..n
          PROVE  (4 + 2 * i) + 2 = L + 1 \/ (4 + 2 * i) + 2 \in T
      <4>1. CASE i = n
        BY <2>1, <4>1
      <4>2. CASE i # n
        <5>1. i + 1 \in 1..n /\ (4 + 2 * i) + 2 = 4 + 2 * (i + 1)
          BY <4>2
        <5> QED BY <5>1
      <4> QED BY <4>1, <4>2
    <3>5. ASSUME NEW x \in T \cup {L + 1}
          PROVE  x \in {6} \cup {k + 2 : k \in T}
      <4>1. CASE x = L + 1
        <5> HIDE DEF T
        <5> QED BY <3>2, <4>1
      <4>2. CASE x \in T
        <5>1. PICK i \in 1..n : x = 4 + 2 * i
          BY <4>2
        <5>2. x = 6 \/ \E k \in T : x = k + 2
          BY <3>1, <5>1
        <5> HIDE DEF T
        <5> QED BY <5>2
      <4> HIDE DEF T
      <4> QED BY <4>1, <4>2
    <3>6. ASSUME NEW x \in {6} \cup {k + 2 : k \in T}
          PROVE  x \in T \cup {L + 1}
      <4>1. CASE x = 6
        <5> HIDE DEF T
        <5> QED BY <3>3, <4>1
      <4>2. ASSUME NEW k \in T, x = k + 2
            PROVE  x \in T \cup {L + 1}
        <5>1. PICK i \in 1..n : k = 4 + 2 * i
          OBVIOUS
        <5>2. x = L + 1 \/ x \in T
          BY <3>4, <4>2, <5>1
        <5> HIDE DEF T
        <5> QED BY <5>2
      <4> HIDE DEF T
      <4> QED BY <4>1, <4>2
    <3> HIDE DEF T
    <3> QED BY <3>5, <3>6
  <2>6. L >= 5
    BY <2>1
  <2>7. CommandForm(line, T)
    <3> HIDE DEF T
    <3> QED BY <1>1, <2>1, <2>3, <2>4, <2>5, <2>6 DEF CommandForm, TypeWords
  <2>8. \A k \in T : line[k] # "-void"
    BY <2>3
  <2> HIDE DEF T
  <2> QED BY <1>1, <2>2, <2>7, <2>8 DEF Taken
<1> QED BY <1>2, <1>3

\* In a line with the words of n arguments the types of all of them are found.
LEMMA Places ==
  ASSUME NEW n \in Nat, Len(argv) = 5 + 2 * n
  PROVE  /\ TypePlaces(2) = {3 + 2 * i : i \in 1..n}
         /\ Cardinality(TypePlaces(2)) = n
<1>1. TypePlaces(2) = {k \in 5..(4 + 2 * n) : (k - 5) % 2 = 0}
  BY DEF TypePlaces, Argc
<1>2. ASSUME NEW k \in 5..(4 + 2 * n), (k - 5) % 2 = 0
      PROVE  \E i \in 1..n : k = 3 + 2 * i
  <2>1. PICK j \in Int : j = (k - 5) \div 2 /\ k - 5 = 2 * j
    BY <1>2
  <2>2. j + 1 \in 1..n /\ k = 3 + 2 * (j + 1)
    BY <2>1
  <2> QED BY <2>2
<1>3. ASSUME NEW i \in 1..n
      PROVE  3 + 2 * i \in 5..(4 + 2 * n) /\ ((3 + 2 * i) - 5) % 2 = 0
  <2>1. PICK j \in Nat : j = i - 1
    OBVIOUS
  <2>2. (3 + 2 * i) - 5 = 2 * j /\ (2 * j) % 2 = 0
    BY <2>1
  <2> QED BY <2>2
<1>4. TypePlaces(2) = {3 + 2 * i : i \in 1..n}
  BY <1>1, <1>2, <1>3
<1> DEFINE f == [i \in 1..n |-> 3 + 2 * i]
<1>5. f \in Bijection(1..n, TypePlaces(2))
  <2>1. f \in [1..n -> TypePlaces(2)]
    BY <1>4
  <2>2. \A i, j \in 1..n : f[i] = f[j] => i = j
    OBVIOUS
  <2>3. \A k \in TypePlaces(2) : \E i \in 1..n : f[i] = k
    BY <1>4
  <2> HIDE DEF f
  <2> QED BY <2>1, <2>2, <2>3 DEF Bijection, Injection, Surjection, IsInjective
<1>6. IsFiniteSet(1..n) /\ Cardinality(1..n) = n
  BY FS_Interval
<1>7. ExistsBijection(1..n, TypePlaces(2))
  BY <1>5 DEF ExistsBijection
<1> QED BY <1>4, <1>6, <1>7, FS_Bijection

\* The tests of check_command and parse_command, taken together, let those lines through.
LEMMA Tests ==
  ASSUME argv \in Lines, 1 < Argc, Arg(1) \in CommandFlags
  PROVE  (CheckCommand(2) /\ ParseCommand(2)) <=> Regular(argv)
<1>1. PICK L \in Nat : L = Len(argv) /\ L = Argc
  BY Line DEF Argc
<1>2. ASSUME CheckCommand(2), ParseCommand(2)
      PROVE  Regular(argv)
  <2>1. /\ 4 < L /\ Arg(3) = "-ret"
        /\ \A k \in TypePlaces(2) : Arg(k) \in {"-int", "-str"} /\ k + 1 < L
    BY <1>1, <1>2
       DEF CheckCommand, ParseCommand, TypeWords, ReturnedType, Void, Int32, Str
  <2>2. PICK n \in Nat : L = 5 + 2 * n
    <3>1. PICK j \in Nat : L - 5 = 2 * j \/ L - 5 = 2 * j + 1
      <4>1. (L - 5) \div 2 \in Nat /\ (L - 5) % 2 \in {0, 1}
            /\ L - 5 = 2 * ((L - 5) \div 2) + ((L - 5) % 2)
        BY <2>1
      <4> QED BY <4>1
    <3>2. CASE L - 5 = 2 * j + 1
      <4>1. L - 1 \in 5..(L - 1) /\ (L - 1) - 5 = 2 * j /\ (2 * j) % 2 = 0
        BY <2>1, <3>2
      <4>2. L - 1 \in TypePlaces(2)
        BY <1>1, <4>1 DEF TypePlaces
      <4>3. (L - 1) + 1 < L
        BY <2>1, <4>2
      <4> QED BY <4>3
    <3>3. CASE L - 5 = 2 * j
      BY <3>3
    <3> QED BY <3>1, <3>2, <3>3
  <2>3. \A i \in 1..n : argv[4 + 2 * i] \in {"-int", "-str"}
    <3> SUFFICES ASSUME NEW i \in 1..n
                 PROVE  argv[4 + 2 * i] \in {"-int", "-str"}
      OBVIOUS
    <3>1. 3 + 2 * i \in TypePlaces(2)
      BY <1>1, <2>2, Places
    <3>2. (3 + 2 * i) + 1 = 4 + 2 * i
      OBVIOUS
    <3> QED BY <2>1, <3>1, <3>2 DEF Arg
  <2>4. n \in 0..Len(argv) /\ argv[2] \in CommandFlags /\ argv[4] = "-ret"
    BY <1>1, <2>1, <2>2 DEF Arg
  <2> QED BY <1>1, <2>2, <2>3, <2>4 DEF Regular
<1>3. ASSUME Regular(argv)
      PROVE  CheckCommand(2) /\ ParseCommand(2)
  <2>0. PICK n \in Nat : /\ Len(argv) = 5 + 2 * n /\ argv[4] = "-ret"
                         /\ \A i \in 1..n : argv[4 + 2 * i] \in {"-int", "-str"}
    BY <1>3 DEF Regular
  <2>1. L = 5 + 2 * n /\ 4 < L
    <3>1. L = 5 + 2 * n
      BY <1>1, <2>0
    <3> QED BY <3>1
  <2>2. ASSUME NEW k \in TypePlaces(2)
        PROVE  Arg(k) \in {"-int", "-str"} /\ k + 1 < L
    <3>1. PICK i \in 1..n : k = 3 + 2 * i
      BY <2>0, Places
    <3>2. k + 1 = 4 + 2 * i /\ k + 1 < L
      BY <2>1, <3>1
    <3> QED BY <2>0, <3>2 DEF Arg
  <2>3. 4 < L /\ Arg(3) = "-ret"
    BY <2>0, <2>1 DEF Arg
  <2> QED BY <1>1, <2>2, <2>3
          DEF CheckCommand, ParseCommand, TypeWords, ReturnedType, Void, Int32, Str
<1> QED BY <1>2, <1>3

\* In such a line no word is missing, and parse_command makes a message.
LEMMA WellParsed ==
  ASSUME argv \in Lines, Regular(argv)
  PROVE  ~Overruns(2) /\ Parsed(2) \in MessageType
<1>1. PICK n \in Nat : /\ Len(argv) = 5 + 2 * n
                       /\ \A i \in 1..n : argv[4 + 2 * i] \in {"-int", "-str"}
  BY DEF Regular
<1>2. TypePlaces(2) = {3 + 2 * i : i \in 1..n} /\ Cardinality(TypePlaces(2)) = n
  BY <1>1, Places
<1>3. ~Overruns(2)
  BY <1>1, <1>2 DEF Overruns, Argc
<1>4. ASSUME NEW i \in 1..n
      PROVE  ParseArg(3 + 2 * i) \in ArgType
  <2>1. (3 + 2 * i) + 1 = 4 + 2 * i /\ (4 + 2 * i) + 1 = 5 + 2 * i /\ 5 + 2 * i \in 1..Len(argv)
    BY <1>1
  <2>2. PICK word : word = argv[5 + 2 * i] /\ Number[word] \in IntType /\ Text[word] \in StringType
    BY <2>1, Line
  <2>3. ParseArg(3 + 2 * i) =
          IF argv[4 + 2 * i] = "-int" THEN [typ |-> Int32, data |-> Number[word]]
          ELSE [typ |-> Str, data |-> Text[word]]
    BY <1>1, <2>1, <2>2 DEF ParseArg, Arg, ReturnedType, Void, Int32, Str
  <2> QED BY <2>2, <2>3 DEF ArgType
<1>5. [i \in 1..n |-> ParseArg(3 + 2 * i)] \in Seq(ArgType)
  <2>1. [i \in 1..n |-> ParseArg(3 + 2 * i)] \in [1..n -> ArgType]
    BY <1>4
  <2> QED BY <2>1, IsASeq
<1>6. Arg(2) \in STRING /\ Arg(4) \in STRING
  <2>1. 2 + 1 \in 1..Len(argv) /\ 4 + 1 \in 1..Len(argv)
    BY <1>1
  <2> QED BY <2>1, Line DEF Arg
<1>7. ReturnedType(Arg(2 + 2)) \in TypeCodes
  BY DEF ReturnedType, TypeCodes
<1>8. Parsed(2) = [command |-> Arg(2), return_type |-> ReturnedType(Arg(2 + 2)),
                   argv |-> [i \in 1..n |-> ParseArg(2 + 1 + 2 * i)]]
  BY <1>2 DEF Parsed, Message
<1>9. [i \in 1..n |-> ParseArg(2 + 1 + 2 * i)] = [i \in 1..n |-> ParseArg(3 + 2 * i)]
  OBVIOUS
<1> QED BY <1>3, <1>5, <1>6, <1>7, <1>8, <1>9 DEF MessageType

\* main can be at a second option only behind one or more "-s", each followed by its
\* password; while such a call is on its way main is at the password.
Walk ==
  /\ cpt > 1 => Arg(1) \in ShutdownFlags
  /\ cpt > 3 => Arg(3) \in ShutdownFlags
  /\ call = NULL => cpt = 1
  /\ stage = "idle" => cpt # 2
  /\ stage # "idle" /\ call.from = "-s" => cpt # 1 /\ cpt # 3

\* UsageExact, of those lines.
Checked ==
  argv # NULL =>
    /\ exit # "crash"
    /\ call # NULL /\ call.from = "-c" => Regular(argv)
    /\ exit = "failure" /\ call = NULL => ~Regular(argv)

\* The inductive invariant of main.
MainInv ==
  /\ argv \in Lines \cup {NULL} /\ cpt \in Nat \ {0}
  /\ exit \in {"none", "success", "failure", "crash"}
  /\ stage \in {"idle", "call", "request", "running", "answer", "dead", "done"}
  /\ call \in CallType \cup {NULL} /\ (stage # "idle" => call # NULL)
  /\ argv # NULL => Walk
  /\ Checked

\* It holds at first.
LEMMA MainStarts == Init => MainInv
BY DEF Init, MainInv, Walk, Checked

\* external_call makes a message.
LEMMA MessageMade ==
  ASSUME NEW command \in STRING, NEW return_type \in TypeCodes, NEW args \in Seq(ArgType)
  PROVE  Message(command, return_type, args) \in MessageType
BY DEF Message, MessageType

\* A call that main or a program makes is one.
LEMMA CallMade ==
  ASSUME NEW from \in {"-l", "-s", "-c", "library"}, NEW m \in MessageType,
         NEW room \in Nat \cup {NULL}, Calls(from, m, room)
  PROVE  /\ call' \in CallType /\ call' # NULL /\ call'.from = from /\ call'.msg = m
         /\ stage' = "call" /\ UNCHANGED <<argv, exit, printed>>
<1>1. call' = [from |-> from, msg |-> m, room |-> room]
  BY DEF Calls
<1>2. call' \in CallType
  BY <1>1 DEF CallType
<1> QED BY <1>1, <1>2, ClientAssumption DEF Calls

\* The end of a call keeps main on its way.
LEMMA Returned ==
  ASSUME MainInv, stage # "idle", NEW ok, NEW arg, Return(ok, arg), UNCHANGED <<argv, call>>
  PROVE  MainInv'
<1>1. call # NULL /\ call \in CallType /\ cpt \in Nat \ {0}
  BY DEF MainInv
<1>2. CASE call.from = "-s"
  <2>1. stage' = "idle" /\ cpt' = cpt + 1 /\ exit' = exit
    BY <1>2 DEF Return
  <2>2. argv # NULL => Walk'
    BY <1>1, <1>2, <2>1 DEF MainInv, Walk, Arg
  <2> QED BY <1>1, <2>1, <2>2 DEF MainInv, Checked
<1>3. CASE call.from # "-s"
  <2>1. stage' = "done" /\ exit' \in {"success", "failure"} /\ cpt' = cpt
    BY <1>3 DEF Return
  <2>2. argv # NULL => Walk'
    BY <1>1, <1>3, <2>1 DEF MainInv, Walk, Arg
  <2> QED BY <1>1, <2>1, <2>2 DEF MainInv, Checked
<1> QED BY <1>2, <1>3

\* So does the end of main, unless main crashes or refuses a line it should have sent.
LEMMA Ended ==
  ASSUME MainInv, NEW code \in {"success", "failure"}, Exits(code),
         code = "failure" /\ call = NULL => ~Regular(argv)
  PROVE  MainInv'
<1>1. exit' = code /\ UNCHANGED <<argv, cpt, call, stage>>
  BY DEF Exits
<1>2. argv # NULL => Walk'
  BY <1>1 DEF MainInv, Walk, Arg
<1> QED BY <1>1, <1>2 DEF MainInv, Checked

\* Such a line has one option, at place 1.
LEMMA OneOption ==
  ASSUME MainInv, argv # NULL, Regular(argv)
  PROVE  /\ 4 < Argc /\ Arg(1) \in CommandFlags /\ Arg(3) = "-ret" /\ cpt = 1
<1>1. PICK n \in Nat : Len(argv) = 5 + 2 * n /\ argv[2] \in CommandFlags /\ argv[4] = "-ret"
  BY DEF Regular
<1>2. Arg(1) \in CommandFlags /\ Arg(3) = "-ret"
  BY <1>1 DEF Arg
<1>3. 4 < Argc
  BY <1>1 DEF Argc
<1>4. ~(cpt > 1)
  BY <1>2 DEF MainInv, Walk, CommandFlags, ShutdownFlags
<1> QED BY <1>2, <1>3, <1>4 DEF MainInv

\* A command is taken at place 1 only, for parse_command looks for "-ret" at place 3.
LEMMA CommandFirst ==
  ASSUME MainInv, Command
  PROVE  /\ cpt = 1 /\ argv \in Lines /\ Regular(argv)
         /\ ~Overruns(2) /\ Parsed(2) \in MessageType
<1>1. /\ argv # NULL /\ stage = "idle" /\ cpt < Argc /\ Arg(cpt) \in CommandFlags
      /\ CheckCommand(cpt + 1) /\ ParseCommand(cpt + 1)
  BY DEF Command, AtOption, InMain
<1>2. argv \in Lines /\ Walk /\ cpt \in Nat \ {0}
  BY <1>1 DEF MainInv
<1>3. cpt = 1
  <2>1. Arg(3) = "-ret"
    BY <1>1 DEF ParseCommand
  <2>2. cpt <= 3
    BY <1>1, <1>2, <2>1 DEF Walk, ShutdownFlags
  <2>3. cpt # 2 /\ cpt # 3
    BY <1>1, <1>2, <2>1 DEF Walk, CommandFlags
  <2> QED BY <1>2, <2>2, <2>3
<1>4. cpt + 1 = 2
  BY <1>3
<1>5. Regular(argv)
  BY <1>1, <1>2, <1>3, <1>4, Tests
<1> QED BY <1>2, <1>3, <1>5, WellParsed

\* Every step keeps it.
LEMMA MainSteps == MainInv /\ [Next]_vars => MainInv'
<1> SUFFICES ASSUME MainInv, [Next]_vars
             PROVE  MainInv'
  OBVIOUS
<1>1. /\ argv \in Lines \cup {NULL} /\ cpt \in Nat \ {0}
      /\ call \in CallType \cup {NULL}
      /\ argv # NULL => argv \in Lines /\ Walk
  BY DEF MainInv
<1>2. CASE CallDocumentation
  <2>1. Message("documentation", Str, << >>) \in MessageType
    <3>1. PICK args, c, ty : args = << >> /\ c = "documentation" /\ ty = Str
      OBVIOUS
    <3>2. args \in Seq(ArgType)
      BY <3>1
    <3>3. c \in STRING
      BY <3>1, ClientAssumption
    <3>4. ty \in TypeCodes
      BY <3>1 DEF TypeCodes
    <3>5. Message(c, ty, args) \in MessageType
      BY <3>2, <3>3, <3>4, MessageMade
    <3> QED BY <3>1, <3>5
  <2>2. Calls("-l", Message("documentation", Str, << >>), 2048)
    BY <1>2 DEF CallDocumentation
  <2>3. /\ call' \in CallType /\ call' # NULL /\ call'.from = "-l"
        /\ stage' = "call" /\ UNCHANGED <<argv, exit>>
    BY <2>1, <2>2, CallMade
  <2>4. cpt' = cpt
    BY <1>2 DEF CallDocumentation
  <2>5. argv # NULL => Walk'
    BY <1>1, <2>3, <2>4 DEF Walk, Arg
  <2> QED BY <1>1, <2>3, <2>4, <2>5 DEF MainInv, Checked
<1>3. CASE CallShutdown
  <2>1. /\ argv # NULL /\ stage = "idle" /\ cpt + 1 < Argc /\ cpt' = cpt + 1
        /\ Arg(cpt) \in ShutdownFlags
    BY <1>3 DEF CallShutdown, AtOption, InMain
  <2>2. PICK text \in StringType : text = Text[Arg(cpt')]
    <3>1. cpt' + 1 \in 1..Len(argv)
      BY <1>1, <2>1, Line DEF Argc
    <3> QED BY <1>1, <2>1, <3>1, Line DEF Arg
  <2>3. PICK arg \in ArgType : arg = [typ |-> Str, data |-> text]
    BY DEF ArgType
  <2>4. PICK m \in MessageType : m = Message("shutdown", Void, <<arg>>)
    <3>1. PICK args, c, ty : args = <<arg>> /\ c = "shutdown" /\ ty = Void
      OBVIOUS
    <3>2. args \in Seq(ArgType)
      BY <3>1
    <3>3. c \in STRING
      BY <3>1, ClientAssumption
    <3>4. ty \in TypeCodes
      BY <3>1 DEF TypeCodes
    <3>5. Message(c, ty, args) \in MessageType
      BY <3>2, <3>3, <3>4, MessageMade
    <3> QED BY <3>1, <3>5
  <2>5. Calls("-s", m, 0)
    BY <1>3, <2>2, <2>3, <2>4 DEF CallShutdown
  <2>6. /\ call' \in CallType /\ call' # NULL /\ call'.from = "-s"
        /\ stage' = "call" /\ UNCHANGED <<argv, exit>>
    BY <2>5, CallMade
  <2>7. Walk'
    BY <1>1, <2>1, <2>6 DEF Walk, Arg
  <2> QED BY <1>1, <2>1, <2>6, <2>7 DEF MainInv, Checked
<1>4. CASE NoPassword
  <2>1. argv # NULL /\ Arg(cpt) \in ShutdownFlags /\ Exits("failure")
    BY <1>4 DEF NoPassword, AtOption, InMain
  <2>2. ~Regular(argv)
    BY <2>1, OneOption DEF ShutdownFlags, CommandFlags
  <2> QED BY <2>1, <2>2, Ended
<1>5. CASE Help
  BY <1>5, Ended DEF Help
<1>6. CASE Command
  <2>1. /\ cpt = 1 /\ argv \in Lines /\ argv # NULL /\ stage = "idle" /\ Regular(argv)
        /\ ~Overruns(2) /\ Parsed(2) \in MessageType /\ Arg(cpt) \in CommandFlags
    BY <1>6, CommandFirst DEF Command, AtOption, InMain
  <2>2. PICK m \in MessageType, room \in Nat : Calls("-c", m, room) /\ cpt' = cpt
    <3>1. PICK m \in MessageType : m = Parsed(2)
      BY <2>1
    <3>2. /\ Calls("-c", m, IF m.return_type = Str THEN 256 ELSE 0)
          /\ cpt' = cpt
      <4>1. cpt + 1 = 2
        BY <2>1
      <4> QED BY <1>6, <2>1, <3>1, <4>1 DEF Command
    <3>3. PICK room \in Nat : room = IF m.return_type = Str THEN 256 ELSE 0
      OBVIOUS
    <3> QED BY <3>2, <3>3
  <2>3. /\ call' \in CallType /\ call' # NULL /\ call'.from = "-c"
        /\ stage' = "call" /\ UNCHANGED <<argv, exit>>
    BY <2>2, CallMade
  <2>4. Walk'
    BY <1>1, <2>1, <2>2, <2>3 DEF Walk
  <2> QED BY <1>1, <2>1, <2>2, <2>3, <2>4 DEF MainInv, Checked
<1>7. CASE CommandRefused
  <2>1. /\ argv # NULL /\ stage = "idle" /\ cpt < Argc /\ Arg(cpt) \in CommandFlags
        /\ ~(CheckCommand(cpt + 1) /\ ParseCommand(cpt + 1)) /\ Exits("failure")
    BY <1>7 DEF CommandRefused, AtOption, InMain
  <2>2. ~Regular(argv)
    <3> SUFFICES ASSUME Regular(argv)
                 PROVE  FALSE
      OBVIOUS
    <3>1. cpt = 1
      BY <2>1, OneOption
    <3>2. cpt + 1 = 2 /\ 1 < Argc /\ Arg(1) \in CommandFlags
      BY <2>1, <3>1
    <3> QED BY <1>1, <2>1, <3>2, Tests
  <2> QED BY <2>1, <2>2, Ended
<1>8. CASE Unknown
  <2>1. argv # NULL /\ Arg(cpt) \notin CommandFlags /\ Exits("failure")
    BY <1>8 DEF Unknown, InMain
  <2>2. ~Regular(argv)
    BY <2>1, OneOption
  <2> QED BY <2>1, <2>2, Ended
<1>9. CASE EndOfLine
  BY <1>9, Ended DEF EndOfLine
<1>10. ASSUME NEW m \in Messages, ExternalCall(m)
       PROVE  MainInv'
  <2>1. m \in MessageType /\ Calls("library", m, NULL) /\ argv = NULL /\ cpt' = cpt
    BY <1>10, ClientAssumption DEF ExternalCall
  <2>2. /\ call' \in CallType /\ call' # NULL
        /\ stage' = "call" /\ UNCHANGED <<argv, exit>>
    BY <2>1, CallMade
  <2> QED BY <1>1, <2>1, <2>2 DEF MainInv, Checked
<1>11. CASE SendCmdFails
  BY <1>11, Returned DEF SendCmdFails
<1>12. CASE GetAnswer
  BY <1>12, Returned DEF GetAnswer
<1>13. CASE SendCmd \/ ReadMsg \/ SendError \/ SendAnswer \/ ExecuteTraps \/ Timeout
  <2>1. /\ stage \in {"call", "request", "running"}
        /\ stage' \in {"request", "running", "answer", "dead"}
        /\ UNCHANGED <<argv, cpt, exit, call>>
    BY <1>13 DEF SendCmd, ReadMsg, SendError, SendAnswer, ExecuteTraps, Timeout, Answers
  <2>2. argv # NULL => Walk'
    BY <1>1, <2>1 DEF Walk, Arg
  <2> QED BY <1>1, <2>1, <2>2 DEF MainInv, Checked
<1>14. CASE UNCHANGED vars
  BY <1>1, <1>14 DEF vars, MainInv, Walk, Arg, Checked
<1> QED BY <1>2, <1>3, <1>4, <1>5, <1>6, <1>7, <1>8, <1>9, <1>10, <1>11, <1>12, <1>13, <1>14
        DEF Next, Main

\* For any command lines: a line is sent if and only if it has the form that HELP gives
\* (c_client.h) behind the type of its result, which may be any word, and has no void
\* argument; main never reads past the end of argv (main, check_command and
\* parse_command, c_client.c).
THEOREM LinesAreChecked == Spec => []UsageExact
<1>1. MainInv => UsageExact
  <2> SUFFICES ASSUME MainInv, argv # NULL
               PROVE  UsageExact
    BY DEF UsageExact
  <2>1. argv \in Seq(STRING)
    BY ClientAssumption DEF MainInv
  <2>2. Taken(argv) <=> Regular(argv)
    BY <2>1, TakenIsRegular
  <2> QED BY <2>2 DEF MainInv, Checked, UsageExact
<1> QED BY <1>1, MainStarts, MainSteps, PTL DEF Spec

-----------------------------------------------------------------------------
(* A call, from its message to its answer.                                 *)

\* What a recv leaves in the buffer of its reader.
LEMMA BufferFilled ==
  ASSUME call \in CallType, wire.size \in Nat, wire.bytes \in Seq(CharType),
         wire.size = Len(wire.bytes), NEW n \in Arrivals, NEW g \in Garbage
  PROVE  /\ n \in 0..wire.size /\ (n < wire.size => n >= 16)
         /\ Buffer(n, g) \in Seq(CharType)
         /\ Len(Buffer(n, g)) = wire.size + 129 * (Len(call.msg.argv) + 1)
         /\ \A i \in 1..n : Buffer(n, g)[i] = wire.bytes[i]
<1>1. PICK size \in Nat : size = wire.size /\ size = Len(wire.bytes)
  OBVIOUS
<1>2. n \in 0..size /\ (n < size => n >= 16)
  <2>1. n = size \/ (n \in 1..size /\ n % Chunk = 0)
    BY <1>1 DEF Arrivals
  <2>2. PICK c \in Nat : c = Chunk /\ c >= 16
    BY ClientAssumption
  <2>3. ASSUME n \in 1..size, n % Chunk = 0
        PROVE  n >= 16
    <3>1. n % c = 0
      BY <2>2, <2>3
    <3>2. n < c => n % c = n
      BY <2>2, <2>3
    <3> QED BY <2>2, <2>3, <3>1, <3>2
  <2> QED BY <2>1, <2>3
<1>3. PICK argc \in Nat : argc = Len(call.msg.argv)
  <2>1. call.msg.argv \in Seq(ArgType)
    BY DEF CallType, MessageType
  <2> QED BY <2>1, LenProperties
<1>4. PICK l \in Nat : l = size + 129 * (argc + 1) /\ size <= l
  <2>1. PICK e \in Nat : e = 129 * (argc + 1)
    OBVIOUS
  <2> QED BY <2>1
<1> DEFINE b == [i \in 1..l |-> IF i <= n THEN wire.bytes[i] ELSE Unset(g, i)]
<1>5. Buffer(n, g) = b
  BY <1>1, <1>3, <1>4 DEF Buffer, Beyond
<1>6. ASSUME NEW i \in 1..l
      PROVE  b[i] \in CharType
  <2>1. Unset(g, i) \in CharType
    <3>1. g \in Seq(CharType) /\ g # << >>
      BY ClientAssumption
    <3>2. PICK k \in Nat : k = Len(g) /\ k # 0
      BY <3>1, LenProperties, EmptySeq
    <3>3. ((i - 1) % k) + 1 \in 1..Len(g)
      <4>1. (i - 1) % k \in 0..(k - 1)
        BY <3>2
      <4> QED BY <3>2, <4>1
    <3> QED BY <3>1, <3>2, <3>3, ElementOfSeq DEF Unset
  <2>2. i <= n => wire.bytes[i] \in CharType
    <3> SUFFICES ASSUME i <= n
                 PROVE  wire.bytes[i] \in CharType
      OBVIOUS
    <3>1. i \in 1..Len(wire.bytes)
      BY <1>1, <1>2
    <3> QED BY <3>1, ElementOfSeq
  <2> QED BY <2>1, <2>2
<1>7. b \in Seq(CharType)
  <2>1. \A i \in 1..l : (IF i <= n THEN wire.bytes[i] ELSE Unset(g, i)) \in CharType
    BY <1>6
  <2>2. PICK S : S = CharType
    OBVIOUS
  <2>3. b \in Seq(S)
    BY <2>1, <2>2, IsASeq
  <2> QED BY <2>2, <2>3
<1>8. Len(b) = l
  OBVIOUS
<1>9. \A i \in 1..n : b[i] = wire.bytes[i]
  <2> SUFFICES ASSUME NEW i \in 1..n
               PROVE  b[i] = wire.bytes[i]
    OBVIOUS
  <2>1. i \in 1..l /\ i <= n
    BY <1>2, <1>4
  <2> QED BY <2>1
<1> HIDE DEF b
<1> QED BY <1>1, <1>2, <1>3, <1>4, <1>5, <1>7, <1>8, <1>9

\* The inductive invariant of a call.
CallInv ==
  /\ MainInv
  /\ stage = "request" => wire = SerializeMessage(call.msg)
  /\ stage = "answer" =>
       answer \in AnswerType /\ wire = SerializeAnswer(answer.status, answer.arg)
  /\ arrived \in Nat /\ whole \in BOOLEAN
  /\ received \in MessageType \cup {NULL} /\ (stage = "running" => received # NULL)
  /\ answer \in AnswerType \cup {NULL} /\ got \in AnswerType \cup {NULL}
  /\ printed \in ArgType \cup {NULL}

\* It holds at first.
LEMMA CallStarts == Init => CallInv
BY MainStarts DEF Init, CallInv

\* The parts of the invariant that steps without a frame keep.
LEMMA SameFrames ==
  ASSUME CallInv, MainInv', UNCHANGED <<arrived, whole, received, answer, got>>,
         printed' \in ArgType \cup {NULL}, stage' \notin {"request", "running", "answer"}
  PROVE  CallInv'
BY DEF CallInv

\* An answer is written, whoever writes it.
LEMMA Answered ==
  ASSUME CallInv, MainInv', NEW status, NEW r, Answers(status, r),
         [status |-> status, arg |-> r] \in AnswerType
  PROVE  CallInv'
<1>1. /\ answer' = [status |-> status, arg |-> r] /\ stage' = "answer"
      /\ wire' = SerializeAnswer(status, r)
      /\ UNCHANGED <<arrived, whole, received, got, printed>>
  BY DEF Answers
<1>2. answer'.status = status /\ answer'.arg = r
  BY <1>1
<1> QED BY <1>1, <1>2 DEF CallInv

\* Every step keeps it.
LEMMA CallSteps == CallInv /\ [Next]_vars => CallInv'
<1> SUFFICES ASSUME CallInv, [Next]_vars
             PROVE  CallInv'
  OBVIOUS
<1>1. MainInv /\ MainInv'
  BY MainSteps DEF CallInv
<1>2. stage # "idle" => call \in CallType /\ call.msg \in MessageType
  BY <1>1 DEF MainInv, CallType
<1>3. ASSUME NEW from, NEW m, NEW room, Calls(from, m, room)
      PROVE  CallInv'
  <2>1. /\ stage' = "call" /\ arrived' = 0 /\ whole' = TRUE /\ received' = NULL
        /\ answer' = NULL /\ got' = NULL /\ printed' = printed
    BY <1>3 DEF Calls
  <2> QED BY <1>1, <2>1 DEF CallInv
<1>4. ASSUME NEW code, Exits(code), stage = "idle"
      PROVE  CallInv'
  BY <1>1, <1>4, SameFrames DEF Exits, wireVars, CallInv
<1>5. CASE Main
  <2>1. CASE CallDocumentation
    BY <1>3, <2>1 DEF CallDocumentation
  <2>2. CASE CallShutdown
    BY <1>3, <2>2 DEF CallShutdown
  <2>3. CASE Command
    <3>1. stage = "idle"
      BY <2>3 DEF Command, AtOption, InMain
    <3> QED BY <1>3, <1>4, <2>3, <3>1 DEF Command
  <2>4. CASE NoPassword \/ Help \/ CommandRefused \/ Unknown \/ EndOfLine
    <3>1. stage = "idle" /\ \E code : Exits(code)
      BY <2>4 DEF NoPassword, Help, CommandRefused, Unknown, EndOfLine, AtOption, InMain
    <3> QED BY <1>4, <3>1
  <2> QED BY <1>5, <2>1, <2>2, <2>3, <2>4 DEF Main
<1>6. ASSUME NEW m \in Messages, ExternalCall(m)
      PROVE  CallInv'
  BY <1>3, <1>6 DEF ExternalCall
<1>7. CASE SendCmd
  BY <1>1, <1>7 DEF SendCmd, CallInv
<1>8. CASE SendCmdFails
  <2>1. /\ stage' \in {"idle", "done"} /\ printed' \in {printed, NULL}
        /\ UNCHANGED <<arrived, whole, received, answer, got>>
    BY <1>8 DEF SendCmdFails, Return, wireVars
  <2>2. printed' \in ArgType \cup {NULL}
    BY <2>1 DEF CallInv
  <2> QED BY <1>1, <2>1, <2>2, SameFrames
<1>9. CASE ReadMsg
  <2>1. /\ stage = "request" /\ wire = SerializeMessage(call.msg) /\ call.msg \in MessageType
        /\ call \in CallType
    BY <1>2, <1>9 DEF ReadMsg, CallInv
  <2>2. PICK n \in Arrivals, g \in Garbage :
          Receives(n) /\ received' = DeserializeMessage(wire, Buffer(n, g))
    BY <1>9 DEF ReadMsg
  <2>3. /\ wire.size \in Nat /\ wire.bytes \in Seq(CharType) /\ wire.size = Len(wire.bytes)
    BY <2>1, MessageWritten
  <2>4. PICK b : b = Buffer(n, g)
    OBVIOUS
  <2>5. /\ n \in Nat /\ b \in Seq(CharType)
        /\ Len(b) = wire.size + 129 * (Len(call.msg.argv) + 1)
    <3>1. /\ n \in 0..wire.size /\ b \in Seq(CharType)
          /\ Len(b) = wire.size + 129 * (Len(call.msg.argv) + 1)
      BY <2>1, <2>3, <2>4, BufferFilled
    <3>2. n \in Nat
      BY <2>3, <3>1
    <3> QED BY <3>1, <3>2
  <2>6. Len(b) >= 129 * Len(call.msg.argv)
    <3>1. call.msg.argv \in Seq(ArgType)
      BY <2>1 DEF MessageType
    <3>2. PICK argc \in Nat, size \in Nat : argc = Len(call.msg.argv) /\ size = wire.size
      BY <2>3, <3>1, LenProperties
    <3>3. size + 129 * (argc + 1) >= 129 * argc
      OBVIOUS
    <3> QED BY <2>5, <3>2, <3>3
  <2>7. received' \in MessageType \cup {NULL}
    BY <2>1, <2>2, <2>4, <2>5, <2>6, MessageRead
  <2>8. arrived' \in Nat /\ whole' \in BOOLEAN
    BY <2>2, <2>5 DEF Receives, CallInv
  <2>9. /\ stage' = (IF received' = NULL THEN "dead" ELSE "running")
        /\ UNCHANGED <<answer, got, printed>>
    BY <1>9 DEF ReadMsg
  <2> QED BY <1>1, <2>7, <2>8, <2>9 DEF CallInv
<1>10. CASE SendError
  <2>1. /\ received \in MessageType /\ Verdict(received) # OK
        /\ Answers(Verdict(received), NULL)
    BY <1>10 DEF SendError, CallInv
  <2>2. [status |-> Verdict(received), arg |-> NULL] \in AnswerType
    BY <2>1, Verdicts DEF AnswerType
  <2> QED BY <1>1, <2>1, <2>2, Answered
<1>11. CASE SendAnswer
  <2>1. /\ received \in MessageType /\ Verdict(received) = OK
        /\ ~Traps(received.command, DataOf(received))
        /\ Answers(OK, ExecuteFunction(received))
    BY <1>11 DEF SendAnswer, CallInv
  <2>2. PICK r \in ArgType : r = ExecuteFunction(received)
    BY <2>1, Executed
  <2>3. [status |-> OK, arg |-> r] \in AnswerType
    BY DEF AnswerType
  <2> QED BY <1>1, <2>1, <2>2, <2>3, Answered
<1>12. CASE ExecuteTraps
  <2>1. stage' = "dead" /\ UNCHANGED <<arrived, whole, received, answer, got, printed>>
    BY <1>12 DEF ExecuteTraps, wireVars
  <2> QED BY <1>1, <2>1, SameFrames DEF CallInv
<1>13. CASE Timeout
  <2>1. Answers(Code.NO_ANSWER, NULL)
    BY <1>13 DEF Timeout
  <2>2. Code.NO_ANSWER \in Statuses \ {OK}
    BY DEF Code, Statuses, OK
  <2>3. [status |-> Code.NO_ANSWER, arg |-> NULL] \in AnswerType
    BY <2>2 DEF AnswerType
  <2> QED BY <1>1, <2>1, <2>3, Answered
<1>14. CASE GetAnswer
  <2>1. /\ stage = "answer" /\ answer \in AnswerType /\ call \in CallType
        /\ wire = SerializeAnswer(answer.status, answer.arg)
    BY <1>2, <1>14 DEF GetAnswer, CallInv
  <2>2. PICK n \in Arrivals, g \in Garbage :
          Receives(n) /\ got' = DeserializeAnswer(wire, Buffer(n, g))
    BY <1>14 DEF GetAnswer
  <2>3. /\ wire.size \in Nat /\ wire.bytes \in Seq(CharType) /\ wire.size = Len(wire.bytes)
        /\ wire.size >= 1
    BY <2>1, AnswerWritten
  <2>4. PICK b : b = Buffer(n, g)
    OBVIOUS
  <2>5. PICK size \in Nat : size = wire.size /\ size >= 1
    BY <2>3
  <2>6. /\ n \in 0..size /\ (n < size => n >= 16) /\ b \in Seq(CharType)
        /\ Len(b) = size + 129 * (Len(call.msg.argv) + 1)
        /\ \A i \in 1..n : b[i] = wire.bytes[i]
    BY <2>1, <2>3, <2>4, <2>5, BufferFilled
  <2>7. Len(b) >= wire.size + 129
    <3>1. call.msg.argv \in Seq(ArgType)
      BY <2>1 DEF CallType, MessageType
    <3>2. PICK argc \in Nat : argc = Len(call.msg.argv)
      BY <3>1, LenProperties
    <3>3. size + 129 * (argc + 1) >= size + 129
      OBVIOUS
    <3> QED BY <2>5, <2>6, <3>2, <3>3
  <2>8. b[1] = wire.bytes[1] /\ (wire.size >= 2 => b[2] = wire.bytes[2])
    <3>1. 1 \in 1..n /\ (size >= 2 => 2 \in 1..n)
      BY <2>5, <2>6
    <3> QED BY <2>5, <2>6, <3>1
  <2>9. got' = DeserializeAnswer(wire, b)
    BY <2>2, <2>4
  <2>10. got' \in AnswerType
    BY <2>1, <2>6, <2>7, <2>8, <2>9, AnswerRead
  <2>11. arrived' \in Nat /\ whole' \in BOOLEAN
    BY <2>2, <2>6 DEF Receives, CallInv
  <2>12. /\ Return(got'.status = OK /\ got'.arg.typ = call.msg.return_type, got'.arg)
         /\ UNCHANGED <<received, answer>>
    BY <1>14 DEF GetAnswer
  <2>13. stage' \in {"idle", "done"} /\ printed' \in ArgType \cup {NULL}
    <3>1. got'.status = OK => got'.arg \in ArgType
      BY <2>10 DEF AnswerType
    <3> QED BY <2>12, <3>1 DEF Return, CallInv
  <2> QED BY <1>1, <2>10, <2>11, <2>12, <2>13 DEF CallInv
<1>15. CASE UNCHANGED vars
  BY <1>1, <1>15 DEF vars, wireVars, CallInv
<1> QED BY <1>5, <1>6, <1>7, <1>8, <1>9, <1>10, <1>11, <1>12, <1>13, <1>14, <1>15 DEF Next

\* It is an invariant.
LEMMA CallAlways == Spec => []CallInv
BY CallStarts, CallSteps, PTL DEF Spec

\* For every width of an int, every line and message and every piece in which a frame
\* arrives: the program computes with ints and strings only, and its decoders stay
\* within their memory (u_rpc_data.c, s_defaults.c).
THEOREM ClientTypeCorrect == Spec => []TypeOK
<1>1. CallInv => TypeOK
  <2> SUFFICES ASSUME CallInv
               PROVE  TypeOK
    OBVIOUS
  <2>1. MainInv
    BY DEF CallInv
  <2>2. argv \in Seq(STRING) \cup {NULL}
    BY <2>1, ClientAssumption DEF MainInv
  <2>3. stage = "request" =>
          wire \in [command : STRING, return_type : TypeCodes, argc : Nat, size : Nat,
                    bytes : Seq(CharType)]
    <3> SUFFICES ASSUME stage = "request"
                 PROVE  wire \in [command : STRING, return_type : TypeCodes, argc : Nat,
                                  size : Nat, bytes : Seq(CharType)]
      OBVIOUS
    <3>1. wire = SerializeMessage(call.msg) /\ call.msg \in MessageType
      BY <2>1 DEF CallInv, MainInv, CallType
    <3> QED BY <3>1, MessageWritten
  <2>4. stage = "answer" =>
          wire \in [size : Nat, bytes : Seq(CharType)] /\ answer \in AnswerType
    BY AnswerWritten DEF CallInv
  <2> QED BY <2>1, <2>2, <2>3, <2>4 DEF CallInv, MainInv, TypeOK
<1> QED BY <1>1, CallAlways, PTL

\* For every width of an int: arg_size and the serializers agree, so a frame announces
\* the bytes that follow (send_cmd and serialize_answer, u_rpc_data.c).
THEOREM SizesAgree == Spec => []SizeAgrees
<1>1. CallInv => SizeAgrees
  <2> SUFFICES ASSUME CallInv
               PROVE  SizeAgrees
    OBVIOUS
  <2>1. stage = "request" => wire.size = Len(wire.bytes)
    <3> SUFFICES ASSUME stage = "request"
                 PROVE  wire.size = Len(wire.bytes)
      OBVIOUS
    <3>1. wire = SerializeMessage(call.msg) /\ call.msg \in MessageType
      BY DEF CallInv, MainInv, CallType
    <3> QED BY <3>1, MessageWritten
  <2>2. stage = "answer" => wire.size = Len(wire.bytes)
    BY AnswerWritten DEF CallInv
  <2> QED BY <2>1, <2>2 DEF SizeAgrees
<1> QED BY <1>1, CallAlways, PTL

-----------------------------------------------------------------------------
(* What a son runs on, and what the client gets.                           *)

\* What a son reads: the first n bytes of the request, and memory enough behind them.
LEMMA RequestArrives ==
  ASSUME CallInv, ReadMsg
  PROVE  /\ call \in CallType /\ call.msg \in MessageType /\ wire = SerializeMessage(call.msg)
         /\ \E n \in 0..wire.size, b \in Seq(CharType) :
              /\ Len(b) >= wire.size /\ Len(b) >= 129 * Len(call.msg.argv)
              /\ \A i \in 1..n : b[i] = wire.bytes[i]
              /\ Receives(n) /\ received' = DeserializeMessage(wire, b)
<1>1. /\ wire = SerializeMessage(call.msg) /\ call \in CallType /\ call.msg \in MessageType
  BY DEF ReadMsg, CallInv, MainInv, CallType
<1>2. PICK n \in Arrivals, g \in Garbage :
        Receives(n) /\ received' = DeserializeMessage(wire, Buffer(n, g))
  BY DEF ReadMsg
<1>3. wire.size \in Nat /\ wire.bytes \in Seq(CharType) /\ wire.size = Len(wire.bytes)
  BY <1>1, MessageWritten
<1>4. PICK b : b = Buffer(n, g)
  OBVIOUS
<1>5. /\ n \in 0..wire.size /\ b \in Seq(CharType)
      /\ Len(b) = wire.size + 129 * (Len(call.msg.argv) + 1)
      /\ \A i \in 1..n : b[i] = wire.bytes[i]
  BY <1>1, <1>3, <1>4, BufferFilled
<1>6. Len(b) >= wire.size /\ Len(b) >= 129 * Len(call.msg.argv)
  <2>1. call.msg.argv \in Seq(ArgType)
    BY <1>1 DEF MessageType
  <2>2. PICK argc \in Nat, size \in Nat : argc = Len(call.msg.argv) /\ size = wire.size
    BY <1>3, <2>1, LenProperties
  <2>3. size + 129 * (argc + 1) >= 129 * argc /\ size + 129 * (argc + 1) >= size
    OBVIOUS
  <2>4. Len(b) = size + 129 * (argc + 1)
    BY <1>5, <2>2
  <2> QED BY <2>2, <2>3, <2>4
<1> QED BY <1>1, <1>2, <1>4, <1>5, <1>6

\* A program that is not waiting for an answer is not waiting after its step either.
LEMMA Stages ==
  ASSUME [Next]_vars
  PROVE  stage' \notin {"running", "dead"} \/ ReadMsg \/ ExecuteTraps \/ UNCHANGED vars
<1>1. ASSUME NEW code, Exits(code), stage = "idle"
      PROVE  stage' = "idle"
  BY <1>1 DEF Exits
<1>2. ASSUME NEW from, NEW m, NEW room, Calls(from, m, room)
      PROVE  stage' = "call"
  BY <1>2 DEF Calls
<1>3. CASE Main
  <2>1. CASE CallDocumentation \/ CallShutdown
    BY <1>2, <2>1 DEF CallDocumentation, CallShutdown
  <2>2. CASE Command
    <3>1. stage = "idle"
      BY <2>2 DEF Command, AtOption, InMain
    <3> QED BY <1>1, <1>2, <2>2, <3>1 DEF Command
  <2>3. CASE NoPassword \/ Help \/ CommandRefused \/ Unknown \/ EndOfLine
    <3>1. stage = "idle" /\ \E code : Exits(code)
      BY <2>3 DEF NoPassword, Help, CommandRefused, Unknown, EndOfLine, AtOption, InMain
    <3> QED BY <1>1, <3>1
  <2> QED BY <1>3, <2>1, <2>2, <2>3 DEF Main
<1>4. CASE \E m \in Messages : ExternalCall(m)
  BY <1>2, <1>4 DEF ExternalCall
<1>5. CASE SendCmd \/ SendCmdFails
  BY <1>5 DEF SendCmd, SendCmdFails, Return
<1>6. CASE SendError \/ SendAnswer \/ Timeout
  BY <1>6 DEF SendError, SendAnswer, Timeout, Answers
<1>7. CASE GetAnswer
  BY <1>7 DEF GetAnswer, Return
<1> QED BY <1>3, <1>4, <1>5, <1>6, <1>7 DEF Next

\* Reading establishes the property; no other step leaves a son that runs or a son that
\* died of its message.
LEMMA RequestSteps ==
  CallInv /\ RequestFaithful /\ [Next]_vars => RequestFaithful'
<1> SUFFICES ASSUME CallInv, RequestFaithful, [Next]_vars
             PROVE  RequestFaithful'
  OBVIOUS
<1>1. CASE ReadMsg
  <2>1. PICK n \in 0..wire.size, b \in Seq(CharType) :
          /\ Len(b) >= wire.size /\ Len(b) >= 129 * Len(call.msg.argv)
          /\ \A i \in 1..n : b[i] = wire.bytes[i]
          /\ Receives(n) /\ received' = DeserializeMessage(wire, b)
    BY <1>1, RequestArrives
  <2>2. PICK m \in MessageType : m = call.msg /\ wire = SerializeMessage(m)
    BY <1>1, RequestArrives
  <2>13. PICK w : w = wire /\ w = SerializeMessage(m)
    BY <2>2
  <2>3. PICK r : r = received' /\ r = DeserializeMessage(w, b)
    BY <2>1, <2>2, <2>13
  <2>12. /\ n \in 0..w.size /\ Len(b) >= w.size /\ Len(b) >= 129 * Len(m.argv)
         /\ \A i \in 1..n : b[i] = w.bytes[i]
    BY <2>1, <2>2, <2>13
  <2>4. Tells(r, m, n) /\ w.size = ArgSize(m.argv)
    <3>1. m \in MessageType /\ w = SerializeMessage(m) /\ b \in Seq(CharType)
      BY <2>1, <2>2, <2>13
    <3>2. Tells(r, m, n)
      BY <2>3, <2>12, <3>1, MessageReadBack
    <3>3. w.size = ArgSize(m.argv)
      BY <3>1 DEF SerializeMessage
    <3> QED BY <3>2, <3>3
  <2>5. /\ r \in MessageType \cup {NULL}
        /\ r # NULL => /\ Len(r.argv) = Len(m.argv) /\ r.command = m.command
                       /\ r.return_type = m.return_type
    BY <2>1, <2>2, <2>13, <2>3, MessageRead
  <2>6. /\ stage' = (IF r = NULL THEN "dead" ELSE "running") /\ call'.msg = m /\ wire' = w
        /\ arrived' = n /\ received' = r
    BY <1>1, <2>1, <2>2, <2>13, <2>3 DEF ReadMsg, Receives
  <2>7. DOMAIN m.argv = 1..Len(m.argv)
    <3>1. m.argv \in Seq(ArgType)
      BY DEF MessageType
    <3> QED BY <3>1
  <2>8. r # NULL => DOMAIN r.argv = DOMAIN m.argv
    <3>1. r # NULL => r.argv \in Seq(ArgType)
      BY <2>5 DEF MessageType
    <3> QED BY <2>5, <2>7, <3>1
  <2>9. w.size \in Nat
    BY <2>2, <2>13, MessageWritten
  <2>10. stage' = "dead" => r = NULL /\ (n < w.size \/ \E i \in DOMAIN m.argv : ~OctetHolds(m.argv[i]))
    BY <2>4, <2>6, <2>7, <2>9, <2>12 DEF Tells
  <2>11. stage' = "running" =>
           /\ r # NULL
           /\ \A i \in DOMAIN m.argv : Told(m, n, i) => r.argv[i] = Shortened(m.argv[i])
    BY <2>4, <2>6, <2>7 DEF Tells
  <2> QED BY <2>5, <2>6, <2>8, <2>10, <2>11 DEF RequestFaithful, Told
<1>2. CASE ExecuteTraps
  <2>1. stage' = "dead" /\ received' = received /\ received # NULL
    BY <1>2 DEF ExecuteTraps, wireVars, CallInv
  <2> QED BY <2>1 DEF RequestFaithful
<1>3. CASE UNCHANGED vars
  BY <1>3 DEF vars, wireVars, RequestFaithful
<1>4. CASE stage' \notin {"running", "dead"}
  BY <1>4 DEF RequestFaithful
<1> QED BY <1>1, <1>2, <1>3, <1>4, Stages

\* For every width of an int and every way a frame may be cut: a son runs on the message
\* of its caller, but for the arguments that were cut or came behind an octet that
\* overflowed (read_msg and deserialize_message).
THEOREM RequestsAreTold == Spec => []RequestFaithful
<1>1. Init => RequestFaithful
  BY DEF Init, RequestFaithful
<1> QED BY <1>1, RequestSteps, CallAlways, PTL DEF Spec

\* The bytes of an integer follow its type.
LEMMA IntegerLaid ==
  ASSUME NEW n \in IntType, NEW a, a = [typ |-> Int32, data |-> n], NEW k, k = IntegerLength(n)
  PROVE  /\ a \in ArgType /\ k \in Nat /\ SizeOf(a) = 1 + k
         /\ \A j \in 1..k : SerializeArg(a)[1 + j] = SerializeInteger(n)[j]
<1>1. n \in Int /\ Void = 0 /\ Int32 = 1 /\ Str = 2
  BY Conversions DEF Void, Int32, Str
<1>2. PICK u \in Seq(CharType), s \in Seq(CharType) :
        u = SerializeInteger(n) /\ Len(u) = k /\ s = SerializeArg(a) /\ Len(s) = SizeOf(a)
  <2>1. a \in ArgType
    BY DEF ArgType
  <2> QED BY <1>1, <2>1, IntegerWritten, ArgumentWritten
<1>3. s = <<Int32>> \o u
  BY <1>1, <1>2 DEF SerializeArg
<1>4. <<Int32>> \in Seq(CharType) /\ Len(<<Int32>>) = 1
  <2>1. Int32 \in CharType
    BY <1>1, Chars
  <2> QED BY <2>1
<1>5. /\ Len(s) = 1 + k
      /\ \A j \in 1..(1 + k) : s[j] = IF j <= 1 THEN <<Int32>>[j] ELSE u[j - 1]
  BY <1>2, <1>3, <1>4, ConcatProperties
<1>6. k \in Nat
  BY <1>1, IntegerLengths
<1>7. \A j \in 1..k : s[1 + j] = u[j]
  <2> SUFFICES ASSUME NEW j \in 1..k
               PROVE  s[1 + j] = u[j]
    OBVIOUS
  <2>1. 1 + j \in 1..(1 + k) /\ ~(1 + j <= 1) /\ (1 + j) - 1 = j
    BY <1>6
  <2> QED BY <1>5, <2>1
<1>8. Len(s) = 1 + k
  BY <1>5
<1>9. a \in ArgType
  BY DEF ArgType
<1> QED BY <1>2, <1>6, <1>7, <1>8, <1>9

\* Those of a string follow its type and its octet.
LEMMA StringLaid ==
  ASSUME NEW d \in StringType, NEW a, a = [typ |-> Str, data |-> d], NEW n \in Nat, n = Len(d)
  PROVE  /\ a \in ArgType /\ SizeOf(a) = 2 + n /\ SerializeArg(a)[2] = Char(n)
         /\ \A j \in 1..n : SerializeArg(a)[2 + j] = d[j]
<1>1. Void = 0 /\ Int32 = 1 /\ Str = 2
  BY DEF Void, Int32, Str
<1>2. a \in ArgType
  BY DEF ArgType
<1>3. PICK s \in Seq(CharType) : s = SerializeArg(a) /\ Len(s) = SizeOf(a)
  BY <1>2, ArgumentWritten
<1>4. PICK c \in CharType : c = Char(n)
  BY Conversions
<1>5. s = <<Str, c>> \o d
  BY <1>1, <1>3, <1>4 DEF SerializeArg
<1>6. d \in Seq(CharType)
  BY DEF StringType
<1>7. PICK head : head = <<Str, c>>
  OBVIOUS
<1>8. head \in Seq(CharType) /\ Len(head) = 2 /\ head[2] = c
  <2>1. Str \in CharType
    BY <1>1, Chars
  <2>2. <<Str, c>> \in Seq(CharType) /\ Len(<<Str, c>>) = 2 /\ <<Str, c>>[2] = c
    BY <2>1
  <2> QED BY <1>7, <2>2
<1>9. /\ Len(s) = 2 + n
      /\ \A j \in 1..(2 + n) : s[j] = IF j <= 2 THEN head[j] ELSE d[j - 2]
  BY <1>5, <1>6, <1>7, <1>8, ConcatProperties
<1>10. \A j \in 1..n : s[2 + j] = d[j]
  BY <1>9
<1>11. s[2] = c
  BY <1>8, <1>9
<1>12. Len(s) = 2 + n
  BY <1>9
<1> QED BY <1>2, <1>3, <1>4, <1>10, <1>11, <1>12

\* The bytes of a result follow the status.
LEMMA AnswerLaid ==
  ASSUME NEW a \in ArgType, NEW w, w = SerializeAnswer(OK, a), NEW k \in Nat, k = SizeOf(a)
  PROVE  /\ w.size = 1 + k /\ w.bytes \in Seq(CharType)
         /\ w.bytes[1] = OK /\ \A j \in 1..k : w.bytes[1 + j] = SerializeArg(a)[j]
<1>1. PICK s \in Seq(CharType) : s = SerializeArg(a) /\ Len(s) = k
  BY ArgumentWritten
<1>2. ArgSize(<<a>>) = k
  <2>1. PICK args : args = <<a>>
    OBVIOUS
  <2>2. args \in Seq(ArgType) /\ args = <<a>> /\ Len(args) = 1 /\ args[1] = a
    BY <2>1
  <2>3. PICK h \in [0..1 -> Nat] :
          h[0] = 0 /\ h[1] = ArgSize(args) /\ \A i \in 1..1 : h[i] = h[i - 1] + SizeOf(args[i])
    BY <2>2, ArgSizeRun
  <2>4. h[1] = h[1 - 1] + SizeOf(args[1]) /\ 1 - 1 = 0
    BY <2>3
  <2> QED BY <2>2, <2>3, <2>4
<1>3. w = [size |-> 1 + k, bytes |-> <<OK>> \o s]
  BY <1>1, <1>2 DEF SerializeAnswer
<1>4. PICK head : head = <<OK>>
  OBVIOUS
<1>5. head \in Seq(CharType) /\ Len(head) = 1 /\ head[1] = OK
  <2>1. OK \in CharType
    BY Chars DEF OK
  <2>2. <<OK>> \in Seq(CharType) /\ Len(<<OK>>) = 1 /\ <<OK>>[1] = OK
    BY <2>1
  <2> QED BY <1>4, <2>2
<1>6. PICK t : t = head \o s
  OBVIOUS
<1>7. /\ t \in Seq(CharType) /\ Len(t) = 1 + k
      /\ \A j \in 1..(1 + k) : t[j] = IF j <= 1 THEN head[j] ELSE s[j - 1]
  <2>1. /\ head \o s \in Seq(CharType) /\ Len(head \o s) = Len(head) + Len(s)
        /\ \A j \in 1..(Len(head) + Len(s)) :
             (head \o s)[j] = IF j <= Len(head) THEN head[j] ELSE s[j - Len(head)]
    BY <1>5, ConcatProperties
  <2> QED BY <1>1, <1>5, <1>6, <2>1
<1>8. \A j \in 1..k : t[1 + j] = s[j]
  BY <1>7
<1>9. t[1] = OK
  BY <1>5, <1>7
<1>10. w.size = 1 + k /\ w.bytes = t
  BY <1>3, <1>4, <1>6
<1> QED BY <1>1, <1>7, <1>8, <1>9, <1>10

\* The first bytes of some.
LEMMA Beginning ==
  ASSUME NEW b \in Seq(CharType), NEW p \in Nat, p <= Len(b)
  PROVE  /\ SubSeq(b, 1, p) \in Seq(CharType) /\ Len(SubSeq(b, 1, p)) = p
         /\ \A j \in 1..p : SubSeq(b, 1, p)[j] = b[j]
<1>1. /\ SubSeq(b, 1, p) \in Seq(CharType) /\ Len(SubSeq(b, 1, p)) = IF 1 <= p THEN p - 1 + 1 ELSE 0
      /\ \A j \in 1..(p - 1 + 1) : SubSeq(b, 1, p)[j] = b[1 + j - 1]
  BY Piece
<1>2. Len(SubSeq(b, 1, p)) = p
  <2>1. Len(SubSeq(b, 1, p)) = IF 1 <= p THEN p - 1 + 1 ELSE 0
    BY <1>1
  <2> QED BY <2>1
<1>3. \A j \in 1..p : SubSeq(b, 1, p)[j] = b[j]
  <2> SUFFICES ASSUME NEW j \in 1..p
               PROVE  SubSeq(b, 1, p)[j] = b[j]
    OBVIOUS
  <2>1. j \in 1..(p - 1 + 1) /\ 1 + j - 1 = j
    OBVIOUS
  <2> QED BY <1>1, <2>1
<1> QED BY <1>1, <1>2, <1>3

\* An answer is read as it was, but for the end of a string that did not arrive.
AnswerTold(r, a, n, size) ==
  /\ r.status = a.status
  /\ n = size => r.arg = a.arg
  /\ n < size =>
       /\ r.arg.typ = a.arg.typ
       /\ Len(r.arg.data) <= Len(a.arg.data)
       /\ IsPrefix(SubSeq(a.arg.data, 1, n - 3), r.arg.data)

\* An answer is read back as far as it arrived.
LEMMA AnswerReadBack ==
  ASSUME NEW a \in AnswerType, NEW w, w = SerializeAnswer(a.status, a.arg),
         NEW size \in Nat, size = w.size, NEW n \in 0..size, n < size => n >= 16,
         NEW b \in Seq(CharType), Len(b) >= size + 129, \A i \in 1..n : b[i] = w.bytes[i],
         NEW r, r = DeserializeAnswer(w, b)
  PROVE  AnswerTold(r, a, n, size)
<1>1. Void = 0 /\ Int32 = 1 /\ Str = 2 /\ OK = 0
  BY DEF Void, Int32, Str, OK
<1>2. size >= 1 /\ w.bytes[1] = a.status
  BY AnswerWritten
<1>3. 1 \in 1..n /\ b[1] = a.status
  <2>1. 1 \in 1..n
    BY <1>2
  <2> QED BY <1>2, <2>1
<1>4. CASE a.status # OK
  <2>1. r = [status |-> a.status, arg |-> NULL]
    BY <1>3, <1>4 DEF DeserializeAnswer
  <2>2. a.arg = NULL
    BY <1>4 DEF AnswerType
  <2>3. size = 1
    <3>1. w = [size |-> 1, bytes |-> <<a.status>>]
      BY <1>4 DEF SerializeAnswer
    <3> QED BY <3>1
  <2>4. ~(n < size)
    BY <2>3
  <2>5. r.status = a.status /\ r.arg = a.arg
    BY <2>1, <2>2
  <2> QED BY <2>4, <2>5 DEF AnswerTold
<1>5. CASE a.status = OK
  <2>1. PICK arg \in ArgType : arg = a.arg
    BY <1>5 DEF AnswerType
  <2>2. PICK k \in Nat, s \in Seq(CharType) : k = SizeOf(arg) /\ s = SerializeArg(arg) /\ k >= 1 /\ s[1] = arg.typ
    BY ArgumentWritten
  <2>3. PICK t : /\ t = w.bytes /\ size = 1 + k /\ t[1] = OK /\ \A j \in 1..k : t[1 + j] = s[j]
    BY <1>5, <2>1, <2>2, AnswerLaid
  <2>4. PICK l \in Nat : l = Len(b) /\ l >= size + 129
    BY LenProperties
  <2>5. \A j \in 1..k : 1 + j <= n => b[1 + j] = s[j]
    <3> SUFFICES ASSUME NEW j \in 1..k, 1 + j <= n
                 PROVE  b[1 + j] = s[j]
      OBVIOUS
    <3>1. 1 + j \in 1..n
      BY <2>2
    <3> QED BY <2>3, <3>1
  <2>6. b[2] = arg.typ
    <3>1. 1 \in 1..k /\ 1 + 1 <= n /\ 1 + 1 = 2
      BY <2>2, <2>3
    <3>2. b[1 + 1] = s[1]
      BY <2>5, <3>1
    <3> QED BY <2>2, <3>1, <3>2
  <2>7. PICK data :
          data = CASE arg.typ = Int32 -> DeserializeInteger(SubSeq(b, 3, l)).data
                   [] arg.typ = Str -> CString(SubSeq(b, 4, size))
                   [] OTHER -> NULL
    OBVIOUS
  <2>8. r = [status |-> OK, arg |-> [typ |-> arg.typ, data |-> data]]
    BY <1>3, <1>5, <2>4, <2>6, <2>7 DEF DeserializeAnswer
  <2>9. r.status = a.status /\ r.arg = [typ |-> arg.typ, data |-> data]
    BY <1>5, <2>8
  <2>10. CASE arg.typ = Void
    <3>1. arg = [typ |-> Void, data |-> NULL] /\ k = 1
      BY <1>1, <2>2, <2>10 DEF ArgType, SizeOf
    <3>2. data = NULL
      BY <1>1, <2>7, <2>10
    <3>3. r.arg = a.arg
      BY <2>1, <2>9, <2>10, <3>1, <3>2
    <3>4. ~(n < size)
      BY <2>3, <3>1
    <3> QED BY <2>9, <3>3, <3>4 DEF AnswerTold
  <2>11. CASE arg.typ = Int32
    <3>1. PICK v \in IntType, c \in Nat : arg = [typ |-> Int32, data |-> v] /\ c = IntegerLength(v)
      <4>1. PICK v \in IntType : arg = [typ |-> Int32, data |-> v]
        BY <1>1, <2>11 DEF ArgType
      <4>2. v \in Int
        BY Conversions
      <4> QED BY <4>1, <4>2, IntegerLengths
    <3>2. k = 1 + c /\ \A j \in 1..c : s[1 + j] = SerializeInteger(v)[j]
      BY <2>2, <3>1, IntegerLaid
    <3>3. c <= 12
      <4>1. PICK q \in Nat : q = DigitCount[Magnitude(v)] /\ q <= 10
        <5>1. Magnitude(v) \in IntType /\ v \in Int
          BY Conversions, SignsKept
        <5> QED BY <5>1, DigitsFew, IntegerLengths
      <4>2. c = 1 + (IF v < 0 THEN 1 ELSE 0) + (IF v = 0 THEN 1 ELSE q)
        BY <3>1, <4>1 DEF IntegerLength
      <4>3. PICK x \in Int : x = (IF v < 0 THEN 1 ELSE 0) /\ x <= 1
        OBVIOUS
      <4>4. PICK y \in Int : y = (IF v = 0 THEN 1 ELSE q) /\ y <= 10
        BY <4>1
      <4>5. c = 1 + x + y
        BY <4>2, <4>3, <4>4
      <4>6. 1 + x + y <= 12
        BY <4>3, <4>4
      <4> QED BY <4>5, <4>6
    <3>4. n = size /\ ~(n < size) /\ n = 2 + c
      BY <2>3, <3>2, <3>3
    <3>5. PICK u : u = SubSeq(b, 3, l)
      OBVIOUS
    <3>6. u \in Seq(CharType) /\ Begins(u, SerializeInteger(v))
      <4>1. /\ u \in Seq(CharType) /\ Len(u) = IF 3 <= l THEN l - 3 + 1 ELSE 0
            /\ \A j \in 1..(l - 3 + 1) : u[j] = b[3 + j - 1]
        BY <2>4, <3>5, Piece
      <4>2. Len(u) = l - 2
        <5>1. Len(u) = IF 3 <= l THEN l - 3 + 1 ELSE 0
          BY <4>1
        <5>2. 3 <= l
          BY <2>4
        <5> QED BY <5>1, <5>2
      <4>3. c <= l - 2
        BY <2>4, <3>4
      <4>4. \A j \in 1..c : u[j] = SerializeInteger(v)[j]
        <5> SUFFICES ASSUME NEW j \in 1..c
                     PROVE  u[j] = SerializeInteger(v)[j]
          OBVIOUS
        <5>1. /\ j \in 1..(l - 3 + 1) /\ 3 + j - 1 = 1 + (1 + j)
              /\ 1 + j \in 1..k /\ 1 + (1 + j) <= n
          BY <3>2, <3>4, <4>3
        <5>2. u[j] = b[3 + j - 1]
          BY <4>1, <5>1
        <5>3. b[1 + (1 + j)] = s[1 + j]
          BY <2>5, <5>1
        <5>4. s[1 + j] = SerializeInteger(v)[j]
          BY <3>2
        <5> QED BY <5>1, <5>2, <5>3, <5>4
      <4>5. Len(SerializeInteger(v)) = c
        <5>1. v \in Int
          BY Conversions
        <5> QED BY <3>1, <5>1, IntegerWritten
      <4> QED BY <4>1, <4>2, <4>3, <4>4, <4>5 DEF Begins
    <3>7. data = v
      <4>1. data = DeserializeInteger(u).data
        BY <1>1, <2>7, <2>11, <3>5
      <4>2. DeserializeInteger(u) = [data |-> v, next |-> IntegerLength(v)]
        BY <3>6, IntegerReadBack
      <4> QED BY <4>1, <4>2
    <3>8. r.arg = a.arg
      BY <2>1, <2>9, <2>11, <3>1, <3>7
    <3> QED BY <2>9, <3>4, <3>8 DEF AnswerTold
  <2>12. CASE arg.typ = Str
    <3>1. PICK d \in StringType, c \in Nat : arg = [typ |-> Str, data |-> d] /\ c = Len(d)
      <4>1. PICK d \in StringType : arg = [typ |-> Str, data |-> d]
        BY <1>1, <2>12 DEF ArgType
      <4>2. d \in Seq(CharType)
        BY DEF StringType
      <4> QED BY <4>1, <4>2, LenProperties
    <3>2. k = 2 + c /\ \A j \in 1..c : s[2 + j] = d[j]
      BY <2>2, <3>1, StringLaid
    <3>3. d \in Seq(CharType)
      BY DEF StringType
    <3>4. PICK u : u = SubSeq(b, 4, size)
      OBVIOUS
    <3>5. PICK p \in 0..c : p + 3 = n
      <4>1. n >= 3
        BY <2>3, <3>2
      <4>2. n - 3 \in 0..c /\ (n - 3) + 3 = n
        BY <2>3, <3>2, <4>1
      <4> QED BY <4>2
    <3>6. /\ u \in Seq(CharType) /\ Len(u) = c
          /\ \A j \in 1..p : u[j] = d[j]
      <4>1. /\ u \in Seq(CharType) /\ Len(u) = IF 4 <= size THEN size - 4 + 1 ELSE 0
            /\ \A j \in 1..(size - 4 + 1) : u[j] = b[4 + j - 1]
        <5>1. size \in Int /\ size <= Len(b)
          BY <2>4
        <5> QED BY <3>4, <5>1, Piece, SMTT(40)
      <4>2. Len(u) = c
        <5>1. Len(u) = IF 4 <= size THEN size - 4 + 1 ELSE 0
          BY <4>1
        <5>2. size = 3 + c
          BY <2>3, <3>2
        <5> QED BY <5>1, <5>2
      <4>3. \A j \in 1..p : u[j] = d[j]
        <5> SUFFICES ASSUME NEW j \in 1..p
                     PROVE  u[j] = d[j]
          OBVIOUS
        <5>1. size = 3 + c /\ k = 2 + c
          BY <2>3, <3>2
        <5>2. /\ j \in 1..(size - 4 + 1) /\ 4 + j - 1 = 1 + (2 + j) /\ j \in 1..c
              /\ 2 + j \in 1..k /\ 1 + (2 + j) <= n
          BY <3>5, <5>1
        <5>3. u[j] = b[4 + j - 1]
          BY <4>1, <5>2
        <5>4. b[1 + (2 + j)] = s[2 + j]
          BY <2>5, <5>2
        <5>5. s[2 + j] = d[j]
          BY <3>2, <5>2
        <5> QED BY <5>2, <5>3, <5>4, <5>5
      <4> QED BY <4>1, <4>2, <4>3
    <3>7. data = CString(u)
      BY <1>1, <2>7, <2>12, <3>4
    <3>8. n = size => r.arg = a.arg
      <4> SUFFICES ASSUME n = size
                   PROVE  r.arg = a.arg
        OBVIOUS
      <4>1. p = c
        BY <2>3, <3>2, <3>5, SMTT(40)
      <4>2. u = d
        BY <3>1, <3>3, <3>6, <4>1, SeqEqual
      <4>3. data = d
        BY <3>7, <4>2, StringReadBack
      <4> QED BY <2>1, <2>9, <2>12, <3>1, <4>3
    <3>9. ASSUME n < size
          PROVE  /\ Len(data) <= c
                 /\ IsPrefix(SubSeq(d, 1, p), data)
      <4>1. PICK e \in Seq(CharType), f \in Nat : e = data /\ f = Len(e) /\ f <= c
        <5>1. data \in Seq(CharType) /\ Len(data) <= c
          BY <3>6, <3>7, StringRead DEF StringType
        <5> QED BY <5>1, LenProperties
      <4>2. \A j \in 1..p : u[j] # 0
        <5> SUFFICES ASSUME NEW j \in 1..p
                     PROVE  u[j] # 0
          OBVIOUS
        <5>1. j \in 1..c
          BY <3>5
        <5>2. PICK S : S = CharType \ {0}
          OBVIOUS
        <5>3. d[j] \in S
          BY <3>1, <5>1, <5>2, ElementOfSeq DEF StringType
        <5> QED BY <3>6, <5>2, <5>3
      <4>3. p <= f /\ \A j \in 1..p : e[j] = u[j]
        <5>1. p \in 0..Len(u)
          BY <3>6
        <5> QED BY <3>6, <3>7, <4>1, <4>2, <5>1, StringKept
      <4>4. PICK x : x = SubSeq(d, 1, p)
        OBVIOUS
      <4>5. p <= c /\ p \in Nat
        OBVIOUS
      <4>6. /\ x \in Seq(CharType) /\ Len(x) = p /\ \A j \in 1..p : x[j] = d[j]
        BY <3>1, <3>3, <4>4, <4>5, Beginning
      <4>7. /\ SubSeq(x, 1, p) \in Seq(CharType) /\ Len(SubSeq(x, 1, p)) = p
            /\ \A j \in 1..p : SubSeq(x, 1, p)[j] = x[j]
        BY <4>5, <4>6, Beginning, SMTT(40)
      <4>8. /\ SubSeq(e, 1, p) \in Seq(CharType) /\ Len(SubSeq(e, 1, p)) = p
            /\ \A j \in 1..p : SubSeq(e, 1, p)[j] = e[j]
        BY <4>1, <4>3, <4>5, Beginning
      <4>9. SubSeq(x, 1, p) = SubSeq(e, 1, p)
        <5>1. ASSUME NEW j \in 1..p
              PROVE  SubSeq(x, 1, p)[j] = SubSeq(e, 1, p)[j]
          <6>1. x[j] = d[j] /\ u[j] = d[j] /\ e[j] = u[j]
            BY <3>6, <4>3, <4>6
          <6>2. SubSeq(x, 1, p)[j] = x[j] /\ SubSeq(e, 1, p)[j] = e[j]
            BY <4>7, <4>8
          <6> QED BY <6>1, <6>2
        <5> QED BY <4>7, <4>8, <5>1, SeqEqual
      <4> QED BY <4>1, <4>3, <4>4, <4>6, <4>9 DEF IsPrefix
    <3>10. n - 3 = p
      BY <3>5
    <3>11. r.arg.typ = a.arg.typ /\ r.arg.data = data /\ a.arg.data = d
      BY <2>1, <2>9, <3>1
    <3> QED BY <2>9, <3>1, <3>8, <3>9, <3>10, <3>11 DEF AnswerTold
  <2> QED BY <2>10, <2>11, <2>12 DEF ArgType
<1> QED BY <1>4, <1>5

-----------------------------------------------------------------------------
\* What the client reads: the first n bytes of the answer, and memory enough behind them.
LEMMA AnswerArrives ==
  ASSUME CallInv, GetAnswer
  PROVE  /\ call \in CallType /\ answer \in AnswerType
         /\ \E size \in Nat : \E n \in 0..size, b \in Seq(CharType) :
              /\ wire = SerializeAnswer(answer.status, answer.arg)
              /\ size = wire.size /\ size >= 1 /\ (n < size => n >= 16)
              /\ Len(b) >= size + 129 /\ \A i \in 1..n : b[i] = wire.bytes[i]
              /\ Receives(n) /\ got' = DeserializeAnswer(wire, b)
<1>1. /\ stage = "answer" /\ answer \in AnswerType /\ call \in CallType
      /\ wire = SerializeAnswer(answer.status, answer.arg)
  BY DEF GetAnswer, CallInv, MainInv
<1>2. PICK n \in Arrivals, g \in Garbage :
        Receives(n) /\ got' = DeserializeAnswer(wire, Buffer(n, g))
  BY DEF GetAnswer
<1>3. /\ wire.size \in Nat /\ wire.bytes \in Seq(CharType) /\ wire.size = Len(wire.bytes)
      /\ wire.size >= 1
  BY <1>1, AnswerWritten
<1>4. PICK b : b = Buffer(n, g)
  OBVIOUS
<1>5. PICK size \in Nat : size = wire.size /\ size >= 1
  BY <1>3
<1>6. /\ n \in 0..size /\ (n < size => n >= 16) /\ b \in Seq(CharType)
      /\ Len(b) = size + 129 * (Len(call.msg.argv) + 1)
      /\ \A i \in 1..n : b[i] = wire.bytes[i]
  BY <1>1, <1>3, <1>4, <1>5, BufferFilled
<1>7. Len(b) >= size + 129
  <2>1. call.msg.argv \in Seq(ArgType)
    BY <1>1 DEF CallType, MessageType
  <2>2. PICK argc \in Nat : argc = Len(call.msg.argv)
    BY <2>1, LenProperties
  <2>3. size + 129 * (argc + 1) >= size + 129
    OBVIOUS
  <2> QED BY <1>6, <2>2, <2>3
<1> QED BY <1>1, <1>2, <1>4, <1>5, <1>6, <1>7

\* Where a program is once it has its answer.
Ends == {"idle", "done"}

\* Once the client has an answer, nothing of its call changes until it makes another.
LEMMA Kept ==
  ASSUME [Next]_vars, got # NULL => stage \in Ends
  PROVE  got' = NULL \/ GetAnswer \/ UNCHANGED <<argv, stage, call, wireVars>>
<1>1. ASSUME NEW code, Exits(code)
      PROVE  UNCHANGED <<argv, stage, call, wireVars>>
  BY <1>1 DEF Exits
<1>2. ASSUME NEW from, NEW m, NEW room, Calls(from, m, room)
      PROVE  got' = NULL
  BY <1>2 DEF Calls
<1>3. CASE Main
  <2>1. CASE CallDocumentation \/ CallShutdown
    BY <1>2, <2>1 DEF CallDocumentation, CallShutdown
  <2>2. CASE Command
    BY <1>1, <1>2, <2>2 DEF Command
  <2>3. CASE NoPassword \/ Help \/ CommandRefused \/ Unknown \/ EndOfLine
    BY <1>1, <2>3 DEF NoPassword, Help, CommandRefused, Unknown, EndOfLine
  <2> QED BY <1>3, <2>1, <2>2, <2>3 DEF Main
<1>4. CASE \E m \in Messages : ExternalCall(m)
  BY <1>2, <1>4 DEF ExternalCall
<1>5. CASE SendCmd \/ SendCmdFails \/ ReadMsg \/ ExecuteTraps
  BY <1>5 DEF SendCmd, SendCmdFails, ReadMsg, ExecuteTraps, wireVars, Ends
<1>6. CASE SendError \/ SendAnswer \/ Timeout
  BY <1>6 DEF SendError, SendAnswer, Timeout, Answers, Ends
<1>7. CASE UNCHANGED vars
  BY <1>7 DEF vars
<1> QED BY <1>3, <1>4, <1>5, <1>6, <1>7 DEF Next

\* The inductive invariant of what the client has got.
AnswerInv ==
  /\ got # NULL => stage \in Ends
  /\ AnswerFaithful

\* Every step keeps it.
LEMMA AnswerSteps == CallInv /\ AnswerInv /\ [Next]_vars => AnswerInv'
<1> SUFFICES ASSUME CallInv, AnswerInv, [Next]_vars
             PROVE  AnswerInv'
  OBVIOUS
<1>1. CASE GetAnswer
  <2>0. PICK size \in Nat : \E n \in 0..size, b \in Seq(CharType) :
          /\ wire = SerializeAnswer(answer.status, answer.arg)
          /\ size = wire.size /\ size >= 1 /\ (n < size => n >= 16)
          /\ Len(b) >= size + 129 /\ \A i \in 1..n : b[i] = wire.bytes[i]
          /\ Receives(n) /\ got' = DeserializeAnswer(wire, b)
    BY <1>1, AnswerArrives
  <2>1. PICK n \in 0..size, b \in Seq(CharType) :
          /\ wire = SerializeAnswer(answer.status, answer.arg)
          /\ size = wire.size /\ size >= 1 /\ (n < size => n >= 16)
          /\ Len(b) >= size + 129 /\ \A i \in 1..n : b[i] = wire.bytes[i]
          /\ Receives(n) /\ got' = DeserializeAnswer(wire, b)
    BY <2>0
  <2>2. PICK a \in AnswerType : a = answer /\ wire = SerializeAnswer(a.status, a.arg)
    BY <1>1, <2>1, AnswerArrives
  <2>13. PICK w : w = wire /\ w = SerializeAnswer(a.status, a.arg)
    BY <2>2
  <2>3. PICK r : r = got' /\ r = DeserializeAnswer(w, b)
    BY <2>1, <2>2, <2>13
  <2>4. size = w.size /\ Len(b) >= size + 129 /\ \A i \in 1..n : b[i] = w.bytes[i]
    BY <2>1, <2>2, <2>13
  <2>5. AnswerTold(r, a, n, size)
    BY <2>1, <2>2, <2>13, <2>3, <2>4, AnswerReadBack
  <2>6. arrived' = n /\ wire'.size = size /\ answer' = a /\ got' = r /\ stage' \in Ends
    BY <1>1, <2>1, <2>2, <2>13, <2>3 DEF GetAnswer, Return, Receives, Ends
  <2> QED BY <2>5, <2>6 DEF AnswerInv, AnswerFaithful, AnswerTold
<1>2. CASE got' = NULL
  BY <1>2 DEF AnswerInv, AnswerFaithful
<1>3. CASE UNCHANGED <<argv, stage, call, wireVars>>
  BY <1>3 DEF AnswerInv, AnswerFaithful, wireVars
<1> QED BY <1>1, <1>2, <1>3, Kept DEF AnswerInv

\* It holds at first.
LEMMA AnswerStarts == Init => AnswerInv
BY DEF Init, AnswerInv, AnswerFaithful

\* It is an invariant.
LEMMA AnswerAlways == Spec => []AnswerInv
BY AnswerStarts, AnswerSteps, CallAlways, PTL DEF Spec

\* For every width of an int, every result and every way a frame may be cut: the client gets
\* the status and the result that the son answered with, or the beginning of its string
\* (getAnswer and deserialize_answer).
THEOREM AnswersAreTold == Spec => []AnswerFaithful
<1>1. AnswerInv => AnswerFaithful
  BY DEF AnswerInv
<1> QED BY <1>1, AnswerAlways, PTL

\* Conversions of the same number up to a multiple of the width are the same.
LEMMA SameInt ==
  ASSUME NEW x \in Int, NEW q \in Int
  PROVE  AsInt(x + q * 2^IntBits) = AsInt(x)
<1>1. PICK h \in Nat : h >= 8 /\ 2^(IntBits - 1) = h /\ 2^IntBits = 2 * h
  BY Width
<1>2. PICK m \in Nat : m = 2 * h /\ m > 0
  BY <1>1
<1>3. PICK u \in Int : u = x + h
  OBVIOUS
<1>4. PICK v \in Int : v = q * m
  OBVIOUS
<1>5. (u + q * m) % m = u % m
  <2>1. PICK i \in Int, r \in Int : u = m * i + r /\ 0 <= r /\ r < m /\ r = u % m
    <3>1. /\ u = m * (u \div m) + (u % m)
          /\ 0 <= u % m /\ u % m < m /\ u \div m \in Int /\ u % m \in Int
      BY <1>2
    <3> QED BY <3>1
  <2>2. PICK w \in Int : w = u + q * m
    BY <1>4
  <2>3. PICK j \in Int, s \in Int : w = m * j + s /\ 0 <= s /\ s < m /\ s = w % m
    <3>1. /\ w = m * (w \div m) + (w % m)
          /\ 0 <= w % m /\ w % m < m /\ w \div m \in Int /\ w % m \in Int
      BY <1>2
    <3> QED BY <3>1
  <2>4. PICK d \in Int : d = i + q - j
    OBVIOUS
  <2>5. m * d = s - r
    BY <2>1, <2>2, <2>3, <2>4
  <2>6. ~(d >= 1)
    <3> SUFFICES ASSUME d >= 1
                 PROVE  FALSE
      OBVIOUS
    <3>1. m * (d - 1) >= 0
      BY <1>2
    <3>2. m * (d - 1) = m * d - m
      OBVIOUS
    <3> QED BY <2>1, <2>3, <2>5, <3>1, <3>2
  <2>7. ~(d <= -1)
    <3> SUFFICES ASSUME d <= -1
                 PROVE  FALSE
      OBVIOUS
    <3>1. m * (-d - 1) >= 0
      BY <1>2
    <3>2. m * (-d - 1) = -(m * d) - m
      OBVIOUS
    <3> QED BY <2>1, <2>3, <2>5, <3>1, <3>2
  <2>8. d = 0 /\ m * 0 = 0
    BY <2>6, <2>7
  <2>9. s = r
    BY <2>5, <2>8
  <2> QED BY <2>1, <2>2, <2>3, <2>9
<1>6. AsInt(x) = (u % m) - h
  BY <1>1, <1>2, <1>3 DEF AsInt, Wrap
<1>7. AsInt(x + q * 2^IntBits) = ((u + q * m) % m) - h
  <2>1. PICK y \in Int : y = x + q * 2^IntBits /\ y = x + v
    BY <1>1, <1>2, <1>4
  <2>2. y + h = u + v
    BY <1>3, <2>1
  <2>3. AsInt(y) = ((u + v) % m) - h
    BY <1>1, <1>2, <2>2 DEF AsInt, Wrap
  <2> QED BY <1>4, <2>1, <2>3
<1> QED BY <1>5, <1>6, <1>7

\* A factor may be converted before or after the multiplication.
LEMMA IntTimes ==
  ASSUME NEW x \in Int, NEW a \in Int
  PROVE  AsInt(AsInt(x) * a) = AsInt(x * a)
<1>1. PICK h \in Nat : h >= 8 /\ 2^(IntBits - 1) = h /\ 2^IntBits = 2 * h
  BY Width
<1>2. PICK m \in Nat : m = 2 * h /\ m > 0 /\ m = 2^IntBits
  BY <1>1
<1>3. PICK q \in Int : AsInt(x) = x + q * m
  <2>1. PICK u \in Int : u = x + h
    OBVIOUS
  <2>2. PICK i \in Int, r \in Int : u = m * i + r /\ r = u % m
    <3>1. u = m * (u \div m) + (u % m) /\ u \div m \in Int /\ u % m \in Int
      BY <1>2
    <3> QED BY <3>1
  <2>3. AsInt(x) = r - h
    BY <1>1, <1>2, <2>1, <2>2 DEF AsInt, Wrap
  <2>4. r - h = x + (-i) * m
    BY <2>1, <2>2
  <2> QED BY <2>3, <2>4
<1>4. PICK y \in Int, p \in Int : y = x * a /\ p = q * a
  OBVIOUS
<1>5. (x + q * m) * a = y + p * m
  BY <1>4
<1>6. AsInt(y + p * 2^IntBits) = AsInt(y)
  BY SameInt
<1> QED BY <1>2, <1>3, <1>4, <1>5, <1>6

\* The product of n factors, factor by factor.
LEMMA RaisedRun ==
  ASSUME NEW a \in Int, NEW n \in Nat
  PROVE  \E h \in [0..n -> Int] :
           h[0] = 1 /\ h[n] = Raised(a, n) /\ \A k \in 1..n : h[k] = h[k - 1] * a
<1> DEFINE D == 1..n
           s == [i \in D |-> a]
           step == [i \in D |-> [x \in Int |-> x * a]]
           F(f) == f = [t \in SUBSET D |->
                          IF t = {} THEN 1 ELSE f[t \ {Max(t)}] * s[Max(t)]]
<1>1. step \in [D -> [Int -> Int]]
  OBVIOUS
<1>2. PICK f \in [SUBSET D -> Int] : IsFold(f, n, 1, step)
  <2>1. PICK T : T = Int
    OBVIOUS
  <2>2. step \in [D -> [T -> T]] /\ 1 \in T
    BY <1>1, <2>1
  <2> HIDE DEF step
  <2>3. \E f \in [SUBSET D -> T] : IsFold(f, n, 1, step)
    BY <2>2, FoldExists
  <2> QED BY <2>1, <2>3
<1>3. F(f)
  <2>1. \A t \in SUBSET D : t # {} =>
          step[Max(t)][f[t \ {Max(t)}]] = f[t \ {Max(t)}] * s[Max(t)]
    <3> SUFFICES ASSUME NEW t \in SUBSET D, t # {}
                 PROVE  step[Max(t)][f[t \ {Max(t)}]] = f[t \ {Max(t)}] * s[Max(t)]
      OBVIOUS
    <3>1. Max(t) \in D
      BY GreatestPlace
    <3>2. f[t \ {Max(t)}] \in Int
      OBVIOUS
    <3> QED BY <3>1, <3>2
  <2> HIDE DEF step, s
  <2> QED BY <1>2, <2>1 DEF IsFold
<1>4. Raised(a, n) = (CHOOSE g : F(g))[D]
  <2>1. Raised(a, n) = FoldLeft(LAMBDA res, x : res * x, 1, s)
    BY DEF Raised
  <2>2. DOMAIN s = D
    OBVIOUS
  <2> HIDE DEF s
  <2> QED BY <2>1, <2>2 DEF FoldLeft, MapThenFoldSet
<1> DEFINE g == CHOOSE h : F(h)
<1> HIDE DEF F
<1>5. F(g)
  BY <1>3
<1> HIDE DEF g
<1>6. \A k \in D : g[1..k] = g[1..(k - 1)] * a
  <2>1. \A k \in D : g[1..k] = g[1..(k - 1)] * s[k]
    <3> HIDE DEF s
    <3> QED BY <1>5, FirstNumbers, ZenonT(60) DEF F
  <2> QED BY <2>1
<1>7. g[1..0] = 1
  <2> HIDE DEF s
  <2> QED BY <1>5, FirstNumbers DEF F
<1> DEFINE G == {k \in 0..n : g[1..k] \in Int}
<1>8. 0 \in G
  BY <1>7
<1>9. \A k \in D : k - 1 \in G => k \in G
  <2> SUFFICES ASSUME NEW k \in D, k - 1 \in G
               PROVE  k \in G
    OBVIOUS
  <2>1. PICK x \in Int : x = g[1..(k - 1)]
    OBVIOUS
  <2>2. x * a \in Int
    OBVIOUS
  <2>3. g[1..k] \in Int
    BY <1>6, <2>1, <2>2
  <2> QED BY <2>3
<1> HIDE DEF G
<1>10. \A k \in 0..n : k \in G
  BY <1>8, <1>9, UpTo
<1> DEFINE h == [k \in 0..n |-> g[1..k]]
<1>11. h \in [0..n -> Int]
  BY <1>10 DEF G
<1>12. \A k \in 1..n : h[k] = h[k - 1] * a
  <2> SUFFICES ASSUME NEW k \in 1..n
               PROVE  h[k] = h[k - 1] * a
    OBVIOUS
  <2>1. h[k] = g[1..k] /\ h[k - 1] = g[1..(k - 1)]
    OBVIOUS
  <2> QED BY <1>6, <2>1
<1>13. h[0] = 1 /\ h[n] = Raised(a, n)
  BY <1>4, <1>7 DEF g
<1> QED BY <1>11, <1>12, <1>13

\* With a negative exponent the loop of power is not entered.
LEMMA PowerOfNegative ==
  ASSUME NEW a \in IntType, NEW b \in Int, b < 0
  PROVE  Power(a, b) = a
<1>1. PICK n \in Nat : n = 0
  OBVIOUS
<1>2. PICK h \in [0..n -> IntType] : h[0] = a /\ h[n] = Power(a, n + 1)
  BY PowerRun
<1>3. [i \in 1..(b - 1) |-> a] = [i \in 1..((n + 1) - 1) |-> a]
  <2>1. 1..(b - 1) = {} /\ 1..((n + 1) - 1) = {}
    BY <1>1
  <2> QED BY <2>1
<1>4. b # 0 /\ n + 1 # 0
  BY <1>1
<1>5. Power(a, b) = Power(a, n + 1)
  BY <1>3, <1>4, Zenon DEF Power
<1> QED BY <1>1, <1>2, <1>5

\* The power is the product of that many factors.
LEMMA PowerRaises ==
  ASSUME NEW a \in IntType, NEW b \in Nat \ {0}
  PROVE  Power(a, b) = AsInt(Raised(a, b))
<1>1. PICK n \in Nat : n = b - 1 /\ b = n + 1
  OBVIOUS
<1>2. a \in Int
  BY Conversions
<1>3. PICK h \in [0..b -> Int] :
        h[0] = 1 /\ h[b] = Raised(a, b) /\ \A k \in 1..b : h[k] = h[k - 1] * a
  BY <1>2, RaisedRun
<1>4. PICK p : /\ p[0] = a /\ p[n] = Power(a, b)
               /\ \A k \in 1..n : p[k] = AsInt(p[k - 1] * a)
  <2>1. \E q \in [0..n -> IntType] :
          q[0] = a /\ q[n] = Power(a, n + 1) /\ \A k \in 1..n : q[k] = AsInt(q[k - 1] * a)
    BY PowerRun
  <2> QED BY <1>1, <2>1
<1> DEFINE G == {k \in 0..n : p[k] = AsInt(h[k + 1])}
<1>5. 0 \in G
  <2>1. 1 \in 1..b /\ 1 - 1 = 0 /\ 0 + 1 = 1
    BY <1>1
  <2>2. h[1] = h[1 - 1] * a
    BY <1>3, <2>1
  <2>3. h[1] = a
    <3>1. 1 * a = a
      BY <1>2
    <3> QED BY <1>3, <2>1, <2>2, <3>1
  <2>4. AsInt(a) = a
    BY IntsKept
  <2> QED BY <1>4, <2>1, <2>3, <2>4
<1>6. ASSUME NEW k \in 1..n, k - 1 \in G
      PROVE  k \in G
  <2>1. p[k - 1] = AsInt(h[(k - 1) + 1]) /\ (k - 1) + 1 = k
    BY <1>6
  <2>2. k + 1 \in 1..b /\ (k + 1) - 1 = k /\ k \in 0..b
    BY <1>1
  <2>3. PICK x \in Int : x = h[k]
    BY <1>3, <2>2
  <2>4. h[k + 1] = x * a
    <3>1. h[k + 1] = h[(k + 1) - 1] * a
      BY <1>3, <2>2
    <3> QED BY <2>2, <2>3, <3>1
  <2>5. p[k] = AsInt(AsInt(x) * a)
    <3>1. p[k] = AsInt(p[k - 1] * a)
      BY <1>4
    <3> QED BY <2>1, <2>3, <3>1
  <2>6. p[k] = AsInt(x * a)
    BY <1>2, <2>5, IntTimes
  <2> QED BY <2>4, <2>6
<1> HIDE DEF G
<1>7. \A k \in 0..n : k \in G
  BY <1>5, <1>6, UpTo
<1>8. n \in G
  <2>1. n \in 0..n
    OBVIOUS
  <2> QED BY <1>7, <2>1
<1> QED BY <1>1, <1>3, <1>4, <1>8 DEF G

\* A whole message without an octet that overflowed is read as it was.
LEMMA WholeMessageReadBack ==
  ASSUME NEW m \in MessageType, \A i \in 1..Len(m.argv) : OctetHolds(m.argv[i]),
         NEW n \in Nat, n = ArgSize(m.argv),
         NEW r \in MessageType, r # NULL, Tells(r, m, n), Len(r.argv) = Len(m.argv),
         r.command = m.command, r.return_type = m.return_type
  PROVE  r = m
<1>1. m.argv \in Seq(ArgType) /\ r.argv \in Seq(ArgType)
  BY DEF MessageType
<1>2. PICK argc \in Nat : argc = Len(m.argv)
  BY <1>1, LenProperties
<1>3. PICK g, h : MessageRuns(m, g, h)
  BY MessageRun
<1>4. ASSUME NEW i \in 1..argc
      PROVE  r.argv[i] = m.argv[i]
  <2>1. ArgSize(SubSeq(m.argv, 1, i)) = h[i]
    BY <1>2, <1>3, SizeOfFirst
  <2>2. h[i] <= h[argc]
    <3>1. i \in 0..argc
      OBVIOUS
    <3> QED BY <1>2, <1>3, <3>1, ArgumentsLaid
  <2>3. h[argc] = n
    BY <1>2, <1>3 DEF MessageRuns, SerializeMessage
  <2>4. PICK x \in Nat : x = h[i]
    <3>1. h \in [0..argc -> Nat] /\ i \in 0..argc
      BY <1>2, <1>3 DEF MessageRuns
    <3> QED BY <3>1
  <2>5. n >= x
    BY <2>2, <2>3, <2>4
  <2>6. Told(m, n, i)
    <3>1. \A j \in 1..(i - 1) : j \in 1..argc
      OBVIOUS
    <3>2. \A j \in 1..(i - 1) : OctetHolds(m.argv[j])
      BY <1>2, <3>1
    <3> QED BY <2>1, <2>4, <2>5, <3>2 DEF Told
  <2>7. r.argv[i] = Shortened(m.argv[i])
    BY <1>2, <2>6 DEF Tells
  <2>8. PICK a \in ArgType : a = m.argv[i] /\ OctetHolds(a)
    BY <1>1, <1>2, ElementOfSeq
  <2>9. Shortened(a) = a
    <3>1. CASE a.typ = Str
      <4>1. PICK d \in StringType : a = [typ |-> Str, data |-> d]
        BY <3>1 DEF ArgType, Void, Int32, Str
      <4>2. d \in Seq(CharType)
        BY DEF StringType
      <4>3. PICK k \in Nat : k = Len(d) /\ k <= 127
        BY <2>8, <3>1, <4>1, <4>2, LenProperties DEF OctetHolds
      <4>4. k % 256 = k
        BY <4>3
      <4>5. PICK s : s = SubSeq(d, 1, k)
        OBVIOUS
      <4>6. s \in Seq(CharType) /\ Len(s) = k /\ \A j \in 1..k : s[j] = d[j]
        BY <4>2, <4>3, <4>5, Beginning
      <4>7. s = d
        BY <4>2, <4>3, <4>6, SeqEqual
      <4> QED BY <3>1, <4>1, <4>3, <4>4, <4>5, <4>7, SMTT(40) DEF Shortened
    <3>2. CASE a.typ # Str
      BY <3>2 DEF Shortened
    <3> QED BY <3>1, <3>2
  <2> QED BY <2>7, <2>8, <2>9
<1>5. r.argv = m.argv
  BY <1>1, <1>2, <1>4, SeqEqual
<1> QED BY <1>5 DEF MessageType

\* The message of a well-formed line, read from its words.
ParsedArg(i) ==
  IF argv[4 + 2 * i] = "-int" THEN [typ |-> Int32, data |-> Number[argv[5 + 2 * i]]]
  ELSE [typ |-> Str, data |-> Text[argv[5 + 2 * i]]]
\* parse_command reads the words in pairs.
LEMMA MessageParsed ==
  ASSUME argv \in Lines, NEW n \in Nat, Len(argv) = 5 + 2 * n,
         \A i \in 1..n : argv[4 + 2 * i] \in {"-int", "-str"}
  PROVE  Parsed(2) = [command |-> argv[3], return_type |-> ReturnedType(argv[5]),
                      argv |-> [i \in 1..n |-> ParsedArg(i)]]
<1>1. TypePlaces(2) = {3 + 2 * i : i \in 1..n} /\ Cardinality(TypePlaces(2)) = n
  BY Places
<1>2. ASSUME NEW i \in 1..n
      PROVE  ParseArg(2 + 1 + 2 * i) = ParsedArg(i)
  <2>1. 2 + 1 + 2 * i = 3 + 2 * i /\ (3 + 2 * i) + 1 = 4 + 2 * i /\ ((3 + 2 * i) + 1) + 1 = 5 + 2 * i
    OBVIOUS
  <2>2. ReturnedType(argv[4 + 2 * i]) = Int32 <=> argv[4 + 2 * i] = "-int"
    BY DEF ReturnedType, Int32, Str, Void
  <2> QED BY <2>1, <2>2 DEF ParseArg, ParsedArg, Arg
<1>3. Parsed(2) = [command |-> Arg(2), return_type |-> ReturnedType(Arg(2 + 2)),
                   argv |-> [i \in 1..n |-> ParseArg(2 + 1 + 2 * i)]]
  BY <1>1 DEF Parsed, Message
<1>4. [i \in 1..n |-> ParseArg(2 + 1 + 2 * i)] = [i \in 1..n |-> ParsedArg(i)]
  BY <1>2
<1>5. Arg(2) = argv[3] /\ Arg(2 + 2) = argv[5]
  <2>1. 2 + 1 = 3 /\ (2 + 2) + 1 = 5
    OBVIOUS
  <2> QED BY <2>1 DEF Arg
<1> QED BY <1>3, <1>4, <1>5

\* Its data.
LineData ==
  [i \in 1..((Len(argv) - 5) \div 2) |->
     IF argv[4 + 2 * i] = "-int" THEN Number[argv[5 + 2 * i]] ELSE Text[argv[5 + 2 * i]]]
\* The data of the message are the data of the line.
LEMMA DataParsed ==
  ASSUME argv \in Lines, Regular(argv)
  PROVE  /\ Parsed(2).command = argv[3] /\ Parsed(2).return_type = ReturnedType(argv[5])
         /\ DataOf(Parsed(2)) = LineData
<1>1. PICK n \in Nat : /\ Len(argv) = 5 + 2 * n
                       /\ \A i \in 1..n : argv[4 + 2 * i] \in {"-int", "-str"}
  BY DEF Regular
<1>2. PICK m : m = Parsed(2) /\ m = [command |-> argv[3], return_type |-> ReturnedType(argv[5]),
                                     argv |-> [i \in 1..n |-> ParsedArg(i)]]
  BY <1>1, MessageParsed
<1>3. (Len(argv) - 5) \div 2 = n
  BY <1>1
<1>4. DataOf(m) = [i \in 1..n |-> ParsedArg(i).data]
  BY <1>2 DEF DataOf
<1>5. \A i \in 1..n : ParsedArg(i).data =
        IF argv[4 + 2 * i] = "-int" THEN Number[argv[5 + 2 * i]] ELSE Text[argv[5 + 2 * i]]
  BY DEF ParsedArg
<1>6. m.command = argv[3] /\ m.return_type = ReturnedType(argv[5])
  BY <1>2
<1>7. LineData = [i \in 1..n |->
        IF argv[4 + 2 * i] = "-int" THEN Number[argv[5 + 2 * i]] ELSE Text[argv[5 + 2 * i]]]
  BY <1>3 DEF LineData
<1>8. DataOf(m) = LineData
  BY <1>4, <1>5, <1>7
<1> QED BY <1>2, <1>6, <1>8

\* What the function computes is what the line asks for.
LEMMA AskedFor ==
  ASSUME argv \in Lines, Regular(argv), NEW m \in MessageType, m = Parsed(2),
         Verdict(m) = OK
  PROVE  ExecuteFunction(m) = [typ |-> ReturnedType(argv[5]), data |-> Asked(argv)]
<1>1. PICK d, name : d = LineData /\ d = DataOf(m) /\ name = argv[3] /\ name = m.command
  BY DataParsed
<1>2. ExecuteFunction(m) = [typ |-> ReturnedType(argv[5]), data |-> Apply(name, d)]
  BY <1>1, DataParsed DEF ExecuteFunction
<1>3. Asked(argv) = CASE name = "power" /\ d[2] > 0 -> AsInt(Raised(d[1], d[2]))
                      [] name = "power" /\ d[2] = 0 -> 1
                      [] name = "power" /\ d[2] < 0 -> d[1]
                      [] name = "square" -> AsInt(d[1] * d[1])
                      [] OTHER -> Apply(name, d)
  BY <1>1 DEF Asked, LineData
<1>4. CASE name = "power"
  <2>1. d[1] \in IntType /\ d[2] \in IntType
    <3>1. Calling(m, Operators, Int32, <<Int32, Int32>>)
      BY <1>1, <1>4, Passed DEF Passes, Calling
    <3> QED BY <1>1, <3>1, CalledWith
  <2>2. PICK x \in IntType, y \in Int : x = d[1] /\ y = d[2]
    BY <2>1, Conversions
  <2>3. Apply(name, d) = Power(x, y)
    BY <1>4, <2>2 DEF Apply
  <2>4. y > 0 => Power(x, y) = AsInt(Raised(x, y))
    BY PowerRaises
  <2>5. y = 0 => Power(x, y) = 1
    BY DEF Power
  <2>6. y < 0 => Power(x, y) = x
    BY <2>2, PowerOfNegative
  <2>7. CASE y > 0
    BY <1>2, <1>3, <1>4, <2>2, <2>3, <2>4, <2>7
  <2>8. CASE y = 0
    BY <1>2, <1>3, <1>4, <2>2, <2>3, <2>5, <2>8
  <2>9. CASE y < 0
    BY <1>2, <1>3, <1>4, <2>2, <2>3, <2>6, <2>9
  <2> QED BY <2>2, <2>7, <2>8, <2>9
<1>5. CASE name = "square"
  <2>1. d[1] \in IntType
    <3>1. Calling(m, {"square"}, Int32, <<Int32>>)
      BY <1>1, <1>5, Passed DEF Passes, Calling, Operators
    <3> QED BY <1>1, <3>1, CalledWith
  <2>2. PICK x \in Int : x = d[1] /\ x \in IntType
    BY <2>1, Conversions
  <2>3. Apply(name, d) = AsInt(Raised(x, 2))
    <3>1. 2 \in Nat \ {0}
      OBVIOUS
    <3> QED BY <1>5, <2>2, <3>1, PowerRaises DEF Apply
  <2>4. Raised(x, 2) = x * x
    <3>1. PICK n \in Nat : n = 2
      OBVIOUS
    <3>2. PICK h \in [0..n -> Int] :
            h[0] = 1 /\ h[n] = Raised(x, n) /\ \A k \in 1..n : h[k] = h[k - 1] * x
      BY RaisedRun
    <3>3. 1 \in 1..n /\ 2 \in 1..n /\ 1 - 1 = 0 /\ 2 - 1 = 1
      BY <3>1
    <3>4. h[1] = 1 * x /\ h[2] = h[1] * x
      BY <3>2, <3>3
    <3>5. 1 * x = x
      OBVIOUS
    <3> QED BY <3>1, <3>2, <3>4, <3>5
  <2>5. Asked(argv) = AsInt(x * x)
    BY <1>3, <1>5, <2>2
  <2> QED BY <1>2, <2>3, <2>4, <2>5
<1>6. CASE name # "power" /\ name # "square"
  <2>1. Asked(argv) = Apply(name, d)
    BY <1>3, <1>6
  <2> QED BY <1>2, <2>1
<1> QED BY <1>4, <1>5, <1>6

\* A call of which nothing was cut and no octet overflowed.
Sound == whole /\ \A i \in DOMAIN call.msg.argv : OctetHolds(call.msg.argv[i])

\* An answer to the message m is an error or what its function computes.
Computes(m, a) == a.status = OK => Verdict(m) = OK /\ a.arg = ExecuteFunction(m)

\* The inductive invariant of a command line and its answer.
LineCalled ==
  call # NULL /\ call.from = "-c" => argv \in Lines /\ Regular(argv) /\ call.msg = Parsed(2)
SoundlyAnswered ==
  call # NULL /\ Sound =>
    /\ stage = "running" => received = call.msg
    /\ stage = "answer" => Computes(call.msg, answer)
    /\ got # NULL => Computes(call.msg, got)
Finished ==
  call # NULL /\ call.from # "-s" /\ got # NULL =>
    /\ stage = "done"
    /\ IF got.status = OK /\ got.arg.typ = call.msg.return_type
       THEN exit = "success" /\ printed = got.arg ELSE exit = "failure"

\* The message of a command line is the one its words spell.
LEMMA LineCalledSteps ==
  ASSUME CallInv, LineCalled, [Next]_vars
  PROVE  LineCalled'
<1>1. ASSUME UNCHANGED <<argv, call>>
      PROVE  LineCalled'
  <2>1. Parsed(2)' = Parsed(2)
    BY <1>1 DEF Parsed, Message, Arg, TypePlaces, Argc, ParseArg
  <2> QED BY <1>1, <2>1 DEF LineCalled
<1>2. ASSUME NEW from, NEW m, NEW room, Calls(from, m, room)
      PROVE  call' = [from |-> from, msg |-> m, room |-> room] /\ argv' = argv
  BY <1>2 DEF Calls
<1>3. CASE Main
  <2>1. CASE CallDocumentation \/ CallShutdown
    <3>1. call'.from # "-c"
      BY <1>2, <2>1 DEF CallDocumentation, CallShutdown
    <3> QED BY <3>1 DEF LineCalled
  <2>2. CASE Command
    <3>1. argv \in Lines /\ Regular(argv) /\ ~Overruns(2) /\ cpt + 1 = 2
      BY <2>2, CommandFirst DEF CallInv
    <3>2. PICK room : Calls("-c", Parsed(2), room)
      BY <2>2, <3>1 DEF Command
    <3>3. call'.msg = Parsed(2) /\ argv' = argv
      BY <1>2, <3>2
    <3>4. Parsed(2)' = Parsed(2)
      BY <3>3 DEF Parsed, Message, Arg, TypePlaces, Argc, ParseArg
    <3> QED BY <3>1, <3>3, <3>4 DEF LineCalled
  <2>3. CASE NoPassword \/ Help \/ CommandRefused \/ Unknown \/ EndOfLine
    <3>1. \E code : Exits(code)
      BY <2>3 DEF NoPassword, Help, CommandRefused, Unknown, EndOfLine
    <3> QED BY <1>1, <3>1 DEF Exits
  <2> QED BY <1>3, <2>1, <2>2, <2>3 DEF Main
<1>4. CASE \E m \in Messages : ExternalCall(m)
  <2>1. call'.from # "-c"
    BY <1>2, <1>4 DEF ExternalCall
  <2> QED BY <2>1 DEF LineCalled
<1>5. CASE SendCmd \/ SendCmdFails \/ ReadMsg \/ ExecuteTraps \/ GetAnswer
  BY <1>1, <1>5 DEF SendCmd, SendCmdFails, ReadMsg, ExecuteTraps, GetAnswer
<1>6. CASE SendError \/ SendAnswer \/ Timeout
  BY <1>1, <1>6 DEF SendError, SendAnswer, Timeout, Answers
<1>7. CASE UNCHANGED vars
  BY <1>1, <1>7 DEF vars
<1> QED BY <1>3, <1>4, <1>5, <1>6, <1>7 DEF Next

\* main leaves with what the answer says.
LEMMA FinishedSteps ==
  ASSUME CallInv, AnswerInv, Finished, [Next]_vars
  PROVE  Finished'
<1>1. CASE got' = NULL
  BY <1>1 DEF Finished
<1>2. CASE GetAnswer
  <2>1. Return(got'.status = OK /\ got'.arg.typ = call.msg.return_type, got'.arg) /\ call' = call
    BY <1>2 DEF GetAnswer
  <2>2. CASE call.from = "-s"
    BY <2>1, <2>2 DEF Finished
  <2>3. CASE call.from # "-s"
    BY <2>1, <2>3 DEF Return, Finished
  <2> QED BY <2>2, <2>3
<1>3. CASE got' # NULL /\ ~GetAnswer
  <2>1. UNCHANGED <<argv, stage, call, wireVars>>
    BY <1>3, Kept DEF AnswerInv
  <2>2. CASE stage = "done"
    <3>1. UNCHANGED <<exit, printed>>
      <4>1. ~Main /\ ~(\E m \in Messages : ExternalCall(m))
        BY <2>2 DEF Main, CallDocumentation, CallShutdown, NoPassword, Help, Command,
          CommandRefused, Unknown, EndOfLine, ExternalCall, AtOption, InMain
      <4>2. ~(SendCmd \/ SendCmdFails \/ ReadMsg \/ SendError \/ SendAnswer \/ ExecuteTraps \/ Timeout)
        BY <2>2 DEF SendCmd, SendCmdFails, ReadMsg, SendError, SendAnswer, ExecuteTraps, Timeout
      <4> QED BY <1>3, <4>1, <4>2 DEF Next, vars
    <3> QED BY <2>1, <3>1 DEF Finished, wireVars
  <2>3. CASE stage # "done"
    BY <2>1, <2>3 DEF Finished, wireVars
  <2> QED BY <2>2, <2>3
<1> QED BY <1>1, <1>2, <1>3

\* A son that runs on a sound call has the whole message, computes its function, and
\* the client gets what it computed.
LEMMA SoundSteps ==
  ASSUME CallInv, AnswerInv, SoundlyAnswered, [Next]_vars
  PROVE  SoundlyAnswered'
<1>1. CASE stage' \notin {"running", "answer"} /\ got' = NULL
  BY <1>1 DEF SoundlyAnswered
<1>2. CASE ReadMsg
  <2>1. PICK n \in 0..wire.size, b \in Seq(CharType) :
          /\ Len(b) >= wire.size /\ Len(b) >= 129 * Len(call.msg.argv)
          /\ \A i \in 1..n : b[i] = wire.bytes[i]
          /\ Receives(n) /\ received' = DeserializeMessage(wire, b)
    BY <1>2, RequestArrives
  <2>2. PICK m \in MessageType : m = call.msg /\ wire = SerializeMessage(m)
    BY <1>2, RequestArrives
  <2>13. PICK w : w = wire /\ w = SerializeMessage(m)
    BY <2>2
  <2>3. PICK r : r = received' /\ r = DeserializeMessage(w, b)
    BY <2>1, <2>2, <2>13
  <2>4. /\ n \in 0..w.size /\ Len(b) >= w.size /\ Len(b) >= 129 * Len(m.argv)
        /\ \A i \in 1..n : b[i] = w.bytes[i]
    BY <2>1, <2>2, <2>13
  <2>5. Tells(r, m, n) /\ w.size = ArgSize(m.argv)
    <3>1. m \in MessageType /\ w = SerializeMessage(m) /\ b \in Seq(CharType)
      BY <2>1, <2>2, <2>13
    <3>2. Tells(r, m, n)
      BY <2>3, <2>4, <3>1, MessageReadBack
    <3>3. w.size = ArgSize(m.argv)
      BY <3>1 DEF SerializeMessage
    <3> QED BY <3>2, <3>3
  <2>6. /\ r \in MessageType \cup {NULL}
        /\ r # NULL => /\ Len(r.argv) = Len(m.argv) /\ r.command = m.command
                       /\ r.return_type = m.return_type
    <3>1. r # NULL => r \in MessageType /\ Len(r.argv) = Len(m.argv) /\ r.command = m.command
                      /\ r.return_type = m.return_type
      BY <2>1, <2>2, <2>13, <2>3, MessageRead
    <3> QED BY <3>1
  <2>7. /\ stage' = (IF r = NULL THEN "dead" ELSE "running") /\ call' = call
        /\ received' = r /\ got' = got /\ whole' = (whole /\ n = w.size)
    BY <1>2, <2>2, <2>13, <2>3, <2>1 DEF ReadMsg, Receives
  <2>8. got = NULL
    BY <1>2 DEF ReadMsg, AnswerInv, Ends
  <2>9. DOMAIN m.argv = 1..Len(m.argv)
    <3>1. m.argv \in Seq(ArgType)
      BY DEF MessageType
    <3> QED BY <3>1
  <2>10. Sound' /\ r # NULL => r = m
    <3> SUFFICES ASSUME Sound', r # NULL
                 PROVE  r = m
      OBVIOUS
    <3>1. \A i \in 1..Len(m.argv) : OctetHolds(m.argv[i])
      BY <2>2, <2>13, <2>7, <2>9 DEF Sound
    <3>2. n = w.size
      BY <2>7 DEF Sound
    <3>3. n \in Nat
      <4>1. w.size \in Nat
        BY <2>2, <2>13, MessageWritten
      <4> QED BY <3>2, <4>1
    <3>4. n = ArgSize(m.argv) /\ r \in MessageType
      BY <2>5, <2>6, <3>2
    <3> QED BY <2>5, <2>6, <3>1, <3>3, <3>4, WholeMessageReadBack
  <2> QED BY <2>2, <2>13, <2>7, <2>8, <2>10 DEF SoundlyAnswered
<1>3. CASE SendAnswer
  <2>1. /\ stage = "running" /\ Verdict(received) = OK /\ UNCHANGED <<call, whole, got>>
        /\ answer' = [status |-> OK, arg |-> ExecuteFunction(received)] /\ stage' = "answer"
    BY <1>3 DEF SendAnswer, Answers
  <2>2. got = NULL
    BY <2>1 DEF AnswerInv, Ends
  <2>3. Sound' => Sound
    BY <2>1 DEF Sound
  <2>4. answer'.arg = ExecuteFunction(received)
    BY <2>1
  <2> QED BY <2>1, <2>2, <2>3, <2>4 DEF SoundlyAnswered, Computes
<1>4. CASE SendError \/ Timeout
  <2>1. PICK status : Answers(status, NULL) /\ status # OK
    <3>1. Code.NO_ANSWER # OK
      BY DEF Code, OK
    <3> QED BY <1>4, <3>1 DEF SendError, Timeout
  <2>2. stage \notin Ends
    BY <1>4 DEF SendError, Timeout, Ends
  <2>3. /\ got' = got /\ stage' = "answer" /\ answer' = [status |-> status, arg |-> NULL]
    BY <2>1 DEF Answers
  <2>4. answer'.status # OK /\ got' = NULL
    BY <2>1, <2>2, <2>3 DEF AnswerInv
  <2> QED BY <2>3, <2>4 DEF SoundlyAnswered, Computes
<1>5. CASE GetAnswer
  <2>1. /\ stage = "answer" /\ UNCHANGED <<call, wire, answer>>
        /\ whole' = (whole /\ arrived' = wire.size) /\ stage' \in Ends
    BY <1>5 DEF GetAnswer, Receives, Return, Ends
  <2>2. got' # NULL => got'.status = answer.status /\ (whole' => got'.arg = answer.arg)
    <3>1. AnswerFaithful'
      BY AnswerSteps DEF AnswerInv
    <3> QED BY <2>1, <3>1 DEF AnswerFaithful
  <2>3. Sound' => Sound /\ (got' # NULL => got'.arg = answer.arg)
    BY <2>1, <2>2 DEF Sound
  <2> QED BY <2>1, <2>2, <2>3 DEF SoundlyAnswered, Computes, Ends
<1>6. CASE UNCHANGED <<argv, stage, call, wireVars>>
  BY <1>6 DEF SoundlyAnswered, Sound, wireVars
<1>7. ASSUME NEW code, Exits(code)
      PROVE  UNCHANGED <<argv, stage, call, wireVars>>
  BY <1>7 DEF Exits
<1>8. ASSUME NEW from, NEW m, NEW room, Calls(from, m, room)
      PROVE  stage' \notin {"running", "answer"} /\ got' = NULL
  BY <1>8 DEF Calls
<1>9. CASE Main
  <2>1. CASE CallDocumentation \/ CallShutdown
    BY <1>1, <1>8, <2>1 DEF CallDocumentation, CallShutdown
  <2>2. CASE Command
    BY <1>1, <1>6, <1>7, <1>8, <2>2 DEF Command
  <2>3. CASE NoPassword \/ Help \/ CommandRefused \/ Unknown \/ EndOfLine
    BY <1>6, <1>7, <2>3 DEF NoPassword, Help, CommandRefused, Unknown, EndOfLine
  <2> QED BY <1>9, <2>1, <2>2, <2>3 DEF Main
<1>10. CASE \E m \in Messages : ExternalCall(m)
  BY <1>1, <1>8, <1>10 DEF ExternalCall
<1>11. CASE SendCmd \/ SendCmdFails \/ ExecuteTraps
  <2>1. stage \notin Ends
    BY <1>11 DEF SendCmd, SendCmdFails, ExecuteTraps, Ends
  <2>2. got' = got /\ stage' \notin {"running", "answer"}
    BY <1>11 DEF SendCmd, SendCmdFails, ExecuteTraps, Return, wireVars
  <2> QED BY <1>1, <2>1, <2>2 DEF AnswerInv
<1>12. CASE UNCHANGED vars
  BY <1>6, <1>12 DEF vars
<1> QED BY <1>2, <1>3, <1>4, <1>5, <1>9, <1>10, <1>11, <1>12 DEF Next

\* The inductive invariant of a command line, its call and its answer.
LineInv == CallInv /\ AnswerInv /\ LineCalled /\ SoundlyAnswered /\ Finished

\* It is an invariant.
LEMMA LineAlways == Spec => []LineInv
<1>1. Init => LineInv
  BY CallStarts, AnswerStarts DEF LineInv, LineCalled, SoundlyAnswered, Finished, Init
<1>2. LineInv /\ [Next]_vars => LineInv'
  BY CallSteps, AnswerSteps, LineCalledSteps, SoundSteps, FinishedSteps DEF LineInv
<1> QED BY <1>1, <1>2, PTL DEF Spec

\* For every width of an int and every command line: the client prints the value that the
\* line asks for (of a power with a negative exponent, its base), or fails because the
\* server answered with an error, unless a frame was cut or a string too long
\* (parse_command, execute_client, call_function).
THEOREM CommandsAreAnswered == Spec => []CommandAnswered
<1>1. LineInv => CommandAnswered
  <2> SUFFICES ASSUME LineInv, call # NULL, call.from = "-c", got # NULL, Sound
               PROVE  IF got.status = OK
                      THEN /\ exit = "success"
                           /\ printed = [typ |-> ReturnedType(argv[5]), data |-> Asked(argv)]
                      ELSE exit = "failure"
    BY DEF CommandAnswered, Sound
  <2>1. argv \in Lines /\ Regular(argv) /\ call.msg = Parsed(2)
    BY DEF LineInv, LineCalled
  <2>2. PICK m \in MessageType : m = call.msg
    BY DEF LineInv, CallInv, MainInv, CallType
  <2>3. Computes(m, got)
    BY <2>2 DEF LineInv, SoundlyAnswered
  <2>4. IF got.status = OK /\ got.arg.typ = m.return_type
        THEN exit = "success" /\ printed = got.arg ELSE exit = "failure"
    BY <2>2 DEF LineInv, Finished
  <2>5. CASE got.status = OK
    <3>1. Verdict(m) = OK /\ got.arg = ExecuteFunction(m)
      BY <2>3, <2>5 DEF Computes
    <3>2. ExecuteFunction(m) = [typ |-> ReturnedType(argv[5]), data |-> Asked(argv)]
      BY <2>1, <2>2, <3>1, AskedFor
    <3>3. got.arg.typ = m.return_type
      <4>1. ExecuteFunction(m).typ = m.return_type
        BY DEF ExecuteFunction
      <4> QED BY <3>1, <4>1
    <3> QED BY <2>4, <2>5, <3>1, <3>2, <3>3
  <2>6. CASE got.status # OK
    BY <2>4, <2>6
  <2> QED BY <2>5, <2>6
<1> QED BY <1>1, LineAlways, PTL

\* A sum of n numbers, none above b.
LEMMA SumBounded ==
  ASSUME NEW n \in Nat, NEW w \in [1..n -> Nat], NEW b \in Nat, \A k \in 1..n : w[k] <= b,
         NEW f, IsSum(f, n, w)
  PROVE  f[1..n] \in Nat /\ f[1..n] <= b * n
<1>1. w \in [1..n -> Int]
  OBVIOUS
<1>2. f[1..0] = 0 /\ \A k \in 1..n : f[1..k] = f[1..(k - 1)] + w[k]
  BY <1>1, SumOfPrefix
<1> DEFINE G == {k \in 0..n : f[1..k] \in Nat /\ f[1..k] <= b * k}
<1>3. 0 \in G
  <2>1. b * 0 = 0
    OBVIOUS
  <2> QED BY <1>2, <2>1
<1>4. ASSUME NEW k \in 1..n, k - 1 \in G
      PROVE  k \in G
  <2>1. PICK x \in Nat, y \in Nat : x = f[1..(k - 1)] /\ y = w[k]
    BY <1>4
  <2>2. PICK p \in Int : p = b * (k - 1)
    OBVIOUS
  <2>3. b * k = p + b
    BY <2>2
  <2>4. x <= p /\ y <= b
    BY <1>4, <2>1, <2>2
  <2>5. x + y <= p + b
    BY <2>4
  <2>6. f[1..k] = x + y
    BY <1>2, <2>1
  <2> QED BY <2>3, <2>5, <2>6
<1> HIDE DEF G
<1>5. \A k \in 0..n : k \in G
  BY <1>3, <1>4, UpTo
<1>6. n \in G
  <2>1. n \in 0..n
    OBVIOUS
  <2> QED BY <1>5, <2>1
<1> QED BY <1>6 DEF G

\* Its parts add up.
LEMMA PartsFit ==
  ASSUME NEW argc \in Nat, argc <= 2, NEW types \in Nat, types <= 12,
         NEW digits \in Nat, digits <= 1, NEW name \in Nat, name <= 14,
         NEW doc \in Nat, doc <= 48, NEW ty \in Nat, ty <= 6,
         NEW size, size = 6 + name + 1 + 5 + (IF doc > 0 THEN doc ELSE 20) + 1 + 15 + ty + 1
                          + 22 + digits + 1 + (IF argc > 0 THEN 17 + types + argc + 1 ELSE 0)
  PROVE  size \in Nat /\ size <= 160
<1>1. PICK said \in Nat : said = (IF doc > 0 THEN doc ELSE 20) /\ said <= 48
  OBVIOUS
<1>2. PICK taken \in Nat :
        taken = (IF argc > 0 THEN 17 + types + argc + 1 ELSE 0) /\ taken <= 32
  OBVIOUS
<1> QED BY <1>1, <1>2

\* No function takes more than 160 bytes of the documentation.
LEMMA EntryFits ==
  ASSUME NEW m, NEW T, m.argv \in Seq(T), Len(m.argv) <= 2,
         m.name_length \in 0..14, m.description_length \in 0..48
  PROVE  EntryWritten(m) \in Nat /\ EntryWritten(m) <= 160
<1>1. PICK argc \in Nat : argc = Len(m.argv) /\ argc <= 2
  BY LenProperties
<1>2. PICK types \in Nat : types = Bare(m.argv) /\ types <= 12
  <2> DEFINE u == [i \in 1..argc |-> TypeSize(m.argv[i])]
  <2>1. PICK f : IsSum(f, argc, u) /\ Bare(m.argv) = f[1..argc]
    BY <1>1, SumOfTypes
  <2>2. u \in [1..argc -> Nat] /\ \A k \in 1..argc : u[k] <= 6
    BY DEF TypeSize
  <2> HIDE DEF u
  <2>3. PICK b \in Nat : b = 6
    OBVIOUS
  <2>4. f[1..argc] \in Nat /\ f[1..argc] <= b * argc
    BY <2>1, <2>2, <2>3, SumBounded
  <2>5. PICK x \in Nat : x = f[1..argc]
    BY <2>4
  <2>6. x <= 12
    BY <1>1, <2>3, <2>4, <2>5
  <2> QED BY <2>1, <2>5, <2>6
<1>3. PICK digits \in Nat : digits = IntSize[argc] /\ digits <= 1
  <2>1. PICK d \in Nat : d = IntSize[argc]
    BY IntSizeType
  <2>2. argc \div 10 = 0
    <3>1. argc \in Nat /\ argc <= 2 => argc = 0 \/ argc = 1 \/ argc = 2
      OBVIOUS
    <3>2. 0 \div 10 = 0 /\ 1 \div 10 = 0 /\ 2 \div 10 = 0
      OBVIOUS
    <3> QED BY <1>1, <3>1, <3>2
  <2>3. IntSize[0] = 0
    BY IntSizeType
  <2>4. IntSize[argc] = IF argc = 0 THEN 0 ELSE 1 + IntSize[0]
    BY <2>2, IntSizeType
  <2>5. d <= 1
    BY <2>1, <2>3, <2>4
  <2> QED BY <2>1, <2>5
<1>4. PICK name \in 0..14, doc \in 0..48 : name = m.name_length /\ doc = m.description_length
  OBVIOUS
<1>5. PICK ty \in Nat : ty = TypeSize(m.return_type) /\ ty <= 6
  BY DEF TypeSize
<1>6. EntryWritten(m) = 6 + name + 1 + 5 + (IF doc > 0 THEN doc ELSE 20) + 1 + 15 + ty + 1
                        + 22 + digits + 1 + (IF argc > 0 THEN 17 + types + argc + 1 ELSE 0)
  BY <1>1, <1>2, <1>3, <1>4, <1>5
     DEF EntryWritten, Bare, HdName, HdDoc, NoDoc, HdRetType, HdNbParam, HdParamTypes
<1>7. name \in Nat /\ name <= 14 /\ doc \in Nat /\ doc <= 48
  OBVIOUS
<1>8. PICK size : size = EntryWritten(m)
  OBVIOUS
<1>9. size \in Nat /\ size <= 160
  <2>1. size = 6 + name + 1 + 5 + (IF doc > 0 THEN doc ELSE 20) + 1 + 15 + ty + 1
                 + 22 + digits + 1 + (IF argc > 0 THEN 17 + types + argc + 1 ELSE 0)
    BY <1>6, <1>8
  <2>2. /\ argc \in Nat /\ argc <= 2 /\ types \in Nat /\ types <= 12
        /\ digits \in Nat /\ digits <= 1 /\ ty \in Nat /\ ty <= 6
    BY <1>1, <1>2, <1>3, <1>5
  <2> QED BY <1>7, <2>1, <2>2, PartsFit
<1> QED BY <1>8, <1>9

\* The documentation of the default functions has a place in the buffer of "-l".
LEMMA DocumentationFits == Len(Documentation) <= 2047
<1> DEFINE E == {DefaultFunctions[i] : i \in 1..11}
<1>1. DefaultFunctions \in Seq(E) /\ Len(DefaultFunctions) = 11
  <2>1. \A i \in 1..11 : DefaultFunctions[i] \in E
    OBVIOUS
  <2>2. DefaultFunctions = [i \in 1..11 |-> DefaultFunctions[i]]
    BY DefaultEntries DEF DefaultFunctions
  <2>3. [i \in 1..11 |-> DefaultFunctions[i]] \in Seq(E)
    BY <2>1, IsASeq
  <2> QED BY <2>2, <2>3
<1>2. \A m \in E : HasText(m)
  BY DefaultsHaveText
<1>3. PICK n \in Nat : n = 11
  OBVIOUS
<1> DEFINE w == [i \in 1..n |-> EntryWritten(DefaultFunctions[i])]
<1>4. PICK g : IsSum(g, n, w) /\ Sum(EntryWritten, DefaultFunctions) = g[1..n]
  <2> HIDE DEF E
  <2> QED BY <1>1, <1>2, <1>3, SumOfEntries
<1>5. ASSUME NEW i \in 1..n
      PROVE  EntryWritten(DefaultFunctions[i]) \in Nat /\ EntryWritten(DefaultFunctions[i]) <= 160
  <2>1. PICK T : DefaultFunctions[i].argv \in Seq(T)
    BY <1>3, DefaultsHaveText DEF HasText
  <2>2. /\ Len(DefaultFunctions[i].argv) <= 2
        /\ DefaultFunctions[i].name_length \in 0..14
        /\ DefaultFunctions[i].description_length \in 0..48
    <3>1. i = 1 \/ i = 2 \/ i = 3 \/ i = 4 \/ i = 5 \/ i = 6 \/ i = 7 \/ i = 8 \/ i = 9 \/ i = 10
            \/ i = 11
      BY <1>3
    <3>2. Len(DefaultFunctions[i].argv) <= 2
      <4>1. PICK u, v, x, y, z : /\ u = << >> /\ v = <<"str">> /\ x = <<"int">>
                                 /\ y = <<"str", "str">> /\ z = <<"int", "int">>
        OBVIOUS
      <4>2. Len(u) <= 2 /\ Len(v) <= 2 /\ Len(x) <= 2 /\ Len(y) <= 2 /\ Len(z) <= 2
        BY <4>1
      <4>3. DefaultFunctions[i].argv \in {u, v, x, y, z}
        BY <3>1, <4>1, DefaultEntries, ZenonT(60) DEF Signs
      <4> QED BY <4>2, <4>3
    <3>3. /\ DefaultFunctions[i].name_length \in 0..14
          /\ DefaultFunctions[i].description_length \in 0..48
      BY <3>1, SMTT(40) DEF DefaultFunctions, Entry, BinaryOperator
    <3> QED BY <3>2, <3>3
  <2> QED BY <2>1, <2>2, EntryFits
<1>6. w \in [1..n -> Nat] /\ \A k \in 1..n : w[k] <= 160
  BY <1>5
<1> HIDE DEF w
<1>7. PICK b \in Nat : b = 160
  OBVIOUS
<1>8. g[1..n] \in Nat /\ g[1..n] <= b * n
  BY <1>4, <1>6, <1>7, SumBounded
<1>9. PICK x \in Nat : x = Sum(EntryWritten, DefaultFunctions) /\ x <= 1760
  <2>1. PICK x \in Nat : x = g[1..n]
    BY <1>8
  <2>2. x <= 1760
    BY <1>3, <1>7, <1>8, <2>1
  <2> QED BY <1>4, <2>1, <2>2
<1>10. PICK k \in Nat : k = x + 1
  OBVIOUS
<1>11. Documentation = [i \in 1..k |-> 100]
  BY <1>9, <1>10 DEF Documentation
<1>12. Len([i \in 1..k |-> 100]) = k
  OBVIOUS
<1> QED BY <1>9, <1>10, <1>11, <1>12

\* What a string may hold that a function returns, whose arguments came through an octet.
Longest(command) == IF command = "documentation" THEN 2047 ELSE 254

\* What an accepted message returns keeps to that.
LEMMA StringsFit ==
  ASSUME NEW m \in MessageType, Verdict(m) = OK, m.return_type = Str,
         Short(m.argv, Len(m.argv))
  PROVE  Len(ExecuteFunction(m).data) <= Longest(m.command)
<1>1. PICK d, name : d = DataOf(m) /\ name = m.command
  OBVIOUS
<1>2. ExecuteFunction(m).data = Apply(name, d)
  BY <1>1 DEF ExecuteFunction
<1>3. Str # Int32 /\ Str # Void
  BY DEF Str, Int32, Void
<1>4. CASE Calling(m, {"documentation"}, Str, << >>)
  <2>1. name = "documentation"
    BY <1>1, <1>4 DEF Calling
  <2>2. Apply(name, d) = Documentation
    BY <2>1 DEF Apply
  <2> QED BY <1>1, <1>2, <2>1, <2>2, DocumentationFits DEF Longest
<1>5. CASE Calling(m, {"concat"}, Str, <<Str, Str>>)
  <2>1. /\ name = "concat" /\ d[1] \in StringType /\ d[2] \in StringType
        /\ OctetHolds(m.argv[1]) /\ OctetHolds(m.argv[2])
        /\ m.argv[1].typ = Str /\ m.argv[2].typ = Str
        /\ d[1] = m.argv[1].data /\ d[2] = m.argv[2].data
    <3>1. /\ Len(m.argv) = 2 /\ m.argv[1].typ = Str /\ m.argv[2].typ = Str
          /\ d[1] = m.argv[1].data /\ d[2] = m.argv[2].data
          /\ d[1] \in StringType /\ d[2] \in StringType
      BY <1>1, <1>5, CalledWith
    <3>2. 1 \in 1..2 /\ 2 \in 1..2
      OBVIOUS
    <3>3. OctetHolds(m.argv[1]) /\ OctetHolds(m.argv[2])
      BY <3>1, <3>2 DEF Short
    <3>4. name = "concat"
      BY <1>1, <1>5 DEF Calling
    <3> QED BY <3>1, <3>3, <3>4
  <2>2. Apply(name, d) = d[1] \o d[2]
    BY <2>1 DEF Apply
  <2>3. PICK u \in StringType, v \in StringType : u = d[1] /\ v = d[2]
    BY <2>1
  <2>4. PICK j \in Nat, k \in Nat : j = Len(u) /\ k = Len(v)
    BY LenProperties DEF StringType
  <2>5. j <= 127 /\ k <= 127
    BY <2>1, <2>3, <2>4 DEF OctetHolds
  <2>6. Len(u \o v) = j + k
    BY <2>4, ConcatProperties DEF StringType
  <2>7. j + k <= 254
    BY <2>5
  <2>8. Len(ExecuteFunction(m).data) = j + k
    BY <1>2, <2>2, <2>3, <2>6
  <2>9. Longest(m.command) = 254
    BY <1>1, <2>1 DEF Longest
  <2> QED BY <2>7, <2>8, <2>9
<1>6. CASE Calling(m, {"identity"}, Str, <<Str>>)
  <2>1. name = "identity" /\ d[1] \in StringType /\ OctetHolds(m.argv[1])
        /\ m.argv[1].typ = Str /\ d[1] = m.argv[1].data
    <3>1. /\ Len(m.argv) = 1 /\ m.argv[1].typ = Str /\ d[1] = m.argv[1].data
          /\ d[1] \in StringType
      BY <1>1, <1>6, CalledWith
    <3>2. 1 \in 1..1
      OBVIOUS
    <3>3. OctetHolds(m.argv[1])
      BY <3>1, <3>2 DEF Short
    <3>4. name = "identity"
      BY <1>1, <1>6 DEF Calling
    <3> QED BY <3>1, <3>3, <3>4
  <2>2. Apply(name, d) = d[1]
    BY <2>1 DEF Apply
  <2>3. PICK u \in StringType : u = d[1]
    BY <2>1
  <2>4. PICK j \in Nat : j = Len(u)
    BY LenProperties DEF StringType
  <2>5. j <= 127
    BY <2>1, <2>3, <2>4 DEF OctetHolds
  <2>6. j <= 254
    BY <2>5, SMTT(40)
  <2> QED BY <1>1, <1>2, <2>1, <2>2, <2>3, <2>4, <2>6 DEF Longest
<1>7. Calling(m, {"documentation"}, Str, << >>) \/ Calling(m, {"concat"}, Str, <<Str, Str>>)
        \/ Calling(m, {"identity"}, Str, <<Str>>)
  <2>1. Passes(m)
    BY Passed
  <2> QED BY <1>3, <2>1 DEF Passes, Calling
<1> QED BY <1>4, <1>5, <1>6, <1>7

\* The buffer that a caller has for a string.
Roomy(c) ==
  /\ c.from \in {"-l", "-s", "-c", "library"}
  /\ c.from = "-l" => c.msg.command = "documentation" /\ c.room = 2048
  /\ c.from = "-s" => c.msg.return_type = Void
  /\ c.from = "-c" /\ c.msg.return_type = Str => c.room = 256
  /\ c.from = "library" => c.room = NULL

\* The inductive invariant of the strings of a call.
Fitting(command, a) == a.status = OK /\ a.arg.typ = Str => Len(a.arg.data) <= Longest(command)
FitInv ==
  /\ call # NULL => Roomy(call)
  /\ stage = "running" => Short(received.argv, Len(received.argv))
  /\ stage = "answer" => Fitting(call.msg.command, answer)
  /\ got # NULL => call # NULL /\ Fitting(call.msg.command, got)

\* A caller has room for what it calls.
LEMMA RoomMade ==
  ASSUME [Next]_vars
  PROVE  \/ call' = call
         \/ Roomy(call') /\ stage' = "call" /\ got' = NULL
<1>1. ASSUME NEW code, Exits(code)
      PROVE  call' = call
  BY <1>1 DEF Exits
<1>2. ASSUME NEW from, NEW m, NEW room, Calls(from, m, room)
      PROVE  /\ call' = [from |-> from, msg |-> m, room |-> room] /\ stage' = "call"
             /\ got' = NULL
  BY <1>2 DEF Calls
<1>3. CASE CallDocumentation
  <2>1. call'.from = "-l" /\ call'.msg.command = "documentation" /\ call'.room = 2048
    BY <1>2, <1>3 DEF CallDocumentation, Message
  <2> QED BY <1>2, <1>3, <2>1 DEF CallDocumentation, Roomy
<1>4. CASE CallShutdown
  <2>1. call'.from = "-s" /\ call'.msg.return_type = Void
    BY <1>2, <1>4 DEF CallShutdown, Message
  <2> QED BY <1>2, <1>4, <2>1 DEF CallShutdown, Roomy
<1>5. CASE Command
  <2>1. CASE \E code : Exits(code)
    BY <1>1, <2>1
  <2>2. CASE \E m, room : Calls("-c", m, room) /\ (m.return_type = Str => room = 256)
    <3>1. PICK m, room : Calls("-c", m, room) /\ (m.return_type = Str => room = 256)
      BY <2>2
    <3>2. call'.from = "-c" /\ call'.msg = m /\ call'.room = room
      BY <1>2, <3>1
    <3> QED BY <1>2, <3>1, <3>2 DEF Roomy
  <2> QED BY <1>5, <2>1, <2>2 DEF Command
<1>6. CASE \E m \in Messages : ExternalCall(m)
  <2>1. call'.from = "library" /\ call'.room = NULL
    BY <1>2, <1>6 DEF ExternalCall
  <2> QED BY <1>2, <1>6, <2>1 DEF ExternalCall, Roomy
<1>7. CASE NoPassword \/ Help \/ CommandRefused \/ Unknown \/ EndOfLine
  BY <1>1, <1>7 DEF NoPassword, Help, CommandRefused, Unknown, EndOfLine
<1>8. CASE SendCmd \/ SendCmdFails \/ ReadMsg \/ ExecuteTraps \/ GetAnswer
  BY <1>8 DEF SendCmd, SendCmdFails, ReadMsg, ExecuteTraps, GetAnswer
<1>9. CASE SendError \/ SendAnswer \/ Timeout
  BY <1>9 DEF SendError, SendAnswer, Timeout, Answers
<1>10. CASE UNCHANGED vars
  BY <1>10 DEF vars
<1> QED BY <1>3, <1>4, <1>5, <1>6, <1>7, <1>8, <1>9, <1>10 DEF Next, Main

\* The strings keep to their bounds: what was read came through octets, what is executed is
\* StringsFit's, and what the client decodes is no longer than what was answered.
LEMMA FitSteps ==
  ASSUME CallInv, RequestFaithful, AnswerInv, FitInv, [Next]_vars
  PROVE  FitInv'
<1>1. call' # NULL => Roomy(call')
  BY RoomMade DEF FitInv
<1>2. CASE stage' \notin {"running", "answer"} /\ got' = NULL
  BY <1>1, <1>2 DEF FitInv
<1>3. CASE ReadMsg
  <2>1. PICK n \in 0..wire.size, b \in Seq(CharType) :
          /\ Len(b) >= wire.size /\ Len(b) >= 129 * Len(call.msg.argv)
          /\ \A i \in 1..n : b[i] = wire.bytes[i]
          /\ Receives(n) /\ received' = DeserializeMessage(wire, b)
    BY <1>3, RequestArrives
  <2>2. PICK m \in MessageType : m = call.msg /\ wire = SerializeMessage(m)
    BY <1>3, RequestArrives
  <2>13. PICK w : w = wire /\ w = SerializeMessage(m)
    BY <2>2
  <2>3. received' # NULL => Short(received'.argv, Len(received'.argv))
    BY <2>1, <2>2, <2>13, MessageRead
  <2>4. stage' = (IF received' = NULL THEN "dead" ELSE "running") /\ got' = got
    BY <1>3 DEF ReadMsg
  <2>5. got = NULL
    BY <1>3 DEF ReadMsg, AnswerInv, Ends
  <2> QED BY <1>1, <2>3, <2>4, <2>5 DEF FitInv
<1>4. CASE SendAnswer
  <2>1. PICK a : a = ExecuteFunction(received)
    OBVIOUS
  <2>2. /\ stage = "running" /\ Verdict(received) = OK /\ call' = call /\ got' = got
        /\ answer' = [status |-> OK, arg |-> a] /\ stage' = "answer"
    BY <1>4, <2>1 DEF SendAnswer, Answers
  <2>3. got = NULL
    BY <2>2 DEF AnswerInv, Ends
  <2>4. PICK m \in MessageType : m = received /\ Short(m.argv, Len(m.argv))
    BY <2>2, CodecAssumption DEF CallInv, FitInv
  <2>5. a.typ = m.return_type
    BY <2>1, <2>4 DEF ExecuteFunction
  <2>6. m.command = call.msg.command
    BY <2>2, <2>4 DEF RequestFaithful
  <2>7. a.typ = Str => Len(a.data) <= Longest(m.command)
    BY <2>1, <2>2, <2>4, <2>5, StringsFit
  <2>8. Fitting(call'.msg.command, answer')
    <3>1. answer'.arg = a
      BY <2>2
    <3> QED BY <2>2, <2>6, <2>7, <3>1 DEF Fitting
  <2> QED BY <1>1, <2>2, <2>3, <2>8 DEF FitInv
<1>5. CASE SendError \/ Timeout
  <2>1. PICK status : Answers(status, NULL) /\ status # OK
    <3>1. Code.NO_ANSWER # OK
      BY DEF Code, OK
    <3> QED BY <1>5, <3>1 DEF SendError, Timeout
  <2>2. stage \notin Ends
    BY <1>5 DEF SendError, Timeout, Ends
  <2>3. got' = got /\ stage' = "answer" /\ answer' = [status |-> status, arg |-> NULL]
    BY <2>1 DEF Answers
  <2>4. answer'.status # OK /\ got' = NULL
    BY <2>1, <2>2, <2>3 DEF AnswerInv
  <2> QED BY <1>1, <2>3, <2>4 DEF FitInv, Fitting
<1>6. CASE GetAnswer
  <2>1. PICK size \in Nat, n \in Nat : size = wire.size /\ n <= size /\ arrived' = n
    <3>1. PICK size \in Nat : \E n \in 0..size : size = wire.size /\ Receives(n)
      BY <1>6, AnswerArrives
    <3>2. PICK n \in 0..size : Receives(n)
      BY <3>1
    <3> QED BY <3>1, <3>2 DEF Receives
  <2>2. PICK a \in AnswerType : a = answer /\ Fitting(call.msg.command, a)
    BY <1>6, AnswerArrives DEF GetAnswer, FitInv
  <2>3. stage' \in Ends /\ UNCHANGED <<call, wire, answer>> /\ call # NULL
    BY <1>6, AnswerArrives, ClientAssumption DEF GetAnswer, Return, Ends
  <2>4. got' # NULL =>
          /\ got'.status = a.status
          /\ n = size => got'.arg = a.arg
          /\ n < size => got'.arg.typ = a.arg.typ /\ Len(got'.arg.data) <= Len(a.arg.data)
    <3>1. AnswerFaithful'
      BY AnswerSteps DEF AnswerInv
    <3> QED BY <2>1, <2>2, <2>3, <3>1 DEF AnswerFaithful
  <2>5. got' # NULL => Fitting(call.msg.command, got')
    <3> SUFFICES ASSUME got' # NULL, got'.status = OK, got'.arg.typ = Str
                 PROVE  Len(got'.arg.data) <= Longest(call.msg.command)
      BY DEF Fitting
    <3>1. n = size \/ n < size
      BY <2>1
    <3>2. a.status = OK /\ a.arg.typ = Str
      BY <2>4, <3>1
    <3>3. Len(a.arg.data) <= Longest(call.msg.command)
      BY <2>2, <3>2 DEF Fitting
    <3>4. CASE n = size
      BY <2>4, <3>3, <3>4
    <3>5. CASE n < size
      <4>1. PICK g \in AnswerType : g = got'
        BY CallSteps DEF CallInv
      <4>2. g.arg.typ = Str /\ g.status = OK
        BY <4>1
      <4>3. PICK d \in Seq(CharType \ {0}), e \in Seq(CharType \ {0}) :
              d = a.arg.data /\ e = g.arg.data
        BY <3>2, <4>2 DEF AnswerType, ArgType, StringType, Str, Int32, Void, OK
      <4>4. PICK j \in Nat, k \in Nat, l \in Nat :
              j = Len(d) /\ k = Len(e) /\ l = Longest(call.msg.command)
        BY <4>3, LenProperties DEF Longest
      <4>5. j <= l /\ k <= j
        BY <2>4, <3>3, <3>5, <4>1, <4>3, <4>4
      <4>6. k <= l
        BY <4>5
      <4> QED BY <4>1, <4>3, <4>4, <4>6
    <3> QED BY <3>1, <3>4, <3>5
  <2> QED BY <1>1, <2>3, <2>5 DEF FitInv, Ends
<1>7. CASE call' = call /\ stage' \notin {"running", "answer"} /\ got' = got
  BY <1>1, <1>7 DEF FitInv
<1>8. CASE UNCHANGED vars
  BY <1>8 DEF vars, wireVars, FitInv
<1>9. CASE Main \/ \E m \in Messages : ExternalCall(m)
  <2>1. CASE got' = NULL
    <3>1. stage' \notin {"running", "answer"}
      <4>1. stage = "idle"
        BY <1>9 DEF Main, CallDocumentation, CallShutdown, NoPassword, Help, Command,
          CommandRefused, Unknown, EndOfLine, ExternalCall, AtOption, InMain
      <4>2. stage' = stage \/ stage' = "call"
        <5>1. ASSUME NEW code, Exits(code)
              PROVE  stage' = stage
          BY <5>1 DEF Exits
        <5>2. ASSUME NEW from, NEW m, NEW room, Calls(from, m, room)
              PROVE  stage' = "call"
          BY <5>2 DEF Calls
        <5>3. CASE CallDocumentation \/ CallShutdown \/ \E m \in Messages : ExternalCall(m)
          BY <5>2, <5>3 DEF CallDocumentation, CallShutdown, ExternalCall
        <5>4. CASE Command
          BY <5>1, <5>2, <5>4 DEF Command
        <5>5. CASE NoPassword \/ Help \/ CommandRefused \/ Unknown \/ EndOfLine
          BY <5>1, <5>5 DEF NoPassword, Help, CommandRefused, Unknown, EndOfLine
        <5> QED BY <1>9, <5>3, <5>4, <5>5 DEF Main
      <4> QED BY <4>1, <4>2
    <3> QED BY <1>2, <2>1, <3>1
  <2>2. CASE got' # NULL /\ ~GetAnswer
    <3>1. UNCHANGED <<argv, stage, call, wireVars>>
      BY <2>2, Kept DEF AnswerInv
    <3> QED BY <3>1 DEF FitInv, wireVars
  <2> QED BY <1>6, <2>1, <2>2
<1>10. CASE SendCmd \/ SendCmdFails \/ ExecuteTraps
  BY <1>7, <1>10 DEF SendCmd, SendCmdFails, ExecuteTraps, Return, wireVars
<1> QED BY <1>3, <1>4, <1>5, <1>6, <1>8, <1>9, <1>10 DEF Next

\* For every width of an int and every command line: a string that the server returned has
\* a place in the buffer of its caller, but for the documentation asked for by name.
THEOREM AnswersFit == Spec => []AnswerFits
<1>1. Init => FitInv /\ RequestFaithful
  BY DEF Init, FitInv, RequestFaithful
<1>2. FitInv => AnswerFits
  <2> SUFFICES ASSUME FitInv, got # NULL, got.status = OK, got.arg.typ = Str,
                      call.msg.return_type = Str, call.room # NULL,
                      ~(call.from = "-c" /\ call.msg.command = "documentation")
               PROVE  Len(got.arg.data) + 1 <= call.room
    BY DEF AnswerFits
  <2>1. Roomy(call) /\ Len(got.arg.data) <= Longest(call.msg.command)
    BY DEF FitInv, Fitting
  <2>2. call.from = "-l" \/ call.from = "-c"
    <3>1. Void # Str
      BY DEF Void, Str
    <3> QED BY <2>1, <3>1 DEF Roomy
  <2>3. CASE call.from = "-l"
    <3>1. call.room = 2048 /\ Len(got.arg.data) <= 2047
      BY <2>1, <2>3 DEF Roomy, Longest
    <3> QED BY <3>1
  <2>4. CASE call.from = "-c"
    <3>1. call.room = 256 /\ Len(got.arg.data) <= 254
      BY <2>1, <2>4 DEF Roomy, Longest
    <3> QED BY <3>1
  <2> QED BY <2>2, <2>3, <2>4
<1> QED BY <1>1, <1>2, FitSteps, RequestSteps, AnswerAlways, CallAlways, PTL DEF Spec
=============================================================================
