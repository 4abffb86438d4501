------------------------- MODULE PacketReaderProofs -------------------------
(***************************************************************************)
(* Proofs about PacketLength and PacketReader, for strings, contents and   *)
(* numbers of topics of any size.                                          *)
(*                                                                         *)
(* The length.  Written is a recursive function: WrittenRecursion proves   *)
(* its equations by induction (RecursionProofs), WrittenShape reads the    *)
(* bytes off from them, and LengthInv relates the state of the loop that   *)
(* reads to the bytes it has read.                                         *)
(*                                                                         *)
(* The payload.  Size is a fold, and Packets are concatenations of fields; *)
(* Sizes and Layout say of these what a handler must know, field by field, *)
(* and PacketLayout that every packet has its layout.  ReaderInv says that *)
(* the handler is at the field that the packet has there, and what it has  *)
(* found out by then; the properties of PacketReader follow from it.       *)
(***************************************************************************)
EXTENDS PacketReader, RecursionProofs

-----------------------------------------------------------------------------
(* The length that is written                                              *)

Digits == 0 .. 255

(* The byte written first, when there is more than one, and the rest.      *)
Low(n) == 128 + (n % 128)
High(n) == n \div 128

Shape(w, n) == IF n < 128 THEN <<n>> ELSE <<Low(n)>> \o w[High(n)]

LEMMA ShapeCases ==
  ASSUME NEW w, NEW n \in Nat
  PROVE  /\ n < 128 => Shape(w, n) = <<n>>
         /\ n >= 128 => Shape(w, n) = <<Low(n)>> \o w[High(n)]
<1>1. n >= 128 => ~ (n < 128)
  OBVIOUS
<1> QED BY <1>1, Zenon DEF Shape

LEMMA Split ==
  ASSUME NEW n \in Nat
  PROVE  /\ High(n) \in Nat /\ Low(n) \in 128 .. 255
         /\ n = (Low(n) - 128) + 128 * High(n)
         /\ n >= 128 => High(n) < n
BY DEF Low, High

(* The writer's recursion: the last byte, or seven bits and what is left.  *)
LEMMA WrittenRecursion ==
  ASSUME NEW v \in Nat
  PROVE  /\ Written(v) \in Seq(Digits)
         /\ Len(Written(v)) >= 1
         /\ v < 128 => Written(v) = <<v>>
         /\ v >= 128 => Written(v) = <<Low(v)>> \o Written(High(v))
<1> DEFINE S == {s \in Seq(Digits) : Len(s) >= 1}
           rank == [n \in Nat |-> n]
           down == [n \in Nat |-> IF n < 128 THEN n ELSE High(n)]
           last == [n \in Nat |-> IF n < 128 THEN <<n>> ELSE <<0>>]
           step == [ns \in Nat \X S |-> <<Low(ns[1])>> \o ns[2]]
           wr == CHOOSE w : w = [n \in Nat |-> Shape(w, n)]
<1>1. \A n \in Nat : High(n) \in Nat /\ Low(n) \in 128 .. 255 /\ (n >= 128 => High(n) < n)
  BY Split
<1>2. rank \in [Nat -> Nat] /\ down \in [Nat -> Nat]
  BY <1>1
<1>3. last \in [Nat -> S]
  <2> SUFFICES ASSUME NEW n \in Nat PROVE (IF n < 128 THEN <<n>> ELSE <<0>>) \in S
    OBVIOUS
  <2> QED BY DEF Digits
<1>4. \A n \in Nat, s \in S : <<Low(n)>> \o s \in S
  <2> TAKE n \in Nat, s \in S
  <2>1. Low(n) \in Digits
    BY <1>1 DEF Digits
  <2> QED BY <2>1
<1>5. step \in [Nat \X S -> S]
  BY <1>4
<1>6. PICK w \in [Nat -> S] : Recurs(w, Nat, rank, down, last, step)
  <2> HIDE DEF S, rank, down, last, step
  <2> QED BY <1>2, <1>3, <1>5, RecursionExists
<1>7. \A n \in Nat : w[n] = Shape(w, n)
  <2> TAKE n \in Nat
  <2>1. w[n] = IF rank[down[n]] < rank[n] THEN step[<<n, w[down[n]]>>] ELSE last[n]
    BY <1>6 DEF Recurs
  <2>2. CASE n < 128
    BY <2>1, <2>2 DEF Shape
  <2>3. CASE n >= 128
    <3>1. down[n] = High(n) /\ High(n) \in Nat /\ High(n) < n
      BY <1>1, <2>3
    <3>2. w[High(n)] \in S
      BY <3>1
    <3>3. step[<<n, w[High(n)]>>] = <<Low(n)>> \o w[High(n)]
      BY <3>2
    <3>4. rank[High(n)] < rank[n]
      BY <3>1
    <3> HIDE DEF rank, down, step, last
    <3> QED BY <2>1, <2>3, <3>1, <3>3, <3>4, ShapeCases
  <2> QED BY <2>2, <2>3
<1>8. w = [n \in Nat |-> Shape(w, n)]
  BY <1>7
<1>9. wr = [n \in Nat |-> Shape(wr, n)]
  <2> HIDE DEF S
  <2> QED BY <1>8
<1>10. \A n \in Nat : Written(n) = wr[n]
  BY DEF Written, Shape, Low, High
<1> HIDE DEF wr
<1>11. \A n \in Nat : /\ wr[n] = Shape(wr, n)
                      /\ n < 128 => wr[n] = <<n>>
                      /\ n >= 128 => wr[n] = <<Low(n)>> \o wr[High(n)]
  <2>1. \A n \in Nat : wr[n] = Shape(wr, n)
    BY <1>9
  <2> QED BY <2>1, ShapeCases, Zenon
<1>12. \A n \in Nat : wr[n] \in S
  <2> DEFINE N == {n \in Nat : \A k \in 0 .. n : wr[k] \in S}
  <2>1. 0 \in N
    <3>1. wr[0] = <<0>>
      <4>1. 0 \in Nat /\ 0 < 128
        OBVIOUS
      <4> QED BY <1>11, <4>1, Zenon
    <3>2. wr[0] \in S
      BY <3>1 DEF Digits
    <3>3. \A k \in 0 .. 0 : k = 0
      OBVIOUS
    <3> HIDE DEF S
    <3> QED BY <3>2, <3>3
  <2>2. ASSUME NEW n \in Nat, n \in N PROVE n + 1 \in N
    <3>1. wr[n + 1] \in S
      <4>1. CASE n + 1 < 128
        <5>1. n + 1 \in Nat
          OBVIOUS
        <5>2. wr[n + 1] = <<n + 1>>
          BY <1>11, <4>1, <5>1, Zenon
        <5> QED BY <4>1, <5>2 DEF Digits
      <4>2. CASE n + 1 >= 128
        <5>1. High(n + 1) \in 0 .. n
          BY <1>1, <4>2
        <5>2. wr[High(n + 1)] \in S
          BY <2>2, <5>1
        <5>3. wr[n + 1] = <<Low(n + 1)>> \o wr[High(n + 1)]
          BY <1>11, <4>2
        <5> HIDE DEF S
        <5> QED BY <1>4, <5>2, <5>3
      <4> QED BY <4>1, <4>2
    <3> QED BY <2>2, <3>1
  <2> HIDE DEF N
  <2>3. \A n \in Nat : n \in N
    BY <2>1, <2>2, Induction
  <2>4. ASSUME NEW n \in Nat PROVE wr[n] \in S
    <3>1. n \in N
      BY <2>3
    <3> QED BY <3>1 DEF N
  <2> QED BY <2>4
<1>13. wr[v] \in S /\ wr[v] = Shape(wr, v) /\ (v >= 128 => wr[High(v)] = Written(High(v)))
  BY <1>1, <1>10, <1>11, <1>12
<1> QED BY <1>10, <1>13, ShapeCases

(* String s is that of v, with a byte in front of those for what is left.  *)
Continued(v, s) ==
  \E l \in 128 .. 255 : \E u \in Nat :
    v = (l - 128) + 128 * u /\ u >= 1 /\ s = <<l>> \o Written(u)

LEMMA WrittenNext ==
  ASSUME NEW v \in Nat
  PROVE  \/ v < 128 /\ Written(v) = <<v>>
         \/ Continued(v, Written(v))
<1>1. CASE v < 128
  BY <1>1, WrittenRecursion
<1>2. CASE v >= 128
  <2>1. PICK l \in 128 .. 255, u \in Nat : l = Low(v) /\ u = High(v)
    BY Split
  <2>2. v = (l - 128) + 128 * u
    BY <2>1, Split
  <2>3. Written(v) = <<l>> \o Written(u)
    BY <1>2, <2>1, WrittenRecursion
  <2>4. u >= 1
    BY <1>2, <2>2
  <2> QED BY <2>2, <2>3, <2>4 DEF Continued
<1>3. v < 128 \/ v >= 128
  OBVIOUS
<1> QED BY <1>1, <1>2, <1>3, Zenon

LEMMA Prepend ==
  ASSUME NEW l \in Digits, NEW x \in Seq(Digits)
  PROVE  /\ <<l>> \o x \in Seq(Digits)
         /\ Len(<<l>> \o x) = Len(x) + 1
         /\ (<<l>> \o x)[1] = l
         /\ Len(x) >= 1 => (<<l>> \o x)[2] = x[1]
         /\ Len(x) >= 2 => (<<l>> \o x)[3] = x[2]
OBVIOUS

(* Its bytes: all but the last are 128 or more, and they count in powers   *)
(* of 128.                                                                 *)
Bytes1(w, v) == \E a \in 0 .. 127 : Len(w) = 1 /\ w[1] = a /\ v = a

Bytes2(w, v) ==
  \E a \in 128 .. 255, b \in 0 .. 127 :
    Len(w) = 2 /\ w[1] = a /\ w[2] = b /\ v = (a - 128) + 128 * b

Threes(w, v, a, b, c) ==
  /\ Len(w) = 3 /\ w[1] = a /\ w[2] = b /\ w[3] = c
  /\ v = (a - 128) + 128 * (b - 128) + 128 * 128 * c

Bytes3(w, v) ==
  \E a \in 128 .. 255, b \in 128 .. 255, c \in 0 .. 127 : Threes(w, v, a, b, c)

Mores(w, v, a, b, c) ==
  /\ Len(w) >= 4 /\ w[1] = a /\ w[2] = b /\ w[3] = c
  /\ v >= 128 * 128 * 128

MoreBytes(w, v) ==
  \E a \in 128 .. 255, b \in 128 .. 255, c \in 128 .. 255 : Mores(w, v, a, b, c)

BytesOf(w, v) == Bytes1(w, v) \/ Bytes2(w, v) \/ Bytes3(w, v) \/ MoreBytes(w, v)

LEMMA WrittenShape ==
  ASSUME NEW v \in Nat, NEW w, w = Written(v)
  PROVE  /\ w \in Seq(Digits)
         /\ BytesOf(w, v)
<1>1. w \in Seq(Digits)
  BY WrittenRecursion
<1>2. CASE v < 128 /\ w = <<v>>
  <2>1. Bytes1(w, v)
    BY <1>2 DEF Bytes1
  <2> QED BY <1>1, <2>1 DEF BytesOf
<1>3. ASSUME NEW l \in 128 .. 255, NEW u \in Nat,
             v = (l - 128) + 128 * u, u >= 1, w = <<l>> \o Written(u)
      PROVE  BytesOf(w, v)
  <2>1. PICK x \in Seq(Digits) : x = Written(u) /\ Len(x) >= 1
    BY WrittenRecursion
  <2>2. /\ Len(w) = Len(x) + 1 /\ w[1] = l
        /\ w[2] = x[1] /\ (Len(x) >= 2 => w[3] = x[2])
    <3>1. w = <<l>> \o x /\ l \in Digits
      BY <1>3, <2>1 DEF Digits
    <3> QED BY <1>3, <2>1, <3>1, Prepend
  <2>3. CASE u < 128 /\ x = <<u>>
    <3>1. Bytes2(w, v)
      <4>1. u \in 0 .. 127 /\ Len(w) = 2 /\ w[1] = l /\ w[2] = u
        BY <2>2, <2>3
      <4> QED BY <1>3, <4>1, Zenon DEF Bytes2
    <3> QED BY <3>1 DEF BytesOf
  <2>4. ASSUME NEW k \in 128 .. 255, NEW t \in Nat,
               u = (k - 128) + 128 * t, t >= 1, x = <<k>> \o Written(t)
        PROVE  BytesOf(w, v)
    <3>1. PICK y \in Seq(Digits) : y = Written(t) /\ Len(y) >= 1
      BY WrittenRecursion
    <3>2. Len(x) = Len(y) + 1 /\ x[1] = k /\ x[2] = y[1]
      <4>1. x = <<k>> \o y /\ k \in Digits
        BY <2>4, <3>1 DEF Digits
      <4> QED BY <2>4, <3>1, <4>1, Prepend
    <3>3. Len(w) = Len(y) + 2 /\ w[1] = l /\ w[2] = k /\ w[3] = y[1]
      BY <2>2, <3>1, <3>2
    <3>4. v = (l - 128) + 128 * (k - 128) + 128 * 128 * t
      BY <1>3, <2>4
    <3>5. CASE t < 128 /\ y = <<t>>
      <4>1. Len(w) = 3 /\ w[3] = t
        BY <3>3, <3>5
      <4>2. Bytes3(w, v)
        <5>1. t \in 0 .. 127
          BY <3>5
        <5>2. Threes(w, v, l, k, t)
          BY <3>3, <3>4, <4>1, Zenon DEF Threes
        <5> QED BY <5>1, <5>2, Zenon DEF Bytes3
      <4> QED BY <4>2 DEF BytesOf
    <3>6. ASSUME NEW j \in 128 .. 255, NEW r \in Nat,
                 t = (j - 128) + 128 * r, r >= 1, y = <<j>> \o Written(r)
          PROVE  BytesOf(w, v)
      <4>1. PICK z \in Seq(Digits) : z = Written(r) /\ Len(z) >= 1
        BY WrittenRecursion
      <4>2. Len(y) = Len(z) + 1 /\ y[1] = j
        <5>1. y = <<j>> \o z /\ j \in Digits
          BY <3>6, <4>1 DEF Digits
        <5> QED BY <3>6, <4>1, <5>1, Prepend
      <4>3. v >= 128 * 128 * 128
        <5>1. t >= 128
          BY <3>6
        <5> QED BY <3>4, <5>1
      <4>4. MoreBytes(w, v)
        <5>1. Len(w) >= 4 /\ w[1] = l /\ w[2] = k /\ w[3] = j
          BY <3>3, <4>1, <4>2
        <5>2. Mores(w, v, l, k, j)
          BY <4>3, <5>1, Zenon DEF Mores
        <5> QED BY <3>6, <5>2, Zenon DEF MoreBytes
      <4> QED BY <4>4 DEF BytesOf
    <3>7. (t < 128 /\ y = <<t>>) \/ Continued(t, y)
      BY <3>1, WrittenNext
    <3> QED BY <3>5, <3>6, <3>7, Zenon DEF Continued
  <2>5. (u < 128 /\ x = <<u>>) \/ Continued(u, x)
    BY <2>1, WrittenNext
  <2> QED BY <2>3, <2>4, <2>5, Zenon DEF Continued
<1>4. (v < 128 /\ w = <<v>>) \/ Continued(v, w)
  BY WrittenNext
<1> QED BY <1>1, <1>2, <1>3, <1>4, Zenon DEF Continued

-----------------------------------------------------------------------------
(* The length that is read                                                 *)

(* The loop ends with the first byte below 128, if not with the fourth or  *)
(* with an error before it.                                                *)
LastByte(b) == phase = "load" <=> b < 128

After0 ==
  Len(bytes) = 0 /\ phase # "load" /\ remainlen_value = 0 /\ multiplier = 1
After1 ==
  /\ Len(bytes) = 1 /\ LastByte(bytes[1])
  /\ remainlen_value = bytes[1] % 128
  /\ multiplier = 128
After2 ==
  /\ Len(bytes) = 2 /\ bytes[1] >= 128 /\ LastByte(bytes[2])
  /\ remainlen_value = (bytes[1] % 128) + 128 * (bytes[2] % 128)
  /\ multiplier = 128 * 128
After3 ==
  /\ Len(bytes) = 3 /\ bytes[1] >= 128 /\ bytes[2] >= 128 /\ LastByte(bytes[3])
  /\ remainlen_value = (bytes[1] % 128) + 128 * (bytes[2] % 128)
                          + 128 * 128 * (bytes[3] % 128)
  /\ multiplier = 128 * 128 * 128
After4 ==
  /\ Len(bytes) = 4 /\ phase = "error"
  /\ bytes[1] >= 128 /\ bytes[2] >= 128 /\ bytes[3] >= 128
  /\ remainlen_value = (bytes[1] % 128) + 128 * (bytes[2] % 128)
                          + 128 * 128 * (bytes[3] % 128)
                          + 128 * 128 * 128 * (bytes[4] % 128)
  /\ multiplier = 128 * 128 * 128 * 128

LengthInv ==
  /\ bytes \in Seq(Digits)
  /\ phase \in {"length", "load", "error"}
  /\ After0 \/ After1 \/ After2 \/ After3 \/ After4

LEMMA LowDigits ==
  ASSUME NEW b \in Digits
  PROVE  /\ b % 128 \in 0 .. 127
         /\ b < 128 => b % 128 = b
         /\ b >= 128 => b % 128 = b - 128
BY DEF Digits

LEMMA ReadByteLength ==
  ASSUME LengthInv, NEW b \in Digits, ReadByte(b)
  PROVE  LengthInv'
<1>1. PICK d \in 0 .. 127 : d = b % 128
  BY LowDigits
<1>2. /\ bytes' = Append(bytes, b) /\ bytes' \in Seq(Digits)
      /\ Len(bytes') = Len(bytes) + 1
      /\ bytes'[Len(bytes) + 1] = b
      /\ \A i \in 1 .. Len(bytes) : bytes'[i] = bytes[i]
  BY DEF LengthInv, ReadByte
<1>3. /\ phase = "length"
      /\ remainlen_value' = remainlen_value + d * multiplier
      /\ multiplier' = multiplier * 128
      /\ phase' = IF multiplier' > 128 * 128 * 128 THEN "error"
                  ELSE IF b >= 128 THEN "length" ELSE "load"
  BY <1>1 DEF ReadByte, TooLong
<1>4. phase' \in {"length", "load", "error"}
  BY <1>3
<1>5. \A i \in 1 .. Len(bytes) : bytes[i] \in Digits
  BY DEF LengthInv
<1>6. CASE After0
  <2>1. After1'
    BY <1>1, <1>2, <1>3, <1>6 DEF After0, After1, LastByte, Digits
  <2> QED BY <1>2, <1>4, <2>1 DEF LengthInv
<1>7. CASE After1
  <2>1. Len(bytes) = 1 /\ multiplier = 128
    BY <1>7 DEF After1
  <2>2. /\ Len(bytes') = 2 /\ bytes'[2] = b
        /\ bytes'[1] = bytes[1] /\ bytes[1] \in Digits
    BY <1>2, <1>5, <2>1
  <2>3. PICK d1 \in 0 .. 127 : d1 = bytes[1] % 128
    BY <2>2, LowDigits
  <2>4. remainlen_value' = d1 + 128 * d
    <3>1. remainlen_value = d1
      BY <1>7, <2>3 DEF After1
    <3>2. multiplier * d = 128 * d
      BY <2>1
    <3> QED BY <1>3, <2>1, <3>1, <3>2
  <2>5. bytes[1] >= 128
    BY <1>3, <1>7, <2>2 DEF After1, LastByte, Digits
  <2>6. multiplier' = 128 * 128 /\ ~ (multiplier' > 128 * 128 * 128)
    BY <1>3, <2>1
  <2>7. phase' = "load" <=> b < 128
    BY <1>3, <2>6 DEF Digits
  <2>8. After2'
    BY <1>1, <2>2, <2>3, <2>4, <2>5, <2>6, <2>7 DEF After2, LastByte
  <2> QED BY <1>2, <1>4, <2>8 DEF LengthInv
<1>8. CASE After2
  <2>1. Len(bytes) = 2 /\ multiplier = 128 * 128
    BY <1>8 DEF After2
  <2>2. /\ Len(bytes') = 3 /\ bytes'[3] = b
        /\ bytes'[1] = bytes[1] /\ bytes[1] \in Digits
        /\ bytes'[2] = bytes[2] /\ bytes[2] \in Digits
    BY <1>2, <1>5, <2>1
  <2>3. PICK d1 \in 0 .. 127, d2 \in 0 .. 127 : d1 = bytes[1] % 128 /\ d2 = bytes[2] % 128
    BY <2>2, LowDigits
  <2>4. remainlen_value' = d1 + 128 * d2 + 128 * 128 * d
    <3>1. remainlen_value = d1 + 128 * d2
      BY <1>8, <2>3 DEF After2
    <3>2. multiplier * d = 128 * 128 * d
      BY <2>1
    <3> QED BY <1>3, <2>1, <3>1, <3>2
  <2>5. bytes[2] >= 128 /\ bytes[1] >= 128
    BY <1>3, <1>8, <2>2 DEF After2, LastByte, Digits
  <2>6. multiplier' = 128 * 128 * 128 /\ ~ (multiplier' > 128 * 128 * 128)
    BY <1>3, <2>1
  <2>7. phase' = "load" <=> b < 128
    BY <1>3, <2>6 DEF Digits
  <2>8. After3'
    BY <1>1, <2>2, <2>3, <2>4, <2>5, <2>6, <2>7 DEF After3, LastByte
  <2> QED BY <1>2, <1>4, <2>8 DEF LengthInv
<1>9. CASE After3
  <2>1. Len(bytes) = 3 /\ multiplier = 128 * 128 * 128
    BY <1>9 DEF After3
  <2>2. /\ Len(bytes') = 4 /\ bytes'[4] = b
        /\ bytes'[1] = bytes[1] /\ bytes[1] \in Digits
        /\ bytes'[2] = bytes[2] /\ bytes[2] \in Digits
        /\ bytes'[3] = bytes[3] /\ bytes[3] \in Digits
    BY <1>2, <1>5, <2>1
  <2>3. PICK d1 \in 0 .. 127, d2 \in 0 .. 127, d3 \in 0 .. 127 :
          d1 = bytes[1] % 128 /\ d2 = bytes[2] % 128 /\ d3 = bytes[3] % 128
    BY <2>2, LowDigits
  <2>4. remainlen_value' = d1 + 128 * d2 + 128 * 128 * d3 + 128 * 128 * 128 * d
    <3>1. remainlen_value = d1 + 128 * d2 + 128 * 128 * d3
      BY <1>9, <2>3 DEF After3
    <3>2. multiplier * d = 128 * 128 * 128 * d
      BY <2>1
    <3> QED BY <1>3, <2>1, <3>1, <3>2
  <2>5. bytes[3] >= 128 /\ bytes[1] >= 128 /\ bytes[2] >= 128
    BY <1>3, <1>9, <2>2 DEF After3, LastByte, Digits
  <2>6. multiplier' = 128 * 128 * 128 * 128 /\ multiplier' > 128 * 128 * 128
    BY <1>3, <2>1
  <2>7. phase' = "error"
    BY <1>3, <2>6 DEF Digits
  <2>8. After4'
    BY <1>1, <2>2, <2>3, <2>4, <2>5, <2>6, <2>7 DEF After4, LastByte
  <2> QED BY <1>2, <1>4, <2>8 DEF LengthInv
<1>10. ~ After4
  BY <1>3 DEF After4
<1> QED BY <1>6, <1>7, <1>8, <1>9, <1>10 DEF LengthInv

LEMMA ReadFailsLength ==
  ASSUME LengthInv, ReadFails
  PROVE  LengthInv'
<1>1. phase' = "error" /\ phase = "length" /\ UNCHANGED <<bytes, remainlen_value, multiplier>>
  BY DEF ReadFails
<1> QED BY <1>1 DEF LengthInv, After0, After1, After2, After3, After4, LastByte

LEMMA UnreadLength ==
  ASSUME LengthInv, UNCHANGED vars
  PROVE  LengthInv'
BY DEF LengthInv, vars, After0, After1, After2, After3, After4, LastByte

LEMMA InitLength == Init => LengthInv
<1> SUFFICES ASSUME Init PROVE LengthInv
  OBVIOUS
<1>1. bytes \in Seq(Digits) /\ Len(bytes) = 0
  BY DEF Init
<1> QED BY <1>1 DEF Init, LengthInv, After0

(* What is a prefix of a length that was written is read as that length,   *)
(* when it is all of it, and is not the end of the loop before.            *)
Follows(w) ==
  Len(bytes) <= Len(w) /\ \A i \in 1 .. Len(bytes) : bytes[i] = w[i]

LEMMA PrefixReads ==
  ASSUME LengthInv, NEW v \in Nat, NEW w, w = Written(v), Follows(w)
  PROVE  /\ phase = "load" =>
              Len(bytes) = Len(w) /\ remainlen_value = v /\ v < 128 * 128 * 128
         /\ Len(bytes) = Len(w) /\ v < 128 * 128 * 128 =>
              phase = "load" /\ remainlen_value = v
         /\ phase = "length" => Len(bytes) < Len(w)
<1>1. BytesOf(w, v)
  BY WrittenShape
<1>2. Len(bytes) <= Len(w) /\ \A i \in 1 .. Len(bytes) : bytes[i] = w[i]
  BY DEF Follows
<1>3. CASE Bytes1(w, v)
  <2>1. PICK a \in 0 .. 127 :
          Len(w) = 1 /\ w[1] = a
          /\ v = a
    BY <1>3, WrittenShape DEF Bytes1
  <2>2. a % 128 = a
    BY LowDigits DEF Digits
  <2>3. CASE After0
    BY <2>1, <2>3 DEF After0
  <2>4. CASE After1
    <3>1. bytes[1] = a /\ Len(bytes) = 1
      BY <1>2, <2>1, <2>4 DEF After1
    <3> QED BY <2>1, <2>2, <2>4, <3>1 DEF After1, LastByte
  <2>5. ~ After2
    BY <1>2, <2>1 DEF After2
  <2>6. ~ After3
    BY <1>2, <2>1 DEF After3
  <2>7. ~ After4
    BY <1>2, <2>1 DEF After4
  <2> QED BY <2>3, <2>4, <2>5, <2>6, <2>7 DEF LengthInv
<1>4. CASE Bytes2(w, v)
  <2>1. PICK a \in 128 .. 255, b \in 0 .. 127 :
          Len(w) = 2 /\ w[1] = a /\ w[2] = b
          /\ v = (a - 128) + 128 * b
    BY <1>4, WrittenShape DEF Bytes2
  <2>2. a % 128 = a - 128 /\ b % 128 = b
    BY LowDigits DEF Digits
  <2>3. CASE After0
    BY <2>1, <2>3 DEF After0
  <2>4. CASE After1
    <3>1. bytes[1] = a /\ Len(bytes) = 1
      BY <1>2, <2>1, <2>4 DEF After1
    <3> QED BY <2>1, <2>2, <2>4, <3>1 DEF After1, LastByte
  <2>5. CASE After2
    <3>1. bytes[1] = a /\ bytes[2] = b /\ Len(bytes) = 2
      BY <1>2, <2>1, <2>5 DEF After2
    <3> QED BY <2>1, <2>2, <2>5, <3>1 DEF After2, LastByte
  <2>6. ~ After3
    BY <1>2, <2>1 DEF After3
  <2>7. ~ After4
    BY <1>2, <2>1 DEF After4
  <2> QED BY <2>3, <2>4, <2>5, <2>6, <2>7 DEF LengthInv
<1>5. CASE Bytes3(w, v)
  <2>1. PICK a \in 128 .. 255, b \in 128 .. 255, c \in 0 .. 127 : Threes(w, v, a, b, c)
    BY <1>5, Zenon DEF Bytes3
  <2>2. /\ Len(w) = 3 /\ w[1] = a /\ w[2] = b /\ w[3] = c
        /\ v = (a - 128) + 128 * (b - 128) + 128 * 128 * c
    BY <2>1, Zenon DEF Threes
  <2>3. a % 128 = a - 128 /\ b % 128 = b - 128 /\ c % 128 = c
    BY LowDigits DEF Digits
  <2>4. CASE After0
    BY <2>2, <2>4 DEF After0
  <2>5. CASE After1
    <3>1. bytes[1] = a /\ Len(bytes) = 1
      BY <1>2, <2>2, <2>5 DEF After1
    <3> QED BY <2>2, <2>3, <2>5, <3>1 DEF After1, LastByte
  <2>6. CASE After2
    <3>1. bytes[1] = a /\ bytes[2] = b /\ Len(bytes) = 2
      BY <1>2, <2>2, <2>6 DEF After2
    <3> QED BY <2>2, <2>3, <2>6, <3>1 DEF After2, LastByte
  <2>7. CASE After3
    <3>1. bytes[1] = a /\ bytes[2] = b /\ bytes[3] = c /\ Len(bytes) = 3
      BY <1>2, <2>2, <2>7 DEF After3
    <3> QED BY <2>2, <2>3, <2>7, <3>1 DEF After3, LastByte
  <2>8. ~ After4
    BY <1>2, <2>2 DEF After4
  <2> QED BY <2>4, <2>5, <2>6, <2>7, <2>8 DEF LengthInv
<1>6. CASE MoreBytes(w, v)
  <2>1. PICK a \in 128 .. 255, b \in 128 .. 255, c \in 128 .. 255 : Mores(w, v, a, b, c)
    BY <1>6, Zenon DEF MoreBytes
  <2>2. /\ Len(w) >= 4 /\ Len(w) \in Nat /\ w[1] = a /\ w[2] = b /\ w[3] = c
        /\ v >= 128 * 128 * 128
    <3>1. Len(w) \in Nat
      <4>1. w \in Seq(Digits)
        BY WrittenShape
      <4> QED BY <4>1
    <3> QED BY <2>1, <3>1, Zenon DEF Mores
  <2>3. a % 128 = a - 128 /\ b % 128 = b - 128 /\ c % 128 = c - 128
    BY LowDigits DEF Digits
  <2>4. CASE After0
    BY <2>2, <2>4 DEF After0
  <2>5. CASE After1
    <3>1. bytes[1] = a /\ Len(bytes) = 1
      BY <1>2, <2>2, <2>5 DEF After1
    <3> QED BY <2>2, <2>3, <2>5, <3>1 DEF After1, LastByte
  <2>6. CASE After2
    <3>1. bytes[1] = a /\ bytes[2] = b /\ Len(bytes) = 2
      BY <1>2, <2>2, <2>6 DEF After2
    <3> QED BY <2>2, <2>3, <2>6, <3>1 DEF After2, LastByte
  <2>7. CASE After3
    <3>1. bytes[1] = a /\ bytes[2] = b /\ bytes[3] = c /\ Len(bytes) = 3
      BY <1>2, <2>2, <2>7 DEF After3
    <3> QED BY <2>2, <2>3, <2>7, <3>1 DEF After3, LastByte
  <2>8. CASE After4
    BY <2>2, <2>8 DEF After4
  <2> QED BY <2>4, <2>5, <2>6, <2>7, <2>8 DEF LengthInv
<1> QED BY <1>1, <1>3, <1>4, <1>5, <1>6 DEF BytesOf

LEMMA ReadsWritten == LengthInv => ReadsWhatIsWritten
<1> SUFFICES ASSUME LengthInv, NEW v \in Lengths, v < 128 * 128 * 128
             PROVE  /\ bytes = Written(v) => phase = "load" /\ remainlen_value = v
                    /\ IsStrictPrefix(bytes, Written(v)) => phase # "load"
  BY DEF ReadsWhatIsWritten
<1>1. PICK w \in Seq(Digits) : w = Written(v)
  BY WrittenRecursion, LengthAssumption
<1>2. v \in Nat /\ bytes \in Seq(Digits)
  BY LengthAssumption DEF LengthInv
<1>3. ASSUME bytes = w PROVE phase = "load" /\ remainlen_value = v
  <2>1. Follows(w)
    BY <1>1, <1>3 DEF Follows
  <2> QED BY <1>1, <1>2, <1>3, <2>1, PrefixReads
<1>4. ASSUME IsStrictPrefix(bytes, w) PROVE phase # "load"
  <2>1. Len(bytes) <= Len(w) /\ bytes # w
    BY <1>4 DEF IsStrictPrefix, IsPrefix
  <2>2. \A i \in 1 .. Len(bytes) : bytes[i] = w[i]
    <3>1. SubSeq(bytes, 1, Len(bytes)) = SubSeq(w, 1, Len(bytes))
      BY <1>4 DEF IsStrictPrefix, IsPrefix
    <3>2. /\ \A i \in 1 .. Len(bytes) : SubSeq(bytes, 1, Len(bytes))[i] = bytes[i]
          /\ \A i \in 1 .. Len(bytes) : SubSeq(w, 1, Len(bytes))[i] = w[i]
      BY <1>1, <1>2, <2>1
    <3> QED BY <3>1, <3>2
  <2>3. Len(bytes) # Len(w)
    BY <1>1, <1>2, <2>1, <2>2, SeqEqual
  <2>4. Follows(w)
    BY <2>1, <2>2 DEF Follows
  <2> QED BY <1>1, <1>2, <2>3, <2>4, PrefixReads
<1> QED BY <1>1, <1>3, <1>4

LEMMA Bounded == LengthInv => LengthBounded
<1> SUFFICES ASSUME LengthInv PROVE LengthBounded
  OBVIOUS
<1>1. \A i \in 1 .. Len(bytes) : bytes[i] \in Digits /\ bytes[i] % 128 \in 0 .. 127
  <2> TAKE i \in 1 .. Len(bytes)
  <2>1. bytes[i] \in Digits
    BY DEF LengthInv
  <2> QED BY <2>1, LowDigits
<1>2. CASE After0
  BY <1>2 DEF After0, LengthBounded, MAX_REMAIN_BYTE_LEN
<1>3. CASE After1
  <2>1. PICK d1 \in 0 .. 127 : d1 = bytes[1] % 128
    BY <1>1, <1>3 DEF After1
  <2>2. remainlen_value = d1 /\ multiplier = 128
    BY <1>3, <2>1 DEF After1
  <2>3. remainlen_value < 128
    BY <2>1, <2>2
  <2> QED BY <1>3, <2>2, <2>3 DEF After1, LengthBounded, MAX_REMAIN_BYTE_LEN
<1>4. CASE After2
  <2>1. PICK d1 \in 0 .. 127, d2 \in 0 .. 127 : d1 = bytes[1] % 128 /\ d2 = bytes[2] % 128
    <3>1. Len(bytes) = 2
      BY <1>4 DEF After2
    <3>2. bytes[1] % 128 \in 0 .. 127 /\ bytes[2] % 128 \in 0 .. 127
      BY <1>1, <3>1
    <3> QED BY <3>2
  <2>2. remainlen_value = d1 + 128 * d2 /\ multiplier = 128 * 128
    BY <1>4, <2>1 DEF After2
  <2>3. remainlen_value < 128 * 128
    BY <2>1, <2>2
  <2> QED BY <1>4, <2>2, <2>3 DEF After2, LengthBounded, MAX_REMAIN_BYTE_LEN
<1>5. CASE After3
  <2>1. PICK d1 \in 0 .. 127, d2 \in 0 .. 127, d3 \in 0 .. 127 : d1 = bytes[1] % 128 /\ d2 = bytes[2] % 128 /\ d3 = bytes[3] % 128
    <3>1. Len(bytes) = 3
      BY <1>5 DEF After3
    <3>2. bytes[1] % 128 \in 0 .. 127 /\ bytes[2] % 128 \in 0 .. 127 /\ bytes[3] % 128 \in 0 .. 127
      BY <1>1, <3>1
    <3> QED BY <3>2
  <2>2. remainlen_value = d1 + 128 * d2 + 128 * 128 * d3 /\ multiplier = 128 * 128 * 128
    BY <1>5, <2>1 DEF After3
  <2>3. remainlen_value < 128 * 128 * 128
    <3>1. 128 * 128 = 16384 /\ 128 * 128 * 128 = 2097152
      OBVIOUS
    <3>2. d1 + 128 * d2 + 16384 * d3 < 2097152
      OBVIOUS
    <3>3. remainlen_value = d1 + 128 * d2 + 16384 * d3
      BY <2>2, <3>1
    <3> QED BY <3>1, <3>2, <3>3
  <2> QED BY <1>5, <2>2, <2>3 DEF After3, LengthBounded, MAX_REMAIN_BYTE_LEN
<1>6. CASE After4
  <2>1. PICK d1 \in 0 .. 127, d2 \in 0 .. 127, d3 \in 0 .. 127, d4 \in 0 .. 127 : 
          /\ d1 = bytes[1] % 128 /\ d2 = bytes[2] % 128
          /\ d3 = bytes[3] % 128 /\ d4 = bytes[4] % 128
    <3>1. Len(bytes) = 4
      BY <1>6 DEF After4
    <3>2. bytes[1] % 128 \in 0 .. 127 /\ bytes[2] % 128 \in 0 .. 127 /\ bytes[3] % 128 \in 0 .. 127 /\ bytes[4] % 128 \in 0 .. 127
      BY <1>1, <3>1
    <3> QED BY <3>2
  <2>2. remainlen_value = d1 + 128 * d2 + 128 * 128 * d3 + 128 * 128 * 128 * d4 /\ multiplier = 128 * 128 * 128 * 128
    BY <1>6, <2>1 DEF After4
  <2>3. remainlen_value < 128 * 128 * 128 * 128
    <3>1. 128 * 128 = 16384 /\ 128 * 128 * 128 = 2097152 /\ 128 * 128 * 128 * 128 = 268435456
      OBVIOUS
    <3>2. d1 + 128 * d2 + 16384 * d3 + 2097152 * d4 < 268435456
      OBVIOUS
    <3>3. remainlen_value = d1 + 128 * d2 + 16384 * d3 + 2097152 * d4
      BY <2>2, <3>1
    <3> QED BY <3>1, <3>2, <3>3
  <2> QED BY <1>6, <2>2, <2>3 DEF After4, LengthBounded, MAX_REMAIN_BYTE_LEN
<1> QED BY <1>2, <1>3, <1>4, <1>5, <1>6 DEF LengthInv

LEMMA ReaderLength ==
  ASSUME LengthInv, [ReaderNext]_readerVars
  PROVE  LengthInv'
<1>1. ASSUME NEW b \in 0 .. 255, ReadLength(b) PROVE LengthInv'
  <2>1. ReadByte(b) /\ b \in Digits
    BY <1>1 DEF ReadLength, Digits
  <2> QED BY <2>1, ReadByteLength
<1>2. CASE LengthFails
  <2>1. ReadFails
    BY <1>2 DEF LengthFails
  <2> QED BY <2>1, ReadFailsLength
<1>3. CASE Load \/ LoadFails \/ ReadField \/ Handled \/ WriteReply
  <2>1. UNCHANGED vars
    BY <1>3 DEF Load, LoadFails, ReadField, Handled, WriteReply
  <2> QED BY <2>1, UnreadLength
<1>4. ASSUME NEW q \in 0 .. 2, Forward(q) PROVE LengthInv'
  <2>1. UNCHANGED vars
    BY <1>4 DEF Forward
  <2> QED BY <2>1, UnreadLength
<1>5. CASE UNCHANGED readerVars
  <2>1. UNCHANGED vars
    BY <1>5 DEF readerVars
  <2> QED BY <2>1, UnreadLength
<1> QED BY <1>1, <1>2, <1>3, <1>4, <1>5 DEF ReaderNext

LEMMA ReaderInitLength == ReaderInit => LengthInv
BY InitLength DEF ReaderInit

-----------------------------------------------------------------------------
(* Sizes                                                                   *)

(* What FoldLeft computes for the fields with the indices in a set, and    *)
(* the bytes of the first k fields.                                        *)
Sized(s) == DOMAIN s = 1 .. Len(s) /\ Len(s) \in Nat /\ \A i \in 1 .. Len(s) : s[i].size \in Nat

SizeIter(s) ==
  CHOOSE iter : iter = [D \in SUBSET DOMAIN s |->
                          IF D = {} THEN 0 ELSE iter[D \ {Max(D)}] + s[Max(D)].size]

SizeTo(s, k) == SizeIter(s)[1 .. k]

LEMMA SizeIs ==
  ASSUME NEW p, Sized(p.payload)
  PROVE  Size(p) = SizeTo(p.payload, Len(p.payload))
<1>1. Size(p) = SizeIter(p.payload)[DOMAIN p.payload]
  BY DEF Size, FoldLeft, MapThenFoldSet, SizeIter
<1> QED BY <1>1 DEF SizeTo, Sized

LEMMA Sizes ==
  ASSUME NEW s, Sized(s)
  PROVE  /\ SizeTo(s, 0) = 0
         /\ \A k \in 0 .. Len(s) : SizeTo(s, k) \in Nat
         /\ \A k \in 1 .. Len(s) : SizeTo(s, k) = SizeTo(s, k - 1) + s[k].size
<1> DEFINE n == Len(s)
           Sets == SUBSET (1 .. n)
           op == [xi \in Nat \X (1 .. n) |-> xi[1] + s[xi[2]].size]
           iter == SizeIter(s)
           Step(f, D) == IF D = {} THEN 0 ELSE f[D \ {Max(D)}] + s[Max(D)].size
<1>1. n \in Nat /\ DOMAIN s = 1 .. n /\ \A i \in 1 .. n : s[i].size \in Nat
  BY DEF Sized
<1>2. op \in [Nat \X (1 .. n) -> Nat]
  BY <1>1
<1>3. PICK f \in [Sets -> Nat] : IsFold(f, n, 0, op)
  <2>1. 0 \in Nat /\ n \in Nat
    BY <1>1
  <2> HIDE DEF op, n
  <2> QED BY <1>2, <2>1, FoldExists
<1>4. \A D \in Sets : D # {} => Max(D) \in 1 .. n
  <2> TAKE D \in Sets
  <2> HAVE D # {}
  <2>1. D \subseteq Nat /\ \A d \in D : d <= n
    BY <1>1
  <2> QED BY <1>1, <2>1, MaxIsGreatest
<1>5. \A D \in Sets : f[D] = Step(f, D)
  <2> TAKE D \in Sets
  <2>1. ASSUME D # {} PROVE op[<<f[D \ {Max(D)}], Max(D)>>] = f[D \ {Max(D)}] + s[Max(D)].size
    <3>1. Max(D) \in 1 .. n /\ f[D \ {Max(D)}] \in Nat
      BY <1>4, <2>1
    <3> QED BY <3>1
  <2> QED BY <1>3, <2>1 DEF IsFold
<1>6. f = [D \in SUBSET DOMAIN s |-> Step(f, D)]
  <2> HIDE DEF Step, n
  <2> QED BY <1>1, <1>5
<1>7. iter = [D \in SUBSET DOMAIN s |-> Step(iter, D)]
  <2>1. \E g : g = [D \in SUBSET DOMAIN s |-> Step(g, D)]
    BY <1>6
  <2> QED BY <2>1, Zenon DEF SizeIter
<1>8. \A D \in Sets : iter[D] = Step(iter, D)
  <2> HIDE DEF Step, n, iter
  <2> QED BY <1>1, <1>7
<1> HIDE DEF iter
<1>9. iter[1 .. 0] = 0
  <2>1. 1 .. 0 = {} /\ {} \in Sets
    OBVIOUS
  <2> QED BY <1>8, <2>1
<1>10. \A k \in 1 .. n : iter[1 .. k] = iter[1 .. k - 1] + s[k].size
  <2> TAKE k \in 1 .. n
  <2>1. k \in Nat \ {0} /\ 1 .. k \in Sets /\ 1 .. k # {}
    BY <1>1
  <2>2. Max(1 .. k) = k /\ (1 .. k) \ {k} = 1 .. k - 1
    BY <2>1, MaxOfPrefix
  <2> QED BY <1>8, <2>1, <2>2
<1>11. \A k \in 0 .. n : iter[1 .. k] \in Nat
  <2> DEFINE N == {k \in Nat : k <= n => iter[1 .. k] \in Nat}
  <2>1. 0 \in N
    BY <1>9
  <2>2. \A k \in Nat : k \in N => k + 1 \in N
    <3> TAKE k \in Nat
    <3> HAVE k \in N
    <3> SUFFICES ASSUME k + 1 <= n PROVE iter[1 .. k + 1] \in Nat
      OBVIOUS
    <3>1. k + 1 \in 1 .. n /\ k <= n /\ (k + 1) - 1 = k
      BY <1>1
    <3>2. iter[1 .. k + 1] = iter[1 .. (k + 1) - 1] + s[k + 1].size
      BY <1>10, <3>1
    <3>3. iter[1 .. k] \in Nat /\ s[k + 1].size \in Nat
      BY <1>1, <3>1
    <3> QED BY <3>1, <3>2, <3>3
  <2> HIDE DEF N
  <2>3. \A k \in Nat : k \in N
    BY <2>1, <2>2, Induction
  <2> QED BY <1>1, <2>3 DEF N
<1> QED BY <1>9, <1>10, <1>11 DEF SizeTo, iter

(* When each of the fields has a byte, that many bytes are in them.        *)
LEMMA SizesGrow ==
  ASSUME NEW s, Sized(s), NEW m \in 0 .. Len(s), \A i \in 1 .. m : s[i].size >= 1
  PROVE  \A k \in 0 .. m : SizeTo(s, k) + (m - k) <= SizeTo(s, m)
<1> DEFINE N == {j \in Nat : j <= m => SizeTo(s, m - j) + j <= SizeTo(s, m)}
<1>1. Len(s) \in Nat /\ \A i \in 1 .. Len(s) : s[i].size \in Nat
  BY DEF Sized
<1>2. 0 \in N
  <2>1. SizeTo(s, m) \in Nat /\ m - 0 = m
    BY <1>1, Sizes
  <2> QED BY <2>1
<1>3. \A j \in Nat : j \in N => j + 1 \in N
  <2> TAKE j \in Nat
  <2> HAVE j \in N
  <2> SUFFICES ASSUME j + 1 <= m PROVE SizeTo(s, m - (j + 1)) + (j + 1) <= SizeTo(s, m)
    OBVIOUS
  <2> DEFINE k == m - j
  <2>1. k \in 1 .. Len(s) /\ k \in 1 .. m /\ k - 1 \in 0 .. Len(s) /\ m - (j + 1) = k - 1
    BY <1>1
  <2>2. SizeTo(s, k) = SizeTo(s, k - 1) + s[k].size
    BY <2>1, Sizes
  <2>3. SizeTo(s, k) \in Nat /\ SizeTo(s, k - 1) \in Nat /\ SizeTo(s, m) \in Nat
    BY <1>1, <2>1, Sizes
  <2>4. s[k].size \in Nat /\ s[k].size >= 1
    BY <1>1, <2>1
  <2>5. SizeTo(s, k) + j <= SizeTo(s, m)
    OBVIOUS
  <2> HIDE DEF k
  <2> QED BY <2>1, <2>2, <2>3, <2>4, <2>5
<1> HIDE DEF N
<1>4. \A j \in Nat : j \in N
  BY <1>2, <1>3, Induction
<1> SUFFICES ASSUME NEW k \in 0 .. m PROVE SizeTo(s, k) + (m - k) <= SizeTo(s, m)
  OBVIOUS
<1>5. m - k \in Nat /\ m - k <= m /\ m - (m - k) = k
  BY <1>1
<1> QED BY <1>4, <1>5 DEF N

-----------------------------------------------------------------------------
(* Layouts                                                                 *)

LEMMA Concatenated ==
  ASSUME NEW T, NEW s \in Seq(T), NEW t \in Seq(T)
  PROVE  /\ s \o t \in Seq(T)
         /\ Len(s \o t) = Len(s) + Len(t)
         /\ \A i \in 1 .. Len(s) : (s \o t)[i] = s[i]
         /\ \A i \in 1 .. Len(t) : (s \o t)[Len(s) + i] = t[i]
OBVIOUS

(* What is repeated is a sequence of one field, or of two.                 *)
Repeats(f, T, s, n) ==
  /\ Repeated(n, s) = f[n]
  /\ f[1] = s
  /\ \A i \in 1 .. n : f[i] \in Seq(T)
  /\ \A i \in 2 .. n : f[i] = f[i - 1] \o s

LEMMA RepeatsExists ==
  ASSUME NEW T, NEW s \in Seq(T), NEW n \in Nat \ {0}
  PROVE  \E f : Repeats(f, T, s, n)
<1> DEFINE seqs == [i \in 1 .. n |-> s]
           D == 1 .. n
           S == Seq(T)
           rank == [i \in D |-> i]
           down == [i \in D |-> IF i = 1 THEN i ELSE i - 1]
           base == [i \in D |-> seqs[i]]
           step == [ix \in D \X S |-> ix[2] \o seqs[ix[1]]]
           Step(f, i) == IF i = 1 THEN seqs[i] ELSE f[i - 1] \o seqs[i]
           fl == CHOOSE f : f = [i \in 1 .. Len(seqs) |-> Step(f, i)]
<1>1. seqs \in Seq(Seq(T)) /\ Len(seqs) = n /\ \A i \in D : seqs[i] = s
  OBVIOUS
<1>2. Repeated(n, s) = fl[Len(seqs)]
  BY <1>1 DEF Repeated, FlattenSeq
<1> HIDE DEF seqs
<1>3. rank \in [D -> Nat] /\ down \in [D -> D] /\ base \in [D -> S]
  BY <1>1
<1>4. step \in [D \X S -> S]
  <2> SUFFICES ASSUME NEW i \in D, NEW x \in S PROVE x \o seqs[i] \in S
    OBVIOUS
  <2> QED BY <1>1
<1>5. PICK f \in [D -> S] : Recurs(f, D, rank, down, base, step)
  <2> HIDE DEF D, S, rank, down, base, step
  <2> QED BY <1>3, <1>4, RecursionExists
<1>6. \A i \in D : f[i] = Step(f, i)
  <2> TAKE i \in D
  <2>1. f[i] = IF rank[down[i]] < rank[i] THEN step[<<i, f[down[i]]>>] ELSE base[i]
    BY <1>5 DEF Recurs
  <2>2. CASE i = 1
    BY <2>1, <2>2
  <2>3. CASE i # 1
    <3>1. down[i] = i - 1 /\ i - 1 \in D /\ rank[down[i]] < rank[i]
      BY <2>3
    <3>2. f[i] = step[<<i, f[i - 1]>>]
      BY <2>1, <3>1
    <3>3. f[i - 1] \in S
      BY <3>1
    <3>4. step[<<i, f[i - 1]>>] = f[i - 1] \o seqs[i]
      BY <3>3
    <3> QED BY <2>3, <3>2, <3>4
  <2> QED BY <2>2, <2>3
<1>7. f = [i \in 1 .. Len(seqs) |-> Step(f, i)]
  <2> HIDE DEF Step
  <2> QED BY <1>1, <1>6
<1>8. fl = [i \in 1 .. Len(seqs) |-> Step(fl, i)]
  <2>1. \E g : g = [i \in 1 .. Len(seqs) |-> Step(g, i)]
    BY <1>7
  <2> QED BY <2>1, Zenon
<1>9. \A i \in D : fl[i] = Step(fl, i)
  <2> HIDE DEF Step, fl
  <2> QED BY <1>1, <1>8
<1> HIDE DEF fl
<1>10. fl[1] = s
  BY <1>1, <1>9
<1>11. \A i \in 2 .. n : fl[i] = fl[i - 1] \o s
  <2> TAKE i \in 2 .. n
  <2>1. i \in D /\ i # 1
    OBVIOUS
  <2> QED BY <1>1, <1>9, <2>1
<1>12. \A i \in 1 .. n : fl[i] \in Seq(T)
  <2> DEFINE N == {i \in Nat : i + 1 <= n => fl[i + 1] \in Seq(T)}
  <2>1. 0 \in N
    BY <1>10
  <2>2. \A i \in Nat : i \in N => i + 1 \in N
    <3> TAKE i \in Nat
    <3> HAVE i \in N
    <3> SUFFICES ASSUME (i + 1) + 1 <= n PROVE fl[(i + 1) + 1] \in Seq(T)
      OBVIOUS
    <3> DEFINE j == (i + 1) + 1
    <3>1. j \in 2 .. n /\ j - 1 = i + 1 /\ fl[i + 1] \in Seq(T)
      OBVIOUS
    <3>2. fl[j] = fl[i + 1] \o s
      BY <1>11, <3>1
    <3> QED BY <3>1, <3>2
  <2> HIDE DEF N
  <2>3. \A i \in Nat : i \in N
    BY <2>1, <2>2, Induction
  <2> TAKE i \in 1 .. n
  <2>4. i - 1 \in Nat /\ (i - 1) + 1 = i
    OBVIOUS
  <2>5. i - 1 \in N
    BY <2>3, <2>4
  <2> QED BY <2>4, <2>5 DEF N
<1>13. Repeats(fl, T, s, n)
  BY <1>1, <1>2, <1>10, <1>11, <1>12 DEF Repeats
<1> QED BY <1>13

LEMMA RepeatedOne ==
  ASSUME NEW a, NEW n \in Nat \ {0}
  PROVE  /\ Repeated(n, <<a>>) \in Seq({a})
         /\ Len(Repeated(n, <<a>>)) = n
<1> DEFINE T == {a}
           s == <<a>>
<1>1. s \in Seq(T) /\ Len(s) = 1
  OBVIOUS
<1> HIDE DEF s, T
<1>2. PICK f : Repeats(f, T, s, n)
  BY <1>1, RepeatsExists
<1>3. /\ Repeated(n, s) = f[n]
      /\ f[1] = s
      /\ \A i \in 1 .. n : f[i] \in Seq(T)
      /\ \A i \in 2 .. n : f[i] = f[i - 1] \o s
  BY <1>2 DEF Repeats
<1> DEFINE N == {i \in Nat : i + 1 <= n => Len(f[i + 1]) = i + 1}
<1>4. 0 \in N
  BY <1>1, <1>3
<1>5. \A i \in Nat : i \in N => i + 1 \in N
  <2> TAKE i \in Nat
  <2> HAVE i \in N
  <2> SUFFICES ASSUME (i + 1) + 1 <= n PROVE Len(f[(i + 1) + 1]) = (i + 1) + 1
    OBVIOUS
  <2>1. /\ (i + 1) + 1 \in 2 .. n /\ ((i + 1) + 1) - 1 = i + 1
        /\ i + 1 \in 1 .. n /\ Len(f[i + 1]) = i + 1
    OBVIOUS
  <2>2. f[(i + 1) + 1] = f[i + 1] \o s /\ f[i + 1] \in Seq(T)
    BY <1>3, <2>1
  <2>3. Len(f[i + 1] \o s) = Len(f[i + 1]) + Len(s)
    BY <1>1, <2>2, Concatenated
  <2> QED BY <1>1, <2>1, <2>2, <2>3
<1> HIDE DEF N
<1>6. n - 1 \in N /\ (n - 1) + 1 = n
  BY <1>4, <1>5, Induction
<1>7. Len(f[n]) = n /\ f[n] \in Seq(T)
  BY <1>3, <1>6 DEF N
<1> QED BY <1>3, <1>7 DEF s, T

(* The fields a and b, n times.                                            *)
Alternates(t, a, b, n) ==
  /\ t \in Seq({a, b})
  /\ Len(t) = 2 * n
  /\ \A i \in 1 .. n : t[2 * i - 1] = a /\ t[2 * i] = b

LEMMA RepeatedTwo ==
  ASSUME NEW a, NEW b, NEW n \in Nat \ {0}
  PROVE  Alternates(Repeated(n, <<a, b>>), a, b, n)
<1> DEFINE T == {a, b}
           s == <<a, b>>
           Pairs(t, k) == /\ Len(t) = 2 * k
                          /\ \A j \in 1 .. k : t[2 * j - 1] = a /\ t[2 * j] = b
<1>1. s \in Seq(T) /\ Len(s) = 2 /\ s[1] = a /\ s[2] = b
  OBVIOUS
<1> HIDE DEF s, T
<1>2. PICK f : Repeats(f, T, s, n)
  BY <1>1, RepeatsExists
<1>3. /\ Repeated(n, s) = f[n]
      /\ f[1] = s
      /\ \A i \in 1 .. n : f[i] \in Seq(T)
      /\ \A i \in 2 .. n : f[i] = f[i - 1] \o s
  BY <1>2 DEF Repeats
<1> DEFINE N == {i \in Nat : i + 1 <= n => Pairs(f[i + 1], i + 1)}
<1>4. 0 \in N
  BY <1>1, <1>3
<1> HIDE DEF Pairs
<1>5. \A i \in Nat : i \in N => i + 1 \in N
  <2> TAKE i \in Nat
  <2> HAVE i \in N
  <2> SUFFICES ASSUME (i + 1) + 1 <= n PROVE Pairs(f[(i + 1) + 1], (i + 1) + 1)
    OBVIOUS
  <2> DEFINE k == i + 1
             t == f[k]
  <2>1. /\ k \in Nat /\ k + 1 \in 2 .. n /\ (k + 1) - 1 = k /\ k \in 1 .. n
        /\ Pairs(t, k)
    OBVIOUS
  <2>2. f[k + 1] = t \o s /\ t \in Seq(T)
    BY <1>3, <2>1
  <2> HIDE DEF t, k
  <2>3. /\ Len(t \o s) = Len(t) + Len(s)
        /\ \A j \in 1 .. Len(t) : (t \o s)[j] = t[j]
        /\ \A j \in 1 .. Len(s) : (t \o s)[Len(t) + j] = s[j]
    <3>1. s \in Seq(T) /\ t \in Seq(T)
      BY <1>1, <2>2
    <3> QED BY <3>1, Concatenated, SMT
  <2> USE DEF Pairs
  <2>4. Len(t \o s) = 2 * (k + 1)
    BY <1>1, <2>1, <2>3
  <2>5. \A j \in 1 .. k : (t \o s)[2 * j - 1] = t[2 * j - 1] /\ (t \o s)[2 * j] = t[2 * j]
    <3> TAKE j \in 1 .. k
    <3>1. 2 * j - 1 \in 1 .. Len(t) /\ 2 * j \in 1 .. Len(t)
      BY <2>1
    <3> QED BY <1>1, <2>3, <3>1
  <2>6. (t \o s)[2 * (k + 1) - 1] = a /\ (t \o s)[2 * (k + 1)] = b
    <3>1. 2 * (k + 1) - 1 = Len(t) + 1 /\ 2 * (k + 1) = Len(t) + 2
      BY <2>1
    <3> QED BY <1>1, <2>3, <3>1
  <2>7. \A j \in 1 .. k + 1 : j \in 1 .. k \/ j = k + 1
    BY <2>1
  <2>8. Pairs(t \o s, k + 1)
    BY <2>1, <2>4, <2>5, <2>6, <2>7
  <2> QED BY <2>2, <2>8 DEF k
<1> HIDE DEF N
<1>6. n - 1 \in N /\ (n - 1) + 1 = n
  BY <1>4, <1>5, Induction
<1> USE DEF Pairs
<1>7. Pairs(f[n], n) /\ f[n] \in Seq(T)
  BY <1>3, <1>6 DEF N
<1>8. Repeated(n, s) = f[n]
  BY <1>3
<1>9. Alternates(f[n], a, b, n)
  BY <1>7 DEF Alternates, T
<1> QED BY <1>8, <1>9 DEF s

-----------------------------------------------------------------------------
(* What the handlers read                                                  *)

(* What is left by a division, for any width of a word: the provers do not *)
(* compute with 2^16.                                                      *)
LEMMA Word ==
  ASSUME NEW n \in Nat \ {0}, NEW x \in Int
  PROVE  /\ x % n \in Nat /\ x % n < n
         /\ x >= 0 /\ x < n => x % n = x
<1>1. PICK q \in Int, r \in Nat : q = x \div n /\ r = x % n /\ r < n
  OBVIOUS
<1>2. x = n * q + r
  BY <1>1
<1>3. CASE q >= 1
  <2>1. n * q >= n
    BY <1>3
  <2> QED BY <1>1, <1>2, <2>1
<1>4. CASE q <= -1
  <2>1. n * q <= -n
    BY <1>4
  <2> QED BY <1>1, <1>2, <2>1
<1>5. CASE q = 0
  BY <1>1, <1>2, <1>5
<1> QED BY <1>3, <1>4, <1>5

LEMMA WordSize == 2^16 \in Nat \ {0} /\ 2 + 2^16 + 2^16 + 2 < 128 * 128 * 128
OBVIOUS

(***************************************************************************)
(* The field that the handler of a packet reads as the k-th, as long as    *)
(* each was the one it took it for; "end" behind the last of them.         *)
(***************************************************************************)
Will(flags) == IF "will" \in flags THEN 2 ELSE 0

ConnectReads(flags, k) ==
  IF k = 1 THEN "protocol_name"
  ELSE IF k = 2 THEN "protocol_level"
  ELSE IF k = 3 THEN "connect_flags"
  ELSE IF k = 4 THEN "keepalive"
  ELSE IF k = 5 THEN "client_id"
  ELSE IF "will" \in flags /\ k = 6 THEN "will_topic"
  ELSE IF "will" \in flags /\ k = 7 THEN "will_msg"
  ELSE IF "username" \in flags /\ k = 6 + Will(flags) THEN "username"
  ELSE IF "username" \in flags /\ k = 7 + Will(flags) THEN "password"
  ELSE "end"

PublishReads(qos, k) ==
  IF k = 1 THEN "topic"
  ELSE IF qos > 0 /\ k = 2 THEN "packet_id"
  ELSE IF k = (IF qos > 0 THEN 3 ELSE 2) THEN "content"
  ELSE "end"

TopicsReads(type, n, k) ==
  IF k > n THEN "end"
  ELSE IF k = 1 THEN "packet_id"
  ELSE IF type = "SUBSCRIBE" /\ k % 2 = 1 THEN "topic_qos"
  ELSE "topic"

Topical == {"SUBSCRIBE", "UNSUBSCRIBE"}

Reads(p, k) ==
  IF p.type = "CONNECT" THEN ConnectReads(p.payload[3].val, k)
  ELSE IF p.type = "PUBLISH" THEN PublishReads(p.qos, k)
  ELSE IF p.type \in Topical THEN TopicsReads(p.type, Len(p.payload), k)
  ELSE IF p.type \in Acks /\ k = 1 THEN "packet_id" ELSE "end"

(* The k-th field is what the handler takes it for.                        *)
Fits(field, name) ==
  /\ name # "end"
  /\ field.kind = Kind(name)
  /\ name # "content" => field.size >= 1

(* The only packet whose handler goes on behind the last field.            *)
NoPassword(p) ==
  p.type = "CONNECT" /\ {"username", "password"} \cap p.payload[3].val = {"username"}

(* What a layout says of the values and the sizes, for each type.          *)
ConnectLayout(p) ==
  /\ p.qos = 0 /\ Len(p.payload) >= 5
  /\ p.payload[1].val.mqtt \in BOOLEAN
  /\ p.payload[2].val \in 0 .. 255
  /\ p.payload[3].val \in Flags

String(s) == IsString(s) /\ s.len < 2^16

PublishLayout(p) ==
  LET n == Len(p.payload) IN
  /\ n = IF p.qos > 0 THEN 3 ELSE 2
  /\ String(p.payload[1].val) /\ p.payload[1].size = 2 + p.payload[1].val.len
  /\ p.qos > 0 => p.payload[2].size = 2
  /\ IsString(p.payload[n].val) /\ p.payload[n].size = p.payload[n].val.len

SubscribeLayout(p) ==
  LET n == Len(p.payload) IN
  /\ p.payload[1].size = 2
  /\ n >= 1
  /\ p.type = "SUBSCRIBE" => n % 2 = 1

(* The layout of a packet: as many fields as its handler reads, each of    *)
(* them what the handler takes it for.                                     *)
Layout(p) ==
  LET n == Len(p.payload) IN
  /\ Sized(p.payload)
  /\ p.qos \in 0 .. 3
  /\ \A k \in 1 .. n : Fits(p.payload[k], Reads(p, k))
  /\ Reads(p, n + 1) = "end" \/ NoPassword(p)
  /\ p.type = "CONNECT" => ConnectLayout(p)
  /\ p.type = "PUBLISH" => PublishLayout(p)
  /\ p.type \in Topical => SubscribeLayout(p)

LEMMA StrFits ==
  ASSUME NEW s, IsString(s), NEW name,
         name \in {"protocol_name", "client_id", "will_topic", "will_msg", "username",
                   "password", "topic"}
  PROVE  Str(s).size \in Nat /\ Fits(Str(s), name)
<1>1. s.len \in Nat
  BY DEF IsString
<1> QED BY <1>1 DEF Str, Fits, Kind

LEMMA NumberFits ==
  ASSUME NEW v
  PROVE  /\ U8(v).size = 1 /\ U16.size = 2
         /\ \A name \in {"protocol_level", "connect_flags", "topic_qos"} : Fits(U8(v), name)
         /\ \A name \in {"keepalive", "packet_id"} : Fits(U16, name)
BY DEF U8, U16, Fits, Kind

LEMMA AckLayout ==
  ASSUME NEW type \in Acks
  PROVE  Layout(Packet(type, 0, <<U16>>))
<1> DEFINE p == Packet(type, 0, <<U16>>)
<1>1. p.type = type /\ p.qos = 0 /\ p.payload = <<U16>>
  BY DEF Packet
<1>2. Len(p.payload) = 1 /\ p.payload[1] = U16 /\ DOMAIN p.payload = 1 .. 1
  BY <1>1
<1>3. Reads(p, 1) = "packet_id" /\ Reads(p, 1 + 1) = "end"
  BY <1>1 DEF Reads, Acks, Topical
<1>4. Sized(p.payload)
  BY <1>2, NumberFits DEF Sized
<1>5. p.type \notin {"CONNECT", "PUBLISH"} \cup Topical
  BY <1>1 DEF Acks, Topical
<1> HIDE DEF p
<1>6. \A k \in 1 .. 1 : Fits(p.payload[k], Reads(p, k))
  BY <1>2, <1>3, NumberFits
<1>7. Layout(p)
  BY <1>1, <1>2, <1>3, <1>4, <1>5, <1>6 DEF Layout
<1> QED BY <1>7 DEF p

LEMMA EmptyLayout ==
  ASSUME NEW type \in {"PINGREQ", "DISCONNECT", "CONNACK", "INVALID"}
  PROVE  Layout(Packet(type, 0, <<>>))
<1> DEFINE p == Packet(type, 0, <<>>)
<1>1. p.type = type /\ p.qos = 0 /\ p.payload = <<>>
  BY DEF Packet
<1>2. Len(p.payload) = 0 /\ DOMAIN p.payload = 1 .. 0
  BY <1>1
<1>3. Reads(p, 0 + 1) = "end"
  BY <1>1 DEF Reads, Acks, Topical
<1>4. Sized(p.payload)
  BY <1>2 DEF Sized
<1>5. p.type \notin {"CONNECT", "PUBLISH"} \cup Topical
  BY <1>1 DEF Topical
<1> HIDE DEF p
<1> QED BY <1>1, <1>2, <1>3, <1>4, <1>5 DEF Layout, p

LEMMA PublishFits ==
  ASSUME NEW q \in 0 .. 3, NEW s, String(s), NEW content, IsString(content)
  PROVE  Layout(Packet("PUBLISH", q, <<Str(s)>> \o If(q > 0, <<U16>>) \o <<Rest(content)>>))
<1> DEFINE p == Packet("PUBLISH", q, <<Str(s)>> \o If(q > 0, <<U16>>) \o <<Rest(content)>>)
           n == IF q > 0 THEN 3 ELSE 2
<1>1. p.type = "PUBLISH" /\ p.qos = q
  BY DEF Packet
<1>2. p.payload = IF q > 0 THEN <<Str(s), U16, Rest(content)>> ELSE <<Str(s), Rest(content)>>
  <2>1. p.payload = <<Str(s)>> \o If(q > 0, <<U16>>) \o <<Rest(content)>>
    BY DEF Packet
  <2>2. CASE q > 0
    BY <2>1, <2>2 DEF If
  <2>3. CASE ~ (q > 0)
    BY <2>1, <2>3 DEF If
  <2> QED BY <2>2, <2>3
<1>3. /\ Len(p.payload) = n /\ DOMAIN p.payload = 1 .. n
      /\ p.payload[1] = Str(s) /\ p.payload[n] = Rest(content)
      /\ q > 0 => p.payload[2] = U16
  <2> HIDE DEF p
  <2>1. CASE q > 0
    <3>1. p.payload = <<Str(s), U16, Rest(content)>> /\ n = 3
      BY <1>2, <2>1
    <3> HIDE DEF n
    <3> QED BY <3>1
  <2>2. CASE ~ (q > 0)
    <3>1. p.payload = <<Str(s), Rest(content)>> /\ n = 2
      BY <1>2, <2>2
    <3> HIDE DEF n
    <3> QED BY <2>2, <3>1
  <2> QED BY <2>1, <2>2
<1> HIDE DEF p
<1>4. /\ Str(s).size = 2 + s.len /\ Str(s).val = s /\ s.len \in Nat
      /\ Rest(content).size = content.len /\ Rest(content).val = content
      /\ content.len \in Nat /\ U16.size = 2
  BY DEF Str, Rest, U16, IsString, String
<1>5. /\ Fits(Str(s), "topic") /\ Fits(U16, "packet_id") /\ Fits(Rest(content), "content")
  BY StrFits, NumberFits DEF Fits, Rest, Kind, String
<1>6. Sized(p.payload)
  BY <1>3, <1>4 DEF Sized
<1>7. Reads(p, 1) = "topic" /\ Reads(p, n) = "content" /\ Reads(p, n + 1) = "end"
      /\ (q > 0 => Reads(p, 2) = "packet_id")
  BY <1>1 DEF Reads, PublishReads
<1>8. \A k \in 1 .. n : Fits(p.payload[k], Reads(p, k))
  <2>1. \A k \in 1 .. n : k = 1 \/ k = n \/ (k = 2 /\ q > 0)
    OBVIOUS
  <2> QED BY <1>3, <1>5, <1>7, <2>1
<1>9. PublishLayout(p)
  BY <1>1, <1>3, <1>4 DEF PublishLayout, String
<1>10. Layout(p)
  BY <1>1, <1>3, <1>6, <1>7, <1>8, <1>9 DEF Layout, Topical
<1> QED BY <1>10 DEF p

LEMMA SubscribeFits ==
  ASSUME NEW q \in 0 .. 3, NEW s, String(s), NEW n \in Nat \ {0}
  PROVE  Layout(Packet("SUBSCRIBE", 1, <<U16>> \o Repeated(n, <<Str(s), U8(q)>>)))
<1> DEFINE r == Repeated(n, <<Str(s), U8(q)>>)
           T == {U16, Str(s), U8(q)}
           p == Packet("SUBSCRIBE", 1, <<U16>> \o r)
<1>1. p.type = "SUBSCRIBE" /\ p.qos = 1 /\ p.payload = <<U16>> \o r
  BY DEF Packet
<1>2. /\ r \in Seq({Str(s), U8(q)}) /\ Len(r) = 2 * n
      /\ \A i \in 1 .. n : r[2 * i - 1] = Str(s) /\ r[2 * i] = U8(q)
  <2>1. Alternates(r, Str(s), U8(q), n)
    BY RepeatedTwo
  <2> HIDE DEF r
  <2> QED BY <2>1 DEF Alternates
<1> HIDE DEF r, p
<1>3. r \in Seq(T) /\ <<U16>> \in Seq(T)
  BY <1>2
<1> HIDE DEF T
<1>4. /\ Len(p.payload) = 1 + 2 * n
      /\ p.payload[1] = U16
      /\ \A i \in 1 .. 2 * n : p.payload[1 + i] = r[i]
      /\ DOMAIN p.payload = 1 .. Len(p.payload)
  <2>1. /\ <<U16>> \o r \in Seq(T)
        /\ Len(<<U16>> \o r) = Len(<<U16>>) + Len(r)
        /\ \A i \in 1 .. Len(<<U16>>) : (<<U16>> \o r)[i] = <<U16>>[i]
        /\ \A i \in 1 .. Len(r) : (<<U16>> \o r)[Len(<<U16>>) + i] = r[i]
    BY <1>3, Concatenated, SMT
  <2>2. Len(<<U16>>) = 1 /\ <<U16>>[1] = U16
    OBVIOUS
  <2> QED BY <1>1, <1>2, <2>1, <2>2
<1> DEFINE m == Len(p.payload)
<1>5. /\ p.payload[1] = U16
      /\ \A k \in 2 .. m : /\ k % 2 = 0 => p.payload[k] = Str(s)
                           /\ k % 2 = 1 => p.payload[k] = U8(q)
  <2> SUFFICES ASSUME NEW k \in 2 .. m
               PROVE  /\ k % 2 = 0 => p.payload[k] = Str(s)
                      /\ k % 2 = 1 => p.payload[k] = U8(q)
    BY <1>4
  <2>1. p.payload[k] = r[k - 1]
    <3>1. k - 1 \in 1 .. 2 * n /\ 1 + (k - 1) = k
      BY <1>4
    <3> QED BY <1>4, <3>1
  <2>2. PICK j \in Int : j = k \div 2 /\ k = 2 * j + (k % 2)
    BY <1>4
  <2>3. ASSUME k % 2 = 0 PROVE r[k - 1] = Str(s)
    <3>1. k - 1 = 2 * j - 1 /\ j \in 1 .. n
      BY <1>4, <2>2, <2>3
    <3> QED BY <1>2, <3>1
  <2>4. ASSUME k % 2 = 1 PROVE r[k - 1] = U8(q)
    <3>1. k - 1 = 2 * j /\ j \in 1 .. n
      BY <1>4, <2>2, <2>4
    <3> QED BY <1>2, <3>1
  <2> QED BY <2>1, <2>3, <2>4
<1>6. m \in Nat /\ m >= 1 /\ m % 2 = 1
  BY <1>4
<1>7. \A k \in 1 .. m : k % 2 \in {0, 1} /\ (k = 1 \/ k \in 2 .. m)
  BY <1>6
<1>8. /\ Fits(U16, "packet_id") /\ Fits(Str(s), "topic") /\ Fits(U8(q), "topic_qos")
      /\ U16.size = 2 /\ Str(s).size \in Nat /\ U8(q).size = 1
  BY StrFits, NumberFits DEF String
<1>9. \A k \in 1 .. m : Reads(p, k) = IF k = 1 THEN "packet_id"
                                      ELSE IF k % 2 = 1 THEN "topic_qos" ELSE "topic"
  BY <1>1, <1>6 DEF Reads, TopicsReads, Topical
<1> HIDE DEF m
<1>10. \A k \in 1 .. m : Fits(p.payload[k], Reads(p, k)) /\ p.payload[k].size \in Nat
  <2> TAKE k \in 1 .. m
  <2>1. CASE k = 1
    BY <1>5, <1>8, <1>9, <2>1
  <2>2. CASE k # 1 /\ k % 2 = 1
    BY <1>5, <1>7, <1>8, <1>9, <2>2
  <2>3. CASE k # 1 /\ k % 2 = 0
    BY <1>5, <1>7, <1>8, <1>9, <2>3
  <2> QED BY <1>7, <2>1, <2>2, <2>3
<1>11. Reads(p, m + 1) = "end"
  BY <1>1, <1>6 DEF Reads, TopicsReads, Topical, m
<1>12. Sized(p.payload)
  BY <1>4, <1>6, <1>10 DEF Sized, m
<1>13. SubscribeLayout(p)
  BY <1>5, <1>6, <1>8 DEF SubscribeLayout, m
<1>14. Layout(p)
  BY <1>1, <1>10, <1>11, <1>12, <1>13 DEF Layout, m
<1> QED BY <1>14 DEF p, r

LEMMA UnsubscribeFits ==
  ASSUME NEW s, String(s), NEW n \in Nat \ {0}
  PROVE  Layout(Packet("UNSUBSCRIBE", 1, <<U16>> \o Repeated(n, <<Str(s)>>)))
<1> DEFINE r == Repeated(n, <<Str(s)>>)
           T == {U16, Str(s)}
           p == Packet("UNSUBSCRIBE", 1, <<U16>> \o r)
<1>1. p.type = "UNSUBSCRIBE" /\ p.qos = 1 /\ p.payload = <<U16>> \o r
  BY DEF Packet
<1>2. r \in Seq({Str(s)}) /\ Len(r) = n
  BY RepeatedOne
<1> HIDE DEF r, p
<1>3. r \in Seq(T) /\ <<U16>> \in Seq(T) /\ \A i \in 1 .. n : r[i] = Str(s)
  BY <1>2
<1> HIDE DEF T
<1>4. /\ Len(p.payload) = 1 + n
      /\ p.payload[1] = U16
      /\ \A i \in 1 .. n : p.payload[1 + i] = Str(s)
      /\ DOMAIN p.payload = 1 .. Len(p.payload)
  <2>1. /\ <<U16>> \o r \in Seq(T)
        /\ Len(<<U16>> \o r) = Len(<<U16>>) + Len(r)
        /\ \A i \in 1 .. Len(<<U16>>) : (<<U16>> \o r)[i] = <<U16>>[i]
        /\ \A i \in 1 .. Len(r) : (<<U16>> \o r)[Len(<<U16>>) + i] = r[i]
    BY <1>3, Concatenated, SMT
  <2>2. Len(<<U16>>) = 1 /\ <<U16>>[1] = U16
    OBVIOUS
  <2> QED BY <1>1, <1>2, <1>3, <2>1, <2>2
<1> DEFINE m == Len(p.payload)
<1>5. \A k \in 2 .. m : p.payload[k] = Str(s)
  <2> TAKE k \in 2 .. m
  <2>1. k - 1 \in 1 .. n /\ 1 + (k - 1) = k
    BY <1>4
  <2> QED BY <1>4, <2>1
<1>6. m \in Nat /\ m >= 1 /\ \A k \in 1 .. m : k = 1 \/ k \in 2 .. m
  BY <1>4
<1>7. /\ Fits(U16, "packet_id") /\ Fits(Str(s), "topic")
      /\ U16.size = 2 /\ Str(s).size \in Nat
  BY StrFits, NumberFits DEF String
<1>8. \A k \in 1 .. m : Reads(p, k) = IF k = 1 THEN "packet_id" ELSE "topic"
  BY <1>1, <1>6 DEF Reads, TopicsReads, Topical
<1> HIDE DEF m
<1>9. \A k \in 1 .. m : Fits(p.payload[k], Reads(p, k)) /\ p.payload[k].size \in Nat
  BY <1>4, <1>5, <1>6, <1>7, <1>8
<1>10. Reads(p, m + 1) = "end"
  BY <1>1, <1>6 DEF Reads, TopicsReads, Topical, m
<1>11. Sized(p.payload)
  BY <1>4, <1>6, <1>9 DEF Sized, m
<1>12. SubscribeLayout(p)
  BY <1>1, <1>4, <1>6, <1>7 DEF SubscribeLayout, m
<1>13. Layout(p)
  BY <1>1, <1>9, <1>10, <1>11, <1>12 DEF Layout, m
<1> QED BY <1>13 DEF p, r

(* A CONNECT: four fields, and then strings.                               *)
Header(s, a, b, c, d, e) ==
  /\ s \in Seq({a, b, c, d, e})
  /\ Len(s) >= 5
  /\ s[1] = a /\ s[2] = b /\ s[3] = c /\ s[4] = d
  /\ \A i \in 5 .. Len(s) : s[i] = e

(* Sequences of one field, repeated.                                       *)
Alike(e) == Seq({e})

LEMMA OnlyIf ==
  ASSUME NEW e, NEW t \in Alike(e), NEW x
  PROVE  /\ If(x, t) \in Alike(e)
         /\ x => Len(If(x, t)) = Len(t)
         /\ ~ x => Len(If(x, t)) = 0
<1>1. CASE x
  BY <1>1 DEF If
<1>2. CASE ~ x
  <2>1. If(x, t) = <<>>
    BY <1>2 DEF If
  <2> QED BY <1>2, <2>1 DEF Alike
<1> QED BY <1>1, <1>2

LEMMA HeaderGrows ==
  ASSUME NEW a, NEW b, NEW c, NEW d, NEW e, NEW s, Header(s, a, b, c, d, e),
         NEW u \in Alike(e)
  PROVE  Header(s \o u, a, b, c, d, e) /\ Len(s \o u) = Len(s) + Len(u)
<1> DEFINE T == {a, b, c, d, e}
<1>1. /\ s \in Seq(T) /\ Len(s) >= 5 /\ Len(s) \in Nat
      /\ s[1] = a /\ s[2] = b /\ s[3] = c /\ s[4] = d
      /\ \A i \in 5 .. Len(s) : s[i] = e
  BY DEF Header
<1>2. u \in Seq(T) /\ Len(u) \in Nat /\ \A i \in 1 .. Len(u) : u[i] = e
  BY DEF Alike
<1> HIDE DEF T
<1>3. /\ s \o u \in Seq(T)
      /\ Len(s \o u) = Len(s) + Len(u)
      /\ \A i \in 1 .. Len(s) : (s \o u)[i] = s[i]
      /\ \A i \in 1 .. Len(u) : (s \o u)[Len(s) + i] = u[i]
  <2>1. s \in Seq(T) /\ u \in Seq(T)
    BY <1>1, <1>2
  <2> QED BY <2>1, Concatenated, SMT
<1>4. \A i \in 5 .. Len(s \o u) : (s \o u)[i] = e
  <2> TAKE i \in 5 .. Len(s \o u)
  <2>1. CASE i <= Len(s)
    BY <1>1, <1>3, <2>1
  <2>2. CASE i > Len(s)
    <3>1. i - Len(s) \in 1 .. Len(u) /\ Len(s) + (i - Len(s)) = i
      BY <1>1, <1>2, <1>3, <2>2
    <3> QED BY <1>2, <1>3, <3>1
  <2> QED BY <1>1, <2>1, <2>2
<1>5. 1 \in 1 .. Len(s) /\ 2 \in 1 .. Len(s) /\ 3 \in 1 .. Len(s) /\ 4 \in 1 .. Len(s)
  BY <1>1
<1>6. Len(s \o u) >= 5
  BY <1>1, <1>2, <1>3
<1>7. Header(s \o u, a, b, c, d, e)
  BY <1>1, <1>3, <1>4, <1>5, <1>6 DEF Header, T
<1> QED BY <1>3, <1>7

LEMMA ConnectFits ==
  ASSUME NEW name, String(name), NEW level \in 0 .. 255, NEW flags \in Flags,
         NEW s, String(s)
  PROVE  Layout(Packet("CONNECT", 0,
           <<Str(name), U8(level), U8(flags), U16, Str(s)>>
             \o If("will" \in flags, <<Str(s), Str(s)>>)
             \o If("username" \in flags, <<Str(s)>>)
             \o If("password" \in flags, <<Str(s)>>)))
<1> DEFINE h == <<Str(name), U8(level), U8(flags), U16, Str(s)>>
           a == Str(name)
           b == U8(level)
           c == U8(flags)
           e == Str(s)
           wills == If("will" \in flags, <<e, e>>)
           user == If("username" \in flags, <<e>>)
           pass == If("password" \in flags, <<e>>)
           w == h \o wills
           u == w \o user
           z == u \o pass
           W == IF "will" \in flags THEN 2 ELSE 0
           U == IF "username" \in flags THEN 1 ELSE 0
           P == IF "password" \in flags THEN 1 ELSE 0
           p == Packet("CONNECT", 0, z)
           n == 5 + W + U + P
<1>1. p.type = "CONNECT" /\ p.qos = 0 /\ p.payload = z
  BY DEF Packet
<1>2. Header(h, a, b, c, U16, e) /\ Len(h) = 5
  <2> HIDE DEF a, b, c, e
  <2>1. h = <<a, b, c, U16, e>>
    BY DEF a, b, c, e
  <2> HIDE DEF h
  <2> QED BY <2>1 DEF Header
<1>3. /\ <<e, e>> \in Alike(e) /\ Len(<<e, e>>) = 2
      /\ <<e>> \in Alike(e) /\ Len(<<e>>) = 1
  BY DEF Alike
<1>4. /\ wills \in Alike(e) /\ Len(wills) = W
      /\ user \in Alike(e) /\ Len(user) = U
      /\ pass \in Alike(e) /\ Len(pass) = P
  <2> HIDE DEF e
  <2> QED BY <1>3, OnlyIf, Zenon
<1> HIDE DEF wills, user, pass
<1> HIDE DEF a, b, c, e, h, p
<1>5. Header(w, a, b, c, U16, e) /\ Len(w) = Len(h) + W
  <2>1. Header(h \o wills, a, b, c, U16, e) /\ Len(h \o wills) = Len(h) + Len(wills)
    <3>1. Header(h, a, b, c, U16, e) /\ wills \in Alike(e)
      BY <1>2, <1>4
    <3> QED BY <3>1, HeaderGrows, SMT
  <2> HIDE DEF W
  <2> QED BY <1>4, <2>1 DEF w
<1> HIDE DEF w
<1>6. Header(u, a, b, c, U16, e) /\ Len(u) = Len(w) + U
  <2>1. Header(w \o user, a, b, c, U16, e) /\ Len(w \o user) = Len(w) + Len(user)
    <3>1. Header(w, a, b, c, U16, e) /\ user \in Alike(e)
      BY <1>4, <1>5
    <3> QED BY <3>1, HeaderGrows, SMT
  <2> HIDE DEF U
  <2> QED BY <1>4, <2>1 DEF u
<1> HIDE DEF u
<1>7. Header(z, a, b, c, U16, e) /\ Len(z) = Len(u) + P
  <2>1. Header(u \o pass, a, b, c, U16, e) /\ Len(u \o pass) = Len(u) + Len(pass)
    <3>1. Header(u, a, b, c, U16, e) /\ pass \in Alike(e)
      BY <1>4, <1>6
    <3> QED BY <3>1, HeaderGrows, SMT
  <2> HIDE DEF P
  <2> QED BY <1>4, <2>1 DEF z
<1> HIDE DEF z
<1>8. /\ Len(p.payload) = n /\ DOMAIN p.payload = 1 .. n
      /\ p.payload[1] = a /\ p.payload[2] = b /\ p.payload[3] = c /\ p.payload[4] = U16
      /\ \A i \in 5 .. n : p.payload[i] = e
  <2>1. Len(p.payload) = n
    BY <1>1, <1>2, <1>5, <1>6, <1>7
  <2> HIDE DEF n
  <2> QED BY <1>1, <1>7, <2>1 DEF Header
<1>9. n \in 5 .. 9 /\ \A k \in 1 .. n : k \in {1, 2, 3, 4} \/ k \in 5 .. n
  OBVIOUS
<1>10. /\ a.size \in Nat /\ b.size = 1 /\ c.size = 1 /\ U16.size = 2 /\ e.size \in Nat
       /\ Fits(a, "protocol_name") /\ Fits(b, "protocol_level") /\ Fits(c, "connect_flags")
       /\ Fits(U16, "keepalive")
       /\ \A f \in {"client_id", "will_topic", "will_msg", "username", "password"} : Fits(e, f)
  BY StrFits, NumberFits DEF a, b, c, e, String
<1>11. a.val = name /\ b.val = level /\ c.val = flags
  BY DEF a, b, c, Str, U8
<1>12. \A k \in Int : Reads(p, k) = ConnectReads(flags, k)
  BY <1>1, <1>8, <1>11 DEF Reads
<1>13. Sized(p.payload)
  <2> HIDE DEF n
  <2> QED BY <1>8, <1>9, <1>10 DEF Sized
<1>14. /\ ConnectReads(flags, 1) = "protocol_name" /\ ConnectReads(flags, 2) = "protocol_level"
       /\ ConnectReads(flags, 3) = "connect_flags" /\ ConnectReads(flags, 4) = "keepalive"
  BY DEF ConnectReads
<1>15. "password" \in flags => "username" \in flags
  BY DEF Flags
<1>16. \A k \in 5 .. n : ConnectReads(flags, k)
                           \in {"client_id", "will_topic", "will_msg", "username", "password"}
  <2> TAKE k \in 5 .. n
  <2>1. CASE k = 5
    BY <2>1 DEF ConnectReads
  <2>2. CASE "will" \in flags /\ k \in {6, 7}
    BY <2>2 DEF ConnectReads
  <2>3. CASE k > 5 + W
    <3>1. k \in {6 + W, 7 + W} /\ "username" \in flags
      BY <1>15, <2>3
    <3> QED BY <3>1 DEF ConnectReads, Will
  <2> QED BY <2>1, <2>2, <2>3
<1>17. \A k \in 1 .. n : Fits(p.payload[k], Reads(p, k))
  <2> TAKE k \in 1 .. n
  <2>1. CASE k \in 5 .. n
    <3> HIDE DEF n
    <3> QED BY <1>8, <1>10, <1>12, <1>16, <2>1
  <2>2. CASE k \in {1, 2, 3, 4}
    <3> HIDE DEF n
    <3> QED BY <1>8, <1>10, <1>12, <1>14, <2>2
  <2> HIDE DEF n
  <2> QED BY <1>9, <2>1, <2>2
<1>18. Reads(p, n + 1) = "end" \/ NoPassword(p)
  <2>1. Reads(p, n + 1) = ConnectReads(flags, n + 1)
    BY <1>12
  <2>2. CASE "username" \in flags /\ "password" \notin flags
    <3>1. {"username", "password"} \cap flags = {"username"}
      BY <2>2
    <3> QED BY <1>1, <1>8, <1>11, <3>1 DEF NoPassword
  <2>3. CASE "username" \in flags /\ "password" \in flags
    <3>1. n + 1 = 8 + W
      BY <2>3
    <3> QED BY <2>1, <3>1 DEF ConnectReads, Will
  <2>4. CASE "username" \notin flags
    <3>1. n + 1 = 6 + W
      BY <1>15, <2>4
    <3> QED BY <2>1, <2>4, <3>1 DEF ConnectReads, Will
  <2> QED BY <2>2, <2>3, <2>4
<1>19. ConnectLayout(p)
  <2>1. name.mqtt \in BOOLEAN
    BY DEF String, IsString
  <2> HIDE DEF n
  <2> QED BY <1>1, <1>8, <1>9, <1>11, <2>1 DEF ConnectLayout
<1>20. Layout(p)
  <2> HIDE DEF n
  <2> QED BY <1>1, <1>8, <1>13, <1>17, <1>18, <1>19 DEF Layout, Topical
<1> QED BY <1>20 DEF p, z, u, w, wills, user, pass, h, a, b, c, e

(* The layout of every packet.                                             *)
LEMMA PacketLayout ==
  ASSUME NEW p \in Packets
  PROVE  Layout(p)
<1>1. /\ \A s \in Names \cup Strings : String(s)
      /\ \A s \in Contents : IsString(s)
      /\ Levels \subseteq 0 .. 255 /\ Topics \subseteq Nat \ {0}
  BY ReaderAssumption DEF String
<1>2. CASE p \in Connects
  <2>1. PICK name \in Names, level \in Levels, f \in Flags, s \in Strings :
          p = Packet("CONNECT", 0,
                <<Str(name), U8(level), U8(f), U16, Str(s)>>
                  \o If("will" \in f, <<Str(s), Str(s)>>)
                  \o If("username" \in f, <<Str(s)>>) \o If("password" \in f, <<Str(s)>>))
    BY <1>2 DEF Connects
  <2>2. String(name) /\ String(s) /\ level \in 0 .. 255
    BY <1>1
  <2> QED BY <2>1, <2>2, ConnectFits
<1>3. CASE p \in Publications
  <2>1. PICK q \in 0 .. 3, s \in Strings, content \in Contents :
          p = Packet("PUBLISH", q, <<Str(s)>> \o If(q > 0, <<U16>>) \o <<Rest(content)>>)
    BY <1>3 DEF Publications
  <2>2. String(s) /\ IsString(content)
    BY <1>1
  <2> QED BY <2>1, <2>2, PublishFits
<1>4. CASE p \in Requests
  <2>1. CASE \E n \in Topics, s \in Strings, q \in 0 .. 3 :
               p = Packet("SUBSCRIBE", 1, <<U16>> \o Repeated(n, <<Str(s), U8(q)>>))
    <3>1. PICK n \in Topics, s \in Strings, q \in 0 .. 3 :
            p = Packet("SUBSCRIBE", 1, <<U16>> \o Repeated(n, <<Str(s), U8(q)>>))
      BY <2>1, Zenon
    <3>2. String(s) /\ n \in Nat \ {0}
      BY <1>1
    <3> QED BY <3>1, <3>2, SubscribeFits
  <2>2. CASE \E n \in Topics, s \in Strings :
               p = Packet("UNSUBSCRIBE", 1, <<U16>> \o Repeated(n, <<Str(s)>>))
    <3>1. PICK n \in Topics, s \in Strings :
            p = Packet("UNSUBSCRIBE", 1, <<U16>> \o Repeated(n, <<Str(s)>>))
      BY <2>2, Zenon
    <3>2. String(s) /\ n \in Nat \ {0}
      BY <1>1
    <3> QED BY <3>1, <3>2, UnsubscribeFits
  <2> QED BY <1>4, <2>1, <2>2 DEF Requests
<1>5. CASE p \in {Packet(type, 0, <<U16>>) : type \in Acks}
  BY <1>5, AckLayout
<1>6. CASE p \in {Packet(type, 0, <<>>) : type \in {"PINGREQ", "DISCONNECT", "CONNACK", "INVALID"}}
  BY <1>6, EmptyLayout
<1> QED BY <1>2, <1>3, <1>4, <1>5, <1>6, Zenon DEF Packets

-----------------------------------------------------------------------------
(* The state of a call                                                     *)

(* The cursor stands behind the fields that were taken; a content of 2^16  *)
(* bytes or more puts it elsewhere, and is the last.                       *)
Cursor ==
  LET n == Len(packet.payload) IN
  /\ taken \in 0 .. n
  /\ "content" \in DOMAIN seen <=> packet.type = "PUBLISH" /\ taken = n
  /\ ("content" \in DOMAIN seen => packet.payload[n].size < 2^16)
       => load_pos = SizeTo(packet.payload, taken)

(* What later tests look at is what was in the fields.                     *)
Values ==
  LET n == Len(packet.payload) IN
  /\ packet.type = "CONNECT" /\ taken >= 3 =>
       /\ "connect_flags" \in DOMAIN seen
       /\ seen["connect_flags"] = packet.payload[3].val
  /\ packet.type = "PUBLISH" /\ taken >= 1 =>
       "topic" \in DOMAIN seen /\ seen["topic"] = packet.payload[1].val
  /\ packet.type = "PUBLISH" /\ taken = n =>
       seen["content"].text
         = Shorter(packet.payload[n].val.text, packet.payload[n].size % 2^16)

(* The tests a CONNECT has passed by the field it is at.                   *)
Passed ==
  /\ taken >= 1 => packet.payload[1].val.mqtt
  /\ taken >= 2 => ~ InvalidLevel(packet.payload[2].val)
  /\ taken >= 3 => "reserved" \notin packet.payload[3].val

(* The stages: before the handler, in it, and at each of its ends.         *)
Unread ==
  /\ taken = 0 /\ load_pos = 0 /\ seen = NoValues
  /\ reply = NONE /\ session = "CS_WAIT_FOR_CONNECT"

Handling ==
  /\ Cursor /\ Values /\ (packet.type = "CONNECT" => Passed)
  /\ next = Reads(packet, taken + 1)
  /\ reply = NONE /\ session = "CS_WAIT_FOR_CONNECT"

Accepted ==
  /\ Cursor /\ Values /\ taken = Len(packet.payload)
  /\ reply # Refusal
  /\ packet.type = "CONNECT" =>
       Passed /\ session = "CS_CONNECTING" /\ reply = Out("CONNACK", 0, 0)

Refused ==
  /\ packet.type = "CONNECT" /\ reply = Refusal /\ session = "CS_WAIT_FOR_CONNECT"
  /\ packet.payload[1].val.mqtt /\ InvalidLevel(packet.payload[2].val)

Closed ==
  /\ reply = NONE /\ session = "CS_WAIT_FOR_CONNECT"
  /\ packet.type = "CONNECT" /\ packet.payload[1].val.mqtt =>
       /\ ~ InvalidLevel(packet.payload[2].val)
       /\ "reserved" \in packet.payload[3].val

(* What is written fits what is allocated, and what can be read; a reply   *)
(* is no larger than what it answers.                                      *)
ManyTopics == packet.type = "SUBSCRIBE" /\ TopicsOf(packet) >= CounterMod

ReplyFits ==
  reply # NONE =>
    /\ stage = "overrun" <=> ManyTopics
    /\ stage # "overrun" => reply.load_pos = reply.remain_len
    /\ reply.remain_len \in Nat /\ reply.remain_len < 128 * 128 * 128
    /\ stage = "handled" => reply.remain_len <= 2 \/ reply.remain_len <= remainlen_value

PacketInv ==
  /\ packet \in Packets \cup {NONE}
  /\ packet # NONE => Follows(Written(Size(packet)))

StageInv ==
  /\ stage # "read" => phase = "load" /\ packet # NONE
  /\ stage = "read" => Unread
  /\ stage = "handle" => Handling
  /\ stage \in Answered => Accepted \/ Refused
  /\ stage = "closed" => Closed
  /\ stage = "failed" => reply = NONE
  /\ stage = "astray" => reply = NONE /\ NoPassword(packet)
  /\ stage = "overrun" => reply # NONE

(* The inductive invariant.                                                *)
ReaderInv ==
  LengthInv /\ PacketInv /\ StageInv /\ ReplyFits /\ AbortsOnlyOversize /\ ForwardedWhole

(* What has been read for the length is the size of the packet.            *)
LEMMA Loaded ==
  ASSUME LengthInv, PacketInv, packet # NONE
  PROVE  /\ packet \in Packets /\ Layout(packet) /\ Sized(packet.payload)
         /\ Len(packet.payload) \in Nat
         /\ Size(packet) = SizeTo(packet.payload, Len(packet.payload))
         /\ Size(packet) \in Nat
         /\ phase = "load" => remainlen_value = Size(packet) /\ Size(packet) < 128 * 128 * 128
<1>1. packet \in Packets /\ Layout(packet) /\ Sized(packet.payload)
  BY PacketLayout DEF PacketInv, Layout
<1>2. Len(packet.payload) \in Nat
  BY <1>1 DEF Sized
<1>3. Size(packet) = SizeTo(packet.payload, Len(packet.payload)) /\ Size(packet) \in Nat
  BY <1>1, <1>2, SizeIs, Sizes
<1>4. Follows(Written(Size(packet)))
  BY DEF PacketInv
<1> QED BY <1>1, <1>2, <1>3, <1>4, PrefixReads

LEMMA ReaderInitInv == ReaderInit => ReaderInv
<1> SUFFICES ASSUME ReaderInit PROVE ReaderInv
  OBVIOUS
<1>1. LengthInv
  BY ReaderInitLength
<1>2. PacketInv
  <2>1. ASSUME packet # NONE PROVE Follows(Written(Size(packet)))
    <3>1. packet \in Packets
      BY <2>1 DEF ReaderInit
    <3>2. Sized(packet.payload)
      BY <3>1, PacketLayout DEF Layout
    <3>3. Size(packet) \in Nat
      BY <3>2, SizeIs, Sizes DEF Sized
    <3>4. Written(Size(packet)) \in Seq(Digits)
      BY <3>3, WrittenRecursion
    <3> QED BY <3>4 DEF ReaderInit, Init, Follows
  <2> QED BY <2>1 DEF ReaderInit, PacketInv
<1>3. StageInv
  BY DEF ReaderInit, StageInv, Unread, Answered
<1> QED BY <1>1, <1>2, <1>3 DEF ReaderInit, ReaderInv, ReplyFits, AbortsOnlyOversize, ForwardedWhole

(* A step behind the length leaves alone what was read for it.             *)
LEMMA Kept ==
  ASSUME LengthInv, PacketInv, UNCHANGED <<vars, packet>>
  PROVE  LengthInv' /\ PacketInv'
<1>1. UNCHANGED <<vars, packet, phase, bytes, remainlen_value, multiplier>>
  BY DEF vars
<1>2. LengthInv'
  BY <1>1, UnreadLength
<1>3. PacketInv'
  BY <1>1 DEF PacketInv, Follows
<1> QED BY <1>2, <1>3

LEMMA ReadLengthInv ==
  ASSUME ReaderInv, NEW b \in 0 .. 255, ReadLength(b)
  PROVE  ReaderInv'
<1>1. /\ phase = "length" /\ ReadByte(b)
      /\ packet # NONE => b = Written(Size(packet))[Len(bytes) + 1]
      /\ UNCHANGED <<debug, packet, stage, handling, reply, session>>
  BY DEF ReadLength
<1>2. UNCHANGED <<next, taken, load_pos, seen>>
  BY <1>1 DEF handling
<1>3. LengthInv'
  BY <1>1, ReadByteLength DEF ReaderInv, Digits
<1>4. PacketInv'
  <2>1. ASSUME packet # NONE PROVE Follows(Written(Size(packet)))'
    <3> DEFINE w == Written(Size(packet))
    <3>1. Follows(w) /\ Size(packet) \in Nat
      BY <2>1, Loaded DEF ReaderInv, PacketInv
    <3>2. w \in Seq(Digits) /\ Len(bytes) < Len(w)
      BY <1>1, <3>1, PrefixReads, WrittenRecursion DEF ReaderInv
    <3>3. w' = w
      BY <1>1
    <3>4. bytes' = Append(bytes, b) /\ bytes \in Seq(Digits) /\ b = w[Len(bytes) + 1]
      BY <1>1, <2>1 DEF ReadByte, ReaderInv, LengthInv
    <3> HIDE DEF w
    <3>5. Len(bytes') = Len(bytes) + 1 /\ bytes'[Len(bytes) + 1] = b
          /\ \A i \in 1 .. Len(bytes) : bytes'[i] = bytes[i]
      BY <3>4 DEF Digits
    <3>6. Len(bytes') <= Len(w) /\ \A i \in 1 .. Len(bytes') : bytes'[i] = w[i]
      BY <3>1, <3>2, <3>4, <3>5 DEF Follows
    <3>7. (Follows(w))'
      BY <3>3, <3>6 DEF Follows
    <3> QED BY <3>7 DEF w
  <2> QED BY <1>1, <2>1 DEF ReaderInv, PacketInv
<1>5. stage = "read"
  BY <1>1 DEF ReaderInv, StageInv
<1>6. stage' = "read" /\ Unread'
  BY <1>1, <1>2, <1>5 DEF ReaderInv, StageInv, Unread
<1>7. StageInv' /\ ReplyFits' /\ AbortsOnlyOversize' /\ ForwardedWhole'
  BY <1>6 DEF StageInv, ReplyFits, AbortsOnlyOversize, ForwardedWhole, Answered, Unread
<1> QED BY <1>3, <1>4, <1>7 DEF ReaderInv

LEMMA LengthFailsInv ==
  ASSUME ReaderInv, LengthFails
  PROVE  ReaderInv'
<1>1. /\ phase = "length" /\ ReadFails
      /\ UNCHANGED <<bytes, debug, packet, stage, handling, reply, session>>
  BY DEF LengthFails, ReadFails
<1>2. UNCHANGED <<next, taken, load_pos, seen>>
  BY <1>1 DEF handling
<1>3. LengthInv'
  BY <1>1, ReadFailsLength DEF ReaderInv
<1>4. PacketInv'
  BY <1>1 DEF ReaderInv, PacketInv, Follows
<1>5. stage = "read"
  BY <1>1 DEF ReaderInv, StageInv
<1>6. stage' = "read" /\ Unread'
  BY <1>1, <1>2, <1>5 DEF ReaderInv, StageInv, Unread
<1>7. StageInv' /\ ReplyFits' /\ AbortsOnlyOversize' /\ ForwardedWhole'
  BY <1>6 DEF StageInv, ReplyFits, AbortsOnlyOversize, ForwardedWhole, Answered, Unread
<1> QED BY <1>3, <1>4, <1>7 DEF ReaderInv

LEMMA LoadInv ==
  ASSUME ReaderInv, Load
  PROVE  ReaderInv'
<1>1. /\ phase = "load" /\ stage = "read" /\ packet # NONE
      /\ UNCHANGED <<vars, debug, packet, taken, load_pos, seen, reply, session>>
      /\ UNCHANGED <<phase, remainlen_value>>
  BY DEF Load, vars
<1>2. /\ taken = 0 /\ load_pos = 0 /\ seen = NoValues
      /\ reply = NONE /\ session = "CS_WAIT_FOR_CONNECT"
  BY <1>1 DEF ReaderInv, StageInv, Unread
<1>3. LengthInv' /\ PacketInv'
  BY <1>1, Kept DEF ReaderInv
<1>4. stage' \in {"aborted", "failed", "closed", "handle"}
  BY DEF Load
<1>5. Layout(packet) /\ Sized(packet.payload)
  BY <1>1, Loaded DEF ReaderInv
<1>6. ASSUME stage' = "handle" PROVE Handling'
  <2> DEFINE n == Len(packet.payload)
  <2>1. n \in Nat /\ SizeTo(packet.payload, 0) = 0
    BY <1>5, Sizes DEF Sized
  <2>2. DOMAIN seen = {}
    BY <1>2 DEF NoValues
  <2>3. packet.type = "PUBLISH" => n >= 1
    BY <1>5 DEF Layout, PublishLayout
  <2>4. Cursor'
    BY <1>1, <1>2, <2>1, <2>2, <2>3 DEF Cursor
  <2>5. Values' /\ Passed'
    BY <1>1, <1>2, <2>1, <2>3 DEF Values, Passed
  <2>6. next' = First
    BY <1>6 DEF Load
  <2>7. First = Reads(packet, 0 + 1)
    <3>1. packet.type \in Topical => n >= 1
      BY <1>5 DEF Layout, SubscribeLayout
    <3> HIDE DEF n
    <3> QED BY <2>1, <3>1 DEF First, Reads, ConnectReads, PublishReads, TopicsReads, Topical, Acks, n
  <2> QED BY <1>1, <1>2, <2>4, <2>5, <2>6, <2>7 DEF Handling
<1>7. ASSUME stage' = "closed" PROVE Closed'
  <2>1. packet.type # "CONNECT"
    <3>1. packet.qos > 2 \/ packet.type = "DISCONNECT"
      BY <1>7 DEF Load
    <3> QED BY <1>5, <3>1 DEF Layout, ConnectLayout
  <2> QED BY <1>1, <1>2, <2>1 DEF Closed
<1>8. StageInv'
  BY <1>1, <1>2, <1>4, <1>6, <1>7 DEF StageInv, Answered
<1>9. AbortsOnlyOversize'
  <2>1. stage' = "aborted" => TooLarge(remainlen_value)
    BY DEF Load
  <2>2. remainlen_value \in Nat
    BY <1>1, Loaded DEF ReaderInv
  <2> QED BY <1>1, <2>1, <2>2 DEF AbortsOnlyOversize, TooLarge
<1>10. ReplyFits' /\ ForwardedWhole'
  BY <1>1, <1>2, <1>4 DEF ReplyFits, ForwardedWhole
<1> QED BY <1>3, <1>8, <1>9, <1>10 DEF ReaderInv

LEMMA LoadFailsInv ==
  ASSUME ReaderInv, LoadFails
  PROVE  ReaderInv'
<1>1. /\ phase = "load" /\ stage = "read" /\ packet # NONE /\ stage' = "failed"
      /\ UNCHANGED <<vars, debug, packet, reply, phase>>
  BY DEF LoadFails, vars
<1>2. reply = NONE
  BY <1>1 DEF ReaderInv, StageInv, Unread
<1>3. LengthInv' /\ PacketInv'
  BY <1>1, Kept DEF ReaderInv
<1>4. StageInv' /\ ReplyFits' /\ AbortsOnlyOversize' /\ ForwardedWhole'
  BY <1>1, <1>2 DEF StageInv, ReplyFits, AbortsOnlyOversize, ForwardedWhole, Answered
<1> QED BY <1>3, <1>4 DEF ReaderInv

-----------------------------------------------------------------------------
(* One field after the other                                               *)

LEMMA ConnectNames ==
  ASSUME NEW flags, NEW k \in Nat \ {0}
  PROVE  /\ ConnectReads(flags, k) = "protocol_name" <=> k = 1
         /\ ConnectReads(flags, k) = "protocol_level" <=> k = 2
         /\ ConnectReads(flags, k) = "connect_flags" <=> k = 3
         /\ ConnectReads(flags, k) \notin {"content", "topic_qos", "topic"}
BY DEF ConnectReads

LEMMA ConnectAfter ==
  ASSUME NEW flags, NEW k \in Nat \ {0}, ConnectReads(flags, k) # "end",
         NEW known, k >= 3 => known = flags
  PROVE  AfterConnect(ConnectReads(flags, k), known) = ConnectReads(flags, k + 1)
<1>1. CASE k \in {1, 2, 3, 4}
  BY <1>1 DEF ConnectReads, AfterConnect
<1>2. CASE k = 5
  <2>1. ConnectReads(flags, k) = "client_id"
    BY <1>2 DEF ConnectReads
  <2>2. CASE "will" \in flags
    <3>1. AfterConnect("client_id", flags) = "will_topic"
      BY <2>2 DEF AfterConnect
    <3>2. ConnectReads(flags, k + 1) = "will_topic"
      BY <1>2, <2>2 DEF ConnectReads
    <3> QED BY <1>2, <2>1, <3>1, <3>2
  <2>3. CASE "will" \notin flags /\ "username" \in flags
    BY <1>2, <2>1, <2>3 DEF ConnectReads, AfterConnect, Will
  <2>4. CASE "will" \notin flags /\ "username" \notin flags
    BY <1>2, <2>1, <2>4 DEF ConnectReads, AfterConnect, Will
  <2> QED BY <2>2, <2>3, <2>4
<1>3. CASE k >= 6 /\ "will" \in flags
  <2>1. k \in {6, 7, 8, 9}
    BY <1>3 DEF ConnectReads, Will
  <2> QED BY <1>3, <2>1 DEF ConnectReads, AfterConnect, Will
<1>4. CASE k >= 6 /\ "will" \notin flags
  <2>1. k \in {6, 7}
    BY <1>4 DEF ConnectReads, Will
  <2> QED BY <1>4, <2>1 DEF ConnectReads, AfterConnect, Will
<1> QED BY <1>1, <1>2, <1>3, <1>4

LEMMA FieldNames ==
  ASSUME NEW p, Layout(p), NEW k \in 1 .. Len(p.payload), Len(p.payload) \in Nat
  PROVE  /\ Reads(p, k) = "content" <=> p.type = "PUBLISH" /\ k = Len(p.payload)
         /\ p.type = "PUBLISH" => (Reads(p, k) = "topic" <=> k = 1)
         /\ Reads(p, k) = "protocol_name" <=> p.type = "CONNECT" /\ k = 1
         /\ Reads(p, k) = "protocol_level" <=> p.type = "CONNECT" /\ k = 2
         /\ Reads(p, k) = "connect_flags" <=> p.type = "CONNECT" /\ k = 3
         /\ Reads(p, k) = "topic_qos" => p.type = "SUBSCRIBE"
<1>1. CASE p.type = "CONNECT"
  <2>1. Reads(p, k) = ConnectReads(p.payload[3].val, k)
    BY <1>1 DEF Reads
  <2>2. k \in Nat \ {0}
    OBVIOUS
  <2> QED BY <1>1, <2>1, <2>2, ConnectNames
<1>2. CASE p.type = "PUBLISH"
  <2>1. Reads(p, k) = PublishReads(p.qos, k) /\ p.qos \in 0 .. 3
        /\ Len(p.payload) = IF p.qos > 0 THEN 3 ELSE 2
    BY <1>2 DEF Reads, Layout, PublishLayout
  <2> QED BY <1>2, <2>1 DEF PublishReads
<1>3. CASE p.type \in Topical
  <2>1. Reads(p, k) = TopicsReads(p.type, Len(p.payload), k)
    BY <1>3 DEF Reads, Topical
  <2> QED BY <1>3, <2>1 DEF TopicsReads, Topical
<1>4. CASE p.type \notin {"CONNECT", "PUBLISH"} \cup Topical
  <2>1. Reads(p, k) \in {"packet_id", "end"}
    BY <1>4 DEF Reads
  <2> QED BY <1>4, <2>1 DEF Topical
<1> QED BY <1>1, <1>2, <1>3, <1>4

(* The handler goes on to the field behind the one it has read.            *)
LEMMA AfterReads ==
  ASSUME Layout(packet), NEW k \in 1 .. Len(packet.payload), Len(packet.payload) \in Nat,
         NEW values, NEW pos,
         packet.type = "CONNECT" /\ k >= 3 => values["connect_flags"] = packet.payload[3].val,
         packet.type \in Topical => (pos < remainlen_value <=> k < Len(packet.payload))
  PROVE  After(Reads(packet, k), values, pos) = Reads(packet, k + 1)
<1> DEFINE n == Len(packet.payload)
<1>1. CASE packet.type = "CONNECT"
  <2> DEFINE f == packet.payload[3].val
             name == ConnectReads(f, k)
             known == IF name \in {"protocol_name", "protocol_level"} THEN {}
                      ELSE values["connect_flags"]
  <2>1. /\ Reads(packet, k) = name /\ Reads(packet, k + 1) = ConnectReads(f, k + 1)
        /\ After(name, values, pos) = AfterConnect(name, known)
    BY <1>1 DEF Reads, After
  <2>2. name # "end"
    <3>1. Fits(packet.payload[k], Reads(packet, k))
      BY DEF Layout
    <3> QED BY <2>1, <3>1 DEF Fits
  <2>3. k \in Nat \ {0}
    OBVIOUS
  <2>4. k >= 3 => name \notin {"protocol_name", "protocol_level"}
    BY <2>3, ConnectNames
  <2>5. k >= 3 => known = f
    BY <1>1, <2>4
  <2> HIDE DEF name, known, f
  <2>6. AfterConnect(name, known) = ConnectReads(f, k + 1)
    BY <2>2, <2>3, <2>5, ConnectAfter DEF name
  <2> QED BY <2>1, <2>6
<1>2. CASE packet.type = "PUBLISH"
  <2>1. /\ Reads(packet, k) = PublishReads(packet.qos, k) /\ packet.qos \in 0 .. 3
        /\ Reads(packet, k + 1) = PublishReads(packet.qos, k + 1)
        /\ n = IF packet.qos > 0 THEN 3 ELSE 2
    BY <1>2 DEF Reads, Layout, PublishLayout
  <2>2. After(Reads(packet, k), values, pos) = AfterPublish(Reads(packet, k))
    BY <1>2 DEF After
  <2> QED BY <1>2, <2>1, <2>2 DEF PublishReads, AfterPublish
<1>3. CASE packet.type \in Topical
  <2> DEFINE name == TopicsReads(packet.type, n, k)
  <2>1. /\ Reads(packet, k) = name
        /\ Reads(packet, k + 1) = TopicsReads(packet.type, n, k + 1)
        /\ packet.type = "SUBSCRIBE" => n % 2 = 1
    BY <1>3 DEF Reads, Topical, Layout, SubscribeLayout
  <2>2. After(name, values, pos) = AfterTopics(name, pos)
    BY <1>3 DEF After, Topical
  <2>3. k \in Nat /\ k >= 1 /\ k <= n
    OBVIOUS
  <2>4. CASE name = "topic" /\ packet.type = "SUBSCRIBE"
    <3>1. k # 1 /\ k % 2 # 1
      BY <2>3, <2>4 DEF TopicsReads
    <3>2. k < n /\ (k + 1) % 2 = 1
      <4> HIDE DEF n
      <4>1. k % 2 = 0 /\ (k + 1) % 2 = 1
        BY <2>3, <3>1
      <4>2. n % 2 = 1
        BY <2>1, <2>4
      <4>3. k # n
        BY <4>1, <4>2
      <4>4. k <= n /\ n \in Nat
        BY DEF n
      <4> QED BY <2>3, <4>1, <4>3, <4>4
    <3>3. TopicsReads(packet.type, n, k + 1) = "topic_qos"
      BY <2>3, <2>4, <3>2 DEF TopicsReads
    <3>4. AfterTopics(name, pos) = "topic_qos"
      BY <2>4 DEF AfterTopics
    <3> QED BY <2>1, <2>2, <3>3, <3>4
  <2>5. CASE (name # "topic" \/ packet.type # "SUBSCRIBE") /\ k < n
    <3>1. pos < remainlen_value
      BY <1>3, <2>5
    <3>2. AfterTopics(name, pos) = "topic"
      BY <2>5, <3>1 DEF AfterTopics
    <3>3. packet.type = "SUBSCRIBE" => (k + 1) % 2 # 1
      <4>1. packet.type = "SUBSCRIBE" => k = 1 \/ k % 2 = 1
        BY <2>3, <2>5 DEF TopicsReads
      <4> QED BY <2>3, <4>1
    <3>4. TopicsReads(packet.type, n, k + 1) = "topic"
      BY <2>3, <2>5, <3>3 DEF TopicsReads
    <3> QED BY <2>1, <2>2, <3>2, <3>4
  <2>6. CASE (name # "topic" \/ packet.type # "SUBSCRIBE") /\ ~ (k < n)
    <3>1. ~ (pos < remainlen_value)
      BY <1>3, <2>6
    <3>2. AfterTopics(name, pos) = "end"
      BY <2>6, <3>1 DEF AfterTopics
    <3>3. TopicsReads(packet.type, n, k + 1) = "end"
      BY <2>3, <2>6 DEF TopicsReads
    <3> QED BY <2>1, <2>2, <3>2, <3>3
  <2> QED BY <2>4, <2>5, <2>6
<1>4. CASE packet.type \notin {"CONNECT", "PUBLISH"} \cup Topical
  <2>1. After(Reads(packet, k), values, pos) = "end"
    BY <1>4 DEF After, Topical
  <2>2. Reads(packet, k + 1) = "end"
    BY <1>4 DEF Reads
  <2> QED BY <2>1, <2>2
<1> QED BY <1>1, <1>2, <1>3, <1>4

(* What reading the field that is expected does to the cursor and to the   *)
(* values.                                                                 *)
Taken(k) ==
  LET field == packet.payload[k] IN
  /\ taken' = k
  /\ load_pos' = load_pos + Bytes(field)
  /\ seen' = With(seen, Reads(packet, k), Value(field))

LEMMA TakenInv ==
  ASSUME LengthInv, PacketInv, packet # NONE, phase = "load", Cursor, Values,
         taken < Len(packet.payload), NEW k, k = taken + 1, Taken(k),
         UNCHANGED packet
  PROVE  /\ Cursor' /\ Values'
         /\ packet.payload[k].kind # "rest" => Value(packet.payload[k]) = packet.payload[k].val
         /\ packet.type # "PUBLISH" => load_pos' = SizeTo(packet.payload, k)
<1> DEFINE n == Len(packet.payload)
           s == packet.payload
           field == s[k]
           name == Reads(packet, k)
<1>1. /\ Layout(packet) /\ Sized(s) /\ n \in Nat /\ k \in 1 .. n /\ taken = k - 1
      /\ remainlen_value = SizeTo(s, n)
  BY Loaded DEF Cursor
<1>2. /\ SizeTo(s, k) = SizeTo(s, k - 1) + field.size
      /\ SizeTo(s, k) \in Nat /\ SizeTo(s, k - 1) \in Nat /\ field.size \in Nat
  <2>1. k \in 0 .. n /\ k - 1 \in 0 .. n /\ field.size \in Nat
    BY <1>1 DEF Sized
  <2>2. SizeTo(s, k) \in Nat /\ SizeTo(s, k - 1) \in Nat
    BY <1>1, <2>1, Sizes
  <2> QED BY <1>1, <2>1, <2>2, Sizes
<1>3. /\ taken' = k /\ load_pos' = load_pos + Bytes(field)
      /\ seen' = With(seen, name, Value(field))
  BY DEF Taken
<1>4. /\ DOMAIN seen' = DOMAIN seen \cup {name}
      /\ seen'[name] = Value(field)
      /\ \A g \in DOMAIN seen : g # name => seen'[g] = seen[g]
  <2> HIDE DEF name, field
  <2> DEFINE v == Value(field)
  <2>1. seen' = With(seen, name, v)
    BY <1>3
  <2> HIDE DEF v
  <2>2. /\ DOMAIN seen' = DOMAIN seen \cup {name}
        /\ seen'[name] = v
        /\ \A g \in DOMAIN seen : g # name => seen'[g] = seen[g]
    BY <2>1 DEF With
  <2> QED BY <2>2 DEF v
<1>5. /\ name = "content" <=> packet.type = "PUBLISH" /\ k = n
      /\ packet.type = "PUBLISH" => (name = "topic" <=> k = 1)
      /\ name = "connect_flags" <=> packet.type = "CONNECT" /\ k = 3
  BY <1>1, FieldNames
<1>6. field.kind = Kind(name)
  BY <1>1 DEF Layout, Fits
<1>7. field.kind = "rest" <=> name = "content"
  BY <1>6 DEF Kind
<1>8. "content" \notin DOMAIN seen /\ load_pos = SizeTo(s, k - 1)
  <2>1. taken # n
    BY <1>1
  <2> QED BY <1>1, <2>1 DEF Cursor
<1>9. ASSUME field.kind # "rest" PROVE Value(field) = field.val /\ Bytes(field) = field.size
  BY <1>9 DEF Value, Bytes
<1>10. ASSUME field.kind = "rest"
       PROVE  /\ Bytes(field) = field.size % 2^16
              /\ Value(field).text = Shorter(field.val.text, field.size % 2^16)
  <2>1. k = n /\ packet.type = "PUBLISH"
    BY <1>5, <1>7, <1>10
  <2>2. RemainLength = field.size % 2^16
    <3>1. remainlen_value - load_pos = field.size
      BY <1>1, <1>2, <1>8, <2>1
    <3> QED BY <3>1 DEF RemainLength
  <2>3. field.val \in [len : Nat, text : Nat, mqtt : BOOLEAN]
    BY <1>1, <2>1 DEF Layout, PublishLayout, IsString
  <2> HIDE DEF field
  <2>4. Value(field) = [field.val EXCEPT !.len = RemainLength,
                                         !.text = Shorter(@, RemainLength)]
    BY <1>10 DEF Value
  <2>5. Value(field).text = Shorter(field.val.text, RemainLength)
    BY <2>3, <2>4
  <2> QED BY <1>10, <2>2, <2>5 DEF Bytes
<1> HIDE DEF field, name
<1>11. ASSUME "content" \in DOMAIN seen' => s[n].size < 2^16
       PROVE  load_pos' = SizeTo(s, k)
  <2>1. CASE field.kind # "rest"
    BY <1>2, <1>3, <1>8, <1>9, <2>1
  <2>2. CASE field.kind = "rest"
    <3>1. k = n /\ field.size < 2^16
      BY <1>4, <1>5, <1>7, <1>11, <2>2 DEF field
    <3>2. field.size % 2^16 = field.size
      <4>1. 2^16 \in Nat \ {0}
        BY WordSize
      <4> QED BY <1>2, <3>1, <4>1, Word
    <3> QED BY <1>2, <1>3, <1>8, <1>10, <2>2, <3>2
  <2> QED BY <2>1, <2>2
<1>12. "content" \in DOMAIN seen' <=> packet.type = "PUBLISH" /\ k = n
  BY <1>4, <1>5, <1>8
<1>13. Cursor'
  BY <1>1, <1>3, <1>11, <1>12 DEF Cursor
<1>14. Values'
  <2>1. ASSUME packet.type = "CONNECT", k >= 3
        PROVE  "connect_flags" \in DOMAIN seen' /\ seen'["connect_flags"] = s[3].val
    <3>1. CASE k = 3
      <4>1. name = "connect_flags" /\ field.kind # "rest" /\ field = s[3]
        BY <1>5, <1>7, <2>1, <3>1 DEF field
      <4> QED BY <1>4, <1>9, <4>1
    <3>2. CASE k # 3
      <4>1. name # "connect_flags" /\ taken >= 3
        BY <1>1, <1>5, <2>1, <3>2
      <4>2. "connect_flags" \in DOMAIN seen /\ seen["connect_flags"] = s[3].val
        BY <2>1, <4>1 DEF Values
      <4> QED BY <1>4, <4>1, <4>2
    <3> QED BY <3>1, <3>2
  <2>2. ASSUME packet.type = "PUBLISH"
        PROVE  "topic" \in DOMAIN seen' /\ seen'["topic"] = s[1].val
    <3>1. CASE k = 1
      <4>1. n >= 2
        BY <1>1, <2>2 DEF Layout, PublishLayout
      <4>2. name = "topic" /\ field.kind # "rest" /\ field = s[1]
        BY <1>5, <1>7, <2>2, <3>1, <4>1 DEF field
      <4> QED BY <1>4, <1>9, <4>2
    <3>2. CASE k # 1
      <4>1. name # "topic" /\ taken >= 1
        BY <1>1, <1>5, <2>2, <3>2
      <4>2. "topic" \in DOMAIN seen /\ seen["topic"] = s[1].val
        BY <2>2, <4>1 DEF Values
      <4> QED BY <1>4, <4>1, <4>2
    <3> QED BY <3>1, <3>2
  <2>3. ASSUME packet.type = "PUBLISH", k = n
        PROVE  seen'["content"].text = Shorter(s[n].val.text, s[n].size % 2^16)
    <3>1. name = "content" /\ field.kind = "rest" /\ field = s[n]
      BY <1>5, <1>7, <2>3 DEF field
    <3> QED BY <1>4, <1>10, <3>1
  <2> QED BY <1>3, <2>1, <2>2, <2>3 DEF Values
<1>15. packet.type # "PUBLISH" => load_pos' = SizeTo(s, k)
  BY <1>11, <1>12
<1> QED BY <1>9, <1>13, <1>14, <1>15 DEF field

LEMMA ReadFieldInv ==
  ASSUME ReaderInv, ReadField
  PROVE  ReaderInv'
<1> DEFINE n == Len(packet.payload)
           k == taken + 1
           field == packet.payload[k]
           v == Value(field)
<1>1. /\ stage = "handle" /\ next # "end"
      /\ UNCHANGED <<vars, packet, session, debug, phase, remainlen_value>>
  BY DEF ReadField, vars
<1>2. /\ LengthInv /\ PacketInv /\ packet # NONE /\ phase = "load" /\ Handling
      /\ LengthInv' /\ PacketInv'
  BY <1>1, Kept DEF ReaderInv, StageInv
<1>3. /\ Layout(packet) /\ Sized(packet.payload) /\ n \in Nat /\ taken \in 0 .. n
      /\ remainlen_value = SizeTo(packet.payload, n)
      /\ next = Reads(packet, k) /\ reply = NONE /\ session = "CS_WAIT_FOR_CONNECT"
  BY <1>2, Loaded DEF Handling, Cursor
<1>4. taken < n => field.kind = Kind(next) /\ k \in 1 .. n
  BY <1>3 DEF Layout, Fits
<1>5. CASE ~ (taken < n)
  <2>1. stage' = "astray" /\ UNCHANGED reply
    BY <1>5 DEF ReadField
  <2>2. NoPassword(packet)
    <3>1. k = n + 1
      BY <1>3, <1>5
    <3> QED BY <1>1, <1>3, <3>1 DEF Layout
  <2>3. NoPassword(packet)'
    BY <1>1, <2>2 DEF NoPassword
  <2>4. StageInv' /\ ReplyFits' /\ AbortsOnlyOversize' /\ ForwardedWhole'
    BY <1>1, <1>2, <1>3, <2>1, <2>3
       DEF StageInv, ReplyFits, AbortsOnlyOversize, ForwardedWhole, Answered
  <2> QED BY <1>2, <2>4 DEF ReaderInv
<1>6. CASE taken < n
  <2>1. /\ taken' = k
        /\ load_pos' = load_pos + Bytes(field)
        /\ seen' = With(seen, next, v)
        /\ \/ Closes(next, v) /\ stage' = "closed" /\ UNCHANGED <<next, reply>>
           \/ /\ next = "protocol_level" /\ InvalidLevel(v)
              /\ stage' = "handled" /\ reply' = Refusal /\ UNCHANGED next
           \/ /\ ~ Closes(next, v)
              /\ ~ (next = "protocol_level" /\ InvalidLevel(v))
              /\ next' = After(next, seen', load_pos')
              /\ UNCHANGED <<stage, reply>>
    BY <1>4, <1>6 DEF ReadField
  <2>2. Taken(k)
    BY <1>3, <2>1 DEF Taken
  <2>3. /\ Cursor' /\ Values'
        /\ field.kind # "rest" => v = field.val
        /\ packet.type # "PUBLISH" => load_pos' = SizeTo(packet.payload, k)
    BY <1>1, <1>2, <1>6, <2>2, TakenInv DEF Handling
  <2>4. /\ next = "protocol_name" <=> packet.type = "CONNECT" /\ k = 1
        /\ next = "protocol_level" <=> packet.type = "CONNECT" /\ k = 2
        /\ next = "connect_flags" <=> packet.type = "CONNECT" /\ k = 3
        /\ next = "topic_qos" => packet.type = "SUBSCRIBE"
    BY <1>3, <1>4, <1>6, FieldNames
  <2>5. next \in {"protocol_name", "protocol_level", "connect_flags"} => v = field.val
    BY <1>4, <1>6, <2>3 DEF Kind
  <2>6. packet.type = "CONNECT" => Passed
    BY <1>2 DEF Handling
  <2> HIDE DEF v
  <2>7. CASE Closes(next, v) /\ stage' = "closed" /\ UNCHANGED <<next, reply>>
    <3>1. ASSUME packet.type = "CONNECT", packet.payload[1].val.mqtt
          PROVE  /\ ~ InvalidLevel(packet.payload[2].val)
                 /\ "reserved" \in packet.payload[3].val
      <4>1. ~ (next = "protocol_name" /\ ~ v.mqtt)
        BY <2>4, <2>5, <3>1
      <4>2. next = "connect_flags" /\ "reserved" \in v
        BY <2>4, <2>7, <3>1, <4>1 DEF Closes
      <4>3. k = 3 /\ taken = 2 /\ v = packet.payload[3].val
        BY <1>3, <2>4, <2>5, <4>2
      <4> QED BY <2>6, <3>1, <4>2, <4>3 DEF Passed
    <3>2. Closed'
      BY <1>1, <1>3, <2>7, <3>1 DEF Closed, InvalidLevel, SignedLevel
    <3>3. StageInv' /\ ReplyFits' /\ AbortsOnlyOversize' /\ ForwardedWhole'
      BY <1>1, <1>2, <1>3, <2>7, <3>2
         DEF StageInv, ReplyFits, AbortsOnlyOversize, ForwardedWhole, Answered
    <3> QED BY <1>2, <3>3 DEF ReaderInv
  <2>8. CASE /\ next = "protocol_level" /\ InvalidLevel(v)
             /\ stage' = "handled" /\ reply' = Refusal /\ UNCHANGED next
    <3>1. packet.type = "CONNECT" /\ k = 2 /\ taken = 1 /\ v = packet.payload[2].val
      BY <1>3, <2>4, <2>5, <2>8
    <3>2. packet.payload[1].val.mqtt /\ InvalidLevel(packet.payload[2].val)
      BY <2>6, <2>8, <3>1 DEF Passed
    <3>3. Refused'
      BY <1>1, <1>3, <2>8, <3>1, <3>2 DEF Refused, Refusal, Out, InvalidLevel, SignedLevel
    <3>4. ReplyFits'
      BY <1>1, <2>8, <3>1 DEF ReplyFits, ManyTopics, Refusal, Out
    <3>5. StageInv' /\ AbortsOnlyOversize' /\ ForwardedWhole'
      BY <1>1, <1>2, <2>8, <3>3 DEF StageInv, AbortsOnlyOversize, ForwardedWhole, Answered
    <3> QED BY <1>2, <3>4, <3>5 DEF ReaderInv
  <2>9. CASE /\ ~ Closes(next, v)
             /\ ~ (next = "protocol_level" /\ InvalidLevel(v))
             /\ next' = After(next, seen', load_pos')
             /\ UNCHANGED <<stage, reply>>
    <3>1. next' = Reads(packet, k + 1)
      <4>1. packet.type = "CONNECT" /\ k >= 3 =>
              seen'["connect_flags"] = packet.payload[3].val
        BY <1>1, <2>1, <2>3 DEF Values
      <4>2. packet.type \in Topical => (load_pos' < remainlen_value <=> k < n)
        <5> SUFFICES ASSUME packet.type \in Topical
                     PROVE  load_pos' < remainlen_value <=> k < n
          OBVIOUS
        <5>1. load_pos' = SizeTo(packet.payload, k)
          BY <2>3 DEF Topical
        <5>2. \A i \in 1 .. n : packet.payload[i].size >= 1
          <6> TAKE i \in 1 .. n
          <6>1. Reads(packet, i) # "content"
            BY <1>3, FieldNames DEF Topical
          <6> QED BY <1>3, <6>1 DEF Layout, Fits
        <5>3. k \in 0 .. n /\ n \in 0 .. n
          BY <1>3, <1>4, <1>6
        <5>4. SizeTo(packet.payload, k) + (n - k) <= SizeTo(packet.payload, n)
          BY <1>3, <5>2, <5>3, SizesGrow
        <5>5. SizeTo(packet.payload, k) \in Nat /\ SizeTo(packet.payload, n) \in Nat
          BY <1>3, <5>3, Sizes
        <5>6. k = n => ~ (load_pos' < remainlen_value)
          BY <1>3, <5>1, <5>5
        <5> QED BY <1>3, <5>1, <5>3, <5>4, <5>5, <5>6
      <4>3. k \in 1 .. n
        BY <1>4, <1>6
      <4>4. After(Reads(packet, k), seen', load_pos') = Reads(packet, k + 1)
        BY <1>3, <4>1, <4>2, <4>3, AfterReads
      <4> QED BY <1>3, <2>9, <4>4
    <3>2. Passed' \/ packet.type # "CONNECT"
      <4> SUFFICES ASSUME packet.type = "CONNECT" PROVE Passed'
        OBVIOUS
      <4>1. k = 1 => packet.payload[1].val.mqtt
        BY <2>4, <2>5, <2>9 DEF Closes
      <4>2. k = 2 => ~ InvalidLevel(packet.payload[2].val)
        BY <2>4, <2>5, <2>9
      <4>3. k = 3 => "reserved" \notin packet.payload[3].val
        BY <2>4, <2>5, <2>9 DEF Closes
      <4>4. /\ k >= 1 => packet.payload[1].val.mqtt
            /\ k >= 2 => ~ InvalidLevel(packet.payload[2].val)
            /\ k >= 3 => "reserved" \notin packet.payload[3].val
        BY <1>3, <2>6, <4>1, <4>2, <4>3 DEF Passed
      <4> QED BY <1>1, <2>1, <4>4 DEF Passed, InvalidLevel, SignedLevel
    <3>3. Reads(packet, taken + 1)' = Reads(packet, k + 1)
      BY <1>1, <2>1
    <3>4. Handling'
      BY <1>1, <1>3, <2>3, <2>9, <3>1, <3>2, <3>3 DEF Handling
    <3>5. StageInv' /\ ReplyFits' /\ AbortsOnlyOversize' /\ ForwardedWhole'
      BY <1>1, <1>2, <1>3, <2>9, <3>4
         DEF StageInv, ReplyFits, AbortsOnlyOversize, ForwardedWhole, Answered
    <3> QED BY <1>2, <3>5 DEF ReaderInv
  <2> QED BY <2>1, <2>7, <2>8, <2>9 DEF v
<1> QED BY <1>5, <1>6

-----------------------------------------------------------------------------
(* The end of a handler, and what is sent                                  *)

(* A packet out is never taken for none, nor an answer for a refusal.      *)
LEMMA Outs ==
  ASSUME NEW type \in Outgoing, NEW size \in Nat, NEW codes \in Nat
  PROVE  /\ Out(type, size, codes) # NONE
         /\ Out(type, size, codes) = Refusal => type = "REFUSED"
         /\ Out(type, size, codes).remain_len = 2 + size
         /\ Out(type, size, codes).load_pos = 2 + codes
<1>1. Out(type, size, codes) \in [type : Outgoing, qos : Nat, remain_len : Nat, load_pos : Nat]
  BY DEF Out
<1>2. Out(type, size, codes).type = type /\ Refusal.type = "REFUSED"
  BY DEF Out, Refusal
<1> QED BY <1>1, <1>2, ReaderAssumption DEF Out

LEMMA NoRefusal == NONE # Refusal
<1>1. Out("REFUSED", 0, 0) # NONE
  BY Outs DEF Outgoing
<1> QED BY <1>1 DEF Refusal

(* The codes of a SUBACK have room exactly when their number is one the    *)
(* counter can hold.                                                       *)
LEMMA CodesFit ==
  ASSUME NEW m \in Nat
  PROVE  /\ m % CounterMod \in Nat /\ m % CounterMod <= m
         /\ m < CounterMod => m % CounterMod = m
         /\ m >= CounterMod => m % CounterMod < m
<1>1. CounterMod \in Nat /\ CounterMod > 0
  BY ReaderAssumption
<1>2. PICK c \in Nat : c = CounterMod /\ c > 0
  BY <1>1
<1>3. m % c \in 0 .. c - 1 /\ m % c <= m
  BY <1>2
<1>4. m < c => m % c = m
  BY <1>2
<1> QED BY <1>2, <1>3, <1>4

(* A SUBSCRIBE has a byte or more for each of its topics.                  *)
LEMMA SubscribeSize ==
  ASSUME LengthInv, PacketInv, packet # NONE, phase = "load", packet.type = "SUBSCRIBE"
  PROVE  TopicsOf(packet) \in Nat /\ 2 + TopicsOf(packet) <= remainlen_value
<1> DEFINE n == Len(packet.payload)
<1>1. /\ Layout(packet) /\ Sized(packet.payload) /\ n \in Nat
      /\ remainlen_value = SizeTo(packet.payload, n)
  BY Loaded
<1>2. n >= 1 /\ packet.payload[1].size = 2
  BY <1>1 DEF Layout, Topical, SubscribeLayout
<1>3. \A i \in 1 .. n : packet.payload[i].size >= 1
  <2> TAKE i \in 1 .. n
  <2>1. Reads(packet, i) # "content"
    BY <1>1, FieldNames
  <2> QED BY <1>1, <2>1 DEF Layout, Fits
<1>4. 1 \in 0 .. n /\ n \in 0 .. n /\ 1 \in 1 .. n
  BY <1>1, <1>2
<1>5. SizeTo(packet.payload, 1) + (n - 1) <= SizeTo(packet.payload, n)
  BY <1>1, <1>3, <1>4, SizesGrow
<1>6. SizeTo(packet.payload, 1) = 2
  <2>1. SizeTo(packet.payload, 1) = SizeTo(packet.payload, 1 - 1) + packet.payload[1].size
    BY <1>1, <1>4, Sizes
  <2>2. SizeTo(packet.payload, 0) = 0
    BY <1>1, Sizes
  <2> QED BY <1>2, <2>1, <2>2
<1>7. SizeTo(packet.payload, n) \in Nat
  BY <1>1, <1>4, Sizes
<1>8. TopicsOf(packet) \in Nat /\ TopicsOf(packet) <= n - 1
  <2>1. PICK m \in Nat : m = n - 1
    BY <1>1, <1>2
  <2>2. m \div 2 \in Nat /\ m \div 2 <= m
    OBVIOUS
  <2> QED BY <2>1, <2>2 DEF TopicsOf
<1> HIDE DEF n
<1> QED BY <1>1, <1>2, <1>5, <1>6, <1>7, <1>8

LEMMA HandledInv ==
  ASSUME ReaderInv, Handled
  PROVE  ReaderInv'
<1> DEFINE n == Len(packet.payload)
           k == taken + 1
<1>1. /\ stage = "handle" /\ next = "end" /\ reply' \in Replies
      /\ stage' = IF Overruns(reply') THEN "overrun" ELSE "handled"
      /\ packet.type = "CONNECT" => session' = "CS_CONNECTING"
      /\ UNCHANGED <<vars, debug, packet, taken, load_pos, seen, phase, remainlen_value>>
  BY DEF Handled, StateMod, vars, handling
<1>2. /\ LengthInv /\ PacketInv /\ packet # NONE /\ phase = "load" /\ Handling
      /\ LengthInv' /\ PacketInv'
  BY <1>1, Kept DEF ReaderInv, StageInv
<1>3. /\ Layout(packet) /\ Sized(packet.payload) /\ n \in Nat /\ taken \in 0 .. n
      /\ remainlen_value = SizeTo(packet.payload, n)
      /\ SizeTo(packet.payload, n) < 128 * 128 * 128
      /\ next = Reads(packet, k)
  BY <1>2, Loaded DEF Handling, Cursor
<1>4. taken = n
  <2>1. k \in 1 .. n => Fits(packet.payload[k], Reads(packet, k))
    BY <1>3 DEF Layout
  <2> QED BY <1>1, <1>3, <2>1 DEF Fits
<1>5. /\ packet.type = "CONNECT" => reply' = Out("CONNACK", 0, 0)
      /\ \/ reply' = NONE /\ packet.type # "SUBSCRIBE"
         \/ packet.type # "SUBSCRIBE" /\ \E type \in {"CONNACK", "PUBACK", "PUBREC", "PUBREL", "PUBCOMP", "UNSUBACK"} :
              reply' = Out(type, 0, 0)
         \/ packet.type = "SUBSCRIBE" /\ reply' = Suback((n - 1) \div 2)
         \/ /\ packet.type # "SUBSCRIBE"
            /\ reply' = [Out("PINGRESP", 0, 0) EXCEPT !.remain_len = 0, !.load_pos = 0]
  <2>1. CASE packet.type = "CONNECT"
    BY <1>1, <2>1 DEF Replies
  <2>2. CASE packet.type = "PUBLISH"
    <3>1. reply' \in {NONE, Out("PUBACK", 0, 0), Out("PUBREC", 0, 0)}
      BY <1>1, <2>2 DEF Replies
    <3> QED BY <2>2, <3>1
  <2>3. CASE packet.type \in {"PUBREC", "PUBREL", "UNSUBSCRIBE"}
    <3>1. reply' \in {NONE, Out("PUBREL", 0, 0), Out("PUBCOMP", 0, 0),
                   Out("UNSUBACK", 0, 0)}
      BY <1>1, <2>3 DEF Replies
    <3> QED BY <2>3, <3>1
  <2>4. CASE packet.type = "SUBSCRIBE"
    <3>1. reply' = Suback((taken - 1) \div 2)
      BY <1>1, <2>4 DEF Replies
    <3> QED BY <1>4, <2>4, <3>1
  <2>5. CASE packet.type = "PINGREQ"
    BY <1>1, <2>5 DEF Replies
  <2>6. CASE packet.type \notin {"CONNECT", "PUBLISH", "PUBREC", "PUBREL", "UNSUBSCRIBE",
                                 "SUBSCRIBE", "PINGREQ"}
    BY <1>1, <2>6 DEF Replies
  <2> QED BY <2>1, <2>2, <2>3, <2>4, <2>5, <2>6
<1>6. packet.type = "SUBSCRIBE" =>
        (n - 1) \div 2 \in Nat /\ 2 + ((n - 1) \div 2) <= remainlen_value
  BY <1>2, SubscribeSize DEF TopicsOf
<1> HIDE DEF n
<1> DEFINE Fitting(r) == /\ r # Refusal
                         /\ r # NONE =>
                              /\ r.remain_len \in Nat
                              /\ r.remain_len <= 2 \/ r.remain_len <= remainlen_value
                         /\ packet.type # "SUBSCRIBE" /\ r # NONE => r.load_pos = r.remain_len
                         /\ packet.type = "SUBSCRIBE" =>
                              /\ r # NONE
                              /\ r.load_pos \in Nat
                              /\ ~ ManyTopics => r.load_pos = r.remain_len
                              /\ ManyTopics => r.load_pos > r.remain_len
<1>7. Fitting(reply')
  <2>1. CASE reply' = NONE /\ packet.type # "SUBSCRIBE"
    BY <2>1, NoRefusal
  <2>2. ASSUME NEW type \in {"CONNACK", "PUBACK", "PUBREC", "PUBREL", "PUBCOMP", "UNSUBACK"},
               reply' = Out(type, 0, 0), packet.type # "SUBSCRIBE"
        PROVE  Fitting(reply')
    <3>1. type \in Outgoing /\ type # "REFUSED" /\ 0 \in Nat
      BY DEF Outgoing
    <3>2. /\ Out(type, 0, 0) = Refusal => type = "REFUSED"
          /\ Out(type, 0, 0).remain_len = 2 + 0 /\ Out(type, 0, 0).load_pos = 2 + 0
      BY <3>1, Outs, Zenon
    <3> QED BY <2>2, <3>1, <3>2
  <2>3. CASE packet.type = "SUBSCRIBE" /\ reply' = Suback((n - 1) \div 2)
    <3>1. PICK m \in Nat : m = (n - 1) \div 2 /\ 2 + m <= remainlen_value
      BY <1>6, <2>3
    <3>2. PICK c \in Nat : /\ c = m % CounterMod /\ c <= m
                           /\ m < CounterMod => c = m
                           /\ m >= CounterMod => c < m
      BY CodesFit
    <3>3. reply' = Out("SUBACK", c, m)
      <4>1. Suback(m) = Out("SUBACK", c, m)
        BY <3>2, Zenon DEF Suback
      <4> QED BY <2>3, <3>1, <4>1, Zenon
    <3>4. /\ reply' = Refusal => "SUBACK" = "REFUSED"
          /\ reply' # NONE
          /\ reply'.remain_len = 2 + c /\ reply'.load_pos = 2 + m
      <4>1. "SUBACK" \in Outgoing
        BY DEF Outgoing
      <4> QED BY <3>3, <4>1, Outs, Zenon
    <3>5. CounterMod \in Nat
      BY ReaderAssumption
    <3>6. ManyTopics <=> m >= CounterMod
      BY <2>3, <3>1 DEF ManyTopics, TopicsOf, n
    <3>7. remainlen_value \in Nat
      BY <1>2, Loaded
    <3>8. m < CounterMod \/ m >= CounterMod
      BY <3>5
    <3>9. 2 + c \in Nat /\ 2 + m \in Nat /\ 2 + c <= remainlen_value
      BY <3>1, <3>2, <3>7
    <3>10. c < m => 2 + m > 2 + c
      OBVIOUS
    <3>11. reply' # Refusal
      BY <3>4
    <3>12. ~ ManyTopics => reply'.load_pos = reply'.remain_len
      BY <3>2, <3>4, <3>6, <3>8
    <3>13. ManyTopics => reply'.load_pos > reply'.remain_len
      BY <3>2, <3>4, <3>6, <3>10
    <3> QED BY <2>3, <3>4, <3>9, <3>11, <3>12, <3>13
  <2>4. CASE /\ reply' = [Out("PINGRESP", 0, 0) EXCEPT !.remain_len = 0, !.load_pos = 0]
             /\ packet.type # "SUBSCRIBE"
    <3>1. reply' = [type |-> "PINGRESP", qos |-> 0, remain_len |-> 0, load_pos |-> 0]
      BY <2>4 DEF Out
    <3>2. reply'.type = "PINGRESP" /\ reply'.remain_len = 0 /\ reply'.load_pos = 0
      BY <3>1, Zenon
    <3>3. Refusal.type = "REFUSED"
      BY DEF Refusal, Out
    <3>4. reply' # Refusal
      BY <3>2, <3>3
    <3>5. 0 \in Nat /\ 0 <= 2
      OBVIOUS
    <3> QED BY <2>4, <3>2, <3>4, <3>5
  <2> QED BY <1>5, <2>1, <2>2, <2>3, <2>4
<1>8. /\ stage' \in {"handled", "overrun"} /\ (stage' = "overrun" => reply' # NONE)
      /\ stage' = "overrun" <=> ManyTopics
      /\ stage' # "overrun" /\ reply' # NONE => reply'.load_pos = reply'.remain_len
  <2>1. CASE packet.type = "SUBSCRIBE"
    <3>1. PICK a \in Nat, b \in Nat : a = reply'.load_pos /\ b = reply'.remain_len
      BY <1>7, <2>1
    <3>2. /\ reply' # NONE /\ (~ ManyTopics => a = b) /\ (ManyTopics => a > b)
      BY <1>7, <2>1, <3>1
    <3>3. Overruns(reply') <=> a > b
      BY <3>1, <3>2 DEF Overruns
    <3>4. a = b => ~ (a > b)
      OBVIOUS
    <3>5. Overruns(reply') <=> ManyTopics
      BY <3>2, <3>3, <3>4
    <3> QED BY <1>1, <3>1, <3>2, <3>5
  <2>2. CASE packet.type # "SUBSCRIBE"
    <3>1. ~ Overruns(reply')
      <4>1. ASSUME reply' # NONE PROVE ~ (reply'.load_pos > reply'.remain_len)
        <5>1. PICK b \in Nat : b = reply'.remain_len /\ b = reply'.load_pos
          BY <1>7, <2>2, <4>1
        <5>2. ~ (b > b)
          OBVIOUS
        <5> QED BY <5>1, <5>2
      <4> QED BY <4>1 DEF Overruns
    <3>2. ~ ManyTopics
      BY <2>2, Zenon DEF ManyTopics
    <3>3. stage' = "handled"
      BY <1>1, <3>1
    <3>4. reply' # NONE => reply'.load_pos = reply'.remain_len
      BY <1>7, <2>2
    <3> QED BY <3>2, <3>3, <3>4
  <2> QED BY <2>1, <2>2
<1>9. Accepted'
  <2>1. Cursor' /\ Values'
    BY <1>1, <1>2 DEF Handling, Cursor, Values
  <2>2. packet.type = "CONNECT" => Passed'
    BY <1>1, <1>2 DEF Handling, Passed, InvalidLevel, SignedLevel
  <2> QED BY <1>1, <1>4, <1>5, <1>7, <2>1, <2>2 DEF Accepted, n
<1>10. ReplyFits'
  <2>1. SizeTo(packet.payload, n) \in Nat
    <3>1. n \in 0 .. n
      BY <1>3
    <3> QED BY <1>3, <3>1, Sizes DEF n
  <2>2. ManyTopics' <=> ManyTopics
    BY <1>1 DEF ManyTopics, TopicsOf
  <2>3. remainlen_value' = remainlen_value /\ remainlen_value \in Nat
        /\ remainlen_value < 128 * 128 * 128
    BY <1>1, <1>3, <2>1
  <2>4. reply' # NONE => /\ reply'.remain_len \in Nat
                         /\ reply'.remain_len <= 2 \/ reply'.remain_len <= remainlen_value
    BY <1>7
  <2>5. reply' # NONE => reply'.remain_len < 128 * 128 * 128
    BY <2>3, <2>4
  <2>6. stage' = "overrun" <=> ManyTopics'
    BY <1>8, <2>2
  <2>7. stage' # "overrun" /\ reply' # NONE => reply'.load_pos = reply'.remain_len
    BY <1>8
  <2> QED BY <2>3, <2>4, <2>5, <2>6, <2>7 DEF ReplyFits
<1>11. StageInv' /\ AbortsOnlyOversize' /\ ForwardedWhole'
  <2>1. stage' \in {"handled", "overrun"} /\ (stage' = "overrun" => reply' # NONE)
    BY <1>8
  <2>2. StageInv'
    BY <1>1, <1>2, <1>9, <2>1 DEF StageInv
  <2>3. AbortsOnlyOversize'
    BY <2>1 DEF AbortsOnlyOversize
  <2>4. ForwardedWhole'
    BY <2>1 DEF ForwardedWhole
  <2> QED BY <2>2, <2>3, <2>4
<1> QED BY <1>2, <1>10, <1>11 DEF ReaderInv

LEMMA SameAnswer ==
  ASSUME Accepted \/ Refused, UNCHANGED <<packet, taken, load_pos, seen, reply, session>>
  PROVE  Accepted' \/ Refused'
<1>1. CASE Accepted
  BY <1>1 DEF Accepted, Cursor, Values, Passed, InvalidLevel, SignedLevel
<1>2. CASE Refused
  BY <1>2 DEF Refused, InvalidLevel, SignedLevel, Refusal, Out
<1> QED BY <1>1, <1>2

LEMMA WriteReplyInv ==
  ASSUME ReaderInv, WriteReply
  PROVE  ReaderInv'
<1>1. /\ stage = "handled" /\ reply # NONE
      /\ stage' = IF TooLarge(5 + reply.remain_len) THEN "aborted" ELSE "written"
      /\ UNCHANGED <<vars, debug, packet, taken, load_pos, seen, reply, session,
                     phase, remainlen_value>>
  BY DEF WriteReply, vars, handling
<1>2. /\ LengthInv /\ PacketInv /\ packet # NONE /\ phase = "load"
      /\ Accepted \/ Refused
      /\ LengthInv' /\ PacketInv'
  BY <1>1, Kept DEF ReaderInv, StageInv, Answered
<1>3. Accepted' \/ Refused'
  BY <1>1, <1>2, SameAnswer
<1>4. StageInv'
  BY <1>1, <1>2, <1>3 DEF StageInv, Answered
<1>5. AbortsOnlyOversize'
  <2>1. remainlen_value \in Nat
    BY <1>2, Loaded
  <2> QED BY <1>1, <2>1 DEF ReaderInv, ReplyFits, AbortsOnlyOversize, TooLarge
<1>6. ReplyFits' /\ ForwardedWhole'
  BY <1>1 DEF ReaderInv, ReplyFits, ManyTopics, TopicsOf, ForwardedWhole
<1> QED BY <1>2, <1>4, <1>5, <1>6 DEF ReaderInv

(* The bytes of a publication.                                             *)
LEMMA PublishSize ==
  ASSUME NEW p, Layout(p), p.type = "PUBLISH", Len(p.payload) \in Nat, Sized(p.payload),
         Size(p) = SizeTo(p.payload, Len(p.payload))
  PROVE  /\ p.payload[1].val.len \in Nat
         /\ p.payload[Len(p.payload)].val.len \in Nat
         /\ Size(p) = 2 + p.payload[1].val.len + (IF p.qos > 0 THEN 2 ELSE 0)
                        + p.payload[Len(p.payload)].val.len
<1> DEFINE s == p.payload
           n == Len(s)
<1>1. /\ n = IF p.qos > 0 THEN 3 ELSE 2
      /\ s[1].size = 2 + s[1].val.len /\ s[1].val.len \in Nat
      /\ p.qos > 0 => s[2].size = 2
      /\ s[n].size = s[n].val.len /\ s[n].val.len \in Nat
  BY DEF Layout, PublishLayout, String, IsString
<1> HIDE DEF s
<1>2. /\ SizeTo(s, 0) = 0
      /\ \A i \in 1 .. n : SizeTo(s, i) = SizeTo(s, i - 1) + s[i].size
      /\ \A i \in 0 .. n : SizeTo(s, i) \in Nat
  BY Sizes DEF s
<1>3. CASE p.qos > 0
  <2>1. n = 3 /\ 1 \in 1 .. n /\ 2 \in 1 .. n /\ 3 \in 1 .. n
    BY <1>1, <1>3
  <2>2. /\ SizeTo(s, 1) = SizeTo(s, 1 - 1) + s[1].size
        /\ SizeTo(s, 2) = SizeTo(s, 2 - 1) + s[2].size
        /\ SizeTo(s, 3) = SizeTo(s, 3 - 1) + s[3].size
    BY <1>2, <2>1
  <2>3. SizeTo(s, 3) = 2 + s[1].val.len + 2 + s[3].val.len
    <3>1. PICK t \in Nat, c \in Nat : t = s[1].val.len /\ c = s[3].val.len
      BY <1>1, <2>1
    <3>2. /\ SizeTo(s, 1 - 1) = 0 /\ s[1].size = 2 + t /\ s[3].size = c /\ s[2].size = 2
      BY <1>1, <1>2, <2>1, <3>1, <1>3
    <3>3. SizeTo(s, 1) = 2 + t
      BY <2>2, <3>2
    <3>4. SizeTo(s, 2) = 4 + t
      BY <2>2, <3>2, <3>3
    <3> QED BY <2>2, <3>1, <3>2, <3>3, <3>4
  <2> QED BY <1>1, <1>3, <2>1, <2>3 DEF s
<1>4. CASE ~ (p.qos > 0)
  <2>1. n = 2 /\ 1 \in 1 .. n /\ 2 \in 1 .. n
    BY <1>1, <1>4
  <2>2. /\ SizeTo(s, 1) = SizeTo(s, 1 - 1) + s[1].size
        /\ SizeTo(s, 2) = SizeTo(s, 2 - 1) + s[2].size
    BY <1>2, <2>1
  <2>3. SizeTo(s, 2) = 2 + s[1].val.len + 0 + s[2].val.len
    <3>1. PICK t \in Nat, c \in Nat : t = s[1].val.len /\ c = s[2].val.len
      BY <1>1, <2>1
    <3>2. SizeTo(s, 1 - 1) = 0 /\ s[1].size = 2 + t /\ s[2].size = c
      <4>1. s[n].size = s[n].val.len
        BY <1>1
      <4>2. s[2].size = c
        BY <2>1, <3>1, <4>1
      <4> QED BY <1>1, <1>2, <3>1, <4>2
    <3>3. SizeTo(s, 1) = 2 + t
      BY <2>2, <3>2
    <3> QED BY <2>2, <3>1, <3>2, <3>3
  <2> QED BY <1>1, <1>4, <2>1, <2>3 DEF s
<1> QED BY <1>3, <1>4

LEMMA ForwardInv ==
  ASSUME ReaderInv, NEW q \in 0 .. 2, Forward(q)
  PROVE  ReaderInv'
<1> DEFINE n == Len(packet.payload)
           topic == packet.payload[1].val
           content == packet.payload[n].val
           identifier == IF q > 0 THEN 2 ELSE 0
           carried == IF packet.qos > 0 THEN 2 ELSE 0
<1>1. /\ packet # NONE /\ packet.type = "PUBLISH" /\ stage \in Answered
      /\ q <= packet.qos
      /\ reply' = [type |-> "PUBLISH", qos |-> q,
                   remain_len |-> PublishLength(q), load_pos |-> PublishFilled(q)]
      /\ stage' = IF TooLarge(5 + PublishLength(q)) THEN "aborted" ELSE "forwarded"
      /\ UNCHANGED <<vars, debug, packet, taken, load_pos, seen, session,
                     phase, remainlen_value>>
  BY DEF Forward, vars, handling, Answered
<1>2. /\ LengthInv /\ PacketInv /\ phase = "load" /\ Accepted
      /\ LengthInv' /\ PacketInv'
  BY <1>1, Kept DEF ReaderInv, StageInv, Answered, Refused
<1>3. /\ Layout(packet) /\ Sized(packet.payload) /\ n \in Nat
      /\ Size(packet) = SizeTo(packet.payload, n)
      /\ remainlen_value = Size(packet)
  BY <1>1, <1>2, Loaded
<1>4. /\ topic.len \in Nat /\ topic.text \in Nat /\ topic.text <= topic.len
      /\ topic.len < 2^16
      /\ content.len \in Nat /\ content.text \in Nat /\ content.text <= content.len
      /\ packet.payload[n].size = content.len
      /\ n >= 2 /\ packet.qos \in 0 .. 3
  <2>1. PublishLayout(packet) /\ packet.qos \in 0 .. 3
    BY <1>1, <1>3 DEF Layout
  <2> QED BY <2>1 DEF PublishLayout, String, IsString
<1>5. Size(packet) = 2 + topic.len + carried + content.len
  BY <1>1, <1>3, PublishSize
<1>6. /\ seen["topic"] = topic
      /\ seen["content"].text = Shorter(content.text, content.len % 2^16)
  BY <1>1, <1>2, <1>4 DEF Accepted, Values
<1> DEFINE W == 2^16
<1>7. PICK tl \in Nat, tt \in Nat, cl \in Nat, ct \in Nat :
        /\ tl = topic.len /\ tt = topic.text /\ tt <= tl /\ tl < W
        /\ cl = content.len /\ ct = content.text /\ ct <= cl
  BY <1>4
<1>8. W \in Nat \ {0} /\ 2 + W + W + 2 < 128 * 128 * 128
  BY WordSize
<1> HIDE DEF W, topic, content
<1>9. PICK w \in Nat : /\ w = seen["content"].text /\ w <= ct /\ w < W
                       /\ ct = cl /\ cl < W => w = cl
  <2>1. PICK m \in Nat : m = cl % W /\ m < W /\ (cl < W => m = cl)
    BY <1>7, <1>8, Word
  <2>2. seen["content"].text = Shorter(ct, m)
    BY <1>6, <1>7, <2>1 DEF W
  <2>3. Shorter(ct, m) = IF ct < m THEN ct ELSE m
    BY DEF Shorter
  <2>4. PICK x \in Nat : x = Shorter(ct, m) /\ x <= ct /\ x <= m /\ (x = ct \/ x = m)
    BY <2>1, <2>3
  <2>5. /\ x = seen["content"].text /\ x <= ct /\ x < W
        /\ ct = cl /\ cl < W => x = cl
    BY <1>7, <1>8, <2>1, <2>2, <2>4
  <2> QED BY <2>5, Zenon
<1>10. identifier \in {0, 2} /\ carried \in {0, 2} /\ identifier <= carried
  BY <1>1, <1>4
<1> HIDE DEF identifier, carried
<1>11. tt % W = tt /\ w % W = w
  BY <1>7, <1>8, <1>9, Word
<1>12. PICK l \in Nat : l = PublishLength(q) /\ l = PublishFilled(q) /\ l = 2 + tt + w + identifier
  <2>1. PublishLength(q) = 2 + tt + w + identifier
    BY <1>6, <1>7, <1>9 DEF PublishLength, identifier
  <2>2. PublishFilled(q) = 2 + (tt % W) + identifier + (w % W)
    BY <1>6, <1>7, <1>9 DEF PublishFilled, identifier, W
  <2> QED BY <1>10, <1>11, <2>1, <2>2
<1>13. PICK size \in Nat : size = Size(packet) /\ size = 2 + tl + carried + cl
  BY <1>5, <1>7, <1>10
<1>14. /\ reply'.remain_len = l /\ reply'.load_pos = l
       /\ reply'.qos = q /\ reply'.type = "PUBLISH"
  BY <1>1, <1>12
<1>15. ReplyFits'
  <2>1. l < 128 * 128 * 128
    BY <1>7, <1>8, <1>9, <1>10, <1>12
  <2> QED BY <1>1, <1>14, <2>1 DEF ReplyFits, ManyTopics
<1>16. ForwardedWhole'
  <2>1. Head(packet.payload) = packet.payload[1] /\ Last(packet.payload) = packet.payload[n]
    BY <1>4 DEF Last
  <2>2. ASSUME tt = tl, ct = cl, cl < W
        PROVE  l - identifier = size - carried
    BY <1>9, <1>10, <1>12, <1>13, <2>2
  <2>3. Whole(topic) /\ Whole(content) /\ content.len < 2^16 =>
          reply'.remain_len - identifier = Size(packet) - carried
    BY <1>7, <1>13, <1>14, <2>2 DEF Whole, W
  <2> QED BY <1>1, <1>14, <2>1, <2>3 DEF ForwardedWhole, topic, content, identifier, carried
<1>17. AbortsOnlyOversize'
  <2>1. l <= size
    BY <1>7, <1>9, <1>10, <1>12, <1>13
  <2>2. stage' = "aborted" => debug /\ 5 + l > 1024 * 4
    BY <1>1, <1>12 DEF TooLarge
  <2>3. remainlen_value' = size /\ debug' = debug
    BY <1>1, <1>3, <1>13
  <2> QED BY <2>1, <2>2, <2>3 DEF AbortsOnlyOversize
<1>18. Accepted'
  <2>1. Cursor' /\ Values'
    BY <1>1, <1>2 DEF Accepted, Cursor, Values
  <2>2. reply' # Refusal
    BY <1>14 DEF Refusal, Out
  <2> QED BY <1>1, <1>2, <2>1, <2>2 DEF Accepted
<1>19. StageInv'
  BY <1>1, <1>2, <1>18 DEF StageInv, Answered
<1> QED BY <1>2, <1>15, <1>16, <1>19, <1>17 DEF ReaderInv

LEMMA IdleInv ==
  ASSUME ReaderInv, UNCHANGED readerVars
  PROVE  ReaderInv'
<1>1. /\ UNCHANGED <<vars, debug, packet, stage, next, taken, load_pos, seen, reply, session>>
      /\ UNCHANGED <<phase, bytes, remainlen_value, multiplier>>
  BY DEF readerVars, handling, vars
<1>2. LengthInv' /\ PacketInv'
  BY <1>1, Kept DEF ReaderInv
<1>3. ReplyFits' /\ AbortsOnlyOversize' /\ ForwardedWhole'
  <2>1. ManyTopics' <=> ManyTopics
    BY <1>1 DEF ManyTopics, TopicsOf
  <2>2. ReplyFits'
    BY <1>1, <2>1 DEF ReaderInv, ReplyFits
  <2> QED BY <1>1, <2>2 DEF ReaderInv, AbortsOnlyOversize, ForwardedWhole
<1>4. Accepted \/ Refused => Accepted' \/ Refused'
  BY <1>1, SameAnswer
<1>5. Handling => Handling'
  BY <1>1 DEF Handling, Cursor, Values, Passed, InvalidLevel, SignedLevel
<1>6. Closed => Closed'
  BY <1>1 DEF Closed, InvalidLevel, SignedLevel
<1>7. Unread => Unread'
  BY <1>1 DEF Unread, NoValues
<1>8. StageInv'
  BY <1>1, <1>4, <1>5, <1>6, <1>7 DEF ReaderInv, StageInv
<1> QED BY <1>2, <1>3, <1>8 DEF ReaderInv

LEMMA ReaderInvariant == ReaderSpec => []ReaderInv
<1>1. ReaderInv /\ [ReaderNext]_readerVars => ReaderInv'
  <2> SUFFICES ASSUME ReaderInv, [ReaderNext]_readerVars PROVE ReaderInv'
    OBVIOUS
  <2>1. CASE LengthFails
    BY <2>1, LengthFailsInv
  <2>2. CASE Load
    BY <2>2, LoadInv
  <2>3. CASE LoadFails
    BY <2>3, LoadFailsInv
  <2>4. CASE ReadField
    BY <2>4, ReadFieldInv
  <2>5. CASE Handled
    BY <2>5, HandledInv
  <2>6. CASE WriteReply
    BY <2>6, WriteReplyInv
  <2>7. ASSUME NEW b \in 0 .. 255, ReadLength(b) PROVE ReaderInv'
    BY <2>7, ReadLengthInv
  <2>8. ASSUME NEW q \in 0 .. 2, Forward(q) PROVE ReaderInv'
    BY <2>8, ForwardInv
  <2>9. CASE UNCHANGED readerVars
    BY <2>9, IdleInv
  <2> QED BY <2>1, <2>2, <2>3, <2>4, <2>5, <2>6, <2>7, <2>8, <2>9 DEF ReaderNext
<1> QED BY <1>1, ReaderInitInv, PTL DEF ReaderSpec

-----------------------------------------------------------------------------
(* What the invariant says                                                 *)

LEMMA CursorIsAtEnd == ReaderInv => CursorAtEnd
<1> SUFFICES ASSUME ReaderInv PROVE CursorAtEnd
  OBVIOUS
<1> DEFINE n == Len(packet.payload)
<1>1. ASSUME packet # NONE, stage \in Answered, reply # Refusal,
             "content" \in DOMAIN seen => Last(packet.payload).size < 2^16
      PROVE  load_pos = remainlen_value /\ taken = n
  <2>1. LengthInv /\ PacketInv /\ phase = "load" /\ Accepted
    BY <1>1 DEF ReaderInv, StageInv, Answered, Refused
  <2>2. remainlen_value = SizeTo(packet.payload, n)
    BY <1>1, <2>1, Loaded
  <2>3. Last(packet.payload) = packet.payload[n]
    BY DEF Last
  <2> QED BY <1>1, <2>1, <2>2, <2>3 DEF Accepted, Cursor
<1>2. stage = "astray" => NoPassword(packet)
  BY DEF ReaderInv, StageInv
<1> QED BY <1>1, <1>2 DEF CursorAtEnd, NoPassword

(* The levels that are supported: a byte from 128 on is negative.          *)
LEMMA SupportedLevels ==
  ASSUME NEW level \in 0 .. 255
  PROVE  InvalidLevel(level) <=> level \in 5 .. 127
BY DEF InvalidLevel, SignedLevel

LEMMA ConnectIsAnswered == ReaderInv => ConnectOutcome
<1> SUFFICES ASSUME ReaderInv, packet # NONE, packet.type = "CONNECT",
                    stage \in Answered \cup {"closed"}
             PROVE  LET field(i) == packet.payload[i].val
                        connected == session = "CS_CONNECTING"
                    IN  /\ connected <=> reply = Out("CONNACK", 0, 0)
                        /\ stage = "closed" <=> reply = NONE
                        /\ reply = Refusal => field(2) > 4
                        /\ field(1).mqtt /\ field(2) <= 4 /\ "reserved" \notin field(3)
                             => connected
                        /\ "reserved" \in field(3) => ~connected
  BY DEF ConnectOutcome
<1> DEFINE n == Len(packet.payload)
           level == packet.payload[2].val
<1>1. /\ Layout(packet) /\ n \in Nat /\ n >= 5
      /\ InvalidLevel(level) => level > 4
      /\ level <= 4 => ~ InvalidLevel(level)
  <2>1. Layout(packet) /\ n \in Nat
    BY Loaded DEF ReaderInv
  <2>2. n >= 5 /\ level \in 0 .. 255
    BY <2>1 DEF Layout, ConnectLayout
  <2> HIDE DEF level
  <2>3. (InvalidLevel(level) => level > 4) /\ (level <= 4 => ~ InvalidLevel(level))
    <3>1. PICK l \in 0 .. 255 : l = level
      BY <2>2
    <3>2. InvalidLevel(l) <=> l \in 5 .. 127
      BY SupportedLevels
    <3>3. (InvalidLevel(l) => l > 4) /\ (l <= 4 => ~ InvalidLevel(l))
      BY <3>2
    <3> QED BY <3>1, <3>3
  <2> QED BY <2>1, <2>2, <2>3
<1>2. NONE # Refusal /\ Out("CONNACK", 0, 0) # NONE /\ Out("CONNACK", 0, 0) # Refusal
  BY NoRefusal, Outs DEF Outgoing
<1>3. CASE stage \in Answered /\ Accepted
  <2>1. /\ taken = n /\ reply = Out("CONNACK", 0, 0) /\ session = "CS_CONNECTING" /\ Passed
    BY <1>3 DEF Accepted
  <2>2. /\ packet.payload[1].val.mqtt /\ ~ InvalidLevel(level)
        /\ "reserved" \notin packet.payload[3].val
    BY <1>1, <2>1 DEF Passed
  <2> HIDE DEF level
  <2> QED BY <1>1, <1>2, <1>3, <2>1, <2>2 DEF Answered, level
<1>4. CASE stage \in Answered /\ Refused
  <2>1. /\ reply = Refusal /\ session = "CS_WAIT_FOR_CONNECT"
        /\ packet.payload[1].val.mqtt /\ InvalidLevel(level)
    BY <1>4 DEF Refused
  <2> QED BY <1>1, <1>2, <1>4, <2>1 DEF Answered
<1>5. CASE stage = "closed"
  <2>1. Closed
    BY <1>5 DEF ReaderInv, StageInv
  <2>2. /\ reply = NONE /\ session = "CS_WAIT_FOR_CONNECT"
        /\ packet.payload[1].val.mqtt =>
             ~ InvalidLevel(level) /\ "reserved" \in packet.payload[3].val
    BY <2>1 DEF Closed
  <2> QED BY <1>1, <1>2, <1>5, <2>2
<1> QED BY <1>3, <1>4, <1>5 DEF ReaderInv, StageInv

LEMMA BufferIsFilled == ReaderInv => BufferFilled
<1> SUFFICES ASSUME ReaderInv, reply # NONE
             PROVE  /\ stage = "overrun" <=> ManyTopics
                    /\ stage # "overrun" => reply.load_pos = reply.remain_len
                    /\ 1 + Len(Written(reply.remain_len)) <= 5
                    /\ reply.remain_len < 128 * 128 * 128
  BY DEF BufferFilled, ManyTopics
<1>1. PICK m \in Nat : /\ m = reply.remain_len /\ m < 128 * 128 * 128
                       /\ stage # "overrun" => reply.load_pos = m
                       /\ stage = "overrun" <=> ManyTopics
  BY DEF ReaderInv, ReplyFits
<1>2. PICK w \in Seq(Digits) : w = Written(m) /\ BytesOf(w, m)
  BY WrittenShape, WrittenRecursion
<1>3. Len(w) <= 3
  <2>1. CASE Len(w) = 1 \/ Len(w) = 2 \/ Len(w) = 3
    <3>1. 1 <= 3 /\ 2 <= 3 /\ 3 <= 3
      OBVIOUS
    <3> QED BY <2>1, <3>1, Zenon
  <2>2. CASE m >= 128 * 128 * 128
    BY <1>1, <2>2
  <2>3. Bytes1(w, m) => Len(w) = 1
    BY Zenon DEF Bytes1
  <2>4. Bytes2(w, m) => Len(w) = 2
    BY Zenon DEF Bytes2
  <2>5. Bytes3(w, m) => Len(w) = 3
    BY Zenon DEF Bytes3, Threes
  <2>6. MoreBytes(w, m) => m >= 128 * 128 * 128
    BY Zenon DEF MoreBytes, Mores
  <2> QED BY <1>2, <2>1, <2>2, <2>3, <2>4, <2>5, <2>6, Zenon DEF BytesOf
<1> QED BY <1>1, <1>2, <1>3

(* What is in memory has passed the assertion of iotbroker_malloc.         *)
Loadable == stage \notin {"read", "failed", "aborted"} => ~ TooLarge(remainlen_value)

LEMMA StaysLoadable ==
  ASSUME ReaderInv, Loadable, [ReaderNext]_readerVars
  PROVE  Loadable'
<1>1. CASE stage = "read"
  <2>1. stage' # "read" => /\ stage' \in {"failed", "aborted"} \/ ~ TooLarge(remainlen_value)
                           /\ UNCHANGED <<remainlen_value, debug>>
    BY <1>1 DEF ReaderNext, ReadLength, LengthFails, Load, LoadFails, ReadField, Handled,
                WriteReply, Forward, Answered, readerVars, vars
  <2> QED BY <2>1 DEF Loadable, TooLarge
<1>2. CASE stage # "read"
  <2>1. phase = "load"
    BY <1>2 DEF ReaderInv, StageInv
  <2>2. UNCHANGED <<remainlen_value, debug>> /\ (stage' = stage \/ stage \in {"handle", "handled", "written"})
    BY <1>2, <2>1 DEF ReaderNext, ReadLength, LengthFails, ReadFails, Load, LoadFails, ReadField,
                      Handled, WriteReply, Forward, readerVars, vars
  <2> QED BY <1>2, <2>2 DEF Loadable, TooLarge
<1> QED BY <1>1, <1>2

-----------------------------------------------------------------------------
(* Theorems                                                                *)

(***************************************************************************)
(* Whatever bytes a client sends, the loop over the remaining length ends  *)
(* with the fourth, its counters do not overflow, and the length for which *)
(* memory is allocated is below 128^3 (protocol.c:141-170).                *)
(***************************************************************************)
THEOREM LengthIsBounded == ReaderSpec => []LengthBounded
<1>1. ReaderSpec => []LengthInv
  BY ReaderInitLength, ReaderLength, PTL DEF ReaderSpec
<1>2. LengthInv => LengthBounded
  BY Bounded
<1> QED BY <1>1, <1>2, PTL

(***************************************************************************)
(* Of all the lengths that set_packet_remainlength may write, and there is *)
(* no bound to its recursion, iotbroker_read_packet reads back those below *)
(* 128^3: each after its last byte, and as what it was (protocol.c:24,     *)
(* 141-170).                                                               *)
(***************************************************************************)
THEOREM LengthIsRead == ReaderSpec => []ReadsWhatIsWritten
<1>1. ReaderSpec => []LengthInv
  BY ReaderInitLength, ReaderLength, PTL DEF ReaderSpec
<1>2. LengthInv => ReadsWhatIsWritten
  BY ReadsWritten
<1> QED BY <1>1, <1>2, PTL

(***************************************************************************)
(* The handlers and MQTT agree on the layout of every packet: for a packet *)
(* with any strings, any content and any number of topics the cursor is at *)
(* its end when the handler is done with it, except as CursorAtEnd says,   *)
(* and only the handler of a CONNECT without its password reads behind it. *)
(***************************************************************************)
THEOREM CursorEnds == ReaderSpec => []CursorAtEnd
BY ReaderInvariant, CursorIsAtEnd, PTL

(***************************************************************************)
(* A CONNECT of any strings and flags is answered as ConnectOutcome says:  *)
(* the session is connected and the client told so, or neither.            *)
(***************************************************************************)
THEOREM ConnectsAnswered == ReaderSpec => []ConnectOutcome
BY ReaderInvariant, ConnectIsAnswered, PTL

(***************************************************************************)
(* Every packet out fills its allocation to the last byte and not beyond,  *)
(* for any lengths of topic and content, but for the SUBACK of CounterMod  *)
(* topics or more, which always goes beyond.                               *)
(***************************************************************************)
THEOREM BuffersFilled == ReaderSpec => []BufferFilled
BY ReaderInvariant, BufferIsFilled, PTL

(***************************************************************************)
(* With a counter of 4096 or more values, the code's has 2^16, no SUBACK   *)
(* overruns its buffer in a build with DEBUG: the SUBSCRIBE it would       *)
(* answer fails the assertion of iotbroker_malloc before it is handled.    *)
(***************************************************************************)
THEOREM OverrunsWithoutDebug ==
  ASSUME CounterMod >= 1024 * 4
  PROVE  ReaderSpec => [](stage = "overrun" => ~ debug)
<1>1. ReaderInit => Loadable
  BY DEF ReaderInit, Loadable
<1>2. ReaderInv /\ Loadable /\ [ReaderNext]_readerVars => Loadable'
  BY StaysLoadable
<1>3. ReaderSpec => []Loadable
  BY <1>1, <1>2, ReaderInvariant, PTL DEF ReaderSpec
<1>4. ReaderInv /\ Loadable => (stage = "overrun" => ~ debug)
  <2> SUFFICES ASSUME ReaderInv, Loadable, stage = "overrun" PROVE ~ debug
    OBVIOUS
  <2>1. reply # NONE /\ ManyTopics /\ LengthInv /\ PacketInv /\ packet # NONE /\ phase = "load"
    BY DEF ReaderInv, ReplyFits, StageInv
  <2>2. PICK m \in Nat : m = TopicsOf(packet) /\ 2 + m <= remainlen_value
    BY <2>1, SubscribeSize DEF ManyTopics
  <2>3. PICK c \in Nat : c = CounterMod /\ c >= 4096
    <3>1. 1024 * 4 = 4096
      OBVIOUS
    <3> QED BY <3>1, ReaderAssumption
  <2>4. m >= c
    BY <2>1, <2>2, <2>3 DEF ManyTopics
  <2>5. remainlen_value \in Nat
    BY <2>1, Loaded
  <2>6. remainlen_value > 1024 * 4
    BY <2>2, <2>3, <2>4, <2>5
  <2>7. ~ TooLarge(remainlen_value)
    BY DEF Loadable
  <2> QED BY <2>6, <2>7 DEF TooLarge
<1> QED BY <1>3, <1>4, ReaderInvariant, PTL

(***************************************************************************)
(* A publication is sent on with as many bytes as it came with, but for    *)
(* the identifier, when its strings have no zero byte and its content has  *)
(* less than 2^16.                                                         *)
(***************************************************************************)
THEOREM ForwardsWhole == ReaderSpec => []ForwardedWhole
<1>1. ReaderInv => ForwardedWhole
  BY DEF ReaderInv
<1> QED BY <1>1, ReaderInvariant, PTL

(***************************************************************************)
(* The assertion of iotbroker_malloc fails only for a packet of more than  *)
(* 4091 bytes behind its length, whatever is sent on or answered.          *)
(***************************************************************************)
THEOREM AbortsOversize == ReaderSpec => []AbortsOnlyOversize
<1>1. ReaderInv => AbortsOnlyOversize
  BY DEF ReaderInv
<1> QED BY <1>1, ReaderInvariant, PTL

=============================================================================
