--------------------------- MODULE HashUriProofs ---------------------------
(* What the spellings of a digest keep of it, for every digest, and that     *)
(* walks of any length lose no more.                                         *)
EXTENDS HashUri, ListProofs

(* Least is the lesser of two numbers.                                       *)
LEMMA LeastIs ==
  ASSUME NEW m \in Nat, NEW n \in Nat
  PROVE  /\ Least(m, n) \in Nat /\ Least(m, n) <= m /\ Least(m, n) <= n
         /\ Least(m, n) \in {m, n}
         /\ m <= n => Least(m, n) = m
BY DEF Least

(* ------------------------------------------------------------------------ *)
(* Hexadecimal.                                                              *)

LEMMA HexDigitValue ==
  ASSUME NEW n \in 0..15
  PROVE  /\ HexDigit(n) \in HexChars
         /\ HexDigit(n) \in Alnum
         /\ HexValue(HexDigit(n)) = n
BY DEF HexDigit, HexChars, HexValue, Alnum

LEMMA Halves ==
  ASSUME NEW x \in Bytes
  PROVE  /\ x \div 16 \in 0..15 /\ x % 16 \in 0..15
         /\ 16 * (x \div 16) + (x % 16) = x
BY DEF Bytes

LEMMA HexEncoded ==
  ASSUME NEW b \in Seq(Bytes), Len(b) <= DigestMax
  PROVE  /\ hex_encode(b) \in Seq(Alnum)
         /\ Len(hex_encode(b)) = 2 * Len(b)
         /\ \A k \in 1..2 * Len(b) : hex_encode(b)[k] \in HexChars
         /\ \A i \in 1..Len(b) :
              /\ hex_encode(b)[2 * i - 1] = HexDigit(b[i] \div 16)
              /\ hex_encode(b)[2 * i] = HexDigit(b[i] % 16)
<1> DEFINE n == 2 * Len(b)
           half(k) == IF k % 2 = 1 THEN b[(k + 1) \div 2] \div 16 ELSE b[k \div 2] % 16
<1>1. Len(b) \in Nat  OBVIOUS
<1>2. Least(Len(b), DigestMax) = Len(b)  BY <1>1, LeastIs DEF DigestMax
<1>3. hex_encode(b) = [k \in 1..n |-> HexDigit(half(k))]  BY <1>2 DEF hex_encode
<1>4. ASSUME NEW k \in 1..n  PROVE half(k) \in 0..15
  <2>1. CASE k % 2 = 1
    <3>1. (k + 1) \div 2 \in 1..Len(b)  BY <1>1, <2>1
    <3>2. b[(k + 1) \div 2] \in Bytes  BY <3>1
    <3> QED  BY <2>1, <3>2, Halves
  <2>2. CASE k % 2 # 1
    <3>1. k \div 2 \in 1..Len(b)  BY <1>1, <2>2
    <3>2. b[k \div 2] \in Bytes  BY <3>1
    <3> QED  BY <2>2, <3>2, Halves
  <2> QED  BY <2>1, <2>2
<1>5. ASSUME NEW k \in 1..n
      PROVE  /\ hex_encode(b)[k] = HexDigit(half(k))
             /\ hex_encode(b)[k] \in HexChars /\ hex_encode(b)[k] \in Alnum
  BY <1>3, <1>4, HexDigitValue
<1>6. hex_encode(b) \in Seq(Alnum) /\ Len(hex_encode(b)) = n
  <2>1. \A k \in 1..n : HexDigit(half(k)) \in Alnum  BY <1>4, HexDigitValue
  <2>2. n \in Nat  BY <1>1
  <2> HIDE DEF n, half
  <2> QED  BY <1>3, <2>1, <2>2
<1>7. ASSUME NEW i \in 1..Len(b)
      PROVE  /\ hex_encode(b)[2 * i - 1] = HexDigit(b[i] \div 16)
             /\ hex_encode(b)[2 * i] = HexDigit(b[i] % 16)
  <2>1. /\ 2 * i - 1 \in 1..n /\ (2 * i - 1) % 2 = 1 /\ (2 * i - 1 + 1) \div 2 = i
        /\ 2 * i \in 1..n /\ (2 * i) % 2 # 1 /\ (2 * i) \div 2 = i
    BY <1>1
  <2>2. half(2 * i - 1) = b[i] \div 16  BY <2>1
  <2>3. half(2 * i) = b[i] % 16  BY <2>1
  <2> QED  BY <1>5, <2>1, <2>2, <2>3
<1> QED  BY <1>5, <1>6, <1>7

(* hex_decode undoes hex_encode, for every digest.                           *)
THEOREM HexRoundTrip ==
  ASSUME NEW b \in Seq(Bytes), Len(b) <= DigestMax
  PROVE  HexValid(hex_encode(b)) /\ hex_decode(hex_encode(b)) = b
<1> DEFINE s == hex_encode(b)
<1>1. Len(b) \in Nat /\ Len(s) = 2 * Len(b)  BY HexEncoded
<1>2. Len(s) \div 2 = Len(b)  BY <1>1
<1>3. HexValid(s)  BY <1>2, HexEncoded DEF HexValid
<1>4. ASSUME NEW i \in 1..Len(b)
      PROVE  16 * HexValue(s[2 * i - 1]) + HexValue(s[2 * i]) = b[i]
  <2>1. b[i] \in Bytes  OBVIOUS
  <2>2. s[2 * i - 1] = HexDigit(b[i] \div 16) /\ s[2 * i] = HexDigit(b[i] % 16)
    BY HexEncoded
  <2>3. HexValue(s[2 * i - 1]) = b[i] \div 16 /\ HexValue(s[2 * i]) = b[i] % 16
    BY <2>1, <2>2, Halves, HexDigitValue
  <2> QED  BY <2>1, <2>3, Halves
<1>5. hex_decode(s) = [i \in 1..Len(b) |-> 16 * HexValue(s[2 * i - 1]) + HexValue(s[2 * i])]
  BY <1>2 DEF hex_decode
<1>6. hex_decode(s) = [i \in 1..Len(b) |-> b[i]]
  <2> HIDE DEF s
  <2> QED  BY <1>4, <1>5
<1> QED  BY <1>3, <1>6

(* What a buffer for the hexadecimal digits of the longest digest holds.     *)
Sized(b) == SubSeq(b, 1, Least(Len(b), DigestMax))

LEMMA SizedIs ==
  ASSUME NEW b \in Seq(Bytes)
  PROVE  /\ Sized(b) \in Seq(Bytes)
         /\ Len(Sized(b)) = Least(Len(b), DigestMax)
         /\ Len(Sized(b)) <= DigestMax
         /\ IsPrefix(Sized(b), b)
         /\ Len(b) <= DigestMax => Sized(b) = b
         /\ hex_encode(Sized(b)) = hex_encode(b)
<1> DEFINE m == Least(Len(b), DigestMax)
           c == Sized(b)
<1>1. Len(b) \in Nat /\ DigestMax \in Nat  BY DEF DigestMax
<1>2. /\ m \in Nat /\ m <= Len(b) /\ m <= DigestMax
      /\ Len(b) <= DigestMax => m = Len(b)
  BY <1>1, LeastIs
<1>3. Least(m, DigestMax) = m  BY <1>1, <1>2, LeastIs
<1> HIDE DEF m
<1>4. c \in Seq(Bytes) /\ Len(c) = m /\ \A i \in 1..m : c[i] = b[i]
  BY <1>1, <1>2 DEF Sized, m
<1>5. IsPrefix(c, b)
  <2> HIDE DEF c
  <2> QED  BY <1>1, <1>2, <1>4 DEF IsPrefix
<1>6. Len(b) <= DigestMax => c = b  BY <1>2 DEF Sized, m
<1>7. hex_encode(c) = hex_encode(b)
  <2> HIDE DEF c
  <2> DEFINE half(x, k) == IF k % 2 = 1 THEN x[(k + 1) \div 2] \div 16 ELSE x[k \div 2] % 16
  <2>1. ASSUME NEW k \in 1..2 * m  PROVE half(c, k) = half(b, k)
    <3>1. CASE k % 2 = 1
      <4>1. (k + 1) \div 2 \in 1..m  BY <1>2, <3>1
      <4>2. c[(k + 1) \div 2] = b[(k + 1) \div 2]  BY <1>4, <4>1
      <4> QED  BY <3>1, <4>2
    <3>2. CASE k % 2 # 1
      <4>1. k \div 2 \in 1..m  BY <1>2, <3>2
      <4>2. c[k \div 2] = b[k \div 2]  BY <1>4, <4>1
      <4> QED  BY <3>2, <4>2
    <3> QED  BY <3>1, <3>2
  <2>2. hex_encode(c) = [k \in 1..2 * m |-> HexDigit(half(c, k))]
    BY <1>3, <1>4 DEF hex_encode
  <2>3. hex_encode(b) = [k \in 1..2 * m |-> HexDigit(half(b, k))]
    BY DEF hex_encode, m
  <2> HIDE DEF half
  <2> QED  BY <2>1, <2>2, <2>3
<1> QED  BY <1>2, <1>4, <1>5, <1>6, <1>7 DEF m

(* ------------------------------------------------------------------------ *)
(* Base64.                                                                   *)

LEMMA B64KeptIs == B64Kept = 63
BY DEF B64Kept, DigestMax

(* Where byte i of a group lies among the characters, and back.              *)
LEMMA Places ==
  ASSUME NEW i \in Nat \ {0}
  PROVE  LET k == (4 * (i - 1)) \div 3 + 1
         IN /\ i % 3 = 1 => /\ k % 4 = 1 /\ (3 * (k - 1)) \div 4 + 1 = i
                            /\ (k + 1) % 4 = 2 /\ (3 * (k + 1 - 1)) \div 4 + 1 = i
            /\ i % 3 = 2 => /\ k % 4 = 2 /\ (3 * (k - 1)) \div 4 + 1 = i - 1
                            /\ (k + 1) % 4 = 3 /\ (3 * (k + 1 - 1)) \div 4 + 1 = i
            /\ i % 3 = 0 => /\ k % 4 = 3 /\ (3 * (k - 1)) \div 4 + 1 = i - 1
                            /\ (k + 1) % 4 = 0 /\ (3 * (k + 1 - 1)) \div 4 + 1 = i
<1> DEFINE q == (i - 1) \div 3
           k == (4 * (i - 1)) \div 3 + 1
<1>1. q \in Nat  OBVIOUS
<1>2. i = 3 * q + 1 \/ i = 3 * q + 2 \/ i = 3 * q + 3  OBVIOUS
<1>3. CASE i = 3 * q + 1
  <2>1. k = 4 * q + 1  BY <1>1, <1>3
  <2> HIDE DEF q, k
  <2> QED  BY <1>1, <1>3, <2>1
<1>4. CASE i = 3 * q + 2
  <2>1. k = 4 * q + 2  BY <1>1, <1>4
  <2> HIDE DEF q, k
  <2> QED  BY <1>1, <1>4, <2>1
<1>5. CASE i = 3 * q + 3
  <2>1. k = 4 * q + 3  BY <1>1, <1>5
  <2> HIDE DEF q, k
  <2> QED  BY <1>1, <1>5, <2>1
<1> QED  BY <1>2, <1>3, <1>4, <1>5

(* A byte from the parts of it that two characters have.                     *)
LEMMA Parts ==
  ASSUME NEW w \in Bytes, NEW x \in Bytes, NEW y \in Bytes
  PROVE  /\ (x \div 4) * 4 + ((x % 4) * 16 + y \div 16) \div 16 = x
         /\ (((w % 4) * 16 + x \div 16) % 16) * 16 + ((x % 16) * 4 + y \div 64) \div 4 = x
         /\ (((w % 16) * 4 + x \div 64) % 4) * 64 + (x % 64) = x
         /\ x \div 4 \in 0..63 /\ (x % 4) * 16 + y \div 16 \in 0..63
         /\ (x % 16) * 4 + y \div 64 \in 0..63 /\ x % 64 \in 0..63
<1>1. /\ x \div 4 \in 0..63 /\ x % 4 \in 0..3 /\ x = 4 * (x \div 4) + (x % 4)
      /\ x \div 16 \in 0..15 /\ x % 16 \in 0..15 /\ x = 16 * (x \div 16) + (x % 16)
      /\ x \div 64 \in 0..3 /\ x % 64 \in 0..63 /\ x = 64 * (x \div 64) + (x % 64)
  BY DEF Bytes
<1>2. y \div 16 \in 0..15 /\ y \div 64 \in 0..3 /\ w % 4 \in 0..3 /\ w % 16 \in 0..15
  BY DEF Bytes
<1>3. ((x % 4) * 16 + y \div 16) \div 16 = x % 4  BY <1>1, <1>2
<1>4. /\ ((w % 4) * 16 + x \div 16) % 16 = x \div 16
      /\ ((x % 16) * 4 + y \div 64) \div 4 = x % 16
  BY <1>1, <1>2
<1>5. ((w % 16) * 4 + x \div 64) % 4 = x \div 64  BY <1>1, <1>2
<1> QED  BY <1>1, <1>2, <1>3, <1>4, <1>5

LEMMA ByteAtIs ==
  ASSUME NEW b \in Seq(Bytes), NEW i \in Nat \ {0}
  PROVE  ByteAt(b, i) \in Bytes /\ (i <= Len(b) => ByteAt(b, i) = b[i])
<1>1. i <= Len(b) => b[i] \in Bytes  OBVIOUS
<1> QED  BY <1>1 DEF ByteAt, Bytes

LEMMA SextetType ==
  ASSUME NEW b \in Seq(Bytes), NEW k \in Nat \ {0}
  PROVE  Sextet(b, k) \in 0..63
<1> DEFINE i == (3 * (k - 1)) \div 4 + 1
<1>1. i \in Nat \ {0} /\ i + 1 \in Nat \ {0}  OBVIOUS
<1>2. ByteAt(b, i) \in Bytes /\ ByteAt(b, i + 1) \in Bytes  BY <1>1, ByteAtIs
<1> HIDE DEF i
<1>3. /\ ByteAt(b, i) \div 4 \in 0..63 /\ ByteAt(b, i) % 64 \in 0..63
      /\ (ByteAt(b, i) % 4) * 16 + ByteAt(b, i + 1) \div 16 \in 0..63
      /\ (ByteAt(b, i) % 16) * 4 + ByteAt(b, i + 1) \div 64 \in 0..63
  BY <1>2, Parts
<1> QED  BY <1>3 DEF Sextet, i

LEMMA NoPad == \A c \in 0..65 : c < 66 /\ c \in (0..67) \ {PadChar}
BY DEF PadChar

LEMMA B64CharValue ==
  ASSUME NEW v \in 0..63, NEW kind \in {"std", "url"}
  PROVE  /\ B64Value(B64Char(kind, v)) = v
         /\ B64Char(kind, v) \in 0..65
         /\ kind = "url" => B64Char(kind, v) \in Alnum \cup {64, 65}
         /\ kind = "std" => B64Char(kind, v) \in 0..63
BY DEF B64Value, B64Char, Alnum

(* What a base64 buffer holds of a digest.                                   *)
Kept(b) == SubSeq(b, 1, Least(Len(b), B64Kept))

LEMMA KeptIs ==
  ASSUME NEW b \in Seq(Bytes)
  PROVE  /\ Kept(b) \in Seq(Bytes)
         /\ Len(Kept(b)) = Least(Len(b), B64Kept)
         /\ Len(Kept(b)) \in 0..63
         /\ IsPrefix(Kept(b), b)
         /\ Kept(Kept(b)) = Kept(b)
<1> DEFINE m == Least(Len(b), B64Kept)
<1>1. Len(b) \in Nat /\ m \in Nat /\ m <= Len(b) /\ m <= 63
  <2>1. m = IF Len(b) < 63 THEN Len(b) ELSE 63  BY B64KeptIs DEF Least
  <2> HIDE DEF m
  <2> QED  BY <2>1
<1>2. Kept(b) \in Seq(Bytes) /\ Len(Kept(b)) = m /\ \A i \in 1..m : Kept(b)[i] = b[i]
  <2> HIDE DEF m
  <2> QED  BY <1>1 DEF Kept, m
<1>3. IsPrefix(Kept(b), b)
  <2> HIDE DEF m
  <2> QED  BY <1>1, <1>2 DEF IsPrefix
<1>4. Least(m, B64Kept) = m
  <2>1. B64Kept \in Nat /\ m <= B64Kept  BY <1>1, B64KeptIs
  <2> HIDE DEF m
  <2> QED  BY <1>1, <2>1, LeastIs
<1>5. Kept(Kept(b)) = Kept(b)
  <2> HIDE DEF m
  <2> QED  BY <1>1, <1>2, <1>4 DEF Kept
<1>6. m \in 0..63
  <2> HIDE DEF m
  <2> QED  BY <1>1
<1> QED  BY <1>2, <1>3, <1>5, <1>6

(* The characters that they take.                                            *)
Letters(b) == (8 * Len(Kept(b)) + 5) \div 6

LEMMA B64Encoded ==
  ASSUME NEW b \in Seq(Bytes), NEW kind \in {"std", "url"}
  PROVE  LET s == b64_encode(kind, b)
             n == Letters(b)
         IN /\ s \in Seq(0..66) /\ n \in 0..Len(s) /\ Len(s) - n \in 0..3
            /\ kind = "url" => Len(s) = n
            /\ \A k \in 1..n : /\ s[k] = B64Char(kind, Sextet(Kept(b), k))
                               /\ B64Value(s[k]) = Sextet(Kept(b), k)
                               /\ s[k] \in 0..65
                               /\ kind = "url" => s[k] \in Alnum \cup {64, 65}
                               /\ kind = "std" => s[k] \in 0..63
            /\ \A k \in n + 1..Len(s) : s[k] = PadChar
<1> DEFINE s == b64_encode(kind, b)
           n == Letters(b)
           size == IF kind = "std" THEN 4 * ((n + 3) \div 4) ELSE n
           at(k) == IF k > n THEN PadChar ELSE B64Char(kind, Sextet(Kept(b), k))
<1>1. Kept(b) \in Seq(Bytes) /\ Len(Kept(b)) \in 0..63  BY KeptIs
<1>2. n \in Nat  BY <1>1 DEF Letters
<1>3. size \in Nat /\ n <= size /\ size - n \in 0..3  BY <1>2
<1>4. s = [k \in 1..size |-> at(k)]  BY DEF b64_encode, Kept, Letters
<1>5. ASSUME NEW k \in 1..n  PROVE Sextet(Kept(b), k) \in 0..63
  <2>1. k \in Nat \ {0}  BY <1>2
  <2> QED  BY <1>1, <2>1, SextetType
<1>6. ASSUME NEW k \in 1..size  PROVE at(k) \in 0..66
  <2>1. CASE k > n  BY <2>1 DEF PadChar
  <2>2. CASE ~(k > n)
    <3>1. k \in 1..n  BY <1>2, <1>3, <2>2
    <3>2. B64Char(kind, Sextet(Kept(b), k)) \in 0..65  BY <1>5, <3>1, B64CharValue
    <3> QED  BY <2>2, <3>2
  <2> QED  BY <2>1, <2>2
<1> HIDE DEF size, at
<1>7. s \in Seq(0..66) /\ Len(s) = size  BY <1>3, <1>4, <1>6
<1>8. ASSUME NEW k \in 1..n
      PROVE  /\ s[k] = B64Char(kind, Sextet(Kept(b), k))
             /\ B64Value(s[k]) = Sextet(Kept(b), k)
             /\ s[k] \in 0..65
             /\ kind = "url" => s[k] \in Alnum \cup {64, 65}
             /\ kind = "std" => s[k] \in 0..63
  <2>1. k \in 1..size /\ ~(k > n)  BY <1>2, <1>3
  <2>2. s[k] = B64Char(kind, Sextet(Kept(b), k))  BY <1>4, <2>1 DEF at
  <2> DEFINE v == Sextet(Kept(b), k)
  <2>3. v \in 0..63  BY <1>5
  <2> HIDE DEF s, v, n
  <2>4. /\ B64Value(B64Char(kind, v)) = v
        /\ B64Char(kind, v) \in 0..65
        /\ kind = "url" => B64Char(kind, v) \in Alnum \cup {64, 65}
        /\ kind = "std" => B64Char(kind, v) \in 0..63
    BY <2>3, B64CharValue
  <2> QED  BY <2>2, <2>4 DEF v
<1>9. ASSUME NEW k \in n + 1..size  PROVE s[k] = PadChar
  <2>1. k \in 1..size /\ k > n  BY <1>2, <1>3
  <2> QED  BY <1>4, <2>1 DEF at
<1>10. kind = "url" => size = n  BY DEF size
<1> HIDE DEF s
<1>11. /\ n \in 0..Len(s) /\ Len(s) - n \in 0..3
       /\ kind = "url" => Len(s) = n
       /\ \A k \in n + 1..Len(s) : s[k] = PadChar
  BY <1>2, <1>3, <1>7, <1>9, <1>10
<1> QED  BY <1>7, <1>8, <1>11 DEF s

(* b64_decode undoes b64_encode, in either alphabet and for every digest, up *)
(* to the bytes that the buffer holds.                                       *)
THEOREM B64RoundTrip ==
  ASSUME NEW b \in Seq(Bytes), NEW kind \in {"std", "url"}
  PROVE  /\ B64Valid(b64_encode(kind, b))
         /\ b64_decode(b64_encode(kind, b)) = Kept(b)
<1> DEFINE s == b64_encode(kind, b)
           m == Len(Kept(b))
           n == Letters(b)
<1>1. Kept(b) \in Seq(Bytes) /\ m \in 0..63  BY KeptIs
<1>2. /\ s \in Seq(0..66) /\ n \in 0..Len(s)
      /\ \A k \in 1..n : B64Value(s[k]) = Sextet(Kept(b), k)
      /\ \A k \in 1..n : s[k] \in 0..65
      /\ \A k \in n + 1..Len(s) : s[k] = PadChar
  <2>1. s \in Seq(0..66) /\ n \in 0..Len(s)  BY B64Encoded
  <2>2. ASSUME NEW k \in 1..n  PROVE B64Value(s[k]) = Sextet(Kept(b), k) /\ s[k] \in 0..65
    <3>1. B64Value(s[k]) = Sextet(Kept(b), k)  BY B64Encoded, Zenon
    <3>2. s[k] \in 0..65  BY B64Encoded, Zenon
    <3> QED  BY <3>1, <3>2
  <2>3. ASSUME NEW k \in n + 1..Len(s)  PROVE s[k] = PadChar
    BY B64Encoded
  <2> HIDE DEF s, n
  <2> QED  BY <2>1, <2>2, <2>3
<1>3. Unpadded(s) = n
  <2>1. ASSUME NEW k \in 1..n  PROVE s[k] \in (0..67) \ {PadChar}
    <3>1. s[k] \in 0..65  BY <1>2
    <3> QED  BY <3>1, NoPad, Zenon
  <2>2. n < Len(s) => s[n + 1] \notin (0..67) \ {PadChar}
    <3> HIDE DEF s, n
    <3> QED  BY <1>2
  <2> HIDE DEF s, n
  <2> QED  BY <1>2, <2>1, <2>2, SpanIs DEF Unpadded
<1>4. B64Valid(s)
  <2>1. ASSUME NEW k \in 1..n  PROVE s[k] < 66
    <3>1. s[k] \in 0..65  BY <1>2
    <3> QED  BY <3>1, NoPad, Zenon
  <2> HIDE DEF s, n
  <2> QED  BY <1>3, <2>1 DEF B64Valid, PadChar
<1>5. (6 * n) \div 8 = m /\ n = (8 * m + 5) \div 6  BY <1>1 DEF Letters
<1>6. ASSUME NEW i \in 1..m
      PROVE  LET k == (4 * (i - 1)) \div 3 + 1
                 hi == B64Value(s[k])
                 lo == B64Value(s[k + 1])
             IN (IF i % 3 = 1 THEN hi * 4 + lo \div 16
                 ELSE IF i % 3 = 2 THEN (hi % 16) * 16 + lo \div 4
                 ELSE (hi % 4) * 64 + lo) = Kept(b)[i]
  <2> DEFINE k == (4 * (i - 1)) \div 3 + 1
             hi == B64Value(s[k])
             lo == B64Value(s[k + 1])
             w == ByteAt(Kept(b), i - 1)
             x == Kept(b)[i]
             y == ByteAt(Kept(b), i + 1)
  <2>1. k \in 1..n /\ k + 1 \in 1..n /\ i \in Nat \ {0} /\ k \in Nat
    BY <1>1, <1>5
  <2>2. hi = Sextet(Kept(b), k) /\ lo = Sextet(Kept(b), k + 1)  BY <1>2, <2>1
  <2>3. x \in Bytes /\ y \in Bytes /\ x = ByteAt(Kept(b), i)
    BY <1>1, <2>1, ByteAtIs
  <2>4. i > 1 => w \in Bytes  BY <1>1, <2>1, ByteAtIs
  <2>5. i - 1 + 1 = i  BY <2>1
  <2>6. CASE i % 3 = 1
    <3>1. k % 4 = 1 /\ (3 * (k - 1)) \div 4 + 1 = i  BY <2>1, <2>6, Places
    <3>2. (k + 1) % 4 = 2 /\ (3 * (k + 1 - 1)) \div 4 + 1 = i  BY <2>1, <2>6, Places
    <3> HIDE DEF k
    <3>3. hi = x \div 4  BY <2>2, <2>3, <3>1 DEF Sextet
    <3>4. lo = (x % 4) * 16 + y \div 16  BY <2>1, <2>2, <2>3, <3>2 DEF Sextet
    <3>5. hi * 4 + lo \div 16 = x
      <4> HIDE DEF hi, lo, x, y
      <4> QED  BY <2>3, <3>3, <3>4, Parts
    <3> QED  BY <2>6, <3>5 DEF k
  <2>7. CASE i % 3 = 2
    <3>1. k % 4 = 2 /\ (3 * (k - 1)) \div 4 + 1 = i - 1  BY <2>1, <2>7, Places
    <3>2. (k + 1) % 4 = 3 /\ (3 * (k + 1 - 1)) \div 4 + 1 = i  BY <2>1, <2>7, Places
    <3>3. i > 1  BY <2>1, <2>7
    <3> HIDE DEF k
    <3>4. hi = (w % 4) * 16 + x \div 16  BY <2>2, <2>3, <2>5, <3>1 DEF Sextet
    <3>5. lo = (x % 16) * 4 + y \div 64  BY <2>1, <2>2, <2>3, <3>2 DEF Sextet
    <3>6. (hi % 16) * 16 + lo \div 4 = x
      <4> HIDE DEF hi, lo, w, x, y
      <4> QED  BY <2>3, <2>4, <3>3, <3>4, <3>5, Parts
    <3> QED  BY <2>7, <3>6 DEF k
  <2>8. CASE i % 3 = 0
    <3>1. k % 4 = 3 /\ (3 * (k - 1)) \div 4 + 1 = i - 1  BY <2>1, <2>8, Places
    <3>2. (k + 1) % 4 = 0 /\ (3 * (k + 1 - 1)) \div 4 + 1 = i  BY <2>1, <2>8, Places
    <3>3. i > 1  BY <2>1, <2>8
    <3> HIDE DEF k
    <3>4. hi = (w % 16) * 4 + x \div 64  BY <2>2, <2>3, <2>5, <3>1 DEF Sextet
    <3>5. lo = x % 64  BY <2>1, <2>2, <2>3, <3>2 DEF Sextet
    <3>6. (hi % 4) * 64 + lo = x
      <4> HIDE DEF hi, lo, w, x, y
      <4> QED  BY <2>3, <2>4, <3>3, <3>4, <3>5, Parts
    <3> QED  BY <2>8, <3>6 DEF k
  <2>9. i % 3 = 1 \/ i % 3 = 2 \/ i % 3 = 0  BY <2>1
  <2> QED  BY <2>6, <2>7, <2>8, <2>9
<1>7. b64_decode(s) = [i \in 1..m |-> Kept(b)[i]]
  <2> HIDE DEF s, n, m
  <2> QED  BY <1>3, <1>5, <1>6 DEF b64_decode
<1> QED  BY <1>1, <1>4, <1>7

(* ------------------------------------------------------------------------ *)
(* Texts.                                                                    *)

IsBytes(b) == b \in Seq(Bytes) /\ Len(b) <= DigestMax

LEMMA KeptBegins ==
  ASSUME NEW b \in Seq(Bytes), NEW c \in {b, Kept(b), Sized(b)}
  PROVE  /\ c \in Seq(Bytes) /\ IsPrefix(c, b)
         /\ Len(c) >= Least(Len(b), B64Kept)
         /\ Len(c) <= Len(b)
         /\ IsBytes(Kept(b)) /\ IsBytes(Sized(b))
<1> DEFINE n == Least(Len(b), B64Kept)
           m == Least(Len(b), DigestMax)
<1>1. Len(b) \in Nat /\ B64Kept = 63 /\ DigestMax = 64  BY B64KeptIs DEF DigestMax
<1>2. n \in Nat /\ m \in Nat /\ n <= m /\ m <= Len(b) /\ n <= DigestMax
  BY <1>1 DEF Least
<1>3. Kept(b) \in Seq(Bytes) /\ Len(Kept(b)) = n /\ IsPrefix(Kept(b), b)  BY KeptIs
<1>4. /\ Sized(b) \in Seq(Bytes) /\ Len(Sized(b)) = m /\ IsPrefix(Sized(b), b)
      /\ Len(Sized(b)) <= DigestMax
  BY SizedIs
<1>5. IsPrefix(b, b)  BY DEF IsPrefix
<1> HIDE DEF n, m
<1>6. Len(c) >= n /\ Len(c) <= Len(b)  BY <1>1, <1>2, <1>3, <1>4
<1>7. IsBytes(Kept(b)) /\ IsBytes(Sized(b))  BY <1>1, <1>2, <1>3, <1>4 DEF IsBytes
<1>8. c \in Seq(Bytes) /\ IsPrefix(c, b)  BY <1>3, <1>4, <1>5
<1> QED  BY <1>6, <1>7, <1>8 DEF n

LEMMA WholeSpan ==
  ASSUME NEW S, NEW s \in Seq(S), NEW class, \A k \in 1..Len(s) : s[k] \in class
  PROVE  Span(s, class) = Len(s) /\ SubSeq(s, 1, Span(s, class)) = s
<1>1. Len(s) \in 0..Len(s) /\ ~(Len(s) < Len(s))  OBVIOUS
<1>2. Span(s, class) = Len(s)  BY <1>1, SpanIs
<1> QED  BY <1>2

(* hash_uri_parse reads what hash_uri_format writes, in every form but the   *)
(* multihash: the algorithm, and what its buffer keeps of the digest.        *)
THEOREM FormatParses ==
  ASSUME NEW d, d.algo \in Algos, d.bytes \in Seq(Bytes),
         NEW type \in Types \ {"multihash"}
  PROVE  LET t == hash_uri_format(d, type)
         IN /\ Parses(t)
            /\ Parsed(t) = [algo |-> d.algo,
                            bytes |-> IF type \in {"hash", "magnet"} THEN Sized(d.bytes)
                                      ELSE Kept(d.bytes)]
<1> DEFINE t == hash_uri_format(d, type)
<1>1. t.form = type /\ t.name = d.algo /\ t.upper = FALSE  BY DEF hash_uri_format, Types
<1>2. hash_algo_parse(t) = d.algo  BY <1>1 DEF hash_algo_parse, Types
<1>3. d.bytes \in Seq(Bytes)  OBVIOUS
<1>4. CASE type \in {"hash", "magnet"}
  <2> DEFINE c == Sized(d.bytes)
             s == hex_encode(c)
  <2>0. c \in Seq(Bytes) /\ Len(c) <= DigestMax /\ s = hex_encode(d.bytes)  BY SizedIs
  <2>1. t.body = s  BY <1>4, <2>0 DEF hash_uri_format
  <2> HIDE DEF c
  <2>2. HexValid(s) /\ hex_decode(s) = c  BY <2>0, HexRoundTrip
  <2>3. s \in Seq(Alnum)  BY <2>0, HexEncoded
  <2> HIDE DEF s
  <2>4. Fits(s, Alnum \cup {64, 65, 67}) /\ \A k \in 1..Len(s) : s[k] \in Alnum
    BY <2>3 DEF Fits
  <2>5. MagnetBody(t) = s  BY <2>1, <2>3, <2>4, WholeSpan DEF MagnetBody, Take
  <2> HIDE DEF t
  <2>6. CASE type = "hash"
    <3>1. Parses(t)  BY <1>1, <2>1, <2>2, <2>4, <2>6 DEF Parses, hash_uri_parse_hash_uri
    <3>2. Parsed(t).bytes = c  BY <1>1, <2>1, <2>2, <2>6 DEF Parsed
    <3> QED  BY <1>2, <2>6, <3>1, <3>2 DEF Parsed, t, c
  <2>7. CASE type = "magnet"
    <3>1. Parses(t)  BY <1>1, <2>2, <2>5, <2>7 DEF Parses, hash_uri_parse_magnet
    <3>2. Parsed(t).bytes = c  BY <1>1, <2>2, <2>5, <2>7 DEF Parsed
    <3> QED  BY <1>2, <2>7, <3>1, <3>2 DEF Parsed, t, c
  <2> QED  BY <1>4, <2>6, <2>7
<1>5. CASE type = "ni"
  <2> DEFINE s == b64_encode("url", d.bytes)
             n == Letters(d.bytes)
  <2>1. t.body = s  BY <1>5 DEF hash_uri_format
  <2>2. B64Valid(s) /\ b64_decode(s) = Kept(d.bytes)  BY <1>3, B64RoundTrip
  <2>3. /\ s \in Seq(0..66) /\ Len(s) = n
        /\ \A k \in 1..n : s[k] \in Alnum \cup {64, 65}
    BY <1>3, B64Encoded
  <2> HIDE DEF s, n, t
  <2>4. Fits(s, Alnum \cup {64, 65})  BY <2>3 DEF Fits
  <2>5. Parses(t)  BY <1>1, <1>5, <2>1, <2>2, <2>4 DEF Parses, hash_uri_parse_named_info
  <2>6. Parsed(t).bytes = Kept(d.bytes)  BY <1>1, <1>5, <2>1, <2>2 DEF Parsed
  <2> QED  BY <1>2, <1>5, <2>5, <2>6 DEF Parsed, t
<1>6. CASE type \in {"prefix", "ssb"}
  <2> DEFINE s == b64_encode("std", d.bytes)
             n == Letters(d.bytes)
  <2>1. t.body = s  BY <1>6 DEF hash_uri_format
  <2>2. B64Valid(s) /\ b64_decode(s) = Kept(d.bytes)  BY <1>3, B64RoundTrip
  <2>3. /\ s \in Seq(0..66) /\ n \in 0..Len(s) /\ Len(s) - n \in 0..3
        /\ \A k \in 1..n : s[k] \in 0..63
        /\ \A k \in n + 1..Len(s) : s[k] = PadChar
    BY <1>3, B64Encoded
  <2> HIDE DEF s, n, t
  <2>4. \A k \in 1..Len(s) : s[k] \in (0..63) \cup {PadChar}
    <3>1. \A k \in 1..Len(s) : k \in 1..n \/ k \in n + 1..Len(s)  BY <2>3
    <3> QED  BY <2>3, <3>1
  <2>5. Fits(s, (0..63) \cup {PadChar})
    <3>1. DOMAIN s = 1..Len(s)  BY <2>3
    <3> QED  BY <2>4, <3>1 DEF Fits
  <2>6. Span(s, 0..63) = n
    <3>1. n < Len(s) => s[n + 1] \notin 0..63
      <4>1. n < Len(s) => n + 1 \in n + 1..Len(s)  BY <2>3
      <4>2. n < Len(s) => s[n + 1] = PadChar  BY <2>3, <4>1
      <4>3. PadChar \notin 0..63  BY DEF PadChar
      <4> QED  BY <4>2, <4>3
    <3> QED  BY <2>3, <3>1, SpanIs
  <2>7. d.algo # "v1"  BY DEF Algos
  <2>8. CASE type = "prefix"
    <3>1. Parses(t)  BY <1>1, <2>1, <2>2, <2>5, <2>8 DEF Parses, hash_uri_parse_prefix
    <3>2. Parsed(t).bytes = Kept(d.bytes)  BY <1>1, <2>1, <2>2, <2>8 DEF Parsed
    <3> QED  BY <1>2, <2>8, <3>1, <3>2 DEF Parsed, t
  <2>9. CASE type = "ssb"
    <3>1. hash_uri_parse_ssb(t)
      BY <1>1, <2>1, <2>3, <2>5, <2>6, <2>7 DEF hash_uri_parse_ssb
    <3>2. Parses(t)  BY <1>1, <2>9, <3>1 DEF Parses
    <3>3. Parsed(t).bytes = Kept(d.bytes)  BY <1>1, <2>1, <2>2, <2>9 DEF Parsed
    <3> QED  BY <1>2, <2>9, <3>2, <3>3 DEF Parsed, t
  <2> QED  BY <1>6, <2>8, <2>9
<1> QED  BY <1>4, <1>5, <1>6 DEF Types

(* A multihash parses to the digest it was made from or not at all, and it   *)
(* does parse when the digest has the length of one of its algorithms.       *)
THEOREM MultihashParses ==
  ASSUME NEW d, Formats(d, "multihash"), IsBytes(d.bytes)
  PROVE  LET t == hash_uri_format(d, "multihash")
         IN /\ Parses(t) \/ MayFail(t)
            /\ Strays(t) = 0
            /\ Parsed(t) = [algo |-> d.algo, bytes |-> d.bytes]
<1> DEFINE t == hash_uri_format(d, "multihash")
           code == MultihashCode[d.algo]
           len == DigestLen[d.algo]
           n == Len(d.bytes)
<1>1. t.form = "multihash" /\ t.body = <<code, len>> \o d.bytes  BY DEF hash_uri_format
<1>2. d.bytes \in Seq(Bytes) /\ n \in Nat  BY DEF IsBytes
<1>3. d.algo \in DOMAIN MultihashCode  BY DEF Formats
<1>4. Len(t.body) = n + 2 /\ t.body[1] = code /\ SubSeq(t.body, 3, Len(t.body)) = d.bytes
  <2> HIDE DEF t, code, len
  <2>1. \A i \in 1..n : (<<code, len>> \o d.bytes)[i + 2] = d.bytes[i]  BY <1>2
  <2>2. Len(<<code, len>> \o d.bytes) = n + 2 /\ (<<code, len>> \o d.bytes)[1] = code
    BY <1>2
  <2> QED  BY <1>1, <1>2, <2>1, <2>2
<1>5. \A a \in DOMAIN MultihashCode : MultihashCode[a] = code => a = d.algo
  BY <1>3 DEF MultihashCode
<1>6. Ones(t) = 0
  <2>1. code \in Bytes /\ len \in Bytes /\ code # 0
    BY <1>3 DEF MultihashCode, DigestLen, Bytes
  <2>2. <<code, len>> \o d.bytes \in Seq(Bytes)
    <3> HIDE DEF code, len
    <3>1. <<code, len>> \in Seq(Bytes)  BY <2>1
    <3> QED  BY <1>2, <3>1
  <2>3. t.body \in Seq(Bytes)  BY <1>1, <2>2
  <2> HIDE DEF t, code, len
  <2>4. 0 \in 0..Len(t.body) /\ t.body[0 + 1] \notin {0}  BY <1>2, <1>4, <2>1
  <2>5. Span(t.body, {0}) = 0
    <3>1. \A k \in 1..0 : t.body[k] \in {0}  OBVIOUS
    <3> QED  BY <2>3, <2>4, <3>1, SpanIs
  <2> QED  BY <2>5 DEF Ones
<1>7. hash_algo_parse(t) = d.algo
  <2> HIDE DEF t, code
  <2>1. (CHOOSE a \in DOMAIN MultihashCode : MultihashCode[a] = code) = d.algo
    <3>1. MultihashCode[d.algo] = code  BY DEF code
    <3> QED  BY <1>3, <1>5, <3>1
  <2> QED  BY <1>1, <1>4, <1>6, <2>1 DEF hash_algo_parse
<1>8. Parsed(t) = [algo |-> d.algo, bytes |-> d.bytes]
  <2> HIDE DEF t
  <2>1. Ones(t) + 3 = 3  BY <1>6
  <2>2. Parsed(t) = [algo |-> hash_algo_parse(t), bytes |-> SubSeq(t.body, Ones(t) + 3, Len(t.body))]
    BY <1>1 DEF Parsed
  <2> QED  BY <1>4, <1>7, <2>1, <2>2
<1>9. ASSUME ~MayFail(t)  PROVE Parses(t)
  <2>1. n + 2 \in {22, 34, 66}
    <3>1. PICK a \in DOMAIN MultihashCode : n + 2 = DigestLen[a] + 2
      BY <1>1, <1>4, <1>9 DEF MayFail
    <3> QED  BY <3>1 DEF MultihashCode, DigestLen
  <2> HIDE DEF t, code
  <2>2. Len(t.body) - Ones(t) = n + 2 /\ B58Chars(t) = B58Digits[n + 2]
    BY <1>2, <1>4, <1>6, HashUriAssumption, <2>1 DEF B58Chars
  <2>3. B58Room(t) = n + 2 /\ B58Chars(t) >= 8
    <3> DEFINE c == B58Chars(t)
    <3>1. \/ n + 2 = 22 /\ c = 30
          \/ n + 2 = 34 /\ c = 46
          \/ n + 2 = 66 /\ c = 90
      BY <2>1, <2>2, HashUriAssumption
    <3>2. B58Room(t) = Least(66, (c * 6) \div 8)  BY DEF B58Room, DigestMax
    <3> HIDE DEF n, c
    <3>3. Least(66, (c * 6) \div 8) = n + 2 /\ c >= 8  BY <3>1 DEF Least
    <3> QED  BY <3>2, <3>3 DEF c
  <2>4. n + 2 \in 1..2 + DigestMax  BY <2>1 DEF DigestMax
  <2>5. MultihashCode[d.algo] = t.body[Ones(t) + 1]  BY <1>4, <1>6 DEF code
  <2> QED
    BY <1>1, <1>3, <2>2, <2>3, <2>4, <2>5 DEF Parses, hash_uri_parse_multihash
<1>10. Strays(t) = 0  BY <1>6 DEF Strays
<1> QED  BY <1>8, <1>9, <1>10

(* ------------------------------------------------------------------------ *)
(* Texts from elsewhere.                                                     *)

LEMMA HexDecoded ==
  ASSUME NEW s \in Seq(0..67), HexValid(s)
  PROVE  hex_decode(s) \in Seq(Bytes)
<1>1. \A c \in HexChars : HexValue(c) \in 0..15  BY DEF HexChars, HexValue
<1>2. ASSUME NEW i \in 1..Len(s) \div 2
      PROVE  16 * HexValue(s[2 * i - 1]) + HexValue(s[2 * i]) \in Bytes
  <2>1. 2 * i - 1 \in 1..2 * (Len(s) \div 2) /\ 2 * i \in 1..2 * (Len(s) \div 2)  OBVIOUS
  <2>2. HexValue(s[2 * i - 1]) \in 0..15 /\ HexValue(s[2 * i]) \in 0..15
    BY <1>1, <2>1 DEF HexValid
  <2> DEFINE hi == HexValue(s[2 * i - 1])
             lo == HexValue(s[2 * i])
  <2> HIDE DEF hi, lo
  <2>3. hi \in 0..15 /\ lo \in 0..15  BY <2>2 DEF hi, lo
  <2>4. 16 * hi + lo \in Bytes  BY <2>3 DEF Bytes
  <2> QED  BY <2>4 DEF hi, lo
<1>3. Len(s) \div 2 \in Nat  OBVIOUS
<1> QED  BY <1>2, <1>3 DEF hex_decode

LEMMA B64Decoded ==
  ASSUME NEW s \in Seq(0..67), B64Valid(s)
  PROVE  b64_decode(s) \in Seq(Bytes)
<1> DEFINE n == Unpadded(s)
           byte(i) == LET k == (4 * (i - 1)) \div 3 + 1
                          hi == B64Value(s[k])
                          lo == B64Value(s[k + 1])
                      IN IF i % 3 = 1 THEN hi * 4 + lo \div 16
                         ELSE IF i % 3 = 2 THEN (hi % 16) * 16 + lo \div 4
                         ELSE (hi % 4) * 64 + lo
<1>1. n \in 0..Len(s)  BY SpanProperties DEF Unpadded
<1>2. ASSUME NEW k \in 1..n  PROVE B64Value(s[k]) \in 0..63
  <2> DEFINE c == s[k]
  <2>1. k \in 1..Len(s)  BY <1>1
  <2>2. c < 66  BY DEF B64Valid, PadChar
  <2> HIDE DEF n
  <2>3. c \in 0..67
    <3>1. s[k] \in 0..67  BY <2>1, ElementOfSeq
    <3> QED  BY <3>1
  <2> HIDE DEF c
  <2>4. B64Value(c) \in 0..63  BY <2>2, <2>3 DEF B64Value
  <2> QED  BY <2>4 DEF c
<1> HIDE DEF n
<1>3. ASSUME NEW i \in 1..(6 * n) \div 8  PROVE byte(i) \in Bytes
  <2> DEFINE k == (4 * (i - 1)) \div 3 + 1
             hi == B64Value(s[k])
             lo == B64Value(s[k + 1])
  <2>1. k \in 1..n /\ k + 1 \in 1..n  BY <1>1
  <2>2. hi \in 0..63 /\ lo \in 0..63  BY <1>2, <2>1
  <2> HIDE DEF k, hi, lo
  <2>3. /\ hi * 4 + lo \div 16 \in 0..255
        /\ (hi % 16) * 16 + lo \div 4 \in 0..255
        /\ (hi % 4) * 64 + lo \in 0..255
    BY <2>2
  <2> QED  BY <2>3 DEF Bytes, k, hi, lo
<1>4. b64_decode(s) = [i \in 1..(6 * n) \div 8 |-> byte(i)]  BY DEF b64_decode, n
<1>5. (6 * n) \div 8 \in Nat  BY <1>1
<1> HIDE DEF byte
<1> QED  BY <1>3, <1>4, <1>5

(* A text parses to bytes, and a multihash that begins with no "1" to no     *)
(* more than fit in the buffer for its spelling.                             *)
LEMMA ParsedBytes ==
  ASSUME NEW t \in Typed, Parses(t)
  PROVE  /\ Parsed(t).bytes \in Seq(Bytes)
         /\ t.form = "multihash" => Len(Parsed(t).bytes) <= DigestMax
<1> DEFINE s == t.body
<1>1. t.form \in Types /\ s \in Seq(IF t.form = "multihash" THEN Bytes ELSE 0..67)
  BY HashUriAssumption
<1>2. CASE t.form = "hash"
  <2>1. HexValid(s)  BY <1>2 DEF Parses, hash_uri_parse_hash_uri
  <2> QED  BY <1>1, <1>2, <2>1, HexDecoded DEF Parsed
<1>3. CASE t.form = "magnet"
  <2>1. HexValid(MagnetBody(t))  BY <1>3 DEF Parses, hash_uri_parse_magnet
  <2>2. MagnetBody(t) \in Seq(0..67)  BY <1>1, <1>3, TakeProperties DEF MagnetBody
  <2> QED  BY <1>3, <2>1, <2>2, HexDecoded DEF Parsed
<1>4. CASE t.form \in {"ni", "prefix", "ssb"}
  <2>1. s \in Seq(0..67)  BY <1>1, <1>4
  <2>2. B64Valid(s)
    <3>1. CASE t.form = "ni"  BY <3>1 DEF Parses, hash_uri_parse_named_info
    <3>2. CASE t.form = "prefix"  BY <3>2 DEF Parses, hash_uri_parse_prefix
    <3>3. CASE t.form = "ssb"
      <4>1. Fits(s, (0..63) \cup {PadChar})  BY <3>3 DEF Parses, hash_uri_parse_ssb
      <4>2. ASSUME NEW k \in 1..Unpadded(s)  PROVE s[k] < PadChar
        <5> DEFINE c == s[k]
        <5> HIDE DEF s
        <5>1. Unpadded(s) \in 0..Len(s)  BY <2>1, SpanProperties DEF Unpadded
        <5>2. c \in (0..67) \ {PadChar}
          <6>1. \A j \in 1..Unpadded(s) : s[j] \in (0..67) \ {PadChar}
            BY <2>1, SpanProperties DEF Unpadded
          <6> QED  BY <6>1
        <5>3. c \in (0..63) \cup {PadChar}
          <6>1. k \in DOMAIN s  BY <2>1, <5>1
          <6> QED  BY <4>1, <6>1 DEF Fits
        <5> HIDE DEF c
        <5>4. c < PadChar  BY <5>2, <5>3 DEF PadChar
        <5> QED  BY <5>4 DEF c
      <4> QED  BY <4>2 DEF B64Valid
    <3> QED  BY <1>4, <3>1, <3>2, <3>3
  <2> QED  BY <1>4, <2>1, <2>2, B64Decoded DEF Parsed
<1>5. CASE t.form = "multihash"
  <2>1. s \in Seq(Bytes)  BY <1>1, <1>5
  <2>2. Ones(t) \in 0..Len(s)  BY <2>1, SpanProperties DEF Ones
  <2>3. Len(s) - Ones(t) \in 1..2 + DigestMax  BY <1>5 DEF Parses, hash_uri_parse_multihash
  <2>4. Parsed(t).bytes = SubSeq(s, Ones(t) + 3, Len(s))  BY <1>5 DEF Parsed
  <2> DEFINE m == Ones(t)
             n == Len(s)
  <2> HIDE DEF s, m, n
  <2>5. n \in Nat /\ m \in Nat /\ m <= n /\ n - m <= 66
    <3>1. n \in Nat  BY <2>1, LenProperties DEF n
    <3>2. m \in 0..n  BY <2>2 DEF m, n
    <3>3. n - m \in 1..66  BY <2>3 DEF m, n, DigestMax
    <3> QED  BY <3>1, <3>2, <3>3
  <2>6. CASE m + 3 <= n + 1
    <3>1. m + 3 \in 1..n + 1 /\ n - (m + 3) + 1 <= 64  BY <2>5, <2>6
    <3>2. /\ SubSeq(s, m + 3, n) \in Seq(Bytes)
          /\ Len(SubSeq(s, m + 3, n)) = n - (m + 3) + 1
      BY <2>1, <2>5, <3>1 DEF n
    <3> QED  BY <2>4, <3>1, <3>2 DEF m, n, DigestMax
  <2>7. CASE ~(m + 3 <= n + 1)
    <3>1. SubSeq(s, m + 3, n) = <<>>  BY <2>1, <2>5, <2>7
    <3>2. Parsed(t).bytes = <<>>  BY <2>4, <3>1 DEF m, n
    <3>3. <<>> \in Seq(Bytes) /\ Len(<<>>) <= DigestMax  BY DEF DigestMax
    <3> QED  BY <3>2, <3>3
  <2> QED  BY <2>6, <2>7
<1> QED  BY <1>1, <1>2, <1>3, <1>4, <1>5 DEF Types

(* With no byte that nobody wrote there is one reading.                      *)
LEMMA OneReading ==
  ASSUME NEW t, Strays(t) = 0, Parsed(t).bytes \in Seq(Bytes), NEW d \in Readings(t)
  PROVE  d = Parsed(t)
<1>1. PICK e \in [1..0 -> StrayBytes] : d = [algo |-> Parsed(t).algo, bytes |-> Parsed(t).bytes \o e]
  BY DEF Readings
<1>2. e = <<>>  OBVIOUS
<1>3. Parsed(t).bytes \o <<>> = Parsed(t).bytes  OBVIOUS
<1>4. Parsed(t) = [algo |-> Parsed(t).algo, bytes |-> Parsed(t).bytes]  BY DEF Parsed
<1> QED  BY <1>1, <1>2, <1>3, <1>4

(* ------------------------------------------------------------------------ *)
(* Walks.                                                                    *)

(* LinkKeepsDigest does not say what the page is about, that a link that was *)
(* shown leads back to a stored digest, nor why it never overruns.           *)
Inv ==
  /\ mirror \subseteq {Copied(d) : d \in Digests}
  /\ source.at \in Archives => source.digest \in Stored(source.at)
  /\ source.digest.bytes \in Seq(Bytes)
  /\ intact /\ link.form \in Types /\ Parses(link) =>
       /\ Parsed(link).bytes \in Seq(Bytes)
       /\ link.form = "multihash" \/ source.at \in Archives => Len(Parsed(link).bytes) <= DigestMax
       /\ source.at \in Archives => Strays(link) = 0
  /\ intact /\ page.at # Nowhere => /\ link.form \in Types /\ Parses(link)
                                    /\ page.digest = Parsed(link)
                                    /\ ~Overruns(page.digest)
  /\ LinkKeepsDigest

LEMMA Copies ==
  ASSUME NEW d \in Digests
  PROVE  /\ IsBytes(d.bytes) /\ d.algo \in Algos
         /\ Copied(d) = [algo |-> d.algo, bytes |-> Kept(d.bytes)]
<1>1. d.algo \in Algos /\ d.bytes \in Seq(Bytes) /\ Len(d.bytes) <= DigestMax
  <2>1. d.algo \in Algos /\ d.bytes \in Seq(Bytes) /\ Len(d.bytes) \in 1..DigestLen[d.algo]
    BY HashUriAssumption
  <2> QED  BY <2>1 DEF Algos, DigestLen, DigestMax
<1>2. b64_decode(b64_encode("std", d.bytes)) = Kept(d.bytes)  BY <1>1, B64RoundTrip
<1>3. hash_uri_format(d, "prefix").body = b64_encode("std", d.bytes)
  BY DEF hash_uri_format
<1> QED  BY <1>1, <1>2, <1>3 DEF Copied, IsBytes

LEMMA StoredBytes ==
  ASSUME Inv, NEW a \in Archives, NEW d \in Stored(a)
  PROVE  d.algo \in Algos /\ IsBytes(d.bytes)
<1>1. CASE d \in Digests  BY <1>1, Copies
<1>2. CASE \E x \in Digests : d = Copied(x)
  <2>1. PICK x \in Digests : d = Copied(x)  BY <1>2
  <2>2. IsBytes(Kept(x.bytes))  BY Copies, KeptBegins DEF IsBytes
  <2> QED  BY <2>1, <2>2, Copies
<1> QED  BY <1>1, <1>2 DEF Inv, Stored, Archives

(* What formatting a digest does to the invariant.                           *)
LEMMA FormatKeeps ==
  ASSUME NEW d, NEW type \in Types, Formats(d, type), d.bytes \in Seq(Bytes), ~Overruns(d)
  PROVE  LET t == hash_uri_format(d, type)
         IN /\ t.form = type
            /\ Parses(t) \/ MayFail(t)
            /\ Strays(t) = 0
            /\ IsBytes(Parsed(t).bytes)
            /\ Parsed(t).algo = d.algo
            /\ Parsed(t).bytes \in {d.bytes, Kept(d.bytes), Sized(d.bytes)}
<1>1. hash_uri_format(d, type).form = type  BY DEF hash_uri_format
<1>2. IsBytes(Kept(d.bytes)) /\ IsBytes(Sized(d.bytes))  BY KeptBegins
<1>3. CASE type = "multihash"
  <2>1. IsBytes(d.bytes)
    <3>1. Len(d.bytes) \in Nat /\ ~(Len(d.bytes) > DigestMax)  BY <1>3 DEF Overruns
    <3> QED  BY <3>1 DEF IsBytes, DigestMax
  <2> QED  BY <1>1, <1>3, <2>1, MultihashParses
<1>4. CASE type # "multihash"
  <2>1. d.algo \in Algos  BY DEF Formats
  <2>2. Strays(hash_uri_format(d, type)) = 0  BY <1>1, <1>4 DEF Strays
  <2> QED  BY <1>1, <1>2, <1>4, <2>1, <2>2, FormatParses
<1> QED  BY <1>3, <1>4

LEMMA BeginsAgain ==
  ASSUME NEW d, NEW e, NEW x, Begins(d, x), d.bytes \in Seq(Bytes), x.bytes \in Seq(Bytes),
         e.algo = d.algo, e.bytes \in {d.bytes, Kept(d.bytes), Sized(d.bytes)}
  PROVE  Begins(e, x)
<1> DEFINE b == d.bytes  c == e.bytes  y == x.bytes
<1>1. b \in Seq(Bytes) /\ y \in Seq(Bytes) /\ IsPrefix(b, y) /\ Len(b) >= Least(Len(y), B64Kept)
  BY DEF Begins
<1>2. c \in Seq(Bytes) /\ IsPrefix(c, b) /\ Len(c) >= Least(Len(b), B64Kept)
  BY <1>1, KeptBegins
<1>3. IsPrefix(c, y)
  <2> HIDE DEF b, c, y
  <2> QED  BY <1>1, <1>2 DEF IsPrefix
<1>4. Len(c) >= Least(Len(y), B64Kept)
  <2>1. Len(b) \in Nat /\ Len(y) \in Nat /\ Len(c) \in Nat /\ B64Kept \in Nat
    BY <1>1, <1>2, B64KeptIs
  <2> HIDE DEF b, c, y
  <2> QED  BY <1>1, <1>2, <2>1 DEF Least
<1> QED  BY <1>3, <1>4 DEF Begins

LEMMA BeginsItself ==
  ASSUME NEW d, d.bytes \in Seq(Bytes)
  PROVE  Begins(d, d)
BY KeptBegins DEF Begins

LEMMA InvInit == Init => Inv
<1> SUFFICES ASSUME Init PROVE Inv  OBVIOUS
<1>1. Nowhere \notin Archives  BY DEF Nowhere, Archives
<1>2. <<>> \in Seq(Bytes)  OBVIOUS
<1>3. "none" \notin Types  BY DEF Types
<1> QED  BY <1>1, <1>2, <1>3 DEF Init, Inv, LinkKeepsDigest, NoText, NoDigest

LEMMA InvNext == Inv /\ [Next]_vars => Inv'
<1> SUFFICES ASSUME Inv, [Next]_vars PROVE Inv'  OBVIOUS
<1>1. ASSUME NEW a \in Archives, NEW type \in Types, NEW d \in Stored(a), ShowLink(a, d, type)
      PROVE  Inv'
  <2>1. d.algo \in Algos /\ d.bytes \in Seq(Bytes) /\ Len(d.bytes) <= DigestMax
    BY StoredBytes DEF IsBytes
  <2>2. Formats(d, type) /\ link' = hash_uri_format(d, type) /\ mirror' = mirror /\ intact'
        /\ source' = [at |-> a, digest |-> d] /\ page'.at = Nowhere
    BY <1>1 DEF ShowLink, Shut
  <2>3. ~Overruns(d)
    <3>1. Len(d.bytes) \in Nat  BY <2>1
    <3> QED  BY <2>1, <3>1 DEF Overruns, DigestMax
  <2>4. /\ link'.form = type
        /\ Parses(link') \/ MayFail(link')
        /\ Strays(link') = 0
        /\ IsBytes(Parsed(link').bytes)
        /\ Parsed(link').algo = d.algo
        /\ Parsed(link').bytes \in {d.bytes, Kept(d.bytes), Sized(d.bytes)}
    BY <2>1, <2>2, <2>3, FormatKeeps
  <2>5. Begins(Parsed(link'), d)  BY <2>1, <2>4, BeginsItself, BeginsAgain
  <2>6. (source.at \in Archives => source.digest \in Stored(source.at))'
    BY <2>2 DEF Stored
  <2> QED  BY <2>1, <2>2, <2>4, <2>5, <2>6 DEF Inv, LinkKeepsDigest, IsBytes
<1>2. ASSUME NEW t \in Typed, BringText(t)
      PROVE  Inv'
  <2> DEFINE d == IF Parses(t) THEN Parsed(t) ELSE NoDigest
  <2>1. link' = t /\ mirror' = mirror /\ page'.at = Nowhere /\ intact'
        /\ source' = [at |-> "elsewhere", digest |-> d]
    BY <1>2 DEF BringText, Shut
  <2>2. Parses(t) => /\ Parsed(t).bytes \in Seq(Bytes)
                     /\ t.form = "multihash" => Len(Parsed(t).bytes) <= DigestMax
    BY ParsedBytes
  <2>3. d.bytes \in Seq(Bytes)
    <3>1. <<>> \in Seq(Bytes)  OBVIOUS
    <3> QED  BY <2>2, <3>1 DEF NoDigest
  <2>4. Parses(t) => Begins(Parsed(t), d)  BY <2>2, BeginsItself
  <2>5. "elsewhere" \notin Archives  BY DEF Archives
  <2> HIDE DEF d
  <2> QED  BY <2>1, <2>2, <2>3, <2>4, <2>5 DEF Inv, LinkKeepsDigest
<1>3. ASSUME NEW a \in Archives, FollowLink(a)
      PROVE  Inv'
  <2>1. /\ Parses(link) /\ link.form \in Types
        /\ mirror' = mirror /\ link' = link /\ source' = source
    BY <1>3 DEF FollowLink, Parses, Types
  <2>2. PICK d \in Readings(link) :
          /\ page' = [at |-> a, digest |-> d] \/ (Overruns(d) /\ Shut)
          /\ intact' = (intact /\ Strays(link) = 0 /\ ~Overruns(d))
    BY <1>3 DEF FollowLink
  <2>3. intact /\ Strays(link) = 0 => d = Parsed(link)
    BY <2>1, OneReading DEF Inv
  <2>4. intact' => intact /\ page' = [at |-> a, digest |-> Parsed(link)] /\ ~Overruns(Parsed(link))
    BY <2>2, <2>3
  <2>5. source.at \in Archives => intact'
    <3> SUFFICES ASSUME source.at \in Archives PROVE intact'  OBVIOUS
    <3>1. intact /\ Strays(link) = 0 /\ Parsed(link).bytes \in Seq(Bytes)
          /\ Len(Parsed(link).bytes) <= DigestMax
      BY <2>1 DEF Inv, LinkKeepsDigest
    <3>2. Len(Parsed(link).bytes) \in Nat  BY <3>1
    <3>3. ~Overruns(Parsed(link))  BY <3>1, <3>2 DEF Overruns, DigestMax
    <3> QED  BY <2>2, <2>3, <3>1, <3>3
  <2> QED  BY <2>1, <2>4, <2>5 DEF Inv, LinkKeepsDigest, Stored
<1>4. ASSUME NEW type \in Types, Respell(type)
      PROVE  Inv'
  <2> DEFINE d == page.digest
  <2>1. /\ Formats(d, type) /\ page.at # Nowhere
        /\ link' = hash_uri_format(d, type) \/ (Overruns(d) /\ link' = NoText)
        /\ page'.at = Nowhere /\ mirror' = mirror /\ source' = source /\ intact' = intact
    BY <1>4 DEF Respell, Shut
  <2>2. ASSUME intact
        PROVE  /\ d.bytes \in Seq(Bytes) /\ Begins(d, source.digest)
               /\ ~Overruns(d) /\ source.digest.bytes \in Seq(Bytes)
    BY <2>1, <2>2 DEF Inv, LinkKeepsDigest
  <2>3. ASSUME intact
        PROVE  /\ link'.form = type
               /\ Parses(link') \/ MayFail(link')
               /\ Strays(link') = 0
               /\ IsBytes(Parsed(link').bytes)
               /\ Parsed(link').algo = d.algo
               /\ Parsed(link').bytes \in {d.bytes, Kept(d.bytes), Sized(d.bytes)}
    BY <2>1, <2>2, <2>3, FormatKeeps
  <2>4. intact => Begins(Parsed(link'), source.digest)  BY <2>2, <2>3, BeginsAgain
  <2> HIDE DEF d
  <2>5. CASE intact  BY <2>1, <2>3, <2>4, <2>5 DEF Inv, LinkKeepsDigest, Stored, IsBytes
  <2>6. CASE ~intact  BY <2>1, <2>6 DEF Inv, LinkKeepsDigest, Stored
  <2> QED  BY <2>5, <2>6
<1>5. ASSUME NEW d \in Digests, Mirror(d)
      PROVE  Inv'
  <2>1. /\ mirror' = mirror \cup {Copied(d)} /\ link' = link /\ source' = source
        /\ page' = page /\ intact' = intact
    BY <1>5 DEF Mirror
  <2> QED  BY <2>1 DEF Inv, LinkKeepsDigest, Stored
<1>6. CASE UNCHANGED vars  BY <1>6 DEF vars, Inv, LinkKeepsDigest, Stored
<1> QED  BY <1>1, <1>2, <1>3, <1>4, <1>5, <1>6 DEF Next

LEMMA Invariance == Spec => []Inv
BY InvInit, InvNext, PTL DEF Spec

(* However often digests are followed and spelled anew, a link parses to the *)
(* beginning of the digest it came from, as long as nothing undefined is     *)
(* done, and a link of an archive leads to nothing undefined.                *)
THEOREM LinkCorrect == Spec => []LinkKeepsDigest
<1>1. Inv => LinkKeepsDigest  BY DEF Inv
<1> QED  BY <1>1, Invariance, PTL

LEMMA InvFinds == Inv => FollowingFindsSource
<1> SUFFICES ASSUME Inv, page.at \in {"archive", source.at}, source.at \in Archives
             PROVE  \E x \in Found(page.at, page.digest) : IsPrefix(source.digest.bytes, x.bytes)
  BY DEF FollowingFindsSource
<1> DEFINE s == source.digest
<1>1. page.at \in Archives /\ page.at # Nowhere  BY DEF Archives, Nowhere
<1>2. Begins(page.digest, s)  BY <1>1 DEF Inv, LinkKeepsDigest
<1>3. s \in Stored(source.at) /\ s.bytes \in Seq(Bytes)  BY DEF Inv
<1>4. page.digest.bytes \in Seq(Bytes)  BY <1>1 DEF Inv, LinkKeepsDigest
<1>5. CASE page.at = source.at
  <2>1. s \in Found(page.at, page.digest)  BY <1>2, <1>3, <1>5 DEF Found, Begins
  <2> QED  BY <1>3, <2>1, KeptBegins
<1>6. CASE page.at = "archive" /\ source.at = "mirror"
  <2>1. PICK x \in Digests : s = Copied(x)  BY <1>3, <1>6 DEF Stored, Inv
  <2>2. IsBytes(x.bytes) /\ s.algo = x.algo /\ s.bytes = Kept(x.bytes)  BY <2>1, Copies
  <2>3. IsPrefix(s.bytes, x.bytes)  BY <2>2, KeptIs DEF IsBytes
  <2>4. IsPrefix(page.digest.bytes, s.bytes) /\ page.digest.algo = s.algo
    BY <1>2 DEF Begins
  <2>5. IsPrefix(page.digest.bytes, x.bytes)
    <3> DEFINE b == page.digest.bytes  c == s.bytes  y == x.bytes
    <3>1. b \in Seq(Bytes) /\ c \in Seq(Bytes) /\ y \in Seq(Bytes)
      BY <1>3, <1>4, <2>2 DEF IsBytes
    <3>2. IsPrefix(b, c) /\ IsPrefix(c, y)  BY <2>3, <2>4
    <3> HIDE DEF b, c, y
    <3>3. IsPrefix(b, y)  BY <3>1, <3>2 DEF IsPrefix
    <3> QED  BY <3>3 DEF b, y
  <2>6. x \in Found(page.at, page.digest)
    BY <1>6, <2>2, <2>4, <2>5 DEF Found, Stored
  <2> QED  BY <2>3, <2>6
<1> QED  BY <1>5, <1>6 DEF Archives

(* A link of the archive or its mirror finds the digest it was made from.    *)
THEOREM FollowingCorrect == Spec => []FollowingFindsSource
BY Invariance, InvFinds, PTL

LEMMA InvNormal == Inv => NormalIsStable
<1> DEFINE d == Parsed(link)
           type == link.form
           t == Normal(link)
<1> SUFFICES ASSUME Inv, intact, type \in Types, Normalizes(link), Strays(link) = 0, ~MayFail(t)
             PROVE  Normalizes(t) /\ Normal(t) = t /\ Begins(Parsed(t), d)
  BY DEF NormalIsStable
<1>1. /\ d.bytes \in Seq(Bytes) /\ Formats(d, type) /\ t = hash_uri_format(d, type)
      /\ type = "multihash" => Len(d.bytes) <= DigestMax
  BY DEF Inv, Normalizes, Normal
<1> HIDE DEF d, type, t
<1>2. type = "multihash" => IsBytes(d.bytes)  BY <1>1 DEF IsBytes
<1>3. /\ t.form = type /\ Parses(t)
      /\ Parsed(t).bytes \in Seq(Bytes) /\ Parsed(t).algo = d.algo
      /\ Parsed(t).bytes \in {d.bytes, Kept(d.bytes), Sized(d.bytes)}
  <2>1. CASE type = "multihash"
    <3>1. t.form = type  BY <1>1 DEF hash_uri_format
    <3> QED  BY <1>1, <1>2, <2>1, <3>1, MultihashParses
  <2>2. CASE type # "multihash"
    <3>1. t.form = type  BY <1>1 DEF hash_uri_format
    <3>2. d.algo \in Algos  BY <1>1 DEF Formats
    <3>3. Kept(d.bytes) \in Seq(Bytes) /\ Sized(d.bytes) \in Seq(Bytes)  BY <1>1, KeptIs, SizedIs
    <3> QED  BY <1>1, <2>2, <3>1, <3>2, <3>3, FormatParses
  <2> QED  BY <2>1, <2>2
<1>4. Normalizes(t)  BY <1>1, <1>3 DEF Normalizes, Formats
<1>5. Begins(Parsed(t), d)  BY <1>1, <1>3, BeginsItself, BeginsAgain
<1>6. hash_uri_format(Parsed(t), type) = hash_uri_format(d, type)
  <2>1. CASE type = "multihash"
    <3>1. Parsed(t).bytes = d.bytes  BY <1>1, <1>2, <2>1, MultihashParses
    <3> QED  BY <1>3, <3>1 DEF hash_uri_format
  <2>2. CASE type \in {"hash", "magnet"}
    <3>1. d.algo \in Algos /\ type \in Types \ {"multihash"}
      BY <1>1, <2>2 DEF Formats, Types
    <3>2. Parsed(t).bytes = Sized(d.bytes)  BY <1>1, <2>2, <3>1, FormatParses
    <3>3. hex_encode(Parsed(t).bytes) = hex_encode(d.bytes)  BY <1>1, <3>2, SizedIs
    <3> QED  BY <1>3, <2>2, <3>3 DEF hash_uri_format
  <2>3. CASE type \in {"ni", "prefix", "ssb"}
    <3>1. Kept(Parsed(t).bytes) = Kept(d.bytes)
      <4>1. d.algo \in Algos /\ type \in Types \ {"multihash"}
        BY <1>1, <2>3 DEF Formats, Types
      <4>2. Parsed(t).bytes = Kept(d.bytes)  BY <1>1, <2>3, <4>1, FormatParses
      <4> QED  BY <1>1, <4>2, KeptIs
    <3>2. \A kind : b64_encode(kind, Parsed(t).bytes) = b64_encode(kind, d.bytes)
      BY <3>1 DEF b64_encode, Kept
    <3> QED  BY <1>3, <2>3, <3>2 DEF hash_uri_format
  <2> QED  BY <2>1, <2>2, <2>3 DEF type, Types
<1> QED  BY <1>1, <1>3, <1>4, <1>5, <1>6 DEF Normal

(* Normal forms are stable.                                                  *)
THEOREM NormalCorrect == Spec => []NormalIsStable
BY Invariance, InvNormal, PTL
=============================================================================
