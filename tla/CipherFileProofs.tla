-------------------------- MODULE CipherFileProofs --------------------------
(***************************************************************************)
(* Why a file of any length, sealed a buffer of any size at a time, comes  *)
(* back whole; and the two halves of the key's conversion, for keys of any *)
(* length.                                                                 *)
(***************************************************************************)
EXTENDS CipherFileInv, Sm4Proofs, SequenceTheorems

-----------------------------------------------------------------------------
(* Bytes and the words they are read into.                                  *)

(* The bit of a byte that has a weight.                                     *)
LEMMA GetAt ==
    ASSUME NEW s, NEW i \in Nat, NEW n \in 0..3, NEW j \in 0..7
    PROVE  Get(s, i)[8 * n + j] = (s[i + 1 + n] \div Weights[j + 1]) % 2
<1>1. 8 * n + j \in Bits /\ (8 * n + j) \div 8 = n /\ (8 * n + j) % 8 = j
  BY DEF Bits
<1> QED BY <1>1 DEF Get

(* The weights of the bits of a byte, the first bit of a word the highest.  *)
LEMMA WeightsAre ==
    /\ Weights[0 + 1] = 128 /\ Weights[1 + 1] = 64 /\ Weights[2 + 1] = 32 /\ Weights[3 + 1] = 16
    /\ Weights[4 + 1] = 8 /\ Weights[5 + 1] = 4 /\ Weights[6 + 1] = 2 /\ Weights[7 + 1] = 1
  BY DEF Weights

(* A byte is the sum of its bits.                                           *)
LEMMA BitsOfByte ==
    ASSUME NEW b \in Bytes
    PROVE  128 * ((b \div 128) % 2) + 64 * ((b \div 64) % 2) + 32 * ((b \div 32) % 2)
           + 16 * ((b \div 16) % 2) + 8 * ((b \div 8) % 2) + 4 * ((b \div 4) % 2)
           + 2 * ((b \div 2) % 2) + ((b \div 1) % 2) = b
<1>1. b \in Int /\ 0 <= b /\ b <= 255
  BY DEF Bytes
<1>2. \A q \in Int : q = 2 * (q \div 2) + (q % 2)
  OBVIOUS
<1>3. b \div 1 = b /\ (b \div 128) \div 2 = 0
  BY <1>1
<1>4. b \div 2 = b \div 2 /\ b \div 2 \in Int
  BY <1>1
<1>5. (b \div 2) \div 2 = b \div 4 /\ b \div 4 \in Int
  BY <1>1
<1>6. (b \div 4) \div 2 = b \div 8 /\ b \div 8 \in Int
  BY <1>1
<1>7. (b \div 8) \div 2 = b \div 16 /\ b \div 16 \in Int
  BY <1>1
<1>8. (b \div 16) \div 2 = b \div 32 /\ b \div 32 \in Int
  BY <1>1
<1>9. (b \div 32) \div 2 = b \div 64 /\ b \div 64 \in Int
  BY <1>1
<1>10. (b \div 64) \div 2 = b \div 128 /\ b \div 128 \in Int
  BY <1>1
<1>11. /\ b = 2 * (b \div 2) + ((b \div 1) % 2)
       /\ b \div 2 = 2 * (b \div 4) + ((b \div 2) % 2)
       /\ b \div 4 = 2 * (b \div 8) + ((b \div 4) % 2)
       /\ b \div 8 = 2 * (b \div 16) + ((b \div 8) % 2)
       /\ b \div 16 = 2 * (b \div 32) + ((b \div 16) % 2)
       /\ b \div 32 = 2 * (b \div 64) + ((b \div 32) % 2)
       /\ b \div 64 = 2 * (b \div 128) + ((b \div 64) % 2)
       /\ b \div 128 = (b \div 128) % 2
  BY <1>1, <1>2, <1>3, <1>4, <1>5, <1>6, <1>7, <1>8, <1>9, <1>10
<1> QED BY <1>1, <1>4, <1>5, <1>6, <1>7, <1>8, <1>9, <1>10, <1>11

(* What is read out of four bytes is written as those bytes.                *)
LEMMA ByteOfGet ==
    ASSUME NEW s, NEW i \in Nat, NEW n \in 0..3, s[i + 1 + n] \in Bytes
    PROVE  ByteOf(Get(s, i), n) = s[i + 1 + n]
<1> DEFINE b == s[i + 1 + n]
           w == Get(s, i)
<1>1. /\ w[8 * n + 0] = (b \div 128) % 2 /\ w[8 * n + 1] = (b \div 64) % 2
      /\ w[8 * n + 2] = (b \div 32) % 2 /\ w[8 * n + 3] = (b \div 16) % 2
      /\ w[8 * n + 4] = (b \div 8) % 2 /\ w[8 * n + 5] = (b \div 4) % 2
      /\ w[8 * n + 6] = (b \div 2) % 2 /\ w[8 * n + 7] = (b \div 1) % 2
  <2>1. \A j \in 0..7 : w[8 * n + j] = (b \div Weights[j + 1]) % 2
    BY GetAt
  <2> HIDE DEF w, b
  <2> QED BY <2>1, WeightsAre
<1>2. b \in Bytes
  OBVIOUS
<1>3. w[8 * n] = w[8 * n + 0]
  OBVIOUS
<1> HIDE DEF w, b
<1>4. ByteOf(w, n) = 128 * ((b \div 128) % 2) + 64 * ((b \div 64) % 2) + 32 * ((b \div 32) % 2)
                     + 16 * ((b \div 16) % 2) + 8 * ((b \div 8) % 2) + 4 * ((b \div 4) % 2)
                     + 2 * ((b \div 2) % 2) + ((b \div 1) % 2)
  <2>1. ByteOf(w, n) = 128 * w[8 * n] + 64 * w[8 * n + 1] + 32 * w[8 * n + 2] + 16 * w[8 * n + 3]
                       + 8 * w[8 * n + 4] + 4 * w[8 * n + 5] + 2 * w[8 * n + 6] + w[8 * n + 7]
    BY DEF ByteOf
  <2> QED BY <1>1, <1>3, <2>1
<1>5. ByteOf(w, n) = b
  BY <1>2, <1>4, BitsOfByte
<1> QED BY <1>5 DEF w, b

(* The byte of eight bits and each of them.                                 *)
LEMMA ByteOfBits ==
    ASSUME NEW b0 \in 0..1, NEW b1 \in 0..1, NEW b2 \in 0..1, NEW b3 \in 0..1,
           NEW b4 \in 0..1, NEW b5 \in 0..1, NEW b6 \in 0..1, NEW b7 \in 0..1,
           NEW b, b = 128 * b0 + 64 * b1 + 32 * b2 + 16 * b3 + 8 * b4 + 4 * b5 + 2 * b6 + b7
    PROVE  /\ b \in Bytes
           /\ (b \div 128) % 2 = b0 /\ (b \div 64) % 2 = b1
           /\ (b \div 32) % 2 = b2 /\ (b \div 16) % 2 = b3
           /\ (b \div 8) % 2 = b4 /\ (b \div 4) % 2 = b5
           /\ (b \div 2) % 2 = b6 /\ (b \div 1) % 2 = b7
<1>1. b \in Bytes
  BY DEF Bytes
<1>2. (b \div 128) % 2 = b0
  OBVIOUS
<1>3. (b \div 64) % 2 = b1
  OBVIOUS
<1>4. (b \div 32) % 2 = b2
  OBVIOUS
<1>5. (b \div 16) % 2 = b3
  OBVIOUS
<1>6. (b \div 8) % 2 = b4
  OBVIOUS
<1>7. (b \div 4) % 2 = b5
  OBVIOUS
<1>8. (b \div 2) % 2 = b6
  OBVIOUS
<1>9. (b \div 1) % 2 = b7
  OBVIOUS
<1> QED BY <1>1, <1>2, <1>3, <1>4, <1>5, <1>6, <1>7, <1>8, <1>9

(* Each byte put has the bits of its quarter of the word.                   *)
LEMMA PutByte ==
    ASSUME NEW w \in Words, NEW n \in 0..3
    PROVE  /\ ByteOf(w, n) \in Bytes
           /\ \A j \in 0..7 : (ByteOf(w, n) \div Weights[j + 1]) % 2 = w[8 * n + j]
<1> DEFINE b == ByteOf(w, n)
<1>1. \A j \in 0..7 : w[8 * n + j] \in 0..1
  <2> TAKE j \in 0..7
  <2>1. 8 * n + j \in Bits
    BY DEF Bits
  <2>2. w[8 * n + j] \in {0, 1}
    BY <2>1 DEF Words
  <2> QED BY <2>2
<1>2. /\ w[8 * n] \in 0..1 /\ w[8 * n + 1] \in 0..1 /\ w[8 * n + 2] \in 0..1
      /\ w[8 * n + 3] \in 0..1 /\ w[8 * n + 4] \in 0..1 /\ w[8 * n + 5] \in 0..1
      /\ w[8 * n + 6] \in 0..1 /\ w[8 * n + 7] \in 0..1
  <2>1. 8 * n = 8 * n + 0
    OBVIOUS
  <2> QED BY <1>1, <2>1
<1>3. b = 128 * w[8 * n] + 64 * w[8 * n + 1] + 32 * w[8 * n + 2] + 16 * w[8 * n + 3]
          + 8 * w[8 * n + 4] + 4 * w[8 * n + 5] + 2 * w[8 * n + 6] + w[8 * n + 7]
  BY DEF ByteOf
<1> HIDE DEF b
<1>4. /\ b \in Bytes
      /\ (b \div 128) % 2 = w[8 * n] /\ (b \div 64) % 2 = w[8 * n + 1]
      /\ (b \div 32) % 2 = w[8 * n + 2] /\ (b \div 16) % 2 = w[8 * n + 3]
      /\ (b \div 8) % 2 = w[8 * n + 4] /\ (b \div 4) % 2 = w[8 * n + 5]
      /\ (b \div 2) % 2 = w[8 * n + 6] /\ (b \div 1) % 2 = w[8 * n + 7]
  <2> DEFINE b0 == w[8 * n]
             b1 == w[8 * n + 1]
             b2 == w[8 * n + 2]
             b3 == w[8 * n + 3]
             b4 == w[8 * n + 4]
             b5 == w[8 * n + 5]
             b6 == w[8 * n + 6]
             b7 == w[8 * n + 7]
  <2>1. /\ b0 \in 0..1 /\ b1 \in 0..1 /\ b2 \in 0..1 /\ b3 \in 0..1
        /\ b4 \in 0..1 /\ b5 \in 0..1 /\ b6 \in 0..1 /\ b7 \in 0..1
        /\ b = 128 * b0 + 64 * b1 + 32 * b2 + 16 * b3 + 8 * b4 + 4 * b5 + 2 * b6 + b7
    BY <1>2, <1>3
  <2> HIDE DEF b0, b1, b2, b3, b4, b5, b6, b7
  <2>2. /\ b \in Bytes
        /\ (b \div 128) % 2 = b0 /\ (b \div 64) % 2 = b1
        /\ (b \div 32) % 2 = b2 /\ (b \div 16) % 2 = b3
        /\ (b \div 8) % 2 = b4 /\ (b \div 4) % 2 = b5
        /\ (b \div 2) % 2 = b6 /\ (b \div 1) % 2 = b7
    BY <2>1, ByteOfBits
  <2> QED BY <2>2 DEF b0, b1, b2, b3, b4, b5, b6, b7
<1>5. ASSUME NEW j \in 0..7 PROVE (b \div Weights[j + 1]) % 2 = w[8 * n + j]
  <2>1. 8 * n + 0 = 8 * n
    OBVIOUS
  <2>2. j = 0 \/ j = 1 \/ j = 2 \/ j = 3 \/ j = 4 \/ j = 5 \/ j = 6 \/ j = 7
    OBVIOUS
  <2> QED BY <1>4, <2>1, <2>2, WeightsAre
<1> QED BY <1>4, <1>5 DEF b

(* What a word is written as is read as that word.                          *)
LEMMA GetOfPut ==
    ASSUME NEW w \in Words, NEW s, NEW i \in Nat,
           \A n \in 0..3 : s[i + 1 + n] = ByteOf(w, n)
    PROVE  Get(s, i) = w
<1>1. ASSUME NEW p \in Bits PROVE Get(s, i)[p] = w[p]
  <2> DEFINE n == p \div 8
             j == p % 8
  <2>1. n \in 0..3 /\ j \in 0..7 /\ p = 8 * n + j
    BY DEF Bits
  <2> HIDE DEF n, j
  <2>2. Get(s, i)[p] = (s[i + 1 + n] \div Weights[j + 1]) % 2
    BY <2>1, GetAt
  <2> QED BY <2>1, <2>2, PutByte
<1>2. Get(s, i) = [p \in Bits |-> Get(s, i)[p]]
  BY DEF Get
<1>3. w = [p \in Bits |-> w[p]]
  BY DEF Words
<1> QED BY <1>1, <1>2, <1>3

(* PUT_ULONG_BE puts four bytes, the highest first.                         *)
LEMMA PutIs ==
    ASSUME NEW w
    PROVE  /\ DOMAIN Put(w) = 1..4 /\ Len(Put(w)) = 4
           /\ \A m \in 0..3 : Put(w)[m + 1] = ByteOf(w, m)
<1> DEFINE b0 == ByteOf(w, 0)
           b1 == ByteOf(w, 1)
           b2 == ByteOf(w, 2)
           b3 == ByteOf(w, 3)
<1>1. Put(w) = <<b0, b1, b2, b3>>
  BY DEF Put
<1>2. ASSUME NEW m \in 0..3 PROVE Put(w)[m + 1] = ByteOf(w, m)
  <2>1. m = 0 \/ m = 1 \/ m = 2 \/ m = 3
    OBVIOUS
  <2>2. CASE m = 0
    BY <1>1, <2>2
  <2>3. CASE m = 1
    BY <1>1, <2>3
  <2>4. CASE m = 2
    BY <1>1, <2>4
  <2>5. CASE m = 3
    BY <1>1, <2>5
  <2> QED BY <2>1, <2>2, <2>3, <2>4, <2>5
<1>3. DOMAIN Put(w) = 1..4 /\ Len(Put(w)) = 4
  <2> HIDE DEF b0, b1, b2, b3
  <2> QED BY <1>1
<1> QED BY <1>2, <1>3

(* A function on the first n numbers is a sequence of length n,             *)
LEMMA FunctionIsSeq ==
    ASSUME NEW T, NEW n \in Nat, NEW f \in [1..n -> T]
    PROVE  f \in Seq(T) /\ Len(f) = n
  OBVIOUS

(* and a sequence is such a function.                                       *)
LEMMA SeqIsFunction == ASSUME NEW T, NEW s \in Seq(T) PROVE s \in [1..Len(s) -> T]
  OBVIOUS

(* Two sequences in a row.                                                  *)
LEMMA ConcatAt ==
    ASSUME NEW T, NEW s \in Seq(T), NEW t \in Seq(T)
    PROVE  /\ s \o t \in Seq(T) /\ Len(s \o t) = Len(s) + Len(t)
           /\ Len(s) \in Nat /\ Len(t) \in Nat
           /\ \A i \in 1..Len(s) : (s \o t)[i] = s[i]
           /\ \A i \in 1..Len(t) : (s \o t)[Len(s) + i] = t[i]
  OBVIOUS

(* Four sequences in a row.                                                 *)
InARow(s, a, b, c, d) ==
    LET n1 == Len(a)
        n2 == n1 + Len(b)
        n3 == n2 + Len(c)
    IN  /\ s \in Seq(Bytes)
        /\ Len(s) = n3 + Len(d)
        /\ \A m \in 1..Len(a) : s[m] = a[m]
        /\ \A m \in 1..Len(b) : s[n1 + m] = b[m]
        /\ \A m \in 1..Len(c) : s[n2 + m] = c[m]
        /\ \A m \in 1..Len(d) : s[n3 + m] = d[m]

(* Four sequences in a row, as the words of a block are put.                *)
LEMMA FourInARow ==
    ASSUME NEW a \in Seq(Bytes), NEW b \in Seq(Bytes), NEW c \in Seq(Bytes), NEW d \in Seq(Bytes)
    PROVE  InARow(a \o b \o c \o d, a, b, c, d)
<1> DEFINE ab == a \o b
           abc == ab \o c
           abcd == abc \o d
<1>1. /\ ab \in Seq(Bytes) /\ Len(ab) = Len(a) + Len(b)
      /\ Len(a) \in Nat /\ Len(b) \in Nat
      /\ \A i \in 1..Len(a) : ab[i] = a[i]
      /\ \A i \in 1..Len(b) : ab[Len(a) + i] = b[i]
  BY ConcatAt
<1> HIDE DEF ab
<1>2. /\ abc \in Seq(Bytes) /\ Len(abc) = Len(ab) + Len(c)
      /\ Len(c) \in Nat
      /\ \A i \in 1..Len(ab) : abc[i] = ab[i]
      /\ \A i \in 1..Len(c) : abc[Len(ab) + i] = c[i]
  <2>1. ab \in Seq(Bytes)
    BY <1>1
  <2> QED BY <2>1, ConcatAt
<1> HIDE DEF abc
<1>3. /\ abcd \in Seq(Bytes) /\ Len(abcd) = Len(abc) + Len(d)
      /\ \A i \in 1..Len(abc) : abcd[i] = abc[i]
      /\ \A i \in 1..Len(d) : abcd[Len(abc) + i] = d[i]
  <2>1. abc \in Seq(Bytes)
    BY <1>2
  <2> QED BY <2>1, ConcatAt
<1> HIDE DEF abcd
<1>4. \A m \in 1..Len(a) : abcd[m] = a[m]
  BY <1>1, <1>2, <1>3
<1>5. \A m \in 1..Len(b) : abcd[Len(a) + m] = b[m]
  <2> TAKE m \in 1..Len(b)
  <2>1. Len(a) + m \in 1..Len(ab)
    BY <1>1
  <2>2. Len(a) + m \in 1..Len(abc)
    BY <1>1, <1>2, <2>1
  <2> QED BY <1>1, <1>2, <1>3, <2>1, <2>2
<1>6. \A m \in 1..Len(c) : abcd[Len(ab) + m] = c[m]
  <2> TAKE m \in 1..Len(c)
  <2>1. Len(ab) + m \in 1..Len(abc)
    BY <1>1, <1>2
  <2> QED BY <1>2, <1>3, <2>1
<1> QED BY <1>1, <1>2, <1>3, <1>4, <1>5, <1>6 DEF ab, abc, abcd, InARow

(* The bytes of the last four words, the last word first.                   *)
LEMMA OutputIs ==
    ASSUME NEW x, \A n \in 1..4 : x[37 - n] \in Words
    PROVE  /\ OutputOf(x) \in Blocks
           /\ Len(OutputOf(x)) = 16
           /\ \A n \in 1..4, m \in 0..3 :
                 OutputOf(x)[4 * (n - 1) + 1 + m] = ByteOf(x[37 - n], m)
<1> DEFINE put(n) == Put(x[37 - n])
<1>1. \A n \in 1..4 : /\ put(n) \in Seq(Bytes) /\ Len(put(n)) = 4
                      /\ \A m \in 0..3 : put(n)[m + 1] = ByteOf(x[37 - n], m)
  <2> TAKE n \in 1..4
  <2>1. /\ DOMAIN put(n) = 1..4 /\ Len(put(n)) = 4
        /\ \A m \in 0..3 : put(n)[m + 1] = ByteOf(x[37 - n], m)
    BY PutIs
  <2>2. put(n) = <<ByteOf(x[37 - n], 0), ByteOf(x[37 - n], 1), ByteOf(x[37 - n], 2),
                   ByteOf(x[37 - n], 3)>>
    BY DEF Put
  <2>3. \A m \in 0..3 : ByteOf(x[37 - n], m) \in Bytes
    BY PutByte
  <2>4. put(n) \in Seq(Bytes)
    <3> DEFINE b0 == ByteOf(x[37 - n], 0)
               b1 == ByteOf(x[37 - n], 1)
               b2 == ByteOf(x[37 - n], 2)
               b3 == ByteOf(x[37 - n], 3)
    <3>1. b0 \in Bytes /\ b1 \in Bytes /\ b2 \in Bytes /\ b3 \in Bytes
      BY <2>3
    <3>2. put(n) = <<b0, b1, b2, b3>>
      BY <2>2
    <3> HIDE DEF b0, b1, b2, b3, put
    <3> QED BY <3>1, <3>2
  <2> QED BY <2>1, <2>4
<1>2. OutputOf(x) = put(1) \o put(2) \o put(3) \o put(4)
  BY DEF OutputOf
<1> HIDE DEF put
<1>3. /\ OutputOf(x) \in [1..16 -> Bytes] /\ Len(OutputOf(x)) = 16
      /\ \A m \in 0..3 : /\ OutputOf(x)[m + 1] = put(1)[m + 1]
                         /\ OutputOf(x)[m + 5] = put(2)[m + 1]
                         /\ OutputOf(x)[m + 9] = put(3)[m + 1]
                         /\ OutputOf(x)[m + 13] = put(4)[m + 1]
  <2> DEFINE p1 == put(1)
             p2 == put(2)
             p3 == put(3)
             p4 == put(4)
  <2>1. /\ p1 \in Seq(Bytes) /\ p2 \in Seq(Bytes) /\ p3 \in Seq(Bytes) /\ p4 \in Seq(Bytes)
        /\ Len(p1) = 4 /\ Len(p2) = 4 /\ Len(p3) = 4 /\ Len(p4) = 4
    BY <1>1
  <2>2. OutputOf(x) = p1 \o p2 \o p3 \o p4
    BY <1>2
  <2> HIDE DEF p1, p2, p3, p4
  <2> DEFINE out == OutputOf(x)
             n1 == Len(p1)
             n2 == n1 + Len(p2)
             n3 == n2 + Len(p3)
  <2>3. /\ out \in Seq(Bytes)
        /\ Len(out) = n3 + Len(p4)
        /\ \A m \in 1..Len(p1) : out[m] = p1[m]
        /\ \A m \in 1..Len(p2) : out[n1 + m] = p2[m]
        /\ \A m \in 1..Len(p3) : out[n2 + m] = p3[m]
        /\ \A m \in 1..Len(p4) : out[n3 + m] = p4[m]
    <3>1. p1 \in Seq(Bytes) /\ p2 \in Seq(Bytes) /\ p3 \in Seq(Bytes) /\ p4 \in Seq(Bytes)
      BY <2>1
    <3>2. out = p1 \o p2 \o p3 \o p4
      BY <2>2
    <3>3. InARow(p1 \o p2 \o p3 \o p4, p1, p2, p3, p4)
      BY <3>1, FourInARow
    <3> QED BY <3>2, <3>3 DEF InARow
  <2>4. n1 = 4 /\ n2 = 8 /\ n3 = 12
    BY <2>1
  <2> HIDE DEF out, n1, n2, n3
  <2>5. \A m \in 0..3 : m + 1 \in 1..4 /\ 4 + (m + 1) = m + 5 /\ 8 + (m + 1) = m + 9
                         /\ 12 + (m + 1) = m + 13
    OBVIOUS
  <2>6. ASSUME NEW m \in 0..3
        PROVE  /\ out[m + 1] = p1[m + 1]
               /\ out[m + 5] = p2[m + 1]
               /\ out[m + 9] = p3[m + 1]
               /\ out[m + 13] = p4[m + 1]
    BY <2>1, <2>3, <2>4, <2>5, Zenon
  <2>7. Len(out) = 16
    <3>1. Len(out) = 12 + 4
      BY <2>1, <2>3, <2>4, Zenon
    <3> QED BY <3>1
  <2>8. out \in [1..16 -> Bytes]
    <3>1. out \in [1..Len(out) -> Bytes]
      BY <2>3, SeqIsFunction
    <3> QED BY <2>7, <3>1, Zenon
  <2> QED BY <2>6, <2>7, <2>8 DEF p1, p2, p3, p4, out
<1>4. ASSUME NEW n \in 1..4, NEW m \in 0..3
      PROVE  OutputOf(x)[4 * (n - 1) + 1 + m] = ByteOf(x[37 - n], m)
  <2>1. put(n)[m + 1] = ByteOf(x[37 - n], m)
    BY <1>1
  <2>2. n = 1 \/ n = 2 \/ n = 3 \/ n = 4
    OBVIOUS
  <2>3. OutputOf(x)[4 * (n - 1) + 1 + m] = put(n)[m + 1]
    BY <1>3, <2>2
  <2> QED BY <2>1, <2>3
<1> QED BY <1>3, <1>4 DEF Blocks

(* Fed again, the output is read as the same words in reverse.              *)
LEMMA GetOfOutput ==
    ASSUME NEW x, \A n \in 1..4 : x[37 - n] \in Words, NEW n \in 1..4
    PROVE  Get(OutputOf(x), 4 * (n - 1)) = x[37 - n]
<1>1. 4 * (n - 1) \in Nat /\ x[37 - n] \in Words
  OBVIOUS
<1>2. \A m \in 0..3 : OutputOf(x)[4 * (n - 1) + 1 + m] = ByteOf(x[37 - n], m)
  BY OutputIs
<1> QED BY <1>1, <1>2, GetOfPut

(* Words read out of a block are put out as that block.                     *)
LEMMA OutputOfGet ==
    ASSUME NEW in \in Blocks, NEW x, \A n \in 1..4 : x[37 - n] = Get(in, 4 * (n - 1))
    PROVE  OutputOf(x) = in
<1>1. \A n \in 1..4 : x[37 - n] \in Words
  BY GetWord
<1>2. ASSUME NEW i \in 1..16 PROVE OutputOf(x)[i] = in[i]
  <2> DEFINE n == ((i - 1) \div 4) + 1
             m == (i - 1) % 4
  <2>1. n \in 1..4 /\ m \in 0..3 /\ i = 4 * (n - 1) + 1 + m /\ 4 * (n - 1) \in Nat
    OBVIOUS
  <2> HIDE DEF n, m
  <2>2. OutputOf(x)[i] = ByteOf(Get(in, 4 * (n - 1)), m)
    BY <1>1, <2>1, OutputIs
  <2>3. in[4 * (n - 1) + 1 + m] \in Bytes
    BY <2>1 DEF Blocks
  <2> QED BY <2>1, <2>2, <2>3, ByteOfGet
<1>3. OutputOf(x) \in Blocks
  BY <1>1, OutputIs
<1> QED BY <1>2, <1>3 DEF Blocks

-----------------------------------------------------------------------------
(* Casts to int.                                                            *)
Ints == -(IntMax + 1)..IntMax

(* A cast takes or adds a multiple of their number to get into the ints.    *)
LEMMA AsIntIs ==
    ASSUME NEW n \in Int
    PROVE  AsInt(n) \in Ints /\ \E q \in Int : AsInt(n) = n + (2 * (IntMax + 1)) * q
<1> DEFINE M == 2 * (IntMax + 1)
           a == n + IntMax + 1
           p == a \div M
           r == a % M
<1>1. M \in Nat /\ M > 0 /\ a \in Int
  BY IntAssumption
<1>2. p \in Int /\ r \in 0..(M - 1) /\ a = M * p + r
  <2> HIDE DEF M, a
  <2> QED BY <1>1, Z3
<1>3. AsInt(n) = r - (IntMax + 1)
  BY DEF AsInt
<1> HIDE DEF p, r
<1>4. AsInt(n) = n + M * (-p) /\ -p \in Int
  <2>1. M * (-p) = -(M * p)
    <3> HIDE DEF M
    <3> QED BY <1>1, <1>2
  <2>2. r = n + IntMax + 1 - M * p
    <3> HIDE DEF M
    <3> QED BY <1>1, <1>2, IntAssumption DEF a
  <2>3. M * p \in Int
    BY <1>1, <1>2
  <2> HIDE DEF M
  <2> QED BY <1>2, <1>3, <2>1, <2>2, <2>3, IntAssumption
<1>5. AsInt(n) \in Ints
  BY <1>2, <1>3, IntAssumption DEF Ints, M
<1> QED BY <1>4, <1>5

(* A number is read as the only int that differs from it by a multiple of   *)
(* the range of an int.                                                     *)
LEMMA AsIntUnique ==
    ASSUME NEW n \in Int, NEW q \in Int, n + (2 * (IntMax + 1)) * q \in Ints
    PROVE  AsInt(n) = n + (2 * (IntMax + 1)) * q
<1> DEFINE M == 2 * (IntMax + 1)
           r == n + M * q
<1>1. PICK p \in Int : AsInt(n) = n + M * p
  BY AsIntIs
<1>2. M \in Nat /\ M > 0 /\ r \in Ints /\ AsInt(n) \in Ints
  BY AsIntIs, IntAssumption
<1>3. r - AsInt(n) \in Int /\ r - AsInt(n) < M /\ AsInt(n) - r < M
  BY <1>2, IntAssumption DEF Ints
<1>4. r - AsInt(n) = M * (q - p)
  <2> HIDE DEF M
  <2> QED BY <1>1, <1>2
<1> HIDE DEF M, r
<1>5. CASE q - p >= 1
  <2>1. M * (q - p) >= M
    BY <1>1, <1>2, <1>5
  <2> QED BY <1>2, <1>3, <1>4, <2>1
<1>6. CASE q - p <= -1
  <2>1. M * (q - p) <= -M
    BY <1>1, <1>2, <1>6
  <2>2. AsInt(n) - r >= M
    BY <1>2, <1>3, <1>4, <2>1 DEF Ints
  <2> QED BY <1>2, <1>3, <2>2 DEF Ints
<1>7. CASE q = p
  BY <1>1, <1>7 DEF M
<1> QED BY <1>1, <1>5, <1>6, <1>7

(* An int is cast to itself.                                                *)
LEMMA AsIntSame == ASSUME NEW n \in 0..IntMax PROVE AsInt(n) = n
<1>1. n \in Int /\ n + (2 * (IntMax + 1)) * 0 = n /\ n \in Ints
  BY IntAssumption DEF Ints
<1> QED BY <1>1, AsIntUnique

(* Casting before a subtraction makes no difference to what is cast after.  *)
LEMMA AsIntMinus ==
    ASSUME NEW a \in Int, NEW b \in Int
    PROVE  AsInt(AsInt(a) - b) = AsInt(a - b)
<1> DEFINE M == 2 * (IntMax + 1)
           c == AsInt(a) - b
<1>1. PICK p \in Int : AsInt(a) = a + M * p
  BY AsIntIs
<1>2. M \in Int /\ AsInt(a) \in Int /\ c \in Int
  BY AsIntIs, IntAssumption DEF Ints
<1>3. PICK q \in Int : AsInt(c) = c + M * q
  BY <1>2, AsIntIs
<1>4. AsInt(c) \in Ints
  BY <1>2, AsIntIs
<1>5. AsInt(c) = (a - b) + M * (p + q)
  <2>1. M * (p + q) = M * p + M * q
    <3> HIDE DEF M
    <3> QED BY <1>2
  <2>2. M * p \in Int /\ M * q \in Int
    BY <1>2
  <2> HIDE DEF M
  <2> QED BY <1>1, <1>2, <1>3, <2>1, <2>2
<1>6. p + q \in Int /\ a - b \in Int
  OBVIOUS
<1> HIDE DEF c
<1>7. AsInt(a - b) = (a - b) + M * (p + q)
  BY <1>4, <1>5, <1>6, AsIntUnique
<1> QED BY <1>5, <1>7 DEF c

-----------------------------------------------------------------------------
(* The bytes of a number.                                                   *)
LEMMA RawBytes ==
    ASSUME NEW n \in Nat, NEW size \in Nat
    PROVE  Raw(n, size) \in [1..size -> Bytes] /\ Len(Raw(n, size)) = size
<1> DEFINE R(f) == f = [i \in 0..size |-> IF i = 0 THEN n ELSE f[i - 1] \div 256]
           step == [i \in Nat |-> [x \in Nat |-> x \div 256]]
           rest == CHOOSE f : R(f)
<1>1. \A x \in Nat : x \div 256 \in Nat
  OBVIOUS
<1>2. \E f : R(f)
  <2>1. step \in [Nat -> [Nat -> Nat]]
    BY <1>1
  <2>2. \A i \in Nat : \A x \in Nat : step[i][x] = x \div 256
    OBVIOUS
  <2> HIDE DEF step
  <2>3. PICK f \in [0..size -> Nat] : IsLoop(f, size, n, step)
    BY <2>1, LoopExists
  <2>4. ASSUME NEW i \in 0..size
        PROVE  f[i] = IF i = 0 THEN n ELSE f[i - 1] \div 256
    <3>1. f[i] = IF i = 0 THEN n ELSE step[i][f[i - 1]]
      BY <2>3 DEF IsLoop
    <3>2. i # 0 => f[i - 1] \in Nat
      BY <2>3
    <3> QED BY <2>2, <3>1, <3>2, SMTT(30)
  <2>5. f = [i \in 0..size |-> f[i]]
    BY <2>3
  <2> QED BY <2>4, <2>5
<1>3. R(rest)
  BY <1>2
<1>4. Raw(n, size) = [i \in 1..size |-> rest[i - 1] % 256]
  BY DEF Raw
<1> HIDE DEF rest
<1>5. \A i \in 0..size : rest[i] \in Nat
  <2>1. rest[0] \in Nat
    BY <1>3
  <2>2. \A i \in 1..size : rest[i - 1] \in Nat => rest[i] \in Nat
    BY <1>1, <1>3
  <2> HIDE DEF R
  <2> QED BY <2>1, <2>2, LoopStays
<1>6. \A i \in 1..size : rest[i - 1] % 256 \in Bytes
  <2>1. \A x \in Nat : x % 256 \in Bytes
    BY DEF Bytes
  <2> QED BY <1>5, <2>1
<1> QED BY <1>4, <1>6

(* The round keys are 32 words.                                             *)
LEMMA KeyWords == ASSUME NEW key PROVE sm4_setkey(key) \in [1..32 -> Words]
<1> DEFINE first == [m \in 1..4 |-> Xor(Get(key, 4 * (m - 1)), FK[m])]
           R(f) == f = [n \in 0..32 |-> IF n = 0 THEN first ELSE Scheduled(f[n - 1], CK[n])]
           step == [n \in Nat |-> [k \in Seq(Words) |-> Scheduled(k, CK[n])]]
           k32 == CHOOSE f : R(f)
<1>1. first \in Seq(Words) /\ Len(first) = 4
  <2>1. first \in [1..4 -> Words]
    BY XorWord
  <2> HIDE DEF first
  <2> QED BY <2>1, FunctionIsSeq
<1>2. \A k \in Seq(Words) : \A c :
          Scheduled(k, c) \in Seq(Words) /\ Len(Scheduled(k, c)) = Len(k) + 1
  <2> TAKE k \in Seq(Words)
  <2> TAKE c
  <2> DEFINE n == Len(k)
             w == Xor(k[n - 3], sm4CalciRK(Xor(Xor(Xor(k[n - 2], k[n - 1]), k[n]), c)))
  <2>1. w \in Words
    BY XorWord
  <2>2. Scheduled(k, c) = Append(k, w)
    BY DEF Scheduled
  <2> HIDE DEF w
  <2> QED BY <2>1, <2>2
<1> HIDE DEF first
<1>3. \E f : R(f)
  <2>1. step \in [Nat -> [Seq(Words) -> Seq(Words)]]
    BY <1>2
  <2>2. \A n \in Nat : \A k \in Seq(Words) : step[n][k] = Scheduled(k, CK[n])
    OBVIOUS
  <2> HIDE DEF step
  <2> DEFINE last == 32
  <2>3. last \in Nat
    OBVIOUS
  <2> HIDE DEF last
  <2>4. PICK f \in [0..last -> Seq(Words)] : IsLoop(f, last, first, step)
    BY <1>1, <2>1, <2>3, LoopExists
  <2>5. ASSUME NEW n \in 0..last
        PROVE  f[n] = IF n = 0 THEN first ELSE Scheduled(f[n - 1], CK[n])
    <3>1. f[n] = IF n = 0 THEN first ELSE step[n][f[n - 1]]
      BY <2>4 DEF IsLoop
    <3>2. n # 0 => f[n - 1] \in Seq(Words) /\ n \in Nat
      BY <2>3, <2>4
    <3> QED BY <2>2, <3>1, <3>2
  <2>6. f = [n \in 0..last |-> f[n]]
    BY <2>4
  <2>7. f = [n \in 0..last |-> IF n = 0 THEN first ELSE Scheduled(f[n - 1], CK[n])]
    BY <2>5, <2>6
  <2> QED BY <2>7 DEF last
<1>4. R(k32)
  BY <1>3
<1>5. sm4_setkey(key) = SubSeq(k32[32], 5, 36)
  BY DEF sm4_setkey, first
<1> HIDE DEF k32
<1>6. \A n \in 0..32 : k32[n] \in Seq(Words) /\ Len(k32[n]) = n + 4
  <2> DEFINE Good(n) == k32[n] \in Seq(Words) /\ Len(k32[n]) = n + 4
             Bad == {n \in 0..32 : ~ Good(n)}
  <2> SUFFICES ASSUME Bad # {} PROVE FALSE
    OBVIOUS
  <2>1. PICK n \in Bad : \A m \in Bad : n <= m
    <3> HIDE DEF Good
    <3>1. Bad \in SUBSET Nat
      OBVIOUS
    <3> HIDE DEF Bad
    <3> QED BY <3>1, LeastNumber
  <2>2. n # 0
    <3>1. k32[0] = first
      BY <1>4
    <3>2. Good(0)
      BY <1>1, <3>1
    <3> HIDE DEF Good
    <3> QED BY <2>1, <3>2
  <2>3. n - 1 \in 0..32 /\ n - 1 \notin Bad /\ n \in 0..32
    BY <2>1, <2>2
  <2>4. k32[n - 1] \in Seq(Words) /\ Len(k32[n - 1]) = n - 1 + 4
    BY <2>3
  <2>5. k32[n] = Scheduled(k32[n - 1], CK[n])
    BY <1>4, <2>2, <2>3
  <2>6. k32[n] \in Seq(Words) /\ Len(k32[n]) = Len(k32[n - 1]) + 1
    BY <1>2, <2>4, <2>5
  <2> QED BY <2>1, <2>3, <2>4, <2>6
<1>7. k32[32] \in Seq(Words) /\ Len(k32[32]) = 36
  <2>1. 32 \in 0..32 /\ 32 + 4 = 36
    OBVIOUS
  <2> QED BY <1>6, <2>1, Zenon
<1>8. \A n \in 1..36 : k32[32][n] \in Words
  <2>1. k32[32] \in [1..Len(k32[32]) -> Words]
    BY <1>7, SeqIsFunction, Zenon
  <2> QED BY <1>7, <2>1, Zenon
<1>9. SubSeq(k32[32], 5, 36) = [n \in 1..32 |-> k32[32][n + 4]]
  BY <1>7
<1>10. \A n \in 1..32 : k32[32][n + 4] \in Words
  BY <1>8
<1> QED BY <1>5, <1>9, <1>10

-----------------------------------------------------------------------------
(* Blocks that were made.                                                   *)

(* More calls of sm4_one_round undo none that were made.                    *)
LEMMA BlockwiseMore ==
    ASSUME NEW done, NEW more, done \subseteq more, NEW k, NEW in, NEW out, NEW at, NEW n,
           Blockwise(done, k, in, out, at, n)
    PROVE  Blockwise(more, k, in, out, at, n)
<1>1. \A i, o : Made(done, k, i, o) => Made(more, k, i, o)
  BY DEF Made
<1> QED BY <1>1 DEF Blockwise

(* No block is made of no input.                                            *)
LEMMA BlockwiseNone ==
    ASSUME NEW done, NEW k, NEW in, NEW out, NEW at
    PROVE  Blockwise(done, k, in, out, at, 0)
  BY DEF Blockwise

(* One more block made lengthens the output by one block.                   *)
LEMMA BlockwiseNext ==
    ASSUME NEW done, NEW k, NEW in, NEW out, NEW at \in Nat, NEW n \in Nat, n % 16 = 0,
           Blockwise(done, k, in, out, at, n), Made(done, k, Block(in, n), Block(out, at + n))
    PROVE  Blockwise(done, k, in, out, at, n + 16)
<1> SUFFICES ASSUME NEW b \in 0..n + 16, 16 * b + 16 <= n + 16
             PROVE  Made(done, k, Block(in, 16 * b), Block(out, at + 16 * b))
  BY DEF Blockwise
<1>1. CASE 16 * b + 16 <= n
  <2>1. b \in 0..n
    BY <1>1
  <2> QED BY <1>1, <2>1 DEF Blockwise
<1>2. CASE ~ (16 * b + 16 <= n)
  <2>1. 16 * b = n
    BY <1>2
  <2> QED BY <2>1
<1> QED BY <1>1, <1>2

(* Only the bytes matter.                                                   *)
LEMMA BlockwiseSame ==
    ASSUME NEW done, NEW k, NEW in, NEW out, NEW at \in Nat, NEW n \in Nat,
           Blockwise(done, k, in, out, at, n),
           NEW in2, NEW out2, NEW at2 \in Nat,
           \A i \in 1..n : in2[i] = in[i] /\ out2[at2 + i] = out[at + i]
    PROVE  Blockwise(done, k, in2, out2, at2, n)
<1> SUFFICES ASSUME NEW b \in 0..n, 16 * b + 16 <= n
             PROVE  Made(done, k, Block(in2, 16 * b), Block(out2, at2 + 16 * b))
  BY DEF Blockwise
<1>1. Block(in2, 16 * b) = Block(in, 16 * b)
  <2>1. \A i \in 1..16 : in2[16 * b + i] = in[16 * b + i]
    OBVIOUS
  <2> QED BY <2>1 DEF Block
<1>2. Block(out2, at2 + 16 * b) = Block(out, at + 16 * b)
  <2>1. ASSUME NEW i \in 1..16 PROVE out2[at2 + 16 * b + i] = out[at + 16 * b + i]
    <3>1. 16 * b + i \in 1..n
      OBVIOUS
    <3>2. at2 + 16 * b + i = at2 + (16 * b + i) /\ at + 16 * b + i = at + (16 * b + i)
      OBVIOUS
    <3> QED BY <3>1, <3>2
  <2> QED BY <2>1 DEF Block
<1>3. Made(done, k, Block(in, 16 * b), Block(out, at + 16 * b))
  BY DEF Blockwise
<1> QED BY <1>1, <1>2, <1>3

(* Whole blocks and then others.                                            *)
LEMMA BlockwiseJoin ==
    ASSUME NEW done, NEW k, NEW in, NEW out, NEW at \in Nat, NEW n \in Nat, n % 16 = 0,
           Blockwise(done, k, in, out, at, n),
           NEW in2, NEW out2, NEW m \in Nat, Blockwise(done, k, in2, out2, 0, m),
           \A i \in 1..m : in[n + i] = in2[i] /\ out[at + n + i] = out2[i]
    PROVE  Blockwise(done, k, in, out, at, n + m)
<1> SUFFICES ASSUME NEW b \in 0..n + m, 16 * b + 16 <= n + m
             PROVE  Made(done, k, Block(in, 16 * b), Block(out, at + 16 * b))
  BY DEF Blockwise
<1>1. CASE 16 * b + 16 <= n
  <2>1. b \in 0..n
    BY <1>1
  <2> QED BY <1>1, <2>1 DEF Blockwise
<1>2. CASE ~ (16 * b + 16 <= n)
  <2> DEFINE c == b - (n \div 16)
  <2>1. c \in 0..m /\ 16 * c + 16 <= m /\ 16 * b = n + 16 * c
    BY <1>2
  <2> HIDE DEF c
  <2>2. Block(in, 16 * b) = Block(in2, 16 * c)
    <3>1. ASSUME NEW i \in 1..16 PROVE in[16 * b + i] = in2[16 * c + i]
      <4>1. 16 * c + i \in 1..m /\ 16 * b + i = n + (16 * c + i)
        BY <2>1
      <4> QED BY <4>1
    <3> QED BY <3>1 DEF Block
  <2>3. Block(out, at + 16 * b) = Block(out2, 0 + 16 * c)
    <3>1. ASSUME NEW i \in 1..16 PROVE out[at + 16 * b + i] = out2[0 + 16 * c + i]
      <4>1. 16 * c + i \in 1..m /\ at + 16 * b + i = at + n + (16 * c + i)
            /\ 0 + 16 * c + i = 16 * c + i
        BY <2>1
      <4> QED BY <4>1
    <3> QED BY <3>1 DEF Block
  <2> QED BY <2>1, <2>2, <2>3 DEF Blockwise
<1> QED BY <1>1, <1>2

-----------------------------------------------------------------------------
(* The invariant, action by action.                                         *)

(* The plaintext file is a sequence of bytes.                               *)
LEMMA PlainBytes == ASSUME TypeOK PROVE plain \in Seq(Bytes) /\ Len(plain) \in Nat
  BY CipherFileAssumption DEF TypeOK

(* A piece of a sequence.                                                   *)
LEMMA SubSeqIs ==
    ASSUME NEW T, NEW s \in Seq(T), NEW m \in Nat, NEW n \in Nat, m <= n, n <= Len(s)
    PROVE  /\ SubSeq(s, m + 1, n) \in Seq(T)
           /\ Len(SubSeq(s, m + 1, n)) = n - m
           /\ \A i \in 1..n - m : SubSeq(s, m + 1, n)[i] = s[m + i]
<1> DEFINE t == SubSeq(s, m + 1, n)
<1>1. t = [i \in 1..n - m |-> s[m + i]]
  OBVIOUS
<1>2. \A i \in 1..n - m : s[m + i] \in T
  OBVIOUS
<1> HIDE DEF t
<1>3. t \in [1..n - m -> T] /\ n - m \in Nat
  BY <1>1, <1>2
<1>4. t \in Seq(T) /\ Len(t) = n - m
  BY <1>3, FunctionIsSeq
<1> QED BY <1>1, <1>4 DEF t

(* The invariant holds before the handler starts.                           *)
LEMMA CipherInit == Init => CipherInv
<1> SUFFICES ASSUME Init PROVE CipherInv
  OBVIOUS
<1>1. TypeOK
  <2>1. sk = <<>> /\ ulbuf = <<>> /\ receive = <<>> /\ output = <<>> /\ cipher = <<>>
    BY DEF Init, Sm4Init
  <2>2. Len(<<>>) = 0 /\ Len(<<>>) <= Ilen(<<>>)
    BY DEF Ilen
  <2>3. fed \in 0..Len(plain)
    BY CipherFileAssumption DEF Init
  <2>4. pc = "plain" /\ plain \in Plains
    BY DEF Init
  <2> QED BY <2>1, <2>2, <2>3, <2>4 DEF TypeOK
<1>2. pc = "plain" /\ fed = 0 /\ cipher = <<>> /\ ulbuf = <<>> /\ asked = Nil
  BY DEF Init, Sm4Init
<1> QED BY <1>1, <1>2 DEF CipherInv, ServOK, Pieces, Crypting, DataOK, HeaderOK, ThrewAtBounds,
        RestoredRecord, Writing, SealedAt, Recorded, ReaderAt

(* An exception leaves everything as it is.                                 *)
LEMMA ThrewInv ==
    ASSUME CipherInv, Threw, pc \in {"plain", "read"}, Len(plain) \notin 1..IntMax
    PROVE  CipherInv'
<1>1. /\ pc' = "threw" /\ sk' = sk /\ ulbuf' = ulbuf /\ log' = log /\ plain' = plain
      /\ fed' = fed /\ receive' = receive /\ output' = output /\ cipher' = cipher
      /\ asked' = asked /\ serv' = serv
  BY DEF Threw, sm4Vars
<1>2. TypeOK'
  BY <1>1 DEF CipherInv, TypeOK
<1>3. ulbuf = <<>> /\ asked = Nil
  BY DEF CipherInv, Crypting, ReaderAt
<1>4. fed < Len(plain) => fed % 16 = 0
  BY DEF CipherInv, Pieces
<1> QED BY <1>1, <1>2, <1>3, <1>4 DEF CipherInv, ServOK, Pieces, Crypting, DataOK, HeaderOK,
        ThrewAtBounds, RestoredRecord, Writing, SealedAt, Recorded, ReaderAt

(* A length is never read as more than it is.                               *)
LEMMA AsIntLess == ASSUME NEW n \in Nat PROVE AsInt(n) <= n /\ AsInt(n) \in Int
<1>1. PICK q \in Int : AsInt(n) = n + (2 * (IntMax + 1)) * q
  BY AsIntIs
<1>2. AsInt(n) \in Ints
  BY AsIntIs
<1> DEFINE M == 2 * (IntMax + 1)
<1>3. M \in Nat /\ M > IntMax
  BY IntAssumption
<1>4. q >= 1 => M * q >= M
  <2> HIDE DEF M
  <2> QED BY <1>3
<1>5. q <= 0 => M * q <= 0
  <2> HIDE DEF M
  <2> QED BY <1>3
<1>6. M * q \in Int
  BY <1>3
<1> HIDE DEF M
<1> QED BY <1>1, <1>2, <1>3, <1>4, <1>5, <1>6, IntAssumption DEF Ints, M

(* The digest of the plaintext, or the throw of new char[], keeps the       *)
(* invariant.                                                               *)
LEMMA DigestPlainInv == ASSUME CipherInv, DigestPlain PROVE CipherInv'
<1> DEFINE PlainLen == AsInt(Len(plain))
<1>1. plain \in Seq(Bytes) /\ Len(plain) \in Nat
  BY PlainBytes DEF CipherInv
<1>2. CASE PlainLen < 0
  <2>1. Threw /\ pc = "plain"
    BY <1>2 DEF DigestPlain
  <2>2. Len(plain) \notin 1..IntMax
    <3>1. Len(plain) \in 1..IntMax => AsInt(Len(plain)) = Len(plain)
      BY AsIntSame
    <3> QED BY <1>1, <1>2, <3>1
  <2> QED BY <2>1, <2>2, ThrewInv
<1>3. CASE ~ (PlainLen < 0)
  <2>1. PICK key \in GenKeys, expire \in Deadlines, comp \in Orgs :
            serv' = [org |-> comp, md5_p |-> SubSeq(plain, 1, PlainLen), md5_c |-> <<>>,
                     skey |-> key, expire |-> expire]
    BY <1>3 DEF DigestPlain
  <2>2. /\ pc = "plain" /\ pc' = "create" /\ sk' = sk /\ ulbuf' = ulbuf /\ log' = log
        /\ plain' = plain /\ fed' = fed /\ receive' = receive /\ output' = output
        /\ cipher' = cipher /\ asked' = asked
    BY <1>3 DEF DigestPlain, sm4Vars
  <2>3. TypeOK'
    BY <2>2 DEF CipherInv, TypeOK
  <2>4. SubSeq(plain, 1, PlainLen) \in Seq(Bytes)
    <3>1. PlainLen \in Nat /\ PlainLen <= Len(plain)
      BY <1>1, <1>3, AsIntLess
    <3> HIDE DEF PlainLen
    <3>2. SubSeq(plain, 0 + 1, PlainLen) \in Seq(Bytes)
      BY <1>1, <3>1, SubSeqIs
    <3> QED BY <3>2
  <2>5. ServOK'
    <3>1. AsInt(Len(plain)) >= 0
      BY <1>1, <1>3, AsIntLess
    <3> QED BY <2>1, <2>2, <2>4, <3>1 DEF ServOK
  <2>6. ulbuf = <<>> /\ asked = Nil /\ fed = 0 /\ cipher = <<>>
    BY <2>2 DEF CipherInv, Crypting, Pieces, ReaderAt
  <2> QED BY <2>2, <2>3, <2>5, <2>6 DEF CipherInv, Pieces, Crypting, DataOK, HeaderOK,
          ThrewAtBounds, RestoredRecord, Writing, SealedAt, Recorded, ReaderAt
<1> QED BY <1>2, <1>3

(* Flag and deadline take the bytes before the digest.                      *)
LEMMA HeaderIs ==
    ASSUME NEW deadline \in Nat
    PROVE  LET h == Raw(1, FlagLen) \o Raw(deadline, DeadlineLen)
           IN  h \in Seq(Bytes) /\ Len(h) = Md5At
<1> DEFINE flag == Raw(1, FlagLen)
           number == Raw(deadline, DeadlineLen)
<1>1. FlagLen \in Nat /\ DeadlineLen \in Nat /\ 1 \in Nat /\ FlagLen + DeadlineLen = Md5At
  BY DEF FlagLen, DeadlineLen, Md5At
<1>2. /\ flag \in [1..FlagLen -> Bytes] /\ Len(flag) = FlagLen
      /\ number \in [1..DeadlineLen -> Bytes] /\ Len(number) = DeadlineLen
  BY <1>1, RawBytes
<1>3. flag \in Seq(Bytes) /\ number \in Seq(Bytes)
  BY <1>1, <1>2, FunctionIsSeq
<1> HIDE DEF flag, number
<1>4. flag \o number \in Seq(Bytes) /\ Len(flag \o number) = Len(flag) + Len(number)
  BY <1>3, ConcatAt
<1>5. Len(flag \o number) = Md5At
  BY <1>1, <1>2, <1>4, Zenon
<1> QED BY <1>4, <1>5 DEF flag, number

(* Creating the cipher file with its header keeps the invariant.            *)
LEMMA CreateCipherInv == ASSUME CipherInv, CreateCipher PROVE CipherInv'
<1>1. /\ pc = "create" /\ pc' = "read" /\ cipher' = Header
      /\ sk' = sk /\ ulbuf' = ulbuf /\ log' = log /\ serv' = serv
      /\ plain' = plain /\ fed' = fed /\ receive' = receive /\ output' = output /\ asked' = asked
  BY DEF CreateCipher, sm4Vars, Header
<1>2. serv.expire \in Nat
  BY <1>1, CipherFileAssumption DEF CipherInv, ServOK
<1>3. Header \in Seq(Bytes) /\ Len(Header) = Md5At /\ Header' = Header
  BY <1>1, <1>2, HeaderIs DEF Header
<1>4. TypeOK'
  <2>1. cipher' \in Seq(Bytes \cup -Md5Len..-1)
    <3>1. Bytes \subseteq Bytes \cup -Md5Len..-1
      OBVIOUS
    <3> QED BY <1>1, <1>3, <3>1
  <2> QED BY <1>1, <2>1 DEF CipherInv, TypeOK
<1>5. ulbuf = <<>> /\ asked = Nil /\ fed = 0
  BY <1>1 DEF CipherInv, Crypting, Pieces, ReaderAt
<1>6. Sealed' = 0
  BY <1>1, <1>5 DEF Sealed
<1>7. ServOK'
  BY <1>1 DEF CipherInv, ServOK, Writing, SealedAt
<1>8. Pieces' /\ Crypting'
  BY <1>1, <1>5 DEF Pieces, Crypting, Writing, SealedAt, Recorded, ReaderAt
<1>9. DataOK'
  BY <1>6, BlockwiseNone DEF DataOK
<1>10. HeaderOK'
  BY <1>1, <1>3, <1>6 DEF HeaderOK, Writing, SealedAt, Recorded, ReaderAt
<1> QED BY <1>1, <1>4, <1>5, <1>7, <1>8, <1>9, <1>10 DEF CipherInv, ThrewAtBounds, RestoredRecord,
        Recorded, ReaderAt

(* What is before a whole block of a piece is before the end of its blocks. *)
LEMMA WholeBlocks ==
    ASSUME NEW n \in Nat, NEW length \in Nat, n % 16 = 0
    PROVE  /\ n < (length \div 16) * 16 => n + 16 <= (length \div 16) * 16
           /\ n + 16 <= length <=> n + 16 <= (length \div 16) * 16
           /\ (length \div 16) * 16 <= length
           /\ length < (length \div 16) * 16 + 16
           /\ ((length \div 16) * 16) % 16 = 0
           /\ (n + 16) % 16 = 0
<1>1. PICK a \in Nat : n = 16 * a
  <2>1. n = 16 * (n \div 16) /\ n \div 16 \in Nat
    OBVIOUS
  <2> QED BY <2>1
<1>2. PICK b \in Nat, r \in 0..15 : length = 16 * b + r
  <2> DEFINE b == length \div 16
             r == length % 16
  <2>1. length = 16 * b + r /\ b \in Nat /\ r \in 0..15
    BY Z3
  <2> HIDE DEF b, r
  <2> QED BY <2>1
<1>3. length \div 16 = b
  BY <1>2
<1> QED BY <1>1, <1>2, <1>3

(* Reading the next piece of the plaintext and setting the key keeps it.    *)
LEMMA ReadBlockInv == ASSUME CipherInv, ReadBlock PROVE CipherInv'
<1> DEFINE upto == IF fed + EncBlockSize < Len(plain) THEN fed + EncBlockSize ELSE Len(plain)
<1>1. /\ pc = "read" /\ pc' = "crypt" /\ fed < Len(plain)
      /\ receive' = SubSeq(plain, fed + 1, upto) /\ fed' = fed + Len(receive') /\ output' = <<>>
      /\ ulbuf = <<>> /\ ulbuf' = ulbuf /\ sk' = sm4_setkey(serv.skey) /\ log' = log
      /\ serv' = serv /\ plain' = plain /\ cipher' = cipher /\ asked' = asked
  BY DEF ReadBlock, sm4_setkey_enc
<1>2. plain \in Seq(Bytes) /\ Len(plain) \in Nat /\ fed \in Nat /\ fed % 16 = 0
  BY <1>1, PlainBytes DEF CipherInv, Pieces, TypeOK
<1>3. /\ upto \in Nat /\ fed < upto /\ upto <= Len(plain)
      /\ upto < Len(plain) => upto % 16 = 0
  <2>1. EncBlockSize \in Nat /\ EncBlockSize > 0 /\ EncBlockSize % 16 = 0
    BY CipherFileAssumption
  <2>2. (fed + EncBlockSize) % 16 = 0
    BY <1>2, <2>1
  <2>3. CASE fed + EncBlockSize < Len(plain)
    <3>1. upto = fed + EncBlockSize
      BY <2>3
    <3> HIDE DEF upto
    <3> QED BY <1>2, <2>1, <2>2, <2>3, <3>1
  <2>4. CASE ~ (fed + EncBlockSize < Len(plain))
    <3>1. upto = Len(plain)
      BY <2>4
    <3> HIDE DEF upto
    <3> QED BY <1>1, <1>2, <3>1
  <2> QED BY <2>3, <2>4
<1> HIDE DEF upto
<1>4. /\ receive' \in Seq(Bytes) /\ Len(receive') = upto - fed
      /\ \A i \in 1..upto - fed : receive'[i] = plain[fed + i]
  BY <1>1, <1>2, <1>3, SubSeqIs
<1>5. fed' = upto /\ Sealed' = fed /\ Sealed = fed
  BY <1>1, <1>2, <1>3, <1>4 DEF Sealed
<1>6. RoundKeys' = RoundKeys /\ sk' = RoundKeys /\ Header' = Header
  BY <1>1 DEF RoundKeys, Header
<1>7. TypeOK'
  <2>1. sk' \in [1..32 -> Words]
    BY <1>1, KeyWords
  <2>2. output' \in Seq(Bytes) /\ Len(output') = 0
    BY <1>1
  <2>3. Len(output') <= Ilen(receive')
    BY <1>3, <1>4, <1>2, <2>2 DEF Ilen
  <2>4. fed' \in 0..Len(plain')
    BY <1>1, <1>2, <1>3, <1>5
  <2> QED BY <1>1, <1>4, <2>1, <2>2, <2>3, <2>4 DEF CipherInv, TypeOK
<1>8. ServOK'
  BY <1>1 DEF CipherInv, ServOK, Writing, SealedAt
<1>9. Pieces'
  BY <1>1, <1>2, <1>3, <1>4, <1>5 DEF Pieces, Writing, SealedAt, Recorded, ReaderAt
<1>10. Crypting'
  <2>1. Len(output') = 0 /\ Len(output') % 16 = 0
    BY <1>1
  <2>2. Blockwise(log', sk', receive', output', 0, Len(output'))
    BY <2>1, BlockwiseNone
  <2> QED BY <1>1, <1>6, <2>1, <2>2 DEF Crypting
<1>11. DataOK'
  BY <1>1, <1>5, <1>6 DEF CipherInv, DataOK, Writing
<1>12. HeaderOK'
  BY <1>1, <1>5, <1>6 DEF CipherInv, HeaderOK, Writing, SealedAt, Recorded, ReaderAt
<1>13. asked = Nil
  BY <1>1 DEF CipherInv, ReaderAt
<1> QED BY <1>1, <1>7, <1>8, <1>9, <1>10, <1>11, <1>12, <1>13 DEF CipherInv, ThrewAtBounds,
        RestoredRecord, Recorded, ReaderAt

(* A step of SM4 does nothing to the files.                                 *)
LEMMA FilesStay ==
    ASSUME CipherInv, UNCHANGED <<pc, plain, serv, fed, receive, cipher, row, asked>>,
           log \subseteq log'
    PROVE  /\ ServOK' /\ Pieces' /\ DataOK' /\ HeaderOK'
           /\ (pc \in Recorded => row = StoredRow(serv))'
           /\ (pc \notin ReaderAt => asked = Nil)'
           /\ ThrewAtBounds' /\ RestoredRecord'
<1>1. ServOK' /\ Pieces' /\ HeaderOK'
  BY DEF CipherInv, ServOK, Pieces, HeaderOK, Sealed, Header
<1>2. DataOK'
  <2>1. RoundKeys' = RoundKeys /\ Sealed' = Sealed
    BY DEF RoundKeys, Sealed
  <2> QED BY <2>1, BlockwiseMore DEF CipherInv, DataOK
<1>3. /\ (pc \in Recorded => row = StoredRow(serv))'
      /\ (pc \notin ReaderAt => asked = Nil)'
      /\ ThrewAtBounds' /\ RestoredRecord'
  BY DEF CipherInv, ThrewAtBounds, RestoredRecord
<1> QED BY <1>1, <1>2, <1>3

(* So does taking a block up,                                               *)
LEMMA CryptStartInv == ASSUME CipherInv, CryptStart PROVE CipherInv'
<1> DEFINE n == Len(output)
           block == SubSeq(receive, n + 1, n + 16)
<1>1. /\ pc \in {"crypt", "decrypt"} /\ n < Ilen(receive)
      /\ ulbuf' = [m \in 1..4 |-> Get(block, 4 * (m - 1))]
      /\ sk' = sk /\ log' = log /\ UNCHANGED fileVars
  BY DEF CryptStart, Feed
<1>2. receive \in Seq(Bytes) /\ output \in Seq(Bytes) /\ n \in Nat /\ n % 16 = 0
  <2>1. receive \in Seq(Bytes) /\ output \in Seq(Bytes)
    BY DEF CipherInv, TypeOK
  <2>2. Len(output) % 16 = 0
    BY <1>1 DEF CipherInv, Crypting
  <2>3. Len(output) \in Nat
    BY <2>1
  <2> QED BY <2>1, <2>2, <2>3
<1>3. n + 16 <= Len(receive) /\ Len(receive) \in Nat
  <2>1. Len(receive) \in Nat
    BY <1>2
  <2> HIDE DEF n
  <2>2. n < Ilen(receive) => n + 16 <= Len(receive)
    BY <1>2, <2>1, WholeBlocks DEF Ilen
  <2> QED BY <1>1, <2>1, <2>2
<1>4. block = Block(receive, n) /\ block \in Blocks
  <2> HIDE DEF n
  <2>1. /\ block \in Seq(Bytes) /\ Len(block) = n + 16 - n
        /\ \A i \in 1..n + 16 - n : block[i] = receive[n + i]
    BY <1>2, <1>3, SubSeqIs
  <2> HIDE DEF block
  <2>2. n + 16 - n = 16
    BY <1>2
  <2>3. block \in [1..16 -> Bytes]
    BY <2>1, <2>2, SeqIsFunction
  <2> QED BY <2>1, <2>2, <2>3 DEF Block, Blocks
<1> HIDE DEF block, n
<1>5. ulbuf' \in Seq(Words) /\ Len(ulbuf') = 4
  <2> DEFINE words == [m \in 1..4 |-> Get(block, 4 * (m - 1))]
  <2>1. words \in [1..4 -> Words]
    BY <1>4, GetWord
  <2> HIDE DEF words
  <2>2. words \in Seq(Words) /\ Len(words) = 4
    BY <2>1, FunctionIsSeq
  <2> QED BY <1>1, <2>2 DEF words
<1>6. TypeOK'
  <2>1. Len(ulbuf') \in {0} \cup 4..36
    BY <1>5
  <2> QED BY <1>1, <1>5, <2>1 DEF CipherInv, TypeOK, fileVars
<1>7. Crypting'
  <2>1. \A m \in 1..4 : ulbuf'[m] = Get(Block(receive, n), 4 * (m - 1))
    BY <1>1, <1>4
  <2>2. RoundKeys' = RoundKeys
    BY <1>1 DEF fileVars, RoundKeys
  <2> QED BY <1>1, <1>3, <2>1, <2>2 DEF CipherInv, Crypting, fileVars, n
<1>8. UNCHANGED <<pc, plain, serv, fed, receive, cipher, row, asked>> /\ log \subseteq log'
  BY <1>1 DEF fileVars
<1> QED BY <1>6, <1>7, <1>8, FilesStay DEF CipherInv

(* so does each of its 32 rounds,                                           *)
LEMMA CryptRoundInv == ASSUME CipherInv, CryptRound PROVE CipherInv'
<1> DEFINE n == Len(ulbuf)
           w == sm4F(ulbuf[n - 3], ulbuf[n - 2], ulbuf[n - 1], ulbuf[n], sk[n - 3])
<1>1. /\ n \in 4..35 /\ ulbuf' = Append(ulbuf, w) /\ sk' = sk /\ log' = log
      /\ UNCHANGED fileVars
  BY DEF CryptRound, Round
<1> HIDE DEF w
<1>2. ulbuf \in Seq(Words) /\ w \in Words
  BY XorWord DEF CipherInv, TypeOK, w, sm4F
<1>3. /\ ulbuf' \in Seq(Words) /\ Len(ulbuf') = n + 1
      /\ \A m \in 1..n : ulbuf'[m] = ulbuf[m]
  BY <1>1, <1>2, AppendAt
<1>4. ulbuf # <<>>
  <2>1. Len(<<>>) = 0
    OBVIOUS
  <2>2. n # 0
    <3> HIDE DEF n
    <3> QED BY <1>1
  <2> QED BY <2>1, <2>2
<1> HIDE DEF n
<1>5. TypeOK'
  <2>1. Len(ulbuf') \in {0} \cup 4..36
    BY <1>1, <1>3
  <2>2. ulbuf' \in Seq(Words)
    BY <1>3
  <2>3. UNCHANGED <<sk, pc, plain, fed, receive, output, cipher>>
    BY <1>1 DEF fileVars
  <2> QED BY <2>1, <2>2, <2>3 DEF CipherInv, TypeOK
<1>6. Crypting'
  <2>1. /\ pc \in {"crypt", "decrypt"} /\ Len(output) + 16 <= Len(receive)
        /\ \A m \in 1..4 : ulbuf[m] = Get(Block(receive, Len(output)), 4 * (m - 1))
    BY <1>4 DEF CipherInv, Crypting
  <2>2. \A m \in 1..4 : ulbuf'[m] = ulbuf[m]
    <3>1. \A m \in 1..4 : m \in 1..n
      BY <1>1
    <3> QED BY <1>3, <3>1
  <2>3. RoundKeys' = RoundKeys
    BY <1>1 DEF fileVars, RoundKeys
  <2> QED BY <1>1, <2>1, <2>2, <2>3 DEF CipherInv, Crypting, fileVars
<1>7. UNCHANGED <<pc, plain, serv, fed, receive, cipher, row, asked>> /\ log \subseteq log'
  BY <1>1 DEF fileVars
<1> QED BY <1>5, <1>6, <1>7, FilesStay DEF CipherInv

(* and so does putting its result into the output.                          *)
LEMMA CryptEndInv == ASSUME CipherInv, CryptEnd PROVE CipherInv'
<1> DEFINE n == Len(output)
<1>1. /\ Len(ulbuf) = 36 /\ ulbuf' = <<>> /\ log' = log \cup {[sk |-> sk, x |-> ulbuf]}
      /\ sk' = sk /\ output' = output \o OutputOf(ulbuf)
      /\ UNCHANGED <<pc, plain, serv, fed, receive, cipher, row, opened, asked>>
  BY DEF CryptEnd, Yield, Output
<1>2. ulbuf # <<>>
  <2>1. ulbuf = <<>> => Len(ulbuf) = 0
    OBVIOUS
  <2>2. Len(ulbuf) # 0
    <3> DEFINE length == Len(ulbuf)
    <3>1. length = 36
      BY <1>1
    <3> HIDE DEF length
    <3>2. length # 0
      BY <3>1
    <3> QED BY <3>2 DEF length
  <2> QED BY <2>1, <2>2
<1>3. /\ pc \in {"crypt", "decrypt"}
      /\ n + 16 <= Len(receive)
      /\ \A m \in 1..4 : ulbuf[m] = Get(Block(receive, n), 4 * (m - 1))
      /\ n % 16 = 0
      /\ Blockwise(log, sk, receive, output, 0, n)
  BY <1>2 DEF CipherInv, Crypting
<1>4. /\ receive \in Seq(Bytes) /\ output \in Seq(Bytes) /\ n \in Nat /\ Len(receive) \in Nat
      /\ ulbuf \in Seq(Words)
  BY DEF CipherInv, TypeOK
<1>5. \A m \in 1..4 : ulbuf[37 - m] \in Words
  <2>1. ulbuf \in [1..36 -> Words]
    BY <1>1, <1>4, SeqIsFunction, Zenon
  <2>2. \A m \in 1..4 : 37 - m \in 1..36
    OBVIOUS
  <2> QED BY <2>1, <2>2
<1> DEFINE out == OutputOf(ulbuf)
<1>6. out \in Blocks /\ Len(out) = 16
  BY <1>5, OutputIs
<1> HIDE DEF out
<1>7. /\ output' \in Seq(Bytes) /\ Len(output') = n + 16
      /\ \A i \in 1..n : output'[i] = output[i]
      /\ \A i \in 1..16 : output'[n + i] = out[i]
  <2>1. out \in Seq(Bytes)
    BY <1>6, FunctionIsSeq DEF Blocks
  <2>2. /\ output \o out \in Seq(Bytes) /\ Len(output \o out) = Len(output) + Len(out)
        /\ \A i \in 1..Len(output) : (output \o out)[i] = output[i]
        /\ \A i \in 1..Len(out) : (output \o out)[Len(output) + i] = out[i]
    BY <1>4, <2>1, ConcatAt
  <2> QED BY <1>1, <1>6, <2>2, Zenon DEF out
<1> HIDE DEF n
<1>8. TypeOK'
  <2>1. Len(output') <= Ilen(receive)
    <3>1. n + 16 <= Ilen(receive)
      BY <1>3, <1>4, WholeBlocks DEF Ilen
    <3> QED BY <1>7, <3>1
  <2>2. ulbuf' \in Seq(Words) /\ Len(ulbuf') = 0
    BY <1>1
  <2> QED BY <1>1, <1>7, <2>1, <2>2 DEF CipherInv, TypeOK
<1>9. Crypting'
  <2> DEFINE e == [sk |-> sk, x |-> ulbuf]
  <2>1. Block(output', 0 + n) = out
    <3>1. Block(output', 0 + n) = [i \in 1..16 |-> out[i]]
      BY <1>4, <1>7 DEF Block
    <3> QED BY <1>6, <3>1 DEF Blocks
  <2>2. e \in log' /\ e.sk = sk /\ e.x = ulbuf
    BY <1>1
  <2>3. Made(log', sk, Block(receive, n), Block(output', 0 + n))
    <3> HIDE DEF e
    <3> QED BY <1>3, <2>1, <2>2 DEF Made, out
  <2>4. Blockwise(log', sk, receive, output, 0, n)
    BY <1>1, <1>3, BlockwiseMore
  <2>5. Blockwise(log', sk, receive, output', 0, n)
    <3>1. \A i \in 1..n : receive[i] = receive[i] /\ output'[0 + i] = output[0 + i]
      BY <1>7
    <3> QED BY <1>4, <2>4, <3>1, BlockwiseSame
  <2>6. Blockwise(log', sk, receive, output', 0, n + 16)
    BY <1>3, <1>4, <2>3, <2>5, BlockwiseNext
  <2>7. (n + 16) % 16 = 0
    BY <1>3, <1>4
  <2>8. RoundKeys' = RoundKeys
    BY <1>1 DEF RoundKeys
  <2> QED BY <1>1, <1>3, <1>7, <2>6, <2>7, <2>8 DEF CipherInv, Crypting
<1>10. UNCHANGED <<pc, plain, serv, fed, receive, cipher, row, asked>> /\ log \subseteq log'
  BY <1>1
<1> QED BY <1>8, <1>9, <1>10, FilesStay DEF CipherInv

(* A piece is crypted to as many bytes, its whole blocks by SM4 and the rest *)
(* as it is.                                                                *)
LEMMA CryptedIs ==
    ASSUME CipherInv, Done, pc \in {"crypt", "decrypt"}
    PROVE  /\ Crypted \in Seq(Bytes) /\ Len(Crypted) = Len(receive)
           /\ \A i \in 1..Len(receive) : i > (Len(receive) \div 16) * 16 => Crypted[i] = receive[i]
           /\ Blockwise(log, sk, receive, Crypted, 0, Len(receive))
<1> DEFINE l == Len(receive)
           n == Len(output)
           rest == SubSeq(receive, n + 1, l)
<1>1. receive \in Seq(Bytes) /\ output \in Seq(Bytes) /\ l \in Nat /\ n \in Nat
  BY DEF CipherInv, TypeOK
<1>2. Len(output) = Ilen(receive)
  BY DEF Done
<1>3. n = (l \div 16) * 16
  BY <1>2 DEF Ilen
<1>4. Crypted = output \o rest
  BY <1>2, Zenon DEF Crypted
<1>5. Len(output) % 16 = 0 /\ Blockwise(log, sk, receive, output, 0, Len(output))
  BY DEF CipherInv, Crypting
<1> HIDE DEF l, n
<1>6. n <= l /\ l < n + 16
  <2>1. (l \div 16) * 16 <= l /\ l < (l \div 16) * 16 + 16
    BY <1>1, Z3
  <2> QED BY <1>3, <2>1
<1>7. rest \in Seq(Bytes) /\ Len(rest) = l - n /\ \A i \in 1..l - n : rest[i] = receive[n + i]
  <2>1. l <= Len(receive)
    BY <1>1 DEF l
  <2> QED BY <1>1, <1>6, <2>1, SubSeqIs
<1> HIDE DEF rest
<1>8. /\ Crypted \in Seq(Bytes) /\ Len(Crypted) = n + Len(rest)
      /\ \A i \in 1..n : Crypted[i] = output[i]
      /\ \A i \in 1..Len(rest) : Crypted[n + i] = rest[i]
  <2>1. /\ output \o rest \in Seq(Bytes) /\ Len(output \o rest) = Len(output) + Len(rest)
        /\ \A i \in 1..Len(output) : (output \o rest)[i] = output[i]
        /\ \A i \in 1..Len(rest) : (output \o rest)[Len(output) + i] = rest[i]
    <3>1. output \in Seq(Bytes) /\ rest \in Seq(Bytes)
      BY <1>1, <1>7
    <3> QED BY <3>1, ConcatAt
  <2> QED BY <1>4, <2>1, Zenon DEF n
<1>9. Len(Crypted) = l
  BY <1>1, <1>7, <1>8
<1>10. ASSUME NEW i \in 1..l, i > n PROVE Crypted[i] = receive[i]
  <2>1. i - n \in 1..l - n /\ n + (i - n) = i
    BY <1>1, <1>10
  <2>2. i - n \in 1..Len(rest)
    BY <1>7, <2>1
  <2> QED BY <1>7, <1>8, <2>1, <2>2
<1>11. Blockwise(log, sk, receive, Crypted, 0, n)
  <2>1. \A i \in 1..n : receive[i] = receive[i] /\ Crypted[0 + i] = output[0 + i]
    BY <1>8
  <2>2. Blockwise(log, sk, receive, output, 0, n)
    BY <1>5 DEF n
  <2> QED BY <1>1, <2>1, <2>2, BlockwiseSame
<1>12. Blockwise(log, sk, receive, Crypted, 0, l)
  <2> SUFFICES ASSUME NEW b \in 0..l, 16 * b + 16 <= l
               PROVE  Made(log, sk, Block(receive, 16 * b), Block(Crypted, 0 + 16 * b))
    BY DEF Blockwise
  <2>1. n % 16 = 0
    BY <1>5 DEF n
  <2>2. b \in 0..n /\ 16 * b + 16 <= n
    BY <1>1, <1>6, <2>1
  <2> QED BY <1>11, <2>2 DEF Blockwise
<1> QED BY <1>3, <1>8, <1>9, <1>10, <1>12 DEF l

(* What is written is there, and what was elsewhere still is.               *)
LEMMA WrittenIs ==
    ASSUME NEW T, 0 \in T, NEW file \in Seq(T), NEW at \in Nat, NEW bytes \in Seq(T)
    PROVE  /\ Written(file, at, bytes) \in Seq(T)
           /\ Len(Written(file, at, bytes)) =
                 IF at + Len(bytes) > Len(file) THEN at + Len(bytes) ELSE Len(file)
           /\ \A i \in 1..Len(bytes) : Written(file, at, bytes)[at + i] = bytes[i]
           /\ \A i \in 1..Len(file) :
                 i \notin at + 1..at + Len(bytes) => Written(file, at, bytes)[i] = file[i]
<1> DEFINE m == Len(bytes)
           f == Len(file)
           l == IF at + m > f THEN at + m ELSE f
           w == [i \in 1..l |-> IF i \in at + 1..at + m THEN bytes[i - at]
                                ELSE IF i <= f THEN file[i] ELSE 0]
<1>1. Written(file, at, bytes) = w
  BY DEF Written
<1>2. m \in Nat /\ f \in Nat /\ l \in Nat
  OBVIOUS
<1>3. \A i \in 1..m : bytes[i] \in T
  OBVIOUS
<1>4. \A i \in 1..f : file[i] \in T
  OBVIOUS
<1> HIDE DEF m, f
<1>5. w \in [1..l -> T]
  <2> SUFFICES ASSUME NEW i \in 1..l
               PROVE (IF i \in at + 1..at + m THEN bytes[i - at]
                      ELSE IF i <= f THEN file[i] ELSE 0) \in T
    OBVIOUS
  <2>1. i \in at + 1..at + m => i - at \in 1..m
    BY <1>2
  <2>2. i <= f => i \in 1..f
    BY <1>2
  <2> QED BY <1>3, <1>4, <2>1, <2>2
<1>6. w \in Seq(T) /\ Len(w) = l
  <2> HIDE DEF w, l
  <2> QED BY <1>2, <1>5, FunctionIsSeq
<1>7. ASSUME NEW i \in 1..m PROVE w[at + i] = bytes[i]
  <2>1. at + i \in at + 1..at + m /\ at + i \in 1..l /\ at + i - at = i
    BY <1>2
  <2> QED BY <2>1
<1>8. ASSUME NEW i \in 1..f, i \notin at + 1..at + m PROVE w[i] = file[i]
  <2>1. i \in 1..l /\ i <= f
    BY <1>2
  <2> QED BY <1>8, <2>1
<1> HIDE DEF w
<1> QED BY <1>1, <1>6, <1>7, <1>8 DEF m, f

(* Writing a crypted piece where its plaintext belongs keeps the invariant. *)
LEMMA WriteBlockInv == ASSUME CipherInv, WriteBlock PROVE CipherInv'
<1> DEFINE l == Len(receive)
           s == fed - l
           T == Bytes \cup -Md5Len..-1
<1>1. /\ pc = "crypt" /\ pc' = "read" /\ Done
      /\ cipher' = Written(cipher, DataAt + fed - Len(receive), Crypted)
      /\ UNCHANGED <<sk, ulbuf, log, plain, serv, fed, receive, output, asked>>
  BY DEF WriteBlock, sm4Vars
<1>2. /\ receive \in Seq(Bytes) /\ cipher \in Seq(T) /\ Len(cipher) \in Nat
      /\ l \in Nat /\ fed \in Nat /\ fed \in 0..Len(plain)
  BY PlainBytes DEF CipherInv, TypeOK
<1>3. /\ l \in 1..fed /\ s % 16 = 0 /\ s \in Nat /\ Sealed = s
      /\ \A i \in 1..l : receive[i] = plain[s + i]
      /\ sk = RoundKeys
  <2>1. Sealed = s
    BY <1>1 DEF Sealed
  <2>2. Len(receive) \in 1..fed /\ Sealed % 16 = 0
        /\ \A i \in 1..Len(receive) : receive[i] = plain[Sealed + i]
    BY <1>1 DEF CipherInv, Pieces
  <2>3. sk = RoundKeys
    BY <1>1 DEF CipherInv, Crypting
  <2> QED BY <1>2, <2>1, <2>2, <2>3
<1>4. /\ Crypted \in Seq(Bytes) /\ Len(Crypted) = l
      /\ \A i \in 1..l : i > (l \div 16) * 16 => Crypted[i] = receive[i]
      /\ Blockwise(log, RoundKeys, receive, Crypted, 0, l)
  BY <1>1, <1>3, CryptedIs
<1>5. /\ Len(cipher) = IF s = 0 THEN Md5At ELSE DataAt + s
      /\ \A i \in 1..Md5At : cipher[i] = Header[i]
      /\ Blockwise(log, RoundKeys, plain, cipher, DataAt, s)
      /\ \A i \in 1..s : cipher[DataAt + i] \in Bytes
  BY <1>1, <1>3 DEF CipherInv, HeaderOK, DataOK, Writing
<1>6. DataAt + fed - Len(receive) = DataAt + s /\ DataAt + s \in Nat
  BY <1>2, <1>3 DEF DataAt, Md5At, FlagLen, DeadlineLen, Md5Len
<1> DEFINE w == Written(cipher, DataAt + s, Crypted)
<1>7. cipher' = w
  <2> HIDE DEF s
  <2> QED BY <1>1, <1>6
<1> HIDE DEF l, s
<1>8. /\ w \in Seq(T) /\ Len(w) = DataAt + fed
      /\ \A i \in 1..l : w[DataAt + s + i] = Crypted[i]
      /\ \A i \in 1..s : w[DataAt + i] = cipher[DataAt + i]
      /\ \A i \in 1..Md5At : w[i] = cipher[i]
  <2>1. 0 \in T /\ Crypted \in Seq(T)
    <3>1. Bytes \subseteq T
      OBVIOUS
    <3>2. 0 \in T
      BY DEF Bytes
    <3> HIDE DEF T
    <3> QED BY <1>4, <3>1, <3>2
  <2> HIDE DEF T
  <2>2. /\ w \in Seq(T)
        /\ Len(w) = IF DataAt + s + Len(Crypted) > Len(cipher)
                    THEN DataAt + s + Len(Crypted) ELSE Len(cipher)
        /\ \A i \in 1..Len(Crypted) : w[DataAt + s + i] = Crypted[i]
        /\ \A i \in 1..Len(cipher) :
              i \notin DataAt + s + 1..DataAt + s + Len(Crypted) => w[i] = cipher[i]
    BY <1>2, <1>6, <2>1, WrittenIs
  <2> HIDE DEF w
  <2>3. Md5At \in Nat /\ DataAt \in Nat /\ Md5At < DataAt
    BY DEF DataAt, Md5At, FlagLen, DeadlineLen, Md5Len
  <2>4. fed = s + l /\ l \in Nat /\ l > 0
    BY <1>2, <1>3 DEF s
  <2>5. Len(w) = DataAt + fed
    <3>1. Len(Crypted) = l /\ DataAt + s + l = DataAt + fed
      BY <1>3, <1>4, <2>3, <2>4
    <3>2. Len(cipher) \in Nat /\ Len(cipher) < DataAt + fed
      BY <1>3, <1>5, <2>3, <2>4
    <3>3. DataAt + fed \in Nat
      BY <1>2, <2>3
    <3> DEFINE size == Len(w)
               old == Len(cipher)
               new == Len(Crypted)
    <3>4. size = IF DataAt + s + new > old THEN DataAt + s + new ELSE old
      BY <2>2
    <3> HIDE DEF size, old, new
    <3>5. new = l /\ old \in Nat /\ old < DataAt + fed
      BY <3>1, <3>2 DEF old, new
    <3>6. size = DataAt + fed
      BY <3>1, <3>3, <3>4, <3>5
    <3> QED BY <3>6 DEF size
  <2>6. ASSUME NEW i \in 1..s PROVE w[DataAt + i] = cipher[DataAt + i]
    <3>1. DataAt + i \in 1..Len(cipher)
      BY <1>3, <1>5, <2>3
    <3>2. DataAt + i \notin DataAt + s + 1..DataAt + s + Len(Crypted)
      BY <1>3, <1>4, <2>3, <2>4
    <3> QED BY <2>2, <3>1, <3>2
  <2>7. ASSUME NEW i \in 1..Md5At PROVE w[i] = cipher[i]
    <3>1. i \in 1..Len(cipher)
      BY <1>3, <1>5, <2>3
    <3>2. i \notin DataAt + s + 1..DataAt + s + Len(Crypted)
      BY <1>3, <1>4, <2>3, <2>4
    <3> QED BY <2>2, <3>1, <3>2
  <2> QED BY <1>4, <2>2, <2>5, <2>6, <2>7
<1>9. /\ s + l = fed /\ DataAt \in Nat /\ l \in Nat
  BY <1>2, <1>3 DEF s, DataAt, Md5At, FlagLen, DeadlineLen, Md5Len
<1> HIDE DEF w
<1>10. TypeOK'
  BY <1>1, <1>7, <1>8 DEF CipherInv, TypeOK
<1>11. ServOK'
  BY <1>1 DEF CipherInv, ServOK, Writing, SealedAt
<1>12. Pieces'
  BY <1>1 DEF CipherInv, Pieces, Writing, SealedAt, Recorded, ReaderAt
<1>13. Crypting'
  <2>1. ulbuf = <<>>
    BY <1>1 DEF Done
  <2> QED BY <1>1, <2>1 DEF Crypting
<1>14. Sealed' = fed /\ RoundKeys' = RoundKeys /\ Header' = Header
  BY <1>1 DEF Sealed, RoundKeys, Header
<1>15. DataOK'
  <2>1. Blockwise(log, RoundKeys, plain, w, DataAt, s)
    <3>1. \A i \in 1..s : plain[i] = plain[i] /\ w[DataAt + i] = cipher[DataAt + i]
      BY <1>8
    <3>2. s \in Nat /\ DataAt \in Nat /\ Blockwise(log, RoundKeys, plain, cipher, DataAt, s)
      BY <1>3, <1>5, <1>9
    <3> HIDE DEF s
    <3> QED BY <3>1, <3>2, BlockwiseSame
  <2>2. Blockwise(log, RoundKeys, plain, w, DataAt, s + l)
    <3>1. \A i \in 1..l : plain[s + i] = receive[i] /\ w[DataAt + s + i] = Crypted[i]
      BY <1>3, <1>8
    <3>2. s \in Nat /\ s % 16 = 0 /\ l \in Nat /\ DataAt \in Nat
      BY <1>3, <1>9
    <3>3. Blockwise(log, RoundKeys, receive, Crypted, 0, l)
      BY <1>4
    <3> HIDE DEF s
    <3> QED BY <2>1, <3>1, <3>2, <3>3, BlockwiseJoin
  <2>3. ASSUME NEW i \in 1..fed
        PROVE  w[DataAt + i] \in Bytes /\ (i > (fed \div 16) * 16 => w[DataAt + i] = plain[i])
    <3>1. CASE i <= s
      <4>1. i \in 1..s
        BY <1>3, <3>1
      <4>2. (fed \div 16) * 16 >= s
        BY <1>3, <1>9
      <4>3. ~ (i > (fed \div 16) * 16)
        BY <1>3, <1>9, <4>1, <4>2
      <4> QED BY <1>5, <1>8, <4>1, <4>3
    <3>2. CASE ~ (i <= s)
      <4> DEFINE j == i - s
      <4>1. j \in 1..l /\ DataAt + i = DataAt + s + j /\ i = s + j
        BY <1>3, <1>9, <3>2
      <4>2. i > (fed \div 16) * 16 => j > (l \div 16) * 16
        BY <1>3, <1>9
      <4> HIDE DEF j
      <4>3. Crypted[j] \in Bytes
        BY <1>4, <4>1
      <4>4. w[DataAt + i] = Crypted[j]
        BY <1>8, <4>1
      <4>5. receive[j] = plain[i]
        BY <1>3, <4>1
      <4> QED BY <1>4, <4>1, <4>2, <4>3, <4>4, <4>5
    <3> QED BY <3>1, <3>2
  <2> QED BY <1>1, <1>7, <1>9, <1>14, <2>2, <2>3 DEF DataOK
<1>16. HeaderOK'
  <2>1. fed # 0
    BY <1>3, <1>9
  <2> QED BY <1>1, <1>5, <1>7, <1>8, <1>14, <2>1 DEF HeaderOK, Writing, SealedAt, Recorded, ReaderAt
<1>17. asked = Nil
  BY <1>1 DEF CipherInv, ReaderAt
<1> QED BY <1>1, <1>10, <1>11, <1>12, <1>13, <1>15, <1>16, <1>17 DEF CipherInv, ThrewAtBounds,
        RestoredRecord, Recorded, ReaderAt

(* Two sequences of one length with the same elements are the same.         *)
LEMMA SeqsEqual ==
    ASSUME NEW T, NEW s \in Seq(T), NEW t \in Seq(T), Len(s) = Len(t),
           \A i \in 1..Len(s) : s[i] = t[i]
    PROVE  s = t
  OBVIOUS

(* A piece of a sequence, of which only the elements in it are known.       *)
LEMMA PieceIs ==
    ASSUME NEW T, NEW s \in Seq(T), NEW U, NEW m \in Nat, NEW n \in Nat, m + n <= Len(s),
           \A i \in 1..n : s[m + i] \in U
    PROVE  /\ SubSeq(s, m + 1, m + n) \in Seq(U)
           /\ Len(SubSeq(s, m + 1, m + n)) = n
           /\ \A i \in 1..n : SubSeq(s, m + 1, m + n)[i] = s[m + i]
<1> DEFINE t == SubSeq(s, m + 1, m + n)
<1>1. t \in Seq(T) /\ Len(t) = m + n - m /\ \A i \in 1..m + n - m : t[i] = s[m + i]
  BY SubSeqIs
<1>2. m + n - m = n
  OBVIOUS
<1> HIDE DEF t
<1>3. t \in Seq(T) /\ Len(t) = n /\ \A i \in 1..n : t[i] = s[m + i]
  BY <1>1, <1>2
<1>4. t \in [1..Len(t) -> T]
  BY <1>3, SeqIsFunction
<1>5. t \in [1..n -> U]
  BY <1>3, <1>4
<1>6. t \in Seq(U)
  BY <1>5, FunctionIsSeq
<1> QED BY <1>3, <1>6 DEF t

(* The digest written into the header is as long as the place left for it.  *)
LEMMA DigestBytesIs ==
    /\ DigestBytes \in Seq(Bytes \cup -Md5Len..-1)
    /\ Len(DigestBytes) = Md5Len
<1>1. Md5Len \in Nat
  BY DEF Md5Len
<1>2. DigestBytes \in [1..Md5Len -> Bytes \cup -Md5Len..-1]
  BY <1>1 DEF DigestBytes
<1> QED BY <1>1, <1>2, FunctionIsSeq

(* The digest of the data, or the throw of new char[], keeps the invariant. *)
LEMMA DigestCipherInv == ASSUME CipherInv, DigestCipher PROVE CipherInv'
<1> DEFINE l == Len(plain)
           T == Bytes \cup -Md5Len..-1
           CipherLen == AsInt(AsInt(Len(cipher)) - DataAt)
<1>1. pc = "read" /\ fed = l
  BY DEF DigestCipher
<1>2. /\ l \in Nat /\ cipher \in Seq(T) /\ Len(cipher) \in Nat
  BY PlainBytes DEF CipherInv, TypeOK
<1>3. Sealed = l
  BY <1>1 DEF Sealed
<1>4. /\ Len(cipher) = IF l = 0 THEN Md5At ELSE DataAt + l
      /\ \A i \in 1..Md5At : cipher[i] = Header[i]
      /\ Blockwise(log, RoundKeys, plain, cipher, DataAt, l)
      /\ \A i \in 1..l : /\ cipher[DataAt + i] \in Bytes
                         /\ i > (l \div 16) * 16 => cipher[DataAt + i] = plain[i]
  BY <1>1, <1>3 DEF CipherInv, HeaderOK, DataOK, Writing
<1>5. Md5At = 12 /\ DataAt = 44 /\ Md5Len = 32
  BY DEF DataAt, Md5At, FlagLen, DeadlineLen, Md5Len
<1>6. CipherLen = AsInt(Len(cipher) - DataAt)
  BY <1>2, <1>5, AsIntMinus
<1>7. l > 0 => CipherLen = AsInt(l)
  <2>1. l > 0 => Len(cipher) - DataAt = l
    BY <1>2, <1>4, <1>5
  <2> HIDE DEF CipherLen
  <2> QED BY <1>6, <2>1
<1>8. l = 0 => CipherLen < 0
  <2>1. l = 0 => Len(cipher) - DataAt = -32
    BY <1>2, <1>4, <1>5
  <2>2. -32 + (2 * (IntMax + 1)) * 0 = -32 /\ -32 \in Ints
    BY IntAssumption, CipherFileAssumption DEF Ints
  <2>3. AsInt(-32) = -32
    BY <2>2, AsIntUnique
  <2> HIDE DEF CipherLen
  <2> QED BY <1>6, <2>1, <2>3
<1>9. asked = Nil /\ ulbuf = <<>>
  BY <1>1 DEF CipherInv, ReaderAt, Crypting
<1>10. CASE CipherLen < 0
  <2>1. Threw
    BY <1>10 DEF DigestCipher
  <2>2. l \notin 1..IntMax
    <3> SUFFICES ASSUME l \in 1..IntMax PROVE FALSE
      OBVIOUS
    <3>1. l \in 0..IntMax /\ l > 0
      OBVIOUS
    <3>2. CipherLen = l
      BY <1>7, <3>1, AsIntSame
    <3> QED BY <1>2, <1>10, <3>2
  <2> QED BY <1>1, <2>1, <2>2, ThrewInv
<1>11. CASE ~ (CipherLen < 0)
  <2>1. /\ serv' = [serv EXCEPT !.md5_c = SubSeq(cipher, DataAt + 1, DataAt + CipherLen)]
        /\ cipher' = Written(cipher, Md5At, DigestBytes) /\ pc' = "store"
        /\ UNCHANGED <<sk, ulbuf, log, plain, fed, receive, output, row, asked>>
    BY <1>11 DEF DigestCipher, sm4Vars
  <2>2. l > 0 /\ CipherLen = AsInt(l)
    BY <1>2, <1>7, <1>8, <1>11
  <2>3. CipherLen \in Nat /\ CipherLen <= l
    <3> HIDE DEF CipherLen, l
    <3> QED BY <1>2, <1>11, <2>2, AsIntLess
  <2> DEFINE w == Written(cipher, Md5At, DigestBytes)
  <2>4. /\ w \in Seq(T) /\ Len(w) = DataAt + l
        /\ \A i \in 1..Md5Len : w[Md5At + i] = DigestBytes[i]
        /\ \A i \in 1..Md5At : w[i] = cipher[i]
        /\ \A i \in 1..l : w[DataAt + i] = cipher[DataAt + i]
    <3>1. 0 \in T
      BY DEF Bytes
    <3>2. DigestBytes \in Seq(T) /\ Len(DigestBytes) = Md5Len
      BY DigestBytesIs
    <3> HIDE DEF T
    <3>3. /\ w \in Seq(T)
          /\ Len(w) = IF Md5At + Len(DigestBytes) > Len(cipher)
                      THEN Md5At + Len(DigestBytes) ELSE Len(cipher)
          /\ \A i \in 1..Len(DigestBytes) : w[Md5At + i] = DigestBytes[i]
          /\ \A i \in 1..Len(cipher) :
                i \notin Md5At + 1..Md5At + Len(DigestBytes) => w[i] = cipher[i]
      <4>1. Md5At \in Nat
        BY <1>5
      <4> QED BY <1>2, <3>1, <3>2, <4>1, WrittenIs
    <3> HIDE DEF w
    <3>4. Md5At + Len(DigestBytes) = 44 /\ Len(cipher) = 44 + l /\ Len(cipher) >= 44
      BY <1>2, <1>4, <1>5, <2>2, <3>2
    <3>5. Len(w) = DataAt + l
      <4> DEFINE size == Len(w)
                 old == Len(cipher)
                 end == Md5At + Len(DigestBytes)
      <4>1. size = IF end > old THEN end ELSE old
        BY <3>3
      <4>2. end = 44 /\ old = 44 + l /\ old >= 44
        BY <3>4
      <4> HIDE DEF size, old, end, l
      <4>3. size = DataAt + l
        BY <1>2, <1>5, <4>1, <4>2
      <4> QED BY <4>3 DEF size
    <3>6. \A i \in 1..Md5At : w[i] = cipher[i]
      <4> SUFFICES ASSUME NEW i \in 1..Md5At PROVE w[i] = cipher[i]
        OBVIOUS
      <4>1. i \in 1..Len(cipher) /\ i \notin Md5At + 1..Md5At + Len(DigestBytes)
        BY <1>2, <1>5, <3>4
      <4> QED BY <3>3, <4>1
    <3>7. \A i \in 1..l : w[DataAt + i] = cipher[DataAt + i]
      <4> SUFFICES ASSUME NEW i \in 1..l PROVE w[DataAt + i] = cipher[DataAt + i]
        OBVIOUS
      <4> HIDE DEF l
      <4>1. DataAt + i \in 1..Len(cipher) /\ DataAt + i \notin Md5At + 1..Md5At + Len(DigestBytes)
        BY <1>2, <1>5, <3>4
      <4> QED BY <3>3, <4>1
    <3> QED BY <3>2, <3>3, <3>5, <3>6, <3>7
  <2>5. cipher' = w
    BY <2>1
  <2> HIDE DEF w, l, CipherLen
  <2> DEFINE md5 == SubSeq(cipher, DataAt + 1, DataAt + CipherLen)
  <2>6. /\ md5 \in Seq(Bytes) /\ Len(md5) = CipherLen
        /\ \A i \in 1..CipherLen : md5[i] = cipher[DataAt + i]
    <3>1. DataAt \in Nat /\ DataAt + CipherLen <= Len(cipher)
      BY <1>2, <1>4, <1>5, <2>2, <2>3, SMTT(30)
    <3>2. \A i \in 1..CipherLen : cipher[DataAt + i] \in Bytes
      BY <1>2, <1>4, <2>3
    <3>3. cipher \in Seq(T) /\ CipherLen \in Nat /\ DataAt \in Nat
          /\ DataAt + CipherLen <= Len(cipher)
      BY <1>2, <2>3, <3>1
    <3> HIDE DEF T
    <3> QED BY <3>2, <3>3, PieceIs
  <2> HIDE DEF md5
  <2>7. /\ serv \in [org : Orgs, md5_p : Seq(Bytes), md5_c : Seq(Bytes),
                     skey : GenKeys, expire : Deadlines]
        /\ AsInt(Len(plain)) >= 0
        /\ serv.md5_p = SubSeq(plain, 1, AsInt(Len(plain)))
    BY <1>1 DEF CipherInv, ServOK, Writing
  <2>8. serv' = [serv EXCEPT !.md5_c = md5]
    BY <2>1 DEF md5
  <2>9. /\ serv' \in [org : Orgs, md5_p : Seq(Bytes), md5_c : Seq(Bytes),
                      skey : GenKeys, expire : Deadlines]
        /\ serv'.md5_p = serv.md5_p /\ serv'.md5_c = md5
        /\ serv'.skey = serv.skey /\ serv'.expire = serv.expire
    BY <2>6, <2>7, <2>8
  <2>10. RoundKeys' = RoundKeys /\ Header' = Header /\ Sealed' = l
    BY <1>1, <2>1, <2>9 DEF RoundKeys, Header, Sealed
  <2>11. TypeOK'
    BY <2>1, <2>4, <2>5 DEF CipherInv, TypeOK
  <2>12. ServOK'
    BY <2>1, <2>7, <2>9 DEF ServOK
  <2>13. Pieces'
    BY <1>1, <1>2, <2>1, <2>2 DEF CipherInv, Pieces, l
  <2>14. Crypting'
    BY <1>9, <2>1 DEF Crypting
  <2>15. DataOK'
    <3>1. Blockwise(log, RoundKeys, plain, w, DataAt, l)
      <4>1. \A i \in 1..l : plain[i] = plain[i] /\ w[DataAt + i] = cipher[DataAt + i]
        BY <2>4
      <4>2. DataAt \in Nat
        BY <1>5
      <4>3. l \in Nat /\ Blockwise(log, RoundKeys, plain, cipher, DataAt, l)
        BY <1>2, <1>4
      <4> QED BY <4>1, <4>2, <4>3, BlockwiseSame
    <3>2. \A i \in 1..l : w[DataAt + i] \in Bytes
                          /\ (i > (l \div 16) * 16 => w[DataAt + i] = plain[i])
      BY <1>4, <2>4
    <3> QED BY <2>1, <2>5, <2>10, <3>1, <3>2 DEF DataOK
  <2>16. SubSeq(w, 1, DataAt) = Header \o DigestBytes
    <3>1. serv.expire \in Nat
      BY <2>7, CipherFileAssumption
    <3>2. Header \in Seq(Bytes) /\ Len(Header) = Md5At
      BY <3>1, HeaderIs DEF Header
    <3>3. Header \in Seq(T)
      <4>1. Bytes \subseteq T
        OBVIOUS
      <4> HIDE DEF T
      <4> QED BY <3>2, <4>1
    <3>4. DigestBytes \in Seq(T) /\ Len(DigestBytes) = Md5Len
      BY DigestBytesIs
    <3> HIDE DEF T
    <3> DEFINE a == SubSeq(w, 0 + 1, DataAt)
               b == Header \o DigestBytes
    <3>5. /\ b \in Seq(T) /\ Len(b) = Len(Header) + Len(DigestBytes)
          /\ \A i \in 1..Len(Header) : b[i] = Header[i]
          /\ \A i \in 1..Len(DigestBytes) : b[Len(Header) + i] = DigestBytes[i]
      <4>1. Header \in Seq(T) /\ DigestBytes \in Seq(T)
        BY <3>3, <3>4
      <4> QED BY <4>1, ConcatAt
    <3> HIDE DEF b
    <3>6. /\ b \in Seq(T) /\ Len(b) = Md5At + Md5Len
          /\ \A i \in 1..Md5At : b[i] = Header[i]
          /\ \A i \in 1..Md5Len : b[Md5At + i] = DigestBytes[i]
      BY <3>2, <3>4, <3>5, Zenon
    <3>7. a \in Seq(T) /\ Len(a) = DataAt - 0 /\ \A i \in 1..DataAt - 0 : a[i] = w[0 + i]
      <4>1. 0 \in Nat /\ DataAt \in Nat /\ 0 <= DataAt
        BY <1>5
      <4>2. DataAt <= Len(w)
        BY <1>2, <1>5, <2>4
      <4> QED BY <2>4, <4>1, <4>2, SubSeqIs
    <3>8. a = SubSeq(w, 1, DataAt)
      OBVIOUS
    <3> HIDE DEF a
    <3>9. Len(a) = Len(b)
      BY <1>5, <3>6, <3>7
    <3>10. ASSUME NEW i \in 1..Len(a) PROVE a[i] = b[i]
      <4>0. i \in 1..44 /\ i \in 1..DataAt - 0 /\ 0 + i = i
        BY <1>5, <3>7
      <4>1. a[i] = w[i]
        BY <3>7, <4>0
      <4>2. CASE i \in 1..Md5At
        BY <1>4, <2>4, <3>6, <4>1, <4>2
      <4>3. CASE i \notin 1..Md5At
        <5>1. i - Md5At \in 1..Md5Len /\ Md5At + (i - Md5At) = i
          BY <1>5, <4>0, <4>3
        <5> QED BY <2>4, <3>6, <4>1, <5>1
      <4> QED BY <4>2, <4>3
    <3>11. a = b
      BY <3>6, <3>7, <3>9, <3>10, SeqsEqual
    <3> QED BY <3>8, <3>11 DEF b
  <2>17. ASSUME l <= IntMax PROVE md5 = From(w, DataAt)
    <3>1. CipherLen = l
      BY <1>2, <2>2, <2>17, AsIntSame
    <3> DEFINE rest == SubSeq(w, DataAt + 1, DataAt + l)
    <3>2. /\ rest \in Seq(Bytes) /\ Len(rest) = l
          /\ \A i \in 1..l : rest[i] = w[DataAt + i]
      <4>1. DataAt \in Nat /\ DataAt + l <= Len(w)
        BY <1>2, <1>5, <2>4
      <4>2. \A i \in 1..l : w[DataAt + i] \in Bytes
        BY <1>4, <2>4
      <4>3. w \in Seq(T) /\ l \in Nat
        BY <1>2, <2>4
      <4> HIDE DEF T
      <4> QED BY <4>1, <4>2, <4>3, PieceIs
    <3>3. From(w, DataAt) = rest
      BY <2>4 DEF From
    <3> HIDE DEF rest
    <3>4. Len(md5) = Len(rest)
      BY <2>6, <3>1, <3>2
    <3>5. \A i \in 1..Len(md5) : md5[i] = rest[i]
      BY <2>4, <2>6, <3>1, <3>2
    <3>6. md5 = rest
      BY <2>6, <3>2, <3>4, <3>5, SeqsEqual
    <3> QED BY <3>3, <3>6
  <2>18. HeaderOK'
    <3>1. pc' \notin Writing /\ Len(cipher') = DataAt + Len(plain')
      BY <2>1, <2>4, <2>5 DEF Writing, l
    <3>2. SubSeq(cipher', 1, DataAt) = Header' \o DigestBytes
      BY <2>5, <2>10, <2>16
    <3>3. Len(plain') <= IntMax => serv'.md5_c = From(cipher', DataAt)
      BY <2>1, <2>5, <2>9, <2>17 DEF l
    <3> QED BY <3>1, <3>2, <3>3 DEF HeaderOK
  <2> QED BY <1>9, <2>1, <2>11, <2>12, <2>13, <2>14, <2>15, <2>18 DEF CipherInv, ThrewAtBounds,
          RestoredRecord, Recorded, ReaderAt
<1> QED BY <1>10, <1>11

(* Storing the record keeps it.                                             *)
LEMMA StoreInv == ASSUME CipherInv, Store PROVE CipherInv'
<1>1. /\ pc = "store" /\ pc' = "stored" /\ row' = StoredRow(serv)
      /\ UNCHANGED <<sk, ulbuf, log, plain, serv, fed, receive, output, cipher, asked>>
  BY DEF Store, sm4Vars
<1>2. RoundKeys' = RoundKeys /\ Header' = Header /\ Sealed' = Sealed
  BY <1>1 DEF RoundKeys, Header, Sealed
<1>3. TypeOK'
  BY <1>1 DEF CipherInv, TypeOK
<1>4. ServOK' /\ Pieces' /\ Crypting'
  BY <1>1 DEF CipherInv, ServOK, Pieces, Crypting, Writing, SealedAt, Recorded, ReaderAt
<1>5. DataOK' /\ HeaderOK'
  BY <1>1, <1>2 DEF CipherInv, DataOK, HeaderOK, Writing, SealedAt, Recorded, ReaderAt
<1>6. StoredRow(serv') = StoredRow(serv) /\ asked = Nil
  BY <1>1 DEF CipherInv, ReaderAt
<1> QED BY <1>1, <1>3, <1>4, <1>5, <1>6 DEF CipherInv, ThrewAtBounds, RestoredRecord, ReaderAt

(* A deadline too late for an int has passed at no second an int counts.    *)
LEMMA AtoiKeeps ==
    ASSUME NEW deadline \in Nat, NEW second \in 0..IntMax
    PROVE  atoi(deadline) >= second <=> deadline >= second
  BY IntAssumption DEF atoi

(* So does restoring a key object from the record, whatever the server      *)
(* answers.                                                                 *)
LEMMA RestoreInv == ASSUME CipherInv, Restore PROVE CipherInv'
<1>1. /\ pc = "stored" /\ pc' = "asked"
      /\ UNCHANGED <<sk, ulbuf, log, plain, serv, fed, receive, output, cipher, row>>
  BY DEF Restore, sm4Vars
<1>2. PICK comp \in Orgs, code \in Codes \cup {0} :
          asked' = Restored(Asked(comp, serv.md5_c), row, code)
  BY DEF Restore
<1>3. RoundKeys' = RoundKeys /\ Header' = Header /\ Sealed' = Sealed
  BY <1>1 DEF RoundKeys, Header, Sealed
<1>4. TypeOK'
  BY <1>1 DEF CipherInv, TypeOK
<1>5. ServOK' /\ Pieces' /\ Crypting'
  BY <1>1 DEF CipherInv, ServOK, Pieces, Crypting, Writing, SealedAt, Recorded, ReaderAt
<1>6. DataOK' /\ HeaderOK'
  BY <1>1, <1>3 DEF CipherInv, DataOK, HeaderOK, Writing, SealedAt, Recorded, ReaderAt
<1>7. row = StoredRow(serv) /\ serv.expire \in Nat
  BY <1>1, CipherFileAssumption DEF CipherInv, ServOK, SealedAt, Recorded
<1>8. /\ row.org = serv.org /\ row.md5_p = serv.md5_p /\ row.expire = serv.expire
  BY <1>7 DEF StoredRow
<1>9. asked'.code = 0 => /\ asked'.serv.org = serv.org
                         /\ asked'.serv.md5_p = serv.md5_p
                         /\ asked'.serv.expire = atoi(serv.expire)
  BY <1>2, <1>8 DEF Restored, Asked
<1>10. RestoredRecord'
  BY <1>1, <1>7, <1>9, AtoiKeeps DEF RestoredRecord
<1> QED BY <1>1, <1>4, <1>5, <1>6, <1>7, <1>10 DEF CipherInv, ThrewAtBounds, Recorded, ReaderAt

(* A reader who sets the decryption keys keeps it,                          *)
LEMMA OpenInv == ASSUME CipherInv, Open PROVE CipherInv'
<1> DEFINE l == Len(plain)
           T == Bytes \cup -Md5Len..-1
<1>1. /\ pc = "asked" /\ pc' = "decrypt" /\ ulbuf = <<>>
      /\ receive' = From(cipher, DataAt) /\ output' = <<>>
      /\ sk' = Swapped(sm4_setkey(serv.skey))
      /\ UNCHANGED <<ulbuf, log, plain, serv, fed, cipher, row, asked>>
  BY DEF Open, sm4_setkey_dec
<1>2. RoundKeys' = RoundKeys /\ Header' = Header /\ sk' = Swapped(RoundKeys)
  BY <1>1 DEF RoundKeys, Header
<1>3. fed = l /\ l \in Nat /\ cipher \in Seq(T) /\ Len(cipher) = DataAt + l /\ DataAt \in Nat
  BY <1>1, PlainBytes DEF CipherInv, TypeOK, Pieces, HeaderOK, SealedAt, Recorded, ReaderAt,
                          DataAt, Md5At, FlagLen, DeadlineLen, Md5Len
<1>4. Sealed = l /\ Sealed' = l
  BY <1>1, <1>3 DEF Sealed
<1>5. \A i \in 1..l : cipher[DataAt + i] \in Bytes
  BY <1>1, <1>4 DEF CipherInv, DataOK, SealedAt, Recorded, ReaderAt
<1>6. receive' \in Seq(Bytes)
  <2>1. receive' = SubSeq(cipher, DataAt + 1, DataAt + l)
    BY <1>1, <1>3 DEF From
  <2>2. DataAt + l <= Len(cipher)
    BY <1>3
  <2> HIDE DEF T, l
  <2>3. SubSeq(cipher, DataAt + 1, DataAt + l) \in Seq(Bytes)
    BY <1>3, <1>5, <2>2, PieceIs
  <2> QED BY <2>1, <2>3
<1> HIDE DEF T, l
<1>7. TypeOK'
  <2>1. sk' \in [1..32 -> Words]
    <3>1. RoundKeys \in [1..32 -> Words]
      BY KeyWords DEF RoundKeys
    <3>2. \A i \in 1..32 : RoundKeys[33 - i] \in Words
      BY <3>1
    <3> HIDE DEF RoundKeys
    <3> QED BY <1>2, <3>2 DEF Swapped
  <2>2. output' \in Seq(Bytes) /\ Len(output') = 0
    BY <1>1
  <2>3. Len(output') <= Ilen(receive')
    <3>1. Len(receive') \in Nat
      BY <1>6
    <3>2. 0 <= (Len(receive') \div 16) * 16
      BY <3>1
    <3> QED BY <2>2, <3>2 DEF Ilen
  <2> QED BY <1>1, <1>6, <2>1, <2>2, <2>3 DEF CipherInv, TypeOK
<1>8. ServOK' /\ Pieces'
  BY <1>1 DEF CipherInv, ServOK, Pieces, Writing, SealedAt, Recorded, ReaderAt
<1>9. Crypting'
  <2>1. Len(output') = 0 /\ Len(output') % 16 = 0
    BY <1>1
  <2>2. Blockwise(log', sk', receive', output', 0, Len(output'))
    BY <2>1, BlockwiseNone
  <2> QED BY <1>1, <1>2, <2>1, <2>2 DEF Crypting
<1>10. DataOK' /\ HeaderOK'
  BY <1>1, <1>2, <1>4 DEF CipherInv, DataOK, HeaderOK, Writing, SealedAt, Recorded, ReaderAt
<1>11. StoredRow(serv') = StoredRow(serv)
  BY <1>1
<1> QED BY <1>1, <1>7, <1>8, <1>9, <1>10, <1>11 DEF CipherInv, ThrewAtBounds, RestoredRecord,
        Recorded, ReaderAt

(* and so does what he has decrypted.                                       *)
LEMMA OpenedInv == ASSUME CipherInv, Opened PROVE CipherInv'
<1>1. /\ pc = "decrypt" /\ pc' = "opened" /\ ulbuf = <<>>
      /\ UNCHANGED <<sk, ulbuf, log, plain, serv, fed, receive, output, cipher, row, asked>>
  BY DEF Opened, sm4Vars, Done
<1>2. RoundKeys' = RoundKeys /\ Header' = Header /\ Sealed' = Sealed
  BY <1>1 DEF RoundKeys, Header, Sealed
<1>3. TypeOK'
  BY <1>1 DEF CipherInv, TypeOK
<1>4. ServOK' /\ Pieces' /\ Crypting'
  BY <1>1 DEF CipherInv, ServOK, Pieces, Crypting, Writing, SealedAt, Recorded, ReaderAt
<1>5. DataOK' /\ HeaderOK'
  BY <1>1, <1>2 DEF CipherInv, DataOK, HeaderOK, Writing, SealedAt, Recorded, ReaderAt
<1>6. StoredRow(serv') = StoredRow(serv)
  BY <1>1
<1> QED BY <1>1, <1>3, <1>4, <1>5, <1>6 DEF CipherInv, ThrewAtBounds, RestoredRecord,
        Recorded, ReaderAt

(* Every step keeps the invariant.                                          *)
LEMMA CipherStep == CipherInv /\ [Next]_vars => CipherInv'
<1> SUFFICES ASSUME CipherInv, [Next]_vars PROVE CipherInv'
  OBVIOUS
<1>1. CASE DigestPlain
  BY <1>1, DigestPlainInv
<1>2. CASE CreateCipher
  BY <1>2, CreateCipherInv
<1>3. CASE ReadBlock
  BY <1>3, ReadBlockInv
<1>4. CASE CryptStart
  BY <1>4, CryptStartInv
<1>5. CASE CryptRound
  BY <1>5, CryptRoundInv
<1>6. CASE CryptEnd
  BY <1>6, CryptEndInv
<1>7. CASE WriteBlock
  BY <1>7, WriteBlockInv
<1>8. CASE DigestCipher
  BY <1>8, DigestCipherInv
<1>9. CASE Store
  BY <1>9, StoreInv
<1>10. CASE Restore
  BY <1>10, RestoreInv
<1>11. CASE Open
  BY <1>11, OpenInv
<1>12. CASE Opened
  BY <1>12, OpenedInv
<1>13. CASE UNCHANGED vars
  <2>1. UNCHANGED <<sk, ulbuf, log, pc, plain, serv, fed, receive, output, cipher, row, asked>>
    BY <1>13 DEF vars, sm4Vars, fileVars
  <2>2. log \subseteq log'
    BY <2>1
  <2>3. TypeOK'
    BY <2>1 DEF CipherInv, TypeOK
  <2>4. Crypting'
    BY <2>1 DEF CipherInv, Crypting, RoundKeys
  <2> QED BY <2>1, <2>2, <2>3, <2>4, FilesStay DEF CipherInv
<1> QED BY <1>1, <1>2, <1>3, <1>4, <1>5, <1>6, <1>7, <1>8, <1>9, <1>10, <1>11, <1>12, <1>13
        DEF Next

(* What CipherInv says of every state: which run of SM4 each block of the   *)
(* cipher file and of the piece in hand came from, and where the header,    *)
(* the data and the digest are.                                             *)
THEOREM CipherInvHolds == Spec => []CipherInv
<1> QED BY CipherInit, CipherStep, PTL DEF Spec

(* Every variable stays in its set: no byte of a piece is outside 0..255    *)
(* and the cipher file has nothing but such bytes and its digest.           *)
THEOREM CipherTypeHolds == Spec => []TypeOK
<1>1. CipherInv => TypeOK
  BY DEF CipherInv
<1> QED BY <1>1, CipherInvHolds, PTL

(* A recorded file has the header, the data and their digest where          *)
(* OnEncryptFile means them to be, and the digests in its row are those of  *)
(* its data and of the whole plain file, whatever the length and the        *)
(* buffer's size.                                                           *)
THEOREM SealedWholeHolds == Spec => []SealedWhole
<1>1. CipherInv => SealedWhole
  <2> SUFFICES ASSUME CipherInv, pc \in Recorded
               PROVE  /\ SubSeq(cipher, 1, DataAt)
                            = Raw(1, FlagLen) \o Raw(row.expire, DeadlineLen) \o DigestBytes
                      /\ Len(cipher) = DataAt + Len(plain)
                      /\ Len(plain) <= IntMax =>
                            row.md5_c = From(cipher, DataAt) /\ row.md5_p = plain
    BY DEF SealedWhole, Recorded, ReaderAt
  <2>1. pc \in SealedAt
    BY DEF SealedAt
  <2>2. row.expire = serv.expire /\ row.md5_c = serv.md5_c /\ row.md5_p = serv.md5_p
    BY DEF CipherInv, StoredRow
  <2>3. plain \in Seq(Bytes) /\ Len(plain) \in Nat
    BY PlainBytes DEF CipherInv
  <2>4. Len(plain) <= IntMax => serv.md5_p = plain
    <3> SUFFICES ASSUME Len(plain) <= IntMax PROVE serv.md5_p = plain
      OBVIOUS
    <3>1. Len(plain) \in 0..IntMax
      BY <2>3, IntAssumption
    <3>2. serv.md5_p = SubSeq(plain, 1, Len(plain))
      BY <2>1, <3>1, AsIntSame DEF CipherInv, ServOK
    <3>3. SubSeq(plain, 1, Len(plain)) = plain
      BY <2>3
    <3> QED BY <3>2, <3>3
  <2> QED BY <2>1, <2>2, <2>4 DEF CipherInv, HeaderOK, Header
<1> QED BY <1>1, CipherInvHolds, PTL

(* The handler is left by an exception for no file with a byte in it whose  *)
(* length an int holds.                                                     *)
THEOREM ThrewAtBoundsHolds == Spec => []ThrewAtBounds
<1>1. CipherInv => ThrewAtBounds
  BY DEF CipherInv
<1> QED BY <1>1, CipherInvHolds, PTL

(* A row that is found gives back, to the organisation it is for, the       *)
(* digest that was stored and a deadline that passes when the one stored    *)
(* does.                                                                    *)
THEOREM RestoredRecordHolds == Spec => []RestoredRecord
<1>1. CipherInv => RestoredRecord
  BY DEF CipherInv
<1> QED BY <1>1, CipherInvHolds, PTL

-----------------------------------------------------------------------------
(* The SM4 of the handler and of the reader is that of Sm4.                 *)

(* Every step of the file handlers is a step of SM4 or leaves it alone.     *)
LEMMA UsesSm4Step == CipherInv /\ [Next]_vars => [Sm4Next]_sm4Vars
<1> SUFFICES ASSUME CipherInv, [Next]_vars PROVE [Sm4Next]_sm4Vars
  OBVIOUS
<1>1. ASSUME pc \in {"read"} \cup ReaderAt PROVE serv.skey \in Blocks
  <2>1. GenKeys \subseteq Generated
    BY CipherFileAssumption
  <2>2. Digits \cup Uppers \cup Lowers \subseteq Bytes
    BY DEF Digits, Uppers, Lowers, Bytes
  <2>3. Generated \subseteq Blocks
    BY <2>2 DEF Generated, Blocks
  <2>4. serv.skey \in GenKeys
    BY <1>1 DEF CipherInv, ServOK, Writing, SealedAt, Recorded
  <2> QED BY <2>1, <2>3, <2>4
<1>2. CASE ReadBlock
  BY <1>1, <1>2 DEF ReadBlock, Sm4Next
<1>3. CASE Open
  BY <1>1, <1>3 DEF Open, Sm4Next, ReaderAt
<1>4. CASE CryptStart
  <2> DEFINE n == Len(output)
             block == SubSeq(receive, n + 1, n + 16)
  <2>1. n < Ilen(receive) /\ Feed(block) /\ pc \in {"crypt", "decrypt"}
    BY <1>4 DEF CryptStart
  <2>2. receive \in Seq(Bytes) /\ n \in Nat /\ n % 16 = 0
    <3>1. receive \in Seq(Bytes) /\ output \in Seq(Bytes)
      BY DEF CipherInv, TypeOK
    <3>2. Len(output) % 16 = 0
      BY <2>1 DEF CipherInv, Crypting
    <3>3. Len(output) \in Nat
      BY <3>1
    <3> QED BY <3>1, <3>2, <3>3
  <2>3. n + 16 <= Len(receive) /\ Len(receive) \in Nat
    <3>1. Len(receive) \in Nat
      BY <2>2
    <3> HIDE DEF n
    <3>2. n < Ilen(receive) => n + 16 <= Len(receive)
      BY <2>2, <3>1, WholeBlocks DEF Ilen
    <3> QED BY <2>1, <3>1, <3>2
  <2> HIDE DEF n
  <2>4. block \in Seq(Bytes) /\ Len(block) = n + 16 - n
    BY <2>2, <2>3, SubSeqIs
  <2> HIDE DEF block
  <2>5. n + 16 - n = 16
    BY <2>2
  <2>6. block \in Blocks
    BY <2>4, <2>5, SeqIsFunction DEF Blocks
  <2> QED BY <2>1, <2>6 DEF Sm4Next
<1>5. CASE CryptRound
  BY <1>5 DEF CryptRound, Sm4Next
<1>6. CASE CryptEnd
  BY <1>6 DEF CryptEnd, Sm4Next
<1>7. CASE DigestPlain \/ CreateCipher \/ WriteBlock \/ DigestCipher \/ Store \/ Restore \/ Opened
  BY <1>7 DEF DigestPlain, CreateCipher, WriteBlock, DigestCipher, Store, Restore, Opened, Threw
<1>8. CASE UNCHANGED vars
  BY <1>8 DEF vars
<1> QED BY <1>2, <1>3, <1>4, <1>5, <1>6, <1>7, <1>8 DEF Next

(* Every way of a file uses SM4 as Sm4 says it may be used: a key is set    *)
(* when no block is under way, blocks are fed one at a time.                *)
THEOREM UsesSm4 == Spec => Sm4Spec
<1>1. Init => Sm4Init
  BY DEF Init
<1> QED BY <1>1, CipherInvHolds, UsesSm4Step, PTL DEF Spec, Sm4Spec

(* Hence all that was crypted for the file was crypted round by round.      *)
LEMMA FileTraces == Spec => []TraceInv
<1>1. Init => TraceInv
  BY TraceInit DEF Init
<1>2. CipherInv /\ TraceInv /\ [Next]_vars => TraceInv'
  BY UsesSm4Step, TraceStep
<1> QED BY <1>1, <1>2, CipherInvHolds, PTL DEF Spec

-----------------------------------------------------------------------------
(* Why the reader gets the plain file.                                      *)

(* A block of the plain file, encrypted into the cipher file and decrypted  *)
(* out of it, is that block.                                                *)
LEMMA BlockRecovered ==
    ASSUME TraceInv, NEW k, NEW in \in Blocks, NEW mid, NEW out,
           Made(log, k, in, mid), Made(log, Swapped(k), mid, out)
    PROVE  out = in
<1>1. PICK e \in log : /\ e.sk = k /\ mid = OutputOf(e.x)
                       /\ \A n \in 1..4 : e.x[n] = Get(in, 4 * (n - 1))
  BY DEF Made
<1>2. PICK d \in log : /\ d.sk = Swapped(k) /\ out = OutputOf(d.x)
                       /\ \A n \in 1..4 : d.x[n] = Get(mid, 4 * (n - 1))
  BY DEF Made
<1>3. \A n \in 1..4 : e.x[37 - n] \in Words
  <2>1. Trace(e.sk, e.x) /\ Len(e.x) = 36
    BY DEF TraceInv
  <2>2. \A n \in 1..4 : 37 - n \in 1..Len(e.x)
    <3>1. \A n \in 1..4 : 37 - n \in 1..36
      OBVIOUS
    <3> QED BY <2>1, <3>1, Zenon
  <2> QED BY <2>1, <2>2, TraceWord
<1>4. \A n \in 1..4 : d.x[n] = e.x[37 - n]
  BY <1>1, <1>2, <1>3, GetOfOutput
<1>5. \A n \in 1..4 : d.x[37 - n] = e.x[n]
  BY <1>1, <1>2, <1>4, TraceInverts DEF RoundsInvert
<1> QED BY <1>1, <1>2, <1>5, OutputOfGet

(* What the reader has decrypted is the plaintext with its padding.         *)
LEMMA OpenedRecovers == ASSUME CipherInv, TraceInv, Opened PROVE ReaderRecovers'
<1> DEFINE l == Len(plain)
           T == Bytes \cup -Md5Len..-1
<1>1. pc = "decrypt" /\ Done /\ opened' = Crypted /\ plain' = plain
  BY DEF Opened
<1>2. fed = l /\ plain \in Seq(Bytes) /\ l \in Nat /\ DataAt \in Nat
  BY <1>1, PlainBytes DEF CipherInv, Pieces, SealedAt, Recorded, ReaderAt,
                          DataAt, Md5At, FlagLen, DeadlineLen, Md5Len
<1>3. Sealed = l
  BY <1>1, <1>2 DEF Sealed
<1>4. /\ cipher \in Seq(T) /\ Len(cipher) = DataAt + l
      /\ receive = SubSeq(cipher, DataAt + 1, Len(cipher))
      /\ sk = Swapped(RoundKeys)
  BY <1>1 DEF CipherInv, TypeOK, HeaderOK, Pieces, Crypting, From, SealedAt, Recorded, ReaderAt
<1>5. /\ Blockwise(log, RoundKeys, plain, cipher, DataAt, l)
      /\ \A i \in 1..l : /\ cipher[DataAt + i] \in Bytes
                         /\ i > (l \div 16) * 16 => cipher[DataAt + i] = plain[i]
  BY <1>1, <1>3 DEF CipherInv, DataOK, SealedAt, Recorded, ReaderAt
<1>6. Len(receive) = l /\ \A i \in 1..l : receive[i] = cipher[DataAt + i]
  <2>1. receive = SubSeq(cipher, DataAt + 1, DataAt + l)
    BY <1>4
  <2>2. DataAt + l <= Len(cipher)
    BY <1>2, <1>4
  <2> HIDE DEF T, l
  <2> QED BY <1>2, <1>4, <1>5, <2>1, <2>2, PieceIs
<1>7. /\ Crypted \in Seq(Bytes) /\ Len(Crypted) = l
      /\ \A i \in 1..l : i > (l \div 16) * 16 => Crypted[i] = receive[i]
      /\ Blockwise(log, Swapped(RoundKeys), receive, Crypted, 0, l)
  BY <1>1, <1>4, <1>6, CryptedIs
<1>8. \A i \in 1..l : plain[i] \in Bytes
  BY <1>2
<1> DEFINE c == Crypted
<1>9. c \in Seq(Bytes) /\ Len(c) = l
  BY <1>7
<1> HIDE DEF T, l, c
<1>10. ASSUME NEW b \in 0..l, 16 * b + 16 <= l
       PROVE  Block(c, 16 * b) = Block(plain, 16 * b)
  <2> DEFINE in == Block(plain, 16 * b)
  <2>1. in \in Blocks
    <3>1. \A i \in 1..16 : plain[16 * b + i] \in Bytes
      <4> SUFFICES ASSUME NEW i \in 1..16 PROVE plain[16 * b + i] \in Bytes
        OBVIOUS
      <4>1. 16 * b + i \in 1..l
        BY <1>2, <1>10
      <4> QED BY <1>8, <4>1
    <3> QED BY <3>1 DEF Block, Blocks
  <2>2. Block(receive, 16 * b) = Block(cipher, DataAt + 16 * b)
    <3>1. \A i \in 1..16 : receive[16 * b + i] = cipher[DataAt + 16 * b + i]
      <4> SUFFICES ASSUME NEW i \in 1..16
                   PROVE  receive[16 * b + i] = cipher[DataAt + 16 * b + i]
        OBVIOUS
      <4>1. 16 * b + i \in 1..l /\ DataAt + (16 * b + i) = DataAt + 16 * b + i
        BY <1>2, <1>10
      <4> QED BY <1>6, <4>1
    <3> QED BY <3>1 DEF Block
  <2>3. Made(log, RoundKeys, in, Block(cipher, DataAt + 16 * b))
    BY <1>5, <1>10 DEF Blockwise
  <2>4. Made(log, Swapped(RoundKeys), Block(cipher, DataAt + 16 * b), Block(c, 16 * b))
    <3>1. Made(log, Swapped(RoundKeys), Block(receive, 16 * b), Block(Crypted, 0 + 16 * b))
      BY <1>7, <1>10 DEF Blockwise
    <3>2. 0 + 16 * b = 16 * b
      BY <1>2
    <3> QED BY <2>2, <3>1, <3>2 DEF c
  <2> HIDE DEF in
  <2>5. Block(c, 16 * b) = in
    BY <2>1, <2>3, <2>4, BlockRecovered
  <2> QED BY <2>5 DEF in
<1>11. ASSUME NEW i \in 1..l PROVE c[i] = plain[i]
  <2>1. CASE i > (l \div 16) * 16
    BY <1>5, <1>6, <1>7, <2>1 DEF c
  <2>2. CASE ~ (i > (l \div 16) * 16)
    <3> DEFINE b == (i - 1) \div 16
               j == i - 16 * b
    <3>1. b \in 0..l /\ j \in 1..16 /\ i = 16 * b + j /\ 16 * b + 16 <= l
      BY <1>2, <2>2
    <3> HIDE DEF b, j
    <3>2. Block(c, 16 * b) = Block(plain, 16 * b)
      BY <1>10, <3>1
    <3>3. Block(c, 16 * b)[j] = c[16 * b + j] /\ Block(plain, 16 * b)[j] = plain[16 * b + j]
      BY <3>1 DEF Block
    <3> QED BY <3>1, <3>2, <3>3
  <2> QED BY <2>1, <2>2
<1>12. Len(c) = Len(plain) /\ \A i \in 1..Len(c) : c[i] = plain[i]
  BY <1>9, <1>11 DEF l
<1>13. c = plain
  BY <1>2, <1>9, <1>12, SeqsEqual
<1> QED BY <1>1, <1>13 DEF ReaderRecovers, c

(* No later step spoils that.                                               *)
LEMMA RecoversStep == CipherInv /\ TraceInv /\ ReaderRecovers /\ [Next]_vars => ReaderRecovers'
<1> SUFFICES ASSUME CipherInv, TraceInv, ReaderRecovers, [Next]_vars PROVE ReaderRecovers'
  OBVIOUS
<1>1. CASE Opened
  BY <1>1, OpenedRecovers
<1>2. CASE CryptStart \/ CryptRound \/ UNCHANGED vars
  BY <1>2 DEF CryptStart, CryptRound, vars, fileVars, ReaderRecovers
<1>3. CASE CryptEnd
  BY <1>3 DEF CryptEnd, ReaderRecovers
<1>4. CASE DigestPlain \/ CreateCipher \/ ReadBlock \/ WriteBlock
  BY <1>4 DEF DigestPlain, Threw, CreateCipher, ReadBlock, WriteBlock, ReaderRecovers
<1>5. CASE DigestCipher \/ Store \/ Restore \/ Open
  BY <1>5 DEF DigestCipher, Threw, Store, Restore, Open, ReaderRecovers
<1> QED BY <1>1, <1>2, <1>3, <1>4, <1>5 DEF Next

(* Encrypted a buffer at a time, the key set anew for each, behind a header *)
(* of 44 bytes that is written in two parts; decrypted in one piece under   *)
(* the reversed round keys: every plain file comes back, for every content, *)
(* length and size of the buffer.                                           *)
THEOREM ReaderRecoversHolds == Spec => []ReaderRecovers
<1>1. Init => ReaderRecovers
  BY DEF Init, ReaderRecovers
<1> QED BY <1>1, RecoversStep, CipherInvHolds, FileTraces, PTL DEF Spec

-----------------------------------------------------------------------------
(* The key: what store prepares, what it writes and what restore reads.     *)

(* A byte is the two digits sprint_hex writes for it.                       *)
LEMMA TwoDigits ==
    ASSUME NEW byte \in Bytes
    PROVE  /\ byte \div 16 \in 0..15
           /\ byte % 16 \in 0..15
           /\ ((byte \div 16) * 16 + (byte % 16)) % 256 = byte
<1>1. byte \in Int /\ 0 <= byte /\ byte <= 255
  BY DEF Bytes
<1>2. byte \div 16 \in Int /\ byte % 16 \in 0..15
  BY <1>1
<1>3. byte = 16 * (byte \div 16) + (byte % 16)
  BY <1>1
<1>4. 0 <= byte \div 16 /\ byte \div 16 <= 15
  BY <1>1, <1>2, <1>3
<1>5. byte % 256 = byte
  BY <1>1
<1>6. (byte \div 16) * 16 + (byte % 16) = byte
  BY <1>1, <1>2, <1>3
<1>7. byte \div 16 \in 0..15
  BY <1>2, <1>4
<1> QED BY <1>2, <1>5, <1>6, <1>7

(* A digit that is written is read as the number it was written for.       *)
LEMMA HexDigitValue ==
    ASSUME NEW v \in 0..15
    PROVE  /\ HexDigit(v) \in 48..57 \cup 97..102
           /\ HexValue(HexDigit(v)) = v
  BY DEF HexDigit, HexValue

(* Twice as many characters as bytes, all of them hex digits.               *)
LEMMA HexLength ==
    ASSUME NEW src \in Seq(Bytes)
    PROVE  /\ sprint_hex(src) \in Seq(48..57 \cup 97..102)
           /\ Len(sprint_hex(src)) = 2 * Len(src)
<1> DEFINE D == 48..57 \cup 97..102
           digit(i) == LET byte == src[(i + 1) \div 2]
                       IN  HexDigit(IF i % 2 = 1 THEN byte \div 16 ELSE byte % 16)
<1>1. ASSUME NEW i \in 1..2 * Len(src) PROVE digit(i) \in D
  <2>1. (i + 1) \div 2 \in 1..Len(src)
    OBVIOUS
  <2>2. src[(i + 1) \div 2] \in Bytes
    BY <2>1
  <2>3. src[(i + 1) \div 2] \div 16 \in 0..15 /\ src[(i + 1) \div 2] % 16 \in 0..15
    BY <2>2, TwoDigits
  <2> QED BY <2>3, HexDigitValue
<1>2. sprint_hex(src) = [i \in 1..2 * Len(src) |-> digit(i)]
  BY DEF sprint_hex
<1>3. 2 * Len(src) \in Nat
  OBVIOUS
<1> HIDE DEF digit
<1>4. [i \in 1..2 * Len(src) |-> digit(i)] \in [1..2 * Len(src) -> D]
  BY <1>1
<1>5. /\ [i \in 1..2 * Len(src) |-> digit(i)] \in Seq(D)
      /\ Len([i \in 1..2 * Len(src) |-> digit(i)]) = 2 * Len(src)
  BY <1>3, <1>4
<1> QED BY <1>2, <1>5

(* What restore decodes from the hex form, which store prepares and does    *)
(* not write, is the key.                                                   *)
THEOREM HexFormWouldRestore ==
    ASSUME NEW src \in Seq(Bytes)
    PROVE  Converted(sprint_hex(src)) = src
<1> DEFINE h == sprint_hex(src)
<1>1. Len(h) \div 2 = Len(src)
  <2>1. Len(h) = 2 * Len(src)
    BY HexLength
  <2> HIDE DEF h
  <2> QED BY <2>1
<1>2. ASSUME NEW i \in 1..Len(src)
      PROVE  (HexValue(h[2 * i - 1]) * 16 + HexValue(h[2 * i])) % 256 = src[i]
  <2>1. src[i] \in Bytes
    OBVIOUS
  <2>2. h[2 * i - 1] = HexDigit(src[i] \div 16)
    <3>1. 2 * i - 1 \in 1..2 * Len(src) /\ (2 * i - 1) % 2 = 1 /\ ((2 * i - 1) + 1) \div 2 = i
      OBVIOUS
    <3> QED BY <3>1 DEF sprint_hex
  <2>3. h[2 * i] = HexDigit(src[i] % 16)
    <3>1. 2 * i \in 1..2 * Len(src) /\ (2 * i) % 2 # 1 /\ (2 * i + 1) \div 2 = i
      OBVIOUS
    <3> QED BY <3>1 DEF sprint_hex
  <2>4. src[i] \div 16 \in 0..15 /\ src[i] % 16 \in 0..15
    BY <2>1, TwoDigits
  <2>5. HexValue(h[2 * i - 1]) = src[i] \div 16 /\ HexValue(h[2 * i]) = src[i] % 16
    BY <2>2, <2>3, <2>4, HexDigitValue
  <2>6. ((src[i] \div 16) * 16 + (src[i] % 16)) % 256 = src[i]
    BY <2>1, TwoDigits
  <2> QED BY <2>5, <2>6
<1>3. Converted(h) = [i \in 1..Len(src) |-> src[i]]
  <2> HIDE DEF h
  <2> QED BY <1>1, <1>2 DEF Converted
<1>4. [i \in 1..Len(src) |-> src[i]] = src
  OBVIOUS
<1> QED BY <1>3, <1>4

(* What store writes instead is a key restore cannot give back: whatever    *)
(* the characters, half of them are left.                                   *)
THEOREM KeyNeverRestored ==
    ASSUME NEW key \in Generated
    PROVE  Converted(StoredRow([org |-> Nil, md5_p |-> Nil, md5_c |-> Nil,
                                skey |-> key, expire |-> Nil]).skey) # key
<1>1. Len(key) = 16
  BY DEF Generated
<1>2. DOMAIN Converted(key) = 1..8
  BY <1>1 DEF Converted
<1>3. DOMAIN key = 1..16
  BY DEF Generated
<1>4. 9 \in 1..16 /\ 9 \notin 1..8
  OBVIOUS
<1>5. Converted(key) # key
  BY <1>2, <1>3, <1>4
<1> QED BY <1>5 DEF StoredRow
=============================================================================
