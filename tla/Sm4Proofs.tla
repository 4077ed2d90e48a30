----------------------------- MODULE Sm4Proofs -----------------------------
(***************************************************************************)
(* Why one function encrypts and decrypts: RoundsInvert for any keys and   *)
(* any blocks, whoever calls the cipher.                                   *)
(***************************************************************************)
EXTENDS Sm4, LoopProofs

-----------------------------------------------------------------------------
(* Words.                                                                   *)

(* Whatever is added up is a word.                                          *)
LEMMA XorWord == ASSUME NEW a, NEW b PROVE Xor(a, b) \in Words
  BY DEF Xor, Words

(* Added twice, a word cancels.                                             *)
LEMMA XorTwice ==
    ASSUME NEW a \in Words, NEW b \in Words
    PROVE  Xor(Xor(a, b), b) = a
<1>1. ASSUME NEW p \in Bits PROVE Xor(Xor(a, b), b)[p] = a[p]
  <2>1. a[p] \in {0, 1} /\ b[p] \in {0, 1}
    BY DEF Words
  <2>2. Xor(a, b)[p] = IF a[p] = b[p] THEN 0 ELSE 1
    BY DEF Xor
  <2>3. Xor(Xor(a, b), b)[p] = IF Xor(a, b)[p] = b[p] THEN 0 ELSE 1
    BY DEF Xor
  <2> QED BY <2>1, <2>2, <2>3
<1>2. Xor(Xor(a, b), b) \in Words
  BY XorWord
<1> QED BY <1>1, <1>2 DEF Words

(* Three words are added in either order.                                   *)
LEMMA XorReversed ==
    ASSUME NEW a \in Words, NEW b \in Words, NEW c \in Words
    PROVE  Xor(Xor(a, b), c) = Xor(Xor(c, b), a)
<1>1. ASSUME NEW p \in Bits PROVE Xor(Xor(a, b), c)[p] = Xor(Xor(c, b), a)[p]
  <2>1. a[p] \in {0, 1} /\ b[p] \in {0, 1} /\ c[p] \in {0, 1}
    BY DEF Words
  <2>2. /\ Xor(a, b)[p] = IF a[p] = b[p] THEN 0 ELSE 1
        /\ Xor(c, b)[p] = IF c[p] = b[p] THEN 0 ELSE 1
    BY DEF Xor
  <2>3. /\ Xor(Xor(a, b), c)[p] = IF Xor(a, b)[p] = c[p] THEN 0 ELSE 1
        /\ Xor(Xor(c, b), a)[p] = IF Xor(c, b)[p] = a[p] THEN 0 ELSE 1
    BY DEF Xor
  <2> QED BY <2>1, <2>2, <2>3
<1>2. Xor(Xor(a, b), c) \in Words /\ Xor(Xor(c, b), a) \in Words
  BY XorWord
<1> QED BY <1>1, <1>2 DEF Words

(* The bytes of a block are read as words.                                  *)
LEMMA GetWord ==
    ASSUME NEW block \in Blocks, NEW n \in 1..4
    PROVE  Get(block, 4 * (n - 1)) \in Words
<1>1. ASSUME NEW p \in Bits
      PROVE  (block[4 * (n - 1) + 1 + (p \div 8)] \div Weights[(p % 8) + 1]) % 2 \in {0, 1}
  <2>1. p \div 8 \in 0..3 /\ p % 8 \in 0..7
    BY DEF Bits
  <2>2. block[4 * (n - 1) + 1 + (p \div 8)] \in Bytes
    <3>1. 4 * (n - 1) + 1 + (p \div 8) \in 1..16
      BY <2>1
    <3> QED BY <3>1 DEF Blocks
  <2>3. Weights[(p % 8) + 1] \in Nat \ {0}
    <3>1. (p % 8) + 1 \in 1..8
      BY <2>1
    <3>2. Weights \in [1..8 -> Nat \ {0}]
      BY DEF Weights
    <3> QED BY <3>1, <3>2
  <2>4. ASSUME NEW x \in Bytes, NEW w \in Nat \ {0} PROVE (x \div w) % 2 \in {0, 1}
    <3>1. x \div w \in Int
      BY DEF Bytes
    <3> QED BY <3>1
  <2> QED BY <2>2, <2>3, <2>4
<1> QED BY <1>1 DEF Get, Words

(* A round adds to its first word one that depends on the others.           *)
Mixed(x1, x2, x3, rk) == sm4Lt(Xor(Xor(Xor(x1, x2), x3), rk))

(* What a round mixes in is a word.                                         *)
LEMMA MixedWord == ASSUME NEW x1, NEW x2, NEW x3, NEW rk PROVE Mixed(x1, x2, x3, rk) \in Words
  BY XorWord DEF Mixed, sm4Lt

-----------------------------------------------------------------------------
(* The words of a block, as far as its rounds have been done under k.       *)
Trace(k, x) ==
    /\ x \in Seq(Words)
    /\ \A n \in 1..32 :
          n + 4 <= Len(x) => x[n + 4] = sm4F(x[n], x[n + 1], x[n + 2], x[n + 3], k[n])

(* The block in hand and the blocks done are such words.                    *)
TraceInv ==
    /\ ulbuf # <<>> => Len(ulbuf) \in 4..36 /\ Trace(sk, ulbuf)
    /\ \A e \in log : Len(e.x) = 36 /\ Trace(e.sk, e.x)

(* A word of a trace is made of the four before it.                         *)
LEMMA TraceAt ==
    ASSUME NEW k, NEW x, Trace(k, x), NEW n \in 1..32, n + 4 <= Len(x)
    PROVE  x[n + 4] = sm4F(x[n], x[n + 1], x[n + 2], x[n + 3], k[n])
  BY DEF Trace

(* In a finished trace, each word is the one four before it with the mix of *)
(* those between.                                                           *)
LEMMA MixedAt ==
    ASSUME NEW k, NEW x, Trace(k, x), Len(x) = 36
    PROVE  \A n \in 1..32 : x[n + 4] = Xor(x[n], Mixed(x[n + 1], x[n + 2], x[n + 3], k[n]))
<1> TAKE n \in 1..32
<1>1. n + 4 <= Len(x)
  OBVIOUS
<1>2. x[n + 4] = sm4F(x[n], x[n + 1], x[n + 2], x[n + 3], k[n])
  BY <1>1, TraceAt
<1> QED BY <1>2 DEF sm4F, Mixed

(* Every element of a trace is a word.                                      *)
LEMMA TraceWord ==
    ASSUME NEW k, NEW x, Trace(k, x), NEW n \in 1..Len(x)
    PROVE  x[n] \in Words
<1>1. x \in Seq(Words)
  BY DEF Trace
<1> QED BY <1>1

(* What a longer sequence has in common with the one it was made from.      *)
LEMMA AppendAt ==
    ASSUME NEW S, NEW s \in Seq(S), NEW w \in S
    PROVE  /\ Append(s, w) \in Seq(S)
           /\ Len(Append(s, w)) = Len(s) + 1
           /\ \A n \in 1..Len(s) : Append(s, w)[n] = s[n]
           /\ Append(s, w)[Len(s) + 1] = w
  OBVIOUS

(* All traces are traces before anything is fed,                            *)
LEMMA TraceInit == Sm4Init => TraceInv
  BY DEF Sm4Init, TraceInv

(* when a block is fed,                                                     *)
LEMMA TraceFeed ==
    ASSUME TraceInv, NEW block \in Blocks, Feed(block)
    PROVE  TraceInv'
<1> DEFINE x == [n \in 1..4 |-> Get(block, 4 * (n - 1))]
<1>1. x \in Seq(Words) /\ Len(x) = 4
  <2>1. x \in [1..4 -> Words]
    BY GetWord
  <2> QED BY <2>1
<1>2. ulbuf' = x /\ sk' = sk /\ log' = log
  BY DEF Feed
<1>3. Trace(sk, x)
  <2> HIDE DEF x
  <2> QED BY <1>1 DEF Trace
<1> HIDE DEF x
<1>4. Len(ulbuf') \in 4..36
  BY <1>1, <1>2
<1> QED BY <1>2, <1>3, <1>4 DEF TraceInv

(* after each round,                                                        *)
LEMMA TraceRound ==
    ASSUME TraceInv, Round
    PROVE  TraceInv'
<1> DEFINE n == Len(ulbuf)
           y == sm4F(ulbuf[n - 3], ulbuf[n - 2], ulbuf[n - 1], ulbuf[n], sk[n - 3])
<1>1. n \in 4..35 /\ ulbuf' = Append(ulbuf, y) /\ sk' = sk /\ log' = log
  BY DEF Round
<1> HIDE DEF y
<1>2. ulbuf # <<>> /\ Trace(sk, ulbuf)
  <2>1. ulbuf # <<>>
    <3>1. Len(ulbuf) # 0
      <4>1. n # 0
        <5>1. n \in 4..35
          BY <1>1
        <5> HIDE DEF n
        <5> QED BY <5>1
      <4> QED BY <4>1
    <3>2. Len(<<>>) = 0
      OBVIOUS
    <3> QED BY <3>1, <3>2
  <2> QED BY <2>1 DEF TraceInv
<1>3. ulbuf \in Seq(Words)
  BY <1>2 DEF Trace
<1>4. y \in Words
  BY XorWord DEF sm4F, y
<1>5. /\ ulbuf' \in Seq(Words) /\ Len(ulbuf') = n + 1
      /\ \A m \in 1..n : ulbuf'[m] = ulbuf[m]
      /\ ulbuf'[n + 1] = y
  BY <1>1, <1>3, <1>4, AppendAt
<1>6. ASSUME NEW m \in 1..32, m + 4 <= Len(ulbuf')
      PROVE  ulbuf'[m + 4] = sm4F(ulbuf'[m], ulbuf'[m + 1], ulbuf'[m + 2], ulbuf'[m + 3], sk[m])
  <2>1. ulbuf'[m] = ulbuf[m] /\ ulbuf'[m + 1] = ulbuf[m + 1]
        /\ ulbuf'[m + 2] = ulbuf[m + 2] /\ ulbuf'[m + 3] = ulbuf[m + 3]
    <3>1. m \in 1..n /\ m + 1 \in 1..n /\ m + 2 \in 1..n /\ m + 3 \in 1..n
      BY <1>1, <1>5, <1>6
    <3> QED BY <1>5, <3>1
  <2>2. CASE m + 4 <= n
    <3>1. ulbuf'[m + 4] = ulbuf[m + 4]
      BY <1>1, <1>5, <2>2
    <3>2. ulbuf[m + 4] = sm4F(ulbuf[m], ulbuf[m + 1], ulbuf[m + 2], ulbuf[m + 3], sk[m])
      BY <1>2, <2>2, TraceAt
    <3> QED BY <2>1, <3>1, <3>2
  <2>3. CASE m + 4 = n + 1
    <3>1. ulbuf'[m + 4] = y
      BY <1>5, <2>3
    <3>2. m = n - 3 /\ m + 1 = n - 2 /\ m + 2 = n - 1 /\ m + 3 = n
      BY <1>1, <2>3
    <3> QED BY <2>1, <3>1, <3>2 DEF y
  <2> QED BY <1>1, <1>5, <1>6, <2>2, <2>3
<1>7. Trace(sk, ulbuf')
  BY <1>5, <1>6 DEF Trace
<1>8. Len(ulbuf') \in 4..36
  <2> HIDE DEF n
  <2> QED BY <1>1, <1>5
<1> QED BY <1>1, <1>7, <1>8 DEF TraceInv

(* when a block is finished,                                                *)
LEMMA TraceYield ==
    ASSUME TraceInv, Yield
    PROVE  TraceInv'
<1>1. Len(ulbuf) = 36 /\ ulbuf' = <<>> /\ log' = log \cup {[sk |-> sk, x |-> ulbuf]}
  BY DEF Yield
<1>2. ulbuf # <<>>
  BY <1>1
<1>3. Trace(sk, ulbuf)
  BY <1>2 DEF TraceInv
<1> QED BY <1>1, <1>3 DEF TraceInv

(* hence after every step.                                                  *)
LEMMA TraceStep == TraceInv /\ [Sm4Next]_sm4Vars => TraceInv'
<1> SUFFICES ASSUME TraceInv, [Sm4Next]_sm4Vars PROVE TraceInv'
  OBVIOUS
<1>1. CASE \E key \in Blocks : sm4_setkey_enc(key) \/ sm4_setkey_dec(key)
  BY <1>1 DEF sm4_setkey_enc, sm4_setkey_dec, TraceInv
<1>2. CASE \E block \in Blocks : Feed(block)
  BY <1>2, TraceFeed
<1>3. CASE Round
  BY <1>3, TraceRound
<1>4. CASE Yield
  BY <1>4, TraceYield
<1>5. CASE UNCHANGED sm4Vars
  BY <1>5 DEF sm4Vars, TraceInv
<1> QED BY <1>1, <1>2, <1>3, <1>4, <1>5 DEF Sm4Next

-----------------------------------------------------------------------------
(* Under the reversed keys the words come back in reverse.                  *)
LEMMA Backwards ==
    ASSUME NEW k, NEW x, NEW l, NEW y,
           Trace(k, x), Len(x) = 36, Trace(l, y), Len(y) = 36,
           \A n \in 1..32 : l[n] = k[33 - n],
           \A n \in 1..4 : y[n] = x[37 - n]
    PROVE  \A n \in 1..36 : y[n] = x[37 - n]
<1> DEFINE Wrong == {n \in 1..36 : y[n] # x[37 - n]}
<1> SUFFICES ASSUME Wrong # {} PROVE FALSE
  OBVIOUS
<1>1. PICK m \in Wrong : \A n \in Wrong : m <= n
  <2>1. Wrong \in SUBSET Nat
    OBVIOUS
  <2> HIDE DEF Wrong
  <2> QED BY <2>1, LeastNumber
<1>2. m \in 5..36
  OBVIOUS
<1> DEFINE i == m - 4
           j == 33 - i
<1>3. i \in 1..32 /\ j \in 1..32 /\ m = i + 4
  BY <1>2
<1>4. y[i] = x[j + 4] /\ y[i + 1] = x[j + 3] /\ y[i + 2] = x[j + 2] /\ y[i + 3] = x[j + 1]
  <2>1. ASSUME NEW n \in 1..36, n < m PROVE y[n] = x[37 - n]
    BY <1>1, <2>1
  <2>2. y[i] = x[37 - i] /\ y[i + 1] = x[37 - (i + 1)] /\ y[i + 2] = x[37 - (i + 2)]
        /\ y[i + 3] = x[37 - (i + 3)]
    BY <1>2, <1>3, <2>1
  <2>3. 37 - i = j + 4 /\ 37 - (i + 1) = j + 3 /\ 37 - (i + 2) = j + 2 /\ 37 - (i + 3) = j + 1
    BY <1>3
  <2> QED BY <2>2, <2>3
<1>5. l[i] = k[j]
  BY <1>3
<1> HIDE DEF j
<1> DEFINE there == Mixed(x[j + 1], x[j + 2], x[j + 3], k[j])
           back == Mixed(x[j + 3], x[j + 2], x[j + 1], k[j])
<1>6. y[i + 4] = Xor(x[j + 4], back)
  <2>1. y[i + 4] = Xor(y[i], Mixed(y[i + 1], y[i + 2], y[i + 3], l[i]))
    BY <1>3, MixedAt
  <2> QED BY <2>1, <1>4, <1>5
<1>7. x[j + 4] = Xor(x[j], there)
  BY <1>3, MixedAt
<1>8. x[j] \in Words /\ x[j + 1] \in Words /\ x[j + 2] \in Words /\ x[j + 3] \in Words
  <2>1. j \in 1..Len(x) /\ j + 1 \in 1..Len(x) /\ j + 2 \in 1..Len(x) /\ j + 3 \in 1..Len(x)
    BY <1>3
  <2> QED BY <2>1, TraceWord
<1>9. back = there
  BY <1>8, XorReversed DEF Mixed
<1>10. y[i + 4] = x[j]
  <2>1. there \in Words
    BY MixedWord
  <2> HIDE DEF there, back
  <2> QED BY <1>6, <1>7, <1>8, <1>9, <2>1, XorTwice
<1>11. y[m] = x[37 - m]
  BY <1>3, <1>10 DEF j
<1> QED BY <1>11

(* Traces undo each other when one has the round keys of the other in       *)
(* reverse.                                                                 *)
LEMMA TraceInverts == TraceInv => RoundsInvert
<1> SUFFICES ASSUME TraceInv, NEW e \in log, NEW d \in log,
                    \A n \in 1..4 : d.x[n] = e.x[37 - n],
                    d.sk = Swapped(e.sk)
             PROVE  \A n \in 1..4 : d.x[37 - n] = e.x[n]
  BY DEF RoundsInvert
<1>1. /\ Trace(e.sk, e.x) /\ Len(e.x) = 36
      /\ Trace(d.sk, d.x) /\ Len(d.x) = 36
  BY DEF TraceInv
<1>2. \A n \in 1..32 : d.sk[n] = e.sk[33 - n]
  BY DEF Swapped
<1>3. \A n \in 1..36 : d.x[n] = e.x[37 - n]
  BY <1>1, <1>2, Backwards
<1> QED BY <1>3

(* What was encrypted is decrypted: at any time, for all the blocks done.   *)
THEOREM RoundsInvertHolds == Sm4Spec => []RoundsInvert
<1>1. Sm4Spec => []TraceInv
  BY TraceInit, TraceStep, PTL DEF Sm4Spec
<1> QED BY <1>1, TraceInverts, PTL
=============================================================================
