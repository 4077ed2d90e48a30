----------------------------- MODULE Sm3Proofs -----------------------------
(***************************************************************************)
(* Theorems about the SM3 context of Sm3: its counters, its padding, the   *)
(* bounds of its buffer and what it holds of the message, for blocks and   *)
(* words of any size.                                                      *)
(***************************************************************************)
EXTENDS Sm3, LoopProofs

(* Division with remainder.                                                 *)
LEMMA Division ==
    ASSUME NEW a \in Int, NEW n \in Nat, n > 0
    PROVE  a \div n \in Int /\ a % n \in 0..(n - 1) /\ a = n * (a \div n) + (a % n)
BY Z3

(* It is the only one.                                                      *)
LEMMA DivisionUnique ==
    ASSUME NEW n \in Nat, n > 0, NEW a \in Int, NEW q \in Int, NEW r \in 0..(n - 1),
           a = n * q + r
    PROVE  a \div n = q /\ a % n = r
<1> DEFINE p == a \div n
           s == a % n
<1>1. p \in Int /\ s \in 0..(n - 1) /\ a = n * p + s
    BY Division
<1> HIDE DEF p, s
<1>2. n * (p - q) = r - s
    BY <1>1
<1>3. CASE p - q >= 1
    <2>1. n * (p - q) >= n
        BY <1>1, <1>3
    <2> QED BY <1>1, <1>2, <2>1
<1>4. CASE p - q <= -1
    <2>1. n * (p - q) <= -n
        BY <1>1, <1>4
    <2> QED BY <1>1, <1>2, <2>1
<1>5. CASE p = q
    BY <1>1, <1>2, <1>5 DEF s, p
<1> QED BY <1>1, <1>3, <1>4, <1>5

(* A quotient of a natural number is one.                                   *)
LEMMA DivisionNat ==
    ASSUME NEW a \in Nat, NEW n \in Nat, n > 0
    PROVE  a \div n \in Nat /\ a = n * (a \div n) + (a % n) /\ a % n \in 0..(n - 1)
<1> DEFINE p == a \div n
<1>1. p \in Int /\ a % n \in 0..(n - 1) /\ a = n * p + (a % n)
    BY Division
<1> HIDE DEF p
<1>2. CASE p <= -1
    <2>1. n * p <= -n
        BY <1>1, <1>2
    <2> QED BY <1>1, <2>1
<1>3. CASE p >= 0
    BY <1>1, <1>3 DEF p
<1> QED BY <1>1, <1>2, <1>3

-----------------------------------------------------------------------------
(* The two words of `total' count the bytes passed as one number would: the *)
(* sum is less than the piece exactly when it has wrapped.                  *)
THEOREM CounterCarries ==
    ASSUME NEW n \in Nat, NEW ilen \in 0..(W - 1)
    PROVE  Counted(<<n % W, (n \div W) % W>>, ilen)
               = <<(n + ilen) % W, ((n + ilen) \div W) % W>>
<1> DEFINE V == W
           q == n \div V
           r == n % V
<1>1. V \in Nat /\ V > 0 /\ q \in Nat /\ r \in 0..(V - 1) /\ n = V * q + r /\ ilen \in 0..(V - 1)
    BY Sm3Assumption, DivisionNat
<1>2. Counted(<<r, q % V>>, ilen)
        = <<(r + ilen) % V, IF (r + ilen) % V < ilen THEN ((q % V) + 1) % V ELSE q % V>>
    BY DEF Counted
<1> HIDE DEF V, q, r
<1>3. CASE r + ilen < V
    <2>1. r + ilen = V * 0 + (r + ilen) /\ r + ilen \in 0..(V - 1)
        BY <1>1, <1>3
    <2>2. (r + ilen) % V = r + ilen
        BY <1>1, <2>1, DivisionUnique
    <2>3. n + ilen = V * q + (r + ilen) /\ n + ilen \in Int
        BY <1>1
    <2>4. (n + ilen) \div V = q /\ (n + ilen) % V = r + ilen
        BY <1>1, <2>1, <2>3, DivisionUnique
    <2>5. ~(r + ilen < ilen)
        BY <1>1
    <2>6. Counted(<<r, q % V>>, ilen) = <<r + ilen, q % V>>
        BY <1>2, <2>2, <2>5
    <2> QED BY <2>4, <2>6 DEF V, q, r
<1>4. CASE r + ilen >= V
    <2> DEFINE s == r + ilen - V
    <2>1. s \in 0..(V - 1) /\ r + ilen = V * 1 + s /\ s < ilen
        BY <1>1, <1>4
    <2>2. (r + ilen) % V = s
        BY <1>1, <2>1, DivisionUnique
    <2>3. n + ilen = V * (q + 1) + s /\ n + ilen \in Int
        <3>1. V * (q + 1) = V * q + V
            BY <1>1
        <3> QED BY <1>1, <3>1
    <2> HIDE DEF s
    <2>7. q + 1 \in Int /\ V \in Nat /\ V > 0 /\ s \in 0..(V - 1)
        BY <1>1, <2>1
    <2>4. (n + ilen) \div V = q + 1 /\ (n + ilen) % V = s
        BY <2>7, <2>3, DivisionUnique
    <2>5. ((q % V) + 1) % V = (q + 1) % V
        <3> DEFINE k == q \div V
                   m == q % V
        <3>1. k \in Nat /\ m \in 0..(V - 1) /\ q = V * k + m
            BY <1>1, DivisionNat
        <3> HIDE DEF k, m
        <3>2. CASE m + 1 < V
            <4>1. m + 1 \in 0..(V - 1) /\ m + 1 = V * 0 + (m + 1) /\ q + 1 = V * k + (m + 1)
                BY <1>1, <3>1, <3>2
            <4>2. (m + 1) % V = m + 1 /\ (q + 1) % V = m + 1
                BY <1>1, <3>1, <4>1, DivisionUnique
            <4> QED BY <4>2 DEF m
        <3>3. CASE m + 1 = V
            <4>1. 0 \in 0..(V - 1) /\ m + 1 = V * 1 + 0
                BY <1>1, <3>1, <3>3
            <4>2. q + 1 = V * (k + 1) + 0
                <5>1. V * (k + 1) = V * k + V
                    BY <1>1, <3>1
                <5> QED BY <1>1, <3>1, <3>3, <5>1
            <4>3. (m + 1) % V = 0 /\ (q + 1) % V = 0
                BY <1>1, <3>1, <4>1, <4>2, DivisionUnique
            <4> QED BY <4>3 DEF m
        <3> QED BY <1>1, <3>1, <3>2, <3>3
    <2>6. Counted(<<r, q % V>>, ilen) = <<s, (q + 1) % V>>
        BY <1>2, <2>1, <2>2, <2>5
    <2> QED BY <2>4, <2>6 DEF V, q, r
<1> QED BY <1>1, <1>3, <1>4

(* Padding and length fill up the last block, or that and one more, and     *)
(* there is at least one byte of padding, for the bit that marks the end.   *)
THEOREM PaddingFills ==
    ASSUME NEW last \in 0..(BlockLen - 1)
    PROVE  /\ PadLen(last) \in 1..BlockLen
           /\ last + PadLen(last) + 2 * WordLen \in {BlockLen, 2 * BlockLen}
<1>1. /\ BlockLen \in Nat /\ BlockLen > 0 /\ WordLen \in Nat /\ WordLen > 0
      /\ 2 * WordLen < BlockLen
    BY Sm3Assumption
<1> DEFINE k == 2 * WordLen
<1>2. k \in Nat /\ k < BlockLen
    BY <1>1
<1>3. CASE last < BlockLen - k
    BY <1>1, <1>2, <1>3 DEF PadLen
<1>4. CASE ~(last < BlockLen - k)
    BY <1>1, <1>2, <1>4 DEF PadLen
<1> QED BY <1>3, <1>4

-----------------------------------------------------------------------------
(* The buffer.                                                              *)

IsSeq(s) == \E S : s \in Seq(S)

Whole(state) == \A b \in 1..Len(state) : Len(state[b]) = BlockLen

(* A context as it is between calls.                                        *)
CtxOK(c) ==
    /\ DOMAIN c = {"total", "state", "buffer", "ipad", "opad"}
    /\ c.total \in [1..2 -> 0..(W - 1)]
    /\ IsSeq(c.state) /\ Whole(c.state)
    /\ IsSeq(c.buffer) /\ Len(c.buffer) = BlockLen
    /\ IsSeq(c.opad)

(* What is copied to a place in a sequence, inside it or past its end.      *)
LEMMA CopiedLen ==
    ASSUME NEW buffer, IsSeq(buffer), NEW at \in Nat, NEW bytes, IsSeq(bytes),
           at + Len(bytes) <= Len(buffer)
    PROVE  IsSeq(Copied(buffer, at, bytes)) /\ Len(Copied(buffer, at, bytes)) = Len(buffer)
<1>1. PICK S : buffer \in Seq(S)
    BY DEF IsSeq
<1>2. PICK T : bytes \in Seq(T)
    BY DEF IsSeq
<1>3. Len(buffer) \in Nat /\ Len(bytes) \in Nat
    BY <1>1, <1>2
<1> DEFINE f == [i \in 1..Len(buffer) |->
                    IF i \in at + 1..at + Len(bytes) THEN bytes[i - at] ELSE buffer[i]]
<1>4. Copied(buffer, at, bytes) = f
    BY <1>3 DEF Copied
<1>5. \A i \in 1..Len(buffer) : f[i] \in S \cup T
    <2> SUFFICES ASSUME NEW i \in 1..Len(buffer) PROVE f[i] \in S \cup T
        OBVIOUS
    <2>1. CASE i \in at + 1..at + Len(bytes)
        <3>1. i - at \in 1..Len(bytes)
            BY <1>3, <2>1
        <3> QED BY <1>2, <2>1, <3>1
    <2>2. CASE i \notin at + 1..at + Len(bytes)
        BY <1>1, <2>2
    <2> QED BY <2>1, <2>2
<1>6. f \in Seq(S \cup T) /\ Len(f) = Len(buffer)
    BY <1>3, <1>5
<1> QED BY <1>4, <1>6 DEF IsSeq

(* A part of a sequence.                                                    *)
LEMMA PartLen ==
    ASSUME NEW s, IsSeq(s), NEW m \in Nat \ {0}, NEW n \in Nat, n <= Len(s), m <= n + 1
    PROVE  IsSeq(SubSeq(s, m, n)) /\ Len(SubSeq(s, m, n)) = n - m + 1
<1>1. PICK S : s \in Seq(S)
    BY DEF IsSeq
<1>2. Len(s) \in Nat
    BY <1>1
<1>3. SubSeq(s, m, n) \in Seq(S) /\ Len(SubSeq(s, m, n)) = n - m + 1
    BY <1>1, <1>2
<1> QED BY <1>3 DEF IsSeq

(* Two sequences of blocks, one after the other.                            *)
LEMMA WholeCat ==
    ASSUME NEW s, IsSeq(s), Whole(s), NEW t, IsSeq(t), Whole(t)
    PROVE  IsSeq(s \o t) /\ Whole(s \o t)
<1>1. PICK S : s \in Seq(S)
    BY DEF IsSeq
<1>2. PICK T : t \in Seq(T)
    BY DEF IsSeq
<1> DEFINE U == S \cup T
<1>3. s \in Seq(U) /\ t \in Seq(U)
    BY <1>1, <1>2
<1> HIDE DEF U
<1>4. /\ s \o t \in Seq(U) /\ Len(s \o t) = Len(s) + Len(t)
      /\ Len(s) \in Nat /\ Len(t) \in Nat
      /\ \A b \in 1..(Len(s) + Len(t)) :
            (s \o t)[b] = IF b <= Len(s) THEN s[b] ELSE t[b - Len(s)]
    BY <1>3
<1>5. ASSUME NEW b \in 1..Len(s \o t) PROVE Len((s \o t)[b]) = BlockLen
    <2>1. CASE b <= Len(s)
        <3>1. b \in 1..Len(s)
            BY <1>4, <1>5, <2>1
        <3> QED BY <1>4, <1>5, <2>1, <3>1 DEF Whole
    <2>2. CASE ~(b <= Len(s))
        <3>1. b - Len(s) \in 1..Len(t)
            BY <1>4, <1>5, <2>2
        <3> QED BY <1>4, <1>5, <2>2, <3>1 DEF Whole
    <2> QED BY <2>1, <2>2
<1> QED BY <1>4, <1>5 DEF IsSeq, Whole

(* The blocks cut out of a piece.                                           *)
LEMMA CutBlocks ==
    ASSUME NEW input, IsSeq(input), NEW first \in Nat, NEW blocks \in Nat,
           first + blocks * BlockLen <= Len(input)
    PROVE  LET cut == [b \in 1..blocks |->
                         SubSeq(input, first + (b - 1) * BlockLen + 1, first + b * BlockLen)]
           IN  IsSeq(cut) /\ Whole(cut)
<1> DEFINE n == BlockLen
           part(b) == SubSeq(input, first + (b - 1) * n + 1, first + b * n)
           cut == [b \in 1..blocks |-> part(b)]
<1>1. n \in Nat /\ n > 0 /\ Len(input) \in Nat
    BY Sm3Assumption DEF IsSeq
<1>2. first + blocks * n <= Len(input)
    OBVIOUS
<1>3. ASSUME NEW b \in 1..blocks PROVE Len(part(b)) = n
    <2> DEFINE from == first + (b - 1) * n + 1
               to == first + b * n
    <2> HIDE DEF n
    <2>1. (b - 1) * n \in Nat /\ b * n = (b - 1) * n + n /\ b * n <= blocks * n
        <3>1. b - 1 \in Nat /\ blocks - b \in Nat
            OBVIOUS
        <3>2. (b - 1) * n \in Nat /\ (blocks - b) * n \in Nat
            BY <1>1, <3>1
        <3>3. b * n = (b - 1) * n + n /\ blocks * n = b * n + (blocks - b) * n
            BY <1>1
        <3> QED BY <1>1, <3>2, <3>3
    <2>2. from \in Nat \ {0} /\ to \in Nat /\ to <= Len(input) /\ to - from + 1 = n /\ from <= to + 1
        BY <1>1, <1>2, <2>1
    <2> HIDE DEF from, to
    <2>3. Len(SubSeq(input, from, to)) = to - from + 1
        BY <2>2, PartLen
    <2> QED BY <2>2, <2>3 DEF from, to
<1> HIDE DEF part
<1>4. cut \in Seq({part(b) : b \in 1..blocks}) /\ Len(cut) = blocks
    <2> DEFINE S == {part(b) : b \in 1..blocks}
    <2>1. \A b \in 1..blocks : part(b) \in S
        OBVIOUS
    <2>2. cut \in [1..blocks -> S]
        BY <2>1
    <2> HIDE DEF S, cut
    <2>3. cut \in Seq(S) /\ Len(cut) = blocks
        BY <2>2
    <2> QED BY <2>3 DEF S
<1>5. IsSeq(cut) /\ Whole(cut)
    BY <1>3, <1>4 DEF IsSeq, Whole
<1> QED BY <1>5 DEF part

(* sm3_update keeps a context in order, whatever is passed to it: what is   *)
(* left of a piece always fits into the buffer.                             *)
LEMMA UpdatedOK ==
    ASSUME NEW c, CtxOK(c), NEW input, IsSeq(input)
    PROVE  CtxOK(Updated(c, input)) /\ Updated(c, input).opad = c.opad
<1> DEFINE n == BlockLen
           ilen == Len(input)
           left == Left(c)
           fill == n - left
           first == IF left > 0 /\ ilen >= fill THEN fill ELSE 0
           blocks == (ilen - first) \div n
           from == first + blocks * n + 1
           rest == SubSeq(input, from, ilen)
           filled == Copied(c.buffer, left, SubSeq(input, 1, first))
           cut == [b \in 1..blocks |->
                     SubSeq(input, first + (b - 1) * n + 1, first + b * n)]
           made == IF first > 0 THEN <<filled>> ELSE <<>>
<1>1. /\ n \in Nat /\ n > 0 /\ ilen \in Nat /\ W \in Nat /\ W > 0
      /\ c.total[1] \in 0..(W - 1) /\ c.total[2] \in 0..(W - 1)
    BY Sm3Assumption DEF IsSeq, CtxOK
<1>2. left \in 0..(n - 1)
    <2>1. c.total[1] \in Int
        BY <1>1
    <2>2. c.total[1] % n \in 0..(n - 1)
        <3> HIDE DEF n
        <3> QED BY <1>1, <2>1, Division
    <2> QED BY <2>2 DEF Left
<1>3. first \in Nat /\ first <= ilen /\ left + first <= n /\ (first > 0 => left + first = n)
    BY <1>1, <1>2
<1>4. blocks \in Nat /\ ilen - first = n * blocks + ((ilen - first) % n)
                     /\ (ilen - first) % n \in 0..(n - 1)
    <2>1. ilen - first \in Nat
        BY <1>1, <1>3
    <2> QED BY <1>1, <2>1, DivisionNat
<1>5. from \in Nat \ {0} /\ from <= ilen + 1 /\ ilen - from + 1 \in 0..(n - 1)
      /\ first + blocks * n <= ilen
    <2> HIDE DEF n, blocks, first, ilen
    <2>1. blocks * n = n * blocks /\ n * blocks \in Nat
        BY <1>1, <1>4
    <2> QED BY <1>1, <1>3, <1>4, <2>1
<1>6. IsSeq(rest) /\ Len(rest) = ilen - from + 1
    <2> HIDE DEF from, ilen
    <2>1. ilen <= Len(input)
        BY <1>1 DEF ilen
    <2> QED BY <1>1, <1>5, <2>1, PartLen DEF ilen
<1>7. IsSeq(SubSeq(input, 1, first)) /\ Len(SubSeq(input, 1, first)) = first
    <2> HIDE DEF first
    <2> QED BY <1>3, PartLen
<1>8. IsSeq(filled) /\ Len(filled) = n
    <2> HIDE DEF first, left
    <2>1. IsSeq(c.buffer) /\ Len(c.buffer) = n /\ left \in Nat
        BY <1>2 DEF CtxOK
    <2> QED BY <1>3, <1>7, <2>1, CopiedLen
<1> DEFINE at == IF first > 0 THEN 0 ELSE left
<1>18. Len(rest) \in 0..(n - 1) /\ Len(rest) <= ilen
    <2> HIDE DEF rest, from, ilen
    <2> QED BY <1>1, <1>5, <1>6
<1> HIDE DEF rest, ilen, left, first
<1>9. at \in Nat /\ at + Len(rest) <= n
    <2>1. CASE first > 0
        BY <1>1, <1>18, <2>1
    <2>2. CASE first = 0 /\ left = 0
        BY <1>1, <1>18, <2>2
    <2>3. CASE first = 0 /\ left > 0
        <3>1. ilen < n - left
            BY <1>1, <1>2, <2>3 DEF first
        <3> QED BY <1>1, <1>2, <1>18, <2>3, <3>1
    <2> QED BY <1>2, <1>3, <2>1, <2>2, <2>3
<1>10. RestAt(c, first) = at
    BY DEF RestAt, left
<1> HIDE DEF at, filled, rest
<1>11. IsSeq(Copied(filled, at, rest)) /\ Len(Copied(filled, at, rest)) = n
    BY <1>6, <1>8, <1>9, CopiedLen
<1>12. IsSeq(cut) /\ Whole(cut)
    <2> HIDE DEF first, blocks, ilen
    <2> QED BY <1>3, <1>4, <1>5, CutBlocks DEF ilen
<1>13. IsSeq(made) /\ Whole(made)
    <2>1. CASE first > 0
        <3>1. made = <<filled>>
            BY <2>1
        <3>2. <<filled>> \in Seq({filled}) /\ Len(<<filled>>) = 1 /\ <<filled>>[1] = filled
            OBVIOUS
        <3> HIDE DEF made
        <3> QED BY <1>8, <3>1, <3>2 DEF IsSeq, Whole
    <2>2. CASE ~(first > 0)
        <3>1. made = <<>>
            BY <2>2
        <3>2. <<>> \in Seq({}) /\ Len(<<>>) = 0
            OBVIOUS
        <3> HIDE DEF made
        <3> QED BY <3>1, <3>2 DEF IsSeq, Whole
    <2> QED BY <2>1, <2>2
<1> HIDE DEF cut, made
<1>14. IsSeq(c.state \o made \o cut) /\ Whole(c.state \o made \o cut)
    BY <1>12, <1>13, WholeCat DEF CtxOK
<1>15. Counted(c.total, ilen) \in [1..2 -> 0..(W - 1)]
    <2> DEFINE sum == (c.total[1] + ilen) % W
               high == IF sum < ilen THEN (c.total[2] + 1) % W ELSE c.total[2]
    <2>1. sum \in 0..(W - 1) /\ (c.total[2] + 1) % W \in 0..(W - 1)
        <3>1. c.total[1] + ilen \in Int /\ c.total[2] + 1 \in Int
            BY <1>1
        <3> HIDE DEF ilen
        <3> QED BY <1>1, <3>1, Division
    <2>3. high \in 0..(W - 1)
        BY <1>1, <2>1
    <2>2. Counted(c.total, ilen) = <<sum, high>>
        BY DEF Counted
    <2> HIDE DEF sum, high
    <2> QED BY <2>1, <2>2, <2>3
<1> DEFINE d == [c EXCEPT !.total = Counted(c.total, ilen),
                          !.state = c.state \o made \o cut,
                          !.buffer = Copied(filled, at, rest)]
<1>16. CtxOK(d) /\ d.opad = c.opad
    <2>1. /\ DOMAIN d = DOMAIN c /\ DOMAIN c = {"total", "state", "buffer", "ipad", "opad"}
        BY DEF CtxOK
    <2>2. /\ d.total = Counted(c.total, ilen) /\ d.state = c.state \o made \o cut
          /\ d.buffer = Copied(filled, at, rest) /\ d.opad = c.opad
        BY <2>1
    <2> HIDE DEF d
    <2> QED BY <1>11, <1>14, <1>15, <2>1, <2>2 DEF CtxOK
<1>17. Updated(c, input) = IF ilen <= 0 THEN c ELSE d
    <2>1. Updated(c, input) =
            IF ilen <= 0 THEN c
            ELSE [c EXCEPT !.total = Counted(c.total, ilen),
                           !.state = c.state \o made \o cut,
                           !.buffer = Copied(filled, RestAt(c, first), rest)]
        BY DEF Updated, made, cut, filled, rest, first, left, ilen
    <2> QED BY <1>10, <2>1
<1> HIDE DEF d
<1> QED BY <1>16, <1>17

-----------------------------------------------------------------------------
(* The type invariant.                                                      *)

(* A function on 1..n is a sequence of length n.                            *)
LEMMA FunctionIsSeq ==
    ASSUME NEW f, NEW n \in Nat, f = [i \in 1..n |-> f[i]]
    PROVE  IsSeq(f) /\ Len(f) = n
<1> DEFINE S == {f[i] : i \in 1..n}
<1>1. \A i \in 1..n : f[i] \in S
    OBVIOUS
<1>2. f \in [1..n -> S]
    BY <1>1
<1> HIDE DEF S
<1>3. f \in Seq(S) /\ Len(f) = n
    BY <1>2
<1> QED BY <1>3 DEF IsSeq

(* What is passed, written or returned is a sequence.                       *)
LEMMA DataIsSeq == ASSUME NEW m \in Nat, NEW n \in Nat PROVE IsSeq(Data(m, n))
<1>1. Data(m, n) = [i \in 1..n |-> Data(m, n)[i]]
    BY DEF Data
<1> QED BY <1>1, FunctionIsSeq

(* Padding is a sequence.                                                   *)
LEMMA PaddingIsSeq == ASSUME NEW n \in Nat PROVE IsSeq(Padding(n))
<1>1. Padding(n) = [i \in 1..n |-> Padding(n)[i]]
    BY DEF Padding
<1> QED BY <1>1, FunctionIsSeq

(* A digest is a sequence.                                                  *)
LEMMA DigestIsSeq == ASSUME NEW c PROVE IsSeq(Digest(c))
<1>1. Digest(c) = [i \in 1..DigestLen |-> Digest(c)[i]]
    BY DEF Digest
<1>2. DigestLen \in Nat
    BY Sm3Assumption
<1> QED BY <1>1, <1>2, FunctionIsSeq

(* A padded key is a sequence.                                              *)
LEMMA PadIsSeq ==
    ASSUME NEW k, NEW mask
    PROVE  IsSeq(Pad(k, mask))
<1>1. Pad(k, mask) = [i \in 1..BlockLen |-> Pad(k, mask)[i]]
    BY DEF Pad
<1>2. BlockLen \in Nat
    BY Sm3Assumption
<1> QED BY <1>1, <1>2, FunctionIsSeq

(* The two words of the length are a sequence.                              *)
LEMMA LengthFieldIsSeq == ASSUME NEW total PROVE IsSeq(LengthField(total))
<1>1. WordLen \in Nat
    BY Sm3Assumption
<1>2. ASSUME NEW word PROVE IsSeq(Put(word))
    <2>1. Put(word) = [i \in 1..WordLen |-> Put(word)[i]]
        BY DEF Put
    <2> QED BY <1>1, <2>1, FunctionIsSeq
<1>3. ASSUME NEW s, IsSeq(s), NEW t, IsSeq(t) PROVE IsSeq(s \o t)
    <2>1. PICK S : s \in Seq(S)
        BY <1>3 DEF IsSeq
    <2>2. PICK T : t \in Seq(T)
        BY <1>3 DEF IsSeq
    <2>3. s \o t \in Seq(S \cup T)
        <3>1. s \in Seq(S \cup T) /\ t \in Seq(S \cup T)
            BY <2>1, <2>2
        <3> QED BY <3>1
    <2> QED BY <2>3 DEF IsSeq
<1> QED BY <1>2, <1>3 DEF LengthField

(* Each part of the interface leaves a context in order.                    *)
LEMMA StartedOK ==
    ASSUME NEW c, CtxOK(c)
    PROVE  CtxOK(Started(c)) /\ Started(c).opad = c.opad
<1>1. W \in Nat /\ W > 0
    BY Sm3Assumption
<1> DEFINE d == Started(c)
<1>2. DOMAIN c = {"total", "state", "buffer", "ipad", "opad"}
    BY DEF CtxOK
<1>3. /\ DOMAIN d = DOMAIN c /\ d.total = <<0, 0>> /\ d.state = <<>>
      /\ d.buffer = c.buffer /\ d.opad = c.opad
    BY <1>2 DEF Started
<1>4. <<0, 0>> \in [1..2 -> 0..(W - 1)]
    BY <1>1
<1>5. IsSeq(<<>>) /\ Whole(<<>>)
    <2>1. <<>> \in Seq({}) /\ Len(<<>>) = 0
        OBVIOUS
    <2> QED BY <2>1 DEF IsSeq, Whole
<1> HIDE DEF d
<1>6. CtxOK(d) /\ d.opad = c.opad
    BY <1>2, <1>3, <1>4, <1>5 DEF CtxOK
<1> QED BY <1>6 DEF d

(* sm3_finish.                                                              *)
LEMMA FinishedOK ==
    ASSUME NEW c, CtxOK(c)
    PROVE  CtxOK(Finished(c)) /\ Finished(c).opad = c.opad
<1>1. Left(c) \in 0..(BlockLen - 1)
    <2>1. BlockLen \in Nat /\ BlockLen > 0 /\ W \in Nat /\ c.total[1] \in Int
        BY Sm3Assumption DEF CtxOK
    <2> QED BY <2>1, Division DEF Left
<1>2. PadLen(Left(c)) \in Nat
    <2>1. PadLen(Left(c)) \in 1..BlockLen
        BY <1>1, PaddingFills
    <2> QED BY <2>1, Sm3Assumption
<1> DEFINE d == Updated(c, Padding(PadLen(Left(c))))
<1>3. CtxOK(d) /\ d.opad = c.opad
    BY <1>2, PaddingIsSeq, UpdatedOK
<1> HIDE DEF d
<1>4. CtxOK(Updated(d, LengthField(c.total))) /\ Updated(d, LengthField(c.total)).opad = c.opad
    BY <1>3, LengthFieldIsSeq, UpdatedOK
<1> QED BY <1>4 DEF d, Finished

(* sm3_hmac_starts.                                                         *)
LEMMA HmacStartedOK ==
    ASSUME NEW c, CtxOK(c), NEW k
    PROVE  CtxOK(HmacStarted(c, k))
<1> DEFINE i == Pad(ShortKey(k), "36")
           o == Pad(ShortKey(k), "5C")
           pads == [c EXCEPT !.ipad = i, !.opad = o]
<1>1. IsSeq(i) /\ IsSeq(o)
    BY PadIsSeq
<1> HIDE DEF i, o
<1>2. DOMAIN c = {"total", "state", "buffer", "ipad", "opad"}
    BY DEF CtxOK
<1>3. /\ DOMAIN pads = DOMAIN c /\ pads.total = c.total /\ pads.state = c.state
      /\ pads.buffer = c.buffer /\ pads.opad = o /\ pads.ipad = i
    BY <1>2
<1>4. HmacStarted(c, k) = Updated(Started(pads), pads.ipad)
    BY DEF HmacStarted, i, o
<1> HIDE DEF pads
<1>5. CtxOK(pads) /\ IsSeq(pads.ipad)
    BY <1>1, <1>2, <1>3 DEF CtxOK
<1> QED BY <1>4, <1>5, StartedOK, UpdatedOK

(* sm3_hmac_finish.                                                         *)
LEMMA HmacFinishedOK ==
    ASSUME NEW c, CtxOK(c)
    PROVE  CtxOK(HmacFinished(c))
<1> DEFINE inner == Finished(c)
           outer == Updated(Started(inner), inner.opad)
<1>1. CtxOK(inner)
    BY FinishedOK
<1> HIDE DEF inner
<1>2. IsSeq(inner.opad)
    BY <1>1 DEF CtxOK
<1>3. CtxOK(outer)
    BY <1>1, <1>2, StartedOK, UpdatedOK
<1> HIDE DEF outer
<1>4. CtxOK(Finished(Updated(outer, Digest(inner))))
    BY <1>3, DigestIsSeq, UpdatedOK, FinishedOK
<1> QED BY <1>4 DEF inner, outer, HmacFinished

(* The invariant, and why it is one.                                        *)
ContextInv ==
    /\ CtxOK(ctx)
    /\ pc \in {"idle", "open", "file"}
    /\ key \in KeyLens \cup {Nil}
    /\ len \in 0..MaxLen

(* It holds before the first call.                                          *)
LEMMA ContextInit == Init => ContextInv
<1> SUFFICES ASSUME Init PROVE ContextInv
    OBVIOUS
<1>1. W \in Nat /\ W > 0 /\ BlockLen \in Nat /\ MaxLen \in Nat
    BY Sm3Assumption
<1>2. IsSeq(Zeros) /\ Len(Zeros) = BlockLen
    <2>1. Zeros = [i \in 1..BlockLen |-> Zeros[i]]
        BY DEF Zeros
    <2> QED BY <1>1, <2>1, FunctionIsSeq
<1>3. IsSeq(<<>>) /\ Whole(<<>>)
    <2>1. <<>> \in Seq({}) /\ Len(<<>>) = 0
        OBVIOUS
    <2> QED BY <2>1 DEF IsSeq, Whole
<1>4. <<0, 0>> \in [1..2 -> 0..(W - 1)]
    BY <1>1
<1>5. /\ DOMAIN ctx = {"total", "state", "buffer", "ipad", "opad"}
      /\ ctx.total = <<0, 0>> /\ ctx.state = <<>> /\ ctx.buffer = Zeros /\ ctx.opad = <<>>
    BY DEF Init
<1>6. CtxOK(ctx)
    BY <1>2, <1>3, <1>4, <1>5 DEF CtxOK
<1> QED BY <1>1, <1>6 DEF Init, ContextInv

(* Every call keeps it.                                                     *)
LEMMA ContextStep == ContextInv /\ [Next]_vars => ContextInv'
<1> SUFFICES ASSUME ContextInv, [Next]_vars PROVE ContextInv'
    OBVIOUS
<1>1. MaxLen \in Nat /\ FileBuf \in Nat /\ Pieces \subseteq Nat /\ len \in Nat
    BY Sm3Assumption DEF ContextInv
<1>2. CtxOK(ctx)
    BY DEF ContextInv
<1>3. CASE sm3_starts \/ FileOpen
    <2>1. CtxOK(ctx')
        BY <1>2, <1>3, StartedOK DEF sm3_starts, FileOpen
    <2> QED BY <1>1, <1>3, <2>1 DEF sm3_starts, FileOpen, ContextInv
<1>4. ASSUME NEW n \in KeyLens, sm3_hmac_starts(n) PROVE ContextInv'
    <2>1. CtxOK(ctx')
        BY <1>2, <1>4, HmacStartedOK DEF sm3_hmac_starts
    <2> QED BY <1>1, <1>4, <2>1 DEF sm3_hmac_starts, ContextInv
<1>5. ASSUME NEW n \in Nat, sm3_update(n) \/ FileRead(n) PROVE ContextInv'
    <2>1. CtxOK(ctx')
        BY <1>1, <1>2, <1>5, DataIsSeq, UpdatedOK DEF sm3_update, FileRead
    <2> QED BY <1>1, <1>5, <2>1 DEF sm3_update, FileRead, ContextInv
<1>6. CASE sm3_finish \/ FileEnd
    <2>1. CtxOK(ctx')
        BY <1>2, <1>6, FinishedOK DEF sm3_finish, FileEnd, Returned
    <2> QED BY <1>6, <2>1 DEF sm3_finish, FileEnd, Returned, ContextInv
<1>7. CASE sm3_hmac_finish
    <2>1. CtxOK(ctx')
        BY <1>2, <1>7, HmacFinishedOK DEF sm3_hmac_finish, Returned
    <2> QED BY <1>7, <2>1 DEF sm3_hmac_finish, Returned, ContextInv
<1>8. CASE UNCHANGED vars
    BY <1>8 DEF vars, ContextInv
<1>9. \A n \in Pieces \cup {FileBuf} : n \in Nat
    BY <1>1
<1> QED BY <1>3, <1>4, <1>5, <1>6, <1>7, <1>8, <1>9 DEF Next

(* No piece, padding, length or key ever leaves the buffer of a context     *)
(* longer than a block, or hands sm3_process anything but a block; sizes,   *)
(* pieces and keys are any.                                                 *)
THEOREM ContextHolds == Spec => []TypeOK
<1>1. ContextInv => TypeOK
    <2> SUFFICES ASSUME ContextInv PROVE TypeOK
        OBVIOUS
    <2>1. PICK S : ctx.state \in Seq(S)
        BY DEF ContextInv, CtxOK, IsSeq
    <2>2. DOMAIN ctx.state = 1..Len(ctx.state)
        BY <2>1
    <2> QED BY <2>2 DEF ContextInv, CtxOK, Whole, TypeOK
<1> QED BY <1>1, ContextInit, ContextStep, PTL DEF Spec

-----------------------------------------------------------------------------
(* What a context holds.                                                    *)

(* How sm3_update splits a piece of ilen bytes when `left' are in a buffer   *)
(* of n: see Updated.                                                       *)
First(n, left, ilen) == IF left > 0 /\ ilen >= n - left THEN n - left ELSE 0

Blocks(n, left, ilen) == (ilen - First(n, left, ilen)) \div n

(* What it relies on, with m blocks completed and `at' bytes kept.          *)
Split(n, left, ilen, first, blocks) ==
    LET m  == IF first > 0 THEN 1 ELSE 0
        at == IF first > 0 THEN 0 ELSE left
        r  == ilen - first - blocks * n
    IN  /\ first \in Nat /\ first <= ilen /\ blocks \in Nat
        /\ first + blocks * n <= ilen
        /\ at + r \in 0..(n - 1)
        /\ left + ilen = (m + blocks) * n + (at + r)
        /\ m * n - left = first - at
        /\ at > 0 => first = 0 /\ m = 0 /\ blocks = 0

(* How a piece is split: what completes the block in the buffer, the blocks *)
(* passed by it, and what remains, which fits behind what is in it.         *)
LEMMA PieceSplit ==
    ASSUME NEW n \in Nat, n > 0, NEW left \in 0..(n - 1), NEW ilen \in Nat
    PROVE  Split(n, left, ilen, First(n, left, ilen), Blocks(n, left, ilen))
<1> DEFINE first == First(n, left, ilen)
           blocks == Blocks(n, left, ilen)
           m == IF first > 0 THEN 1 ELSE 0
           at == IF first > 0 THEN 0 ELSE left
           r == ilen - first - blocks * n
<1>0. first = (IF left > 0 /\ ilen >= n - left THEN n - left ELSE 0)
      /\ blocks = (ilen - first) \div n
    BY DEF First, Blocks
<1> HIDE DEF first, blocks
<1>1. first \in Nat /\ first <= ilen /\ ilen - first \in Nat
    BY <1>0
<1>2. blocks \in Nat /\ ilen - first = n * blocks + ((ilen - first) % n)
                     /\ (ilen - first) % n \in 0..(n - 1)
    BY <1>0, <1>1, DivisionNat
<1>3. n * blocks = blocks * n /\ n * blocks \in Nat
    BY <1>2
<1>4. r \in 0..(n - 1) /\ first + blocks * n <= ilen
    BY <1>1, <1>2, <1>3
<1>5. /\ first > 0 => m = 1 /\ at = 0
      /\ first = 0 => m = 0 /\ at = left
    OBVIOUS
<1>6. m \in {0, 1} /\ at \in Nat
    OBVIOUS
<1> HIDE DEF m, at, r
<1>7. (m + blocks) * n = m * n + blocks * n /\ m * n = (IF m = 1 THEN n ELSE 0)
    BY <1>2, <1>6
<1>8. ilen = first + blocks * n + r
    BY <1>1, <1>2, <1>3, <1>4 DEF r
<1> DEFINE x == blocks * n
           y == (m + blocks) * n
           z == m * n
<1>9. x \in Nat /\ y = z + x /\ z = (IF m = 1 THEN n ELSE 0) /\ ilen = first + x + r
    BY <1>3, <1>7, <1>8
<1> HIDE DEF x, y, z
<1>10. /\ left + ilen = y + (at + r)
       /\ z - left = first - at
       /\ at + r \in 0..(n - 1)
       /\ at > 0 => first = 0 /\ m = 0 /\ blocks = 0
    <2>1. CASE first > 0
        <3>1. left + first = n
            BY <1>0, <2>1
        <3> QED BY <1>1, <1>4, <1>5, <1>9, <2>1, <3>1
    <2>2. CASE first = 0 /\ left = 0
        BY <1>1, <1>4, <1>5, <1>9, <2>2
    <2>3. CASE first = 0 /\ left > 0
        <3>1. ilen < n - left
            BY <1>0, <2>3
        <3>2. blocks = 0
            <4>1. ilen = n * 0 + ilen /\ ilen \in 0..(n - 1)
                BY <3>1
            <4>2. ilen \div n = 0
                BY <4>1, DivisionUnique
            <4> QED BY <1>0, <2>3, <4>2
        <3>3. x = 0
            BY <3>2 DEF x
        <3>4. m = 0 /\ at = left
            BY <1>5, <2>3
        <3> QED BY <1>1, <1>4, <1>9, <2>3, <3>1, <3>2, <3>3, <3>4
    <2> QED BY <1>1, <2>1, <2>2, <2>3
<1>11. Split(n, left, ilen, first, blocks)
    BY <1>1, <1>2, <1>4, <1>10 DEF Split, m, at, r, x, y, z
<1> QED BY <1>11 DEF first, blocks

(* A remainder of a remainder.                                              *)
LEMMA LeftOf ==
    ASSUME NEW a \in Nat
    PROVE  (a % W) % BlockLen = a % BlockLen
<1> DEFINE V == W
           n == BlockLen
           k == V \div n
           q == a \div V
           r == a % V
           p == r \div n
           t == r % n
<1>1. n \in Nat /\ n > 0 /\ V \in Nat /\ V > 0 /\ V % n = 0
    BY Sm3Assumption
<1> HIDE DEF V, n
<1>2. k \in Nat /\ V = n * k
    <2>1. k \in Nat /\ V = n * k + (V % n)
        BY <1>1, DivisionNat
    <2> HIDE DEF k
    <2> QED BY <1>1, <2>1
<1>3. q \in Nat /\ r \in 0..(V - 1) /\ a = V * q + r
    BY <1>1, DivisionNat
<1> HIDE DEF q, r, k
<1>4. p \in Nat /\ t \in 0..(n - 1) /\ r = n * p + t
    <2>1. r \in Nat
        BY <1>1, <1>3
    <2> QED BY <1>1, <2>1, DivisionNat
<1> HIDE DEF p, t
<1>5. a = n * (k * q + p) + t
    <2>1. V * q = n * (k * q)
        <3>1. (n * k) * q = n * (k * q)
            BY <1>1, <1>2, <1>3
        <3> QED BY <1>2, <3>1
    <2>2. k * q \in Nat
        BY <1>2, <1>3
    <2>3. n * (k * q + p) = n * (k * q) + n * p
        BY <1>1, <1>4, <2>2
    <2>4. n * (k * q) \in Nat /\ n * p \in Nat
        BY <1>1, <1>4, <2>2
    <2> DEFINE x == n * (k * q)
               y == n * p
               z == n * (k * q + p)
    <2>5. /\ x \in Nat /\ y \in Nat /\ z = x + y /\ t \in Int
          /\ a = x + r /\ r = y + t
        <3>1. x \in Nat /\ y \in Nat /\ z = x + y
            BY <2>3, <2>4
        <3>2. t \in Int /\ r = y + t
            BY <1>1, <1>4
        <3>3. a = x + r
            BY <1>3, <2>1
        <3> QED BY <3>1, <3>2, <3>3
    <2> HIDE DEF x, y, z
    <2>6. a = z + t
        BY <2>5
    <2> QED BY <2>6 DEF z
<1>6. k * q + p \in Int
    BY <1>2, <1>3, <1>4
<1>7. a % n = t
    <2> DEFINE j == k * q + p
    <2>1. j \in Int /\ a = n * j + t /\ t \in 0..(n - 1)
        BY <1>4, <1>5, <1>6
    <2> HIDE DEF j
    <2> QED BY <1>1, <2>1, DivisionUnique
<1> QED BY <1>7 DEF t, r, V, n

(* Part of a sequence, place by place.                                      *)
LEMMA PartIs ==
    ASSUME NEW s, IsSeq(s), NEW m \in Nat, NEW k \in Nat, m + k <= Len(s)
    PROVE  SubSeq(s, m + 1, m + k) = [i \in 1..k |-> s[m + i]]
<1>1. PICK S : s \in Seq(S)
    BY DEF IsSeq
<1>2. Len(s) \in Nat
    BY <1>1
<1>3. /\ SubSeq(s, m + 1, m + k) \in Seq(S) /\ Len(SubSeq(s, m + 1, m + k)) = k
      /\ \A i \in 1..k : SubSeq(s, m + 1, m + k)[i] = s[m + i]
    <2> DEFINE l == Len(s)
    <2>1. l \in Nat /\ m + k <= l /\ m + 1 \in 1..(l + 1) /\ m + k \in (m + 1) - 1..l
        BY <1>2
    <2>2. SubSeq(s, m + 1, m + k) \in Seq(S)
        BY <1>1, <2>1
    <2>3. Len(SubSeq(s, m + 1, m + k)) = k
        BY <1>1, <2>1
    <2>4. ASSUME NEW i \in 1..k PROVE SubSeq(s, m + 1, m + k)[i] = s[m + i]
        BY <1>1, <2>1
    <2> QED BY <2>2, <2>3, <2>4
<1> DEFINE p == SubSeq(s, m + 1, m + k)
<1>4. p \in Seq(S) /\ Len(p) = k /\ \A i \in 1..k : p[i] = s[m + i]
    BY <1>3
<1> HIDE DEF p
<1>5. p = [i \in 1..k |-> p[i]]
    BY <1>4
<1>6. p = [i \in 1..k |-> s[m + i]]
    BY <1>4, <1>5
<1> QED BY <1>6 DEF p

(* One sequence after the other, place by place.                            *)
LEMMA CatIs ==
    ASSUME NEW s, IsSeq(s), NEW t, IsSeq(t)
    PROVE  /\ IsSeq(s \o t) /\ Len(s) \in Nat /\ Len(t) \in Nat
           /\ Len(s \o t) = Len(s) + Len(t)
           /\ s \o t = [i \in 1..Len(s) + Len(t) |->
                           IF i <= Len(s) THEN s[i] ELSE t[i - Len(s)]]
<1>1. PICK S : s \in Seq(S)
    BY DEF IsSeq
<1>2. PICK T : t \in Seq(T)
    BY DEF IsSeq
<1> DEFINE U == S \cup T
<1>3. s \in Seq(U) /\ t \in Seq(U)
    BY <1>1, <1>2
<1> HIDE DEF U
<1>4. /\ s \o t \in Seq(U) /\ Len(s \o t) = Len(s) + Len(t)
      /\ Len(s) \in Nat /\ Len(t) \in Nat
      /\ \A b \in 1..(Len(s) + Len(t)) :
            (s \o t)[b] = IF b <= Len(s) THEN s[b] ELSE t[b - Len(s)]
    BY <1>3
<1>5. s \o t = [i \in 1..Len(s) + Len(t) |-> (s \o t)[i]]
    <2> DEFINE u == s \o t
    <2>1. u \in Seq(U) /\ Len(u) = Len(s) + Len(t)
        BY <1>4
    <2> HIDE DEF u
    <2>2. u = [i \in 1..Len(u) |-> u[i]]
        BY <2>1
    <2> QED BY <2>1, <2>2 DEF u
<1> QED BY <1>4, <1>5 DEF IsSeq

(* A part of the first sequence.                                            *)
LEMMA PartOfFirst ==
    ASSUME NEW s, IsSeq(s), NEW t, IsSeq(t), NEW m \in Nat, NEW k \in Nat, m + k <= Len(s)
    PROVE  SubSeq(s \o t, m + 1, m + k) = SubSeq(s, m + 1, m + k)
<1> DEFINE u == s \o t
<1>1. /\ IsSeq(u) /\ Len(s) \in Nat /\ Len(t) \in Nat /\ Len(u) = Len(s) + Len(t)
      /\ u = [i \in 1..Len(s) + Len(t) |-> IF i <= Len(s) THEN s[i] ELSE t[i - Len(s)]]
    BY CatIs
<1> HIDE DEF u
<1>2. m + k <= Len(u)
    BY <1>1
<1>3. SubSeq(u, m + 1, m + k) = [i \in 1..k |-> u[m + i]]
    BY <1>1, <1>2, PartIs
<1>4. SubSeq(s, m + 1, m + k) = [i \in 1..k |-> s[m + i]]
    BY PartIs
<1>5. \A i \in 1..k : u[m + i] = s[m + i]
    <2> SUFFICES ASSUME NEW i \in 1..k PROVE u[m + i] = s[m + i]
        OBVIOUS
    <2>1. m + i \in 1..Len(s) + Len(t) /\ m + i <= Len(s)
        BY <1>1
    <2> QED BY <1>1, <2>1
<1> QED BY <1>3, <1>4, <1>5 DEF u

(* A part of the second sequence.                                           *)
LEMMA PartOfSecond ==
    ASSUME NEW s, IsSeq(s), NEW t, IsSeq(t), NEW m \in Nat, NEW k \in Nat, m + k <= Len(t)
    PROVE  SubSeq(s \o t, (Len(s) + m) + 1, (Len(s) + m) + k) = SubSeq(t, m + 1, m + k)
<1> DEFINE u == s \o t
           l == Len(s) + m
<1>1. /\ IsSeq(u) /\ Len(s) \in Nat /\ Len(t) \in Nat /\ Len(u) = Len(s) + Len(t)
      /\ u = [i \in 1..Len(s) + Len(t) |-> IF i <= Len(s) THEN s[i] ELSE t[i - Len(s)]]
    BY CatIs
<1> HIDE DEF u
<1>2. l \in Nat /\ l + k <= Len(u)
    BY <1>1
<1>3. SubSeq(u, l + 1, l + k) = [i \in 1..k |-> u[l + i]]
    <2> HIDE DEF l
    <2> QED BY <1>1, <1>2, PartIs
<1>4. SubSeq(t, m + 1, m + k) = [i \in 1..k |-> t[m + i]]
    BY PartIs
<1>5. \A i \in 1..k : u[l + i] = t[m + i]
    <2> SUFFICES ASSUME NEW i \in 1..k PROVE u[l + i] = t[m + i]
        OBVIOUS
    <2>1. l + i \in 1..Len(s) + Len(t) /\ ~(l + i <= Len(s)) /\ l + i - Len(s) = m + i
        BY <1>1
    <2> DEFINE j == l + i
    <2> HIDE DEF j
    <2>2. j \in 1..Len(s) + Len(t) /\ ~(j <= Len(s)) /\ j - Len(s) = m + i
        BY <2>1 DEF j
    <2>3. u[j] = t[j - Len(s)]
        BY <1>1, <2>2
    <2> QED BY <2>2, <2>3 DEF j
<1> QED BY <1>3, <1>4, <1>5 DEF u, l

(* Where a block begins and ends.                                           *)
LEMMA BlockAt ==
    ASSUME NEW n \in Nat, NEW b \in Nat \ {0}
    PROVE  (b - 1) * n \in Nat /\ b * n = (b - 1) * n + n
<1>1. b - 1 \in Nat
    OBVIOUS
<1> QED BY <1>1

(* A piece completes m blocks, leaves `blocks' whole ones after its first   *)
(* bytes, and what remains begins no further one.                           *)
Grows(all, input, first, blocks, m, filled) ==
    LET q == Len(all) \div BlockLen
    IN  /\ first \in Nat /\ blocks \in Nat /\ m \in {0, 1}
        /\ (Len(all) + Len(input)) \div BlockLen = q + m + blocks
        /\ m = 1 => filled = SubSeq(all \o input, q * BlockLen + 1, q * BlockLen + BlockLen)
        /\ blocks > 0 => (q + m) * BlockLen = Len(all) + first
        /\ first + blocks * BlockLen <= Len(input)

(* The blocks of the two together are those of the message, the completed   *)
(* one and those of the piece.                                              *)
Grown(all, input, first, blocks, m, filled) ==
    Cut(all \o input) =
        Cut(all) \o (IF m = 1 THEN <<filled>> ELSE <<>>)
            \o [b \in 1..blocks |->
                   SubSeq(input, first + (b - 1) * BlockLen + 1, first + b * BlockLen)]

(* The blocks of a message and of the piece after it.                       *)
LEMMA CutGrows ==
    ASSUME NEW all, IsSeq(all), NEW input, IsSeq(input),
           NEW first, NEW blocks, NEW m, NEW filled,
           Grows(all, input, first, blocks, m, filled)
    PROVE  Grown(all, input, first, blocks, m, filled)
<1> DEFINE n == BlockLen
           A == Len(all)
           q == A \div n
           whole == all \o input
           made == IF m = 1 THEN <<filled>> ELSE <<>>
           cut == [b \in 1..blocks |-> SubSeq(input, first + (b - 1) * n + 1, first + b * n)]
           old == Cut(all)
<1>0. /\ first \in Nat /\ blocks \in Nat /\ m \in {0, 1}
      /\ (A + Len(input)) \div n = q + m + blocks
      /\ m = 1 => filled = SubSeq(whole, q * n + 1, q * n + n)
      /\ blocks > 0 => (q + m) * n = A + first
      /\ first + blocks * n <= Len(input)
    BY DEF Grows
<1>1. n \in Nat /\ n > 0 /\ A \in Nat /\ Len(input) \in Nat
    BY Sm3Assumption DEF IsSeq
<1>2. q \in Nat /\ n * q <= A
    <2>1. q \in Nat /\ A = n * q + (A % n) /\ A % n \in 0..(n - 1)
        BY <1>1, DivisionNat
    <2> HIDE DEF q, A, n
    <2>2. n * q \in Nat
        BY <1>1, <2>1
    <2> QED BY <1>1, <2>1, <2>2
<1>3. /\ IsSeq(whole) /\ Len(whole) = A + Len(input)
    BY CatIs
<1>4. old = [b \in 1..q |-> SubSeq(all, (b - 1) * n + 1, b * n)]
    BY DEF Cut
<1>5. Cut(whole) = [b \in 1..q + m + blocks |-> SubSeq(whole, (b - 1) * n + 1, b * n)]
    BY <1>0, <1>3 DEF Cut
<1> HIDE DEF old
<1>6. IsSeq(old) /\ Len(old) = q
    <2>1. old = [b \in 1..q |-> old[b]]
        BY <1>4
    <2> HIDE DEF q
    <2> QED BY <1>2, <2>1, FunctionIsSeq
<1>7. IsSeq(made) /\ Len(made) = m /\ (m = 1 => made[1] = filled)
    <2>1. CASE m = 1
        <3>1. made = <<filled>>
            BY <2>1
        <3>2. <<filled>> \in Seq({filled}) /\ Len(<<filled>>) = 1 /\ <<filled>>[1] = filled
            OBVIOUS
        <3> HIDE DEF made
        <3> QED BY <2>1, <3>1, <3>2 DEF IsSeq
    <2>2. CASE m = 0
        <3>1. made = <<>>
            BY <2>2
        <3>2. <<>> \in Seq({}) /\ Len(<<>>) = 0
            OBVIOUS
        <3> HIDE DEF made
        <3> QED BY <2>2, <3>1, <3>2 DEF IsSeq
    <2> QED BY <1>0, <2>1, <2>2
<1>8. IsSeq(cut) /\ Len(cut) = blocks
    <2>1. cut = [b \in 1..blocks |-> cut[b]]
        OBVIOUS
    <2> HIDE DEF cut
    <2> QED BY <1>0, <2>1, FunctionIsSeq
<1>9. /\ IsSeq(old \o made) /\ Len(old \o made) = q + m
      /\ old \o made = [b \in 1..q + m |-> IF b <= q THEN old[b] ELSE made[b - q]]
    <2> HIDE DEF made, q
    <2>1. /\ IsSeq(old \o made) /\ Len(old \o made) = Len(old) + Len(made)
          /\ old \o made = [b \in 1..Len(old) + Len(made) |->
                               IF b <= Len(old) THEN old[b] ELSE made[b - Len(old)]]
        BY <1>6, <1>7, CatIs
    <2> QED BY <1>6, <1>7, <2>1
<1>10. (old \o made) \o cut =
           [b \in 1..(q + m) + blocks |->
               IF b <= q + m THEN (old \o made)[b] ELSE cut[b - (q + m)]]
    <2> DEFINE both == old \o made
    <2>1. IsSeq(both) /\ Len(both) = q + m
        BY <1>9
    <2> HIDE DEF both, cut, q
    <2>2. both \o cut = [b \in 1..Len(both) + Len(cut) |->
                            IF b <= Len(both) THEN both[b] ELSE cut[b - Len(both)]]
        BY <1>8, <2>1, CatIs
    <2> QED BY <1>8, <2>1, <2>2 DEF both
<1>11. ASSUME NEW b \in 1..q + m + blocks
       PROVE  SubSeq(whole, (b - 1) * n + 1, b * n) = ((old \o made) \o cut)[b]
    <2> DEFINE from == (b - 1) * n
    <2>1. from \in Nat /\ b * n = from + n /\ b \in Nat \ {0}
        BY <1>0, <1>1, <1>2, BlockAt
    <2>2. CASE b <= q
        <3>1. ((old \o made) \o cut)[b] = SubSeq(all, from + 1, from + n)
            <4>1. b \in 1..q /\ b \in 1..q + m /\ b \in 1..(q + m) + blocks
                BY <1>0, <1>2, <2>1, <2>2
            <4> DEFINE both == old \o made
            <4>2. (both \o cut)[b] = old[b]
                <5>1. both[b] = old[b]
                    BY <1>9, <2>2, <4>1
                <5>2. b <= q + m
                    BY <4>1
                <5> HIDE DEF both, made, cut, q, n, from
                <5> QED BY <1>10, <4>1, <5>1, <5>2 DEF both
            <4> HIDE DEF made, cut, q, n, from
            <4> QED BY <1>4, <2>1, <4>1, <4>2 DEF from
        <3>2. from + n <= A
            <4>1. q * n = b * n + (q - b) * n /\ (q - b) * n \in Nat
                <5>1. q - b \in Nat
                    BY <1>0, <1>2, <2>1, <2>2
                <5> HIDE DEF q, n
                <5> QED BY <1>0, <1>1, <1>2, <2>1, <5>1
            <4>2. q * n = n * q
                BY <1>0, <1>1, <1>2
            <4> HIDE DEF q, n, A, from
            <4> QED BY <1>0, <1>1, <1>2, <2>1, <4>1, <4>2
        <3> HIDE DEF from, n
        <3>3. SubSeq(whole, from + 1, from + n) = SubSeq(all, from + 1, from + n)
            BY <1>1, <2>1, <3>2, PartOfFirst
        <3> QED BY <2>1, <3>1, <3>3 DEF from
    <2>3. CASE b = q + 1 /\ m = 1
        <3>1. ((old \o made) \o cut)[b] = filled
            <4>1. b \in 1..q + m /\ b \in 1..(q + m) + blocks /\ ~(b <= q) /\ b - q = 1 /\ b <= q + m
                <5> HIDE DEF q, n, from
                <5> QED BY <1>0, <1>2, <2>3
            <4> HIDE DEF made, cut, q, n, from
            <4>2. ((old \o made) \o cut)[b] = made[1]
                BY <1>9, <1>10, <4>1
            <4> QED BY <1>7, <2>3, <4>2
        <3>2. from = q * n
            <4>1. b - 1 = q
                BY <1>0, <1>2, <2>3
            <4> QED BY <4>1
        <3> QED BY <1>0, <2>1, <2>3, <3>1, <3>2
    <2>4. CASE b > q + m
        <3> DEFINE k == b - (q + m)
                   at == first + (k - 1) * n
        <3>1. k \in 1..blocks
            <4>1. /\ q \in Nat /\ m \in Nat /\ blocks \in Nat /\ b \in Nat
                  /\ b <= q + m + blocks /\ b > q + m
                BY <1>0, <1>2, <2>1, <2>4
            <4> HIDE DEF q, n, from
            <4> QED BY <4>1
        <3>2. ((old \o made) \o cut)[b] = SubSeq(input, at + 1, first + k * n)
            <4>1. b \in 1..(q + m) + blocks /\ ~(b <= q + m)
                BY <1>0, <1>2, <2>1, <2>4
            <4>2. ((old \o made) \o cut)[b] = cut[k]
                <5> HIDE DEF made, cut, q, n, from
                <5> QED BY <1>10, <4>1 DEF k
            <4> HIDE DEF k
            <4> QED BY <3>1, <4>2
        <3> HIDE DEF k
        <3>3. (k - 1) * n \in Nat /\ k * n = (k - 1) * n + n /\ k * n <= blocks * n
            <4>1. (k - 1) * n \in Nat /\ k * n = (k - 1) * n + n
                BY <1>0, <1>1, <3>1, BlockAt
            <4>2. blocks * n = k * n + (blocks - k) * n /\ (blocks - k) * n \in Nat
                <5>1. blocks - k \in Nat
                    BY <1>0, <3>1
                <5> HIDE DEF n
                <5> QED BY <1>0, <1>1, <3>1, <5>1
            <4> HIDE DEF n
            <4> QED BY <1>0, <1>1, <4>1, <4>2
        <3>4. at \in Nat /\ first + k * n = at + n /\ at + n <= Len(input)
            <4>1. first + blocks * n <= Len(input)
                BY <1>0
            <4> DEFINE u == (k - 1) * n
                       v == k * n
                       w == blocks * n
            <4>2. u \in Nat /\ v = u + n /\ v <= w /\ w \in Int
                  /\ first + w <= Len(input) /\ at = first + u
                <5>1. w \in Int
                    BY <1>0, <1>1
                <5> QED BY <3>3, <4>1, <5>1
            <4> HIDE DEF u, v, w, n, at
            <4>3. at \in Nat /\ first + v = at + n /\ at + n <= Len(input)
                BY <1>0, <1>1, <4>2
            <4> QED BY <4>3 DEF v
        <3>5. from = A + at
            <4>1. b - 1 = (q + m) + (k - 1)
                BY <1>0, <1>2, <2>1 DEF k
            <4>2. from = (q + m) * n + (k - 1) * n
                <5> HIDE DEF q, n
                <5> QED BY <1>0, <1>1, <1>2, <3>1, <4>1 DEF from
            <4>3. (q + m) * n = A + first
                BY <1>0, <3>1
            <4> DEFINE u == (k - 1) * n
            <4>4. u \in Nat /\ at = first + u /\ from = (A + first) + u
                BY <3>3, <4>2, <4>3
            <4>5. A \in Nat /\ first \in Nat
                BY <1>0, <1>1
            <4> HIDE DEF n, q, A, u, at, from
            <4> QED BY <4>4, <4>5
        <3> HIDE DEF at, n, from
        <3>6. SubSeq(whole, (A + at) + 1, (A + at) + n) = SubSeq(input, at + 1, at + n)
            <4>1. at \in Nat /\ n \in Nat /\ at + n <= Len(input)
                BY <1>1, <3>4
            <4> QED BY <4>1, PartOfSecond
        <3> QED BY <2>1, <3>2, <3>4, <3>5, <3>6 DEF from
    <2>5. b <= q \/ (b = q + 1 /\ m = 1) \/ b > q + m
        <3> HIDE DEF q, n, from
        <3> QED BY <1>0, <1>2, <2>1
    <2> QED BY <2>2, <2>3, <2>4, <2>5
<1> HIDE DEF whole, made, cut, q
<1>12. Cut(whole) = (old \o made) \o cut
    <2>1. q + m + blocks = (q + m) + blocks
        BY <1>0, <1>2
    <2>2. (old \o made) \o cut = [b \in 1..q + m + blocks |-> ((old \o made) \o cut)[b]]
        BY <1>10, <2>1
    <2> QED BY <1>5, <1>11, <2>2
<1> QED BY <1>12 DEF whole, made, cut, old, Grown

(* The buffer holds the `left' bytes behind the q blocks of a message, and  *)
(* the first bytes of the next piece complete the block.                    *)
Completes(all, input, buffer, n, q, left, first) ==
    /\ IsSeq(buffer) /\ Len(buffer) = n
    /\ n \in Nat /\ q \in Nat /\ left \in Nat /\ first \in Nat
    /\ Len(all) = q * n + left /\ left + first = n /\ first <= Len(input)
    /\ \A i \in 1..left : buffer[i] = all[q * n + i]

(* The block is then the next one of the message and the piece.             *)
Completed(all, input, buffer, n, q, left, first) ==
    Copied(buffer, left, SubSeq(input, 1, first)) = SubSeq(all \o input, q * n + 1, q * n + n)

(* The block that a piece completes.                                        *)
LEMMA FilledIs ==
    ASSUME NEW all, IsSeq(all), NEW input, IsSeq(input), NEW buffer,
           NEW n, NEW q, NEW left, NEW first,
           Completes(all, input, buffer, n, q, left, first)
    PROVE  Completed(all, input, buffer, n, q, left, first)
<1> DEFINE u == all \o input
           l == q * n
           bytes == SubSeq(input, 1, first)
<1>1. /\ IsSeq(u) /\ Len(all) \in Nat /\ Len(input) \in Nat /\ Len(u) = Len(all) + Len(input)
      /\ u = [i \in 1..Len(all) + Len(input) |-> IF i <= Len(all) THEN all[i] ELSE input[i - Len(all)]]
    BY CatIs
<1> USE DEF Completes
<1>2. l \in Nat
    OBVIOUS
<1>3. bytes = [i \in 1..first |-> input[i]]
    <2>1. SubSeq(input, 0 + 1, 0 + first) = [i \in 1..first |-> input[0 + i]]
        BY PartIs
    <2>2. 0 + 1 = 1 /\ 0 + first = first /\ \A i \in 1..first : 0 + i = i
        OBVIOUS
    <2> QED BY <2>1, <2>2
<1> HIDE DEF bytes
<1>4. Len(bytes) = first
    <2>1. bytes = [i \in 1..first |-> bytes[i]]
        BY <1>3
    <2> QED BY <2>1, FunctionIsSeq
<1>5. Copied(buffer, left, bytes) =
        [i \in 1..n |-> IF i \in left + 1..n THEN bytes[i - left] ELSE buffer[i]]
    <2>1. ~(left + Len(bytes) > Len(buffer)) /\ left + Len(bytes) = n
        BY <1>4
    <2> QED BY <2>1 DEF Copied
<1> HIDE DEF u
<1>6. SubSeq(u, l + 1, l + n) = [i \in 1..n |-> u[l + i]]
    <2>1. l + n <= Len(u)
        <3> HIDE DEF l
        <3>1. Len(all) = l + left
            BY DEF l
        <3> QED BY <1>1, <1>2, <3>1
    <2> HIDE DEF l
    <2> QED BY <1>1, <1>2, <2>1, PartIs
<1>7. ASSUME NEW i \in 1..n
      PROVE  u[l + i] = IF i \in left + 1..n THEN bytes[i - left] ELSE buffer[i]
    <2> DEFINE j == l + i
    <2>1. Len(all) = l + left
        OBVIOUS
    <2>2. j \in 1..Len(all) + Len(input) /\ (j <= Len(all) <=> i <= left) /\ j - Len(all) = i - left
        <3> HIDE DEF l
        <3> QED BY <1>1, <1>2, <2>1 DEF j
    <2>3. CASE i <= left
        <3>1. u[j] = all[j]
            <4> HIDE DEF j
            <4> QED BY <1>1, <2>2, <2>3
        <3>2. i \in 1..left /\ ~(i \in left + 1..n)
            BY <2>3
        <3> QED BY <3>1, <3>2
    <2>4. CASE i > left
        <3>1. u[j] = input[j - Len(all)]
            <4> HIDE DEF j
            <4> QED BY <1>1, <2>2, <2>4
        <3>2. i - left \in 1..first /\ i \in left + 1..n
            BY <2>4
        <3>3. bytes[i - left] = input[i - left]
            BY <1>3, <3>2
        <3> QED BY <2>2, <3>1, <3>2, <3>3
    <2> QED BY <2>3, <2>4
<1> QED BY <1>5, <1>6, <1>7 DEF u, bytes, Completed

(* r bytes remain of a piece; they fit behind the `at' bytes in the buffer, *)
(* which are those of the message behind its first `base'.                  *)
Remains(all, input, filled, n, at, from, r, base) ==
    /\ IsSeq(filled) /\ Len(filled) = n
    /\ n \in Nat /\ at \in Nat /\ from \in Nat /\ r \in Nat /\ base \in Nat
    /\ from + r = Len(input) /\ at + r <= n
    /\ base + at = Len(all) + from
    /\ at > 0 => from = 0 /\ \A i \in 1..at : filled[i] = all[base + i]

(* They are then the bytes of the message and the piece behind `base'.      *)
Remained(all, input, filled, at, from, r, base) ==
    \A i \in 1..at + r :
        Copied(filled, at, SubSeq(input, from + 1, Len(input)))[i] = (all \o input)[base + i]

(* What remains of a piece, behind what was in the buffer.                  *)
LEMMA RestIs ==
    ASSUME NEW all, IsSeq(all), NEW input, IsSeq(input), NEW filled,
           NEW n, NEW at, NEW from, NEW r, NEW base,
           Remains(all, input, filled, n, at, from, r, base)
    PROVE  Remained(all, input, filled, at, from, r, base)
<1> DEFINE u == all \o input
           rest == SubSeq(input, from + 1, Len(input))
<1>1. /\ Len(all) \in Nat /\ Len(input) \in Nat
      /\ u = [i \in 1..Len(all) + Len(input) |-> IF i <= Len(all) THEN all[i] ELSE input[i - Len(all)]]
    BY CatIs
<1> USE DEF Remains
<1>2. rest = [i \in 1..r |-> input[from + i]]
    <2>1. SubSeq(input, from + 1, from + r) = [i \in 1..r |-> input[from + i]]
        BY <1>1, PartIs
    <2> QED BY <2>1
<1> HIDE DEF rest, u
<1>3. Len(rest) = r
    <2>1. rest = [i \in 1..r |-> rest[i]]
        BY <1>2
    <2> QED BY <2>1, FunctionIsSeq
<1>4. Copied(filled, at, rest) =
        [i \in 1..n |-> IF i \in at + 1..at + r THEN rest[i - at] ELSE filled[i]]
    <2>1. ~(at + Len(rest) > Len(filled))
        BY <1>3
    <2> QED BY <1>3, <2>1 DEF Copied
<1>5. ASSUME NEW i \in 1..at + r PROVE Copied(filled, at, rest)[i] = u[base + i]
    <2> DEFINE j == base + i
    <2>1. i \in 1..n
        OBVIOUS
    <2>2. CASE i <= at
        <3>1. at > 0 /\ from = 0 /\ i \in 1..at /\ ~(i \in at + 1..at + r)
            BY <2>2
        <3>2. j \in 1..Len(all) + Len(input) /\ j <= Len(all)
            BY <1>1, <3>1
        <3>3. u[j] = all[j]
            <4> HIDE DEF j
            <4> QED BY <1>1, <3>2
        <3> QED BY <1>4, <2>1, <3>1, <3>3
    <2>3. CASE i > at
        <3>1. i - at \in 1..r /\ i \in at + 1..at + r
            BY <2>3
        <3>2. j \in 1..Len(all) + Len(input) /\ ~(j <= Len(all)) /\ j - Len(all) = from + (i - at)
            <4> DEFINE k == from + (i - at)
            <4>1. k \in 1..Len(input)
                BY <3>1
            <4>2. j = Len(all) + k
                <5>1. base + at = Len(all) + from /\ Len(all) \in Nat
                    BY <1>1
                <5> DEFINE l == Len(all)
                <5> HIDE DEF l
                <5>2. base + at = l + from /\ l \in Nat /\ i \in Nat
                    BY <5>1 DEF l
                <5>3. base + i = l + (from + (i - at))
                    BY <5>2
                <5> QED BY <5>3 DEF l
            <4> HIDE DEF j, k
            <4>3. j \in 1..Len(all) + Len(input) /\ ~(j <= Len(all)) /\ j - Len(all) = k
                BY <1>1, <4>1, <4>2
            <4> QED BY <4>3 DEF k
        <3>3. u[j] = input[j - Len(all)]
            <4> HIDE DEF j
            <4> QED BY <1>1, <3>2
        <3>4. rest[i - at] = input[from + (i - at)]
            BY <1>2, <3>1
        <3> QED BY <1>4, <2>1, <3>1, <3>2, <3>3, <3>4
    <2> QED BY <2>2, <2>3
<1> QED BY <1>5 DEF rest, u, Remained

-----------------------------------------------------------------------------
(* What has been passed is in a context: see Absorbed.                      *)
Holds(c, all) ==
    /\ c.state = Cut(all)
    /\ \A i \in 1..Len(all) % BlockLen :
          c.buffer[i] = all[(Len(all) \div BlockLen) * BlockLen + i]
    /\ c.total = <<Len(all) % W, (Len(all) \div W) % W>>

(* sm3_update adds a piece to what is in a context, however the piece and   *)
(* the buffer divide it into blocks.                                        *)
LEMMA UpdateHolds ==
    ASSUME NEW c, CtxOK(c), NEW all, IsSeq(all), Holds(c, all),
           NEW input, IsSeq(input), Len(input) < W
    PROVE  Holds(Updated(c, input), all \o input)
<1> DEFINE n == BlockLen
           ilen == Len(input)
           A == Len(all)
           q == A \div n
           left == A % n
           first == First(n, left, ilen)
           blocks == Blocks(n, left, ilen)
           m == IF first > 0 THEN 1 ELSE 0
           at == IF first > 0 THEN 0 ELSE left
           r == ilen - first - blocks * n
           base == (q + m + blocks) * n
           from == first + blocks * n
           filled == Copied(c.buffer, left, SubSeq(input, 1, first))
           made == IF m = 1 THEN <<filled>> ELSE <<>>
           cut == [b \in 1..blocks |->
                     SubSeq(input, first + (b - 1) * n + 1, first + b * n)]
           rest == SubSeq(input, from + 1, ilen)
           whole == all \o input
           d == [c EXCEPT !.total = Counted(c.total, ilen),
                          !.state = c.state \o made \o cut,
                          !.buffer = Copied(filled, at, rest)]
<1>1. n \in Nat /\ n > 0 /\ A \in Nat /\ ilen \in Nat /\ W \in Nat /\ W > 0
    BY Sm3Assumption DEF IsSeq
<1>2. q \in Nat /\ left \in 0..(n - 1) /\ A = q * n + left
    <2>1. q \in Nat /\ left \in 0..(n - 1) /\ A = n * q + left
        BY <1>1, DivisionNat
    <2> HIDE DEF q, left, n, A
    <2> QED BY <1>1, <2>1
<1>3. Left(c) = left
    <2>1. c.total[1] = A % W
        BY DEF Holds
    <2> QED BY <1>1, <2>1, LeftOf DEF Left
<1>4. /\ first \in Nat /\ first <= ilen /\ blocks \in Nat
      /\ from <= ilen
      /\ at + r \in 0..(n - 1)
      /\ left + ilen = (m + blocks) * n + (at + r)
      /\ m * n - left = first - at
      /\ at > 0 => first = 0 /\ m = 0 /\ blocks = 0
    <2>1. n \in Nat /\ n > 0 /\ left \in 0..(n - 1) /\ ilen \in Nat
        BY <1>1, <1>2
    <2> HIDE DEF n, left, ilen, first, blocks
    <2>2. Split(n, left, ilen, first, blocks)
        BY <2>1, PieceSplit DEF first, blocks
    <2> QED BY <2>2 DEF Split
<1>5. m \in {0, 1} /\ (m = 1 => left + first = n /\ at = 0) /\ at \in Nat
    <2> HIDE DEF n, left, ilen
    <2>1. first > 0 => left + first = n
        BY <1>1, <1>2 DEF First
    <2> HIDE DEF first
    <2> QED BY <1>2, <1>4, <2>1
<1>6. /\ whole = all \o input /\ IsSeq(whole) /\ Len(whole) = A + ilen
    BY CatIs
<1> HIDE DEF first, blocks, m, at
<1>7. /\ blocks * n \in Nat /\ from \in Nat /\ r \in Nat /\ from + r = ilen
      /\ m * n \in Nat /\ (q + m) * n = q * n + m * n /\ q * n \in Nat
      /\ base = (q + m) * n + blocks * n
      /\ (m + blocks) * n = m * n + blocks * n
    <2>1. blocks * n \in Nat /\ m * n \in Nat /\ q * n \in Nat
        <3> HIDE DEF n, q
        <3> QED BY <1>1, <1>2, <1>4, <1>5
    <2>2. (q + m) * n = q * n + m * n /\ (m + blocks) * n = m * n + blocks * n
          /\ (q + m + blocks) * n = (q + m) * n + blocks * n
        <3>1. \A i, j \in Int : (i + j) * n = i * n + j * n
            <4> HIDE DEF n
            <4> QED BY <1>1
        <3>2. q \in Int /\ m \in Int /\ blocks \in Int /\ q + m \in Int
            BY <1>2, <1>4, <1>5
        <3> HIDE DEF n, q
        <3> QED BY <3>1, <3>2
    <2>3. from \in Nat /\ r \in Nat /\ from + r = ilen
        <3>1. blocks * n \in Nat /\ first \in Nat /\ ilen \in Nat /\ from <= ilen
            BY <1>1, <1>4, <2>1
        <3> DEFINE x == blocks * n
        <3> HIDE DEF x, n, ilen
        <3>2. first + x \in Nat /\ ilen - first - x \in Nat
              /\ (first + x) + (ilen - first - x) = ilen
            BY <3>1 DEF x
        <3> QED BY <3>2 DEF x
    <2> QED BY <2>1, <2>2, <2>3
<1>8. A + ilen = base + (at + r) /\ base \in Nat /\ base + at = A + from
      /\ (q + m) * n = A + first - at
    <2> HIDE DEF base, q, n, left, ilen, A, r, from
    <2> DEFINE x == blocks * n
               y == m * n
               z == q * n
               v == (q + m) * n
               w == (m + blocks) * n
    <2>1. /\ x \in Nat /\ y \in Nat /\ z \in Nat /\ v = z + y /\ w = y + x
          /\ base = v + x
        BY <1>7
    <2>2. /\ left + ilen = w + (at + r) /\ y - left = first - at
          /\ A \in Nat /\ ilen \in Nat /\ left \in Nat /\ at \in Nat /\ r \in Nat /\ first \in Nat
          /\ A = z + left
        BY <1>1, <1>2, <1>4, <1>5, <1>7
    <2> HIDE DEF x, y, z, v, w
    <2>3. A + ilen = base + (at + r)
        BY <2>1, <2>2
    <2>4. v = A + first - at
        BY <2>1, <2>2
    <2>5. (q + m) * n = A + first - at
        BY <2>4 DEF v
    <2>6. base \in Nat
        BY <1>7
    <2>7. base + at = A + from
        <3>1. /\ A \in Nat /\ ilen \in Nat /\ at \in Nat /\ r \in Nat /\ from \in Nat
              /\ from + r = ilen
            BY <1>1, <1>5, <1>7
        <3> QED BY <2>3, <2>6, <3>1
    <2> QED BY <2>3, <2>5, <2>6, <2>7
<1>9. (A + ilen) \div n = q + m + blocks /\ (A + ilen) % n = at + r
    <2> DEFINE p == q + m + blocks
    <2>1. p \in Int
        BY <1>2, <1>4, <1>5
    <2>2. A + ilen = n * p + (at + r)
        <3>1. base = n * p
            <4> HIDE DEF p, n
            <4>1. p * n = n * p
                BY <1>1, <2>1
            <4> QED BY <4>1 DEF p
        <3> HIDE DEF p, base, n
        <3> QED BY <1>8, <3>1
    <2>3. A + ilen \in Int /\ at + r \in 0..(n - 1)
        BY <1>1, <1>4
    <2> HIDE DEF p, n, r, A, ilen
    <2>4. (A + ilen) \div n = p /\ (A + ilen) % n = at + r
        BY <1>1, <2>1, <2>2, <2>3, DivisionUnique
    <2> QED BY <2>4 DEF p
<1>10. \A i \in 1..left : c.buffer[i] = all[q * n + i]
    BY DEF Holds
<1>11. IsSeq(c.buffer) /\ Len(c.buffer) = n
    BY DEF CtxOK
<1>12. m = 1 => filled = SubSeq(whole, q * n + 1, q * n + n)
    <2> HIDE DEF q, n, left
    <2> SUFFICES ASSUME m = 1
                 PROVE  filled = SubSeq(whole, q * n + 1, q * n + n)
        OBVIOUS
    <2>1. left \in Nat /\ left + first = n /\ first \in Nat /\ first <= Len(input)
        BY <1>1, <1>2, <1>4, <1>5
    <2>2. n \in Nat /\ q \in Nat /\ Len(all) = q * n + left
        BY <1>1, <1>2
    <2>3. Completes(all, input, c.buffer, n, q, left, first)
        BY <1>10, <1>11, <2>1, <2>2 DEF Completes
    <2>4. Completed(all, input, c.buffer, n, q, left, first)
        BY <2>3, FilledIs, Zenon
    <2> QED BY <2>4 DEF Completed
<1>13. Cut(whole) = c.state \o made \o cut
    <2>1. blocks > 0 => (q + m) * n = A + first
        <3> HIDE DEF q, n, A
        <3>1. blocks > 0 => at = 0
            BY <1>4, <1>5
        <3> QED BY <1>1, <1>4, <1>8, <3>1
    <2>2. c.state = Cut(all)
        BY DEF Holds
    <2> HIDE DEF filled
    <2>3. Grows(all, input, first, blocks, m, filled)
        <3>1. (A + ilen) \div n = q + m + blocks /\ first + blocks * n <= ilen
            BY <1>4, <1>9
        <3> QED BY <1>4, <1>5, <1>12, <2>1, <3>1 DEF Grows
    <2>4. Grown(all, input, first, blocks, m, filled)
        BY <2>3, CutGrows, Zenon
    <2> QED BY <2>2, <2>4 DEF Grown
<1>14. IsSeq(filled) /\ Len(filled) = n
    <2>1. IsSeq(SubSeq(input, 1, first)) /\ Len(SubSeq(input, 1, first)) = first
        BY <1>4, PartLen
    <2>2. left + first <= n /\ left \in Nat
        <3> HIDE DEF n, left
        <3>1. m = 0 => first = 0
            BY <1>4 DEF m
        <3> QED BY <1>1, <1>2, <1>4, <1>5, <3>1
    <2> HIDE DEF left, n
    <2> QED BY <1>1, <1>4, <1>11, <2>1, <2>2, CopiedLen
<1>15. \A i \in 1..at + r : Copied(filled, at, rest)[i] = whole[base + i]
    <2>1. at > 0 => from = 0 /\ \A i \in 1..at : filled[i] = all[base + i]
        <3> SUFFICES ASSUME at > 0 PROVE from = 0 /\ \A i \in 1..at : filled[i] = all[base + i]
            OBVIOUS
        <3>1. first = 0 /\ m = 0 /\ blocks = 0 /\ at = left
            BY <1>4 DEF at
        <3>2. from = 0
            BY <1>1, <3>1
        <3>3. base = q * n
            <4>1. q + m + blocks = q
                BY <1>2, <3>1
            <4> QED BY <4>1
        <3>4. filled = c.buffer
            <4>1. SubSeq(input, 1, 0) = <<>>
                <5>1. PICK S : input \in Seq(S)
                    BY DEF IsSeq
                <5> QED BY <5>1
            <4>2. filled = Copied(c.buffer, left, <<>>)
                BY <3>1, <4>1
            <4>3. Copied(c.buffer, left, <<>>) = [i \in 1..n |-> c.buffer[i]]
                <5>1. Len(<<>>) = 0 /\ left + 0 = left /\ ~(left + 0 > n)
                    BY <1>1, <1>2
                <5>2. \A i \in 1..n : i \notin left + 1..left + 0
                    BY <1>2
                <5> HIDE DEF left, n
                <5> QED BY <1>11, <5>1, <5>2 DEF Copied
            <4>4. c.buffer = [i \in 1..n |-> c.buffer[i]]
                <5>1. PICK S : c.buffer \in Seq(S)
                    BY <1>11 DEF IsSeq
                <5> HIDE DEF n
                <5> QED BY <1>11, <5>1
            <4> QED BY <4>2, <4>3, <4>4
        <3> QED BY <1>10, <3>1, <3>2, <3>3, <3>4
    <2> HIDE DEF filled, n, base, r, from
    <2>2. base + at = A + from /\ from + r = ilen
        BY <1>7, <1>8
    <2>3. at + r <= n
        BY <1>1, <1>4
    <2>4. /\ n \in Nat /\ at \in Nat /\ from \in Nat /\ r \in Nat /\ base \in Nat
        BY <1>1, <1>5, <1>7, <1>8
    <2>5. Remains(all, input, filled, n, at, from, r, base)
        BY <1>14, <2>1, <2>2, <2>3, <2>4 DEF Remains
    <2>6. Remained(all, input, filled, at, from, r, base)
        BY <2>5, RestIs, Zenon
    <2> QED BY <2>6 DEF Remained
<1>16. Counted(c.total, ilen) = <<(A + ilen) % W, ((A + ilen) \div W) % W>>
    <2>1. ilen \in 0..(W - 1)
        BY <1>1
    <2>2. c.total = <<A % W, (A \div W) % W>>
        BY DEF Holds
    <2> HIDE DEF A, ilen
    <2> QED BY <1>1, <2>1, <2>2, CounterCarries
<1>17. CASE ilen = 0
    <2>1. Updated(c, input) = c
        BY <1>17 DEF Updated
    <2>2. all \o input = all
        <3>1. PICK S : all \in Seq(S)
            BY DEF IsSeq
        <3>2. input = <<>>
            <4>1. PICK T : input \in Seq(T)
                BY DEF IsSeq
            <4> QED BY <1>17, <4>1
        <3> QED BY <3>1, <3>2
    <2> QED BY <2>1, <2>2
<1>18. CASE ilen > 0
    <2>1. Updated(c, input) = d
        <3>1. RestAt(c, first) = at
            BY <1>3 DEF RestAt, at
        <3>2. Updated(c, input) =
                [c EXCEPT !.total = Counted(c.total, ilen),
                          !.state = c.state \o (IF first > 0 THEN <<filled>> ELSE <<>>) \o cut,
                          !.buffer = Copied(filled, RestAt(c, first), rest)]
            BY <1>1, <1>3, <1>18 DEF Updated, first, blocks, First, Blocks
        <3>3. (IF first > 0 THEN <<filled>> ELSE <<>>) = made
            BY DEF m
        <3> HIDE DEF made, cut, filled, rest, ilen
        <3> QED BY <3>1, <3>2, <3>3
    <2>2. DOMAIN c = {"total", "state", "buffer", "ipad", "opad"}
        BY DEF CtxOK
    <2> HIDE DEF made, cut, filled, rest, ilen
    <2>3. /\ d.total = Counted(c.total, ilen) /\ d.state = c.state \o made \o cut
          /\ d.buffer = Copied(filled, at, rest)
        BY <2>2
    <2> HIDE DEF d, whole
    <2>4. d.state = Cut(whole)
        BY <1>13, <2>3
    <2>5. \A i \in 1..Len(whole) % BlockLen :
              d.buffer[i] = whole[(Len(whole) \div BlockLen) * BlockLen + i]
        BY <1>6, <1>9, <1>15, <2>3
    <2>6. d.total = <<Len(whole) % W, (Len(whole) \div W) % W>>
        BY <1>6, <1>16, <2>3
    <2>7. Holds(d, whole)
        BY <2>4, <2>5, <2>6 DEF Holds
    <2> QED BY <1>6, <2>1, <2>7
<1> QED BY <1>1, <1>17, <1>18

(* A context that sm3_starts has just made holds nothing.                   *)
LEMMA StartedHolds ==
    ASSUME NEW c, CtxOK(c)
    PROVE  Holds(Started(c), <<>>) /\ Started(c).ipad = c.ipad
<1>1. W \in Nat /\ W > 0 /\ BlockLen \in Nat /\ BlockLen > 0
    BY Sm3Assumption
<1>2. DOMAIN c = {"total", "state", "buffer", "ipad", "opad"}
    BY DEF CtxOK
<1>3. /\ Started(c).total = <<0, 0>> /\ Started(c).state = <<>> /\ Started(c).ipad = c.ipad
    BY <1>2 DEF Started
<1>4. \A n \in Nat \ {0} : 0 \div n = 0 /\ 0 % n = 0
    <2> SUFFICES ASSUME NEW n \in Nat \ {0} PROVE 0 \div n = 0 /\ 0 % n = 0
        OBVIOUS
    <2>1. 0 = n * 0 + 0 /\ 0 \in 0..(n - 1)
        OBVIOUS
    <2> QED BY <2>1, DivisionUnique
<1>5. Len(<<>>) = 0
    OBVIOUS
<1>6. 0 \div BlockLen = 0 /\ 0 % BlockLen = 0 /\ 0 \div W = 0 /\ 0 % W = 0
    BY <1>1, <1>4
<1>7. Cut(<<>>) = <<>>
    BY <1>5, <1>6 DEF Cut
<1>8. <<0, 0>> = <<Len(<<>>) % W, (Len(<<>>) \div W) % W>>
    BY <1>5, <1>6
<1>9. \A i \in 1..Len(<<>>) % BlockLen :
          Started(c).buffer[i] = <<>>[(Len(<<>>) \div BlockLen) * BlockLen + i]
    BY <1>5, <1>6
<1> QED BY <1>3, <1>7, <1>8, <1>9 DEF Holds

(* Adding a piece leaves the inner pad as it is.                            *)
LEMMA UpdatedPad ==
    ASSUME NEW c, CtxOK(c), NEW input
    PROVE  Updated(c, input).ipad = c.ipad
<1>1. DOMAIN c = {"total", "state", "buffer", "ipad", "opad"}
    BY DEF CtxOK
<1>2. ASSUME NEW x, NEW y, NEW z
      PROVE  [c EXCEPT !.total = x, !.state = y, !.buffer = z].ipad = c.ipad
    BY <1>1
<1>3. CASE Len(input) <= 0
    BY <1>3 DEF Updated
<1>4. CASE ~(Len(input) <= 0)
    <2>1. \E x, y, z : Updated(c, input) = [c EXCEPT !.total = x, !.state = y, !.buffer = z]
        BY <1>4 DEF Updated
    <2> QED BY <1>2, <2>1
<1> QED BY <1>3, <1>4

(* Putting sequences one after the other.                                   *)
LEMMA CatEmpty ==
    ASSUME NEW s, IsSeq(s)
    PROVE  <<>> \o s = s /\ s \o <<>> = s
<1>1. PICK S : s \in Seq(S)
    BY DEF IsSeq
<1> QED BY <1>1

(* It does not matter which two are put together first.                     *)
LEMMA CatCat ==
    ASSUME NEW s, IsSeq(s), NEW t, IsSeq(t), NEW u, IsSeq(u)
    PROVE  (s \o t) \o u = s \o (t \o u)
<1>1. PICK S : s \in Seq(S)
    BY DEF IsSeq
<1>2. PICK T : t \in Seq(T)
    BY DEF IsSeq
<1>3. PICK U : u \in Seq(U)
    BY DEF IsSeq
<1> DEFINE V == S \cup T \cup U
<1>4. s \in Seq(V) /\ t \in Seq(V) /\ u \in Seq(V)
    BY <1>1, <1>2, <1>3
<1> HIDE DEF V
<1> DEFINE l == (s \o t) \o u
           r == s \o (t \o u)
<1>5. /\ l \in Seq(V) /\ r \in Seq(V) /\ Len(l) = Len(r)
      /\ \A i \in 1..Len(l) : l[i] = r[i]
    BY <1>4
<1> HIDE DEF l, r
<1>6. l = r
    BY <1>5
<1> QED BY <1>6 DEF l, r

(* The bytes of the message come one after the other.                       *)
LEMMA DataCat ==
    ASSUME NEW m \in Nat, NEW n \in Nat
    PROVE  Data(0, m) \o Data(m, n) = Data(0, m + n) /\ Len(Data(m, n)) = n
<1>1. ASSUME NEW a \in Nat, NEW b \in Nat PROVE IsSeq(Data(a, b)) /\ Len(Data(a, b)) = b
    <2>1. Data(a, b) = [i \in 1..b |-> Data(a, b)[i]]
        BY DEF Data
    <2> QED BY <2>1, FunctionIsSeq
<1>2. Data(0, m) \o Data(m, n) =
        [i \in 1..m + n |-> IF i <= m THEN Data(0, m)[i] ELSE Data(m, n)[i - m]]
    <2> DEFINE s == Data(0, m)
               t == Data(m, n)
    <2>1. IsSeq(s) /\ IsSeq(t) /\ Len(s) = m /\ Len(t) = n
        BY <1>1
    <2> HIDE DEF s, t
    <2>2. s \o t = [i \in 1..Len(s) + Len(t) |-> IF i <= Len(s) THEN s[i] ELSE t[i - Len(s)]]
        BY <2>1, CatIs
    <2>3. s \o t = [i \in 1..m + n |-> IF i <= m THEN s[i] ELSE t[i - m]]
        BY <2>1, <2>2
    <2> QED BY <2>3 DEF s, t
<1>3. ASSUME NEW i \in 1..m + n
      PROVE  (IF i <= m THEN Data(0, m)[i] ELSE Data(m, n)[i - m]) = Datum(i)
    <2>1. CASE i <= m
        <3>1. i \in 1..m /\ 0 + i = i
            BY <2>1
        <3> QED BY <2>1, <3>1 DEF Data
    <2>2. CASE i > m
        <3>1. i - m \in 1..n /\ m + (i - m) = i
            BY <2>2
        <3> QED BY <2>2, <3>1 DEF Data
    <2> QED BY <2>1, <2>2
<1>4. Data(0, m + n) = [i \in 1..m + n |-> Datum(i)]
    <2>1. \A i \in 1..m + n : 0 + i = i
        OBVIOUS
    <2> QED BY <2>1 DEF Data
<1> QED BY <1>1, <1>2, <1>3, <1>4

-----------------------------------------------------------------------------
(* What has been passed to the context that is being filled.                *)
Passed == (IF key = Nil THEN <<>> ELSE ctx.ipad) \o Data(0, len)

AbsorbedInv ==
    /\ ContextInv
    /\ pc \in {"open", "file"} =>
        /\ key # Nil => IsSeq(ctx.ipad)
        /\ Holds(ctx, Passed)

(* What is passed is a sequence.                                            *)
LEMMA PassedIsSeq ==
    ASSUME len \in Nat, key # Nil => IsSeq(ctx.ipad)
    PROVE  IsSeq(Passed)
<1>1. IsSeq(Data(0, len))
    BY DataIsSeq
<1>2. IsSeq(IF key = Nil THEN <<>> ELSE ctx.ipad)
    <2>1. <<>> \in Seq({})
        OBVIOUS
    <2>2. IsSeq(<<>>)
        BY <2>1 DEF IsSeq
    <2> QED BY <2>2
<1> QED BY <1>1, <1>2, CatIs DEF Passed

(* A context that holds what was passed satisfies the property.             *)
LEMMA AbsorbedFollows == AbsorbedInv => Absorbed
<1> SUFFICES ASSUME AbsorbedInv, pc \in {"open", "file"}
             PROVE  /\ ctx.state = Cut(Passed)
                    /\ SubSeq(ctx.buffer, 1, Left(ctx)) =
                          SubSeq(Passed, Len(ctx.state) * BlockLen + 1, Len(Passed))
                    /\ ctx.total = <<Len(Passed) % W, (Len(Passed) \div W) % W>>
    BY DEF Absorbed, Passed
<1>1. /\ ctx.state = Cut(Passed)
      /\ \A i \in 1..Len(Passed) % BlockLen :
            ctx.buffer[i] = Passed[(Len(Passed) \div BlockLen) * BlockLen + i]
      /\ ctx.total = <<Len(Passed) % W, (Len(Passed) \div W) % W>>
    BY DEF AbsorbedInv, Holds
<1>2. IsSeq(Passed)
    <2>1. len \in Nat
        BY Sm3Assumption DEF AbsorbedInv, ContextInv
    <2> QED BY <2>1, PassedIsSeq DEF AbsorbedInv
<1> DEFINE n == BlockLen
           all == Passed
           A == Len(all)
           q == A \div n
           k == A % n
<1>3. n \in Nat /\ n > 0 /\ A \in Nat /\ W \in Nat /\ W > 0
    BY <1>2, Sm3Assumption DEF IsSeq
<1>4. q \in Nat /\ k \in 0..(n - 1) /\ A = q * n + k
    <2>1. q \in Nat /\ k \in 0..(n - 1) /\ A = n * q + k
        BY <1>3, DivisionNat
    <2> HIDE DEF q, k, n, A
    <2> QED BY <1>3, <2>1
<1>5. Left(ctx) = k
    <2>1. ctx.total[1] = A % W
        BY <1>1
    <2> QED BY <1>3, <2>1, LeftOf DEF Left
<1>6. Len(ctx.state) = q
    <2>1. ctx.state = [b \in 1..q |-> ctx.state[b]]
        BY <1>1 DEF Cut
    <2> HIDE DEF q
    <2> QED BY <1>4, <2>1, FunctionIsSeq
<1>7. SubSeq(ctx.buffer, 1, k) = [i \in 1..k |-> ctx.buffer[i]]
    <2>1. IsSeq(ctx.buffer) /\ Len(ctx.buffer) = n
        BY DEF AbsorbedInv, ContextInv, CtxOK
    <2> HIDE DEF k, n
    <2>2. SubSeq(ctx.buffer, 0 + 1, 0 + k) = [i \in 1..k |-> ctx.buffer[0 + i]]
        BY <1>3, <1>4, <2>1, PartIs
    <2>3. 0 + 1 = 1 /\ 0 + k = k /\ \A i \in 1..k : 0 + i = i
        BY <1>4, <1>3
    <2> QED BY <2>2, <2>3
<1> HIDE DEF all
<1>8. SubSeq(all, q * n + 1, A) = [i \in 1..k |-> all[q * n + i]]
    <2> DEFINE l == q * n
    <2>1. l \in Nat /\ A = l + k
        <3> HIDE DEF q, k, n, A
        <3> QED BY <1>3, <1>4 DEF l
    <2>2. k \in Nat
        BY <1>3, <1>4
    <2> HIDE DEF l, k
    <2>3. SubSeq(all, l + 1, l + k) = [i \in 1..k |-> all[l + i]]
        BY <1>2, <2>1, <2>2, PartIs DEF all
    <2> QED BY <2>1, <2>3 DEF l
<1>9. \A i \in 1..k : ctx.buffer[i] = all[q * n + i]
    BY <1>1 DEF all
<1>10. SubSeq(ctx.buffer, 1, k) = SubSeq(all, q * n + 1, A)
    <2> HIDE DEF q, k, n, A
    <2> QED BY <1>7, <1>8, <1>9
<1> QED BY <1>1, <1>5, <1>6, <1>10 DEF all

(* sm3_hmac_starts passes the inner pad.                                    *)
LEMMA HmacStartedHolds ==
    ASSUME NEW c, CtxOK(c), NEW k
    PROVE  /\ IsSeq(HmacStarted(c, k).ipad)
           /\ Holds(HmacStarted(c, k), HmacStarted(c, k).ipad)
<1> DEFINE i == Pad(ShortKey(k), "36")
           o == Pad(ShortKey(k), "5C")
           pads == [c EXCEPT !.ipad = i, !.opad = o]
<1>1. IsSeq(i) /\ IsSeq(o) /\ Len(i) < W
    <2>1. i = [j \in 1..BlockLen |-> i[j]]
        BY DEF Pad
    <2>2. Len(i) = BlockLen
        <3> HIDE DEF i
        <3> QED BY <2>1, Sm3Assumption, FunctionIsSeq
    <2> QED BY <2>2, PadIsSeq, Sm3Assumption
<1> HIDE DEF i, o
<1>2. DOMAIN c = {"total", "state", "buffer", "ipad", "opad"}
    BY DEF CtxOK
<1>3. /\ DOMAIN pads = DOMAIN c /\ pads.total = c.total /\ pads.state = c.state
      /\ pads.buffer = c.buffer /\ pads.opad = o /\ pads.ipad = i
    BY <1>2
<1>4. HmacStarted(c, k) = Updated(Started(pads), i)
    BY <1>3 DEF HmacStarted, i, o
<1> HIDE DEF pads
<1>5. CtxOK(pads)
    BY <1>1, <1>2, <1>3 DEF CtxOK
<1> DEFINE s == Started(pads)
<1>6. CtxOK(s) /\ Holds(s, <<>>) /\ s.ipad = i
    BY <1>3, <1>5, StartedOK, StartedHolds
<1> HIDE DEF s
<1>7. IsSeq(<<>>)
    <2>1. <<>> \in Seq({})
        OBVIOUS
    <2> QED BY <2>1 DEF IsSeq
<1>8. Holds(Updated(s, i), <<>> \o i)
    BY <1>1, <1>6, <1>7, UpdateHolds
<1>9. <<>> \o i = i
    BY <1>1, CatEmpty
<1>10. Updated(s, i).ipad = i
    BY <1>6, UpdatedPad
<1> QED BY <1>1, <1>4, <1>8, <1>9, <1>10 DEF s

(* Nothing is open before the first call.                                   *)
LEMMA AbsorbedInit == Init => AbsorbedInv
BY ContextInit DEF Init, AbsorbedInv

(* Every call keeps it.                                                     *)
LEMMA AbsorbedStep == AbsorbedInv /\ [Next]_vars => AbsorbedInv'
<1> SUFFICES ASSUME AbsorbedInv, [Next]_vars PROVE AbsorbedInv'
    OBVIOUS
<1>1. ContextInv'
    BY ContextStep DEF AbsorbedInv
<1>2. CtxOK(ctx) /\ len \in Nat
    BY Sm3Assumption DEF AbsorbedInv, ContextInv
<1>3. Data(0, 0) = <<>> /\ <<>> \o <<>> = <<>>
    BY DEF Data
<1>4. CASE sm3_starts \/ FileOpen
    <2>1. Holds(ctx', <<>>) /\ key' = Nil /\ len' = 0
        BY <1>2, <1>4, StartedHolds DEF sm3_starts, FileOpen
    <2>2. Passed' = <<>>
        BY <1>3, <2>1 DEF Passed
    <2> QED BY <1>1, <2>1, <2>2 DEF AbsorbedInv
<1>5. ASSUME NEW n \in KeyLens, sm3_hmac_starts(n) PROVE AbsorbedInv'
    <2>1. IsSeq(ctx'.ipad) /\ Holds(ctx', ctx'.ipad)
        BY <1>2, <1>5, HmacStartedHolds DEF sm3_hmac_starts
    <2>2. key' # Nil /\ len' = 0
        BY <1>5, Sm3Assumption DEF sm3_hmac_starts
    <2>3. Passed' = ctx'.ipad
        BY <1>3, <2>1, <2>2, CatEmpty DEF Passed
    <2> QED BY <1>1, <2>1, <2>3 DEF AbsorbedInv
<1>6. ASSUME NEW n \in 0..W - 1, sm3_update(n) \/ FileRead(n) PROVE AbsorbedInv'
    <2>1. /\ pc \in {"open", "file"} /\ ctx' = Updated(ctx, Data(len, n))
          /\ len' = len + n /\ key' = key
        BY <1>6 DEF sm3_update, FileRead
    <2>2. n \in Nat /\ n < W
        BY Sm3Assumption
    <2>3. IsSeq(Data(len, n)) /\ Len(Data(len, n)) < W
        BY <1>2, <2>2, DataIsSeq, DataCat
    <2>4. (key # Nil => IsSeq(ctx.ipad)) /\ Holds(ctx, Passed)
        BY <2>1 DEF AbsorbedInv
    <2>5. IsSeq(Passed)
        BY <1>2, <2>4, PassedIsSeq
    <2>6. Holds(ctx', Passed \o Data(len, n))
        BY <1>2, <2>1, <2>3, <2>4, <2>5, UpdateHolds
    <2>7. ctx'.ipad = ctx.ipad
        BY <1>2, <2>1, UpdatedPad
    <2>8. Passed' = Passed \o Data(len, n)
        <3> DEFINE pre == IF key = Nil THEN <<>> ELSE ctx.ipad
        <3>1. IsSeq(pre)
            <4>1. <<>> \in Seq({})
                OBVIOUS
            <4>2. IsSeq(<<>>)
                BY <4>1 DEF IsSeq
            <4> QED BY <2>4, <4>2
        <3>2. IsSeq(Data(0, len))
            BY <1>2, DataIsSeq
        <3>3. Passed' = pre \o Data(0, len + n) /\ Passed = pre \o Data(0, len)
            BY <2>1, <2>7 DEF Passed
        <3> HIDE DEF pre
        <3>4. (pre \o Data(0, len)) \o Data(len, n) = pre \o (Data(0, len) \o Data(len, n))
            BY <2>3, <3>1, <3>2, CatCat
        <3>5. Data(0, len) \o Data(len, n) = Data(0, len + n)
            BY <1>2, <2>2, DataCat
        <3> QED BY <3>3, <3>4, <3>5
    <2> QED BY <1>1, <2>1, <2>4, <2>6, <2>7, <2>8 DEF AbsorbedInv
<1>7. CASE sm3_finish \/ FileEnd \/ sm3_hmac_finish
    <2>1. pc' = "idle"
        BY <1>7 DEF sm3_finish, FileEnd, sm3_hmac_finish, Returned
    <2> QED BY <1>1, <2>1 DEF AbsorbedInv
<1>8. CASE UNCHANGED vars
    <2>1. Passed' = Passed
        BY <1>8 DEF Passed, vars
    <2> QED BY <1>1, <1>8, <2>1 DEF AbsorbedInv, vars
<1>9. \A n \in Pieces \cup {FileBuf} : n \in 0..W - 1
    BY Sm3Assumption
<1> QED BY <1>4, <1>5, <1>6, <1>7, <1>8, <1>9 DEF Next

(* However the message is cut into pieces, the context holds the blocks of  *)
(* what was passed, the start of the next one, and its length; for a keyed  *)
(* digest the inner pad comes first.  Sizes, pieces and keys are any.       *)
THEOREM AbsorbedHolds == Spec => []Absorbed
BY AbsorbedInit, AbsorbedStep, AbsorbedFollows, PTL DEF Spec

-----------------------------------------------------------------------------
(* Powers.                                                                  *)

(* The loop has values, and none of them is 0.                              *)
IsPower(f, b, n) ==
    /\ f \in [0..n -> Nat \ {0}]
    /\ f[0] = 1
    /\ \A k \in 1..n : f[k] = b * f[k - 1]

(* The loop that multiplies n factors ends with one value for each of its   *)
(* rounds.                                                                  *)
LEMMA PowerLoop ==
    ASSUME NEW b \in Nat \ {0}, NEW n \in Nat
    PROVE  \E f : IsPower(f, b, n) /\ Power(b, n) = f[n]
<1> DEFINE R(f) == f = [k \in 0..n |-> IF k = 0 THEN 1 ELSE b * f[k - 1]]
           P == Nat \ {0}
           step == [k \in Nat |-> [x \in P |-> b * x]]
           p == CHOOSE f : R(f)
<1>1. \A x \in P : b * x \in P
  OBVIOUS
<1>2. \E f : R(f)
  <2>1. step \in [Nat -> [P -> P]]
    BY <1>1
  <2>2. \A k \in Nat : \A x \in P : step[k][x] = b * x
    OBVIOUS
  <2>3. 1 \in P
    OBVIOUS
  <2> HIDE DEF step, P
  <2>4. PICK f \in [0..n -> P] : IsLoop(f, n, 1, step)
    BY <2>1, <2>3, LoopExists
  <2>5. ASSUME NEW k \in 0..n PROVE f[k] = IF k = 0 THEN 1 ELSE b * f[k - 1]
    <3>1. f[k] = IF k = 0 THEN 1 ELSE step[k][f[k - 1]]
      BY <2>4 DEF IsLoop
    <3>2. k # 0 => f[k - 1] \in P
      BY <2>4
    <3> QED BY <2>2, <3>1, <3>2
  <2>6. f = [k \in 0..n |-> f[k]]
    BY <2>4
  <2> QED BY <2>5, <2>6
<1>3. R(p)
  BY <1>2
<1>4. Power(b, n) = p[n]
  BY DEF Power
<1> HIDE DEF p
<1>5. p[0] = 1 /\ \A k \in 1..n : p[k] = b * p[k - 1]
  BY <1>3
<1>6. \A k \in 0..n : p[k] \in P
  <2>1. p[0] \in P
    BY <1>5
  <2>2. \A k \in 1..n : p[k - 1] \in P => p[k] \in P
    BY <1>1, <1>5
  <2> HIDE DEF R, P
  <2> QED BY <2>1, <2>2, LoopStays
<1>7. p \in [0..n -> P]
  BY <1>3, <1>6
<1> QED BY <1>4, <1>5, <1>7 DEF IsPower

(* A power is 1, or the one before it times the base.                       *)
LEMMA PowerOf ==
    ASSUME NEW b \in Nat \ {0}, NEW n \in Nat
    PROVE  /\ Power(b, n) \in Nat \ {0}
           /\ Power(b, 0) = 1
           /\ Power(b, n + 1) = b * Power(b, n)
<1>1. PICK f : IsPower(f, b, n) /\ Power(b, n) = f[n]
  BY PowerLoop
<1>2. PICK g : IsPower(g, b, n + 1) /\ Power(b, n + 1) = g[n + 1]
  <2>1. n + 1 \in Nat
    OBVIOUS
  <2> QED BY <2>1, PowerLoop
<1>3. PICK h : IsPower(h, b, 0) /\ Power(b, 0) = h[0]
  BY PowerLoop
<1>4. \A k \in 0..n : f[k] = g[k]
  <2> DEFINE same == [k \in 0..n |-> IF f[k] = g[k] THEN 1 ELSE 0]
             Yes == {1}
  <2>0. 0 \in 0..n /\ f[0] = 1 /\ g[0] = 1
    BY <1>1, <1>2 DEF IsPower
  <2>1. same[0] \in Yes
    BY <2>0
  <2>2. ASSUME NEW k \in 1..n, same[k - 1] \in Yes PROVE same[k] \in Yes
    <3>1. k \in 0..n /\ k - 1 \in 0..n /\ k \in 1..n + 1
      OBVIOUS
    <3>2. f[k - 1] = g[k - 1]
      BY <2>2, <3>1
    <3>3. f[k] = b * f[k - 1] /\ g[k] = b * g[k - 1]
      BY <1>1, <1>2, <3>1 DEF IsPower
    <3> QED BY <3>1, <3>2, <3>3
  <2> HIDE DEF same, Yes
  <2>3. \A k \in 1..n : same[k - 1] \in Yes => same[k] \in Yes
    BY <2>2
  <2>4. \A k \in 0..n : same[k] \in Yes
    BY <2>1, <2>3, LoopStays
  <2> QED BY <2>4 DEF same, Yes
<1>5. n \in 0..n /\ n + 1 \in 1..n + 1 /\ n + 1 - 1 = n
  OBVIOUS
<1>6. g[n + 1] = b * f[n]
  BY <1>2, <1>4, <1>5 DEF IsPower
<1> QED BY <1>1, <1>2, <1>3, <1>5, <1>6 DEF IsPower

(* The power of a sum is the product of the powers.                         *)
LEMMA PowerSum ==
    ASSUME NEW b \in Nat \ {0}, NEW m \in Nat, NEW n \in Nat
    PROVE  Power(b, m + n) = Power(b, m) * Power(b, n)
<1> DEFINE Bad == {k \in Nat : Power(b, m + k) # Power(b, m) * Power(b, k)}
<1> SUFFICES ASSUME Bad # {} PROVE FALSE
  OBVIOUS
<1>1. PICK k \in Bad : \A i \in Bad : k <= i
  <2>1. Bad \in SUBSET Nat
    OBVIOUS
  <2> HIDE DEF Bad
  <2> QED BY <2>1, LeastNumber
<1>2. Power(b, m) \in Nat
  BY PowerOf
<1>3. k # 0
  <2>1. Power(b, 0) = 1 /\ m + 0 = m
    BY PowerOf
  <2>2. Power(b, m + 0) = Power(b, m) * Power(b, 0)
    BY <1>2, <2>1
  <2> QED BY <1>1, <2>2
<1> DEFINE i == k - 1
<1>4. i \in Nat /\ i \notin Bad /\ k = i + 1 /\ m + k = (m + i) + 1 /\ m + i \in Nat
  BY <1>1, <1>3
<1> HIDE DEF i
<1>5. Power(b, m + i) = Power(b, m) * Power(b, i)
  BY <1>4
<1>6. Power(b, k) = b * Power(b, i) /\ Power(b, m + k) = b * Power(b, m + i) /\ Power(b, i) \in Nat
  BY <1>4, PowerOf
<1>7. b * (Power(b, m) * Power(b, i)) = Power(b, m) * (b * Power(b, i))
  BY <1>2, <1>6
<1>8. Power(b, m + k) = Power(b, m) * Power(b, k)
  BY <1>5, <1>6, <1>7
<1> QED BY <1>1, <1>8

-----------------------------------------------------------------------------
(* The length of a message in bits, as two words and as one number.         *)

(* Divided twice is divided by the product.                                 *)
LEMMA DivDiv ==
    ASSUME NEW a \in Nat, NEW m \in Nat \ {0}, NEW n \in Nat \ {0}
    PROVE  (a \div m) \div n = a \div (m * n) /\ m * n \in Nat \ {0}
<1> DEFINE q == a \div m
           r == a % m
           p == q \div n
           s == q % n
           t == m * s + r
<1>1. q \in Nat /\ a = m * q + r /\ r \in 0..(m - 1)
  BY DivisionNat
<1> HIDE DEF q, r
<1>2. p \in Nat /\ q = n * p + s /\ s \in 0..(n - 1)
  BY <1>1, DivisionNat
<1> HIDE DEF p, s
<1>3. m * n \in Nat /\ m * n > 0
  OBVIOUS
<1>4. t \in 0..(m * n - 1)
  <2>1. m * s >= 0 /\ m * s <= m * (n - 1)
    BY <1>2
  <2>2. m * (n - 1) = m * n - m
    OBVIOUS
  <2>3. m * s \in Int
    BY <1>2
  <2> QED BY <1>1, <1>3, <2>1, <2>2, <2>3
<1>5. a = (m * n) * p + t
  <2>1. m * (n * p + s) = (m * n) * p + m * s
    BY <1>2
  <2>2. (m * n) * p \in Int /\ m * s \in Int
    BY <1>2
  <2> QED BY <1>1, <1>2, <2>1, <2>2
<1> HIDE DEF t
<1> DEFINE mn == m * n
<1>6. mn \in Nat /\ mn > 0 /\ t \in 0..(mn - 1) /\ a = mn * p + t
  BY <1>3, <1>4, <1>5
<1> HIDE DEF mn
<1>7. a \div mn = p
  BY <1>2, <1>6, DivisionUnique
<1> QED BY <1>3, <1>7 DEF mn, p, q

(* The lower digits of a number are those of what fits into a word.         *)
DigitKept(x, p, r, q) == ((x % (p * (r * q))) \div p) % r = (x \div p) % r

(* A digit of the remainder of a number is the digit of the number.         *)
LEMMA DigitOfRest ==
    ASSUME NEW x \in Nat, NEW p \in Nat \ {0}, NEW r \in Nat \ {0}, NEW q \in Nat \ {0}
    PROVE  DigitKept(x, p, r, q)
<1> DEFINE w == p * (r * q)
           u == x \div w
           v == x % w
           y == v \div p
           d == v % p
           z == y \div r
           t == y % r
<1>1. w \in Nat /\ w > 0
  OBVIOUS
<1> HIDE DEF w
<1>2. u \in Nat /\ x = w * u + v /\ v \in Nat
  BY <1>1, DivisionNat
<1> HIDE DEF u, v
<1>3. y \in Nat /\ v = p * y + d /\ d \in 0..(p - 1)
  BY <1>2, DivisionNat
<1> HIDE DEF y, d
<1>4. z \in Nat /\ y = r * z + t /\ t \in 0..(r - 1)
  BY <1>3, DivisionNat
<1> HIDE DEF z, t
<1> DEFINE qu == q * u
           e == r * (qu + z) + t
<1>5. qu \in Nat
  BY <1>2
<1>6. w * u = p * (r * qu)
  BY <1>2 DEF w
<1> HIDE DEF qu
<1>7. e \in Nat /\ e = r * qu + y
  <2>1. r * (qu + z) = r * qu + r * z
    BY <1>4, <1>5
  <2>2. r * (qu + z) \in Nat /\ r * qu \in Nat /\ r * z \in Nat
    BY <1>4, <1>5
  <2> QED BY <1>4, <2>1, <2>2
<1>8. x = p * e + d
  <2>1. p * (r * qu + y) = p * (r * qu) + p * y
    BY <1>3, <1>5
  <2>2. p * (r * qu) \in Nat /\ p * y \in Nat
    BY <1>3, <1>5
  <2> HIDE DEF e
  <2> QED BY <1>2, <1>3, <1>6, <1>7, <2>1, <2>2
<1>9. x \div p = e
  <2> HIDE DEF e
  <2>1. p \in Nat /\ p > 0 /\ e \in Int /\ x \in Int
    BY <1>7
  <2> QED BY <1>3, <1>8, <2>1, DivisionUnique
<1>10. e % r = t
  <2> DEFINE k == qu + z
  <2>1. k \in Int /\ e \in Int /\ r \in Nat /\ r > 0
    BY <1>4, <1>5, <1>7
  <2>2. e = r * k + t
    OBVIOUS
  <2> HIDE DEF e, k
  <2> QED BY <1>4, <2>1, <2>2, DivisionUnique
<1> HIDE DEF e
<1> QED BY <1>9, <1>10 DEF t, y, v, w, DigitKept

(* What is counted twice over does not change a remainder.                  *)
LEMMA ModShift ==
    ASSUME NEW n \in Nat \ {0}, NEW k \in Nat, NEW e \in Nat
    PROVE  (n * k + e) % n = e % n /\ (n * k + e) \div n = k + e \div n
<1> DEFINE a == e \div n
           b == e % n
           c == k + a
           d == n * k + e
<1>0. n \in Nat /\ n > 0
  OBVIOUS
<1>1. a \in Nat /\ e = n * a + b /\ b \in 0..(n - 1)
  BY DivisionNat
<1> HIDE DEF a, b
<1>2. d = n * c + b
  <2>1. n * (k + a) = n * k + n * a
    BY <1>1
  <2>2. n * k \in Int /\ n * a \in Int
    BY <1>1
  <2> QED BY <1>1, <2>1, <2>2
<1>3. c \in Int /\ d \in Int
  BY <1>1
<1> HIDE DEF c, d
<1>4. d \div n = c /\ d % n = b
  BY <1>0, <1>1, <1>2, <1>3, DivisionUnique
<1> QED BY <1>4 DEF a, b, c, d

(* The two words sm3_finish makes of the counters.                          *)
LEMMA LengthWords ==
    ASSUME NEW A \in Nat
    PROVE  /\ ((A % W) * ByteBits) % W = (A * ByteBits) % W
           /\ (((A % W) * ByteBits) \div W + ((A \div W) % W) * ByteBits) % W
                 = ((A * ByteBits) \div W) % W
           /\ (A * ByteBits) \div W \in Nat /\ A * ByteBits \in Nat
<1> DEFINE V == W
           B == ByteBits
           q == A \div V
           r == A % V
           e == r * B
           x == e \div V
           y == e % V
           p == q \div V
           s == q % V
           f == x + s * B
           k == q * B
           j == p * B
<1>1. V \in Nat \ {0} /\ V \in Nat /\ V > 0 /\ B \in Nat
  BY Sm3Assumption
<1> HIDE DEF V, B
<1>2. q \in Nat /\ A = V * q + r /\ r \in Nat
  BY <1>1, DivisionNat
<1> HIDE DEF q, r
<1>3. e \in Nat /\ k \in Nat
  BY <1>1, <1>2
<1>4. A * B = V * k + e
  BY <1>1, <1>2
<1> HIDE DEF e, k
<1>5. (A * B) % V = e % V /\ (A * B) \div V = k + e \div V
  BY <1>1, <1>3, <1>4, ModShift
<1>6. e \div V \in Nat
  BY <1>1, <1>3, DivisionNat
<1>7. p \in Nat /\ q = V * p + s /\ s \in Nat
  BY <1>1, <1>2, DivisionNat
<1> HIDE DEF p, s, x
<1>8. f \in Nat /\ j \in Nat
  <2>1. s * B \in Nat /\ p * B \in Nat
    BY <1>1, <1>7
  <2> QED BY <1>6, <2>1 DEF x
<1>9. k + x = V * j + f
  <2>1. k = V * j + s * B
    BY <1>1, <1>7 DEF k
  <2>2. V * j \in Int /\ s * B \in Int /\ x \in Int
    BY <1>1, <1>6, <1>7, <1>8 DEF x
  <2> HIDE DEF j
  <2> QED BY <2>1, <2>2
<1> HIDE DEF f, j
<1>10. (k + x) % V = f % V
  <2>1. (V * j + f) % V = f % V
    BY <1>1, <1>8, ModShift
  <2> QED BY <1>9, <2>1, Zenon
<1>11. k + x \in Nat /\ A * B \in Nat
  BY <1>1, <1>3, <1>6 DEF x
<1> QED BY <1>5, <1>10, <1>11 DEF V, B, q, r, e, x, s, f

(* The radix is a positive number.                                          *)
LEMMA RadixIs == Radix \in Nat \ {0} /\ WordLen \in Nat
<1>1. ByteBits \in Nat /\ 2 \in Nat \ {0} /\ WordLen \in Nat
  BY Sm3Assumption
<1> QED BY <1>1, PowerOf DEF Radix

(* A word counts with as many digits as it has bytes.                       *)
LEMMA WordIs ==
    ASSUME NEW i \in 1..WordLen
    PROVE  /\ Power(Radix, WordLen - i) \in Nat \ {0}
           /\ \E q \in Nat \ {0} : W = Power(Radix, WordLen - i) * (Radix * q)
           /\ W * Power(Radix, WordLen - i) = Power(Radix, 2 * WordLen - i)
<1> DEFINE l == WordLen - i
           h == i - 1
<1>1. l \in Nat /\ h \in Nat /\ i = h + 1 /\ i \in Nat /\ WordLen = l + i
      /\ WordLen + l = 2 * WordLen - i
  BY RadixIs
<1> HIDE DEF l, h
<1>2. Power(Radix, l) \in Nat \ {0} /\ Power(Radix, h) \in Nat \ {0}
  BY <1>1, RadixIs, PowerOf
<1>3. Power(Radix, i) = Radix * Power(Radix, h)
  BY <1>1, RadixIs, PowerOf
<1>4. Power(Radix, l + i) = Power(Radix, l) * Power(Radix, i)
  BY <1>1, RadixIs, PowerSum
<1>5. W = Power(Radix, l) * (Radix * Power(Radix, h))
  BY <1>1, <1>3, <1>4 DEF W
<1>6. Power(Radix, WordLen + l) = W * Power(Radix, l)
  BY <1>1, RadixIs, PowerSum DEF W
<1> QED BY <1>1, <1>2, <1>5, <1>6 DEF l

(* The length field of the counters is the number of bits, as two words     *)
(* hold it, the highest byte first.                                         *)
LEMMA LengthIs ==
    ASSUME NEW A \in Nat
    PROVE  LengthField(<<A % W, (A \div W) % W>>) = LengthBytes(A)
<1> DEFINE N == A * ByteBits
           hi == (((A % W) * ByteBits) \div W + ((A \div W) % W) * ByteBits) % W
           lo == ((A % W) * ByteBits) % W
           M == N \div W
<1>1. lo = N % W /\ hi = M % W /\ M \in Nat /\ N \in Nat
  BY LengthWords
<1>2. LengthField(<<A % W, (A \div W) % W>>) = Put(hi) \o Put(lo)
  BY DEF LengthField
<1> HIDE DEF hi, lo
<1>3. WordLen \in Nat /\ W \in Nat \ {0} /\ Radix \in Nat \ {0}
  BY RadixIs, Sm3Assumption
<1>4. ASSUME NEW word PROVE IsSeq(Put(word)) /\ Len(Put(word)) = WordLen
  <2>1. Put(word) = [i \in 1..WordLen |-> Put(word)[i]]
    BY DEF Put
  <2> QED BY <1>3, <2>1, FunctionIsSeq
<1> DEFINE all == [i \in 1..2 * WordLen |->
                      IF i <= WordLen THEN Put(hi)[i] ELSE Put(lo)[i - WordLen]]
<1>5. Put(hi) \o Put(lo) = all
  <2>1. Len(Put(hi)) = WordLen /\ Len(Put(lo)) = WordLen /\ WordLen + WordLen = 2 * WordLen
    BY <1>3, <1>4
  <2>2. Put(hi) \o Put(lo) = [i \in 1..Len(Put(hi)) + Len(Put(lo)) |->
            IF i <= Len(Put(hi)) THEN Put(hi)[i] ELSE Put(lo)[i - Len(Put(hi))]]
    BY <1>4, CatIs
  <2> QED BY <2>1, <2>2
<1>6. ASSUME NEW i \in 1..WordLen
      PROVE  Put(hi)[i] = Number((N \div Power(Radix, 2 * WordLen - i)) % Radix)
  <2> DEFINE p == Power(Radix, WordLen - i)
  <2>1. Put(hi)[i] = Number((hi \div p) % Radix)
    BY DEF Put
  <2>2. p \in Nat \ {0} /\ W * p = Power(Radix, 2 * WordLen - i)
    BY WordIs
  <2>3. PICK q \in Nat \ {0} : W = p * (Radix * q)
    BY WordIs
  <2> HIDE DEF p, M
  <2>4. ((M % W) \div p) % Radix = (M \div p) % Radix
    <3>1. M \in Nat /\ p \in Nat \ {0} /\ Radix \in Nat \ {0} /\ q \in Nat \ {0}
      BY <1>1, <1>3, <2>2
    <3>2. DigitKept(M, p, Radix, q)
      BY <3>1, DigitOfRest
    <3> QED BY <2>3, <3>2, Zenon DEF DigitKept
  <2>5. (N \div W) \div p = N \div (W * p)
    BY <1>1, <1>3, <2>2, DivDiv
  <2> QED BY <1>1, <2>1, <2>2, <2>4, <2>5 DEF M
<1>7. ASSUME NEW i \in 1..WordLen
      PROVE  Put(lo)[i] = Number((N \div Power(Radix, 2 * WordLen - (WordLen + i))) % Radix)
  <2> DEFINE p == Power(Radix, WordLen - i)
  <2>1. Put(lo)[i] = Number((lo \div p) % Radix)
    BY DEF Put
  <2>2. p \in Nat \ {0}
    BY WordIs
  <2>3. PICK q \in Nat \ {0} : W = p * (Radix * q)
    BY WordIs
  <2>4. 2 * WordLen - (WordLen + i) = WordLen - i
    BY <1>3
  <2> HIDE DEF p, N
  <2>5. ((N % W) \div p) % Radix = (N \div p) % Radix
    <3>1. N \in Nat /\ p \in Nat \ {0} /\ Radix \in Nat \ {0} /\ q \in Nat \ {0}
      BY <1>1, <1>3, <2>2
    <3>2. DigitKept(N, p, Radix, q)
      BY <3>1, DigitOfRest
    <3> QED BY <2>3, <3>2, Zenon DEF DigitKept
  <2> QED BY <1>1, <2>1, <2>4, <2>5 DEF p
<1> HIDE DEF N
<1>8. ASSUME NEW i \in 1..2 * WordLen
      PROVE  all[i] = Number((N \div Power(Radix, 2 * WordLen - i)) % Radix)
  <2>1. CASE i <= WordLen
    <3>1. i \in 1..WordLen
      BY <1>3, <2>1
    <3> QED BY <1>6, <2>1, <3>1
  <2>2. CASE ~ (i <= WordLen)
    <3>1. i - WordLen \in 1..WordLen /\ WordLen + (i - WordLen) = i
      BY <1>3, <2>2
    <3>2. all[i] = Put(lo)[i - WordLen]
      BY <2>2
    <3> QED BY <1>7, <3>1, <3>2
  <2> QED BY <2>1, <2>2
<1>9. all = [i \in 1..2 * WordLen |-> all[i]]
  OBVIOUS
<1> HIDE DEF all
<1>10. all = LengthBytes(A)
  BY <1>8, <1>9 DEF LengthBytes, N
<1> QED BY <1>2, <1>5, <1>10

-----------------------------------------------------------------------------
(* A finished context holds the padded message.                             *)

(* There is one number of zeros that fills the last block, and sm3_finish   *)
(* finds it.                                                                *)
FillsBlock(z, A) == z \in 0..BlockLen - 1 /\ (A + 1 + z + 2 * WordLen) % BlockLen = 0

(* The number of zeros that fills the block is the one PadLen leaves room   *)
(* for.                                                                     *)
LEMMA ZerosAre ==
    ASSUME NEW A \in Nat
    PROVE  (CHOOSE z \in 0..BlockLen - 1 : (A + 1 + z + 2 * WordLen) % BlockLen = 0)
              = PadLen(A % BlockLen) - 1
<1> DEFINE n == BlockLen
           k == A \div n
           last == A % n
           p == PadLen(last)
           l == 2 * WordLen
<1>1. n \in Nat /\ n > 0 /\ l \in Nat
    BY Sm3Assumption
<1>2. k \in Nat /\ A = n * k + last /\ last \in 0..(n - 1)
    BY <1>1, DivisionNat
<1>3. p \in 1..n /\ last + p + l \in {n, 2 * n}
    BY <1>2, PaddingFills
<1> HIDE DEF k, last, p, l, n
<1>4. PICK m \in Nat : A + p + l = n * m
    <2>1. CASE last + p + l = n
        <3>1. A + p + l = n * k + n /\ n * (k + 1) = n * k + n
            BY <1>1, <1>2, <1>3, <2>1
        <3> QED BY <1>2, <3>1
    <2>2. CASE last + p + l = 2 * n
        <3>1. A + p + l = n * k + 2 * n /\ n * (k + 2) = n * k + 2 * n
            BY <1>1, <1>2, <1>3, <2>2
        <3> QED BY <1>2, <3>1
    <2> QED BY <1>3, <2>1, <2>2
<1>5. p - 1 \in 0..n - 1 /\ (A + 1 + (p - 1) + l) % n = 0
    <2>1. A + 1 + (p - 1) + l = n * m + 0 /\ A + 1 + (p - 1) + l \in Int /\ 0 \in 0..(n - 1)
        BY <1>1, <1>3, <1>4
    <2>2. (A + 1 + (p - 1) + l) % n = 0
        BY <1>1, <1>4, <2>1, DivisionUnique
    <2> QED BY <1>1, <1>3, <2>2
<1>6. ASSUME NEW z \in 0..n - 1, (A + 1 + z + l) % n = 0
      PROVE  z = p - 1
    <2> DEFINE a == A + 1 + z + l
               j == a \div n
    <2>1. a \in Int
        BY <1>1
    <2>2. j \in Int /\ a = n * j + 0
        <3> HIDE DEF a
        <3>1. j \in Int /\ a = n * j + (a % n)
            BY <1>1, <2>1, Division
        <3>2. a % n = 0
            BY <1>6 DEF a
        <3>3. n * j \in Int
            BY <1>1, <3>1
        <3> QED BY <3>1, <3>2, <3>3
    <2> HIDE DEF j
    <2>3. z + 1 - p = n * (j - m)
        <3>1. n * (j - m) = n * j - n * m
            BY <1>1, <1>4, <2>2
        <3>2. n * j \in Int /\ n * m \in Int
            BY <1>1, <1>4, <2>2
        <3> QED BY <1>1, <1>3, <1>4, <2>2, <3>1, <3>2
    <2>4. z + 1 - p < n /\ z + 1 - p > -n /\ z \in Int
        BY <1>1, <1>3
    <2>5. j - m >= 1 => n * (j - m) >= n
        BY <1>1, <1>4, <2>2
    <2>6. j - m <= -1 => n * (j - m) <= -n
        BY <1>1, <1>4, <2>2
    <2>7. j - m = 0 => n * (j - m) = 0
        BY <1>1
    <2>8. j - m \in Int
        BY <1>4, <2>2
    <2> DEFINE d == n * (j - m)
    <2>9. d \in Int
        BY <1>1, <2>8
    <2> HIDE DEF d
    <2>10. j - m = 0
        BY <1>1, <2>3, <2>4, <2>5, <2>6, <2>8, <2>9 DEF d
    <2>11. z + 1 - p = 0
        BY <2>3, <2>7, <2>10 DEF d
    <2> QED BY <1>1, <1>3, <2>4, <2>11
<1>7. \A z : FillsBlock(z, A) <=> z = p - 1
    BY <1>5, <1>6 DEF FillsBlock, n, l
<1>8. (CHOOSE z : FillsBlock(z, A)) = p - 1
    BY <1>7
<1>9. (CHOOSE z \in 0..BlockLen - 1 : (A + 1 + z + 2 * WordLen) % BlockLen = 0) = p - 1
    BY <1>5, <1>6 DEF n, l
<1> QED BY <1>9 DEF p, last, n

(* The bit and the zeros are the padding.                                   *)
LEMMA PaddingIs ==
    ASSUME NEW p \in Nat \ {0}
    PROVE  <<Number(Radix \div 2)>> \o [i \in 1..p - 1 |-> Number(0)] = Padding(p)
<1> DEFINE b == <<Number(Radix \div 2)>>
           zs == [i \in 1..p - 1 |-> Number(0)]
<1>1. p - 1 \in Nat
    OBVIOUS
<1>2. IsSeq(b) /\ Len(b) = 1 /\ b[1] = Number(Radix \div 2)
    <2>1. b \in Seq({Number(Radix \div 2)})
        OBVIOUS
    <2> QED BY <2>1 DEF IsSeq
<1>3. IsSeq(zs) /\ Len(zs) = p - 1 /\ \A i \in 1..p - 1 : zs[i] = Number(0)
    <2>1. zs = [i \in 1..p - 1 |-> zs[i]]
        OBVIOUS
    <2> HIDE DEF zs
    <2>2. IsSeq(zs) /\ Len(zs) = p - 1
        BY <1>1, <2>1, FunctionIsSeq
    <2> QED BY <2>2 DEF zs
<1> HIDE DEF b, zs
<1>4. b \o zs = [i \in 1..Len(b) + Len(zs) |-> IF i <= Len(b) THEN b[i] ELSE zs[i - Len(b)]]
    BY <1>2, <1>3, CatIs
<1>5. Len(b) + Len(zs) = p
    BY <1>2, <1>3
<1>6. b \o zs = [i \in 1..p |-> IF i <= 1 THEN b[i] ELSE zs[i - 1]]
    BY <1>2, <1>4, <1>5
<1>7. ASSUME NEW i \in 1..p
      PROVE  (IF i <= 1 THEN b[i] ELSE zs[i - 1]) = (IF i = 1 THEN Number(Radix \div 2) ELSE Number(0))
    <2>1. CASE i = 1
        BY <1>2, <2>1
    <2>2. CASE i # 1
        <3>1. i - 1 \in 1..p - 1 /\ ~ (i <= 1)
            BY <2>2
        <3> QED BY <1>3, <2>2, <3>1
    <2> QED BY <2>1, <2>2
<1> QED BY <1>6, <1>7 DEF Padding, b, zs

(* sm3_finish yields the hash of all that was fed, padded as the standard   *)
(* says.                                                                    *)
LEMMA FinishedHolds ==
    ASSUME NEW c, CtxOK(c), NEW all, IsSeq(all), Holds(c, all)
    PROVE  Digest(Finished(c)) = Hash(all)
<1> DEFINE A == Len(all)
           last == A % BlockLen
           p == PadLen(last)
           pad == Padding(p)
           length == LengthField(c.total)
           d == Updated(c, pad)
<1>1. A \in Nat
    BY DEF IsSeq
<1>2. /\ c.total = <<A % W, (A \div W) % W>>
    BY DEF Holds
<1>3. /\ BlockLen \in Nat /\ BlockLen > 0 /\ BlockLen < W /\ WordLen \in Nat
      /\ 2 * WordLen < BlockLen /\ W \in Nat
    BY Sm3Assumption
<1>4. Left(c) = last
    <2>1. c.total[1] = A % W
        BY <1>2
    <2> QED BY <1>1, <2>1, LeftOf DEF Left
<1>5. p \in 1..BlockLen
    <2>1. last \in 0..(BlockLen - 1)
        BY <1>1, <1>3, DivisionNat
    <2> HIDE DEF last
    <2> QED BY <2>1, PaddingFills
<1>6. length = LengthBytes(A)
    BY <1>1, <1>2, LengthIs
<1>7. IsSeq(length) /\ Len(length) = 2 * WordLen
    <2>1. LengthBytes(A) = [i \in 1..2 * WordLen |-> LengthBytes(A)[i]]
        BY DEF LengthBytes
    <2>2. 2 * WordLen \in Nat
        BY <1>3
    <2> QED BY <1>6, <2>1, <2>2, FunctionIsSeq
<1> HIDE DEF A, last, p, length
<1>8. IsSeq(pad) /\ Len(pad) = p
    <2>1. pad = [i \in 1..p |-> pad[i]]
        BY DEF Padding
    <2>2. p \in Nat
        BY <1>3, <1>5
    <2> HIDE DEF pad
    <2> QED BY <2>1, <2>2, FunctionIsSeq
<1> HIDE DEF pad
<1>9. CtxOK(d) /\ Holds(d, all \o pad)
    <2>1. Len(pad) < W
        BY <1>3, <1>5, <1>8
    <2> QED BY <1>8, <2>1, UpdatedOK, UpdateHolds
<1> HIDE DEF d
<1>10. IsSeq(all \o pad)
    BY <1>8, CatIs
<1>11. Holds(Updated(d, length), (all \o pad) \o length)
    <2>1. Len(length) < W
        BY <1>3, <1>7
    <2> QED BY <1>7, <1>9, <1>10, <2>1, UpdateHolds
<1>12. Finished(c) = Updated(d, length)
    BY <1>4 DEF Finished, d, pad, p, length
<1>13. Padded(all) = (all \o pad) \o length
    <2> DEFINE zeros == CHOOSE z \in 0..BlockLen - 1 :
                            (Len(all) + 1 + z + 2 * WordLen) % BlockLen = 0
               b == <<Number(Radix \div 2)>>
               zs == [i \in 1..zeros |-> Number(0)]
    <2>1. Padded(all) = ((all \o b) \o zs) \o LengthBytes(Len(all))
        BY DEF Padded
    <2>2. zeros = p - 1
        BY <1>1, ZerosAre DEF A, p, last
    <2>3. b \o zs = pad
        <3>1. p \in Nat \ {0}
            BY <1>3, <1>5
        <3> HIDE DEF zeros
        <3>2. b \o [i \in 1..p - 1 |-> Number(0)] = Padding(p)
            BY <3>1, PaddingIs
        <3> QED BY <2>2, <3>2 DEF pad
    <2>4. IsSeq(b)
        <3>1. b \in Seq({Number(Radix \div 2)})
            OBVIOUS
        <3> QED BY <3>1 DEF IsSeq
    <2>5. IsSeq(zs)
        <3> HIDE DEF zeros
        <3>1. zs = [i \in 1..zeros |-> zs[i]]
            OBVIOUS
        <3> HIDE DEF zs
        <3>2. zeros \in Nat
            BY <1>3, <1>5, <2>2
        <3> QED BY <3>1, <3>2, FunctionIsSeq
    <2> HIDE DEF zs, b
    <2>6. (all \o b) \o zs = all \o (b \o zs)
        BY <2>4, <2>5, CatCat
    <2> QED BY <1>6, <2>1, <2>3, <2>6 DEF A
<1>14. Finished(c).state = Cut(Padded(all))
    BY <1>11, <1>12, <1>13 DEF Holds
<1> QED BY <1>14 DEF Digest, Hash

(* sm3 of a whole buffer is its digest.                                     *)
LEMMA DigestOfIs ==
    ASSUME NEW bytes, IsSeq(bytes), Len(bytes) < W
    PROVE  DigestOf(bytes) = Hash(bytes)
<1> DEFINE c == [total |-> <<0, 0>>, state |-> <<>>, buffer |-> [i \in 1..BlockLen |-> Number(0)],
                 ipad |-> <<>>, opad |-> <<>>]
<1>1. W \in Nat /\ W > 0 /\ BlockLen \in Nat
    BY Sm3Assumption
<1>2. IsSeq(Zeros) /\ Len(Zeros) = BlockLen
    <2>1. Zeros = [i \in 1..BlockLen |-> Zeros[i]]
        BY DEF Zeros
    <2> QED BY <1>1, <2>1, FunctionIsSeq
<1>3. IsSeq(<<>>) /\ Whole(<<>>)
    <2>1. <<>> \in Seq({}) /\ Len(<<>>) = 0
        OBVIOUS
    <2> QED BY <2>1 DEF IsSeq, Whole
<1>4. <<0, 0>> \in [1..2 -> 0..(W - 1)]
    BY <1>1
<1>5. /\ DOMAIN c = {"total", "state", "buffer", "ipad", "opad"}
      /\ c.total = <<0, 0>> /\ c.state = <<>> /\ c.buffer = Zeros /\ c.opad = <<>>
    BY DEF Zeros
<1>6. DigestOf(bytes) = Digest(Finished(Updated(c, bytes)))
    BY DEF DigestOf
<1> HIDE DEF c
<1>7. /\ Started(c).total = c.total /\ Started(c).state = c.state
      /\ Started(c).buffer = c.buffer
    BY <1>5 DEF Started
<1>8. CtxOK(c)
    BY <1>2, <1>3, <1>4, <1>5 DEF CtxOK
<1>9. Holds(c, <<>>)
    <2>1. Holds(Started(c), <<>>)
        BY <1>8, StartedHolds
    <2> QED BY <1>7, <2>1 DEF Holds
<1>10. CtxOK(Updated(c, bytes)) /\ Holds(Updated(c, bytes), <<>> \o bytes)
    BY <1>3, <1>8, <1>9, UpdatedOK, UpdateHolds
<1>11. <<>> \o bytes = bytes
    BY CatEmpty
<1> QED BY <1>6, <1>10, <1>11, FinishedHolds

-----------------------------------------------------------------------------
(* The keyed digest.                                                        *)

(* The key as the pads are made from it.                                    *)
Short(k) == IF Len(k) > BlockLen THEN Hash(k) ELSE k

(* It is what sm3_hmac_starts takes.                                        *)
LEMMA ShortIs ==
    ASSUME NEW k, IsSeq(k), Len(k) < W
    PROVE  ShortKey(k) = Short(k)
BY DigestOfIs DEF ShortKey, Short

(* A padded key fills one block.                                            *)
LEMMA PadLength ==
    ASSUME NEW k, NEW mask
    PROVE  IsSeq(Pad(k, mask)) /\ Len(Pad(k, mask)) = BlockLen
<1>1. Pad(k, mask) = [i \in 1..BlockLen |-> Pad(k, mask)[i]]
    BY DEF Pad
<1>2. BlockLen \in Nat
    BY Sm3Assumption
<1> QED BY <1>1, <1>2, FunctionIsSeq

(* So does a digest, DigestLen bytes.                                       *)
LEMMA DigestLength ==
    ASSUME NEW c
    PROVE  IsSeq(Digest(c)) /\ Len(Digest(c)) = DigestLen
<1>1. Digest(c) = [i \in 1..DigestLen |-> Digest(c)[i]]
    BY DEF Digest
<1>2. DigestLen \in Nat
    BY Sm3Assumption
<1> QED BY <1>1, <1>2, FunctionIsSeq

(* sm3_hmac_starts makes both pads from the key it is given.                *)
LEMMA HmacPads ==
    ASSUME NEW c, CtxOK(c), NEW k, IsSeq(k), Len(k) < W
    PROVE  /\ HmacStarted(c, k).ipad = Pad(Short(k), "36")
           /\ HmacStarted(c, k).opad = Pad(Short(k), "5C")
<1> DEFINE i == Pad(Short(k), "36")
           o == Pad(Short(k), "5C")
           pads == [c EXCEPT !.ipad = i, !.opad = o]
<1>1. IsSeq(i) /\ IsSeq(o)
    BY PadLength
<1>2. ShortKey(k) = Short(k)
    BY ShortIs
<1>3. DOMAIN c = {"total", "state", "buffer", "ipad", "opad"}
    BY DEF CtxOK
<1> HIDE DEF i, o
<1>4. /\ DOMAIN pads = DOMAIN c /\ pads.total = c.total /\ pads.state = c.state
      /\ pads.buffer = c.buffer /\ pads.opad = o /\ pads.ipad = i
    BY <1>3
<1>5. HmacStarted(c, k) = Updated(Started(pads), i)
    <2>1. HmacStarted(c, k) = Updated(Started(pads), pads.ipad)
        BY <1>2 DEF HmacStarted, i, o
    <2> QED BY <1>4, <2>1
<1> HIDE DEF pads
<1>6. CtxOK(pads)
    BY <1>1, <1>3, <1>4 DEF CtxOK
<1> DEFINE s == Started(pads)
<1>7. CtxOK(s) /\ s.opad = o /\ s.ipad = i
    BY <1>4, <1>6, StartedOK, StartedHolds
<1> HIDE DEF s
<1>8. Updated(s, i).ipad = i /\ Updated(s, i).opad = o
    BY <1>1, <1>7, UpdatedOK, UpdatedPad
<1> QED BY <1>5, <1>8 DEF s, i, o

(* sm3_hmac_finish returns the digest of the outer pad and of the digest of *)
(* what the context holds, whatever the pads are.                           *)
LEMMA HmacFinishedHolds ==
    ASSUME NEW c, CtxOK(c), Len(c.opad) < W, NEW all, IsSeq(all), Holds(c, all)
    PROVE  Digest(HmacFinished(c)) = Hash(c.opad \o Hash(all))
<1> DEFINE inner == Finished(c)
           o == c.opad
           s == Started(inner)
           d == Updated(s, o)
           e == Updated(d, Hash(all))
<1>1. CtxOK(inner) /\ inner.opad = o /\ Digest(inner) = Hash(all)
    BY FinishedOK, FinishedHolds
<1>2. IsSeq(o) /\ Len(o) < W
    BY DEF CtxOK
<1>3. IsSeq(Hash(all)) /\ Len(Hash(all)) < W
    <2>1. DigestLen < W
        <3>1. W \in Nat /\ DigestLen \in 0..W - 1
            BY Sm3Assumption
        <3> HIDE DEF W
        <3> QED BY <3>1
    <2> QED BY <1>1, <2>1, DigestLength
<1>4. HmacFinished(c) = Finished(e)
    BY <1>1 DEF HmacFinished
<1> HIDE DEF inner, o
<1>5. CtxOK(s) /\ Holds(s, <<>>)
    BY <1>1, StartedOK, StartedHolds
<1> HIDE DEF s
<1>6. IsSeq(<<>>)
    <2>1. <<>> \in Seq({})
        OBVIOUS
    <2> QED BY <2>1 DEF IsSeq
<1>7. CtxOK(d) /\ Holds(d, o)
    <2>1. CtxOK(d) /\ Holds(d, <<>> \o o)
        BY <1>2, <1>5, <1>6, UpdatedOK, UpdateHolds
    <2>2. <<>> \o o = o
        BY <1>2, CatEmpty
    <2> QED BY <2>1, <2>2
<1> HIDE DEF d
<1>8. CtxOK(e) /\ Holds(e, o \o Hash(all))
    BY <1>2, <1>3, <1>7, UpdatedOK, UpdateHolds
<1> HIDE DEF e
<1>9. IsSeq(o \o Hash(all))
    BY <1>2, <1>3, CatIs
<1> QED BY <1>4, <1>8, <1>9, FinishedHolds DEF o

-----------------------------------------------------------------------------
(* The digest returned is that of the message.                              *)

(* While a keyed digest is open its pads are those of its key; sm3_file is  *)
(* never keyed.                                                             *)
DigestInv ==
    /\ AbsorbedInv
    /\ pc \in {"open", "file"} /\ key # Nil =>
        /\ ctx.ipad = Pad(Short(KeyOf(key)), "36")
        /\ ctx.opad = Pad(Short(KeyOf(key)), "5C")
    /\ pc = "file" => key = Nil
    /\ DigestOfMessage

(* A key is a sequence whose length a word can count.                       *)
LEMMA KeyIsSeq ==
    ASSUME NEW n \in KeyLens
    PROVE  IsSeq(KeyOf(n)) /\ Len(KeyOf(n)) < W
<1>1. n \in Nat /\ n < W
    BY Sm3Assumption
<1>2. KeyOf(n) = [i \in 1..n |-> KeyOf(n)[i]]
    BY DEF KeyOf
<1>3. IsSeq(KeyOf(n)) /\ Len(KeyOf(n)) = n
    BY <1>1, <1>2, FunctionIsSeq
<1> QED BY <1>1, <1>3

(* What sm3_finish and FileEnd return.                                      *)
LEMMA PlainDigest ==
    ASSUME AbsorbedInv, pc \in {"open", "file"}, key = Nil
    PROVE  Digest(Finished(ctx)) = Hash(Data(0, len))
<1>1. CtxOK(ctx) /\ len \in Nat /\ Holds(ctx, Passed)
    BY Sm3Assumption DEF AbsorbedInv, ContextInv
<1>2. IsSeq(Data(0, len))
    BY <1>1, DataIsSeq
<1>3. Passed = Data(0, len)
    BY <1>2, CatEmpty DEF Passed
<1> QED BY <1>1, <1>2, <1>3, FinishedHolds

(* What sm3_hmac_finish returns.                                            *)
LEMMA KeyedDigest ==
    ASSUME DigestInv, pc \in {"open", "file"}, key # Nil
    PROVE  Digest(HmacFinished(ctx)) = Hmac(KeyOf(key), Data(0, len))
<1> DEFINE i == Pad(Short(KeyOf(key)), "36")
           o == Pad(Short(KeyOf(key)), "5C")
<1>1. CtxOK(ctx) /\ len \in Nat /\ Holds(ctx, Passed)
    BY Sm3Assumption DEF DigestInv, AbsorbedInv, ContextInv
<1>2. ctx.ipad = i /\ ctx.opad = o
    BY DEF DigestInv
<1>3. IsSeq(i) /\ Len(o) < W
    BY PadLength, Sm3Assumption
<1>4. IsSeq(Passed) /\ Passed = i \o Data(0, len)
    BY <1>1, <1>2, <1>3, PassedIsSeq DEF Passed
<1>5. Digest(HmacFinished(ctx)) = Hash(o \o Hash(i \o Data(0, len)))
    BY <1>1, <1>2, <1>3, <1>4, HmacFinishedHolds
<1> QED BY <1>5 DEF Hmac, Short

(* Nothing has been returned before the first call.                         *)
LEMMA DigestInit == Init => DigestInv
BY AbsorbedInit DEF Init, DigestInv, DigestOfMessage

(* Every call keeps it.                                                     *)
LEMMA DigestStep == DigestInv /\ [Next]_vars => DigestInv'
<1> SUFFICES ASSUME DigestInv, [Next]_vars PROVE DigestInv'
    OBVIOUS
<1>1. AbsorbedInv'
    BY AbsorbedStep DEF DigestInv
<1>2. CtxOK(ctx) /\ len \in Nat
    BY Sm3Assumption DEF DigestInv, AbsorbedInv, ContextInv
<1>3. CASE sm3_starts \/ FileOpen
    <2>1. key' = Nil /\ out' = Nil
        BY <1>3 DEF sm3_starts, FileOpen
    <2> QED BY <1>1, <2>1 DEF DigestInv, DigestOfMessage
<1>4. ASSUME NEW n \in KeyLens, sm3_hmac_starts(n) PROVE DigestInv'
    <2>1. ctx' = HmacStarted(ctx, KeyOf(n)) /\ key' = n /\ pc' = "open" /\ out' = Nil
        BY <1>4 DEF sm3_hmac_starts
    <2>2. /\ ctx'.ipad = Pad(Short(KeyOf(n)), "36")
          /\ ctx'.opad = Pad(Short(KeyOf(n)), "5C")
        BY <1>2, <2>1, KeyIsSeq, HmacPads
    <2> QED BY <1>1, <2>1, <2>2 DEF DigestInv, DigestOfMessage
<1>5. ASSUME NEW n \in Nat, sm3_update(n) \/ FileRead(n) PROVE DigestInv'
    <2>1. /\ pc \in {"open", "file"} /\ ctx' = Updated(ctx, Data(len, n))
          /\ pc' = pc /\ key' = key /\ out' = out
        BY <1>5 DEF sm3_update, FileRead
    <2>2. ctx'.ipad = ctx.ipad /\ ctx'.opad = ctx.opad
        <3>1. IsSeq(Data(len, n))
            BY <1>2, DataIsSeq
        <3> QED BY <1>2, <2>1, <3>1, UpdatedOK, UpdatedPad
    <2>3. DigestOfMessage'
        BY <2>1 DEF DigestInv, DigestOfMessage
    <2> QED BY <1>1, <2>1, <2>2, <2>3 DEF DigestInv
<1>6. CASE sm3_finish \/ FileEnd
    <2>1. /\ pc \in {"open", "file"} /\ key = Nil /\ pc' = "idle"
          /\ out' = [key |-> key, len |-> len, digest |-> Digest(Finished(ctx))]
        BY <1>6 DEF sm3_finish, FileEnd, Returned, DigestInv
    <2>2. Digest(Finished(ctx)) = Hash(Data(0, len))
        BY <2>1, PlainDigest DEF DigestInv
    <2>3. DigestOfMessage'
        BY <2>1, <2>2 DEF DigestOfMessage
    <2> QED BY <1>1, <2>1, <2>3 DEF DigestInv
<1>7. CASE sm3_hmac_finish
    <2>1. /\ pc \in {"open", "file"} /\ key # Nil /\ pc' = "idle"
          /\ out' = [key |-> key, len |-> len, digest |-> Digest(HmacFinished(ctx))]
        BY <1>7 DEF sm3_hmac_finish, Returned
    <2>2. Digest(HmacFinished(ctx)) = Hmac(KeyOf(key), Data(0, len))
        BY <2>1, KeyedDigest
    <2>3. DigestOfMessage'
        BY <2>1, <2>2 DEF DigestOfMessage
    <2> QED BY <1>1, <2>1, <2>3 DEF DigestInv
<1>8. CASE UNCHANGED vars
    BY <1>1, <1>8 DEF vars, DigestInv, DigestOfMessage
<1>9. \A n \in Pieces \cup {FileBuf} : n \in Nat
    BY Sm3Assumption
<1> QED BY <1>3, <1>4, <1>5, <1>6, <1>7, <1>8, <1>9 DEF Next

(* The digest returned, by sm3_finish, by sm3_file or with a key by         *)
(* sm3_hmac_finish, is the digest of the message: the message padded and    *)
(* cut, whatever pieces it came in and whatever earlier messages left in    *)
(* the context.  Sizes, pieces and keys are any.                            *)
THEOREM DigestOfMessageHolds == Spec => []DigestOfMessage
<1>1. DigestInv => DigestOfMessage
    BY DEF DigestInv
<1> QED BY <1>1, DigestInit, DigestStep, PTL DEF Spec
=============================================================================
