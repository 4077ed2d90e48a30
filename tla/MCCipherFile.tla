---------------------------- MODULE MCCipherFile ----------------------------
(***************************************************************************)
(* Instances of CipherFile for TLC: plain files by their lengths, two keys *)
(* of sixteen letters and digits.                                          *)
(***************************************************************************)
EXTENDS CipherFileInv, SequencesExt

NoConnection == {-3}

(* No two blocks of it are equal.                                           *)
PlainOf(n) == [i \in 1..n |-> (i * 37 + i \div 16) % 256]

(* Nothing, less than a block, a block, a buffer, one more; the largest     *)
(* int less the header, the largest int and what follows it; a length that  *)
(* is cut to four.                                                          *)
AllPlains == {PlainOf(n) : n \in {0, 9, 16, 32, 33, 63, 83, 127, 128, 260}}
ShortPlains == {PlainOf(n) : n \in {9, 17}}

(* "0123456789ABCdef" and "ZzYyXx0918273645".                               *)
TwoKeys == {
    <<48, 49, 50, 51, 52, 53, 54, 55, 56, 57, 65, 66, 67, 100, 101, 102>>,
    <<90, 122, 89, 121, 88, 120, 48, 57, 49, 56, 50, 55, 51, 54, 52, 53>>}

(* The vector of the standard: the block encrypted under itself.            *)
Vector == <<1, 35, 69, 103, 137, 171, 205, 239, 254, 220, 186, 152, 118, 84, 50, 16>>
VectorOut == <<104, 30, 223, 52, 210, 6, 150, 94, 134, 179, 233, 79, 83, 110, 66, 70>>

EncryptsVector ==
    LET rk == sm4_setkey(Vector)
        x0 == [n \in 1..4 |-> Get(Vector, 4 * (n - 1))]
        next(x, k) ==
            LET n == Len(x) IN Append(x, sm4F(x[n - 3], x[n - 2], x[n - 1], x[n], k))
        x == FoldLeft(next, x0, rk)
    IN  OutputOf(x) = VectorOut

ASSUME StandardVector == EncryptsVector
=============================================================================
