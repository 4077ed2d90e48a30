----------------------------- MODULE KmRestore -----------------------------
(***************************************************************************)
(* What KM_SERV (KM.cpp) puts into a row of table `service' and what it    *)
(* gets back out of it, character by character where that matters: the     *)
(* key, sixteen letters and digits, and the deadline, a number written out *)
(* in decimal.  Everything here is a function; CipherFile calls it.        *)
(*                                                                         *)
(* A digest is modelled by what it digests.                                *)
(***************************************************************************)
EXTENDS Integers, Sequences

CONSTANTS
    IntMax,     \* the largest int (2^31 - 1)
    Nil         \* no row, nothing restored

ASSUME IntAssumption == IntMax \in Nat

(* Variant: the number is kept in a narrower type.                          *)
AsShort(n) ==
    LET half == (IntMax + 1) \div 2
    IN  ((n + half) % (2 * half)) - half

(* (int) of a wider number: the ints are -(IntMax + 1)..IntMax.             *)
AsInt(n) == ((n + IntMax + 1) % (2 * (IntMax + 1))) - (IntMax + 1)

-----------------------------------------------------------------------------
(* KM_SK::generate: of each character first the kind is drawn, then one.    *)
Digits == 48..57
Uppers == 65..90
Lowers == 97..122
Generated == [1..16 -> Digits \cup Uppers \cup Lowers]

(* sprint_hex: two digits of 0-9a-f for each byte.                          *)
HexDigit(v) == IF v < 10 THEN 48 + v ELSE 87 + v

sprint_hex(src) ==
    [i \in 1..2 * Len(src) |->
        LET byte == src[(i + 1) \div 2]
        IN  HexDigit(IF i % 2 = 1 THEN byte \div 16 ELSE byte % 16)]

(* What restore takes a character for: below 'a' it counts from '0'.        *)
HexValue(c) == IF c < 97 THEN c - 48 ELSE c - 97 + 10

(* Half as many bytes as characters, each cut to unsigned char.             *)
Converted(skey_h) ==
    [i \in 1..Len(skey_h) \div 2 |->
        (HexValue(skey_h[2 * i - 1]) * 16 + HexValue(skey_h[2 * i])) % 256]

(* Variant: a number too large wraps around.                                *)
atoiWrapped(n) == AsInt(n)

(* atoi, in the C library the project is built with: a number too large     *)
(* becomes the largest int.                                                 *)
atoi(n) == IF n > IntMax THEN IntMax ELSE n

-----------------------------------------------------------------------------
(* The row KM_SERV::store writes: the hex form of the key is prepared in    *)
(* skey_tmp, and the key itself is written.                                 *)
StoredRow(serv) ==
    [org |-> serv.org, md5_p |-> serv.md5_p, md5_c |-> serv.md5_c,
     skey |-> serv.skey, expire |-> serv.expire]

(* KM_SERV(comp, md5_c), which leaves the deadline uninitialised.           *)
Asked(comp, md5_c) ==
    [org |-> comp, md5_p |-> <<>>, md5_c |-> md5_c, skey |-> <<>>, expire |-> Nil]

(* KM_SERV::restore: -3 when the select fails, or finds no row of that      *)
(* digest and organisation; -4 when a field has nothing in it.  The object  *)
(* as it is left, and the code returned.                                    *)
Restored(serv, row, code) ==
    LET key == Converted(row.skey)
        plaint == [serv EXCEPT !.md5_p = row.md5_p]
        keyed == [plaint EXCEPT !.skey = key]
    IN  IF code # 0 \/ row = Nil THEN [serv |-> serv, code |-> -3]
        ELSE IF row.md5_c # serv.md5_c \/ row.org # serv.org THEN [serv |-> serv, code |-> -3]
        ELSE IF Len(key) = 0 THEN [serv |-> plaint, code |-> -4]
        ELSE [serv |-> [keyed EXCEPT !.expire = atoi(row.expire)], code |-> 0]
=============================================================================
