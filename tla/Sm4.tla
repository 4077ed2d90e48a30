-------------------------------- MODULE Sm4 --------------------------------
(***************************************************************************)
(* The SM4 block cipher (sm4.cpp), at its real size: words of 32 bits, a   *)
(* block of 16 bytes, 32 round keys.  The key schedule is one step; a      *)
(* block is encrypted round by round in the array `ulbuf', by the same     *)
(* function in both directions: sm4_setkey_dec only reverses the order of  *)
(* the round keys.                                                         *)
(*                                                                         *)
(* Who calls it is left open here: any round keys, any blocks.  CipherFile *)
(* calls it the way the program does.                                      *)
(***************************************************************************)
EXTENDS Integers, Sequences

Bits == 0..31
Words == [Bits -> {0, 1}]       \* bit 0 is the highest

Bytes == 0..255
Blocks == [1..16 -> Bytes]

VARIABLES
    sk,     \* the round keys of the context; <<>> before they are set
    ulbuf,  \* the words of the block in hand; <<>> between blocks
    log     \* the blocks done: round keys and words; read by no action

sm4Vars == <<sk, ulbuf, log>>

-----------------------------------------------------------------------------
(* GET_ULONG_BE and PUT_ULONG_BE.                                           *)
Weights == <<128, 64, 32, 16, 8, 4, 2, 1>>

Get(bytes, i) == [p \in Bits |-> (bytes[i + 1 + (p \div 8)] \div Weights[(p % 8) + 1]) % 2]

ByteOf(word, n) ==
    128 * word[8 * n] + 64 * word[8 * n + 1] + 32 * word[8 * n + 2] + 16 * word[8 * n + 3]
    + 8 * word[8 * n + 4] + 4 * word[8 * n + 5] + 2 * word[8 * n + 6] + word[8 * n + 7]

Put(word) == <<ByteOf(word, 0), ByteOf(word, 1), ByteOf(word, 2), ByteOf(word, 3)>>

Xor(a, b) == [p \in Bits |-> IF a[p] = b[p] THEN 0 ELSE 1]

ROTL(x, n) == [p \in Bits |-> x[(p + n) % 32]]

SboxTable == <<
    214, 144, 233, 254, 204, 225, 61, 183, 22, 182, 20, 194, 40, 251, 44, 5,
    43, 103, 154, 118, 42, 190, 4, 195, 170, 68, 19, 38, 73, 134, 6, 153,
    156, 66, 80, 244, 145, 239, 152, 122, 51, 84, 11, 67, 237, 207, 172, 98,
    228, 179, 28, 169, 201, 8, 232, 149, 128, 223, 148, 250, 117, 143, 63, 166,
    71, 7, 167, 252, 243, 115, 23, 186, 131, 89, 60, 25, 230, 133, 79, 168,
    104, 107, 129, 178, 113, 100, 218, 139, 248, 235, 15, 75, 112, 86, 157, 53,
    30, 36, 14, 94, 99, 88, 209, 162, 37, 34, 124, 59, 1, 33, 120, 135,
    212, 0, 70, 87, 159, 211, 39, 82, 76, 54, 2, 231, 160, 196, 200, 158,
    234, 191, 138, 210, 64, 199, 56, 181, 163, 247, 242, 206, 249, 97, 21, 161,
    224, 174, 93, 164, 155, 52, 26, 85, 173, 147, 50, 48, 245, 140, 177, 227,
    29, 246, 226, 46, 130, 102, 202, 96, 192, 41, 35, 171, 13, 83, 78, 111,
    213, 219, 55, 69, 222, 253, 142, 47, 3, 255, 106, 114, 109, 108, 91, 81,
    141, 27, 175, 146, 187, 221, 188, 127, 17, 217, 92, 65, 31, 16, 90, 216,
    10, 193, 49, 136, 165, 205, 123, 189, 45, 116, 208, 18, 184, 229, 180, 176,
    137, 105, 151, 74, 12, 150, 119, 126, 101, 185, 241, 9, 197, 110, 198, 132,
    24, 240, 125, 236, 58, 220, 77, 32, 121, 238, 95, 62, 215, 203, 57, 72>>

sm4Sbox(inch) == SboxTable[inch + 1]

Substituted(ka) ==
    Get(<<sm4Sbox(ByteOf(ka, 0)), sm4Sbox(ByteOf(ka, 1)),
          sm4Sbox(ByteOf(ka, 2)), sm4Sbox(ByteOf(ka, 3))>>, 0)

sm4Lt(ka) ==
    LET bb == Substituted(ka)
    IN  Xor(Xor(Xor(Xor(bb, ROTL(bb, 2)), ROTL(bb, 10)), ROTL(bb, 18)), ROTL(bb, 24))

sm4CalciRK(ka) ==
    LET bb == Substituted(ka)
    IN  Xor(Xor(bb, ROTL(bb, 13)), ROTL(bb, 23))

sm4F(x0, x1, x2, x3, rk) == Xor(x0, sm4Lt(Xor(Xor(Xor(x1, x2), x3), rk)))

-----------------------------------------------------------------------------
FK == <<Get(<<163, 177, 186, 198>>, 0), Get(<<86, 170, 51, 80>>, 0),
        Get(<<103, 125, 145, 151>>, 0), Get(<<178, 112, 34, 220>>, 0)>>

(* The bytes of the table are the multiples of seven.                       *)
CK == [i \in 1..32 |->
          Get([j \in 1..4 |-> ((4 * (i - 1) + j - 1) * 7) % 256], 0)]

(* One more word of the schedule, out of the last four.                     *)
Scheduled(k, c) ==
    LET n == Len(k)
    IN  Append(k, Xor(k[n - 3], sm4CalciRK(Xor(Xor(Xor(k[n - 2], k[n - 1]), k[n]), c))))

sm4_setkey(key) ==
    LET k[n \in 0..32] ==
            IF n = 0 THEN [m \in 1..4 |-> Xor(Get(key, 4 * (m - 1)), FK[m])]
            ELSE Scheduled(k[n - 1], CK[n])
    IN  SubSeq(k[32], 5, 36)

(* Variant: the last pair is left as it is.                                 *)
SwappedShort(s) == [i \in 1..32 |-> IF i \in {16, 17} THEN s[i] ELSE s[33 - i]]

(* Sixteen times SWAP(sk[i], sk[31 - i]).                                   *)
Swapped(s) == [i \in 1..32 |-> s[33 - i]]

sm4_setkey_enc(key) ==
    /\ ulbuf = <<>>
    /\ sk' = sm4_setkey(key)
    /\ UNCHANGED <<ulbuf, log>>

sm4_setkey_dec(key) ==
    /\ ulbuf = <<>>
    /\ sk' = Swapped(sm4_setkey(key))
    /\ UNCHANGED <<ulbuf, log>>

-----------------------------------------------------------------------------
(* sm4_one_round: all the rounds of one block.                              *)
Feed(block) ==
    /\ sk # <<>>
    /\ ulbuf = <<>>
    /\ ulbuf' = [n \in 1..4 |-> Get(block, 4 * (n - 1))]
    /\ UNCHANGED <<sk, log>>

Round ==
    /\ Len(ulbuf) \in 4..35
    /\ LET n == Len(ulbuf)
       IN  ulbuf' = Append(ulbuf, sm4F(ulbuf[n - 3], ulbuf[n - 2], ulbuf[n - 1], ulbuf[n], sk[n - 3]))
    /\ UNCHANGED <<sk, log>>

(* The last four words, the last one first.                                 *)
OutputOf(x) == Put(x[36]) \o Put(x[35]) \o Put(x[34]) \o Put(x[33])

Output == OutputOf(ulbuf)

Yield ==
    /\ Len(ulbuf) = 36
    /\ ulbuf' = <<>>
    /\ log' = log \cup {[sk |-> sk, x |-> ulbuf]}
    /\ UNCHANGED sk

Sm4Init ==
    /\ sk = <<>>
    /\ ulbuf = <<>>
    /\ log = {}

Sm4Next ==
    \/ \E key \in Blocks : sm4_setkey_enc(key) \/ sm4_setkey_dec(key)
    \/ \E block \in Blocks : Feed(block)
    \/ Round
    \/ Yield

Sm4Spec == Sm4Init /\ [][Sm4Next]_sm4Vars

-----------------------------------------------------------------------------
(* The same function in both directions: whatever a block was turned into   *)
(* under some round keys is turned back into that block under the reversed  *)
(* keys, whatever was encrypted and however often the keys were set in      *)
(* between.                                                                 *)
RoundsInvert ==
    \A e \in log, d \in log :
        /\ \A n \in 1..4 : d.x[n] = e.x[37 - n]
        /\ d.sk = Swapped(e.sk)
        => \A n \in 1..4 : d.x[37 - n] = e.x[n]
=============================================================================
