-------------------------------- MODULE Sm3 --------------------------------
(***************************************************************************)
(* The SM3 digest (sm3.cpp): a context that is fed pieces of a message of  *)
(* any length, cuts them into blocks, and closes the message with padding  *)
(* and its length.  The digest of a whole buffer, of a file and the keyed  *)
(* digest (HMAC) are built from it.                                        *)
(*                                                                         *)
(* The compression of a block is not computed.  `state' is the sequence of *)
(* the blocks that sm3_process was given since sm3_starts: two digests are *)
(* equal when these are, and the 32 bytes of a digest are named after it.  *)
(* Sizes are constants: a block has BlockLen bytes (64), a word of the     *)
(* context counts modulo W (2^32), a byte has ByteBits bits (8).           *)
(***************************************************************************)
EXTENDS Integers, Sequences, SequencesExt

CONSTANTS
    BlockLen,   \* bytes of a block
    WordLen,    \* bytes of a word
    ByteBits,   \* bits of a byte
    DigestLen,  \* bytes of a digest
    FileBuf,    \* bytes sm3_file reads at a time
    Pieces,     \* the lengths a caller passes at a time
    KeyLens,    \* the lengths of HMAC keys
    MaxLen,     \* the longest message
    Nil         \* no key, nothing returned yet

(* b to the n, as a loop.                                                   *)
Power(b, n) ==
    LET p[k \in 0..n] == IF k = 0 THEN 1 ELSE b * p[k - 1]
    IN  p[n]

Radix == Power(2, ByteBits)
W == Power(Radix, WordLen)

ASSUME Sm3Assumption ==
    /\ BlockLen \in Nat \ {0} /\ WordLen \in Nat \ {0}
    /\ ByteBits \in Nat \ {0} /\ DigestLen \in Nat /\ FileBuf \in Nat \ {0}
    /\ 2 * WordLen < BlockLen
    /\ W \in Nat \ {0} /\ W % BlockLen = 0 /\ BlockLen < W
    /\ Pieces \cup KeyLens \cup {FileBuf, DigestLen} \subseteq 0..W - 1
    /\ Nil \notin KeyLens
    /\ MaxLen \in Nat

VARIABLES
    ctx,    \* the context
    pc,     \* "idle", "open": sm3_starts was called, "file": in sm3_file
    key,    \* the length of the HMAC key, or Nil
    len,    \* how many bytes of the message have been passed
    out     \* the digest returned last, with its message; Nil once it is old

vars == <<ctx, pc, key, len, out>>

-----------------------------------------------------------------------------
(* Bytes are told apart by where they come from.                            *)
Datum(n) == <<"message", n>>
KeyByte(n) == <<"key", n>>
Number(n) == <<"number", n>>
DigestByte(state, n) == <<"digest", state, n>>
Xored(b, mask) == <<"xor", mask, b>>

(* The n bytes of the message that follow its first m; a key.               *)
Data(m, n) == [i \in 1..n |-> Datum(m + i)]
KeyOf(n) == [i \in 1..n |-> KeyByte(i)]

(* PUT_ULONG_BE: the bytes of a word, the highest first.                    *)
Put(word) == [i \in 1..WordLen |-> Number((word \div Power(Radix, WordLen - i)) % Radix)]

(* memcpy(buffer + at, bytes).                                              *)
Copied(buffer, at, bytes) ==
    [i \in 1..(IF at + Len(bytes) > Len(buffer) THEN at + Len(bytes) ELSE Len(buffer)) |->
        IF i \in at + 1..at + Len(bytes) THEN bytes[i - at] ELSE buffer[i]]

Left(c) == c.total[1] % BlockLen

-----------------------------------------------------------------------------
(* sm3_starts leaves the buffer as it is.                                   *)
Started(c) == [c EXCEPT !.total = <<0, 0>>, !.state = <<>>]

(* Variants: the carry is looked for before the addition; what remains of a *)
(* piece is put where its start was.                                        *)
CarriedEarly(total, ilen) ==
    <<(total[1] + ilen) % W, IF total[1] < ilen THEN (total[2] + 1) % W ELSE total[2]>>

RestAtLeft(c, first) == Left(c)

(* total[0] += ilen; if it is less than ilen now, it has wrapped.           *)
Counted(total, ilen) ==
    LET sum == (total[1] + ilen) % W
    IN  <<sum, IF sum < ilen THEN (total[2] + 1) % W ELSE total[2]>>

(* Where what remains of a piece goes in the buffer, once `first' bytes of  *)
(* the piece have completed a block.                                        *)
RestAt(c, first) == IF first > 0 THEN 0 ELSE Left(c)

(* sm3_update: complete the block in the buffer if there is enough, process *)
(* whole blocks from the input, keep the rest.                              *)
Updated(c, input) ==
    LET ilen   == Len(input)
        fill   == BlockLen - Left(c)
        first  == IF Left(c) > 0 /\ ilen >= fill THEN fill ELSE 0
        filled == Copied(c.buffer, Left(c), SubSeq(input, 1, first))
        blocks == (ilen - first) \div BlockLen
        rest   == SubSeq(input, first + blocks * BlockLen + 1, ilen)
    IN  IF ilen <= 0 THEN c
        ELSE [c EXCEPT
                !.total = Counted(c.total, ilen),
                !.state = @ \o (IF first > 0 THEN <<filled>> ELSE <<>>)
                            \o [b \in 1..blocks |->
                                   SubSeq(input, first + (b - 1) * BlockLen + 1, first + b * BlockLen)],
                !.buffer = Copied(filled, RestAt(c, first), rest)]

Padding(n) == [i \in 1..n |-> IF i = 1 THEN Number(Radix \div 2) ELSE Number(0)]

(* Variant: the length does not fit into a block that is just long enough.  *)
PadLenStrict(last) ==
    IF last < BlockLen - 2 * WordLen - 1 THEN BlockLen - 2 * WordLen - last
    ELSE 2 * BlockLen - 2 * WordLen - last

PadLen(last) ==
    IF last < BlockLen - 2 * WordLen THEN BlockLen - 2 * WordLen - last
    ELSE 2 * BlockLen - 2 * WordLen - last

(* The length in bits, in two words: total[0] >> 29 | total[1] << 3, and    *)
(* total[0] << 3.                                                           *)
LengthField(total) ==
    Put(((total[1] * ByteBits) \div W + total[2] * ByteBits) % W)
        \o Put((total[1] * ByteBits) % W)

(* sm3_finish; the length is taken before the padding is counted.           *)
Finished(c) ==
    LET length == LengthField(c.total)
    IN  Updated(Updated(c, Padding(PadLen(Left(c)))), length)

Digest(c) == [i \in 1..DigestLen |-> DigestByte(c.state, i)]

(* sm3, for a whole buffer.                                                 *)
DigestOf(bytes) ==
    LET c == [total |-> <<0, 0>>, state |-> <<>>, buffer |-> [i \in 1..BlockLen |-> Number(0)],
              ipad |-> <<>>, opad |-> <<>>]
    IN  Digest(Finished(Updated(c, bytes)))

-----------------------------------------------------------------------------
(* HMAC.  A key longer than a block is replaced by its digest; the rest of  *)
(* the pads is the mask itself.                                             *)
ShortKey(k) == IF Len(k) > BlockLen THEN DigestOf(k) ELSE k

Pad(k, mask) ==
    [i \in 1..BlockLen |-> Xored(IF i <= Len(k) THEN k[i] ELSE Number(0), mask)]

HmacStarted(c, k) ==
    LET pads == [c EXCEPT !.ipad = Pad(ShortKey(k), "36"), !.opad = Pad(ShortKey(k), "5C")]
    IN  Updated(Started(pads), pads.ipad)

HmacFinished(c) ==
    LET inner == Finished(c)
    IN  Finished(Updated(Updated(Started(inner), inner.opad), Digest(inner)))

-----------------------------------------------------------------------------
(* The calls, in the order their callers must keep.                         *)
Zeros == [i \in 1..BlockLen |-> Number(0)]

Init ==
    /\ ctx = [total |-> <<0, 0>>, state |-> <<>>, buffer |-> Zeros, ipad |-> <<>>, opad |-> <<>>]
    /\ pc = "idle"
    /\ key = Nil
    /\ len = 0
    /\ out = Nil

sm3_starts ==
    /\ pc = "idle"
    /\ ctx' = Started(ctx)
    /\ pc' = "open"
    /\ key' = Nil /\ len' = 0 /\ out' = Nil

sm3_hmac_starts(n) ==
    /\ pc = "idle"
    /\ ctx' = HmacStarted(ctx, KeyOf(n))
    /\ pc' = "open"
    /\ key' = n /\ len' = 0 /\ out' = Nil

(* Also sm3_hmac_update, which only calls it.                               *)
sm3_update(n) ==
    /\ pc = "open"
    /\ len + n <= MaxLen
    /\ ctx' = Updated(ctx, Data(len, n))
    /\ len' = len + n
    /\ UNCHANGED <<pc, key, out>>

Returned(c) ==
    /\ ctx' = c
    /\ out' = [key |-> key, len |-> len, digest |-> Digest(c)]
    /\ pc' = "idle"
    /\ UNCHANGED <<key, len>>

sm3_finish ==
    /\ pc = "open"
    /\ key = Nil
    /\ Returned(Finished(ctx))

sm3_hmac_finish ==
    /\ pc = "open"
    /\ key # Nil
    /\ Returned(HmacFinished(ctx))

(* sm3_file: the file is read a buffer at a time until nothing comes, at    *)
(* its end or because of an error (return value 2; the digest is then that  *)
(* of what came before).                                                    *)
FileOpen ==
    /\ pc = "idle"
    /\ ctx' = Started(ctx)
    /\ pc' = "file"
    /\ key' = Nil /\ len' = 0 /\ out' = Nil

FileRead(n) ==
    /\ pc = "file"
    /\ n \in 1..FileBuf
    /\ len + n <= MaxLen
    /\ ctx' = Updated(ctx, Data(len, n))
    /\ len' = len + n
    /\ UNCHANGED <<pc, key, out>>

FileEnd ==
    /\ pc = "file"
    /\ Returned(Finished(ctx))

Next ==
    \/ sm3_starts \/ sm3_finish \/ sm3_hmac_finish
    \/ \E n \in KeyLens : sm3_hmac_starts(n)
    \/ \E n \in Pieces : sm3_update(n)
    \/ FileOpen \/ FileEnd
    \/ \E n \in Pieces \cup {FileBuf} : FileRead(n)

Spec == Init /\ [][Next]_vars

-----------------------------------------------------------------------------
(* What a digest is, for a whole message: the message, one bit, as many     *)
(* zeros as fill the last block up to the length, the length in bits; cut   *)
(* into blocks.                                                             *)
LengthBytes(n) ==
    [i \in 1..2 * WordLen |-> Number(((n * ByteBits) \div Power(Radix, 2 * WordLen - i)) % Radix)]

Padded(m) ==
    LET zeros == CHOOSE z \in 0..BlockLen - 1 : (Len(m) + 1 + z + 2 * WordLen) % BlockLen = 0
    IN  m \o <<Number(Radix \div 2)>> \o [i \in 1..zeros |-> Number(0)] \o LengthBytes(Len(m))

Cut(m) ==
    [b \in 1..Len(m) \div BlockLen |-> SubSeq(m, (b - 1) * BlockLen + 1, b * BlockLen)]

Hash(m) == [i \in 1..DigestLen |-> DigestByte(Cut(Padded(m)), i)]

Hmac(k, m) ==
    LET short == IF Len(k) > BlockLen THEN Hash(k) ELSE k
    IN  Hash(Pad(short, "5C") \o Hash(Pad(short, "36") \o m))

(* The context's counters are two words, its buffer is one block: no piece, *)
(* padding or length is ever copied past the end of it.                     *)
TypeOK ==
    /\ ctx.total \in [1..2 -> 0..W - 1]
    /\ Len(ctx.buffer) = BlockLen
    /\ \A b \in DOMAIN ctx.state : Len(ctx.state[b]) = BlockLen
    /\ pc \in {"idle", "open", "file"}
    /\ key \in KeyLens \cup {Nil}
    /\ len \in 0..MaxLen

(* What was passed is in the context, whole and in its order: the blocks    *)
(* processed so far and the start of the buffer, and the counters say how   *)
(* much it is, the second one counting the wraps of the first.              *)
Absorbed ==
    pc \in {"open", "file"} =>
        LET all == (IF key = Nil THEN <<>> ELSE ctx.ipad) \o Data(0, len)
        IN  /\ ctx.state = Cut(all)
            /\ SubSeq(ctx.buffer, 1, Left(ctx)) = SubSeq(all, Len(ctx.state) * BlockLen + 1, Len(all))
            /\ ctx.total = <<Len(all) % W, (Len(all) \div W) % W>>

(* A digest does not depend on the pieces the message came in, nor on what  *)
(* an earlier message left in the context; it is the digest of the message, *)
(* or the keyed digest.                                                     *)
DigestOfMessage ==
    out # Nil =>
        out.digest = IF out.key = Nil THEN Hash(Data(0, out.len))
                     ELSE Hmac(KeyOf(out.key), Data(0, out.len))
=============================================================================
