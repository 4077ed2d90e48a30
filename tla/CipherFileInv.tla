--------------------------- MODULE CipherFileInv ---------------------------
(***************************************************************************)
(* Why the reader gets the plain file: the inductive invariant of          *)
(* CipherFile.  It says of each block, in the buffer and in the cipher     *)
(* file, which run of SM4 it came from; that SM4 inverts is Sm4's own.     *)
(***************************************************************************)
EXTENDS CipherFile

Block(s, at) == [i \in 1..16 |-> s[at + i]]

(* Among the blocks done, SM4 has made the block `out' of the block `in'    *)
(* under the round keys k.                                                  *)
Made(done, k, in, out) ==
    \E e \in done :
        /\ e.sk = k
        /\ \A n \in 1..4 : e.x[n] = Get(in, 4 * (n - 1))
        /\ out = OutputOf(e.x)

(* ... for the whole blocks among the first n bytes of `in' and the bytes   *)
(* of `out' that start at a position.                                       *)
Blockwise(done, k, in, out, at, n) ==
    \A b \in 0..n : 16 * b + 16 <= n => Made(done, k, Block(in, 16 * b), Block(out, at + 16 * b))

RoundKeys == sm4_setkey(serv.skey)

Header == Raw(1, FlagLen) \o Raw(serv.expire, DeadlineLen)

(* How much of the plain file is in the cipher file.                        *)
Sealed == IF pc = "crypt" THEN fed - Len(receive) ELSE fed

ReaderAt == {"asked", "decrypt", "opened"}
Recorded == ReaderAt \cup {"stored"}
SealedAt == Recorded \cup {"store"}
Writing == {"read", "crypt"}

(* The KM_SERV of the file, once its plain text was digested.               *)
ServOK ==
    pc \in {"create"} \cup Writing \cup SealedAt =>
        /\ serv \in [org : Orgs, md5_p : Seq(Bytes), md5_c : Seq(Bytes),
                     skey : GenKeys, expire : Deadlines]
        /\ AsInt(Len(plain)) >= 0
        /\ serv.md5_p = SubSeq(plain, 1, AsInt(Len(plain)))

(* Pieces start at a whole number of blocks.                                *)
Pieces ==
    /\ pc \in {"plain", "create"} => fed = 0 /\ cipher = <<>>
    /\ fed < Len(plain) => fed % 16 = 0
    /\ pc = "crypt" =>
        /\ Len(receive) \in 1..fed
        /\ Sealed % 16 = 0
        /\ \A i \in 1..Len(receive) : receive[i] = plain[Sealed + i]
    /\ pc = "decrypt" => receive = From(cipher, DataAt)
    /\ pc \in SealedAt => fed = Len(plain) /\ fed > 0

(* The block SM4 is at, and those of the piece it has done.                 *)
Crypting ==
    /\ pc = "crypt" => sk = RoundKeys
    /\ pc = "decrypt" => sk = Swapped(RoundKeys)
    /\ ulbuf # <<>> =>
        /\ pc \in {"crypt", "decrypt"}
        /\ Len(output) + 16 <= Len(receive)
        /\ \A n \in 1..4 : ulbuf[n] = Get(Block(receive, Len(output)), 4 * (n - 1))
    /\ pc \in {"crypt", "decrypt"} =>
        /\ Len(output) % 16 = 0
        /\ Blockwise(log, sk, receive, output, 0, Len(output))

(* The data of the cipher file, whole blocks and the rest.                  *)
DataOK ==
    pc \in Writing \cup SealedAt =>
        /\ Blockwise(log, RoundKeys, plain, cipher, DataAt, Sealed)
        /\ \A i \in 1..Sealed :
              /\ cipher[DataAt + i] \in Bytes
              /\ i > (Sealed \div 16) * 16 => cipher[DataAt + i] = plain[i]

(* Its header and its length.                                               *)
HeaderOK ==
    /\ pc \in Writing =>
        /\ Len(cipher) = IF Sealed = 0 THEN Md5At ELSE DataAt + Sealed
        /\ \A i \in 1..Md5At : cipher[i] = Header[i]
    /\ pc \in SealedAt =>
        /\ Len(cipher) = DataAt + Len(plain)
        /\ SubSeq(cipher, 1, DataAt) = Header \o DigestBytes
        /\ Len(plain) <= IntMax => serv.md5_c = From(cipher, DataAt)

CipherInv ==
    /\ TypeOK
    /\ ServOK
    /\ Pieces
    /\ Crypting
    /\ DataOK
    /\ HeaderOK
    /\ pc \in Recorded => row = StoredRow(serv)
    /\ pc \notin ReaderAt => asked = Nil
    /\ ThrewAtBounds
    /\ RestoredRecord
=============================================================================
