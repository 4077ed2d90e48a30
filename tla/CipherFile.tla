----------------------------- MODULE CipherFile -----------------------------
(***************************************************************************)
(* The way of one file, byte by byte: CArchiveDlg::OnEncryptFile           *)
(* (ArchiveDlg.cpp) digests a plain file, writes a header of 44 bytes, the *)
(* data encrypted a buffer at a time, and the digest of the data into the  *)
(* header; KM_SERV stores its row (KmRestore).  Then somebody who has the  *)
(* cipher file and access to the table opens it: the reader is another     *)
(* program and stands here for what this one provides for it, KM_SERV's    *)
(* restore and the decryption of OnDecryptFile, in one piece with the same *)
(* SM4 (Sm4).                                                              *)
(*                                                                         *)
(* EncryptBatch has the other half: many files and clients, failures, the  *)
(* clock.  Here nothing fails but what the length of a file makes fail.    *)
(***************************************************************************)
EXTENDS Sm4, KmRestore

CONSTANTS
    EncBlockSize,   \* how much of the plain file is read at a time (102400)
    Plains,         \* the contents of plain files
    GenKeys,        \* the keys KM_SK::generate may come up with
    Deadlines,      \* the deadlines, in seconds
    Orgs,           \* the organisations files are given to
    Codes           \* how the select of restore may fail

ASSUME CipherFileAssumption ==
    /\ EncBlockSize \in Nat \ {0}
    /\ EncBlockSize % 16 = 0
    /\ IntMax >= 44         \* an int holds the length of a header
    /\ \A p \in Plains : p \in Seq(Bytes)
    /\ GenKeys \subseteq Generated
    /\ Deadlines \subseteq Nat \ {0}
    /\ Codes \subseteq {-2, -3, -4}

VARIABLES
    pc,         \* where the handler, then the reader, stands
    plain,      \* the plain file
    serv,       \* the KM_SERV of the file
    fed,        \* how much of the plain file has been read
    receive,    \* buf_p.receive, the piece in hand
    output,     \* buf_p.output, as far as it is filled
    cipher,     \* the cipher file
    row,        \* the row of table `service', or Nil
    opened,     \* the data as the reader decrypted them, or Nil
    asked       \* the reader's KM_SERV after restore and its code, or Nil

fileVars == <<pc, plain, serv, fed, receive, output, cipher, row, opened, asked>>
vars == <<sm4Vars, fileVars>>

-----------------------------------------------------------------------------
FlagLen == 4
DeadlineLen == 8
Md5Len == 32

(* Variant: the digest is written behind the flag.                          *)
Md5Early == FlagLen

Md5At == FlagLen + DeadlineLen
DataAt == Md5At + Md5Len

(* Variant: what is shifted down is not cut to a byte.                      *)
RawUncut(n, size) ==
    LET rest[i \in 0..size] == IF i = 0 THEN n ELSE rest[i - 1] \div 256
    IN  [i \in 1..size |-> rest[i - 1]]

(* The bytes of a number, the lowest first, as they are in memory.          *)
Raw(n, size) ==
    LET rest[i \in 0..size] == IF i = 0 THEN n ELSE rest[i - 1] \div 256
    IN  [i \in 1..size |-> rest[i - 1] % 256]

(* The i-th byte of the digest in serv.md5_c, told apart from data.         *)
DigestBytes == [i \in 1..Md5Len |-> -i]

(* CFile::Write at a position; a gap after the end of the file reads as 0.  *)
Written(file, at, bytes) ==
    [i \in 1..(IF at + Len(bytes) > Len(file) THEN at + Len(bytes) ELSE Len(file)) |->
        IF i \in at + 1..at + Len(bytes) THEN bytes[i - at]
        ELSE IF i <= Len(file) THEN file[i] ELSE 0]

From(file, at) == SubSeq(file, at + 1, Len(file))

(* sm_crypt_ecb_16: whole blocks only ...                                   *)
Ilen(input) == (Len(input) \div 16) * 16

-----------------------------------------------------------------------------
Init ==
    /\ Sm4Init
    /\ pc = "plain"
    /\ plain \in Plains
    /\ serv = Nil
    /\ fed = 0
    /\ receive = <<>> /\ output = <<>>
    /\ cipher = <<>>
    /\ row = Nil
    /\ opened = Nil
    /\ asked = Nil

(* `new BYTE[n]' of a negative n throws, and the handler is left.           *)
Threw ==
    /\ pc' = "threw"
    /\ UNCHANGED <<sm4Vars, plain, serv, fed, receive, output, cipher, row, opened, asked>>

(* The plain file is read into a buffer of (int)GetLength() bytes.          *)
DigestPlain ==
    /\ pc = "plain"
    /\ LET PlainLen == AsInt(Len(plain)) IN
          IF PlainLen < 0 THEN Threw
          ELSE /\ \E key \in GenKeys, expire \in Deadlines, comp \in Orgs :
                     serv' = [org |-> comp, md5_p |-> SubSeq(plain, 1, PlainLen), md5_c |-> <<>>,
                              skey |-> key, expire |-> expire]
               /\ pc' = "create"
               /\ UNCHANGED <<sm4Vars, plain, fed, receive, output, cipher, row, opened, asked>>

CreateCipher ==
    /\ pc = "create"
    /\ cipher' = Raw(1, FlagLen) \o Raw(serv.expire, DeadlineLen)
    /\ pc' = "read"
    /\ UNCHANGED <<sm4Vars, plain, serv, fed, receive, output, row, opened, asked>>

(* One buffer; the key is set again for each.                               *)
ReadBlock ==
    /\ pc = "read"
    /\ fed < Len(plain)
    /\ receive' = SubSeq(plain, fed + 1,
                         IF fed + EncBlockSize < Len(plain) THEN fed + EncBlockSize ELSE Len(plain))
    /\ fed' = fed + Len(receive')
    /\ output' = <<>>
    /\ sm4_setkey_enc(serv.skey)
    /\ pc' = "crypt"
    /\ UNCHANGED <<plain, serv, cipher, row, opened, asked>>

(* sm4_crypt_ecb: block after block.                                        *)
CryptStart ==
    /\ pc \in {"crypt", "decrypt"}
    /\ Len(output) < Ilen(receive)
    /\ Feed(SubSeq(receive, Len(output) + 1, Len(output) + 16))
    /\ UNCHANGED fileVars

CryptRound ==
    /\ Round
    /\ UNCHANGED fileVars

CryptEnd ==
    /\ Yield
    /\ output' = output \o Output
    /\ UNCHANGED <<pc, plain, serv, fed, receive, cipher, row, opened, asked>>

(* Variant: the rest is what the buffer was filled with.                    *)
CryptedZeros == output \o [i \in 1..Len(receive) - Ilen(receive) |-> 0]

(* ... and the rest as it is.                                               *)
Crypted == output \o SubSeq(receive, Ilen(receive) + 1, Len(receive))

Done == ulbuf = <<>> /\ Len(output) = Ilen(receive)

(* The position in the cipher file: behind the header, then behind what was *)
(* written.                                                                 *)
WriteBlock ==
    /\ pc = "crypt"
    /\ Done
    /\ cipher' = Written(cipher, DataAt + fed - Len(receive), Crypted)
    /\ pc' = "read"
    /\ UNCHANGED <<sm4Vars, plain, serv, fed, receive, output, row, opened, asked>>

(* The data are read back into a buffer of (int)GetLength() - 44 bytes,     *)
(* from offset 44, and their digest goes to offset 12.                      *)
DigestCipher ==
    /\ pc = "read"
    /\ fed = Len(plain)
    /\ LET CipherLen == AsInt(AsInt(Len(cipher)) - DataAt) IN
          IF CipherLen < 0 THEN Threw
          ELSE /\ serv' = [serv EXCEPT !.md5_c = SubSeq(cipher, DataAt + 1, DataAt + CipherLen)]
               /\ cipher' = Written(cipher, Md5At, DigestBytes)
               /\ pc' = "store"
               /\ UNCHANGED <<sm4Vars, plain, fed, receive, output, row, opened, asked>>

Store ==
    /\ pc = "store"
    /\ row' = StoredRow(serv)
    /\ pc' = "stored"
    /\ UNCHANGED <<sm4Vars, plain, serv, fed, receive, output, cipher, opened, asked>>

-----------------------------------------------------------------------------
(* The reader.                                                              *)

(* The service is asked for the key of the digest in the header, on behalf  *)
(* of some organisation.                                                    *)
Restore ==
    /\ pc = "stored"
    /\ \E comp \in Orgs, code \in Codes \cup {0} :
          asked' = Restored(Asked(comp, serv.md5_c), row, code)
    /\ pc' = "asked"
    /\ UNCHANGED <<sm4Vars, plain, serv, fed, receive, output, cipher, row, opened>>

(* All the data at once, with the key they were encrypted with.             *)
Open ==
    /\ pc = "asked"
    /\ receive' = From(cipher, DataAt)
    /\ output' = <<>>
    /\ sm4_setkey_dec(serv.skey)
    /\ pc' = "decrypt"
    /\ UNCHANGED <<plain, serv, fed, cipher, row, opened, asked>>

Opened ==
    /\ pc = "decrypt"
    /\ Done
    /\ opened' = Crypted
    /\ pc' = "opened"
    /\ UNCHANGED <<sm4Vars, plain, serv, fed, receive, output, cipher, row, asked>>

Next ==
    \/ DigestPlain \/ CreateCipher \/ ReadBlock \/ CryptStart \/ CryptRound \/ CryptEnd
    \/ WriteBlock \/ DigestCipher \/ Store \/ Restore \/ Open \/ Opened

Spec == Init /\ [][Next]_vars

-----------------------------------------------------------------------------
(* Every variable stays in its set.                                         *)
TypeOK ==
    /\ sk = <<>> \/ sk \in [1..32 -> Words]
    /\ ulbuf \in Seq(Words) /\ Len(ulbuf) \in {0} \cup 4..36
    /\ pc \in {"plain", "create", "read", "crypt", "store", "stored", "asked", "decrypt",
               "opened", "threw"}
    /\ plain \in Plains
    /\ fed \in 0..Len(plain)
    /\ receive \in Seq(Bytes)
    /\ output \in Seq(Bytes) /\ Len(output) <= Ilen(receive)
    /\ cipher \in Seq(Bytes \cup -Md5Len..-1)

(* Encrypted a buffer at a time with the key set anew for each, decrypted   *)
(* in one piece under the reversed round keys: the reader gets the plain    *)
(* file, whatever its length does to the blocks and buffers.                *)
ReaderRecovers == pc = "opened" => opened = plain

(* The header lies before the data and not in them, and a file that is      *)
(* recorded has the digest of the whole of its data there and the digest of *)
(* the whole plain file in its row, if its length is one an int holds.      *)
SealedWhole ==
    pc \in {"stored", "asked", "decrypt", "opened"} =>
        /\ SubSeq(cipher, 1, DataAt) = Raw(1, FlagLen) \o Raw(row.expire, DeadlineLen) \o DigestBytes
        /\ Len(cipher) = DataAt + Len(plain)
        /\ Len(plain) <= IntMax => row.md5_c = From(cipher, DataAt) /\ row.md5_p = plain

(* The handler is left by an exception only for the empty file, which has a *)
(* header shorter than 44 bytes, and for lengths an int does not hold.      *)
ThrewAtBounds == pc = "threw" => Len(plain) \notin 1..IntMax

(* What the service gives back for a row is, but for the key, what was      *)
(* stored: the digest of the plain file; a deadline that has expired, for   *)
(* verify, at the same seconds, as far as an int counts seconds; and only   *)
(* to the organisation the file was given to.                               *)
RestoredRecord ==
    asked # Nil /\ asked.code = 0 =>
        /\ asked.serv.org = serv.org
        /\ asked.serv.md5_p = serv.md5_p
        /\ \A second \in 0..IntMax : asked.serv.expire >= second <=> serv.expire >= second

(* KM.cpp:105 and :167: a key is converted to hex when it is stored and     *)
(* back when it is restored, so the key restored is the key stored.         *)
RestoredKey ==
    asked # Nil /\ asked.code = 0 => asked.serv.skey = serv.skey
=============================================================================
