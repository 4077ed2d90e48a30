-------------------------- MODULE EncryptBatchInv --------------------------
(***************************************************************************)
(* The inductive invariants behind the safety properties of EncryptBatch:  *)
(* what the fields of a client and the object in its hands are worth at    *)
(* each step of the loop.                                                  *)
(***************************************************************************)
EXTENDS EncryptBatch

HasServ == Steps \ {"digest"}
HasKey == HasServ \ {"genkey"}
HasCopy == HasKey \ {"getkey"}
HasBody == {"select", "write", "name"}

(* The cipher paths are none, or one for each selected file, under its name *)
(* when there are several.                                                  *)
Aligned(c) ==
    \/ CipherPath_ary[c] = <<>>
    \/ /\ Len(CipherPath_ary[c]) = SelFileNum(c)
       /\ SelFileNum(c) > 1 =>
             \A i \in 1..SelFileNum(c) : CipherPath_ary[c][i][2] = PlainPath_ary[c][i]

(* What JudgeBeforeEncrypt has seen to, for as long as the loop runs.       *)
Judged(c) ==
    Busy(c) =>
        /\ PlainPath_ary[c] # <<>>
        /\ CipherPath_ary[c] # <<>>
        /\ OrgID[c] # Nil
        /\ m_date_64t[c] > 0
        /\ findex[c] \in 1..SelFileNum(c)

(* How far the KM_SERV of the current file has got.                         *)
InHand(c) ==
    /\ pc[c] # "off" => AdminID[c] # Nil
    /\ pc[c] \in HasServ => serv[c] \in Servs /\ serv[c].expire > 0
    /\ pc[c] \in HasKey => serv[c].skey # NoKey
    /\ pc[c] \in HasBody => serv[c].md5_c # Nil
    /\ pc[c] = "fill" => cipher[c][CipherFile(c)] # Nil

(* The type invariant and what it takes to keep it.                         *)
TypeInv ==
    /\ TypeOK
    /\ \A c \in Clients : Aligned(c) /\ Judged(c) /\ InHand(c)

(* ContentKey is the key in the KM_SERV, or the deadline is behind.         *)
KeyInHand(c) ==
    /\ pc[c] \in HasCopy => ContentKey[c] = serv[c].skey \/ serv[c].expire < now[c]
    /\ pc[c] = "select" =>
          serv[c].md5_c = Sealed(serv[c].md5_c.text, ContentKey[c])
    /\ pc[c] = "write" /\ serv[c].enc_tm <= serv[c].expire =>
          serv[c].md5_c = Sealed(serv[c].md5_c.text, serv[c].skey)

KeyInv ==
    /\ RecordKeyOpensCipher
    /\ \A c \in Clients : KeyInHand(c)

(* The file being made is not reported, it is as its KM_SERV says; a record *)
(* that the select returned is still there, and once stored there is one.   *)
FileInHand(c) ==
    /\ pc[c] \in {"fill"} \cup HasBody => CipherFile(c) \notin reported[c]
    /\ pc[c] \in HasBody =>
          /\ cipher[c][CipherFile(c)] # Nil
          /\ cipher[c][CipherFile(c)].digest = serv[c].md5_c
          /\ cipher[c][CipherFile(c)].data = serv[c].md5_c
    /\ pc[c] = "write" /\ found[c] => Holding(service, serv[c].md5_c) # {}
    /\ pc[c] = "name" => Holding(service, serv[c].md5_c) # {}

ReportInv ==
    /\ ReportedRecorded
    /\ BatchPrefixReported
    /\ \A c \in Clients : FileInHand(c)

(* The plaintext digest in hand is that of the plain file, until another    *)
(* program writes to it; of what was sealed, or else that is known.         *)
PlainInHand(c) ==
    /\ pc[c] \in BetweenReadings \cup {"fill"} /\ ~edited[c] =>
          serv[c].md5_p = plain[c][PlainFile(c)]
    /\ pc[c] \in HasBody =>
          \/ serv[c].md5_p = serv[c].md5_c.text
          \/ <<serv[c].md5_p, serv[c].md5_c>> \in torn

PlainInv ==
    /\ RecordDigestsPlain
    /\ \A c \in Clients : PlainInHand(c)

(* With one client and no failures a digest that the select did not find is *)
(* not there when the insert runs; a unique key settles it otherwise.       *)
OnceInHand(c) ==
    ~UniqueMd5 /\ pc[c] = "write" /\ ~found[c] => Holding(service, serv[c].md5_c) = {}

OnceInv ==
    /\ OneRecordPerCipher
    /\ \A c \in Clients : OnceInHand(c)

StoredOnce == UniqueMd5 \/ (Codes = {} /\ \A c, d \in Clients : c = d)

IInv ==
    /\ TypeInv /\ KeyInv /\ ReportInv
    /\ PlainInv /\ ReportedNamed /\ BatchForOrgShown
    /\ StoredOnce => OnceInv
=============================================================================
