----------------------------- MODULE KmService -----------------------------
(***************************************************************************)
(* The `service' table and the objects that write to it.                   *)
(*                                                                         *)
(* KM_SERV (KM.cpp) carries the data of one encrypted file, its plaintext  *)
(* and ciphertext digests, key and deadline, to the MySQL table `service'. *)
(* Every statement is one call of MY_QUERY::exec_query_mysql               *)
(* (INTmysql.cpp), which opens a connection of its own, so no two          *)
(* statements share a transaction: KM_SERV::store is a select, kept in the *)
(* caller's memory, and then an insert or an update.                       *)
(*                                                                         *)
(* A digest is modelled by what it digests (two digests are equal when the *)
(* data are), an SM4 key by the second that seeded its generator.          *)
(***************************************************************************)
EXTENDS Integers, Sequences

CONSTANTS
    Texts,      \* the contents a plain file may have
    Short,      \* those of fewer than 16 bytes: SM4 leaves them in clear
    Orgs,       \* the rows of table `org'
    Admins,     \* the administrators that can log in
    Files,      \* file names on a client
    MaxTime,    \* the last second of the model's clocks
    Codes,      \* the failures exec_query_mysql may return in this instance
    MaxFaults,  \* how many statements may fail
    UniqueMd5,  \* does table `service' have a unique key on md5_c?
    Nil         \* an empty field, a file that does not exist, no one

Time == 0..MaxTime

(* The value of a 16-byte key buffer that holds no generated key. *)
NoKey == -1
Keys == Time \cup {NoKey}

(* The data part of a cipher file: `text' under `key'. *)
Bodies == [text : Texts, key : Keys]

ASSUME KmServiceAssumption ==
    /\ Short \subseteq Texts
    /\ MaxTime \in Nat
    /\ Codes \subseteq {-2, -3, -4}
    /\ MaxFaults \in Nat
    /\ UniqueMd5 \in BOOLEAN
    /\ Nil \notin Bodies \cup Files \cup Admins \cup Orgs \cup Texts

VARIABLES
    service,    \* the rows of the table, in the order of insertion
    faults      \* how many statements have failed

dbVars == <<service, faults>>

Rows == [org : Orgs, md5_p : Texts, md5_c : Bodies, skey : Time,
         expire : Time, admin : Admins, enc_tm : Time, fname : Files \cup {Nil}]

(* A KM_SERV object between its construction and its deletion. *)
Servs == [org : Orgs, md5_p : Texts, md5_c : Bodies \cup {Nil}, skey : Keys,
          expire : Time, enc_tm : Time]

-----------------------------------------------------------------------------
(* SM4 in ECB mode, applied to whole blocks only.                           *)
Sealed(text, key) == [text |-> text, key |-> IF text \in Short THEN NoKey ELSE key]

-----------------------------------------------------------------------------
(* KM_SERV, the object.  enc_t is not initialised by the constructor and is *)
(* never read before `store' sets it: any value stands for it.              *)
NewServ(comp, md5_p, expire) ==
    [org |-> comp, md5_p |-> md5_p, md5_c |-> Nil, skey |-> NoKey,
     expire |-> expire, enc_tm |-> 0]

gen_key(serv, second) == [serv EXCEPT !.skey = second]

(* Variant: the deadline itself is already too late.                        *)
verifyStrict(serv, second) ==
    /\ serv.expire # 0
    /\ serv.expire - second > 0

verify(serv, second) ==
    /\ serv.expire # 0
    /\ serv.expire - second >= 0

(* The buffer `dest' after get_skey: untouched when the service has expired. *)
get_skey(serv, second, dest) == IF verify(serv, second) THEN serv.skey ELSE dest

Storable(serv) ==
    /\ serv.md5_c # Nil
    /\ serv.skey # NoKey
    /\ serv.expire # 0

-----------------------------------------------------------------------------
(* The effect of the three statements on the rows.                          *)
Holding(rows, md5_c) == {i \in DOMAIN rows : rows[i].md5_c = md5_c}

RowOf(serv, adm, name) ==
    [org |-> serv.org, md5_p |-> serv.md5_p, md5_c |-> serv.md5_c,
     skey |-> serv.skey, expire |-> serv.expire, admin |-> adm,
     enc_tm |-> serv.enc_tm, fname |-> name]

Inserted(rows, serv, adm) == Append(rows, RowOf(serv, adm, Nil))

(* Variant: the update clears the file name.                                *)
UpdatedUnnamed(rows, serv, adm) ==
    [i \in DOMAIN rows |->
        IF rows[i].md5_c = serv.md5_c THEN RowOf(serv, adm, Nil) ELSE rows[i]]

Updated(rows, serv, adm) ==
    [i \in DOMAIN rows |->
        IF rows[i].md5_c = serv.md5_c THEN RowOf(serv, adm, rows[i].fname) ELSE rows[i]]

Named(rows, md5_c, name) ==
    [i \in DOMAIN rows |->
        IF rows[i].md5_c = md5_c THEN [rows[i] EXCEPT !.fname = name] ELSE rows[i]]

-----------------------------------------------------------------------------
(* exec_query_mysql returns 0, or a negative code: -2 no handle, -3 no      *)
(* connection, -4 the statement failed.  With -4 the server may still have  *)
(* executed it: the connection can be lost before the answer.               *)
Returns(code) ==
    \/ /\ code = 0
       /\ UNCHANGED faults
    \/ /\ code \in Codes
       /\ faults < MaxFaults
       /\ faults' = faults + 1

Query(code) ==
    /\ Returns(code)
    /\ UNCHANGED service

Statement(code, rows) ==
    /\ Returns(code)
    /\ \/ /\ code \in {0, -4}
          /\ service' = rows
       \/ /\ code # 0
          /\ UNCHANGED service

(* Variants: a failed select counts as a row, the answer is not looked at.  *)
RowsAssumed(rows, md5_c, code) == code # 0 \/ Holding(rows, md5_c) # {}
RowsIgnored(rows, md5_c, code) == FALSE

(* Did the select of KM_SERV::store return a row?  A failed one did not.    *)
RowsReturned(rows, md5_c, code) == code = 0 /\ Holding(rows, md5_c) # {}

(* The unique key, when there is one, refuses a second row for a digest. *)
Refused(serv) == UniqueMd5 /\ Holding(service, serv.md5_c) # {}

(* The second half of KM_SERV::store: insert when the select showed no row, *)
(* else update.                                                             *)
StoreWrites(serv, adm, found, code) ==
    \/ /\ ~found
       /\ ~Refused(serv)
       /\ Statement(code, Inserted(service, serv, adm))
    \/ /\ ~found
       /\ Refused(serv)
       /\ code = -4
       /\ UNCHANGED dbVars
    \/ /\ found
       /\ Statement(code, Updated(service, serv, adm))

DbInit ==
    /\ service = <<>>
    /\ faults = 0

DbTypeOK ==
    /\ service \in Seq(Rows)
    /\ faults \in 0..MaxFaults
=============================================================================
