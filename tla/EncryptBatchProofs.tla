------------------------- MODULE EncryptBatchProofs -------------------------
(***************************************************************************)
(* Proofs about EncryptBatch, for every value of its constants.            *)
(*                                                                         *)
(* Inductive invariants, each using the ones before it: TypeInv (types,    *)
(* alignment of the paths, what the KM_SERV in hand has got), KeyInv       *)
(* (which key is where), ReportInv (files, reports, records), PlainInv     *)
(* (plaintext digests), ReportedNamed and BatchForOrgShown, which are      *)
(* inductive with them; and OnceInv, that holds where the digest is a      *)
(* unique key, or one client asks a server that always answers.  Each has  *)
(* one lemma for every step of a client that may disturb it; OthersSame    *)
(* says that the other clients do not move.                                *)
(***************************************************************************)
EXTENDS EncryptBatchLedger, TLAPS

-----------------------------------------------------------------------------
(* What the statements of KM_SERV do to the rows of table `service'.        *)

(* A KM_SERV that `store' accepts. *)
Stored(s) == s \in Servs /\ s.md5_c # Nil /\ s.skey # NoKey

(* A row that the key it holds opens, unless it was stored too late. *)
Opens(r) == r.enc_tm <= r.expire => Sealed(r.md5_c.text, r.skey) = r.md5_c

(* Encrypting a text gives the data part of a cipher file. *)
LEMMA SealedType ==
    ASSUME NEW x \in Texts, NEW k \in Keys
    PROVE  Sealed(x, k) \in Bodies
BY KmServiceAssumption DEF Sealed, Bodies, Keys

(* What each operation on a KM_SERV sets and what it leaves alone: the      *)
(* constructor,                                                             *)
LEMMA NewServFields ==
    ASSUME NEW o \in Orgs, NEW x \in Texts, NEW e \in Time
    PROVE  /\ NewServ(o, x, e) \in Servs
           /\ NewServ(o, x, e).expire = e
BY KmServiceAssumption DEF NewServ, Servs, Keys, NoKey, Time

(* gen_key sets the key and leaves the deadline alone.                      *)
LEMMA GenKeyFields ==
    ASSUME NEW s \in Servs, NEW t \in Time
    PROVE  /\ gen_key(s, t) \in Servs
           /\ gen_key(s, t).skey = t
           /\ gen_key(s, t).skey # NoKey
           /\ gen_key(s, t).expire = s.expire
BY KmServiceAssumption DEF gen_key, Servs, Keys, NoKey, Time

(* Setting the ciphertext digest leaves key and deadline alone.             *)
LEMMA Md5cFields ==
    ASSUME NEW s \in Servs, NEW b \in Bodies
    PROVE  /\ [s EXCEPT !.md5_c = b] \in Servs
           /\ [s EXCEPT !.md5_c = b].md5_c = b
           /\ [s EXCEPT !.md5_c = b].skey = s.skey
           /\ [s EXCEPT !.md5_c = b].expire = s.expire
BY DEF Servs

(* Setting the time of encryption leaves the rest alone.                    *)
LEMMA EncTmFields ==
    ASSUME NEW s \in Servs, NEW t \in Time
    PROVE  /\ [s EXCEPT !.enc_tm = t] \in Servs
           /\ [s EXCEPT !.enc_tm = t].enc_tm = t
           /\ [s EXCEPT !.enc_tm = t].md5_c = s.md5_c
           /\ [s EXCEPT !.enc_tm = t].skey = s.skey
           /\ [s EXCEPT !.enc_tm = t].expire = s.expire
BY DEF Servs

(* The row that KM_SERV::store writes has the type of a row. *)
LEMMA RowType ==
    ASSUME NEW s, Stored(s), NEW adm \in Admins, NEW f \in Files \cup {Nil}
    PROVE  RowOf(s, adm, f) \in Rows
BY KmServiceAssumption DEF Stored, Servs, RowOf, Rows, Keys, NoKey

(* The three writing statements keep the table a sequence of rows: insert,  *)
LEMMA InsertedType ==
    ASSUME NEW rows \in Seq(Rows), NEW s, Stored(s), NEW adm \in Admins
    PROVE  Inserted(rows, s, adm) \in Seq(Rows)
BY RowType DEF Inserted

(* ... the update,                                                          *)
LEMMA UpdatedType ==
    ASSUME NEW rows \in Seq(Rows), NEW s, Stored(s), NEW adm \in Admins
    PROVE  Updated(rows, s, adm) \in Seq(Rows)
<1>1. Len(rows) \in Nat /\ DOMAIN rows = 1..Len(rows) /\ \A i \in 1..Len(rows) : rows[i] \in Rows
    OBVIOUS
<1>2. \A r \in Rows : r.fname \in Files \cup {Nil}
    BY DEF Rows
<1>3. \A i \in 1..Len(rows) : RowOf(s, adm, rows[i].fname) \in Rows
    BY <1>1, <1>2, RowType
<1>4. Updated(rows, s, adm) \in [1..Len(rows) -> Rows]
    BY <1>1, <1>3 DEF Updated
<1> QED
    BY <1>1, <1>4

(* ... and the naming of a record.                                          *)
LEMMA NamedType ==
    ASSUME NEW rows \in Seq(Rows), NEW d, NEW f \in Files
    PROVE  Named(rows, d, f) \in Seq(Rows)
<1>1. Len(rows) \in Nat /\ DOMAIN rows = 1..Len(rows) /\ \A i \in 1..Len(rows) : rows[i] \in Rows
    OBVIOUS
<1>2. \A r \in Rows : [r EXCEPT !.fname = f] \in Rows
    BY DEF Rows
<1>3. Named(rows, d, f) \in [1..Len(rows) -> Rows]
    BY <1>1, <1>2 DEF Named
<1> QED
    BY <1>1, <1>3

(* No statement removes the record of a digest. *)
LEMMA StoreKeepsRecords ==
    ASSUME NEW rows \in Seq(Rows), NEW s, Stored(s), NEW adm \in Admins,
           NEW d, Holding(rows, d) # {}
    PROVE  /\ Holding(Inserted(rows, s, adm), d) # {}
           /\ Holding(Updated(rows, s, adm), d) # {}
<1>1. PICK i \in 1..Len(rows) : rows[i].md5_c = d
    BY DEF Holding
<1>2. Inserted(rows, s, adm)[i] = rows[i] /\ i \in DOMAIN Inserted(rows, s, adm)
    BY DEF Inserted
<1>3. Updated(rows, s, adm)[i].md5_c = d /\ i \in DOMAIN Updated(rows, s, adm)
    BY <1>1 DEF Updated, RowOf
<1> QED
    BY <1>1, <1>2, <1>3 DEF Holding

(* Naming a record removes none either.                                     *)
LEMMA NameKeepsRecords ==
    ASSUME NEW rows \in Seq(Rows), NEW f \in Files, NEW d, NEW e, Holding(rows, d) # {}
    PROVE  Holding(Named(rows, e, f), d) # {}
<1>1. PICK i \in 1..Len(rows) : rows[i].md5_c = d
    BY DEF Holding
<1>2. rows[i] \in Rows
    OBVIOUS
<1>3. Named(rows, e, f)[i].md5_c = d /\ i \in DOMAIN Named(rows, e, f)
    BY <1>1, <1>2 DEF Named, Rows
<1> QED
    BY <1>3 DEF Holding

(* A successful insert, and an update of a table that has the record, leave *)
(* a record of the digest that was stored.                                  *)
LEMMA RecordMade ==
    ASSUME NEW rows \in Seq(Rows), NEW s, Stored(s), NEW adm \in Admins
    PROVE  /\ Holding(Inserted(rows, s, adm), s.md5_c) # {}
           /\ Holding(rows, s.md5_c) # {} => Holding(Updated(rows, s, adm), s.md5_c) # {}
<1>1. Inserted(rows, s, adm)[Len(rows) + 1].md5_c = s.md5_c
      /\ Len(rows) + 1 \in DOMAIN Inserted(rows, s, adm)
    BY DEF Inserted, RowOf
<1>2. ASSUME NEW i \in DOMAIN rows, rows[i].md5_c = s.md5_c
      PROVE  Updated(rows, s, adm)[i].md5_c = s.md5_c /\ i \in DOMAIN Updated(rows, s, adm)
    BY <1>2 DEF Updated, RowOf
<1> QED
    BY <1>1, <1>2 DEF Holding

(* The statements write no row that its key does not open, when the object  *)
(* they take it from is filed under a digest that its key opens.            *)
LEMMA OpensStored ==
    ASSUME NEW rows \in Seq(Rows), NEW s, Stored(s), NEW adm \in Admins,
           \A i \in DOMAIN rows : Opens(rows[i]),
           s.enc_tm <= s.expire => Sealed(s.md5_c.text, s.skey) = s.md5_c
    PROVE  /\ \A i \in DOMAIN Inserted(rows, s, adm) : Opens(Inserted(rows, s, adm)[i])
           /\ \A i \in DOMAIN Updated(rows, s, adm) : Opens(Updated(rows, s, adm)[i])
<1>1. \A n : Opens(RowOf(s, adm, n))
    BY DEF Opens, RowOf
<1>2. ASSUME NEW i \in DOMAIN Inserted(rows, s, adm)
      PROVE  Opens(Inserted(rows, s, adm)[i])
    <2>1. CASE i \in DOMAIN rows
        <3>1. Inserted(rows, s, adm)[i] = rows[i]
            BY <2>1 DEF Inserted
        <3> QED BY <2>1, <3>1
    <2>2. CASE i \notin DOMAIN rows
        <3>1. Inserted(rows, s, adm)[i] = RowOf(s, adm, Nil)
            BY <2>2, <1>2 DEF Inserted
        <3> QED BY <3>1, <1>1
    <2> QED BY <2>1, <2>2
<1>3. ASSUME NEW i \in DOMAIN Updated(rows, s, adm)
      PROVE  Opens(Updated(rows, s, adm)[i])
    BY <1>1, <1>3 DEF Updated
<1> QED BY <1>2, <1>3

(* Naming a record changes no key and no digest.                            *)
LEMMA OpensNamed ==
    ASSUME NEW rows \in Seq(Rows), NEW f \in Files, NEW d,
           \A i \in DOMAIN rows : Opens(rows[i])
    PROVE  \A i \in DOMAIN Named(rows, d, f) : Opens(Named(rows, d, f)[i])
<1>1. ASSUME NEW i \in DOMAIN Named(rows, d, f)
      PROVE  Opens(Named(rows, d, f)[i])
    <2>1. i \in DOMAIN rows /\ rows[i] \in Rows
        BY <1>1 DEF Named
    <2>2. Opens([rows[i] EXCEPT !.fname = f])
        BY <2>1 DEF Opens, Rows
    <2> QED BY <2>1, <2>2 DEF Named
<1> QED BY <1>1

-----------------------------------------------------------------------------
(* Clients.                                                                 *)

(* A step of client c. *)
ClientStep(c) ==
    \/ Start(c) \/ Dialog(c) \/ OnEncryptFile(c) \/ Iteration(c)
    \/ Edit(c) \/ Quit(c) \/ Pass(c)

(* Client d, its dialog, handler and files, is where it was. *)
Same(d) ==
    /\ now'[d] = now[d] /\ AdminID'[d] = AdminID[d]
    /\ PlainPath_ary'[d] = PlainPath_ary[d] /\ CipherPath_ary'[d] = CipherPath_ary[d]
    /\ OrgName'[d] = OrgName[d] /\ OrgID'[d] = OrgID[d]
    /\ m_date_64t'[d] = m_date_64t[d]
    /\ pc'[d] = pc[d] /\ findex'[d] = findex[d] /\ serv'[d] = serv[d]
    /\ ContentKey'[d] = ContentKey[d] /\ found'[d] = found[d]
    /\ plain'[d] = plain[d] /\ cipher'[d] = cipher[d] /\ reported'[d] = reported[d]
    /\ edited'[d] = edited[d] /\ swallowed'[d] = swallowed[d]

(* A step of one client leaves every other client where it was: they share  *)
(* only the table.                                                          *)
LEMMA OthersSame ==
    ASSUME TypeOK, NEW c \in Clients, NEW d \in Clients, d # c, ClientStep(c)
    PROVE  Same(d)
<1> USE DEF TypeOK, DialogTypeOK, Same, Goto, Return, dbVars, uiVars, handlerVars, diskVars, historyVars
<1>1. CASE Start(c)
    BY <1>1 DEF Start, InitInstance
<1>2. CASE Dialog(c)
    <2>1. CASE OnReadFile(c)
        BY <1>2, <2>1 DEF Dialog, OnReadFile
    <2>2. CASE OnBnClickedButtonsavepath(c)
        BY <1>2, <2>2 DEF Dialog, OnBnClickedButtonsavepath
    <2>3. CASE TypeOrgName(c)
        BY <1>2, <2>3 DEF Dialog, TypeOrgName
    <2>4. CASE OnDtnDatetimechangeDatetimepicker1(c)
        BY <1>2, <2>4 DEF Dialog, OnDtnDatetimechangeDatetimepicker1
    <2>5. ASSUME NEW code, OnCbnSelchangeCombo1(c, code)
          PROVE  Same(d)
        BY <1>2, <2>5 DEF Dialog, OnCbnSelchangeCombo1
    <2> QED
        BY <1>2, <2>1, <2>2, <2>3, <2>4, <2>5 DEF Dialog
<1>3. CASE OnEncryptFile(c)
    BY <1>3 DEF OnEncryptFile, KeepsOrgID
<1>4. CASE Iteration(c)
    <2>1. CASE DigestPlain(c)
        BY <2>1 DEF DigestPlain
    <2>2. CASE GenKey(c)
        BY <2>2 DEF GenKey
    <2>3. CASE GetKey(c)
        BY <2>3 DEF GetKey
    <2>4. CASE CreateCipher(c)
        BY <2>4 DEF CreateCipher
    <2>5. CASE FillCipher(c)
        BY <2>5 DEF FillCipher
    <2>6. CASE FileError(c)
        BY <2>6 DEF FileError
    <2>7. CASE StoreSelect(c)
        BY <2>7 DEF StoreSelect
    <2>8. CASE StoreWrite(c)
        BY <2>8 DEF StoreWrite
    <2>9. CASE NameRecord(c)
        BY <2>9 DEF NameRecord
    <2> QED
        BY <1>4, <2>1, <2>2, <2>3, <2>4, <2>5, <2>6, <2>7, <2>8, <2>9 DEF Iteration
<1>5. CASE Edit(c)
    BY <1>5 DEF Edit
<1>6. CASE Quit(c)
    BY <1>6 DEF Quit, DialogGone
<1>7. CASE Pass(c)
    BY <1>7 DEF Pass, Tick
<1> QED
    BY <1>1, <1>2, <1>3, <1>4, <1>5, <1>6, <1>7 DEF ClientStep

(* What an invariant says of a client that is where it was. *)
LEMMA SameClient ==
    ASSUME NEW d \in Clients, Same(d), Aligned(d), Judged(d), InHand(d)
    PROVE  Aligned(d)' /\ Judged(d)' /\ InHand(d)'
<1>1. Aligned(d)'
    BY DEF Same, Aligned, SelFileNum
<1>2. Judged(d)'
    BY DEF Same, Judged, SelFileNum, Busy
<1>3. InHand(d)'
    BY DEF Same, InHand, CipherFile
<1> QED BY <1>1, <1>2, <1>3

-----------------------------------------------------------------------------
(* Types, step by step.  Each lemma is about one step of client c: the      *)
(* variables keep their types and the client its part of the invariant.     *)

ClientInv(c) == Aligned(c) /\ Judged(c) /\ InHand(c)

(* A login opens a dialog with nothing selected.                            *)
LEMMA TypeStart ==
    ASSUME TypeInv, NEW c \in Clients, Start(c)
    PROVE  TypeOK' /\ ClientInv(c)'
<1>1. TypeOK'
    BY DEF TypeInv, TypeOK, DbTypeOK, DialogTypeOK, Start, InitInstance, Goto, dbVars, diskVars,
       historyVars
<1>2. ClientInv(c)'
    BY KmServiceAssumption
       DEF TypeInv, TypeOK, DialogTypeOK, Start, InitInstance, Goto, ClientInv, Aligned, Judged,
           InHand,
       SelFileNum, Busy, Steps, HasServ, HasKey, HasBody
<1> QED BY <1>1, <1>2

(* Key generation fills the key of the KM_SERV in hand.                     *)
LEMMA TypeGenKey ==
    ASSUME TypeInv, NEW c \in Clients, GenKey(c)
    PROVE  TypeOK' /\ ClientInv(c)'
<1> USE DEF Steps, HasServ, HasKey, HasCopy, HasBody, Busy
<1>1. serv[c] \in Servs /\ serv[c].expire > 0 /\ now[c] \in Time /\ AdminID[c] # Nil
    BY DEF TypeInv, InHand, GenKey, TypeOK, DialogTypeOK
<1>2. /\ serv'[c] = gen_key(serv[c], now[c])
      /\ serv' \in [Clients -> Servs \cup {Nil}]
    BY <1>1, GenKeyFields DEF TypeInv, TypeOK, GenKey
<1>3. pc' \in [Clients -> Steps \cup {"off", "idle"}] /\ pc'[c] = "getkey"
    BY DEF TypeInv, TypeOK, GenKey, Goto
<1>4. TypeOK'
    BY <1>2, <1>3
       DEF TypeInv, TypeOK, GenKey, DbTypeOK, DialogTypeOK, dbVars, uiVars, diskVars, historyVars
<1>5. Aligned(c)' /\ Judged(c)'
    BY DEF TypeInv, TypeOK, Aligned, Judged, SelFileNum, GenKey, Goto, uiVars
<1>6. InHand(c)'
    BY <1>1, <1>2, <1>3, GenKeyFields DEF InHand, GenKey, uiVars
<1> QED BY <1>4, <1>5, <1>6 DEF ClientInv

(* Taking the key, or not, leaves a key buffer in ContentKey.               *)
LEMMA TypeGetKey ==
    ASSUME TypeInv, NEW c \in Clients, GetKey(c)
    PROVE  TypeOK' /\ ClientInv(c)'
<1> USE DEF Steps, HasServ, HasKey, HasCopy, HasBody, Busy
<1>1. serv[c] \in Servs /\ serv[c].expire > 0 /\ serv[c].skey # NoKey /\ AdminID[c] # Nil
    BY DEF TypeInv, InHand, GetKey
<1>2. get_skey(serv[c], now[c], ContentKey[c]) \in Keys
    BY <1>1 DEF TypeInv, TypeOK, get_skey, Servs
<1>3. ContentKey' \in [Clients -> Keys]
    BY <1>2 DEF TypeInv, TypeOK, GetKey
<1>4. pc' \in [Clients -> Steps \cup {"off", "idle"}] /\ pc'[c] = "create"
    BY DEF TypeInv, TypeOK, GetKey, Goto
<1>5. TypeOK'
    BY <1>3, <1>4
       DEF TypeInv, TypeOK, GetKey, DbTypeOK, DialogTypeOK, dbVars, uiVars, diskVars, historyVars
<1>6. Aligned(c)' /\ Judged(c)'
    BY DEF TypeInv, TypeOK, Aligned, Judged, SelFileNum, GetKey, Goto, uiVars
<1>7. InHand(c)'
    BY <1>1, <1>4 DEF InHand, GetKey, uiVars
<1> QED BY <1>5, <1>6, <1>7 DEF ClientInv

(* Inside the loop the current plain and cipher files exist as indices.     *)
LEMMA CurrentFiles ==
    ASSUME TypeInv, NEW c \in Clients, Busy(c)
    PROVE  /\ PlainFile(c) \in Files
           /\ CipherFile(c) \in Paths
           /\ OrgID[c] \in Orgs
           /\ m_date_64t[c] \in Deadlines
           /\ m_date_64t[c] \in Time
           /\ m_date_64t[c] > 0
<1>1. /\ PlainPath_ary[c] \in Selections
      /\ CipherPath_ary[c] \in Seq(Paths)
      /\ findex[c] \in 1..Len(PlainPath_ary[c])
      /\ Len(CipherPath_ary[c]) = Len(PlainPath_ary[c])
    BY DEF TypeInv, TypeOK, DialogTypeOK, Judged, Aligned, SelFileNum
<1>2. PlainFile(c) \in Files /\ CipherFile(c) \in Paths
    BY <1>1, DialogAssumption DEF PlainFile, CipherFile
<1>3. OrgID[c] \in Orgs /\ m_date_64t[c] \in Deadlines /\ m_date_64t[c] > 0
    BY DEF TypeInv, TypeOK, DialogTypeOK, Judged
<1> QED BY <1>2, <1>3, DialogAssumption

(* The first step of an iteration makes a KM_SERV with a deadline.          *)
LEMMA TypeDigestPlain ==
    ASSUME TypeInv, NEW c \in Clients, DigestPlain(c)
    PROVE  TypeOK' /\ ClientInv(c)'
<1> USE DEF Steps, HasServ, HasKey, HasCopy, HasBody, Busy
<1> DEFINE new == NewServ(OrgID[c], plain[c][PlainFile(c)], m_date_64t[c])
<1>1. Busy(c) /\ AdminID[c] # Nil
    BY DEF TypeInv, InHand, DigestPlain
<1>2. plain[c][PlainFile(c)] \in Texts
    BY <1>1, CurrentFiles DEF TypeInv, TypeOK
<1>3. new \in Servs /\ new.expire > 0
    BY <1>1, <1>2, CurrentFiles, NewServFields
<1>4. serv' \in [Clients -> Servs \cup {Nil}] /\ serv'[c] = new
    BY <1>3 DEF TypeInv, TypeOK, DigestPlain
<1>5. pc' \in [Clients -> Steps \cup {"off", "idle"}] /\ pc'[c] = "genkey"
    BY DEF TypeInv, TypeOK, DigestPlain, Goto
<1>6. TypeOK'
    BY <1>4, <1>5
       DEF TypeInv, TypeOK, DigestPlain, DbTypeOK, DialogTypeOK, dbVars, uiVars, diskVars,
           historyVars
<1>7. Aligned(c)' /\ Judged(c)'
    BY DEF TypeInv, TypeOK, Aligned, Judged, SelFileNum, DigestPlain, Goto, uiVars
<1>8. InHand(c)'
    BY <1>1, <1>3, <1>4, <1>5 DEF InHand, DigestPlain, uiVars
<1> QED BY <1>6, <1>7, <1>8 DEF ClientInv

(* The handler returns, whatever else happens to rows, files and reports.   *)
LEMMA TypeReturn ==
    ASSUME TypeInv, NEW c \in Clients, Return(c), UNCHANGED uiVars, AdminID[c] # Nil
    PROVE  /\ pc' \in [Clients -> Steps \cup {"off", "idle"}]
           /\ findex' \in [Clients -> Nat \ {0}]
           /\ serv' \in [Clients -> Servs \cup {Nil}]
           /\ ContentKey' \in [Clients -> Keys]
           /\ found' \in [Clients -> BOOLEAN]
           /\ ClientInv(c)'
<1>1. /\ pc' \in [Clients -> Steps \cup {"off", "idle"}]
      /\ findex' \in [Clients -> Nat \ {0}]
      /\ serv' \in [Clients -> Servs \cup {Nil}]
      /\ ContentKey' \in [Clients -> Keys]
      /\ found' \in [Clients -> BOOLEAN]
      /\ pc'[c] = "idle"
    BY DEF TypeInv, TypeOK, Return, Goto
<1>2. ClientInv(c)'
    BY <1>1 DEF TypeInv, ClientInv, Aligned, Judged, InHand, SelFileNum, Busy, Steps,
       HasServ, HasKey, HasBody, uiVars
<1> QED BY <1>1, <1>2

(* One file of one client changes. *)
LEMMA CipherType ==
    ASSUME TypeOK, NEW c \in Clients, NEW p \in Paths, NEW v \in CipherFiles
    PROVE  /\ [cipher EXCEPT ![c][p] = v] \in [Clients -> [Paths -> CipherFiles \cup {Nil}]]
           /\ [cipher EXCEPT ![c][p] = v][c][p] = v
           /\ \A q \in Paths : q # p => [cipher EXCEPT ![c][p] = v][c][q] = cipher[c][q]
BY DEF TypeOK

(* Creating the cipher file gives it a header, and the loop goes on or stops.*)
LEMMA TypeCreateCipher ==
    ASSUME TypeInv, NEW c \in Clients, CreateCipher(c)
    PROVE  TypeOK' /\ ClientInv(c)'
<1> USE DEF Steps, HasServ, HasKey, HasCopy, HasBody, Busy
<1> DEFINE new == [deadline |-> m_date_64t[c], digest |-> Nil, data |-> Nil]
<1>1. /\ Busy(c) /\ AdminID[c] # Nil
      /\ serv[c] \in Servs /\ serv[c].expire > 0 /\ serv[c].skey # NoKey
    BY DEF TypeInv, InHand, CreateCipher
<1>2. CipherFile(c) \in Paths /\ new \in CipherFiles /\ new # Nil
    BY <1>1, CurrentFiles, BatchAssumption DEF CipherFiles
<1>3. cipher' \in [Clients -> [Paths -> CipherFiles \cup {Nil}]]
      /\ cipher'[c][CipherFile(c)] = new
    BY <1>2, CipherType DEF TypeInv, CreateCipher
<1>4. reported' \in [Clients -> SUBSET Paths] /\ swallowed' \in [Clients -> SUBSET Paths]
    BY DEF TypeInv, TypeOK, CreateCipher
<1>5. CASE Goto(c, "fill") /\ UNCHANGED <<findex, serv, ContentKey, found>>
    <2>1. pc' \in [Clients -> Steps \cup {"off", "idle"}] /\ pc'[c] = "fill"
        BY <1>5 DEF TypeInv, TypeOK, Goto
    <2>2. TypeOK'
        BY <1>3, <1>4, <1>5, <2>1
           DEF TypeInv, TypeOK, CreateCipher, DbTypeOK, DialogTypeOK, dbVars, uiVars
    <2>3. Aligned(c)' /\ Judged(c)'
        BY <1>5, <2>1, <1>1 DEF TypeInv, Aligned, Judged, SelFileNum, CreateCipher, uiVars
    <2>4. CipherFile(c)' = CipherFile(c)
        BY <1>5 DEF CipherFile, CreateCipher, uiVars
    <2>5. InHand(c)'
        BY <1>1, <1>2, <1>3, <1>5, <2>1, <2>4 DEF InHand, CreateCipher, uiVars
    <2> QED BY <2>2, <2>3, <2>5 DEF ClientInv
<1>6. CASE Return(c)
    <2>1. UNCHANGED uiVars
        BY DEF CreateCipher
    <2> HIDE DEF Steps, HasServ, HasKey, HasCopy, HasBody, Busy
    <2>2. TypeOK'
        BY <1>1, <1>3, <1>4, <1>6, <2>1, TypeReturn
           DEF TypeInv, TypeOK, CreateCipher, DbTypeOK, DialogTypeOK, dbVars, uiVars
    <2>3. ClientInv(c)'
        BY <1>1, <1>6, <2>1, TypeReturn
    <2> QED BY <2>2, <2>3
<1> QED BY <1>5, <1>6 DEF CreateCipher

(* Encryption fills data and digest of the current cipher file, and only those.*)
LEMMA TypeFillCipher ==
    ASSUME TypeInv, NEW c \in Clients, FillCipher(c)
    PROVE  /\ TypeOK' /\ ClientInv(c)'
           /\ serv'[c] = [serv[c] EXCEPT !.md5_c = Sealed(plain[c][PlainFile(c)], ContentKey[c])]
           /\ serv'[c].md5_c = Sealed(plain[c][PlainFile(c)], ContentKey[c])
           /\ serv'[c].skey = serv[c].skey
           /\ serv'[c].expire = serv[c].expire
           /\ cipher'[c][CipherFile(c)] \in CipherFiles
           /\ cipher'[c][CipherFile(c)].digest = Sealed(plain[c][PlainFile(c)], ContentKey[c])
           /\ cipher'[c][CipherFile(c)].data = Sealed(plain[c][PlainFile(c)], ContentKey[c])
           /\ \A q \in Paths : q # CipherFile(c) => cipher'[c][q] = cipher[c][q]
           /\ Sealed(plain[c][PlainFile(c)], ContentKey[c]) \in Bodies
<1> USE DEF Steps, HasServ, HasKey, HasCopy, HasBody, Busy
<1> DEFINE body == Sealed(plain[c][PlainFile(c)], ContentKey[c])
           old == cipher[c][CipherFile(c)]
           new == [[old EXCEPT !.digest = body] EXCEPT !.data = body]
<1>1. /\ Busy(c) /\ AdminID[c] # Nil
      /\ serv[c] \in Servs /\ serv[c].expire > 0 /\ serv[c].skey # NoKey
      /\ old # Nil
    BY DEF TypeInv, InHand, FillCipher
<1>2. body \in Bodies
    BY <1>1, CurrentFiles, SealedType DEF TypeInv, TypeOK
<1>3. body # Nil
    BY <1>2, KmServiceAssumption
<1>4. CipherFile(c) \in Paths /\ old \in CipherFiles
    BY <1>1, CurrentFiles DEF TypeInv, TypeOK
<1>5. new \in CipherFiles /\ new.digest = body /\ new.data = body
    BY <1>2, <1>4 DEF CipherFiles
<1>6. cipher' = [cipher EXCEPT ![c][CipherFile(c)] = new]
    <2>1. cipher' = [[cipher EXCEPT ![c][CipherFile(c)].digest = body] EXCEPT ![c][CipherFile(c)].data = body]
        BY DEF FillCipher
    <2> HIDE DEF body
    <2> QED BY <2>1, <1>4 DEF TypeInv, TypeOK
<1>7. /\ cipher' \in [Clients -> [Paths -> CipherFiles \cup {Nil}]]
      /\ cipher'[c][CipherFile(c)] = new
      /\ \A q \in Paths : q # CipherFile(c) => cipher'[c][q] = cipher[c][q]
    <2> HIDE DEF new
    <2> QED BY <1>4, <1>5, <1>6, CipherType DEF TypeInv
<1>8. /\ serv'[c] = [serv[c] EXCEPT !.md5_c = body]
      /\ serv' \in [Clients -> Servs \cup {Nil}]
      /\ serv'[c] \in Servs /\ serv'[c].md5_c = body
      /\ serv'[c].skey = serv[c].skey /\ serv'[c].expire = serv[c].expire
    <2>1. [serv[c] EXCEPT !.md5_c = body] \in Servs
        BY <1>1, <1>2, Md5cFields
    <2>2. serv' = [serv EXCEPT ![c] = [serv[c] EXCEPT !.md5_c = body]]
        BY DEF FillCipher
    <2>3. serv'[c] = [serv[c] EXCEPT !.md5_c = body] /\ serv' \in [Clients -> Servs \cup {Nil}]
        BY <2>1, <2>2 DEF TypeInv, TypeOK
    <2> QED BY <1>1, <1>2, <2>1, <2>3, Md5cFields
<1>9. pc' \in [Clients -> Steps \cup {"off", "idle"}] /\ pc'[c] = "select"
    BY DEF TypeInv, TypeOK, FillCipher, Goto
<1>9a. torn' \in SUBSET (Texts \X Bodies) /\ edited' \in [Clients -> BOOLEAN]
    <2>1. serv[c].md5_p \in Texts
        BY <1>1 DEF Servs
    <2>2. <<serv[c].md5_p, body>> \in Texts \X Bodies
        BY <2>1, <1>2
    <2>3. torn' \subseteq torn \cup {<<serv[c].md5_p, body>>}
        BY DEF FillCipher
    <2>4. torn' \in SUBSET (Texts \X Bodies)
        BY <2>2, <2>3 DEF TypeInv, TypeOK
    <2>5. edited' \in [Clients -> BOOLEAN]
        BY DEF FillCipher, TypeInv, TypeOK
    <2> QED BY <2>4, <2>5
<1>10. TypeOK'
    BY <1>7, <1>8, <1>9, <1>9a
       DEF TypeInv, TypeOK, FillCipher, DbTypeOK, DialogTypeOK, dbVars, uiVars
<1>11. Aligned(c)' /\ Judged(c)'
    BY <1>1, <1>9 DEF TypeInv, Aligned, Judged, SelFileNum, FillCipher, uiVars
<1>12. InHand(c)'
    BY <1>1, <1>3, <1>8, <1>9 DEF InHand, FillCipher, uiVars
<1> QED BY <1>2, <1>5, <1>7, <1>8, <1>10, <1>11, <1>12 DEF ClientInv

(* A failing file access only ends the batch.                               *)
LEMMA TypeFileError ==
    ASSUME TypeInv, NEW c \in Clients, FileError(c)
    PROVE  TypeOK' /\ ClientInv(c)'
<1>1. Return(c) /\ UNCHANGED uiVars /\ AdminID[c] # Nil
    BY DEF FileError, TypeInv, InHand
<1>2. TypeOK'
    BY <1>1, TypeReturn
       DEF TypeInv, TypeOK, FileError, DbTypeOK, DialogTypeOK, dbVars, uiVars, diskVars, historyVars
<1> QED BY <1>1, <1>2, TypeReturn

(* The select of `store' finds a KM_SERV that is fit to be stored.          *)
LEMMA TypeStoreSelect ==
    ASSUME TypeInv, NEW c \in Clients, StoreSelect(c)
    PROVE  /\ TypeOK' /\ ClientInv(c)'
           /\ service' = service
           /\ pc'[c] = "write"
           /\ serv'[c] = [serv[c] EXCEPT !.enc_tm = now[c]]
           /\ serv'[c].md5_c = serv[c].md5_c /\ serv'[c].skey = serv[c].skey
           /\ serv'[c].expire = serv[c].expire /\ serv'[c].enc_tm = now[c]
           /\ UNCHANGED <<findex, ContentKey>>
<1> USE DEF Steps, HasServ, HasKey, HasCopy, HasBody, Busy
<1>1. /\ Busy(c) /\ AdminID[c] # Nil /\ now[c] \in Time
      /\ serv[c] \in Servs /\ serv[c].expire > 0 /\ serv[c].skey # NoKey
      /\ serv[c].md5_c # Nil
    BY DEF TypeInv, TypeOK, DialogTypeOK, InHand, StoreSelect
<1>2. Storable(serv[c])
    BY <1>1 DEF Storable, Servs, Time
<1>3. PICK code \in Codes \cup {0} :
          /\ Query(code)
          /\ serv' = [serv EXCEPT ![c].enc_tm = now[c]]
          /\ found' = [found EXCEPT ![c] = RowsReturned(service, serv[c].md5_c, code)]
          /\ Goto(c, "write")
          /\ UNCHANGED <<findex, ContentKey>>
    BY <1>2, Zenon DEF StoreSelect
<1>4. /\ serv'[c] = [serv[c] EXCEPT !.enc_tm = now[c]]
      /\ serv' \in [Clients -> Servs \cup {Nil}]
    <2>1. [serv[c] EXCEPT !.enc_tm = now[c]] \in Servs
        BY <1>1, EncTmFields
    <2>2. serv' = [serv EXCEPT ![c] = [serv[c] EXCEPT !.enc_tm = now[c]]]
        BY <1>3
    <2> QED BY <2>1, <2>2 DEF TypeInv, TypeOK
<1>5. pc' \in [Clients -> Steps \cup {"off", "idle"}] /\ pc'[c] = "write"
    BY <1>3 DEF TypeInv, TypeOK, Goto
<1>6. found' \in [Clients -> BOOLEAN]
    BY <1>3 DEF TypeInv, TypeOK, RowsReturned
<1>7. service' = service /\ faults' \in 0..MaxFaults
    BY <1>3, KmServiceAssumption DEF TypeInv, TypeOK, DbTypeOK, Query, Returns
<1>8. current_date_64t' \in [Clients -> Time]
    BY <1>1 DEF TypeInv, TypeOK, DialogTypeOK, StoreSelect
<1>9. TypeOK'
    BY <1>3, <1>4, <1>5, <1>6, <1>7, <1>8
       DEF TypeInv, TypeOK, StoreSelect, DbTypeOK, DialogTypeOK, diskVars, historyVars
<1>10. Aligned(c)' /\ Judged(c)'
    BY <1>1, <1>3, <1>5 DEF TypeInv, Aligned, Judged, SelFileNum, StoreSelect
<1>11. InHand(c)'
    BY <1>1, <1>4, <1>5, EncTmFields DEF InHand, StoreSelect
<1> QED BY <1>1, <1>3, <1>4, <1>5, <1>7, <1>9, <1>10, <1>11, EncTmFields DEF ClientInv

(* Insert or update keeps the table a sequence of rows.                     *)
LEMMA TypeStoreWrite ==
    ASSUME TypeInv, NEW c \in Clients, StoreWrite(c)
    PROVE  /\ TypeOK' /\ ClientInv(c)'
           /\ Stored(serv[c])
           /\ AdminID[c] \in Admins
           /\ service' \in {service, Inserted(service, serv[c], AdminID[c]),
                            Updated(service, serv[c], AdminID[c])}
           /\ pc'[c] # "idle" => serv'[c] = serv[c]
<1> USE DEF Steps, HasServ, HasKey, HasCopy, HasBody, Busy
<1>1. /\ Busy(c) /\ AdminID[c] # Nil /\ AdminID[c] \in Admins
      /\ serv[c] \in Servs /\ serv[c].expire > 0 /\ serv[c].skey # NoKey
      /\ serv[c].md5_c # Nil
    BY DEF TypeInv, TypeOK, DialogTypeOK, InHand, StoreWrite
<1>2. Stored(serv[c])
    BY <1>1 DEF Stored
<1>3. PICK code \in Codes \cup {0, -4} :
          /\ StoreWrites(serv[c], AdminID[c], found[c], code)
          /\ IF code # 0
             THEN Return(c)
             ELSE Goto(c, "name") /\ UNCHANGED <<findex, serv, ContentKey, found>>
    BY Zenon DEF StoreWrite, StoreFails
<1>4. service' \in {service, Inserted(service, serv[c], AdminID[c]),
                    Updated(service, serv[c], AdminID[c])}
    BY <1>3 DEF StoreWrites, Statement, dbVars
<1>5. service' \in Seq(Rows)
    BY <1>1, <1>2, <1>4, InsertedType, UpdatedType DEF TypeInv, TypeOK, DbTypeOK
<1>6. faults' \in 0..MaxFaults
    BY <1>3, KmServiceAssumption
       DEF TypeInv, TypeOK, DbTypeOK, StoreWrites, Statement, Returns, dbVars
<1>7. UNCHANGED uiVars
    BY DEF StoreWrite
<1>8. CASE Goto(c, "name") /\ UNCHANGED <<findex, serv, ContentKey, found>>
    <2>1. pc' \in [Clients -> Steps \cup {"off", "idle"}] /\ pc'[c] = "name"
        BY <1>8 DEF TypeInv, TypeOK, Goto
    <2>2. TypeOK'
        BY <1>5, <1>6, <1>8, <2>1
           DEF TypeInv, TypeOK, StoreWrite, DbTypeOK, DialogTypeOK, uiVars, diskVars, historyVars
    <2>3. Aligned(c)' /\ Judged(c)'
        BY <1>1, <1>8, <2>1 DEF TypeInv, Aligned, Judged, SelFileNum, StoreWrite, uiVars
    <2>4. InHand(c)'
        BY <1>1, <1>8, <2>1 DEF InHand, StoreWrite, uiVars
    <2> QED BY <1>1, <1>2, <1>4, <1>8, <2>2, <2>3, <2>4 DEF ClientInv
<1>9. CASE Return(c)
    <2> HIDE DEF Steps, HasServ, HasKey, HasCopy, HasBody, Busy
    <2>1. TypeOK'
        BY <1>1, <1>5, <1>6, <1>7, <1>9, TypeReturn
           DEF TypeInv, TypeOK, StoreWrite, DbTypeOK, DialogTypeOK, uiVars, diskVars, historyVars
    <2>2. ClientInv(c)' /\ pc'[c] = "idle"
        BY <1>1, <1>7, <1>9, TypeReturn DEF Return, Goto, TypeInv, TypeOK
    <2> QED BY <1>1, <1>2, <1>4, <2>1, <2>2
<1> QED BY <1>3, <1>8, <1>9

(* Naming the record keeps the table a sequence of rows and reports one file.*)
LEMMA TypeNameRecord ==
    ASSUME TypeInv, NEW c \in Clients, NameRecord(c)
    PROVE  /\ TypeOK' /\ ClientInv(c)'
           /\ PlainFile(c) \in Files /\ CipherFile(c) \in Paths
           /\ service' \in {service, Named(service, serv[c].md5_c, PlainFile(c))}
           /\ \/ pc'[c] = "idle"
              \/ /\ pc'[c] = "digest" /\ findex'[c] = findex[c] + 1
                 /\ reported'[c] = reported[c] \cup {CipherFile(c)}
           /\ reported'[c] \in {reported[c], reported[c] \cup {CipherFile(c)}}
<1> USE DEF Steps, HasServ, HasKey, HasCopy, HasBody, Busy
<1>1. /\ Busy(c) /\ AdminID[c] # Nil
    BY DEF TypeInv, InHand, NameRecord
<1>2. PlainFile(c) \in Files /\ CipherFile(c) \in Paths
    BY <1>1, CurrentFiles
<1>3. PICK code \in Codes \cup {0} :
          /\ Statement(code, Named(service, serv[c].md5_c, PlainFile(c)))
          /\ IF code = -3
             THEN Return(c) /\ UNCHANGED <<reported, swallowed>>
             ELSE /\ reported' = [reported EXCEPT ![c] = @ \cup {CipherFile(c)}]
                  /\ swallowed' = IF code = 0 THEN swallowed
                                  ELSE [swallowed EXCEPT ![c] = @ \cup {CipherFile(c)}]
                  /\ IF MoreFiles(c)
                     THEN /\ findex' = [findex EXCEPT ![c] = NextIndex(@)]
                          /\ Goto(c, "digest")
                          /\ serv' = [serv EXCEPT ![c] = Nil]
                          /\ found' = [found EXCEPT ![c] = FALSE]
                          /\ UNCHANGED ContentKey
                     ELSE Return(c)
    BY Zenon DEF NameRecord, NamingFails
<1>4. service' \in {service, Named(service, serv[c].md5_c, PlainFile(c))}
    BY <1>3 DEF Statement
<1>5. service' \in Seq(Rows) /\ faults' \in 0..MaxFaults
    BY <1>2, <1>3, <1>4, NamedType, KmServiceAssumption
       DEF TypeInv, TypeOK, DbTypeOK, Statement, Returns
<1>6. /\ reported' \in [Clients -> SUBSET Paths] /\ swallowed' \in [Clients -> SUBSET Paths]
      /\ reported'[c] \in {reported[c], reported[c] \cup {CipherFile(c)}}
    <2>1. reported \in [Clients -> SUBSET Paths] /\ swallowed \in [Clients -> SUBSET Paths]
        BY DEF TypeInv, TypeOK
    <2>2. \/ reported' = reported
          \/ reported' = [reported EXCEPT ![c] = @ \cup {CipherFile(c)}]
        BY <1>3
    <2>3. \/ swallowed' = swallowed
          \/ swallowed' = [swallowed EXCEPT ![c] = @ \cup {CipherFile(c)}]
        BY <1>3
    <2> QED BY <1>2, <2>1, <2>2, <2>3
<1>7. UNCHANGED uiVars
    BY DEF NameRecord
<1>8. CASE Return(c)
    <2> HIDE DEF Steps, HasServ, HasKey, HasCopy, HasBody, Busy
    <2>1. TypeOK'
        BY <1>1, <1>5, <1>6, <1>7, <1>8, TypeReturn
           DEF TypeInv, TypeOK, NameRecord, DbTypeOK, DialogTypeOK, uiVars, diskVars, historyVars
    <2>2. ClientInv(c)' /\ pc'[c] = "idle"
        BY <1>1, <1>7, <1>8, TypeReturn DEF Return, Goto, TypeInv, TypeOK
    <2> QED BY <1>2, <1>4, <1>6, <2>1, <2>2
<1>9. CASE ~Return(c)
    <2>1. /\ findex[c] < SelFileNum(c)
          /\ findex' = [findex EXCEPT ![c] = @ + 1]
          /\ Goto(c, "digest")
          /\ serv' = [serv EXCEPT ![c] = Nil]
          /\ found' = [found EXCEPT ![c] = FALSE]
          /\ UNCHANGED ContentKey
          /\ reported' = [reported EXCEPT ![c] = @ \cup {CipherFile(c)}]
        BY <1>3, <1>9 DEF MoreFiles, NextIndex
    <2>2. pc' \in [Clients -> Steps \cup {"off", "idle"}] /\ pc'[c] = "digest"
        BY <2>1 DEF TypeInv, TypeOK, Goto
    <2>3. findex[c] \in 1..SelFileNum(c) /\ SelFileNum(c) \in Nat
        BY <1>1, DialogAssumption DEF TypeInv, TypeOK, DialogTypeOK, Judged, SelFileNum
    <2>4. findex' \in [Clients -> Nat \ {0}] /\ findex'[c] = findex[c] + 1
          /\ findex'[c] \in 1..SelFileNum(c)
        BY <2>1, <2>3 DEF TypeInv, TypeOK
    <2>5. TypeOK'
        BY <1>5, <1>6, <1>7, <2>1, <2>2, <2>4
           DEF TypeInv, TypeOK, NameRecord, DbTypeOK, DialogTypeOK, uiVars, diskVars, historyVars
    <2>6. Aligned(c)' /\ Judged(c)'
        BY <1>1, <1>7, <2>1, <2>2, <2>4 DEF TypeInv, Aligned, Judged, SelFileNum, uiVars
    <2>7. InHand(c)'
        BY <1>1, <1>7, <2>2 DEF InHand, uiVars
    <2>8. reported'[c] = reported[c] \cup {CipherFile(c)}
        BY <2>1 DEF TypeInv, TypeOK
    <2> QED BY <1>2, <1>4, <1>6, <2>2, <2>4, <2>5, <2>6, <2>7, <2>8 DEF ClientInv
<1> QED BY <1>8, <1>9

(* New files are chosen and the cipher paths are gone.                      *)
LEMMA TypeReadFile ==
    ASSUME TypeInv, NEW c \in Clients, Dialog(c), OnReadFile(c), UNCHANGED dbVars
    PROVE  TypeOK' /\ ClientInv(c)'
<1>1. PICK s \in Selections \cup {<<>>} : PlainPath_ary' = [PlainPath_ary EXCEPT ![c] = s]
    BY DEF OnReadFile
<1>2. /\ PlainPath_ary' \in [Clients -> Selections \cup {<<>>}]
      /\ CipherPath_ary' \in [Clients -> Seq(Paths)] /\ CipherPath_ary'[c] = <<>>
      /\ OrgName' \in [Clients -> Orgs \cup {Nil}]
      /\ m_dateCtrl' \in [Clients -> Time]
    BY <1>1 DEF TypeInv, TypeOK, DialogTypeOK, OnReadFile
<1>3. TypeOK'
    BY <1>2
       DEF TypeInv, TypeOK, OnReadFile, Dialog, DbTypeOK, DialogTypeOK, dbVars, handlerVars,
           diskVars, historyVars
<1>4. pc[c] = "idle" /\ pc' = pc /\ AdminID' = AdminID
    BY DEF Dialog, OnReadFile, handlerVars
<1>5. ClientInv(c)'
    BY <1>2, <1>4
       DEF TypeInv, ClientInv, Aligned, Judged, InHand, Busy, Steps, HasServ, HasKey, HasBody
<1> QED BY <1>3, <1>5

(* Cipher paths are chosen: one for each file, or none.                     *)
LEMMA TypeSavepath ==
    ASSUME TypeInv, NEW c \in Clients, Dialog(c), OnBnClickedButtonsavepath(c), UNCHANGED dbVars
    PROVE  TypeOK' /\ ClientInv(c)'
<1>1. /\ pc[c] = "idle" /\ pc' = pc /\ AdminID' = AdminID /\ PlainPath_ary' = PlainPath_ary
      /\ PlainPath_ary[c] \in Selections
    BY DEF Dialog, OnBnClickedButtonsavepath, handlerVars, TypeInv, TypeOK, DialogTypeOK
<1>2. PlainPath_ary[c] \in Seq(Files) /\ Len(PlainPath_ary[c]) \in Nat
    BY <1>1, DialogAssumption
<1>3. /\ CipherPath_ary' \in [Clients -> Seq(Paths)]
      /\ \/ CipherPath_ary'[c] = <<>>
         \/ /\ Len(CipherPath_ary'[c]) = SelFileNum(c)
            /\ SelFileNum(c) > 1 =>
                 \A i \in 1..SelFileNum(c) : CipherPath_ary'[c][i][2] = PlainPath_ary[c][i]
    <2>1. CASE SelFileNum(c) = 1
        <3>1. PICK s \in {<<p>> : p \in Paths} \cup {<<>>} :
                  CipherPath_ary' = [CipherPath_ary EXCEPT ![c] = s]
            BY <2>1 DEF OnBnClickedButtonsavepath
        <3>2. s \in Seq(Paths) /\ (s = <<>> \/ Len(s) = 1)
            <4>1. CASE s = <<>>
                BY <4>1
            <4>2. ASSUME NEW p \in Paths, s = <<p>>
                  PROVE  s \in Seq(Paths) /\ Len(s) = 1
                <5>1. <<p>> \in Seq(Paths) /\ Len(<<p>>) = 1
                    OBVIOUS
                <5> QED BY <4>2, <5>1
            <4> QED BY <4>1, <4>2
        <3> QED BY <2>1, <3>1, <3>2 DEF TypeInv, TypeOK, DialogTypeOK
    <2>2. CASE SelFileNum(c) # 1
        <3>1. PICK d \in Dirs :
                  CipherPath_ary' = [CipherPath_ary EXCEPT
                    ![c] = [i \in 1..SelFileNum(c) |-> <<d, PlainPath_ary[c][i]>>]]
            BY <2>2 DEF OnBnClickedButtonsavepath, CipherNames, SelFileNum
        <3> DEFINE s == [i \in 1..SelFileNum(c) |-> <<d, PlainPath_ary[c][i]>>]
        <3>2. \A i \in 1..SelFileNum(c) : <<d, PlainPath_ary[c][i]>> \in Paths
            BY <1>2 DEF SelFileNum, Paths
        <3>3. s \in Seq(Paths) /\ Len(s) = SelFileNum(c)
              /\ \A i \in 1..SelFileNum(c) : s[i][2] = PlainPath_ary[c][i]
            BY <1>2, <3>2 DEF SelFileNum
        <3>4. CipherPath_ary' = [CipherPath_ary EXCEPT ![c] = s]
            BY <3>1
        <3> HIDE DEF s
        <3> QED BY <3>3, <3>4 DEF TypeInv, TypeOK, DialogTypeOK
    <2> QED BY <2>1, <2>2
<1>4. TypeOK'
    BY <1>3
       DEF TypeInv, TypeOK, OnBnClickedButtonsavepath, Dialog, DbTypeOK, DialogTypeOK, dbVars,
           handlerVars, diskVars, historyVars
<1>5. ClientInv(c)'
    BY <1>1, <1>3
       DEF TypeInv, ClientInv, Aligned, Judged, InHand, SelFileNum, Busy, Steps, HasServ, HasKey,
           HasBody
<1> QED BY <1>4, <1>5

(* Every handler of the dialog keeps the types and the paths aligned.       *)
LEMMA TypeDialog ==
    ASSUME TypeInv, NEW c \in Clients, Dialog(c)
    PROVE  TypeOK' /\ ClientInv(c)'
<1> USE DEF DbTypeOK, DialogTypeOK, dbVars, handlerVars, diskVars, historyVars
<1>1. CASE OnReadFile(c) /\ UNCHANGED dbVars
    BY <1>1, TypeReadFile
<1>2. CASE OnBnClickedButtonsavepath(c) /\ UNCHANGED dbVars
    BY <1>2, TypeSavepath
<1>3. CASE TypeOrgName(c) /\ UNCHANGED dbVars
    <2>1. TypeOK'
        BY <1>3 DEF TypeInv, TypeOK, TypeOrgName, Dialog
    <2>2. ClientInv(c)'
        BY <1>3
           DEF TypeInv, ClientInv, Aligned, Judged, InHand, SelFileNum, Busy, CipherFile,
               TypeOrgName, Dialog,
           Steps, HasServ, HasKey, HasBody
    <2> QED BY <2>1, <2>2
<1>4. CASE OnDtnDatetimechangeDatetimepicker1(c) /\ UNCHANGED dbVars
    <2>1. PICK t \in Deadlines :
            /\ m_date_64t' = [m_date_64t EXCEPT ![c] = t]
            /\ current_date_64t' = [current_date_64t EXCEPT ![c] = now[c]]
            /\ m_dateCtrl' = [m_dateCtrl EXCEPT ![c] = IF now[c] >= t THEN now[c] ELSE t]
            /\ UNCHANGED <<now, AdminID, PlainPath_ary, CipherPath_ary, OrgName, OrgID>>
        BY <1>4 DEF OnDtnDatetimechangeDatetimepicker1
    <2>2. m_dateCtrl' \in [Clients -> Time] /\ current_date_64t' \in [Clients -> Time]
          /\ m_date_64t' \in [Clients -> Deadlines \cup {-1}]
        BY <2>1, DialogAssumption DEF TypeInv, TypeOK
    <2>3. TypeOK'
        BY <1>4, <2>1, <2>2 DEF TypeInv, TypeOK, Dialog
    <2>4. ClientInv(c)'
        BY <1>4, <2>1 DEF TypeInv, ClientInv, Aligned, Judged, InHand, SelFileNum, Busy, Dialog,
           Steps, HasServ, HasKey, HasBody
    <2> QED BY <2>3, <2>4
<1>5. ASSUME NEW code \in Codes \cup {0}, OnCbnSelchangeCombo1(c, code), Query(code)
      PROVE  TypeOK' /\ ClientInv(c)'
    <2>1. service' = service /\ faults' \in 0..MaxFaults
        BY <1>5, KmServiceAssumption DEF Query, Returns, TypeInv, TypeOK
    <2>2. PICK o \in Orgs :
            /\ OrgName' = [OrgName EXCEPT ![c] = o]
            /\ OrgID' = IF code = 0 THEN [OrgID EXCEPT ![c] = o] ELSE OrgID
            /\ UNCHANGED <<now, AdminID, PlainPath_ary, CipherPath_ary, m_dateCtrl,
                           m_date_64t, current_date_64t>>
        BY <1>5 DEF OnCbnSelchangeCombo1
    <2>3. OrgName' \in [Clients -> Orgs \cup {Nil}] /\ OrgID' \in [Clients -> Orgs \cup {Nil}]
        BY <2>2 DEF TypeInv, TypeOK
    <2>4. TypeOK'
        BY <2>1, <2>2, <2>3 DEF TypeInv, TypeOK, Dialog
    <2>5. ClientInv(c)'
        BY <2>2 DEF TypeInv, ClientInv, Aligned, Judged, InHand, SelFileNum, Busy, Dialog,
           Steps, HasServ, HasKey, HasBody
    <2> QED BY <2>4, <2>5
<1> QED BY <1>1, <1>2, <1>3, <1>4, <1>5 DEF Dialog

(* A batch begins only with what JudgeBeforeEncrypt has seen to.            *)
LEMMA TypeOnEncryptFile ==
    ASSUME TypeInv, NEW c \in Clients, OnEncryptFile(c)
    PROVE  /\ TypeOK' /\ ClientInv(c)'
           /\ pc'[c] \in {"idle", "digest"}
           /\ findex'[c] = 1
           /\ service' = service
<1>1. PICK code \in Codes \cup {0} :
          /\ IF LooksUpOrg(c) THEN Query(code) ELSE UNCHANGED dbVars
          /\ KeepsOrgID(c, code)
          /\ pc' = [pc EXCEPT ![c] = IF JudgeBeforeEncrypt(c, code) THEN "digest" ELSE "idle"]
    BY Zenon DEF OnEncryptFile
<1>2. service' = service /\ faults' \in 0..MaxFaults
    BY <1>1, KmServiceAssumption DEF Query, Returns, TypeInv, TypeOK, DbTypeOK, dbVars
<1>3. OrgID' \in [Clients -> Orgs \cup {Nil}]
      /\ (JudgeBeforeEncrypt(c, code) => OrgID'[c] # Nil)
    BY <1>1, KmServiceAssumption
       DEF KeepsOrgID, OrgFound, LooksUpOrg, JudgeBeforeEncrypt, TypeInv, TypeOK, DialogTypeOK
<1>4. pc' \in [Clients -> Steps \cup {"off", "idle"}]
      /\ pc'[c] = (IF JudgeBeforeEncrypt(c, code) THEN "digest" ELSE "idle")
    BY <1>1 DEF TypeInv, TypeOK, Steps
<1>5. findex' \in [Clients -> Nat \ {0}] /\ findex'[c] = 1
    BY DEF TypeInv, TypeOK, OnEncryptFile
<1>6. TypeOK'
    BY <1>1, <1>2, <1>3, <1>4, <1>5
       DEF TypeInv, TypeOK, OnEncryptFile, KeepsOrgID, DbTypeOK, DialogTypeOK, diskVars, historyVars
<1>7. Aligned(c)' /\ InHand(c)'
    BY <1>1, <1>4
       DEF TypeInv, Aligned, InHand, SelFileNum, OnEncryptFile, KeepsOrgID, Steps, HasServ,
           HasKey, HasBody
<1>8. Judged(c)'
    <2>1. CASE JudgeBeforeEncrypt(c, code)
        <3>1. /\ PlainPath_ary[c] # <<>> /\ CipherPath_ary[c] # <<>>
              /\ m_date_64t[c] # -1 /\ ~(current_date_64t[c] >= m_date_64t[c])
            BY <2>1 DEF JudgeBeforeEncrypt, OrgFound, LooksUpOrg
        <3>2. m_date_64t[c] > 0
            <4>1. m_date_64t[c] \in Time /\ current_date_64t[c] \in Time
                BY <3>1, DialogAssumption DEF TypeInv, TypeOK, DialogTypeOK
            <4> QED BY <3>1, <4>1, KmServiceAssumption DEF Time
        <3>3. 1 \in 1..SelFileNum(c)
            BY <3>1, DialogAssumption DEF TypeInv, TypeOK, DialogTypeOK, SelFileNum
        <3> QED BY <1>1, <1>3, <1>5, <2>1, <3>1, <3>2, <3>3 DEF Judged, KeepsOrgID, SelFileNum
    <2>2. CASE ~JudgeBeforeEncrypt(c, code)
        BY <1>4, <2>2 DEF Judged, Busy, Steps
    <2> QED BY <2>1, <2>2
<1> QED BY <1>2, <1>4, <1>5, <1>6, <1>7, <1>8 DEF ClientInv

(* Another program's writing changes plain files only.                      *)
LEMMA TypeEdit ==
    ASSUME TypeInv, NEW c \in Clients, Edit(c)
    PROVE  TypeOK' /\ ClientInv(c)'
<1>1. TypeOK'
    BY DEF TypeInv, TypeOK, Edit, DbTypeOK, DialogTypeOK, dbVars, uiVars, handlerVars
<1>2. ClientInv(c)'
    BY DEF TypeInv, ClientInv, Aligned, Judged, InHand, SelFileNum, Busy, CipherFile, Edit,
       uiVars, handlerVars
<1> QED BY <1>1, <1>2

(* The end of the process leaves a client with nothing.                     *)
LEMMA TypeQuit ==
    ASSUME TypeInv, NEW c \in Clients, Quit(c)
    PROVE  TypeOK' /\ ClientInv(c)' /\ pc'[c] = "off"
<1>1. TypeOK'
    <2>1. DbTypeOK'
        BY DEF TypeInv, TypeOK, Quit, DbTypeOK, dbVars
    <2>2. DialogTypeOK'
        BY KmServiceAssumption DEF TypeInv, TypeOK, Quit, DialogGone, DialogTypeOK, Time
    <2>3. ContentKey' \in [Clients -> Keys]
        BY DEF TypeInv, TypeOK, Quit, Keys
    <2>4. /\ pc' \in [Clients -> Steps \cup {"off", "idle"}]
          /\ findex' \in [Clients -> Nat \ {0}]
          /\ serv' \in [Clients -> Servs \cup {Nil}]
          /\ found' \in [Clients -> BOOLEAN]
        BY DEF TypeInv, TypeOK, Quit, Goto
    <2>5. UNCHANGED <<plain, cipher, reported, edited, torn, swallowed>>
        BY DEF Quit, diskVars, historyVars
    <2> QED BY <2>1, <2>2, <2>3, <2>4, <2>5 DEF TypeInv, TypeOK
<1>2. ClientInv(c)' /\ pc'[c] = "off"
    BY DEF TypeInv, TypeOK, DialogTypeOK, Quit, DialogGone, Goto, ClientInv, Aligned, Judged,
       InHand, Busy,
       Steps, HasServ, HasKey, HasBody
<1> QED BY <1>1, <1>2

(* Time stays within its bound.                                             *)
LEMMA TypePass ==
    ASSUME TypeInv, NEW c \in Clients, Pass(c)
    PROVE  TypeOK' /\ ClientInv(c)'
<1>1. now' \in [Clients -> Time]
    BY KmServiceAssumption DEF TypeInv, TypeOK, DialogTypeOK, Pass, Tick, Time
<1>2. TypeOK'
    BY <1>1
       DEF TypeInv, TypeOK, Pass, Tick, DbTypeOK, DialogTypeOK, dbVars, uiVars, handlerVars,
           diskVars, historyVars
<1>3. ClientInv(c)'
    BY DEF TypeInv, ClientInv, Aligned, Judged, InHand, SelFileNum, Busy, CipherFile, Pass, Tick,
       uiVars, handlerVars, diskVars, historyVars
<1> QED BY <1>2, <1>3

-----------------------------------------------------------------------------
(* The initial states have the types.                                       *)
LEMMA TypeInit == Init => TypeInv
<1> SUFFICES ASSUME Init PROVE TypeInv
    OBVIOUS
<1>1. TypeOK
    BY KmServiceAssumption
       DEF Init, DbInit, DialogInit, TypeOK, DbTypeOK, DialogTypeOK, Time, Keys, NoKey
<1>2. ASSUME NEW c \in Clients
      PROVE  Aligned(c) /\ Judged(c) /\ InHand(c)
    BY DEF Init, DialogInit, Aligned, Judged, InHand, Busy, Steps, HasServ, HasKey, HasBody
<1> QED BY <1>1, <1>2 DEF TypeInv

(* Every step keeps the types.                                              *)
LEMMA TypeStep == TypeInv /\ [Next]_vars => TypeInv'
<1> SUFFICES ASSUME TypeInv, [Next]_vars PROVE TypeInv'
    OBVIOUS
<1>1. CASE UNCHANGED vars
    BY <1>1
       DEF TypeInv, TypeOK, DbTypeOK, DialogTypeOK, Aligned, Judged, InHand, SelFileNum, Busy,
           CipherFile,
       vars, dbVars, uiVars, handlerVars, diskVars, historyVars
<1>2. ASSUME NEW c \in Clients, ClientStep(c)
      PROVE  TypeInv'
    <2>1. TypeOK' /\ ClientInv(c)'
        BY <1>2, TypeStart, TypeDialog, TypeOnEncryptFile, TypeDigestPlain, TypeGenKey, TypeGetKey,
           TypeCreateCipher, TypeFillCipher, TypeFileError, TypeStoreSelect, TypeStoreWrite,
           TypeNameRecord, TypeEdit, TypeQuit, TypePass
           DEF ClientStep, Iteration
    <2>2. ASSUME NEW d \in Clients, d # c
          PROVE  Aligned(d)' /\ Judged(d)' /\ InHand(d)'
        BY <1>2, <2>2, OthersSame, SameClient DEF TypeInv
    <2> QED BY <2>1, <2>2 DEF TypeInv, ClientInv
<1> QED BY <1>1, <1>2 DEF Next, ClientStep

(* The types of the specification's variables, and what holds of a client's *)
(* selection and of the object in its hands at each step of the loop.       *)
THEOREM TypeInvariance == Spec => []TypeInv
BY TypeInit, TypeStep, PTL DEF Spec

(* Every variable stays in its set: the fields of CArchiveDlg, the KM_SERV  *)
(* in hand, the rows and the files.                                         *)
THEOREM TypeCorrect == Spec => []TypeOK
<1>1. TypeInv => TypeOK
    BY DEF TypeInv
<1> QED BY <1>1, TypeInvariance, PTL

(* The loop of OnEncryptFile never indexes past the arrays it was given.    *)
THEOREM PathsAlignedHolds == Spec => []PathsAligned
<1>1. TypeInv => PathsAligned
    BY DEF TypeInv, PathsAligned, Aligned, Judged
<1> QED BY <1>1, TypeInvariance, PTL

-----------------------------------------------------------------------------
(* The key.  Only GetKey, FillCipher and the store touch what KeyInHand     *)
(* relates, and only the two writing steps touch the rows.                  *)

(* A client that is where it was keeps its part of KeyInv.                  *)
LEMMA KeySame ==
    ASSUME NEW d \in Clients, Same(d), KeyInHand(d)
    PROVE  KeyInHand(d)'
BY DEF Same, KeyInHand, HasCopy, HasKey, HasServ, Steps

(* No key is in ContentKey for the current file before GetKey. *)
LEMMA KeyNotYet ==
    ASSUME NEW c \in Clients, pc'[c] \in {"off", "idle", "digest", "genkey", "getkey"}
    PROVE  KeyInHand(c)'
BY DEF KeyInHand, HasCopy, HasKey, HasServ, Steps

(* After get_skey, ContentKey is the key of the KM_SERV or the deadline has *)
(* passed.                                                                  *)
LEMMA KeyGetKey ==
    ASSUME TypeInv, NEW c \in Clients, GetKey(c)
    PROVE  KeyInHand(c)'
<1>1. /\ serv[c] \in Servs /\ serv[c].expire > 0 /\ now[c] \in Time /\ serv[c].expire \in Time
    BY DEF TypeInv, TypeOK, DialogTypeOK, InHand, GetKey, HasServ, HasKey, Steps, Servs
<1>2. /\ ContentKey'[c] = get_skey(serv[c], now[c], ContentKey[c])
      /\ pc'[c] = "create" /\ serv' = serv /\ now' = now
    BY DEF TypeInv, TypeOK, GetKey, Goto
<1>3. ContentKey'[c] = serv[c].skey \/ serv[c].expire < now[c]
    BY <1>1, <1>2, KmServiceAssumption DEF get_skey, verify, Time
<1> QED BY <1>2, <1>3 DEF KeyInHand

(* The ciphertext digest is that of the text under ContentKey.              *)
LEMMA KeyFillCipher ==
    ASSUME TypeInv, NEW c \in Clients, KeyInHand(c), FillCipher(c)
    PROVE  KeyInHand(c)'
<1>1. pc[c] = "fill" /\ pc'[c] = "select" /\ ContentKey' = ContentKey /\ now' = now
    BY DEF TypeInv, TypeOK, FillCipher, Goto
<1>2. ContentKey[c] = serv[c].skey \/ serv[c].expire < now[c]
    BY <1>1 DEF KeyInHand, HasCopy, HasKey, HasServ, Steps
<1>3. /\ serv'[c].skey = serv[c].skey /\ serv'[c].expire = serv[c].expire
      /\ serv'[c].md5_c = Sealed(plain[c][PlainFile(c)], ContentKey[c])
    BY TypeFillCipher
<1>4. serv'[c].md5_c = Sealed(serv'[c].md5_c.text, ContentKey[c])
    BY <1>3 DEF Sealed
<1> QED BY <1>1, <1>2, <1>3, <1>4 DEF KeyInHand

(* A KM_SERV whose time of encryption is not behind its deadline holds the  *)
(* key its cipher file was made with.                                       *)
LEMMA KeyStoreSelect ==
    ASSUME TypeInv, NEW c \in Clients, KeyInHand(c), StoreSelect(c)
    PROVE  KeyInHand(c)'
<1>1. /\ pc[c] = "select" /\ now' = now
      /\ serv[c] \in Servs /\ serv[c].md5_c # Nil /\ serv[c].skey # NoKey /\ serv[c].expire > 0
    BY DEF StoreSelect, TypeInv, InHand, HasServ, HasKey, HasBody, Steps
<1>2. /\ ContentKey[c] = serv[c].skey \/ serv[c].expire < now[c]
      /\ serv[c].md5_c = Sealed(serv[c].md5_c.text, ContentKey[c])
    BY <1>1 DEF KeyInHand, HasCopy, HasKey, HasServ, Steps
<1>4. /\ pc'[c] = "write" /\ ContentKey' = ContentKey
      /\ serv'[c].md5_c = serv[c].md5_c /\ serv'[c].skey = serv[c].skey
      /\ serv'[c].expire = serv[c].expire /\ serv'[c].enc_tm = now[c]
    BY TypeStoreSelect
<1>6. now[c] \in Int /\ serv[c].expire \in Int
    BY <1>1, KmServiceAssumption DEF TypeInv, TypeOK, DialogTypeOK, Servs, Time
<1>7. serv'[c].enc_tm <= serv'[c].expire => ContentKey[c] = serv[c].skey
    BY <1>2, <1>4, <1>6
<1> QED BY <1>1, <1>2, <1>4, <1>7 DEF KeyInHand

(* A deadline that has passed stays so.                                     *)
LEMMA KeyPass ==
    ASSUME TypeInv, NEW c \in Clients, KeyInHand(c), Pass(c)
    PROVE  KeyInHand(c)'
<1>1. /\ now'[c] = now[c] + 1 /\ now[c] \in Int
      /\ pc' = pc /\ serv' = serv /\ ContentKey' = ContentKey
    BY KmServiceAssumption DEF TypeInv, TypeOK, DialogTypeOK, Pass, Tick, handlerVars, Time
<1>2. pc[c] \in HasCopy => serv[c].expire \in Int
    BY KmServiceAssumption DEF TypeInv, InHand, HasCopy, HasKey, Servs, Time
<1> QED BY <1>1, <1>2 DEF KeyInHand

(* A step that leaves the table and the current file's key alone. *)
LEMMA KeyCreateCipher ==
    ASSUME TypeInv, NEW c \in Clients, KeyInHand(c), CreateCipher(c)
    PROVE  KeyInHand(c)'
<1>1. CASE Goto(c, "fill") /\ UNCHANGED <<findex, serv, ContentKey, found>>
    <2>1. pc[c] = "create" /\ pc'[c] = "fill" /\ now' = now /\ serv' = serv /\ ContentKey' = ContentKey
        BY <1>1 DEF CreateCipher, Goto, TypeInv, TypeOK
    <2> QED BY <2>1 DEF KeyInHand, HasCopy, HasKey, HasServ, Steps
<1>2. CASE Return(c)
    BY <1>2, KeyNotYet DEF Return, Goto, TypeInv, TypeOK
<1> QED BY <1>1, <1>2 DEF CreateCipher

(* Where a step of the handler goes, and what it does to the table. *)
LEMMA KeyStoreWrite ==
    ASSUME TypeInv, NEW c \in Clients, RecordKeyOpensCipher, KeyInHand(c), StoreWrite(c)
    PROVE  RecordKeyOpensCipher' /\ KeyInHand(c)'
<1>1. /\ Stored(serv[c]) /\ AdminID[c] \in Admins /\ service \in Seq(Rows)
      /\ service' \in {service, Inserted(service, serv[c], AdminID[c]),
                       Updated(service, serv[c], AdminID[c])}
    BY TypeStoreWrite DEF TypeInv, TypeOK, DbTypeOK
<1>2. serv[c].enc_tm <= serv[c].expire => Sealed(serv[c].md5_c.text, serv[c].skey) = serv[c].md5_c
    BY DEF StoreWrite, KeyInHand
<1>3. \A i \in DOMAIN service : Opens(service[i])
    BY DEF RecordKeyOpensCipher, Opens
<1>4. \A i \in DOMAIN service' : Opens(service'[i])
    BY <1>1, <1>2, <1>3, OpensStored
<1>5. RecordKeyOpensCipher'
    BY <1>4 DEF RecordKeyOpensCipher, Opens
<1>6. \/ pc'[c] = "idle"
      \/ pc'[c] = "name" /\ serv' = serv /\ ContentKey' = ContentKey /\ now' = now
    BY DEF StoreWrite, StoreFails, Return, Goto, TypeInv, TypeOK
<1>7. KeyInHand(c)'
    <2>1. CASE pc'[c] = "idle"
        BY <2>1, KeyNotYet
    <2>2. CASE pc'[c] = "name" /\ serv' = serv /\ ContentKey' = ContentKey /\ now' = now
        BY <2>2 DEF KeyInHand, StoreWrite, HasCopy, HasKey, HasServ, Steps
    <2> QED BY <1>6, <2>1, <2>2
<1> QED BY <1>5, <1>7

(* Naming a record changes no key.                                          *)
LEMMA KeyNameRecord ==
    ASSUME TypeInv, NEW c \in Clients, RecordKeyOpensCipher, NameRecord(c)
    PROVE  RecordKeyOpensCipher' /\ KeyInHand(c)'
<1>1. /\ service \in Seq(Rows) /\ PlainFile(c) \in Files
      /\ service' \in {service, Named(service, serv[c].md5_c, PlainFile(c))}
      /\ pc'[c] \in {"idle", "digest"}
    BY TypeNameRecord DEF TypeInv, TypeOK, DbTypeOK
<1>2. \A i \in DOMAIN service : Opens(service[i])
    BY DEF RecordKeyOpensCipher, Opens
<1>3. RecordKeyOpensCipher'
    <2>1. CASE service' = service
        BY <2>1 DEF RecordKeyOpensCipher
    <2>2. CASE service' = Named(service, serv[c].md5_c, PlainFile(c))
        <3>1. \A i \in DOMAIN service' : Opens(service'[i])
            BY <1>1, <1>2, <2>2, OpensNamed
        <3> QED BY <3>1 DEF RecordKeyOpensCipher, Opens
    <2> QED BY <1>1, <2>1, <2>2
<1>4. KeyInHand(c)'
    BY <1>1, KeyNotYet
<1> QED BY <1>3, <1>4

(* The table changes in StoreWrite and NameRecord only. *)
LEMMA TableSteps ==
    ASSUME TypeInv, NEW c \in Clients, ClientStep(c), ~StoreWrite(c), ~NameRecord(c)
    PROVE  service' = service
<1> USE DEF dbVars
<1>1. CASE StoreSelect(c)
    BY <1>1, TypeStoreSelect
<1>2. CASE OnEncryptFile(c)
    BY <1>2, TypeOnEncryptFile
<1>3. CASE Dialog(c)
    BY <1>3 DEF Dialog, Query
<1>4. CASE Start(c) \/ Edit(c) \/ Quit(c) \/ Pass(c)
    BY <1>4 DEF Start, Edit, Quit, Pass
<1>5. CASE DigestPlain(c) \/ GenKey(c) \/ GetKey(c) \/ CreateCipher(c) \/ FillCipher(c) \/ FileError(c)
    BY <1>5 DEF DigestPlain, GenKey, GetKey, CreateCipher, FillCipher, FileError
<1> QED BY <1>1, <1>2, <1>3, <1>4, <1>5 DEF ClientStep, Iteration

(* The remaining steps either leave the client's KM_SERV and ContentKey alone*)
(* or leave it with neither.                                                *)
LEMMA KeyOtherSteps ==
    ASSUME TypeInv, NEW c \in Clients, KeyInHand(c),
           \/ Start(c) \/ Dialog(c) \/ OnEncryptFile(c) \/ DigestPlain(c) \/ GenKey(c)
           \/ FileError(c) \/ Edit(c) \/ Quit(c)
    PROVE  KeyInHand(c)'
<1>1. CASE Start(c) \/ DigestPlain(c) \/ GenKey(c) \/ FileError(c) \/ Quit(c)
    BY <1>1, KeyNotYet
       DEF Start, DigestPlain, GenKey, FileError, Quit, Return, Goto, TypeInv, TypeOK
<1>2. CASE OnEncryptFile(c)
    BY <1>2, TypeOnEncryptFile, KeyNotYet
<1>3. CASE Dialog(c)
    BY <1>3, KeyNotYet DEF Dialog, handlerVars
<1>4. CASE Edit(c)
    BY <1>4 DEF Edit, handlerVars, uiVars, KeyInHand
<1> QED BY <1>1, <1>2, <1>3, <1>4

(* Every step keeps KeyInv.                                                 *)
LEMMA KeyStep == TypeInv /\ KeyInv /\ [Next]_vars => KeyInv'
<1> SUFFICES ASSUME TypeInv, KeyInv, [Next]_vars PROVE KeyInv'
    OBVIOUS
<1>1. CASE UNCHANGED vars
    BY <1>1 DEF KeyInv, RecordKeyOpensCipher, KeyInHand, vars, dbVars, uiVars, handlerVars
<1>2. ASSUME NEW c \in Clients, ClientStep(c)
      PROVE  KeyInv'
    <2>1. RecordKeyOpensCipher /\ KeyInHand(c)
        BY DEF KeyInv
    <2>2. RecordKeyOpensCipher'
        BY <1>2, <2>1, TableSteps, KeyStoreWrite, KeyNameRecord DEF RecordKeyOpensCipher
    <2>3. KeyInHand(c)'
        BY <1>2, <2>1, KeyOtherSteps, KeyGetKey, KeyCreateCipher, KeyFillCipher, KeyStoreSelect,
           KeyStoreWrite, KeyNameRecord, KeyPass DEF ClientStep, Iteration
    <2>4. ASSUME NEW d \in Clients, d # c
          PROVE  KeyInHand(d)'
        BY <1>2, <2>4, OthersSame, KeySame DEF TypeInv, KeyInv
    <2> QED BY <2>2, <2>3, <2>4 DEF KeyInv
<1> QED BY <1>1, <1>2 DEF Next, ClientStep

(* The table is empty at first.                                             *)
LEMMA KeyInit == Init => KeyInv
BY DEF Init, DbInit, KeyInv, RecordKeyOpensCipher, KeyInHand, HasCopy, HasKey, HasServ, Steps

(* The key in a client's hands and the keys in the table, at every step.    *)
THEOREM KeyInvariance == Spec => []KeyInv
BY TypeInvariance, KeyInit, KeyStep, PTL DEF Spec

(* A record that was not stored after its deadline opens its cipher file,   *)
(* for any number of clients, files and failures.                           *)
THEOREM RecordKeyOpensCipherHolds == Spec => []RecordKeyOpensCipher
<1>1. KeyInv => RecordKeyOpensCipher
    BY DEF KeyInv
<1> QED BY <1>1, KeyInvariance, PTL

-----------------------------------------------------------------------------
(* Reports and records.                                                     *)

(* No step of any client removes the record of a digest. *)
LEMMA RecordsStay ==
    ASSUME TypeInv, NEW c \in Clients, ClientStep(c), NEW d, Holding(service, d) # {}
    PROVE  Holding(service', d) # {}
<1>0. service \in Seq(Rows)
    BY DEF TypeInv, TypeOK, DbTypeOK
<1>1. CASE StoreWrite(c)
    <2>1. /\ Stored(serv[c]) /\ AdminID[c] \in Admins
          /\ service' \in {service, Inserted(service, serv[c], AdminID[c]),
                           Updated(service, serv[c], AdminID[c])}
        BY <1>1, TypeStoreWrite
    <2> QED BY <1>0, <2>1, StoreKeepsRecords
<1>2. CASE NameRecord(c)
    <2>1. /\ PlainFile(c) \in Files
          /\ service' \in {service, Named(service, serv[c].md5_c, PlainFile(c))}
        BY <1>2, TypeNameRecord
    <2> QED BY <1>0, <2>1, NameKeepsRecords
<1>3. CASE ~StoreWrite(c) /\ ~NameRecord(c)
    BY <1>3, TableSteps
<1> QED BY <1>1, <1>2, <1>3

(* The parts of ReportedRecorded and BatchPrefixReported about one client. *)
Recorded(c) ==
    \A p \in reported[c] :
        /\ cipher[c][p] # Nil
        /\ cipher[c][p].digest # Nil
        /\ cipher[c][p].digest = cipher[c][p].data
        /\ Holding(service, cipher[c][p].digest) # {}

Prefix(c) ==
    Busy(c) => \A i \in 1..(findex[c] - 1) : CipherPath_ary[c][i] \in reported[c]

(* ReportInv is a statement about each client.                              *)
LEMMA ReportParts ==
    ReportInv <=> \A c \in Clients : Recorded(c) /\ Prefix(c) /\ FileInHand(c)
BY DEF ReportInv, ReportedRecorded, BatchPrefixReported, Recorded, Prefix

(* A client that is where it was keeps its part while records stay. *)
LEMMA ReportSame ==
    ASSUME NEW d \in Clients, Same(d), Recorded(d), Prefix(d), FileInHand(d),
           \A b : Holding(service, b) # {} => Holding(service', b) # {}
    PROVE  Recorded(d)' /\ Prefix(d)' /\ FileInHand(d)'
<1>1. Recorded(d)'
    BY DEF Same, Recorded
<1>2. Prefix(d)'
    BY DEF Same, Prefix, Busy
<1>3. FileInHand(d)'
    BY DEF Same, FileInHand, CipherFile
<1> QED BY <1>1, <1>2, <1>3

(* The cipher paths of a running batch differ. *)
LEMMA PathsDiffer ==
    ASSUME TypeInv, NEW c \in Clients, Busy(c),
           NEW i \in 1..SelFileNum(c), NEW j \in 1..SelFileNum(c), i # j
    PROVE  CipherPath_ary[c][i] # CipherPath_ary[c][j]
<1>1. PlainPath_ary[c] \in Selections
    BY DEF TypeInv, TypeOK, DialogTypeOK, Judged
<1>2. SelFileNum(c) \in Nat /\ SelFileNum(c) > 1
    BY <1>1, DialogAssumption DEF SelFileNum
<1>3. CipherPath_ary[c][i][2] = PlainPath_ary[c][i] /\ CipherPath_ary[c][j][2] = PlainPath_ary[c][j]
    BY <1>2 DEF TypeInv, Judged, Aligned
<1>4. PlainPath_ary[c][i] # PlainPath_ary[c][j]
    BY <1>1, DialogAssumption DEF SelFileNum
<1> QED BY <1>3, <1>4

(* Steps after which the client has no cipher file in the making, and that  *)
(* change neither its cipher files nor its reports.                         *)
LEMMA ReportQuiet ==
    ASSUME NEW c \in Clients, Recorded(c), cipher' = cipher, reported' = reported,
           \A b : Holding(service, b) # {} => Holding(service', b) # {},
           pc'[c] \in {"off", "idle", "digest", "genkey", "getkey", "create"}
    PROVE  Recorded(c)' /\ FileInHand(c)'
<1>1. Recorded(c)'
    BY DEF Recorded
<1>2. FileInHand(c)'
    BY DEF FileInHand, HasBody
<1> QED BY <1>1, <1>2

(* Steps that touch neither the cipher file in the making nor the reports.  *)
LEMMA ReportOtherSteps ==
    ASSUME TypeInv, NEW c \in Clients, Recorded(c), Prefix(c), FileInHand(c),
           \A b : Holding(service, b) # {} => Holding(service', b) # {},
           \/ Start(c) \/ Dialog(c) \/ OnEncryptFile(c) \/ DigestPlain(c) \/ GenKey(c)
           \/ GetKey(c) \/ FileError(c) \/ Edit(c) \/ Quit(c) \/ Pass(c)
    PROVE  Recorded(c)' /\ Prefix(c)' /\ FileInHand(c)'
<1> USE DEF uiVars, handlerVars, diskVars, historyVars
<1>1. CASE Start(c) \/ FileError(c) \/ Quit(c)
    <2>1. /\ pc'[c] \in {"off", "idle"} /\ cipher' = cipher /\ reported' = reported
        BY <1>1 DEF Start, FileError, Quit, Return, Goto, TypeInv, TypeOK
    <2> QED BY <2>1, ReportQuiet DEF Prefix, Busy, Steps
<1>2. CASE Dialog(c)
    <2>1. /\ pc'[c] = "idle" /\ cipher' = cipher /\ reported' = reported
        BY <1>2 DEF Dialog
    <2> QED BY <2>1, ReportQuiet DEF Prefix, Busy, Steps
<1>3. CASE OnEncryptFile(c)
    <2>1. /\ pc'[c] \in {"idle", "digest"} /\ findex'[c] = 1
          /\ cipher' = cipher /\ reported' = reported
        BY <1>3, TypeOnEncryptFile DEF OnEncryptFile
    <2> QED BY <2>1, ReportQuiet DEF Prefix, Busy, Steps
<1>4. CASE DigestPlain(c) \/ GenKey(c) \/ GetKey(c)
    <2>1. /\ pc[c] \in Steps /\ pc'[c] \in {"genkey", "getkey", "create"}
          /\ cipher' = cipher /\ reported' = reported
          /\ CipherPath_ary' = CipherPath_ary /\ findex' = findex
        BY <1>4 DEF DigestPlain, GenKey, GetKey, Goto, TypeInv, TypeOK, Steps
    <2> QED BY <2>1, ReportQuiet DEF Prefix, Busy, Steps
<1>5. CASE Edit(c) \/ Pass(c)
    <2>1. /\ pc' = pc /\ serv' = serv /\ found' = found
          /\ cipher' = cipher /\ reported' = reported
          /\ CipherPath_ary' = CipherPath_ary /\ findex' = findex
        BY <1>5 DEF Edit, Pass, Tick
    <2> QED BY <2>1 DEF Recorded, Prefix, FileInHand, Busy, CipherFile
<1> QED BY <1>1, <1>2, <1>3, <1>4, <1>5

(* Emptying a cipher file takes it off the reports, and it is none of the   *)
(* batch's earlier files.                                                   *)
LEMMA ReportCreateCipher ==
    ASSUME TypeInv, NEW c \in Clients, Recorded(c), Prefix(c), FileInHand(c), CreateCipher(c)
    PROVE  Recorded(c)' /\ Prefix(c)' /\ FileInHand(c)'
<1> DEFINE p == CipherFile(c)
           new == [deadline |-> m_date_64t[c], digest |-> Nil, data |-> Nil]
<1>1. Busy(c) /\ p \in Paths
    BY CurrentFiles DEF CreateCipher, Busy, Steps
<1>2. new \in CipherFiles
    BY <1>1, CurrentFiles DEF CipherFiles
<1>3. cipher' = [cipher EXCEPT ![c][p] = new]
    BY DEF CreateCipher
<1>4. \A q \in Paths : q # p => cipher'[c][q] = cipher[c][q]
    <2> HIDE DEF new, p
    <2> QED BY <1>1, <1>2, <1>3, CipherType DEF TypeInv
<1>5. reported'[c] = reported[c] \ {p} /\ reported[c] \subseteq Paths /\ service' = service
    BY DEF CreateCipher, TypeInv, TypeOK, dbVars
<1>6. Recorded(c)'
    <2> HIDE DEF p
    <2> QED BY <1>4, <1>5 DEF Recorded
<1>7. UNCHANGED uiVars
    BY DEF CreateCipher
<1>8. CASE Return(c)
    <2>1. pc'[c] = "idle"
        BY <1>8 DEF Return, Goto, TypeInv, TypeOK
    <2> QED BY <1>6, <2>1 DEF Prefix, FileInHand, Busy, Steps, HasBody
<1>9. CASE Goto(c, "fill") /\ UNCHANGED <<findex, serv, ContentKey, found>>
    <2>1. pc'[c] = "fill" /\ findex' = findex /\ CipherPath_ary' = CipherPath_ary
        BY <1>7, <1>9 DEF Goto, TypeInv, TypeOK, uiVars
    <2>2. findex[c] \in 1..SelFileNum(c) /\ SelFileNum(c) \in Nat
        BY <1>1, DialogAssumption DEF TypeInv, TypeOK, DialogTypeOK, Judged, SelFileNum
    <2>3. \A i \in 1..(findex[c] - 1) : CipherPath_ary[c][i] # p
        BY <1>1, <2>2, PathsDiffer DEF CipherFile
    <2>4. Prefix(c)'
        BY <1>1, <1>5, <2>1, <2>3 DEF Prefix
    <2>5. FileInHand(c)'
        BY <1>5, <2>1 DEF FileInHand, HasBody, CipherFile
    <2> QED BY <1>6, <2>4, <2>5
<1> QED BY <1>8, <1>9 DEF CreateCipher

(* The file being filled is not reported.                                   *)
LEMMA ReportFillCipher ==
    ASSUME TypeInv, NEW c \in Clients, Recorded(c), Prefix(c), FileInHand(c), FillCipher(c)
    PROVE  Recorded(c)' /\ Prefix(c)' /\ FileInHand(c)'
<1>1. /\ pc[c] = "fill" /\ pc'[c] = "select" /\ findex' = findex /\ CipherPath_ary' = CipherPath_ary
      /\ reported' = reported /\ service' = service
      /\ reported[c] \subseteq Paths
    BY DEF FillCipher, Goto, TypeInv, TypeOK, uiVars, dbVars
<1>2. CipherFile(c) \notin reported[c]
    BY <1>1 DEF FileInHand
<1>3. Recorded(c)'
    BY <1>1, <1>2, TypeFillCipher DEF Recorded
<1>4. Prefix(c)'
    BY <1>1 DEF Prefix, Busy, Steps
<1>5. FileInHand(c)'
    <2>1. CipherFile(c)' = CipherFile(c)
        BY <1>1 DEF CipherFile
    <2>2. cipher'[c][CipherFile(c)] # Nil
        BY TypeFillCipher, BatchAssumption
    <2> QED BY <1>1, <1>2, <2>1, <2>2, TypeFillCipher DEF FileInHand
<1> QED BY <1>3, <1>4, <1>5

(* The record that the select returned is in the table.                     *)
LEMMA ReportStoreSelect ==
    ASSUME TypeInv, NEW c \in Clients, Recorded(c), Prefix(c), FileInHand(c), StoreSelect(c)
    PROVE  Recorded(c)' /\ Prefix(c)' /\ FileInHand(c)'
<1>1. /\ pc[c] = "select" /\ CipherPath_ary' = CipherPath_ary
      /\ reported' = reported /\ cipher' = cipher /\ service' = service
    BY TypeStoreSelect DEF StoreSelect, diskVars, historyVars
<1>2. Storable(serv[c])
    BY DEF StoreSelect, TypeInv, InHand, HasServ, HasKey, HasBody, Steps, Storable, Servs, Time
<1>3. /\ pc'[c] = "write" /\ findex' = findex
      /\ found'[c] => Holding(service, serv[c].md5_c) # {}
    BY <1>2 DEF StoreSelect, Goto, TypeInv, TypeOK, RowsReturned
<1>4. serv'[c].md5_c = serv[c].md5_c
    BY <1>3, TypeStoreSelect
<1>5. CipherFile(c)' = CipherFile(c)
    BY <1>1, <1>3 DEF CipherFile
<1>6. FileInHand(c)'
    BY <1>1, <1>3, <1>4, <1>5 DEF FileInHand, HasBody
<1> QED BY <1>1, <1>3, <1>6 DEF Recorded, Prefix, Busy, Steps

(* When `store' returns 0 there is a record of the digest.                  *)
LEMMA ReportStoreWrite ==
    ASSUME TypeInv, NEW c \in Clients, Recorded(c), Prefix(c), FileInHand(c), StoreWrite(c),
           \A b : Holding(service, b) # {} => Holding(service', b) # {}
    PROVE  Recorded(c)' /\ Prefix(c)' /\ FileInHand(c)'
<1>1. /\ pc[c] = "write" /\ CipherPath_ary' = CipherPath_ary
      /\ reported' = reported /\ cipher' = cipher
    BY DEF StoreWrite, uiVars, diskVars, historyVars
<1>2. PICK code \in Codes \cup {0, -4} :
          /\ StoreWrites(serv[c], AdminID[c], found[c], code)
          /\ IF code # 0
             THEN Return(c)
             ELSE Goto(c, "name") /\ UNCHANGED <<findex, serv, ContentKey, found>>
    BY Zenon DEF StoreWrite, StoreFails
<1>3. CASE code # 0
    <2>1. pc'[c] = "idle"
        BY <1>2, <1>3 DEF Return, Goto, TypeInv, TypeOK
    <2> QED BY <1>1, <2>1, ReportQuiet DEF Prefix, Busy, Steps
<1>4. CASE code = 0
    <2>1. /\ pc'[c] = "name" /\ findex' = findex /\ serv' = serv
        BY <1>2, <1>4 DEF Goto, TypeInv, TypeOK
    <2>2. \/ service' = Inserted(service, serv[c], AdminID[c])
          \/ found[c] /\ service' = Updated(service, serv[c], AdminID[c])
        BY <1>2, <1>4 DEF StoreWrites, Statement
    <2>3. found[c] => Holding(service, serv[c].md5_c) # {}
        BY <1>1 DEF FileInHand
    <2>4. service \in Seq(Rows) /\ Stored(serv[c]) /\ AdminID[c] \in Admins
        BY TypeStoreWrite DEF TypeInv, TypeOK, DbTypeOK
    <2>5. Holding(service', serv[c].md5_c) # {}
        BY <2>2, <2>3, <2>4, RecordMade
    <2>6. CipherFile(c)' = CipherFile(c)
        BY <1>1, <2>1 DEF CipherFile
    <2>7. FileInHand(c)'
        BY <1>1, <2>1, <2>5, <2>6 DEF FileInHand, HasBody
    <2> QED BY <1>1, <2>1, <2>7 DEF Recorded, Prefix, Busy, Steps
<1> QED BY <1>3, <1>4

(* The file that is reported is complete and has its record.                *)
LEMMA ReportNameRecord ==
    ASSUME TypeInv, NEW c \in Clients, Recorded(c), Prefix(c), FileInHand(c), NameRecord(c),
           \A b : Holding(service, b) # {} => Holding(service', b) # {}
    PROVE  Recorded(c)' /\ Prefix(c)' /\ FileInHand(c)'
<1>1. /\ pc[c] = "name" /\ CipherPath_ary' = CipherPath_ary /\ cipher' = cipher
    BY DEF NameRecord, uiVars, diskVars, historyVars
<1>2. /\ cipher[c][CipherFile(c)] # Nil
      /\ cipher[c][CipherFile(c)].digest = serv[c].md5_c
      /\ cipher[c][CipherFile(c)].data = serv[c].md5_c
      /\ serv[c].md5_c # Nil
      /\ Holding(service', serv[c].md5_c) # {}
    BY <1>1 DEF FileInHand, HasBody, TypeInv, InHand
<1>3. /\ reported'[c] \in {reported[c], reported[c] \cup {CipherFile(c)}}
      /\ \/ pc'[c] = "idle"
         \/ /\ pc'[c] = "digest" /\ findex'[c] = findex[c] + 1
            /\ reported'[c] = reported[c] \cup {CipherFile(c)}
    BY TypeNameRecord
<1>4. Recorded(c)'
    BY <1>1, <1>2, <1>3 DEF Recorded
<1>5. FileInHand(c)'
    BY <1>3 DEF FileInHand, HasBody
<1>6. Prefix(c)'
    <2>1. findex[c] \in Nat \ {0}
        BY DEF TypeInv, TypeOK
    <2>2. \A i \in 1..findex[c] : i \in 1..(findex[c] - 1) \/ i = findex[c]
        BY <2>1
    <2> QED BY <1>1, <1>3, <2>1, <2>2 DEF Prefix, Busy, Steps, CipherFile
<1> QED BY <1>4, <1>5, <1>6

(* Every step keeps ReportInv.                                              *)
LEMMA ReportStep == TypeInv /\ ReportInv /\ [Next]_vars => ReportInv'
<1> SUFFICES ASSUME TypeInv, ReportInv, [Next]_vars PROVE ReportInv'
    OBVIOUS
<1>1. CASE UNCHANGED vars
    BY <1>1 DEF ReportInv, ReportedRecorded, BatchPrefixReported, FileInHand, Busy, CipherFile,
       vars, dbVars, uiVars, handlerVars, diskVars, historyVars
<1>2. ASSUME NEW c \in Clients, ClientStep(c)
      PROVE  \A d \in Clients : Recorded(d)' /\ Prefix(d)' /\ FileInHand(d)'
    <2>1. \A b : Holding(service, b) # {} => Holding(service', b) # {}
        BY <1>2, RecordsStay
    <2>2. Recorded(c) /\ Prefix(c) /\ FileInHand(c)
        BY ReportParts
    <2>3. Recorded(c)' /\ Prefix(c)' /\ FileInHand(c)'
        BY <1>2, <2>1, <2>2, ReportOtherSteps, ReportCreateCipher, ReportFillCipher, ReportStoreSelect,
           ReportStoreWrite, ReportNameRecord DEF ClientStep, Iteration
    <2>4. ASSUME NEW d \in Clients, d # c
          PROVE  Recorded(d)' /\ Prefix(d)' /\ FileInHand(d)'
        <3>1. Same(d)
            BY <1>2, <2>4, OthersSame DEF TypeInv
        <3> QED BY <2>1, <3>1, ReportSame, ReportParts
    <2> QED BY <2>3, <2>4
<1>3. ASSUME NEW c \in Clients, ClientStep(c)
      PROVE  ReportInv'
    BY <1>2, <1>3 DEF ReportInv, ReportedRecorded, BatchPrefixReported, Recorded, Prefix
<1> QED BY <1>1, <1>3 DEF Next, ClientStep

(* Nothing is reported at first.                                            *)
LEMMA ReportInit == Init => ReportInv
BY DEF Init, ReportInv, ReportedRecorded, BatchPrefixReported, FileInHand, Busy, Steps, HasBody

(* Cipher files, reports and rows of the table at every step of the loop.   *)
THEOREM ReportInvariance == Spec => []ReportInv
BY TypeInvariance, ReportInit, ReportStep, PTL DEF Spec

(* Every file shown as done has its record, for any number of clients,      *)
(* files and failures.                                                      *)
THEOREM ReportedRecordedHolds == Spec => []ReportedRecorded
<1>1. ReportInv => ReportedRecorded
    BY DEF ReportInv
<1> QED BY <1>1, ReportInvariance, PTL

(* A batch leaves no gap behind it.                                         *)
THEOREM BatchPrefixReportedHolds == Spec => []BatchPrefixReported
<1>1. ReportInv => BatchPrefixReported
    BY DEF ReportInv
<1> QED BY <1>1, ReportInvariance, PTL

-----------------------------------------------------------------------------
(* EncryptBatch implements the ledger.  The proof rests on ReportInv: a     *)
(* file is shown as done when its record is in the table.                   *)

(* An insert adds one digest, the two updates add none and remove none.     *)
LEMMA DigestsInserted ==
    ASSUME NEW rows \in Seq(Rows), NEW s, NEW adm
    PROVE  DigestsOf(Inserted(rows, s, adm)) = DigestsOf(rows) \cup {s.md5_c}
<1> DEFINE new == Inserted(rows, s, adm)
<1>1. /\ DOMAIN new = DOMAIN rows \cup {Len(rows) + 1}
      /\ \A i \in DOMAIN rows : new[i] = rows[i]
      /\ new[Len(rows) + 1].md5_c = s.md5_c
    BY DEF Inserted, RowOf
<1> HIDE DEF new
<1>2. DigestsOf(new) = DigestsOf(rows) \cup {s.md5_c}
    BY <1>1 DEF DigestsOf
<1> QED BY <1>2 DEF new

(* The update of a store keeps the digest its where-clause asks for.        *)
LEMMA DigestsUpdated ==
    ASSUME NEW rows \in Seq(Rows), NEW s, NEW adm
    PROVE  DigestsOf(Updated(rows, s, adm)) = DigestsOf(rows)
<1> DEFINE new == Updated(rows, s, adm)
<1>1. DOMAIN new = DOMAIN rows /\ \A i \in DOMAIN rows : new[i].md5_c = rows[i].md5_c
    BY DEF Updated, RowOf
<1> HIDE DEF new
<1>2. DigestsOf(new) = DigestsOf(rows)
    BY <1>1 DEF DigestsOf
<1> QED BY <1>2 DEF new

(* The update that names a record keeps all digests.                        *)
LEMMA DigestsNamed ==
    ASSUME NEW rows \in Seq(Rows), NEW d, NEW f
    PROVE  DigestsOf(Named(rows, d, f)) = DigestsOf(rows)
<1> DEFINE new == Named(rows, d, f)
<1>1. DOMAIN new = DOMAIN rows /\ \A i \in DOMAIN rows : new[i].md5_c = rows[i].md5_c
    <2>1. \A i \in DOMAIN rows : rows[i] \in Rows
        OBVIOUS
    <2> QED BY <2>1 DEF Named, Rows
<1> HIDE DEF new
<1>2. DigestsOf(new) = DigestsOf(rows)
    BY <1>1 DEF DigestsOf
<1> QED BY <1>2 DEF new

(* A client that is where it was announces what it announced.               *)
LEMMA AnnouncedSame ==
    ASSUME NEW d \in Clients, Same(d)
    PROVE  AnnouncedBy(d)' = AnnouncedBy(d)
BY DEF Same, AnnouncedBy

-----------------------------------------------------------------------------
(* Steps that change neither table nor files nor reports are not steps of   *)
(* the ledger.                                                              *)
LEMMA LedgerStutters ==
    ASSUME service' = service, \A d \in Clients : AnnouncedBy(d)' = AnnouncedBy(d)
    PROVE  UNCHANGED L!ledgerVars
BY DEF L!ledgerVars

(* To empty a cipher file is to withdraw it.                                *)
LEMMA LedgerCreateCipher ==
    ASSUME TypeInv, NEW c \in Clients, CreateCipher(c)
    PROVE  L!Withdraw(c, CipherFile(c)) /\ CipherFile(c) \in Paths
<1> DEFINE p == CipherFile(c)
           new == [deadline |-> m_date_64t[c], digest |-> Nil, data |-> Nil]
<1>1. Busy(c) /\ p \in Paths
    BY CurrentFiles DEF CreateCipher, Busy, Steps
<1>2. new \in CipherFiles
    BY <1>1, CurrentFiles DEF CipherFiles
<1>3. \A q \in Paths : q # p => cipher'[c][q] = cipher[c][q]
    <2>1. cipher' = [cipher EXCEPT ![c][p] = new]
        BY DEF CreateCipher
    <2> HIDE DEF new, p
    <2> QED BY <1>1, <1>2, <2>1, CipherType DEF TypeInv
<1>4. reported'[c] = reported[c] \ {p} /\ reported[c] \subseteq Paths /\ service' = service
    BY DEF CreateCipher, TypeInv, TypeOK, dbVars
<1>5. AnnouncedBy(c)' = {x \in AnnouncedBy(c) : x[1] # p}
    <2> HIDE DEF p
    <2> QED BY <1>3, <1>4 DEF AnnouncedBy
<1>6. \A d \in Clients : d # c => AnnouncedBy(d)' = AnnouncedBy(d)
    BY OthersSame, AnnouncedSame DEF TypeInv, ClientStep, Iteration
<1> QED BY <1>1, <1>4, <1>5, <1>6 DEF L!Withdraw

(* A cipher file is filled while it is not announced.                       *)
LEMMA LedgerFillCipher ==
    ASSUME TypeInv, ReportInv, NEW c \in Clients, FillCipher(c)
    PROVE  UNCHANGED L!ledgerVars
<1>1. CipherFile(c) \notin reported[c]
    BY DEF ReportInv, FileInHand, FillCipher
<1>2. reported' = reported /\ service' = service /\ reported[c] \subseteq Paths
    BY DEF FillCipher, TypeInv, TypeOK, dbVars
<1>3. AnnouncedBy(c)' = AnnouncedBy(c)
    <2>1. \A q \in reported[c] : cipher'[c][q].digest = cipher[c][q].digest
        BY <1>1, <1>2, TypeFillCipher
    <2> QED BY <1>2, <2>1 DEF AnnouncedBy
<1>4. \A d \in Clients : d # c => AnnouncedBy(d)' = AnnouncedBy(d)
    BY OthersSame, AnnouncedSame DEF TypeInv, ClientStep, Iteration
<1> QED BY <1>2, <1>3, <1>4, LedgerStutters

(* To store is to record, or nothing when the digest has a record.          *)
LEMMA LedgerStoreWrite ==
    ASSUME TypeInv, NEW c \in Clients, StoreWrite(c)
    PROVE  (\E d \in Bodies : L!Record(d)) \/ UNCHANGED L!ledgerVars
<1>1. /\ service \in Seq(Rows) /\ Stored(serv[c]) /\ serv[c].md5_c \in Bodies
      /\ service' \in {service, Inserted(service, serv[c], AdminID[c]),
                       Updated(service, serv[c], AdminID[c])}
    BY TypeStoreWrite DEF TypeInv, TypeOK, DbTypeOK, Stored, Servs
<1>2. \A d \in Clients : AnnouncedBy(d)' = AnnouncedBy(d)
    BY DEF StoreWrite, diskVars, historyVars, AnnouncedBy
<1>3. \/ DigestsOf(service)' = DigestsOf(service)
      \/ DigestsOf(service)' = DigestsOf(service) \cup {serv[c].md5_c}
    BY <1>1, DigestsInserted, DigestsUpdated
<1> QED BY <1>1, <1>2, <1>3 DEF L!Record, L!ledgerVars

(* To name the record and go on is to announce; to return is nothing.       *)
LEMMA LedgerNameRecord ==
    ASSUME TypeInv, ReportInv, NEW c \in Clients, NameRecord(c)
    PROVE  \/ \E d \in Bodies : L!Announce(c, CipherFile(c), d)
           \/ UNCHANGED L!ledgerVars
<1> DEFINE p == CipherFile(c)
           d == serv[c].md5_c
<1>1. /\ p \notin reported[c] /\ cipher[c][p].digest = d
      /\ Holding(service, d) # {}
    BY DEF ReportInv, FileInHand, NameRecord, HasBody
<1>2. d \in Bodies /\ p \in Paths /\ PlainFile(c) \in Files /\ service \in Seq(Rows)
    BY TypeNameRecord DEF NameRecord, TypeInv, InHand, HasServ, HasBody, Steps, Servs,
       TypeOK, DbTypeOK
<1>3. DigestsOf(service)' = DigestsOf(service)
    BY <1>2, TypeNameRecord, DigestsNamed
<1>4. cipher' = cipher /\ reported'[c] \in {reported[c], reported[c] \cup {p}}
    BY TypeNameRecord DEF NameRecord, diskVars, historyVars
<1>5. \A e \in Clients : e # c => AnnouncedBy(e)' = AnnouncedBy(e)
    BY OthersSame, AnnouncedSame DEF TypeInv, ClientStep, Iteration
<1>6. d \in DigestsOf(service)
    BY <1>1 DEF Holding, DigestsOf
<1>7. \A e \in Bodies : <<p, e>> \notin AnnouncedBy(c)
    BY <1>1 DEF AnnouncedBy
<1> HIDE DEF p, d
<1>8. CASE reported'[c] = reported[c]
    <2>1. AnnouncedBy(c)' = AnnouncedBy(c)
        BY <1>4, <1>8 DEF AnnouncedBy
    <2> QED BY <1>3, <1>5, <2>1 DEF L!ledgerVars
<1>9. CASE reported'[c] = reported[c] \cup {p}
    <2>1. AnnouncedBy(c)' = AnnouncedBy(c) \cup {<<p, d>>}
        BY <1>1, <1>4, <1>9 DEF AnnouncedBy
    <2>2. L!Announce(c, p, d)
        BY <1>3, <1>5, <1>6, <1>7, <2>1 DEF L!Announce
    <2> QED BY <1>2, <2>2 DEF p
<1> QED BY <1>4, <1>8, <1>9

(* Every step of the clients is a step of the ledger or none.               *)
LEMMA LedgerStep ==
    TypeInv /\ ReportInv /\ [Next]_vars => [L!LedgerNext]_(L!ledgerVars)
<1> SUFFICES ASSUME TypeInv, ReportInv, [Next]_vars PROVE [L!LedgerNext]_(L!ledgerVars)
    OBVIOUS
<1>1. CASE UNCHANGED vars
    <2>1. service' = service /\ \A d \in Clients : AnnouncedBy(d)' = AnnouncedBy(d)
        BY <1>1 DEF vars, dbVars, diskVars, historyVars, AnnouncedBy
    <2> QED BY <2>1, LedgerStutters
<1>2. ASSUME NEW c \in Clients, ClientStep(c)
      PROVE  [L!LedgerNext]_(L!ledgerVars)
    <2>1. CASE CreateCipher(c)
        BY <2>1, LedgerCreateCipher DEF L!LedgerNext
    <2>2. CASE FillCipher(c)
        BY <2>2, LedgerFillCipher
    <2>3. CASE StoreWrite(c)
        BY <2>3, LedgerStoreWrite DEF L!LedgerNext
    <2>4. CASE NameRecord(c)
        <3>1. CipherFile(c) \in Paths
            BY <2>4, TypeNameRecord
        <3> QED BY <2>4, <3>1, LedgerNameRecord DEF L!LedgerNext
    <2>5. CASE ~CreateCipher(c) /\ ~FillCipher(c) /\ ~StoreWrite(c) /\ ~NameRecord(c)
        <3>1. service' = service
            BY <1>2, <2>5, TableSteps
        <3>2. cipher' = cipher /\ reported' = reported
            BY <1>2, <2>5 DEF ClientStep, Iteration, Start, Dialog, OnEncryptFile, DigestPlain,
               GenKey, GetKey, FileError, StoreSelect, Edit, Quit, Pass, diskVars, historyVars
        <3> QED BY <3>1, <3>2, LedgerStutters DEF AnnouncedBy
    <2> QED BY <2>1, <2>2, <2>3, <2>4, <2>5
<1> QED BY <1>1, <1>2 DEF Next, ClientStep

(* Nothing is recorded or announced at first.                               *)
LEMMA LedgerStart == Init => L!LedgerInit
BY DEF Init, DbInit, L!LedgerInit, DigestsOf, AnnouncedBy

(* The clients together, whatever fails, implement the ledger.              *)
THEOREM LedgerImplemented == Spec => ImplementsLedger
BY TypeInvariance, ReportInvariance, LedgerStart, LedgerStep, PTL
   DEF Spec, ImplementsLedger, L!LedgerSpec
-----------------------------------------------------------------------------
(* The plaintext digest, and what another program can do to it.             *)

(* What was once written to between its two readings stays known.           *)
LEMMA TornGrows ==
    ASSUME NEW c \in Clients, ClientStep(c)
    PROVE  torn \subseteq torn'
<1>1. CASE FillCipher(c)
    BY <1>1 DEF FillCipher
<1>2. CASE ~FillCipher(c)
    BY <1>2 DEF ClientStep, Start, Dialog, OnEncryptFile, Iteration, DigestPlain, GenKey, GetKey,
       CreateCipher, FileError, StoreSelect, StoreWrite, NameRecord, Edit, Quit, Pass, historyVars
<1> QED BY <1>1, <1>2

(* A client that is where it was has the digest it had.                     *)
LEMMA PlainSame ==
    ASSUME NEW d \in Clients, Same(d), torn \subseteq torn', PlainInHand(d)
    PROVE  PlainInHand(d)'
BY DEF Same, PlainInHand, PlainFile

(* Where there is no KM_SERV there is nothing to say of it.                 *)
LEMMA PlainNotYet ==
    ASSUME NEW c \in Clients, pc'[c] \in {"off", "idle", "digest"}
    PROVE  PlainInHand(c)'
BY DEF PlainInHand, HasBody, BetweenReadings

(* The first reading of the file gives its digest.                          *)
LEMMA PlainDigestPlain ==
    ASSUME TypeInv, NEW c \in Clients, DigestPlain(c)
    PROVE  PlainInHand(c)'
<1>1. /\ pc'[c] = "genkey" /\ findex' = findex /\ PlainPath_ary' = PlainPath_ary
      /\ plain' = plain
      /\ serv'[c] = NewServ(OrgID[c], plain[c][PlainFile(c)], m_date_64t[c])
    BY DEF TypeInv, TypeOK, DigestPlain, Goto, uiVars, diskVars
<1>2. serv'[c].md5_p = plain[c][PlainFile(c)]
    BY <1>1 DEF NewServ
<1> QED BY <1>1, <1>2 DEF PlainInHand, PlainFile, HasBody

(* The second reading finds the same text, or an edit is known of.          *)
LEMMA PlainFillCipher ==
    ASSUME TypeInv, NEW c \in Clients, PlainInHand(c), FillCipher(c)
    PROVE  PlainInHand(c)'
<1> DEFINE body == Sealed(plain[c][PlainFile(c)], ContentKey[c])
<1>1. pc[c] = "fill" /\ pc'[c] = "select"
    BY DEF TypeInv, TypeOK, FillCipher, Goto
<1>2. /\ serv[c] \in Servs
      /\ ~edited[c] => serv[c].md5_p = plain[c][PlainFile(c)]
    BY <1>1 DEF TypeInv, InHand, PlainInHand, HasServ, Steps
<1>3. /\ serv'[c] = [serv[c] EXCEPT !.md5_c = body]
      /\ serv'[c].md5_c = body
    BY TypeFillCipher
<1>4. serv'[c].md5_p = serv[c].md5_p
    <2> HIDE DEF body
    <2> QED BY <1>2, <1>3 DEF Servs
<1>5. body.text = plain[c][PlainFile(c)]
    BY DEF Sealed
<1>6. edited[c] => <<serv[c].md5_p, body>> \in torn'
    BY DEF FillCipher
<1> HIDE DEF body
<1>7. \/ serv'[c].md5_p = serv'[c].md5_c.text
      \/ <<serv'[c].md5_p, serv'[c].md5_c>> \in torn'
    BY <1>2, <1>3, <1>4, <1>5, <1>6
<1> QED BY <1>1, <1>7 DEF PlainInHand, BetweenReadings

(* Another program's writing to the file in hand is known of.               *)
LEMMA PlainEdit ==
    ASSUME TypeInv, NEW c \in Clients, PlainInHand(c), Edit(c)
    PROVE  PlainInHand(c)'
<1>1. /\ pc' = pc /\ serv' = serv /\ torn' = torn
      /\ findex' = findex /\ PlainPath_ary' = PlainPath_ary
    BY DEF Edit, handlerVars, uiVars
<1>2. PICK f \in Files, x \in Texts :
          /\ ~(pc[c] = "fill" /\ PlainFile(c) = f)
          /\ plain' = [plain EXCEPT ![c][f] = x]
          /\ edited' = [edited EXCEPT ![c] =
                 @ \/ (pc[c] \in BetweenReadings /\ PlainFile(c) = f)]
    BY DEF Edit
<1>3. edited'[c] = (edited[c] \/ (pc[c] \in BetweenReadings /\ PlainFile(c) = f))
    BY <1>2 DEF TypeInv, TypeOK
<1>4. PlainFile(c) # f => plain'[c][PlainFile(c)] = plain[c][PlainFile(c)]
    BY <1>2 DEF TypeInv, TypeOK
<1>5. PlainFile(c)' = PlainFile(c)
    BY <1>1 DEF PlainFile
<1>6. ASSUME pc[c] \in BetweenReadings \cup {"fill"}, ~edited'[c]
      PROVE  serv[c].md5_p = plain'[c][PlainFile(c)]
    <2>1. ~edited[c] /\ PlainFile(c) # f
        BY <1>2, <1>3, <1>6
    <2> QED BY <1>4, <1>6, <2>1 DEF PlainInHand
<1> QED BY <1>1, <1>5, <1>6 DEF PlainInHand

(* The steps that write other fields of the KM_SERV, or none.               *)
LEMMA PlainKept ==
    ASSUME TypeInv, NEW c \in Clients, PlainInHand(c),
           GenKey(c) \/ GetKey(c) \/ CreateCipher(c) \/ StoreSelect(c) \/ StoreWrite(c)
    PROVE  PlainInHand(c)'
<1>1. CASE GenKey(c)
    <2>1. /\ pc[c] = "genkey" /\ pc'[c] = "getkey" /\ findex' = findex
          /\ PlainPath_ary' = PlainPath_ary /\ plain' = plain /\ edited' = edited
          /\ serv'[c] = gen_key(serv[c], now[c])
        BY <1>1 DEF TypeInv, TypeOK, GenKey, Goto, uiVars, diskVars, historyVars
    <2>2. serv[c] \in Servs
        BY <2>1 DEF TypeInv, InHand, HasServ, Steps
    <2>3. serv'[c].md5_p = serv[c].md5_p
        BY <2>1, <2>2 DEF gen_key, Servs
    <2> QED BY <2>1, <2>3 DEF PlainInHand, PlainFile, HasBody, BetweenReadings
<1>2. CASE GetKey(c)
    <2>1. /\ pc[c] = "getkey" /\ pc'[c] = "create" /\ findex' = findex
          /\ PlainPath_ary' = PlainPath_ary /\ plain' = plain /\ edited' = edited
          /\ serv' = serv
        BY <1>2 DEF TypeInv, TypeOK, GetKey, Goto, uiVars, diskVars, historyVars
    <2> QED BY <2>1 DEF PlainInHand, PlainFile, HasBody, BetweenReadings
<1>3. CASE CreateCipher(c)
    <2>1. CASE Return(c)
        <3>1. pc'[c] = "idle"
            BY <2>1 DEF TypeInv, TypeOK, Return, Goto
        <3> QED BY <3>1, PlainNotYet
    <2>2. CASE ~Return(c)
        <3>1. /\ pc[c] = "create" /\ pc'[c] = "fill" /\ findex' = findex
              /\ PlainPath_ary' = PlainPath_ary /\ plain' = plain /\ edited' = edited
              /\ serv' = serv
            BY <1>3, <2>2 DEF TypeInv, TypeOK, CreateCipher, Goto, uiVars
        <3> QED BY <3>1 DEF PlainInHand, PlainFile, HasBody, BetweenReadings
    <2> QED BY <2>1, <2>2
<1>4. CASE StoreSelect(c)
    <2>1. /\ pc[c] = "select" /\ pc'[c] = "write" /\ torn' = torn
          /\ serv'[c] = [serv[c] EXCEPT !.enc_tm = now[c]]
        BY <1>4, TypeStoreSelect DEF StoreSelect, historyVars
    <2>2. serv[c] \in Servs
        BY <2>1 DEF TypeInv, InHand, HasServ, Steps
    <2>3. serv'[c].md5_p = serv[c].md5_p /\ serv'[c].md5_c = serv[c].md5_c
        BY <2>1, <2>2 DEF Servs
    <2> QED BY <2>1, <2>3 DEF PlainInHand, HasBody, BetweenReadings
<1>5. CASE StoreWrite(c)
    <2>1. pc[c] = "write" /\ torn' = torn
        BY <1>5 DEF StoreWrite, historyVars
    <2>2. pc'[c] = "idle" \/ (pc'[c] = "name" /\ serv' = serv)
        BY <1>5 DEF StoreWrite, Return, Goto, TypeInv, TypeOK
    <2>3. CASE pc'[c] = "idle"
        BY <2>3, PlainNotYet
    <2>4. CASE pc'[c] = "name" /\ serv' = serv
        BY <2>1, <2>4 DEF PlainInHand, HasBody, BetweenReadings
    <2> QED BY <2>2, <2>3, <2>4
<1> QED BY <1>1, <1>2, <1>3, <1>4, <1>5

(* The steps after which the client has no KM_SERV, or the one it had.      *)
LEMMA PlainOtherSteps ==
    ASSUME TypeInv, NEW c \in Clients, PlainInHand(c),
           \/ Start(c) \/ Dialog(c) \/ OnEncryptFile(c) \/ FileError(c)
           \/ NameRecord(c) \/ Quit(c) \/ Pass(c)
    PROVE  PlainInHand(c)'
<1>1. CASE Start(c) \/ FileError(c) \/ Quit(c)
    BY <1>1, PlainNotYet DEF Start, FileError, Quit, Return, Goto, TypeInv, TypeOK
<1>2. CASE OnEncryptFile(c) \/ NameRecord(c)
    BY <1>2, TypeOnEncryptFile, TypeNameRecord, PlainNotYet
<1>3. CASE Dialog(c)
    BY <1>3, PlainNotYet DEF Dialog, handlerVars
<1>4. CASE Pass(c)
    <2>1. /\ pc' = pc /\ serv' = serv /\ findex' = findex /\ PlainPath_ary' = PlainPath_ary
          /\ plain' = plain /\ edited' = edited /\ torn' = torn
        BY <1>4 DEF Pass, Tick, handlerVars, uiVars, diskVars, historyVars
    <2> QED BY <2>1 DEF PlainInHand, PlainFile
<1> QED BY <1>1, <1>2, <1>3, <1>4

(* The two digests are of one text, or the pair is known to be torn.        *)
Fits(md5_p, md5_c, known) == md5_p = md5_c.text \/ <<md5_p, md5_c>> \in known

(* What `store' writes into a row.                                          *)
Matches(rows, known) == \A i \in DOMAIN rows : Fits(rows[i].md5_p, rows[i].md5_c, known)

(* A KM_SERV whose digests match makes a row whose digests match.           *)
LEMMA MatchesStored ==
    ASSUME NEW rows \in Seq(Rows), NEW known, Matches(rows, known), NEW s, NEW adm,
           Fits(s.md5_p, s.md5_c, known)
    PROVE  Matches(Inserted(rows, s, adm), known) /\ Matches(Updated(rows, s, adm), known)
<1>1. ASSUME NEW f
      PROVE  RowOf(s, adm, f).md5_p = s.md5_p /\ RowOf(s, adm, f).md5_c = s.md5_c
    BY DEF RowOf
<1>2. Matches(Updated(rows, s, adm), known)
    BY <1>1 DEF Updated, Matches
<1>3. Matches(Inserted(rows, s, adm), known)
    <2> DEFINE row == RowOf(s, adm, Nil)
    <2>1. Fits(row.md5_p, row.md5_c, known)
        BY <1>1
    <2> HIDE DEF row
    <2>2. ASSUME NEW i \in DOMAIN Append(rows, row)
          PROVE  Append(rows, row)[i] = row \/ (i \in DOMAIN rows /\ Append(rows, row)[i] = rows[i])
        OBVIOUS
    <2> QED BY <2>1, <2>2 DEF Inserted, Matches, row
<1> QED BY <1>2, <1>3

(* Naming a row changes neither digest.                                     *)
LEMMA MatchesNamed ==
    ASSUME NEW rows \in Seq(Rows), NEW known, Matches(rows, known), NEW d, NEW f
    PROVE  Matches(Named(rows, d, f), known)
<1>1. ASSUME NEW i \in DOMAIN rows
      PROVE  /\ [rows[i] EXCEPT !.fname = f].md5_p = rows[i].md5_p
             /\ [rows[i] EXCEPT !.fname = f].md5_c = rows[i].md5_c
    BY DEF Rows
<1> QED BY <1>1 DEF Named, Matches

(* What matches does so when more is known.                                 *)
LEMMA MatchesMore ==
    ASSUME NEW rows, NEW known, NEW more, known \subseteq more, Matches(rows, known)
    PROVE  Matches(rows, more)
BY DEF Matches, Fits

(* Every step keeps PlainInv.                                               *)
LEMMA PlainStep == TypeInv /\ PlainInv /\ [Next]_vars => PlainInv'
<1> SUFFICES ASSUME TypeInv, PlainInv, [Next]_vars PROVE PlainInv'
    OBVIOUS
<1>1. CASE UNCHANGED vars
    BY <1>1 DEF PlainInv, RecordDigestsPlain, PlainInHand, PlainFile, vars, dbVars, uiVars,
       handlerVars, diskVars, historyVars
<1>2. ASSUME NEW c \in Clients, ClientStep(c)
      PROVE  PlainInv'
    <2>1. PlainInHand(c) /\ Matches(service, torn) /\ service \in Seq(Rows)
        BY DEF PlainInv, RecordDigestsPlain, Matches, Fits, TypeInv, TypeOK, DbTypeOK
    <2>2. torn \subseteq torn'
        BY <1>2, TornGrows
    <2>3. Matches(service', torn)
        <3>1. CASE StoreWrite(c)
            <4>1. Fits(serv[c].md5_p, serv[c].md5_c, torn)
                BY <2>1, <3>1 DEF StoreWrite, PlainInHand, HasBody, Fits
            <4> QED BY <2>1, <3>1, <4>1, TypeStoreWrite, MatchesStored
        <3>2. CASE NameRecord(c)
            BY <2>1, <3>2, TypeNameRecord, MatchesNamed
        <3>3. CASE ~StoreWrite(c) /\ ~NameRecord(c)
            BY <1>2, <2>1, <3>3, TableSteps
        <3> QED BY <3>1, <3>2, <3>3
    <2>4. RecordDigestsPlain'
        <3>1. Matches(service', torn')
            BY <2>2, <2>3, MatchesMore
        <3> QED BY <3>1 DEF RecordDigestsPlain, Matches, Fits
    <2>5. PlainInHand(c)'
        BY <1>2, <2>1, PlainDigestPlain, PlainFillCipher, PlainEdit, PlainKept, PlainOtherSteps
           DEF ClientStep, Iteration
    <2>6. ASSUME NEW d \in Clients, d # c
          PROVE  PlainInHand(d)'
        BY <1>2, <2>2, <2>6, OthersSame, PlainSame DEF TypeInv, PlainInv
    <2> QED BY <2>4, <2>5, <2>6 DEF PlainInv
<1> QED BY <1>1, <1>2 DEF Next, ClientStep

(* No row and no KM_SERV at first.                                          *)
LEMMA PlainInit == Init => PlainInv
BY DEF Init, DbInit, PlainInv, RecordDigestsPlain, PlainInHand, HasBody, BetweenReadings

(* The digest of the plain file is taken before the file is closed and      *)
(* opened again to be encrypted.  Every record bears the digest of the text *)
(* in its cipher file, whatever fails, whoever stores an equal digest: but  *)
(* for those whose very file another program wrote to between the readings. *)
THEOREM RecordDigestsPlainHolds == Spec => []RecordDigestsPlain
<1>1. PlainInv => RecordDigestsPlain
    BY DEF PlainInv
<1> QED BY <1>1, PlainInit, PlainStep, TypeInvariance, PTL DEF Spec

-----------------------------------------------------------------------------
(* File names.                                                              *)

(* The digest has a record that the record list can show.                   *)
Shown(rows, d) == \E i \in Holding(rows, d) : rows[i].fname # Nil

(* No statement takes a name away.                                          *)
LEMMA ShownStored ==
    ASSUME NEW rows \in Seq(Rows), NEW s, NEW adm, NEW d, Shown(rows, d)
    PROVE  Shown(Inserted(rows, s, adm), d) /\ Shown(Updated(rows, s, adm), d)
<1>1. PICK i \in DOMAIN rows : rows[i].md5_c = d /\ rows[i].fname # Nil
    BY DEF Shown, Holding
<1>2. Shown(Inserted(rows, s, adm), d)
    <2> DEFINE new == Inserted(rows, s, adm)
    <2>1. i \in DOMAIN new /\ new[i] = rows[i]
        BY <1>1 DEF Inserted
    <2> HIDE DEF new
    <2> QED BY <1>1, <2>1 DEF Shown, Holding, new
<1>3. Shown(Updated(rows, s, adm), d)
    <2> DEFINE new == Updated(rows, s, adm)
    <2>1. i \in DOMAIN new
        BY <1>1 DEF Updated
    <2>2. new[i].md5_c = d /\ new[i].fname = rows[i].fname
        <3>1. CASE rows[i].md5_c = s.md5_c
            <4>1. new[i] = RowOf(s, adm, rows[i].fname)
                BY <1>1, <3>1 DEF Updated
            <4> HIDE DEF new
            <4> QED BY <1>1, <3>1, <4>1 DEF RowOf
        <3>2. CASE rows[i].md5_c # s.md5_c
            <4>1. new[i] = rows[i]
                BY <1>1, <3>2 DEF Updated
            <4> QED BY <1>1, <4>1
        <3> QED BY <3>1, <3>2
    <2> HIDE DEF new
    <2> QED BY <1>1, <2>1, <2>2 DEF Shown, Holding, new
<1> QED BY <1>2, <1>3

(* Naming shows every record of its digest, and hides none.                 *)
LEMMA ShownNamed ==
    ASSUME NEW rows \in Seq(Rows), NEW d, NEW f \in Files
    PROVE  /\ Holding(rows, d) # {} => Shown(Named(rows, d, f), d)
           /\ \A e : Shown(rows, e) => Shown(Named(rows, d, f), e)
<1> DEFINE new == Named(rows, d, f)
<1>1. f # Nil
    BY KmServiceAssumption
<1>2. ASSUME NEW i \in DOMAIN rows
      PROVE  /\ i \in DOMAIN new
             /\ new[i].md5_c = rows[i].md5_c
             /\ new[i].fname = IF rows[i].md5_c = d THEN f ELSE rows[i].fname
    <2>1. rows[i] \in Rows /\ i \in DOMAIN new
        BY DEF Named
    <2>2. CASE rows[i].md5_c = d
        <3>1. new[i] = [rows[i] EXCEPT !.fname = f]
            BY <2>2 DEF Named
        <3> HIDE DEF new
        <3> QED BY <2>1, <2>2, <3>1 DEF Rows
    <2>3. CASE rows[i].md5_c # d
        BY <2>1, <2>3 DEF Named
    <2> QED BY <2>2, <2>3
<1> HIDE DEF new
<1>3. Holding(rows, d) # {} => Shown(new, d)
    BY <1>1, <1>2 DEF Shown, Holding
<1>4. ASSUME NEW e, Shown(rows, e) PROVE Shown(new, e)
    BY <1>1, <1>2, <1>4 DEF Shown, Holding
<1> QED BY <1>3, <1>4 DEF new

(* No step of any client takes a name away.                                 *)
LEMMA ShownStays ==
    ASSUME TypeInv, NEW c \in Clients, ClientStep(c), NEW d, Shown(service, d)
    PROVE  Shown(service', d)
<1>1. service \in Seq(Rows)
    BY DEF TypeInv, TypeOK, DbTypeOK
<1>2. CASE StoreWrite(c)
    BY <1>1, <1>2, TypeStoreWrite, ShownStored
<1>3. CASE NameRecord(c)
    BY <1>1, <1>3, TypeNameRecord, ShownNamed
<1>4. CASE ~StoreWrite(c) /\ ~NameRecord(c)
    BY <1>4, TableSteps
<1> QED BY <1>2, <1>3, <1>4

(* The part of ReportedNamed about one client.                              *)
NamedFor(c) ==
    \A p \in reported[c] \ swallowed[c] : Shown(service, cipher[c][p].digest)

(* A client that is where it was: its records keep their names.             *)
LEMMA NamedSame ==
    ASSUME NEW d \in Clients, Same(d), NamedFor(d),
           \A b : Shown(service, b) => Shown(service', b)
    PROVE  NamedFor(d)'
BY DEF Same, NamedFor, Shown

(* The file being made over is withdrawn, and filled before it is reported. *)
LEMMA NamedCipher ==
    ASSUME TypeInv, NEW c \in Clients, NamedFor(c), FileInHand(c), CreateCipher(c) \/ FillCipher(c),
           \A b : Shown(service, b) => Shown(service', b)
    PROVE  NamedFor(c)'
<1>1. Busy(c) /\ CipherFile(c) \in Paths
    BY CurrentFiles DEF CreateCipher, FillCipher, Busy, Steps
<1>2. /\ reported \in [Clients -> SUBSET Paths] /\ swallowed \in [Clients -> SUBSET Paths]
      /\ cipher \in [Clients -> [Paths -> CipherFiles \cup {Nil}]]
    BY DEF TypeInv, TypeOK
<1>3. /\ reported'[c] \subseteq reported[c] /\ CipherFile(c) \notin reported'[c]
      /\ swallowed[c] \subseteq swallowed'[c] \cup {CipherFile(c)}
      /\ \A q \in Paths : q # CipherFile(c) => cipher'[c][q] = cipher[c][q]
    <2>1. CASE CreateCipher(c)
        BY <1>2, <2>1 DEF CreateCipher
    <2>2. CASE FillCipher(c)
        BY <2>2, TypeFillCipher DEF FillCipher, FileInHand
    <2> QED BY <2>1, <2>2
<1>4. \A q \in reported'[c] \ swallowed'[c] :
          q \in reported[c] \ swallowed[c] /\ cipher'[c][q] = cipher[c][q]
    BY <1>2, <1>3
<1> QED BY <1>4 DEF NamedFor, Shown

(* The statement that names the record, when it does not fail, names it;    *)
(* when it fails nothing is reported, or the failure is known of.           *)
LEMMA NamedNameRecord ==
    ASSUME TypeInv, NEW c \in Clients, NamedFor(c), FileInHand(c), NameRecord(c),
           \A b : Shown(service, b) => Shown(service', b)
    PROVE  NamedFor(c)'
<1>1. PICK code \in Codes \cup {0} :
          /\ Statement(code, Named(service, serv[c].md5_c, PlainFile(c)))
          /\ NamingFails(code) => UNCHANGED <<reported, swallowed>>
          /\ ~NamingFails(code) =>
                /\ reported' = [reported EXCEPT ![c] = @ \cup {CipherFile(c)}]
                /\ swallowed' = IF code = 0 THEN swallowed
                                ELSE [swallowed EXCEPT ![c] = @ \cup {CipherFile(c)}]
    BY Zenon DEF NameRecord
<1>2. /\ cipher' = cipher /\ reported \in [Clients -> SUBSET Paths]
      /\ swallowed \in [Clients -> SUBSET Paths]
      /\ pc[c] = "name" /\ Holding(service, serv[c].md5_c) # {}
      /\ cipher[c][CipherFile(c)].digest = serv[c].md5_c
      /\ service \in Seq(Rows) /\ PlainFile(c) \in Files
    BY TypeNameRecord DEF NameRecord, diskVars, TypeInv, TypeOK, DbTypeOK, FileInHand, HasBody
<1>3. CASE NamingFails(code)
    BY <1>1, <1>2, <1>3 DEF NamedFor, Shown
<1>4. CASE ~NamingFails(code)
    <2>1. reported'[c] = reported[c] \cup {CipherFile(c)}
        BY <1>1, <1>2, <1>4
    <2>2. CASE code = 0
        <3>1. service' = Named(service, serv[c].md5_c, PlainFile(c)) /\ swallowed' = swallowed
            BY <1>1, <1>4, <2>2 DEF Statement
        <3>2. Shown(service', cipher[c][CipherFile(c)].digest)
            BY <1>2, <3>1, ShownNamed
        <3> QED BY <1>2, <2>1, <3>1, <3>2 DEF NamedFor, Shown
    <2>3. CASE code # 0
        <3>1. swallowed'[c] = swallowed[c] \cup {CipherFile(c)}
            BY <1>1, <1>2, <1>4, <2>3
        <3>2. reported'[c] \ swallowed'[c] \subseteq reported[c] \ swallowed[c]
            BY <2>1, <3>1
        <3> QED BY <1>2, <3>2 DEF NamedFor, Shown
    <2> QED BY <2>2, <2>3
<1> QED BY <1>3, <1>4

(* The other steps change neither reports nor files.                        *)
LEMMA NamedOtherSteps ==
    ASSUME NEW c \in Clients, NamedFor(c),
           cipher' = cipher, reported' = reported, swallowed' = swallowed,
           \A b : Shown(service, b) => Shown(service', b)
    PROVE  NamedFor(c)'
BY DEF NamedFor, Shown

(* Reports and files change in three steps only.                            *)
LEMMA ReportSteps ==
    ASSUME NEW c \in Clients, ClientStep(c), ~CreateCipher(c), ~FillCipher(c), ~NameRecord(c)
    PROVE  cipher' = cipher /\ reported' = reported /\ swallowed' = swallowed
BY DEF ClientStep, Start, Dialog, OnEncryptFile, Iteration, DigestPlain, GenKey, GetKey,
   FileError, StoreSelect, StoreWrite, Edit, Quit, Pass, diskVars, historyVars

(* Every step keeps ReportedNamed.                                          *)
LEMMA NamedStep == TypeInv /\ ReportInv /\ ReportedNamed /\ [Next]_vars => ReportedNamed'
<1> SUFFICES ASSUME TypeInv, ReportInv, ReportedNamed, [Next]_vars PROVE ReportedNamed'
    OBVIOUS
<1>1. CASE UNCHANGED vars
    BY <1>1 DEF ReportedNamed, vars, dbVars, diskVars, historyVars
<1>2. ASSUME NEW c \in Clients, ClientStep(c)
      PROVE  ReportedNamed'
    <2>1. \A b : Shown(service, b) => Shown(service', b)
        BY <1>2, ShownStays
    <2>2. \A d \in Clients : NamedFor(d) /\ FileInHand(d)
        BY DEF ReportedNamed, NamedFor, Shown, ReportInv
    <2>3. NamedFor(c)'
        <3>1. CASE CreateCipher(c) \/ FillCipher(c)
            BY <2>1, <2>2, <3>1, NamedCipher
        <3>2. CASE NameRecord(c)
            BY <2>1, <2>2, <3>2, NamedNameRecord
        <3>3. CASE ~CreateCipher(c) /\ ~FillCipher(c) /\ ~NameRecord(c)
            BY <1>2, <2>1, <2>2, <3>3, ReportSteps, NamedOtherSteps
        <3> QED BY <3>1, <3>2, <3>3
    <2>4. ASSUME NEW d \in Clients, d # c
          PROVE  NamedFor(d)'
        BY <1>2, <2>1, <2>2, <2>4, OthersSame, NamedSame DEF TypeInv
    <2> QED BY <2>3, <2>4 DEF ReportedNamed, NamedFor, Shown
<1> QED BY <1>1, <1>2 DEF Next, ClientStep

(* Nothing is reported at first.                                            *)
LEMMA NamedInit == Init => ReportedNamed
BY DEF Init, ReportedNamed

(* Every cipher file shown as done has a record with a file name, which the *)
(* record list can show, for any number of clients that store equal digests *)
(* at the same time, whatever statements fail, with a unique key in the     *)
(* table and without: but for the files whose own naming statement failed   *)
(* with one of the two codes that the handler does not test.                *)
THEOREM ReportedNamedHolds == Spec => []ReportedNamed
BY NamedInit, NamedStep, TypeInvariance, ReportInvariance, PTL DEF Spec

-----------------------------------------------------------------------------
(* The organisation.                                                        *)

(* The part of BatchForOrgShown about one client.                           *)
ForOrg(c) ==
    Busy(c) =>
        /\ OrgID[c] = OrgName[c]
        /\ pc[c] # "digest" => serv[c].org = OrgName[c]

(* A batch is let in only after the name shown was looked up and its number *)
(* kept.                                                                    *)
LEMMA OrgOnEncryptFile ==
    ASSUME TypeInv, NEW c \in Clients, OnEncryptFile(c)
    PROVE  ForOrg(c)'
<1>1. PICK code \in Codes \cup {0} :
          /\ KeepsOrgID(c, code)
          /\ pc' = [pc EXCEPT ![c] = IF JudgeBeforeEncrypt(c, code) THEN "digest" ELSE "idle"]
    BY Zenon DEF OnEncryptFile
<1>2. pc'[c] = IF JudgeBeforeEncrypt(c, code) THEN "digest" ELSE "idle"
    BY <1>1 DEF TypeInv, TypeOK
<1>3. CASE JudgeBeforeEncrypt(c, code)
    <2>1. OrgID'[c] = OrgName[c] /\ OrgName' = OrgName
        BY <1>1, <1>3 DEF KeepsOrgID, JudgeBeforeEncrypt, TypeInv, TypeOK, DialogTypeOK
    <2> QED BY <1>2, <1>3, <2>1 DEF ForOrg
<1>4. CASE ~JudgeBeforeEncrypt(c, code)
    BY <1>2, <1>4 DEF ForOrg, Busy, Steps
<1> QED BY <1>3, <1>4

(* The KM_SERV is made with that number, and the loop does not change it.   *)
LEMMA OrgIteration ==
    ASSUME TypeInv, NEW c \in Clients, ForOrg(c), Iteration(c)
    PROVE  ForOrg(c)'
<1>1. Busy(c) /\ OrgName' = OrgName /\ OrgID' = OrgID /\ OrgID[c] = OrgName[c]
    <2>1. Busy(c)
        BY DEF Iteration, DigestPlain, GenKey, GetKey, CreateCipher, FillCipher, FileError,
           StoreSelect, StoreWrite, NameRecord, Busy, Steps
    <2>2. OrgName' = OrgName /\ OrgID' = OrgID
        BY DEF Iteration, DigestPlain, GenKey, GetKey, CreateCipher, FillCipher, FileError,
           StoreSelect, StoreWrite, NameRecord, uiVars
    <2> QED BY <2>1, <2>2 DEF ForOrg
<1>2. pc[c] \in HasServ => serv[c] \in Servs /\ serv[c].org = OrgName[c]
    BY DEF TypeInv, InHand, ForOrg, HasServ, Busy
<1>3. CASE pc'[c] \in {"idle", "digest"}
    BY <1>1, <1>3 DEF ForOrg, Busy, Steps
<1>4. CASE DigestPlain(c)
    <2>1. serv'[c] = NewServ(OrgID[c], plain[c][PlainFile(c)], m_date_64t[c])
        BY <1>4 DEF DigestPlain, TypeInv, TypeOK
    <2> QED BY <1>1, <2>1 DEF ForOrg, NewServ
<1>5. CASE GenKey(c)
    <2>1. pc[c] \in HasServ /\ serv'[c] = gen_key(serv[c], now[c])
        BY <1>5 DEF GenKey, TypeInv, TypeOK, HasServ, Steps
    <2> QED BY <1>1, <1>2, <2>1 DEF ForOrg, gen_key, Servs
<1>6. CASE FillCipher(c)
    <2> DEFINE body == Sealed(plain[c][PlainFile(c)], ContentKey[c])
    <2>1. pc[c] \in HasServ /\ serv'[c] = [serv[c] EXCEPT !.md5_c = body]
        BY <1>6, TypeFillCipher DEF FillCipher, HasServ, Steps
    <2> HIDE DEF body
    <2> QED BY <1>1, <1>2, <2>1 DEF ForOrg, Servs
<1>7. CASE StoreSelect(c)
    <2>1. pc[c] \in HasServ /\ serv'[c] = [serv[c] EXCEPT !.enc_tm = now[c]]
        BY <1>7, TypeStoreSelect DEF StoreSelect, HasServ, Steps
    <2> QED BY <1>1, <1>2, <2>1 DEF ForOrg, Servs
<1>8. CASE serv' = serv /\ pc[c] \in HasServ
    BY <1>1, <1>2, <1>8 DEF ForOrg
<1>9. ASSUME pc'[c] \notin {"idle", "digest"}, GetKey(c) \/ CreateCipher(c) \/ StoreWrite(c)
      PROVE  serv' = serv /\ pc[c] \in HasServ
    BY <1>9 DEF GetKey, CreateCipher, StoreWrite, Return, Goto, TypeInv, TypeOK, HasServ, Steps
<1>10. FileError(c) \/ NameRecord(c) => pc'[c] \in {"idle", "digest"}
    BY TypeNameRecord DEF FileError, Return, Goto, TypeInv, TypeOK
<1> QED BY <1>3, <1>4, <1>5, <1>6, <1>7, <1>8, <1>9, <1>10 DEF Iteration

(* Outside the handler no batch runs, and what is not of the dialog does    *)
(* not touch its fields.                                                    *)
LEMMA OrgOtherSteps ==
    ASSUME TypeInv, NEW c \in Clients, ForOrg(c),
           Start(c) \/ Dialog(c) \/ Edit(c) \/ Quit(c) \/ Pass(c)
    PROVE  ForOrg(c)'
<1>1. CASE Start(c) \/ Quit(c)
    BY <1>1 DEF Start, Quit, Goto, TypeInv, TypeOK, ForOrg, Busy, Steps
<1>2. CASE Dialog(c)
    BY <1>2 DEF Dialog, handlerVars, ForOrg, Busy, Steps
<1>3. CASE Edit(c) \/ Pass(c)
    BY <1>3 DEF Edit, Pass, Tick, handlerVars, uiVars, ForOrg, Busy
<1> QED BY <1>1, <1>2, <1>3

(* Every step keeps BatchForOrgShown.                                       *)
LEMMA OrgStep == TypeInv /\ BatchForOrgShown /\ [Next]_vars => BatchForOrgShown'
<1> SUFFICES ASSUME TypeInv, BatchForOrgShown, [Next]_vars PROVE BatchForOrgShown'
    OBVIOUS
<1>1. CASE UNCHANGED vars
    BY <1>1 DEF BatchForOrgShown, Busy, vars, uiVars, handlerVars
<1>2. ASSUME NEW c \in Clients, ClientStep(c)
      PROVE  BatchForOrgShown'
    <2>1. \A d \in Clients : ForOrg(d)
        BY DEF BatchForOrgShown, ForOrg
    <2>2. ForOrg(c)'
        BY <1>2, <2>1, OrgOnEncryptFile, OrgIteration, OrgOtherSteps DEF ClientStep
    <2>3. ASSUME NEW d \in Clients, d # c
          PROVE  ForOrg(d)'
        <3>1. Same(d)
            BY <1>2, <2>3, OthersSame DEF TypeInv
        <3> QED BY <2>1, <3>1 DEF Same, ForOrg, Busy
    <2> QED BY <2>2, <2>3 DEF BatchForOrgShown, ForOrg
<1> QED BY <1>1, <1>2 DEF Next, ClientStep

(* No batch runs at first.                                                  *)
LEMMA OrgInit == Init => BatchForOrgShown
BY DEF Init, BatchForOrgShown, Busy, Steps

(* A batch is for the organisation whose name is in the combo box, in OrgID *)
(* and in every KM_SERV it stores, for any organisations, whatever was      *)
(* chosen, typed or looked up in vain before.                               *)
THEOREM BatchForOrgShownHolds == Spec => []BatchForOrgShown
BY OrgInit, OrgStep, TypeInvariance, PTL DEF Spec

-----------------------------------------------------------------------------
(* One record for each digest.                                              *)

(* No digest has two rows.                                                  *)
Unique(rows) == \A i, j \in DOMAIN rows : rows[i].md5_c = rows[j].md5_c => i = j

(* A row is only appended for a digest that has none.                       *)
LEMMA UniqueInserted ==
    ASSUME NEW rows \in Seq(Rows), Unique(rows), NEW s, NEW adm, Holding(rows, s.md5_c) = {}
    PROVE  Unique(Inserted(rows, s, adm))
<1> DEFINE new == Inserted(rows, s, adm)
           last == Len(rows) + 1
<1>1. /\ \A i \in DOMAIN new : i = last \/ i \in DOMAIN rows
      /\ \A i \in DOMAIN rows : new[i] = rows[i]
      /\ new[last] = RowOf(s, adm, Nil)
    BY DEF Inserted
<1>2. new[last].md5_c = s.md5_c
    <2> HIDE DEF new
    <2> QED BY <1>1 DEF RowOf
<1>3. \A i \in DOMAIN rows : rows[i].md5_c # s.md5_c
    BY DEF Holding
<1> HIDE DEF new, last
<1> QED BY <1>1, <1>2, <1>3 DEF Unique, new

(* Rows keep their digests when they are changed.                           *)
LEMMA UniqueChanged ==
    ASSUME NEW rows \in Seq(Rows), Unique(rows), NEW s, NEW adm, NEW d, NEW f
    PROVE  Unique(Updated(rows, s, adm)) /\ Unique(Named(rows, d, f))
<1>1. Unique(Updated(rows, s, adm))
    <2> DEFINE new == Updated(rows, s, adm)
    <2>1. DOMAIN new = DOMAIN rows /\ \A i \in DOMAIN rows : new[i].md5_c = rows[i].md5_c
        BY DEF Updated, RowOf
    <2> HIDE DEF new
    <2> QED BY <2>1 DEF Unique, new
<1>2. Unique(Named(rows, d, f))
    <2> DEFINE new == Named(rows, d, f)
    <2>1. DOMAIN new = DOMAIN rows /\ \A i \in DOMAIN rows : new[i].md5_c = rows[i].md5_c
        BY DEF Named, Rows
    <2> HIDE DEF new
    <2> QED BY <2>1 DEF Unique, new
<1> QED BY <1>1, <1>2

(* What the select did not find is still not there when the insert runs:    *)
(* nobody else has written in between, and the select did not fail.         *)
LEMMA OnceStep ==
    ASSUME StoredOnce, TypeInv, OnceInv, [Next]_vars
    PROVE  OnceInv'
<1>1. CASE UNCHANGED vars
    BY <1>1 DEF OnceInv, OneRecordPerCipher, OnceInHand, vars, dbVars, handlerVars
<1>2. ASSUME NEW c \in Clients, ClientStep(c)
      PROVE  OnceInv'
    <2>1. Unique(service) /\ OnceInHand(c) /\ service \in Seq(Rows)
        BY DEF OnceInv, OneRecordPerCipher, Unique, TypeInv, TypeOK, DbTypeOK
    <2>2. Unique(service')
        <3>1. CASE StoreWrite(c)
            <4>1. CASE service' = Inserted(service, serv[c], AdminID[c]) /\ ~found[c] /\ ~Refused(serv[c])
                <5>1. pc[c] = "write"
                    BY <3>1 DEF StoreWrite
                <5>2. Holding(service, serv[c].md5_c) = {}
                    BY <2>1, <4>1, <5>1, KmServiceAssumption DEF OnceInHand, Refused
                <5> QED BY <2>1, <4>1, <5>2, UniqueInserted
            <4>2. CASE service' \in {service, Updated(service, serv[c], AdminID[c])}
                BY <2>1, <4>2, UniqueChanged
            <4>3. \/ service' = Inserted(service, serv[c], AdminID[c]) /\ ~found[c] /\ ~Refused(serv[c])
                  \/ service' \in {service, Updated(service, serv[c], AdminID[c])}
                BY <3>1 DEF StoreWrite, StoreWrites, Statement, dbVars
            <4> QED BY <4>1, <4>2, <4>3
        <3>2. CASE NameRecord(c)
            BY <2>1, <3>2, TypeNameRecord, UniqueChanged
        <3>3. CASE ~StoreWrite(c) /\ ~NameRecord(c)
            BY <1>2, <2>1, <3>3, TableSteps
        <3> QED BY <3>1, <3>2, <3>3
    <2>3. OnceInHand(c)'
        <3> SUFFICES ASSUME ~UniqueMd5, pc'[c] = "write", ~found'[c]
                     PROVE  Holding(service', serv'[c].md5_c) = {}
            BY DEF OnceInHand
        <3>1. CASE StoreSelect(c)
            <4>1. PICK code \in Codes \cup {0} :
                      found' = [found EXCEPT ![c] = RowsReturned(service, serv[c].md5_c, code)]
                <5>1. ~Return(c)
                    BY DEF Return, Goto, TypeInv, TypeOK
                <5> QED BY <3>1, <5>1, Zenon DEF StoreSelect
            <4>2. code = 0
                BY DEF StoredOnce
            <4>3. Holding(service, serv[c].md5_c) = {}
                BY <4>1, <4>2 DEF TypeInv, TypeOK, RowsReturned
            <4> QED BY <3>1, <4>3, TypeStoreSelect
        <3>2. CASE ~StoreSelect(c)
            <4>1. Edit(c) \/ Pass(c)
                <5>1. ~Start(c) /\ ~Quit(c) /\ ~FileError(c) /\ ~Dialog(c)
                    BY DEF Start, Quit, FileError, Dialog, handlerVars, Return, Goto, TypeInv,
                       TypeOK
                <5>2. ~OnEncryptFile(c) /\ ~NameRecord(c)
                    BY TypeOnEncryptFile, TypeNameRecord
                <5>3. ~DigestPlain(c) /\ ~GenKey(c) /\ ~GetKey(c) /\ ~FillCipher(c)
                    BY DEF DigestPlain, GenKey, GetKey, FillCipher, Goto, TypeInv, TypeOK
                <5>4. ~CreateCipher(c) /\ ~StoreWrite(c)
                    BY DEF CreateCipher, StoreWrite, Return, Goto, TypeInv, TypeOK
                <5> QED BY <1>2, <3>2, <5>1, <5>2, <5>3, <5>4
                        DEF ClientStep, Iteration
            <4>2. /\ pc[c] = "write" /\ ~found[c] /\ serv'[c] = serv[c] /\ service' = service
                BY <4>1 DEF Edit, Pass, dbVars, handlerVars
            <4> QED BY <2>1, <4>2 DEF OnceInHand
        <3> QED BY <3>1, <3>2
    <2>4. ASSUME NEW d \in Clients, d # c
          PROVE  OnceInHand(d)'
        BY <2>4, KmServiceAssumption DEF OnceInHand, StoredOnce
    <2> QED BY <2>2, <2>3, <2>4 DEF OnceInv, OneRecordPerCipher, Unique
<1> QED BY <1>1, <1>2 DEF Next, ClientStep

(* The table is empty at first.                                             *)
LEMMA OnceInit == Init => OnceInv
BY DEF Init, DbInit, OnceInv, OneRecordPerCipher, OnceInHand

(* KM_SERV::store looks for a row before it decides between insert and      *)
(* update, so a digest is stored once: when the table has a unique key, or  *)
(* when one client works alone and no statement fails.  Neither the select  *)
(* nor its result protects against a second client or a failed select.      *)
THEOREM OneRecordPerCipherHolds ==
    ASSUME StoredOnce
    PROVE  Spec => []OneRecordPerCipher
<1>1. TypeInv /\ OnceInv /\ [Next]_vars => OnceInv'
    BY OnceStep
<1>2. OnceInv => OneRecordPerCipher
    BY DEF OnceInv
<1> QED BY <1>1, <1>2, OnceInit, TypeInvariance, PTL DEF Spec

-----------------------------------------------------------------------------
(* The whole inductive invariant: what run two_clients checks of two        *)
(* clients holds of any number.                                             *)
THEOREM IInvHolds == Spec => []IInv
<1> DEFINE DInv == StoredOnce => OnceInv
<1>1. Init => PlainInv /\ ReportedNamed /\ BatchForOrgShown /\ DInv
    BY PlainInit, NamedInit, OrgInit, OnceInit
<1>2. TypeInv /\ ReportInv /\ DInv /\ [Next]_vars => DInv'
    <2> SUFFICES ASSUME TypeInv, DInv, [Next]_vars PROVE DInv'
        OBVIOUS
    <2>1. StoredOnce' = StoredOnce
        BY DEF StoredOnce
    <2> QED BY <2>1, OnceStep
<1>3. TypeInv /\ KeyInv /\ ReportInv /\ PlainInv /\ ReportedNamed /\ BatchForOrgShown /\ DInv => IInv
    BY DEF IInv
<1> HIDE DEF DInv
<1> QED BY <1>1, <1>2, <1>3, PlainStep, NamedStep, OrgStep,
           TypeInvariance, KeyInvariance, ReportInvariance, PTL DEF Spec
=============================================================================
