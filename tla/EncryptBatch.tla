---------------------------- MODULE EncryptBatch ----------------------------
(***************************************************************************)
(* The archive clients at work: CArchiveDlg::OnEncryptFile (ArchiveDlg.cpp)*)
(* on every client, the dialog it starts from (ArchiveDialog), the table   *)
(* all clients share (KmService) and the files of each machine.            *)
(*                                                                         *)
(* The handler is cut where something else can happen: between two         *)
(* statements, between closing a file and opening it again, between two    *)
(* readings of the clock, and wherever the process may die.                *)
(***************************************************************************)
EXTENDS ArchiveDialog

CONSTANT
    Env         \* what the environment does: "edit", "fileError", "crash"

VARIABLES
    plain,       \* plain[c][f]: the content of file f on the machine of c
    cipher,      \* cipher[c][p]: the cipher file p, or Nil
    pc,          \* where the handler stands
    findex,      \* the index of the file being encrypted
    serv,        \* the KM_SERV of that file; Nil before it is made
    ContentKey,  \* the key buffer, kept from file to file
    found,       \* what the select of KM_SERV::store returned
    reported,    \* the cipher files shown to the user as done
    edited,      \* history: was the plain file written to since its digest?
    torn,        \* history: plaintext digest and data of what was sealed then
    swallowed    \* history: the files reported after a failed naming

handlerVars == <<pc, findex, serv, ContentKey, found>>
diskVars == <<plain, cipher>>
historyVars == <<edited, torn, swallowed>>
vars == <<dbVars, now, uiVars, handlerVars, diskVars, reported, historyVars>>

(* 4 bytes of flag, 8 of deadline, 32 of digest, then the data.             *)
CipherFiles == [deadline : Deadlines, digest : Bodies \cup {Nil},
                data : Bodies \cup {Nil}]

ASSUME BatchAssumption ==
    /\ Env \subseteq {"edit", "fileError", "crash"}
    /\ Nil \notin CipherFiles

Steps == {"digest", "genkey", "getkey", "create", "fill", "select", "write", "name"}

Busy(c) == pc[c] \in Steps

PlainFile(c) == PlainPath_ary[c][findex[c]]
CipherFile(c) == CipherPath_ary[c][findex[c]]

Goto(c, step) == pc' = [pc EXCEPT ![c] = step]

-----------------------------------------------------------------------------
Init ==
    /\ DbInit
    /\ DialogInit
    /\ plain \in [Clients -> [Files -> Texts]]
    /\ cipher = [c \in Clients |-> [p \in Paths |-> Nil]]
    /\ pc = [c \in Clients |-> "off"]
    /\ findex = [c \in Clients |-> 1]
    /\ serv = [c \in Clients |-> Nil]
    /\ ContentKey = [c \in Clients |-> NoKey]
    /\ found = [c \in Clients |-> FALSE]
    /\ reported = [c \in Clients |-> {}]
    /\ edited = [c \in Clients |-> FALSE]
    /\ torn = {}
    /\ swallowed = [c \in Clients |-> {}]

Start(c) ==
    /\ pc[c] = "off"
    /\ InitInstance(c)
    /\ Goto(c, "idle")
    /\ UNCHANGED <<dbVars, diskVars, findex, serv, ContentKey, found, reported,
                   historyVars>>

(* A handler of the dialog; none runs while the encryption handler does.    *)
Dialog(c) ==
    /\ pc[c] = "idle"
    /\ \/ OnReadFile(c) /\ UNCHANGED dbVars
       \/ OnBnClickedButtonsavepath(c) /\ UNCHANGED dbVars
       \/ TypeOrgName(c) /\ UNCHANGED dbVars
       \/ OnDtnDatetimechangeDatetimepicker1(c) /\ UNCHANGED dbVars
       \/ \E code \in Codes \cup {0} : OnCbnSelchangeCombo1(c, code) /\ Query(code)
    /\ UNCHANGED <<handlerVars, diskVars, reported, historyVars>>

(* OnEncryptFile, refused by JudgeBeforeEncrypt or let into the loop.       *)
OnEncryptFile(c) ==
    /\ pc[c] = "idle"
    /\ \E code \in Codes \cup {0} :
          /\ IF LooksUpOrg(c) THEN Query(code) ELSE UNCHANGED dbVars
          /\ KeepsOrgID(c, code)
          /\ pc' = [pc EXCEPT ![c] = IF JudgeBeforeEncrypt(c, code) THEN "digest" ELSE "idle"]
    /\ findex' = [findex EXCEPT ![c] = 1]
    /\ UNCHANGED <<now, diskVars, serv, ContentKey, found, reported, historyVars>>

(* The handler returns, from the end of the loop or from inside it.         *)
Return(c) ==
    /\ Goto(c, "idle")
    /\ findex' = [findex EXCEPT ![c] = 1]
    /\ serv' = [serv EXCEPT ![c] = Nil]
    /\ found' = [found EXCEPT ![c] = FALSE]
    /\ UNCHANGED ContentKey

-----------------------------------------------------------------------------
(* One iteration of the loop.                                               *)

(* Variant: the digest is that of the first file of the batch.              *)
DigestFirst(c) ==
    /\ pc[c] = "digest"
    /\ serv' = [serv EXCEPT
           ![c] = NewServ(OrgID[c], plain[c][PlainPath_ary[c][1]], m_date_64t[c])]
    /\ edited' = [edited EXCEPT ![c] = FALSE]
    /\ Goto(c, "genkey")
    /\ UNCHANGED <<dbVars, now, uiVars, diskVars, findex, ContentKey, found, reported,
                   torn, swallowed>>

(* The plain file is opened, read, digested and closed.                     *)
DigestPlain(c) ==
    /\ pc[c] = "digest"
    /\ serv' = [serv EXCEPT
           ![c] = NewServ(OrgID[c], plain[c][PlainFile(c)], m_date_64t[c])]
    /\ edited' = [edited EXCEPT ![c] = FALSE]
    /\ Goto(c, "genkey")
    /\ UNCHANGED <<dbVars, now, uiVars, diskVars, findex, ContentKey, found, reported,
                   torn, swallowed>>

GenKey(c) ==
    /\ pc[c] = "genkey"
    /\ serv' = [serv EXCEPT ![c] = gen_key(@, now[c])]
    /\ Goto(c, "getkey")
    /\ UNCHANGED <<dbVars, now, uiVars, diskVars, findex, ContentKey, found, reported,
                   historyVars>>

(* The result of get_skey is not looked at.                                 *)
GetKey(c) ==
    /\ pc[c] = "getkey"
    /\ ContentKey' = [ContentKey EXCEPT ![c] = get_skey(serv[c], now[c], @)]
    /\ Goto(c, "create")
    /\ UNCHANGED <<dbVars, now, uiVars, diskVars, findex, serv, found, reported,
                   historyVars>>

(* The plain file is opened again; the cipher file is created, or emptied,  *)
(* and the first part of its header written.  When the plain file cannot be *)
(* opened the handler goes on and the first read throws.                    *)
CreateCipher(c) ==
    /\ pc[c] = "create"
    /\ cipher' = [cipher EXCEPT ![c][CipherFile(c)] =
           [deadline |-> m_date_64t[c], digest |-> Nil, data |-> Nil]]
    /\ reported' = [reported EXCEPT ![c] = @ \ {CipherFile(c)}]
    /\ swallowed' = [swallowed EXCEPT ![c] = @ \ {CipherFile(c)}]
    /\ \/ /\ Goto(c, "fill")
          /\ UNCHANGED <<findex, serv, ContentKey, found>>
       \/ /\ "fileError" \in Env
          /\ Return(c)
    /\ UNCHANGED <<dbVars, now, uiVars, plain, edited, torn>>

(* The plain file, closed to other programs by now, is encrypted block by   *)
(* block, then the data are read back, digested, and the digest is written  *)
(* into the header.  The file is closed.                                    *)
FillCipher(c) ==
    /\ pc[c] = "fill"
    /\ LET body == Sealed(plain[c][PlainFile(c)], ContentKey[c]) IN
          /\ cipher' = [cipher EXCEPT ![c][CipherFile(c)].digest = body,
                                      ![c][CipherFile(c)].data = body]
          /\ serv' = [serv EXCEPT ![c].md5_c = body]
          /\ torn' = IF edited[c] THEN torn \cup {<<serv[c].md5_p, body>>} ELSE torn
    /\ edited' = [edited EXCEPT ![c] = FALSE]
    /\ Goto(c, "select")
    /\ UNCHANGED <<dbVars, now, uiVars, plain, findex, ContentKey, found, reported,
                   swallowed>>

(* A file cannot be opened, created, read or written: the exception leaves  *)
(* the handler, whose locals close the files as they are.                   *)
FileError(c) ==
    /\ "fileError" \in Env
    /\ pc[c] \in {"digest", "create", "fill"}
    /\ Return(c)
    /\ UNCHANGED <<dbVars, now, uiVars, diskVars, reported, historyVars>>

(* KM_SERV::store(md5_c, enctm): the select.                                *)
StoreSelect(c) ==
    /\ pc[c] = "select"
    /\ current_date_64t' = [current_date_64t EXCEPT ![c] = now[c]]
    /\ IF Storable(serv[c])
       THEN \E code \in Codes \cup {0} :
               /\ Query(code)
               /\ serv' = [serv EXCEPT ![c].enc_tm = now[c]]
               /\ found' = [found EXCEPT
                      ![c] = RowsReturned(service, serv[c].md5_c, code)]
               /\ Goto(c, "write")
               /\ UNCHANGED <<findex, ContentKey>>
       ELSE Return(c) /\ UNCHANGED dbVars
    /\ UNCHANGED <<now, AdminID, PlainPath_ary, CipherPath_ary, OrgName, OrgID,
                   m_dateCtrl, m_date_64t, diskVars, reported, historyVars>>

(* Variant: as the handler's other statements, a failure unless -3 is none. *)
StoreFailsOffline(code) == code = -3

(* The -2 of `store' and the -1 its caller makes of it, tested by the       *)
(* handler.                                                                 *)
StoreFails(code) == code # 0

(* ... and the insert or update.  Any failure ends the batch; the cipher    *)
(* file stays where it is.                                                  *)
StoreWrite(c) ==
    /\ pc[c] = "write"
    /\ \E code \in Codes \cup {0, -4} :
          /\ StoreWrites(serv[c], AdminID[c], found[c], code)
          /\ IF StoreFails(code)
             THEN Return(c)
             ELSE Goto(c, "name") /\ UNCHANGED <<findex, serv, ContentKey, found>>
    /\ UNCHANGED <<now, uiVars, diskVars, reported, historyVars>>

NamingFails(code) == code = -3

(* Variants: the loop stops one file early, or never moves on.              *)
MoreFilesShort(c) == findex[c] + 1 < SelFileNum(c)
SameIndex(i) == i

(* findex<SelFileNum and findex++, findex counting from 1 here.             *)
MoreFiles(c) == findex[c] < SelFileNum(c)
NextIndex(i) == i + 1

(* File name and remark are added to the record.  Only a missing connection *)
(* counts as failure; otherwise the file is shown as done and the loop goes *)
(* on to the next one.                                                      *)
NameRecord(c) ==
    /\ pc[c] = "name"
    /\ \E code \in Codes \cup {0} :
          /\ Statement(code, Named(service, serv[c].md5_c, PlainFile(c)))
          /\ IF NamingFails(code)
             THEN Return(c) /\ UNCHANGED <<reported, swallowed>>
             ELSE /\ reported' = [reported EXCEPT ![c] = @ \cup {CipherFile(c)}]
                  /\ swallowed' = IF code = 0 THEN swallowed
                                  ELSE [swallowed EXCEPT ![c] = @ \cup {CipherFile(c)}]
                  /\ IF MoreFiles(c)
                     THEN /\ findex' = [findex EXCEPT ![c] = NextIndex(@)]
                          /\ Goto(c, "digest")
                          /\ serv' = [serv EXCEPT ![c] = Nil]
                          /\ found' = [found EXCEPT ![c] = FALSE]
                          /\ UNCHANGED ContentKey
                     ELSE Return(c)
    /\ UNCHANGED <<now, uiVars, diskVars, edited, torn>>

Iteration(c) ==
    \/ DigestPlain(c) \/ GenKey(c) \/ GetKey(c) \/ CreateCipher(c) \/ FillCipher(c)
    \/ FileError(c) \/ StoreSelect(c) \/ StoreWrite(c) \/ NameRecord(c)

-----------------------------------------------------------------------------
(* The environment.                                                         *)

(* The steps of the handler between closing the plain file and opening it   *)
(* again.                                                                   *)
BetweenReadings == {"genkey", "getkey", "create"}

(* Another program writes a plain file; it cannot while this one reads it.  *)
Edit(c) ==
    /\ "edit" \in Env
    /\ \E f \in Files, x \in Texts :
          /\ ~(pc[c] = "fill" /\ PlainFile(c) = f)
          /\ plain' = [plain EXCEPT ![c][f] = x]
          /\ edited' = [edited EXCEPT ![c] =
                 @ \/ (pc[c] \in BetweenReadings /\ PlainFile(c) = f)]
    /\ UNCHANGED <<dbVars, now, uiVars, handlerVars, cipher, reported, torn, swallowed>>

(* The process ends: closed by its user when idle, killed at any time.      *)
Quit(c) ==
    /\ pc[c] = "idle" \/ "crash" \in Env
    /\ DialogGone(c)
    /\ Goto(c, "off")
    /\ findex' = [findex EXCEPT ![c] = 1]
    /\ serv' = [serv EXCEPT ![c] = Nil]
    /\ ContentKey' = [ContentKey EXCEPT ![c] = NoKey]
    /\ found' = [found EXCEPT ![c] = FALSE]
    /\ UNCHANGED <<dbVars, diskVars, reported, historyVars>>

Pass(c) ==
    /\ Tick(c)
    /\ UNCHANGED <<dbVars, handlerVars, diskVars, reported, historyVars>>

Next ==
    \E c \in Clients :
        \/ Start(c) \/ Dialog(c) \/ OnEncryptFile(c) \/ Iteration(c)
        \/ Edit(c) \/ Quit(c) \/ Pass(c)

Spec == Init /\ [][Next]_vars

(* A running handler goes on: no call in it waits for the user, and every   *)
(* statement returns.  Nothing makes a user press a button.                 *)
Fairness == \A c \in Clients : WF_vars(Iteration(c))

FairSpec == Spec /\ Fairness

-----------------------------------------------------------------------------
(* Properties.                                                              *)

(* Every variable stays in its set: the fields of CArchiveDlg, the KM_SERV  *)
(* under construction, the rows and the files.                              *)
TypeOK ==
    /\ DbTypeOK
    /\ DialogTypeOK
    /\ plain \in [Clients -> [Files -> Texts]]
    /\ cipher \in [Clients -> [Paths -> CipherFiles \cup {Nil}]]
    /\ pc \in [Clients -> Steps \cup {"off", "idle"}]
    /\ findex \in [Clients -> Nat \ {0}]
    /\ serv \in [Clients -> Servs \cup {Nil}]
    /\ ContentKey \in [Clients -> Keys]
    /\ found \in [Clients -> BOOLEAN]
    /\ reported \in [Clients -> SUBSET Paths]
    /\ edited \in [Clients -> BOOLEAN]
    /\ torn \in SUBSET (Texts \X Bodies)
    /\ swallowed \in [Clients -> SUBSET Paths]

(* The loop of OnEncryptFile indexes PlainPath_ary and CipherPath_ary with  *)
(* one counter.  Whatever the user selected, cancelled and selected again,  *)
(* the arrays have one length whenever the loop runs, the counter is inside *)
(* it, and in a batch of several files each cipher file bears the name of   *)
(* the plain file it is made from.                                          *)
PathsAligned ==
    \A c \in Clients : Busy(c) =>
        /\ Len(CipherPath_ary[c]) = SelFileNum(c)
        /\ findex[c] \in 1..SelFileNum(c)
        /\ SelFileNum(c) > 1 =>
              \A i \in 1..SelFileNum(c) : CipherPath_ary[c][i][2] = PlainPath_ary[c][i]

(* A cipher file shown to the user as done is complete, its header carries  *)
(* the digest of its data, and the table has a record of that digest:       *)
(* whatever statements failed, whoever wrote to the table since, whatever   *)
(* crashed.  Without the record nobody can ever get the key.                *)
ReportedRecorded ==
    \A c \in Clients : \A p \in reported[c] :
        /\ cipher[c][p] # Nil
        /\ cipher[c][p].digest # Nil
        /\ cipher[c][p].digest = cipher[c][p].data
        /\ Holding(service, cipher[c][p].digest) # {}

(* When the batch stops in the middle, the files before the one it stopped  *)
(* at are finished: at every moment of the loop all earlier files of the    *)
(* batch are reported, and stay so while later ones are encrypted.          *)
BatchPrefixReported ==
    \A c \in Clients : Busy(c) =>
        \A i \in 1..(findex[c] - 1) : CipherPath_ary[c][i] \in reported[c]

(* A record stored no later than its own deadline holds the key that opens  *)
(* the cipher file it is filed under.  KM_SERV::get_skey, whose result the  *)
(* handler ignores, leaves the key of an earlier file in ContentKey once    *)
(* the deadline has passed, between any two readings of the clock, and a    *)
(* record may be overwritten by another client's store of an equal digest.  *)
RecordKeyOpensCipher ==
    \A i \in DOMAIN service :
        service[i].enc_tm <= service[i].expire =>
            Sealed(service[i].md5_c.text, service[i].skey) = service[i].md5_c

(* The plaintext digest in a record is that of the text inside the cipher   *)
(* file, although the handler reads the plain file twice and others store   *)
(* and overwrite records of equal digests.  One thing alone can separate    *)
(* the two: that another program wrote to that very file after the first    *)
(* reading and before the second.                                           *)
RecordDigestsPlain ==
    \A i \in DOMAIN service :
        \/ service[i].md5_p = service[i].md5_c.text
        \/ <<service[i].md5_p, service[i].md5_c>> \in torn

(* A cipher file shown as done has a record that bears a file name, so the  *)
(* record list can show it: another client's store of an equal digest must  *)
(* not take the name away, nor must a failure anywhere but in the naming    *)
(* statement of the file itself, whose codes -2 and -4 nobody looks at.     *)
ReportedNamed ==
    \A c \in Clients : \A p \in reported[c] \ swallowed[c] :
        \E i \in Holding(service, cipher[c][p].digest) : service[i].fname # Nil

(* A batch is for the organisation whose name stood in the combo box when   *)
(* it was let in: whatever was chosen or typed before, whichever of the     *)
(* lookups failed or were not made, no number of another organisation is    *)
(* left in OrgID or gets into a record.                                     *)
BatchForOrgShown ==
    \A c \in Clients : Busy(c) =>
        /\ OrgID[c] = OrgName[c]
        /\ pc[c] # "digest" => serv[c].org = OrgName[c]

(* "if data already exist": a digest is stored once, later stores of it     *)
(* change its record.                                                       *)
OneRecordPerCipher ==
    \A i, j \in DOMAIN service : service[i].md5_c = service[j].md5_c => i = j

(* A batch that has begun ends: the handler returns or the process is gone. *)
BatchEnds ==
    \A c \in Clients : Busy(c) ~> ~Busy(c)

(* When nothing fails, a batch ends with every file of the batch reported.  *)
BatchCompletes ==
    \A c \in Clients :
        Busy(c) ~> /\ pc[c] = "idle"
                   /\ PlainPath_ary[c] # <<>>
                   /\ Len(CipherPath_ary[c]) = SelFileNum(c)
                   /\ \A i \in 1..SelFileNum(c) : CipherPath_ary[c][i] \in reported[c]

-----------------------------------------------------------------------------
(* What the program says of itself and does not do.                         *)

(* The message of JudgeBeforeEncrypt: the deadline must lie after the       *)
(* present time.  It compares with the time of the last pick instead.       *)
BatchStartsBeforeDeadline ==
    [][\A c \in Clients :
          pc[c] = "idle" /\ Busy(c)' => m_date_64t[c] > now[c]]_vars

(* Every record holds the key that opens the cipher file it is filed under. *)
EveryRecordOpensCipher ==
    \A i \in DOMAIN service :
        Sealed(service[i].md5_c.text, service[i].skey) = service[i].md5_c
=============================================================================
