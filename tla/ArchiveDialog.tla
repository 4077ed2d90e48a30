--------------------------- MODULE ArchiveDialog ---------------------------
(***************************************************************************)
(* The main dialog, CArchiveDlg (ArchiveDlg.cpp), up to the point where    *)
(* the encryption handler starts its loop: what an administrator has       *)
(* selected, and the handlers that change the selection.                   *)
(*                                                                         *)
(* A client is one process on one machine, with a clock and a user of its  *)
(* own.  A handler runs on the only thread of the process and a modal      *)
(* dialog disables its parent, so a handler is one step towards the other  *)
(* handlers of the same client.                                            *)
(***************************************************************************)
EXTENDS KmService

CONSTANTS
    Clients,    \* the running copies of the program
    Dirs,       \* the folders a user saves cipher files in
    Selections, \* what the open dialog may return: the chosen files, in order
    Deadlines   \* the times a user sets the date control to

(* A cipher file: its folder, and the plain file its name is made from.    *)
Paths == Dirs \X Files

(* All files of one open dialog are in one folder, so their names differ.  *)
ASSUME DialogAssumption ==
    /\ Deadlines \subseteq Time
    /\ Selections \subseteq Seq(Files)
    /\ \A s \in Selections :
          /\ s # <<>>
          /\ \A i, j \in DOMAIN s : s[i] = s[j] => i = j

VARIABLES
    now,              \* the clock of each client's machine
    AdminID,          \* who is logged in; Nil when the program is not running
    PlainPath_ary,    \* the selected files
    CipherPath_ary,   \* where their cipher files go
    OrgName,          \* the combo box: a row of `org', Nil for any other text
    OrgID,            \* the number of the organisation; Nil when never set
    m_dateCtrl,       \* the time the date control displays
    m_date_64t,       \* the deadline; -1 when never picked
    current_date_64t  \* when the deadline was last picked or a record stored

uiVars == <<AdminID, PlainPath_ary, CipherPath_ary, OrgName, OrgID,
            m_dateCtrl, m_date_64t, current_date_64t>>

SelFileNum(c) == Len(PlainPath_ary[c])

-----------------------------------------------------------------------------
(* OnInitDialog leaves current_date_64t as it was: any value stands for it. *)
DialogInit ==
    /\ now = [c \in Clients |-> 0]
    /\ AdminID = [c \in Clients |-> Nil]
    /\ PlainPath_ary = [c \in Clients |-> <<>>]
    /\ CipherPath_ary = [c \in Clients |-> <<>>]
    /\ OrgName = [c \in Clients |-> Nil]
    /\ OrgID = [c \in Clients |-> Nil]
    /\ m_dateCtrl = [c \in Clients |-> 0]
    /\ m_date_64t = [c \in Clients |-> -1]
    /\ current_date_64t = [c \in Clients |-> 0]

(* InitInstance: the login dialog succeeds and the main dialog opens.       *)
InitInstance(c) ==
    /\ AdminID[c] = Nil
    /\ \E a \in Admins : AdminID' = [AdminID EXCEPT ![c] = a]
    /\ m_dateCtrl' = [m_dateCtrl EXCEPT ![c] = now[c]]
    /\ \E t \in Time : current_date_64t' = [current_date_64t EXCEPT ![c] = t]
    /\ UNCHANGED <<now, PlainPath_ary, CipherPath_ary, OrgName, OrgID, m_date_64t>>

(* The process ends and takes its memory with it.                           *)
DialogGone(c) ==
    /\ AdminID[c] # Nil
    /\ AdminID' = [AdminID EXCEPT ![c] = Nil]
    /\ PlainPath_ary' = [PlainPath_ary EXCEPT ![c] = <<>>]
    /\ CipherPath_ary' = [CipherPath_ary EXCEPT ![c] = <<>>]
    /\ OrgName' = [OrgName EXCEPT ![c] = Nil]
    /\ OrgID' = [OrgID EXCEPT ![c] = Nil]
    /\ m_dateCtrl' = [m_dateCtrl EXCEPT ![c] = 0]
    /\ m_date_64t' = [m_date_64t EXCEPT ![c] = -1]
    /\ current_date_64t' = [current_date_64t EXCEPT ![c] = 0]
    /\ UNCHANGED now

(* Variant: the cipher paths of the previous selection stay.                *)
OnReadFileKeeping(c) ==
    /\ \E s \in Selections \cup {<<>>} :
          PlainPath_ary' = [PlainPath_ary EXCEPT ![c] = s]
    /\ OrgName' = [OrgName EXCEPT ![c] = Nil]
    /\ m_dateCtrl' = [m_dateCtrl EXCEPT ![c] = now[c]]
    /\ UNCHANGED <<now, AdminID, CipherPath_ary, OrgID, m_date_64t, current_date_64t>>

(* The handler empties both lists and the organisation and shows the        *)
(* present time in the date control, then asks for files.  SetTime sends no *)
(* notification: m_date_64t keeps the deadline picked for earlier files.    *)
OnReadFile(c) ==
    /\ \E s \in Selections \cup {<<>>} :
          PlainPath_ary' = [PlainPath_ary EXCEPT ![c] = s]
    /\ CipherPath_ary' = [CipherPath_ary EXCEPT ![c] = <<>>]
    /\ OrgName' = [OrgName EXCEPT ![c] = Nil]
    /\ m_dateCtrl' = [m_dateCtrl EXCEPT ![c] = now[c]]
    /\ UNCHANGED <<now, AdminID, OrgID, m_date_64t, current_date_64t>>

(* Variant: the name of the first file serves for all.                      *)
FirstNames(d, s) == [i \in 1..Len(s) |-> <<d, s[1]>>]

CipherNames(d, s) == [i \in 1..Len(s) |-> <<d, s[i]>>]

(* A single file is saved where the save dialog says, several in one folder *)
(* under names made from theirs; cancelling the save dialog selects none,   *)
(* and cancelling the folder dialog gives the empty folder, one of Dirs.    *)
OnBnClickedButtonsavepath(c) ==
    /\ PlainPath_ary[c] # <<>>
    /\ \/ /\ SelFileNum(c) = 1
          /\ \E s \in {<<p>> : p \in Paths} \cup {<<>>} :
                CipherPath_ary' = [CipherPath_ary EXCEPT ![c] = s]
       \/ /\ SelFileNum(c) # 1
          /\ \E d \in Dirs :
                CipherPath_ary' = [CipherPath_ary EXCEPT
                    ![c] = CipherNames(d, PlainPath_ary[c])]
    /\ UNCHANGED <<now, AdminID, PlainPath_ary, OrgName, OrgID, m_dateCtrl,
                   m_date_64t, current_date_64t>>

(* An item of the drop-down list is chosen; its number is looked up.        *)
OnCbnSelchangeCombo1(c, code) ==
    \E o \in Orgs :
        /\ OrgName' = [OrgName EXCEPT ![c] = o]
        /\ OrgID' = IF code = 0 THEN [OrgID EXCEPT ![c] = o] ELSE OrgID
        /\ UNCHANGED <<now, AdminID, PlainPath_ary, CipherPath_ary, m_dateCtrl,
                       m_date_64t, current_date_64t>>

(* The user types in the combo box instead; nothing else changes.           *)
TypeOrgName(c) ==
    /\ \E o \in Orgs \cup {Nil} : OrgName' = [OrgName EXCEPT ![c] = o]
    /\ UNCHANGED <<now, AdminID, PlainPath_ary, CipherPath_ary, OrgID, m_dateCtrl,
                   m_date_64t, current_date_64t>>

(* The date control is set to a time that is now past: its display goes     *)
(* back to the present, but m_date_64t is what was picked.                  *)
OnDtnDatetimechangeDatetimepicker1(c) ==
    \E d \in Deadlines :
        /\ m_date_64t' = [m_date_64t EXCEPT ![c] = d]
        /\ current_date_64t' = [current_date_64t EXCEPT ![c] = now[c]]
        /\ m_dateCtrl' = [m_dateCtrl EXCEPT ![c] = IF now[c] >= d THEN now[c] ELSE d]
        /\ UNCHANGED <<now, AdminID, PlainPath_ary, CipherPath_ary, OrgName, OrgID>>

-----------------------------------------------------------------------------
(* JudgeBeforeEncrypt.  The organisation is looked up before the deadline   *)
(* and the paths are examined, and its number is kept whatever they say.    *)
LooksUpOrg(c) == PlainPath_ary[c] # <<>> /\ OrgName[c] # Nil

OrgFound(c, code) == LooksUpOrg(c) /\ code = 0

JudgeBeforeEncrypt(c, code) ==
    /\ OrgFound(c, code)
    /\ m_date_64t[c] # -1
    /\ ~(current_date_64t[c] >= m_date_64t[c])
    /\ CipherPath_ary[c] # <<>>

(* Variant: the number looked up is not kept.                               *)
DropsOrgID(c, code) == UNCHANGED uiVars

(* Variant: a number once looked up serves for later batches.               *)
KeepsFirstOrgID(c, code) ==
    /\ OrgID' = IF OrgFound(c, code) /\ OrgID[c] = Nil
                THEN [OrgID EXCEPT ![c] = OrgName[c]] ELSE OrgID
    /\ UNCHANGED <<AdminID, PlainPath_ary, CipherPath_ary, OrgName, m_dateCtrl,
                   m_date_64t, current_date_64t>>

KeepsOrgID(c, code) ==
    /\ OrgID' = IF OrgFound(c, code) THEN [OrgID EXCEPT ![c] = OrgName[c]] ELSE OrgID
    /\ UNCHANGED <<AdminID, PlainPath_ary, CipherPath_ary, OrgName, m_dateCtrl,
                   m_date_64t, current_date_64t>>

(* Time passes on one machine.                                              *)
Tick(c) ==
    /\ now[c] < MaxTime
    /\ now' = [now EXCEPT ![c] = @ + 1]
    /\ UNCHANGED uiVars

DialogTypeOK ==
    /\ now \in [Clients -> Time]
    /\ AdminID \in [Clients -> Admins \cup {Nil}]
    /\ PlainPath_ary \in [Clients -> Selections \cup {<<>>}]
    /\ CipherPath_ary \in [Clients -> Seq(Paths)]
    /\ OrgName \in [Clients -> Orgs \cup {Nil}]
    /\ OrgID \in [Clients -> Orgs \cup {Nil}]
    /\ m_dateCtrl \in [Clients -> Time]
    /\ m_date_64t \in [Clients -> Deadlines \cup {-1}]
    /\ current_date_64t \in [Clients -> Time]
=============================================================================
