--------------------------- MODULE MCEncryptBatch ---------------------------
(***************************************************************************)
(* Instances of EncryptBatch for TLC: values for its constants, and the    *)
(* system started from the point where every user has finished selecting.  *)
(***************************************************************************)
EXTENDS EncryptBatchLedger

CONSTANTS f1, f2

OneFile == {<<f1>>}
BothFiles == {<<f1, f2>>}
AnySelection == {<<f1>>, <<f1, f2>>, <<f2, f1>>}

NoCodes == {}
QueryCodes == {-4}
AllCodes == {-2, -3, -4}

-----------------------------------------------------------------------------
(* Every user has logged in, opened the longest selection, picked a         *)
(* deadline, chosen an organisation and a folder: states of EncryptBatch    *)
(* that Init reaches.  From there on nobody touches the selection again,    *)
(* except to pick another deadline.                                         *)
ReadyInit ==
    /\ DbInit
    /\ now = [c \in Clients |-> 0]
    /\ AdminID \in [Clients -> Admins]
    /\ \E s \in Selections, d \in Dirs :
          /\ PlainPath_ary = [c \in Clients |-> s]
          /\ CipherPath_ary = [c \in Clients |-> [i \in DOMAIN s |-> <<d, s[i]>>]]
    /\ OrgName \in [Clients -> Orgs]
    /\ OrgID = OrgName
    /\ m_date_64t \in [Clients -> Deadlines \ {0}]
    /\ m_dateCtrl = m_date_64t
    /\ current_date_64t = [c \in Clients |-> 0]
    /\ plain \in [Clients -> [Files -> Texts]]
    /\ cipher = [c \in Clients |-> [p \in Paths |-> Nil]]
    /\ pc = [c \in Clients |-> "idle"]
    /\ findex = [c \in Clients |-> 1]
    /\ serv = [c \in Clients |-> Nil]
    /\ ContentKey = [c \in Clients |-> NoKey]
    /\ found = [c \in Clients |-> FALSE]
    /\ reported = [c \in Clients |-> {}]
    /\ edited = [c \in Clients |-> FALSE]
    /\ torn = {}
    /\ swallowed = [c \in Clients |-> {}]

Repick(c) ==
    /\ pc[c] = "idle"
    /\ OnDtnDatetimechangeDatetimepicker1(c)
    /\ UNCHANGED <<dbVars, handlerVars, diskVars, reported, historyVars>>

ReadyNext ==
    \E c \in Clients :
        OnEncryptFile(c) \/ Iteration(c) \/ Repick(c) \/ Edit(c) \/ Pass(c)

ReadySpec == ReadyInit /\ [][ReadyNext]_vars

ReadyFairSpec == ReadySpec /\ Fairness

(* The same, with users who choose and type organisations as well.          *)
Rechoose(c) ==
    /\ pc[c] = "idle"
    /\ \/ TypeOrgName(c) /\ UNCHANGED dbVars
       \/ \E code \in Codes \cup {0} : OnCbnSelchangeCombo1(c, code) /\ Query(code)
    /\ UNCHANGED <<handlerVars, diskVars, reported, historyVars>>

ChoosingSpec == ReadyInit /\ [][ReadyNext \/ \E c \in Clients : Rechoose(c)]_vars
=============================================================================
