------------------------------ MODULE Session ------------------------------
(***************************************************************************)
(* A session of one process: the login (LoginDlg.cpp), the opening of the  *)
(* main dialog (ArchiveDlg.cpp), and the list of records (ViewDlg.cpp)     *)
(* with its sorting (ListCtrlSort.h).  Every statement goes through        *)
(* MyQuery, step by step; other clients write to the tables between the    *)
(* steps of a select and take the servers' connections.                    *)
(*                                                                         *)
(* Dialogs are modal: while a statement is under way, or a message is      *)
(* shown, the user reaches no other handler of the same process.           *)
(***************************************************************************)
EXTENDS MyQuery, Sequences, SequencesExt

CONSTANTS
    ConfFiles,  \* what conf.txt may hold
    Cut,        \* the first 14 characters of a value
    Names,      \* what a user types as name
    Passwords,  \* what a user types as password
    Ids,        \* the numbers of administrators
    Fold,       \* the name MySQL compares: without case, trailing blanks
    Accounts,   \* each server's rows of table `admin'
    Records,    \* each server's rows of table `service' at the beginning
    FileNames,  \* numbers, in the order of the names
    Times,      \* of encryption
    MaxWrites   \* how many times the tables `service' are written to

Rows == [admin : Ids, fname : FileNames, enc_tm : Times]

Columns == {"fname", "enc_tm"}

(* Column `acc' has a unique key under the server's collation.              *)
ASSUME SessionAssumption ==
    /\ ConfFiles \subseteq Confs
    /\ Cut \in [Values -> Values] /\ \A v \in Values : Cut[v] = Nil <=> v = Nil
    /\ Fold \in [Names -> Names]
    /\ Accounts \in [Servers -> SUBSET [id : Ids, acc : Names, pwd : Passwords]]
    /\ \A s \in Servers : \A r1, r2 \in Accounts[s] :
          Fold[r1.acc] = Fold[r2.acc] => r1 = r2
    /\ Records \in [Servers -> Seq(Rows)]
    /\ FileNames \subseteq Nat /\ Times \subseteq Nat
    /\ MaxWrites \in Nat
    /\ Nil \notin Columns

VARIABLES
    phase,      \* the dialog on top and what it waits for
    conf,       \* conf.txt
    typed,      \* the name and password last sent, and conf.txt as it was then
    admid,      \* AdminID of the main dialog
    loginAt,    \* history: the server that accepted the login
    filled,     \* does the drop-down list hold the organisations?
    result,     \* the answer of the server to the select under way
    seen,       \* history: the table of loginAt when it answered
    list,       \* the items of the record list
    sortBy,     \* nSortColumn_; Nil before the first click
    ascending,  \* bSortAscending_
    service,    \* each server's table `service'
    writes      \* how many times they were written to

loginVars == <<typed, admid, loginAt, filled>>
viewVars == <<result, seen, list, sortBy, ascending>>
tables == <<service, writes>>
vars == <<queryVars, phase, conf, loginVars, viewVars, tables>>

(* "login", "main" and "view" wait for the user when no statement is under  *)
(* way; "opening", "viewing" and "working" for a statement.                 *)
Phases == {"off", "login", "opening", "main", "working", "viewing", "view"}
LoggedIn == {"opening", "main", "working", "viewing", "view"}

Enter(p) == phase' = p

NothingTyped == [name |-> Nil, pwd |-> Nil, file |-> [f \in Fields |-> Nil]]

-----------------------------------------------------------------------------
Init ==
    /\ QueryInit
    /\ phase = "off"
    /\ conf \in ConfFiles
    /\ typed = NothingTyped
    /\ admid = Nil
    /\ loginAt = Nil
    /\ filled = FALSE
    /\ result = <<>>
    /\ seen = <<>>
    /\ list = <<>>
    /\ sortBy = Nil
    /\ ascending = TRUE
    /\ service = Records
    /\ writes = 0

(* The process and its memory are gone.                                     *)
Forget ==
    /\ Enter("off")
    /\ typed' = NothingTyped
    /\ admid' = Nil
    /\ loginAt' = Nil
    /\ filled' = FALSE
    /\ result' = <<>>
    /\ seen' = <<>>
    /\ list' = <<>>
    /\ sortBy' = Nil
    /\ ascending' = TRUE
    /\ UNCHANGED <<conf, tables>>

-----------------------------------------------------------------------------
(* Login.                                                                   *)

(* InitInstance: while the trial lasts, the login dialog opens.             *)
InitInstance ==
    /\ phase = "off"
    /\ Enter("login")
    /\ UNCHANGED <<queryVars, conf, loginVars, viewVars, tables>>

(* Variant: conf.txt is read only as long as nothing is configured.         *)
LinkDataBaseOnce ==
    IF configured(DB) THEN UNCHANGED DB
    ELSE set_conf([f \in Fields |-> Cut[conf[f]]])

LinkDataBase == set_conf([f \in Fields |-> Cut[conf[f]]])

(* CheckAdmin up to its select.  conf.txt is read at every attempt; nothing *)
(* is asked of the server when a field of it is empty.                      *)
CheckAdmin(name, pwd) ==
    /\ phase = "login"
    /\ Idle
    /\ LinkDataBase
    /\ typed' = [name |-> name, pwd |-> pwd, file |-> conf]
    /\ IF configured(DB')
       THEN Call("read")
       ELSE UNCHANGED <<stmt, held, kept, others, faults>>
    /\ UNCHANGED <<phase, conf, admid, loginAt, filled, viewVars, tables>>

(* "select * from admin where acc = ..." answers without regard to case;    *)
(* the key lets it find one row at most.                                    *)
AdminRows ==
    LET found == {r \in Accounts[DB["ip"]] : Fold[r.acc] = Fold[typed.name]}
    IN  IF found = {} THEN {<<>>} ELSE {<<r>> : r \in found}

(* Variant: the server's comparison of names is relied on.                  *)
AcceptsFolded(table) == table # <<>> /\ table[1].pwd = typed.pwd

(* The first row decides; its name is compared again, with regard to case.  *)
Accepts(table) ==
    /\ table # <<>>
    /\ table[1].acc = typed.name
    /\ table[1].pwd = typed.pwd

(* Variant: the number is read from the column beside it.                   *)
AdminNumberBeside(table) == table[1].acc

AdminNumber(table) == table[1].id

(* CheckAdmin after its select: the login dialog stays, or the main dialog  *)
(* opens and asks for the organisations.                                    *)
LoginAnswered(table) ==
    /\ IF Accepts(table)
       THEN /\ Enter("opening")
            /\ admid' = AdminNumber(table)
            /\ loginAt' = DB["ip"]
       ELSE UNCHANGED <<phase, admid, loginAt>>
    /\ UNCHANGED <<typed, filled, list, sortBy, ascending>>

-----------------------------------------------------------------------------
(* The main dialog and the record list.                                     *)

(* AddOrgCombMenu: after any failure the list is empty, and stays so.       *)
AddOrgCombMenu ==
    /\ phase = "opening"
    /\ Call("read")
    /\ UNCHANGED <<DB, phase, conf, loginVars, viewVars, tables>>

OrgsAnswered(code) ==
    /\ Enter("main")
    /\ filled' = (code = 0)
    /\ UNCHANGED <<typed, admid, loginAt, list, sortBy, ascending>>

(* The handlers that look organisations up and store records, EncryptBatch: *)
(* here for the connections they take and the rows they write.              *)
OtherStatement(kind) ==
    /\ phase = "main"
    /\ Call(kind)
    /\ Enter("working")
    /\ UNCHANGED <<DB, conf, loginVars, viewVars, tables>>

OtherAnswered ==
    /\ Enter("main")
    /\ UNCHANGED <<loginVars, list, sortBy, ascending>>

(* OnBnClickedViewbutton: a ViewDlg of its own for every click.             *)
OnBnClickedViewbutton ==
    /\ phase = "main"
    /\ Call("read")
    /\ Enter("viewing")
    /\ UNCHANGED <<DB, conf, loginVars, viewVars, tables>>

(* The rows are in the order of a column.                                   *)
InOrder(rows, col, up) ==
    \A i, j \in DOMAIN rows : i < j =>
        IF up THEN rows[i][col] <= rows[j][col] ELSE rows[i][col] >= rows[j][col]

(* The arrangements of the rows at some positions, each taken once,         *)
Arrangements(rows, P) ==
    {[k \in 1..Cardinality(P) |-> rows[p[k]]] : p \in Bijection(1..Cardinality(P), P)}

(* and those among them that are in order: nothing is promised of rows with *)
(* equal keys.                                                              *)
Ordered(rows, P, col, up) == {q \in Arrangements(rows, P) : InOrder(q, col, up)}

(* "... where service.admin = ... order by service.enc_tm desc": the join   *)
(* with `org' loses no row, a record's organisation is one of its rows.     *)
Of(rows, id) == {i \in DOMAIN rows : rows[i].admin = id}

ServiceRows ==
    LET rows == service[DB["ip"]]
    IN  Ordered(rows, Of(rows, admid), "enc_tm", FALSE)

(* Variant: every item is inserted at the top.                              *)
ItemsReversed(table) == Reverse(table)

(* Item i is inserted at i.                                                 *)
Items(table) == table

ListAnswered(table) ==
    /\ Enter("view")
    /\ list' = Items(table)
    /\ sortBy' = Nil
    /\ ascending' = TRUE
    /\ UNCHANGED loginVars

(* A column's head is clicked.  The column is remembered before it is       *)
(* compared with the one before, so the direction changes at every click.   *)
OnColumnClick(col) ==
    /\ phase = "view"
    /\ sortBy' = col
    /\ ascending' = ~ascending
    /\ \E q \in Ordered(list, DOMAIN list, col, ascending') : list' = q
    /\ UNCHANGED <<queryVars, phase, conf, loginVars, result, seen, tables>>

OnBnClickedOk ==
    /\ phase = "view"
    /\ Enter("main")
    /\ list' = <<>>
    /\ result' = <<>>
    /\ seen' = <<>>
    /\ sortBy' = Nil
    /\ ascending' = TRUE
    /\ UNCHANGED <<queryVars, conf, loginVars, tables>>

-----------------------------------------------------------------------------
(* The statement under way.                                                 *)

(* What its caller does with the code and the rows.                         *)
Answered(code, table) ==
    \/ phase = "login" /\ LoginAnswered(table)
    \/ phase = "opening" /\ OrgsAnswered(code)
    \/ phase = "working" /\ OtherAnswered
    \/ phase = "viewing" /\ ListAnswered(table)

Fail ==
    /\ NoHandle \/ ConnectFails \/ SetNamesFails \/ RunRefused
    /\ Answered(-1, <<>>)
    /\ UNCHANGED <<conf, result, seen, tables>>

GoOn ==
    /\ Connect \/ SetNames
    /\ UNCHANGED <<phase, conf, loginVars, viewVars, tables>>

(* The rows a select answers with: of the table it names.                   *)
Selected ==
    CASE phase = "login" -> AdminRows
      [] phase = "viewing" -> ServiceRows
      [] OTHER -> {<<>>}

Read ==
    /\ stmt.kind = "read"
    /\ Run
    /\ \E table \in Selected : result' = table
    /\ seen' = IF phase = "viewing" THEN service[loginAt] ELSE seen
    /\ UNCHANGED <<phase, conf, loginVars, list, sortBy, ascending, tables>>

(* A record is stored: a new row, or an old one that holds the same digest. *)
Written(s, ids) ==
    /\ writes < MaxWrites
    /\ writes' = writes + 1
    /\ \E r \in Rows :
          /\ r.admin \in ids
          /\ \/ service' = [service EXCEPT ![s] = Append(@, r)]
             \/ \E i \in DOMAIN service[s] : service' = [service EXCEPT ![s][i] = r]

Write ==
    /\ stmt.kind = "write"
    /\ Run
    /\ Answered(0, <<>>)
    /\ Written(DB["ip"], {admid}) \/ UNCHANGED tables
    /\ UNCHANGED <<conf, result, seen>>

(* A write may have been executed when its connection is lost.              *)
Lose ==
    /\ RunLost
    /\ Answered(-1, <<>>)
    /\ UNCHANGED tables \/ (stmt.kind = "write" /\ Written(DB["ip"], {admid}))
    /\ UNCHANGED <<conf, result, seen>>

Finish ==
    /\ Fetch
    /\ Answered(0, result)
    /\ result' = <<>>
    /\ UNCHANGED <<conf, seen, tables>>

Crash == FetchNull /\ Forget

StatementStep ==
    \/ AddOrgCombMenu \/ Fail \/ GoOn \/ Read \/ Write \/ Lose
    \/ Finish \/ Crash

-----------------------------------------------------------------------------
(* The user and the environment.                                            *)

(* A dialog without a statement under way is cancelled; the process may be  *)
(* ended from outside at any time.                                          *)
Quit ==
    /\ phase # "off"
    /\ Gone
    /\ Forget
    /\ UNCHANGED faults

EditConf ==
    /\ \E file \in ConfFiles : conf' = file
    /\ UNCHANGED <<queryVars, phase, loginVars, viewVars, tables>>

OthersWrite(s) ==
    /\ Written(s, Ids)
    /\ UNCHANGED <<queryVars, phase, conf, loginVars, viewVars>>

OthersConnect(s) ==
    /\ Expire(s) \/ Others(s)
    /\ UNCHANGED <<phase, conf, loginVars, viewVars, tables>>

User ==
    \/ InitInstance
    \/ \E name \in Names, pwd \in Passwords : CheckAdmin(name, pwd)
    \/ \E kind \in Kinds : OtherStatement(kind)
    \/ OnBnClickedViewbutton
    \/ \E col \in Columns : OnColumnClick(col)
    \/ OnBnClickedOk
    \/ EditConf
    \/ Quit

Next ==
    \/ StatementStep
    \/ User
    \/ \E s \in Servers : OthersWrite(s) \/ OthersConnect(s)

Spec == Init /\ [][Next]_vars

-----------------------------------------------------------------------------
(* Properties.                                                              *)

(* Every variable stays in its set.                                         *)
TypeOK ==
    /\ QueryTypeOK
    /\ phase \in Phases
    /\ conf \in ConfFiles
    /\ typed.name \in Names \cup {Nil}
    /\ typed.pwd \in Passwords \cup {Nil}
    /\ typed.file \in ConfFiles \cup {NothingTyped.file}
    /\ admid \in Ids \cup {Nil}
    /\ loginAt \in Servers \cup {Nil}
    /\ filled \in BOOLEAN
    /\ list \in Seq(Rows)
    /\ seen \in Seq(Rows)
    /\ sortBy \in Columns \cup {Nil}
    /\ ascending \in BOOLEAN
    /\ service \in [Servers -> Seq(Rows)]
    /\ writes \in 0..MaxWrites
    /\ Idle \/ configured(DB)

(* The connections a server counts for a process are the one its statement  *)
(* is using and those of the selects the server refused, no others: of all  *)
(* the ways a statement can stop, only INTmysql.cpp:90 keeps a connection.  *)
ConnectionsAccounted ==
    \A s \in Servers :
        held[s] = kept[s] +
            (IF stmt.at \in {"names", "run", "fetch"} /\ DB["ip"] = s THEN 1 ELSE 0)

(* Who is logged in has an account, on the server his records are read from *)
(* and written to, with exactly the name and the password he typed: the     *)
(* server compares names without case, attempts may fail at any step, and   *)
(* conf.txt may change meanwhile.                                           *)
LoggedInRight ==
    phase \in LoggedIn =>
        [id |-> admid, acc |-> typed.name, pwd |-> typed.pwd]
            \in Accounts[DB["ip"]]

(* The server a session works with is the one conf.txt named when the last  *)
(* attempt to log in was made, whatever it named at earlier attempts or     *)
(* names since.  (For values of at most 14 characters: longer ones are cut, *)
(* and may then name another server.)                                       *)
ServerOfLastAttempt ==
    phase \in LoggedIn =>
        /\ DB["ip"] = loginAt
        /\ Cut[typed.file["ip"]] = typed.file["ip"] => DB["ip"] = typed.file["ip"]

(* The open list shows what the administrator's records were at one moment  *)
(* while it was loading, none missing and none twice, although other        *)
(* clients write meanwhile; the latest first, or in the order and direction *)
(* of the last click, however often columns were clicked.  After a failure  *)
(* it is empty.                                                             *)
ListShowsRecords ==
    phase = "view" =>
        /\ list \in Arrangements(seen, Of(seen, admid))
        /\ IF sortBy = Nil THEN InOrder(list, "enc_tm", FALSE)
           ELSE InOrder(list, sortBy, ascending)
=============================================================================
