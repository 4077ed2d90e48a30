--------------------------- MODULE SessionProofs ---------------------------
(***************************************************************************)
(* What holds of a session for any servers, accounts, limits, contents of  *)
(* conf.txt and tables: which connections a process keeps, which server it *)
(* works with, who is logged in, and what his list of records shows.       *)
(***************************************************************************)
EXTENDS Session, FiniteSetTheorems, SequenceTheorems, TLAPS

Connected == {"names", "run", "fetch"}

CutConf(file) == [f \in Fields |-> Cut[file[f]]]

(* Connections: the accounting, and what it needs of the statement.         *)
QueryInv ==
    /\ stmt \in Statements
    /\ held \in [Servers -> Int]
    /\ kept \in [Servers -> Int]
    /\ stmt.at \in Connected => DB["ip"] \in Servers
    /\ ConnectionsAccounted

(* Only these phases await a statement.                                     *)
PhaseInv ==
    /\ phase \in Phases
    /\ phase \in {"off", "main", "view"} => Idle

(* The configuration is that of the attempt that was let in, or is judged.  *)
ConfInv ==
    /\ phase \in LoggedIn \/ (phase = "login" /\ ~Idle) => DB = CutConf(typed.file)
    /\ phase \in LoggedIn => DB["ip"] = loginAt

(* What the login will be judged by is what the server answered.            *)
AnswerInv ==
    phase = "login" /\ stmt.at = "fetch" => result \in AdminRows

SInv == QueryInv /\ PhaseInv /\ ConfInv /\ AnswerInv /\ LoggedInRight

-----------------------------------------------------------------------------
(* The steps of a statement.                                                *)

(* Another column of the accounting does not move when one does.            *)
LEMMA StatementFields ==
    ASSUME stmt \in Statements, ~Idle, NEW stage \in Stages, Advance(stage)
    PROVE  stmt' \in Statements /\ stmt'.at = stage /\ stmt'.kind = stmt.kind
BY DEF Statements, Idle, Advance, NoStatement

(* No statement is at a stage.                                              *)
LEMMA NotIdle ==
    ASSUME stmt.at \in Stages
    PROVE  ~Idle
BY DEF Idle, NoStatement, Stages

(* Every step of a statement keeps the accounting.                          *)
LEMMA QueryStep ==
    ASSUME QueryInv,
           \/ NoHandle \/ ConnectFails \/ Connect \/ SetNamesFails \/ SetNames
           \/ RunLost \/ RunRefused \/ Run \/ Fetch
    PROVE  QueryInv'
<1> USE DEF QueryInv, ConnectionsAccounted, Connected
<1>1. CASE NoHandle \/ ConnectFails
    BY <1>1 DEF NoHandle, ConnectFails, Return, Statements, NoStatement
<1>2. CASE Connect
    <2>1. stmt'.at = "names" /\ stmt' \in Statements
        BY <1>2, NotIdle, StatementFields DEF Connect, Stages
    <2> QED
        BY <1>2, <2>1 DEF Connect
<1>3. CASE SetNames
    <2>1. stmt'.at = "run" /\ stmt' \in Statements
        BY <1>3, NotIdle, StatementFields DEF SetNames, Stages
    <2> QED
        BY <1>3, <2>1 DEF SetNames
<1>4. CASE SetNamesFails \/ RunLost \/ Fetch
    BY <1>4 DEF SetNamesFails, RunLost, Fetch, mysql_close, Return, Statements, NoStatement
<1>5. CASE RunRefused
    BY <1>5 DEF RunRefused, mysql_close, Return, Statements, NoStatement
<1>6. CASE Run
    <2>1. CASE stmt.kind = "write"
        BY <1>6, <2>1 DEF Run, mysql_close, Return, Statements, NoStatement
    <2>2. CASE stmt.kind = "read"
        <3>1. stmt'.at = "fetch" /\ stmt' \in Statements
            BY <1>6, <2>2, NotIdle, StatementFields DEF Run, Stages
        <3> QED
            BY <1>6, <2>2, <3>1 DEF Run
    <2> QED
        BY <1>6, <2>1, <2>2 DEF Run
<1> QED
    BY <1>1, <1>2, <1>3, <1>4, <1>5, <1>6

(* So does the end of the process,                                          *)
LEMMA QueryGone ==
    ASSUME QueryInv, Gone
    PROVE  QueryInv' /\ Idle'
BY DEF QueryInv, ConnectionsAccounted, Connected, Gone, Statements, NoStatement, Idle

(* and a connection that the server or another client closes.               *)
LEMMA QueryOthers ==
    ASSUME QueryInv, NEW s \in Servers, Expire(s) \/ Others(s)
    PROVE  QueryInv'
BY DEF QueryInv, ConnectionsAccounted, Connected, Expire, Others

(* A statement is called, with the configuration it had or a new one.       *)
LEMMA QueryCall ==
    ASSUME QueryInv, NEW kind \in Kinds, Call(kind)
    PROVE  QueryInv' /\ stmt'.at = "connect" /\ ~Idle'
BY DEF QueryInv, ConnectionsAccounted, Connected, Call, Idle, NoStatement, Statements, Stages

-----------------------------------------------------------------------------
(* The handlers.                                                            *)

RestInv == PhaseInv /\ ConfInv /\ AnswerInv /\ LoggedInRight

(* A row that the login accepts is the account of the name and the password *)
(* typed, all three columns of it.                                          *)
LEMMA AcceptedAccount ==
    ASSUME DB["ip"] \in Servers, NEW table \in AdminRows, Accepts(table)
    PROVE  [id |-> AdminNumber(table), acc |-> typed.name, pwd |-> typed.pwd]
               \in Accounts[DB["ip"]]
<1> DEFINE found == {r \in Accounts[DB["ip"]] : Fold[r.acc] = Fold[typed.name]}
<1>1. Accounts[DB["ip"]] \subseteq [id : Ids, acc : Names, pwd : Passwords]
    BY SessionAssumption
<1>2. PICK r \in found : table = <<r>>
    <2>1. table # <<>>
        BY DEF Accepts
    <2> QED
        BY <2>1 DEF AdminRows
<1>3. table[1] = r
    BY <1>2
<1>4. r \in [id : Ids, acc : Names, pwd : Passwords] /\ r \in Accounts[DB["ip"]]
    BY <1>1, <1>2
<1>5. typed.name = r.acc /\ typed.pwd = r.pwd /\ AdminNumber(table) = r.id
    BY <1>3 DEF Accepts, AdminNumber
<1> QED
    BY <1>4, <1>5

(* Whatever a handler does with an answer, it keeps the rest of the         *)
(* invariant: above all the login, which may open the main dialog.          *)
LEMMA AnswerStep ==
    ASSUME RestInv, ~Idle, Idle', DB' = DB, NEW code, NEW table,
           Answered(code, table),
           \/ table = <<>>
           \/ phase = "login" => table \in AdminRows /\ DB["ip"] \in Servers
    PROVE  RestInv'
<1>1. stmt'.at # "fetch"
    BY DEF Idle, NoStatement
<1>2. AnswerInv'
    BY <1>1 DEF AnswerInv
<1>3. CASE phase = "login"
    <2>1. LoginAnswered(table)
        BY <1>3 DEF Answered
    <2>2. typed' = typed
        BY <2>1 DEF LoginAnswered
    <2>3. CASE Accepts(table)
        <3>1. table \in AdminRows /\ DB["ip"] \in Servers
            BY <1>3, <2>3 DEF Accepts
        <3>2. phase' = "opening" /\ admid' = AdminNumber(table) /\ loginAt' = DB["ip"]
            BY <2>1, <2>3 DEF LoginAnswered, Enter
        <3>3. PhaseInv' /\ ConfInv'
            BY <1>3, <2>2, <3>2 DEF RestInv, PhaseInv, Phases, ConfInv, LoggedIn, CutConf
        <3>4. LoggedInRight'
            BY <2>2, <2>3, <3>1, <3>2, AcceptedAccount DEF LoggedInRight
        <3> QED
            BY <1>2, <3>3, <3>4 DEF RestInv
    <2>4. CASE ~Accepts(table)
        <3>1. phase' = "login"
            BY <1>3, <2>1, <2>4 DEF LoginAnswered
        <3> QED
            BY <1>2, <3>1 DEF RestInv, PhaseInv, Phases, ConfInv, LoggedIn, LoggedInRight
    <2> QED
        BY <2>3, <2>4
<1>4. CASE phase # "login"
    <2>1. /\ phase \in {"opening", "working", "viewing"}
          /\ phase' \in {"main", "view"}
          /\ UNCHANGED <<typed, admid, loginAt>>
        BY <1>4 DEF Answered, OrgsAnswered, OtherAnswered, ListAnswered, Enter, loginVars
    <2> QED
        BY <1>2, <2>1 DEF RestInv, PhaseInv, Phases, ConfInv, LoggedIn, CutConf, LoggedInRight
<1> QED
    BY <1>3, <1>4

(* Nothing else of a step disturbs the rest.                                *)
LEMMA QuietStep ==
    ASSUME RestInv, NEW p \in LoggedIn, phase \in LoggedIn, phase' = p,
           UNCHANGED <<DB, typed, admid, loginAt>>,
           p \in {"main", "view"} => Idle'
    PROVE  RestInv'
BY DEF RestInv, PhaseInv, Phases, ConfInv, LoggedIn, CutConf, AnswerInv, LoggedInRight

(* A process that ends leaves nothing to hold of it.                        *)
LEMMA ForgetStep ==
    ASSUME Gone, Forget, Idle'
    PROVE  RestInv'
BY DEF Forget, Enter, RestInv, PhaseInv, Phases, ConfInv, LoggedIn, AnswerInv, LoggedInRight

-----------------------------------------------------------------------------
(* The invariant.                                                           *)

(* It holds when the process has not been started,                          *)
LEMMA InitInv == Init => SInv
BY DEF Init, QueryInit, SInv, QueryInv, ConnectionsAccounted, Connected, Statements,
       NoStatement, PhaseInv, Phases, Idle, ConfInv, LoggedIn, AnswerInv, LoggedInRight

(* after every step of a statement,                                         *)
LEMMA StatementStepInv ==
    ASSUME SInv, StatementStep
    PROVE  SInv'
<1> USE DEF SInv, RestInv
<1>1. CASE AddOrgCombMenu
    <2>1. QueryInv' /\ phase' = "opening" /\ stmt'.at # "fetch"
        BY <1>1, QueryCall DEF AddOrgCombMenu, Kinds
    <2> QED
        BY <1>1, <2>1, QuietStep DEF AddOrgCombMenu, LoggedIn, loginVars
<1>2. CASE Fail
    <2>1. QueryInv'
        BY <1>2, QueryStep DEF Fail
    <2>2. Idle' /\ DB' = DB /\ ~Idle
        BY <1>2 DEF Fail, NoHandle, ConnectFails, SetNamesFails, RunRefused, Return, Idle,
                    NoStatement
    <2> QED
        BY <1>2, <2>1, <2>2, AnswerStep DEF Fail
<1>3. CASE GoOn
    <2>1. QueryInv'
        BY <1>3, QueryStep DEF GoOn
    <2>2. stmt \in Statements
        BY DEF QueryInv
    <2>3. DB' = DB /\ ~Idle /\ stmt'.at \in {"names", "run"}
        BY <1>3, <2>2, NotIdle, StatementFields DEF GoOn, Connect, SetNames, Stages
    <2>4. ~Idle'
        BY <2>3 DEF Idle, NoStatement
    <2> QED
        BY <1>3, <2>1, <2>3, <2>4 DEF GoOn, PhaseInv, ConfInv, CutConf, AnswerInv,
               LoggedInRight, loginVars, viewVars
<1>4. CASE Read
    <2>1. QueryInv'
        BY <1>4, QueryStep DEF Read
    <2>2. stmt \in Statements
        BY DEF QueryInv
    <2>3. DB' = DB /\ ~Idle /\ stmt'.at = "fetch"
        BY <1>4, <2>2, NotIdle, StatementFields DEF Read, Run, Stages
    <2>4. ~Idle'
        BY <2>3 DEF Idle, NoStatement
    <2>5. AnswerInv'
        <3>1. phase = "login" => result' \in AdminRows
            BY <1>4 DEF Read, Selected
        <3> QED
            BY <1>4, <2>3, <3>1 DEF Read, AnswerInv, AdminRows, loginVars
    <2> QED
        BY <1>4, <2>1, <2>3, <2>4, <2>5 DEF Read, PhaseInv, ConfInv, CutConf,
               LoggedInRight, loginVars
<1>5. CASE Write
    <2>1. QueryInv'
        BY <1>5, QueryStep DEF Write
    <2>2. Idle' /\ DB' = DB /\ ~Idle
        BY <1>5 DEF Write, Run, Return, Idle, NoStatement
    <2> QED
        BY <1>5, <2>1, <2>2, AnswerStep DEF Write
<1>6. CASE Lose
    <2>1. QueryInv'
        BY <1>6, QueryStep DEF Lose
    <2>2. Idle' /\ DB' = DB /\ ~Idle
        BY <1>6 DEF Lose, RunLost, Return, Idle, NoStatement
    <2> QED
        BY <1>6, <2>1, <2>2, AnswerStep DEF Lose
<1>7. CASE Finish
    <2>1. QueryInv'
        BY <1>7, QueryStep DEF Finish
    <2>2. Idle' /\ DB' = DB /\ ~Idle
        BY <1>7 DEF Finish, Fetch, Return, Idle, NoStatement
    <2>3. phase = "login" => result \in AdminRows /\ DB["ip"] \in Servers
        BY <1>7 DEF Finish, Fetch, AnswerInv, QueryInv, Connected
    <2> QED
        BY <1>7, <2>1, <2>2, <2>3, AnswerStep DEF Finish
<1>8. CASE Crash
    BY <1>8, QueryGone, ForgetStep DEF Crash, FetchNull
<1> QED
    BY <1>1, <1>2, <1>3, <1>4, <1>5, <1>6, <1>7, <1>8 DEF StatementStep

(* after everything the user does,                                          *)
LEMMA UserInv ==
    ASSUME SInv, User
    PROVE  SInv'
<1> USE DEF SInv, RestInv
<1>1. CASE InitInstance
    BY <1>1 DEF InitInstance, Enter, queryVars, QueryInv, ConnectionsAccounted, PhaseInv,
               Phases, Idle, ConfInv, LoggedIn, AnswerInv, LoggedInRight, NoStatement
<1>2. ASSUME NEW name \in Names, NEW pwd \in Passwords, CheckAdmin(name, pwd)
      PROVE  SInv'
    <2>1. QueryInv' /\ stmt'.at # "fetch"
        <3>1. CASE configured(DB')
            BY <1>2, <3>1, QueryCall DEF CheckAdmin, Kinds
        <3>2. CASE ~configured(DB')
            BY <1>2, <3>2 DEF CheckAdmin, QueryInv, ConnectionsAccounted, Connected, Idle,
                               NoStatement
        <3> QED
            BY <3>1, <3>2
    <2>2. DB' = CutConf(conf) /\ typed'.file = conf /\ phase = "login" /\ phase' = "login"
        BY <1>2 DEF CheckAdmin, LinkDataBase, set_conf, CutConf
    <2> QED
        BY <2>1, <2>2 DEF PhaseInv, Phases, ConfInv, CutConf, LoggedIn, AnswerInv,
                           LoggedInRight
<1>3. ASSUME NEW kind \in Kinds, OtherStatement(kind)
      PROVE  SInv'
    BY <1>3, QueryCall, QuietStep DEF OtherStatement, Enter, LoggedIn, loginVars
<1>4. CASE OnBnClickedViewbutton
    BY <1>4, QueryCall, QuietStep DEF OnBnClickedViewbutton, Kinds, Enter, LoggedIn, loginVars
<1>5. ASSUME NEW col \in Columns, OnColumnClick(col)
      PROVE  SInv'
    <2>1. Idle /\ Idle' /\ QueryInv'
        BY <1>5 DEF OnColumnClick, PhaseInv, queryVars, Idle, QueryInv, ConnectionsAccounted
    <2> QED
        BY <1>5, <2>1, QuietStep DEF OnColumnClick, LoggedIn, loginVars, queryVars
<1>6. CASE OnBnClickedOk
    <2>1. Idle /\ Idle' /\ QueryInv'
        BY <1>6 DEF OnBnClickedOk, PhaseInv, queryVars, Idle, QueryInv, ConnectionsAccounted
    <2> QED
        BY <1>6, <2>1, QuietStep DEF OnBnClickedOk, Enter, LoggedIn, loginVars, queryVars
<1>7. CASE EditConf
    BY <1>7 DEF EditConf, queryVars, loginVars, viewVars, QueryInv, ConnectionsAccounted,
               PhaseInv, Idle, ConfInv, CutConf, AnswerInv, AdminRows, LoggedInRight
<1>8. CASE Quit
    BY <1>8, QueryGone, ForgetStep DEF Quit
<1> QED
    BY <1>1, <1>2, <1>3, <1>4, <1>5, <1>6, <1>7, <1>8 DEF User

(* and after what happens elsewhere.                                        *)
LEMMA NextInv == SInv /\ [Next]_vars => SInv'
<1> SUFFICES ASSUME SInv, [Next]_vars PROVE SInv'
    OBVIOUS
<1>1. CASE StatementStep
    BY <1>1, StatementStepInv
<1>2. CASE User
    BY <1>2, UserInv
<1>3. ASSUME NEW s \in Servers, OthersWrite(s)
      PROVE  SInv'
    BY <1>3 DEF OthersWrite, SInv, queryVars, loginVars, viewVars, QueryInv,
               ConnectionsAccounted, PhaseInv, Idle, ConfInv, CutConf, AnswerInv, AdminRows,
               LoggedInRight
<1>4. ASSUME NEW s \in Servers, OthersConnect(s)
      PROVE  SInv'
    <2>1. QueryInv'
        BY <1>4, QueryOthers DEF OthersConnect, SInv
    <2> QED
        BY <1>4, <2>1 DEF OthersConnect, Expire, Others, SInv, loginVars, viewVars, PhaseInv,
               Idle, ConfInv, CutConf, AnswerInv, AdminRows, LoggedInRight
<1>5. CASE UNCHANGED vars
    BY <1>5 DEF vars, SInv, queryVars, loginVars, viewVars, QueryInv, ConnectionsAccounted,
               PhaseInv, Idle, ConfInv, CutConf, AnswerInv, AdminRows, LoggedInRight
<1> QED
    BY <1>1, <1>2, <1>3, <1>4, <1>5 DEF Next

(* The invariant holds in every state of every session.                     *)
LEMMA SessionInv == Spec => []SInv
BY InitInv, NextInv, PTL DEF Spec

(* Of all the connections a server counts for the process, only those of    *)
(* selects it refused are not in use: for any limits and number of faults.  *)
THEOREM ConnectionsHold == Spec => []ConnectionsAccounted
<1>1. SInv => ConnectionsAccounted
    BY DEF SInv, QueryInv
<1> QED
    BY <1>1, SessionInv, PTL

(* Who is logged in typed the exact name and the password of the account    *)
(* whose number the session works with, on the server it works with.        *)
THEOREM LoggedInRightHolds == Spec => []LoggedInRight
<1>1. SInv => LoggedInRight
    BY DEF SInv
<1> QED
    BY <1>1, SessionInv, PTL

(* The session stays with the server that conf.txt named at the attempt     *)
(* that succeeded, unless the name was cut.                                 *)
THEOREM ServerHolds == Spec => []ServerOfLastAttempt
<1>1. SInv => ServerOfLastAttempt
    BY DEF SInv, ConfInv, CutConf, Fields, ServerOfLastAttempt
<1> QED
    BY <1>1, SessionInv, PTL

-----------------------------------------------------------------------------
(* Lists of records.                                                        *)

(* The rows at some positions of a table, arranged, are a sequence of rows, *)
(* as many as there are positions.                                          *)
LEMMA ArrangementsType ==
    ASSUME NEW rows \in Seq(Rows), NEW P \in SUBSET (DOMAIN rows),
           NEW q \in Arrangements(rows, P)
    PROVE  q \in Seq(Rows) /\ DOMAIN q = 1..Cardinality(P) /\ Cardinality(P) \in Nat
<1>1. IsFiniteSet(P)
    BY FS_Interval, FS_Subset, LenProperties
<1>2. Cardinality(P) \in Nat
    BY <1>1, FS_CardinalityType
<1> DEFINE n == Cardinality(P)
<1>3. PICK p \in Bijection(1..n, P) : q = [k \in 1..n |-> rows[p[k]]]
    BY DEF Arrangements
<1>4. p \in [1..n -> P]
    BY <1>3 DEF Bijection, Injection
<1>5. \A k \in 1..n : rows[p[k]] \in Rows
    BY <1>4, ElementOfSeq, LenProperties
<1>6. q \in [1..n -> Rows]
    BY <1>3, <1>5
<1>7. q \in Seq(Rows)
    BY <1>2, <1>6, SeqDef
<1> QED
    BY <1>2, <1>3, <1>7

(* What is arranged again is an arrangement of the same rows.               *)
LEMMA ArrangedAgain ==
    ASSUME NEW rows \in Seq(Rows), NEW P \in SUBSET (DOMAIN rows),
           NEW q \in Arrangements(rows, P), NEW r \in Arrangements(q, DOMAIN q)
    PROVE  r \in Arrangements(rows, P)
<1> DEFINE n == Cardinality(P)
<1>1. n \in Nat /\ DOMAIN q = 1..n
    BY ArrangementsType
<1>2. Cardinality(DOMAIN q) = n
    BY <1>1, FS_Interval
<1>3. PICK p \in Bijection(1..n, P) : q = [k \in 1..n |-> rows[p[k]]]
    BY DEF Arrangements
<1>4. PICK t \in Bijection(1..n, 1..n) : r = [k \in 1..n |-> q[t[k]]]
    BY <1>1, <1>2 DEF Arrangements
<1> DEFINE u == [k \in 1..n |-> p[t[k]]]
<1>5. p \in [1..n -> P] /\ (\A a, b \in 1..n : p[a] = p[b] => a = b)
          /\ (\A x \in P : \E k \in 1..n : p[k] = x)
    BY <1>3 DEF Bijection, Injection, Surjection, IsInjective
<1>6. t \in [1..n -> 1..n] /\ (\A a, b \in 1..n : t[a] = t[b] => a = b)
          /\ (\A x \in 1..n : \E k \in 1..n : t[k] = x)
    BY <1>4 DEF Bijection, Injection, Surjection, IsInjective
<1>7. u \in Bijection(1..n, P)
    <2> HIDE DEF n
    <2>1. u \in [1..n -> P]
        BY <1>5, <1>6
    <2>2. \A a, b \in 1..n : u[a] = u[b] => a = b
        BY <1>5, <1>6
    <2>3. \A x \in P : \E k \in 1..n : u[k] = x
        BY <1>5, <1>6
    <2>4. DOMAIN u = 1..n
        OBVIOUS
    <2> QED
        BY <2>1, <2>2, <2>3, <2>4 DEF Bijection, Injection, Surjection, IsInjective
<1>8. r = [k \in 1..n |-> rows[u[k]]]
    BY <1>3, <1>4, <1>6
<1> HIDE DEF u
<1> QED
    BY <1>7, <1>8 DEF Arrangements

(* Of no rows there is one arrangement, the empty one.                      *)
LEMMA ArrangedNone ==
    ASSUME NEW id
    PROVE  <<>> \in Arrangements(<<>>, Of(<<>>, id))
<1>1. Of(<<>>, id) = {}
    BY DEF Of
<1>2. Cardinality({}) = 0
    BY FS_EmptySet
<1>3. 1..0 = {}
    OBVIOUS
<1> DEFINE none == [k \in {} |-> k]
<1>4. none \in Bijection({}, {})
    BY DEF Bijection, Injection, Surjection, IsInjective
<1>5. <<>> = [k \in {} |-> <<>>[none[k]]]
    OBVIOUS
<1> QED
    BY <1>1, <1>2, <1>3, <1>4, <1>5 DEF Arrangements

-----------------------------------------------------------------------------
(* The rest of the invariant.                                               *)

(* A server grants no more connections than it has.                         *)
Counts ==
    /\ held \in [Servers -> 0..MaxConn]
    /\ kept \in [Servers -> 0..MaxConn]
    /\ others \in [Servers -> 0..MaxConn]
    /\ faults \in 0..MaxFaults
    /\ \A s \in Servers : held[s] + others[s] <= MaxConn

Tables ==
    /\ service \in [Servers -> Seq(Rows)]
    /\ writes \in 0..MaxWrites

(* The process is configured from its first statement to its end.           *)
Configuration ==
    /\ DB \in Confs
    /\ conf \in ConfFiles
    /\ phase \in LoggedIn \/ ~Idle => configured(DB)

Login ==
    /\ typed.name \in Names \cup {Nil}
    /\ typed.pwd \in Passwords \cup {Nil}
    /\ typed.file \in ConfFiles \cup {NothingTyped.file}
    /\ admid \in Ids \cup {Nil}
    /\ loginAt \in Servers \cup {Nil}
    /\ filled \in BOOLEAN

(* The list is made of an answer of the server, and the answer of the table *)
(* as it was when the server gave it.                                       *)
View ==
    /\ list \in Seq(Rows) /\ seen \in Seq(Rows)
    /\ sortBy \in Columns \cup {Nil}
    /\ ascending \in BOOLEAN
    /\ seen = <<>> \/ phase = "view" \/ (phase = "viewing" /\ stmt.at = "fetch")
    /\ phase = "viewing" /\ stmt.at = "fetch" =>
          result \in Ordered(seen, Of(seen, admid), "enc_tm", FALSE)
    /\ ListShowsRecords

DialogInv == Tables /\ Configuration /\ Login /\ View

(* The counts of connections stay within what the server grants: whatever   *)
(* a statement does,                                                        *)
LEMMA CountsStep ==
    ASSUME Counts, QueryInv, QueryInv',
           \/ NoHandle \/ ConnectFails \/ Connect \/ SetNamesFails \/ SetNames
           \/ RunLost \/ RunRefused \/ Run \/ Fetch
    PROVE  Counts'
<1> USE MyQueryAssumption DEF Counts, QueryInv, ConnectionsAccounted, Connected
<1>1. CASE NoHandle \/ ConnectFails \/ SetNames
    BY <1>1 DEF NoHandle, ConnectFails, SetNames, Fails
<1>2. CASE Connect
    BY <1>2 DEF Connect, Full
<1>3. CASE SetNamesFails \/ RunLost \/ Fetch
    <2>1. DB["ip"] \in Servers /\ held' = [held EXCEPT ![DB["ip"]] = @ - 1]
        BY <1>3 DEF SetNamesFails, RunLost, Fetch, mysql_close
    <2>2. held[DB["ip"]] = kept[DB["ip"]] + 1
        BY <1>3, <2>1 DEF SetNamesFails, RunLost, Fetch
    <2> QED
        BY <1>3, <2>1, <2>2 DEF SetNamesFails, RunLost, Fetch, Fails
<1>4. CASE RunRefused
    <2>1. DB["ip"] \in Servers /\ held[DB["ip"]] = kept[DB["ip"]] + 1
        BY <1>4 DEF RunRefused
    <2> QED
        BY <1>4, <2>1 DEF RunRefused, mysql_close, Fails
<1>5. CASE Run
    <2>1. DB["ip"] \in Servers /\ held[DB["ip"]] = kept[DB["ip"]] + 1
        BY <1>5 DEF Run
    <2> QED
        BY <1>5, <2>1 DEF Run, mysql_close
<1> QED
    BY <1>1, <1>2, <1>3, <1>4, <1>5

(* when the process ends, and when others connect or a server closes a      *)
(* connection.                                                              *)
LEMMA CountsElsewhere ==
    ASSUME Counts, QueryInv,
           \/ Gone /\ (UNCHANGED faults \/ Fails)
           \/ \E s \in Servers : Expire(s) \/ Others(s)
    PROVE  Counts'
<1> USE MyQueryAssumption DEF Counts
<1>1. CASE Gone /\ (UNCHANGED faults \/ Fails)
    BY <1>1 DEF Gone, Fails
<1>2. ASSUME NEW s \in Servers, Expire(s)
      PROVE  Counts'
    <2>1. held[s] >= kept[s]
        BY DEF QueryInv, ConnectionsAccounted
    <2> QED
        BY <1>2, <2>1 DEF Expire
<1>3. ASSUME NEW s \in Servers, Others(s)
      PROVE  Counts'
    BY <1>3 DEF Others, Full
<1> QED
    BY <1>1, <1>2, <1>3

(* A record that is stored keeps the tables tables.                         *)
LEMMA WrittenTables ==
    ASSUME Tables, NEW s \in Servers, NEW ids, Written(s, ids)
    PROVE  Tables'
<1> USE SessionAssumption DEF Tables
<1>1. writes' \in 0..MaxWrites
    BY DEF Written
<1>2. PICK r \in Rows :
          \/ service' = [service EXCEPT ![s] = Append(@, r)]
          \/ \E i \in DOMAIN service[s] : service' = [service EXCEPT ![s][i] = r]
    BY DEF Written
<1>3. service[s] \in Seq(Rows)
    OBVIOUS
<1>4. CASE service' = [service EXCEPT ![s] = Append(@, r)]
    <2>1. Append(service[s], r) \in Seq(Rows)
        BY <1>3, AppendProperties
    <2> QED
        BY <1>1, <1>4, <2>1
<1>5. ASSUME NEW i \in DOMAIN service[s], service' = [service EXCEPT ![s][i] = r]
      PROVE  Tables'
    <2>1. [service[s] EXCEPT ![i] = r] \in Seq(Rows)
        BY <1>3, ExceptSeq, LenProperties
    <2>2. service' = [service EXCEPT ![s] = [service[s] EXCEPT ![i] = r]]
        BY <1>5
    <2> QED
        BY <1>1, <2>1, <2>2
<1> QED
    BY <1>2, <1>4, <1>5

(* The positions of an administrator's records are positions.               *)
LEMMA OfPositions ==
    ASSUME NEW rows, NEW id
    PROVE  Of(rows, id) \in SUBSET (DOMAIN rows)
BY DEF Of

(* An answer opens the list with the records of one moment, or empty.       *)
LEMMA ListOpens ==
    ASSUME View, NEW table, ListAnswered(table), seen' = seen,
           \/ table = <<>> /\ seen = <<>>
           \/ table \in Ordered(seen, Of(seen, admid), "enc_tm", FALSE)
    PROVE  View'
<1>1. /\ phase' = "view" /\ list' = table /\ sortBy' = Nil /\ ascending' = TRUE
      /\ admid' = admid
    BY DEF ListAnswered, Enter, Items, loginVars
<1>2. list' \in Arrangements(seen, Of(seen, admid)) /\ InOrder(list', "enc_tm", FALSE)
    <2>1. CASE table = <<>> /\ seen = <<>>
        BY <1>1, <2>1, ArrangedNone DEF InOrder
    <2>2. CASE table \in Ordered(seen, Of(seen, admid), "enc_tm", FALSE)
        BY <1>1, <2>2 DEF Ordered
    <2> QED
        BY <2>1, <2>2
<1>3. seen \in Seq(Rows)
    BY DEF View
<1>4. list' \in Seq(Rows)
    BY <1>2, <1>3, OfPositions, ArrangementsType
<1>5. ListShowsRecords'
    BY <1>1, <1>2 DEF ListShowsRecords
<1> QED
    BY <1>1, <1>3, <1>4, <1>5 DEF View

(* An answer to anything else leaves the list closed.                       *)
LEMMA ListClosed ==
    ASSUME View, phase # "view", phase' # "view", seen' = <<>>,
           UNCHANGED <<list, sortBy, ascending>>,
           phase' = "viewing" => stmt'.at # "fetch"
    PROVE  View'
BY EmptySeq DEF View, ListShowsRecords

(* Whatever a handler does with an answer.                                  *)
LEMMA AnswerDialog ==
    ASSUME Configuration, Login, View, ~Idle, Idle', UNCHANGED <<DB, conf, seen>>,
           NEW code, NEW table, Answered(code, table),
           \/ table = <<>> /\ stmt.at # "fetch"
           \/ /\ phase = "login" => table \in AdminRows /\ DB["ip"] \in Servers
              /\ phase = "viewing" =>
                    table \in Ordered(seen, Of(seen, admid), "enc_tm", FALSE)
    PROVE  Configuration' /\ Login' /\ View'
<1>1. Configuration'
    BY DEF Configuration
<1>2. stmt'.at # "fetch"
    BY DEF Idle, NoStatement
<1>3. CASE phase = "login"
    <2>1. LoginAnswered(table)
        BY <1>3 DEF Answered
    <2>2. Login'
        <3>1. CASE Accepts(table)
            <4>1. table \in AdminRows /\ DB["ip"] \in Servers
                BY <1>3, <3>1 DEF Accepts
            <4>2. Accounts[DB["ip"]] \subseteq [id : Ids, acc : Names, pwd : Passwords]
                BY <4>1, SessionAssumption
            <4>3. AdminNumber(table) \in Ids
                BY <3>1, <4>1, <4>2, AcceptedAccount
            <4> QED
                BY <2>1, <3>1, <4>1, <4>3 DEF LoginAnswered, Login
        <3>2. CASE ~Accepts(table)
            BY <2>1, <3>2 DEF LoginAnswered, Login
        <3> QED
            BY <3>1, <3>2
    <2>3. phase' \in {"login", "opening"} /\ UNCHANGED <<list, sortBy, ascending>>
        BY <1>3, <2>1 DEF LoginAnswered, Enter
    <2>4. seen' = <<>>
        BY <1>3 DEF View
    <2> QED
        BY <1>1, <1>3, <2>2, <2>3, <2>4, ListClosed
<1>4. CASE phase \in {"opening", "working"}
    <2>1. OrgsAnswered(code) \/ OtherAnswered
        BY <1>4 DEF Answered
    <2>2. Login'
        BY <2>1 DEF OrgsAnswered, OtherAnswered, loginVars, Login
    <2>3. phase' = "main" /\ UNCHANGED <<list, sortBy, ascending>>
        BY <2>1 DEF OrgsAnswered, OtherAnswered, Enter
    <2>4. seen' = <<>>
        BY <1>4 DEF View
    <2> QED
        BY <1>1, <1>4, <2>2, <2>3, <2>4, ListClosed
<1>5. CASE phase = "viewing"
    <2>1. ListAnswered(table)
        BY <1>5 DEF Answered
    <2>2. Login'
        BY <2>1 DEF ListAnswered, loginVars, Login
    <2>3. table = <<>> /\ stmt.at # "fetch" => seen = <<>>
        BY <1>5 DEF View
    <2>4. View'
        BY <1>5, <2>1, <2>3, ListOpens
    <2> QED
        BY <1>1, <2>2, <2>4
<1> QED
    BY <1>3, <1>4, <1>5 DEF Answered

(* A process that ends forgets its list too.                                *)
LEMMA ForgetDialog ==
    ASSUME DialogInv, Gone, Forget
    PROVE  DialogInv'
<1>1. Tables'
    BY DEF Forget, DialogInv, Tables, tables
<1>2. Configuration'
    BY MyQueryAssumption DEF Forget, Gone, DialogInv, Configuration, Enter, LoggedIn, Idle, Confs
<1>3. Login'
    BY DEF Forget, Login, NothingTyped
<1>4. View'
    BY EmptySeq DEF Forget, View, ListShowsRecords, Enter
<1> QED
    BY <1>1, <1>2, <1>3, <1>4 DEF DialogInv

(* Nothing of the dialogs' state moves but their phase, and no list opens.  *)
LEMMA QuietDialog ==
    ASSUME DialogInv, UNCHANGED <<DB, conf, loginVars, list, seen, sortBy, ascending, tables>>,
           phase' \in LoggedIn \/ ~Idle' => phase \in LoggedIn \/ ~Idle,
           phase # "view", phase' # "view", seen = <<>>,
           phase' = "viewing" => stmt'.at # "fetch"
    PROVE  DialogInv'
<1>1. Tables'
    BY DEF DialogInv, Tables, tables
<1>2. Configuration' /\ Login'
    BY DEF DialogInv, Configuration, Login, loginVars
<1>3. View'
    BY ListClosed DEF DialogInv
<1> QED
    BY <1>1, <1>2, <1>3 DEF DialogInv

(* It holds when the process has not been started.                          *)
LEMMA DialogInit == Init => Counts /\ DialogInv
<1> SUFFICES ASSUME Init PROVE Counts /\ DialogInv
    OBVIOUS
<1> USE MyQueryAssumption, SessionAssumption DEF Init, QueryInit
<1>1. Counts
    BY DEF Counts
<1>2. Tables
    BY DEF Tables
<1>3. Configuration
    BY DEF Configuration, Confs, LoggedIn, Idle
<1>4. Login
    BY DEF Login, NothingTyped
<1>5. View
    BY EmptySeq DEF View, ListShowsRecords
<1> QED
    BY <1>1, <1>2, <1>3, <1>4, <1>5 DEF DialogInv

(* The steps of a statement keep it,                                        *)
LEMMA StatementDialog ==
    ASSUME SInv, SInv', Counts, DialogInv, StatementStep
    PROVE  Counts' /\ DialogInv'
<1>1. QueryInv /\ QueryInv' /\ PhaseInv /\ ConfInv /\ AnswerInv
    BY DEF SInv
<1>2. Tables /\ Configuration /\ Login /\ View
    BY DEF DialogInv
<1>3. CASE AddOrgCombMenu
    <2>1. /\ Counts'
          /\ stmt'.at = "connect" /\ phase = "opening" /\ phase' = "opening"
          /\ UNCHANGED <<DB, conf, loginVars, list, seen, sortBy, ascending, tables>>
        BY <1>3 DEF AddOrgCombMenu, Call, Counts, viewVars
    <2>2. seen = <<>>
        BY <1>2, <2>1 DEF View
    <2> QED
        BY <2>1, <2>2, QuietDialog DEF LoggedIn
<1>4. CASE Fail
    <2>1. Counts'
        BY <1>1, <1>4, CountsStep DEF Fail
    <2>2. /\ Idle' /\ ~Idle /\ stmt.at # "fetch" /\ DB' = DB
          /\ UNCHANGED <<conf, seen, tables>>
        BY <1>4 DEF Fail, NoHandle, ConnectFails, SetNamesFails, RunRefused, Return, Idle,
                    NoStatement
    <2>3. Configuration' /\ Login' /\ View'
        BY <1>2, <1>4, <2>2, AnswerDialog DEF Fail
    <2> QED
        BY <1>2, <2>1, <2>2, <2>3 DEF DialogInv, Tables, tables
<1>5. CASE GoOn
    <2>1. Counts'
        BY <1>1, <1>5, CountsStep DEF GoOn
    <2>2. DB' = DB /\ ~Idle /\ stmt.at # "fetch" /\ stmt'.at \in {"names", "run"}
        BY <1>1, <1>5, NotIdle, StatementFields DEF QueryInv, GoOn, Connect, SetNames, Stages
    <2>3. phase # "view" /\ phase' = phase
        BY <1>1, <1>5, <2>2 DEF PhaseInv, GoOn
    <2>4. seen = <<>>
        BY <1>2, <2>2, <2>3 DEF View
    <2>5. UNCHANGED <<conf, loginVars, list, seen, sortBy, ascending, tables>>
        BY <1>5 DEF GoOn, viewVars
    <2> QED
        BY <2>1, <2>2, <2>3, <2>4, <2>5, QuietDialog
<1>6. CASE Read
    <2>1. Counts'
        BY <1>1, <1>6, CountsStep DEF Read
    <2>2. /\ DB' = DB /\ ~Idle /\ stmt.at = "run" /\ stmt'.at = "fetch"
          /\ DB["ip"] \in Servers
        BY <1>1, <1>6, NotIdle, StatementFields DEF QueryInv, Connected, Read, Run, Stages
    <2>3. /\ UNCHANGED <<phase, conf, loginVars, list, sortBy, ascending, tables>>
          /\ phase # "view"
        BY <1>1, <1>6, <2>2 DEF PhaseInv, Read
    <2>4. Tables' /\ Configuration' /\ Login'
        BY <1>2, <2>2, <2>3 DEF Tables, tables, Configuration, Login, loginVars
    <2>5. View'
        <3>1. CASE phase = "viewing"
            <4>1. loginAt = DB["ip"]
                BY <1>1, <3>1 DEF ConfInv, LoggedIn
            <4>2. result' \in ServiceRows /\ seen' = service[DB["ip"]]
                BY <1>6, <3>1, <4>1 DEF Read, Selected
            <4>3. seen' \in Seq(Rows)
                BY <1>2, <2>2, <4>2 DEF Tables
            <4>4. result' \in Ordered(seen', Of(seen', admid'), "enc_tm", FALSE)
                BY <2>3, <4>2 DEF ServiceRows, loginVars
            <4> QED
                BY <1>2, <2>2, <2>3, <3>1, <4>3, <4>4 DEF View, ListShowsRecords
        <3>2. CASE phase # "viewing"
            <4>1. seen' = seen
                BY <1>6, <3>2 DEF Read
            <4> QED
                BY <1>2, <2>2, <2>3, <3>2, <4>1 DEF View, ListShowsRecords
        <3> QED
            BY <3>1, <3>2
    <2> QED
        BY <2>1, <2>4, <2>5 DEF DialogInv
<1>7. CASE Write
    <2>1. Counts'
        BY <1>1, <1>7, CountsStep DEF Write
    <2>2. /\ Idle' /\ DB' = DB /\ ~Idle /\ stmt.at = "run" /\ UNCHANGED <<conf, seen>>
          /\ DB["ip"] \in Servers
        BY <1>1, <1>7 DEF QueryInv, Connected, Write, Run, Return, Idle, NoStatement
    <2>3. Configuration' /\ Login' /\ View'
        BY <1>2, <1>7, <2>2, AnswerDialog DEF Write
    <2>4. Tables'
        BY <1>2, <1>7, <2>2, WrittenTables DEF Write, Tables, tables
    <2> QED
        BY <2>1, <2>3, <2>4 DEF DialogInv
<1>8. CASE Lose
    <2>1. Counts'
        BY <1>1, <1>8, CountsStep DEF Lose
    <2>2. /\ Idle' /\ DB' = DB /\ ~Idle /\ stmt.at = "run" /\ UNCHANGED <<conf, seen>>
          /\ DB["ip"] \in Servers
        BY <1>1, <1>8 DEF QueryInv, Connected, Lose, RunLost, Return, Idle, NoStatement
    <2>3. Configuration' /\ Login' /\ View'
        BY <1>2, <1>8, <2>2, AnswerDialog DEF Lose
    <2>4. Tables'
        BY <1>2, <1>8, <2>2, WrittenTables DEF Lose, Tables, tables
    <2> QED
        BY <2>1, <2>3, <2>4 DEF DialogInv
<1>9. CASE Finish
    <2>1. Counts'
        BY <1>1, <1>9, CountsStep DEF Finish
    <2>2. /\ Idle' /\ DB' = DB /\ ~Idle /\ stmt.at = "fetch"
          /\ UNCHANGED <<conf, seen, tables>> /\ DB["ip"] \in Servers
        BY <1>1, <1>9 DEF QueryInv, Connected, Finish, Fetch, Return, Idle, NoStatement
    <2>3. Configuration' /\ Login' /\ View'
        BY <1>1, <1>2, <1>9, <2>2, AnswerDialog DEF Finish, AnswerInv, View
    <2> QED
        BY <1>2, <2>1, <2>2, <2>3 DEF DialogInv, Tables, tables
<1>10. CASE Crash
    BY <1>1, <1>10, CountsElsewhere, ForgetDialog DEF Crash, FetchNull
<1> QED
    BY <1>3, <1>4, <1>5, <1>6, <1>7, <1>8, <1>9, <1>10 DEF StatementStep

(* What happens elsewhere leaves the dialogs as they are.                   *)
LEMMA DialogStays ==
    ASSUME Configuration, Login, View, conf' \in ConfFiles,
           UNCHANGED <<DB, stmt, phase, loginVars, viewVars>>
    PROVE  Configuration' /\ Login' /\ View'
<1>1. Configuration' /\ Login'
    BY DEF Configuration, Idle, Login, loginVars
<1>2. UNCHANGED <<stmt, phase, admid, result, seen, list, sortBy, ascending>>
    BY DEF loginVars, viewVars
<1>3. ListShowsRecords'
    BY <1>2 DEF View, ListShowsRecords
<1>4. View'
    BY <1>2, <1>3 DEF View
<1> QED
    BY <1>1, <1>4

(* A click on a column's head arranges the same records anew.               *)
LEMMA ColumnClickView ==
    ASSUME View, NEW col \in Columns, OnColumnClick(col)
    PROVE  View'
<1> DEFINE P == Of(seen, admid)
<1>1. /\ phase = "view" /\ phase' = "view"
      /\ UNCHANGED <<seen, admid>>
      /\ sortBy' = col /\ ascending' = ~ascending
      /\ list' \in Ordered(list, DOMAIN list, col, ascending')
    BY DEF OnColumnClick, loginVars
<1>2. seen \in Seq(Rows) /\ list \in Arrangements(seen, P) /\ ascending \in BOOLEAN
    BY <1>1 DEF View, ListShowsRecords
<1>3. P \in SUBSET (DOMAIN seen)
    BY OfPositions
<1>4. list' \in Arrangements(list, DOMAIN list) /\ InOrder(list', col, ascending')
    BY <1>1 DEF Ordered
<1>5. list' \in Arrangements(seen, P)
    BY <1>2, <1>3, <1>4, ArrangedAgain
<1>6. list' \in Seq(Rows)
    BY <1>2, <1>3, <1>5, ArrangementsType
<1>7. sortBy' # Nil
    BY <1>1, SessionAssumption
<1> QED
    BY <1>1, <1>2, <1>4, <1>5, <1>6, <1>7 DEF View, ListShowsRecords

(* those of the user,                                                       *)
LEMMA UserDialog ==
    ASSUME SInv, SInv', Counts, DialogInv, User
    PROVE  Counts' /\ DialogInv'
<1>1. QueryInv /\ QueryInv' /\ PhaseInv
    BY DEF SInv
<1>2. Tables /\ Configuration /\ Login /\ View
    BY DEF DialogInv
<1>3. phase \in {"off", "main", "view"} => Idle /\ stmt.at # "fetch"
    BY <1>1 DEF PhaseInv, Idle, NoStatement
<1>4. phase \in {"off", "login", "main"} => seen = <<>>
    BY <1>2 DEF View
<1>5. CASE InitInstance
    BY <1>3, <1>4, <1>5, QuietDialog
       DEF InitInstance, Enter, queryVars, viewVars, LoggedIn, Idle, Counts
<1>6. ASSUME NEW name \in Names, NEW pwd \in Passwords, CheckAdmin(name, pwd)
      PROVE  Counts' /\ DialogInv'
    <2>1. Counts'
        BY <1>6 DEF CheckAdmin, Call, Counts
    <2>2. Idle /\ phase = "login" /\ phase' = "login" /\ conf' = conf
        BY <1>6 DEF CheckAdmin
    <2>3. Tables'
        BY <1>2, <1>6 DEF CheckAdmin, tables, Tables
    <2>4. Configuration'
        <3>1. DB' \in Confs
            BY <1>2, <1>6, SessionAssumption
               DEF CheckAdmin, LinkDataBase, set_conf, Configuration, Confs
        <3>2. ~configured(DB') => Idle'
            BY <1>6, <2>2 DEF CheckAdmin, Idle
        <3> QED
            BY <1>2, <2>2, <3>1, <3>2 DEF Configuration, LoggedIn
    <2>5. Login'
        BY <1>2, <1>6 DEF CheckAdmin, Login, Configuration
    <2>6. View'
        BY <1>2, <1>4, <1>6, <2>2, ListClosed DEF CheckAdmin, viewVars
    <2> QED
        BY <2>1, <2>3, <2>4, <2>5, <2>6 DEF DialogInv
<1>7. ASSUME NEW kind \in Kinds, OtherStatement(kind)
      PROVE  Counts' /\ DialogInv'
    BY <1>4, <1>7, QuietDialog DEF OtherStatement, Call, Enter, Counts, viewVars, LoggedIn
<1>8. CASE OnBnClickedViewbutton
    BY <1>4, <1>8, QuietDialog
       DEF OnBnClickedViewbutton, Call, Enter, Counts, viewVars, LoggedIn
<1>9. ASSUME NEW col \in Columns, OnColumnClick(col)
      PROVE  Counts' /\ DialogInv'
    <2>1. View'
        BY <1>2, <1>9, ColumnClickView
    <2> QED
        BY <1>2, <1>9, <2>1 DEF OnColumnClick, DialogInv, Counts, queryVars, Tables, tables,
               Configuration, Idle, Login, loginVars
<1>10. CASE OnBnClickedOk
    <2>1. View'
        BY <1>2, <1>10, EmptySeq DEF OnBnClickedOk, Enter, View, ListShowsRecords
    <2> QED
        BY <1>2, <1>10, <2>1 DEF OnBnClickedOk, Enter, DialogInv, Counts, queryVars, Tables,
               tables, Configuration, Idle, LoggedIn, Login, loginVars
<1>11. CASE EditConf
    <2>1. conf' \in ConfFiles /\ UNCHANGED <<queryVars, phase, loginVars, viewVars, tables>>
        BY <1>11 DEF EditConf
    <2> QED
        BY <1>2, <2>1, DialogStays DEF DialogInv, Counts, queryVars, Tables, tables
<1>12. CASE Quit
    BY <1>1, <1>12, CountsElsewhere, ForgetDialog DEF Quit
<1> QED
    BY <1>5, <1>6, <1>7, <1>8, <1>9, <1>10, <1>11, <1>12 DEF User

(* and those of the other clients and the servers.                          *)
LEMMA DialogStep ==
    ASSUME SInv, SInv', Counts, DialogInv, [Next]_vars
    PROVE  Counts' /\ DialogInv'
<1>1. CASE StatementStep
    BY <1>1, StatementDialog
<1>2. CASE User
    BY <1>2, UserDialog
<1>3. ASSUME NEW s \in Servers, OthersWrite(s)
      PROVE  Counts' /\ DialogInv'
    <2>1. Tables'
        BY <1>3, WrittenTables DEF OthersWrite, DialogInv
    <2> QED
        BY <1>3, <2>1, DialogStays DEF OthersWrite, DialogInv, Counts, queryVars, Configuration
<1>4. ASSUME NEW s \in Servers, OthersConnect(s)
      PROVE  Counts' /\ DialogInv'
    <2>1. Counts'
        BY <1>4, CountsElsewhere DEF OthersConnect, SInv
    <2>2. /\ UNCHANGED <<DB, stmt>>
          /\ UNCHANGED <<phase, conf, loginVars, viewVars, tables>>
        BY <1>4 DEF OthersConnect, Expire, Others
    <2> QED
        BY <2>1, <2>2, DialogStays DEF DialogInv, Tables, tables, Configuration
<1>5. CASE UNCHANGED vars
    BY <1>5, DialogStays
       DEF vars, queryVars, Counts, DialogInv, Tables, tables, Configuration
<1> QED
    BY <1>1, <1>2, <1>3, <1>4, <1>5 DEF Next

(* Both invariants hold in every state of every session.                    *)
LEMMA DialogHolds == Spec => [](SInv /\ Counts /\ DialogInv)
<1>1. Init => SInv /\ Counts /\ DialogInv
    BY InitInv, DialogInit
<1>2. SInv /\ Counts /\ DialogInv /\ [Next]_vars => (SInv /\ Counts /\ DialogInv)'
    BY NextInv, DialogStep
<1> QED
    BY <1>1, <1>2, PTL DEF Spec

(* Every variable stays in its set; above all, no server counts more        *)
(* connections than it grants, and no statement is under way, and nobody is *)
(* logged in, while MY_QUERY is not configured.                             *)
THEOREM SessionTypeHolds == Spec => []TypeOK
<1>1. SInv /\ Counts /\ DialogInv => TypeOK
    BY DEF SInv, QueryInv, PhaseInv, Counts, DialogInv, Tables, Configuration, Login, View,
           TypeOK, QueryTypeOK
<1> QED
    BY <1>1, DialogHolds, PTL

(* The open list holds each record the administrator had at one moment of   *)
(* its loading, once, in the order last asked for: for any tables, however  *)
(* much other clients write meanwhile and however often columns are         *)
(* clicked; and nothing when the statement failed.                          *)
THEOREM ListShowsRecordsHolds == Spec => []ListShowsRecords
<1>1. DialogInv => ListShowsRecords
    BY DEF DialogInv, View
<1> QED
    BY <1>1, DialogHolds, PTL
=============================================================================
