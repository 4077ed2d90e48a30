------------------------------ MODULE MyQuery ------------------------------
(***************************************************************************)
(* MY_QUERY (INTmysql.cpp): one statement on a connection of its own, cut  *)
(* at the four calls that wait for the server (connect, set names, the     *)
(* statement, its result), and the connections the server counts.          *)
(*                                                                         *)
(* KmService abstracts a statement to its code and its effect; this module *)
(* keeps where the connection is when the statement stops half-way.        *)
(***************************************************************************)
EXTENDS Integers

CONSTANTS
    Servers,    \* the addresses at which a MySQL server answers
    Values,     \* what a field of conf.txt may hold, the empty one included
    MaxConn,    \* how many connections a server grants
    MaxFaults,  \* how many calls may fail
    Nil         \* an empty field, an unset buffer

ASSUME MyQueryAssumption ==
    /\ Servers \subseteq Values
    /\ Nil \in Values \ Servers
    /\ MaxConn \in Nat \ {0}
    /\ MaxFaults \in Nat

VARIABLES
    DB,         \* the static DB_IP, DB_USR, DB_PWD and DB of the process
    stmt,       \* the statement under way
    held,       \* how many connections each server counts for the process
    kept,       \* history: of those, the ones a statement left open
    others,     \* how many it counts for other clients
    faults

queryVars == <<DB, stmt, held, kept, others, faults>>

Fields == {"ip", "user", "password", "dbname"}
Confs == [Fields -> Values]

(* exec_query_mysql(sql) and exec_query_mysql(sql, table).                  *)
Kinds == {"write", "read"}
Stages == {"connect", "names", "run", "fetch"}
NoStatement == [at |-> "none", kind |-> "none"]
Statements == {NoStatement} \cup [at : Stages, kind : Kinds]

Idle == stmt = NoStatement

-----------------------------------------------------------------------------
(* The buffers start empty, which is what strlen reads.                     *)
QueryInit ==
    /\ DB = [f \in Fields |-> Nil]
    /\ stmt = NoStatement
    /\ held = [s \in Servers |-> 0]
    /\ kept = [s \in Servers |-> 0]
    /\ others = [s \in Servers |-> 0]
    /\ faults = 0

set_conf(conf) == DB' = conf

(* DB_PORT is -1 until set_conf, which sets it with the other fields.       *)
configured(conf) == \A f \in Fields : conf[f] # Nil

Full(s) == held[s] + others[s] = MaxConn

-----------------------------------------------------------------------------
(* The ways a statement goes on.                                            *)
Advance(stage) == stmt' = [stmt EXCEPT !.at = stage]
Return == stmt' = NoStatement

mysql_close == held' = [held EXCEPT ![DB["ip"]] = @ - 1]

(* A call fails: the client's fault budget pays for it.                     *)
Fails ==
    /\ faults < MaxFaults
    /\ faults' = faults + 1

(* The caller has found MY_QUERY configured.  It may just have set it.      *)
Call(kind) ==
    /\ Idle
    /\ stmt' = [at |-> "connect", kind |-> kind]
    /\ UNCHANGED <<held, kept, others, faults>>

(* No handle, hence no connection: -2.                                      *)
NoHandle ==
    /\ stmt.at = "connect"
    /\ Fails
    /\ Return
    /\ UNCHANGED <<DB, held, kept, others>>

(* No server at the address, or it grants no more connections, or the way   *)
(* to it is interrupted: -3.                                                *)
ConnectFails ==
    /\ stmt.at = "connect"
    /\ \/ /\ DB["ip"] \notin Servers \/ Full(DB["ip"])
          /\ UNCHANGED faults
       \/ Fails
    /\ Return
    /\ UNCHANGED <<DB, held, kept, others>>

Connect ==
    /\ stmt.at = "connect"
    /\ DB["ip"] \in Servers
    /\ ~Full(DB["ip"])
    /\ held' = [held EXCEPT ![DB["ip"]] = @ + 1]
    /\ Advance("names")
    /\ UNCHANGED <<DB, kept, others, faults>>

(* Variant: the connection is not closed when the character set is refused. *)
SetNamesFailsOpen ==
    /\ stmt.at = "names"
    /\ Fails
    /\ Return
    /\ UNCHANGED <<DB, held, kept, others>>

SetNamesFails ==
    /\ stmt.at = "names"
    /\ Fails
    /\ mysql_close
    /\ Return
    /\ UNCHANGED <<DB, kept, others>>

SetNames ==
    /\ stmt.at = "names"
    /\ Advance("run")
    /\ UNCHANGED <<DB, held, kept, others, faults>>

(* The connection is lost: the server no longer counts it, whether or not   *)
(* the client closes its end.  -4.                                          *)
RunLost ==
    /\ stmt.at = "run"
    /\ Fails
    /\ mysql_close
    /\ Return
    /\ UNCHANGED <<DB, kept, others>>

(* The server refuses the statement.  A write closes its connection; a read *)
(* returns -4 and leaves it open.                                           *)
RunRefused ==
    /\ stmt.at = "run"
    /\ Fails
    /\ \/ /\ stmt.kind = "write"
          /\ mysql_close
          /\ UNCHANGED kept
       \/ /\ stmt.kind = "read"
          /\ kept' = [kept EXCEPT ![DB["ip"]] = @ + 1]
          /\ UNCHANGED held
    /\ Return
    /\ UNCHANGED <<DB, others>>

(* A write is done; a read has its result still to be fetched.              *)
Run ==
    /\ stmt.at = "run"
    /\ \/ /\ stmt.kind = "write"
          /\ mysql_close
          /\ Return
       \/ /\ stmt.kind = "read"
          /\ Advance("fetch")
          /\ UNCHANGED held
    /\ UNCHANGED <<DB, kept, others, faults>>

Fetch ==
    /\ stmt.at = "fetch"
    /\ mysql_close
    /\ Return
    /\ UNCHANGED <<DB, kept, others, faults>>

(* The process is gone, and the server drops all its connections.           *)
Gone ==
    /\ DB' = [f \in Fields |-> Nil]
    /\ stmt' = NoStatement
    /\ held' = [s \in Servers |-> 0]
    /\ kept' = [s \in Servers |-> 0]
    /\ UNCHANGED others

(* mysql_store_result returns NULL when the result cannot be read, and      *)
(* mysql_fetch_row is called with it: the process ends.                     *)
FetchNull ==
    /\ stmt.at = "fetch"
    /\ Fails
    /\ Gone

(* The server closes a connection nobody has used for its wait_timeout.     *)
Expire(s) ==
    /\ kept[s] > 0
    /\ held' = [held EXCEPT ![s] = @ - 1]
    /\ kept' = [kept EXCEPT ![s] = @ - 1]
    /\ UNCHANGED <<DB, stmt, others, faults>>

(* Another client connects, or closes a connection.                         *)
Others(s) ==
    /\ \/ ~Full(s) /\ others' = [others EXCEPT ![s] = @ + 1]
       \/ others[s] > 0 /\ others' = [others EXCEPT ![s] = @ - 1]
    /\ UNCHANGED <<DB, stmt, held, kept, faults>>

QueryTypeOK ==
    /\ DB \in Confs
    /\ stmt \in Statements
    /\ held \in [Servers -> 0..MaxConn]
    /\ kept \in [Servers -> 0..MaxConn]
    /\ others \in [Servers -> 0..MaxConn]
    /\ faults \in 0..MaxFaults
=============================================================================
