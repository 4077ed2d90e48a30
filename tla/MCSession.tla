----------------------------- MODULE MCSession -----------------------------
(***************************************************************************)
(* An instance of Session for TLC: two servers, of which conf.txt names    *)
(* one; the address of the other is what 14 characters of a longer address *)
(* leave.  The two know the same administrators under different numbers.   *)
(***************************************************************************)
EXTENDS Session

CONSTANTS s1, s2, long, word, amy, Amy, bob

AllValues == {s1, s2, long, word, Nil}

Conf(ip, password) ==
    [f \in Fields |-> CASE f = "ip" -> ip [] f = "password" -> password [] OTHER -> word]

SomeFiles == {Conf(s1, word), Conf(long, word), Conf(s1, Nil)}

CutLong == [v \in AllValues |-> IF v = long THEN s2 ELSE v]

CaseFolded == [n \in Names |-> IF n = Amy THEN amy ELSE n]

BothAccounts ==
    [s \in Servers |->
        IF s = s1
        THEN {[id |-> 1, acc |-> amy, pwd |-> "x"], [id |-> 2, acc |-> bob, pwd |-> "x"]}
        ELSE {[id |-> 2, acc |-> amy, pwd |-> "x"]}]

SomeRecords ==
    [s \in Servers |->
        IF s = s1
        THEN <<[admin |-> 1, fname |-> 2, enc_tm |-> 1],
               [admin |-> 1, fname |-> 1, enc_tm |-> 2],
               [admin |-> 2, fname |-> 1, enc_tm |-> 1]>>
        ELSE <<>>]
=============================================================================
