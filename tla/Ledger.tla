------------------------------- MODULE Ledger -------------------------------
(***************************************************************************)
(* What the clients of the archive promise together, without its files,    *)
(* statements and clocks: there is one set of recorded digests, which only *)
(* grows; a writer announces what is in a place of its own when, and only  *)
(* when, the digest of it is recorded; to put something else there it      *)
(* withdraws the announcement first.                                       *)
(***************************************************************************)
CONSTANTS
    Writers,    \* those who announce
    Places,     \* where a writer puts what it announces
    Digests     \* what can be recorded

VARIABLES
    recorded,   \* the digests that have a record
    announced   \* announced[w]: the places announced by w, each with its digest

ledgerVars == <<recorded, announced>>

LedgerInit ==
    /\ recorded = {}
    /\ announced = [w \in Writers |-> {}]

Record(d) ==
    /\ recorded' = recorded \cup {d}
    /\ UNCHANGED announced

Announce(w, p, d) ==
    /\ d \in recorded
    /\ \A e \in Digests : <<p, e>> \notin announced[w]
    /\ announced' = [announced EXCEPT ![w] = @ \cup {<<p, d>>}]
    /\ UNCHANGED recorded

Withdraw(w, p) ==
    /\ announced' = [announced EXCEPT ![w] = {x \in @ : x[1] # p}]
    /\ UNCHANGED recorded

LedgerNext ==
    \/ \E d \in Digests : Record(d)
    \/ \E w \in Writers, p \in Places : Withdraw(w, p) \/ \E d \in Digests : Announce(w, p, d)

LedgerSpec == LedgerInit /\ [][LedgerNext]_ledgerVars
=============================================================================
