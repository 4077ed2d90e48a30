------------------------- MODULE EncryptBatchLedger -------------------------
(***************************************************************************)
(* The encryption handlers implement the ledger.  A digest is recorded     *)
(* when a row of table `service' bears it; a cipher file is announced,     *)
(* with the digest in its header, when it is shown to the user as done.    *)
(***************************************************************************)
EXTENDS EncryptBatchInv

DigestsOf(rows) == {rows[i].md5_c : i \in DOMAIN rows}

AnnouncedBy(c) == {<<p, cipher[c][p].digest>> : p \in reported[c]}

L == INSTANCE Ledger WITH
         Writers <- Clients, Places <- Paths, Digests <- Bodies,
         recorded <- DigestsOf(service),
         announced <- [c \in Clients |-> AnnouncedBy(c)]

(* Every behaviour of the clients is one of the ledger: no statement of any *)
(* client removes the last row of a digest, a file is announced in a step   *)
(* after the one that recorded its digest, and what a header says does not  *)
(* change while its file is announced, also not when a batch is repeated    *)
(* after a failure and writes over the files of the first attempt.          *)
ImplementsLedger == L!LedgerSpec
=============================================================================
