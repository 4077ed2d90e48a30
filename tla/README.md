# SecProGIS-LibClient in TLA+

SecProGIS-LibClient is the archive's side of a system that encrypts GIS documents. An administrator
logs in, selects files, an organisation and a deadline, and presses a button; for each file the
program makes a key, writes a cipher file, and stores a record (organisation, digests, key, deadline)
in a MySQL table that all clients share and from which a reader's program gets the key. The program
is an MFC dialog application; its own code is in `src/SecProGIS-LibClient/Archive/`.

The question this project asks first is the one a user would ask: *when the program says a file is
done, can it be opened again?* The cipher file is on a local disk, the key in a remote table, and
nothing makes the two steps one.

## Inventory

The program's own code that is built has about 3000 lines; the rest of the directory is vendored
headers and libraries (OpenSSL, MySQL, `deelx.h`, `afxcmn.h`, `md5.h`, cJSON).

| Component | State | Operations | Interacts with |
|---|---|---|---|
| `CArchiveApp` (Archive.cpp) | | `InitInstance` | the two dialogs |
| `LoginDlg` | administrator, `conf.txt` | `CheckAdmin`, `LinkDataBase` | `MY_QUERY` |
| `CArchiveDlg` (ArchiveDlg.cpp) | selected files, cipher paths, organisation, deadline, date control, key buffer | button and control handlers; `OnEncryptFile` | everything below |
| `KM_SERV`, `KM_SK` (KM.cpp) | one file's digests, key, deadline, time of encryption | `gen_key`, `get_skey`, `store`, `restore` | `MY_QUERY`, the clock |
| `MY_QUERY` (INTmysql.cpp) | the static configuration; a connection per statement | `set_conf`, `exec_query_mysql`, with and without a result | MySQL, `_TABLE` |
| `_TABLE`, `T_ROW` (DBTable.cpp) | a list of rows of cells | `append`, `[]`, `clear`, `read_in` | `BASE_WORD` |
| `BASE_WORD` (BWord.cpp) | a buffer and its length | `read_in`, `=`, `clear`, `get_cont` | |
| SM3 (sm3.cpp) | a context: counters, state, one block, two pads | `sm3_starts`, `sm3_update`, `sm3_finish`, HMAC, `sm3_file` | |
| SM4 (sm4.cpp) | a context: round keys | key schedules, `sm4_crypt_ecb`, `sm_crypt_ecb_16` | |
| `ViewDlg`, `CListCtrlSort` | the list of records; column and direction | loading, sorting | `MY_QUERY` |
| `CAutoCombox1` | the typed text | completion | |

Not part of the build, or reached only from commented-out code: `encrypt.cpp`, `BaseFunc.cpp`,
`AdvHeaderCtrl`, `base64.cpp`, `cJSON.c`.

What is hard here:

- **Two stores, no transaction.** The cipher file is complete before the record is stored; the record
  is stored by a select, then an insert or update, then a second update that adds the file name, each
  on a connection of its own, any of which may fail.
- **Several clients, one table.** Any client's statement may come between two of another's. Records
  are found by the digest of the ciphertext, and two clients produce equal digests when they encrypt
  equal texts in the same second (the key is a function of `time()`), or texts so short that SM4
  leaves them in clear.
- **Time.** A deadline is compared with three different readings of the clock: the time of the last
  pick, the time in `get_skey`, the time of storing.
- **Fields that outlive their purpose.** One dialog object keeps paths, organisation, deadline and the
  key buffer from batch to batch; the configuration of the database is static and is read anew at
  each attempt to log in.
- **Stopping in the middle.** The loop returns from three places and is left by exceptions; the user is
  told to encrypt again. A statement can stop at each of four calls to the server.
- **Memory by hand.** A list that is destroyed by nested destructors, words that copy their buffers.
- **Boundaries.** Lengths that just fill a block, a buffer or an int; a counter in two words.

What makes each component correct:

- dialog: paths, indices and files agree whenever the loop runs; the deadline used lies ahead;
- key service: a record's key opens the file it is filed under; one record per digest; what is restored
  is what was stored;
- loop: what is reported has its record; a stopped batch leaves a finished prefix; it ends, and when
  nothing fails it ends with everything done; it is for the organisation on the screen;
- database access: whichever way a statement ends, its connection is accounted for;
- tables, words: a sequence, a text; every buffer has one owner;
- SM3: the digest depends on the message alone; SM4: what one direction does, the other undoes;
- login: whoever is logged in may be, on the server his records are on; record list: the table as it
  was at one moment, in the order asked for.

## Modules

| Module | Models | Extends |
|---|---|---|
| `KmService` | the table, `KM_SERV`, the outcome of statements: rows and the three statements on them | |
| `ArchiveDialog` | the fields of `CArchiveDlg` and the handlers that set them, `JudgeBeforeEncrypt` | `KmService` |
| `EncryptBatch` | `OnEncryptFile` on every client, files, crashes, other programs; the specification | `ArchiveDialog` |
| `EncryptBatchInv` | the inductive invariants, and the condition one of them holds under | `EncryptBatch` |
| `Ledger` | what the clients promise together, without files, statements and clocks | |
| `EncryptBatchLedger` | the mapping of the clients to the ledger | `EncryptBatchInv`, instance of `Ledger` |
| `MCEncryptBatch` | values and a starting point for TLC | `EncryptBatchLedger` |
| `EncryptBatchProofs` | lemmas about rows and statements, the theorems about `EncryptBatch`, that it implements the ledger | `EncryptBatchLedger` |
| `Sm4` | key schedule, rounds, both directions, with the S-box and 32-bit words | |
| `KmRestore` | the row `store` writes and what `restore` makes of it: hex, `atoi`, codes | |
| `CipherFile` | one file, byte by byte: header, buffers, digest, row; and a reader | `Sm4`, `KmRestore` |
| `CipherFileInv` | the inductive invariant of a file | `CipherFile` |
| `MCCipherFile` | plain files, keys, the test vector | `CipherFileInv` |
| `Sm4Proofs` | its theorems | `Sm4`, `LoopProofs` |
| `CipherFileProofs` | the theorems about a file and about what is restored | `CipherFileInv`, `Sm4Proofs` |
| `LoopProofs` | lemmas: a function defined by counting up exists, and is what the loop computes | |
| `Sm3` | SM3 contexts, files, HMAC, next to the definition of a digest of a whole message | |
| `Sm3Proofs` | its theorems | `Sm3`, `LoopProofs` |
| `MyQuery` | `MY_QUERY`: a statement in four stages, its connection, the server's limit | |
| `Session` | login, opening, record list and sorting of one process, composed with `MyQuery` | `MyQuery` |
| `MCSession` | servers, accounts, configuration files | `Session` |
| `SessionProofs` | its theorems | `Session` |
| `RowList` | a query result as its readers see it: a sequence | |
| `DbTable` | `_TABLE` and `ROW_NODE`, pointer by pointer | instance of `RowList` |
| `DbCells` | `T_ROW` and `BASE_WORD` under `DbTable`: cells, buffers, a word of `KM_SERV` | `DbTable` |
| `DbTableInv` | the inductive invariant of the table | `DbTable` |
| `DbCellsInv` | the inductive invariant of cells and buffers | `DbTableInv`, `DbCells` |
| `MCDbTable` | rows and indices | `DbCellsInv` |
| `DbTableProofs` | the theorems about the table | `DbTableInv` |
| `DbCellsProofs` | those about cells, buffers and words | `DbCellsInv`, `DbTableProofs` |

Two pairs of modules look at the same code at two levels. `KmService` gives a statement as its code
and its effect, `MyQuery` as the calls it waits in; `EncryptBatch` has many files and clients with
texts and keys as values, `CipherFile` has one file with its bytes.

### Data

- A *text* is a value of `Texts`; those in `Short` have fewer than 16 bytes. `Sealed(text, key)` is the
  data part of a cipher file. `sm_crypt_ecb_16` encrypts whole blocks and copies the rest, so a short
  text is sealed under no key at all.
- A *digest* is what it digests: the code uses digests for nothing but comparison.
- A *key* is the second that seeded its generator (`srand(time(NULL))`), `NoKey` a buffer that no
  generated key was copied to. In `CipherFile` a key is sixteen characters of `generate`.
- A *row* has the columns of `KM_SERV::store` and `fname`. The remark is left out, it goes where the
  file name goes.
- In `CipherFile` a text is a sequence of bytes, the largest int is `IntMax`, and a digest is again what it
  digests, its bytes in a header numbered apart from those of data.
- In `Sm3` a byte is told apart by where it comes from (message, key, number, an earlier digest), and
  the state of a context is the sequence of blocks passed to `sm3_process`.
- `exec_query_mysql` returns 0, -2, -3 or -4. With -4 the statement may still have been executed,
  since the connection can be lost before the answer. `Codes` says which failures an instance has.
- The repository has no schema. `UniqueMd5` says whether `md5_c` is a unique key. Each run
  takes one answer (`names` that it is, the others that it is not); the theorems cover both.

### From handlers to actions

A handler runs on the program's only thread and modal dialogs disable their parent, so each handler of
the dialog is one action. `OnEncryptFile` is cut where something else can happen: before each
statement (another client), between closing the plain file at line 432 and opening it at line 460
(another program), between readings of the clock, and everywhere the process may die.

| Action | Code (ArchiveDlg.cpp unless named) |
|---|---|
| `Start`, `Quit` | `InitInstance`, `OnInitDialog`; the end of the process |
| `OnReadFile`, `OnBnClickedButtonsavepath`, `OnCbnSelchangeCombo1`, `OnDtnDatetimechangeDatetimepicker1`, `TypeOrgName` | the handlers of those names; typing in the combo box |
| `OnEncryptFile` | `JudgeBeforeEncrypt` and the start of the loop |
| `DigestPlain`, `GenKey`, `GetKey` | 407-450, 452, 453 |
| `CreateCipher`, `FillCipher` | 459-466, 468-526 |
| `StoreSelect`, `StoreWrite` | 535-551 with `KM_SERV::store` |
| `NameRecord` | 553-606, and the message at the end |
| `FileError` | a `CFile` call throws, the handler is left |
| `Edit`, `Pass` | another program writes a plain file; a clock ticks |

Each client has a clock of its own and the clocks are not synchronised.

`OrgName` is a row of table `org` or `Nil` for any other text. The combo boxes `IDC_COMBO_ORG` and
`IDC_COMBO1` have one number in `resource.h`, so `OnReadFile` does clear the organisation.

`reported` records which cipher files the user has been shown as done (100 percent, no error message).
It is not read by any action.

Three more history variables, which no action reads but to update them, say where the code lets something
happen that a property must then except, and nothing beyond it:

- `edited`: the plain file of the client was written to after its digest was taken;
- `torn`: the pairs of plaintext digest and sealed data that came of it, once the file was read again
  (ArchiveDlg.cpp:432 and :460). `RecordDigestsPlain` excepts exactly the records with such a pair;
- `swallowed`: the files that were reported although their own naming statement failed with -2 or -4
  (:567). `ReportedNamed` excepts exactly those.

### The ledger

The ledger is the promise in one page: digests get recorded; a writer announces what is in a place
when, and only when, its digest is recorded; nothing recorded is lost; what is announced does not
change without being withdrawn first. `EncryptBatchLedger` maps the rows of the table to `recorded`
and the files in `reported`, each with the digest in its header, to `announced`. So a header that
changed under an announcement, a row that went away, and a file announced in the step that stores its
row, or before, would all be seen.

### The rows of a query

`KmService` treats the answer of a select as a set of rows. What the code has is `_TABLE`, a linked
list that grows at its head, so that the first row is its last node: `operator[]` reduces the index with two
remainders of C, turns it into a number of steps, and walks. `clear` deletes the head, whose
destructor deletes the next node, and so on. `DbTable` takes one step per pointer followed: `Ask`,
`Walk`, `Answer` for `operator[]`; `Clear`, `Delete` (a destructor calls the next), `Free` (a destructor
returns), `Cleared`. `heap` holds the allocated nodes, `stack` the destructors that run. `order`, the
nodes in the order of their appending, is read by no action. An empty table is not asked: each caller
looks at the size first, by which `operator[]` divides. The destructor of `_TABLE` does what `clear`
does and the table is gone afterwards.

### The cells of a row

`DbCells` lays the rows' cells and one word of a `KM_SERV` over the steps of `DbTable`. `memory` maps the
allocated buffers to what is in them, and the allocator gives out the lowest free address, so that what
was given back is soon in use again. `AppendRow` reads the columns of a row in (`T_ROW::read_in`),
`FreeRow` destroys them with their node, `RestoreWord` is `restore` taking a cell, `AssignWord` the
constructor and `store` of `KM_SERV` with the temporary they assign from, `generate` `KM_SK::generate`,
`DestroyWord` the end of a `KM_SERV`. Nothing in the program assigns a word to itself. `read_in` of an empty
text forgets the buffer the word had (BWord.cpp:64): `forgotten` collects those, bounded by
`MaxForgotten`. `BWord.h` and `DBTable.h` say that `read_in` returns 0 on success where the code
returns the length; the constructor of `T_ROW` from strings believes the header and always empties its row,
but nothing calls it.

### A file and its bytes

`CipherFile` follows one file: `DigestPlain`, `CreateCipher`, then for each buffer `ReadBlock`,
`CryptStart`, 32 times `CryptRound`, `CryptEnd` for each block, and `WriteBlock`; `DigestCipher` reads
the data back and writes the digest into the header, `Store` the row. `Restore`, `Open` and `Opened` are
what this program provides to a reader: `KM_SERV::restore`, and the decryption of `OnDecryptFile`, in one
piece. Each length the code casts to int goes through `AsInt`. A buffer of negative length throws and
the handler is left (`threw`).

### A session

| Action | Code |
|---|---|
| `InitInstance` | Archive.cpp: the login dialog |
| `CheckAdmin`, with `LinkDataBase` | LoginDlg.cpp: `conf.txt` is read at every attempt, each value cut to the 14 characters of its buffer, and the row of the name is selected |
| `LoginAnswered` in `Finish`, `Fail`, `Lose` | LoginDlg.cpp: the first row is compared, the main dialog opens |
| `AddOrgCombMenu` | ArchiveDlg.cpp: the list of organisations |
| `OtherStatement` | the statements of `EncryptBatch`, for their connections and rows |
| `OnBnClickedViewbutton`, `ListAnswered` | ArchiveDlg.cpp, ViewDlg.cpp: the record list |
| `OnColumnClick`, `OnBnClickedOk` | ListCtrlSort.h, ViewDlg.cpp |
| `GoOn`, `Read`, `Write`, `Fail`, `Lose`, `Finish`, `Crash` | INTmysql.cpp, one per way a stage can end |
| `EditConf`, `OthersWrite`, `OthersConnect`, `Quit` | everybody else |

`MyQuery` counts for each server the connections it holds for the process (`held`), those a refused select
has left open (`kept`, INTmysql.cpp:90), and those of others; a server grants `MaxConn`.

## Runs

| Run | Instance | Shows |
|---|---|---|
| `batch` | 1 client, 2 files, any selection, all dialog handlers, every failure code, file errors, crashes | `TypeOK`, `PathsAligned`, `BatchPrefixReported`, `BatchEnds`, `ImplementsLedger` (for clients that interleave it is proved) |
| `two_clients` | 2 clients, 1 file each, long and short texts, deadline re-picked, one statement fails in any way or is executed without an answer | `ReportedRecorded`, `RecordKeyOpensCipher`, the invariant `IInv` of the proofs |
| `names` | 2 clients, unique digests, 2 organisations chosen and typed, two statements that fail with any code | `ReportedNamed`, `BatchForOrgShown` |
| `one_client` | 1 client, 2 files, long and short texts, edits of the plain files; nothing fails | `RecordDigestsPlain`, `OneRecordPerCipher`, `BatchCompletes` |
| `table` | at most 3 rows of two columns, with and without a value; indices -4 to 5; one word | `TypeOK`, `NoDanglingPointer`, `NoNodeLost`, `MemoryOwned`, `CellsHoldRows`, `WordKeeps`, `IsRowList` |
| `session` | 2 servers of 2 connections, 3 accounts, 3 configuration files, 1 fault, 1 write | `TypeOK`, `ConnectionsAccounted`, `LoggedInRight`, `ServerOfLastAttempt`, `ListShowsRecords` |
| `digest` | blocks of 4 bytes, words of one 4-bit byte, messages up to 70 bytes, pieces of 0 to 9, keys of 0, 3, 4, 5 | `TypeOK`, `Absorbed`, `DigestOfMessage` |
| `sealing` | the real SM4, ints of 8 bits, buffers of 32 bytes, ten lengths, two keys | `TypeOK`, `RoundsInvert`, `ReaderRecovers`, `SealedWhole`, `ThrewAtBounds`, `RestoredRecord`; the vector of the standard |

Why the bounds are enough:

- Batches: two files make an earlier and a later one, which is what the properties about prefixes and
  about keys kept from file to file need; two clients are enough for any two-actor interleaving over
  the table. One statement fails at most (`MaxFaults`), at any place and in any of the ways of `Codes`; in
  `names` two, so that a lookup of an organisation can fail on the way to a batch and a statement within
  it, and two organisations make one a leftover of the other. `two_clients`, `names` and `one_client`
  start where the users have finished selecting (`ReadyInit`): those states are reachable from `Init` by
  the handlers that `batch` explores. In `one_client` two texts make an edit that changes something, and
  every cipher path is written again by later batches. The deadline is at 1. Clocks run from 0 to 1
  where it need not be exceeded inside the loop (`batch`, `names`, `one_client`), and to 2 in
  `two_clients`, so that it can be between any two steps.
- `table`: three nodes have a head, a middle and a last one; the indices reach past both ends of a list,
  by more than its size but for the longest; an address and a buffer are used again after they were
  freed. Addresses are symmetric: no step compares them but for equality. `MaxForgotten = 1`: a second
  forgotten buffer differs from the first in nothing.
- `session`: an address of `conf.txt` that is longer than its buffer names, when cut, the other server;
  two administrators' names differ in case only; a number means another administrator on the other
  server; the session's connections and those of others together exceed what a server grants.
- `digest`: 70 bytes are four times the range of a word and 17 blocks, so that both counters wrap or
  carry and every remainder occurs; pieces are shorter than, equal to and longer than what is missing
  in a block, and span two blocks.
- `sealing`: the empty file, less than a block, a block, a buffer, a buffer and a byte, and lengths on both
  sides of what an int of 8 bits holds, with and without the header. In `CipherFile` and `Sm4` the block
  is 16 bytes and a word 32 bits, as in the code.

Only `sealing` and `restored` do without the deadlock check: a file comes to its end.

Four runs show what the program says of itself and does not do:

| Run | Property | What happens |
|---|---|---|
| `late_start` | `BatchStartsBeforeDeadline` | `JudgeBeforeEncrypt` compares the deadline with the time it was picked at |
| `expired_key` | `EveryRecordOpensCipher` | `get_skey` refuses, its result is ignored, the file is encrypted with whatever is in the buffer |
| `failed_select` | `OneRecordPerCipher` | a failed select counts as an empty answer |
| `restored` | `RestoredKey` | `store` writes the key, `restore` decodes it as hex |

`RecordKeyOpensCipher`, which holds, and `EveryRecordOpensCipher`, which does not, mark the border: a
record is wrong only when its own time of encryption is later than its deadline, and such a record can
be told by looking at it.

Known, and visible in the model, without a run: opening files resets the date control but not
`m_date_64t` (ArchiveDlg.cpp:283); a file whose naming statement failed with -2 or -4 is shown as done
(:567), and is in `swallowed`; the plain file may change between its two readings (:460), and is then in
`torn`; a refused select leaves its connection open (INTmysql.cpp:90), which
`ConnectionsAccounted` counts as `kept` and does not forbid; an address of `conf.txt` that is cut may name
another server (LoginDlg.cpp:525), which `ServerOfLastAttempt` excepts.

### Fairness

`EncryptBatch`: `WF_vars(Iteration(c))` for each client: a running handler goes on. It calls nothing that
waits for the user before its last step (message boxes on the error paths come after every change of
state). That `mysql_real_connect`, `mysql_query` and the calls that fetch a result return, if only with an
error, is an *assumption* of `BatchEnds` and `BatchCompletes`: the program sets no connect, read or write
timeout (INTmysql.cpp:55, 63, 82, 93), so that only the client library bounds the wait. For that reason
`Session`, where a statement is nothing but those calls, states no fairness and no liveness: that a
statement ends would be the assumption itself. Nothing is assumed of users, clocks, servers or other
programs: a batch may never be started, a process may die in the middle, and others may hold all
connections of a server for ever (a connect then fails, and that too is a return).

## Proofs

Each theorem is about every value of the constants that satisfies the `ASSUME`s of its module, which
are about sorts (times are natural numbers, `Nil` is no value) and sizes.

| Module | Theorem | Statement |
|---|---|---|
| `EncryptBatchProofs` | `TypeCorrect`, `PathsAlignedHolds`, `RecordKeyOpensCipherHolds`, `ReportedRecordedHolds`, `BatchPrefixReportedHolds`, `RecordDigestsPlainHolds`, `ReportedNamedHolds`, `BatchForOrgShownHolds`, `IInvHolds` | `Spec => []P` for the property of that name: any number of clients, files, texts, organisations, administrators, deadlines, failures, edits, crashes, either answer to `UniqueMd5` |
| | `OneRecordPerCipherHolds` | `Spec => []OneRecordPerCipher` when the digest is a unique key, or one client's statements never fail (`StoredOnce`) |
| | `LedgerImplemented` | `Spec => ImplementsLedger` |
| `DbTableProofs` | `NormalisedIsModulo` | the two remainders of `operator[]` are the modulo of any integer |
| | `TypeCorrect`, `NoDanglingPointerHolds`, `NoNodeLostHolds` | `Spec => []P`, for any rows, addresses and indices |
| | `RowListImplemented` | `Spec => IsRowList` |
| `DbCellsProofs` | `CellsAreRows` | `CellSpec => Spec`: with cells, the table does what it does without, so that the theorems of `DbTableProofs` are about both |
| | `CellInvHolds`, `MemoryOwnedHolds`, `CellsHoldRowsHolds`, `WordKeepsHolds` | `CellSpec => []P`, for any number and size of rows and texts |
| `Sm4Proofs` | `RoundsInvertHolds` | `Sm4Spec => []RoundsInvert`: any blocks, keys and calls |
| `CipherFileProofs` | `UsesSm4` | `Spec => Sm4Spec`: a file's handlers call SM4 as it must be called |
| | `CipherInvHolds`, `CipherTypeHolds`, `SealedWholeHolds`, `ThrewAtBoundsHolds`, `RestoredRecordHolds`, `ReaderRecoversHolds` | `Spec => []P`, for any content and length of the file, any buffer of whole blocks, any int |
| | `KeyNeverRestored` | no key that `generate` makes is restored as it was |
| | `HexFormWouldRestore` | with the hex form stored, every key would be |
| `SessionProofs` | `SessionTypeHolds`, `ConnectionsHold`, `LoggedInRightHolds`, `ServerHolds`, `ListShowsRecordsHolds` | `Spec => []P`, for any servers, limits, accounts, tables, clicks and failures |
| `Sm3Proofs` | `ContextHolds`, `AbsorbedHolds`, `DigestOfMessageHolds` | `Spec => []TypeOK`, `Spec => []Absorbed`, `Spec => []DigestOfMessage`, for blocks and words of any size, any pieces and keys |
| | `CounterCarries`, `PaddingFills` | the carry; where padding and length end |

Every invariant that a run checks is thereby stated by a theorem, one of them
(`OneRecordPerCipher`) under a condition that the run's instance satisfies and without which it does not
hold, as `failed_select` shows.

### The batch

Few of the properties are inductive. The three main invariants of `EncryptBatchInv` are:

- `TypeInv` adds to the types that the cipher paths are none or match the files at *every* moment
  (`Aligned`, needed because the paths are chosen long before the loop runs), what the checks before
  the loop have established and the loop keeps (`Judged`), and how far the `KM_SERV` in hand has got
  (`InHand`, without which a row need not have a key);
- `KeyInv` follows the key: in the buffer it is the one of the `KM_SERV` *or the deadline is behind*,
  hence at the select the ciphertext is sealed with the buffer, and at the write a time of encryption
  not behind the deadline rules the second case out;
- `ReportInv` follows the file: the one in the making is not reported and matches its `KM_SERV`, a
  record that the select returned is still there when the update is executed, and no statement of any
  client removes one.

Each has one lemma per action of the acting client, and `OthersSame` for the others. Four more follow
the same steps, the first three without a condition:

- `PlainInv`: as long as the plain file has not been written to since its digest was taken, the digest in
  the `KM_SERV` is that of the text the file holds; once there is a cipher file, it is that of the text
  that was sealed, or the pair is in `torn`. Overwriting a record of an equal digest takes both columns
  from one `KM_SERV`, so no record mixes two;
- `ReportedNamed` is inductive on top of `ReportInv`: a report comes with the naming statement, which has
  either been executed or put the file into `swallowed`; whatever another client stores over the record
  keeps its name. The proof needs no unique key, which the run has;
- `BatchForOrgShown`: choosing with a failed lookup, typing and clearing leave an old number in `OrgID`, but
  `JudgeBeforeEncrypt` looks the text up again and lets nothing in unless that lookup has succeeded; no
  handler runs during the loop, which hands the number on;
- `OnceInv`, under `StoredOnce`: at the write of a digest that the select did not find, there is no record
  of it. With several clients or a failed select that is false, and only the key keeps the records apart.

`IInv`, the conjunction of all, is an invariant of run `two_clients`.

That the clients implement the ledger follows from `ReportInv` action by action: most steps change
neither table nor reports; the insert adds one digest and the updates none (`DigestsInserted`,
`DigestsUpdated`, `DigestsNamed`); creating a cipher file withdraws; naming a record announces a file
whose digest `FileInHand` knows to be in the table.

### The table

The invariant of the table, `TableInv`, ties the three things the pointer arithmetic relies on: each
node points to the one appended before it (`Chained`), the walk has taken j steps from the head
(`Walked`), and the destructors that run are those of the newest nodes on the way down and of the oldest on
the way back (`Stacked`). `NormalisedIsModulo` turns the remainders into a place in the list; it rests on
`ModUnique`, that a remainder is the only number of its range that differs by a multiple.

### The cells

`CellInv` says of the memory what a reader of `BWord.cpp` has in mind: each cell and the word have no
buffer or one with its length, no two have the same one (`BuffersApart`), the buffers allocated are
theirs and the forgotten ones and no more, and through them the rows read as they were appended
(`RowHeld`). Appending a row is a loop that allocates at every turn: `RowReadOK` takes the loop as the
recursive function it is and proves, for each number of cells read (`CellReadOK`), that the new buffers
are apart from the old, the old unchanged. That a loop has a value at all is `LoopProofs`, by way of the
least number at which it would have none, since the library's induction is not at hand. Freeing a row
takes buffers away that, by `BuffersApart`, nobody else has.

### A file

`CipherInv` keeps, for each whole block of the piece in hand and of the cipher file, the run of SM4 it
came from (`Blockwise`): there is an entry in the log of runs, under the round keys of this key, whose
first words are the plain block and whose last ones the cipher block. `ReaderRecovers` then needs no more
of SM4 than `RoundsInvert`: the reader's run on a cipher block, under the reversed round keys, starts
with the last words of the writer's, and so ends with its first. That bytes and words turn into each
other without loss is `PutByte` and its neighbours, bit by bit. The rest is about positions: pieces start
at whole blocks because a buffer has whole blocks (`Pieces`), header and data do not overlap
(`HeaderOK`), and what is less than a block is copied and copied back. `AsIntUnique` is what the casts
to int do; `ThrewAtBounds` follows, and `SealedWhole` for lengths on both sides of what an int holds.

### SM3

`Absorbed` says what a context holds in terms of the whole message, `sm3_update` changes it by pieces.
The lemma between them is `UpdateHolds`: a context that holds a message holds, after `sm3_update`, the
message and the piece. It is put together from four facts, each with a predicate for what it assumes:
how the code splits a piece (`PieceSplit`), that the completed block is the next one of the message
(`FilledIs`), that the blocks of message and piece are those of the message, the completed one and
those of the piece (`CutGrows`), and that what remains stands where the next block begins (`RestIs`). The
counters are `CounterCarries`. `AbsorbedInv` adds to `Absorbed` that the context is in order (`CtxOK`)
and that the inner pad is kept. `PaddingFills` is about arithmetic alone: for every length modulo the
block there is at least one byte of padding and the length ends a block.

`DigestOfMessage` adds to this that what `sm3_finish` appends is the padding of the definition. The
number of zeros is the only one of its range that fills the block (`ZerosAre`, by `ModUnique`); the length
field is made of two counters, of which the high one carries and is shifted, and is shown digit by digit
to be the number of bits (`FinishedHolds`, from `DigitOfRest` and the powers of the radix, `PowerOf` and
`PowerSum`). With a key, the two pads are each a block, a key that is too long is its digest, and the outer
hash is that of the outer pad and the inner digest. `DigestInv` keeps the equation for the digest
returned, which later messages in the same context do not change.

### SM4 and keys

A Feistel round is undone by itself: `RoundsInvert` is proved from the shape of `sm4_one_round` and the
reversal of the round keys, with the S-box and the linear part as any function into the words (`Mixed`, of which only
`MixedWord` is used: its value is a word).
`KeyNeverRestored` follows from lengths, `HexFormWouldRestore` from the two digits of a byte.

### A session

`SInv` relates the stage of the statement under way to the connection it has, and the phase of the
dialogs to what was typed, to the configuration and to the server that accepted it. `Counts` and
`DialogInv` build on it. The connections of a server stay within its limit because every way a
statement ends gives back what the accounting of `SInv` says it has. The list is right because the answer
to its select is kept with the table it was made from (`View`), on the server of the login (`SInv`), until
the list opens; and because an arrangement of an arrangement is one of the same rows (`ArrangedAgain`:
bijections compose), so that no number of clicks loses or doubles a record.

### Only model-checked

`BatchEnds` and `BatchCompletes`: liveness under fairness is beyond the prover. The violations of the
last four runs are counterexamples and need no proof. What `RoundsInvert` and
`ReaderRecovers` do not say, that SM4 is the SM4 of the standard, is checked for its test vector.

## Not modelled

- Painting and layout, the wording of messages, the progress bar, the list boxes, which show what the
  arrays hold; the completion of the combo box, whose outcome is `TypeOrgName`; `AdvHeaderCtrl`.
- `OnDecryptFile`: its button is hidden, and it reads a header of 9 bytes where 44 are written (:647).
  `CipherFile` uses its decryption with the header as it is written.
- The trial period, one comparison of the clock with a constant (Archive.cpp; the constant is in the year
  2050, the comments beside it say 2018).
- The parsing of what the file dialog answers into names, and the lengths of names.
- SM3's compression function; `sm4_crypt_cbc`, which nothing calls.
- `T_ROW`'s constructors with arguments and `print_tab`, which nothing calls.
- In the sorting of the list, the treatment of numbers in texts; the conversions of times to text.
- base64, cJSON, `encrypt.cpp`, `BaseFunc.cpp`: not built, or reached only from commented-out code;
  vendored headers and libraries. They are most of the lines of the directory, so that the share of all
  lines the modules translate stays small although most of the program's own code is covered.

## Plan

Done: everything listed under "Modules" and "Proofs". Next, in this order:

1. `EncryptBatch` on `MyQuery`: a refinement from statements in four stages to statements in one.
2. The trial period; the parsing of the file dialog's answer, with the extension that a name without a
   dot takes from the file before it (ArchiveDlg.cpp:309).
3. Action properties of the table `service`, which the ledger now states for digests only: which columns
   a statement of another client may change.
