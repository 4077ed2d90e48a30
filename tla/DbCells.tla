------------------------------ MODULE DbCells ------------------------------
(***************************************************************************)
(* What the rows of a query result are made of, and what is taken out of   *)
(* them: the cells of T_ROW (DBTable.cpp) and the words of KM_SERV (KM.cpp)*)
(* are BASE_WORDs (BWord.cpp), each with a buffer of its own that is made, *)
(* copied and given back as rows arrive, words are set, and tables are     *)
(* cleared.  Every step is one of DbTable's, or sets the word.             *)
(*                                                                         *)
(* A text is a sequence of characters; a column without a value is NULL.   *)
(* The allocator gives out the lowest free address, so that addresses are  *)
(* used again as soon as they can be.                                      *)
(***************************************************************************)
EXTENDS DbTable

CONSTANTS
    Texts,          \* what words are set to
    CellIndices,    \* the indices cells are asked for with
    MaxForgotten    \* how many buffers may be forgotten

ASSUME DbCellsAssumption ==
    /\ \A t \in Texts : t \in Seq(STRING) /\ t # <<>>
    /\ CellIndices \subseteq Int
    /\ \A r \in Rows : r # <<>> /\ r \in Seq(Seq(STRING) \cup {NULL})
    /\ NULL \notin Nat \cup Seq(STRING)
    /\ MaxForgotten \in Nat

VARIABLES
    memory,     \* the allocated buffers and what is in them
    cells,      \* the cells of the row at each node
    word,       \* a word of a KM_SERV: a digest or a key
    kept,       \* history: what that word was last set to
    forgotten   \* history: the buffers that read_in of nothing forgot

cellVars == <<memory, cells, word, kept, forgotten>>
allVars == <<vars, cellVars>>

-----------------------------------------------------------------------------
(* BASE_WORD.                                                               *)
EmptyWord == [content |-> NULL, len |-> 0]

isempty(w) == IF w.len <= 0 THEN IF w.content = NULL THEN 0 ELSE -1
              ELSE IF w.content = NULL THEN -2 ELSE 1

TextOf(mem, w) == IF isempty(w) = 1 THEN SubSeq(mem[w.content], 1, w.len) ELSE <<>>

FreeAddress(mem) ==
    CHOOSE n \in 0..Cardinality(DOMAIN mem) :
        n \notin DOMAIN mem /\ 0..n - 1 \subseteq DOMAIN mem

(* delete[] of a buffer, if there is one: clear and the destructor.         *)
Deleted(mem, w) == [n \in DOMAIN mem \ {w.content} |-> mem[n]]

(* A new buffer for a text that is not empty, and the word that owns it.    *)
Made(mem, text) ==
    LET n == FreeAddress(mem)
    IN  [mem  |-> [b \in DOMAIN mem \cup {n} |-> IF b = n THEN text ELSE mem[b]],
         word |-> [content |-> n, len |-> Len(text)]]

(* Variant: the old buffer is not given back.                               *)
ReadInOver(mem, w, src) ==
    IF src = NULL \/ src = <<>> THEN [mem |-> mem, word |-> EmptyWord] ELSE Made(mem, src)

(* read_in: of nothing, it forgets the old buffer, otherwise it gives it    *)
(* back first.                                                              *)
read_in(mem, w, src) ==
    IF src = NULL \/ src = <<>> THEN [mem |-> mem, word |-> EmptyWord]
    ELSE Made(Deleted(mem, w), src)

(* operator=: the old buffer is given back, that of the other is copied.    *)
Assigned(mem, w, v) ==
    LET cleared == Deleted(mem, w)
    IN  IF isempty(v) = 1 THEN Made(cleared, TextOf(cleared, v))
        ELSE [mem |-> cleared, word |-> EmptyWord]

-----------------------------------------------------------------------------
(* T_ROW.                                                                   *)

(* Variant: the last cell is left out.                                      *)
CellsReadButLast(n) == n - 1

(* How many of the n cells are read in: all.                                *)
CellsRead(n) == n

(* read_in of a row: cell after cell; NULL has length 0.                    *)
CellReadIn(read, r, k) ==
    LET one == read_in(read.mem, EmptyWord, r[k])
    IN  [mem |-> one.mem, row |-> [read.row EXCEPT ![k] = one.word]]

RowReadIn(mem, r) ==
    LET read[k \in 0..Len(r)] ==
            IF k = 0 THEN [mem |-> mem, row |-> [n \in 1..Len(r) |-> EmptyWord]]
            ELSE CellReadIn(read[k - 1], r, k)
    IN  read[CellsRead(Len(r))]

(* delete[] cell: the destructors of all cells.                             *)
RowDeleted(mem, row) ==
    [n \in DOMAIN mem \ {row[k].content : k \in DOMAIN row} |-> mem[n]]

(* Variant: cells are counted from the end, as rows are.                    *)
CellFromEnd(row, k) == row[Len(row) - Normalised(k, Len(row))]

(* operator[]; its index is normalised like that of a table.                *)
CellOf(row, k) == row[Normalised(k, Len(row)) + 1]

-----------------------------------------------------------------------------
CellInit ==
    /\ Init
    /\ memory = <<>>
    /\ cells = <<>>
    /\ word = EmptyWord
    /\ kept = <<>>
    /\ forgotten = {}

(* append, with the cells of its row.                                       *)
AppendRow(r) ==
    /\ append(r)
    /\ LET read == RowReadIn(memory, r)
       IN  /\ memory' = read.mem
           /\ cells' = [a \in DOMAIN heap' |-> IF a \in DOMAIN heap THEN cells[a] ELSE read.row]
    /\ UNCHANGED <<word, kept, forgotten>>

(* A node's row is destroyed with it.                                       *)
FreeRow ==
    /\ Free
    /\ memory' = RowDeleted(memory, cells[Last(stack)])
    /\ cells' = [a \in DOMAIN heap' |-> cells[a]]
    /\ UNCHANGED <<word, kept, forgotten>>

Shown(column) == IF column = NULL THEN <<>> ELSE column

(* restore: the word is read in from a cell of the row asked for.           *)
RestoreWord(k) ==
    /\ Answer
    /\ LET read == read_in(memory, word, TextOf(memory, CellOf(cells[ret], k)))
           row == answer'[2]
       IN  /\ memory' = read.mem
           /\ word' = read.word
           /\ kept' = Shown(row[(k % Len(row)) + 1])
           /\ forgotten' = IF read.word = EmptyWord /\ isempty(word) = 1
                           THEN forgotten \cup {word.content} ELSE forgotten
    /\ Cardinality(forgotten') <= MaxForgotten
    /\ UNCHANGED cells

(* KM_SERV::KM_SERV and KM_SERV::store assign a word that their caller has  *)
(* made for the call, and destroys after it.                                *)
AssignWord(text) ==
    /\ pc = "idle"
    /\ LET given == Made(memory, text)
           set == Assigned(given.mem, word, given.word)
       IN  /\ memory' = Deleted(set.mem, given.word)
           /\ word' = set.word
    /\ kept' = text
    /\ UNCHANGED <<vars, cells, forgotten>>

(* KM_SK::generate.                                                         *)
generate(text) ==
    /\ pc = "idle"
    /\ LET made == Made(Deleted(memory, word), text)
       IN  memory' = made.mem /\ word' = made.word
    /\ kept' = text
    /\ UNCHANGED <<vars, cells, forgotten>>

(* The KM_SERV of one file goes, that of the next starts with empty words.  *)
DestroyWord ==
    /\ pc = "idle"
    /\ memory' = Deleted(memory, word)
    /\ word' = EmptyWord
    /\ kept' = <<>>
    /\ UNCHANGED <<vars, cells, forgotten>>

CellNext ==
    \/ \E r \in Rows : AppendRow(r)
    \/ \E k \in CellIndices : RestoreWord(k)
    \/ FreeRow
    \/ \E text \in Texts : AssignWord(text) \/ generate(text)
    \/ DestroyWord
    \/ /\ (\E a \in Indices : Ask(a)) \/ Walk \/ Answer \/ Clear \/ Delete \/ Cleared
       /\ UNCHANGED cellVars

CellSpec == CellInit /\ [][CellNext]_allVars

-----------------------------------------------------------------------------
(* Every object that may have a buffer: the word, or a cell of a node.      *)
TheWord == <<>>

Objects == {TheWord} \cup UNION {{<<a, k>> : k \in DOMAIN cells[a]} : a \in DOMAIN cells}

ContentOf(o) == IF o = TheWord THEN word.content ELSE cells[o[1]][o[2]].content

(* Every buffer belongs to one object, and no object has one that was given *)
(* back, while cells are read into words, words are set anew, and tables    *)
(* are cleared node by node and filled again.  Only what read_in of nothing *)
(* (BWord.cpp:64) has forgotten belongs to nobody, and is never given back. *)
MemoryOwned ==
    /\ \A o, p \in Objects : ContentOf(o) = ContentOf(p) /\ ContentOf(o) # NULL => o = p
    /\ DOMAIN memory = ({ContentOf(o) : o \in Objects} \ {NULL}) \cup forgotten
    /\ \A o \in Objects : ContentOf(o) \notin forgotten

(* The cells of a row read as the columns the server sent, those without a  *)
(* value as empty ones, as long as the row's node is there: whatever was    *)
(* allocated and given back since.                                          *)
CellsHoldRows ==
    \A a \in DOMAIN heap :
        LET row == heap[a].row
        IN  /\ Len(cells[a]) = Len(row)
            /\ \A k \in DOMAIN row : TextOf(memory, cells[a][k]) = Shown(row[k])

(* A word reads as what it was last set to, after the table it was read     *)
(* from, or the word it was assigned from, is gone and its memory is in use *)
(* again.                                                                   *)
WordKeeps == TextOf(memory, word) = kept
=============================================================================
