----------------------------- MODULE DbCellsInv -----------------------------
(***************************************************************************)
(* Why the memory of rows and words is right: the inductive invariant of   *)
(* DbCells, on top of that of the table.                                   *)
(***************************************************************************)
EXTENDS DbTableInv, DbCells

Columns == Seq(STRING) \cup {NULL}

(* A buffer holds a text of at least one character.                         *)
MemoryOK(mem) ==
    /\ IsFiniteSet(DOMAIN mem)
    /\ DOMAIN mem \subseteq Nat
    /\ mem \in [DOMAIN mem -> Seq(STRING) \ {<<>>}]

(* A word without a buffer, or with one and its length.                     *)
Held(mem) == {EmptyWord} \cup {[content |-> n, len |-> Len(mem[n])] : n \in DOMAIN mem}

(* The row of a node has a cell for each column, and reads like it.         *)
RowHeld(mem, row, r) ==
    /\ row \in [1..Len(r) -> Held(mem)]
    /\ \A k \in 1..Len(r) : TextOf(mem, row[k]) = Shown(r[k])

(* What the cells of the rows have.                                         *)
Contents(row) == {row[k].content : k \in DOMAIN row} \ {NULL}

CellContents == UNION {Contents(cells[a]) : a \in DOMAIN cells}

(* No two cells of a row have the same buffer ...                           *)
CellsApart(row) ==
    \A k, l \in DOMAIN row :
        row[k].content = row[l].content /\ row[k].content # NULL => k = l

(* ... nor have those of two rows, nor has the word, nor were they          *)
(* forgotten; and there are no other buffers.                               *)
BuffersApart ==
    /\ \A a \in DOMAIN cells : CellsApart(cells[a])
    /\ \A a, b \in DOMAIN cells : Contents(cells[a]) \cap Contents(cells[b]) # {} => a = b
    /\ word.content \notin CellContents
    /\ forgotten \cap (CellContents \cup {word.content}) = {}
    /\ DOMAIN memory = CellContents \cup ({word.content} \ {NULL}) \cup forgotten

(* All of it, with the texts.                                               *)
CellInv ==
    /\ MemoryOK(memory)
    /\ DOMAIN cells = DOMAIN heap
    /\ \A a \in DOMAIN heap : RowHeld(memory, cells[a], heap[a].row)
    /\ word \in Held(memory)
    /\ WordKeeps
    /\ BuffersApart
=============================================================================
