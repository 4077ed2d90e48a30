--------------------------- MODULE DbCellsProofs ---------------------------
(***************************************************************************)
(* Theorems about the memory of rows and words of DbCells: for any rows,   *)
(* texts, indices and addresses, and any number of forgotten buffers.      *)
(***************************************************************************)
EXTENDS DbCellsInv, DbTableProofs, LoopProofs

-----------------------------------------------------------------------------
(* Words.                                                                   *)

(* The allocator always has a free address to give.                         *)
LEMMA FreeAddressFree ==
    ASSUME NEW mem, MemoryOK(mem)
    PROVE  FreeAddress(mem) \in Nat \ DOMAIN mem
<1> DEFINE D == DOMAIN mem
           c == Cardinality(D)
           T == {n \in 0..c : n \notin D}
<1>1. IsFiniteSet(D) /\ c \in Nat
  BY FS_CardinalityType DEF MemoryOK
<1> HIDE DEF D, c
<1>2. T # {}
  <2> SUFFICES ASSUME 0..c \in SUBSET D PROVE FALSE
    OBVIOUS
  <2>1. Cardinality(0..c) <= Cardinality(D)
    BY <1>1, FS_Subset
  <2>2. Cardinality(0..c) = c + 1
    BY <1>1, FS_Interval
  <2> QED BY <1>1, <2>1, <2>2 DEF c
<1>3. PICK n \in T : \A m \in T : n <= m
  <2>1. T \in SUBSET Nat
    BY <1>1
  <2> HIDE DEF T
  <2> QED BY <1>2, <2>1, LeastNumber
<1>4. n \in 0..c /\ n \notin D /\ 0..n - 1 \subseteq D
  BY <1>1, <1>3
<1>5. \E m \in 0..c : m \notin D /\ 0..m - 1 \subseteq D
  BY <1>4
<1>6. FreeAddress(mem) = CHOOSE m \in 0..c : m \notin D /\ 0..m - 1 \subseteq D
  BY DEF FreeAddress, D, c
<1>7. FreeAddress(mem) \in 0..c /\ FreeAddress(mem) \notin D
  BY <1>5, <1>6
<1> QED BY <1>1, <1>7 DEF D

(* A new buffer leaves the others as they are.                              *)
LEMMA MadeOK ==
    ASSUME NEW mem, MemoryOK(mem), NEW text \in Seq(STRING) \ {<<>>}
    PROVE  LET made == Made(mem, text)
           IN  /\ MemoryOK(made.mem)
               /\ made.word \in Held(made.mem)
               /\ made.word # EmptyWord
               /\ made.word.content \in Nat \ DOMAIN mem
               /\ DOMAIN made.mem = DOMAIN mem \cup {made.word.content}
               /\ \A n \in DOMAIN mem : made.mem[n] = mem[n]
               /\ made.mem[made.word.content] = text
<1> DEFINE n == FreeAddress(mem)
           new == [b \in DOMAIN mem \cup {n} |-> IF b = n THEN text ELSE mem[b]]
           w == [content |-> n, len |-> Len(text)]
<1>1. n \in Nat \ DOMAIN mem
  BY FreeAddressFree
<1>2. Made(mem, text) = [mem |-> new, word |-> w]
  BY DEF Made
<1> HIDE DEF n
<1>3. DOMAIN new = DOMAIN mem \cup {n} /\ new[n] = text
  OBVIOUS
<1>4. \A b \in DOMAIN mem : new[b] = mem[b]
  BY <1>1
<1>5. MemoryOK(new)
  <2>1. IsFiniteSet(DOMAIN new)
    BY <1>3, FS_AddElement DEF MemoryOK
  <2>2. DOMAIN new \subseteq Nat
    BY <1>1, <1>3 DEF MemoryOK
  <2>3. \A b \in DOMAIN new : new[b] \in Seq(STRING) \ {<<>>}
    BY <1>3, <1>4 DEF MemoryOK
  <2> QED BY <2>1, <2>2, <2>3 DEF MemoryOK
<1>6. w \in Held(new)
  BY <1>3 DEF Held
<1>7. w # EmptyWord
  BY DbCellsAssumption, <1>1 DEF EmptyWord
<1> HIDE DEF new
<1> QED BY <1>1, <1>2, <1>3, <1>4, <1>5, <1>6, <1>7

(* What a word is.                                                          *)
LEMMA HeldWord ==
    ASSUME NEW mem, MemoryOK(mem), NEW w \in Held(mem)
    PROVE  /\ w = EmptyWord \/ w.content \in DOMAIN mem
           /\ w = EmptyWord <=> w.content = NULL
           /\ w = EmptyWord => isempty(w) = 0 /\ TextOf(mem, w) = <<>>
           /\ w # EmptyWord => /\ w.content \in DOMAIN mem
                               /\ w = [content |-> w.content, len |-> Len(mem[w.content])]
                               /\ isempty(w) = 1
                               /\ TextOf(mem, w) = mem[w.content]
<1>1. CASE w = EmptyWord
  <2>1. w.content = NULL /\ w.len = 0
    BY <1>1 DEF EmptyWord
  <2>2. isempty(w) = 0
    BY <2>1 DEF isempty
  <2> QED BY <1>1, <2>1, <2>2 DEF TextOf
<1>2. CASE \E n \in DOMAIN mem : w = [content |-> n, len |-> Len(mem[n])]
  <2>1. PICK n \in DOMAIN mem : w = [content |-> n, len |-> Len(mem[n])]
    BY <1>2
  <2>2. w.content = n /\ w.len = Len(mem[n])
    BY <2>1
  <2>3. mem[n] \in Seq(STRING) /\ mem[n] # <<>> /\ n \in Nat
    BY DEF MemoryOK
  <2>4. Len(mem[n]) \in Nat /\ Len(mem[n]) > 0
    BY <2>3
  <2>5. n # NULL
    BY <2>3, DbCellsAssumption
  <2>6. isempty(w) = 1
    BY <2>2, <2>4, <2>5 DEF isempty
  <2>7. SubSeq(mem[n], 1, Len(mem[n])) = mem[n]
    BY <2>3
  <2>8. w # EmptyWord
    BY <2>2, <2>5 DEF EmptyWord
  <2> QED BY <2>1, <2>2, <2>5, <2>6, <2>7, <2>8 DEF TextOf
<1> QED BY <1>1, <1>2 DEF Held

(* A word keeps its text while its buffer stays as it is.                   *)
LEMMA HeldStays ==
    ASSUME NEW mem, MemoryOK(mem), NEW new, MemoryOK(new), NEW w \in Held(mem),
           w # EmptyWord => w.content \in DOMAIN new /\ new[w.content] = mem[w.content]
    PROVE  w \in Held(new) /\ TextOf(new, w) = TextOf(mem, w)
<1>1. CASE w = EmptyWord
  <2>1. w \in Held(new)
    BY <1>1 DEF Held
  <2> QED BY <1>1, <2>1, HeldWord
<1>2. CASE w # EmptyWord
  <2>1. w \in Held(new)
    BY <1>2, HeldWord DEF Held
  <2> QED BY <1>2, <2>1, HeldWord
<1> QED BY <1>1, <1>2

(* Giving back the buffer of a word, or none.                               *)
LEMMA DeletedOK ==
    ASSUME NEW mem, MemoryOK(mem), NEW w
    PROVE  /\ MemoryOK(Deleted(mem, w))
           /\ DOMAIN Deleted(mem, w) = DOMAIN mem \ {w.content}
           /\ \A n \in DOMAIN mem \ {w.content} : Deleted(mem, w)[n] = mem[n]
<1>1. /\ DOMAIN Deleted(mem, w) = DOMAIN mem \ {w.content}
      /\ \A n \in DOMAIN mem \ {w.content} : Deleted(mem, w)[n] = mem[n]
  BY DEF Deleted
<1>2. Deleted(mem, w) = [n \in DOMAIN Deleted(mem, w) |-> Deleted(mem, w)[n]]
  BY DEF Deleted
<1>3. IsFiniteSet(DOMAIN Deleted(mem, w))
  <2>1. IsFiniteSet(DOMAIN mem)
    BY DEF MemoryOK
  <2>2. IsFiniteSet(DOMAIN mem \ {w.content})
    BY <2>1, FS_RemoveElement
  <2> QED BY <1>1, <2>2
<1>4. \A n \in DOMAIN Deleted(mem, w) : Deleted(mem, w)[n] \in Seq(STRING) \ {<<>>}
  BY <1>1 DEF MemoryOK
<1>5. DOMAIN Deleted(mem, w) \subseteq Nat
  BY <1>1 DEF MemoryOK
<1> HIDE DEF Deleted
<1> QED BY <1>1, <1>2, <1>3, <1>4, <1>5 DEF MemoryOK

(* Reading a column into a word: it reads like the column, its old buffer   *)
(* is gone unless there was nothing to read, the other buffers stay.        *)
Rest(mem, w, src) == IF Shown(src) = <<>> THEN DOMAIN mem ELSE DOMAIN mem \ {w.content}

IsRead(mem, w, src, one) ==
    /\ MemoryOK(one.mem)
    /\ one.word \in Held(one.mem)
    /\ TextOf(one.mem, one.word) = Shown(src)
    /\ one.word = EmptyWord <=> Shown(src) = <<>>
    /\ one.word # EmptyWord => one.word.content \in Nat \ Rest(mem, w, src)
    /\ DOMAIN one.mem = Rest(mem, w, src) \cup ({one.word.content} \ {NULL})
    /\ \A n \in Rest(mem, w, src) : one.mem[n] = mem[n]

(* BASE_WORD::read_in makes one word of its own that shows the source, and  *)
(* spoils no other.                                                         *)
LEMMA ReadInOK ==
    ASSUME NEW mem, MemoryOK(mem), NEW w \in Held(mem), NEW src \in Columns
    PROVE  IsRead(mem, w, src, read_in(mem, w, src))
<1>1. CASE src = NULL \/ src = <<>>
  <2>1. read_in(mem, w, src) = [mem |-> mem, word |-> EmptyWord]
    BY <1>1 DEF read_in
  <2>2. Shown(src) = <<>>
    BY <1>1 DEF Shown
  <2>3. EmptyWord.content = NULL
    BY DEF EmptyWord
  <2>4. EmptyWord \in Held(mem)
    BY DEF Held
  <2>5. TextOf(mem, EmptyWord) = <<>>
    BY <2>4, HeldWord
  <2> DEFINE one == read_in(mem, w, src)
  <2>6. one.mem = mem /\ one.word = EmptyWord
    BY <2>1
  <2> HIDE DEF one
  <2>7. DOMAIN one.mem = DOMAIN mem \cup ({one.word.content} \ {NULL})
    BY <2>3, <2>6
  <2>8. /\ MemoryOK(one.mem)
        /\ one.word \in Held(one.mem)
        /\ TextOf(one.mem, one.word) = Shown(src)
    BY <2>2, <2>4, <2>5, <2>6
  <2>9. \A n \in DOMAIN mem : one.mem[n] = mem[n]
    BY <2>6
  <2> QED BY <2>2, <2>6, <2>7, <2>8, <2>9 DEF one, IsRead, Rest
<1>2. CASE ~ (src = NULL \/ src = <<>>)
  <2> DEFINE rest == Deleted(mem, w)
             made == Made(rest, src)
  <2>1. read_in(mem, w, src) = made
    BY <1>2 DEF read_in
  <2>2. Shown(src) = src /\ src \in Seq(STRING) \ {<<>>}
    BY <1>2 DEF Shown, Columns
  <2>3. /\ MemoryOK(rest)
        /\ DOMAIN rest = DOMAIN mem \ {w.content}
        /\ \A n \in DOMAIN mem \ {w.content} : rest[n] = mem[n]
    BY DeletedOK
  <2> HIDE DEF rest
  <2>4. /\ MemoryOK(made.mem)
        /\ made.word \in Held(made.mem)
        /\ made.word # EmptyWord
        /\ made.word.content \in Nat \ DOMAIN rest
        /\ DOMAIN made.mem = DOMAIN rest \cup {made.word.content}
        /\ \A n \in DOMAIN rest : made.mem[n] = rest[n]
        /\ made.mem[made.word.content] = src
    BY <2>2, <2>3, MadeOK
  <2> HIDE DEF made
  <2>5. TextOf(made.mem, made.word) = src
    BY <2>4, HeldWord
  <2>6. made.word.content # NULL
    BY <2>4, DbCellsAssumption
  <2> QED BY <2>1, <2>2, <2>3, <2>4, <2>5, <2>6 DEF IsRead, Rest
<1> QED BY <1>1, <1>2

(* A word that is assigned another one gets a copy of its text.             *)
LEMMA AssignedOK ==
    ASSUME NEW mem, MemoryOK(mem), NEW w \in Held(mem), NEW v \in Held(mem),
           v # EmptyWord, v.content # w.content
    PROVE  LET set  == Assigned(mem, w, v)
               rest == DOMAIN mem \ {w.content}
           IN  /\ MemoryOK(set.mem)
               /\ set.word \in Held(set.mem)
               /\ set.word # EmptyWord
               /\ TextOf(set.mem, set.word) = mem[v.content]
               /\ set.word.content \in Nat \ rest
               /\ DOMAIN set.mem = rest \cup {set.word.content}
               /\ \A n \in rest : set.mem[n] = mem[n]
<1> DEFINE rest == Deleted(mem, w)
           text == TextOf(rest, v)
           made == Made(rest, text)
<1>1. v.content \in DOMAIN mem /\ isempty(v) = 1
  BY HeldWord
<1>2. Assigned(mem, w, v) = made
  BY <1>1 DEF Assigned
<1>3. /\ MemoryOK(rest)
      /\ DOMAIN rest = DOMAIN mem \ {w.content}
      /\ \A n \in DOMAIN mem \ {w.content} : rest[n] = mem[n]
  BY DeletedOK
<1> HIDE DEF rest
<1>4. text = mem[v.content]
  <2>1. v \in Held(rest) /\ text = TextOf(mem, v)
    BY <1>1, <1>3, HeldStays
  <2> QED BY <2>1, HeldWord
<1>5. text \in Seq(STRING) \ {<<>>}
  BY <1>1, <1>4 DEF MemoryOK
<1> HIDE DEF text
<1>6. /\ MemoryOK(made.mem)
      /\ made.word \in Held(made.mem)
      /\ made.word # EmptyWord
      /\ made.word.content \in Nat \ DOMAIN rest
      /\ DOMAIN made.mem = DOMAIN rest \cup {made.word.content}
      /\ \A n \in DOMAIN rest : made.mem[n] = rest[n]
      /\ made.mem[made.word.content] = text
  BY <1>3, <1>5, MadeOK
<1> HIDE DEF made
<1>7. TextOf(made.mem, made.word) = text
  BY <1>6, HeldWord
<1> QED BY <1>2, <1>3, <1>4, <1>6, <1>7

-----------------------------------------------------------------------------
(* Rows.                                                                    *)

(* The first k cells of a row have been read in.                            *)
ReadSoFar(mem, r, k, read) ==
    /\ MemoryOK(read.mem)
    /\ read.row \in [1..Len(r) -> Held(read.mem)]
    /\ \A n \in 1..k : TextOf(read.mem, read.row[n]) = Shown(r[n])
    /\ \A n \in k + 1..Len(r) : read.row[n] = EmptyWord
    /\ CellsApart(read.row)
    /\ Contents(read.row) \cap DOMAIN mem = {}
    /\ DOMAIN read.mem = DOMAIN mem \cup Contents(read.row)
    /\ \A n \in DOMAIN mem : read.mem[n] = mem[n]

(* Reading one more cell of a row makes one more word of its own.           *)
LEMMA CellReadOK ==
    ASSUME NEW mem, MemoryOK(mem), NEW r \in Seq(Columns), NEW k \in 1..Len(r), NEW read,
           ReadSoFar(mem, r, k - 1, read)
    PROVE  ReadSoFar(mem, r, k, CellReadIn(read, r, k))
<1> DEFINE one == read_in(read.mem, EmptyWord, r[k])
           next == CellReadIn(read, r, k)
<1>1. r[k] \in Columns
  OBVIOUS
<1>2. EmptyWord \in Held(read.mem) /\ EmptyWord.content = NULL
  BY DEF Held, EmptyWord
<1>3. MemoryOK(read.mem) /\ NULL \notin DOMAIN read.mem
  BY DbCellsAssumption DEF ReadSoFar, MemoryOK
<1>4. /\ MemoryOK(one.mem)
      /\ one.word \in Held(one.mem)
      /\ TextOf(one.mem, one.word) = Shown(r[k])
      /\ one.word = EmptyWord \/ one.word.content \in Nat \ DOMAIN read.mem
      /\ DOMAIN one.mem = DOMAIN read.mem \cup ({one.word.content} \ {NULL})
      /\ \A n \in DOMAIN read.mem : one.mem[n] = read.mem[n]
  <2>1. Rest(read.mem, EmptyWord, r[k]) = DOMAIN read.mem
    BY <1>2, <1>3 DEF Rest
  <2>2. IsRead(read.mem, EmptyWord, r[k], one)
    BY <1>1, <1>2, <1>3, ReadInOK
  <2> HIDE DEF one
  <2> QED BY <2>1, <2>2 DEF IsRead
<1>5. next.mem = one.mem /\ next.row = [read.row EXCEPT ![k] = one.word]
  BY DEF CellReadIn
<1> HIDE DEF one, next
<1>6. DOMAIN read.row = 1..Len(r) /\ Len(r) \in Nat
  BY DEF ReadSoFar
<1>7. DOMAIN next.row = 1..Len(r) /\ next.row[k] = one.word
  BY <1>5, <1>6
<1>8. \A n \in 1..Len(r) : n # k => next.row[n] = read.row[n]
  BY <1>5, <1>6
<1>9. \A n \in 1..Len(r) : n # k =>
          next.row[n] \in Held(one.mem) /\ TextOf(one.mem, next.row[n]) = TextOf(read.mem, read.row[n])
  <2> SUFFICES ASSUME NEW n \in 1..Len(r), n # k
               PROVE  read.row[n] \in Held(one.mem)
                      /\ TextOf(one.mem, read.row[n]) = TextOf(read.mem, read.row[n])
    BY <1>8
  <2>1. read.row[n] \in Held(read.mem)
    BY DEF ReadSoFar
  <2>2. read.row[n] # EmptyWord => read.row[n].content \in DOMAIN read.mem
    BY <1>3, <2>1, HeldWord
  <2> QED BY <1>3, <1>4, <2>1, <2>2, HeldStays
<1>10. next.row \in [1..Len(r) -> Held(next.mem)]
  <2>1. \A n \in 1..Len(r) : next.row[n] \in Held(next.mem)
    BY <1>4, <1>5, <1>7, <1>9
  <2>2. next.row = [n \in 1..Len(r) |-> next.row[n]]
    BY <1>5, <1>6 DEF ReadSoFar
  <2> QED BY <2>1, <2>2
<1>11. \A n \in 1..k : TextOf(next.mem, next.row[n]) = Shown(r[n])
  BY <1>4, <1>5, <1>6, <1>7, <1>9 DEF ReadSoFar
<1>12. \A n \in k + 1..Len(r) : next.row[n] = EmptyWord
  BY <1>6, <1>8 DEF ReadSoFar
<1>13. Contents(next.row) = Contents(read.row) \cup ({one.word.content} \ {NULL})
  <2>1. read.row[k] = EmptyWord
    BY <1>6 DEF ReadSoFar
  <2> QED BY <1>2, <1>6, <1>7, <1>8, <2>1 DEF Contents
<1>14. one.word.content \notin DOMAIN read.mem
  BY <1>2, <1>3, <1>4
<1>15. CellsApart(next.row)
  <2> SUFFICES ASSUME NEW n \in 1..Len(r), NEW l \in 1..Len(r),
                      next.row[n].content = next.row[l].content, next.row[n].content # NULL,
                      n # l
               PROVE  FALSE
    BY <1>7 DEF CellsApart
  <2>1. CASE n # k /\ l # k
    BY <1>6, <1>8, <2>1 DEF ReadSoFar, CellsApart
  <2>2. \A m \in 1..Len(r) : m # k /\ next.row[m].content # NULL =>
                                next.row[m].content \in DOMAIN read.mem
    BY <1>6, <1>8 DEF ReadSoFar, Contents
  <2> QED BY <1>7, <1>14, <2>1, <2>2
<1>16. Contents(next.row) \cap DOMAIN mem = {}
  BY <1>13, <1>14 DEF ReadSoFar
<1>17. DOMAIN next.mem = DOMAIN mem \cup Contents(next.row)
  BY <1>4, <1>5, <1>13 DEF ReadSoFar
<1>18. \A n \in DOMAIN mem : next.mem[n] = mem[n]
  BY <1>4, <1>5 DEF ReadSoFar
<1> QED BY <1>4, <1>5, <1>10, <1>11, <1>12, <1>15, <1>16, <1>17, <1>18 DEF ReadSoFar, next

(* The reading of a row as the function of T_ROW's loop: it exists, and it  *)
(* leaves a row that reads like the columns, in buffers of its own.         *)
Fresh(mem, r) == [mem |-> mem, row |-> [n \in 1..Len(r) |-> EmptyWord]]

IsReading(f, mem, r, m) ==
    f = [k \in 0..m |-> IF k = 0 THEN Fresh(mem, r) ELSE CellReadIn(f[k - 1], r, k)]

(* The loop over the cells of a row ends, with one value for each number of *)
(* cells.                                                                   *)
LEMMA ReadingExists ==
    ASSUME NEW mem, NEW r \in Seq(Columns)
    PROVE  \E f : IsReading(f, mem, r, Len(r))
<1> DEFINE T == {m \in Nat : ~ \E f : IsReading(f, mem, r, m)}
<1>0. Len(r) \in Nat
  OBVIOUS
<1> SUFFICES ASSUME T # {} PROVE FALSE
  BY <1>0, Zenon
<1>1. PICK m \in T : \A n \in T : m <= n
  <2>1. T \in SUBSET Nat
    OBVIOUS
  <2> HIDE DEF T
  <2> QED BY <2>1, LeastNumber
<1>2. CASE m = 0
  <2> DEFINE f == [k \in 0..0 |-> Fresh(mem, r)]
  <2>1. f = [k \in 0..0 |-> IF k = 0 THEN Fresh(mem, r) ELSE CellReadIn(f[k - 1], r, k)]
    <3>1. \A k \in 0..0 : k = 0
      OBVIOUS
    <3> QED BY <3>1
  <2> HIDE DEF f
  <2> QED BY <1>2, <2>1 DEF IsReading
<1>3. CASE m # 0
  <2>1. m - 1 \in Nat /\ m - 1 \notin T /\ m \in Nat
    BY <1>1, <1>3
  <2>2. PICK f : IsReading(f, mem, r, m - 1)
    BY <2>1
  <2> DEFINE g == [k \in 0..m |-> IF k = m THEN CellReadIn(f[m - 1], r, m) ELSE f[k]]
             h == [k \in 0..m |-> IF k = 0 THEN Fresh(mem, r) ELSE CellReadIn(g[k - 1], r, k)]
  <2>3. ASSUME NEW k \in 0..m PROVE g[k] = h[k]
    <3>1. CASE k = m
      <4>1. g[m - 1] = f[m - 1]
        BY <2>1
      <4> QED BY <1>3, <3>1, <4>1
    <3>2. CASE k # m
      <4>1. k \in 0..m - 1
        BY <2>1, <3>2
      <4>2. f[k] = IF k = 0 THEN Fresh(mem, r) ELSE CellReadIn(f[k - 1], r, k)
        BY <2>2, <4>1 DEF IsReading
      <4>3. k # 0 => g[k - 1] = f[k - 1]
        BY <2>1, <4>1
      <4> QED BY <3>2, <4>2, <4>3
    <3> QED BY <3>1, <3>2
  <2>4. g = h
    <3>1. g = [k \in 0..m |-> g[k]] /\ h = [k \in 0..m |-> h[k]]
      OBVIOUS
    <3> HIDE DEF g, h
    <3> QED BY <2>3, <3>1
  <2>5. IsReading(g, mem, r, m)
    <3> HIDE DEF g
    <3> QED BY <2>4 DEF IsReading
  <2> QED BY <2>5
<1> QED BY <1>2, <1>3

(* Reading a row makes a word of its own for every cell.                    *)
LEMMA RowReadOK ==
    ASSUME NEW mem, MemoryOK(mem), NEW r \in Seq(Columns)
    PROVE  ReadSoFar(mem, r, Len(r), RowReadIn(mem, r))
<1> DEFINE f == CHOOSE read : IsReading(read, mem, r, Len(r))
<1>1. IsReading(f, mem, r, Len(r))
  BY ReadingExists
<1>2. RowReadIn(mem, r) = f[Len(r)]
  BY DEF RowReadIn, CellsRead, IsReading, Fresh
<1> HIDE DEF f
<1> DEFINE T == {m \in 0..Len(r) : ~ ReadSoFar(mem, r, m, f[m])}
<1> SUFFICES ASSUME T # {} PROVE FALSE
  BY <1>2
<1>3. PICK m \in T : \A n \in T : m <= n
  <2>1. T \in SUBSET Nat
    OBVIOUS
  <2> HIDE DEF T
  <2> QED BY <2>1, LeastNumber
<1>4. CASE m = 0
  <2>1. f[0] = Fresh(mem, r)
    BY <1>1 DEF IsReading
  <2> DEFINE row == [n \in 1..Len(r) |-> EmptyWord]
  <2>2. f[0].mem = mem /\ f[0].row = row
    BY <2>1 DEF Fresh
  <2>3. EmptyWord.content = NULL /\ EmptyWord \in Held(mem)
    BY DEF EmptyWord, Held
  <2>4. Contents(row) = {}
    BY <2>3 DEF Contents
  <2>5. CellsApart(row)
    BY <2>3 DEF CellsApart
  <2>6. row \in [1..Len(r) -> Held(mem)]
    BY <2>3
  <2>7. \A n \in 0 + 1..Len(r) : row[n] = EmptyWord
    OBVIOUS
  <2> HIDE DEF row
  <2>8. ReadSoFar(mem, r, 0, f[0])
    BY <2>2, <2>4, <2>5, <2>6, <2>7 DEF ReadSoFar
  <2> QED BY <1>3, <1>4, <2>8
<1>5. CASE m # 0
  <2>1. m \in 1..Len(r) /\ m - 1 \in 0..Len(r) /\ m - 1 \notin T
    BY <1>3, <1>5
  <2>2. ReadSoFar(mem, r, m - 1, f[m - 1])
    BY <2>1
  <2>3. f[m] = CellReadIn(f[m - 1], r, m)
    BY <1>1, <1>5, <2>1 DEF IsReading
  <2>4. ReadSoFar(mem, r, m, f[m])
    BY <2>1, <2>2, <2>3, CellReadOK
  <2> QED BY <1>3, <2>4
<1> QED BY <1>4, <1>5

(* The cells of a row are given back together.                              *)
LEMMA RowDeletedOK ==
    ASSUME NEW mem, MemoryOK(mem), NEW row
    PROVE  /\ MemoryOK(RowDeleted(mem, row))
           /\ DOMAIN RowDeleted(mem, row) = DOMAIN mem \ Contents(row)
           /\ \A n \in DOMAIN mem \ Contents(row) : RowDeleted(mem, row)[n] = mem[n]
<1> DEFINE gone == {row[k].content : k \in DOMAIN row}
           new == [n \in DOMAIN mem \ gone |-> mem[n]]
<1>1. RowDeleted(mem, row) = new
  BY DEF RowDeleted
<1>2. DOMAIN mem \ gone = DOMAIN mem \ Contents(row)
  BY DbCellsAssumption DEF MemoryOK, Contents
<1>3. IsFiniteSet(DOMAIN mem \ gone)
  BY FS_Subset DEF MemoryOK
<1> HIDE DEF gone
<1>4. MemoryOK(new)
  BY <1>3 DEF MemoryOK
<1> QED BY <1>1, <1>2, <1>4

-----------------------------------------------------------------------------
(* Steps.                                                                   *)

(* The invariant holds before anything is read.                             *)
LEMMA CellInitInv == CellInit => CellInv
<1> SUFFICES ASSUME CellInit PROVE CellInv
  OBVIOUS
<1>1. /\ memory = <<>> /\ cells = <<>> /\ heap = <<>>
      /\ word = EmptyWord /\ kept = <<>> /\ forgotten = {}
  BY DEF CellInit, Init
<1>2. DOMAIN memory = {} /\ DOMAIN cells = {} /\ DOMAIN heap = {}
  BY <1>1
<1>3. MemoryOK(memory)
  <2>1. memory = [n \in {} |-> memory[n]]
    BY <1>1
  <2> QED BY <1>2, <2>1, FS_EmptySet DEF MemoryOK
<1>4. word \in Held(memory)
  BY <1>1 DEF Held
<1>5. WordKeeps
  BY <1>1, <1>3, <1>4, HeldWord DEF WordKeeps
<1>6. CellContents = {} /\ word.content = NULL
  BY <1>1, <1>2 DEF CellContents, EmptyWord
<1>7. BuffersApart
  BY <1>1, <1>2, <1>6 DEF BuffersApart
<1> QED BY <1>2, <1>3, <1>4, <1>5, <1>7 DEF CellInv

(* What the cells have, in the invariant.                                   *)
LEMMA CellsInv ==
    ASSUME CellInv
    PROVE  /\ CellContents \subseteq DOMAIN memory
           /\ NULL \notin CellContents \cup forgotten \cup DOMAIN memory
           /\ \A a \in DOMAIN heap : \A k \in DOMAIN cells[a] :
                 cells[a][k] # EmptyWord => cells[a][k].content \in Contents(cells[a])
<1>1. CellContents \subseteq DOMAIN memory /\ forgotten \subseteq DOMAIN memory
  BY DEF CellInv, BuffersApart
<1>2. NULL \notin DOMAIN memory
  BY DbCellsAssumption DEF CellInv, MemoryOK
<1>3. ASSUME NEW a \in DOMAIN heap, NEW k \in DOMAIN cells[a], cells[a][k] # EmptyWord
      PROVE  cells[a][k].content \in Contents(cells[a])
  <2>1. cells[a][k] \in Held(memory) /\ MemoryOK(memory)
    BY DEF CellInv, RowHeld
  <2>2. cells[a][k].content # NULL
    BY <1>2, <1>3, <2>1, HeldWord
  <2> QED BY <2>2 DEF Contents
<1> QED BY <1>1, <1>2, <1>3

(* Rows keep their texts while the buffers of their cells stay.             *)
LEMMA RowStays ==
    ASSUME CellInv, NEW new, MemoryOK(new), NEW a \in DOMAIN heap,
           \A n \in Contents(cells[a]) : n \in DOMAIN new /\ new[n] = memory[n]
    PROVE  RowHeld(new, cells[a], heap[a].row)
<1> DEFINE r == heap[a].row
<1>1. RowHeld(memory, cells[a], r) /\ MemoryOK(memory)
  BY DEF CellInv
<1> HIDE DEF r
<1>2. DOMAIN cells[a] = 1..Len(r)
  BY <1>1 DEF RowHeld
<1>3. ASSUME NEW k \in 1..Len(r)
      PROVE  cells[a][k] \in Held(new) /\ TextOf(new, cells[a][k]) = Shown(r[k])
  <2>1. cells[a][k] \in Held(memory) /\ TextOf(memory, cells[a][k]) = Shown(r[k])
    BY <1>1 DEF RowHeld
  <2>2. cells[a][k] # EmptyWord => cells[a][k].content \in Contents(cells[a])
    BY <1>2, CellsInv
  <2> QED BY <1>1, <2>1, <2>2, HeldStays
<1>4. cells[a] = [k \in 1..Len(r) |-> cells[a][k]]
  BY <1>1 DEF RowHeld
<1>5. cells[a] \in [1..Len(r) -> Held(new)]
  BY <1>3, <1>4
<1> QED BY <1>3, <1>5 DEF RowHeld, r

(* A step of the word: the rows keep their buffers and texts.               *)
LEMMA WordStep ==
    ASSUME CellInv, cells' = cells, heap' = heap,
           MemoryOK(memory'), word' \in Held(memory'), WordKeeps',
           \A n \in CellContents : n \in DOMAIN memory' /\ memory'[n] = memory[n],
           word'.content \notin CellContents,
           forgotten' \cap (CellContents \cup {word'.content}) = {},
           DOMAIN memory' = CellContents \cup ({word'.content} \ {NULL}) \cup forgotten'
    PROVE  CellInv'
<1>1. ASSUME NEW a \in DOMAIN heap PROVE RowHeld(memory', cells[a], heap[a].row)
  <2>1. Contents(cells[a]) \subseteq CellContents
    BY DEF CellInv, CellContents
  <2> QED BY <2>1, RowStays
<1>2. CellContents' = CellContents
  BY DEF CellContents
<1>3. BuffersApart'
  BY <1>2 DEF CellInv, BuffersApart
<1> QED BY <1>1, <1>3 DEF CellInv

(* Restoring a word from a cell keeps it,                                   *)
LEMMA RestoreInv ==
    ASSUME TableInv, CellInv, NEW k \in CellIndices, RestoreWord(k)
    PROVE  CellInv'
<1> DEFINE r == heap[ret].row
           cell == CellOf(cells[ret], k)
           src == TextOf(memory, cell)
           read == read_in(memory, word, src)
<1>1. /\ memory' = read.mem /\ word' = read.word /\ cells' = cells
      /\ kept' = Shown(answer'[2][(k % Len(answer'[2])) + 1])
      /\ forgotten' = IF read.word = EmptyWord /\ isempty(word) = 1
                      THEN forgotten \cup {word.content} ELSE forgotten
  BY DEF RestoreWord
<1>2. /\ pc = "walk" /\ heap' = heap /\ answer' = <<index, r>>
  BY DEF RestoreWord, Answer
<1>3. kept' = Shown(r[(k % Len(r)) + 1])
  BY <1>1, <1>2
<1>4. ret \in DOMAIN heap
  BY <1>2, PointersFollow DEF NoDanglingPointer
<1>5. r \in Rows /\ r \in Seq(Columns) /\ Len(r) \in Nat /\ Len(r) > 0
  <2>1. r \in Rows
    BY <1>4 DEF TableInv, TypeOK, Nodes
  <2>2. r \in Seq(Columns) /\ r # <<>>
    BY <2>1, DbCellsAssumption DEF Columns
  <2> HIDE DEF r
  <2> QED BY <2>1, <2>2
<1>6. RowHeld(memory, cells[ret], r) /\ MemoryOK(memory) /\ word \in Held(memory)
  BY <1>4 DEF CellInv
<1> HIDE DEF r
<1>7. (k % Len(r)) + 1 \in 1..Len(r)
  BY <1>5, DbCellsAssumption
<1>8. cell = cells[ret][(k % Len(r)) + 1]
  <2>1. Len(cells[ret]) = Len(r)
    BY <1>5, <1>6 DEF RowHeld
  <2>2. k \in Int
    BY DbCellsAssumption
  <2> QED BY <1>5, <2>1, <2>2, NormalisedIsModulo DEF CellOf
<1> HIDE DEF cell
<1>9. cell \in Held(memory) /\ src = Shown(r[(k % Len(r)) + 1])
  BY <1>6, <1>7, <1>8 DEF RowHeld
<1>10. src = kept' /\ src \in Seq(STRING) /\ src # NULL
  <2> DEFINE column == r[(k % Len(r)) + 1]
  <2>1. column \in Columns
    BY <1>5, <1>7
  <2> HIDE DEF column
  <2>2. Shown(column) \in Seq(STRING)
    <3>1. <<>> \in Seq(STRING)
      OBVIOUS
    <3>2. column = NULL \/ column \in Seq(STRING)
      BY <2>1 DEF Columns
    <3> QED BY <3>1, <3>2, Zenon DEF Shown
  <2> QED BY <1>3, <1>9, <2>2, DbCellsAssumption DEF column
<1> HIDE DEF src
<1>11. Shown(src) = src /\ src \in Columns
  BY <1>10 DEF Shown, Columns
<1>12. IsRead(memory, word, src, read)
  BY <1>6, <1>11, ReadInOK
<1> HIDE DEF read
<1>13. /\ MemoryOK(memory') /\ word' \in Held(memory') /\ TextOf(memory', word') = src
       /\ word' = EmptyWord <=> src = <<>>
       /\ word' # EmptyWord => word'.content \in Nat \ Rest(memory, word, src)
       /\ DOMAIN memory' = Rest(memory, word, src) \cup ({word'.content} \ {NULL})
       /\ \A n \in Rest(memory, word, src) : memory'[n] = memory[n]
  BY <1>1, <1>11, <1>12 DEF IsRead
<1>14. WordKeeps'
  BY <1>10, <1>13 DEF WordKeeps
<1>15. /\ CellContents \subseteq DOMAIN memory
       /\ NULL \notin CellContents \cup forgotten \cup DOMAIN memory
       /\ word.content \notin CellContents
       /\ forgotten \cap (CellContents \cup {word.content}) = {}
       /\ DOMAIN memory = CellContents \cup ({word.content} \ {NULL}) \cup forgotten
  BY CellsInv DEF CellInv, BuffersApart
<1>16. CASE src = <<>>
  <2>1. Rest(memory, word, src) = DOMAIN memory
    BY <1>11, <1>16 DEF Rest
  <2>2. word' = EmptyWord /\ word'.content = NULL
    BY <1>13, <1>16 DEF EmptyWord
  <2>3. forgotten' = forgotten \cup ({word.content} \ {NULL})
    BY <1>1, <1>6, <2>2, <1>15, HeldWord
  <2>4. DOMAIN memory' = CellContents \cup ({word'.content} \ {NULL}) \cup forgotten'
    BY <1>13, <1>15, <2>1, <2>2, <2>3
  <2>5. forgotten' \cap (CellContents \cup {word'.content}) = {}
    BY <1>15, <2>2, <2>3
  <2>6. \A n \in CellContents : n \in DOMAIN memory' /\ memory'[n] = memory[n]
    BY <1>13, <1>15, <2>1
  <2> QED BY <1>1, <1>2, <1>13, <1>14, <1>15, <2>2, <2>4, <2>5, <2>6, WordStep
<1>17. CASE src # <<>>
  <2>1. Rest(memory, word, src) = CellContents \cup forgotten
    BY <1>11, <1>15, <1>17 DEF Rest
  <2>2. word' # EmptyWord /\ forgotten' = forgotten
    BY <1>1, <1>13, <1>17
  <2>3. word'.content \in Nat \ (CellContents \cup forgotten)
    BY <1>13, <2>1, <2>2
  <2>4. DOMAIN memory' = CellContents \cup ({word'.content} \ {NULL}) \cup forgotten'
    BY <1>13, <2>1, <2>2
  <2>5. forgotten' \cap (CellContents \cup {word'.content}) = {}
    BY <1>15, <2>2, <2>3
  <2>6. \A n \in CellContents : n \in DOMAIN memory' /\ memory'[n] = memory[n]
    BY <1>13, <2>1, <2>4
  <2> QED BY <1>1, <1>2, <1>13, <1>14, <2>3, <2>4, <2>5, <2>6, WordStep
<1> QED BY <1>16, <1>17

(* so does generating a word,                                               *)
LEMMA GenerateInv ==
    ASSUME CellInv, NEW text \in Texts, generate(text)
    PROVE  CellInv'
<1> DEFINE rest == Deleted(memory, word)
           made == Made(rest, text)
<1>1. /\ memory' = made.mem /\ word' = made.word /\ kept' = text
      /\ cells' = cells /\ heap' = heap /\ forgotten' = forgotten
  BY DEF generate, vars
<1>2. text \in Seq(STRING) \ {<<>>} /\ MemoryOK(memory)
  BY DbCellsAssumption DEF CellInv
<1>3. /\ MemoryOK(rest)
      /\ DOMAIN rest = DOMAIN memory \ {word.content}
      /\ \A n \in DOMAIN memory \ {word.content} : rest[n] = memory[n]
  BY <1>2, DeletedOK
<1> HIDE DEF rest
<1>4. /\ MemoryOK(made.mem)
      /\ made.word \in Held(made.mem)
      /\ made.word # EmptyWord
      /\ made.word.content \in Nat \ DOMAIN rest
      /\ DOMAIN made.mem = DOMAIN rest \cup {made.word.content}
      /\ \A n \in DOMAIN rest : made.mem[n] = rest[n]
      /\ made.mem[made.word.content] = text
  BY <1>2, <1>3, MadeOK
<1> HIDE DEF made
<1>5. WordKeeps'
  BY <1>1, <1>4, HeldWord DEF WordKeeps
<1>6. /\ NULL \notin CellContents \cup forgotten \cup DOMAIN memory
      /\ word.content \notin CellContents
      /\ forgotten \cap (CellContents \cup {word.content}) = {}
      /\ DOMAIN memory = CellContents \cup ({word.content} \ {NULL}) \cup forgotten
  BY CellsInv DEF CellInv, BuffersApart
<1>7. DOMAIN rest = CellContents \cup forgotten
  BY <1>3, <1>6
<1>8. word'.content \in Nat \ (CellContents \cup forgotten) /\ word'.content # NULL
  BY <1>1, <1>4, <1>7, DbCellsAssumption
<1>9. \A n \in CellContents : n \in DOMAIN memory' /\ memory'[n] = memory[n]
  BY <1>1, <1>3, <1>4, <1>7
<1>10. forgotten' \cap (CellContents \cup {word'.content}) = {}
  BY <1>1, <1>6, <1>8
<1>11. DOMAIN memory' = CellContents \cup ({word'.content} \ {NULL}) \cup forgotten'
  BY <1>1, <1>4, <1>7, <1>8
<1> QED BY <1>1, <1>4, <1>5, <1>8, <1>9, <1>10, <1>11, WordStep

(* so does assigning one,                                                   *)
LEMMA AssignInv ==
    ASSUME CellInv, NEW text \in Texts, AssignWord(text)
    PROVE  CellInv'
<1> DEFINE given == Made(memory, text)
           set == Assigned(given.mem, word, given.word)
<1>1. /\ memory' = Deleted(set.mem, given.word) /\ word' = set.word /\ kept' = text
      /\ cells' = cells /\ heap' = heap /\ forgotten' = forgotten
  BY DEF AssignWord, vars
<1>2. text \in Seq(STRING) \ {<<>>} /\ MemoryOK(memory) /\ word \in Held(memory)
  BY DbCellsAssumption DEF CellInv
<1>3. /\ MemoryOK(given.mem)
      /\ given.word \in Held(given.mem)
      /\ given.word # EmptyWord
      /\ given.word.content \in Nat \ DOMAIN memory
      /\ DOMAIN given.mem = DOMAIN memory \cup {given.word.content}
      /\ \A n \in DOMAIN memory : given.mem[n] = memory[n]
      /\ given.mem[given.word.content] = text
  BY <1>2, MadeOK
<1> HIDE DEF given
<1>4. word \in Held(given.mem) /\ given.word.content # word.content
  <2>1. word # EmptyWord => word.content \in DOMAIN memory
    BY <1>2, HeldWord
  <2>2. word = EmptyWord => word.content = NULL
    BY DEF EmptyWord
  <2>3. word \in Held(given.mem)
    BY <1>2, <1>3, <2>1, HeldStays
  <2> QED BY <1>3, <2>1, <2>2, <2>3, DbCellsAssumption
<1> DEFINE rest == DOMAIN given.mem \ {word.content}
<1>5. /\ MemoryOK(set.mem)
      /\ set.word \in Held(set.mem)
      /\ set.word # EmptyWord
      /\ TextOf(set.mem, set.word) = given.mem[given.word.content]
      /\ set.word.content \in Nat \ rest
      /\ DOMAIN set.mem = rest \cup {set.word.content}
      /\ \A n \in rest : set.mem[n] = given.mem[n]
  BY <1>3, <1>4, AssignedOK
<1> HIDE DEF set
<1>6. /\ MemoryOK(memory')
      /\ DOMAIN memory' = DOMAIN set.mem \ {given.word.content}
      /\ \A n \in DOMAIN set.mem \ {given.word.content} : memory'[n] = set.mem[n]
  <2> DEFINE left == Deleted(set.mem, given.word)
  <2>1. /\ MemoryOK(left)
        /\ DOMAIN left = DOMAIN set.mem \ {given.word.content}
        /\ \A n \in DOMAIN set.mem \ {given.word.content} : left[n] = set.mem[n]
    <3>1. MemoryOK(set.mem)
      BY <1>5
    <3> QED BY <3>1, DeletedOK
  <2>2. memory' = left
    BY <1>1
  <2> HIDE DEF left
  <2> QED BY <2>1, <2>2
<1>7. set.word.content # given.word.content /\ given.word.content \in rest
  BY <1>3, <1>4, <1>5
<1>8. word' \in Held(memory') /\ WordKeeps'
  <2>1. word'.content \in DOMAIN memory' /\ memory'[word'.content] = set.mem[word'.content]
    BY <1>1, <1>5, <1>6, <1>7
  <2>2. word' \in Held(memory') /\ TextOf(memory', word') = TextOf(set.mem, word')
    BY <1>1, <1>5, <1>6, <2>1, HeldStays
  <2> QED BY <1>1, <1>3, <1>5, <2>2 DEF WordKeeps
<1>9. /\ NULL \notin CellContents \cup forgotten \cup DOMAIN memory
      /\ word.content \notin CellContents
      /\ forgotten \cap (CellContents \cup {word.content}) = {}
      /\ DOMAIN memory = CellContents \cup ({word.content} \ {NULL}) \cup forgotten
  BY CellsInv DEF CellInv, BuffersApart
<1>10. rest \ {given.word.content} = CellContents \cup forgotten
  BY <1>3, <1>9
<1>11. word'.content \in Nat \ (CellContents \cup forgotten) /\ word'.content # NULL
  BY <1>1, <1>5, <1>10, DbCellsAssumption
<1>12. \A n \in CellContents : n \in DOMAIN memory' /\ memory'[n] = memory[n]
  <2> SUFFICES ASSUME NEW n \in CellContents
               PROVE  n \in DOMAIN memory' /\ memory'[n] = memory[n]
    OBVIOUS
  <2>1. n \in rest /\ n # given.word.content /\ n \in DOMAIN memory
    BY <1>9, <1>10
  <2> QED BY <1>3, <1>5, <1>6, <2>1
<1>13. forgotten' \cap (CellContents \cup {word'.content}) = {}
  BY <1>1, <1>9, <1>11
<1>14. DOMAIN memory' = CellContents \cup ({word'.content} \ {NULL}) \cup forgotten'
  BY <1>1, <1>5, <1>6, <1>7, <1>10, <1>11
<1> QED BY <1>1, <1>6, <1>8, <1>11, <1>12, <1>13, <1>14, WordStep

(* so does destroying the word,                                             *)
LEMMA DestroyInv == ASSUME CellInv, DestroyWord PROVE CellInv'
<1>1. /\ memory' = Deleted(memory, word) /\ word' = EmptyWord /\ kept' = <<>>
      /\ cells' = cells /\ heap' = heap /\ forgotten' = forgotten
  BY DEF DestroyWord, vars
<1>2. /\ MemoryOK(memory')
      /\ DOMAIN memory' = DOMAIN memory \ {word.content}
      /\ \A n \in DOMAIN memory \ {word.content} : memory'[n] = memory[n]
  BY <1>1, DeletedOK DEF CellInv
<1>3. word' \in Held(memory') /\ word'.content = NULL
  BY <1>1 DEF Held, EmptyWord
<1>4. WordKeeps'
  BY <1>1, <1>2, <1>3, HeldWord DEF WordKeeps
<1>5. /\ NULL \notin CellContents \cup forgotten \cup DOMAIN memory
      /\ word.content \notin CellContents
      /\ forgotten \cap (CellContents \cup {word.content}) = {}
      /\ DOMAIN memory = CellContents \cup ({word.content} \ {NULL}) \cup forgotten
  BY CellsInv DEF CellInv, BuffersApart
<1>6. DOMAIN memory' = CellContents \cup ({word'.content} \ {NULL}) \cup forgotten'
  BY <1>1, <1>2, <1>3, <1>5
<1>7. forgotten' \cap (CellContents \cup {word'.content}) = {}
  BY <1>1, <1>3, <1>5
<1>8. \A n \in CellContents : n \in DOMAIN memory' /\ memory'[n] = memory[n]
  BY <1>2, <1>5
<1> QED BY <1>1, <1>2, <1>3, <1>4, <1>5, <1>6, <1>7, <1>8, WordStep

(* A row's node goes with the buffers of its cells.                         *)
LEMMA FreeRowInv == ASSUME TableInv, CellInv, FreeRow PROVE CellInv'
<1> DEFINE node == Last(stack)
<1>1. /\ heap' = [a \in DOMAIN heap \ {node} |-> heap[a]]
      /\ memory' = RowDeleted(memory, cells[node])
      /\ cells' = [a \in DOMAIN heap' |-> cells[a]]
      /\ word' = word /\ kept' = kept /\ forgotten' = forgotten
  BY DEF FreeRow, Free
<1>2. node \in DOMAIN heap
  <2>1. stack \in Seq(Addresses) /\ stack # <<>>
    BY DEF FreeRow, Free, TableInv, TypeOK
  <2>2. Len(stack) \in DOMAIN stack /\ node = stack[Len(stack)]
    BY <2>1 DEF Last
  <2> QED BY <2>2, PointersFollow DEF NoDanglingPointer
<1> HIDE DEF node
<1>3. DOMAIN heap' = DOMAIN heap \ {node} /\ DOMAIN cells = DOMAIN heap
      /\ DOMAIN cells' = DOMAIN heap'
  BY <1>1 DEF CellInv
<1>4. \A a \in DOMAIN heap' : heap'[a] = heap[a] /\ cells'[a] = cells[a]
  BY <1>1, <1>3
<1> DEFINE gone == Contents(cells[node])
<1>5. /\ MemoryOK(memory')
      /\ DOMAIN memory' = DOMAIN memory \ gone
      /\ \A n \in DOMAIN memory \ gone : memory'[n] = memory[n]
  BY <1>1, RowDeletedOK DEF CellInv
<1> HIDE DEF gone
<1>6. /\ CellContents \subseteq DOMAIN memory
      /\ NULL \notin CellContents \cup forgotten \cup DOMAIN memory
  BY CellsInv
<1>7. gone \subseteq CellContents
  BY <1>2, <1>3 DEF gone, CellContents
<1>8. ASSUME NEW a \in DOMAIN heap'
      PROVE  Contents(cells[a]) \subseteq DOMAIN memory \ gone
  <2>1. a \in DOMAIN cells /\ node \in DOMAIN cells /\ a # node
    BY <1>2, <1>3
  <2>2. Contents(cells[a]) \cap gone = {}
    BY <2>1 DEF gone, CellInv, BuffersApart
  <2>3. Contents(cells[a]) \subseteq CellContents
    BY <2>1 DEF CellContents
  <2> QED BY <1>6, <2>2, <2>3
<1>9. ASSUME NEW a \in DOMAIN heap' PROVE RowHeld(memory', cells'[a], heap'[a].row)
  <2>1. a \in DOMAIN heap
    BY <1>3
  <2>2. \A n \in Contents(cells[a]) : n \in DOMAIN memory' /\ memory'[n] = memory[n]
    BY <1>5, <1>8
  <2>3. RowHeld(memory', cells[a], heap[a].row)
    BY <1>5, <2>1, <2>2, RowStays
  <2> QED BY <1>4, <2>3
<1>10. CellContents' = CellContents \ gone
  <2>1. \A x : x \in CellContents' <=> \E a \in DOMAIN heap' : x \in Contents(cells[a])
    <3>1. CellContents' = UNION {Contents(cells[a]) : a \in DOMAIN heap'}
      BY <1>3, <1>4 DEF CellContents, Contents
    <3> QED BY <3>1
  <2>2. \A x : x \in CellContents <=> \E a \in DOMAIN heap : x \in Contents(cells[a])
    BY <1>3 DEF CellContents
  <2>3. \A x : x \in gone <=> x \in Contents(cells[node])
    BY DEF gone
  <2>4. \A a \in DOMAIN heap' : \A x \in Contents(cells[a]) : x \notin gone
    BY <1>8
  <2>5. \A x : x \in CellContents' <=> x \in CellContents /\ x \notin gone
    BY <1>2, <1>3, <2>1, <2>2, <2>3, <2>4
  <2> QED BY <2>5
<1>11. word' \in Held(memory') /\ WordKeeps'
  <2>1. word \in Held(memory) /\ MemoryOK(memory) /\ TextOf(memory, word) = kept
    BY DEF CellInv, WordKeeps
  <2>2. word.content \notin CellContents
    BY DEF CellInv, BuffersApart
  <2>3. word # EmptyWord => word.content \in DOMAIN memory \ gone
    BY <1>7, <2>1, <2>2, HeldWord
  <2>4. word \in Held(memory') /\ TextOf(memory', word) = kept
    BY <1>5, <2>1, <2>3, HeldStays
  <2> QED BY <1>1, <2>4 DEF WordKeeps
<1>12. BuffersApart'
  <2>1. \A a \in DOMAIN cells' : CellsApart(cells'[a])
    BY <1>3, <1>4 DEF CellInv, BuffersApart
  <2>2. \A a, b \in DOMAIN cells' : Contents(cells'[a]) \cap Contents(cells'[b]) # {} => a = b
    BY <1>3, <1>4 DEF CellInv, BuffersApart
  <2>3. /\ word'.content \notin CellContents'
        /\ forgotten' \cap (CellContents' \cup {word'.content}) = {}
        /\ DOMAIN memory' = CellContents' \cup ({word'.content} \ {NULL}) \cup forgotten'
    BY <1>1, <1>5, <1>7, <1>10 DEF CellInv, BuffersApart
  <2> QED BY <2>1, <2>2, <2>3 DEF BuffersApart
<1> QED BY <1>3, <1>5, <1>9, <1>11, <1>12 DEF CellInv

(* A new row brings buffers of its own.                                     *)
LEMMA AppendRowInv ==
    ASSUME TableInv, CellInv, NEW r \in Rows, AppendRow(r)
    PROVE  CellInv'
<1> DEFINE read == RowReadIn(memory, r)
<1>1. PICK node \in Addresses \ DOMAIN heap :
          heap' = [a \in DOMAIN heap \cup {node} |->
                      IF a = node THEN [row |-> r, next |-> rows] ELSE heap[a]]
  BY DEF AppendRow, append
<1>2. /\ memory' = read.mem
      /\ cells' = [a \in DOMAIN heap' |-> IF a \in DOMAIN heap THEN cells[a] ELSE read.row]
      /\ word' = word /\ kept' = kept /\ forgotten' = forgotten
  BY DEF AppendRow
<1>3. r \in Seq(Columns)
  BY DbCellsAssumption DEF Columns
<1>4. ReadSoFar(memory, r, Len(r), read)
  BY <1>3, RowReadOK DEF CellInv
<1> HIDE DEF read
<1>5. /\ MemoryOK(memory')
      /\ read.row \in [1..Len(r) -> Held(memory')]
      /\ \A n \in 1..Len(r) : TextOf(memory', read.row[n]) = Shown(r[n])
      /\ CellsApart(read.row)
      /\ Contents(read.row) \cap DOMAIN memory = {}
      /\ DOMAIN memory' = DOMAIN memory \cup Contents(read.row)
      /\ \A n \in DOMAIN memory : memory'[n] = memory[n]
  BY <1>2, <1>4 DEF ReadSoFar
<1>6. /\ DOMAIN heap' = DOMAIN heap \cup {node} /\ node \notin DOMAIN heap
      /\ DOMAIN cells = DOMAIN heap /\ DOMAIN cells' = DOMAIN heap'
      /\ heap'[node].row = r /\ cells'[node] = read.row
  BY <1>1, <1>2 DEF CellInv
<1>7. \A a \in DOMAIN heap : heap'[a] = heap[a] /\ cells'[a] = cells[a]
  BY <1>1, <1>2
<1>8. CellContents \subseteq DOMAIN memory
  BY CellsInv
<1>9. ASSUME NEW a \in DOMAIN heap' PROVE RowHeld(memory', cells'[a], heap'[a].row)
  <2>1. CASE a = node
    BY <1>5, <1>6, <2>1 DEF RowHeld
  <2>2. CASE a \in DOMAIN heap
    <3>1. Contents(cells[a]) \subseteq DOMAIN memory
      BY <1>6, <1>8, <2>2 DEF CellContents
    <3>2. \A n \in Contents(cells[a]) : n \in DOMAIN memory' /\ memory'[n] = memory[n]
      BY <1>5, <3>1
    <3>3. RowHeld(memory', cells[a], heap[a].row)
      BY <1>5, <2>2, <3>2, RowStays
    <3> QED BY <1>7, <2>2, <3>3
  <2> QED BY <1>6, <2>1, <2>2
<1>10. CellContents' = CellContents \cup Contents(read.row)
  <2>1. CellContents' = UNION {Contents(cells'[a]) : a \in DOMAIN heap \cup {node}}
    BY <1>6 DEF CellContents, Contents
  <2>2. \A a \in DOMAIN heap : Contents(cells'[a]) = Contents(cells[a])
    BY <1>7
  <2>3. Contents(cells'[node]) = Contents(read.row)
    BY <1>6
  <2> QED BY <1>6, <2>1, <2>2, <2>3 DEF CellContents
<1>11. word' \in Held(memory') /\ WordKeeps'
  <2>1. word \in Held(memory) /\ MemoryOK(memory) /\ TextOf(memory, word) = kept
    BY DEF CellInv, WordKeeps
  <2>2. word # EmptyWord => word.content \in DOMAIN memory
    BY <2>1, HeldWord
  <2>3. word \in Held(memory') /\ TextOf(memory', word) = kept
    BY <1>5, <2>1, <2>2, HeldStays
  <2> QED BY <1>2, <2>3 DEF WordKeeps
<1>12. BuffersApart'
  <2>1. \A a \in DOMAIN cells' : CellsApart(cells'[a])
    BY <1>5, <1>6, <1>7 DEF CellInv, BuffersApart
  <2>2. ASSUME NEW a \in DOMAIN cells', NEW b \in DOMAIN cells',
               Contents(cells'[a]) \cap Contents(cells'[b]) # {}
        PROVE  a = b
    <3>1. \A c \in DOMAIN heap : /\ Contents(cells'[c]) = Contents(cells[c])
                                 /\ Contents(cells[c]) \subseteq DOMAIN memory
      BY <1>6, <1>7, <1>8 DEF CellContents
    <3>2. Contents(cells'[node]) = Contents(read.row)
      BY <1>6
    <3>3. CASE a \in DOMAIN heap /\ b \in DOMAIN heap
      BY <1>6, <2>2, <3>1, <3>3 DEF CellInv, BuffersApart
    <3> QED BY <1>5, <1>6, <2>2, <3>1, <3>2, <3>3
  <2>3. /\ word.content \notin CellContents
        /\ NULL \notin DOMAIN memory
        /\ forgotten \cap (CellContents \cup {word.content}) = {}
        /\ DOMAIN memory = CellContents \cup ({word.content} \ {NULL}) \cup forgotten
    BY CellsInv DEF CellInv, BuffersApart
  <2>4. NULL \notin Contents(read.row)
    BY DEF Contents
  <2>5. /\ word'.content \notin CellContents'
        /\ forgotten' \cap (CellContents' \cup {word'.content}) = {}
        /\ DOMAIN memory' = CellContents' \cup ({word'.content} \ {NULL}) \cup forgotten'
    BY <1>2, <1>5, <1>10, <2>3, <2>4
  <2> QED BY <2>1, <2>2, <2>5 DEF BuffersApart
<1> QED BY <1>5, <1>6, <1>9, <1>11, <1>12 DEF CellInv

-----------------------------------------------------------------------------
(* Every step is one of the table's or leaves it alone.                     *)
LEMMA CellStepIsTableStep == [CellNext]_allVars => [Next]_vars
<1> SUFFICES ASSUME [CellNext]_allVars PROVE [Next]_vars
  OBVIOUS
<1>1. ASSUME NEW r \in Rows, AppendRow(r) PROVE Next
  BY <1>1 DEF AppendRow, Next
<1>2. ASSUME NEW k \in CellIndices, RestoreWord(k) PROVE Next
  BY <1>2 DEF RestoreWord, Next
<1>3. CASE FreeRow
  BY <1>3 DEF FreeRow, Next
<1>4. ASSUME NEW text \in Texts, AssignWord(text) \/ generate(text) PROVE UNCHANGED vars
  BY <1>4 DEF AssignWord, generate
<1>5. CASE DestroyWord
  BY <1>5 DEF DestroyWord
<1>6. CASE (\E a \in Indices : Ask(a)) \/ Walk \/ Answer \/ Clear \/ Delete \/ Cleared
  BY <1>6 DEF Next
<1>7. CASE UNCHANGED allVars
  BY <1>7 DEF allVars
<1> QED BY <1>1, <1>2, <1>3, <1>4, <1>5, <1>6, <1>7 DEF CellNext

(* and so does every step.                                                  *)
LEMMA CellStepInv == TableInv /\ CellInv /\ [CellNext]_allVars => CellInv'
<1> SUFFICES ASSUME TableInv, CellInv, [CellNext]_allVars PROVE CellInv'
  OBVIOUS
<1>1. ASSUME UNCHANGED <<heap, cellVars>> PROVE CellInv'
  BY <1>1 DEF cellVars, CellInv, WordKeeps, BuffersApart, CellContents
<1>3. CASE UNCHANGED allVars
  BY <1>1, <1>3 DEF allVars, vars
<1>4. CASE /\ (\E a \in Indices : Ask(a)) \/ Walk \/ Answer \/ Clear \/ Delete \/ Cleared
           /\ UNCHANGED cellVars
  <2>1. heap' = heap
    BY <1>4 DEF Ask, Walk, Answer, Clear, Delete, Cleared
  <2> QED BY <1>1, <1>4, <2>1
<1> QED BY <1>3, <1>4, AppendRowInv, RestoreInv, FreeRowInv, AssignInv, GenerateInv, DestroyInv
        DEF CellNext

(***************************************************************************)
(* The theorems.                                                           *)
(***************************************************************************)

(* Rows with their cells are rows: whatever DbTable promises of its table,  *)
(* DbCells promises of the table whose memory it keeps.                     *)
THEOREM CellsAreRows == CellSpec => Spec
<1>1. CellInit => Init
  BY DEF CellInit
<1> QED BY <1>1, CellStepIsTableStep, PTL DEF CellSpec, Spec

(* The inductive invariant of the buffers holds after any number of rows    *)
(* appended, read, and destroyed, and of words set, read in and destroyed.  *)
THEOREM CellInvHolds == CellSpec => []CellInv
<1>1. CellSpec => []TableInv
  BY CellsAreRows, TableInvHolds
<1> QED BY <1>1, CellInitInv, CellStepInv, PTL DEF CellSpec

(* A word or a cell has a buffer of its own, whatever order the rows, the   *)
(* words and the destructors come in: no double delete[] and no leak but    *)
(* that of read_in of nothing.                                              *)
THEOREM MemoryOwnedHolds == CellSpec => []MemoryOwned
<1>1. CellInv => MemoryOwned
  <2> SUFFICES ASSUME CellInv PROVE MemoryOwned
    OBVIOUS
  <2>1. /\ \A a \in DOMAIN cells : CellsApart(cells[a])
        /\ \A a, b \in DOMAIN cells : Contents(cells[a]) \cap Contents(cells[b]) # {} => a = b
        /\ word.content \notin CellContents
        /\ forgotten \cap (CellContents \cup {word.content}) = {}
        /\ DOMAIN memory = CellContents \cup ({word.content} \ {NULL}) \cup forgotten
        /\ NULL \notin CellContents \cup forgotten
    BY CellsInv DEF CellInv, BuffersApart
  <2>2. /\ ContentOf(TheWord) = word.content /\ TheWord \in Objects
        /\ \A o \in Objects : \/ o = TheWord
                              \/ \E a \in DOMAIN cells : \E k \in DOMAIN cells[a] : o = <<a, k>>
        /\ \A a \in DOMAIN cells : \A k \in DOMAIN cells[a] :
              <<a, k>> \in Objects /\ ContentOf(<<a, k>>) = cells[a][k].content
    BY DEF ContentOf, TheWord, Objects
  <2>3. \A a \in DOMAIN cells : \A k \in DOMAIN cells[a] :
            cells[a][k].content # NULL =>
                cells[a][k].content \in Contents(cells[a]) /\ cells[a][k].content \in CellContents
    BY DEF Contents, CellContents
  <2>4. ASSUME NEW o \in Objects, NEW p \in Objects, ContentOf(o) = ContentOf(p),
               ContentOf(o) # NULL
        PROVE  o = p
    <3>1. CASE o = TheWord /\ p = TheWord
      BY <3>1
    <3>2. CASE o # TheWord /\ p # TheWord
      <4>1. PICK a \in DOMAIN cells : \E k \in DOMAIN cells[a] : o = <<a, k>>
        BY <2>2, <3>2
      <4>2. PICK k \in DOMAIN cells[a] : o = <<a, k>>
        BY <4>1
      <4>3. PICK b \in DOMAIN cells : \E l \in DOMAIN cells[b] : p = <<b, l>>
        BY <2>2, <3>2
      <4>4. PICK l \in DOMAIN cells[b] : p = <<b, l>>
        BY <4>3
      <4>5. cells[a][k].content = cells[b][l].content /\ cells[a][k].content # NULL
        BY <2>2, <2>4, <4>2, <4>4
      <4>6. a = b
        BY <2>1, <2>3, <4>5
      <4>7. k = l
        BY <2>1, <4>5, <4>6 DEF CellsApart
      <4> QED BY <4>2, <4>4, <4>6, <4>7
    <3>3. ASSUME NEW q \in Objects, q # TheWord, ContentOf(q) # NULL
          PROVE  ContentOf(q) # word.content
      BY <2>1, <2>2, <2>3, <3>3
    <3> QED BY <2>2, <2>4, <3>1, <3>2, <3>3
  <2>5. \A x : x \in {ContentOf(o) : o \in Objects} \ {NULL}
                <=> x \in CellContents \cup ({word.content} \ {NULL})
    <3>1. ASSUME NEW o \in Objects, ContentOf(o) # NULL
          PROVE  ContentOf(o) \in CellContents \cup {word.content}
      BY <2>2, <2>3, <3>1
    <3>2. ASSUME NEW x \in CellContents PROVE \E o \in Objects : ContentOf(o) = x
      <4>1. PICK a \in DOMAIN cells : x \in Contents(cells[a])
        BY <3>2 DEF CellContents
      <4>2. PICK k \in DOMAIN cells[a] : x = cells[a][k].content
        BY <4>1 DEF Contents
      <4> QED BY <2>2, <4>1, <4>2
    <3>3. \E o \in Objects : ContentOf(o) = word.content
      BY <2>2
    <3>4. {ContentOf(o) : o \in Objects} \ {NULL} \subseteq CellContents \cup ({word.content} \ {NULL})
      BY <3>1
    <3>5. CellContents \cup ({word.content} \ {NULL}) \subseteq {ContentOf(o) : o \in Objects} \ {NULL}
      BY <2>1, <3>2, <3>3
    <3> QED BY <3>4, <3>5
  <2>6. DOMAIN memory = ({ContentOf(o) : o \in Objects} \ {NULL}) \cup forgotten
    <3> DEFINE owned == {ContentOf(o) : o \in Objects} \ {NULL}
    <3>1. owned = CellContents \cup ({word.content} \ {NULL})
      BY <2>5
    <3> HIDE DEF owned
    <3>2. DOMAIN memory = owned \cup forgotten
      BY <2>1, <3>1
    <3> QED BY <3>2 DEF owned
  <2>7. \A o \in Objects : ContentOf(o) \notin forgotten
    BY <2>1, <2>2, <2>3
  <2> QED BY <2>4, <2>6, <2>7 DEF MemoryOwned
<1> QED BY <1>1, CellInvHolds, PTL

(* The cells of every row still read as the columns the server sent, for    *)
(* tables and rows of any size and texts of any length.                     *)
THEOREM CellsHoldRowsHolds == CellSpec => []CellsHoldRows
<1>1. TableInv /\ CellInv => CellsHoldRows
  <2> SUFFICES ASSUME TableInv, CellInv, NEW a \in DOMAIN heap
               PROVE  /\ Len(cells[a]) = Len(heap[a].row)
                      /\ \A k \in DOMAIN heap[a].row :
                             TextOf(memory, cells[a][k]) = Shown(heap[a].row[k])
    BY DEF CellsHoldRows
  <2>1. heap[a].row \in Seq(Columns)
    BY DbCellsAssumption DEF TableInv, TypeOK, Nodes, Columns
  <2>2. RowHeld(memory, cells[a], heap[a].row)
    BY DEF CellInv
  <2> QED BY <2>1, <2>2 DEF RowHeld
<1>2. CellSpec => []TableInv
  BY CellsAreRows, TableInvHolds
<1> QED BY <1>1, <1>2, CellInvHolds, PTL

(* A digest or a key still reads as what it was set to, after the row it    *)
(* came from is gone and its memory used again.                             *)
THEOREM WordKeepsHolds == CellSpec => []WordKeeps
<1>1. CellInv => WordKeeps
  BY DEF CellInv
<1> QED BY <1>1, CellInvHolds, PTL
=============================================================================
