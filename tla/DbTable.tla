------------------------------ MODULE DbTable ------------------------------
(***************************************************************************)
(* _TABLE (DBTable.cpp), the result of a query: a linked list of row nodes *)
(* with the last row at its head, filled by MY_QUERY::exec_query_mysql as  *)
(* the rows arrive.  operator[] walks down from the head in a loop; clear  *)
(* and the destructor delete the head, whose destructor deletes the next   *)
(* node before its own memory is given back: a recursion as deep as the    *)
(* table is long.  Both are modelled step by step; nothing else runs       *)
(* meanwhile.                                                              *)
(***************************************************************************)
EXTENDS Integers, Sequences, FiniteSets, SequencesExt

CONSTANTS
    Rows,       \* what a row may hold
    Indices,    \* the indices rows are asked for with
    Addresses,  \* where nodes can be allocated
    NULL,       \* no node
    NoAnswer    \* nothing was asked yet

ASSUME DbTableAssumption ==
    /\ Indices \subseteq Int
    /\ NULL \notin Addresses

VARIABLES
    heap,   \* the allocated nodes
    rows,   \* the head of the list
    size,   \* the number of rows
    pc,     \* "idle", "walk" in operator[], "delete" and "free" in clear
    index,  \* the index asked for
    i, j,   \* the local variables of operator[]
    ret,    \* the node operator[] has reached
    stack,  \* the destructors of nodes that run, each called by the one before
    answer, \* the last index asked for and the row it gave
    order   \* the nodes in the order of their appending; read by no action

walkVars == <<index, i, j, ret>>
vars == <<heap, rows, size, pc, walkVars, stack, answer, order>>

Nodes == [row : Rows, next : Addresses \cup {NULL}]

(* The remainder of C, which has the sign of its dividend.                  *)
Rem(a, n) == IF a >= 0 THEN a % n ELSE -((-a) % n)

(* Variant: the remainder of C taken for an index as it is.                 *)
NormalisedOnce(a, n) == Rem(a, n)

(* Variant: an index counts from the end when it is negative.               *)
NormalisedFromEnd(a, n) == IF a < 0 THEN a + n ELSE a

(* Variant: the sign is dropped.                                            *)
NormalisedUnsigned(a, n) == IF a < 0 THEN Rem(-a, n) ELSE Rem(a, n)

(* i = ((i % size) + size) % size;                                          *)
Normalised(a, n) == Rem(Rem(a, n) + n, n)

Init ==
    /\ heap = <<>>
    /\ rows = NULL
    /\ size = 0
    /\ pc = "idle"
    /\ index = 0 /\ i = 0 /\ j = 0 /\ ret = NULL
    /\ stack = <<>>
    /\ answer = NoAnswer
    /\ order = <<>>

(* A node is made and becomes the head; whatever read_in returns, append    *)
(* succeeds.                                                                *)
append(r) ==
    /\ pc = "idle"
    /\ \E node \in Addresses \ DOMAIN heap :
          /\ heap' = [a \in DOMAIN heap \cup {node} |->
                 IF a = node THEN [row |-> r, next |-> rows] ELSE heap[a]]
          /\ rows' = node
          /\ order' = Append(order, node)
    /\ size' = size + 1
    /\ UNCHANGED <<pc, walkVars, stack, answer>>

(* operator[]: its callers have looked at the size, which divides.          *)
Ask(a) ==
    /\ pc = "idle"
    /\ size # 0
    /\ index' = a
    /\ i' = size - 1 - Normalised(a, size)
    /\ j' = 0
    /\ ret' = rows
    /\ pc' = "walk"
    /\ UNCHANGED <<heap, rows, size, stack, answer, order>>

Walk ==
    /\ pc = "walk"
    /\ j < i
    /\ ret' = heap[ret].next
    /\ j' = j + 1
    /\ UNCHANGED <<heap, rows, size, pc, index, i, stack, answer, order>>

Answer ==
    /\ pc = "walk"
    /\ ~(j < i)
    /\ answer' = <<index, heap[ret].row>>
    /\ pc' = "idle"
    /\ index' = 0 /\ i' = 0 /\ j' = 0 /\ ret' = NULL
    /\ UNCHANGED <<heap, rows, size, stack, order>>

(* clear; a table without rows has nothing to delete.                       *)
Clear ==
    /\ pc = "idle"
    /\ size' = 0
    /\ IF rows # NULL
       THEN pc' = "delete" /\ stack' = <<rows>>
       ELSE UNCHANGED <<pc, stack>>
    /\ UNCHANGED <<heap, rows, walkVars, answer, order>>

(* Variant: the destructor of a node does not delete the next one.          *)
NothingFollows(node) == NULL

Follows(node) == heap[node].next

(* ~ROW_NODE deletes the next node, if there is one ...                     *)
Delete ==
    /\ pc = "delete"
    /\ LET next == Follows(Last(stack))
       IN  IF next # NULL
           THEN stack' = Append(stack, next) /\ UNCHANGED pc
           ELSE pc' = "free" /\ UNCHANGED stack
    /\ UNCHANGED <<heap, rows, size, walkVars, answer, order>>

(* ... and when it returns, its node's memory is given back.                *)
Free ==
    /\ pc = "free"
    /\ stack # <<>>
    /\ heap' = [a \in DOMAIN heap \ {Last(stack)} |-> heap[a]]
    /\ stack' = Front(stack)
    /\ UNCHANGED <<rows, size, pc, walkVars, answer, order>>

Cleared ==
    /\ pc = "free"
    /\ stack = <<>>
    /\ rows' = NULL
    /\ order' = <<>>
    /\ pc' = "idle"
    /\ UNCHANGED <<heap, size, walkVars, stack, answer>>

Next ==
    \/ \E r \in Rows : append(r)
    \/ \E a \in Indices : Ask(a)
    \/ Walk \/ Answer
    \/ Clear \/ Delete \/ Free \/ Cleared

Spec == Init /\ [][Next]_vars

-----------------------------------------------------------------------------
(* Every variable stays in its set; the walk never starts with a negative   *)
(* length, whatever index was asked for.                                    *)
TypeOK ==
    /\ DOMAIN heap \subseteq Addresses
    /\ \A a \in DOMAIN heap : heap[a] \in Nodes
    /\ rows \in Addresses \cup {NULL}
    /\ size \in Nat
    /\ pc \in {"idle", "walk", "delete", "free"}
    /\ index \in Int /\ i \in Nat /\ j \in Nat
    /\ ret \in Addresses \cup {NULL}
    /\ stack \in Seq(Addresses)
    /\ order \in Seq(Addresses)

(* No loop follows a pointer to nowhere or to memory that was given back:   *)
(* the length of the walk is computed from `size', the nodes are reached    *)
(* through `next', and only the two together are right.  No node is deleted *)
(* twice.                                                                   *)
NoDanglingPointer ==
    /\ pc = "walk" => ret \in DOMAIN heap
    /\ \A k \in DOMAIN stack :
          stack[k] \in DOMAIN heap /\ \A l \in DOMAIN stack : stack[l] = stack[k] => l = k

(* No node is lost: outside `clear' there are as many nodes as rows, and a  *)
(* table that was cleared has given back all of its memory.                 *)
NoNodeLost == pc \in {"idle", "walk"} => Cardinality(DOMAIN heap) = size

(* A table answers with the row that was appended at the index asked for,   *)
(* negative ones and those past the end taken modulo the size, after any    *)
(* appending, asking and clearing.                                          *)
L == INSTANCE RowList WITH
         list <- IF pc \in {"delete", "free"} THEN <<>>
                 ELSE [k \in 1..Len(order) |-> heap[order[k]].row]

IsRowList == L!ListSpec
=============================================================================
