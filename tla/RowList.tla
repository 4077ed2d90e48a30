------------------------------ MODULE RowList ------------------------------
(***************************************************************************)
(* What a query result is to those who read it: a sequence of rows in the  *)
(* order the server sent them, indexed from 0, every index being taken     *)
(* modulo the number of rows.                                              *)
(***************************************************************************)
EXTENDS Integers, Sequences

CONSTANTS
    Rows,       \* what a row may hold
    Indices,    \* the indices rows are asked for with
    NoAnswer    \* nothing was asked yet

VARIABLES
    list,       \* the rows
    answer      \* the last index asked for and the row it gave

listVars == <<list, answer>>

ListInit == list = <<>> /\ answer = NoAnswer

Add(r) == list' = Append(list, r) /\ UNCHANGED answer

Empty == list' = <<>> /\ UNCHANGED answer

Ask(i) ==
    /\ list # <<>>
    /\ answer' = <<i, list[(i % Len(list)) + 1]>>
    /\ UNCHANGED list

ListNext == Empty \/ (\E r \in Rows : Add(r)) \/ (\E i \in Indices : Ask(i))

ListSpec == ListInit /\ [][ListNext]_listVars
=============================================================================
