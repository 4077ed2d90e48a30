----------------------------- MODULE MCDbTable -----------------------------
(***************************************************************************)
(* Instances of DbTable, with its cells, for TLC.                          *)
(***************************************************************************)
EXTENDS DbCellsInv

(* Indices before the first row and past the last, by more than the size.   *)
SomeIndices == {-4, -1, 0, 1, 5}

(* Two columns, one of which has a text and the other none, or an empty one.*)
TwoRows == {<<NULL, <<"a">>>>, <<<<"b", "c">>, <<>>>>}

SomeTexts == {<<"d">>}

BothCells == {0, 1}

(* Which address a node gets makes no difference to any step.               *)
AnyAddress == Permutations(Addresses)
=============================================================================
