----------------------------- MODULE DbTableInv -----------------------------
(***************************************************************************)
(* Why the pointers of _TABLE are right: the inductive invariant of        *)
(* DbTable.                                                                *)
(***************************************************************************)
EXTENDS DbTable

(* Every node was appended once.                                            *)
OrderDistinct == \A k, l \in DOMAIN order : order[k] = order[l] => k = l

(* The head is the last node appended, each node points to the one appended *)
(* before it, and outside `clear' the table knows how many there are.       *)
Chained ==
    /\ rows = IF order = <<>> THEN NULL ELSE order[Len(order)]
    /\ pc # "free" =>
          /\ DOMAIN heap = {order[k] : k \in DOMAIN order}
          /\ \A k \in DOMAIN order :
                heap[order[k]].next = IF k = 1 THEN NULL ELSE order[k - 1]
    /\ pc \in {"idle", "walk"} => size = Len(order)
    /\ pc \in {"delete", "free"} => size = 0

(* The walk has taken j steps from the head and ends in time.               *)
Walked ==
    pc = "walk" =>
        /\ size > 0
        /\ index \in Indices
        /\ i = size - 1 - Normalised(index, size)
        /\ j <= i
        /\ ret = order[size - j]

(* The destructors that run are those of the newest nodes, in that order,   *)
(* until the first node is reached, and of the oldest from then on.         *)
Stacked ==
    /\ pc \in {"idle", "walk"} => stack = <<>>
    /\ pc = "delete" => stack # <<>>
    /\ Len(stack) <= Len(order)
    /\ \A k \in DOMAIN stack : stack[k] = order[Len(order) + 1 - k]
    /\ pc = "free" => DOMAIN heap = {stack[k] : k \in DOMAIN stack}

(* All of it together, at every step of every loop.                         *)
TableInv == TypeOK /\ OrderDistinct /\ Chained /\ Walked /\ Stacked
=============================================================================
