--------------------------- MODULE DbTableProofs ---------------------------
(***************************************************************************)
(* What holds of _TABLE for rows of any kind, any number of nodes and any  *)
(* index.                                                                  *)
(***************************************************************************)
EXTENDS DbTableInv, FiniteSetTheorems, TLAPS

-----------------------------------------------------------------------------
(* A number in 0..n-1 that differs from a by a multiple of n is a % n.      *)
LEMMA ModUnique ==
    ASSUME NEW a \in Int, NEW n \in Nat, n > 0, NEW q \in Int, NEW r \in 0..(n - 1),
           a = n * q + r
    PROVE  a % n = r
<1> DEFINE p == a \div n
           s == a % n
<1>1. p \in Int /\ s \in 0..(n - 1) /\ a = n * p + s
    BY Z3
<1> HIDE DEF p, s
<1>2. n * (p - q) = r - s
    BY <1>1
<1>3. CASE p - q >= 1
    <2>1. n * (p - q) >= n
        BY <1>1, <1>3
    <2> QED BY <1>1, <1>2, <2>1
<1>4. CASE p - q <= -1
    <2>1. n * (p - q) <= -n
        BY <1>1, <1>4
    <2> QED BY <1>1, <1>2, <2>1
<1>5. CASE p = q
    BY <1>1, <1>2, <1>5 DEF s
<1> QED BY <1>1, <1>3, <1>4, <1>5

(* Division with remainder.                                                 *)
LEMMA Division ==
    ASSUME NEW a \in Int, NEW n \in Nat, n > 0
    PROVE  a \div n \in Int /\ a % n \in 0..(n - 1) /\ a = n * (a \div n) + (a % n)
BY Z3

(* The two remainders of operator[] make a modulo of any index: negative    *)
(* indices count from the end, others wrap around.                          *)
THEOREM NormalisedIsModulo ==
    ASSUME NEW a \in Int, NEW n \in Nat, n > 0
    PROVE  Normalised(a, n) = a % n /\ a % n \in 0..(n - 1)
<1>1. CASE a >= 0
    <2> DEFINE s == a % n
    <2>1. s \in 0..(n - 1) /\ Rem(a, n) = s
        BY <1>1, Division DEF Rem
    <2> HIDE DEF s
    <2>2. s + n = n * 1 + s /\ s + n \in Int /\ s + n >= 0
        BY <2>1
    <2>3. (s + n) % n = s
        BY <2>1, <2>2, ModUnique
    <2>4. Normalised(a, n) = s
        BY <2>1, <2>2, <2>3 DEF Normalised, Rem
    <2> QED BY <2>1, <2>4 DEF s
<1>2. CASE a < 0
    <2> DEFINE q == (-a) \div n
               s == (-a) % n
    <2>1. q \in Int /\ s \in 0..(n - 1) /\ -a = n * q + s /\ Rem(a, n) = -s
        BY <1>2, Division DEF Rem
    <2> HIDE DEF q, s
    <2>2. n - s \in 1..n /\ n - s >= 0
        BY <2>1
    <2>3. Normalised(a, n) = (n - s) % n
        BY <2>1, <2>2 DEF Normalised, Rem
    <2>4. CASE s = 0
        <3>1. a = n * (-q) + 0 /\ n - s = n * 1 + 0
            BY <2>1, <2>4
        <3>2. a % n = 0
            BY <2>1, <3>1, ModUnique
        <3>3. (n - s) % n = 0
            BY <2>1, <2>2, <3>1, ModUnique
        <3> QED BY <2>3, <3>2, <3>3
    <2>5. CASE s # 0
        <3>1. n - s \in 0..(n - 1) /\ n - s = n * 0 + (n - s)
            BY <2>1, <2>5
        <3>2. a = n * (-q - 1) + (n - s) /\ -q - 1 \in Int
            <4>1. n * (-q - 1) = -(n * q) - n
                BY <2>1
            <4> QED BY <2>1, <4>1
        <3>3. a % n = n - s
            BY <2>1, <3>1, <3>2, ModUnique
        <3>4. (n - s) % n = n - s
            BY <3>1, ModUnique
        <3> QED BY <2>3, <3>1, <3>3, <3>4
    <2> QED BY <2>1, <2>4, <2>5
<1> QED BY <1>1, <1>2

-----------------------------------------------------------------------------
(* An empty table is a chain of no nodes.                                   *)
LEMMA InitInv == Init => TableInv
<1> SUFFICES ASSUME Init PROVE TableInv
    OBVIOUS
<1> USE DEF Init
<1>1. DOMAIN heap = {} /\ order \in Seq(Addresses) /\ stack \in Seq(Addresses)
    OBVIOUS
<1>2. TypeOK
    BY <1>1 DEF TypeOK
<1>3. OrderDistinct /\ Chained /\ Walked /\ Stacked
    BY <1>1 DEF OrderDistinct, Chained, Walked, Stacked
<1> QED BY <1>2, <1>3 DEF TableInv

(* A new node is none of those in the table and points to the old head.     *)
LEMMA AppendInv == ASSUME NEW r \in Rows, TableInv, append(r) PROVE TableInv'
<1>1. PICK node \in Addresses \ DOMAIN heap :
          /\ heap' = [a \in DOMAIN heap \cup {node} |->
                 IF a = node THEN [row |-> r, next |-> rows] ELSE heap[a]]
          /\ rows' = node
          /\ order' = Append(order, node)
    BY DEF append
<1>2. /\ pc = "idle" /\ pc' = "idle" /\ size' = size + 1 /\ stack = <<>> /\ stack' = <<>>
      /\ index' = index /\ i' = i /\ j' = j /\ ret' = ret
    BY DEF append, walkVars, TableInv, Stacked
<1>3. /\ order \in Seq(Addresses) /\ Len(order) \in Nat
      /\ DOMAIN order = 1..Len(order)
      /\ size = Len(order) /\ DOMAIN heap = {order[k] : k \in DOMAIN order}
    BY <1>2 DEF TableInv, TypeOK, Chained
<1>4. /\ order' \in Seq(Addresses) /\ Len(order') = Len(order) + 1
      /\ DOMAIN order' = 1..(Len(order) + 1)
      /\ order'[Len(order) + 1] = node
      /\ \A k \in 1..Len(order) : order'[k] = order[k] /\ order[k] # node
    BY <1>1, <1>3
<1>5. DOMAIN heap' = DOMAIN heap \cup {node}
    BY <1>1
<1>6. TypeOK'
    <2>1. \A a \in DOMAIN heap' : heap'[a] \in Nodes
        <3>1. ASSUME NEW a \in DOMAIN heap' PROVE heap'[a] \in Nodes
            <4>1. CASE a = node
                <5>1. heap'[a] = [row |-> r, next |-> rows]
                    BY <1>1, <4>1
                <5>2. rows \in Addresses \cup {NULL}
                    BY DEF TableInv, TypeOK
                <5> QED BY <5>1, <5>2 DEF Nodes
            <4>2. CASE a # node
                <5>1. heap'[a] = heap[a] /\ a \in DOMAIN heap
                    BY <1>1, <1>5, <4>2
                <5> QED BY <5>1 DEF TableInv, TypeOK
            <4> QED BY <4>1, <4>2
        <3> QED BY <3>1
    <2>2. DOMAIN heap' \subseteq Addresses /\ rows' \in Addresses
        BY <1>1, <1>5 DEF TableInv, TypeOK
    <2>3. size' \in Nat
        BY <1>2 DEF TableInv, TypeOK
    <2> QED BY <1>2, <1>4, <2>1, <2>2, <2>3 DEF TableInv, TypeOK
<1>7. OrderDistinct'
    BY <1>3, <1>4 DEF TableInv, OrderDistinct
<1>8. Chained'
    <2>1. DOMAIN heap' = {order'[k] : k \in DOMAIN order'}
        BY <1>3, <1>4, <1>5
    <2>2. ASSUME NEW k \in DOMAIN order'
          PROVE  heap'[order'[k]].next = IF k = 1 THEN NULL ELSE order'[k - 1]
        <3>1. CASE k = Len(order) + 1
            <4>1. heap'[order'[k]].next = rows
                BY <1>1, <1>4, <3>1
            <4>2. rows = IF order = <<>> THEN NULL ELSE order[Len(order)]
                BY DEF TableInv, Chained
            <4> QED BY <1>3, <1>4, <3>1, <4>1, <4>2
        <3>2. CASE k # Len(order) + 1
            <4>1. k \in DOMAIN order
                BY <1>3, <1>4, <3>2
            <4>2. heap'[order'[k]] = heap[order[k]]
                BY <1>1, <1>3, <1>4, <4>1
            <4>3. heap[order[k]].next = IF k = 1 THEN NULL ELSE order[k - 1]
                BY <1>2, <4>1 DEF TableInv, Chained
            <4> QED BY <1>3, <1>4, <4>1, <4>2, <4>3
        <3> QED BY <3>1, <3>2
    <2>3. order' # <<>> /\ rows' = order'[Len(order')]
        BY <1>1, <1>3, <1>4
    <2> QED BY <1>2, <1>3, <1>4, <2>1, <2>2, <2>3 DEF Chained
<1>9. Walked' /\ Stacked'
    BY <1>2, <1>4 DEF Walked, Stacked
<1> QED BY <1>6, <1>7, <1>8, <1>9 DEF TableInv

(* A question starts at the head with less steps to go than there are nodes. *)
LEMMA AskInv == ASSUME NEW a \in Indices, TableInv, Ask(a) PROVE TableInv'
<1>1. /\ pc = "idle" /\ pc' = "walk" /\ size # 0 /\ index' = a /\ j' = 0 /\ ret' = rows
      /\ i' = size - 1 - Normalised(a, size)
      /\ heap' = heap /\ rows' = rows /\ size' = size /\ stack' = stack /\ order' = order
    BY DEF Ask
<1>2. size \in Nat /\ size > 0 /\ a \in Int
    BY <1>1, DbTableAssumption DEF TableInv, TypeOK
<1>3. Normalised(a, size) \in 0..(size - 1)
    BY <1>2, NormalisedIsModulo
<1>4. i' \in 0..(size - 1)
    BY <1>1, <1>2, <1>3
<1>5. TypeOK'
    BY <1>1, <1>2, <1>4 DEF TableInv, TypeOK
<1>6. OrderDistinct' /\ Chained'
    BY <1>1 DEF TableInv, OrderDistinct, Chained
<1>7. Walked'
    <2>1. rows = order[size]
        BY <1>1, <1>2 DEF TableInv, TypeOK, Chained
    <2> QED BY <1>1, <1>2, <1>4, <2>1 DEF Walked
<1>8. Stacked'
    BY <1>1 DEF TableInv, Stacked
<1> QED BY <1>5, <1>6, <1>7, <1>8 DEF TableInv

(* A step of the walk goes from a node to the one appended before it.       *)
LEMMA WalkInv == ASSUME TableInv, Walk PROVE TableInv'
<1>1. /\ pc = "walk" /\ pc' = "walk" /\ j < i /\ ret' = heap[ret].next /\ j' = j + 1
      /\ heap' = heap /\ rows' = rows /\ size' = size /\ index' = index /\ i' = i
      /\ stack' = stack /\ order' = order
    BY DEF Walk
<1>2. /\ order \in Seq(Addresses) /\ size = Len(order) /\ size > 0 /\ size \in Nat
      /\ index \in Indices /\ i \in Nat /\ j \in Nat
      /\ i = size - 1 - Normalised(index, size)
      /\ ret = order[size - j]
    BY <1>1 DEF TableInv, TypeOK, Walked, Chained
<1>3. i <= size - 1
    <2>1. index \in Int
        BY <1>2, DbTableAssumption
    <2>2. Normalised(index, size) \in 0..(size - 1)
        BY <1>2, <2>1, NormalisedIsModulo
    <2> QED BY <1>2, <2>2
<1>4. size - j \in DOMAIN order /\ size - j # 1 /\ size - j - 1 \in DOMAIN order
    BY <1>1, <1>2, <1>3
<1>5. heap[ret].next = order[size - j - 1]
    BY <1>1, <1>2, <1>4 DEF TableInv, Chained
<1>6. ret' \in Addresses /\ ret' = order[size - (j + 1)]
    BY <1>1, <1>2, <1>4, <1>5
<1>7. TypeOK'
    BY <1>1, <1>2, <1>6 DEF TableInv, TypeOK
<1>8. OrderDistinct' /\ Chained' /\ Stacked'
    BY <1>1 DEF TableInv, OrderDistinct, Chained, Stacked
<1>9. Walked'
    BY <1>1, <1>2, <1>6 DEF Walked
<1> QED BY <1>7, <1>8, <1>9 DEF TableInv

(* The answer leaves the table as it is.                                    *)
LEMMA AnswerInv == ASSUME TableInv, Answer PROVE TableInv'
<1>1. /\ pc = "walk" /\ pc' = "idle" /\ index' = 0 /\ i' = 0 /\ j' = 0 /\ ret' = NULL
      /\ heap' = heap /\ rows' = rows /\ size' = size /\ stack' = stack /\ order' = order
    BY DEF Answer
<1>2. TypeOK'
    BY <1>1 DEF TableInv, TypeOK
<1>3. OrderDistinct' /\ Chained' /\ Walked' /\ Stacked'
    BY <1>1 DEF TableInv, OrderDistinct, Chained, Walked, Stacked
<1> QED BY <1>2, <1>3 DEF TableInv

(* clear calls the destructor of the head.                                  *)
LEMMA ClearInv == ASSUME TableInv, Clear PROVE TableInv'
<1>1. /\ pc = "idle" /\ size' = 0 /\ heap' = heap /\ rows' = rows /\ order' = order
      /\ index' = index /\ i' = i /\ j' = j /\ ret' = ret
      /\ IF rows # NULL THEN pc' = "delete" /\ stack' = <<rows>>
                        ELSE pc' = pc /\ stack' = stack
    BY DEF Clear, walkVars
<1>2. /\ order \in Seq(Addresses) /\ stack = <<>>
      /\ rows = IF order = <<>> THEN NULL ELSE order[Len(order)]
      /\ rows \in Addresses \cup {NULL}
    BY <1>1 DEF TableInv, TypeOK, Chained, Stacked
<1>3. CASE rows = NULL
    <2>1. order = <<>>
        BY <1>2, <1>3, DbTableAssumption
    <2>2. TypeOK'
        BY <1>1, <1>3 DEF TableInv, TypeOK
    <2>3. OrderDistinct' /\ Chained' /\ Walked' /\ Stacked'
        BY <1>1, <1>3, <2>1 DEF TableInv, OrderDistinct, Chained, Walked, Stacked
    <2> QED BY <2>2, <2>3 DEF TableInv
<1>4. CASE rows # NULL
    <2>1. /\ rows \in Addresses /\ rows = order[Len(order)]
          /\ Len(order) \in Nat /\ Len(order) >= 1
        BY <1>2, <1>4
    <2>2. /\ stack' = <<rows>> /\ stack' \in Seq(Addresses) /\ Len(stack') = 1
          /\ stack' # <<>> /\ stack'[1] = rows /\ DOMAIN stack' = {1}
        <3>1. stack' = <<rows>>
            BY <1>1, <1>4
        <3>2. /\ <<rows>> \in Seq(Addresses) /\ Len(<<rows>>) = 1 /\ <<rows>>[1] = rows
              /\ DOMAIN <<rows>> = {1}
            BY <2>1
        <3>3. <<rows>> # <<>>
            BY <3>2
        <3> QED BY <3>1, <3>2, <3>3
    <2>3. TypeOK'
        BY <1>1, <1>4, <2>2 DEF TableInv, TypeOK
    <2>4. OrderDistinct' /\ Chained' /\ Walked'
        BY <1>1, <1>4 DEF TableInv, OrderDistinct, Chained, Walked
    <2>5. Stacked'
        BY <1>1, <1>4, <2>1, <2>2 DEF Stacked
    <2> QED BY <2>3, <2>4, <2>5 DEF TableInv
<1> QED BY <1>3, <1>4

(* The destructors descend along the chain to its first node.               *)
LEMMA DeleteInv == ASSUME TableInv, Delete PROVE TableInv'
<1> DEFINE n == Len(stack)
<1>1. /\ pc = "delete"
      /\ heap' = heap /\ rows' = rows /\ size' = size /\ order' = order
      /\ index' = index /\ i' = i /\ j' = j /\ ret' = ret
      /\ IF heap[stack[n]].next # NULL
         THEN stack' = Append(stack, heap[stack[n]].next) /\ pc' = pc
         ELSE pc' = "free" /\ stack' = stack
    BY DEF Delete, walkVars, Follows, Last
<1>2. /\ order \in Seq(Addresses) /\ stack \in Seq(Addresses) /\ stack # <<>>
      /\ n \in Nat /\ n >= 1 /\ n <= Len(order) /\ Len(order) \in Nat
      /\ DOMAIN stack = 1..n
      /\ \A k \in 1..n : stack[k] = order[Len(order) + 1 - k]
    BY <1>1 DEF TableInv, TypeOK, Stacked
<1> HIDE DEF n
<1>3. /\ Len(order) + 1 - n \in DOMAIN order
      /\ heap[stack[n]].next =
            IF Len(order) + 1 - n = 1 THEN NULL ELSE order[Len(order) + 1 - n - 1]
    <2>1. Len(order) + 1 - n \in 1..Len(order) /\ DOMAIN order = 1..Len(order)
        BY <1>2
    <2>2. stack[n] = order[Len(order) + 1 - n]
        BY <1>2
    <2>3. \A k \in DOMAIN order : heap[order[k]].next = IF k = 1 THEN NULL ELSE order[k - 1]
        BY <1>1 DEF TableInv, Chained
    <2> DEFINE m == Len(order) + 1 - n
    <2>4. heap[order[m]].next = IF m = 1 THEN NULL ELSE order[m - 1]
        BY <2>1, <2>3
    <2> QED BY <1>2, <2>1, <2>2, <2>4
<1>4. CASE Len(order) + 1 - n = 1
    <2>1. pc' = "free" /\ stack' = stack /\ n = Len(order)
        BY <1>1, <1>2, <1>3, <1>4
    <2>2. TypeOK'
        BY <1>1, <2>1 DEF TableInv, TypeOK
    <2>3. OrderDistinct' /\ Chained' /\ Walked'
        BY <1>1, <2>1 DEF TableInv, OrderDistinct, Chained, Walked
    <2>4. Stacked'
        <3>1. DOMAIN heap = {order[k] : k \in DOMAIN order} /\ DOMAIN order = 1..n
            BY <1>1, <1>2, <2>1 DEF TableInv, Chained
        <3>2. {order[k] : k \in 1..n} = {stack[k] : k \in 1..n}
            <4>1. \A k \in 1..n : n + 1 - k \in 1..n /\ order[k] = stack[n + 1 - k]
                BY <1>2, <2>1
            <4>2. \A k \in 1..n : n + 1 - k \in 1..n /\ stack[k] = order[n + 1 - k]
                BY <1>2, <2>1
            <4> QED BY <4>1, <4>2
        <3>3. DOMAIN heap' = {stack'[k] : k \in DOMAIN stack'}
            <4>1. DOMAIN stack' = 1..n
                BY <1>1, <1>2, <2>1
            <4>2. DOMAIN heap' = {order[k] : k \in 1..n}
                BY <1>1, <2>1, <3>1
            <4> QED BY <2>1, <3>2, <4>1, <4>2
        <3>4. Len(stack') <= Len(order')
              /\ \A k \in DOMAIN stack' : stack'[k] = order'[Len(order') + 1 - k]
            BY <1>1, <2>1 DEF TableInv, Stacked
        <3> QED BY <2>1, <3>3, <3>4 DEF Stacked
    <2> QED BY <2>2, <2>3, <2>4 DEF TableInv
<1>5. CASE Len(order) + 1 - n # 1
    <2> DEFINE next == order[Len(order) + 1 - (n + 1)]
    <2>1. next \in Addresses /\ next # NULL /\ n + 1 <= Len(order)
        BY <1>2, <1>3, <1>5, DbTableAssumption
    <2>2. pc' = pc /\ stack' = Append(stack, next)
        BY <1>1, <1>2, <1>3, <1>5, <2>1
    <2> HIDE DEF next
    <2>3. /\ stack' \in Seq(Addresses) /\ Len(stack') = n + 1 /\ DOMAIN stack' = 1..(n + 1)
          /\ stack'[n + 1] = next /\ \A k \in 1..n : stack'[k] = stack[k]
        BY <1>2, <2>1, <2>2 DEF n
    <2>4. TypeOK'
        BY <1>1, <2>2, <2>3 DEF TableInv, TypeOK
    <2>5. OrderDistinct' /\ Chained' /\ Walked'
        BY <1>1, <2>2 DEF TableInv, OrderDistinct, Chained, Walked
    <2>6. Stacked'
        <3>1. \A k \in 1..(n + 1) : stack'[k] = order[Len(order) + 1 - k]
            BY <1>2, <2>3 DEF next
        <3> QED BY <1>1, <1>2, <2>1, <2>2, <2>3, <3>1 DEF Stacked
    <2> QED BY <2>4, <2>5, <2>6 DEF TableInv
<1> QED BY <1>4, <1>5

(* The memory of a node is given back when those before it are gone.        *)
LEMMA FreeInv == ASSUME TableInv, Free PROVE TableInv'
<1> DEFINE n == Len(stack)
<1>1. /\ pc = "free" /\ pc' = "free" /\ stack # <<>>
      /\ heap' = [a \in DOMAIN heap \ {stack[n]} |-> heap[a]]
      /\ stack' = SubSeq(stack, 1, n - 1)
      /\ rows' = rows /\ size' = size /\ order' = order
      /\ index' = index /\ i' = i /\ j' = j /\ ret' = ret
    BY DEF Free, walkVars, Last, Front
<1>2. /\ order \in Seq(Addresses) /\ stack \in Seq(Addresses)
      /\ n \in Nat /\ n >= 1 /\ n <= Len(order) /\ Len(order) \in Nat
      /\ DOMAIN stack = 1..n /\ DOMAIN order = 1..Len(order)
      /\ \A k \in 1..n : stack[k] = order[Len(order) + 1 - k]
      /\ DOMAIN heap = {stack[k] : k \in 1..n}
    BY <1>1 DEF TableInv, TypeOK, Stacked
<1> HIDE DEF n
<1>3. /\ stack' \in Seq(Addresses) /\ Len(stack') = n - 1 /\ DOMAIN stack' = 1..(n - 1)
      /\ \A k \in 1..(n - 1) : stack'[k] = stack[k]
    BY <1>1, <1>2
<1>4. \A k \in 1..(n - 1) : stack[k] # stack[n]
    BY <1>2 DEF TableInv, OrderDistinct
<1>5. DOMAIN heap' = {stack'[k] : k \in DOMAIN stack'}
    <2>1. DOMAIN heap' = DOMAIN heap \ {stack[n]}
        BY <1>1
    <2>2. ASSUME NEW k \in DOMAIN stack' PROVE stack'[k] \in DOMAIN heap'
        BY <1>2, <1>3, <1>4, <2>1
    <2>3. ASSUME NEW a \in DOMAIN heap' PROVE \E k \in DOMAIN stack' : a = stack'[k]
        <3>1. PICK k \in 1..n : a = stack[k]
            BY <1>2, <2>1
        <3>2. k \in 1..(n - 1)
            BY <1>2, <2>1, <3>1
        <3> QED BY <1>3, <3>1, <3>2
    <2> QED BY <2>2, <2>3
<1>6. TypeOK'
    <2>1. DOMAIN heap' \subseteq DOMAIN heap /\ \A a \in DOMAIN heap' : heap'[a] = heap[a]
        BY <1>1
    <2> QED BY <1>1, <1>3, <2>1 DEF TableInv, TypeOK
<1>7. OrderDistinct' /\ Chained' /\ Walked'
    BY <1>1 DEF TableInv, OrderDistinct, Chained, Walked
<1>8. Stacked'
    <2>1. Len(stack') <= Len(order')
          /\ \A k \in DOMAIN stack' : stack'[k] = order'[Len(order') + 1 - k]
        <3>1. ASSUME NEW k \in DOMAIN stack' PROVE stack'[k] = order[Len(order) + 1 - k]
            <4>1. k \in 1..(n - 1) /\ k \in 1..n
                BY <1>2, <1>3
            <4> QED BY <1>2, <1>3, <4>1
        <3>2. Len(stack') <= Len(order)
            BY <1>2, <1>3
        <3> QED BY <1>1, <3>1, <3>2
    <2> QED BY <1>1, <1>5, <2>1 DEF Stacked
<1> QED BY <1>6, <1>7, <1>8 DEF TableInv

(* A table that was cleared is as it was when it was made.                  *)
LEMMA ClearedInv == ASSUME TableInv, Cleared PROVE TableInv'
<1>1. /\ pc = "free" /\ pc' = "idle" /\ stack = <<>> /\ stack' = <<>> /\ rows' = NULL
      /\ order' = <<>> /\ heap' = heap /\ size' = size
      /\ index' = index /\ i' = i /\ j' = j /\ ret' = ret
    BY DEF Cleared, walkVars
<1>2. DOMAIN heap = {} /\ size = 0
    BY <1>1 DEF TableInv, Stacked, Chained
<1>3. TypeOK'
    BY <1>1 DEF TableInv, TypeOK
<1>4. OrderDistinct' /\ Chained' /\ Walked' /\ Stacked'
    BY <1>1, <1>2 DEF OrderDistinct, Chained, Walked, Stacked
<1> QED BY <1>3, <1>4 DEF TableInv

(* The invariant of the table holds after any number of steps.              *)
THEOREM TableInvHolds == Spec => []TableInv
<1>1. ASSUME TableInv, [Next]_vars PROVE TableInv'
    <2>1. CASE UNCHANGED vars
        <3>1. TypeOK'
            BY <1>1, <2>1 DEF vars, walkVars, TableInv, TypeOK
        <3>2. OrderDistinct' /\ Chained' /\ Walked' /\ Stacked'
            BY <1>1, <2>1 DEF vars, walkVars, TableInv, OrderDistinct, Chained, Walked, Stacked
        <3> QED BY <3>1, <3>2 DEF TableInv
    <2> QED BY <1>1, <2>1, AppendInv, AskInv, WalkInv, AnswerInv, ClearInv, DeleteInv, FreeInv,
               ClearedInv DEF Next
<1> QED BY InitInv, <1>1, PTL DEF Spec

(* Lengths of walks are never negative and every pointer is an address or   *)
(* NULL, for any index.                                                     *)
THEOREM TypeCorrect == Spec => []TypeOK
<1>1. TableInv => TypeOK
    BY DEF TableInv
<1> QED BY <1>1, TableInvHolds, PTL

(* Whatever index a row is asked for with, the walk stays on nodes of the   *)
(* table, and clear deletes nodes of the table, each once.                  *)
LEMMA PointersFollow == ASSUME TableInv PROVE NoDanglingPointer
<1>1. order \in Seq(Addresses) /\ stack \in Seq(Addresses)
    BY DEF TableInv, TypeOK
<1>2. ASSUME pc = "walk" PROVE ret \in DOMAIN heap
    <2>1. /\ size = Len(order) /\ size \in Nat /\ size > 0 /\ index \in Int
          /\ i = size - 1 - Normalised(index, size) /\ j \in Nat /\ j <= i
          /\ ret = order[size - j] /\ DOMAIN heap = {order[k] : k \in DOMAIN order}
        BY <1>2, DbTableAssumption DEF TableInv, TypeOK, Chained, Walked
    <2>2. Normalised(index, size) \in 0..(size - 1)
        BY <2>1, NormalisedIsModulo
    <2>3. size - j \in 1..size /\ DOMAIN order = 1..size
        BY <1>1, <2>1, <2>2
    <2> QED BY <2>1, <2>3
<1>3. ASSUME NEW k \in DOMAIN stack
      PROVE  /\ stack[k] \in DOMAIN heap
             /\ \A l \in DOMAIN stack : stack[l] = stack[k] => l = k
    <2>1. /\ Len(stack) \in Nat /\ Len(order) \in Nat /\ Len(stack) <= Len(order)
          /\ DOMAIN stack = 1..Len(stack) /\ DOMAIN order = 1..Len(order)
        BY <1>1 DEF TableInv, Stacked
    <2>2. ASSUME NEW l \in DOMAIN stack
          PROVE  /\ Len(order) + 1 - l \in DOMAIN order
                 /\ stack[l] = order[Len(order) + 1 - l]
        BY <2>1 DEF TableInv, Stacked
    <2>3. ASSUME NEW l \in DOMAIN stack, stack[l] = stack[k] PROVE l = k
        <3>1. Len(order) + 1 - l = Len(order) + 1 - k
            BY <2>2, <2>3 DEF TableInv, OrderDistinct
        <3> QED BY <2>1, <3>1
    <2>4. stack[k] \in DOMAIN heap
        <3>1. CASE pc = "free"
            BY <3>1 DEF TableInv, Stacked
        <3>2. CASE pc # "free"
            BY <2>2, <3>2 DEF TableInv, Chained
        <3> QED BY <3>1, <3>2
    <2> QED BY <2>3, <2>4
<1> QED BY <1>2, <1>3 DEF NoDanglingPointer

(* Hence at every step of every loop.                                       *)
THEOREM NoDanglingPointerHolds == Spec => []NoDanglingPointer
<1>1. TableInv => NoDanglingPointer
    BY PointersFollow
<1> QED BY <1>1, TableInvHolds, PTL

(* No node is lost by appending, and a cleared table holds no memory.       *)
THEOREM NoNodeLostHolds == Spec => []NoNodeLost
<1>1. ASSUME TableInv PROVE NoNodeLost
    <2> SUFFICES ASSUME pc \in {"idle", "walk"} PROVE Cardinality(DOMAIN heap) = size
        BY DEF NoNodeLost
    <2>1. /\ order \in Seq(Addresses) /\ size = Len(order) /\ size \in Nat
          /\ DOMAIN order = 1..size
          /\ DOMAIN heap = {order[k] : k \in DOMAIN order}
          /\ \A k, l \in DOMAIN order : order[k] = order[l] => k = l
        BY <1>1 DEF TableInv, TypeOK, Chained, OrderDistinct
    <2> DEFINE f == [k \in 1..size |-> order[k]]
    <2>2. f \in Bijection(1..size, DOMAIN heap)
        BY <2>1 DEF Bijection, Injection, Surjection, IsInjective
    <2>3. ExistsBijection(1..size, DOMAIN heap)
        BY <2>2 DEF ExistsBijection
    <2> QED BY <2>1, <2>3, FS_CountingElements
<1> QED BY <1>1, TableInvHolds, PTL

-----------------------------------------------------------------------------
(* The row at an index is found that many steps from the other end.         *)
LEMMA AnswerIsAsk == ASSUME TableInv, Answer PROVE L!Ask(index)
<1>1. /\ pc = "walk" /\ pc' = "idle" /\ ~(j < i) /\ answer' = <<index, heap[ret].row>>
      /\ heap' = heap /\ order' = order
    BY DEF Answer
<1>2. /\ order \in Seq(Addresses) /\ size = Len(order) /\ size \in Nat /\ size > 0
      /\ index \in Int /\ i \in Nat /\ j \in Nat /\ j <= i
      /\ i = size - 1 - Normalised(index, size) /\ ret = order[size - j]
    BY <1>1, DbTableAssumption DEF TableInv, TypeOK, Chained, Walked
<1>3. /\ Normalised(index, size) = index % size
      /\ index % size \in 0..(size - 1)
    BY <1>2, NormalisedIsModulo
<1>4. j = i /\ size - j = (index % size) + 1
    BY <1>1, <1>2, <1>3
<1> DEFINE list == [k \in 1..Len(order) |-> heap[order[k]].row]
<1>5. /\ Len(list) = size /\ list # <<>>
      /\ list[(index % size) + 1] = heap[ret].row
    BY <1>2, <1>3, <1>4
<1>6. list' = list
    BY <1>1
<1> QED BY <1>1, <1>5, <1>6 DEF L!Ask

(* A row that is appended comes after those in the table, which keep their  *)
(* places.                                                                  *)
LEMMA AppendIsAdd == ASSUME NEW r \in Rows, TableInv, append(r) PROVE L!Add(r)
<1>1. PICK node \in Addresses \ DOMAIN heap :
          /\ heap' = [a \in DOMAIN heap \cup {node} |->
                 IF a = node THEN [row |-> r, next |-> rows] ELSE heap[a]]
          /\ order' = Append(order, node)
    BY DEF append
<1>2. pc = "idle" /\ pc' = "idle" /\ answer' = answer
    BY DEF append
<1>3. /\ order \in Seq(Addresses) /\ Len(order) \in Nat
      /\ \A k \in 1..Len(order) : order[k] \in DOMAIN heap
    BY <1>2 DEF TableInv, TypeOK, Chained
<1>4. /\ Len(order') = Len(order) + 1
      /\ order'[Len(order) + 1] = node
      /\ \A k \in 1..Len(order) : order'[k] = order[k]
    BY <1>1, <1>3
<1> DEFINE list == [k \in 1..Len(order) |-> heap[order[k]].row]
<1>5. /\ \A k \in 1..Len(order) : heap'[order'[k]].row = heap[order[k]].row
      /\ heap'[order'[Len(order) + 1]].row = r
    BY <1>1, <1>3, <1>4
<1>6. list \in Seq(Rows) /\ Len(list) = Len(order)
    <2>1. \A k \in 1..Len(order) : heap[order[k]].row \in Rows
        BY <1>3 DEF TableInv, TypeOK, Nodes
    <2> QED BY <1>3, <2>1
<1>7. list' = Append(list, r)
    <2>1. list' = [k \in 1..(Len(order) + 1) |-> heap'[order'[k]].row]
        BY <1>4
    <2>2. Append(list, r) = [k \in 1..(Len(order) + 1) |->
                                IF k = Len(order) + 1 THEN r ELSE list[k]]
        BY <1>6
    <2>3. \A k \in 1..(Len(order) + 1) :
              heap'[order'[k]].row = IF k = Len(order) + 1 THEN r ELSE list[k]
        BY <1>3, <1>5
    <2> QED BY <2>1, <2>2, <2>3
<1> QED BY <1>2, <1>7 DEF L!Add

(* A table is a sequence to those who read it: after any appending, asking  *)
(* and clearing it answers with the row that came at the index asked for.   *)
THEOREM RowListImplemented == Spec => IsRowList
<1>1. ASSUME Init PROVE L!ListInit
    BY <1>1 DEF Init, L!ListInit
<1>2. ASSUME TableInv, [Next]_vars PROVE [L!ListNext]_(L!listVars)
    <2>1. ASSUME NEW r \in Rows, append(r) PROVE L!ListNext
        BY <1>2, <2>1, AppendIsAdd DEF L!ListNext
    <2>2. CASE Answer
        <3>1. index \in Indices
            BY <1>2, <2>2 DEF Answer, TableInv, Walked
        <3> QED BY <1>2, <2>2, <3>1, AnswerIsAsk DEF L!ListNext
    <2>3. CASE Clear
        <3>1. CASE rows # NULL
            BY <2>3, <3>1 DEF Clear, L!ListNext, L!Empty
        <3>2. CASE rows = NULL
            <4>1. order = <<>>
                BY <1>2, <3>2, DbTableAssumption DEF TableInv, TypeOK, Chained
            <4> QED BY <2>3, <3>2, <4>1 DEF Clear, L!ListNext, L!Empty
        <3> QED BY <3>1, <3>2
    <2>4. CASE Delete \/ Free \/ Cleared
        BY <2>4 DEF Delete, Free, Cleared, L!listVars
    <2>5. CASE (\E a \in Indices : Ask(a)) \/ Walk
        BY <2>5 DEF Ask, Walk, L!listVars
    <2>6. CASE UNCHANGED vars
        BY <2>6 DEF vars, L!listVars
    <2> QED BY <1>2, <2>1, <2>2, <2>3, <2>4, <2>5, <2>6 DEF Next
<1> QED BY <1>1, <1>2, TableInvHolds, PTL DEF Spec, IsRowList, L!ListSpec
=============================================================================
