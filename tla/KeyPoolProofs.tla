--------------------------- MODULE KeyPoolProofs ---------------------------
(***************************************************************************)
(* demote() and the loops that call it against the relation of             *)
(* FailoverQueue, for queues of every length, and with them the two queues *)
(* of the key pool.                                                        *)
(***************************************************************************)
EXTENDS KeyPool, DemoteLoop, TLAPS

\* Which pairs OrderOf names.
LEMMA OrderPairs ==
  ASSUME NEW Items, NEW q, Lined(q, Items)
  PROVE  /\ OrderOf(q) \subseteq Items \X Items
         /\ \A i, j \in 1..Len(q) : <<q[i], q[j]>> \in OrderOf(q) <=> i < j
<1>1. DOMAIN q = 1..Len(q) /\ Len(q) \in Nat /\ \A i \in 1..Len(q) : q[i] \in Items
  BY DEF Lined
<1> DEFINE D == 1..Len(q)
           E == { t \in D \X D : t[1] < t[2] }
<1>2. \A p : p \in OrderOf(q) <=> \E i, j \in D : i < j /\ p = <<q[i], q[j]>>
  <2>1. OrderOf(q) = { <<q[t[1]], q[t[2]]>> : t \in E }
    BY <1>1 DEF OrderOf
  <2>2. ASSUME NEW p \in OrderOf(q)
        PROVE  \E i, j \in D : i < j /\ p = <<q[i], q[j]>>
    <3>1. PICK t \in E : p = <<q[t[1]], q[t[2]]>>
      BY <2>1
    <3>2. t[1] \in D /\ t[2] \in D /\ t[1] < t[2]
      OBVIOUS
    <3>3. QED
      BY <3>1, <3>2
  <2>3. ASSUME NEW i \in D, NEW j \in D, i < j
        PROVE  <<q[i], q[j]>> \in OrderOf(q)
    <3>1. <<i, j>> \in E
      BY <2>3
    <3>2. QED
      BY <2>1, <3>1
  <2>4. QED
    BY <2>2, <2>3
<1>3. OrderOf(q) \subseteq Items \X Items
  BY <1>1, <1>2
<1>4. ASSUME NEW i \in 1..Len(q), NEW j \in 1..Len(q)
      PROVE  <<q[i], q[j]>> \in OrderOf(q) <=> i < j
  <2>1. \A a, c \in D : q[a] = q[c] => a = c
    BY DEF Lined
  <2>2. QED
    BY <1>2, <2>1
<1>5. QED
  BY <1>3, <1>4

\* demote() loses no item, doubles none and moves one item behind the others
\* (rotation.ts demote()).
THEOREM DemoteMovesToTail ==
  ASSUME NEW Items, NEW q, Lined(q, Items), NEW x \in Items
  PROVE  /\ Lined(Demote(q, x), Items)
         /\ OrderOf(Demote(q, x)) = MoveToTail(OrderOf(q), {x}, Items)
         /\ Len(Demote(q, x)) = Len(q)
<1> DEFINE n == Len(q)
           pos == CHOOSE i \in 1..n : q[i] = x
           d == [i \in 1..n |-> IF i < pos THEN q[i] ELSE IF i < n THEN q[i + 1] ELSE x]
<1>1. n \in Nat /\ DOMAIN q = 1..n /\ \A i \in 1..n : q[i] \in Items
  BY DEF Lined
<1>2. \E i \in 1..n : q[i] = x
  BY DEF Lined
<1>3. pos \in 1..n /\ q[pos] = x
  BY <1>2
<1>4. Demote(q, x) = d
  BY <1>2 DEF Demote
<1> HIDE DEF n, pos
<1>5. d \in Seq(Items) /\ Len(d) = n /\ DOMAIN d = 1..n
  BY <1>1, <1>3
\* Where an item of q stands afterwards.
<1> DEFINE to(i) == IF i < pos THEN i ELSE IF i = pos THEN n ELSE i - 1
<1>6. \A i \in 1..n : to(i) \in 1..n /\ d[to(i)] = q[i]
  BY <1>1, <1>3
<1>7. \A j \in 1..n : \E i \in 1..n : j = to(i)
  <2> SUFFICES ASSUME NEW j \in 1..n PROVE \E i \in 1..n : j = to(i)
    OBVIOUS
  <2>1. CASE j < pos
    BY <1>1, <1>3, <2>1
  <2>2. CASE j >= pos /\ j < n
    <3>1. j + 1 \in 1..n /\ to(j + 1) = j
      BY <1>1, <1>3, <2>2
    <3>2. QED
      BY <3>1
  <2>3. CASE j = n
    <3>1. to(pos) = n
      BY <1>1, <1>3
    <3>2. QED
      BY <1>3, <2>3, <3>1
  <2>4. QED
    BY <1>1, <1>3, <2>1, <2>2, <2>3
<1>8. \A i, j \in 1..n : to(i) < to(j) <=>
        \/ i # pos /\ j = pos
        \/ (i = pos <=> j = pos) /\ i < j
  BY <1>1, <1>3
<1>9. \A i, j \in 1..n : q[i] = q[j] => i = j
  BY DEF Lined, n
<1> HIDE DEF d
<1>10. Lined(d, Items)
  <2>1. \A i, j \in 1..n : to(i) = to(j) => i = j
    BY <1>1, <1>3
  <2> HIDE DEF to
  <2>2. \A i, j \in 1..n : d[i] = d[j] => i = j
    BY <1>6, <1>7, <1>9
  <2>3. \A y \in Items : \E i \in 1..n : d[i] = y
    BY <1>6 DEF Lined, n
  <2>4. QED
    BY <1>5, <2>2, <2>3 DEF Lined
<1>11. \A i, j \in 1..n : <<d[i], d[j]>> \in OrderOf(d) <=> i < j
  BY <1>5, <1>10, OrderPairs
<1>12. \A i, j \in 1..n : <<q[i], q[j]>> \in OrderOf(q) <=> i < j
  BY OrderPairs DEF n
<1> HIDE DEF to
<1>13. ASSUME NEW y \in Items, NEW z \in Items
       PROVE  <<y, z>> \in OrderOf(d) <=> <<y, z>> \in MoveToTail(OrderOf(q), {x}, Items)
  <2>1. PICK i \in 1..n, j \in 1..n : q[i] = y /\ q[j] = z
    BY DEF Lined, n
  <2>2. (y = x <=> i = pos) /\ (z = x <=> j = pos)
    BY <1>3, <1>9, <2>1
  <2>3. <<y, z>> \in OrderOf(d) <=> to(i) < to(j)
    BY <1>6, <1>11, <2>1
  <2>4. <<y, z>> \in OrderOf(q) <=> i < j
    BY <1>12, <2>1
  <2>5. <<y, z>> \in MoveToTail(OrderOf(q), {x}, Items) <=>
          \/ y # x /\ z = x
          \/ (y = x <=> z = x) /\ <<y, z>> \in OrderOf(q)
    BY DEF MoveToTail
  <2>6. QED
    BY <1>8, <2>2, <2>3, <2>4, <2>5
<1>14. OrderOf(d) \subseteq Items \X Items
  BY <1>10, OrderPairs
<1>15. MoveToTail(OrderOf(q), {x}, Items) \subseteq Items \X Items
  BY DEF MoveToTail
<1>16. OrderOf(d) = MoveToTail(OrderOf(q), {x}, Items)
  BY <1>13, <1>14, <1>15
<1>17. QED
  BY <1>4, <1>5, <1>10, <1>16 DEF n

\* One turn of the loop: to demote x after the items of S, all of which stood
\* in front of it, is to demote S and x together (failure-axes.ts
\* propagateProviderAxis(), demoteModelAxis()).
LEMMA LoopTurn ==
  ASSUME NEW Items, NEW b, NEW S \in SUBSET Items, NEW x \in Items, x \notin S,
         IsQueueOf(b, Items), \A y \in S : <<y, x>> \in b
  PROVE  MoveToTail(MoveToTail(b, S, Items), {x}, Items) = MoveToTail(b, S \cup {x}, Items)
<1> DEFINE m == MoveToTail(b, S, Items)
           one == MoveToTail(m, {x}, Items)
           other == MoveToTail(b, S \cup {x}, Items)
<1>1. ASSUME NEW y \in Items, NEW z \in Items
      PROVE  /\ <<y, z>> \in m <=> \/ y \notin S /\ z \in S
                                   \/ (y \in S <=> z \in S) /\ <<y, z>> \in b
             /\ <<y, z>> \in MoveToTail(m, {x}, Items) <=>
                  \/ y # x /\ z = x
                  \/ (y = x <=> z = x) /\ <<y, z>> \in m
             /\ <<y, z>> \in MoveToTail(b, S \cup {x}, Items) <=>
                  \/ y \notin S \cup {x} /\ z \in S \cup {x}
                  \/ (y \in S \cup {x} <=> z \in S \cup {x}) /\ <<y, z>> \in b
  BY DEF MoveToTail
<1>2. \A y, z \in Items : <<y, z>> \in b => <<z, y>> \notin b
  BY DEF IsQueueOf
<1>3. ASSUME NEW y \in Items, NEW z \in Items
      PROVE  <<y, z>> \in one <=> <<y, z>> \in other
  BY <1>1, <1>2
<1>4. one \subseteq Items \X Items /\ other \subseteq Items \X Items
  BY DEF MoveToTail
<1> HIDE DEF one, other
<1>5. one = other
  <2>1. ASSUME NEW p \in Items \X Items PROVE p \in one <=> p \in other
    <3>1. PICK y \in Items, z \in Items : p = <<y, z>>
      OBVIOUS
    <3>2. QED
      BY <1>3, <3>1
  <2>2. QED
    BY <1>4, <2>1
<1>6. QED
  BY <1>5 DEF one, other, m

LEMMA LineIsQueue ==
  ASSUME NEW Items, NEW q, Lined(q, Items)
  PROVE  IsQueueOf(OrderOf(q), Items)
<1>1. OrderOf(q) \subseteq Items \X Items
  BY OrderPairs
<1>2. \A i, j \in 1..Len(q) : <<q[i], q[j]>> \in OrderOf(q) <=> i < j
  BY OrderPairs
<1>3. Len(q) \in Nat /\ \A i, j \in 1..Len(q) : q[i] = q[j] => i = j
  BY DEF Lined
<1>4. ASSUME NEW x \in Items, NEW y \in Items, NEW z \in Items
      PROVE  /\ <<x, x>> \notin OrderOf(q)
             /\ x # y => <<x, y>> \in OrderOf(q) \/ <<y, x>> \in OrderOf(q)
             /\ <<x, y>> \in OrderOf(q) /\ <<y, z>> \in OrderOf(q) => <<x, z>> \in OrderOf(q)
  <2>1. PICK i \in 1..Len(q), j \in 1..Len(q), k \in 1..Len(q) : q[i] = x /\ q[j] = y /\ q[k] = z
    BY DEF Lined
  <2>2. /\ <<x, x>> \in OrderOf(q) <=> i < i
        /\ <<x, y>> \in OrderOf(q) <=> i < j
        /\ <<y, x>> \in OrderOf(q) <=> j < i
        /\ <<y, z>> \in OrderOf(q) <=> j < k
        /\ <<x, z>> \in OrderOf(q) <=> i < k
    BY <1>2, <2>1
  <2>3. QED
    BY <1>3, <2>1, <2>2
<1>5. QED
  BY <1>1, <1>4 DEF IsQueueOf

\* The matches the loop has demoted so far.
Passed == { copy[i] : i \in 1..turn } \cap marked

LoopInv ==
  /\ Lined(copy, Item) /\ Lined(line, Item)
  /\ marked \subseteq Item /\ turn \in 0..Len(copy)
  /\ OrderOf(line) = MoveToTail(OrderOf(copy), Passed, Item)

\* For a queue of any length and any condition: the loop of demote() calls over a
\* copy of the queue moves the matches behind all the others, in their order
\* (failure-axes.ts propagateProviderAxis(), demoteModelAxis()).
THEOREM LoopMoves == LoopSpec => []LoopIsOneMove
<1>1. LoopInit => LoopInv
  <2> SUFFICES ASSUME LoopInit PROVE LoopInv
    OBVIOUS
  <2>1. Passed = {} /\ Len(copy) \in Nat
    BY DEF LoopInit, Passed, Lined
  <2>2. OrderOf(copy) \subseteq Item \X Item
    BY OrderPairs DEF LoopInit
  <2>3. MoveToTail(OrderOf(copy), {}, Item) = OrderOf(copy)
    BY <2>2 DEF MoveToTail
  <2>4. QED
    BY <2>1, <2>3 DEF LoopInit, LoopInv
<1>2. LoopInv /\ [NextItem]_<<copy, marked, turn, line>> => LoopInv'
  <2> SUFFICES ASSUME LoopInv, NextItem PROVE LoopInv'
    BY DEF LoopInv, Passed
  <2> DEFINE x == copy[turn + 1]
  <2>1. /\ Len(copy) \in Nat /\ turn + 1 \in 1..Len(copy) /\ x \in Item
        /\ turn' = turn + 1 /\ turn' \in 0..Len(copy) /\ copy' = copy /\ marked' = marked
    <3>1. Len(copy) \in Nat /\ turn \in 0..Len(copy) /\ turn < Len(copy) /\ copy \in Seq(Item)
      BY DEF LoopInv, NextItem, Lined
    <3>2. turn + 1 \in 1..Len(copy) /\ turn + 1 \in 0..Len(copy)
      BY <3>1
    <3>3. x \in Item
      BY <3>1, <3>2
    <3>4. QED
      BY <3>1, <3>2, <3>3 DEF NextItem
  <2>2. x \notin Passed /\ Passed \subseteq Item
    <3>1. \A i \in 1..turn : i \in 1..Len(copy) /\ i # turn + 1
      BY <2>1 DEF LoopInv
    <3>2. QED
      BY <2>1, <3>1 DEF LoopInv, Passed, Lined
  <2>3. Passed' = IF x \in marked THEN Passed \cup {x} ELSE Passed
    <3>1. \A i \in Int : i \in 1..turn' <=> i \in 1..turn \/ i = turn + 1
      BY <2>1 DEF LoopInv
    <3>2. 1..turn' = 1..turn \cup {turn + 1}
      BY <2>1, <3>1 DEF LoopInv
    <3>3. { copy'[i] : i \in 1..turn' } = { copy[i] : i \in 1..turn } \cup {x}
      BY <2>1, <3>2
    <3>4. QED
      BY <2>1, <3>3 DEF Passed
  <2>4. CASE x \notin marked
    BY <2>1, <2>3, <2>4 DEF LoopInv, NextItem
  <2>5. CASE x \in marked
    <3>1. line' = Demote(line, x)
      BY <2>5 DEF NextItem
    <3>2. /\ Lined(line', Item)
          /\ OrderOf(line') = MoveToTail(OrderOf(line), {x}, Item)
      BY <2>1, <3>1, DemoteMovesToTail DEF LoopInv
    <3>3. IsQueueOf(OrderOf(copy), Item)
      BY LineIsQueue DEF LoopInv
    <3>4. ASSUME NEW y \in Passed PROVE <<y, x>> \in OrderOf(copy)
      <4>1. PICK i \in 1..turn : y = copy[i]
        BY DEF Passed
      <4>2. i \in 1..Len(copy) /\ i < turn + 1
        BY <2>1 DEF LoopInv
      <4>3. QED
        BY <2>1, <4>1, <4>2, OrderPairs DEF LoopInv
    <3>5. OrderOf(line') = MoveToTail(OrderOf(copy), Passed \cup {x}, Item)
      BY <2>1, <2>2, <3>2, <3>3, <3>4, LoopTurn DEF LoopInv
    <3>6. QED
      BY <2>1, <2>3, <2>5, <3>2, <3>5 DEF LoopInv
  <2>6. QED
    BY <2>4, <2>5
<1>3. LoopInv => LoopIsOneMove
  <2> SUFFICES ASSUME LoopInv, turn = Len(copy) PROVE Passed = marked
    BY DEF LoopInv, LoopIsOneMove
  <2>1. \A x \in marked : \E i \in 1..turn : copy[i] = x
    BY DEF LoopInv, Lined
  <2>2. QED
    BY <2>1 DEF Passed
<1>4. QED
  BY <1>1, <1>2, <1>3, PTL DEF LoopSpec

-----------------------------------------------------------------------------
(***************************************************************************)
(* The key pool.  PoolIInv adds to PoolInv that every walk, wherever it    *)
(* stands, has slots and keys of the pool in hand, and that both queues    *)
(* stay lines of all keys, which is what a demote() of them relies on.     *)
(***************************************************************************)
IsWalk ==
  [ pc : {"idle", "pass", "wait"}, todo : SUBSET Slot, ord : SUBSET (Slot \X Slot),
    rest : SUBSET Slot, slot : Slot \cup {NoKey}, key : Key \cup {NoKey} ]

Lines ==
  /\ Lined(keyOrder, Key) /\ Len(keyOrder) = KeyCount
  /\ Lined(slotOrder, Slot) /\ Len(slotOrder) = KeyCount

Walks ==
  /\ walk \in [Request -> IsWalk]
  /\ \A r \in Request : /\ walk[r].pc = "wait" <=> walk[r].key \in Key
                        /\ walk[r].pc = "wait" <=> walk[r].slot \in Slot

Cooldowns == until \in [Slot -> 0..Cooldown]

\* FifoOnFailure, as a relation.
Fifo ==
  /\ failedSince \in [Key -> SUBSET Key]
  /\ \A k, l \in Key : <<k, l>> \in OrderOf(keyOrder) => l \in failedSince[k]

PoolIInv == Lines /\ Walks /\ Cooldowns /\ Fifo

LEMMA PoolInit == Init => PoolIInv
<1> SUFFICES ASSUME Init PROVE PoolIInv
  OBVIOUS
<1>1. /\ KeyCount \in Nat \ {0} /\ Cooldown \in Nat /\ NoKey \notin Key
      /\ keyOrder = Numeric /\ slotOrder = Numeric
  BY PoolAssumption DEF Init
<1>2. Lined(Numeric, Key) /\ Len(Numeric) = KeyCount
  <2>1. Numeric \in Seq(Key) /\ Len(Numeric) = KeyCount
    BY <1>1 DEF Numeric, Key
  <2>2. \A i \in 1..KeyCount : Numeric[i] = i - 1
    BY DEF Numeric
  <2>3. ASSUME NEW x \in Key PROVE \E i \in 1..Len(Numeric) : Numeric[i] = x
    <3>1. x + 1 \in 1..KeyCount /\ Numeric[x + 1] = x
      BY <1>1, <2>2 DEF Key
    <3>2. QED
      BY <2>1, <3>1
  <2>4. QED
    BY <1>1, <2>1, <2>2, <2>3 DEF Lined
<1>3. Walks
  BY <1>1 DEF Init, Walks, NoWalk, IsWalk, Slot
<1>4. Cooldowns /\ Fifo
  <2>1. until = [s \in Slot |-> 0] /\ failedSince = [k \in Key |-> Key] /\ 0 \in 0..Cooldown
    BY <1>1 DEF Init
  <2>2. QED
    BY <2>1 DEF Cooldowns, Fifo
<1>5. QED
  BY <1>1, <1>2, <1>3, <1>4 DEF PoolIInv, Lines, Slot

\* The key that at() finds for a slot.
LEMMA AtSlot == ASSUME Lines, NEW s \in Slot PROVE At(keyOrder, s) \in Key
<1>1. KeyCount \in Nat \ {0} /\ s \in 0..(KeyCount - 1)
  BY PoolAssumption DEF Slot, Key
<1>2. (s % KeyCount) + 1 \in 1..KeyCount
  BY <1>1
<1>3. keyOrder \in Seq(Key) /\ Len(keyOrder) = KeyCount
  BY DEF Lines, Lined
<1>4. QED
  BY <1>2, <1>3 DEF At

\* A pass over S, as its walk sees it.
LEMMA PassTyped ==
  ASSUME Lines, NEW w \in IsWalk, NEW S \in SUBSET Slot
  PROVE  /\ EnterPass(w, S) = [w EXCEPT !.pc = "pass", !.todo = S,
                                        !.ord = Within(OrderOf(slotOrder), S)]
         /\ Within(OrderOf(slotOrder), S) \in SUBSET (Slot \X Slot)
         /\ EnterPass(w, S) \in IsWalk /\ EnterPass(w, S).pc = "pass"
         /\ EnterPass(w, S).key = w.key /\ EnterPass(w, S).slot = w.slot
<1>1. Within(OrderOf(slotOrder), S) \in SUBSET (Slot \X Slot)
  BY OrderPairs DEF Lines, Within
<1>2. QED
  BY <1>1 DEF EnterPass, IsWalk

\* What stands in front of the others after demote(k) of the key queue.
LEMMA FifoAfter ==
  ASSUME Lines, Fifo, NEW k \in Key, keyOrder' = Demote(keyOrder, k),
         failedSince' = [x \in Key |-> IF x = k THEN {} ELSE failedSince[x] \cup {k}]
  PROVE  Fifo'
<1>1. OrderOf(keyOrder)' = MoveToTail(OrderOf(keyOrder), {k}, Key)
  BY DemoteMovesToTail DEF Lines
<1>2. ASSUME NEW x \in Key, NEW y \in Key, <<x, y>> \in OrderOf(keyOrder)'
      PROVE  y \in failedSince'[x]
  <2>1. \/ x # k /\ y = k
        \/ (x = k <=> y = k) /\ <<x, y>> \in OrderOf(keyOrder)
    BY <1>1, <1>2 DEF MoveToTail
  <2>2. ASSUME x = k, y = k PROVE <<x, y>> \notin OrderOf(keyOrder)
    <3>1. PICK i \in 1..Len(keyOrder) : keyOrder[i] = k
      BY DEF Lines, Lined
    <3>2. <<keyOrder[i], keyOrder[i]>> \in OrderOf(keyOrder) <=> i < i
      BY OrderPairs DEF Lines
    <3>3. QED
      BY <2>2, <3>1, <3>2
  <2>3. x # k /\ (y = k \/ <<x, y>> \in OrderOf(keyOrder))
    BY <2>1, <2>2
  <2>4. QED
    BY <2>3 DEF Fifo
<1>3. failedSince' \in [Key -> SUBSET Key]
  BY DEF Fifo
<1>4. QED
  BY <1>2, <1>3 DEF Fifo

LEMMA QueueStep == ASSUME PoolIInv, [Next]_vars PROVE Lines' /\ Fifo'
<1>1. ASSUME NEW r \in Request, NEW limited \in BOOLEAN, Refuse(r, limited)
      PROVE  Lines' /\ Fifo'
  <2>1. /\ walk[r].key \in Key /\ walk[r].slot \in Slot
        /\ keyOrder' = Demote(keyOrder, walk[r].key)
        /\ slotOrder' = Demote(slotOrder, walk[r].slot)
        /\ failedSince' = [x \in Key |-> IF x = walk[r].key THEN {}
                                         ELSE failedSince[x] \cup {walk[r].key}]
    BY <1>1 DEF Refuse, PoolIInv, Walks
  <2>2. Lines'
    BY <2>1, DemoteMovesToTail DEF PoolIInv, Lines
  <2>3. Fifo'
    BY <2>1, FifoAfter DEF PoolIInv
  <2>4. QED
    BY <2>2, <2>3
<1>2. ASSUME NEW r \in Request, Flap(r) PROVE Lines' /\ Fifo'
  <2>1. /\ walk[r].slot \in Slot /\ UNCHANGED <<keyOrder, failedSince>>
        /\ slotOrder' = Demote(slotOrder, walk[r].slot)
    BY <1>2 DEF Flap, PoolIInv, Walks
  <2>2. QED
    BY <2>1, DemoteMovesToTail DEF PoolIInv, Lines, Fifo
<1>3. CASE UNCHANGED <<keyOrder, slotOrder, failedSince>>
  BY <1>3 DEF PoolIInv, Lines, Fifo
<1>4. QED
  BY <1>1, <1>2, <1>3 DEF Next, Start, Dispatch, Serve, PassEnds, Tick, vars

LEMMA WalkStep == ASSUME PoolIInv, [Next]_vars PROVE Walks' /\ Cooldowns'
<1>1. /\ NoKey \notin Key /\ Key = Slot /\ Cooldown \in Nat
      /\ NoWalk \in IsWalk /\ NoWalk.pc = "idle" /\ NoWalk.key = NoKey /\ NoWalk.slot = NoKey
  BY PoolAssumption DEF Slot, NoWalk, IsWalk
<1>2. ASSUME NEW r \in Request, NEW w \in IsWalk, walk' = [walk EXCEPT ![r] = w],
             w.pc = "wait" <=> w.key \in Key, w.pc = "wait" <=> w.slot \in Slot
      PROVE  Walks'
  BY <1>2 DEF PoolIInv, Walks
<1>3. ASSUME NEW r \in Request PROVE walk[r] \in IsWalk
  BY DEF PoolIInv, Walks
<1>4. ASSUME NEW r \in Request, Start(r) PROVE Walks' /\ Cooldowns'
  <2> DEFINE first == EligibleOf(slotOrder, until)
             w == [NoWalk EXCEPT !.rest = Slot \ first]
  <2>1. first \in SUBSET Slot
    BY DEF PoolIInv, Lines, Lined, EligibleOf, ToSet
  <2>2. w \in IsWalk /\ w.key = NoKey /\ w.slot = NoKey
    BY <1>1, <2>1 DEF IsWalk
  <2>3. /\ EnterPass(w, first) \in IsWalk /\ EnterPass(w, first).pc = "pass"
        /\ EnterPass(w, first).key = NoKey /\ EnterPass(w, first).slot = NoKey
    BY <2>1, <2>2, PassTyped DEF PoolIInv
  <2>4. walk' = [walk EXCEPT ![r] = EnterPass(w, first)] /\ until' = until
    BY <1>4 DEF Start
  <2> HIDE DEF w, first
  <2>5. QED
    BY <1>1, <1>2, <2>3, <2>4 DEF PoolIInv, Cooldowns
<1>5. ASSUME NEW r \in Request, Dispatch(r) PROVE Walks' /\ Cooldowns'
  <2>1. PICK s \in Foremost(walk[r].ord, walk[r].todo) :
          LET left == walk[r].todo \ {s}
          IN  walk' = [walk EXCEPT ![r] =
                        [walk[r] EXCEPT !.pc = "wait", !.slot = s, !.key = At(keyOrder, s),
                                        !.todo = left, !.ord = Within(@, left)]]
    BY <1>5 DEF Dispatch
  <2> DEFINE left == walk[r].todo \ {s}
             w == [walk[r] EXCEPT !.pc = "wait", !.slot = s, !.key = At(keyOrder, s),
                                  !.todo = left, !.ord = Within(walk[r].ord, left)]
  <2>2. s \in Slot /\ left \in SUBSET Slot
    BY <1>3 DEF Foremost, IsWalk
  <2>3. At(keyOrder, s) \in Key
    BY <2>2, AtSlot DEF PoolIInv
  <2>4. Within(walk[r].ord, left) \in SUBSET (Slot \X Slot)
    BY <1>3 DEF Within, IsWalk
  <2>5. w \in IsWalk /\ w.pc = "wait" /\ w.key \in Key /\ w.slot \in Slot
    BY <1>3, <2>2, <2>3, <2>4 DEF IsWalk
  <2>6. walk' = [walk EXCEPT ![r] = w] /\ until' = until
    BY <1>5, <2>1 DEF Dispatch
  <2> HIDE DEF w
  <2>7. QED
    BY <1>2, <2>5, <2>6 DEF PoolIInv, Cooldowns
<1>6. ASSUME NEW r \in Request, Serve(r) PROVE Walks' /\ Cooldowns'
  BY <1>1, <1>2, <1>6 DEF Serve, PoolIInv, Cooldowns
<1>7. ASSUME NEW r \in Request, walk' = [walk EXCEPT ![r] = NextSlot(walk[r])] PROVE Walks'
  <2>1. /\ NextSlot(walk[r]) \in IsWalk /\ NextSlot(walk[r]).pc = "pass"
        /\ NextSlot(walk[r]).key = NoKey /\ NextSlot(walk[r]).slot = NoKey
    BY <1>3 DEF NextSlot, IsWalk
  <2>2. QED
    BY <1>1, <1>2, <1>7, <2>1
<1>8. ASSUME NEW r \in Request, NEW limited \in BOOLEAN, Refuse(r, limited)
      PROVE  Walks' /\ Cooldowns'
  <2>1. CASE limited
    <3>1. until' = [until EXCEPT ![walk[r].slot] = Cooldown] /\ Cooldown \in 0..Cooldown
      BY <1>1, <1>8, <2>1 DEF Refuse
    <3>2. Cooldowns'
      BY <3>1 DEF PoolIInv, Cooldowns
    <3>3. QED
      BY <1>7, <1>8, <3>2 DEF Refuse
  <2>2. CASE ~limited
    BY <1>7, <1>8, <2>2 DEF Refuse, PoolIInv, Cooldowns
  <2>3. QED
    BY <2>1, <2>2
<1>9. ASSUME NEW r \in Request, Flap(r) PROVE Walks' /\ Cooldowns'
  BY <1>7, <1>9 DEF Flap, PoolIInv, Cooldowns
<1>10. ASSUME NEW r \in Request, PassEnds(r) PROVE Walks' /\ Cooldowns'
  <2>1. CASE walk[r].rest = {}
    BY <1>1, <1>2, <1>10, <2>1 DEF PassEnds, PoolIInv, Cooldowns
  <2>2. CASE walk[r].rest # {}
    <3> DEFINE w == [walk[r] EXCEPT !.rest = {}]
               v == EnterPass(w, walk[r].rest)
    <3>1. w \in IsWalk /\ w.key = walk[r].key /\ w.slot = walk[r].slot
      BY <1>3 DEF IsWalk
    <3>2. walk[r].rest \in SUBSET Slot /\ walk[r].pc = "pass"
      BY <1>3, <1>10 DEF IsWalk, PassEnds
    <3>3. v \in IsWalk /\ v.pc = "pass" /\ v.key = w.key /\ v.slot = w.slot
      BY <3>1, <3>2, PassTyped DEF PoolIInv
    <3>4. walk' = [walk EXCEPT ![r] = v] /\ until' = until
      BY <1>10, <2>2 DEF PassEnds
    <3>5. walk[r].key \notin Key /\ walk[r].slot \notin Slot
      BY <3>2 DEF PoolIInv, Walks
    <3> HIDE DEF w, v
    <3>6. QED
      BY <1>2, <3>1, <3>3, <3>4, <3>5 DEF PoolIInv, Cooldowns
  <2>3. QED
    BY <2>1, <2>2
<1>11. CASE Tick
  BY <1>1, <1>11 DEF Tick, PoolIInv, Walks, Cooldowns
<1>12. CASE UNCHANGED vars
  BY <1>12 DEF vars, PoolIInv, Walks, Cooldowns
<1>13. QED
  BY <1>4, <1>5, <1>6, <1>8, <1>9, <1>10, <1>11, <1>12 DEF Next

LEMMA PoolInvariant == Spec => []PoolIInv
<1>1. PoolIInv /\ [Next]_vars => PoolIInv'
  BY QueueStep, WalkStep DEF PoolIInv
<1>2. QED
  BY <1>1, PoolInit, PTL DEF Spec

\* The pool always stands in the order in which its keys failed last, for any
\* number of keys and of walks that overlap and demote under each other, although
\* a key is looked up by the slot when it is dispatched and demoted by itself when
\* the answer comes (openrouter.ts attempt()).
THEOREM PoolStaysFifo == Spec => []PoolInv
<1>1. ASSUME PoolIInv PROVE PoolInv
  <2>1. ASSUME NEW q, NEW Items, Lined(q, Items), Len(q) = KeyCount
        PROVE  q \in [1..KeyCount -> Items] /\ ToSet(q) = Items
    BY <2>1 DEF Lined, ToSet
  <2>2. TypeOK
    <3>1. /\ keyOrder \in [1..KeyCount -> Key] /\ ToSet(keyOrder) = Key
          /\ slotOrder \in [1..KeyCount -> Slot] /\ ToSet(slotOrder) = Slot
      BY <1>1, <2>1 DEF PoolIInv, Lines
    <3>2. QED
      BY <1>1, <3>1 DEF PoolIInv, Walks, IsWalk, Cooldowns, TypeOK
  <2>3. ASSUME NEW i \in 1..KeyCount, NEW j \in 1..KeyCount, i < j
        PROVE  keyOrder[j] \in failedSince[keyOrder[i]]
    <3>1. <<keyOrder[i], keyOrder[j]>> \in OrderOf(keyOrder)
      BY <1>1, <2>3, OrderPairs DEF PoolIInv, Lines
    <3>2. keyOrder[i] \in Key /\ keyOrder[j] \in Key
      BY <2>2 DEF TypeOK
    <3>3. QED
      BY <1>1, <3>1, <3>2 DEF PoolIInv, Fifo
  <2>4. QED
    BY <2>2, <2>3 DEF PoolInv, FifoOnFailure
<1>2. QED
  BY <1>1, PoolInvariant, PTL

\* Both queues, spliced and pushed as in rotation.ts, implement RotatingOrder for
\* any number of keys: no step of the pool or the chain loses, doubles or shuffles
\* what it does not demote.
THEOREM PoolRotates == Spec => QueuesRotate
<1>1. Init => KeyLine!LineUp /\ SlotLine!LineUp
  BY DEF Init, KeyLine!LineUp, SlotLine!LineUp
<1>2. PoolIInv /\ [Next]_vars
        => [KeyLine!MoveSome]_(OrderOf(keyOrder)) /\ [SlotLine!MoveSome]_(OrderOf(slotOrder))
  <2> SUFFICES ASSUME PoolIInv, Next
               PROVE  /\ KeyLine!MoveSome \/ OrderOf(keyOrder)' = OrderOf(keyOrder)
                      /\ SlotLine!MoveSome \/ OrderOf(slotOrder)' = OrderOf(slotOrder)
    BY DEF vars
  <2>1. ASSUME NEW k \in Key, keyOrder' = Demote(keyOrder, k) PROVE KeyLine!MoveSome
    <3>1. OrderOf(keyOrder)' = MoveToTail(OrderOf(keyOrder), {k}, Key)
      BY <2>1, DemoteMovesToTail DEF PoolIInv, Lines
    <3>2. {k} \in SUBSET Key
      OBVIOUS
    <3>3. QED
      BY <3>1, <3>2 DEF KeyLine!MoveSome, KeyLine!MoveToTail, MoveToTail
  <2>2. ASSUME NEW s \in Slot, slotOrder' = Demote(slotOrder, s) PROVE SlotLine!MoveSome
    <3>1. OrderOf(slotOrder)' = MoveToTail(OrderOf(slotOrder), {s}, Slot)
      BY <2>2, DemoteMovesToTail DEF PoolIInv, Lines
    <3>2. {s} \in SUBSET Slot
      OBVIOUS
    <3>3. QED
      BY <3>1, <3>2 DEF SlotLine!MoveSome, SlotLine!MoveToTail, MoveToTail
  <2>3. ASSUME NEW r \in Request, NEW limited \in BOOLEAN, Refuse(r, limited)
        PROVE  KeyLine!MoveSome /\ SlotLine!MoveSome
    BY <2>1, <2>2, <2>3 DEF Refuse, PoolIInv, Walks
  <2>4. ASSUME NEW r \in Request, Flap(r) PROVE SlotLine!MoveSome /\ keyOrder' = keyOrder
    BY <2>2, <2>4 DEF Flap, PoolIInv, Walks
  <2>5. CASE UNCHANGED <<keyOrder, slotOrder>>
    BY <2>5
  <2>6. QED
    BY <2>3, <2>4, <2>5 DEF Next, Start, Dispatch, Serve, PassEnds, Tick
<1>3. QED
  BY <1>1, <1>2, PoolInvariant, PTL DEF Spec, QueuesRotate, KeyLine!Rotation, SlotLine!Rotation
=============================================================================
