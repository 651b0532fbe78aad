-------------------------- MODULE WorkerQueueProofs --------------------------
(***************************************************************************)
(* Proofs about WorkerQueue, for any jobs, any finite set of list nodes,   *)
(* any number of thieves and any capacity of at least two: the queue is a  *)
(* bag of jobs, under the weak memory of its owner, and its lists share no *)
(* nodes.                                                                  *)
(***************************************************************************)
EXTENDS WorkerQueue, LinkedListProofs, FiniteSetTheorems, TLAPS

(* The element of the deque at an index, as its owner sees it.             *)
Cell(i) == OwnCell(Slot(i))
Indices == top .. Limit - 1

(* The counters of the deque: all that other threads can see of m_bottom   *)
(* is at most one claim ahead, and never more than the ring holds.         *)
DequeInv ==
    /\ top <= Limit /\ Limit <= top + Capacity /\ bottom <= Limit
    /\ owner.at = "last" => buffer = <<>> /\ owner.bottom <= top
    /\ buffer = <<>> => bottom = owner.bottom
    /\ buffer # <<>> => buffer[Len(buffer)] = BottomStore(owner.bottom)

(* The store buffer: but for the claim of pop() at its end, it raises      *)
(* m_bottom, and each cell is stored before m_bottom passes it.            *)
IsCell(k) == k \in DOMAIN buffer /\ buffer[k].to = "cell"
Raises(k) == k \in DOMAIN buffer /\ (k = Len(buffer) => owner.at # "top")
BufferInv ==
    /\ \A k \in DOMAIN buffer : Raises(k) =>
          bottom <= buffer[k].index /\ buffer[k].index <= Limit
    /\ \A k \in DOMAIN buffer : IsCell(k) =>
          buffer[k].job \in Jobs /\ top <= buffer[k].index /\ buffer[k].index < Limit
    /\ \A j, k \in DOMAIN buffer : j < k /\ Raises(k) =>
          /\ buffer[j].index <= buffer[k].index
          /\ IsCell(j) /\ IsCell(k) => buffer[j].index < buffer[k].index

(* A thief whose top is still the deque's holds an index that the owner    *)
(* can only pop by an exchange of m_top, and whose cell is in memory.      *)
ThiefInv ==
    \A t \in Thieves :
        /\ thief[t].at # "idle" => thief[t].top <= top
        /\ thief[t].at \in {"cell", "cas"} /\ thief[t].top = top =>
              top < Limit /\ \A k \in DOMAIN buffer : IsCell(k) => buffer[k].index # top
        /\ thief[t].at = "cas" /\ thief[t].top = top => thief[t].job = Cell(top)

(* The lists share no nodes, and none comes back to a node.                *)
Held == IF owner.at = "free" THEN {owner.node} ELSE {}
Listed == Overflow \cup Chain(inbox)
ListInv ==
    /\ owner.at = "free" => owner.node \in Items
    /\ Acyclic(Items, next, inbox) /\ Acyclic(Items, next, Rest)
    /\ freeItems \cap Listed = {} /\ freeItems \cap Held = {}
    /\ Overflow \cap Chain(inbox) = {} /\ Held \cap Listed = {}
    /\ freeItems \cup Listed \cup Held = Items

(* Every job that was submitted and not taken is in one element of the     *)
(* deque, or in one node of the lists.                                     *)
ContentInv ==
    /\ \A i \in Indices : Cell(i) \in Jobs
    /\ \A i, j \in Indices : Cell(i) = Cell(j) => i = j
    /\ \A n \in Listed : job[n] \in Jobs
    /\ \A m, n \in Listed : job[m] = job[n] => m = n
    /\ \A i \in Indices, n \in Listed : Cell(i) # job[n]
    /\ \A j \in Jobs : j \in added <=> j \in InQueue \/ taken[j] = 1
    /\ \A j \in InQueue : taken[j] = 0

(* The inductive invariant.                                                *)
QueueInv == TypeOK /\ DequeInv /\ BufferInv /\ ThiefInv /\ ListInv /\ ContentInv

(* The types of a store, of the owner and of a thief.                      *)
Stores == [to : {"cell", "bottom"}, index : Nat, job : Jobs \cup {None}]
Owners == [at : {"idle", "begin", "top", "last", "lists", "drain", "free"},
           bottom : Nat, second : BOOLEAN,
           node : Items \cup {None}, next : Items \cup {None}]
Stealers == [at : {"idle", "bottom", "cell", "cas"}, top : Nat, job : Jobs \cup {None}]

-----------------------------------------------------------------------------
(* Numbers less than a divisor apart have different remainders.            *)
LEMMA RemaindersDiffer ==
    ASSUME NEW C \in Nat \ {0}, NEW i \in Nat, NEW j \in Nat, i < j, j < i + C
    PROVE  i % C # j % C
<1> SUFFICES ASSUME i % C = j % C PROVE FALSE
  OBVIOUS
<1> DEFINE p == i \div C
           q == j \div C
<1>1. i = C * (i \div C) + (i % C) /\ j = C * (j \div C) + (j % C)
  OBVIOUS
<1>2. p \in Int /\ q \in Int
  OBVIOUS
<1>3. j - i = C * (q - p)
  BY <1>1, <1>2
<1> HIDE DEF p, q
<1>4. q - p \in Int
  BY <1>2
<1>5. CASE q - p <= 0
  BY <1>3, <1>4, <1>5
<1>6. CASE q - p >= 1
  BY <1>3, <1>4, <1>6
<1> QED
  BY <1>4, <1>5, <1>6

USE CapacityAssumption, NoneAssumption, ItemsAssumption

(* Indices less than the capacity apart have cells of their own.           *)
LEMMA SlotsDiffer ==
    ASSUME NEW i \in Nat, NEW j \in Nat, i < j, j < i + Capacity
    PROVE  Slot(i) # Slot(j)
BY RemaindersDiffer DEF Slot

(* The cell of an index.                                                   *)
LEMMA SlotType ==
    ASSUME NEW i \in Nat
    PROVE  Slot(i) \in 0 .. Capacity - 1
BY DEF Slot

(* What the greatest element of a set is.                                  *)
LEMMA MaxIs ==
    ASSUME NEW S \in SUBSET Nat, NEW k \in S, \A y \in S : y <= k
    PROVE  Max(S) = k
<1>1. \A x \in S : (\A y \in S : x >= y) => x = k
  OBVIOUS
<1>2. \E x \in S : \A y \in S : x >= y
  OBVIOUS
<1> QED
  BY <1>1, <1>2 DEF Max

(* A cell that no store is pending for is read from memory.                *)
LEMMA CellInMemory ==
    ASSUME TypeOK, NEW c, \A k \in DOMAIN buffer : IsCell(k) => Slot(buffer[k].index) # c
    PROVE  OwnCell(c) = ring[c]
BY DEF OwnCell, IsCell

(* The types of the numbers and of the stores.                             *)
LEMMA Numbers ==
    ASSUME QueueInv
    PROVE  /\ top \in Nat /\ bottom \in Nat /\ owner.bottom \in Nat /\ Limit \in Nat
           /\ buffer \in Seq(Stores) /\ Len(buffer) \in Nat
           /\ DOMAIN buffer = 1 .. Len(buffer)
           /\ \A k \in DOMAIN buffer : buffer[k] \in Stores /\ buffer[k].index \in Nat
<1>1. /\ top \in Nat /\ bottom \in Nat /\ owner.bottom \in Nat
      /\ buffer \in Seq(Stores)
  BY DEF QueueInv, TypeOK, Stores
<1>2. Limit \in Nat
  BY <1>1 DEF Limit
<1>3. Len(buffer) \in Nat /\ DOMAIN buffer = 1 .. Len(buffer)
  BY <1>1
<1>4. \A k \in DOMAIN buffer : buffer[k] \in Stores
  BY <1>1, <1>3
<1> QED
  BY <1>1, <1>2, <1>3, <1>4 DEF Stores

(* At most one store is pending for a cell, and the owner reads it.        *)
LEMMA PendingIsUnique ==
    ASSUME QueueInv, NEW j \in DOMAIN buffer, NEW k \in DOMAIN buffer, IsCell(j), IsCell(k),
           Slot(buffer[j].index) = Slot(buffer[k].index)
    PROVE  j = k
<1>1. /\ buffer[j].index \in Nat /\ buffer[k].index \in Nat /\ top \in Nat
      /\ j \in Nat /\ k \in Nat
  BY Numbers
<1>2. /\ top <= buffer[j].index /\ buffer[j].index < top + Capacity
      /\ top <= buffer[k].index /\ buffer[k].index < top + Capacity
  <2>1. owner.bottom \in Nat
    BY DEF QueueInv, TypeOK
  <2>2. Limit \in Nat /\ Limit <= top + Capacity
    BY <2>1 DEF Limit, QueueInv, DequeInv
  <2> QED
    BY <1>1, <2>2 DEF QueueInv, BufferInv
<1>3. buffer[j].index = buffer[k].index
  BY <1>1, <1>2, SlotsDiffer
<1>4. Raises(j) /\ Raises(k)
  <2>1. \A n \in DOMAIN buffer : IsCell(n) => n # Len(buffer)
    BY DEF QueueInv, TypeOK, DequeInv, IsCell, BottomStore
  <2> QED
    BY <2>1 DEF Raises
<1> QED
  BY <1>1, <1>3, <1>4 DEF QueueInv, BufferInv

(* The owner reads the store that is pending for a cell.                   *)
LEMMA CellPending ==
    ASSUME QueueInv, NEW k \in DOMAIN buffer, IsCell(k)
    PROVE  OwnCell(Slot(buffer[k].index)) = buffer[k].job
<1> DEFINE mine == {n \in DOMAIN buffer :
                       buffer[n].to = "cell" /\ Slot(buffer[n].index) = Slot(buffer[k].index)}
<1>1. mine = {k}
  BY PendingIsUnique DEF IsCell
<1>2. k \in Nat
  BY DEF QueueInv, TypeOK
<1>3. Max(mine) = k
  BY <1>1, <1>2, MaxIs
<1> QED
  BY <1>1, <1>3 DEF OwnCell

(* What the owner reads: the pending store, if there is one.               *)
LEMMA CellIs ==
    ASSUME QueueInv, NEW c
    PROVE  \/ /\ \A k : ~(IsCell(k) /\ Slot(buffer[k].index) = c)
              /\ OwnCell(c) = ring[c]
           \/ \E k \in DOMAIN buffer :
                 /\ \A n : IsCell(n) /\ Slot(buffer[n].index) = c <=> n = k
                 /\ OwnCell(c) = buffer[k].job
<1>1. CASE \A k : ~(IsCell(k) /\ Slot(buffer[k].index) = c)
  BY <1>1, CellInMemory DEF QueueInv
<1>2. ASSUME NEW k, IsCell(k), Slot(buffer[k].index) = c
      PROVE  /\ \A n : IsCell(n) /\ Slot(buffer[n].index) = c <=> n = k
             /\ OwnCell(c) = buffer[k].job /\ k \in DOMAIN buffer
  BY <1>2, CellPending, PendingIsUnique DEF IsCell
<1> QED
  BY <1>1, <1>2

(* When the buffer has the same stores to a cell, in the same places.      *)
LEMMA CellStays ==
    ASSUME QueueInv, NEW c, ring'[c] = ring[c],
           \A k \in DOMAIN buffer : IsCell(k) => buffer'[k] = buffer[k],
           \A k : IsCell(k)' /\ Slot(buffer'[k].index) = c <=>
                     IsCell(k) /\ Slot(buffer[k].index) = c
    PROVE  OwnCell(c)' = OwnCell(c)
<1> DEFINE mine == {k \in DOMAIN buffer :
                       buffer[k].to = "cell" /\ Slot(buffer[k].index) = c}
<1>1. \A k : k \in mine <=> IsCell(k) /\ Slot(buffer[k].index) = c
  BY DEF IsCell
<1>2. \A k : k \in mine' <=> IsCell(k)' /\ Slot(buffer'[k].index) = c
  BY DEF IsCell
<1>3. mine' = mine
  BY <1>1, <1>2
<1>4. CASE mine = {}
  BY <1>3, <1>4 DEF OwnCell
<1>5. CASE mine # {}
  <2>1. PICK k \in DOMAIN buffer : mine = {k}
    BY <1>1, <1>5, PendingIsUnique
  <2>2. k \in Nat
    BY <2>1 DEF QueueInv, TypeOK
  <2>3. Max({k}) = k
    BY <2>2, MaxIs
  <2>4. OwnCell(c) = buffer[k].job /\ OwnCell(c)' = buffer'[k].job
    BY <1>3, <2>1, <2>3 DEF OwnCell
  <2>5. IsCell(k)
    BY <1>1, <2>1
  <2> QED
    BY <2>4, <2>5
<1> QED
  BY <1>4, <1>5

-----------------------------------------------------------------------------
(* A store to m_bottom joins the buffer; cells stay what they are.         *)
LEMMA BottomStored ==
    ASSUME QueueInv, NEW b \in Nat, buffer' = Append(buffer, BottomStore(b)), ring' = ring
    PROVE  /\ buffer' \in Seq(Stores) /\ buffer' # <<>>
           /\ Len(buffer') = Len(buffer) + 1 /\ Len(buffer) \in Nat
           /\ DOMAIN buffer = 1 .. Len(buffer) /\ DOMAIN buffer' = 1 .. Len(buffer) + 1
           /\ \A k \in DOMAIN buffer : buffer'[k] = buffer[k]
           /\ buffer'[Len(buffer) + 1] = BottomStore(b)
           /\ \A k : IsCell(k)' <=> IsCell(k)
           /\ \A c : OwnCell(c)' = OwnCell(c)
<1>1. BottomStore(b) \in Stores /\ buffer \in Seq(Stores)
  BY DEF BottomStore, Stores, TypeOK, QueueInv
<1>2. /\ buffer' \in Seq(Stores) /\ buffer' # <<>>
      /\ Len(buffer') = Len(buffer) + 1 /\ Len(buffer) \in Nat
      /\ DOMAIN buffer = 1 .. Len(buffer) /\ DOMAIN buffer' = 1 .. Len(buffer) + 1
      /\ \A k \in DOMAIN buffer : buffer'[k] = buffer[k]
      /\ buffer'[Len(buffer) + 1] = BottomStore(b)
  BY <1>1
<1>3. \A k : IsCell(k)' <=> IsCell(k)
  BY <1>2 DEF IsCell, BottomStore
<1>4. ASSUME NEW c PROVE OwnCell(c)' = OwnCell(c)
  <2>1. \A k : IsCell(k) => buffer'[k] = buffer[k]
    BY <1>2 DEF IsCell
  <2> QED
    BY <1>3, <2>1, CellStays
<1> QED
  BY <1>2, <1>3, <1>4

(* A push stores to the cell of the index at the limit, which no element   *)
(* has when the ring is not full, and then raises m_bottom.                *)
LEMMA Pushed ==
    ASSUME QueueInv, NEW j \in Jobs, DequePush(j), ~Full(owner.bottom),
           owner.at \notin {"top", "last"}
    PROVE  /\ buffer' \in Seq(Stores) /\ buffer' # <<>>
           /\ Len(buffer') = Len(buffer) + 2 /\ Len(buffer) \in Nat
           /\ DOMAIN buffer = 1 .. Len(buffer) /\ DOMAIN buffer' = 1 .. Len(buffer) + 2
           /\ \A k \in DOMAIN buffer : buffer'[k] = buffer[k]
           /\ buffer'[Len(buffer) + 1] = CellStore(Limit, j)
           /\ buffer'[Len(buffer) + 2] = BottomStore(owner.bottom + 1)
           /\ \A k : IsCell(k)' <=> IsCell(k) \/ k = Len(buffer) + 1
           /\ Limit = owner.bottom /\ Limit < top + Capacity
           /\ \A i \in Indices : Cell(i)' = Cell(i)
           /\ \A i : i = Limit => Cell(i)' = j
<1>1. /\ CellStore(owner.bottom, j) \in Stores /\ BottomStore(owner.bottom + 1) \in Stores
      /\ buffer \in Seq(Stores) /\ ring' = ring /\ owner.bottom \in Nat /\ top \in Nat
      /\ buffer' = Append(Append(buffer, CellStore(owner.bottom, j)),
                        BottomStore(owner.bottom + 1))
  BY DEF BottomStore, CellStore, Stores, TypeOK, QueueInv, DequePush
<1>2. Limit = owner.bottom /\ Limit < top + Capacity
  BY <1>1 DEF Limit, Full
<1>3. /\ buffer' \in Seq(Stores) /\ buffer' # <<>>
      /\ Len(buffer') = Len(buffer) + 2 /\ Len(buffer) \in Nat
      /\ DOMAIN buffer = 1 .. Len(buffer) /\ DOMAIN buffer' = 1 .. Len(buffer) + 2
      /\ \A k \in DOMAIN buffer : buffer'[k] = buffer[k]
      /\ buffer'[Len(buffer) + 1] = CellStore(owner.bottom, j)
      /\ buffer'[Len(buffer) + 2] = BottomStore(owner.bottom + 1)
  <2> DEFINE a == CellStore(owner.bottom, j)
             b == BottomStore(owner.bottom + 1)
             q == Append(buffer, a)
  <2>1. /\ a \in Stores /\ b \in Stores /\ buffer \in Seq(Stores)
        /\ buffer' = Append(q, b)
    BY <1>1
  <2> HIDE DEF a, b
  <2>2. /\ q \in Seq(Stores) /\ Len(q) = Len(buffer) + 1 /\ Len(buffer) \in Nat
        /\ DOMAIN buffer = 1 .. Len(buffer) /\ DOMAIN q = 1 .. Len(buffer) + 1
        /\ \A k \in DOMAIN buffer : q[k] = buffer[k]
        /\ q[Len(buffer) + 1] = a
    BY <2>1
  <2> HIDE DEF q
  <2>3. /\ buffer' \in Seq(Stores) /\ Len(buffer') = Len(q) + 1 /\ buffer' # <<>>
        /\ DOMAIN buffer' = 1 .. Len(q) + 1
        /\ \A k \in DOMAIN q : buffer'[k] = q[k]
        /\ buffer'[Len(q) + 1] = b
    BY <2>1, <2>2
  <2> QED
    BY <2>2, <2>3 DEF a, b
<1>4. \A k : IsCell(k)' <=> IsCell(k) \/ k = Len(buffer) + 1
  BY <1>3 DEF IsCell, BottomStore, CellStore
<1>5. ASSUME NEW i \in Indices PROVE Cell(i)' = Cell(i)
  <2>1. i \in Nat /\ top <= i /\ i < owner.bottom /\ owner.bottom < i + Capacity
    BY <1>1, <1>2 DEF Indices
  <2>2. Slot(i) # Slot(owner.bottom)
    BY <1>1, <2>1, SlotsDiffer
  <2>3. \A k : IsCell(k)' /\ Slot(buffer'[k].index) = Slot(i) <=>
               IsCell(k) /\ Slot(buffer[k].index) = Slot(i)
    <3>1. \A k : IsCell(k) => buffer'[k] = buffer[k]
      BY <1>3 DEF IsCell
    <3>2. buffer'[Len(buffer) + 1].index = owner.bottom
      BY <1>3 DEF CellStore
    <3> QED
      BY <1>4, <2>2, <3>1, <3>2
  <2>4. OwnCell(Slot(i))' = OwnCell(Slot(i))
    <3> DEFINE c == Slot(i)
    <3> HIDE DEF c
    <3>1. \A k : IsCell(k)' /\ Slot(buffer'[k].index) = c <=>
               IsCell(k) /\ Slot(buffer[k].index) = c
      BY <2>3 DEF c
    <3>2. OwnCell(c)' = OwnCell(c)
      BY <1>1, <1>3, <3>1, CellStays
    <3> QED
      BY <3>2 DEF c
  <2> QED
    BY <2>4 DEF Cell
<1>6. ASSUME NEW i, i = owner.bottom PROVE Cell(i)' = j
  <2> DEFINE n == Len(buffer) + 1
             mine == {k \in DOMAIN buffer' :
                        buffer'[k].to = "cell" /\ Slot(buffer'[k].index) = Slot(i)}
  <2>1. ASSUME NEW k \in mine PROVE k = n
    <3> SUFFICES ASSUME k # n PROVE FALSE
      OBVIOUS
    <3>1. IsCell(k) /\ buffer'[k] = buffer[k] /\ k \in DOMAIN buffer
      BY <1>3, <1>4 DEF IsCell
    <3>2. buffer[k].index \in Nat
      BY <3>1, Numbers
    <3>3. top <= buffer[k].index /\ buffer[k].index < owner.bottom
      BY <1>2, <3>1 DEF QueueInv, BufferInv
    <3>4. Slot(buffer[k].index) # Slot(owner.bottom)
      BY <1>1, <1>2, <3>2, <3>3, SlotsDiffer
    <3> QED
      BY <1>6, <3>1, <3>4
  <2>2. n \in mine
    BY <1>3, <1>6 DEF CellStore
  <2>3. mine = {n} /\ n \in Nat
    BY <1>3, <2>1, <2>2
  <2>4. Max(mine) = n
    BY <2>3, MaxIs
  <2>5. OwnCell(Slot(i))' = buffer'[n].job
    BY <2>3, <2>4 DEF OwnCell
  <2>6. buffer'[n].job = j
    BY <1>3 DEF CellStore
  <2> QED
    BY <2>5, <2>6 DEF Cell
<1> QED
  BY <1>2, <1>3, <1>4, <1>5, <1>6

(* A store that reaches memory leaves the buffer; the owner, which read it *)
(* from there, reads the same in memory.                                   *)
LEMMA Flushed ==
    ASSUME QueueInv, Flush
    PROVE  /\ buffer' \in Seq(Stores) /\ 1 \in DOMAIN buffer
           /\ Len(buffer') = Len(buffer) - 1
           /\ DOMAIN buffer' = 1 .. Len(buffer) - 1
           /\ \A k \in DOMAIN buffer' : k + 1 \in DOMAIN buffer /\ buffer'[k] = buffer[k + 1]
           /\ \A k : IsCell(k)' <=> k \in DOMAIN buffer' /\ IsCell(k + 1)
           /\ \/ IsCell(1) /\ bottom' = bottom
                 /\ ring' = [ring EXCEPT ![Slot(buffer[1].index)] = buffer[1].job]
              \/ ~IsCell(1) /\ bottom' = buffer[1].index /\ ring' = ring
           /\ UNCHANGED <<top, owner, thief, listVars, added, taken>>
           /\ \A i \in Nat : Cell(i)' = Cell(i)
<1>1. /\ buffer \in Seq(Stores) /\ buffer # <<>> /\ buffer' = Tail(buffer)
      /\ UNCHANGED <<top, owner, thief, listVars, added, taken>>
  BY Numbers DEF Flush
<1>2. /\ buffer' \in Seq(Stores) /\ 1 \in DOMAIN buffer
      /\ Len(buffer') = Len(buffer) - 1 /\ Len(buffer) \in Nat
      /\ DOMAIN buffer' = 1 .. Len(buffer) - 1 /\ DOMAIN buffer = 1 .. Len(buffer)
      /\ \A k \in DOMAIN buffer' : k + 1 \in DOMAIN buffer /\ buffer'[k] = buffer[k + 1]
      /\ Head(buffer) = buffer[1]
  BY <1>1
<1>3. \A k : IsCell(k)' <=> k \in DOMAIN buffer' /\ IsCell(k + 1)
  BY <1>2 DEF IsCell
<1>4. \/ IsCell(1) /\ bottom' = bottom
         /\ ring' = [ring EXCEPT ![Slot(buffer[1].index)] = buffer[1].job]
      \/ ~IsCell(1) /\ bottom' = buffer[1].index /\ ring' = ring
  BY <1>2 DEF Flush, IsCell
<1>5. ASSUME NEW c \in 0 .. Capacity - 1 PROVE OwnCell(c)' = OwnCell(c)
  <2> DEFINE mine == {k \in DOMAIN buffer' :
                        buffer'[k].to = "cell" /\ Slot(buffer'[k].index) = c}
  <2>1. \A k : k \in mine <=> /\ k \in DOMAIN buffer'
                              /\ IsCell(k + 1) /\ Slot(buffer[k + 1].index) = c
    BY <1>2, <1>3 DEF IsCell
  <2>2. CASE /\ \A k : ~(IsCell(k) /\ Slot(buffer[k].index) = c)
             /\ OwnCell(c) = ring[c]
    <3>1. mine = {}
      BY <2>1, <2>2
    <3>2. ring'[c] = ring[c]
      BY <1>4, <2>2 DEF QueueInv, TypeOK
    <3> QED
      BY <2>2, <3>1, <3>2 DEF OwnCell
  <2>3. ASSUME NEW k \in DOMAIN buffer,
               \A n : IsCell(n) /\ Slot(buffer[n].index) = c <=> n = k,
               OwnCell(c) = buffer[k].job
        PROVE  OwnCell(c)' = OwnCell(c)
    <3>1. k \in 1 .. Len(buffer)
      BY <1>2
    <3>2. CASE k = 1
      <4>1. mine = {}
        BY <1>2, <2>1, <2>3, <3>2
      <4>2. IsCell(1) /\ Slot(buffer[1].index) = c
        BY <2>3, <3>2
      <4>3. ring'[c] = buffer[1].job
        BY <1>4, <4>2 DEF QueueInv, TypeOK
      <4> QED
        BY <2>3, <3>2, <4>1, <4>3 DEF OwnCell
    <3>3. CASE k # 1
      <4>1. k - 1 \in 1 .. Len(buffer) - 1 /\ (k - 1) + 1 = k
        BY <1>2, <3>1, <3>3
      <4>2. mine = {k - 1}
        <5>1. \A n \in DOMAIN buffer' : n + 1 = k <=> n = k - 1
          BY <1>2, <3>1
        <5> QED
          BY <1>2, <2>1, <2>3, <4>1, <5>1
      <4>3. Max(mine) = k - 1
        <5>1. \A n \in Nat : Max({n}) = n
          BY MaxIs
        <5>2. k - 1 \in Nat
          BY <4>1
        <5> QED
          BY <4>2, <5>1, <5>2
      <4>4. buffer'[k - 1] = buffer[k]
        BY <1>2, <4>1
      <4> QED
        BY <2>3, <4>2, <4>3, <4>4 DEF OwnCell
    <3> QED
      BY <3>2, <3>3
  <2> QED
    BY <2>2, <2>3, CellIs
<1>6. \A i \in Nat : Cell(i)' = Cell(i)
  <2> SUFFICES ASSUME NEW i \in Nat PROVE Cell(i)' = Cell(i)
    OBVIOUS
  <2> DEFINE c == Slot(i)
  <2>1. c \in 0 .. Capacity - 1
    BY SlotType
  <2> HIDE DEF c
  <2>2. OwnCell(c)' = OwnCell(c)
    BY <1>5, <2>1
  <2> QED
    BY <2>2 DEF c, Cell
<1> QED
  BY <1>1, <1>2, <1>3, <1>4, <1>6

(* Whatever does not store, or stores to m_bottom, leaves the cells alone. *)
LEMMA CellsStay ==
    ASSUME QueueInv, ring' = ring,
           buffer' = buffer \/ \E b \in Nat : buffer' = Append(buffer, BottomStore(b))
    PROVE  \A i : Cell(i)' = Cell(i)
<1>1. CASE buffer' = buffer
  BY <1>1 DEF Cell, OwnCell
<1>2. CASE \E b \in Nat : buffer' = Append(buffer, BottomStore(b))
  BY <1>2, BottomStored DEF Cell
<1> QED
  BY <1>1, <1>2

-----------------------------------------------------------------------------
(* The counters and the store buffer.                                      *)
LEMMA DequeStep ==
    ASSUME QueueInv, [Next]_vars
    PROVE  DequeInv' /\ BufferInv'
<1>0. DequeInv /\ BufferInv /\ TypeOK
  BY DEF QueueInv
<1>a. /\ top \in Nat /\ bottom \in Nat /\ owner.bottom \in Nat /\ Limit \in Nat
      /\ buffer \in Seq(Stores) /\ Len(buffer) \in Nat
      /\ DOMAIN buffer = 1 .. Len(buffer)
      /\ \A k \in DOMAIN buffer : buffer[k] \in Stores /\ buffer[k].index \in Nat
  BY Numbers
<1>b. \A k : IsCell(k) => Raises(k) /\ k < Len(buffer)
  <2>1. \A k : IsCell(k) => k \in DOMAIN buffer /\ k # Len(buffer)
    BY <1>0 DEF IsCell, DequeInv, BottomStore
  <2> QED
    BY <1>a, <2>1 DEF Raises
(* Nothing stored, nothing claimed.                                        *)
<1>1. ASSUME UNCHANGED <<buffer, bottom>>, top' = top, Limit' = Limit,
             owner'.bottom = owner.bottom,
             owner'.at = "last" => buffer = <<>> /\ owner.bottom <= top,
             owner'.at = "top" <=> owner.at = "top"
      PROVE  DequeInv' /\ BufferInv'
  BY <1>0, <1>1 DEF DequeInv, BufferInv, IsCell, Raises
<1>2. ASSUME Flush PROVE DequeInv' /\ BufferInv'
  <2>1. /\ 1 \in DOMAIN buffer /\ Len(buffer') = Len(buffer) - 1
        /\ DOMAIN buffer' = 1 .. Len(buffer) - 1
        /\ \A k \in DOMAIN buffer' : k + 1 \in DOMAIN buffer /\ buffer'[k] = buffer[k + 1]
        /\ \A k : IsCell(k)' <=> k \in DOMAIN buffer' /\ IsCell(k + 1)
        /\ \/ IsCell(1) /\ bottom' = bottom
           \/ ~IsCell(1) /\ bottom' = buffer[1].index
        /\ UNCHANGED <<top, owner>> /\ buffer' \in Seq(Stores)
    BY <1>2, Flushed
  <2>2. Limit' = Limit
    BY <2>1 DEF Limit
  <2>3. \A k \in DOMAIN buffer' : Raises(k)' => Raises(k + 1)
    BY <1>a, <2>1 DEF Raises
  <2>4. bottom' <= Limit
    <3>1. CASE Raises(1)
      BY <1>0, <2>1, <3>1 DEF BufferInv, DequeInv
    <3>2. CASE ~Raises(1)
      <4>1. Len(buffer) = 1 /\ owner.at = "top" /\ buffer # <<>>
        BY <1>a, <2>1, <3>2 DEF Raises
      <4>2. buffer[1].index = owner.bottom
        BY <1>0, <4>1 DEF DequeInv, BottomStore
      <4>3. bottom' = bottom \/ bottom' = owner.bottom
        BY <2>1, <4>2
      <4> QED
        BY <1>0, <1>a, <4>1, <4>3 DEF DequeInv, Limit
    <3> QED
      BY <3>1, <3>2
  <2>5. DequeInv'
    <3>1. buffer' = <<>> => bottom' = owner.bottom
      <4> SUFFICES ASSUME buffer' = <<>> PROVE bottom' = owner.bottom
        OBVIOUS
      <4>1. Len(buffer') = 0
        OBVIOUS
      <4>2. Len(buffer) = 1 /\ buffer # <<>>
        BY <1>a, <2>1, <4>1
      <4>3. buffer[1] = BottomStore(owner.bottom)
        BY <1>0, <4>2 DEF DequeInv
      <4>4. ~IsCell(1)
        BY <4>3 DEF IsCell, BottomStore
      <4> QED
        BY <2>1, <4>3, <4>4 DEF BottomStore
    <3>2. buffer' # <<>> => buffer'[Len(buffer')] = BottomStore(owner.bottom)
      <4> SUFFICES ASSUME buffer' # <<>>
                   PROVE  buffer'[Len(buffer')] = BottomStore(owner.bottom)
        OBVIOUS
      <4>1. Len(buffer') > 0
        BY <2>1
      <4>2. /\ Len(buffer') \in DOMAIN buffer' /\ Len(buffer') + 1 = Len(buffer)
            /\ buffer # <<>>
        BY <1>a, <2>1, <4>1
      <4> QED
        BY <1>0, <2>1, <4>2 DEF DequeInv
    <3>3. owner.at # "last"
      BY <1>0, <2>1 DEF DequeInv
    <3> QED
      BY <1>0, <2>1, <2>2, <2>4, <3>1, <3>2, <3>3 DEF DequeInv
  <2>6. ASSUME NEW k \in DOMAIN buffer', Raises(k)'
        PROVE  bottom' <= buffer'[k].index /\ buffer'[k].index <= Limit
    <3>1. /\ k + 1 \in DOMAIN buffer /\ Raises(k + 1) /\ buffer'[k] = buffer[k + 1]
          /\ k \in Nat /\ 1 < k + 1
      BY <2>1, <2>3, <2>6
    <3>2. bottom <= buffer[k + 1].index /\ buffer[k + 1].index <= Limit
      BY <1>0, <3>1 DEF BufferInv
    <3>3. buffer[1].index <= buffer[k + 1].index
      BY <1>0, <2>1, <3>1 DEF BufferInv
    <3> QED
      BY <2>1, <3>1, <3>2, <3>3
  <2>7. ASSUME NEW k \in DOMAIN buffer', IsCell(k)'
        PROVE  buffer'[k].job \in Jobs /\ top <= buffer'[k].index /\ buffer'[k].index < Limit
    <3>1. k + 1 \in DOMAIN buffer /\ IsCell(k + 1) /\ buffer'[k] = buffer[k + 1]
      BY <2>1, <2>7
    <3> QED
      BY <1>0, <3>1 DEF BufferInv
  <2>8. ASSUME NEW j \in DOMAIN buffer', NEW k \in DOMAIN buffer', j < k, Raises(k)'
        PROVE  /\ buffer'[j].index <= buffer'[k].index
               /\ IsCell(j)' /\ IsCell(k)' => buffer'[j].index < buffer'[k].index
    <3>1. /\ j + 1 \in DOMAIN buffer /\ buffer'[j] = buffer[j + 1]
          /\ k + 1 \in DOMAIN buffer /\ Raises(k + 1) /\ buffer'[k] = buffer[k + 1]
          /\ j + 1 < k + 1
      BY <2>1, <2>3, <2>8
    <3> QED
      BY <1>0, <2>1, <3>1 DEF BufferInv
  <2> QED
    BY <2>1, <2>2, <2>5, <2>6, <2>7, <2>8 DEF BufferInv
(* A push: the cell at the limit, then m_bottom.                           *)
<1>3. ASSUME NEW j \in Jobs, DequePush(j), ~Full(owner.bottom),
             owner.at \notin {"top", "last"}, owner'.at \notin {"top", "last"},
             owner'.bottom = owner.bottom + 1
      PROVE  DequeInv' /\ BufferInv'
  <2> DEFINE n == Len(buffer)
  <2>1. /\ n \in Nat /\ DOMAIN buffer = 1 .. n /\ DOMAIN buffer' = 1 .. n + 2
        /\ \A k \in DOMAIN buffer : buffer'[k] = buffer[k]
        /\ buffer'[n + 1] = CellStore(Limit, j)
        /\ buffer'[n + 2] = BottomStore(owner.bottom + 1)
        /\ \A k : IsCell(k)' <=> IsCell(k) \/ k = n + 1
        /\ Limit = owner.bottom /\ Limit < top + Capacity
        /\ Len(buffer') = n + 2 /\ buffer' # <<>>
    BY <1>3, Pushed
  <2>2. UNCHANGED <<top, bottom>> /\ Limit' = Limit + 1
    BY <1>3, <2>1 DEF DequePush, Limit
  <2>3. \A k \in DOMAIN buffer : Raises(k)
    BY <1>3 DEF Raises
  <2>4. buffer'[n + 1].index = Limit /\ buffer'[n + 2].index = Limit + 1 /\ buffer'[n + 1].job = j
    BY <2>1 DEF CellStore, BottomStore
  <2> HIDE DEF n
  <2>5. DequeInv'
    BY <1>0, <1>a, <1>3, <2>1, <2>2 DEF DequeInv
  <2>6. \A k \in DOMAIN buffer' : k \in DOMAIN buffer \/ k = n + 1 \/ k = n + 2
    BY <2>1
  <2>7. ASSUME NEW k \in DOMAIN buffer'
        PROVE  bottom <= buffer'[k].index /\ buffer'[k].index <= Limit + 1
    <3>1. CASE k \in DOMAIN buffer
      BY <1>0, <1>a, <2>1, <2>3, <3>1 DEF BufferInv
    <3>2. CASE k = n + 1 \/ k = n + 2
      BY <1>0, <1>a, <2>4, <3>2 DEF DequeInv
    <3> QED
      BY <2>6, <3>1, <3>2
  <2>8. ASSUME NEW k \in DOMAIN buffer', IsCell(k)'
        PROVE  buffer'[k].job \in Jobs /\ top <= buffer'[k].index /\ buffer'[k].index < Limit + 1
    <3>1. CASE k = n + 1
      BY <1>0, <1>a, <2>4, <3>1 DEF DequeInv
    <3>2. CASE k # n + 1
      <4>1. IsCell(k) /\ k \in DOMAIN buffer
        BY <2>1, <2>8, <3>2 DEF IsCell
      <4> QED
        BY <1>0, <1>a, <2>1, <4>1 DEF BufferInv
    <3> QED
      BY <3>1, <3>2
  <2>9. ASSUME NEW i \in DOMAIN buffer', NEW k \in DOMAIN buffer', i < k
        PROVE  /\ buffer'[i].index <= buffer'[k].index
               /\ IsCell(i)' /\ IsCell(k)' => buffer'[i].index < buffer'[k].index
    <3>1. CASE k \in DOMAIN buffer
      <4>1. i \in DOMAIN buffer /\ i # n + 1 /\ k # n + 1
        BY <2>1, <2>9, <3>1
      <4> QED
        BY <1>0, <2>1, <2>3, <2>9, <3>1, <4>1 DEF BufferInv
    <3>2. CASE k = n + 1
      <4>1. i \in DOMAIN buffer /\ i # n + 1
        BY <2>1, <2>9, <3>2
      <4>2. buffer'[i].index <= Limit /\ (IsCell(i) => buffer'[i].index < Limit)
        BY <1>0, <2>1, <2>3, <4>1 DEF BufferInv
      <4> QED
        BY <2>1, <2>4, <3>2, <4>1, <4>2
    <3>3. CASE k = n + 2
      <4>1. ~IsCell(k)'
        BY <1>a, <2>1, <3>3 DEF IsCell
      <4>2. buffer'[i].index <= Limit + 1
        BY <2>7
      <4> QED
        BY <2>4, <3>3, <4>1, <4>2
    <3> QED
      BY <2>6, <3>1, <3>2, <3>3
  <2> QED
    BY <2>2, <2>5, <2>7, <2>8, <2>9 DEF BufferInv
(* The claim of pop() joins the buffer as its last store.                  *)
<1>4. ASSUME buffer' = Append(buffer, BottomStore(owner.bottom - 1)), ring' = ring,
             UNCHANGED <<top, bottom>>, owner.at = "begin", owner'.at = "top",
             owner'.bottom = owner.bottom - 1, owner.bottom > top
      PROVE  DequeInv' /\ BufferInv'
  <2> DEFINE n == Len(buffer)
  <2>0. owner.bottom - 1 \in Nat
    BY <1>a, <1>4
  <2>1. /\ n \in Nat /\ DOMAIN buffer = 1 .. n /\ DOMAIN buffer' = 1 .. n + 1
        /\ \A k \in DOMAIN buffer : buffer'[k] = buffer[k]
        /\ buffer'[n + 1] = BottomStore(owner.bottom - 1)
        /\ \A k : IsCell(k)' <=> IsCell(k)
        /\ Len(buffer') = n + 1 /\ buffer' # <<>>
    BY <1>4, <2>0, BottomStored
  <2>2. Limit' = Limit
    BY <1>a, <1>4 DEF Limit
  <2> HIDE DEF n
  <2>3. DequeInv'
    BY <1>0, <1>4, <2>1, <2>2 DEF DequeInv
  <2>4. \A k \in DOMAIN buffer' : Raises(k)' => k \in DOMAIN buffer /\ Raises(k)
    BY <1>4, <2>1 DEF Raises
  <2>5. \A i, k \in DOMAIN buffer' : i < k /\ Raises(k)' => i \in DOMAIN buffer
    BY <2>1, <2>4
  <2>6. \A k : IsCell(k)' => k \in DOMAIN buffer
    BY <2>1 DEF IsCell
  <2> QED
    BY <1>0, <1>4, <2>1, <2>2, <2>3, <2>4, <2>5, <2>6 DEF BufferInv
(* m_bottom is restored, when all earlier stores have reached memory.      *)
<1>5. ASSUME buffer = <<>>, NEW b \in Nat, buffer' = Append(buffer, BottomStore(b)),
             ring' = ring, bottom' = bottom, b = owner'.bottom, b = Limit,
             owner'.at \notin {"top", "last"}, top' \in Nat, top <= top', top' <= Limit
      PROVE  DequeInv' /\ BufferInv'
  <2>0. Len(buffer) = 0
    BY <1>5
  <2>1. /\ DOMAIN buffer' = 1 .. 1 /\ buffer'[1] = BottomStore(b)
        /\ \A k : ~IsCell(k)' /\ Len(buffer') = 1 /\ buffer' # <<>>
    BY <1>5, <2>0, BottomStored DEF IsCell
  <2>2. Limit' = Limit /\ buffer'[1].index = Limit
    BY <1>5, <2>1 DEF Limit, BottomStore
  <2>3. DequeInv'
    <3>1. buffer'[Len(buffer')] = BottomStore(owner'.bottom)
      BY <1>5, <2>1
    <3>2. Limit <= top' + Capacity /\ bottom' <= Limit'
      <4>1. Limit <= top + Capacity /\ bottom <= Limit
        BY <1>0 DEF DequeInv
      <4>2. top \in Nat /\ top' \in Nat /\ top <= top' /\ Limit \in Nat
        BY <1>a, <1>5
      <4>3. bottom' = bottom /\ Limit' = Limit
        BY <1>5, <2>2
      <4>4. bottom' <= Limit'
        BY <4>1, <4>3
      <4>5. Limit <= top' + Capacity
        <5>1. \A x, y, z \in Nat : x <= y /\ z <= x + Capacity => z <= y + Capacity
          OBVIOUS
        <5> QED
          BY <4>1, <4>2, <5>1
      <4> QED
        BY <4>4, <4>5
    <3> QED
      BY <1>5, <2>1, <2>2, <3>1, <3>2 DEF DequeInv
  <2>4. \A j, k \in DOMAIN buffer' : ~(j < k)
    BY <2>1
  <2>5. \A k \in DOMAIN buffer' : bottom' <= buffer'[k].index /\ buffer'[k].index <= Limit'
    BY <1>0, <1>5, <2>1, <2>2 DEF DequeInv
  <2> QED
    BY <2>1, <2>3, <2>4, <2>5 DEF BufferInv
(* The owner takes the last of several elements.                           *)
<1>6. ASSUME UNCHANGED dequeVars, buffer = <<>>, owner'.bottom = owner.bottom,
             owner'.at = "idle", top <= owner.bottom, owner.at = "top"
      PROVE  DequeInv' /\ BufferInv'
  <2>1. Limit' = owner.bottom /\ Limit = owner.bottom + 1
    BY <1>6 DEF Limit
  <2> QED
    BY <1>0, <1>a, <1>6, <2>1 DEF DequeInv, BufferInv, dequeVars
(* A thief takes the first element.                                        *)
<1>7. ASSUME UNCHANGED <<ring, bottom, buffer, owner>>, top' = top + 1, top < Limit,
             \A k \in DOMAIN buffer : IsCell(k) => buffer[k].index # top
      PROVE  DequeInv' /\ BufferInv'
  <2>1. Limit' = Limit
    BY <1>7 DEF Limit
  <2>2. \A k \in DOMAIN buffer : IsCell(k) => top + 1 <= buffer[k].index
    BY <1>0, <1>a, <1>7 DEF BufferInv
  <2>3. owner.at = "last" => owner.bottom <= top + 1
    BY <1>0, <1>a DEF DequeInv
  <2>4. DequeInv'
    BY <1>0, <1>a, <1>7, <2>1, <2>3 DEF DequeInv
  <2> QED
    BY <1>0, <1>7, <2>1, <2>2, <2>4 DEF BufferInv, IsCell, Raises
<1>8. ASSUME NEW j \in Jobs, SubmitLocal(j) PROVE DequeInv' /\ BufferInv'
  <2>1. CASE ~Full(owner.bottom)
    <3>1. DequePush(j) /\ owner' = [owner EXCEPT !.bottom = @ + 1] /\ owner.at = "idle"
      BY <1>8, <2>1 DEF SubmitLocal
    <3>2. owner'.at = "idle" /\ owner'.bottom = owner.bottom + 1
      BY <1>0, <3>1 DEF TypeOK
    <3> QED
      BY <1>3, <2>1, <3>1, <3>2
  <2>2. CASE Full(owner.bottom)
    BY <1>0, <1>1, <1>8, <2>2 DEF SubmitLocal, dequeVars, Limit, DequeInv
  <2> QED
    BY <2>1, <2>2
<1>9. ASSUME PopBegin PROVE DequeInv' /\ BufferInv'
  <2>1. CASE owner.bottom <= top
    <3>1. /\ owner.at = "begin" /\ owner'.at \in {"idle", "lists"}
          /\ owner'.bottom = owner.bottom /\ UNCHANGED dequeVars
      BY <1>0, <1>a, <1>9, <2>1 DEF PopBegin, Missed, TypeOK, dequeVars
    <3> QED
      BY <1>1, <3>1 DEF Limit, dequeVars
  <2>2. CASE owner.bottom > top
    <3>1. /\ buffer' = Append(buffer, BottomStore(owner.bottom - 1))
          /\ UNCHANGED <<ring, top, bottom>> /\ owner.at = "begin"
          /\ owner' = [owner EXCEPT !.at = "top", !.bottom = @ - 1]
      BY <1>a, <1>9, <2>2 DEF PopBegin, StoreBottom
    <3>2. owner'.at = "top" /\ owner'.bottom = owner.bottom - 1
      BY <1>0, <3>1 DEF TypeOK
    <3> QED
      BY <1>4, <2>2, <3>1, <3>2
  <2> QED
    BY <1>a, <2>1, <2>2
<1>10. ASSUME PopTop PROVE DequeInv' /\ BufferInv'
  <2>0. owner.at = "top" /\ buffer = <<>> /\ UNCHANGED <<ring, top, bottom>>
    BY <1>10 DEF PopTop, Fenced
  <2>a. Limit = owner.bottom + 1 /\ top <= owner.bottom + 1
    BY <1>0, <2>0 DEF Limit, DequeInv
  <2>1. CASE owner.bottom < top
    <3>1. /\ buffer' = Append(buffer, BottomStore(top))
          /\ owner' = [owner EXCEPT !.at = Missed, !.bottom = top]
      BY <1>a, <1>10, <2>1 DEF PopTop, StoreBottom
    <3>2. owner'.at \in {"idle", "lists"} /\ owner'.bottom = top
      BY <1>0, <3>1 DEF Missed, TypeOK
    <3>3. top = Limit
      BY <1>a, <2>1, <2>a
    <3> QED
      BY <1>5, <1>a, <2>0, <3>1, <3>2, <3>3
  <2>2. CASE owner.bottom = top
    <3>1. /\ buffer' = buffer /\ owner' = [owner EXCEPT !.at = "last"]
      BY <1>a, <1>10, <2>2 DEF PopTop, IsLast
    <3>2. owner'.at = "last" /\ owner'.bottom = owner.bottom
      BY <1>0, <3>1 DEF TypeOK
    <3>3. Limit' = Limit
      BY <2>0, <3>2 DEF Limit
    <3>4. DequeInv'
      BY <1>0, <1>a, <2>0, <2>2, <3>1, <3>2, <3>3 DEF DequeInv
    <3>5. DOMAIN buffer' = {}
      BY <2>0, <3>1
    <3> QED
      BY <3>4, <3>5 DEF BufferInv
  <2>3. CASE owner.bottom > top
    <3>1. /\ buffer' = buffer /\ owner' = [owner EXCEPT !.at = "idle"]
      BY <1>a, <1>10, <2>3 DEF PopTop, IsLast
    <3>2. owner'.at = "idle" /\ owner'.bottom = owner.bottom
      BY <1>0, <3>1 DEF TypeOK
    <3> QED
      BY <1>6, <1>a, <2>0, <2>3, <3>1, <3>2 DEF dequeVars
  <2> QED
    BY <1>a, <2>1, <2>2, <2>3
<1>11. ASSUME PopLast PROVE DequeInv' /\ BufferInv'
  <2>0. owner.at = "last" /\ buffer = <<>> /\ UNCHANGED <<ring, bottom>>
    BY <1>11 DEF PopLast
  <2>a. Limit = owner.bottom + 1 /\ top <= owner.bottom + 1 /\ owner.bottom <= top
    BY <1>0, <2>0 DEF Limit, DequeInv
  <2>1. buffer' = Append(buffer, BottomStore(owner.bottom + 1))
    BY <1>11 DEF PopLast, StoreBottom
  <2>2. owner'.at \in {"idle", "lists"} /\ owner'.bottom = owner.bottom + 1
    BY <1>0, <1>11 DEF PopLast, Missed, TypeOK
  <2>3. \/ top' = top + 1 /\ top = owner.bottom
        \/ top' = top
    BY <1>11 DEF PopLast, WinsTop
  <2> QED
    BY <1>5, <1>a, <2>0, <2>a, <2>1, <2>2, <2>3
<1>12. ASSUME PopDrain PROVE DequeInv' /\ BufferInv'
  <2>1. /\ owner.at = "drain" /\ ~Full(owner.bottom) /\ owner.node \in Items
        /\ DequePush(job[owner.node])
        /\ owner'.at = "free" /\ owner'.bottom = owner.bottom + 1
    BY <1>0, <1>12 DEF PopDrain, TypeOK
  <2>2. job[owner.node] \in Jobs
    <3>1. owner.node \in Listed
      BY <2>1, ReachClosed DEF Listed, Overflow, Chain, Rest
    <3> QED
      BY <3>1 DEF QueueInv, ContentInv
  <2> QED
    BY <1>3, <2>1, <2>2
<1>13. ASSUME NEW t \in Thieves, StealExchange(t) PROVE DequeInv' /\ BufferInv'
  <2>1. UNCHANGED <<ring, bottom, buffer, owner>>
    BY <1>13 DEF StealExchange
  <2>2. CASE thief[t].top = top
    <3>1. top' = top + 1
      BY <1>13, <2>2 DEF StealExchange, WinsTop
    <3> QED
      BY <1>7, <1>13, <2>1, <2>2, <3>1 DEF QueueInv, ThiefInv, StealExchange
  <2>3. CASE thief[t].top # top
    <3>1. top' = top
      BY <1>13, <2>3 DEF StealExchange, WinsTop
    <3> QED
      BY <1>0, <1>1, <2>1, <3>1 DEF DequeInv, Limit
  <2> QED
    BY <2>2, <2>3
<1>14. ASSUME \/ \E j \in Jobs : Submit(j)
              \/ \E t \in Thieves : StealTop(t) \/ StealBottom(t) \/ StealCell(t)
              \/ UNCHANGED vars
       PROVE  DequeInv' /\ BufferInv'
  <2>1. UNCHANGED <<dequeVars, owner>>
    BY <1>14 DEF Submit, StealTop, StealBottom, StealCell, vars
  <2> QED
    BY <1>0, <1>1, <2>1 DEF dequeVars, Limit, DequeInv
<1>15. ASSUME PopCall \/ PopLists \/ PopFree \/ PopDrained PROVE DequeInv' /\ BufferInv'
  <2>1. UNCHANGED dequeVars
    BY <1>15 DEF PopCall, PopLists, PopFree, PopDrained
  <2>2. /\ owner.at \notin {"top", "last"} /\ owner'.at \notin {"top", "last"}
        /\ owner'.bottom = owner.bottom
    BY <1>0, <1>15 DEF PopCall, PopLists, PopFree, PopDrained, TypeOK
  <2> QED
    BY <1>1, <2>1, <2>2 DEF dequeVars, Limit
<1> QED
  BY <1>2, <1>8, <1>9, <1>10, <1>11, <1>12, <1>13, <1>14, <1>15 DEF Next, Pop, Steal

-----------------------------------------------------------------------------
(* When the two lists and the node in hand stay, so do the nodes' places.  *)
LEMMA ListsKept ==
    ASSUME QueueInv, UNCHANGED <<inbox, next, freeItems>>, Rest' = Rest, Held' = Held
    PROVE  ListInv' /\ Listed' = Listed
<1>1. ListInv
  BY DEF QueueInv
<1>2. Overflow' = Overflow /\ Chain(inbox)' = Chain(inbox)
  BY DEF Overflow, Chain
<1>3. owner'.at = "free" => owner'.node \in Items
  BY <1>1 DEF Held, ListInv
<1> QED
  BY <1>1, <1>2, <1>3 DEF ListInv, Listed, Chain

(* The types of the lists.                                                 *)
LEMMA ListTypes ==
    ASSUME QueueInv
    PROVE  /\ Nil \notin Items /\ next \in [Items -> Items \cup {Nil}]
           /\ inbox \in Items \cup {Nil} /\ Rest \in Items \cup {Nil}
           /\ Overflow \subseteq Items /\ Chain(inbox) \subseteq Items
           /\ freeItems \subseteq Items
BY ReachClosed DEF QueueInv, TypeOK, None, Rest, Overflow, Chain

(* A free node that is linked in front of the overflow list.               *)
LEMMA OverflowGrows ==
    ASSUME QueueInv, NEW i \in freeItems, freeItems' = freeItems \ {i},
           next' \in [Items -> Items \cup {Nil}], \A m \in Items \ {i} : next'[m] = next[m],
           next'[i] = Rest, Rest' = i, inbox' = inbox, Held' = Held
    PROVE  ListInv' /\ Listed' = Listed \cup {i} /\ i \notin Listed
<1>1. ListInv
  BY DEF QueueInv
<1>2. i \in Items /\ i \notin Overflow /\ i \notin Chain(inbox) /\ i \notin Held
  BY <1>1, ListTypes DEF ListInv, Listed
<1>4. Overflow' = {i} \cup Overflow /\ Acyclic(Items, next', i)
  <2>1. i \notin Reach(Items, next, Rest) /\ Acyclic(Items, next, Rest)
    BY <1>1, <1>2 DEF Overflow, Chain, ListInv
  <2>2. /\ Reach(Items, next', i) = {i} \cup Reach(Items, next, Rest)
        /\ Acyclic(Items, next', i)
    BY <1>2, <2>1, ListTypes, ReachPush
  <2> QED
    BY <2>2 DEF Overflow, Chain
<1>5. Chain(inbox)' = Chain(inbox) /\ Acyclic(Items, next', inbox)
  <2>1. /\ \A n \in Reach(Items, next, inbox) : next'[n] = next[n]
        /\ Acyclic(Items, next, inbox)
    BY <1>1, <1>2, ListTypes DEF Chain, ListInv
  <2>2. /\ Reach(Items, next', inbox) = Reach(Items, next, inbox)
        /\ Acyclic(Items, next', inbox)
    BY <2>1, ListTypes, ReachFrame, AcyclicFrame
  <2> QED
    BY <2>2 DEF Chain
<1>6. owner'.at = "free" => owner'.node \in Items
  BY <1>1 DEF Held, ListInv
<1>7. Listed' = Listed \cup {i}
  BY <1>4, <1>5 DEF Listed
<1> QED
  BY <1>1, <1>2, <1>4, <1>5, <1>6, <1>7 DEF ListInv, Listed

(* A free node that is linked in front of the inbox.                       *)
LEMMA InboxGrows ==
    ASSUME QueueInv, NEW i \in freeItems, freeItems' = freeItems \ {i},
           next' \in [Items -> Items \cup {Nil}], \A m \in Items \ {i} : next'[m] = next[m],
           next'[i] = inbox, Rest' = Rest, inbox' = i, Held' = Held
    PROVE  ListInv' /\ Listed' = Listed \cup {i} /\ i \notin Listed
<1>1. ListInv
  BY DEF QueueInv
<1>2. i \in Items /\ i \notin Overflow /\ i \notin Chain(inbox) /\ i \notin Held
  BY <1>1, ListTypes DEF ListInv, Listed
<1>4. Chain(inbox)' = {i} \cup Chain(inbox) /\ Acyclic(Items, next', i)
  <2>1. i \notin Reach(Items, next, inbox) /\ Acyclic(Items, next, inbox)
    BY <1>1, <1>2 DEF Chain, ListInv
  <2>2. /\ Reach(Items, next', i) = {i} \cup Reach(Items, next, inbox)
        /\ Acyclic(Items, next', i)
    BY <1>2, <2>1, ListTypes, ReachPush
  <2> QED
    BY <2>2 DEF Chain
<1>5. Overflow' = Overflow /\ Acyclic(Items, next', Rest)
  <2>1. /\ \A n \in Reach(Items, next, Rest) : next'[n] = next[n]
        /\ Acyclic(Items, next, Rest)
    BY <1>1, <1>2, ListTypes DEF Overflow, Chain, ListInv
  <2>2. /\ Reach(Items, next', Rest) = Reach(Items, next, Rest)
        /\ Acyclic(Items, next', Rest)
    BY <2>1, ListTypes, ReachFrame, AcyclicFrame
  <2> QED
    BY <2>2 DEF Overflow, Chain
<1>6. owner'.at = "free" => owner'.node \in Items
  BY <1>1 DEF Held, ListInv
<1>7. Listed' = Listed \cup {i}
  BY <1>4, <1>5 DEF Listed
<1> QED
  BY <1>1, <1>2, <1>4, <1>5, <1>6, <1>7 DEF ListInv, Listed

(* The drain takes the first node of the rest in hand.                     *)
LEMMA Drained ==
    ASSUME QueueInv, PopDrain
    PROVE  /\ ListInv' /\ owner.node \in Listed /\ Listed' = Listed \ {owner.node}
           /\ owner.node \in Items /\ owner'.at = "free" /\ owner'.node = owner.node
           /\ owner'.next = next[owner.node]
<1> DEFINE f == owner.node
<1>1. ListInv /\ owner.at = "drain" /\ f \in Items /\ Rest = f
  BY DEF QueueInv, TypeOK, PopDrain, Rest
<1>2. /\ owner'.at = "free" /\ owner'.node = f /\ owner'.next = next[f]
      /\ UNCHANGED <<inbox, freeItems>> /\ next' = [next EXCEPT ![f] = Nil]
  BY DEF PopDrain, QueueInv, TypeOK, None
<1>3. Rest' = next[f]
  BY <1>2 DEF Rest
<1>4. /\ f \in Overflow
      /\ Reach(Items, next, next[f]) = Overflow \ {f}
      /\ Acyclic(Items, next, next[f])
  BY <1>1, ListTypes, ReachPop DEF Overflow, Chain, ListInv
<1>5. /\ next' \in [Items -> Items \cup {Nil}] /\ next[f] \in Items \cup {Nil}
      /\ \A m \in Items \ {f} : next'[m] = next[m]
  BY <1>1, <1>2, ListTypes
<1>6. Overflow' = Overflow \ {f} /\ Acyclic(Items, next', next[f])
  <2>1. \A n \in Reach(Items, next, next[f]) : next'[n] = next[n]
    BY <1>4, <1>5, ListTypes
  <2>2. Reach(Items, next', next[f]) = Reach(Items, next, next[f])
    BY <1>5, <2>1, ListTypes, ReachFrame
  <2>3. Acyclic(Items, next', next[f])
    BY <1>4, <1>5, <2>1, ListTypes, AcyclicFrame
  <2> QED
    BY <1>3, <1>4, <2>2, <2>3 DEF Overflow, Chain
<1>7. Chain(inbox)' = Chain(inbox) /\ Acyclic(Items, next', inbox)
  <2>1. f \notin Chain(inbox)
    BY <1>1, <1>4 DEF ListInv
  <2>2. /\ \A n \in Reach(Items, next, inbox) : next'[n] = next[n]
        /\ Acyclic(Items, next, inbox)
    BY <1>1, <1>5, <2>1, ListTypes DEF Chain, ListInv
  <2>3. /\ Reach(Items, next', inbox) = Reach(Items, next, inbox)
        /\ Acyclic(Items, next', inbox)
    BY <1>5, <2>2, ListTypes, ReachFrame, AcyclicFrame
  <2> QED
    BY <1>2, <2>3 DEF Chain
<1>8. Held = {} /\ Held' = {f}
  BY <1>1, <1>2 DEF Held
<1>9. Listed' = Listed \ {f} /\ f \in Listed /\ f \notin freeItems
  BY <1>1, <1>4, <1>6, <1>7 DEF Listed, ListInv
<1>10. ListInv'
  BY <1>1, <1>2, <1>3, <1>4, <1>6, <1>7, <1>8, <1>9 DEF ListInv, Listed
<1> QED
  BY <1>1, <1>2, <1>9, <1>10

(* The nodes keep their places in a step that links none, but that the     *)
(* inbox may become the overflow list, and a node in hand free.            *)
LEMMA ListsStay ==
    ASSUME QueueInv,
           \/ Flush \/ PopCall \/ PopBegin \/ PopTop \/ PopLast \/ PopLists
           \/ PopFree \/ PopDrained
           \/ \E j \in Jobs : SubmitLocal(j) /\ ~Full(owner.bottom)
           \/ \E t \in Thieves : Steal(t)
           \/ UNCHANGED vars
    PROVE  ListInv' /\ Listed' = Listed /\ UNCHANGED job
<1>0. ListInv /\ owner \in [at : {"idle", "begin", "top", "last", "lists", "drain", "free"},
                  bottom : Nat, second : BOOLEAN,
                  node : Items \cup {None}, next : Items \cup {None}]
  BY DEF QueueInv, TypeOK
<1>1. CASE Flush \/ (\E t \in Thieves : Steal(t)) \/ UNCHANGED vars
  <2>1. UNCHANGED <<owner, listVars>>
    BY <1>1 DEF Flush, Steal, StealTop, StealBottom, StealCell, StealExchange, vars
  <2> QED
    BY <2>1, ListsKept DEF Rest, Held, listVars
<1>2. CASE \/ PopCall \/ PopBegin \/ PopTop \/ PopLast
           \/ \E j \in Jobs : SubmitLocal(j) /\ ~Full(owner.bottom)
  <2>1. UNCHANGED listVars
    BY <1>2 DEF PopCall, PopBegin, PopTop, PopLast, SubmitLocal
  <2>2. owner.at \notin {"drain", "free"}
    BY <1>2 DEF PopCall, PopBegin, PopTop, PopLast, SubmitLocal
  <2>3. owner'.at \notin {"drain", "free"}
    <3>1. CASE PopCall
      BY <1>0, <3>1 DEF PopCall
    <3>2. CASE PopBegin
      BY <1>0, <3>2 DEF PopBegin, Missed
    <3>3. CASE PopTop
      BY <1>0, <3>3 DEF PopTop, Missed
    <3>4. CASE PopLast
      BY <1>0, <3>4 DEF PopLast, Missed
    <3>5. CASE \E j \in Jobs : SubmitLocal(j) /\ ~Full(owner.bottom)
      BY <1>0, <2>2, <3>5 DEF SubmitLocal
    <3> QED
      BY <1>2, <3>1, <3>2, <3>3, <3>4, <3>5
  <2>4. Rest' = Rest /\ Held' = Held
    BY <2>1, <2>2, <2>3 DEF Rest, Held, listVars
  <2> QED
    BY <2>1, <2>4, ListsKept DEF listVars
<1>3. CASE PopLists
  <2>1. /\ owner.at = "lists" /\ Rest = pending /\ UNCHANGED <<next, freeItems, job>>
        /\ owner'.at = "drain" /\ Rest' = owner'.node
    BY <1>0, <1>3 DEF PopLists, Rest
  <2>2. Held = {} /\ Held' = {}
    BY <2>1 DEF Held
  <2>3. CASE pending # None
    <3>1. inbox' = inbox /\ owner'.node = pending
      BY <1>0, <1>3, <2>3 DEF PopLists
    <3> QED
      BY <2>1, <2>2, <3>1, ListsKept
  <2>4. CASE pending = None
    <3>1. inbox' = Nil /\ owner'.node = inbox
      BY <1>0, <1>3, <2>4 DEF PopLists, None
    <3>2. Chain(inbox)' = {} /\ Overflow = {}
      BY <2>1, <2>4, <3>1, ListTypes, ReachNil DEF Chain, Overflow, None
    <3>3. Overflow' = Chain(inbox)
      BY <2>1, <3>1 DEF Overflow, Chain
    <3>4. Acyclic(Items, next', inbox')
      BY <3>2 DEF Acyclic, Chain
    <3>5. Acyclic(Items, next', Rest')
      BY <1>0, <2>1, <3>1 DEF ListInv
    <3>6. Listed' = Listed
      BY <3>2, <3>3 DEF Listed
    <3> QED
      BY <1>0, <2>1, <2>2, <3>2, <3>4, <3>5, <3>6 DEF ListInv
  <2> QED
    BY <2>3, <2>4
<1>4. CASE PopFree
  <2>1. /\ owner.at = "free" /\ Rest = owner.next /\ UNCHANGED <<inbox, next, job>>
        /\ owner'.at = "drain" /\ owner'.node = owner.next
        /\ freeItems' = freeItems \cup {owner.node}
    BY <1>0, <1>4 DEF PopFree, Rest, Successor
  <2>2. Rest' = Rest /\ Held' = {} /\ Held = {owner.node}
    BY <2>1 DEF Rest, Held
  <2>3. Overflow' = Overflow /\ Chain(inbox)' = Chain(inbox)
    BY <2>1, <2>2 DEF Overflow, Chain
  <2>4. Listed' = Listed
    BY <2>3 DEF Listed
  <2> QED
    BY <1>0, <2>1, <2>2, <2>3, <2>4 DEF ListInv
<1>5. CASE PopDrained
  <2>1. /\ owner.at = "drain" /\ owner'.at = "begin" /\ pending' = owner.node
        /\ UNCHANGED <<inbox, next, freeItems, job>>
    BY <1>0, <1>5 DEF PopDrained
  <2> QED
    BY <2>1, ListsKept DEF Rest, Held
<1> QED
  BY <1>1, <1>2, <1>3, <1>4, <1>5

(* A push to the overflow list of a full deque.                            *)
LEMMA LocalListed ==
    ASSUME QueueInv, NEW j \in Jobs, SubmitLocal(j), Full(owner.bottom)
    PROVE  /\ ListInv' /\ UNCHANGED <<dequeVars, owner>>
           /\ \E i \in Items \ Listed :
                 Listed' = Listed \cup {i} /\ job' = [job EXCEPT ![i] = j]
<1>1. PICK i \in freeItems :
          /\ freeItems' = freeItems \ {i} /\ job' = [job EXCEPT ![i] = j]
          /\ next' = [next EXCEPT ![i] = pending] /\ pending' = i
          /\ UNCHANGED <<dequeVars, owner, inbox>>
  BY DEF SubmitLocal
<1>2. Rest = pending /\ Rest' = i /\ Held' = Held
  BY <1>1 DEF SubmitLocal, Rest, Held
<1>3. /\ next' \in [Items -> Items \cup {Nil}] /\ next'[i] = Rest
      /\ \A m \in Items \ {i} : next'[m] = next[m]
  BY <1>1, <1>2, ListTypes
<1>4. ListInv' /\ Listed' = Listed \cup {i} /\ i \notin Listed
  BY <1>1, <1>2, <1>3, OverflowGrows
<1> QED
  BY <1>1, <1>4, ListTypes

(* A push to the inbox.                                                    *)
LEMMA InboxListed ==
    ASSUME QueueInv, NEW j \in Jobs, Submit(j)
    PROVE  /\ ListInv' /\ UNCHANGED <<dequeVars, owner>>
           /\ \E i \in Items \ Listed :
                 Listed' = Listed \cup {i} /\ job' = [job EXCEPT ![i] = j]
<1>1. PICK i \in freeItems :
          /\ freeItems' = freeItems \ {i} /\ job' = [job EXCEPT ![i] = j]
          /\ next' = [next EXCEPT ![i] = inbox] /\ inbox' = i
          /\ UNCHANGED <<dequeVars, owner, pending>>
  BY DEF Submit
<1>2. Rest' = Rest /\ Held' = Held
  BY <1>1 DEF Rest, Held
<1>3. /\ next' \in [Items -> Items \cup {Nil}] /\ next'[i] = inbox
      /\ \A m \in Items \ {i} : next'[m] = next[m]
  BY <1>1, ListTypes
<1>4. ListInv' /\ Listed' = Listed \cup {i} /\ i \notin Listed
  BY <1>1, <1>2, <1>3, InboxGrows
<1> QED
  BY <1>1, <1>4, ListTypes

-----------------------------------------------------------------------------
(* What a thief that holds the deque's top relies on.                      *)
Safe == top < Limit /\ \A k \in DOMAIN buffer : IsCell(k) => buffer[k].index # top

(* The thieves that do not move keep their invariant when top moves on, or *)
(* the first element stays as it is.                                       *)
LEMMA ThievesWatch ==
    ASSUME QueueInv, NEW u \in Thieves, thief'[u] = thief[u],
           \/ top' = top + 1
           \/ top' = top /\ (Safe => Safe' /\ Cell(top)' = Cell(top))
    PROVE  /\ thief'[u].at # "idle" => thief'[u].top <= top'
           /\ thief'[u].at \in {"cell", "cas"} /\ thief'[u].top = top' => Safe'
           /\ thief'[u].at = "cas" /\ thief'[u].top = top' => thief'[u].job = Cell(top)'
<1>1. /\ thief[u].at # "idle" => thief[u].top <= top
      /\ thief[u].at \in {"cell", "cas"} /\ thief[u].top = top => Safe
      /\ thief[u].at = "cas" /\ thief[u].top = top => thief[u].job = Cell(top)
  BY DEF QueueInv, ThiefInv, Safe
<1>2. top \in Nat /\ thief[u].top \in Nat
  BY DEF QueueInv, TypeOK
<1>3. CASE top' = top + 1
  <2>1. thief[u].at # "idle" => thief'[u].top # top'
    BY <1>1, <1>2, <1>3
  <2> QED
    BY <1>1, <1>2, <1>3, <2>1
<1>4. CASE top' = top /\ (Safe => Safe' /\ Cell(top)' = Cell(top))
  BY <1>1, <1>4
<1> QED
  BY <1>3, <1>4

(* The pending store of no cell hides the first element, when none has its *)
(* index.                                                                  *)
LEMMA TopInMemory ==
    ASSUME QueueInv, Safe
    PROVE  Cell(top) = ring[Slot(top)]
<1>1. ASSUME NEW k \in DOMAIN buffer, IsCell(k) PROVE Slot(buffer[k].index) # Slot(top)
  <2>1. /\ top \in Nat /\ Limit \in Nat /\ buffer[k].index \in Nat
        /\ Limit <= top + Capacity
    BY Numbers DEF QueueInv, DequeInv
  <2>2. top < buffer[k].index /\ buffer[k].index < Limit
    BY <1>1, <2>1 DEF Safe, QueueInv, BufferInv
  <2> QED
    BY <2>1, <2>2, SlotsDiffer
<1> QED
  BY <1>1, CellInMemory DEF Cell, QueueInv

(* Steps of the owner and of the store buffer.                             *)
LEMMA FirstElementStays ==
    ASSUME QueueInv, Flush \/ Pop \/ \E j \in Jobs : SubmitLocal(j) \/ Submit(j)
    PROVE  \/ top' = top + 1
           \/ top' = top /\ (Safe => Safe' /\ Cell(top)' = Cell(top))
<1>0. TypeOK /\ DequeInv /\ BufferInv /\ top \in Nat /\ owner.bottom \in Nat /\ Limit \in Nat
  BY Numbers DEF QueueInv
<1>1. ASSUME UNCHANGED dequeVars, Limit' = Limit
      PROVE  top' = top /\ (Safe => Safe' /\ Cell(top)' = Cell(top))
  BY <1>1 DEF dequeVars, Safe, IsCell, Cell, OwnCell
<1>2. ASSUME top' = top, ring' = ring, Safe => top < Limit',
             NEW b \in Nat, buffer' = Append(buffer, BottomStore(b))
      PROVE  Safe => Safe' /\ Cell(top)' = Cell(top)
  <2>1. /\ \A k : IsCell(k)' <=> IsCell(k)
        /\ \A k \in DOMAIN buffer : buffer'[k] = buffer[k]
    BY <1>2, BottomStored
  <2>2. \A i : Cell(i)' = Cell(i)
    BY <1>2, CellsStay
  <2>3. \A k : IsCell(k) => k \in DOMAIN buffer
    BY DEF IsCell
  <2>4. Cell(top)' = Cell(top)
    BY <1>2, <2>2
  <2> QED
    BY <1>2, <2>1, <2>3, <2>4 DEF Safe
<1>3. ASSUME NEW j \in Jobs, DequePush(j), ~Full(owner.bottom),
             owner.at \notin {"top", "last"}, owner'.at \notin {"top", "last"},
             owner'.bottom = owner.bottom + 1
      PROVE  top' = top /\ (Safe => Safe' /\ Cell(top)' = Cell(top))
  <2>1. /\ \A k \in DOMAIN buffer : buffer'[k] = buffer[k]
        /\ buffer'[Len(buffer) + 1] = CellStore(Limit, j)
        /\ \A k : IsCell(k)' <=> IsCell(k) \/ k = Len(buffer) + 1
        /\ Limit = owner.bottom /\ \A i \in Indices : Cell(i)' = Cell(i)
    BY <1>3, Pushed
  <2>a. buffer'[Len(buffer) + 1].index = Limit
    BY <2>1 DEF CellStore
  <2>2. Limit' = Limit + 1 /\ top' = top
    BY <1>3, <2>1 DEF Limit, DequePush
  <2>3. \A k : IsCell(k) => k \in DOMAIN buffer
    BY DEF IsCell
  <2>4. ASSUME Safe PROVE Safe' /\ Cell(top)' = Cell(top)
    <3>1. top \in Indices
      BY <1>0, <2>4 DEF Safe, Indices
    <3>2. \A i : i \in Indices => Cell(i)' = Cell(i)
      BY <2>1
    <3>3. Cell(top)' = Cell(top)
      BY <2>2, <3>1, <3>2
    <3> QED
      BY <1>0, <2>1, <2>a, <2>2, <2>3, <2>4, <3>3 DEF Safe
  <2> QED
    BY <2>2, <2>4
<1>4. CASE Flush
  <2>1. /\ UNCHANGED <<top, owner>> /\ \A i \in Nat : Cell(i)' = Cell(i)
        /\ \A k \in DOMAIN buffer' : k + 1 \in DOMAIN buffer /\ buffer'[k] = buffer[k + 1]
        /\ \A k : IsCell(k)' <=> k \in DOMAIN buffer' /\ IsCell(k + 1)
    BY <1>4, Flushed
  <2>2. Limit' = Limit
    BY <2>1 DEF Limit
  <2>3. \A i : i \in Nat => Cell(i)' = Cell(i)
    BY <2>1
  <2>4. Cell(top)' = Cell(top)
    BY <1>0, <2>1, <2>3
  <2> QED
    BY <2>1, <2>2, <2>4 DEF Safe
<1>5. ASSUME NEW j \in Jobs, SubmitLocal(j)
      PROVE  top' = top /\ (Safe => Safe' /\ Cell(top)' = Cell(top))
  <2>1. CASE ~Full(owner.bottom)
    <3>1. DequePush(j) /\ owner' = [owner EXCEPT !.bottom = @ + 1] /\ owner.at = "idle"
      BY <1>5, <2>1 DEF SubmitLocal
    <3>2. owner'.at = "idle" /\ owner'.bottom = owner.bottom + 1
      BY <1>0, <3>1 DEF TypeOK
    <3> QED
      BY <1>3, <2>1, <3>1, <3>2
  <2>2. CASE Full(owner.bottom)
    <3>1. UNCHANGED <<dequeVars, owner>>
      BY <1>5, <2>2 DEF SubmitLocal
    <3> QED
      BY <1>1, <3>1 DEF Limit
  <2> QED
    BY <2>1, <2>2
<1>6. ASSUME NEW j \in Jobs, Submit(j)
      PROVE  top' = top /\ (Safe => Safe' /\ Cell(top)' = Cell(top))
  <2>1. UNCHANGED <<dequeVars, owner>>
    BY <1>6 DEF Submit
  <2> QED
    BY <1>1, <2>1 DEF Limit
<1>7. CASE PopCall \/ PopLists \/ PopFree \/ PopDrained
  <2>1. UNCHANGED dequeVars
    BY <1>7 DEF PopCall, PopLists, PopFree, PopDrained
  <2>2. /\ owner.at \notin {"top", "last"} /\ owner'.at \notin {"top", "last"}
        /\ owner'.bottom = owner.bottom
    BY <1>0, <1>7 DEF PopCall, PopLists, PopFree, PopDrained, TypeOK
  <2> QED
    BY <1>1, <2>1, <2>2 DEF Limit
<1>8. CASE PopBegin
  <2>1. CASE owner.bottom <= top
    <3>1. /\ owner.at = "begin" /\ owner'.at \in {"idle", "lists"}
          /\ owner'.bottom = owner.bottom /\ UNCHANGED dequeVars
      BY <1>0, <1>8, <2>1 DEF PopBegin, Missed, TypeOK, dequeVars
    <3> QED
      BY <1>1, <3>1 DEF Limit
  <2>2. CASE owner.bottom > top
    <3>1. /\ buffer' = Append(buffer, BottomStore(owner.bottom - 1))
          /\ UNCHANGED <<ring, top, bottom>> /\ owner.at = "begin"
          /\ owner' = [owner EXCEPT !.at = "top", !.bottom = @ - 1]
      BY <1>0, <1>8, <2>2 DEF PopBegin, StoreBottom
    <3>2. owner'.at = "top" /\ owner'.bottom = owner.bottom - 1
      BY <1>0, <3>1 DEF TypeOK
    <3>3. Limit' = Limit /\ owner.bottom - 1 \in Nat
      BY <1>0, <2>2, <3>1, <3>2 DEF Limit
    <3> QED
      BY <1>2, <3>1, <3>3 DEF Safe
  <2> QED
    BY <1>0, <2>1, <2>2
<1>9. CASE PopTop
  <2>0. /\ owner.at = "top" /\ buffer = <<>> /\ UNCHANGED <<ring, top, bottom>>
        /\ Limit = owner.bottom + 1
    BY <1>9 DEF PopTop, Fenced, Limit
  <2>1. CASE owner.bottom < top
    <3>1. ~Safe
      BY <1>0, <2>0, <2>1 DEF Safe
    <3> QED
      BY <2>0, <3>1
  <2>2. CASE owner.bottom = top
    <3>1. /\ buffer' = buffer /\ owner' = [owner EXCEPT !.at = "last"]
      BY <1>0, <1>9, <2>2 DEF PopTop, IsLast
    <3>2. owner'.at = "last" /\ owner'.bottom = owner.bottom
      BY <1>0, <3>1 DEF TypeOK
    <3> QED
      BY <1>1, <2>0, <3>1, <3>2 DEF Limit, dequeVars
  <2>3. CASE owner.bottom > top
    <3>1. /\ buffer' = buffer /\ owner' = [owner EXCEPT !.at = "idle"]
      BY <1>0, <1>9, <2>3 DEF PopTop, IsLast
    <3>2. owner'.at = "idle" /\ owner'.bottom = owner.bottom
      BY <1>0, <3>1 DEF TypeOK
    <3>3. Limit' = owner.bottom
      BY <3>2 DEF Limit
    <3> QED
      BY <1>0, <2>0, <2>3, <3>1, <3>3 DEF Safe, IsCell, Cell, OwnCell
  <2> QED
    BY <1>0, <2>1, <2>2, <2>3
<1>10. CASE PopLast
  <2>0. /\ owner.at = "last" /\ ring' = ring /\ Limit = owner.bottom + 1
        /\ buffer' = Append(buffer, BottomStore(owner.bottom + 1))
    BY <1>10 DEF PopLast, StoreBottom, Limit
  <2>1. CASE top' = top
    <3>1. owner'.at \in {"idle", "lists"} /\ owner'.bottom = owner.bottom + 1
      BY <1>0, <1>10 DEF PopLast, Missed, TypeOK
    <3>2. Limit' = Limit
      BY <2>0, <3>1 DEF Limit
    <3> QED
      BY <1>0, <1>2, <2>0, <2>1, <3>2 DEF Safe
  <2> QED
    BY <1>10, <2>1 DEF PopLast
<1>11. CASE PopDrain
  <2>1. /\ owner.at = "drain" /\ ~Full(owner.bottom) /\ owner.node \in Items
        /\ DequePush(job[owner.node])
        /\ owner'.at = "free" /\ owner'.bottom = owner.bottom + 1
    BY <1>0, <1>11 DEF PopDrain, TypeOK
  <2>2. job[owner.node] \in Jobs
    BY <1>11, Drained DEF QueueInv, ContentInv
  <2> QED
    BY <1>3, <2>1, <2>2
<1> QED
  BY <1>4, <1>5, <1>6, <1>7, <1>8, <1>9, <1>10, <1>11 DEF Pop

(* The invariant of the thieves.                                           *)
LEMMA ThiefStep ==
    ASSUME QueueInv, [Next]_vars
    PROVE  ThiefInv'
<1> DEFINE Good(u) ==
      /\ thief[u].at # "idle" => thief[u].top <= top
      /\ thief[u].at \in {"cell", "cas"} /\ thief[u].top = top => Safe
      /\ thief[u].at = "cas" /\ thief[u].top = top => thief[u].job = Cell(top)
<1>1. \A u \in Thieves : Good(u)
  BY DEF QueueInv, ThiefInv, Safe
<1> SUFFICES ASSUME NEW u \in Thieves PROVE Good(u)'
  BY DEF ThiefInv, Safe
<1>0. TypeOK /\ DequeInv /\ BufferInv /\ top \in Nat /\ bottom \in Nat /\ Limit \in Nat
  BY Numbers DEF QueueInv
<1>2. ASSUME thief'[u] = thief[u],
             \/ top' = top + 1
             \/ top' = top /\ (Safe => Safe' /\ Cell(top)' = Cell(top))
      PROVE  Good(u)'
  BY <1>2, ThievesWatch
<1>3. CASE Flush \/ Pop \/ \E j \in Jobs : SubmitLocal(j) \/ Submit(j)
  <2>1. UNCHANGED thief
    BY <1>3 DEF Flush, Pop, PopCall, PopBegin, PopTop, PopLast, PopLists, PopDrain,
                PopFree, PopDrained, SubmitLocal, Submit
  <2> QED
    BY <1>2, <1>3, <2>1, FirstElementStays
<1>4. ASSUME UNCHANGED <<dequeVars, owner>>
      PROVE  top' = top /\ Safe' = Safe /\ Cell(top)' = Cell(top)
  BY <1>4 DEF dequeVars, Safe, Limit, IsCell, Cell, OwnCell
<1>5. CASE UNCHANGED vars
  BY <1>2, <1>4, <1>5 DEF vars
<1>6. ASSUME NEW t \in Thieves, StealTop(t) PROVE Good(u)'
  <2>1. UNCHANGED <<dequeVars, owner>>
    BY <1>6 DEF StealTop
  <2>2. CASE u = t
    <3>1. thief'[u].at = "bottom" /\ thief'[u].top = top
      BY <1>0, <1>6, <2>2 DEF StealTop, TypeOK
    <3> QED
      BY <1>0, <1>4, <2>1, <3>1
  <2>3. CASE u # t
    <3>1. thief'[u] = thief[u]
      BY <1>0, <1>6, <2>3 DEF StealTop, TypeOK
    <3> QED
      BY <1>2, <1>4, <2>1, <3>1
  <2> QED
    BY <2>2, <2>3
<1>7. ASSUME NEW t \in Thieves, StealBottom(t) PROVE Good(u)'
  <2>1. UNCHANGED <<dequeVars, owner>>
    BY <1>7 DEF StealBottom
  <2>2. CASE u = t
    <3>1. /\ thief[u].top \in Nat /\ thief[u].at = "bottom" /\ thief'[u].top = thief[u].top
          /\ thief'[u].at = IF bottom - thief[u].top <= 0 THEN "idle" ELSE "cell"
      BY <1>0, <1>7, <2>2 DEF StealBottom, TypeOK
    <3>2. ASSUME thief'[u].at = "cell", thief[u].top = top PROVE Safe
      <4>1. top < bottom
        BY <1>0, <3>1, <3>2
      <4>2. top < Limit
        BY <1>0, <4>1 DEF DequeInv
      <4>3. ASSUME NEW k \in DOMAIN buffer, IsCell(k) PROVE buffer[k].index # top
        <5>1. k # Len(buffer)
          BY <1>0, <4>3 DEF IsCell, DequeInv, BottomStore
        <5>2. bottom <= buffer[k].index /\ buffer[k].index \in Nat
          BY <1>0, <4>3, <5>1, Numbers DEF BufferInv, Raises
        <5> QED
          BY <1>0, <4>1, <5>2
      <4> QED
        BY <4>2, <4>3 DEF Safe
    <3> QED
      BY <1>1, <1>4, <2>1, <3>1, <3>2
  <2>3. CASE u # t
    <3>1. thief'[u] = thief[u]
      BY <1>0, <1>7, <2>3 DEF StealBottom, TypeOK
    <3> QED
      BY <1>2, <1>4, <2>1, <3>1
  <2> QED
    BY <2>2, <2>3
<1>8. ASSUME NEW t \in Thieves, StealCell(t) PROVE Good(u)'
  <2>1. UNCHANGED <<dequeVars, owner>>
    BY <1>8 DEF StealCell
  <2>2. CASE u = t
    <3>1. /\ thief[u].at = "cell" /\ thief'[u].top = thief[u].top
          /\ thief'[u].at = "cas" /\ thief'[u].job = ring[Slot(thief[u].top)]
      BY <1>0, <1>8, <2>2 DEF StealCell, TypeOK
    <3>2. thief[u].top = top => Safe /\ Cell(top) = ring[Slot(top)]
      BY <1>1, <3>1, TopInMemory
    <3> QED
      BY <1>1, <1>4, <2>1, <3>1, <3>2
  <2>3. CASE u # t
    <3>1. thief'[u] = thief[u]
      BY <1>0, <1>8, <2>3 DEF StealCell, TypeOK
    <3> QED
      BY <1>2, <1>4, <2>1, <3>1
  <2> QED
    BY <2>2, <2>3
<1>9. ASSUME NEW t \in Thieves, StealExchange(t) PROVE Good(u)'
  <2>1. CASE u = t
    <3>1. thief'[u].at = "idle"
      BY <1>0, <1>9, <2>1 DEF StealExchange, TypeOK
    <3> QED
      BY <3>1
  <2>2. CASE u # t
    <3>1. thief'[u] = thief[u] /\ UNCHANGED <<ring, bottom, buffer, owner>>
      BY <1>0, <1>9, <2>2 DEF StealExchange, TypeOK
    <3>2. CASE top' = top + 1
      BY <1>2, <3>1, <3>2
    <3>3. CASE top' = top
      BY <1>2, <1>4, <3>1, <3>3 DEF dequeVars
    <3> QED
      BY <1>9, <3>2, <3>3 DEF StealExchange, WinsTop
  <2> QED
    BY <2>1, <2>2
<1> QED
  BY <1>3, <1>5, <1>6, <1>7, <1>8, <1>9 DEF Next, Steal

-----------------------------------------------------------------------------
(* What is in the queue, place by place.                                   *)
LEMMA WhereJobsAre ==
    /\ \A j : j \in InQueue <=> \/ \E i \in Indices : Cell(i) = j
                                \/ \E n \in Listed : job[n] = j
    /\ \A j : j \in InQueue' <=> \/ \E i \in Indices' : Cell(i)' = j
                                 \/ \E n \in Listed' : job'[n] = j
BY DEF InQueue, InDeque, Indices, Listed, Cell

(* A job in the deque is there once, and was not taken.                    *)
LEMMA InDequeOnce ==
    ASSUME QueueInv, NEW x \in Indices
    PROVE  Cell(x) \in Jobs /\ Cell(x) \in InQueue /\ taken[Cell(x)] = 0
BY WhereJobsAre DEF QueueInv, ContentInv

(* Nothing comes, nothing goes.                                            *)
LEMMA ContentKept ==
    ASSUME QueueInv, Indices' = Indices, \A i : i \in Indices => Cell(i)' = Cell(i),
           Listed' = Listed, UNCHANGED <<job, added, taken>>
    PROVE  ContentInv' /\ InQueue' = InQueue
<1>1. ContentInv
  BY DEF QueueInv
<1>2. InQueue' = InQueue
  BY WhereJobsAre
<1> QED
  BY <1>1, <1>2 DEF ContentInv

(* A new job, in the deque.                                                *)
LEMMA ContentInDeque ==
    ASSUME QueueInv, NEW j \in Jobs, j \notin added, NEW x, x \notin Indices,
           Indices' = Indices \cup {x}, \A i : i \in Indices => Cell(i)' = Cell(i),
           \A i : i = x => Cell(i)' = j,
           Listed' = Listed, UNCHANGED <<job, taken>>, added' = added \cup {j}
    PROVE  ContentInv' /\ Bag!Next
<1>1. ContentInv /\ taken \in [Jobs -> 0 .. 1]
  BY DEF QueueInv, TypeOK
<1>2. j \notin InQueue /\ taken[j] = 0
  BY <1>1 DEF ContentInv
<1>3. InQueue' = InQueue \cup {j}
  BY WhereJobsAre
<1>4. \A i \in Indices : Cell(i) # j
  BY <1>2, WhereJobsAre
<1>5. \A n \in Listed : job[n] # j
  BY <1>2, WhereJobsAre
<1>6. ContentInv'
  <2>1. \A i \in Indices' : Cell(i)' \in Jobs
    BY <1>1 DEF ContentInv
  <2>2. \A i, k \in Indices' : Cell(i)' = Cell(k)' => i = k
    BY <1>1, <1>4 DEF ContentInv
  <2>3. \A i \in Indices', n \in Listed' : Cell(i)' # job'[n]
    BY <1>1, <1>5 DEF ContentInv
  <2>4. \A k \in Jobs : k \in added' <=> k \in InQueue' \/ taken'[k] = 1
    BY <1>1, <1>3 DEF ContentInv
  <2>5. \A k \in InQueue' : taken'[k] = 0
    BY <1>1, <1>2, <1>3 DEF ContentInv
  <2> QED
    BY <1>1, <2>1, <2>2, <2>3, <2>4, <2>5 DEF ContentInv
<1>7. Bag!Put(j)
  BY <1>2, <1>3 DEF Bag!Put
<1> QED
  BY <1>6, <1>7 DEF Bag!Next

(* A new job, in a list.                                                   *)
LEMMA ContentInList ==
    ASSUME QueueInv, NEW j \in Jobs, j \notin added, NEW n \in Items, n \notin Listed,
           Listed' = Listed \cup {n}, job' = [job EXCEPT ![n] = j],
           Indices' = Indices, \A i : i \in Indices => Cell(i)' = Cell(i),
           UNCHANGED taken, added' = added \cup {j}
    PROVE  ContentInv' /\ Bag!Next
<1>1. ContentInv /\ taken \in [Jobs -> 0 .. 1] /\ job \in [Items -> Jobs \cup {None}]
  BY DEF QueueInv, TypeOK
<1>2. j \notin InQueue /\ taken[j] = 0
  BY <1>1 DEF ContentInv
<1>3. job'[n] = j /\ \A m \in Listed : job'[m] = job[m]
  BY <1>1
<1>4. InQueue' = InQueue \cup {j}
  BY <1>3, WhereJobsAre
<1>5. \A i \in Indices : Cell(i) # j
  BY <1>2, WhereJobsAre
<1>6. \A m \in Listed : job[m] # j
  BY <1>2, WhereJobsAre
<1>7. ContentInv'
  <2>1. \A i \in Indices' : Cell(i)' \in Jobs
    BY <1>1 DEF ContentInv
  <2>2. \A i, k \in Indices' : Cell(i)' = Cell(k)' => i = k
    BY <1>1 DEF ContentInv
  <2>3. \A i \in Indices', m \in Listed' : Cell(i)' # job'[m]
    BY <1>1, <1>3, <1>5 DEF ContentInv
  <2>4. \A k \in Jobs : k \in added' <=> k \in InQueue' \/ taken'[k] = 1
    BY <1>1, <1>4 DEF ContentInv
  <2>5. \A k \in InQueue' : taken'[k] = 0
    BY <1>1, <1>2, <1>4 DEF ContentInv
  <2>6. /\ \A m \in Listed' : job'[m] \in Jobs
        /\ \A m, k \in Listed' : job'[m] = job'[k] => m = k
    BY <1>1, <1>3, <1>6 DEF ContentInv
  <2> QED
    BY <2>1, <2>2, <2>3, <2>4, <2>5, <2>6 DEF ContentInv
<1>8. Bag!Put(j)
  BY <1>2, <1>4 DEF Bag!Put
<1> QED
  BY <1>7, <1>8 DEF Bag!Next

(* An element leaves the deque.                                            *)
LEMMA ContentTaken ==
    ASSUME QueueInv, NEW x \in Indices, Indices' = Indices \ {x},
           \A i : i \in Indices => Cell(i)' = Cell(i),
           Listed' = Listed, UNCHANGED <<job, added>>, Take(Cell(x))
    PROVE  ContentInv' /\ Bag!Next
<1>0. PICK j \in Jobs : j = Cell(x)
  BY InDequeOnce
<1>1. ContentInv /\ taken \in [Jobs -> 0 .. 1]
  BY DEF QueueInv, TypeOK
<1>2. j \in Jobs /\ j \in InQueue /\ taken[j] = 0
  BY <1>0, InDequeOnce
<1>3. /\ \A i \in Indices' : Cell(i) # j
      /\ \A n \in Listed : job[n] # j
  BY <1>0, <1>1 DEF ContentInv
<1>4. taken'[j] = 1 /\ \A k \in Jobs \ {j} : taken'[k] = taken[k]
  BY <1>0, <1>1, <1>2 DEF Take
<1>5. InQueue' = InQueue \ {j}
  <2>1. \A i \in Indices' : i \in Indices /\ Cell(i)' = Cell(i)
    OBVIOUS
  <2>2. \A i \in Indices : Cell(i) # j => i \in Indices'
    BY <1>0
  <2> QED
    BY <1>3, <2>1, <2>2, WhereJobsAre
<1>6. ContentInv'
  <2>0. \A i \in Indices' : i \in Indices /\ Cell(i)' = Cell(i)
    OBVIOUS
  <2>1. \A i \in Indices' : Cell(i)' \in Jobs
    BY <1>1, <2>0 DEF ContentInv
  <2>2. \A i, k \in Indices' : Cell(i)' = Cell(k)' => i = k
    BY <1>1, <2>0 DEF ContentInv
  <2>3. \A i \in Indices', m \in Listed' : Cell(i)' # job'[m]
    BY <1>1, <2>0 DEF ContentInv
  <2>4. \A k \in Jobs : k \in added' <=> k \in InQueue' \/ taken'[k] = 1
    BY <1>1, <1>2, <1>4, <1>5 DEF ContentInv
  <2>5. \A k \in InQueue' : taken'[k] = 0
    <3>1. \A k \in InQueue : k \in Jobs
      BY <1>1, WhereJobsAre DEF ContentInv
    <3> QED
      BY <1>1, <1>4, <1>5, <3>1 DEF ContentInv
  <2>6. /\ \A m \in Listed' : job'[m] \in Jobs
        /\ \A m, k \in Listed' : job'[m] = job'[k] => m = k
    BY <1>1 DEF ContentInv
  <2> QED
    BY <2>1, <2>2, <2>3, <2>4, <2>5, <2>6 DEF ContentInv
<1>7. Bag!Take(j)
  <2>1. {k \in Jobs : taken'[k] = 1} = {k \in Jobs : taken[k] = 1} \cup {j}
    BY <1>2, <1>4
  <2> QED
    BY <1>2, <1>5, <2>1 DEF Bag!Take
<1> QED
  BY <1>2, <1>6, <1>7 DEF Bag!Next

(* A job moves from a list to the deque.                                   *)
LEMMA ContentMoved ==
    ASSUME QueueInv, NEW n \in Listed, NEW x, x \notin Indices,
           Listed' = Listed \ {n}, \A m \in Listed' : job'[m] = job[m],
           Indices' = Indices \cup {x}, \A i : i \in Indices => Cell(i)' = Cell(i),
           \A i : i = x => Cell(i)' = job[n],
           UNCHANGED <<added, taken>>
    PROVE  ContentInv' /\ InQueue' = InQueue
<1>1. ContentInv
  BY DEF QueueInv
<1>2. InQueue' = InQueue
  <2>1. ASSUME NEW j \in InQueue PROVE j \in InQueue'
    <3>1. CASE \E i \in Indices : Cell(i) = j
      BY <3>1, WhereJobsAre
    <3>2. CASE \E m \in Listed : job[m] = j
      BY <3>2, WhereJobsAre
    <3> QED
      BY <3>1, <3>2, WhereJobsAre
  <2>2. ASSUME NEW j \in InQueue' PROVE j \in InQueue
    <3>1. CASE \E i \in Indices' : Cell(i)' = j
      BY <3>1, WhereJobsAre
    <3>2. CASE \E m \in Listed' : job'[m] = j
      BY <3>2, WhereJobsAre
    <3> QED
      BY <3>1, <3>2, WhereJobsAre
  <2> QED
    BY <2>1, <2>2
<1>3. \A i \in Indices' : Cell(i)' \in Jobs
  BY <1>1 DEF ContentInv
<1>4. \A i, k \in Indices' : Cell(i)' = Cell(k)' => i = k
  BY <1>1 DEF ContentInv
<1>5. \A i \in Indices', m \in Listed' : Cell(i)' # job'[m]
  BY <1>1 DEF ContentInv
<1>6. /\ \A m \in Listed' : job'[m] \in Jobs
      /\ \A m, k \in Listed' : job'[m] = job'[k] => m = k
  BY <1>1 DEF ContentInv
<1> QED
  BY <1>1, <1>2, <1>3, <1>4, <1>5, <1>6 DEF ContentInv

-----------------------------------------------------------------------------
(* What each step does to the content: nothing, or one job in, or one out. *)
LEMMA ContentStep ==
    ASSUME QueueInv, [Next]_vars
    PROVE  ContentInv' /\ (Bag!Next \/ UNCHANGED <<InQueue, taken>>)
<1> DEFINE Goal == ContentInv' /\ (Bag!Next \/ UNCHANGED <<InQueue, taken>>)
<1> HIDE DEF Goal
<1>0. /\ TypeOK /\ DequeInv /\ top \in Nat /\ owner.bottom \in Nat /\ Limit \in Nat
      /\ top <= Limit
  BY Numbers DEF QueueInv, DequeInv
<1>1. ASSUME top' = top, Limit' = Limit, \A i : i \in Indices => Cell(i)' = Cell(i),
             Listed' = Listed, UNCHANGED <<job, added, taken>>
      PROVE  Goal
  <2>1. Indices' = Indices
    BY <1>1 DEF Indices
  <2> QED
    BY <1>1, <2>1, ContentKept DEF Goal
<1>2. ASSUME ring' = ring,
             buffer' = buffer \/ \E b \in Nat : buffer' = Append(buffer, BottomStore(b))
      PROVE  \A i : i \in Indices => Cell(i)' = Cell(i)
  BY <1>2, CellsStay
<1>3. CASE Flush
  <2>1. /\ UNCHANGED <<top, owner, added, taken>> /\ \A i \in Nat : Cell(i)' = Cell(i)
    BY <1>3, Flushed
  <2>2. \A i : i \in Nat => Cell(i)' = Cell(i)
    BY <2>1
  <2>3. \A i : i \in Indices => Cell(i)' = Cell(i)
    BY <1>0, <2>2 DEF Indices
  <2>4. Limit' = Limit
    BY <2>1 DEF Limit
  <2> QED
    BY <1>1, <1>3, <2>1, <2>3, <2>4, ListsStay DEF Goal
<1>4. CASE UNCHANGED vars
  <2>1. UNCHANGED <<dequeVars, owner, added, taken>>
    BY <1>4 DEF vars
  <2> QED
    BY <1>1, <1>2, <1>4, <2>1, ListsStay DEF Limit, dequeVars, Goal
<1>5. CASE \E t \in Thieves : StealTop(t) \/ StealBottom(t) \/ StealCell(t)
  <2>1. UNCHANGED <<dequeVars, owner, added, taken>>
    BY <1>5 DEF StealTop, StealBottom, StealCell
  <2>2. \E t \in Thieves : Steal(t)
    BY <1>5 DEF Steal
  <2> QED
    BY <1>1, <1>2, <2>1, <2>2, ListsStay DEF Limit, dequeVars, Goal
<1>6. ASSUME NEW t \in Thieves, StealExchange(t) PROVE Goal
  <2>1. UNCHANGED <<ring, bottom, buffer, owner, added>>
    BY <1>6 DEF StealExchange
  <2>2. Limit' = Limit
    BY <2>1 DEF Limit
  <2>3. Listed' = Listed /\ UNCHANGED job
    BY <1>6, ListsStay DEF Steal
  <2>4. \A i : i \in Indices => Cell(i)' = Cell(i)
    BY <1>2, <2>1
  <2>5. CASE WinsTop(thief[t].top)
    <3>1. /\ thief[t].top = top /\ top' = top + 1 /\ Take(thief[t].job)
          /\ thief[t].job = Cell(top) /\ top < Limit
      BY <1>6, <2>5 DEF StealExchange, WinsTop, QueueInv, ThiefInv
    <3>2. top \in Indices /\ Indices' = Indices \ {top}
      BY <1>0, <2>2, <3>1 DEF Indices
    <3> QED
      BY <2>1, <2>3, <2>4, <3>1, <3>2, ContentTaken DEF Goal
  <2>6. CASE ~WinsTop(thief[t].top)
    BY <1>1, <1>6, <2>1, <2>2, <2>3, <2>4, <2>6 DEF StealExchange
  <2> QED
    BY <2>5, <2>6
<1>7. ASSUME NEW j \in Jobs, SubmitLocal(j) PROVE Goal
  <2>1. CASE ~Full(owner.bottom)
    <3>1. /\ DequePush(j) /\ owner' = [owner EXCEPT !.bottom = @ + 1] /\ owner.at = "idle"
          /\ j \notin added /\ added' = added \cup {j} /\ UNCHANGED taken
      BY <1>7, <2>1 DEF SubmitLocal
    <3>2. owner'.at = "idle" /\ owner'.bottom = owner.bottom + 1
      BY <1>0, <3>1 DEF TypeOK
    <3>3. /\ Limit = owner.bottom
          /\ \A i : i \in Indices => Cell(i)' = Cell(i)
          /\ \A i : i = Limit => Cell(i)' = j
      BY <2>1, <3>1, Pushed
    <3>4. Limit' = Limit + 1 /\ top' = top
      BY <3>1, <3>2, <3>3 DEF Limit, DequePush
    <3>5. Limit \notin Indices /\ Indices' = Indices \cup {Limit}
      BY <1>0, <3>4 DEF Indices
    <3>6. Listed' = Listed /\ UNCHANGED job
      BY <1>7, <2>1, ListsStay
    <3>7. ContentInv' /\ Bag!Next
      BY <3>1, <3>3, <3>5, <3>6, ContentInDeque
    <3> QED
      BY <3>7 DEF Goal
  <2>2. CASE Full(owner.bottom)
    <3>1. j \notin added /\ added' = added \cup {j} /\ UNCHANGED taken
      BY <1>7 DEF SubmitLocal
    <3>2. PICK n \in Items \ Listed :
             Listed' = Listed \cup {n} /\ job' = [job EXCEPT ![n] = j]
      BY <1>7, <2>2, LocalListed
    <3>3. UNCHANGED <<dequeVars, owner>>
      BY <1>7, <2>2, LocalListed
    <3>4. /\ \A i : i \in Indices => Cell(i)' = Cell(i)
          /\ Indices' = Indices
      BY <1>2, <3>3 DEF dequeVars, Indices, Limit
    <3>5. ContentInv' /\ Bag!Next
      BY <3>1, <3>2, <3>4, ContentInList
    <3> QED
      BY <3>5 DEF Goal
  <2> QED
    BY <2>1, <2>2
<1>8. ASSUME NEW j \in Jobs, Submit(j) PROVE Goal
  <2>1. j \notin added /\ added' = added \cup {j} /\ UNCHANGED taken
    BY <1>8 DEF Submit
  <2>2. PICK n \in Items \ Listed :
           Listed' = Listed \cup {n} /\ job' = [job EXCEPT ![n] = j]
    BY <1>8, InboxListed
  <2>3. UNCHANGED <<dequeVars, owner>>
    BY <1>8, InboxListed
  <2>4. /\ \A i : i \in Indices => Cell(i)' = Cell(i)
        /\ Indices' = Indices
    BY <1>2, <2>3 DEF dequeVars, Indices, Limit
  <2>5. ContentInv' /\ Bag!Next
    BY <2>1, <2>2, <2>4, ContentInList
  <2> QED
    BY <2>5 DEF Goal
<1>9. CASE PopCall \/ PopLists \/ PopFree \/ PopDrained
  <2>1. UNCHANGED <<dequeVars, added, taken>>
    BY <1>9 DEF PopCall, PopLists, PopFree, PopDrained
  <2>2. /\ owner.at \notin {"top", "last"} /\ owner'.at \notin {"top", "last"}
        /\ owner'.bottom = owner.bottom
    BY <1>0, <1>9 DEF PopCall, PopLists, PopFree, PopDrained, TypeOK
  <2> QED
    BY <1>1, <1>2, <1>9, <2>1, <2>2, ListsStay DEF Limit, dequeVars, Goal
<1>10. CASE PopBegin
  <2>a. Listed' = Listed /\ UNCHANGED <<job, added, taken, ring, top>>
    BY <1>10, ListsStay DEF PopBegin
  <2>1. CASE owner.bottom <= top
    <3>1. /\ owner.at = "begin" /\ owner'.at \in {"idle", "lists"}
          /\ owner'.bottom = owner.bottom /\ buffer' = buffer
      BY <1>0, <1>10, <2>1 DEF PopBegin, Missed, TypeOK
    <3> QED
      BY <1>1, <1>2, <2>a, <3>1 DEF Limit, Goal
  <2>2. CASE owner.bottom > top
    <3>1. /\ buffer' = Append(buffer, BottomStore(owner.bottom - 1)) /\ owner.at = "begin"
          /\ owner' = [owner EXCEPT !.at = "top", !.bottom = @ - 1]
      BY <1>0, <1>10, <2>2 DEF PopBegin, StoreBottom
    <3>2. owner'.at = "top" /\ owner'.bottom = owner.bottom - 1
      BY <1>0, <3>1 DEF TypeOK
    <3>3. Limit' = Limit /\ owner.bottom - 1 \in Nat
      BY <1>0, <2>2, <3>1, <3>2 DEF Limit
    <3> QED
      BY <1>1, <1>2, <2>a, <3>1, <3>3 DEF Goal
  <2> QED
    BY <1>0, <2>1, <2>2
<1>11. CASE PopTop
  <2>0. /\ owner.at = "top" /\ buffer = <<>> /\ UNCHANGED <<ring, top, bottom, added>>
        /\ Limit = owner.bottom + 1 /\ Listed' = Listed /\ UNCHANGED job
    BY <1>11, ListsStay DEF PopTop, Fenced, Limit
  <2>1. CASE owner.bottom < top
    <3>1. /\ buffer' = Append(buffer, BottomStore(top)) /\ UNCHANGED taken
          /\ owner' = [owner EXCEPT !.at = Missed, !.bottom = top]
      BY <1>0, <1>11, <2>1 DEF PopTop, StoreBottom
    <3>2. owner'.at \in {"idle", "lists"} /\ owner'.bottom = top
      BY <1>0, <3>1 DEF Missed, TypeOK
    <3>3. Limit' = Limit
      BY <1>0, <2>0, <2>1, <3>2 DEF Limit
    <3> QED
      BY <1>0, <1>1, <1>2, <2>0, <3>1, <3>3 DEF Goal
  <2>2. CASE owner.bottom = top
    <3>1. /\ buffer' = buffer /\ UNCHANGED taken /\ owner' = [owner EXCEPT !.at = "last"]
      BY <1>0, <1>11, <2>2 DEF PopTop, IsLast
    <3>2. owner'.at = "last" /\ owner'.bottom = owner.bottom
      BY <1>0, <3>1 DEF TypeOK
    <3>3. Limit' = Limit
      BY <2>0, <3>2 DEF Limit
    <3> QED
      BY <1>1, <1>2, <2>0, <3>1, <3>3 DEF Goal
  <2>3. CASE owner.bottom > top
    <3>1. /\ buffer' = buffer /\ owner' = [owner EXCEPT !.at = "idle"]
          /\ Take(OwnCell(Slot(owner.bottom)))
      BY <1>0, <1>11, <2>3 DEF PopTop, IsLast
    <3>2. owner'.at = "idle" /\ owner'.bottom = owner.bottom
      BY <1>0, <3>1 DEF TypeOK
    <3>3. Limit' = owner.bottom
      BY <3>2 DEF Limit
    <3>4. owner.bottom \in Indices /\ Indices' = Indices \ {owner.bottom}
      BY <1>0, <2>0, <2>3, <3>3 DEF Indices
    <3>5. Take(Cell(owner.bottom))
      BY <3>1 DEF Cell
    <3>6. \A i : i \in Indices => Cell(i)' = Cell(i)
      BY <1>2, <2>0, <3>1
    <3> QED
      BY <2>0, <3>4, <3>5, <3>6, ContentTaken DEF Goal
  <2> QED
    BY <1>0, <2>1, <2>2, <2>3
<1>12. CASE PopLast
  <2>0. /\ owner.at = "last" /\ buffer = <<>> /\ ring' = ring /\ UNCHANGED added
        /\ Limit = owner.bottom + 1 /\ Listed' = Listed /\ UNCHANGED job
        /\ buffer' = Append(buffer, BottomStore(owner.bottom + 1))
    BY <1>12, ListsStay DEF PopLast, StoreBottom, Limit
  <2>1. owner'.at \in {"idle", "lists"} /\ owner'.bottom = owner.bottom + 1
    BY <1>0, <1>12 DEF PopLast, Missed, TypeOK
  <2>2. Limit' = Limit /\ owner.bottom + 1 \in Nat
    BY <1>0, <2>0, <2>1 DEF Limit
  <2>3. \A i : i \in Indices => Cell(i)' = Cell(i)
    BY <1>2, <2>0, <2>2
  <2>4. CASE WinsTop(owner.bottom)
    <3>1. owner.bottom = top /\ top' = top + 1 /\ Take(ring[Slot(top)])
      BY <1>12, <2>4 DEF PopLast, WinsTop
    <3>2. \A k : ~IsCell(k)
      BY <2>0 DEF IsCell
    <3>3. Cell(top) = ring[Slot(top)]
      BY <1>0, <3>2, CellInMemory DEF Cell
    <3>4. top \in Indices /\ Indices' = Indices \ {top}
      BY <1>0, <2>0, <2>2, <3>1 DEF Indices
    <3> QED
      BY <2>0, <2>3, <3>1, <3>3, <3>4, ContentTaken DEF Goal
  <2>5. CASE ~WinsTop(owner.bottom)
    BY <1>1, <1>12, <2>0, <2>2, <2>3, <2>5 DEF PopLast, Goal
  <2> QED
    BY <2>4, <2>5
<1>13. CASE PopDrain
  <2>1. /\ owner.at = "drain" /\ ~Full(owner.bottom) /\ owner.node \in Items
        /\ DequePush(job[owner.node]) /\ UNCHANGED <<added, taken>>
        /\ job' = [job EXCEPT ![owner.node] = None]
    BY <1>0, <1>13 DEF PopDrain, TypeOK
  <2>2. owner'.at = "free" /\ owner'.bottom = owner.bottom + 1
    BY <1>0, <1>13 DEF PopDrain, TypeOK
  <2>3. owner.node \in Listed /\ Listed' = Listed \ {owner.node}
    BY <1>13, Drained
  <2>4. job[owner.node] \in Jobs
    BY <2>3 DEF QueueInv, ContentInv
  <2>5. /\ Limit = owner.bottom
        /\ \A i : i \in Indices => Cell(i)' = Cell(i)
        /\ \A i : i = Limit => Cell(i)' = job[owner.node]
    BY <2>1, <2>4, Pushed
  <2>6. Limit' = Limit + 1 /\ top' = top
    BY <2>1, <2>2, <2>5 DEF Limit, DequePush
  <2>7. Limit \notin Indices /\ Indices' = Indices \cup {Limit}
    BY <1>0, <2>6 DEF Indices
  <2>8. \A m \in Listed' : job'[m] = job[m]
    <3>1. Listed \subseteq Items /\ job \in [Items -> Jobs \cup {None}]
      BY <1>0, ListTypes DEF Listed, TypeOK
    <3> QED
      BY <2>1, <2>3, <3>1
  <2>9. ContentInv' /\ InQueue' = InQueue
    BY <2>1, <2>3, <2>5, <2>7, <2>8, ContentMoved
  <2> QED
    BY <2>1, <2>9 DEF Goal
<1>14. Goal
  BY <1>3, <1>4, <1>5, <1>6, <1>7, <1>8, <1>9, <1>10, <1>11, <1>12, <1>13 DEF Next, Pop, Steal, Goal
<1> QED
  BY <1>14 DEF Goal

-----------------------------------------------------------------------------
(* The types.                                                              *)
LEMMA TypesStep ==
    ASSUME QueueInv, [Next]_vars
    PROVE  TypeOK'
<1>0. /\ TypeOK /\ top \in Nat /\ bottom \in Nat /\ owner.bottom \in Nat
      /\ buffer \in Seq(Stores)
      /\ owner \in Owners /\ thief \in [Thieves -> Stealers] /\ taken \in [Jobs -> 0 .. 1]
  BY Numbers DEF QueueInv, TypeOK, Owners, Stealers
<1>a. ASSUME ring' \in [0 .. Capacity - 1 -> Jobs \cup {None}], top' \in Nat, bottom' \in Nat,
             buffer' \in Seq(Stores), owner' \in Owners, thief' \in [Thieves -> Stealers],
             taken' \in [Jobs -> 0 .. 1], added' \subseteq Jobs,
             inbox' \in Items \cup {None}, pending' \in Items \cup {None},
             next' \in [Items -> Items \cup {None}], job' \in [Items -> Jobs \cup {None}],
             freeItems' \subseteq Items
      PROVE  TypeOK'
  BY <1>a DEF TypeOK, Owners, Stealers, Stores
<1>b. /\ ring \in [0 .. Capacity - 1 -> Jobs \cup {None}] /\ added \subseteq Jobs
      /\ inbox \in Items \cup {None} /\ pending \in Items \cup {None}
      /\ next \in [Items -> Items \cup {None}] /\ job \in [Items -> Jobs \cup {None}]
      /\ freeItems \subseteq Items
  BY DEF QueueInv, TypeOK
<1>1. ASSUME NEW x \in Indices, Take(Cell(x)) PROVE taken' \in [Jobs -> 0 .. 1]
  BY <1>0, <1>1, InDequeOnce DEF Take
<1>2. ASSUME NEW b \in Nat, buffer' = Append(buffer, BottomStore(b))
      PROVE  buffer' \in Seq(Stores)
  BY <1>0, <1>2 DEF BottomStore, Stores
<1>3. CASE Flush
  <2>1. buffer' \in Seq(Stores) /\ 1 \in DOMAIN buffer
    BY <1>3, Flushed
  <2>2. buffer[1] \in Stores
    BY <1>0, <2>1
  <2>3. ring' \in [0 .. Capacity - 1 -> Jobs \cup {None}] /\ bottom' \in Nat
    BY <1>b, <1>0, <1>3, <2>2, Flushed DEF Stores
  <2> QED
    BY <1>a, <1>b, <1>0, <1>3, <2>1, <2>3 DEF Flush, listVars
<1>4. CASE UNCHANGED vars
  BY <1>a, <1>b, <1>0, <1>4 DEF vars, dequeVars, listVars
<1>5. ASSUME NEW j \in Jobs, SubmitLocal(j) PROVE TypeOK'
  <2>1. CASE ~Full(owner.bottom)
    <3>1. buffer' \in Seq(Stores)
      BY <1>5, <2>1, Pushed DEF SubmitLocal
    <3>2. owner' \in Owners
      BY <1>0, <1>5, <2>1 DEF SubmitLocal, Owners
    <3> QED
      BY <1>a, <1>b, <1>0, <1>5, <2>1, <3>1, <3>2 DEF SubmitLocal, DequePush, listVars
  <2>2. CASE Full(owner.bottom)
    <3>1. PICK i \in freeItems :
            /\ freeItems' = freeItems \ {i} /\ job' = [job EXCEPT ![i] = j]
            /\ next' = [next EXCEPT ![i] = pending] /\ pending' = i
      BY <1>5, <2>2 DEF SubmitLocal
    <3>2. UNCHANGED <<dequeVars, owner, inbox, thief, taken>> /\ added' = added \cup {j}
      BY <1>5, <2>2 DEF SubmitLocal
    <3>3. job' \in [Items -> Jobs \cup {None}] /\ next' \in [Items -> Items \cup {None}]
      BY <1>b, <3>1
    <3> QED
      BY <1>a, <1>b, <1>0, <3>1, <3>2, <3>3 DEF dequeVars
  <2> QED
    BY <2>1, <2>2
<1>6. ASSUME NEW j \in Jobs, Submit(j) PROVE TypeOK'
  <2>1. PICK i \in freeItems :
          /\ freeItems' = freeItems \ {i} /\ job' = [job EXCEPT ![i] = j]
          /\ next' = [next EXCEPT ![i] = inbox] /\ inbox' = i
    BY <1>6 DEF Submit
  <2>2. UNCHANGED <<dequeVars, owner, pending, thief, taken>> /\ added' = added \cup {j}
    BY <1>6 DEF Submit
  <2>3. job' \in [Items -> Jobs \cup {None}] /\ next' \in [Items -> Items \cup {None}]
    BY <1>b, <2>1
  <2> QED
    BY <1>a, <1>b, <1>0, <2>1, <2>2, <2>3 DEF dequeVars
<1>7. CASE PopCall
  <2>1. owner' \in Owners
    BY <1>0, <1>7 DEF PopCall, Owners
  <2> QED
    BY <1>a, <1>b, <1>0, <1>7, <2>1 DEF PopCall, dequeVars, listVars
<1>8. CASE PopLists
  <2>1. /\ \E n \in Items \cup {None} : owner' = [owner EXCEPT !.at = "drain", !.node = n]
        /\ pending' \in Items \cup {None} /\ inbox' \in Items \cup {None}
    BY <1>b, <1>8 DEF PopLists
  <2>2. owner' \in Owners
    BY <1>0, <2>1 DEF Owners
  <2> QED
    BY <1>a, <1>b, <1>0, <1>8, <2>1, <2>2 DEF PopLists, dequeVars
<1>c. CASE PopFree
  <2>1. owner' \in Owners
    BY <1>0, <1>c DEF PopFree, Successor, Owners
  <2>2. owner.node \in Items
    BY <1>c DEF PopFree, QueueInv, ListInv
  <2> QED
    BY <1>a, <1>b, <1>0, <1>c, <2>1, <2>2 DEF PopFree, dequeVars
<1>d. CASE PopDrained
  <2>1. owner' \in Owners /\ pending' \in Items \cup {None}
    BY <1>0, <1>d DEF PopDrained, Owners
  <2> QED
    BY <1>a, <1>b, <1>0, <1>d, <2>1 DEF PopDrained, dequeVars
<1>e. ASSUME NEW at \in {"idle", "begin", "top", "last", "lists"}, NEW b \in Nat,
             owner' = [owner EXCEPT !.at = at, !.bottom = b]
      PROVE  owner' \in Owners
  BY <1>0, <1>e DEF Owners
<1>9. CASE PopBegin
  <2>1. owner' \in Owners /\ buffer' \in Seq(Stores)
    <3>1. CASE owner.bottom <= top
      BY <1>0, <1>9, <3>1 DEF PopBegin, Missed, Owners
    <3>2. CASE owner.bottom > top
      <4>1. /\ buffer' = Append(buffer, BottomStore(owner.bottom - 1))
            /\ owner' = [owner EXCEPT !.at = "top", !.bottom = owner.bottom - 1]
            /\ owner.bottom - 1 \in Nat
        BY <1>0, <1>9, <3>2 DEF PopBegin, StoreBottom
      <4> QED
        BY <1>e, <1>2, <4>1
    <3> QED
      BY <1>0, <3>1, <3>2
  <2> QED
    BY <1>a, <1>b, <1>0, <1>9, <2>1 DEF PopBegin, listVars
<1>10. CASE PopTop
  <2>1. owner' \in Owners /\ buffer' \in Seq(Stores) /\ taken' \in [Jobs -> 0 .. 1]
    <3>1. CASE owner.bottom < top
      <4>1. /\ buffer' = Append(buffer, BottomStore(top)) /\ UNCHANGED taken
            /\ owner' = [owner EXCEPT !.at = Missed, !.bottom = top]
        BY <1>0, <1>10, <3>1 DEF PopTop, StoreBottom
      <4>2. Missed \in {"idle", "lists"}
        BY DEF Missed
      <4> QED
        BY <1>0, <1>e, <1>2, <4>1, <4>2
    <3>2. CASE owner.bottom = top
      BY <1>0, <1>10, <3>2 DEF PopTop, IsLast, Owners
    <3>3. CASE owner.bottom > top
      <4>1. /\ buffer' = buffer /\ owner' = [owner EXCEPT !.at = "idle"]
            /\ Take(Cell(owner.bottom)) /\ owner.at = "top"
        BY <1>0, <1>10, <3>3 DEF PopTop, IsLast, Cell
      <4>2. owner.bottom \in Indices
        BY <1>0, <3>3, <4>1 DEF Indices, Limit
      <4>3. owner' \in Owners
        BY <1>0, <4>1 DEF Owners
      <4> QED
        BY <1>0, <1>1, <4>1, <4>2, <4>3
    <3> QED
      BY <1>0, <3>1, <3>2, <3>3
  <2> QED
    BY <1>a, <1>b, <1>0, <1>10, <2>1 DEF PopTop, listVars
<1>11. CASE PopLast
  <2>1. /\ buffer' = Append(buffer, BottomStore(owner.bottom + 1))
        /\ owner.bottom + 1 \in Nat /\ owner.at = "last" /\ buffer = <<>>
    BY <1>0, <1>11 DEF PopLast, StoreBottom
  <2>2. buffer' \in Seq(Stores)
    BY <1>2, <2>1
  <2>3. Missed \in {"idle", "lists"}
    BY DEF Missed
  <2>4. owner' \in Owners
    <3>1. \/ owner' = [owner EXCEPT !.at = "idle", !.bottom = owner.bottom + 1]
          \/ owner' = [owner EXCEPT !.at = Missed, !.bottom = owner.bottom + 1]
      BY <1>11 DEF PopLast
    <3> QED
      BY <1>e, <2>1, <2>3, <3>1
  <2>5. top' \in Nat /\ taken' \in [Jobs -> 0 .. 1]
    <3>1. CASE WinsTop(owner.bottom)
      <4>1. owner.bottom = top /\ top' = top + 1 /\ Take(ring[Slot(top)])
        BY <1>11, <3>1 DEF PopLast, WinsTop
      <4>2. \A k : ~IsCell(k)
        BY <2>1 DEF IsCell
      <4>3. Cell(top) = ring[Slot(top)]
        BY <1>0, <4>2, CellInMemory DEF Cell
      <4>4. top \in Indices
        BY <1>0, <2>1, <4>1 DEF Indices, Limit
      <4> QED
        BY <1>0, <1>1, <4>1, <4>3, <4>4
    <3>2. CASE ~WinsTop(owner.bottom)
      BY <1>0, <1>11, <3>2 DEF PopLast
    <3> QED
      BY <3>1, <3>2
  <2> QED
    BY <1>a, <1>b, <1>0, <1>11, <2>2, <2>4, <2>5 DEF PopLast, listVars
<1>12. CASE PopDrain
  <2>1. job[owner.node] \in Jobs
    BY <1>12, Drained DEF QueueInv, ContentInv
  <2>2. buffer' \in Seq(Stores)
    BY <1>12, <2>1, Pushed DEF PopDrain
  <2>3. owner.node \in Items
    BY <1>12, Drained
  <2>4. next[owner.node] \in Items \cup {None} /\ owner.bottom + 1 \in Nat
    BY <1>b, <1>0, <2>3
  <2>5. owner' \in Owners
    BY <1>0, <1>12, <2>4 DEF PopDrain, Owners
  <2>6. job' \in [Items -> Jobs \cup {None}] /\ next' \in [Items -> Items \cup {None}]
    BY <1>b, <1>12, <2>3 DEF PopDrain
  <2> QED
    BY <1>a, <1>b, <1>0, <1>12, <2>2, <2>5, <2>6 DEF PopDrain, DequePush
<1>13. ASSUME NEW t \in Thieves, StealTop(t) \/ StealBottom(t) \/ StealCell(t) PROVE TypeOK'
  <2>1. Slot(thief[t].top) \in 0 .. Capacity - 1 /\ thief[t] \in Stealers
    BY <1>0, SlotType DEF Stealers
  <2>2. \A c \in 0 .. Capacity - 1 : ring[c] \in Jobs \cup {None}
    BY <1>b
  <2>3. thief' \in [Thieves -> Stealers]
    <3>1. ASSUME NEW v, thief' = [thief EXCEPT ![t] = v], v \in Stealers
          PROVE  thief' \in [Thieves -> Stealers]
      BY <1>0, <3>1
    <3>2. CASE StealTop(t)
      <4>1. thief' = [thief EXCEPT ![t] = [thief[t] EXCEPT !.at = "bottom", !.top = top]]
        BY <1>0, <3>2 DEF StealTop
      <4>2. [thief[t] EXCEPT !.at = "bottom", !.top = top] \in Stealers
        BY <1>0, <2>1 DEF Stealers
      <4> QED
        BY <3>1, <4>1, <4>2
    <3>3. CASE StealBottom(t)
      <4>1. PICK a \in {"idle", "cell"} :
                thief' = [thief EXCEPT ![t] = [thief[t] EXCEPT !.at = a]]
        BY <3>3 DEF StealBottom
      <4>2. [thief[t] EXCEPT !.at = a] \in Stealers
        BY <2>1 DEF Stealers
      <4> QED
        BY <3>1, <4>1, <4>2
    <3>4. CASE StealCell(t)
      <4>1. thief' = [thief EXCEPT ![t] =
                         [thief[t] EXCEPT !.at = "cas", !.job = ring[Slot(thief[t].top)]]]
        BY <1>0, <3>4 DEF StealCell
      <4>2. [thief[t] EXCEPT !.at = "cas", !.job = ring[Slot(thief[t].top)]] \in Stealers
        BY <2>1, <2>2 DEF Stealers
      <4> QED
        BY <3>1, <4>1, <4>2
    <3> QED
      BY <1>13, <3>2, <3>3, <3>4
  <2>4. UNCHANGED <<dequeVars, owner, listVars, added, taken>>
    BY <1>13 DEF StealTop, StealBottom, StealCell
  <2> QED
    BY <1>a, <1>b, <1>0, <2>3, <2>4 DEF dequeVars, listVars
<1>14. ASSUME NEW t \in Thieves, StealExchange(t) PROVE TypeOK'
  <2>1. top' \in Nat /\ taken' \in [Jobs -> 0 .. 1]
    <3>1. CASE WinsTop(thief[t].top)
      <4>1. /\ top' = top + 1 /\ Take(Cell(top)) /\ top < Limit
        BY <1>14, <3>1 DEF StealExchange, WinsTop, QueueInv, ThiefInv
      <4>2. top \in Indices
        BY <1>0, <4>1, Numbers DEF Indices
      <4> QED
        BY <1>0, <1>1, <4>1, <4>2
    <3>2. CASE ~WinsTop(thief[t].top)
      BY <1>0, <1>14, <3>2 DEF StealExchange
    <3> QED
      BY <3>1, <3>2
  <2>2. thief' \in [Thieves -> Stealers]
    BY <1>0, <1>14 DEF StealExchange, Stealers
  <2> QED
    BY <1>a, <1>b, <1>0, <1>14, <2>1, <2>2 DEF StealExchange, listVars
<1> QED
  BY <1>3, <1>4, <1>5, <1>6, <1>7, <1>8, <1>c, <1>d, <1>9, <1>10, <1>11, <1>12, <1>13, <1>14
  DEF Next, Pop, Steal

(* The empty queue.                                                        *)
LEMMA QueueInit ==
    ASSUME Init
    PROVE  QueueInv /\ Bag!Init
<1>1. TypeOK
  BY DEF Init, TypeOK
<1>2. Limit = 0 /\ Indices = {} /\ Rest = Nil /\ inbox = Nil /\ Held = {}
  BY DEF Init, Limit, Indices, Rest, Held, None
<1>3. Chain(inbox) = {} /\ Overflow = {}
  BY <1>1, <1>2, ReachNil DEF Chain, Overflow, None, TypeOK
<1>4. Listed = {} /\ InQueue = {}
  BY <1>2, <1>3, WhereJobsAre DEF Listed
<1>5. DequeInv /\ BufferInv /\ ThiefInv
  BY <1>2 DEF Init, DequeInv, BufferInv, ThiefInv
<1>6. ListInv
  BY <1>2, <1>3, <1>4 DEF Init, ListInv, Acyclic, Chain, Overflow
<1>7. ContentInv
  BY <1>2, <1>4 DEF Init, ContentInv
<1>8. Bag!Init
  BY <1>4 DEF Init, Bag!Init
<1> QED
  BY <1>1, <1>5, <1>6, <1>7, <1>8 DEF QueueInv

(* The lists stay what they are.                                           *)
LEMMA ListStep ==
    ASSUME QueueInv, [Next]_vars
    PROVE  ListInv'
<1>1. ASSUME NEW j \in Jobs, SubmitLocal(j) PROVE ListInv'
  BY <1>1, ListsStay, LocalListed
<1> QED
  BY <1>1, ListsStay, InboxListed, Drained DEF Next, Pop

(* QueueInv is inductive.                                                  *)
LEMMA QueueInvariant == Spec => []QueueInv
<1>1. Init => QueueInv
  BY QueueInit
<1>2. QueueInv /\ [Next]_vars => QueueInv'
  BY TypesStep, DequeStep, ThiefStep, ListStep, ContentStep DEF QueueInv
<1> QED
  BY <1>1, <1>2, PTL DEF Spec

-----------------------------------------------------------------------------
(* WorkerQueue's variables have their types; no job is taken twice         *)
(* (worker_queue.hpp).                                                     *)
THEOREM QueueTypes == Spec => []TypeOK
<1>1. QueueInv => TypeOK
  BY DEF QueueInv
<1> QED
  BY <1>1, QueueInvariant, PTL

(* submit_local(), submit(), pop() and steal() of WorkerQueue implement a  *)
(* bag: every job comes out once, by one pop or one steal, and none is     *)
(* lost between the deque, the inbox and the overflow list, whatever the   *)
(* store buffer delays.                                                    *)
THEOREM QueueIsBag == Spec => ImplementsJobBag
<1>1. Init => Bag!Init
  BY QueueInit
<1>2. QueueInv /\ [Next]_vars => [Bag!Next]_<<InQueue, {j \in Jobs : taken[j] = 1}>>
  BY ContentStep
<1> QED
  BY <1>1, <1>2, QueueInvariant, PTL DEF Spec, ImplementsJobBag, Bag!Spec

(* A list node is on a free list, the inbox, the overflow list or in the   *)
(* owner's hands, and in one of these only: what pop() does with the next  *)
(* pointers never shares or loses a node.                                  *)
THEOREM NodesAreExclusive == Spec => []ItemsInOnePlace
<1>1. ASSUME NEW A, NEW B, IsFiniteSet(A), IsFiniteSet(B), A \cap B = {}
      PROVE  IsFiniteSet(A \cup B) /\ Cardinality(A \cup B) = Cardinality(A) + Cardinality(B)
  <2>1. Cardinality(A \cap B) = 0 /\ Cardinality(A) \in Nat /\ Cardinality(B) \in Nat
    BY <1>1, FS_EmptySet, FS_CardinalityType
  <2>2. /\ IsFiniteSet(A \cup B)
        /\ Cardinality(A \cup B) = Cardinality(A) + Cardinality(B) - Cardinality(A \cap B)
    BY <1>1, FS_Union
  <2> QED
    BY <2>1, <2>2
<1>2. QueueInv => ItemsInOnePlace
  <2> SUFFICES ASSUME QueueInv PROVE ItemsInOnePlace
    OBVIOUS
  <2> DEFINE I == Chain(inbox)
  <2>1. /\ freeItems \cup ((I \cup Overflow) \cup Held) = Items
        /\ freeItems \cap ((I \cup Overflow) \cup Held) = {}
        /\ (I \cup Overflow) \cap Held = {} /\ I \cap Overflow = {}
    BY DEF QueueInv, ListInv, Listed
  <2>2. IsFiniteSet(freeItems) /\ IsFiniteSet(I) /\ IsFiniteSet(Overflow) /\ IsFiniteSet(Held)
    BY <2>1, FS_Subset
  <2> HIDE DEF I
  <2>3. /\ IsFiniteSet(I \cup Overflow)
        /\ Cardinality(I \cup Overflow) = Cardinality(I) + Cardinality(Overflow)
    BY <1>1, <2>1, <2>2
  <2>4. /\ IsFiniteSet((I \cup Overflow) \cup Held)
        /\ Cardinality((I \cup Overflow) \cup Held)
              = Cardinality(I) + Cardinality(Overflow) + Cardinality(Held)
    BY <1>1, <2>1, <2>2, <2>3
  <2>5. Cardinality(freeItems \cup ((I \cup Overflow) \cup Held))
           = Cardinality(freeItems)
                + (Cardinality(I) + Cardinality(Overflow) + Cardinality(Held))
    BY <1>1, <2>1, <2>2, <2>4
  <2>6. /\ Cardinality(freeItems) \in Nat /\ Cardinality(I) \in Nat
        /\ Cardinality(Overflow) \in Nat /\ Cardinality(Held) \in Nat
    BY <2>2, FS_CardinalityType
  <2>7. Cardinality(freeItems) + Cardinality(I) + Cardinality(Overflow) + Cardinality(Held)
           = Cardinality(Items)
    <3>1. \A a, b, c, d \in Nat : a + (b + c + d) = a + b + c + d
      OBVIOUS
    <3>2. Cardinality(Items)
             = Cardinality(freeItems)
                  + (Cardinality(I) + Cardinality(Overflow) + Cardinality(Held))
      BY <2>1, <2>5
    <3> QED
      BY <2>6, <3>1, <3>2
  <2>8. freeItems \cup I \cup Overflow \cup Held = Items
    BY <2>1
  <2> QED
    BY <2>7, <2>8 DEF ItemsInOnePlace, Held, I
<1> QED
  BY <1>2, QueueInvariant, PTL
=============================================================================
