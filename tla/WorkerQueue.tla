---------------------------- MODULE WorkerQueue ----------------------------
(***************************************************************************)
(* The queue of one worker (libs/core/sync/.../worker_queue.hpp): a        *)
(* work-stealing ring-buffer deque, the inbox other threads push to, the   *)
(* overflow list m_pending, and the list nodes ("items") these two are     *)
(* made of.  The worker that owns the queue pushes and pops, Thieves       *)
(* steal, and any other thread submits through the inbox.                  *)
(*                                                                         *)
(* The owner's stores to the ring and to m_bottom go through a store       *)
(* buffer, as on x86-64: without it the sequentially consistent fence in   *)
(* pop() would have nothing to do.  A compare-and-exchange needs an empty  *)
(* buffer.  The list pushes (load, link, exchange) are one step each: a    *)
(* failed exchange changes nothing, and linking to a head that was taken   *)
(* and pushed again in between is harmless.                                *)
(***************************************************************************)
EXTENDS Integers, FiniteSets, SequencesExt, LinkedList

CONSTANTS
    Jobs,       \* the jobs submitted; each is submitted once
    Items,      \* bound: list nodes the item pools can hand out
    Thieves,    \* the other workers
    Capacity    \* m_capacity

ASSUME CapacityAssumption == Capacity \in Nat \ {0, 1}

VARIABLES
    ring,       \* m_ringbuffer as other threads see it
    top,        \* m_top
    bottom,     \* m_bottom as other threads see it
    buffer,     \* the owner's stores that are not in memory yet
    owner,      \* the owner's place in pop(), with its locals and its view of
                \* m_bottom; "second" is the SPMCDeque::pop() after the lists
    thief,      \* each thief's place in steal(), with its locals
    inbox,      \* m_inbox.m_head
    pending,    \* m_pending
    next,       \* m_next of each item
    job,        \* m_job of each item
    freeItems,  \* the items on the free list of a pool
    added,      \* history: the jobs submitted
    taken       \* history: how often a job was returned by pop or steal

dequeVars == <<ring, top, bottom, buffer>>
listVars == <<inbox, pending, next, job, freeItems>>
vars == <<dequeVars, owner, thief, listVars, added, taken>>

None == Nil

ASSUME NoneAssumption == None \notin Jobs /\ None \notin Items
ASSUME ItemsAssumption == IsFiniteSet(Items)

Slot(i) == i % Capacity

TypeOK ==
    /\ ring \in [0 .. Capacity - 1 -> Jobs \cup {None}]
    /\ top \in Nat /\ bottom \in Nat
    /\ buffer \in Seq([to : {"cell", "bottom"}, index : Nat, job : Jobs \cup {None}])
    /\ owner \in [at : {"idle", "begin", "top", "last", "lists", "drain", "free"},
                  bottom : Nat, second : BOOLEAN,
                  node : Items \cup {None}, next : Items \cup {None}]
    /\ thief \in [Thieves -> [at : {"idle", "bottom", "cell", "cas"}, top : Nat,
                              job : Jobs \cup {None}]]
    /\ inbox \in Items \cup {None} /\ pending \in Items \cup {None}
    /\ next \in [Items -> Items \cup {None}]
    /\ job \in [Items -> Jobs \cup {None}]
    /\ freeItems \subseteq Items
    /\ added \subseteq Jobs
    /\ taken \in [Jobs -> 0 .. 1]

Init ==
    /\ ring = [i \in 0 .. Capacity - 1 |-> None]
    /\ top = 0 /\ bottom = 0 /\ buffer = <<>>
    /\ owner = [at |-> "idle", bottom |-> 0, second |-> FALSE,
                node |-> None, next |-> None]
    /\ thief = [t \in Thieves |-> [at |-> "idle", top |-> 0, job |-> None]]
    /\ inbox = None /\ pending = None
    /\ next = [i \in Items |-> None]
    /\ job = [i \in Items |-> None]
    /\ freeItems = Items
    /\ added = {}
    /\ taken = [j \in Jobs |-> 0]

-----------------------------------------------------------------------------
(* Mutants: no fence; a full ring is noticed one element too late; a       *)
(* node's successor is read after the node went back to its pool.          *)
NoFence == TRUE
FullTooLate(b) == b - top > Capacity
SuccessorAfterFree(i) == next[i]

(* What the fence and the exchanges wait for.                              *)
Fenced == buffer = <<>>
Full(b) == b - top >= Capacity
IsLast(size) == size = 0
(* compare_exchange_strong on m_top.                                       *)
WinsTop(expected) == top = expected
(* The rest of the list in pop(), read before the node is given back.      *)
Successor(i) == owner.next

(* A store to the cell of an index, and a store of an index to m_bottom.   *)
CellStore(i, j) == [to |-> "cell", index |-> i, job |-> j]
BottomStore(b) == [to |-> "bottom", index |-> b, job |-> None]
StoreBottom(b) == buffer' = Append(buffer, BottomStore(b))

(* The owner reads its own latest store; owner.bottom is that of m_bottom. *)
OwnCell(c) ==
    LET mine == {k \in DOMAIN buffer :
                    buffer[k].to = "cell" /\ Slot(buffer[k].index) = c}
    IN  IF mine = {} THEN ring[c] ELSE buffer[Max(mine)].job

(* A buffered store reaches memory.                                        *)
Flush ==
    /\ buffer # <<>>
    /\ LET s == Head(buffer) IN
         \/ /\ s.to = "cell"
            /\ ring' = [ring EXCEPT ![Slot(s.index)] = s.job]
            /\ UNCHANGED bottom
         \/ /\ s.to = "bottom"
            /\ bottom' = s.index
            /\ UNCHANGED ring
    /\ buffer' = Tail(buffer)
    /\ UNCHANGED <<top, owner, thief, listVars, added, taken>>

Take(j) == taken' = [taken EXCEPT ![j] = @ + 1]

(* push(j) into a deque that is not full: the cell, then m_bottom.         *)
DequePush(j) ==
    /\ buffer' = Append(Append(buffer, CellStore(owner.bottom, j)),
                        BottomStore(owner.bottom + 1))
    /\ UNCHANGED <<ring, top, bottom>>

(* submit_local(): the deque, or the overflow list when it is full.        *)
SubmitLocal(j) ==
    /\ owner.at = "idle" /\ j \notin added
    /\ \/ /\ ~Full(owner.bottom)
          /\ DequePush(j)
          /\ owner' = [owner EXCEPT !.bottom = @ + 1]
          /\ UNCHANGED listVars
       \/ /\ Full(owner.bottom)
          /\ \E i \in freeItems :
                /\ freeItems' = freeItems \ {i}
                /\ job' = [job EXCEPT ![i] = j]
                /\ next' = [next EXCEPT ![i] = pending]
                /\ pending' = i
          /\ UNCHANGED <<dequeVars, owner, inbox>>
    /\ added' = added \cup {j}
    /\ UNCHANGED <<thief, taken>>

(* submit(), by any other thread, with an item of its own pool.            *)
Submit(j) ==
    /\ j \notin added
    /\ \E i \in freeItems :
          /\ freeItems' = freeItems \ {i}
          /\ job' = [job EXCEPT ![i] = j]
          /\ next' = [next EXCEPT ![i] = inbox]
          /\ inbox' = i
    /\ added' = added \cup {j}
    /\ UNCHANGED <<dequeVars, owner, thief, pending, taken>>

-----------------------------------------------------------------------------
(* WorkerQueue::pop(): the deque first, then the lists, then the deque.    *)
Missed == IF owner.second THEN "idle" ELSE "lists"

PopCall ==
    /\ owner.at = "idle"
    /\ owner' = [owner EXCEPT !.at = "begin", !.second = FALSE]
    /\ UNCHANGED <<dequeVars, thief, listVars, added, taken>>

(* SPMCDeque::pop(): claim the last element ...                            *)
PopBegin ==
    /\ owner.at = "begin"
    /\ \/ /\ owner.bottom <= top
          /\ owner' = [owner EXCEPT !.at = Missed]
          /\ UNCHANGED buffer
       \/ /\ owner.bottom > top
          /\ owner' = [owner EXCEPT !.at = "top", !.bottom = @ - 1]
          /\ StoreBottom(owner.bottom - 1)
    /\ UNCHANGED <<ring, top, bottom, thief, listVars, added, taken>>

(* ... and, after the fence, look how far the thieves have come.           *)
PopTop ==
    /\ owner.at = "top" /\ Fenced
    /\ LET size == owner.bottom - top IN
         \/ /\ size < 0
            /\ StoreBottom(top)
            /\ owner' = [owner EXCEPT !.at = Missed, !.bottom = top]
            /\ UNCHANGED taken
         \/ /\ size >= 0 /\ IsLast(size)
            /\ owner' = [owner EXCEPT !.at = "last"]
            /\ UNCHANGED <<buffer, taken>>
         \/ /\ size >= 0 /\ ~IsLast(size)
            /\ Take(OwnCell(Slot(owner.bottom)))
            /\ owner' = [owner EXCEPT !.at = "idle"]
            /\ UNCHANGED buffer
    /\ UNCHANGED <<ring, top, bottom, thief, listVars, added>>

(* The last element: race for m_top, then restore m_bottom.                *)
PopLast ==
    /\ owner.at = "last" /\ buffer = <<>>
    /\ \/ /\ WinsTop(owner.bottom)
          /\ top' = top + 1
          /\ Take(ring[Slot(owner.bottom)])
          /\ owner' = [owner EXCEPT !.at = "idle", !.bottom = @ + 1]
       \/ /\ ~WinsTop(owner.bottom)
          /\ owner' = [owner EXCEPT !.at = Missed, !.bottom = @ + 1]
          /\ UNCHANGED <<top, taken>>
    /\ StoreBottom(owner.bottom + 1)
    /\ UNCHANGED <<ring, bottom, thief, listVars, added>>

(* The inbox is emptied only when nothing is left of an earlier list.      *)
PopLists ==
    /\ owner.at = "lists"
    /\ IF pending = None
       THEN /\ pending' = inbox /\ inbox' = None
            /\ owner' = [owner EXCEPT !.at = "drain", !.node = inbox]
       ELSE /\ owner' = [owner EXCEPT !.at = "drain", !.node = pending]
            /\ UNCHANGED <<pending, inbox>>
    /\ UNCHANGED <<dequeVars, thief, next, job, freeItems, added, taken>>

(* One turn of the loop, up to deallocate(); the rest waits if the deque   *)
(* is full.                                                                *)
PopDrain ==
    /\ owner.at = "drain" /\ owner.node # None /\ ~Full(owner.bottom)
    /\ DequePush(job[owner.node])
    /\ job' = [job EXCEPT ![owner.node] = None]
    /\ next' = [next EXCEPT ![owner.node] = None]
    /\ owner' = [owner EXCEPT !.at = "free", !.bottom = @ + 1,
                              !.next = next[owner.node]]
    /\ UNCHANGED <<thief, inbox, pending, freeItems, added, taken>>

PopFree ==
    /\ owner.at = "free"
    /\ freeItems' = freeItems \cup {owner.node}
    /\ owner' = [owner EXCEPT !.at = "drain", !.next = None,
                              !.node = Successor(owner.node)]
    /\ UNCHANGED <<dequeVars, thief, inbox, pending, next, job, added, taken>>

PopDrained ==
    /\ owner.at = "drain"
    /\ owner.node = None \/ Full(owner.bottom)
    /\ pending' = owner.node
    /\ owner' = [owner EXCEPT !.at = "begin", !.second = TRUE, !.node = None]
    /\ UNCHANGED <<dequeVars, thief, inbox, next, job, freeItems, added, taken>>

Pop == PopCall \/ PopBegin \/ PopTop \/ PopLast \/ PopLists \/ PopDrain
           \/ PopFree \/ PopDrained

-----------------------------------------------------------------------------
(* SPMCDeque::steal().                                                     *)
StealTop(t) ==
    /\ thief[t].at = "idle"
    /\ thief' = [thief EXCEPT ![t].at = "bottom", ![t].top = top]
    /\ UNCHANGED <<dequeVars, owner, listVars, added, taken>>

StealBottom(t) ==
    /\ thief[t].at = "bottom"
    /\ thief' = [thief EXCEPT ![t].at =
                    IF bottom - thief[t].top <= 0 THEN "idle" ELSE "cell"]
    /\ UNCHANGED <<dequeVars, owner, listVars, added, taken>>

StealCell(t) ==
    /\ thief[t].at = "cell"
    /\ thief' = [thief EXCEPT ![t].at = "cas", ![t].job = ring[Slot(thief[t].top)]]
    /\ UNCHANGED <<dequeVars, owner, listVars, added, taken>>

StealExchange(t) ==
    /\ thief[t].at = "cas"
    /\ IF WinsTop(thief[t].top)
       THEN top' = thief[t].top + 1 /\ Take(thief[t].job)
       ELSE UNCHANGED <<top, taken>>
    /\ thief' = [thief EXCEPT ![t] = [at |-> "idle", top |-> 0, job |-> None]]
    /\ UNCHANGED <<ring, bottom, buffer, owner, listVars, added>>

Steal(t) == StealTop(t) \/ StealBottom(t) \/ StealCell(t) \/ StealExchange(t)

Next ==
    \/ Flush \/ Pop
    \/ \E j \in Jobs : SubmitLocal(j) \/ Submit(j)
    \/ \E t \in Thieves : Steal(t)

(* Stores reach memory, and the owner, in its worker_main() loop, pops     *)
(* again and again.  Thieves may stop anywhere.                            *)
Spec == Init /\ [][Next]_vars /\ WF_vars(Flush) /\ WF_vars(Pop)

-----------------------------------------------------------------------------
(* The items of a list.                                                    *)
Chain(first) == Reach(Items, next, first)

(* What is left of m_pending: the drain loop updates it only at its end.   *)
Rest == CASE owner.at = "drain" -> owner.node
          [] owner.at = "free" -> owner.next
          [] OTHER -> pending
Overflow == Chain(Rest)

(* The elements of the deque: one that the owner claims but has not won    *)
(* yet still counts.                                                       *)
Limit == IF owner.at \in {"top", "last"} THEN owner.bottom + 1 ELSE owner.bottom
InDeque == {OwnCell(Slot(i)) : i \in top .. Limit - 1}

InQueue == InDeque \cup {job[i] : i \in Overflow \cup Chain(inbox)}

(* The queue is a bag: each job comes out once, by exactly one pop or      *)
(* steal, and never disappears, whatever the owner, the thieves, the       *)
(* submitters and the store buffer do meanwhile.                           *)
Bag == INSTANCE JobBag WITH
    bag <- InQueue,
    out <- {j \in Jobs : taken[j] = 1}
ImplementsJobBag == Bag!Spec

(* Every list node is in one place: on a free list, on the inbox, on the   *)
(* overflow list, or in the owner's hands; lists share no nodes.           *)
ItemsInOnePlace ==
    LET held == IF owner.at = "free" THEN {owner.node} ELSE {}
    IN  /\ freeItems \cup Chain(inbox) \cup Overflow \cup held = Items
        /\ Cardinality(freeItems) + Cardinality(Chain(inbox))
              + Cardinality(Overflow) + Cardinality(held) = Cardinality(Items)

(* What is submitted, to the inbox or to a full deque, is taken in the end *)
(* even if no thief helps.                                                 *)
EventuallyTaken == \A j \in Jobs : j \in added ~> taken[j] > 0
=============================================================================
