------------------------- MODULE JobSchedulerProofs -------------------------
(***************************************************************************)
(* Proofs about JobScoreboard and about JobScheduler, which extends it, for *)
(* any finite set of slots, any finite set of workers and any bounds.        *)
(*                                                                         *)
(* The first part is about the scoreboards alone, for any number of         *)
(* registrations and generations; the second adds the counting of           *)
(* invocations, the recycling of slots, pins and wait().                     *)
(***************************************************************************)
EXTENDS JobScheduler, LinkedListProofs

-----------------------------------------------------------------------------
(* The scoreboards.                                                        *)
-----------------------------------------------------------------------------
(* An addSource call in flight belongs to an open scoreboard, fills in the *)
(* newest node and names a source that exists.                             *)
RegInv ==
    \A c \in Slots : Registering(c) =>
        /\ phase[c] = "open"
        /\ top[c] > 0 /\ reg[c].node = <<c, top[c] - 1>>
        /\ phase[reg[c].source] # "idle"

(* A node on a list belongs to a scoreboard that has not become ready, was *)
(* taken by an earlier addSource call, and is on no second list.           *)
ListInv ==
    \A s \in Slots : \A n \in consumers[s] \cup walk[s] :
        /\ phase[Consumer(n)] \in {"open", "waiting"}
        /\ n[2] < top[Consumer(n)]
        /\ Registering(Consumer(n)) => n # reg[Consumer(n)].node
        /\ \A t \in Slots : n \in consumers[t] \cup walk[t] => t = s

(* The sentinel is there from complete() to the next reset(), and the two  *)
(* lists of complete() only exist while it and its caller use them.        *)
SealInv ==
    \A s \in Slots :
        /\ s \in sealed <=> phase[s] \in {"walking", "issuing", "done"}
        /\ s \in sealed \/ phase[s] = "idle" => consumers[s] = {}
        /\ phase[s] # "walking" => walk[s] = {}
        /\ phase[s] \notin {"walking", "issuing"} => ready[s] = {}

(* A scoreboard is on a ready list, once, exactly while it is ready.       *)
ReadyInv ==
    /\ \A s \in Slots : \A n \in ready[s] : phase[Consumer(n)] = "ready"
    /\ \A s, t \in Slots : \A n \in ready[s], m \in ready[t] :
          Consumer(n) = Consumer(m) => s = t /\ n = m
    /\ \A c \in Slots : phase[c] = "ready" =>
          \E s \in Slots : \E n \in ready[s] : Consumer(n) = c

WaitInv == \A c \in Slots : phase[c] = "waiting" => pending[c] > 0

(* A source is finished unless its consumer still waits for it.            *)
SourceInv ==
    \A c \in Slots : \A d \in sources[c] :
        /\ d[2] <= gen[d[1]]
        /\ Finished(d[1], d[2]) \/ WaitsFor(c, d[1])

IInv ==
    /\ TypeOK /\ RegInv /\ ListInv /\ SealInv /\ ReadyInv
    /\ PendingExact /\ WaitInv /\ SourceInv

USE SlotsAssumption, MaxAddsAssumption, MaxGenAssumption

-----------------------------------------------------------------------------
(* Counting: one node more or one node less.                               *)
LEMMA OutstandingFinite ==
    ASSUME NEW c
    PROVE  IsFiniteSet(Outstanding(c))
<1>1. IsFiniteSet(0 .. MaxAdds - 1)
  BY FS_Interval
<1>2. IsFiniteSet(Node)
  BY <1>1, FS_Product DEF Node
<1>3. Outstanding(c) \subseteq Node
  BY DEF Outstanding
<1> QED
  BY <1>2, <1>3, FS_Subset

(* Adding a node that was not there counts one more.                       *)
LEMMA OneMore ==
    ASSUME NEW S, NEW T, NEW x, IsFiniteSet(S), x \notin S, T = S \cup {x}
    PROVE  Cardinality(T) = Cardinality(S) + 1
BY FS_AddElement

(* Taking away a node that was there counts one less.                      *)
LEMMA OneLess ==
    ASSUME NEW S, NEW T, NEW x, IsFiniteSet(S), x \in S, T = S \ {x}
    PROVE  Cardinality(T) = Cardinality(S) - 1
BY FS_RemoveElement

(* The count is a natural number, and 0 only when nothing is left.         *)
LEMMA NoneLeft ==
    ASSUME NEW S, IsFiniteSet(S)
    PROVE  /\ Cardinality(S) \in Nat
           /\ Cardinality(S) = 0 <=> S = {}
BY FS_CardinalityType, FS_EmptySet

(* A node is its consumer's slot and an index.                             *)
LEMMA NodeFacts ==
    ASSUME NEW n \in Node
    PROVE  /\ Consumer(n) \in Slots
           /\ n[2] \in Nat
           /\ n = <<Consumer(n), n[2]>>
BY DEF Node, Consumer

(* An addSource call can be told from none.                                *)
LEMMA CallIsNotNoReg ==
    ASSUME NEW c, NEW i, NEW s
    PROVE  [node |-> <<c, i>>, source |-> s] # NoReg
BY DEF NoReg

-----------------------------------------------------------------------------
(* Scoreboards that were never reset satisfy the invariant.                *)
LEMMA InitIInv == Init => IInv
<1> SUFFICES ASSUME Init PROVE IInv
  OBVIOUS
<1>1. TypeOK
  BY DEF Init, TypeOK, Phases
<1>2. RegInv /\ ListInv /\ SealInv /\ ReadyInv /\ WaitInv /\ SourceInv
  BY DEF Init, RegInv, ListInv, SealInv, ReadyInv, WaitInv, SourceInv,
         Registering
<1>3. PendingExact
  <2> SUFFICES ASSUME NEW c \in Slots
               PROVE  pending[c] = Gate(c) + Cardinality(Outstanding(c))
    BY DEF PendingExact
  <2>1. Outstanding(c) = {}
    BY DEF Init, Outstanding, Registering
  <2> QED
    BY <2>1, FS_EmptySet DEF Init, Gate
<1> QED
  BY <1>1, <1>2, <1>3 DEF IInv

(* reset() of a slot that is quiet, as MayReset demands.                   *)
LEMMA ResetStep ==
    ASSUME IInv, NEW s \in Slots, Reset(s)
    PROVE  IInv'
<1> USE DEF IInv, Reset, MayReset
<1>1. TypeOK'
  BY DEF TypeOK, Phases, SubmitGate
<1>2. RegInv'
  BY DEF TypeOK, RegInv, Registering
<1>3. ListInv'
  BY NodeFacts DEF TypeOK, ListInv, SealInv, RegInv, Registering
<1>4. SealInv'
  BY DEF TypeOK, SealInv
<1>5. ReadyInv'
  BY NodeFacts DEF TypeOK, ReadyInv, SealInv
<1>6. PendingExact'
  <2> SUFFICES ASSUME NEW c \in Slots
               PROVE  (pending[c] = Gate(c) + Cardinality(Outstanding(c)))'
    BY DEF PendingExact
  <2>1. consumers[s] = {} /\ walk[s] = {}
    BY DEF SealInv, TypeOK
  <2>2. Outstanding(c)' = Outstanding(c)
    BY <2>1 DEF Outstanding, TypeOK, Registering
  <2>3. CASE c = s
    <3>1. Outstanding(c) = {}
      BY <2>3 DEF Outstanding, ListInv, RegInv, TypeOK
    <3> QED
      BY <2>2, <2>3, <3>1, FS_EmptySet DEF Gate, TypeOK, SubmitGate
  <2>4. CASE c # s
    BY <2>2, <2>4 DEF Gate, PendingExact, TypeOK
  <2> QED
    BY <2>3, <2>4
<1>7. WaitInv'
  BY DEF TypeOK, WaitInv
<1>8. SourceInv'
  BY NodeFacts DEF TypeOK, SourceInv, SealInv, Finished, WaitsFor, Registering
<1> QED
  BY <1>1, <1>2, <1>3, <1>4, <1>5, <1>6, <1>7, <1>8

(* addSource() counts before anything can count it off.                    *)
LEMMA RegisterStep ==
    ASSUME IInv, NEW c \in Slots, NEW s \in Slots, Register(c, s)
    PROVE  IInv'
<1> USE DEF IInv, Register, MayRegister
<1>0. /\ <<c, top[c]>> \in Node
      /\ reg'[c] # NoReg
  BY CallIsNotNoReg DEF TypeOK, Node
<1>1. TypeOK'
  BY <1>0 DEF TypeOK, CountSource
<1>2. RegInv'
  BY DEF TypeOK, RegInv, Registering
<1>3. ListInv'
  BY NodeFacts DEF TypeOK, ListInv, Registering
<1>4. SealInv'
  BY DEF TypeOK, SealInv
<1>5. ReadyInv'
  BY DEF TypeOK, ReadyInv
<1>6. PendingExact'
  <2> SUFFICES ASSUME NEW d \in Slots
               PROVE  (pending[d] = Gate(d) + Cardinality(Outstanding(d)))'
    BY DEF PendingExact
  <2>1. CASE d = c
    <3>1. Outstanding(c)' = Outstanding(c) \cup {<<c, top[c]>>}
      BY <1>0 DEF Outstanding, TypeOK, Registering, Consumer
    <3>2. <<c, top[c]>> \notin Outstanding(c)
      BY DEF Outstanding, ListInv, TypeOK, Consumer
    <3>3. Cardinality(Outstanding(c)') = Cardinality(Outstanding(c)) + 1
      BY <3>1, <3>2, OneMore, OutstandingFinite
    <3> QED
      BY <2>1, <3>3, NoneLeft, OutstandingFinite
      DEF Gate, PendingExact, TypeOK, CountSource
  <2>2. CASE d # c
    <3>1. Outstanding(d)' = Outstanding(d)
      BY <2>2 DEF Outstanding, TypeOK, Registering
    <3> QED
      BY <2>2, <3>1 DEF Gate, PendingExact, TypeOK
  <2> QED
    BY <2>1, <2>2
<1>7. WaitInv'
  BY DEF TypeOK, WaitInv
<1>8. SourceInv'
  BY <1>0 DEF TypeOK, SourceInv, Finished, WaitsFor, Registering
<1> QED
  BY <1>1, <1>2, <1>3, <1>4, <1>5, <1>6, <1>7, <1>8

(* The outcome of the publishing loop decides what happens to the count.   *)
LEMMA PublishStep ==
    ASSUME IInv, NEW c \in Slots, Publish(c)
    PROVE  IInv'
<1> DEFINE s == reg[c].source
           n == reg[c].node
<1> USE DEF IInv, Publish, IsCompleted
<1>0. /\ s \in Slots /\ n \in Node /\ Consumer(n) = c /\ phase[c] = "open"
      /\ n \in Outstanding(c) /\ pending[c] > 1
  <2>1. s \in Slots /\ n \in Node
    BY DEF TypeOK, Registering
  <2>2. Consumer(n) = c /\ phase[c] = "open" /\ n \in Outstanding(c)
    BY <2>1 DEF RegInv, Consumer, Outstanding
  <2>3. Cardinality(Outstanding(c)) > 0
    BY <2>2, NoneLeft, OutstandingFinite
  <2> QED
    BY <2>1, <2>2, <2>3, NoneLeft, OutstandingFinite
    DEF PendingExact, Gate, TypeOK
<1>1. TypeOK'
  BY <1>0 DEF TypeOK
<1>2. RegInv'
  BY DEF TypeOK, RegInv, Registering
<1>3. ListInv'
  BY <1>0, NodeFacts DEF TypeOK, ListInv, RegInv, Registering, Consumer
<1>4. SealInv'
  BY <1>0 DEF TypeOK, SealInv, RegInv, Registering
<1>5. ReadyInv'
  BY DEF TypeOK, ReadyInv
<1>6. PendingExact'
  <2> SUFFICES ASSUME NEW d \in Slots
               PROVE  (pending[d] = Gate(d) + Cardinality(Outstanding(d)))'
    BY DEF PendingExact
  <2>1. CASE d = c /\ s \notin sealed
    <3>1. Outstanding(c)' = Outstanding(c)
      BY <1>0, <2>1 DEF Outstanding, TypeOK, Registering
    <3> QED
      BY <2>1, <3>1 DEF Gate, PendingExact, TypeOK
  <2>2. CASE d = c /\ s \in sealed
    <3>1. Outstanding(c)' = Outstanding(c) \ {n}
      BY <1>0, <2>2 DEF Outstanding, TypeOK, Registering, ListInv
    <3>2. Cardinality(Outstanding(c)') = Cardinality(Outstanding(c)) - 1
      BY <1>0, <3>1, OneLess, OutstandingFinite
    <3> QED
      BY <2>2, <3>2, NoneLeft, OutstandingFinite DEF Gate, PendingExact, TypeOK
  <2>3. CASE d # c
    <3>1. Outstanding(d)' = Outstanding(d)
      BY <1>0, <2>3 DEF Outstanding, TypeOK, Registering
    <3> QED
      BY <2>3, <3>1 DEF Gate, PendingExact, TypeOK
  <2> QED
    BY <2>1, <2>2, <2>3
<1>7. WaitInv'
  BY <1>0 DEF TypeOK, WaitInv
<1>8. SourceInv'
  BY <1>0 DEF TypeOK, SourceInv, Finished, WaitsFor, Registering
<1> QED
  BY <1>1, <1>2, <1>3, <1>4, <1>5, <1>6, <1>7, <1>8

(* commit() opens the gate; with no source left the job is issued.         *)
LEMMA CommitStep ==
    ASSUME IInv, NEW c \in Slots, Commit(c)
    PROVE  IInv'
<1> USE DEF IInv, Commit, IsReady
<1>0. /\ pending[c] = 1 + Cardinality(Outstanding(c))
      /\ Cardinality(Outstanding(c)) \in Nat
      /\ pending[c] = 1 => Outstanding(c) = {}
  BY NoneLeft, OutstandingFinite DEF PendingExact, Gate
<1>1. TypeOK'
  BY <1>0 DEF TypeOK, Phases
<1>2. RegInv'
  BY DEF TypeOK, RegInv, Registering
<1>3. ListInv'
  <2>1. CASE pending[c] = 1
    <3>1. \A s \in Slots : \A n \in consumers[s] \cup walk[s] : Consumer(n) # c
      BY <1>0, <2>1 DEF Outstanding, TypeOK
    <3> QED
      BY <2>1, <3>1, NodeFacts DEF TypeOK, ListInv, Registering
  <2>2. CASE pending[c] # 1
    BY <2>2, NodeFacts DEF TypeOK, ListInv, Registering
  <2> QED
    BY <2>1, <2>2
<1>4. SealInv'
  BY DEF TypeOK, SealInv
<1>5. ReadyInv'
  BY NodeFacts DEF TypeOK, ReadyInv
<1>6. PendingExact'
  <2> SUFFICES ASSUME NEW d \in Slots
               PROVE  (pending[d] = Gate(d) + Cardinality(Outstanding(d)))'
    BY DEF PendingExact
  <2>1. Outstanding(d)' = Outstanding(d)
    BY DEF Outstanding, Registering
  <2> QED
    BY <1>0, <2>1 DEF Gate, PendingExact, TypeOK
<1>7. WaitInv'
  BY <1>0 DEF TypeOK, WaitInv
<1>8. SourceInv'
  BY DEF TypeOK, SourceInv, Finished, WaitsFor, Registering
<1> QED
  BY <1>1, <1>2, <1>3, <1>4, <1>5, <1>6, <1>7, <1>8

(* complete() moves the whole list to its walk and seals it.               *)
LEMMA CompleteStep ==
    ASSUME IInv, NEW s \in Slots, Complete(s)
    PROVE  IInv'
<1> USE DEF IInv, Complete, Close
<1>0. walk[s] = {} /\ ready[s] = {} /\ s \notin sealed
  BY DEF SealInv
<1>1. TypeOK'
  BY DEF TypeOK, Phases
<1>2. RegInv'
  BY DEF TypeOK, RegInv, Registering
<1>3. ListInv'
  BY <1>0, NodeFacts DEF TypeOK, ListInv, Registering
<1>4. SealInv'
  BY DEF TypeOK, SealInv
<1>5. ReadyInv'
  BY NodeFacts DEF TypeOK, ReadyInv
<1>6. PendingExact'
  <2> SUFFICES ASSUME NEW d \in Slots
               PROVE  (pending[d] = Gate(d) + Cardinality(Outstanding(d)))'
    BY DEF PendingExact
  <2>1. Outstanding(d)' = Outstanding(d)
    BY <1>0 DEF Outstanding, Registering, TypeOK
  <2> QED
    BY <2>1 DEF Gate, PendingExact, TypeOK
<1>7. WaitInv'
  BY DEF TypeOK, WaitInv
<1>8. SourceInv'
  BY DEF TypeOK, SourceInv, Finished, WaitsFor, Registering
<1> QED
  BY <1>1, <1>2, <1>3, <1>4, <1>5, <1>6, <1>7, <1>8

(* A consumer that gets its last notification has no node left anywhere.   *)
LEMMA NotifyStep ==
    ASSUME IInv, NEW s \in Slots, NEW n \in Node, Notify(s, n)
    PROVE  IInv'
<1> DEFINE c == Consumer(n)
<1> USE DEF IInv, Notify, IsReady, Relink
<1>0. c \in Slots /\ n \in Outstanding(c) /\ phase[c] \in {"open", "waiting"}
  BY NodeFacts DEF Outstanding, ListInv
<1>a. Outstanding(c)' = Outstanding(c) \ {n}
  BY <1>0 DEF Outstanding, ListInv, SealInv, Registering, TypeOK
<1>b. /\ Cardinality(Outstanding(c)') = Cardinality(Outstanding(c)) - 1
      /\ Cardinality(Outstanding(c)) \in Nat
      /\ Cardinality(Outstanding(c)) # 0
  BY <1>0, <1>a, OneLess, NoneLeft, OutstandingFinite
<1>c. /\ pending[c] > 0
      /\ pending[c] = 1 => phase[c] = "waiting" /\ Outstanding(c)' = {}
  <2>1. pending[c] = Gate(c) + Cardinality(Outstanding(c)) /\ Gate(c) \in {0, 1}
    BY <1>0 DEF PendingExact, Gate
  <2>2. pending[c] = 1 => Cardinality(Outstanding(c)') = 0 /\ Gate(c) = 0
    BY <1>b, <2>1
  <2>3. IsFiniteSet(Outstanding(c)')
    BY <1>a, OutstandingFinite, FS_Subset
  <2> QED
    BY <1>0, <1>b, <2>1, <2>2, <2>3, NoneLeft DEF Gate
<1>1. TypeOK'
  BY <1>0, <1>c DEF TypeOK, Phases
<1>2. RegInv'
  BY <1>0, <1>c DEF TypeOK, RegInv, Registering
<1>3. ListInv'
  <2>1. CASE pending[c] = 1
    <3>1. \A t \in Slots : \A m \in consumers'[t] \cup walk'[t] : Consumer(m) # c
      BY <1>c, <2>1 DEF Outstanding, TypeOK
    <3> QED
      BY <2>1, <3>1, NodeFacts DEF TypeOK, ListInv, Registering
  <2>2. CASE pending[c] # 1
    BY <2>2, NodeFacts DEF TypeOK, ListInv, Registering
  <2> QED
    BY <2>1, <2>2
<1>4. SealInv'
  BY <1>0, <1>c DEF TypeOK, SealInv
<1>5. ReadyInv'
  <2>1. CASE pending[c] = 1
    <3>1. phase' = [phase EXCEPT ![c] = "ready"]
      BY <2>1
    <3>2. /\ ready' = [ready EXCEPT ![s] = @ \cup {n}]
          /\ \A t \in Slots : \A m \in ready[t] : m \in Node /\ Consumer(m) # c
      BY <1>c, <2>1 DEF TypeOK, ReadyInv
    <3>3. \A t \in Slots : \A m \in ready'[t] :
             (m \in ready[t] /\ Consumer(m) # c) \/ (t = s /\ m = n)
      BY <3>2 DEF TypeOK
    <3>4. \A t \in Slots : \A m \in ready'[t] : phase'[Consumer(m)] = "ready"
      BY <1>0, <3>1, <3>2, <3>3, NodeFacts DEF TypeOK, ReadyInv
    <3>5. \A t, u \in Slots : \A m \in ready'[t], k \in ready'[u] :
             Consumer(m) = Consumer(k) => t = u /\ m = k
      BY <3>3 DEF ReadyInv
    <3>6. \A d \in Slots : phase'[d] = "ready" =>
             \E t \in Slots : \E m \in ready'[t] : Consumer(m) = d
      BY <3>1, <3>2 DEF TypeOK, ReadyInv
    <3> QED
      BY <3>4, <3>5, <3>6 DEF ReadyInv
  <2>2. CASE pending[c] # 1
    BY <2>2 DEF ReadyInv
  <2> QED
    BY <2>1, <2>2
<1>6. PendingExact'
  <2> SUFFICES ASSUME NEW d \in Slots
               PROVE  (pending[d] = Gate(d) + Cardinality(Outstanding(d)))'
    BY DEF PendingExact
  <2>1. CASE d = c
    BY <1>0, <1>b, <1>c, <2>1 DEF Gate, PendingExact, TypeOK
  <2>2. CASE d # c
    <3>1. Outstanding(d)' = Outstanding(d)
      BY <2>2 DEF Outstanding, Registering, TypeOK
    <3> QED
      BY <2>2, <3>1 DEF Gate, PendingExact, TypeOK
  <2> QED
    BY <2>1, <2>2
<1>7. WaitInv'
  BY <1>0, <1>c DEF TypeOK, WaitInv
<1>8. SourceInv'
  BY DEF TypeOK, SourceInv, Finished, WaitsFor, Registering
<1> QED
  BY <1>1, <1>2, <1>3, <1>4, <1>5, <1>6, <1>7, <1>8

(* The caller issues a ready consumer and drops its node.                  *)
LEMMA IssueStep ==
    ASSUME IInv, NEW s \in Slots, NEW n \in Node, Issue(s, n)
    PROVE  IInv'
<1> DEFINE c == Consumer(n)
<1> USE DEF IInv, Issue
<1>0. c \in Slots /\ phase[c] = "ready" /\ phase[s] = "issuing"
  BY NodeFacts DEF ReadyInv
<1>1. TypeOK'
  BY <1>0 DEF TypeOK, Phases
<1>2. RegInv'
  BY <1>0 DEF TypeOK, RegInv, Registering
<1>3. ListInv'
  BY <1>0, NodeFacts DEF TypeOK, ListInv, Registering
<1>4. SealInv'
  BY <1>0 DEF TypeOK, SealInv
<1>5. ReadyInv'
  <2>1. \A t \in Slots : \A m \in ready'[t] : m \in ready[t] /\ Consumer(m) # c
    BY DEF TypeOK, ReadyInv
  <2>2. \A t \in Slots : \A m \in ready[t] : Consumer(m) # c => m \in ready'[t]
    BY DEF TypeOK
  <2>3. \A d \in Slots : d # c => phase'[d] = phase[d]
    BY DEF TypeOK
  <2>4. phase'[c] = "issued"
    BY <1>0 DEF TypeOK
  <2> QED
    BY <2>1, <2>2, <2>3, <2>4, NodeFacts DEF TypeOK, ReadyInv
<1>6. PendingExact'
  <2> SUFFICES ASSUME NEW d \in Slots
               PROVE  (pending[d] = Gate(d) + Cardinality(Outstanding(d)))'
    BY DEF PendingExact
  <2>1. Outstanding(d)' = Outstanding(d)
    BY DEF Outstanding, Registering
  <2> QED
    BY <1>0, <2>1 DEF Gate, PendingExact, TypeOK
<1>7. WaitInv'
  BY <1>0 DEF TypeOK, WaitInv
<1>8. SourceInv'
  BY DEF TypeOK, SourceInv, Finished, WaitsFor, Registering
<1> QED
  BY <1>1, <1>2, <1>3, <1>4, <1>5, <1>6, <1>7, <1>8

(* The steps of the caller that only move a scoreboard along.              *)
LEMMA CallerStep ==
    ASSUME IInv, NEW s \in Slots, Run(s) \/ Return(s) \/ Finish(s)
    PROVE  IInv'
<1> USE DEF IInv, Run, Return, Finish
<1>0. /\ phase[s] \in {"issued", "walking", "issuing"}
      /\ phase' = [phase EXCEPT ![s] =
                      IF phase[s] = "issued" THEN "running"
                      ELSE IF phase[s] = "walking" THEN "issuing" ELSE "done"]
      /\ phase[s] = "walking" => walk[s] = {}
      /\ phase[s] = "issuing" => ready[s] = {}
      /\ UNCHANGED <<gen, pending, consumers, sealed, top, reg, walk, ready,
                     sources>>
  BY DEF TypeOK
<1>1. TypeOK'
  BY <1>0 DEF TypeOK, Phases
<1>2. RegInv'
  BY <1>0 DEF TypeOK, RegInv, Registering
<1>3. ListInv'
  BY <1>0, NodeFacts DEF TypeOK, ListInv, Registering
<1>4. SealInv'
  BY <1>0 DEF TypeOK, SealInv
<1>5. ReadyInv'
  BY <1>0, NodeFacts DEF TypeOK, ReadyInv
<1>6. PendingExact'
  <2> SUFFICES ASSUME NEW d \in Slots
               PROVE  (pending[d] = Gate(d) + Cardinality(Outstanding(d)))'
    BY DEF PendingExact
  <2>1. Outstanding(d)' = Outstanding(d)
    BY <1>0 DEF Outstanding, Registering
  <2> QED
    BY <1>0, <2>1 DEF Gate, PendingExact, TypeOK
<1>7. WaitInv'
  BY <1>0 DEF TypeOK, WaitInv
<1>8. SourceInv'
  BY <1>0 DEF TypeOK, SourceInv, Finished, WaitsFor, Registering
<1> QED
  BY <1>1, <1>2, <1>3, <1>4, <1>5, <1>6, <1>7, <1>8

(* Nothing changes.                                                        *)
LEMMA StutterStep ==
    ASSUME IInv, UNCHANGED boardVars
    PROVE  IInv'
<1> USE DEF IInv, boardVars
<1>1. \A d \in Slots : Outstanding(d)' = Outstanding(d)
  BY DEF Outstanding, Registering
<1> QED
  BY <1>1 DEF TypeOK, RegInv, ListInv, SealInv, ReadyInv, PendingExact, Gate,
              WaitInv, SourceInv, Finished, WaitsFor, Registering

-----------------------------------------------------------------------------
(* IInv is inductive.                                                      *)
LEMMA NextIInv == IInv /\ [Next]_boardVars => IInv'
<1> SUFFICES ASSUME IInv, [Next]_boardVars PROVE IInv'
  OBVIOUS
<1>1. ASSUME NEW s \in Slots, Reset(s) PROVE IInv'
  BY <1>1, ResetStep
<1>2. ASSUME NEW s \in Slots, NEW t \in Slots, Register(s, t) PROVE IInv'
  BY <1>2, RegisterStep
<1>3. ASSUME NEW s \in Slots, Owner(s) PROVE IInv'
  BY <1>3, PublishStep, CommitStep DEF Owner
<1>4. ASSUME NEW s \in Slots, Worker(s) PROVE IInv'
  BY <1>4, CompleteStep, NotifyStep, IssueStep, CallerStep DEF Worker
<1>5. CASE UNCHANGED boardVars
  BY <1>5, StutterStep
<1> QED
  BY <1>1, <1>2, <1>3, <1>4, <1>5 DEF Next, BoardNext, Exhausted

(* So IInv holds for ever.                                                 *)
LEMMA Inductive == Spec => []IInv
  BY InitIInv, NextIInv, PTL DEF Spec

(* Every variable of every scoreboard keeps its type; in particular        *)
(* m_pending never wraps below zero.                                       *)
THEOREM TypeCorrect == Spec => []TypeOK
<1>1. IInv => TypeOK
  BY DEF IInv
<1> QED
  BY <1>1, Inductive, PTL

(* m_pending is exactly the gate plus the unfinished sources, however      *)
(* registrations and completions interleave.                               *)
THEOREM PendingIsExact == Spec => []PendingExact
<1>1. IInv => PendingExact
  BY DEF IInv
<1> QED
  BY <1>1, Inductive, PTL

(* A job whose sources are all counted off has only finished ones.         *)
LEMMA SourcesAreFinished == IInv => StartAfterSources
<1> SUFFICES ASSUME IInv, NEW c \in Slots, phase[c] \in {"issued", "running"},
                    NEW d \in sources[c]
             PROVE  Finished(d[1], d[2])
  BY DEF StartAfterSources
<1>1. d[1] \in Slots
  BY DEF IInv, TypeOK
<1>2. ~WaitsFor(c, d[1])
  BY <1>1 DEF IInv, WaitsFor, RegInv, ListInv
<1> QED
  BY <1>2 DEF IInv, SourceInv

(* No job is handed to the workers before each job it depends on finished. *)
THEOREM JobsStartAfterSources == Spec => []StartAfterSources
BY SourcesAreFinished, Inductive, PTL

(* A committed job is never stranded: something is left that will make it  *)
(* ready, or it is on exactly one ready list.                              *)
THEOREM NobodyStranded == Spec => []NotStranded
<1>1. IInv => NotStranded
  <2> SUFFICES ASSUME IInv, NEW c \in Slots
               PROVE  /\ phase[c] = "waiting" => Outstanding(c) # {}
                      /\ phase[c] = "ready" =>
                            \E s \in Slots : \E n \in ready[s] :
                                \A t \in Slots : \A m \in ready[t] :
                                    Consumer(m) = c <=> <<t, m>> = <<s, n>>
    BY DEF NotStranded
  <2>1. ASSUME phase[c] = "waiting" PROVE Outstanding(c) # {}
    <3>1. Cardinality(Outstanding(c)) > 0
      BY <2>1, NoneLeft, OutstandingFinite
      DEF IInv, TypeOK, WaitInv, PendingExact, Gate
    <3> QED
      BY <3>1, FS_EmptySet
  <2>2. ASSUME phase[c] = "ready"
        PROVE  \E s \in Slots : \E n \in ready[s] :
                   \A t \in Slots : \A m \in ready[t] :
                       Consumer(m) = c <=> <<t, m>> = <<s, n>>
    BY <2>2 DEF IInv, ReadyInv
  <2> QED
    BY <2>1, <2>2
<1> QED
  BY <1>1, Inductive, PTL

(* A consumer node is only rewritten when it is on no list any more.       *)
THEOREM NodesReusedUnlinked == Spec => NodesUnlinkedWhenReused
<1> DEFINE Safe ==
      \A c \in Slots :
         /\ gen'[c] # gen[c] => \A n \in Node : Consumer(n) = c => ~Linked(n)
         /\ top'[c] > top[c] => ~Linked(<<c, top[c]>>)
<1>1. IInv /\ [Next]_boardVars => [Safe]_boardVars
  <2> SUFFICES ASSUME IInv, Next, NEW c \in Slots PROVE Safe!(c)
    BY DEF Safe
  <2>1. ASSUME NEW s \in Slots, Reset(s) PROVE Safe!(c)
    <3>1. /\ phase[s] \in {"idle", "done"} /\ top[s] \in Nat
          /\ gen' = [gen EXCEPT ![s] = @ + 1] /\ top' = [top EXCEPT ![s] = 0]
      BY <2>1 DEF IInv, TypeOK, Reset, MayReset
    <3>2. \A n \in Node : Consumer(n) = s => ~Linked(n)
      BY <3>1 DEF IInv, RegInv, ListInv, ReadyInv, Linked
    <3>3. /\ c # s => gen'[c] = gen[c] /\ top'[c] = top[c]
          /\ c = s => top'[c] = 0
      BY <3>1 DEF IInv, TypeOK
    <3>4. top[c] \in Nat
      BY DEF IInv, TypeOK
    <3> QED
      BY <3>1, <3>2, <3>3, <3>4
  <2>2. ASSUME NEW s \in Slots, NEW t \in Slots, Register(s, t) PROVE Safe!(c)
    <3>1. /\ phase[s] = "open" /\ ~Registering(s) /\ top[s] \in Nat
          /\ gen' = gen /\ top' = [top EXCEPT ![s] = @ + 1]
      BY <2>2 DEF IInv, TypeOK, Register, MayRegister
    <3>2. Consumer(<<s, top[s]>>) = s /\ <<s, top[s]>>[2] = top[s]
      BY DEF Consumer
    <3>3. ~Linked(<<s, top[s]>>)
      BY <3>1, <3>2 DEF IInv, ListInv, ReadyInv, Linked
    <3>4. c # s => top'[c] = top[c]
      BY <3>1 DEF IInv, TypeOK
    <3>5. top[c] \in Nat
      BY DEF IInv, TypeOK
    <3> QED
      BY <3>1, <3>3, <3>4, <3>5
  <2>3. CASE UNCHANGED <<gen, top>>
    BY <2>3 DEF IInv, TypeOK
  <2> QED
    BY <2>1, <2>2, <2>3
    DEF Next, BoardNext, Owner, Worker, Exhausted, boardVars, Publish, Commit,
        Run, Complete, Notify, Return, Issue, Finish
<1> QED
  BY <1>1, Inductive, PTL DEF Spec, NodesUnlinkedWhenReused

-----------------------------------------------------------------------------
(* Scoreboards implement TaskGraph: every step of the lock-free protocol is *)
(* a step of the graph of tasks or leaves it alone.  The two variables of   *)
(* the graph, as the scoreboards show them:                                *)
status == [s \in Slots |-> TaskStatus(phase[s])]
waits == [c \in Slots |-> {s \in Slots : WaitsFor(c, s)}]

(* How the progress of the caller shows in the graph.                      *)
LEMMA StatusFacts ==
    ASSUME NEW p \in Phases
    PROVE  /\ TaskStatus(p) = "free" <=> p = "idle"
           /\ TaskStatus(p) = "open" <=> p = "open"
           /\ TaskStatus(p) = "submitted" <=> p \in {"waiting", "ready", "issued"}
           /\ TaskStatus(p) = "running" <=> p = "running"
           /\ TaskStatus(p) = "done" <=> p \in {"walking", "issuing", "done"}
           /\ TaskStatus(p) \in {"free", "open", "submitted", "running", "done"}
BY DEF TaskStatus, Phases

(* What leaves the two variables of the graph alone.                       *)
LEMMA StatusUnchanged ==
    ASSUME \A s \in Slots : TaskStatus(phase'[s]) = TaskStatus(phase[s])
    PROVE  status' = status
BY DEF status

(* The same for who waits for whom.                                        *)
LEMMA WaitsUnchanged ==
    ASSUME \A c, s \in Slots : WaitsFor(c, s)' <=> WaitsFor(c, s)
    PROVE  waits' = waits
BY DEF waits

(* The initial scoreboards show the empty graph.                           *)
LEMMA InitRefines == Init => Graph!Init
<1> SUFFICES ASSUME Init PROVE Graph!Init
  OBVIOUS
<1>1. \A s \in Slots : TaskStatus(phase[s]) = "free"
  BY DEF Init, TaskStatus
<1>2. \A c, s \in Slots : ~WaitsFor(c, s)
  BY DEF Init, WaitsFor, Registering
<1> QED
  BY <1>1, <1>2 DEF Graph!Init

(* reset() opens a task in a slot that nobody waits for.                   *)
LEMMA ResetRefines ==
    ASSUME IInv, NEW s \in Slots, Reset(s)
    PROVE  Graph!Open(s)
<1> USE DEF IInv, Reset, MayReset
<1>1. TaskStatus(phase[s]) \in {"free", "done"}
  BY DEF TaskStatus
<1>2. phase' = [phase EXCEPT ![s] = "open"]
  OBVIOUS
<1>3. \A c \in Slots : ~WaitsFor(c, s)
  BY DEF WaitsFor, SealInv, TypeOK, Registering
<1>4. status' = [status EXCEPT ![s] = "open"]
  BY <1>2 DEF status, TypeOK, TaskStatus
<1>5. \A t \in Slots : ~WaitsFor(s, t)'
  BY NodeFacts DEF WaitsFor, ListInv, RegInv, TypeOK, Registering
<1>6. ASSUME NEW c \in Slots, NEW t \in Slots, c # s
      PROVE  WaitsFor(c, t)' <=> WaitsFor(c, t)
  <2>1. consumers'[t] = consumers[t]
    BY DEF SealInv, TypeOK
  <2> QED
    BY <2>1 DEF WaitsFor, TypeOK, Registering
<1>7. waits' = [waits EXCEPT ![s] = {}]
  BY <1>5, <1>6 DEF waits
<1> QED
  BY <1>1, <1>3, <1>4, <1>7 DEF Graph!Open, status, waits

(* addSource: the source joins what c waits for, unless it has finished.   *)
LEMMA RegisterRefines ==
    ASSUME IInv, NEW c \in Slots, NEW s \in Slots, Register(c, s)
    PROVE  Graph!Depend(c, s) \/ UNCHANGED <<status, waits>>
<1> USE DEF IInv, Register, MayRegister
<1>1. status' = status
  BY StatusUnchanged
<1>2. /\ reg[c] = NoReg /\ phase[c] = "open" /\ s # c
      /\ reg' = [reg EXCEPT ![c] = [node |-> <<c, top[c]>>, source |-> s]]
  BY DEF Registering
<1>3. ASSUME NEW d \in Slots, NEW t \in Slots
      PROVE  WaitsFor(d, t)' <=>
                 WaitsFor(d, t) \/ (d = c /\ t = s /\ s \notin sealed)
  <2>1. Registering(c)' /\ reg'[c].source = s
    BY <1>2, CallIsNotNoReg DEF TypeOK, Registering
  <2>2. d # c => reg'[d] = reg[d]
    BY <1>2 DEF TypeOK
  <2> QED
    BY <1>2, <2>1, <2>2 DEF WaitsFor, Registering
<1>4. CASE s \in sealed
  BY <1>1, <1>3, <1>4, WaitsUnchanged
<1>5. CASE s \notin sealed
  <2>1. phase[s] \in {"open", "waiting", "ready", "issued", "running"}
    BY <1>5 DEF SealInv, TypeOK, Phases
  <2>2. TaskStatus(phase[s]) \in {"open", "submitted", "running"}
    BY <2>1 DEF TaskStatus
  <2>3. TaskStatus(phase[c]) = "open"
    BY <1>2 DEF TaskStatus
  <2>4. waits' = [waits EXCEPT ![c] = @ \cup {s}]
    BY <1>3, <1>5 DEF waits
  <2> QED
    BY <1>1, <2>2, <2>3, <2>4 DEF Graph!Depend, status, waits
<1> QED
  BY <1>4, <1>5

(* Publishing the node, or finding the sentinel, changes no waiting.       *)
LEMMA PublishRefines ==
    ASSUME IInv, NEW c \in Slots, Publish(c)
    PROVE  UNCHANGED <<status, waits>>
<1> USE DEF IInv, Publish
<1>1. status' = status
  BY StatusUnchanged
<1> DEFINE s == reg[c].source
<1>2. /\ s \in Slots /\ reg[c].node \in Node /\ Consumer(reg[c].node) = c
      /\ reg' = [reg EXCEPT ![c] = NoReg]
  BY DEF TypeOK, RegInv, Registering, Consumer
<1>3. ASSUME NEW d \in Slots, NEW t \in Slots
      PROVE  WaitsFor(d, t)' <=> WaitsFor(d, t)
  <2>1. /\ ~Registering(c)'
        /\ d # c => (Registering(d)' <=> Registering(d)) /\ reg'[d] = reg[d]
    BY <1>2 DEF TypeOK, Registering
  <2>2. CASE ~IsCompleted(s)
    <3>1. consumers' = [consumers EXCEPT ![s] = @ \cup {reg[c].node}]
      BY <2>2
    <3>2. \A n : n \in consumers'[t] <=>
                    n \in consumers[t] \/ (t = s /\ n = reg[c].node)
      BY <3>1, <1>2 DEF TypeOK
    <3> QED
      BY <1>2, <2>1, <2>2, <3>2 DEF WaitsFor, IsCompleted
  <2>3. CASE IsCompleted(s)
    BY <2>1, <2>3 DEF WaitsFor, IsCompleted
  <2> QED
    BY <2>2, <2>3
<1> QED
  BY <1>1, <1>3, WaitsUnchanged

(* commit() submits, whatever is still to be waited for.                   *)
LEMMA CommitRefines ==
    ASSUME IInv, NEW c \in Slots, Commit(c)
    PROVE  Graph!Submit(c)
<1> USE DEF IInv, Commit
<1>1. status' = [status EXCEPT ![c] = "submitted"]
  BY DEF status, TaskStatus, TypeOK
<1>2. waits' = waits
  BY WaitsUnchanged DEF WaitsFor, Registering
<1>3. TaskStatus(phase[c]) = "open"
  BY DEF TaskStatus
<1> QED
  BY <1>1, <1>2, <1>3 DEF Graph!Submit, status, waits

(* A job that is executed is on no open list any more.                     *)
LEMMA RunRefines ==
    ASSUME IInv, NEW c \in Slots, Run(c)
    PROVE  Graph!Start(c)
<1> USE DEF IInv, Run
<1>1. status' = [status EXCEPT ![c] = "running"]
  BY DEF status, TaskStatus, TypeOK
<1>2. waits' = waits
  BY WaitsUnchanged DEF WaitsFor, Registering
<1>3. TaskStatus(phase[c]) = "submitted"
  BY DEF TaskStatus
<1>4. \A s \in Slots : ~WaitsFor(c, s)
  BY DEF WaitsFor, ListInv, RegInv
<1> QED
  BY <1>1, <1>2, <1>3, <1>4 DEF Graph!Start, status, waits

(* The exchange of complete() takes s out of what every task waits for.    *)
LEMMA CompleteRefines ==
    ASSUME IInv, NEW s \in Slots, Complete(s)
    PROVE  Graph!Finish(s)
<1> USE DEF IInv, Complete
<1>1. status' = [status EXCEPT ![s] = "done"]
  BY DEF status, TaskStatus, TypeOK
<1>2. ASSUME NEW c \in Slots, NEW t \in Slots
      PROVE  WaitsFor(c, t)' <=> WaitsFor(c, t) /\ t # s
  BY DEF WaitsFor, Registering, TypeOK, Close
<1>3. waits' = [c \in Slots |-> waits[c] \ {s}]
  BY <1>2 DEF waits
<1>4. TaskStatus(phase[s]) = "running"
  BY DEF TaskStatus
<1> QED
  BY <1>1, <1>3, <1>4 DEF Graph!Finish, status, waits

(* A consumer that becomes ready was submitted: its gate was counted off.  *)
LEMMA NotifyRefines ==
    ASSUME IInv, NEW s \in Slots, NEW n \in Node, Notify(s, n)
    PROVE  UNCHANGED <<status, waits>>
<1> DEFINE c == Consumer(n)
<1> USE DEF IInv, Notify, IsReady
<1>1. c \in Slots /\ n \in Outstanding(c) /\ phase[c] \in {"open", "waiting"}
  BY NodeFacts DEF Outstanding, ListInv
<1>2. pending[c] = 1 => phase[c] = "waiting"
  <2>1. Cardinality(Outstanding(c)) \in Nat \ {0}
    BY <1>1, NoneLeft, OutstandingFinite
  <2>2. pending[c] = Gate(c) + Cardinality(Outstanding(c))
    BY <1>1 DEF PendingExact
  <2> QED
    BY <1>1, <2>1, <2>2 DEF Gate
<1>3. status' = status
  <2>1. \A d \in Slots :
           phase'[d] = phase[d] \/ (phase[d] = "waiting" /\ phase'[d] = "ready")
    BY <1>1, <1>2 DEF TypeOK
  <2>2. TaskStatus("waiting") = TaskStatus("ready")
    BY DEF TaskStatus
  <2> QED
    BY <2>1, <2>2, StatusUnchanged
<1>4. waits' = waits
  BY WaitsUnchanged DEF WaitsFor, Registering
<1> QED
  BY <1>3, <1>4

(* Issuing a ready consumer is not visible either.                         *)
LEMMA IssueRefines ==
    ASSUME IInv, NEW s \in Slots, NEW n \in Node, Issue(s, n)
    PROVE  UNCHANGED <<status, waits>>
<1> USE DEF IInv, Issue
<1>1. \A d \in Slots :
         phase'[d] = phase[d] \/ (phase[d] = "ready" /\ phase'[d] = "issued")
  BY DEF TypeOK, ReadyInv
<1>2. TaskStatus("ready") = TaskStatus("issued")
  BY DEF TaskStatus
<1>3. status' = status
  BY <1>1, <1>2, StatusUnchanged
<1>4. waits' = waits
  BY WaitsUnchanged DEF WaitsFor, Registering
<1> QED
  BY <1>3, <1>4

(* What the caller does after complete() concerns no other task.           *)
LEMMA CallerRefines ==
    ASSUME IInv, NEW s \in Slots, Return(s) \/ Finish(s)
    PROVE  UNCHANGED <<status, waits>>
<1> USE DEF IInv, Return, Finish
<1>1. \A d \in Slots :
         \/ phase'[d] = phase[d]
         \/ phase[d] \in {"walking", "issuing"} /\ phase'[d] \in {"issuing", "done"}
  BY DEF TypeOK
<1>2. \A p \in {"walking", "issuing", "done"} : TaskStatus(p) = "done"
  BY DEF TaskStatus
<1>3. status' = status
  BY <1>1, <1>2, StatusUnchanged
<1>4. waits' = waits
  BY WaitsUnchanged DEF WaitsFor, Registering
<1> QED
  BY <1>3, <1>4

-----------------------------------------------------------------------------
(* Every step of the protocol is a step of the graph, or none of its steps. *)
LEMMA NextRefines ==
    IInv /\ [Next]_boardVars => [Graph!Next]_<<status, waits>>
<1> SUFFICES ASSUME IInv, [Next]_boardVars
             PROVE  Graph!Next \/ UNCHANGED <<status, waits>>
  OBVIOUS
<1>1. ASSUME NEW s \in Slots, Reset(s) PROVE Graph!Next
  BY <1>1, ResetRefines DEF Graph!Next
<1>2. ASSUME NEW s \in Slots, NEW t \in Slots, Register(s, t)
      PROVE  Graph!Next \/ UNCHANGED <<status, waits>>
  BY <1>2, RegisterRefines DEF Graph!Next
<1>3. ASSUME NEW s \in Slots, Owner(s)
      PROVE  Graph!Next \/ UNCHANGED <<status, waits>>
  BY <1>3, PublishRefines, CommitRefines DEF Owner, Graph!Next
<1>4. ASSUME NEW s \in Slots, Worker(s)
      PROVE  Graph!Next \/ UNCHANGED <<status, waits>>
  <2>1. ASSUME Run(s) \/ Complete(s) PROVE Graph!Next
    BY <2>1, RunRefines, CompleteRefines DEF Graph!Next
  <2>2. ASSUME NEW n \in Node, Notify(s, n) \/ Issue(s, n)
        PROVE  UNCHANGED <<status, waits>>
    BY <2>2, NotifyRefines, IssueRefines
  <2> QED
    BY <1>4, <2>1, <2>2, CallerRefines DEF Worker
<1>5. CASE UNCHANGED boardVars
  BY <1>5, StatusUnchanged, WaitsUnchanged
  DEF boardVars, WaitsFor, Registering
<1> QED
  BY <1>1, <1>2, <1>3, <1>4, <1>5 DEF Next, BoardNext, Exhausted

(* Scoreboards implement the graph of tasks: a task starts only when all   *)
(* it comes after has finished, and a slot is reused only when nobody      *)
(* waits for it.                                                           *)
THEOREM ScoreboardsImplementTaskGraph == Spec => ImplementsTaskGraph
BY InitRefines, NextRefines, Inductive, PTL
DEF Spec, ImplementsTaskGraph, Graph!Spec, Graph!taskVars, status, waits

-----------------------------------------------------------------------------
(* The scheduler.                                                          *)
-----------------------------------------------------------------------------
(* The types, without the upper bounds of the counters.                    *)
SlotTypes ==
    /\ lifecycle \in [Slots -> [gen : Nat, done : BOOLEAN, pins : 0 .. 1]]
    /\ completed \in [Slots -> Nat]
FreeTypes ==
    head \in SlotOrNone /\ next \in [Slots -> SlotOrNone] /\ count \in Nat
JobTypes ==
    /\ live \in [Slots -> Nat] /\ calls \in [Slots -> Nat] /\ pool \in [Slots -> Nat]
    /\ fn \in [Slots -> BOOLEAN] /\ kids \in [Slots -> 0 .. MaxKids]
OwnerType == owner \in [at : OwnerAt, slot : SlotOrNone, other : SlotOrNone]
WorkerType ==
    worker \in [Workers -> [at : WorkerAt, slot : SlotOrNone, left : 0 .. MaxKids]]
WaiterType ==
    waiter \in [at : {"idle", "gen", "life", "sleep", "parked", "returned"},
                id : (Slots \X Nat) \cup {NoSlot}, seen : Nat]
Types == SlotTypes /\ FreeTypes /\ JobTypes /\ OwnerType /\ WorkerType /\ WaiterType

Takes(s) == owner.slot = s /\ owner.at \in {"init", "open"}
Opens(s) == owner.slot = s /\ owner.at = "open"
Pins(s) == owner.other = s /\ owner.at \in {"register", "publish", "unpin"}
OwnerPushes(s) == owner.other = s /\ owner.at = "push"
Enqueues(s) == owner.slot = s /\ owner.at = "enqueue"
InUse(s) == ~lifecycle[s].done \/ lifecycle[s].pins > 0

(* What the owner's place says of its locals.                              *)
OwnerInv ==
    /\ owner.at \in {"init", "open", "register", "publish", "unpin", "enqueue"} =>
          owner.slot \in Slots
    /\ owner.at \in {"register", "publish", "unpin", "push"} => owner.other \in Slots
    /\ \A c \in Slots : Registering(c) => owner.slot = c /\ owner.at = "publish"
    /\ owner.at = "enqueue" => phase[owner.slot] = "issued"

(* Only an addDependency() under way holds a pin.                          *)
PinInv == \A s \in Slots : lifecycle[s].pins = IF Pins(s) THEN 1 ELSE 0

(* The generation follows the resets of the scoreboard, and the bit its    *)
(* completion.                                                             *)
LifeInv ==
    \A s \in Slots :
        /\ gen[s] = lifecycle[s].gen + (IF Opens(s) THEN 1 ELSE 0)
        /\ gen[s] = 0 <=> phase[s] = "idle"
        /\ Opens(s) => phase[s] = "open"
        /\ lifecycle[s].done => Opens(s) \/ phase[s] \in {"idle", "done"}
        /\ ~lifecycle[s].done => phase[s] # "idle"

(* Where a worker is tells how far its job has come; a job is completed by *)
(* one worker.                                                             *)
StageInv(w) ==
    LET at == worker[w].at
        s == worker[w].slot
    IN  /\ at # "idle" => s \in Slots
        /\ at = "spawn" <=> worker[w].left > 0
        /\ at \in {"body", "spawn", "leave", "complete"} => phase[s] = "running"
        /\ at = "walk" => phase[s] = "walking"
        /\ at = "issue" => phase[s] = "issuing"
        /\ at \in {"mark", "wake", "orbit"} => phase[s] = "done" /\ ~lifecycle[s].done
        /\ at = "complete" => live[s] = 0
WorkerInv ==
    /\ \A w \in Workers : StageInv(w)
    /\ \A s \in Slots : \A v, w \in Workers :
          Completing(v, s) /\ Completing(w, s) => v = w

(* A worker that has nothing to do holds no slot.                          *)
RestInv == \A w \in Workers : worker[w].at = "idle" => worker[w].slot = NoSlot

(* How many invocations a job has at each stage, and that its callable is   *)
(* in place while it has any.                                              *)
CallInv ==
    \A s \in Slots :
        /\ phase[s] \notin {"issued", "running"} => live[s] = 0
        /\ phase[s] = "issued" => /\ live[s] = IF Enqueues(s) THEN 0 ELSE 1
                                  /\ ~Enqueues(s) => calls[s] = 0
        /\ phase[s] = "running" =>
              calls[s] + pool[s] + Cardinality(ToSpawn(s)) = kids[s] + 1
        /\ phase[s] \in {"waiting", "ready", "issued", "running"} => fn[s]
        /\ phase[s] \in {"open", "waiting", "ready", "issued"} => kids[s] = 0

(* The free list has no cycle, and what the owner has read of it is true   *)
(* when its exchange succeeds; the semaphore lags behind the list.         *)
Acquiring == IF owner.at \in {"load", "next", "cas"} THEN 1 ELSE 0
FreeInv ==
    /\ Acyclic(Slots, next, head)
    /\ owner.at \in {"next", "cas"} => owner.slot \in FreeList
    /\ owner.at = "cas" => owner.other = next[owner.slot]
    /\ count + Releasing + Acquiring = Cardinality(FreeList)

(* SlotInOnePlace, without counting.                                       *)
PlaceInv ==
    \A s \in Slots :
        /\ \/ s \in FreeList \/ Takes(s) \/ InUse(s) \/ OwnerPushes(s)
           \/ \E w \in Workers : Pushing(w, s)
        /\ s \in FreeList => ~Takes(s) /\ ~InUse(s) /\ ~OwnerPushes(s)
        /\ Takes(s) => ~InUse(s)
        /\ OwnerPushes(s) => ~InUse(s)
        /\ \A w \in Workers : Pushing(w, s) =>
              /\ s \notin FreeList /\ ~Takes(s) /\ ~InUse(s) /\ ~OwnerPushes(s)
              /\ \A v \in Workers : Pushing(v, s) => v = w

(* What wait() has seen so far is true and stays true.                     *)
MarkInv == \A s \in Slots : completed[s] > 0 => Finished(s, completed[s])
SeenInv ==
    waiter.at # "idle" =>
        LET s == waiter.id[1]
            g == waiter.id[2]
        IN  /\ waiter.id \in Slots \X Nat
            /\ g > 0 /\ g <= lifecycle[s].gen
            /\ waiter.seen > 0 => Finished(s, waiter.seen)
            /\ waiter.at = "returned" => Finished(s, g)
WaiterInv == MarkInv /\ SeenInv

(* The inductive invariant; LiveExact is a part of it as it stands.        *)
SInv ==
    /\ IInv /\ Types /\ OwnerInv /\ PinInv /\ LifeInv /\ WorkerInv /\ RestInv
    /\ LiveExact /\ CallInv /\ FreeInv /\ PlaceInv /\ WaiterInv

USE SlotsAssumption, MaxAddsAssumption, MaxGenAssumption, WorkersAssumption,
    MaxKidsAssumption, SomeSlotAssumption

-----------------------------------------------------------------------------
(* Every step of the scheduler is a step of the scoreboards, or none.      *)
LEMMA BoardStep ==
    ASSUME SInv, [SchedNext]_vars
    PROVE  [Next]_boardVars /\ IInv'
<1>1. ASSUME Owns PROVE [Next]_boardVars
  <2>1. CASE AcquireInit
    BY <2>1 DEF SInv, OwnerInv, AcquireInit, Next, BoardNext
  <2>2. CASE AddDependencyRegister
    BY <2>2 DEF SInv, OwnerInv, AddDependencyRegister, Next, BoardNext
  <2>3. CASE AddDependencyPublish
    BY <2>3 DEF SInv, OwnerInv, AddDependencyPublish, Next, BoardNext, Owner
  <2>4. ASSUME NEW c \in Slots, Submit(c) PROVE [Next]_boardVars
    BY <2>4 DEF Submit, Next, BoardNext, Owner
  <2>5. CASE UNCHANGED boardVars
    BY <2>5
  <2> QED
    BY <1>1, <2>1, <2>2, <2>3, <2>4, <2>5
    DEF Owns, AcquireCall, AcquireCount, AcquireLoad, AcquireNext, AcquireExchange,
        AcquireOpen, AddDependencyPin, AddDependencyUnpin, OwnerPush,
        OwnerRelease, SubmitEnqueue
<1>2. ASSUME NEW w \in Workers, Works(w) PROVE [Next]_boardVars
  <2> DEFINE s == worker[w].slot
  <2>0. worker[w].at # "idle" => s \in Slots
    BY DEF SInv, WorkerInv, StageInv
  <2>1. ASSUME NEW t \in Slots, Take(w, t) PROVE [Next]_boardVars
    BY <2>1 DEF Take, Next, BoardNext, Worker
  <2>2. CASE CompleteJob(w)
    BY <2>0, <2>2 DEF CompleteJob, Next, BoardNext, Worker
  <2>3. CASE ReturnReady(w)
    BY <2>0, <2>3 DEF ReturnReady, Next, BoardNext, Worker
  <2>4. CASE FinishIssue(w)
    BY <2>0, <2>4 DEF FinishIssue, Next, BoardNext, Worker
  <2>5. ASSUME NEW n \in Node, NotifyConsumer(w, n) \/ IssueReady(w, n)
        PROVE  [Next]_boardVars
    BY <2>0, <2>5 DEF NotifyConsumer, IssueReady, Next, BoardNext, Worker
  <2>6. CASE UNCHANGED boardVars
    BY <2>6
  <2> QED
    BY <1>2, <2>1, <2>2, <2>3, <2>4, <2>5, <2>6
    DEF Works, Execute, Spawn, Leave, MarkCompleted, NotifyWaiters,
        SetCompletedBit, WorkerPush, WorkerRelease
<1>3. Waits \/ UNCHANGED vars => UNCHANGED boardVars
  BY DEF Waits, WaitSteps, WaitLoadGen, WaitLoadLifecycle, WaitSleep, WaitReturn,
         WaitCall, vars
<1>4. [Next]_boardVars
  BY <1>1, <1>2, <1>3 DEF SchedNext
<1> QED
  BY <1>4, NextIInv DEF SInv

(* A job that has finished stays finished.                                 *)
LEMMA FinishedStable ==
    ASSUME IInv, [Next]_boardVars, NEW s \in Slots, NEW g \in Nat, Finished(s, g)
    PROVE  gen'[s] > g \/ (gen'[s] = g /\ s \in sealed')
<1> USE DEF Finished, IInv, TypeOK
<1>1. ASSUME NEW t \in Slots, Reset(t)
      PROVE  gen'[s] > g \/ (gen'[s] = g /\ s \in sealed')
  BY <1>1 DEF Reset
<1>2. ASSUME NEW t \in Slots,
             Owner(t) \/ Worker(t) \/ \E u \in Slots : Register(t, u)
      PROVE  gen'[s] > g \/ (gen'[s] = g /\ s \in sealed')
  BY <1>2 DEF Owner, Worker, Publish, Commit, Run, Complete, Return, Finish,
              Notify, Issue, Register, Close
<1>3. CASE UNCHANGED boardVars
  BY <1>3 DEF boardVars
<1> QED
  BY <1>1, <1>2, <1>3 DEF Next, BoardNext, Exhausted

(* The sets that LiveExact counts are finite.                              *)
LEMMA CountedSetsFinite ==
    ASSUME NEW s
    PROVE  /\ IsFiniteSet(Invokers(s)) /\ Cardinality(Invokers(s)) \in Nat
           /\ IsFiniteSet(ToSpawn(s)) /\ Cardinality(ToSpawn(s)) \in Nat
<1>1. IsFiniteSet(Invokers(s))
  <2>1. Invokers(s) \subseteq Workers
    BY DEF Invokers
  <2> QED
    BY <2>1, FS_Subset
<1>2. IsFiniteSet(ToSpawn(s))
  <2>1. IsFiniteSet(1 .. MaxKids)
    BY FS_Interval
  <2>2. IsFiniteSet(Workers \X (1 .. MaxKids))
    BY <2>1, FS_Product
  <2>3. ToSpawn(s) \subseteq Workers \X (1 .. MaxKids)
    BY DEF ToSpawn
  <2> QED
    BY <2>2, <2>3, FS_Subset
<1> QED
  BY <1>1, <1>2, FS_CardinalityType

(* A running invocation is counted.                                        *)
LEMMA InvokerIsCounted ==
    ASSUME SInv, NEW w \in Workers, NEW s \in Slots, Invoking(w, s)
    PROVE  live[s] > 0
<1>1. Cardinality(Invokers(s)) # 0
  <2>1. w \in Invokers(s)
    BY DEF Invokers
  <2> QED
    BY <2>1, CountedSetsFinite, FS_EmptySet
<1>2. live[s] = pool[s] + Cardinality(Invokers(s)) + Cardinality(ToSpawn(s))
  BY DEF SInv, LiveExact
<1>3. pool[s] \in Nat
  BY DEF SInv, Types, JobTypes
<1> QED
  BY <1>1, <1>2, <1>3, CountedSetsFinite

(* Types, one group of variables after the other.                          *)
LEMMA SlotTypesStep ==
    ASSUME SInv, [SchedNext]_vars
    PROVE  SlotTypes'
<1> USE DEF SlotTypes
<1>0. SlotTypes
  BY DEF SInv, Types
<1>1. CASE AcquireOpen
  <2>1. owner.slot \in Slots
    BY <1>1 DEF AcquireOpen, SInv, OwnerInv
  <2> QED
    BY <1>0, <1>1, <2>1 DEF AcquireOpen
<1>2. ASSUME NEW c \in Slots, NEW s \in Slots, NEW g \in 1 .. MaxGen,
             AddDependencyPin(c, s, g)
      PROVE  SlotTypes'
  <2>1. lifecycle[s].pins = 0
    BY <1>2 DEF AddDependencyPin, SInv, PinInv, Pins
  <2> QED
    BY <1>0, <1>2, <2>1 DEF AddDependencyPin
<1>3. CASE AddDependencyUnpin
  <2>1. owner.other \in Slots /\ lifecycle[owner.other].pins = 1
    BY <1>3 DEF AddDependencyUnpin, SInv, PinInv, Pins, OwnerInv
  <2> QED
    BY <1>0, <1>3, <2>1 DEF AddDependencyUnpin
<1>4. ASSUME NEW w \in Workers, MarkCompleted(w) PROVE SlotTypes'
  BY <1>0, <1>4 DEF MarkCompleted, SInv, WorkerInv, StageInv
<1>5. ASSUME NEW w \in Workers, SetCompletedBit(w) PROVE SlotTypes'
  BY <1>0, <1>5 DEF SetCompletedBit, SInv, WorkerInv, StageInv
<1>6. CASE UNCHANGED slotVars
  BY <1>0, <1>6 DEF slotVars
<1> QED
  BY <1>1, <1>2, <1>3, <1>4, <1>5, <1>6
  DEF SchedNext, Owns, AcquireCall, AcquireCount, AcquireLoad, AcquireNext,
      AcquireExchange, AcquireInit, AddDependencyRegister, AddDependencyPublish,
      OwnerPush, OwnerRelease, Submit, SubmitEnqueue, Works, Take, Execute, Spawn,
      Leave, CompleteJob, NotifyConsumer, ReturnReady, IssueReady, FinishIssue,
      NotifyWaiters, WorkerPush, WorkerRelease, Waits, WaitSteps, WaitCall,
      WaitLoadGen, WaitLoadLifecycle, WaitSleep, WaitReturn, vars

(* The free list only ever links slots.                                    *)
LEMMA FreeTypesStep ==
    ASSUME SInv, [SchedNext]_vars
    PROVE  FreeTypes'
<1> USE DEF FreeTypes, SlotOrNone
<1>0. FreeTypes /\ OwnerType
  BY DEF SInv, Types
<1>1. CASE AcquireCount
  BY <1>0, <1>1 DEF AcquireCount, Decrement
<1>2. CASE AcquireExchange
  BY <1>0, <1>2 DEF AcquireExchange, OwnerType
<1>3. CASE AcquireInit
  BY <1>0, <1>3 DEF AcquireInit
<1>4. CASE OwnerPush
  BY <1>0, <1>4 DEF OwnerPush, Push, SInv, OwnerInv
<1>5. ASSUME NEW w \in Workers, WorkerPush(w) PROVE FreeTypes'
  BY <1>0, <1>5 DEF WorkerPush, Push, SInv, WorkerInv, StageInv
<1>6. CASE OwnerRelease \/ \E w \in Workers : WorkerRelease(w)
  BY <1>0, <1>6 DEF OwnerRelease, WorkerRelease, Release
<1>7. CASE UNCHANGED freeVars
  BY <1>0, <1>7 DEF freeVars
<1> QED
  BY <1>1, <1>2, <1>3, <1>4, <1>5, <1>6, <1>7
  DEF SchedNext, Owns, AcquireCall, AcquireLoad, AcquireNext, AcquireOpen,
      AddDependencyPin, AddDependencyRegister, AddDependencyPublish,
      AddDependencyUnpin, Submit, SubmitEnqueue, Works, Take, Execute, Spawn,
      Leave, CompleteJob, NotifyConsumer, ReturnReady, IssueReady, FinishIssue,
      MarkCompleted, NotifyWaiters, SetCompletedBit, Waits, WaitSteps, WaitCall,
      WaitLoadGen, WaitLoadLifecycle, WaitSleep, WaitReturn, vars

(* Invocations are taken while some are queued, and m_liveInvocations is   *)
(* decremented while an invocation runs: no counter goes below zero.       *)
LEMMA JobTypesStep ==
    ASSUME SInv, [SchedNext]_vars
    PROVE  JobTypes'
<1> USE DEF JobTypes
<1>0. JobTypes
  BY DEF SInv, Types
<1>1. CASE AcquireInit
  <2>1. live' \in [Slots -> Nat] /\ calls' \in [Slots -> Nat] /\ pool' \in [Slots -> Nat]
    BY <1>0, <1>1 DEF AcquireInit
  <2>2. fn' \in [Slots -> BOOLEAN]
    BY <1>0, <1>1 DEF AcquireInit
  <2>3. kids' \in [Slots -> 0 .. MaxKids]
    <3>1. 0 \in 0 .. MaxKids
      OBVIOUS
    <3> QED
      BY <1>0, <1>1, <3>1 DEF AcquireInit
  <2> QED
    BY <2>1, <2>2, <2>3
<1>2. ASSUME NEW c \in Slots, Submit(c) PROVE JobTypes'
  BY <1>0, <1>2 DEF Submit
<1>3. CASE SubmitEnqueue
  <2>1. owner.slot \in Slots
    BY <1>3 DEF SubmitEnqueue, SInv, OwnerInv
  <2> QED
    BY <1>0, <1>3, <2>1 DEF SubmitEnqueue, Enqueue
<1>4. ASSUME NEW w \in Workers, NEW s \in Slots, Take(w, s) PROVE JobTypes'
  BY <1>0, <1>4 DEF Take, NextCall
<1>5. ASSUME NEW w \in Workers, NEW k \in 0 .. MaxKids, Execute(w, k) PROVE JobTypes'
  <2>1. worker[w].slot \in Slots
    BY <1>5 DEF Execute, SInv, WorkerInv, StageInv
  <2> QED
    BY <1>0, <1>5, <2>1 DEF Execute, CountChildren
<1>6. ASSUME NEW w \in Workers, Spawn(w) PROVE JobTypes'
  BY <1>0, <1>6 DEF Spawn, SInv, WorkerInv, StageInv
<1>7. ASSUME NEW w \in Workers, Leave(w) PROVE JobTypes'
  <2>1. worker[w].slot \in Slots /\ Invoking(w, worker[w].slot)
    BY <1>7 DEF Leave, SInv, WorkerInv, StageInv, Invoking
  <2>2. live[worker[w].slot] > 0
    BY <2>1, InvokerIsCounted
  <2> QED
    BY <1>0, <1>7, <2>1, <2>2 DEF Leave
<1>8. ASSUME NEW w \in Workers, CompleteJob(w) PROVE JobTypes'
  BY <1>0, <1>8 DEF CompleteJob
<1>9. ASSUME NEW w \in Workers, NEW n \in Node, IssueReady(w, n) PROVE JobTypes'
  <2>1. Consumer(n) \in Slots
    BY NodeFacts
  <2> QED
    BY <1>0, <1>9, <2>1 DEF IssueReady, Enqueue
<1>10. CASE UNCHANGED jobVars
  BY <1>0, <1>10 DEF jobVars
<1> QED
  BY <1>1, <1>2, <1>3, <1>4, <1>5, <1>6, <1>7, <1>8, <1>9, <1>10
  DEF SchedNext, Owns, AcquireCall, AcquireCount, AcquireLoad, AcquireNext,
      AcquireExchange, AcquireOpen, AddDependencyPin, AddDependencyRegister,
      AddDependencyPublish, AddDependencyUnpin, OwnerPush, OwnerRelease, Works,
      NotifyConsumer, ReturnReady, FinishIssue, MarkCompleted, NotifyWaiters,
      SetCompletedBit, WorkerPush, WorkerRelease, Waits, WaitSteps, WaitCall,
      WaitLoadGen, WaitLoadLifecycle, WaitSleep, WaitReturn, vars

(* The owner's locals.                                                     *)
LEMMA OwnerTypeStep ==
    ASSUME SInv, [SchedNext]_vars
    PROVE  OwnerType'
<1> USE DEF OwnerType, SlotOrNone, OwnerAt
<1>0. OwnerType /\ head \in SlotOrNone
  BY DEF SInv, Types, FreeTypes
<1>1. ASSUME NEW at \in OwnerAt, OwnerGoes(at) PROVE OwnerType'
  BY <1>0, <1>1 DEF OwnerGoes
<1>2. CASE OwnerIdle
  BY <1>2 DEF OwnerIdle
<1>3. CASE AcquireLoad
  BY <1>0, <1>3 DEF AcquireLoad
<1>4. CASE AcquireNext
  <2>1. next[owner.slot] \in SlotOrNone
    BY <1>4, ReachClosed
    DEF AcquireNext, SInv, FreeInv, FreeList, Types, FreeTypes
  <2> QED
    BY <1>0, <1>4, <2>1 DEF AcquireNext
<1>5. CASE AcquireExchange
  BY <1>0, <1>5 DEF AcquireExchange
<1>6. ASSUME NEW c \in Slots, NEW s \in Slots, NEW g \in 1 .. MaxGen,
             AddDependencyPin(c, s, g)
      PROVE  OwnerType'
  BY <1>6 DEF AddDependencyPin
<1>7. ASSUME NEW c \in Slots, Submit(c) PROVE OwnerType'
  BY <1>0, <1>7 DEF Submit
<1>8. CASE UNCHANGED owner
  BY <1>0, <1>8
<1>9. ASSUME Owns PROVE OwnerType'
  BY <1>1, <1>2, <1>3, <1>4, <1>5, <1>6, <1>7, <1>9
  DEF Owns, AcquireCall, AcquireCount, AcquireInit, AcquireOpen,
      AddDependencyRegister, AddDependencyPublish, AddDependencyUnpin, OwnerPush,
      OwnerRelease, SubmitEnqueue
<1> QED
  BY <1>8, <1>9
  DEF SchedNext, Works, Take, Execute, Spawn,
      Leave, CompleteJob, NotifyConsumer, ReturnReady, IssueReady, FinishIssue,
      MarkCompleted, NotifyWaiters, SetCompletedBit, WorkerPush, WorkerRelease,
      threadVars, Waits, WaitSteps, WaitCall,
      WaitLoadGen, WaitLoadLifecycle, WaitSleep, WaitReturn, vars

(* The workers' locals: a worker spawns while it has children to queue.    *)
LEMMA WorkerTypeStep ==
    ASSUME SInv, [SchedNext]_vars
    PROVE  WorkerType'
<1> USE DEF WorkerType, SlotOrNone, WorkerAt
<1>0. WorkerType
  BY DEF SInv, Types
<1>1. ASSUME NEW w \in Workers, NEW at \in WorkerAt, WorkerGoes(w, at) PROVE WorkerType'
  BY <1>0, <1>1 DEF WorkerGoes
<1>2. ASSUME NEW w \in Workers, WorkerIdle(w) PROVE WorkerType'
  BY <1>0, <1>2 DEF WorkerIdle
<1>3. ASSUME NEW w \in Workers, NEW s \in Slots, Take(w, s) PROVE WorkerType'
  BY <1>0, <1>3 DEF Take
<1>4. ASSUME NEW w \in Workers, NEW k \in 0 .. MaxKids, Execute(w, k) PROVE WorkerType'
  <2> DEFINE at == IF k = 0 THEN "leave" ELSE "spawn"
  <2>1. worker' = [worker EXCEPT ![w].at = at, ![w].left = k] /\ at \in WorkerAt
    BY <1>4 DEF Execute
  <2> HIDE DEF at
  <2> QED
    BY <1>0, <2>1
<1>5. ASSUME NEW w \in Workers, Spawn(w) PROVE WorkerType'
  <2> DEFINE at == IF worker[w].left = 1 THEN "leave" ELSE worker[w].at
             left == worker[w].left - 1
  <2>1. worker[w].left > 0
    BY <1>5 DEF Spawn, SInv, WorkerInv, StageInv
  <2>2. at \in WorkerAt /\ left \in 0 .. MaxKids
    BY <1>0, <2>1
  <2>3. worker' = [worker EXCEPT ![w].left = left, ![w].at = at]
    BY <1>0, <1>5 DEF Spawn
  <2> HIDE DEF at, left
  <2> QED
    BY <1>0, <2>2, <2>3
<1>6. CASE UNCHANGED worker
  BY <1>0, <1>6
<1>7. ASSUME NEW w \in Workers, Works(w) PROVE WorkerType'
  BY <1>1, <1>2, <1>3, <1>4, <1>5, <1>6, <1>7
  DEF Works, Leave, CompleteJob, NotifyConsumer, ReturnReady, IssueReady, FinishIssue,
      MarkCompleted, NotifyWaiters, SetCompletedBit, WorkerPush, WorkerRelease,
      threadVars
<1> QED
  BY <1>6, <1>7
  DEF SchedNext, Owns, AcquireCall, AcquireCount, AcquireLoad, AcquireNext,
      AcquireExchange, AcquireInit, AcquireOpen, AddDependencyPin,
      AddDependencyRegister, AddDependencyPublish, AddDependencyUnpin, OwnerPush,
      OwnerRelease, Submit, SubmitEnqueue, threadVars, Waits, WaitSteps, WaitCall,
      WaitLoadGen, WaitLoadLifecycle, WaitSleep, WaitReturn, vars

(* The waiter's locals.                                                    *)
LEMMA WaiterTypeStep ==
    ASSUME SInv, [SchedNext]_vars
    PROVE  WaiterType'
<1> USE DEF WaiterType
<1>0. WaiterType
  BY DEF SInv, Types
<1>1. ASSUME NEW s \in Slots, NEW g \in 1 .. MaxGen, WaitCall(s, g) PROVE WaiterType'
  BY <1>1 DEF WaitCall
<1>2. CASE WaitLoadGen
  BY <1>0, <1>2 DEF WaitLoadGen, SInv, WaiterInv, SeenInv, Types, SlotTypes
<1>3. CASE WaitLoadLifecycle \/ WaitSleep \/ WaitReturn
  BY <1>0, <1>3 DEF WaitLoadLifecycle, WaitSleep, WaitReturn
<1>4. ASSUME NEW w \in Workers, NotifyWaiters(w) PROVE WaiterType'
  BY <1>0, <1>4 DEF NotifyWaiters, WakeAll
<1>5. CASE UNCHANGED waiter
  BY <1>0, <1>5
<1> QED
  BY <1>1, <1>2, <1>3, <1>4, <1>5
  DEF SchedNext, Owns, AcquireCall, AcquireCount, AcquireLoad, AcquireNext,
      AcquireExchange, AcquireInit, AcquireOpen, AddDependencyPin,
      AddDependencyRegister, AddDependencyPublish, AddDependencyUnpin, OwnerPush,
      OwnerRelease, Submit, SubmitEnqueue, Works, Take, Execute, Spawn,
      Leave, CompleteJob, NotifyConsumer, ReturnReady, IssueReady, FinishIssue,
      MarkCompleted, SetCompletedBit, WorkerPush, WorkerRelease,
      threadVars, Waits, WaitSteps, vars

(* All types together.                                                     *)
LEMMA TypesStep ==
    ASSUME SInv, [SchedNext]_vars
    PROVE  Types'
BY SlotTypesStep, FreeTypesStep, JobTypesStep, OwnerTypeStep, WorkerTypeStep,
   WaiterTypeStep
DEF Types

(* Only a committed job is ever made ready by a finished source.           *)
LEMMA NotifiedJobWaits ==
    ASSUME SInv, NEW s \in Slots, NEW n \in Node, Notify(s, n)
    PROVE  /\ Consumer(n) \in Slots
           /\ phase[Consumer(n)] \in {"open", "waiting"}
           /\ IsReady(pending[Consumer(n)]) => phase[Consumer(n)] = "waiting"
<1> DEFINE c == Consumer(n)
<1>1. c \in Slots /\ n \in walk[s] /\ phase[c] \in {"open", "waiting"}
  BY NodeFacts DEF SInv, IInv, ListInv, Notify
<1>2. n \in Outstanding(c)
  BY <1>1 DEF Outstanding
<1>3. Cardinality(Outstanding(c)) \in Nat \ {0}
  BY <1>2, NoneLeft, OutstandingFinite
<1>4. pending[c] = Gate(c) + Cardinality(Outstanding(c))
  BY <1>1 DEF SInv, IInv, PendingExact
<1> QED
  BY <1>1, <1>3, <1>4 DEF Gate, IsReady

(* A job that its submitter has still to enqueue is not running.           *)
LEMMA TakenIsEnqueued ==
    ASSUME SInv, NEW s \in Slots, pool[s] > 0
    PROVE  /\ ~Enqueues(s)
           /\ live[s] > 0
           /\ phase[s] \in {"issued", "running"}
<1>1. live[s] = pool[s] + Cardinality(Invokers(s)) + Cardinality(ToSpawn(s))
  BY DEF SInv, LiveExact
<1>2. live[s] > 0
  BY <1>1, CountedSetsFinite DEF SInv, Types, JobTypes
<1>3. /\ phase[s] \notin {"issued", "running"} => live[s] = 0
      /\ phase[s] = "issued" => live[s] = IF Enqueues(s) THEN 0 ELSE 1
  BY DEF SInv, CallInv
<1>4. Enqueues(s) => phase[s] = "issued"
  BY DEF SInv, OwnerInv, Enqueues
<1> QED
  BY <1>2, <1>3, <1>4

(* OwnerInv: the job that submit() has still to enqueue stays issued,      *)
(* because nobody else can take it, notify it or issue it.                 *)
LEMMA OwnerStep ==
    ASSUME SInv, [SchedNext]_vars
    PROVE  OwnerInv'
<1> USE DEF OwnerInv
<1>0. OwnerInv /\ OwnerType
  BY DEF SInv, Types
<1>1. CASE AcquireCall \/ AcquireCount \/ AcquireLoad \/ AcquireNext
  BY <1>0, <1>1 DEF AcquireCall, AcquireCount, AcquireLoad, AcquireNext, OwnerGoes,
                    OwnerType, boardVars, Registering
<1>2. CASE AcquireExchange
  <2>1. owner.slot \in Slots
    BY <1>2, ReachClosed DEF AcquireExchange, SInv, FreeInv, FreeList
  <2> QED
    BY <1>0, <1>2, <2>1 DEF AcquireExchange, OwnerType, boardVars, Registering
<1>3. CASE AcquireInit \/ AcquireOpen \/ AddDependencyUnpin \/ OwnerPush \/ OwnerRelease
  BY <1>0, <1>3
  DEF AcquireInit, AcquireOpen, AddDependencyUnpin, OwnerPush, OwnerRelease,
      OwnerGoes, OwnerIdle, Reset, OwnerType, boardVars, Registering
<1>4. ASSUME NEW c \in Slots, NEW s \in Slots, NEW g \in 1 .. MaxGen,
             AddDependencyPin(c, s, g)
      PROVE  OwnerInv'
  BY <1>0, <1>4 DEF AddDependencyPin, boardVars, Registering
<1>5. CASE AddDependencyRegister
  BY <1>0, <1>5 DEF AddDependencyRegister, Register, OwnerGoes, OwnerType, Registering
<1>6. CASE AddDependencyPublish
  BY <1>0, <1>6
  DEF AddDependencyPublish, Publish, OwnerGoes, OwnerType, Registering, SInv, IInv, TypeOK
<1>7. ASSUME NEW c \in Slots, Submit(c) PROVE OwnerInv'
  BY <1>0, <1>7 DEF Submit, Commit, OwnerType, Registering, SInv, IInv, TypeOK
<1>8. CASE SubmitEnqueue
  BY <1>0, <1>8 DEF SubmitEnqueue, OwnerIdle, boardVars, Registering
<1>9. ASSUME NEW w \in Workers, Works(w) PROVE OwnerInv'
  <2>1. owner' = owner /\ reg' = reg
    BY <1>9
    DEF Works, Take, Execute, Spawn, Leave, CompleteJob, NotifyConsumer, ReturnReady,
        IssueReady, FinishIssue, MarkCompleted, NotifyWaiters, SetCompletedBit,
        WorkerPush, WorkerRelease, threadVars, boardVars, Run, Complete, Notify,
        Return, Issue, Finish
  <2> SUFFICES ASSUME owner.at = "enqueue", phase[owner.slot] = "issued"
               PROVE  phase'[owner.slot] = "issued"
    BY <1>0, <2>1 DEF Registering
  <2>2. phase \in [Slots -> Phases] /\ owner.slot \in Slots
    BY <1>0 DEF SInv, IInv, TypeOK
  <2>3. ASSUME NEW s \in Slots, Take(w, s) PROVE phase'[owner.slot] = "issued"
    <3>1. ~Enqueues(s)
      BY <2>3, TakenIsEnqueued DEF Take
    <3>2. owner.slot # s
      BY <3>1 DEF Enqueues
    <3> QED
      BY <2>2, <2>3, <3>2 DEF Take, Run, boardVars
  <2>4. ASSUME NEW n \in Node, NotifyConsumer(w, n) PROVE phase'[owner.slot] = "issued"
    <3>1. worker[w].slot \in Slots
      BY <2>4 DEF NotifyConsumer, SInv, WorkerInv, StageInv
    <3> QED
      BY <2>2, <2>4, <3>1, NotifiedJobWaits DEF NotifyConsumer, Notify
  <2>5. ASSUME NEW n \in Node, IssueReady(w, n) PROVE phase'[owner.slot] = "issued"
    BY <2>2, <2>5 DEF IssueReady, Issue
  <2> QED
    BY <1>9, <2>2, <2>3, <2>4, <2>5
    DEF Works, Execute, Spawn, Leave, CompleteJob, ReturnReady, FinishIssue,
        MarkCompleted, NotifyWaiters, SetCompletedBit, WorkerPush, WorkerRelease,
        boardVars, Complete, Return, Finish
<1>10. CASE UNCHANGED <<boardVars, owner>>
  BY <1>0, <1>10 DEF boardVars, Registering
<1> QED
  BY <1>1, <1>2, <1>3, <1>4, <1>5, <1>6, <1>7, <1>8, <1>9, <1>10
  DEF SchedNext, Owns, Waits, WaitSteps, WaitCall, WaitLoadGen, WaitLoadLifecycle,
      WaitSleep, WaitReturn, vars, threadVars

(* PinInv: try_pin() and unpin() are the owner's own.                      *)
LEMMA PinStep ==
    ASSUME SInv, [SchedNext]_vars
    PROVE  PinInv'
<1> USE DEF PinInv, Pins
<1>0. PinInv /\ OwnerType /\ SlotTypes
  BY DEF SInv, Types
<1>1. ASSUME NEW c \in Slots, NEW s \in Slots, NEW g \in 1 .. MaxGen,
             AddDependencyPin(c, s, g)
      PROVE  PinInv'
  BY <1>0, <1>1 DEF AddDependencyPin, SlotTypes
<1>2. CASE AddDependencyUnpin
  BY <1>0, <1>2 DEF AddDependencyUnpin, OwnerGoes, OwnerIdle, SlotTypes, OwnerType
<1>3. CASE AcquireOpen
  BY <1>0, <1>3 DEF AcquireOpen, OwnerIdle, SlotTypes
<1>4. ASSUME Owns, UNCHANGED slotVars PROVE PinInv'
  <2>1. CASE AcquireCall \/ AcquireCount \/ AcquireLoad \/ AcquireNext \/ AcquireInit
    BY <1>0, <1>4, <2>1
    DEF slotVars, OwnerType, OwnerGoes, AcquireCall, AcquireCount, AcquireLoad,
        AcquireNext, AcquireInit
  <2>2. CASE AcquireExchange
    BY <1>0, <1>4, <2>2 DEF slotVars, OwnerType, AcquireExchange
  <2>3. CASE AddDependencyRegister \/ AddDependencyPublish
    BY <1>0, <1>4, <2>3
    DEF slotVars, OwnerType, OwnerGoes, AddDependencyRegister, AddDependencyPublish
  <2>4. CASE OwnerPush \/ OwnerRelease \/ SubmitEnqueue
    BY <1>0, <1>4, <2>4
    DEF slotVars, OwnerType, OwnerGoes, OwnerIdle, OwnerPush, OwnerRelease, SubmitEnqueue
  <2>5. ASSUME NEW c \in Slots, Submit(c) PROVE PinInv'
    BY <1>0, <1>4, <2>5 DEF slotVars, OwnerType, Submit
  <2> QED
    BY <1>1, <1>2, <1>3, <1>4, <2>1, <2>2, <2>3, <2>4, <2>5 DEF Owns
<1>5. ASSUME NEW w \in Workers, SetCompletedBit(w) PROVE PinInv'
  BY <1>0, <1>5 DEF SetCompletedBit, SlotTypes
<1>6. CASE UNCHANGED <<lifecycle, owner>>
  BY <1>0, <1>6
<1> QED
  BY <1>1, <1>2, <1>3, <1>4, <1>5, <1>6
  DEF SchedNext, Owns, AcquireCall, AcquireCount, AcquireLoad, AcquireNext,
      AcquireExchange, AcquireInit, AddDependencyRegister, AddDependencyPublish,
      OwnerPush, OwnerRelease, Submit, SubmitEnqueue, Works, Take, Execute, Spawn,
      Leave, CompleteJob, NotifyConsumer, ReturnReady, IssueReady, FinishIssue,
      MarkCompleted, NotifyWaiters, WorkerPush, WorkerRelease, Waits, WaitSteps,
      WaitCall, WaitLoadGen, WaitLoadLifecycle, WaitSleep, WaitReturn, vars,
      slotVars, threadVars

(* LifeInv: acquire() starts the next generation of a slot after the reset *)
(* of its scoreboard, and only the completion of its job sets the bit.     *)
LEMMA LifeStep ==
    ASSUME SInv, [SchedNext]_vars
    PROVE  LifeInv'
<1> USE DEF LifeInv, Opens
<1>0. /\ LifeInv /\ OwnerInv /\ OwnerType /\ SlotTypes
      /\ phase \in [Slots -> Phases] /\ gen \in [Slots -> 0 .. MaxGen]
  BY DEF SInv, Types, IInv, TypeOK
<1>a. SlotTypes'
  BY SlotTypesStep
<1>1. CASE AcquireInit
  <2> DEFINE t == owner.slot
  <2>1. t \in Slots /\ owner.at = "init"
    BY <1>0, <1>1 DEF AcquireInit, OwnerInv
  <2>2. lifecycle[t].done
    BY <2>1 DEF SInv, PlaceInv, Takes, InUse
  <2>3. /\ owner' = [owner EXCEPT !.at = "open"] /\ lifecycle' = lifecycle
        /\ phase' = [phase EXCEPT ![t] = "open"]
        /\ gen' = [gen EXCEPT ![t] = @ + 1]
    BY <1>1 DEF AcquireInit, Reset, OwnerGoes, slotVars
  <2> HIDE DEF t
  <2>4. owner'.at = "open" /\ owner'.slot = t
    BY <1>0, <2>3 DEF OwnerType, t
  <2> QED
    BY <1>0, <2>1, <2>2, <2>3, <2>4 DEF SlotTypes
<1>2. CASE AcquireOpen
  <2> DEFINE t == owner.slot
  <2>1. t \in Slots /\ owner.at = "open" /\ owner'.at = "idle"
    BY <1>0, <1>2 DEF AcquireOpen, OwnerInv, OwnerIdle
  <2>2. /\ lifecycle' = [lifecycle EXCEPT ![t] =
                           [gen |-> @.gen + 1, done |-> FALSE, pins |-> 0]]
        /\ UNCHANGED <<phase, gen>>
    BY <1>2 DEF AcquireOpen, boardVars
  <2>3. /\ lifecycle'[t].gen = lifecycle[t].gen + 1
        /\ ~lifecycle'[t].done
        /\ \A s \in Slots \ {t} : lifecycle'[s] = lifecycle[s]
    BY <1>0, <2>1, <2>2 DEF SlotTypes
  <2>4. /\ gen[t] = lifecycle[t].gen + 1 /\ phase[t] = "open"
        /\ \A s \in Slots \ {t} : ~Opens(s) /\ ~Opens(s)'
        /\ ~Opens(t)'
    BY <1>0, <2>1
  <2> SUFFICES ASSUME NEW s \in Slots
               PROVE  /\ gen[s] = lifecycle'[s].gen
                      /\ gen[s] = 0 <=> phase[s] = "idle"
                      /\ lifecycle'[s].done => phase[s] \in {"idle", "done"}
                      /\ ~lifecycle'[s].done => phase[s] # "idle"
    BY <1>a, <2>1, <2>2 DEF SlotTypes
  <2>5. CASE s = t
    BY <1>0, <2>3, <2>4, <2>5 DEF SlotTypes
  <2>6. CASE s # t
    <3>1. gen[s] = lifecycle[s].gen
      BY <1>0, <2>4, <2>6 DEF SlotTypes
    <3> QED
      BY <1>0, <2>3, <2>4, <2>6, <3>1
  <2> QED
    BY <2>5, <2>6
<1>3. ASSUME NEW c \in Slots, Submit(c) PROVE LifeInv'
  <2>1. /\ phase[c] = "open" /\ owner.at = "idle" /\ owner'.at # "open"
        /\ phase' = [phase EXCEPT ![c] =
                       IF IsReady(pending[c]) THEN "issued" ELSE "waiting"]
        /\ UNCHANGED <<gen, lifecycle>>
    BY <1>3 DEF Submit, Commit, slotVars
  <2> QED
    BY <1>0, <2>1
<1>4. ASSUME Owns, UNCHANGED <<phase, gen>>, ~AcquireInit, ~AcquireOpen
      PROVE  LifeInv'
  <2>1. owner.at # "open" /\ owner'.at # "open"
    <3>1. CASE AcquireCall \/ AcquireCount \/ AcquireLoad \/ AcquireNext \/ AcquireExchange
      BY <1>0, <3>1
      DEF AcquireCall, AcquireCount, AcquireLoad, AcquireNext, AcquireExchange,
          OwnerGoes, OwnerType
    <3>2. CASE AddDependencyRegister \/ AddDependencyPublish \/ AddDependencyUnpin
      BY <1>0, <3>2
      DEF AddDependencyRegister, AddDependencyPublish, AddDependencyUnpin, OwnerGoes,
          OwnerIdle, OwnerType
    <3>3. CASE OwnerPush \/ OwnerRelease \/ SubmitEnqueue
      BY <1>0, <3>3 DEF OwnerPush, OwnerRelease, SubmitEnqueue, OwnerGoes, OwnerIdle, OwnerType
    <3> QED
      BY <1>4, <3>1, <3>2, <3>3 DEF Owns, AddDependencyPin, Submit
  <2>2. \A s \in Slots : /\ lifecycle'[s].gen = lifecycle[s].gen
                         /\ lifecycle'[s].done <=> lifecycle[s].done
    <3>1. ASSUME NEW c \in Slots, NEW s \in Slots, NEW g \in 1 .. MaxGen,
                 AddDependencyPin(c, s, g)
          PROVE  \E u \in Slots, k \in Nat : lifecycle' = [lifecycle EXCEPT ![u].pins = k]
      <4>1. lifecycle[s].pins + 1 \in Nat
        BY <1>0 DEF SlotTypes
      <4> QED
        BY <3>1, <4>1 DEF AddDependencyPin
    <3>2. ASSUME AddDependencyUnpin
          PROVE  \E u \in Slots, k \in Nat : lifecycle' = [lifecycle EXCEPT ![u].pins = k]
      <4>1. owner.other \in Slots /\ lifecycle[owner.other].pins = 1
        BY <1>0, <3>2 DEF AddDependencyUnpin, OwnerInv, SInv, PinInv, Pins
      <4>2. lifecycle' = [lifecycle EXCEPT ![owner.other].pins = 0]
        BY <3>2, <4>1 DEF AddDependencyUnpin
      <4> QED
        BY <4>1, <4>2
    <3>3. ASSUME NEW u \in Slots, NEW k \in Nat, lifecycle' = [lifecycle EXCEPT ![u].pins = k],
                 NEW s \in Slots
          PROVE  /\ lifecycle'[s].gen = lifecycle[s].gen
                 /\ lifecycle'[s].done <=> lifecycle[s].done
      BY <1>0, <3>3 DEF SlotTypes
    <3>4. CASE UNCHANGED lifecycle
      BY <3>4
    <3> QED
      BY <1>4, <3>1, <3>2, <3>3, <3>4
      DEF Owns, AcquireCall, AcquireCount, AcquireLoad, AcquireNext, AcquireExchange,
          AddDependencyRegister, AddDependencyPublish, OwnerPush, OwnerRelease, Submit,
          SubmitEnqueue, slotVars
  <2> QED
    BY <1>0, <1>4, <2>1, <2>2
<1>5. ASSUME NEW w \in Workers, Works(w) PROVE LifeInv'
  <2> DEFINE t == worker[w].slot
  <2>0. worker[w].at # "idle" => t \in Slots
    BY DEF SInv, WorkerInv, StageInv
  <2>1. owner' = owner /\ gen' = gen
    BY <1>5
    DEF Works, Take, Execute, Spawn, Leave, CompleteJob, NotifyConsumer, ReturnReady,
        IssueReady, FinishIssue, MarkCompleted, NotifyWaiters, SetCompletedBit,
        WorkerPush, WorkerRelease, threadVars, boardVars, Run, Complete, Notify,
        Return, Issue, Finish
  <2>2. ASSUME NEW c \in Slots, phase[c] \notin {"idle", "open", "done"},
               NEW p \in Phases \ {"idle"}, phase' = [phase EXCEPT ![c] = p],
               UNCHANGED lifecycle
        PROVE  LifeInv'
    BY <1>0, <2>1, <2>2
  <2>3. ASSUME NEW s \in Slots, Take(w, s) PROVE LifeInv'
    <3>1. CASE phase[s] = "issued"
      BY <2>2, <2>3, <3>1 DEF Take, Run, slotVars, Phases
    <3>2. CASE phase[s] = "running"
      BY <1>0, <2>1, <2>3, <3>2 DEF Take, slotVars, boardVars
    <3> QED
      BY <2>3, <3>1, <3>2 DEF Take, Run
  <2>4. CASE CompleteJob(w) \/ ReturnReady(w) \/ FinishIssue(w)
    BY <2>0, <2>2, <2>4
    DEF CompleteJob, ReturnReady, FinishIssue, Complete, Return, Finish, slotVars, Phases
  <2>5. ASSUME NEW n \in Node, NotifyConsumer(w, n) PROVE LifeInv'
    <3>1. /\ Consumer(n) \in Slots
          /\ IsReady(pending[Consumer(n)]) => phase[Consumer(n)] = "waiting"
      BY <2>0, <2>5, NotifiedJobWaits DEF NotifyConsumer
    <3>2. CASE IsReady(pending[Consumer(n)])
      BY <2>2, <2>5, <3>1, <3>2 DEF NotifyConsumer, Notify, slotVars, Phases
    <3>3. CASE ~IsReady(pending[Consumer(n)])
      BY <1>0, <2>1, <2>5, <3>3 DEF NotifyConsumer, Notify, slotVars
    <3> QED
      BY <3>2, <3>3
  <2>6. ASSUME NEW n \in Node, IssueReady(w, n) PROVE LifeInv'
    <3>1. Consumer(n) \in Slots /\ phase[Consumer(n)] = "ready"
      BY <2>0, <2>6, NodeFacts DEF IssueReady, Issue, SInv, IInv, ReadyInv
    <3> QED
      BY <2>2, <2>6, <3>1 DEF IssueReady, Issue, slotVars, Phases
  <2>7. CASE SetCompletedBit(w)
    <3>1. t \in Slots /\ phase[t] = "done"
      BY <2>0, <2>7 DEF SetCompletedBit, SInv, WorkerInv, StageInv
    <3>2. /\ lifecycle' = [lifecycle EXCEPT ![t].done = TRUE]
          /\ phase' = phase
      BY <2>7 DEF SetCompletedBit, boardVars
    <3> HIDE DEF t
    <3>3. \A s \in Slots \ {t} : lifecycle'[s] = lifecycle[s]
      BY <1>0, <3>1, <3>2 DEF SlotTypes
    <3>4. lifecycle'[t].done /\ lifecycle'[t].gen = lifecycle[t].gen
      BY <1>0, <3>1, <3>2 DEF SlotTypes
    <3> QED
      BY <1>0, <2>1, <3>1, <3>2, <3>3, <3>4
  <2>8. CASE UNCHANGED <<phase, lifecycle>>
    BY <1>0, <2>1, <2>8
  <2> QED
    BY <1>5, <2>3, <2>4, <2>5, <2>6, <2>7, <2>8
    DEF Works, Execute, Spawn, Leave, MarkCompleted, NotifyWaiters, WorkerPush,
        WorkerRelease, boardVars, slotVars
<1>6. CASE Waits \/ UNCHANGED vars
  BY <1>0, <1>6
  DEF Waits, WaitSteps, WaitCall, WaitLoadGen, WaitLoadLifecycle, WaitSleep,
      WaitReturn, vars, boardVars, slotVars, threadVars
<1>7. Owns => \/ AcquireInit \/ AcquireOpen \/ (\E c \in Slots : Submit(c))
              \/ UNCHANGED <<phase, gen>>
  BY DEF Owns, AcquireCall, AcquireCount, AcquireLoad, AcquireNext, AcquireExchange,
         AddDependencyPin, AddDependencyRegister, Register, AddDependencyPublish,
         Publish, AddDependencyUnpin, OwnerPush, OwnerRelease, SubmitEnqueue, boardVars
<1> QED
  BY <1>1, <1>2, <1>3, <1>4, <1>5, <1>6, <1>7 DEF SchedNext

(* Nothing changes for the workers when nobody disturbs the jobs they run  *)
(* or complete.                                                            *)
LEMMA WorkersUndisturbed ==
    ASSUME SInv, worker' = worker,
           \A s \in Slots :
              /\ phase[s] \in {"running", "walking", "issuing"} =>
                    phase'[s] = phase[s] /\ live'[s] = live[s]
              /\ phase[s] = "done" /\ ~lifecycle[s].done =>
                    phase'[s] = "done" /\ ~lifecycle'[s].done
    PROVE  WorkerInv'
<1>1. ASSUME NEW w \in Workers PROVE StageInv(w)'
  <2>1. StageInv(w)
    BY DEF SInv, WorkerInv
  <2>2. CASE worker[w].at = "idle"
    BY <2>1, <2>2 DEF StageInv
  <2>3. CASE worker[w].at # "idle"
    <3>1. worker[w].slot \in Slots
      BY <2>1, <2>3 DEF StageInv
    <3> QED
      BY <2>1, <3>1 DEF StageInv
  <2> QED
    BY <2>2, <2>3
<1>2. ASSUME NEW s \in Slots, NEW v \in Workers, NEW w \in Workers,
             Completing(v, s)', Completing(w, s)'
      PROVE  v = w
  BY <1>2 DEF SInv, WorkerInv, Completing
<1> QED
  BY <1>1, <1>2 DEF WorkerInv

(* A worker that moves on keeps its own stage true, and the others theirs, *)
(* if no other worker is at a stage of the job that is over now.           *)
LEMMA WorkerMoves ==
    ASSUME SInv, Types', NEW w \in Workers, NEW s \in Slots, worker[w].slot = s,
           \A v \in Workers \ {w} : worker'[v] = worker[v],
           worker'[w].slot = s \/ worker'[w].at = "idle",
           StageInv(w)',
           \A t \in Slots \ {s} : /\ phase'[t] = phase[t] /\ live'[t] = live[t]
                                  /\ lifecycle'[t] = lifecycle[t],
           \A v \in Workers \ {w} : worker[v].slot = s => StageInv(v)',
           \/ Completing(w, s)
           \/ ~Completing(w, s)'
           \/ \A v \in Workers \ {w} : ~Completing(v, s)
    PROVE  WorkerInv'
<1>1. ASSUME NEW v \in Workers PROVE StageInv(v)'
  <2>1. CASE v = w \/ worker[v].slot = s
    BY <2>1
  <2>2. CASE v # w /\ worker[v].slot # s
    <3>1. StageInv(v) /\ worker'[v] = worker[v]
      BY <2>2 DEF SInv, WorkerInv
    <3>2. CASE worker[v].at = "idle"
      BY <3>1, <3>2 DEF StageInv
    <3>3. CASE worker[v].at # "idle"
      <4>1. worker[v].slot \in Slots \ {s}
        BY <2>2, <3>1, <3>3 DEF StageInv
      <4> QED
        BY <3>1, <4>1 DEF StageInv
    <3> QED
      BY <3>2, <3>3
  <2> QED
    BY <2>1, <2>2
<1>2. ASSUME NEW t \in Slots, NEW u \in Workers, NEW v \in Workers,
             Completing(u, t)', Completing(v, t)'
      PROVE  u = v
  BY <1>2 DEF SInv, WorkerInv, Completing
<1> QED
  BY <1>1, <1>2 DEF WorkerInv

(* Where the workers are after one has moved.                              *)
LEMMA WorkerPlaces ==
    ASSUME WorkerType, NEW w \in Workers
    PROVE  /\ \A at : WorkerGoes(w, at) =>
                 /\ worker'[w].at = at
                 /\ worker'[w].slot = worker[w].slot /\ worker'[w].left = worker[w].left
                 /\ \A v \in Workers \ {w} : worker'[v] = worker[v]
           /\ WorkerIdle(w) =>
                 /\ worker'[w].at = "idle" /\ worker'[w].left = 0
                 /\ \A v \in Workers \ {w} : worker'[v] = worker[v]
           /\ \A k : Execute(w, k) =>
                 /\ worker'[w].at = IF k = 0 THEN "leave" ELSE "spawn"
                 /\ worker'[w].slot = worker[w].slot /\ worker'[w].left = k
                 /\ \A v \in Workers \ {w} : worker'[v] = worker[v]
           /\ Spawn(w) =>
                 /\ worker'[w].at = IF worker[w].left = 1 THEN "leave" ELSE "spawn"
                 /\ worker'[w].slot = worker[w].slot
                 /\ worker'[w].left = worker[w].left - 1
                 /\ \A v \in Workers \ {w} : worker'[v] = worker[v]
           /\ \A s : Take(w, s) =>
                 /\ worker'[w].at = "body" /\ worker'[w].slot = s /\ worker'[w].left = 0
                 /\ \A v \in Workers \ {w} : worker'[v] = worker[v]
<1> USE DEF WorkerType
<1>1. ASSUME NEW at, WorkerGoes(w, at)
      PROVE  /\ worker'[w].at = at
             /\ worker'[w].slot = worker[w].slot /\ worker'[w].left = worker[w].left
             /\ \A v \in Workers \ {w} : worker'[v] = worker[v]
  BY <1>1 DEF WorkerGoes
<1>2. ASSUME WorkerIdle(w)
      PROVE  /\ worker'[w].at = "idle" /\ worker'[w].left = 0
             /\ \A v \in Workers \ {w} : worker'[v] = worker[v]
  BY <1>2 DEF WorkerIdle
<1>3. ASSUME NEW k, Execute(w, k)
      PROVE  /\ worker'[w].at = IF k = 0 THEN "leave" ELSE "spawn"
             /\ worker'[w].slot = worker[w].slot /\ worker'[w].left = k
             /\ \A v \in Workers \ {w} : worker'[v] = worker[v]
  BY <1>3 DEF Execute
<1>4. ASSUME Spawn(w)
      PROVE  /\ worker'[w].at = IF worker[w].left = 1 THEN "leave" ELSE "spawn"
             /\ worker'[w].slot = worker[w].slot
             /\ worker'[w].left = worker[w].left - 1
             /\ \A v \in Workers \ {w} : worker'[v] = worker[v]
  BY <1>4 DEF Spawn
<1>5. ASSUME NEW s, Take(w, s)
      PROVE  /\ worker'[w].at = "body" /\ worker'[w].slot = s /\ worker'[w].left = 0
             /\ \A v \in Workers \ {w} : worker'[v] = worker[v]
  BY <1>5 DEF Take
<1> QED
  BY <1>1, <1>2, <1>3, <1>4, <1>5

(* WorkerInv: nobody else moves the job that a worker is running or        *)
(* completing, and only the last invocation to return completes it.        *)
LEMMA WorkerStep ==
    ASSUME SInv, [SchedNext]_vars
    PROVE  WorkerInv'
<1>0. /\ WorkerInv /\ OwnerInv /\ OwnerType /\ SlotTypes /\ WorkerType /\ JobTypes
      /\ phase \in [Slots -> Phases]
  BY DEF SInv, Types, IInv, TypeOK
<1>a. Types'
  BY TypesStep
<1>1. ASSUME Owns PROVE WorkerInv'
  <2>1. worker' = worker
    BY <1>1
    DEF Owns, AcquireCall, AcquireCount, AcquireLoad, AcquireNext, AcquireExchange,
        AcquireInit, AcquireOpen, AddDependencyPin, AddDependencyRegister,
        AddDependencyPublish, AddDependencyUnpin, OwnerPush, OwnerRelease, Submit,
        SubmitEnqueue
  <2>2. CASE AcquireInit
    <3>1. owner.slot \in Slots /\ owner.at = "init"
      BY <1>0, <2>2 DEF AcquireInit, OwnerInv
    <3>2. lifecycle[owner.slot].done /\ phase[owner.slot] \in {"idle", "done"}
      BY <2>2, <3>1 DEF SInv, PlaceInv, Takes, InUse, AcquireInit, Reset, MayReset
    <3>3. /\ lifecycle' = lifecycle
          /\ \A s \in Slots \ {owner.slot} : phase'[s] = phase[s] /\ live'[s] = live[s]
      BY <1>0, <2>2, <3>1 DEF AcquireInit, Reset, slotVars, JobTypes
    <3> QED
      BY <2>1, <3>1, <3>2, <3>3, WorkersUndisturbed
  <2>3. CASE AcquireOpen
    <3>1. owner.slot \in Slots /\ phase[owner.slot] = "open"
      BY <1>0, <2>3 DEF AcquireOpen, OwnerInv, SInv, LifeInv, Opens
    <3>2. /\ phase' = phase /\ live' = live
          /\ \A s \in Slots \ {owner.slot} : lifecycle'[s] = lifecycle[s]
      BY <1>0, <2>3, <3>1 DEF AcquireOpen, boardVars, jobVars, SlotTypes
    <3> QED
      BY <2>1, <3>1, <3>2, WorkersUndisturbed
  <2>4. ASSUME NEW c \in Slots, NEW s \in Slots, NEW g \in 1 .. MaxGen,
               AddDependencyPin(c, s, g)
        PROVE  WorkerInv'
    <3>1. /\ phase' = phase /\ live' = live
          /\ \A t \in Slots \ {s} : lifecycle'[t] = lifecycle[t]
          /\ ~lifecycle'[s].done
      BY <1>0, <2>4 DEF AddDependencyPin, boardVars, jobVars, SlotTypes, Pinnable
    <3> QED
      BY <2>1, <3>1, WorkersUndisturbed
  <2>5. CASE AddDependencyUnpin
    <3>1. owner.other \in Slots
      BY <1>0, <2>5 DEF AddDependencyUnpin, OwnerInv
    <3>2. /\ phase' = phase /\ live' = live
          /\ \A s \in Slots \ {owner.other} : lifecycle'[s] = lifecycle[s]
      BY <1>0, <2>5, <3>1 DEF AddDependencyUnpin, boardVars, jobVars, SlotTypes
    <3>3. ~lifecycle[owner.other].done => ~lifecycle'[owner.other].done
      BY <1>0, <2>5, <3>1 DEF AddDependencyUnpin, SlotTypes
    <3> QED
      BY <2>1, <3>1, <3>2, <3>3, WorkersUndisturbed
  <2>6. ASSUME NEW c \in Slots, Submit(c) PROVE WorkerInv'
    <3>1. /\ phase[c] = "open" /\ lifecycle' = lifecycle /\ live' = live
          /\ \A s \in Slots \ {c} : phase'[s] = phase[s]
      BY <1>0, <2>6 DEF Submit, Commit, slotVars
    <3> QED
      BY <2>1, <3>1, WorkersUndisturbed
  <2>7. CASE SubmitEnqueue
    <3>1. owner.slot \in Slots /\ phase[owner.slot] = "issued"
      BY <1>0, <2>7 DEF SubmitEnqueue, OwnerInv
    <3>2. /\ phase' = phase /\ lifecycle' = lifecycle
          /\ \A s \in Slots \ {owner.slot} : live'[s] = live[s]
      BY <1>0, <2>7, <3>1 DEF SubmitEnqueue, Enqueue, boardVars, slotVars, JobTypes
    <3> QED
      BY <2>1, <3>1, <3>2, WorkersUndisturbed
  <2>8. CASE UNCHANGED <<phase, lifecycle, live>>
    BY <2>1, <2>8, WorkersUndisturbed
  <2> QED
    BY <1>1, <2>2, <2>3, <2>4, <2>5, <2>6, <2>7, <2>8
    DEF Owns, AcquireCall, AcquireCount, AcquireLoad, AcquireNext, AcquireExchange,
        AddDependencyRegister, Register, AddDependencyPublish, Publish, OwnerPush,
        OwnerRelease, boardVars, slotVars, jobVars
<1>2. CASE Waits \/ UNCHANGED vars
  <2>1. UNCHANGED <<phase, lifecycle, live, worker>>
    BY <1>2
    DEF Waits, WaitSteps, WaitCall, WaitLoadGen, WaitLoadLifecycle, WaitSleep,
        WaitReturn, vars, boardVars, slotVars, jobVars, threadVars
  <2> QED
    BY <2>1, WorkersUndisturbed
<1>3. ASSUME NEW w \in Workers, Works(w) PROVE WorkerInv'
  <2> DEFINE s == worker[w].slot
  <2>0. /\ StageInv(w)
        /\ worker[w].at # "idle" => s \in Slots
    BY <1>0 DEF WorkerInv, StageInv
  <2>a. \A v \in Workers : s \in Slots /\ Invoking(v, s) => live[s] > 0
    BY InvokerIsCounted
  <2>1. ASSUME NEW t \in Slots, Take(w, t) PROVE WorkerInv'
    <3>0. /\ worker'[w].at = "body" /\ worker'[w].slot = t /\ worker'[w].left = 0
          /\ \A v \in Workers \ {w} : worker'[v] = worker[v]
      BY <1>0, <2>1, WorkerPlaces
    <3>1. /\ UNCHANGED <<live, lifecycle>>
          /\ \/ phase[t] = "running" /\ phase' = phase
             \/ phase[t] = "issued" /\ phase' = [phase EXCEPT ![t] = "running"]
      BY <2>1 DEF Take, Run, boardVars, slotVars
    <3>2. ASSUME NEW v \in Workers PROVE StageInv(v)'
      <4>1. CASE v = w
        BY <1>0, <3>0, <3>1, <4>1 DEF StageInv
      <4>2. CASE v # w
        <5>1. StageInv(v) /\ worker'[v] = worker[v]
          BY <1>0, <3>0, <4>2 DEF WorkerInv
        <5>2. CASE worker[v].at = "idle"
          BY <5>1, <5>2 DEF StageInv
        <5>3. CASE worker[v].at # "idle"
          BY <1>0, <3>1, <5>1, <5>3 DEF StageInv
        <5> QED
          BY <5>2, <5>3
      <4> QED
        BY <4>1, <4>2
    <3>3. ASSUME NEW u \in Slots, NEW v \in Workers, NEW x \in Workers,
                 Completing(v, u)', Completing(x, u)'
          PROVE  v = x
      BY <1>0, <3>0, <3>3 DEF WorkerInv, Completing
    <3> QED
      BY <3>2, <3>3 DEF WorkerInv
  <2>2. ASSUME NEW n \in Node, NotifyConsumer(w, n) PROVE WorkerInv'
    <3>1. /\ Consumer(n) \in Slots
          /\ IsReady(pending[Consumer(n)]) => phase[Consumer(n)] = "waiting"
      BY <2>0, <2>2, NotifiedJobWaits DEF NotifyConsumer
    <3>2. /\ UNCHANGED <<worker, lifecycle, live>>
          /\ \A t \in Slots : phase[t] # "waiting" => phase'[t] = phase[t]
      BY <1>0, <2>2, <3>1
      DEF NotifyConsumer, Notify, slotVars, jobVars, threadVars
    <3> QED
      BY <3>2, WorkersUndisturbed
  <2>3. ASSUME NEW n \in Node, IssueReady(w, n) PROVE WorkerInv'
    <3>1. Consumer(n) \in Slots /\ phase[Consumer(n)] = "ready"
      BY <2>0, <2>3, NodeFacts DEF IssueReady, Issue, SInv, IInv, ReadyInv
    <3>2. /\ UNCHANGED <<worker, lifecycle>>
          /\ \A t \in Slots : phase[t] # "ready" => phase'[t] = phase[t] /\ live'[t] = live[t]
      BY <1>0, <2>3, <3>1
      DEF IssueReady, Issue, Enqueue, slotVars, threadVars, JobTypes
    <3> QED
      BY <3>2, WorkersUndisturbed
  <2>4. ASSUME NEW k \in 0 .. MaxKids, Execute(w, k) PROVE WorkerInv'
    <3>1. s \in Slots /\ Invoking(w, s) /\ worker[w].at = "body" /\ phase[s] = "running"
      BY <2>0, <2>4 DEF Execute, StageInv, Invoking
    <3>2. /\ UNCHANGED <<phase, lifecycle>>
          /\ \A t \in Slots \ {s} : live'[t] = live[t]
      BY <1>0, <2>4 DEF Execute, boardVars, slotVars, JobTypes
    <3>3. /\ worker'[w].at = IF k = 0 THEN "leave" ELSE "spawn"
          /\ worker'[w].slot = s /\ worker'[w].left = k
          /\ \A v \in Workers \ {w} : worker'[v] = worker[v]
      BY <1>0, <2>4, WorkerPlaces
    <3>4. StageInv(w)' /\ ~Completing(w, s)'
      BY <3>1, <3>2, <3>3 DEF StageInv, Completing
    <3>5. ASSUME NEW v \in Workers \ {w}, worker[v].slot = s PROVE StageInv(v)'
      BY <1>0, <2>a, <3>1, <3>2, <3>3, <3>5 DEF WorkerInv, StageInv
    <3> QED
      BY <1>a, <3>1, <3>2, <3>3, <3>4, <3>5, WorkerMoves
  <2>5. CASE Spawn(w)
    <3>1. s \in Slots /\ worker[w].at = "spawn" /\ worker[w].left > 0 /\ phase[s] = "running"
      BY <2>0, <2>5 DEF Spawn, StageInv
    <3>2. UNCHANGED <<phase, lifecycle, live>>
      BY <2>5 DEF Spawn, boardVars, slotVars
    <3>3. /\ worker'[w].at = IF worker[w].left = 1 THEN "leave" ELSE "spawn"
          /\ worker'[w].slot = s /\ worker'[w].left = worker[w].left - 1
          /\ \A v \in Workers \ {w} : worker'[v] = worker[v]
      BY <1>0, <2>5, WorkerPlaces
    <3>4. StageInv(w)' /\ ~Completing(w, s)'
      BY <1>0, <3>1, <3>2, <3>3 DEF StageInv, Completing, WorkerType
    <3>5. ASSUME NEW v \in Workers \ {w}, worker[v].slot = s PROVE StageInv(v)'
      BY <1>0, <3>2, <3>3 DEF WorkerInv, StageInv
    <3> QED
      BY <1>a, <3>1, <3>2, <3>3, <3>4, <3>5, WorkerMoves
  <2>6. CASE Leave(w)
    <3>1. s \in Slots /\ Invoking(w, s) /\ worker[w].at = "leave" /\ phase[s] = "running"
          /\ worker[w].left = 0
      BY <1>0, <2>0, <2>6 DEF Leave, StageInv, Invoking, WorkerType
    <3>2. /\ UNCHANGED <<phase, lifecycle>>
          /\ live'[s] = live[s] - 1
          /\ \A t \in Slots \ {s} : live'[t] = live[t]
      BY <1>0, <2>6, <3>1 DEF Leave, boardVars, slotVars, JobTypes
    <3>3. /\ \A v \in Workers \ {w} : worker'[v] = worker[v]
          /\ \/ live[s] = 1 /\ worker'[w].at = "complete" /\ worker'[w].slot = s
             \/ worker'[w].at = "idle"
          /\ worker'[w].left = 0
      BY <1>0, <2>6, <3>1, WorkerPlaces DEF Leave, IsLast
    <3>4. StageInv(w)'
      BY <3>1, <3>2, <3>3 DEF StageInv
    <3>5. ASSUME NEW v \in Workers \ {w}, worker[v].slot = s
          PROVE  StageInv(v)' /\ ~Completing(v, s)
      BY <1>0, <2>a, <3>1, <3>2, <3>3, <3>5 DEF WorkerInv, StageInv, Completing
    <3>6. \A v \in Workers \ {w} : ~Completing(v, s)
      BY <3>5 DEF Completing
    <3> QED
      BY <1>a, <3>1, <3>2, <3>3, <3>4, <3>5, <3>6, WorkerMoves
  <2>7. ASSUME \/ CompleteJob(w) \/ ReturnReady(w) \/ FinishIssue(w)
               \/ MarkCompleted(w) \/ NotifyWaiters(w) \/ SetCompletedBit(w)
        PROVE  WorkerInv'
    <3>1. s \in Slots /\ Completing(w, s) /\ worker[w].left = 0
      BY <1>0, <2>0, <2>7
      DEF CompleteJob, ReturnReady, FinishIssue, MarkCompleted, NotifyWaiters,
          SetCompletedBit, StageInv, Completing, WorkerType
    <3>2. /\ live' = live
          /\ \A t \in Slots \ {s} : phase'[t] = phase[t] /\ lifecycle'[t] = lifecycle[t]
      BY <1>0, <2>7, <3>1
      DEF CompleteJob, ReturnReady, FinishIssue, MarkCompleted, NotifyWaiters,
          SetCompletedBit, Complete, Return, Finish, boardVars, slotVars, jobVars,
          SlotTypes
    <3>3. /\ \A v \in Workers \ {w} : worker'[v] = worker[v]
          /\ worker'[w].slot = s \/ worker'[w].at = "idle"
          /\ worker'[w].left = 0
      BY <1>0, <2>7, <3>1, WorkerPlaces
      DEF CompleteJob, ReturnReady, FinishIssue, MarkCompleted, NotifyWaiters,
          SetCompletedBit
    <3>4. StageInv(w)'
      <4>1. CASE CompleteJob(w)
        BY <1>0, <3>1, <3>3, <4>1, WorkerPlaces DEF CompleteJob, Complete, StageInv
      <4>2. CASE ReturnReady(w)
        BY <1>0, <3>1, <3>3, <4>2, WorkerPlaces DEF ReturnReady, Return, StageInv
      <4>3. CASE FinishIssue(w)
        <5>1. ~lifecycle[s].done
          BY <2>0, <3>1, <4>3 DEF FinishIssue, StageInv, SInv, LifeInv, Opens
        <5> QED
          BY <1>0, <3>1, <3>3, <4>3, <5>1, WorkerPlaces
          DEF FinishIssue, Finish, StageInv, slotVars
      <4>4. CASE MarkCompleted(w)
        BY <1>0, <2>0, <3>1, <3>3, <4>4, WorkerPlaces DEF MarkCompleted, boardVars, StageInv
      <4>5. CASE NotifyWaiters(w)
        BY <1>0, <2>0, <3>1, <3>3, <4>5, WorkerPlaces
        DEF NotifyWaiters, boardVars, slotVars, StageInv
      <4>6. CASE SetCompletedBit(w)
        <5>1. worker'[w].at \in {"push", "idle"}
          BY <1>0, <4>6, WorkerPlaces DEF SetCompletedBit
        <5> QED
          BY <3>1, <3>3, <5>1 DEF StageInv
      <4> QED
        BY <2>7, <4>1, <4>2, <4>3, <4>4, <4>5, <4>6
    <3>5. ASSUME NEW v \in Workers \ {w}, worker[v].slot = s PROVE StageInv(v)'
      <4>1. StageInv(v) /\ ~Completing(v, s)
        BY <1>0, <3>1 DEF WorkerInv
      <4>2. worker[v].at \in {"idle", "push", "release"}
        <5>1. ~Invoking(v, s)
          <6>1. CASE CompleteJob(w)
            BY <2>0, <2>a, <3>1, <6>1 DEF CompleteJob, StageInv
          <6>2. CASE ~CompleteJob(w)
            BY <2>0, <2>7, <3>1, <4>1, <6>2
            DEF ReturnReady, FinishIssue, MarkCompleted, NotifyWaiters, SetCompletedBit,
                StageInv, Invoking
          <6> QED
            BY <6>1, <6>2
        <5> QED
          BY <1>0, <3>5, <4>1, <5>1 DEF Invoking, Completing, WorkerType, WorkerAt
      <4> QED
        BY <3>1, <3>3, <3>5, <4>1, <4>2 DEF StageInv
    <3> QED
      BY <1>a, <3>1, <3>2, <3>3, <3>4, <3>5, WorkerMoves
  <2>8. CASE WorkerPush(w) \/ WorkerRelease(w)
    <3>1. s \in Slots /\ worker[w].left = 0
      BY <1>0, <2>0, <2>8 DEF WorkerPush, WorkerRelease, StageInv, WorkerType
    <3>2. UNCHANGED <<phase, lifecycle, live>>
      BY <2>8 DEF WorkerPush, WorkerRelease, boardVars, slotVars, jobVars
    <3>3. /\ \A v \in Workers \ {w} : worker'[v] = worker[v]
          /\ \/ worker'[w].slot = s /\ worker'[w].at = "release"
             \/ worker'[w].at = "idle"
          /\ worker'[w].left = 0
      BY <1>0, <2>8, <3>1, WorkerPlaces DEF WorkerPush, WorkerRelease
    <3>4. StageInv(w)' /\ \A t : ~Completing(w, t)'
      BY <3>1, <3>3 DEF StageInv, Completing
    <3>5. ASSUME NEW v \in Workers \ {w}, worker[v].slot = s PROVE StageInv(v)'
      BY <1>0, <3>2, <3>3 DEF WorkerInv, StageInv
    <3> QED
      BY <1>a, <3>1, <3>2, <3>3, <3>4, <3>5, WorkerMoves
  <2> QED
    BY <1>3, <2>1, <2>2, <2>3, <2>4, <2>5, <2>6, <2>7, <2>8 DEF Works
<1> QED
  BY <1>1, <1>2, <1>3 DEF SchedNext

(* What LiveExact counts changes as the workers move.                      *)
LEMMA CountSame ==
    ASSUME NEW w \in Workers, \A v \in Workers \ {w} : worker'[v] = worker[v],
           \A t : ~Invoking(w, t) /\ ~Invoking(w, t)'
    PROVE  \A t : Invokers(t)' = Invokers(t) /\ ToSpawn(t)' = ToSpawn(t)
<1> TAKE t
<1>1. \A v \in Workers : Invoking(v, t)' <=> Invoking(v, t)
  BY DEF Invoking
<1>2. Invokers(t)' = Invokers(t)
  BY <1>1 DEF Invokers
<1>3. \A v \in Workers : Invoking(v, t) => worker'[v] = worker[v]
  OBVIOUS
<1>4. ToSpawn(t)' = ToSpawn(t)
  BY <1>1, <1>3 DEF ToSpawn
<1> QED
  BY <1>2, <1>4

(* Taking an invocation from the pool: one more runs.                      *)
LEMMA CountTake ==
    ASSUME SInv, NEW w \in Workers, NEW s \in Slots, Take(w, s), NEW t \in Slots
    PROVE  /\ Cardinality(Invokers(t)') = Cardinality(Invokers(t)) + (IF t = s THEN 1 ELSE 0)
           /\ ToSpawn(t)' = ToSpawn(t)
<1>0. WorkerType
  BY DEF SInv, Types
<1>1. /\ \A v \in Workers \ {w} : worker'[v] = worker[v]
      /\ worker'[w].at = "body" /\ worker'[w].slot = s /\ worker'[w].left = 0
      /\ worker[w].at = "idle"
  BY <1>0, WorkerPlaces DEF Take
<1>2. Invokers(t)' = IF t = s THEN Invokers(t) \cup {w} ELSE Invokers(t)
  BY <1>1 DEF Invokers, Invoking
<1>3. w \notin Invokers(t)
  BY <1>1 DEF Invokers, Invoking
<1>4. ToSpawn(t)' = ToSpawn(t)
  BY <1>1 DEF ToSpawn, Invoking
<1> QED
  BY <1>2, <1>3, <1>4, CountedSetsFinite, OneMore

(* The callable has returned k: so many are to be queued.                  *)
LEMMA CountExecute ==
    ASSUME SInv, NEW w \in Workers, NEW k \in 0 .. MaxKids, Execute(w, k), NEW t \in Slots
    PROVE  /\ Invokers(t)' = Invokers(t)
           /\ Cardinality(ToSpawn(t)') =
                 Cardinality(ToSpawn(t)) + (IF t = worker[w].slot THEN k ELSE 0)
<1>0. WorkerType
  BY DEF SInv, Types
<1>1. /\ \A v \in Workers \ {w} : worker'[v] = worker[v]
      /\ worker'[w].at = IF k = 0 THEN "leave" ELSE "spawn"
      /\ worker'[w].slot = worker[w].slot /\ worker'[w].left = k
  BY <1>0, WorkerPlaces
<1>b. worker[w].at = "body"
  BY DEF Execute
<1>2. worker[w].left = 0
  BY <1>0, <1>b DEF SInv, WorkerInv, StageInv, WorkerType
<1>3. \A v \in Workers : Invoking(v, t)' <=> Invoking(v, t)
  BY <1>1, <1>b DEF Invoking
<1>4. Invokers(t)' = Invokers(t)
  BY <1>3 DEF Invokers
<1>5. CASE t # worker[w].slot
  <2>1. ToSpawn(t)' = ToSpawn(t)
    BY <1>1, <1>3, <1>5 DEF ToSpawn, Invoking
  <2> QED
    BY <1>4, <1>5, <2>1, CountedSetsFinite
<1>6. CASE t = worker[w].slot
  <2> DEFINE More == {w} \X (1 .. k)
  <2>1. ToSpawn(t)' = ToSpawn(t) \cup More
    BY <1>1, <1>b, <1>2, <1>3, <1>6 DEF ToSpawn, Invoking
  <2>2. ToSpawn(t) \cap More = {}
    BY <1>2 DEF ToSpawn
  <2>3. IsFiniteSet(More) /\ Cardinality(More) = k
    <3>1. IsFiniteSet({w}) /\ Cardinality({w}) = 1
      BY FS_Singleton
    <3>2. IsFiniteSet(1 .. k) /\ Cardinality(1 .. k) = k
      BY FS_Interval
    <3>3. IsFiniteSet(More) /\ Cardinality(More) = Cardinality({w}) * Cardinality(1 .. k)
      BY <3>1, <3>2, FS_Product
    <3> HIDE DEF More
    <3> QED
      BY <3>1, <3>2, <3>3
  <2> HIDE DEF More
  <2>4. Cardinality(ToSpawn(t) \cup More) = Cardinality(ToSpawn(t)) + k
    <3>1. IsFiniteSet(ToSpawn(t)) /\ Cardinality(ToSpawn(t)) \in Nat
      BY CountedSetsFinite
    <3>2. Cardinality(ToSpawn(t) \cup More) =
            Cardinality(ToSpawn(t)) + Cardinality(More) - Cardinality(ToSpawn(t) \cap More)
      BY <2>3, <3>1, FS_Union
    <3>3. Cardinality(ToSpawn(t) \cap More) = 0
      BY <2>2, FS_EmptySet
    <3> QED
      BY <2>3, <3>1, <3>2, <3>3
  <2> QED
    BY <1>4, <1>6, <2>1, <2>4
<1> QED
  BY <1>5, <1>6

(* A child is queued: one less is to be queued.                            *)
LEMMA CountSpawn ==
    ASSUME SInv, NEW w \in Workers, Spawn(w), NEW t \in Slots
    PROVE  /\ Invokers(t)' = Invokers(t)
           /\ Cardinality(ToSpawn(t)') =
                 Cardinality(ToSpawn(t)) - (IF t = worker[w].slot THEN 1 ELSE 0)
<1>0. WorkerType
  BY DEF SInv, Types
<1> DEFINE left == worker[w].left
<1>1. /\ \A v \in Workers \ {w} : worker'[v] = worker[v]
      /\ worker'[w].at = IF left = 1 THEN "leave" ELSE "spawn"
      /\ worker'[w].slot = worker[w].slot /\ worker'[w].left = left - 1
      /\ worker[w].at = "spawn"
  BY <1>0, WorkerPlaces DEF Spawn
<1>2. left \in 1 .. MaxKids
  BY <1>0, <1>1 DEF SInv, WorkerInv, StageInv, WorkerType
<1>3. \A v \in Workers : Invoking(v, t)' <=> Invoking(v, t)
  BY <1>1 DEF Invoking
<1>4. Invokers(t)' = Invokers(t)
  BY <1>3 DEF Invokers
<1>5. CASE t # worker[w].slot
  <2>1. ToSpawn(t)' = ToSpawn(t)
    BY <1>1, <1>3, <1>5 DEF ToSpawn, Invoking
  <2> QED
    BY <1>4, <1>5, <2>1, CountedSetsFinite
<1>6. CASE t = worker[w].slot
  <2>1. ToSpawn(t)' = ToSpawn(t) \ {<<w, left>>}
    BY <1>1, <1>2, <1>3, <1>6 DEF ToSpawn, Invoking
  <2>2. <<w, left>> \in ToSpawn(t)
    BY <1>1, <1>2, <1>6 DEF ToSpawn, Invoking
  <2> QED
    BY <1>4, <1>6, <2>1, <2>2, CountedSetsFinite, OneLess
<1> QED
  BY <1>5, <1>6

(* An invocation returns with no child left to queue.                      *)
LEMMA CountLeave ==
    ASSUME SInv, NEW w \in Workers, Leave(w), NEW t \in Slots
    PROVE  /\ Cardinality(Invokers(t)') =
                 Cardinality(Invokers(t)) - (IF t = worker[w].slot THEN 1 ELSE 0)
           /\ ToSpawn(t)' = ToSpawn(t)
<1>0. WorkerType
  BY DEF SInv, Types
<1>1. /\ \A v \in Workers \ {w} : worker'[v] = worker[v]
      /\ worker'[w].at \in {"complete", "idle"}
      /\ worker[w].at = "leave"
  BY <1>0, WorkerPlaces DEF Leave
<1>2. worker[w].left = 0
  BY <1>0, <1>1 DEF SInv, WorkerInv, StageInv, WorkerType
<1>3. ToSpawn(t)' = ToSpawn(t)
  BY <1>1, <1>2 DEF ToSpawn, Invoking
<1>4. Invokers(t)' = IF t = worker[w].slot THEN Invokers(t) \ {w} ELSE Invokers(t)
  BY <1>1 DEF Invokers, Invoking
<1>5. t = worker[w].slot => w \in Invokers(t)
  BY <1>1 DEF Invokers, Invoking
<1> QED
  BY <1>3, <1>4, <1>5, CountedSetsFinite, OneLess

(* The owner's and the waiter's steps leave the workers where they are.    *)
LEMMA CountStill ==
    ASSUME worker' = worker
    PROVE  \A t : Invokers(t)' = Invokers(t) /\ ToSpawn(t)' = ToSpawn(t)
BY DEF Invokers, ToSpawn, Invoking

(* The owner's steps do not move the workers.                              *)
LEMMA OwnsLeavesWorkers == Owns => worker' = worker
BY DEF Owns, AcquireCall, AcquireCount, AcquireLoad, AcquireNext, AcquireExchange,
       AcquireInit, AcquireOpen, AddDependencyPin, AddDependencyRegister,
       AddDependencyPublish, AddDependencyUnpin, OwnerPush, OwnerRelease, Submit,
       SubmitEnqueue

(* The waiter's steps change nothing but the waiter.                       *)
LEMMA WaitsOnlyWaits ==
    Waits \/ UNCHANGED vars => UNCHANGED <<boardVars, slotVars, freeVars, jobVars, owner, worker>>
BY DEF Waits, WaitSteps, WaitCall, WaitLoadGen, WaitLoadLifecycle, WaitSleep,
       WaitReturn, vars, threadVars

(* A job that has no invocations left has none of any kind.                *)
LEMMA NoneCounted ==
    ASSUME SInv, NEW s \in Slots, live[s] = 0
    PROVE  /\ pool[s] = 0 /\ Cardinality(Invokers(s)) = 0 /\ Cardinality(ToSpawn(s)) = 0
           /\ Invokers(s) = {} /\ ToSpawn(s) = {}
<1>1. live[s] = pool[s] + Cardinality(Invokers(s)) + Cardinality(ToSpawn(s))
  BY DEF SInv, LiveExact
<1>2. pool[s] \in Nat
  BY DEF SInv, Types, JobTypes
<1>3. pool[s] = 0 /\ Cardinality(Invokers(s)) = 0 /\ Cardinality(ToSpawn(s)) = 0
  BY <1>1, <1>2, CountedSetsFinite
<1> QED
  BY <1>3, CountedSetsFinite, FS_EmptySet

(* LiveExact: every step moves an invocation from one place to the next,   *)
(* or counts it when it adds one.                                          *)
LEMMA LiveStep ==
    ASSUME SInv, [SchedNext]_vars
    PROVE  LiveExact'
<1> DEFINE Sum(s) == pool[s] + Cardinality(Invokers(s)) + Cardinality(ToSpawn(s))
<1>0. /\ JobTypes /\ phase \in [Slots -> Phases]
      /\ \A s \in Slots : live[s] = Sum(s)
  BY DEF SInv, Types, IInv, TypeOK, LiveExact
<1>c. \A s : Cardinality(Invokers(s)) \in Nat /\ Cardinality(ToSpawn(s)) \in Nat
  BY CountedSetsFinite
<1>s. SUFFICES ASSUME NEW t \in Slots
               PROVE  live'[t] = pool'[t] + Cardinality(Invokers(t)') + Cardinality(ToSpawn(t)')
  BY DEF LiveExact
<1>1. ASSUME worker' = worker, UNCHANGED <<live, pool>> PROVE live'[t] = Sum(t)'
  BY <1>0, <1>1, CountStill
<1>2. ASSUME Owns PROVE live'[t] = Sum(t)'
  <2>0. worker' = worker
    BY <1>2, OwnsLeavesWorkers
  <2>1. CASE AcquireInit
    <3>1. owner.slot \in Slots /\ phase[owner.slot] \in {"idle", "done"}
      BY <2>1 DEF AcquireInit, Reset, MayReset, SInv, OwnerInv
    <3>2. live[owner.slot] = 0
      BY <3>1 DEF SInv, CallInv
    <3>3. live' = live
      BY <1>0, <2>1, <3>1, <3>2 DEF AcquireInit, JobTypes
    <3> QED
      BY <1>1, <2>0, <2>1, <3>3 DEF AcquireInit
  <2>2. CASE SubmitEnqueue
    <3>1. owner.slot \in Slots
      BY <2>2 DEF SubmitEnqueue, SInv, OwnerInv
    <3> QED
      BY <1>0, <1>c, <2>0, <2>2, <3>1, CountStill DEF SubmitEnqueue, Enqueue, JobTypes
  <2>3. CASE UNCHANGED <<live, pool>>
    BY <1>1, <2>0, <2>3
  <2> QED
    BY <1>2, <2>1, <2>2, <2>3
    DEF Owns, AcquireCall, AcquireCount, AcquireLoad, AcquireNext, AcquireExchange,
        AcquireOpen, AddDependencyPin, AddDependencyRegister, AddDependencyPublish,
        AddDependencyUnpin, OwnerPush, OwnerRelease, Submit, jobVars
<1>3. CASE Waits \/ UNCHANGED vars
  BY <1>1, <1>3, WaitsOnlyWaits DEF jobVars
<1>4. ASSUME NEW w \in Workers, Works(w) PROVE live'[t] = Sum(t)'
  <2> DEFINE s == worker[w].slot
  <2>0. worker[w].at # "idle" => s \in Slots
    BY DEF SInv, WorkerInv, StageInv
  <2>a. WorkerType
    BY DEF SInv, Types
  <2>1. ASSUME NEW u \in Slots, Take(w, u) PROVE live'[t] = Sum(t)'
    <3>1. live' = live /\ pool' = [pool EXCEPT ![u] = @ - 1]
      BY <2>1 DEF Take
    <3>2. /\ Cardinality(Invokers(t)') = Cardinality(Invokers(t)) + (IF t = u THEN 1 ELSE 0)
          /\ ToSpawn(t)' = ToSpawn(t)
      BY <2>1, CountTake
    <3> QED
      BY <1>0, <1>c, <3>1, <3>2 DEF JobTypes
  <2>2. ASSUME NEW k \in 0 .. MaxKids, Execute(w, k) PROVE live'[t] = Sum(t)'
    <3>1. /\ live' = [live EXCEPT ![s] = live[s] + k] /\ pool' = pool
          /\ s \in Slots
      BY <2>0, <2>2 DEF Execute, CountChildren
    <3>2. /\ Invokers(t)' = Invokers(t)
          /\ Cardinality(ToSpawn(t)') = Cardinality(ToSpawn(t)) + (IF t = s THEN k ELSE 0)
      BY <2>2, CountExecute
    <3> HIDE DEF s
    <3> QED
      BY <1>0, <1>c, <3>1, <3>2 DEF JobTypes
  <2>3. CASE Spawn(w)
    <3>1. pool' = [pool EXCEPT ![s] = @ + 1] /\ live' = live /\ s \in Slots
      BY <2>0, <2>3 DEF Spawn
    <3>2. /\ Invokers(t)' = Invokers(t)
          /\ Cardinality(ToSpawn(t)') = Cardinality(ToSpawn(t)) - (IF t = s THEN 1 ELSE 0)
      BY <2>3, CountSpawn
    <3> HIDE DEF s
    <3> QED
      BY <1>0, <1>c, <3>1, <3>2 DEF JobTypes
  <2>4. CASE Leave(w)
    <3>1. live' = [live EXCEPT ![s] = @ - 1] /\ pool' = pool /\ s \in Slots
      BY <2>0, <2>4 DEF Leave
    <3>2. /\ Cardinality(Invokers(t)') = Cardinality(Invokers(t)) - (IF t = s THEN 1 ELSE 0)
          /\ ToSpawn(t)' = ToSpawn(t)
      BY <2>4, CountLeave
    <3> HIDE DEF s
    <3> QED
      BY <1>0, <1>c, <3>1, <3>2 DEF JobTypes
  <2>5. ASSUME NEW n \in Node, IssueReady(w, n) PROVE live'[t] = Sum(t)'
    <3>1. Consumer(n) \in Slots /\ worker' = worker
      BY <2>5, NodeFacts DEF IssueReady, threadVars
    <3> QED
      BY <1>0, <1>c, <2>5, <3>1, CountStill DEF IssueReady, Enqueue, JobTypes
  <2>6. ASSUME NEW n \in Node, NotifyConsumer(w, n) PROVE live'[t] = Sum(t)'
    BY <1>1, <2>6 DEF NotifyConsumer, jobVars, threadVars
  <2>7. ASSUME \/ CompleteJob(w) \/ ReturnReady(w) \/ FinishIssue(w) \/ MarkCompleted(w)
               \/ NotifyWaiters(w) \/ SetCompletedBit(w) \/ WorkerPush(w) \/ WorkerRelease(w)
        PROVE  live'[t] = Sum(t)'
    <3>1. UNCHANGED <<live, pool>>
      BY <2>7
      DEF CompleteJob, ReturnReady, FinishIssue, MarkCompleted, NotifyWaiters,
          SetCompletedBit, WorkerPush, WorkerRelease, jobVars
    <3>2. \A v \in Workers \ {w} : worker'[v] = worker[v]
      BY <2>7, <2>a, WorkerPlaces
      DEF CompleteJob, ReturnReady, FinishIssue, MarkCompleted, NotifyWaiters,
          SetCompletedBit, WorkerPush, WorkerRelease
    <3>3. /\ worker[w].at \notin {"body", "spawn", "leave"}
          /\ worker'[w].at \notin {"body", "spawn", "leave"}
      BY <2>7, <2>a, WorkerPlaces
      DEF CompleteJob, ReturnReady, FinishIssue, MarkCompleted, NotifyWaiters,
          SetCompletedBit, WorkerPush, WorkerRelease
    <3>4. Invokers(t)' = Invokers(t) /\ ToSpawn(t)' = ToSpawn(t)
      <4>1. \A u : ~Invoking(w, u) /\ ~Invoking(w, u)'
        BY <3>3 DEF Invoking
      <4> QED
        BY <3>2, <4>1, CountSame
    <3> QED
      BY <1>0, <3>1, <3>4
  <2> QED
    BY <1>4, <2>1, <2>2, <2>3, <2>4, <2>5, <2>6, <2>7 DEF Works
<1> QED
  BY <1>2, <1>3, <1>4 DEF SchedNext

(* CallInv: the stages of a job and the counters of its invocations.       *)
LEMMA CallStep ==
    ASSUME SInv, [SchedNext]_vars
    PROVE  CallInv'
<1> DEFINE Calls(t) ==
             /\ phase[t] \notin {"issued", "running"} => live[t] = 0
             /\ phase[t] = "issued" => /\ live[t] = IF Enqueues(t) THEN 0 ELSE 1
                                       /\ ~Enqueues(t) => calls[t] = 0
             /\ phase[t] = "running" =>
                   calls[t] + pool[t] + Cardinality(ToSpawn(t)) = kids[t] + 1
             /\ phase[t] \in {"waiting", "ready", "issued", "running"} => fn[t]
             /\ phase[t] \in {"open", "waiting", "ready", "issued"} => kids[t] = 0
<1>0. /\ JobTypes /\ OwnerType /\ OwnerInv /\ WorkerType
      /\ phase \in [Slots -> Phases]
  BY DEF SInv, Types, IInv, TypeOK
<1>c. \A t : Cardinality(Invokers(t)) \in Nat /\ Cardinality(ToSpawn(t)) \in Nat
  BY CountedSetsFinite
<1>s. SUFFICES ASSUME NEW t \in Slots PROVE Calls(t)'
  BY DEF CallInv
<1>t. Calls(t)
  BY DEF SInv, CallInv
<1>1. ASSUME phase'[t] = phase[t], live'[t] = live[t], calls'[t] = calls[t],
             pool'[t] = pool[t], kids'[t] = kids[t], fn'[t] = fn[t],
             ToSpawn(t)' = ToSpawn(t), Enqueues(t)' <=> Enqueues(t)
      PROVE  Calls(t)'
  BY <1>1, <1>t
<1>2. ASSUME Owns PROVE Calls(t)'
  <2>0. worker' = worker /\ ToSpawn(t)' = ToSpawn(t)
    BY <1>2, OwnsLeavesWorkers, CountStill
  <2>1. CASE AcquireInit
    <3>1. owner.slot \in Slots /\ owner.at = "init" /\ owner' = [owner EXCEPT !.at = "open"]
      BY <1>0, <2>1 DEF AcquireInit, OwnerInv, OwnerGoes
    <3>2. ~Enqueues(t)' /\ ~Enqueues(t)
      BY <1>0, <3>1 DEF Enqueues, OwnerType
    <3>3. CASE t = owner.slot
      <4>1. phase'[t] = "open" /\ live'[t] = 0 /\ kids'[t] = 0
        BY <1>0, <2>1, <3>3 DEF AcquireInit, Reset, JobTypes
      <4> QED
        BY <4>1
    <3>4. CASE t # owner.slot
      BY <1>0, <1>1, <2>0, <2>1, <3>2, <3>4 DEF AcquireInit, Reset, JobTypes
    <3> QED
      BY <3>3, <3>4
  <2>2. ASSUME NEW c \in Slots, Submit(c) PROVE Calls(t)'
    <3>1. /\ phase[c] = "open" /\ ~Enqueues(t)
          /\ phase' = [phase EXCEPT ![c] = IF IsReady(pending[c]) THEN "issued" ELSE "waiting"]
          /\ fn' = [fn EXCEPT ![c] = TRUE]
          /\ UNCHANGED <<live, calls, kids, pool>>
      BY <2>2 DEF Submit, Commit, Enqueues
    <3>2. CASE t = c
      <4>1. fn'[t] /\ kids'[t] = 0 /\ live'[t] = 0
        BY <1>0, <1>t, <3>1, <3>2 DEF JobTypes
      <4>2. IsReady(pending[c]) => phase'[t] = "issued" /\ Enqueues(t)'
        BY <1>0, <2>2, <3>1, <3>2 DEF Submit, Enqueues
      <4>3. ~IsReady(pending[c]) => phase'[t] = "waiting"
        BY <1>0, <3>1, <3>2
      <4> QED
        BY <4>1, <4>2, <4>3
    <3>3. CASE t # c
      <4>1. phase'[t] = phase[t] /\ fn'[t] = fn[t]
        BY <1>0, <3>1, <3>3 DEF JobTypes
      <4>2. ~Enqueues(t)'
        BY <2>2, <3>3 DEF Submit, Enqueues
      <4> QED
        BY <1>1, <2>0, <3>1, <4>1, <4>2
    <3> QED
      BY <3>2, <3>3
  <2>3. CASE SubmitEnqueue
    <3>1. /\ owner.slot \in Slots /\ owner.at = "enqueue" /\ phase[owner.slot] = "issued"
          /\ ~Enqueues(t)' /\ UNCHANGED <<phase, fn, kids>>
      BY <1>0, <2>3 DEF SubmitEnqueue, OwnerInv, OwnerIdle, Enqueues, boardVars
    <3>2. CASE t = owner.slot
      <4>1. live[t] = 0
        BY <1>t, <3>1, <3>2 DEF Enqueues
      <4>2. live'[t] = 1 /\ calls'[t] = 0
        BY <1>0, <2>3, <3>2, <4>1 DEF SubmitEnqueue, Enqueue, JobTypes
      <4> QED
        BY <1>t, <3>1, <3>2, <4>2
    <3>3. CASE t # owner.slot
      <4>1. live'[t] = live[t] /\ calls'[t] = calls[t] /\ pool'[t] = pool[t]
        BY <1>0, <2>3, <3>3 DEF SubmitEnqueue, Enqueue, JobTypes
      <4> QED
        BY <1>1, <2>0, <3>1, <3>3, <4>1 DEF Enqueues
    <3> QED
      BY <3>2, <3>3
  <2>4. ASSUME UNCHANGED <<phase, jobVars>>, ~SubmitEnqueue, \A c \in Slots : ~Submit(c)
        PROVE  Calls(t)'
    <3>1. CASE AcquireCall \/ AcquireCount \/ AcquireLoad \/ AcquireNext \/ AcquireInit
      <4>1. ~Enqueues(t) /\ ~Enqueues(t)'
        BY <1>0, <3>1
        DEF AcquireCall, AcquireCount, AcquireLoad, AcquireNext, AcquireInit,
            OwnerGoes, OwnerType, Enqueues
      <4> QED
        BY <1>1, <2>0, <2>4, <4>1 DEF jobVars
    <3>2. CASE AcquireExchange \/ AcquireOpen \/ OwnerPush \/ OwnerRelease
      <4>1. ~Enqueues(t) /\ ~Enqueues(t)'
        <5>1. CASE AcquireExchange
          BY <1>0, <5>1 DEF AcquireExchange, OwnerType, Enqueues
        <5>2. CASE AcquireOpen \/ OwnerPush \/ OwnerRelease
          BY <1>0, <5>2
          DEF AcquireOpen, OwnerPush, OwnerRelease, OwnerGoes, OwnerIdle, OwnerType,
              Enqueues
        <5> QED
          BY <3>2, <5>1, <5>2
      <4> QED
        BY <1>1, <2>0, <2>4, <4>1 DEF jobVars
    <3>3. CASE \/ AddDependencyRegister \/ AddDependencyPublish \/ AddDependencyUnpin
               \/ \E c, s \in Slots, g \in 1 .. MaxGen : AddDependencyPin(c, s, g)
      <4>1. ~Enqueues(t) /\ ~Enqueues(t)'
        BY <1>0, <3>3
        DEF AddDependencyRegister, AddDependencyPublish, AddDependencyUnpin,
            AddDependencyPin, OwnerGoes, OwnerIdle, OwnerType, Enqueues
      <4> QED
        BY <1>1, <2>0, <2>4, <4>1 DEF jobVars
    <3> QED
      BY <1>2, <2>4, <3>1, <3>2, <3>3 DEF Owns
  <2>5. Owns => \/ AcquireInit \/ SubmitEnqueue \/ (\E c \in Slots : Submit(c))
                \/ UNCHANGED <<phase, jobVars>>
    BY DEF Owns, AcquireCall, AcquireCount, AcquireLoad, AcquireNext, AcquireExchange,
           AcquireOpen, AddDependencyPin, AddDependencyRegister, Register,
           AddDependencyPublish, Publish, AddDependencyUnpin, OwnerPush, OwnerRelease,
           boardVars
  <2> QED
    BY <1>2, <2>1, <2>2, <2>3, <2>4, <2>5
<1>3. CASE Waits \/ UNCHANGED vars
  BY <1>1, <1>3, WaitsOnlyWaits, CountStill DEF jobVars, boardVars, Enqueues
<1>4. ASSUME NEW w \in Workers, Works(w) PROVE Calls(t)'
  <2> DEFINE s == worker[w].slot
  <2>0. worker[w].at # "idle" => s \in Slots
    BY DEF SInv, WorkerInv, StageInv
  <2>a. StageInv(w)
    BY DEF SInv, WorkerInv
  <2>b. Enqueues(t)' <=> Enqueues(t)
    <3>1. owner' = owner
      BY <1>4
      DEF Works, Take, Execute, Spawn, Leave, CompleteJob, NotifyConsumer, ReturnReady,
          IssueReady, FinishIssue, MarkCompleted, NotifyWaiters, SetCompletedBit,
          WorkerPush, WorkerRelease, threadVars
    <3> QED
      BY <3>1 DEF Enqueues
  <2>1. ASSUME NEW u \in Slots, Take(w, u) PROVE Calls(t)'
    <3>1. /\ UNCHANGED <<live, kids, fn>> /\ pool[u] > 0
          /\ calls' = [calls EXCEPT ![u] = @ + 1] /\ pool' = [pool EXCEPT ![u] = @ - 1]
          /\ \/ phase[u] = "running" /\ phase' = phase
             \/ phase[u] = "issued" /\ phase' = [phase EXCEPT ![u] = "running"]
      BY <2>1 DEF Take, Run, NextCall, boardVars
    <3>2. ToSpawn(t)' = ToSpawn(t)
      BY <2>1, CountTake
    <3>3. CASE t # u
      BY <1>0, <1>1, <2>b, <3>1, <3>2, <3>3 DEF JobTypes
    <3>4. CASE t = u /\ phase[t] = "running"
      BY <1>0, <1>c, <1>t, <3>1, <3>2, <3>4 DEF JobTypes
    <3>5. CASE t = u /\ phase[t] = "issued"
      <4>1. ~Enqueues(t)
        BY <3>1, <3>5, TakenIsEnqueued
      <4>2. live[t] = 1 /\ calls[t] = 0 /\ kids[t] = 0
        BY <1>t, <3>5, <4>1
      <4>3. live[t] = pool[t] + Cardinality(Invokers(t)) + Cardinality(ToSpawn(t))
        BY DEF SInv, LiveExact
      <4>4. pool[t] = 1 /\ Cardinality(ToSpawn(t)) = 0
        BY <1>0, <1>c, <3>1, <3>5, <4>2, <4>3 DEF JobTypes
      <4>5. /\ phase'[t] = "running" /\ calls'[t] = 1 /\ pool'[t] = 0 /\ kids'[t] = 0
            /\ fn'[t] = fn[t]
        BY <1>0, <3>1, <3>5, <4>2, <4>4 DEF JobTypes
      <4> QED
        BY <1>t, <3>2, <3>5, <4>4, <4>5
    <3> QED
      BY <3>1, <3>3, <3>4, <3>5
  <2>2. ASSUME NEW k \in 0 .. MaxKids, Execute(w, k) PROVE Calls(t)'
    <3>1. /\ s \in Slots /\ phase[s] = "running" /\ phase' = phase
          /\ live' = [live EXCEPT ![s] = live[s] + k] /\ kids' = [kids EXCEPT ![s] = @ + k]
          /\ UNCHANGED <<calls, pool, fn>>
      BY <2>0, <2>2, <2>a DEF Execute, CountChildren, StageInv, boardVars
    <3>2. Cardinality(ToSpawn(t)') = Cardinality(ToSpawn(t)) + (IF t = s THEN k ELSE 0)
      BY <2>2, CountExecute
    <3> HIDE DEF s
    <3>3. /\ kids'[t] = kids[t] + (IF t = s THEN k ELSE 0)
          /\ live'[t] = live[t] + (IF t = s THEN k ELSE 0)
      BY <1>0, <3>1 DEF JobTypes
    <3> QED
      BY <1>0, <1>c, <1>t, <2>b, <3>1, <3>2, <3>3 DEF JobTypes
  <2>3. CASE Spawn(w)
    <3>1. /\ s \in Slots /\ phase[s] = "running" /\ phase' = phase
          /\ pool' = [pool EXCEPT ![s] = @ + 1]
          /\ UNCHANGED <<live, calls, fn, kids>>
      BY <2>0, <2>3, <2>a DEF Spawn, StageInv, boardVars
    <3>2. Cardinality(ToSpawn(t)') = Cardinality(ToSpawn(t)) - (IF t = s THEN 1 ELSE 0)
      BY <2>3, CountSpawn
    <3> HIDE DEF s
    <3>3. pool'[t] = pool[t] + (IF t = s THEN 1 ELSE 0)
      BY <1>0, <3>1 DEF JobTypes
    <3> QED
      BY <1>0, <1>c, <1>t, <2>b, <3>1, <3>2, <3>3 DEF JobTypes
  <2>4. CASE Leave(w)
    <3>1. /\ s \in Slots /\ phase[s] = "running" /\ phase' = phase
          /\ live' = [live EXCEPT ![s] = @ - 1]
          /\ UNCHANGED <<pool, calls, fn, kids>>
      BY <2>0, <2>4, <2>a DEF Leave, StageInv, boardVars
    <3>2. ToSpawn(t)' = ToSpawn(t)
      BY <2>4, CountLeave
    <3> HIDE DEF s
    <3>3. CASE t = s
      BY <1>t, <3>1, <3>2, <3>3
    <3>4. CASE t # s
      BY <1>0, <1>1, <2>b, <3>1, <3>2, <3>4 DEF JobTypes
    <3> QED
      BY <3>3, <3>4
  <2>5. ASSUME NEW n \in Node, IssueReady(w, n) PROVE Calls(t)'
    <3>1. /\ Consumer(n) \in Slots /\ worker' = worker /\ phase[Consumer(n)] = "ready"
          /\ UNCHANGED <<fn, kids>>
      BY <2>0, <2>5, NodeFacts DEF IssueReady, Issue, threadVars, SInv, IInv, ReadyInv
    <3>2. ToSpawn(t)' = ToSpawn(t)
      BY <3>1, CountStill
    <3>3. CASE t = Consumer(n)
      <4>1. live[t] = 0 /\ ~Enqueues(t)
        BY <1>0, <1>t, <3>1, <3>3 DEF Enqueues, OwnerInv
      <4>2. live'[t] = 1 /\ calls'[t] = 0 /\ phase'[t] = "issued"
        BY <1>0, <2>5, <3>3, <4>1 DEF IssueReady, Issue, Enqueue, JobTypes
      <4> QED
        BY <1>t, <2>b, <3>1, <3>3, <4>1, <4>2
    <3>4. CASE t # Consumer(n)
      BY <1>0, <1>1, <2>5, <2>b, <3>1, <3>2, <3>4 DEF IssueReady, Issue, Enqueue, JobTypes
    <3> QED
      BY <3>3, <3>4
  <2>6. ASSUME NEW n \in Node, NotifyConsumer(w, n) PROVE Calls(t)'
    <3>1. /\ Consumer(n) \in Slots /\ worker' = worker /\ UNCHANGED jobVars
          /\ IsReady(pending[Consumer(n)]) => phase[Consumer(n)] = "waiting"
      BY <2>0, <2>6, NotifiedJobWaits DEF NotifyConsumer, threadVars
    <3>2. ToSpawn(t)' = ToSpawn(t)
      BY <3>1, CountStill
    <3>3. CASE t = Consumer(n) /\ IsReady(pending[t])
      <4>1. phase[t] = "waiting" /\ phase'[t] = "ready"
        BY <1>0, <2>6, <3>1, <3>3 DEF NotifyConsumer, Notify
      <4> QED
        BY <1>t, <3>1, <4>1 DEF jobVars
    <3>4. CASE ~(t = Consumer(n) /\ IsReady(pending[t]))
      <4>1. phase'[t] = phase[t]
        BY <1>0, <2>6, <3>4 DEF NotifyConsumer, Notify
      <4> QED
        BY <1>1, <2>b, <3>1, <3>2, <4>1 DEF jobVars
    <3> QED
      BY <3>3, <3>4
  <2>7. ASSUME \/ CompleteJob(w) \/ ReturnReady(w) \/ FinishIssue(w) \/ MarkCompleted(w)
               \/ NotifyWaiters(w) \/ SetCompletedBit(w) \/ WorkerPush(w) \/ WorkerRelease(w)
        PROVE  Calls(t)'
    <3>1. UNCHANGED <<live, calls, pool, kids>>
      BY <2>7
      DEF CompleteJob, ReturnReady, FinishIssue, MarkCompleted, NotifyWaiters,
          SetCompletedBit, WorkerPush, WorkerRelease, jobVars
    <3>2. \A v \in Workers \ {w} : worker'[v] = worker[v]
      BY <1>0, <2>7, WorkerPlaces
      DEF CompleteJob, ReturnReady, FinishIssue, MarkCompleted, NotifyWaiters,
          SetCompletedBit, WorkerPush, WorkerRelease
    <3>3. /\ worker[w].at \notin {"body", "spawn", "leave"}
          /\ worker'[w].at \notin {"body", "spawn", "leave"}
      BY <1>0, <2>7, WorkerPlaces
      DEF CompleteJob, ReturnReady, FinishIssue, MarkCompleted, NotifyWaiters,
          SetCompletedBit, WorkerPush, WorkerRelease
    <3>4. ToSpawn(t)' = ToSpawn(t)
      <4>1. \A u : ~Invoking(w, u) /\ ~Invoking(w, u)'
        BY <3>3 DEF Invoking
      <4> QED
        BY <3>2, <4>1, CountSame
    <3>5. CASE phase'[t] = phase[t] /\ fn'[t] = fn[t]
      BY <1>1, <2>b, <3>1, <3>4, <3>5
    <3>6. CASE t = s /\ (CompleteJob(w) \/ ReturnReady(w) \/ FinishIssue(w))
      <4>1. phase'[t] \in {"walking", "issuing", "done"}
        BY <1>0, <3>6 DEF CompleteJob, Complete, ReturnReady, Return, FinishIssue, Finish
      <4>2. live[t] = 0
        BY <1>t, <2>a, <3>6
        DEF CompleteJob, ReturnReady, FinishIssue, Return, Finish, StageInv
      <4> QED
        BY <3>1, <4>1, <4>2
    <3>7. \/ phase'[t] = phase[t] /\ fn'[t] = fn[t]
          \/ t = s /\ (CompleteJob(w) \/ ReturnReady(w) \/ FinishIssue(w))
      BY <1>0, <2>7
      DEF CompleteJob, Complete, ReturnReady, Return, FinishIssue, Finish, MarkCompleted,
          NotifyWaiters, SetCompletedBit, WorkerPush, WorkerRelease, jobVars, boardVars,
          JobTypes
    <3> QED
      BY <3>5, <3>6, <3>7
  <2> QED
    BY <1>4, <2>1, <2>2, <2>3, <2>4, <2>5, <2>6, <2>7 DEF Works
<1> QED
  BY <1>2, <1>3, <1>4 DEF SchedNext

(* What the steps do to the free list: the exchange of acquire() pops its  *)
(* first slot, recycle_slot pushes one that is not on it.                  *)
LEMMA FreeListTypes ==
    ASSUME SInv
    PROVE  /\ head \in Slots \cup {Nil} /\ next \in [Slots -> Slots \cup {Nil}]
           /\ Nil \notin Slots /\ Acyclic(Slots, next, head) /\ FreeList \subseteq Slots
BY DEF SInv, Types, FreeTypes, SlotOrNone, NoSlot, FreeInv, FreeList, Reach

(* acquire(): the next pointer that was read earlier is still the right    *)
(* one.                                                                    *)
LEMMA PopStep ==
    ASSUME SInv, AcquireExchange, head = owner.slot
    PROVE  /\ owner.slot \in FreeList
           /\ FreeList' = FreeList \ {owner.slot}
           /\ Acyclic(Slots, next, head)'
<1>1. /\ owner.slot \in Slots /\ owner.slot \in FreeList
      /\ head' = next[owner.slot] /\ next' = next
  BY FreeListTypes DEF AcquireExchange, SInv, FreeInv
<1>2. /\ Reach(Slots, next, next[head]) = Reach(Slots, next, head) \ {head}
      /\ Acyclic(Slots, next, next[head])
  BY <1>1, FreeListTypes, ReachPop
<1> QED
  BY <1>1, <1>2 DEF FreeList

(* recycle_slot: a slot that is not on the list becomes its head.          *)
LEMMA PushStep ==
    ASSUME SInv, FreeTypes', NEW s \in Slots, Push(s), s \notin FreeList
    PROVE  /\ FreeList' = FreeList \cup {s}
           /\ Acyclic(Slots, next, head)'
           /\ \A n \in FreeList : next'[n] = next[n]
<1>0. head' \in Slots \cup {Nil} /\ next' \in [Slots -> Slots \cup {Nil}]
  BY DEF FreeTypes, SlotOrNone, NoSlot
<1>1. head' = s /\ next'[s] = head /\ \A m \in Slots \ {s} : next'[m] = next[m]
  BY FreeListTypes DEF Push
<1>2. s \notin Reach(Slots, next, head)
  BY DEF FreeList
<1>3. /\ Reach(Slots, next', s) = {s} \cup Reach(Slots, next, head)
      /\ Acyclic(Slots, next', s)
  BY <1>0, <1>1, <1>2, FreeListTypes, ReachPush
<1> QED
  BY <1>1, <1>3, FreeListTypes DEF FreeList

(* A step that keeps the head and the links of the list keeps the list,    *)
(* even if it writes the next pointer of another slot.                     *)
LEMMA ListStill ==
    ASSUME SInv, FreeTypes', head' = head, \A n \in FreeList : next'[n] = next[n]
    PROVE  FreeList' = FreeList /\ Acyclic(Slots, next, head)'
<1>0. next' \in [Slots -> Slots \cup {Nil}]
  BY DEF FreeTypes, SlotOrNone, NoSlot
<1>1. \A n \in Reach(Slots, next, head) : next'[n] = next[n]
  BY DEF FreeList
<1>2. /\ Reach(Slots, next', head) = Reach(Slots, next, head)
      /\ Acyclic(Slots, next', head)
  BY <1>0, <1>1, FreeListTypes, ReachFrame, AcyclicFrame
<1> QED
  BY <1>2 DEF FreeList

(* Who is giving a slot back can do so: it is not on the list.             *)
LEMMA PushedIsOff ==
    ASSUME SInv
    PROVE  /\ OwnerPush => owner.other \in Slots \ FreeList
           /\ \A w \in Workers : WorkerPush(w) => worker[w].slot \in Slots \ FreeList
           /\ AcquireInit => owner.slot \in Slots \ FreeList
<1>1. OwnerPush => owner.other \in Slots \ FreeList
  BY DEF OwnerPush, SInv, OwnerInv, PlaceInv, OwnerPushes
<1>2. ASSUME NEW w \in Workers, WorkerPush(w) PROVE worker[w].slot \in Slots \ FreeList
  BY <1>2 DEF WorkerPush, SInv, WorkerInv, StageInv, PlaceInv, Pushing
<1>3. AcquireInit => owner.slot \in Slots \ FreeList
  BY DEF AcquireInit, SInv, OwnerInv, PlaceInv, Takes
<1> QED
  BY <1>1, <1>2, <1>3

(* The workers between their push and their release.                       *)
LEMMA ReleasersFinite ==
    /\ IsFiniteSet({w \in Workers : worker[w].at = "release"})
    /\ Cardinality({w \in Workers : worker[w].at = "release"}) \in Nat
    /\ Releasing \in Nat
<1>1. IsFiniteSet({w \in Workers : worker[w].at = "release"})
  BY FS_Subset
<1>2. Cardinality({w \in Workers : worker[w].at = "release"}) \in Nat
  BY <1>1, FS_CardinalityType
<1> QED
  BY <1>1, <1>2 DEF Releasing

(* The first slot of the list, while acquire() has been promised one.      *)
LEMMA HeadIsFree ==
    ASSUME SInv, Acquiring = 1
    PROVE  head \in Slots /\ head \in FreeList
<1>1. IsFiniteSet(FreeList)
  BY FreeListTypes, FS_Subset
<1>2. Cardinality(FreeList) # 0
  BY ReleasersFinite DEF SInv, Types, FreeTypes, FreeInv
<1>3. FreeList # {}
  BY <1>1, <1>2, FS_EmptySet
<1> QED
  BY <1>3, FreeListTypes, ReachFirst DEF FreeList

(* FreeInv: the list only changes by the exchanges of acquire() and of     *)
(* recycle_slot, and the semaphore follows.                                *)
LEMMA FreeStep ==
    ASSUME SInv, [SchedNext]_vars
    PROVE  FreeInv'
<1> DEFINE At == {w \in Workers : worker[w].at = "release"}
<1>0. /\ OwnerType /\ WorkerType /\ count \in Nat
      /\ count + Releasing + Acquiring = Cardinality(FreeList)
      /\ Releasing = Cardinality(At) + (IF owner.at = "release" THEN 1 ELSE 0)
      /\ owner.at \in {"next", "cas"} => owner.slot \in FreeList
      /\ owner.at = "cas" => owner.other = next[owner.slot]
  BY DEF SInv, Types, FreeTypes, FreeInv, Releasing
<1>f. FreeTypes'
  BY FreeTypesStep
<1>c. /\ IsFiniteSet(At) /\ Cardinality(At) \in Nat
      /\ IsFiniteSet(FreeList) /\ Cardinality(FreeList) \in Nat
  BY ReleasersFinite, FreeListTypes, FS_Subset, FS_CardinalityType
<1>r. Releasing' = Cardinality(At') + (IF owner'.at = "release" THEN 1 ELSE 0)
  BY DEF Releasing
<1> HIDE DEF At
<1>w. worker' = worker => At' = At
  BY DEF At
(* Steps that leave the list and the semaphore alone.                      *)
<1>1. ASSUME UNCHANGED freeVars, At' = At, owner'.at = "release" <=> owner.at = "release",
             Acquiring' = Acquiring,
             owner'.at \in {"next", "cas"} => owner'.slot \in FreeList,
             owner'.at = "cas" => owner'.other = next[owner'.slot]
      PROVE  FreeInv'
  <2>1. FreeList' = FreeList /\ Acyclic(Slots, next, head)'
    BY <1>1, <1>f, ListStill DEF freeVars
  <2> QED
    BY <1>0, <1>1, <1>r, <2>1 DEF FreeInv, freeVars
<1>2. ASSUME Owns PROVE FreeInv'
  <2>0. At' = At
    BY <1>2, <1>w, OwnsLeavesWorkers
  <2>1. CASE AcquireCall
    BY <1>0, <1>1, <2>0, <2>1 DEF AcquireCall, OwnerGoes, OwnerType, Acquiring
  <2>2. CASE AcquireCount
    <3>1. /\ owner.at = "sem" /\ owner'.at = "load" /\ count' = count - 1 /\ count > 0
          /\ UNCHANGED <<head, next>>
      BY <1>0, <2>2 DEF AcquireCount, Decrement, OwnerGoes, OwnerType
    <3>2. FreeList' = FreeList /\ Acyclic(Slots, next, head)'
      BY <1>f, <3>1, ListStill
    <3> QED
      BY <1>0, <1>c, <1>r, <2>0, <3>1, <3>2 DEF FreeInv, Acquiring
  <2>3. CASE AcquireLoad
    <3>1. Acquiring = 1
      BY <2>3 DEF AcquireLoad, Acquiring
    <3>2. owner'.at = "next" /\ owner'.slot = head /\ owner.at = "load"
      BY <1>0, <2>3 DEF AcquireLoad, OwnerType
    <3> QED
      BY <1>1, <2>0, <2>3, <3>1, <3>2, HeadIsFree DEF AcquireLoad, Acquiring
  <2>4. CASE AcquireNext
    <3>1. /\ owner.at = "next" /\ owner'.at = "cas" /\ owner'.slot = owner.slot
          /\ owner'.other = next[owner.slot]
      BY <1>0, <2>4 DEF AcquireNext, OwnerType
    <3> QED
      BY <1>0, <1>1, <2>0, <2>4, <3>1 DEF AcquireNext, Acquiring
  <2>5. CASE AcquireExchange /\ head = owner.slot
    <3>1. owner.at = "cas" /\ owner'.at = "init" /\ count' = count
      BY <1>0, <2>5 DEF AcquireExchange, OwnerType
    <3>2. /\ Acyclic(Slots, next, head)' /\ FreeList' = FreeList \ {owner.slot}
          /\ owner.slot \in FreeList
      BY <2>5, PopStep
    <3>3. Cardinality(FreeList') = Cardinality(FreeList) - 1
      BY <1>c, <3>2, OneLess
    <3> QED
      BY <1>0, <1>c, <1>r, <2>0, <3>1, <3>2, <3>3 DEF FreeInv, Acquiring
  <2>6. CASE AcquireExchange /\ head # owner.slot
    <3>1. owner.at = "cas" /\ owner'.at = "next" /\ owner'.slot = head /\ UNCHANGED freeVars
      BY <1>0, <2>6 DEF AcquireExchange, OwnerType, freeVars
    <3>2. Acquiring = 1 /\ Acquiring' = 1
      BY <3>1 DEF Acquiring
    <3> QED
      BY <1>1, <2>0, <3>1, <3>2, HeadIsFree
  <2>7. CASE AcquireInit
    <3>1. owner.at = "init" /\ owner'.at = "open" /\ count' = count /\ head' = head
      BY <1>0, <2>7 DEF AcquireInit, OwnerGoes, OwnerType
    <3>2. \A n \in FreeList : next'[n] = next[n]
      BY <2>7, PushedIsOff, FreeListTypes DEF AcquireInit
    <3>3. FreeList' = FreeList /\ Acyclic(Slots, next, head)'
      BY <1>f, <3>1, <3>2, ListStill
    <3> QED
      BY <1>0, <1>r, <2>0, <3>1, <3>3 DEF FreeInv, Acquiring
  <2>8. CASE OwnerPush
    <3>1. owner.at = "push" /\ owner'.at = "release" /\ count' = count
      BY <1>0, <2>8 DEF OwnerPush, OwnerGoes, OwnerType
    <3>2. owner.other \in Slots \ FreeList /\ Push(owner.other)
      BY <2>8, PushedIsOff DEF OwnerPush
    <3>3. FreeList' = FreeList \cup {owner.other} /\ Acyclic(Slots, next, head)'
      BY <1>f, <3>2, PushStep
    <3>4. Cardinality(FreeList') = Cardinality(FreeList) + 1
      BY <1>c, <3>2, <3>3, OneMore
    <3> QED
      BY <1>0, <1>c, <1>r, <2>0, <3>1, <3>3, <3>4 DEF FreeInv, Acquiring
  <2>9. CASE OwnerRelease
    <3>1. /\ owner.at = "release" /\ owner'.at = "idle" /\ count' = count + 1
          /\ UNCHANGED <<head, next>>
      BY <2>9 DEF OwnerRelease, OwnerIdle, Release
    <3>2. FreeList' = FreeList /\ Acyclic(Slots, next, head)'
      BY <1>f, <3>1, ListStill
    <3> QED
      BY <1>0, <1>c, <1>r, <2>0, <3>1, <3>2 DEF FreeInv, Acquiring
  <2>10. CASE AcquireOpen \/ SubmitEnqueue
    BY <1>0, <1>1, <2>0, <2>10 DEF AcquireOpen, SubmitEnqueue, OwnerIdle, Acquiring
  <2>11. CASE \/ AddDependencyRegister \/ AddDependencyPublish \/ AddDependencyUnpin
    BY <1>0, <1>1, <2>0, <2>11
    DEF AddDependencyRegister, AddDependencyPublish, AddDependencyUnpin, OwnerGoes,
        OwnerIdle, OwnerType, Acquiring
  <2>12. ASSUME NEW c \in Slots, NEW s \in Slots, NEW g \in 1 .. MaxGen,
                AddDependencyPin(c, s, g)
         PROVE  FreeInv'
    BY <1>0, <1>1, <2>0, <2>12 DEF AddDependencyPin, Acquiring
  <2>13. ASSUME NEW c \in Slots, Submit(c) PROVE FreeInv'
    BY <1>0, <1>1, <2>0, <2>13 DEF Submit, Acquiring
  <2> QED
    BY <1>2, <2>1, <2>2, <2>3, <2>4, <2>5, <2>6, <2>7, <2>8, <2>9, <2>10, <2>11,
       <2>12, <2>13
    DEF Owns
<1>3. CASE Waits \/ UNCHANGED vars
  BY <1>0, <1>1, <1>3, <1>w, WaitsOnlyWaits DEF Acquiring
<1>4. ASSUME NEW w \in Workers, Works(w) PROVE FreeInv'
  <2>0. owner' = owner
    BY <1>4
    DEF Works, Take, Execute, Spawn, Leave, CompleteJob, NotifyConsumer, ReturnReady,
        IssueReady, FinishIssue, MarkCompleted, NotifyWaiters, SetCompletedBit,
        WorkerPush, WorkerRelease, threadVars
  <2>1. CASE WorkerPush(w)
    <3>1. worker[w].slot \in Slots \ FreeList /\ Push(worker[w].slot) /\ count' = count
      BY <2>1, PushedIsOff DEF WorkerPush
    <3>2. /\ FreeList' = FreeList \cup {worker[w].slot} /\ Acyclic(Slots, next, head)'
          /\ \A n \in FreeList : next'[n] = next[n]
      BY <1>f, <3>1, PushStep
    <3>3. Cardinality(FreeList') = Cardinality(FreeList) + 1
      BY <1>c, <3>1, <3>2, OneMore
    <3>4. At' = At \cup {w} /\ w \notin At
      BY <1>0, <2>1, WorkerPlaces DEF WorkerPush, At
    <3>5. Cardinality(At') = Cardinality(At) + 1
      BY <1>c, <3>4, OneMore
    <3> QED
      BY <1>0, <1>c, <1>r, <2>0, <3>1, <3>2, <3>3, <3>5 DEF FreeInv, Acquiring
  <2>2. CASE WorkerRelease(w)
    <3>1. count' = count + 1 /\ UNCHANGED <<head, next>>
      BY <2>2 DEF WorkerRelease, Release
    <3>2. FreeList' = FreeList /\ Acyclic(Slots, next, head)'
      BY <1>f, <3>1, ListStill
    <3>3. At' = At \ {w} /\ w \in At
      BY <1>0, <2>2, WorkerPlaces DEF WorkerRelease, At
    <3>4. Cardinality(At') = Cardinality(At) - 1
      BY <1>c, <3>3, OneLess
    <3> QED
      BY <1>0, <1>c, <1>r, <2>0, <3>1, <3>2, <3>4 DEF FreeInv, Acquiring
  <2>3. CASE ~WorkerPush(w) /\ ~WorkerRelease(w)
    <3>1. UNCHANGED freeVars
      BY <1>4, <2>3
      DEF Works, Take, Execute, Spawn, Leave, CompleteJob, NotifyConsumer, ReturnReady,
          IssueReady, FinishIssue, MarkCompleted, NotifyWaiters, SetCompletedBit
    <3>2. CASE worker' = worker
      BY <1>0, <1>1, <1>w, <2>0, <3>1, <3>2 DEF Acquiring
    <3>3. CASE /\ \A v \in Workers \ {w} : worker'[v] = worker[v]
               /\ worker[w].at # "release" /\ worker'[w].at # "release"
      <4>1. At' = At
        BY <3>3 DEF At
      <4> QED
        BY <1>0, <1>1, <2>0, <3>1, <4>1 DEF Acquiring
    <3>4. CASE \E s \in Slots : Take(w, s)
      BY <1>0, <3>3, <3>4, WorkerPlaces DEF Take
    <3>5. CASE \E k \in 0 .. MaxKids : Execute(w, k)
      <4>1. PICK k \in 0 .. MaxKids : Execute(w, k)
        BY <3>5
      <4>2. worker[w].at = "body"
        BY <4>1 DEF Execute
      <4> QED
        BY <1>0, <3>3, <4>1, <4>2, WorkerPlaces
    <3>6. CASE Spawn(w)
      <4>1. worker[w].at = "spawn"
        BY <3>6 DEF Spawn
      <4> QED
        BY <1>0, <3>3, <3>6, <4>1, WorkerPlaces
    <3>7. CASE \/ Leave(w) \/ CompleteJob(w) \/ ReturnReady(w) \/ FinishIssue(w)
               \/ MarkCompleted(w) \/ NotifyWaiters(w) \/ SetCompletedBit(w)
      BY <1>0, <3>3, <3>7, WorkerPlaces
      DEF Leave, CompleteJob, ReturnReady, FinishIssue, MarkCompleted, NotifyWaiters,
          SetCompletedBit
    <3>8. CASE \E n \in Node : NotifyConsumer(w, n) \/ IssueReady(w, n)
      BY <3>2, <3>8 DEF NotifyConsumer, IssueReady, threadVars
    <3> QED
      BY <1>4, <2>3, <3>4, <3>5, <3>6, <3>7, <3>8 DEF Works
  <2> QED
    BY <2>1, <2>2, <2>3
<1> QED
  BY <1>2, <1>3, <1>4 DEF SchedNext

(* The workers' pushes: nobody else starts or ends one.                    *)
LEMMA PushingSame ==
    ASSUME WorkerType, NEW w \in Workers, Works(w), ~SetCompletedBit(w), ~WorkerPush(w)
    PROVE  \A s, v : v \in Workers => (Pushing(v, s)' <=> Pushing(v, s))
<1> USE DEF Pushing
<1>1. CASE worker' = worker
  BY <1>1
<1>2. CASE /\ \A v \in Workers \ {w} : worker'[v] = worker[v]
           /\ worker[w].at # "push" /\ worker'[w].at # "push"
  BY <1>2
<1>3. CASE \E s \in Slots : Take(w, s)
  BY <1>2, <1>3, WorkerPlaces DEF Take
<1>4. ASSUME NEW k \in 0 .. MaxKids, Execute(w, k)
      PROVE  \A s, v : v \in Workers => (Pushing(v, s)' <=> Pushing(v, s))
  <2>1. worker[w].at = "body"
    BY <1>4 DEF Execute
  <2> QED
    BY <1>2, <1>4, <2>1, WorkerPlaces
<1>5. CASE Spawn(w)
  <2>1. worker[w].at = "spawn"
    BY <1>5 DEF Spawn
  <2> QED
    BY <1>2, <1>5, <2>1, WorkerPlaces
<1>6. CASE \/ Leave(w) \/ CompleteJob(w) \/ ReturnReady(w) \/ FinishIssue(w)
           \/ MarkCompleted(w) \/ NotifyWaiters(w) \/ WorkerRelease(w)
  BY <1>2, <1>6, WorkerPlaces
  DEF Leave, CompleteJob, ReturnReady, FinishIssue, MarkCompleted, NotifyWaiters,
      WorkerRelease
<1>7. CASE \E n \in Node : NotifyConsumer(w, n) \/ IssueReady(w, n)
  BY <1>1, <1>7 DEF NotifyConsumer, IssueReady, threadVars
<1> QED
  BY <1>3, <1>4, <1>5, <1>6, <1>7 DEF Works

(* PlaceInv: a slot goes from one place to the next, and one thread takes  *)
(* it there.                                                               *)
LEMMA PlaceStep ==
    ASSUME SInv, [SchedNext]_vars
    PROVE  PlaceInv'
<1> DEFINE Place(s) ==
             /\ \/ s \in FreeList \/ Takes(s) \/ InUse(s) \/ OwnerPushes(s)
                \/ \E w \in Workers : Pushing(w, s)
             /\ s \in FreeList => ~Takes(s) /\ ~InUse(s) /\ ~OwnerPushes(s)
             /\ Takes(s) => ~InUse(s)
             /\ OwnerPushes(s) => ~InUse(s)
             /\ \A w \in Workers : Pushing(w, s) =>
                   /\ s \notin FreeList /\ ~Takes(s) /\ ~InUse(s) /\ ~OwnerPushes(s)
                   /\ \A v \in Workers : Pushing(v, s) => v = w
<1>0. OwnerType /\ OwnerInv /\ SlotTypes /\ WorkerType
  BY DEF SInv, Types
<1>f. FreeTypes'
  BY FreeTypesStep
<1>s. SUFFICES ASSUME NEW t \in Slots PROVE Place(t)'
  BY DEF PlaceInv
<1>t. Place(t)
  BY DEF SInv, PlaceInv
<1>e. ASSUME t \in FreeList' <=> t \in FreeList, Takes(t)' <=> Takes(t),
             InUse(t)' <=> InUse(t), OwnerPushes(t)' <=> OwnerPushes(t),
             \A w \in Workers : Pushing(w, t)' <=> Pushing(w, t)
      PROVE  Place(t)'
  BY <1>e, <1>t
<1>1. UNCHANGED freeVars => FreeList' = FreeList
  BY <1>f, ListStill DEF freeVars
<1>2. UNCHANGED lifecycle => (InUse(t)' <=> InUse(t))
  BY DEF InUse
<1>3. ASSUME Owns PROVE Place(t)'
  <2>0. \A w \in Workers : Pushing(w, t)' <=> Pushing(w, t)
    BY <1>3, OwnsLeavesWorkers DEF Pushing
  <2>1. CASE AcquireCall \/ AcquireCount \/ AcquireLoad \/ AcquireNext
    <3>1. /\ ~Takes(t) /\ ~Takes(t)' /\ ~OwnerPushes(t) /\ ~OwnerPushes(t)'
          /\ UNCHANGED lifecycle
      BY <1>0, <2>1
      DEF AcquireCall, AcquireCount, AcquireLoad, AcquireNext, OwnerGoes, OwnerType,
          Takes, OwnerPushes, slotVars
    <3>2. FreeList' = FreeList
      BY <1>f, <2>1, ListStill
      DEF AcquireCall, AcquireCount, AcquireLoad, AcquireNext, freeVars
    <3> QED
      BY <1>2, <1>e, <2>0, <3>1, <3>2
  <2>2. CASE AcquireExchange /\ head = owner.slot
    <3>1. /\ owner.at = "cas" /\ owner'.at = "init" /\ owner'.slot = owner.slot
          /\ UNCHANGED lifecycle
      BY <1>0, <2>2 DEF AcquireExchange, OwnerType, slotVars
    <3>2. owner.slot \in FreeList /\ FreeList' = FreeList \ {owner.slot}
      BY <2>2, PopStep
    <3>3. CASE t = owner.slot
      <4>1. Takes(t)' /\ ~OwnerPushes(t)' /\ t \notin FreeList' /\ ~InUse(t)'
        BY <1>2, <1>t, <3>1, <3>2, <3>3 DEF Takes, OwnerPushes
      <4> QED
        BY <1>t, <2>0, <3>2, <3>3, <4>1
    <3>4. CASE t # owner.slot
      BY <1>2, <1>e, <2>0, <3>1, <3>2, <3>4 DEF Takes, OwnerPushes
    <3> QED
      BY <3>3, <3>4
  <2>3. CASE AcquireExchange /\ head # owner.slot
    <3>1. /\ ~Takes(t) /\ ~Takes(t)' /\ ~OwnerPushes(t) /\ ~OwnerPushes(t)'
          /\ UNCHANGED <<lifecycle, freeVars>>
      BY <1>0, <2>3 DEF AcquireExchange, OwnerType, Takes, OwnerPushes, slotVars, freeVars
    <3> QED
      BY <1>1, <1>2, <1>e, <2>0, <3>1
  <2>4. CASE AcquireInit
    <3>1. /\ owner.at = "init" /\ owner'.at = "open" /\ owner'.slot = owner.slot
          /\ UNCHANGED <<lifecycle, head>>
      BY <1>0, <2>4 DEF AcquireInit, OwnerGoes, OwnerType, slotVars
    <3>2. \A n \in FreeList : next'[n] = next[n]
      BY <2>4, PushedIsOff, FreeListTypes DEF AcquireInit
    <3>3. FreeList' = FreeList
      BY <1>f, <3>1, <3>2, ListStill
    <3> QED
      BY <1>2, <1>e, <2>0, <3>1, <3>3 DEF Takes, OwnerPushes
  <2>5. CASE AcquireOpen
    <3>1. /\ owner.slot \in Slots /\ owner.at = "open" /\ owner'.at = "idle"
          /\ UNCHANGED freeVars
      BY <1>0, <2>5 DEF AcquireOpen, OwnerInv, OwnerIdle
    <3>2. CASE t = owner.slot
      <4>1. Takes(t) /\ ~Takes(t)' /\ ~OwnerPushes(t)' /\ FreeList' = FreeList
        BY <1>1, <3>1, <3>2 DEF Takes, OwnerPushes
      <4>2. ~lifecycle'[t].done
        BY <1>0, <2>5, <3>1, <3>2 DEF AcquireOpen, SlotTypes
      <4>3. InUse(t)'
        BY <4>2 DEF InUse
      <4> QED
        BY <1>t, <2>0, <4>1, <4>3
    <3>3. CASE t # owner.slot
      <4>1. lifecycle'[t] = lifecycle[t]
        BY <1>0, <2>5, <3>1, <3>3 DEF AcquireOpen, SlotTypes
      <4> QED
        BY <1>1, <1>e, <2>0, <3>1, <3>3, <4>1 DEF Takes, OwnerPushes, InUse
    <3> QED
      BY <3>2, <3>3
  <2>6. ASSUME NEW c \in Slots, NEW s \in Slots, NEW g \in 1 .. MaxGen,
               AddDependencyPin(c, s, g)
        PROVE  Place(t)'
    <3>1. /\ owner.at = "idle" /\ owner'.at = "register" /\ UNCHANGED freeVars
          /\ ~lifecycle[s].done
      BY <2>6 DEF AddDependencyPin, Pinnable
    <3>2. InUse(t)' <=> InUse(t)
      BY <1>0, <2>6, <3>1 DEF AddDependencyPin, InUse, SlotTypes
    <3> QED
      BY <1>1, <1>e, <2>0, <3>1, <3>2 DEF Takes, OwnerPushes
  <2>7. CASE AddDependencyRegister \/ AddDependencyPublish
    <3>1. /\ ~Takes(t) /\ ~Takes(t)' /\ ~OwnerPushes(t) /\ ~OwnerPushes(t)'
          /\ UNCHANGED <<lifecycle, freeVars>>
      BY <1>0, <2>7
      DEF AddDependencyRegister, AddDependencyPublish, OwnerGoes, OwnerType, Takes,
          OwnerPushes, slotVars
    <3> QED
      BY <1>1, <1>2, <1>e, <2>0, <3>1
  <2>8. CASE AddDependencyUnpin
    <3> DEFINE s == owner.other
    <3>1. /\ s \in Slots /\ lifecycle[s].pins = 1 /\ owner.at = "unpin" /\ UNCHANGED freeVars
      BY <1>0, <2>8 DEF AddDependencyUnpin, OwnerInv, SInv, PinInv, Pins
    <3>2. /\ \A u \in Slots \ {s} : lifecycle'[u] = lifecycle[u]
          /\ lifecycle'[s].done <=> lifecycle[s].done
          /\ lifecycle'[s].pins = 0
      BY <1>0, <2>8, <3>1 DEF AddDependencyUnpin, SlotTypes
    <3>3. /\ ~Takes(t) /\ ~Takes(t)' /\ ~OwnerPushes(t)
          /\ OwnerPushes(t)' <=> t = s /\ lifecycle[s].done
      BY <1>0, <2>8, <3>1
      DEF AddDependencyUnpin, UnpinRecycles, OwnerGoes, OwnerIdle, OwnerType, Takes,
          OwnerPushes
    <3>4. CASE t = s
      <4>1. InUse(t) /\ (InUse(t)' <=> ~lifecycle[s].done)
        BY <3>1, <3>2, <3>4 DEF InUse
      <4> QED
        BY <1>1, <1>t, <2>0, <3>1, <3>3, <3>4, <4>1
    <3>5. CASE t # s
      <4>1. InUse(t)' <=> InUse(t)
        BY <3>2, <3>5 DEF InUse
      <4> QED
        BY <1>1, <1>e, <2>0, <3>1, <3>3, <3>5, <4>1
    <3> QED
      BY <3>4, <3>5
  <2>9. CASE OwnerPush
    <3>1. /\ owner.at = "push" /\ owner'.at = "release" /\ UNCHANGED lifecycle
      BY <1>0, <2>9 DEF OwnerPush, OwnerGoes, OwnerType, slotVars
    <3>2. owner.other \in Slots \ FreeList /\ Push(owner.other)
      BY <2>9, PushedIsOff DEF OwnerPush
    <3>3. FreeList' = FreeList \cup {owner.other}
      BY <1>f, <3>2, PushStep
    <3>4. ~Takes(t) /\ ~Takes(t)' /\ ~OwnerPushes(t)' /\ (OwnerPushes(t) <=> t = owner.other)
      BY <3>1 DEF Takes, OwnerPushes
    <3> QED
      BY <1>2, <1>t, <2>0, <3>1, <3>3, <3>4
  <2>10. CASE OwnerRelease \/ SubmitEnqueue
    <3>1. /\ ~Takes(t) /\ ~Takes(t)' /\ ~OwnerPushes(t) /\ ~OwnerPushes(t)'
          /\ UNCHANGED <<lifecycle, head, next>>
      BY <2>10
      DEF OwnerRelease, SubmitEnqueue, OwnerIdle, Takes, OwnerPushes, slotVars, freeVars
    <3>2. FreeList' = FreeList
      BY <1>f, <3>1, ListStill
    <3> QED
      BY <1>2, <1>e, <2>0, <3>1, <3>2
  <2>11. ASSUME NEW c \in Slots, Submit(c) PROVE Place(t)'
    <3>1. /\ ~Takes(t) /\ ~Takes(t)' /\ ~OwnerPushes(t) /\ ~OwnerPushes(t)'
          /\ UNCHANGED <<lifecycle, freeVars>>
      BY <2>11 DEF Submit, Takes, OwnerPushes, slotVars
    <3> QED
      BY <1>1, <1>2, <1>e, <2>0, <3>1
  <2> QED
    BY <1>3, <2>1, <2>2, <2>3, <2>4, <2>5, <2>6, <2>7, <2>8, <2>9, <2>10, <2>11 DEF Owns
<1>4. CASE Waits \/ UNCHANGED vars
  BY <1>1, <1>2, <1>4, <1>e, WaitsOnlyWaits DEF slotVars, Takes, OwnerPushes, Pushing
<1>5. ASSUME NEW w \in Workers, Works(w) PROVE Place(t)'
  <2> DEFINE s == worker[w].slot
  <2>0. (Takes(t)' <=> Takes(t)) /\ (OwnerPushes(t)' <=> OwnerPushes(t))
    <3>1. owner' = owner
      BY <1>5
      DEF Works, Take, Execute, Spawn, Leave, CompleteJob, NotifyConsumer, ReturnReady,
          IssueReady, FinishIssue, MarkCompleted, NotifyWaiters, SetCompletedBit,
          WorkerPush, WorkerRelease, threadVars
    <3> QED
      BY <3>1 DEF Takes, OwnerPushes
  <2>1. CASE SetCompletedBit(w)
    <3>1. /\ s \in Slots /\ ~lifecycle[s].done /\ UNCHANGED freeVars
          /\ worker[w].at = "orbit"
      BY <2>1 DEF SetCompletedBit, SInv, WorkerInv, StageInv
    <3>2. /\ \A u \in Slots \ {s} : lifecycle'[u] = lifecycle[u]
          /\ lifecycle'[s].done
          /\ lifecycle'[s].pins = lifecycle[s].pins
          /\ lifecycle[s].pins \in 0 .. 1
      BY <1>0, <2>1, <3>1 DEF SetCompletedBit, SlotTypes
    <3>3. /\ \A v \in Workers \ {w} : worker'[v] = worker[v]
          /\ IF lifecycle[s].pins = 0
             THEN worker'[w].at = "push" /\ worker'[w].slot = s
             ELSE worker'[w].at = "idle"
      BY <1>0, <2>1, WorkerPlaces DEF SetCompletedBit, CompletionRecycles
    <3>4. /\ \A v \in Workers \ {w} : Pushing(v, t)' <=> Pushing(v, t)
          /\ ~Pushing(w, t)
          /\ Pushing(w, t)' <=> t = s /\ lifecycle[s].pins = 0
      BY <3>1, <3>3 DEF Pushing
    <3>5. CASE t = s
      <4>1. InUse(t) /\ (InUse(t)' <=> lifecycle[s].pins # 0)
        BY <3>1, <3>2, <3>5 DEF InUse
      <4>2. FreeList' = FreeList
        BY <1>1, <3>1
      <4>3. \A v \in Workers : ~Pushing(v, t)
        BY <1>t, <4>1
      <4> QED
        BY <1>t, <2>0, <3>4, <3>5, <4>1, <4>2, <4>3
    <3>6. CASE t # s
      <4>1. InUse(t)' <=> InUse(t)
        BY <3>2, <3>6 DEF InUse
      <4> QED
        BY <1>1, <1>e, <2>0, <3>1, <3>4, <3>6, <4>1
    <3> QED
      BY <3>5, <3>6
  <2>2. CASE WorkerPush(w)
    <3>1. /\ s \in Slots \ FreeList /\ Push(s) /\ UNCHANGED lifecycle /\ worker[w].at = "push"
      BY <2>2, PushedIsOff DEF WorkerPush, slotVars
    <3>2. FreeList' = FreeList \cup {s}
      BY <1>f, <3>1, PushStep
    <3>3. /\ \A v \in Workers \ {w} : Pushing(v, t)' <=> Pushing(v, t)
          /\ ~Pushing(w, t)'
          /\ Pushing(w, t) <=> t = s
      BY <1>0, <2>2, <3>1, WorkerPlaces DEF WorkerPush, Pushing
    <3> QED
      BY <1>2, <1>t, <2>0, <3>1, <3>2, <3>3
  <2>3. CASE ~SetCompletedBit(w) /\ ~WorkerPush(w)
    <3>1. UNCHANGED <<head, next, lifecycle>>
      BY <1>5, <2>3
      DEF Works, Take, Execute, Spawn, Leave, CompleteJob, NotifyConsumer, ReturnReady,
          IssueReady, FinishIssue, MarkCompleted, NotifyWaiters, WorkerRelease, freeVars,
          slotVars
    <3>2. FreeList' = FreeList
      BY <1>f, <3>1, ListStill
    <3>3. \A v \in Workers : Pushing(v, t)' <=> Pushing(v, t)
      BY <1>0, <1>5, <2>3, PushingSame
    <3> QED
      BY <1>2, <1>e, <2>0, <3>1, <3>2, <3>3
  <2> QED
    BY <2>1, <2>2, <2>3
<1> QED
  BY <1>3, <1>4, <1>5 DEF SchedNext

(* The generation of a slot never goes back.                               *)
LEMMA LifecycleGrows ==
    ASSUME SInv, [SchedNext]_vars, NEW s \in Slots
    PROVE  lifecycle'[s].gen >= lifecycle[s].gen
<1>0. SlotTypes /\ lifecycle[s].gen \in Nat
  BY DEF SInv, Types, SlotTypes
<1>1. CASE AcquireOpen
  <2>1. owner.slot \in Slots
    BY <1>1 DEF AcquireOpen, SInv, OwnerInv
  <2>2. lifecycle'[s].gen = lifecycle[s].gen + (IF s = owner.slot THEN 1 ELSE 0)
    BY <1>0, <1>1, <2>1 DEF AcquireOpen, SlotTypes
  <2> QED
    BY <1>0, <2>2
<1>2. ASSUME NEW c \in Slots, NEW u \in Slots, NEW g \in 1 .. MaxGen,
             AddDependencyPin(c, u, g)
      PROVE  lifecycle'[s].gen = lifecycle[s].gen
  BY <1>0, <1>2 DEF AddDependencyPin, SlotTypes
<1>3. ASSUME AddDependencyUnpin PROVE lifecycle'[s].gen = lifecycle[s].gen
  <2>1. owner.other \in Slots
    BY <1>3 DEF AddDependencyUnpin, SInv, OwnerInv
  <2> QED
    BY <1>0, <1>3, <2>1 DEF AddDependencyUnpin, SlotTypes
<1>4. ASSUME NEW w \in Workers, SetCompletedBit(w)
      PROVE  lifecycle'[s].gen = lifecycle[s].gen
  <2>1. worker[w].slot \in Slots
    BY <1>4 DEF SetCompletedBit, SInv, WorkerInv, StageInv
  <2> QED
    BY <1>0, <1>4, <2>1 DEF SetCompletedBit, SlotTypes
<1>5. \/ AcquireOpen \/ AddDependencyUnpin
      \/ \E c, u \in Slots, g \in 1 .. MaxGen : AddDependencyPin(c, u, g)
      \/ \E w \in Workers : SetCompletedBit(w)
      \/ UNCHANGED lifecycle
  BY DEF SchedNext, Owns, AcquireCall, AcquireCount, AcquireLoad, AcquireNext,
      AcquireExchange, AcquireInit, AddDependencyRegister, AddDependencyPublish,
      OwnerPush, OwnerRelease, Submit, SubmitEnqueue, Works, Take, Execute, Spawn,
      Leave, CompleteJob, NotifyConsumer, ReturnReady, IssueReady, FinishIssue,
      MarkCompleted, NotifyWaiters, WorkerPush, WorkerRelease, Waits, WaitSteps,
      WaitCall, WaitLoadGen, WaitLoadLifecycle, WaitSleep, WaitReturn, vars, slotVars
<1> QED
  BY <1>0, <1>1, <1>2, <1>3, <1>4, <1>5

(* The generations of a slot that are over have finished.                  *)
LEMMA OlderIsFinished ==
    ASSUME SInv, NEW s \in Slots, NEW g \in Nat, g < lifecycle[s].gen
    PROVE  Finished(s, g)
<1>1. /\ gen[s] = lifecycle[s].gen + (IF Opens(s) THEN 1 ELSE 0)
      /\ lifecycle[s].gen \in Nat
  BY DEF SInv, LifeInv, Types, SlotTypes
<1> QED
  BY <1>1 DEF Finished

(* WaiterInv: what wait() has read of a slot stays true of the generation  *)
(* it waits for, also after the slot was reused.                           *)
LEMMA WaiterStep ==
    ASSUME SInv, [SchedNext]_vars
    PROVE  WaiterInv'
<1>0. /\ MarkInv /\ SeenInv /\ SlotTypes /\ WaiterType
      /\ IInv /\ [Next]_boardVars
      /\ \A s \in Slots : completed[s] \in Nat /\ lifecycle[s].gen \in Nat
  BY BoardStep DEF SInv, Types, SlotTypes, WaiterInv
<1>s. SlotTypes'
  BY SlotTypesStep
<1>1. ASSUME NEW s \in Slots, completed'[s] > 0 PROVE Finished(s, completed[s])'
  <2>1. CASE completed'[s] = completed[s]
    BY <1>0, <1>1, <2>1, FinishedStable DEF MarkInv, Finished
  <2>2. ASSUME NEW w \in Workers, MarkCompleted(w), s = worker[w].slot
        PROVE  Finished(s, completed[s])'
    <3>1. phase[s] = "done" /\ completed'[s] = lifecycle[s].gen /\ UNCHANGED boardVars
      BY <1>0, <2>2 DEF MarkCompleted, SInv, WorkerInv, StageInv, SlotTypes
    <3>2. gen[s] = lifecycle[s].gen /\ s \in sealed
      <4>1. ~Opens(s) /\ s \in sealed
        BY <3>1 DEF SInv, LifeInv, IInv, SealInv
      <4>2. gen[s] = lifecycle[s].gen + 0
        BY <4>1 DEF SInv, LifeInv
      <4> QED
        BY <1>0, <4>1, <4>2
    <3> QED
      BY <3>1, <3>2 DEF Finished, boardVars
  <2>3. \/ completed'[s] = completed[s]
        \/ \E w \in Workers : MarkCompleted(w) /\ s = worker[w].slot
    <3>1. ASSUME NEW w \in Workers, MarkCompleted(w), s # worker[w].slot
          PROVE  completed'[s] = completed[s]
      BY <1>0, <3>1 DEF MarkCompleted, SlotTypes
    <3>2. (\E w \in Workers : MarkCompleted(w)) \/ UNCHANGED completed
      BY DEF SchedNext, Owns, AcquireCall, AcquireCount, AcquireLoad, AcquireNext,
          AcquireExchange, AcquireInit, AcquireOpen, AddDependencyPin,
          AddDependencyRegister, AddDependencyPublish, AddDependencyUnpin, OwnerPush,
          OwnerRelease, Submit, SubmitEnqueue, Works, Take, Execute, Spawn, Leave,
          CompleteJob, NotifyConsumer, ReturnReady, IssueReady, FinishIssue,
          NotifyWaiters, SetCompletedBit, WorkerPush, WorkerRelease, Waits, WaitSteps,
          WaitCall, WaitLoadGen, WaitLoadLifecycle, WaitSleep, WaitReturn, vars, slotVars
    <3> QED
      BY <3>1, <3>2
  <2> QED
    BY <2>1, <2>2, <2>3
<1>2. ASSUME waiter'.at # "idle" => waiter.at # "idle", waiter'.id = waiter.id,
             waiter'.seen = waiter.seen,
             waiter'.at = "returned" => waiter.at = "returned"
      PROVE  SeenInv'
  <2> SUFFICES ASSUME waiter.at # "idle", waiter'.at # "idle" PROVE SeenInv'
    BY <1>2 DEF SeenInv
  <2>1. PICK s \in Slots, g \in Nat : waiter.id = <<s, g>>
    BY <1>0 DEF SeenInv
  <2>2. lifecycle'[s].gen >= lifecycle[s].gen /\ lifecycle'[s].gen \in Nat
    BY <1>s, LifecycleGrows DEF SlotTypes
  <2>3. waiter.seen \in Nat
    BY <1>0 DEF WaiterType
  <2>4. /\ g > 0 /\ g <= lifecycle[s].gen
        /\ waiter.seen > 0 => Finished(s, waiter.seen)
        /\ waiter.at = "returned" => Finished(s, g)
    BY <1>0, <2>1 DEF SeenInv
  <2>5. g > 0 /\ g <= lifecycle'[s].gen
    BY <1>0, <2>2, <2>4
  <2>6. waiter.seen > 0 => gen'[s] > waiter.seen \/ (gen'[s] = waiter.seen /\ s \in sealed')
    BY <1>0, <2>3, <2>4, FinishedStable
  <2>7. waiter.at = "returned" => gen'[s] > g \/ (gen'[s] = g /\ s \in sealed')
    BY <1>0, <2>4, FinishedStable
  <2> QED
    BY <1>2, <2>1, <2>5, <2>6, <2>7 DEF SeenInv, Finished
<1>3. ASSUME NEW s \in Slots, NEW g \in 1 .. MaxGen, WaitCall(s, g)
      PROVE  SeenInv'
  <2>1. /\ waiter' = [at |-> "gen", id |-> <<s, g>>, seen |-> 0]
        /\ UNCHANGED lifecycle /\ g <= lifecycle[s].gen
    BY <1>0, <1>3 DEF WaitCall, Submitted, slotVars
  <2> QED
    BY <2>1 DEF SeenInv
<1>4. ASSUME WaitLoadGen PROVE SeenInv'
  <2>1. /\ waiter'.id = waiter.id /\ waiter'.at = "life" /\ waiter.at # "idle"
        /\ waiter'.seen = completed[waiter.id[1]]
        /\ UNCHANGED <<boardVars, lifecycle>>
    BY <1>0, <1>4 DEF WaitLoadGen, WaiterType, slotVars
  <2>2. waiter.id[1] \in Slots
    BY <1>0, <2>1 DEF SeenInv
  <2>3. completed[waiter.id[1]] > 0 => Finished(waiter.id[1], completed[waiter.id[1]])
    BY <1>0, <2>2 DEF MarkInv
  <2> QED
    BY <1>0, <2>1, <2>3 DEF SeenInv, Finished, boardVars
<1>5. ASSUME WaitLoadLifecycle PROVE SeenInv'
  <2>1. /\ waiter'.id = waiter.id /\ waiter.at # "idle" /\ waiter'.seen = waiter.seen
        /\ waiter'.at = "returned" => WaitIsOver(waiter.id)
        /\ UNCHANGED <<boardVars, lifecycle>>
    BY <1>0, <1>5 DEF WaitLoadLifecycle, WaiterType, slotVars
  <2>2. PICK s \in Slots, g \in Nat : waiter.id = <<s, g>>
    BY <1>0, <2>1 DEF SeenInv
  <2>3. WaitIsOver(waiter.id) => Finished(s, g)
    <3>1. waiter.seen = g => Finished(s, g)
      BY <1>0, <2>1, <2>2 DEF SeenInv
    <3>2. lifecycle[s].gen # g => Finished(s, g)
      <4>1. g <= lifecycle[s].gen
        BY <1>0, <2>1, <2>2 DEF SeenInv
      <4> QED
        BY <1>0, <4>1, OlderIsFinished
    <3> QED
      BY <2>2, <3>1, <3>2 DEF WaitIsOver
  <2> QED
    BY <1>0, <2>1, <2>2, <2>3 DEF SeenInv, Finished, boardVars
<1>6. ASSUME WaitSleep PROVE SeenInv'
  <2>1. /\ waiter'.id = waiter.id /\ waiter.at # "idle" /\ waiter'.seen = waiter.seen
        /\ waiter'.at # "returned"
    BY <1>0, <1>6 DEF WaitSleep, WaiterType
  <2> QED
    BY <1>2, <2>1
<1>7. ASSUME WaitReturn PROVE SeenInv'
  BY <1>7 DEF WaitReturn, SeenInv
<1>8. ASSUME NEW w \in Workers, NotifyWaiters(w) PROVE SeenInv'
  <2>1. /\ waiter'.id = waiter.id /\ waiter'.seen = waiter.seen
        /\ waiter'.at # "idle" => waiter.at # "idle"
        /\ waiter'.at = "returned" => waiter.at = "returned"
    BY <1>0, <1>8 DEF NotifyWaiters, WakeAll, WaiterType
  <2> QED
    BY <1>2, <2>1
<1>9. \/ UNCHANGED waiter
      \/ WaitLoadGen \/ WaitLoadLifecycle \/ WaitSleep \/ WaitReturn
      \/ \E s \in Slots, g \in 1 .. MaxGen : WaitCall(s, g)
      \/ \E w \in Workers : NotifyWaiters(w)
  BY DEF SchedNext, Owns, AcquireCall, AcquireCount, AcquireLoad, AcquireNext,
      AcquireExchange, AcquireInit, AcquireOpen, AddDependencyPin,
      AddDependencyRegister, AddDependencyPublish, AddDependencyUnpin, OwnerPush,
      OwnerRelease, Submit, SubmitEnqueue, Works, Take, Execute, Spawn,
      Leave, CompleteJob, NotifyConsumer, ReturnReady, IssueReady, FinishIssue,
      MarkCompleted, SetCompletedBit, WorkerPush, WorkerRelease,
      threadVars, Waits, WaitSteps, vars
<1>10. SeenInv'
  BY <1>2, <1>3, <1>4, <1>5, <1>6, <1>7, <1>8, <1>9
<1>11. MarkInv'
  BY <1>1 DEF MarkInv
<1> QED
  BY <1>10, <1>11 DEF WaiterInv

(* A worker that has nothing to do holds no slot.                          *)
LEMMA RestStep ==
    ASSUME SInv, [SchedNext]_vars
    PROVE  RestInv'
<1>0. RestInv /\ WorkerType
  BY DEF SInv, Types
<1>1. CASE worker' = worker
  BY <1>0, <1>1 DEF RestInv
<1>2. ASSUME NEW w \in Workers, Works(w) PROVE RestInv'
  <2>1. CASE \E s \in Slots : Take(w, s)
    BY <1>0, <2>1 DEF Take, RestInv, WorkerType
  <2>2. ASSUME NEW k \in 0 .. MaxKids, Execute(w, k) PROVE RestInv'
    <3>1. worker' = [worker EXCEPT ![w].at = IF k = 0 THEN "leave" ELSE "spawn",
                                   ![w].left = k]
      BY <2>2 DEF Execute
    <3> QED
      BY <1>0, <3>1 DEF RestInv, WorkerType
  <2>3. CASE Spawn(w)
    BY <1>0, <2>3 DEF Spawn, RestInv, WorkerType
  <2>4. CASE WorkerIdle(w)
    BY <1>0, <2>4 DEF WorkerIdle, RestInv, WorkerType
  <2>5. ASSUME NEW at \in WorkerAt \ {"idle"}, WorkerGoes(w, at) PROVE RestInv'
    BY <1>0, <2>5 DEF WorkerGoes, RestInv, WorkerType
  <2>6. CASE Leave(w) \/ CompleteJob(w) \/ ReturnReady(w) \/ FinishIssue(w)
    BY <2>4, <2>5, <2>6
    DEF Leave, CompleteJob, ReturnReady, FinishIssue, WorkerAt
  <2>7. CASE MarkCompleted(w) \/ NotifyWaiters(w) \/ SetCompletedBit(w)
    BY <2>4, <2>5, <2>7
    DEF MarkCompleted, NotifyWaiters, SetCompletedBit, WorkerAt
  <2>8. CASE WorkerPush(w) \/ WorkerRelease(w)
    BY <2>4, <2>5, <2>8 DEF WorkerPush, WorkerRelease, WorkerAt
  <2>9. (\E n \in Node : NotifyConsumer(w, n) \/ IssueReady(w, n)) => worker' = worker
    BY DEF NotifyConsumer, IssueReady, threadVars
  <2> QED
    BY <1>1, <1>2, <2>1, <2>2, <2>3, <2>6, <2>7, <2>8, <2>9 DEF Works
<1>3. Owns \/ Waits \/ UNCHANGED vars => worker' = worker
  BY DEF Owns, AcquireCall, AcquireCount, AcquireLoad, AcquireNext, AcquireExchange,
      AcquireInit, AcquireOpen, AddDependencyPin, AddDependencyRegister,
      AddDependencyPublish, AddDependencyUnpin, OwnerPush, OwnerRelease, Submit,
      SubmitEnqueue, Waits, WaitSteps, WaitCall, WaitLoadGen, WaitLoadLifecycle,
      WaitSleep, WaitReturn, vars, threadVars
<1> QED
  BY <1>1, <1>2, <1>3 DEF SchedNext

-----------------------------------------------------------------------------
(* The constructor's list holds every slot and has no cycle.               *)
LEMMA ConstructedList ==
    ASSUME SchedInit
    PROVE  FreeTypes /\ FreeList = Slots /\ Acyclic(Slots, next, head)
<1> DEFINE len == Cardinality(Slots)
<1>1. len \in Nat \ {0}
  BY FS_CardinalityType, FS_EmptySet
<1>2. PICK order \in Bijection(1 .. len, Slots) :
        /\ head = order[1]
        /\ next = [s \in Slots |->
              LET i == CHOOSE j \in DOMAIN order : order[j] = s
              IN  IF i = len THEN NoSlot ELSE order[i + 1]]
  BY DEF SchedInit
<1> HIDE DEF len
<1>3. /\ order \in [1 .. len -> Slots] /\ DOMAIN order = 1 .. len
      /\ \A i, j \in 1 .. len : order[i] = order[j] => i = j
      /\ \A n \in Slots : \E i \in 1 .. len : order[i] = n
  BY DEF Bijection, Injection, Surjection, IsInjective
<1>4. ASSUME NEW s \in Slots, NEW i \in 1 .. len, order[i] = s
      PROVE  /\ next[s] = IF i = len THEN NoSlot ELSE order[i + 1]
             /\ next[s] \in SlotOrNone
  <2> DEFINE j == CHOOSE k \in DOMAIN order : order[k] = s
  <2>1. j \in 1 .. len /\ order[j] = s
    BY <1>3, <1>4
  <2>2. j = i
    BY <1>3, <1>4, <2>1
  <2>3. next[s] = IF j = len THEN NoSlot ELSE order[j + 1]
    BY <1>2
  <2> HIDE DEF j
  <2>4. i # len => i + 1 \in 1 .. len
    BY <1>1
  <2> QED
    BY <1>3, <2>2, <2>3, <2>4 DEF SlotOrNone
<1>5. next \in [Slots -> SlotOrNone]
  <2>1. \A s \in Slots : next[s] \in SlotOrNone
    BY <1>3, <1>4
  <2> QED
    BY <1>2, <2>1
<1>6. \A i \in 1 .. len :
         next[order[i]] = IF i = len THEN Nil ELSE order[i + 1]
  BY <1>3, <1>4 DEF NoSlot
<1>7. /\ order[1] \in Slots
      /\ Reach(Slots, next, order[1]) = Slots
      /\ Acyclic(Slots, next, order[1])
  BY <1>1, <1>5, <1>6, ReachOrder DEF SlotOrNone, NoSlot
<1>8. count \in Nat
  BY <1>1 DEF SchedInit, len
<1> QED
  BY <1>2, <1>5, <1>7, <1>8 DEF FreeTypes, FreeList, SlotOrNone

(* A new scheduler satisfies the invariant.                                *)
LEMMA SInit == SchedInit => SInv
<1> SUFFICES ASSUME SchedInit PROVE SInv
  OBVIOUS
<1>1. IInv
  BY InitIInv DEF SchedInit
<1>2. FreeTypes /\ FreeList = Slots /\ Acyclic(Slots, next, head)
  BY ConstructedList
<1>3. Types
  <2>1. SlotTypes /\ JobTypes
    BY DEF SchedInit, SlotTypes, JobTypes
  <2>2. OwnerType /\ WorkerType /\ WaiterType
    BY DEF SchedInit, OwnerType, WorkerType, WaiterType, OwnerAt, WorkerAt, SlotOrNone
  <2> QED
    BY <1>2, <2>1, <2>2 DEF Types
<1>4. /\ \A s \in Slots : /\ phase[s] = "idle" /\ gen[s] = 0 /\ reg[s] = NoReg
                          /\ lifecycle[s] = [gen |-> 0, done |-> TRUE, pins |-> 0]
                          /\ live[s] = 0 /\ pool[s] = 0 /\ kids[s] = 0
                          /\ calls[s] = 0 /\ completed[s] = 0
      /\ \A w \in Workers : /\ worker[w].at = "idle" /\ worker[w].slot = NoSlot
                            /\ worker[w].left = 0
      /\ owner.at = "idle" /\ waiter.at = "idle"
  BY DEF SchedInit, Init
<1>5. OwnerInv /\ PinInv /\ LifeInv
  BY <1>4 DEF OwnerInv, PinInv, LifeInv, Pins, Opens, Registering
<1>6. WorkerInv /\ RestInv
  BY <1>4 DEF WorkerInv, StageInv, RestInv, Completing
<1>7. ASSUME NEW s \in Slots
      PROVE  Cardinality(Invokers(s)) = 0 /\ Cardinality(ToSpawn(s)) = 0
  <2>1. Invokers(s) = {} /\ ToSpawn(s) = {}
    BY <1>4 DEF Invokers, ToSpawn, Invoking
  <2> QED
    BY <2>1, CountedSetsFinite, NoneLeft
<1>8. LiveExact
  BY <1>4, <1>7 DEF LiveExact
<1>9. CallInv
  BY <1>4 DEF CallInv
<1>10. FreeInv
  <2>1. {w \in Workers : worker[w].at = "release"} = {}
    BY <1>4
  <2>2. Cardinality({w \in Workers : worker[w].at = "release"}) = 0
    BY <2>1, ReleasersFinite, NoneLeft
  <2>3. Releasing = 0 /\ Acquiring = 0
    BY <1>4, <2>2 DEF Releasing, Acquiring
  <2>4. count = Cardinality(Slots)
    BY DEF SchedInit
  <2>5. Cardinality(Slots) \in Nat
    BY FS_CardinalityType
  <2> QED
    BY <1>2, <1>4, <2>3, <2>4, <2>5 DEF FreeInv
<1>11. PlaceInv
  BY <1>2, <1>4 DEF PlaceInv, Takes, InUse, OwnerPushes, Pushing
<1>12. WaiterInv
  BY <1>4 DEF WaiterInv, MarkInv, SeenInv
<1> QED
  BY <1>1, <1>3, <1>5, <1>6, <1>8, <1>9, <1>10, <1>11, <1>12 DEF SInv

(* Every step of the scheduler keeps the invariant.                        *)
LEMMA SNext == SInv /\ [SchedNext]_vars => SInv'
<1> SUFFICES ASSUME SInv, [SchedNext]_vars PROVE SInv'
  OBVIOUS
<1>1. IInv' /\ Types' /\ OwnerInv' /\ PinInv' /\ LifeInv'
  BY BoardStep, TypesStep, OwnerStep, PinStep, LifeStep
<1>2. WorkerInv' /\ RestInv' /\ LiveExact' /\ CallInv'
  BY WorkerStep, RestStep, LiveStep, CallStep
<1>3. FreeInv' /\ PlaceInv' /\ WaiterInv'
  BY FreeStep, PlaceStep, WaiterStep
<1> QED
  BY <1>1, <1>2, <1>3 DEF SInv

(* So it always holds.                                                     *)
LEMMA SchedInductive == SchedSpec => []SInv
  BY SInit, SNext, PTL DEF SchedSpec

-----------------------------------------------------------------------------
(* m_liveInvocations is exact: it counts the invocations that are queued,  *)
(* run, or are still to be queued by one that runs.                        *)
THEOREM LiveIsExact == SchedSpec => []LiveExact
<1>1. SInv => LiveExact
  BY DEF SInv
<1> QED
  BY <1>1, SchedInductive, PTL

(* A job is completed once, after all its invocations, and each of them    *)
(* finds the callable; their ids have no gap and no repetition.            *)
THEOREM NoInvocationStrays == SchedSpec => []NoStrayInvocation
<1>1. ASSUME SInv PROVE NoStrayInvocation
  <2> SUFFICES ASSUME NEW s \in Slots
               PROVE  /\ phase[s] = "running" =>
                           calls[s] + pool[s] + Cardinality(ToSpawn(s)) = kids[s] + 1
                      /\ pool[s] > 0 \/ Invokers(s) # {} =>
                           phase[s] \in {"issued", "running"} /\ fn[s]
                      /\ Cardinality({w \in Workers : Completing(w, s)}) <= 1
    BY DEF NoStrayInvocation
  <2>1. phase[s] = "running" =>
           calls[s] + pool[s] + Cardinality(ToSpawn(s)) = kids[s] + 1
    BY <1>1 DEF SInv, CallInv
  <2>2. ASSUME pool[s] > 0 \/ Invokers(s) # {}
        PROVE  phase[s] \in {"issued", "running"} /\ fn[s]
    <3>1. Invokers(s) # {} => Cardinality(Invokers(s)) # 0
      BY CountedSetsFinite, FS_EmptySet
    <3>2. live[s] = pool[s] + Cardinality(Invokers(s)) + Cardinality(ToSpawn(s))
      BY <1>1 DEF SInv, LiveExact
    <3>3. live[s] # 0
      <4>1. pool[s] \in Nat
        BY <1>1 DEF SInv, Types, JobTypes
      <4>2. pool[s] > 0 \/ Cardinality(Invokers(s)) > 0
        BY <2>2, <3>1, CountedSetsFinite
      <4> QED
        BY <3>2, <4>1, <4>2, CountedSetsFinite
    <3> QED
      BY <1>1, <3>3 DEF SInv, CallInv
  <2>3. Cardinality({w \in Workers : Completing(w, s)}) <= 1
    <3> DEFINE C == {w \in Workers : Completing(w, s)}
    <3>1. CASE C = {}
      BY <3>1, FS_EmptySet
    <3>2. ASSUME NEW w \in C PROVE Cardinality(C) = 1
      <4>1. \A v \in C : v = w
        BY <1>1 DEF SInv, WorkerInv
      <4>2. C = {w}
        BY <4>1
      <4> QED
        BY <4>2, FS_Singleton
    <3> QED
      BY <3>1, <3>2
  <2> QED
    BY <2>1, <2>2, <2>3
<1> QED
  BY <1>1, SchedInductive, PTL

(* A slot is on the free list, taken, in use, or put back by one thread,   *)
(* and the semaphore never promises a slot that the list does not hold.    *)
THEOREM SlotIsInOnePlace == SchedSpec => []SlotInOnePlace
<1>1. ASSUME SInv PROVE SlotInOnePlace
  <2>1. count + Releasing + (IF owner.at \in {"load", "next", "cas"} THEN 1 ELSE 0)
          = Cardinality(FreeList)
    BY <1>1 DEF SInv, FreeInv, Acquiring
  <2>2. ASSUME NEW s \in Slots
        PROVE  Cardinality({i \in 1 .. 4 :
                  <<s \in FreeList, Takes(s), InUse(s), OwnerPushes(s)>>[i]})
               + Cardinality({w \in Workers : Pushing(w, s)}) = 1
    <3> DEFINE places == <<s \in FreeList, Takes(s), InUse(s), OwnerPushes(s)>>
               I == {i \in 1 .. 4 : places[i]}
               W == {w \in Workers : Pushing(w, s)}
    <3>1. /\ places[1] <=> s \in FreeList
          /\ places[2] <=> Takes(s)
          /\ places[3] <=> InUse(s)
          /\ places[4] <=> OwnerPushes(s)
      OBVIOUS
    <3>2. /\ \/ s \in FreeList \/ Takes(s) \/ InUse(s) \/ OwnerPushes(s)
             \/ \E w \in Workers : Pushing(w, s)
          /\ s \in FreeList => ~Takes(s) /\ ~InUse(s) /\ ~OwnerPushes(s)
          /\ Takes(s) => ~InUse(s)
          /\ OwnerPushes(s) => ~InUse(s)
          /\ \A w \in Workers : Pushing(w, s) =>
                /\ s \notin FreeList /\ ~Takes(s) /\ ~InUse(s) /\ ~OwnerPushes(s)
                /\ \A v \in Workers : Pushing(v, s) => v = w
      BY <1>1 DEF SInv, PlaceInv
    <3>3. Takes(s) => ~OwnerPushes(s)
      BY DEF Takes, OwnerPushes
    <3> HIDE DEF places
    <3>4. CASE W = {}
      <4>1. \E i \in 1 .. 4 : I = {i}
        <5>1. CASE s \in FreeList
          <6>1. I = {1}
            BY <3>1, <3>2, <5>1
          <6> QED
            BY <6>1
        <5>2. CASE Takes(s)
          <6>1. I = {2}
            BY <3>1, <3>2, <3>3, <5>2
          <6> QED
            BY <6>1
        <5>3. CASE InUse(s)
          <6>1. I = {3}
            BY <3>1, <3>2, <5>3
          <6> QED
            BY <6>1
        <5>4. CASE OwnerPushes(s)
          <6>1. I = {4}
            BY <3>1, <3>2, <3>3, <5>4
          <6> QED
            BY <6>1
        <5> QED
          BY <3>2, <3>4, <5>1, <5>2, <5>3, <5>4
      <4>2. Cardinality(I) = 1 /\ Cardinality(W) = 0
        BY <3>4, <4>1, FS_Singleton, FS_EmptySet
      <4> QED
        BY <4>2 DEF places
    <3>5. ASSUME NEW w \in W PROVE Cardinality(I) = 0 /\ Cardinality(W) = 1
      <4>1. I = {}
        BY <3>1, <3>2, <3>5
      <4>2. W = {w}
        BY <3>2, <3>5
      <4> QED
        BY <4>1, <4>2, FS_Singleton, FS_EmptySet
    <3> QED
      BY <3>4, <3>5 DEF places
  <2> QED
    BY <2>1, <2>2 DEF SlotInOnePlace, Takes, InUse, OwnerPushes
<1> QED
  BY <1>1, SchedInductive, PTL

(* acquire() resets a slot only when its last job is done and no thread    *)
(* registers with it, pins it or completes it any more.                    *)
THEOREM AcquiredIsQuiet == SchedSpec => []AcquiredSlotIsQuiet
<1>1. ASSUME SInv, owner.at = "init"
      PROVE  /\ MayReset(owner.slot)
             /\ lifecycle[owner.slot].done /\ lifecycle[owner.slot].pins = 0
             /\ \A w \in Workers :
                   worker[w].slot = owner.slot => worker[w].at = "release"
  <2> DEFINE s == owner.slot
  <2>1. s \in Slots /\ Takes(s)
    BY <1>1 DEF SInv, OwnerInv, Takes
  <2>2. ~InUse(s) /\ \A w \in Workers : ~Pushing(w, s)
    BY <1>1, <2>1 DEF SInv, PlaceInv
  <2>3. lifecycle[s].done /\ lifecycle[s].pins = 0
    BY <1>1, <2>1, <2>2 DEF InUse, SInv, Types, SlotTypes
  <2>4. phase[s] \in {"idle", "done"}
    BY <1>1, <2>1, <2>3 DEF SInv, LifeInv, Opens
  <2>5. \A c \in Slots : ~Registering(c)
    BY <1>1 DEF SInv, OwnerInv
  <2>6. ASSUME NEW w \in Workers, worker[w].slot = s PROVE worker[w].at = "release"
    <3>1. worker[w].at \in WorkerAt /\ StageInv(w)
      BY <1>1 DEF SInv, Types, WorkerType, WorkerInv
    <3>2. worker[w].at # "idle"
      BY <1>1, <2>1, <2>6 DEF SInv, RestInv
    <3>3. worker[w].at # "push"
      BY <2>2, <2>6 DEF Pushing
    <3> QED
      BY <2>3, <2>4, <2>6, <3>1, <3>2, <3>3 DEF StageInv, WorkerAt
  <2> QED
    BY <2>3, <2>4, <2>5, <2>6 DEF MayReset, Registering
<1>2. SInv => AcquiredSlotIsQuiet
  BY <1>1 DEF AcquiredSlotIsQuiet
<1> QED
  BY <1>2, SchedInductive, PTL

(* addDependency() gives up only on jobs that have finished.               *)
THEOREM UnpinnableHasFinished == SchedSpec => []UnpinnableIsFinished
<1>1. ASSUME SInv, NEW s \in Slots, NEW g \in 1 .. lifecycle[s].gen, ~Pinnable(s, g)
      PROVE  Finished(s, g)
  <2>0. lifecycle[s].gen \in Nat /\ g \in Nat /\ g # 0 /\ g <= lifecycle[s].gen
    BY <1>1 DEF SInv, Types, SlotTypes
  <2>1. CASE g < lifecycle[s].gen
    BY <1>1, <2>0, <2>1, OlderIsFinished
  <2>2. CASE g = lifecycle[s].gen
    <3>1. lifecycle[s].done
      BY <1>1, <2>2 DEF Pinnable
    <3>2. CASE Opens(s)
      <4>1. gen[s] = g + 1
        BY <1>1, <2>2, <3>2 DEF SInv, LifeInv
      <4> QED
        BY <2>0, <4>1 DEF Finished
    <3>3. CASE ~Opens(s)
      <4>1. gen[s] = g
        BY <1>1, <2>0, <2>2, <3>3 DEF SInv, LifeInv
      <4>2. phase[s] = "done"
        BY <1>1, <2>0, <3>1, <3>3, <4>1 DEF SInv, LifeInv
      <4> QED
        BY <1>1, <4>1, <4>2 DEF Finished, SInv, IInv, SealInv
    <3> QED
      BY <3>2, <3>3
  <2> QED
    BY <2>0, <2>1, <2>2
<1>2. SInv => UnpinnableIsFinished
  BY <1>1 DEF UnpinnableIsFinished
<1> QED
  BY <1>2, SchedInductive, PTL

(* wait() returns only after the job and all its children were executed.   *)
THEOREM WaitIsForCompletion == SchedSpec => []WaitReturnsAfterCompletion
<1>1. ASSUME SInv, waiter.at = "returned"
      PROVE  LET s == waiter.id[1]
                 g == waiter.id[2]
             IN  /\ Finished(s, g)
                 /\ gen[s] = g => /\ live[s] = 0 /\ pool[s] = 0
                                  /\ Invokers(s) = {}
  <2> DEFINE s == waiter.id[1]
             g == waiter.id[2]
  <2>1. s \in Slots /\ g \in Nat /\ Finished(s, g)
    BY <1>1 DEF SInv, WaiterInv, SeenInv
  <2> HIDE DEF s, g
  <2>2. ASSUME gen[s] = g PROVE live[s] = 0 /\ pool[s] = 0 /\ Invokers(s) = {}
    <3>1. phase[s] \in {"walking", "issuing", "done"}
      BY <1>1, <2>1, <2>2 DEF Finished, SInv, IInv, SealInv
    <3>2. live[s] = 0
      BY <1>1, <2>1, <3>1 DEF SInv, CallInv
    <3> QED
      BY <1>1, <2>1, <3>2, NoneCounted
  <2> QED
    BY <2>1, <2>2 DEF s, g
<1>2. SInv => WaitReturnsAfterCompletion
  BY <1>1 DEF WaitReturnsAfterCompletion
<1> QED
  BY <1>2, SchedInductive, PTL

(* The scheduler keeps the contract of its scoreboards: it only takes the  *)
(* steps that they allow, so what is proved of them holds here too.        *)
THEOREM SchedulerKeepsContract == SchedSpec => Init /\ [][Next]_boardVars
<1>1. SchedInit => Init
  BY DEF SchedInit
<1>2. SInv /\ [SchedNext]_vars => [Next]_boardVars
  BY BoardStep
<1> QED
  BY <1>1, <1>2, SchedInductive, PTL DEF SchedSpec

(* In particular no job reaches the pool before each job that it was made  *)
(* to depend on has finished, though slots are reused meanwhile.           *)
THEOREM ScheduledAfterSources == SchedSpec => []StartAfterSources
<1>1. SInv => StartAfterSources
  BY SourcesAreFinished DEF SInv
<1> QED
  BY <1>1, SchedInductive, PTL

(* And they implement the graph of tasks, whichever thread takes the step   *)
(* and however often a slot has been reused.                               *)
THEOREM SchedulerImplementsTaskGraph == SchedSpec => ImplementsTaskGraph
<1>1. SchedInit => Graph!Init
  BY InitRefines DEF SchedInit
<1>2. SInv /\ [SchedNext]_vars => [Graph!Next]_<<status, waits>>
  BY BoardStep, NextRefines DEF SInv
<1> QED
  BY <1>1, <1>2, SchedInductive, PTL
  DEF SchedSpec, ImplementsTaskGraph, Graph!Spec, Graph!taskVars, status, waits
=============================================================================
