--------------------------- MODULE SequencerProofs ---------------------------
(***************************************************************************)
(* Proofs about Sequencer, for any finite set of slots, any locations and  *)
(* any bounds: operations that conflict are ordered, others are not, and   *)
(* locations are not shared.                                               *)
(***************************************************************************)
EXTENDS Sequencer, FiniteSetTheorems, TLAPS

(* The types, without the upper bounds of the counters.                    *)
AnyAccess == Locations \X Nat \X Kinds
Types ==
    /\ Graph!TypeOK
    /\ acquireFrontier \in [Locations -> SUBSET Slots]
    /\ releaseFrontier \in [Locations -> SUBSET Slots]
    /\ observed \in [Locations -> Nat]
    /\ slotEpoch \in [Slots -> Nat] /\ epoch \in Nat
    /\ owner \in [at : OwnerAt, fence : BOOLEAN, slot : Slots \cup {NoSlot},
                  deps : SUBSET Slots, accesses : Nat]
    /\ life \in [Locations -> Nat]
    /\ declared \in [Slots -> SUBSET AnyAccess] /\ hosted \subseteq AnyAccess
    /\ before \in [Slots -> SUBSET Slots]

(* The owner's place and its locals; the job it builds is the newest one.  *)
OwnerInv ==
    /\ owner.at = "idle" => ~owner.fence /\ owner.slot = NoSlot /\ owner.deps = {}
    /\ owner.at = "acquire" => owner.slot = NoSlot /\ (owner.fence \/ owner.deps = {})
    /\ owner.at = "scope" => (owner.fence <=> owner.slot = NoSlot)
    /\ owner.at \in {"depend", "signal"} => owner.slot \in Slots
    /\ owner.at = "depend" => owner.slot \notin owner.deps
    /\ owner.at = "signal" => owner.fence /\ owner.deps = {}
    /\ ~owner.fence => hosted = {}
Present ==
    owner.slot \in Slots =>
        /\ status[owner.slot] # "free"
        /\ owner.at \in {"scope", "depend"} => status[owner.slot] = "open"
        /\ owner.fence => declared[owner.slot] = hosted
        /\ before[owner.slot] = {t \in Slots \ {owner.slot} : status[t] # "free"}
        /\ \A b \in Slots : owner.slot \notin before[b]

(* Only tasks that have not started wait, and only used slots declare.     *)
TaskInv ==
    /\ \A s \in Slots :
          /\ status[s] \in {"free", "running", "done"} => waits[s] = {}
          /\ status[s] = "free" => declared[s] = {}
          /\ \A x \in declared[s] : x[2] <= life[x[1]]
    /\ \A x \in hosted : x[2] <= life[x[1]]

(* Reuses are counted before they can be observed; the marker job of a     *)
(* fence is newer than all that the frontiers have seen.                   *)
EpochInv ==
    /\ \A s \in Slots : slotEpoch[s] <= epoch
    /\ \A l \in Locations : observed[l] <= epoch
    /\ owner.fence /\ owner.slot \in Slots =>
          \A l \in Locations : slotEpoch[owner.slot] > observed[l]

(* The three lists of locations share none and repeat none.                *)
Once(list) == \A i, j \in DOMAIN list : list[i] = list[j] => i = j
ListInv ==
    /\ freelist \in Seq(Locations) /\ retired \in Seq(Locations)
    /\ fresh \subseteq Locations /\ inUse \subseteq Locations
    /\ Once(freelist) /\ Once(retired)
    /\ Range(freelist) \cup Range(retired) \cup fresh \cup inUse = Locations
    /\ Range(freelist) \cap Range(retired) = {}
    /\ (Range(freelist) \cup Range(retired)) \cap (fresh \cup inUse) = {}
    /\ fresh \cap inUse = {}
    /\ \A l \in Range(freelist) \cup fresh :
          acquireFrontier[l] = {} /\ releaseFrontier[l] = {}

(* The frontier of a kind of access, without the bits that are stale.      *)
Frontier(kind, l) ==
    (IF kind = "acquire" THEN acquireFrontier[l] ELSE releaseFrontier[l]) \ Stale(l)
Other(kind) == IF kind = "acquire" THEN "release" ELSE "acquire"

(* Waiting for the jobs in D is waiting for a: one of them comes after a.  *)
Covers(D, a) == a \in D \/ \E m \in D : a \in before[m] /\ Conflict(a, m)

(* A frontier names only jobs that accessed the location ...               *)
FrontSound ==
    \A l \in inUse, kind \in Kinds : \A s \in Frontier(kind, l) :
        <<l, life[l], kind>> \in declared[s]
(* ... and covers all that did and are not done, but for those that the    *)
(* fence under way waits for.                                              *)
FrontComplete ==
    \A l \in inUse, kind \in Kinds, a \in Slots :
        <<l, life[l], kind>> \in declared[a] /\ status[a] # "done" =>
            \/ Covers(Frontier(kind, l), a)
            \/ owner.fence /\ a = owner.slot
            \/ <<l, life[l], Other(kind)>> \in hosted

(* What a job waits for, or is going to be told to wait for.               *)
WaitsOf(b) == waits[b] \cup (IF b = owner.slot THEN owner.deps \ {b} ELSE {})
Hosting == owner.fence /\ owner.slot = NoSlot

(* All of that is in conflict with it, ...                                 *)
EdgeInv ==
    /\ \A b \in Slots : \A a \in WaitsOf(b) : a \in before[b] /\ Conflict(a, b)
    /\ Hosting => \A a \in owner.deps : HostConflict(a)
(* ... and covers every earlier job that is in conflict and not done.      *)
SyncInv ==
    \A b \in Slots : \A a \in before[b] :
        Conflict(a, b) /\ status[a] # "done" =>
            status[b] \notin {"running", "done"} /\ Covers(WaitsOf(b), a)
HostInv ==
    Hosting => \A a \in Slots :
        HostConflict(a) /\ status[a] # "done" => Covers(owner.deps, a)

(* The inductive invariant.                                               *)
QInv ==
    /\ Types /\ OwnerInv /\ Present /\ TaskInv /\ EpochInv /\ ListInv
    /\ FrontSound /\ FrontComplete /\ EdgeInv /\ SyncInv /\ HostInv

USE SlotsAssumption, BoundsAssumption

-----------------------------------------------------------------------------
(* What a declared access does to the frontiers, to the dependencies of    *)
(* the scope and to the record of accesses.                                *)
LEMMA DeclareFacts ==
    ASSUME QInv, NEW l \in Locations, NEW kinds \in SUBSET Kinds \ {{}},
           Declare(l, kinds)
    PROVE  /\ l \in inUse /\ owner.at = "scope" /\ owner'.at = "scope"
           /\ owner'.fence = owner.fence /\ owner'.slot = owner.slot
           /\ owner'.deps \in SUBSET Slots /\ owner'.accesses \in Nat
           /\ \A x : x \in owner'.deps <=>
                 x \in owner.deps \/ \E k \in kinds : x \in Frontier(Other(k), l)
           /\ observed' \in [Locations -> Nat]
           /\ observed'[l] = epoch
           /\ \A m \in Locations \ {l} : observed'[m] = observed[m]
<1>1. /\ owner' = [owner EXCEPT !.deps = @ \cup
                     ((IF "acquire" \in kinds THEN releaseFrontier[l] \ Stale(l) ELSE {})
                      \cup (IF "release" \in kinds THEN acquireFrontier[l] \ Stale(l) ELSE {})),
                                !.accesses = @ + 1]
      /\ l \in inUse /\ owner.at = "scope"
      /\ observed' = [observed EXCEPT ![l] = epoch]
  BY DEF Declare
<1>2. \A x : x \in owner'.deps <=>
         x \in owner.deps \/ \E k \in kinds : x \in Frontier(Other(k), l)
  BY <1>1 DEF QInv, Types, Kinds, Frontier, Other
<1>3. owner'.deps \in SUBSET Slots
  BY <1>2 DEF QInv, Types, Frontier
<1> QED
  BY <1>1, <1>2, <1>3 DEF QInv, Types

(* The frontiers of the location lose their stale bits; other locations    *)
(* keep theirs.                                                            *)
LEMMA DeclareFrontiers ==
    ASSUME QInv, NEW l \in Locations, NEW kinds \in SUBSET Kinds \ {{}},
           Declare(l, kinds)
    PROVE  /\ acquireFrontier' \in [Locations -> SUBSET Slots]
           /\ releaseFrontier' \in [Locations -> SUBSET Slots]
           /\ \A kind \in Kinds, m \in Locations \ {l} :
                 Frontier(kind, m)' = Frontier(kind, m)
           /\ \A kind \in Kinds : Frontier(kind, l)' =
                 (IF kinds = Kinds \/ (owner.fence /\ Other(kind) \in kinds)
                  THEN {} ELSE Frontier(kind, l))
                 \cup (IF kind \in kinds /\ ~owner.fence THEN {owner.slot} ELSE {})
<1> DEFINE After(kind) ==
              (IF kinds = Kinds \/ (owner.fence /\ Other(kind) \in kinds)
               THEN {} ELSE Frontier(kind, l))
              \cup (IF kind \in kinds /\ ~owner.fence THEN {owner.slot} ELSE {})
<1>1. /\ acquireFrontier' = [acquireFrontier EXCEPT ![l] = After("acquire")]
      /\ releaseFrontier' = [releaseFrontier EXCEPT ![l] = After("release")]
      /\ observed' = [observed EXCEPT ![l] = epoch]
      /\ slotEpoch' = slotEpoch
  BY DEF Declare, Frontier, Other, epochVars
<1>2. \A kind \in Kinds : After(kind) \in SUBSET Slots
  BY DEF QInv, Types, OwnerInv, Declare, Frontier
<1> HIDE DEF After
<1>3. /\ acquireFrontier' \in [Locations -> SUBSET Slots]
      /\ releaseFrontier' \in [Locations -> SUBSET Slots]
      /\ acquireFrontier'[l] = After("acquire")
      /\ releaseFrontier'[l] = After("release")
      /\ \A m \in Locations \ {l} : /\ acquireFrontier'[m] = acquireFrontier[m]
                                    /\ releaseFrontier'[m] = releaseFrontier[m]
                                    /\ observed'[m] = observed[m]
  BY <1>1, <1>2 DEF QInv, Types, Kinds
<1>4. Stale(l)' = {}
  <2>1. observed'[l] = epoch /\ epoch \in Nat
    BY <1>1 DEF QInv, Types
  <2>2. \A s \in Slots : slotEpoch[s] \in Nat /\ slotEpoch[s] <= epoch
    BY DEF QInv, Types, EpochInv
  <2> QED
    BY <1>1, <2>1, <2>2 DEF Stale
<1>5. \A kind \in Kinds : Frontier(kind, l)' = After(kind)
  BY <1>3, <1>4 DEF Frontier, Kinds
<1>6. \A kind \in Kinds, m \in Locations \ {l} : Frontier(kind, m)' = Frontier(kind, m)
  BY <1>1, <1>3 DEF Frontier, Stale
<1> QED
  BY <1>3, <1>5, <1>6 DEF After

(* The accesses are the job's, or the host's while a fence is called.      *)
LEMMA DeclareAccesses ==
    ASSUME QInv, NEW l \in Locations, NEW kinds \in SUBSET Kinds \ {{}},
           Declare(l, kinds)
    PROVE  /\ declared' \in [Slots -> SUBSET AnyAccess] /\ hosted' \subseteq AnyAccess
           /\ owner.fence =>
                 /\ declared' = declared
                 /\ \A x : x \in hosted' <=>
                      x \in hosted \/ \E k \in kinds : x = <<l, life[l], k>>
           /\ ~owner.fence =>
                 /\ owner.slot \in Slots /\ hosted' = hosted
                 /\ \A s \in Slots \ {owner.slot} : declared'[s] = declared[s]
                 /\ \A x : x \in declared'[owner.slot] <=>
                      x \in declared[owner.slot] \/ \E k \in kinds : x = <<l, life[l], k>>
<1> DEFINE A == {<<l, life[l], k>> : k \in kinds}
<1>1. A \subseteq AnyAccess
  BY DEF QInv, Types, AnyAccess
<1>2. CASE owner.fence
  BY <1>1, <1>2 DEF Declare, QInv, Types
<1>3. CASE ~owner.fence
  <2>1. owner.slot \in Slots
    BY <1>3 DEF QInv, Types, OwnerInv, Declare
  <2>2. declared' = [declared EXCEPT ![owner.slot] = @ \cup A] /\ hosted' = hosted
    BY <1>3 DEF Declare
  <2> HIDE DEF A
  <2>3. /\ declared' \in [Slots -> SUBSET AnyAccess]
        /\ declared'[owner.slot] = declared[owner.slot] \cup A
        /\ \A s \in Slots \ {owner.slot} : declared'[s] = declared[s]
    BY <1>1, <2>1, <2>2 DEF QInv, Types
  <2> QED
    BY <1>3, <2>1, <2>2, <2>3 DEF A, QInv, Types
<1> QED
  BY <1>2, <1>3

-----------------------------------------------------------------------------
(* Every step keeps the types; only the counters have no bound here.       *)
LEMMA TypesStep ==
    ASSUME QInv, [Next]_vars
    PROVE  Types'
<1> USE DEF Types, Graph!TypeOK, Graph!Status, OwnerAt
<1>0. Types
  BY DEF QInv
<1>1. CASE Alloc
  <2>1. observed' \in [Locations -> Nat] /\ life' \in [Locations -> Nat]
    <3>1. PICK l \in Locations :
             /\ life' = [life EXCEPT ![l] = @ + 1]
             /\ observed' = [k \in Locations |->
                   IF k = l \/ Drained(k) THEN epoch ELSE observed[k]]
      BY <1>1 DEF Alloc
    <3> QED
      BY <1>0, <3>1
  <2>2. /\ acquireFrontier' \in [Locations -> SUBSET Slots]
        /\ releaseFrontier' \in [Locations -> SUBSET Slots]
    BY <1>0, <1>1 DEF Alloc
  <2> QED
    BY <1>0, <1>1, <2>1, <2>2 DEF Alloc, taskVars, epochVars, historyVars
<1>2. ASSUME NEW l \in Locations, Free(l) PROVE Types'
  BY <1>0, <1>2 DEF Free, taskVars, frontierVars, epochVars, historyVars
<1>3. CASE SubmitCall \/ FenceCall
  <2>1. owner' \in [at : OwnerAt, fence : BOOLEAN, slot : Slots \cup {NoSlot},
                    deps : SUBSET Slots, accesses : Nat]
    <3>1. \/ owner' = [at |-> "acquire", fence |-> FALSE, slot |-> NoSlot, deps |-> {},
                       accesses |-> 0]
          \/ owner' = [at |-> "scope", fence |-> TRUE, slot |-> NoSlot, deps |-> {},
                       accesses |-> 0]
      BY <1>3 DEF SubmitCall, FenceCall, Idle
    <3>2. \A at \in OwnerAt, f \in BOOLEAN :
             [at |-> at, fence |-> f, slot |-> NoSlot, deps |-> {}, accesses |-> 0]
                \in [at : OwnerAt, fence : BOOLEAN, slot : Slots \cup {NoSlot},
                     deps : SUBSET Slots, accesses : Nat]
      OBVIOUS
    <3> QED
      BY <3>1, <3>2
  <2> QED
    BY <1>0, <1>3, <2>1
    DEF SubmitCall, FenceCall, taskVars, frontierVars, listVars, epochVars, historyVars
<1>4. ASSUME NEW s \in Slots, Acquire(s) PROVE Types'
  <2>1. status' \in [Slots -> Graph!Status] /\ waits' \in [Slots -> SUBSET Slots]
    BY <1>0, <1>4 DEF Acquire, Graph!Open
  <2>2. slotEpoch' \in [Slots -> Nat] /\ epoch' \in Nat
    BY <1>0, <1>4 DEF Acquire
  <2>3. owner' \in [at : OwnerAt, fence : BOOLEAN, slot : Slots \cup {NoSlot},
                    deps : SUBSET Slots, accesses : Nat]
    <3>1. owner' = [owner EXCEPT !.slot = s,
                       !.at = IF owner.fence THEN "depend" ELSE "scope",
                       !.deps = IF owner.fence THEN WithoutSelf(@, s) ELSE @]
      BY <1>4 DEF Acquire
    <3>2. CASE owner.fence
      BY <1>0, <3>1, <3>2 DEF WithoutSelf
    <3>3. CASE ~owner.fence
      BY <1>0, <3>1, <3>3
    <3> QED
      BY <3>2, <3>3
  <2>4. declared' \in [Slots -> SUBSET AnyAccess]
    BY <1>0, <1>4 DEF Acquire
  <2>5. before' \in [Slots -> SUBSET Slots]
    BY <1>0, <1>4 DEF Acquire
  <2> QED
    BY <1>0, <1>4, <2>1, <2>2, <2>3, <2>4, <2>5 DEF Acquire, frontierVars, listVars
<1>5. ASSUME NEW l \in Locations, NEW kinds \in SUBSET Kinds \ {{}}, Declare(l, kinds)
      PROVE  Types'
  <2>1. owner' \in [at : OwnerAt, fence : BOOLEAN, slot : Slots \cup {NoSlot},
                    deps : SUBSET Slots, accesses : Nat]
    <3>1. \E d, a : owner' = [owner EXCEPT !.deps = d, !.accesses = a]
      BY <1>5 DEF Declare
    <3>2. owner'.deps \in SUBSET Slots /\ owner'.accesses \in Nat
      BY <1>5, DeclareFacts
    <3> QED
      BY <1>0, <3>1, <3>2
  <2>2. /\ UNCHANGED <<status, waits, life, slotEpoch, epoch, before>>
    BY <1>5 DEF Declare, taskVars, listVars, epochVars
  <2>3. /\ acquireFrontier' \in [Locations -> SUBSET Slots]
        /\ releaseFrontier' \in [Locations -> SUBSET Slots]
    BY <1>5, DeclareFrontiers
  <2>4. observed' \in [Locations -> Nat]
    BY <1>5, DeclareFacts
  <2>5. declared' \in [Slots -> SUBSET AnyAccess] /\ hosted' \subseteq AnyAccess
    BY <1>5, DeclareAccesses
  <2> QED
    BY <1>0, <2>1, <2>2, <2>3, <2>4, <2>5
<1>6. CASE ScopeDone
  <2>1. owner' \in [at : OwnerAt, fence : BOOLEAN, slot : Slots \cup {NoSlot},
                    deps : SUBSET Slots, accesses : Nat]
    <3>1. CASE owner' = [owner EXCEPT !.at = "depend", !.deps = WithoutSelf(@, owner.slot)]
      BY <1>0, <3>1 DEF WithoutSelf
    <3>2. CASE owner' = [owner EXCEPT !.at = "acquire"]
      BY <1>0, <3>2
    <3>3. CASE owner' = Idle
      BY <3>3 DEF Idle
    <3> QED
      BY <1>6, <3>1, <3>2, <3>3 DEF ScopeDone
  <2> QED
    BY <1>0, <1>6, <2>1 DEF ScopeDone, taskVars, frontierVars, listVars, epochVars
<1>7. ASSUME NEW s \in Slots, AddDependency(s) PROVE Types'
  <2>1. waits' \in [Slots -> SUBSET Slots] /\ status' = status
    BY <1>0, <1>7 DEF AddDependency, Graph!Depend, taskVars
  <2> QED
    BY <1>0, <1>7, <2>1
    DEF AddDependency, frontierVars, listVars, epochVars, historyVars
<1>8. CASE SubmitJob
  <2>1. status' \in [Slots -> Graph!Status] /\ waits' = waits
    BY <1>0, <1>8 DEF SubmitJob, Graph!Submit
  <2> QED
    BY <1>0, <1>8, <2>1
    DEF SubmitJob, Idle, frontierVars, listVars, epochVars, historyVars
<1>9. CASE FenceReturn
  BY <1>0, <1>9 DEF FenceReturn, Idle, taskVars, frontierVars, listVars, epochVars
<1>10. ASSUME NEW s \in Slots, Work(s) PROVE Types'
  <2>1. status' \in [Slots -> Graph!Status] /\ waits' \in [Slots -> SUBSET Slots]
    BY <1>0, <1>10 DEF Work, Graph!Start, Graph!Finish
  <2> QED
    BY <1>0, <1>10, <2>1 DEF Work, frontierVars, listVars, epochVars, historyVars
<1>11. CASE Exhausted \/ UNCHANGED vars
  BY <1>0, <1>11
  DEF Exhausted, vars, taskVars, frontierVars, listVars, epochVars, historyVars
<1> QED
  BY <1>1, <1>2, <1>3, <1>4, <1>5, <1>6, <1>7, <1>8, <1>9, <1>10, <1>11
  DEF Next, OwnerStep, OwnerCall

(* What acquire() does: a slot that nobody waits for gets a newer job.     *)
LEMMA AcquireFacts ==
    ASSUME QInv, NEW s \in Slots, Acquire(s)
    PROVE  /\ owner.at = "acquire" /\ owner.slot = NoSlot /\ owner'.slot = s
           /\ owner'.fence = owner.fence
           /\ owner'.at = IF owner.fence THEN "depend" ELSE "scope"
           /\ owner'.deps = IF owner.fence THEN owner.deps \ {s} ELSE {}
           /\ status[s] \in {"free", "done"} /\ status'[s] = "open"
           /\ waits'[s] = {}
           /\ \A c \in Slots : s \notin waits[c]
           /\ declared'[s] = (IF owner.fence THEN hosted ELSE {})
           /\ before'[s] = {u \in Slots \ {s} : status[u] # "free"}
           /\ \A t \in Slots \ {s} : /\ status'[t] = status[t] /\ waits'[t] = waits[t]
                                     /\ declared'[t] = declared[t]
                                     /\ before'[t] = before[t] \ {s}
           /\ hosted' = hosted
<1> USE DEF QInv, Types, Graph!TypeOK, OwnerInv, Acquire, Graph!Open, WithoutSelf
<1>1. /\ owner.at = "acquire" /\ owner.slot = NoSlot /\ owner'.slot = s
      /\ owner'.fence = owner.fence
      /\ owner'.at = IF owner.fence THEN "depend" ELSE "scope"
      /\ owner'.deps = IF owner.fence THEN owner.deps \ {s} ELSE {}
  <2>1. owner.at = "acquire" /\ owner.slot = NoSlot
    OBVIOUS
  <2>2. CASE owner.fence
    BY <2>1, <2>2
  <2>3. CASE ~owner.fence
    BY <2>1, <2>3
  <2> QED
    BY <2>1, <2>2, <2>3
<1>2. /\ status[s] \in {"free", "done"} /\ status'[s] = "open" /\ waits'[s] = {}
      /\ \A c \in Slots : s \notin waits[c]
      /\ \A t \in Slots \ {s} : status'[t] = status[t] /\ waits'[t] = waits[t]
  OBVIOUS
<1>3. /\ declared'[s] = (IF owner.fence THEN hosted ELSE {})
      /\ \A t \in Slots \ {s} : declared'[t] = declared[t]
      /\ hosted' = hosted
  BY DEF listVars
<1>4. /\ before'[s] = {u \in Slots \ {s} : status[u] # "free"}
      /\ \A t \in Slots \ {s} : before'[t] = before[t] \ {s}
  OBVIOUS
<1> QED
  BY <1>1, <1>2, <1>3, <1>4

(* What the end of a scope does, and what the beginning of a call does.    *)
LEMMA ScopeDoneFacts ==
    ASSUME QInv, ScopeDone
    PROVE  /\ owner.at = "scope"
           /\ UNCHANGED <<taskVars, frontierVars, listVars, epochVars, declared, before>>
           /\ \/ /\ ~owner.fence /\ owner.slot \in Slots /\ owner'.at = "depend"
                 /\ owner'.slot = owner.slot /\ owner'.fence = owner.fence
                 /\ hosted' = hosted
                 /\ owner'.deps = owner.deps \ {owner.slot}
              \/ /\ owner.fence /\ owner.slot = NoSlot /\ owner'.at = "acquire"
                 /\ owner'.slot = NoSlot /\ owner'.fence = owner.fence
                 /\ hosted' = hosted
                 /\ owner'.deps = owner.deps
              \/ /\ owner.fence /\ owner.slot = NoSlot /\ owner.deps = {}
                 /\ owner' = Idle /\ hosted' = {}
<1>1. /\ owner.at = "scope"
      /\ UNCHANGED <<taskVars, frontierVars, listVars, epochVars, declared, before>>
  BY DEF ScopeDone
<1>2. CASE ~owner.fence
  <2>1. /\ owner' = [owner EXCEPT !.at = "depend", !.deps = WithoutSelf(@, owner.slot)]
        /\ hosted' = hosted
    BY <1>2 DEF ScopeDone
  <2>2. owner.slot \in Slots
    BY <1>1, <1>2 DEF QInv, OwnerInv, Types
  <2>3. /\ owner'.at = "depend" /\ owner'.slot = owner.slot
        /\ owner'.fence = owner.fence /\ owner'.deps = owner.deps \ {owner.slot}
    BY <2>1 DEF WithoutSelf, QInv, Types
  <2> QED
    BY <1>1, <1>2, <2>1, <2>2, <2>3
<1>3. CASE owner.fence /\ owner.deps # {}
  <2>1. owner' = [owner EXCEPT !.at = "acquire"] /\ hosted' = hosted
    BY <1>3 DEF ScopeDone
  <2>2. owner.slot = NoSlot
    BY <1>1, <1>3 DEF QInv, OwnerInv
  <2>3. /\ owner'.at = "acquire" /\ owner'.slot = owner.slot
        /\ owner'.fence = owner.fence /\ owner'.deps = owner.deps
    BY <2>1 DEF QInv, Types
  <2> QED
    BY <1>1, <1>3, <2>1, <2>2, <2>3
<1>4. CASE owner.fence /\ owner.deps = {}
  BY <1>1, <1>4 DEF ScopeDone, QInv, OwnerInv
<1> QED
  BY <1>1, <1>2, <1>3, <1>4

(* A call begins with no job, no dependency and no change of anything      *)
(* else.                                                                   *)
LEMMA CallFacts ==
    ASSUME SubmitCall \/ FenceCall
    PROVE  /\ owner.at = "idle" /\ owner'.slot = NoSlot /\ owner'.deps = {}
           /\ \/ owner'.at = "acquire" /\ ~owner'.fence
              \/ owner'.at = "scope" /\ owner'.fence
           /\ UNCHANGED <<taskVars, frontierVars, listVars, epochVars, historyVars>>
<1>1. CASE SubmitCall
  BY <1>1 DEF SubmitCall, Idle
<1>2. CASE FenceCall
  BY <1>2 DEF FenceCall, Idle
<1> QED
  BY <1>1, <1>2

(* The owner's locals agree with its place in submit() and fence().        *)
LEMMA OwnerInvStep ==
    ASSUME QInv, [Next]_vars
    PROVE  OwnerInv'
<1> USE DEF OwnerInv
<1>0. OwnerInv /\ Types
  BY DEF QInv
<1>1. CASE Alloc \/ Exhausted \/ UNCHANGED vars
  BY <1>0, <1>1 DEF Alloc, Exhausted, vars, historyVars
<1>2. ASSUME NEW l \in Locations, Free(l) PROVE OwnerInv'
  BY <1>0, <1>2 DEF Free, historyVars
<1>3. CASE SubmitCall \/ FenceCall
  BY <1>0, <1>3, CallFacts DEF historyVars
<1>4. ASSUME NEW s \in Slots, Acquire(s) PROVE OwnerInv'
  BY <1>0, <1>4, AcquireFacts
<1>5. ASSUME NEW l \in Locations, NEW kinds \in SUBSET Kinds \ {{}}, Declare(l, kinds)
      PROVE  OwnerInv'
  BY <1>0, <1>5, DeclareFacts, DeclareAccesses
<1>6. CASE ScopeDone
  BY <1>0, <1>6, ScopeDoneFacts DEF Idle
<1>7. ASSUME NEW s \in Slots, AddDependency(s) PROVE OwnerInv'
  BY <1>0, <1>7 DEF AddDependency, historyVars, Types
<1>8. CASE SubmitJob
  <2>1. CASE owner.fence
    BY <1>0, <1>8, <2>1 DEF SubmitJob, Idle, historyVars, Types
  <2>2. CASE ~owner.fence
    BY <1>0, <1>8, <2>2 DEF SubmitJob, Idle, historyVars, Types
  <2> QED
    BY <2>1, <2>2
<1>9. CASE FenceReturn
  BY <1>0, <1>9 DEF FenceReturn, Idle
<1>10. ASSUME NEW s \in Slots, Work(s) PROVE OwnerInv'
  BY <1>0, <1>10 DEF Work, historyVars
<1> QED
  BY <1>1, <1>2, <1>3, <1>4, <1>5, <1>6, <1>7, <1>8, <1>9, <1>10
  DEF Next, OwnerStep, OwnerCall

(* A worker's step does not open or free a slot.                           *)
LEMMA WorkFacts ==
    ASSUME QInv, NEW s \in Slots, Work(s)
    PROVE  /\ \/ status[s] = "submitted" /\ status'[s] = "running" /\ waits[s] = {}
              \/ status[s] = "running" /\ status'[s] = "done"
           /\ \A t \in Slots \ {s} : status'[t] = status[t]
           /\ \/ waits' = waits
              \/ status'[s] = "done" /\ \A t \in Slots : waits'[t] = waits[t] \ {s}
           /\ UNCHANGED <<frontierVars, listVars, epochVars, owner, historyVars>>
BY DEF QInv, Types, Graph!TypeOK, Work, Graph!Start, Graph!Finish

(* Present: nobody takes a slot while the owner builds a job.              *)
LEMMA PresentStep ==
    ASSUME QInv, [Next]_vars
    PROVE  Present'
<1> USE DEF Present
<1>0. Present /\ Types /\ OwnerInv /\ (owner.slot = NoSlot \/ owner.slot \in Slots)
  BY DEF QInv, Types
<1>1. CASE Alloc \/ Exhausted \/ UNCHANGED vars
  BY <1>0, <1>1 DEF Alloc, Exhausted, vars, historyVars, taskVars
<1>2. ASSUME NEW l \in Locations, Free(l) PROVE Present'
  BY <1>0, <1>2 DEF Free, historyVars, taskVars
<1>3. CASE SubmitCall \/ FenceCall
  BY <1>3, CallFacts
<1>4. ASSUME NEW s \in Slots, Acquire(s) PROVE Present'
  <2>1. ASSUME NEW b \in Slots PROVE s \notin before'[b]
    <3>1. CASE b = s
      BY <1>4, <3>1, AcquireFacts
    <3>2. CASE b # s
      <4>1. b \in Slots \ {s}
        BY <3>2
      <4>2. before'[b] = before[b] \ {s}
        BY <1>4, <4>1, AcquireFacts
      <4> QED
        BY <4>2
    <3> QED
      BY <3>1, <3>2
  <2>2. \A t \in Slots \ {s} : status'[t] = status[t]
    BY <1>4, AcquireFacts
  <2>3. /\ owner'.slot = s /\ status'[s] = "open" /\ owner'.fence = owner.fence
        /\ owner.fence => declared'[s] = hosted
        /\ hosted' = hosted
        /\ before'[s] = {u \in Slots \ {s} : status[u] # "free"}
    BY <1>4, AcquireFacts
  <2> QED
    BY <2>1, <2>2, <2>3
<1>5. ASSUME NEW l \in Locations, NEW kinds \in SUBSET Kinds \ {{}}, Declare(l, kinds)
      PROVE  Present'
  <2>1. /\ owner.at = "scope" /\ owner'.at = "scope"
        /\ owner'.fence = owner.fence /\ owner'.slot = owner.slot
    BY <1>5, DeclareFacts
  <2>2. owner.slot \in Slots => ~owner.fence
    BY <1>0, <2>1 DEF OwnerInv
  <2> QED
    BY <1>0, <1>5, <2>1, <2>2 DEF Declare, taskVars
<1>6. CASE ScopeDone
  BY <1>0, <1>6, ScopeDoneFacts DEF Idle, taskVars
<1>7. ASSUME NEW s \in Slots, AddDependency(s) PROVE Present'
  BY <1>0, <1>7 DEF AddDependency, historyVars, Types, Graph!Depend, taskVars
<1>8. CASE SubmitJob
  <2>1. CASE owner.fence
    <3>1. owner'.at = "signal" /\ owner'.slot = owner.slot /\ owner'.fence = owner.fence
      BY <1>0, <1>8, <2>1 DEF SubmitJob, Types
    <3>2. /\ status' = [status EXCEPT ![owner.slot] = "submitted"]
          /\ owner.at = "depend"
      BY <1>8 DEF SubmitJob, Graph!Submit
    <3>3. \A t \in Slots : status'[t] = "free" <=> status[t] = "free"
      BY <1>0, <3>2 DEF OwnerInv, Types, Graph!TypeOK
    <3> QED
      BY <1>0, <1>8, <3>1, <3>3 DEF SubmitJob, historyVars
  <2>2. CASE ~owner.fence
    BY <1>8, <2>2 DEF SubmitJob, Idle
  <2> QED
    BY <2>1, <2>2
<1>9. CASE FenceReturn
  BY <1>9 DEF FenceReturn, Idle
<1>10. ASSUME NEW s \in Slots, Work(s) PROVE Present'
  <2>1. /\ \A t \in Slots : status'[t] = "free" <=> status[t] = "free"
        /\ \A t \in Slots : status[t] = "open" => status'[t] = "open"
    BY <1>10, WorkFacts
  <2> QED
    BY <1>0, <1>10, <2>1 DEF Work, historyVars
<1> QED
  BY <1>1, <1>2, <1>3, <1>4, <1>5, <1>6, <1>7, <1>8, <1>9, <1>10
  DEF Next, OwnerStep, OwnerCall

(* What alloc() does: the list it takes its location from.                 *)
LEMMA AllocFacts ==
    ASSUME QInv, Alloc
    PROVE  \E l \in Locations :
             /\ inUse' = inUse \cup {l} /\ retired' = <<>>
             /\ life' = [life EXCEPT ![l] = @ + 1]
             /\ observed' = [k \in Locations |->
                   IF k = l \/ k \in Range(retired) THEN epoch ELSE observed[k]]
             /\ acquireFrontier' = [k \in Locations |->
                   IF k \in Range(retired) THEN {} ELSE acquireFrontier[k]]
             /\ releaseFrontier' = [k \in Locations |->
                   IF k \in Range(retired) THEN {} ELSE releaseFrontier[k]]
             /\ LET free == Reverse(retired) \o freelist
                IN  \/ /\ free # <<>> /\ l = Head(free)
                       /\ freelist' = Tail(free) /\ fresh' = fresh
                    \/ /\ free = <<>> /\ l \in fresh
                       /\ fresh' = fresh \ {l} /\ freelist' = freelist
             /\ UNCHANGED <<taskVars, epochVars, owner, historyVars>>
BY DEF Alloc, Drained, RetiredAfterDrain

(* Tasks stop waiting before they start, a job declares nothing before it  *)
(* has its slot, and no access is to an allocation yet to come.            *)
LEMMA TaskInvStep ==
    ASSUME QInv, [Next]_vars
    PROVE  TaskInv'
<1> USE DEF TaskInv
<1>0. TaskInv /\ Types /\ OwnerInv /\ Present
  BY DEF QInv
<1>a. Types'
  BY TypesStep
<1>1. ASSUME Alloc PROVE TaskInv'
  <2>1. UNCHANGED <<taskVars, historyVars>>
    BY <1>1, AllocFacts
  <2>2. \A k \in Locations : life'[k] \in Nat /\ life'[k] >= life[k]
    BY <1>0, <1>1, AllocFacts DEF Types
  <2>3. ASSUME NEW x \in AnyAccess, x[2] <= life[x[1]] PROVE x[2] <= life'[x[1]]
    <3>1. x[1] \in Locations /\ x[2] \in Nat
      BY DEF AnyAccess
    <3> QED
      BY <1>0, <2>2, <2>3, <3>1 DEF Types
  <2> QED
    BY <1>0, <2>1, <2>3 DEF taskVars, historyVars, Types
<1>2. ASSUME NEW l \in Locations, Free(l) PROVE TaskInv'
  BY <1>0, <1>2 DEF Free, historyVars, taskVars
<1>3. CASE SubmitCall \/ FenceCall \/ Exhausted \/ UNCHANGED vars
  BY <1>0, <1>3
  DEF SubmitCall, FenceCall, Exhausted, vars, historyVars, taskVars, listVars
<1>4. ASSUME NEW s \in Slots, Acquire(s) PROVE TaskInv'
  <2>1. life' = life /\ hosted' = hosted
    BY <1>4 DEF Acquire, listVars
  <2>2. ASSUME NEW t \in Slots
        PROVE  /\ status'[t] \in {"free", "running", "done"} => waits'[t] = {}
               /\ status'[t] = "free" => declared'[t] = {}
               /\ \A x \in declared'[t] : x[2] <= life[x[1]]
    <3>1. CASE t = s
      BY <1>0, <1>4, <3>1, AcquireFacts
    <3>2. CASE t # s
      <4>1. t \in Slots \ {s}
        BY <3>2
      <4>2. /\ status'[t] = status[t] /\ waits'[t] = waits[t]
            /\ declared'[t] = declared[t]
        BY <1>4, <4>1, AcquireFacts
      <4> QED
        BY <1>0, <4>2
    <3> QED
      BY <3>1, <3>2
  <2> QED
    BY <1>0, <2>1, <2>2
<1>5. ASSUME NEW l \in Locations, NEW kinds \in SUBSET Kinds \ {{}}, Declare(l, kinds)
      PROVE  TaskInv'
  <2>1. UNCHANGED <<status, waits, life>> /\ owner.at = "scope"
    BY <1>5 DEF Declare, taskVars, listVars
  <2>2. \A k \in kinds : <<l, life[l], k>>[2] <= life[<<l, life[l], k>>[1]]
    BY <1>0 DEF Types
  <2>3. CASE owner.fence
    BY <1>0, <1>5, <2>1, <2>2, <2>3, DeclareAccesses
  <2>4. CASE ~owner.fence
    <3>1. status[owner.slot] = "open" /\ owner.slot \in Slots /\ hosted' = hosted
      BY <1>0, <1>5, <2>1, <2>4, DeclareAccesses DEF Present
    <3>2. \A x \in declared'[owner.slot] : x[2] <= life[x[1]]
      BY <1>0, <1>5, <2>2, <2>4, <3>1, DeclareAccesses
    <3>3. \A s \in Slots \ {owner.slot} : declared'[s] = declared[s]
      BY <1>5, <2>4, DeclareAccesses
    <3> QED
      BY <1>0, <2>1, <3>1, <3>2, <3>3
  <2> QED
    BY <2>3, <2>4
<1>6. CASE ScopeDone
  BY <1>0, <1>6 DEF ScopeDone, taskVars, listVars
<1>7. ASSUME NEW s \in Slots, AddDependency(s) PROVE TaskInv'
  <2>1. UNCHANGED <<declared, hosted, life, status>>
    BY <1>7 DEF AddDependency, historyVars, listVars, Graph!Depend, taskVars
  <2>2. \A t \in Slots : status[t] \in {"free", "running", "done"} => waits'[t] = waits[t]
    BY <1>0, <1>7
    DEF AddDependency, Graph!Depend, taskVars, Types, Graph!TypeOK
  <2> QED
    BY <1>0, <2>1, <2>2
<1>8. CASE SubmitJob
  <2>1. UNCHANGED <<declared, hosted, life, waits>>
    BY <1>8 DEF SubmitJob, historyVars, listVars, Graph!Submit
  <2>2. \A t \in Slots : status'[t] = status[t] \/ status'[t] = "submitted"
    BY <1>0, <1>8 DEF SubmitJob, Graph!Submit, Types, Graph!TypeOK
  <2> QED
    BY <1>0, <2>1, <2>2
<1>9. CASE FenceReturn
  BY <1>0, <1>9 DEF FenceReturn, taskVars, listVars, Types
<1>10. ASSUME NEW s \in Slots, Work(s) PROVE TaskInv'
  <2>1. UNCHANGED <<declared, hosted, life>>
    BY <1>10 DEF Work, historyVars, listVars
  <2>2. ASSUME NEW t \in Slots
        PROVE  /\ status'[t] \in {"free", "running", "done"} => waits'[t] = {}
               /\ status'[t] = "free" => declared[t] = {}
    BY <1>0, <1>10, WorkFacts
  <2> QED
    BY <1>0, <2>1, <2>2
<1> QED
  BY <1>1, <1>2, <1>3, <1>4, <1>5, <1>6, <1>7, <1>8, <1>9, <1>10
  DEF Next, OwnerStep, OwnerCall

(* No slot and no location is ahead of the epoch, and the marker job of a  *)
(* fence is newer than anything a location has seen.                       *)
LEMMA EpochInvStep ==
    ASSUME QInv, [Next]_vars
    PROVE  EpochInv'
<1> USE DEF EpochInv
<1>0. EpochInv /\ Types /\ OwnerInv
  BY DEF QInv
<1>1. ASSUME Alloc PROVE EpochInv'
  <2>1. UNCHANGED <<epoch, slotEpoch, owner>> /\ owner.at = "idle"
    BY <1>1, AllocFacts DEF Alloc, epochVars
  <2>2. \A l \in Locations : observed'[l] = observed[l] \/ observed'[l] = epoch
    BY <1>1, AllocFacts
  <2> QED
    BY <1>0, <2>1, <2>2 DEF OwnerInv, Types
<1>2. ASSUME NEW s \in Slots, Acquire(s) PROVE EpochInv'
  <2>1. /\ epoch' = epoch + 1 /\ slotEpoch' = [slotEpoch EXCEPT ![s] = epoch + 1]
        /\ observed' = observed /\ owner'.slot = s
    BY <1>2, AcquireFacts DEF Acquire, frontierVars
  <2>2. \A l \in Locations : observed[l] \in Nat /\ observed[l] <= epoch
    BY <1>0 DEF Types
  <2>3. \A t \in Slots : slotEpoch[t] \in Nat /\ slotEpoch[t] <= epoch
    BY <1>0 DEF Types
  <2>4. epoch \in Nat /\ slotEpoch'[s] = epoch + 1
    BY <1>0, <2>1 DEF Types
  <2>5. \A t \in Slots \ {s} : slotEpoch'[t] = slotEpoch[t]
    BY <1>0, <2>1 DEF Types
  <2> QED
    BY <2>1, <2>2, <2>3, <2>4, <2>5
<1>3. ASSUME NEW l \in Locations, NEW kinds \in SUBSET Kinds \ {{}}, Declare(l, kinds)
      PROVE  EpochInv'
  <2>0. owner.at = "scope" /\ owner'.slot = owner.slot /\ owner'.fence = owner.fence
    BY <1>3, DeclareFacts
  <2>1. UNCHANGED <<epoch, slotEpoch>> /\ (owner'.slot \in Slots => ~owner'.fence)
    BY <1>0, <1>3, <2>0 DEF Declare, epochVars, OwnerInv
  <2>2. \A m \in Locations : observed'[m] = observed[m] \/ observed'[m] = epoch
    BY <1>3, DeclareFacts
  <2> QED
    BY <1>0, <2>1, <2>2 DEF Types
<1>4. ASSUME UNCHANGED <<epoch, slotEpoch, observed>>,
             \/ owner'.slot = NoSlot
             \/ owner'.slot = owner.slot /\ owner'.fence = owner.fence
      PROVE  EpochInv'
  BY <1>0, <1>4
<1>5. \/ Alloc \/ (\E s \in Slots : Acquire(s))
      \/ \E l \in Locations, kinds \in SUBSET Kinds \ {{}} : Declare(l, kinds)
      \/ UNCHANGED <<epoch, slotEpoch, observed>>
  BY DEF Next, OwnerStep, OwnerCall, Free, SubmitCall, FenceCall, ScopeDone,
      AddDependency, SubmitJob, FenceReturn, Work, Exhausted, vars, epochVars,
      frontierVars
<1>6. \/ Alloc \/ (\E s \in Slots : Acquire(s))
      \/ (\E l \in Locations, kinds \in SUBSET Kinds \ {{}} : Declare(l, kinds))
      \/ owner'.slot = NoSlot
      \/ owner'.slot = owner.slot /\ owner'.fence = owner.fence
  <2>1. SubmitCall \/ FenceCall \/ FenceReturn => owner'.slot = NoSlot
    BY CallFacts DEF FenceReturn, Idle
  <2>2. ScopeDone => \/ owner'.slot = NoSlot
                     \/ owner'.slot = owner.slot /\ owner'.fence = owner.fence
    BY ScopeDoneFacts DEF Idle
  <2>3. SubmitJob => \/ owner'.slot = NoSlot
                     \/ owner'.slot = owner.slot /\ owner'.fence = owner.fence
    BY <1>0 DEF SubmitJob, Idle, Types
  <2>4. (\E s \in Slots : AddDependency(s)) =>
           owner'.slot = owner.slot /\ owner'.fence = owner.fence
    BY <1>0 DEF AddDependency, Types
  <2>5. (\E s \in Slots : Work(s)) \/ (\E l \in Locations : Free(l)) \/ Exhausted
           \/ UNCHANGED vars => owner' = owner
    BY DEF Work, Free, Exhausted, vars
  <2> QED
    BY <2>1, <2>2, <2>3, <2>4, <2>5 DEF Next, OwnerStep, OwnerCall
<1> QED
  BY <1>1, <1>2, <1>3, <1>4, <1>5, <1>6

-----------------------------------------------------------------------------
(* Sequences without repetition: reversed, joined, without their first.    *)
LEMMA ReverseOnce ==
    ASSUME NEW L, NEW r \in Seq(L), Once(r)
    PROVE  Reverse(r) \in Seq(L) /\ Once(Reverse(r)) /\ Range(Reverse(r)) = Range(r)
<1> DEFINE n == Len(r)
<1>1. /\ n \in Nat /\ DOMAIN r = 1 .. n /\ \A i \in 1 .. n : r[i] \in L
      /\ Reverse(r) = [i \in 1 .. n |-> r[(n - i) + 1]]
  BY DEF Reverse
<1>2. \A i \in 1 .. n : (n - i) + 1 \in 1 .. n /\ (n - ((n - i) + 1)) + 1 = i
  BY <1>1
<1>3. Reverse(r) \in Seq(L) /\ DOMAIN Reverse(r) = 1 .. n
  BY <1>1, <1>2
<1>4. Once(Reverse(r))
  BY <1>1, <1>2, <1>3 DEF Once
<1>5. Range(Reverse(r)) = Range(r)
  <2>1. ASSUME NEW x \in Range(r) PROVE x \in Range(Reverse(r))
    <3>1. PICK i \in 1 .. n : r[i] = x
      BY <1>1 DEF Range
    <3>2. Reverse(r)[(n - i) + 1] = x
      BY <1>1, <1>2, <3>1
    <3> QED
      BY <1>2, <1>3, <3>2 DEF Range
  <2>2. ASSUME NEW x \in Range(Reverse(r)) PROVE x \in Range(r)
    <3>1. PICK i \in 1 .. n : Reverse(r)[i] = x
      BY <1>3 DEF Range
    <3>2. r[(n - i) + 1] = x
      BY <1>1, <3>1
    <3> QED
      BY <1>1, <1>2, <3>2 DEF Range
  <2> QED
    BY <2>1, <2>2
<1> QED
  BY <1>3, <1>4, <1>5

(* So does the concatenation of two lists that share no element.           *)
LEMMA JoinOnce ==
    ASSUME NEW L, NEW p \in Seq(L), NEW q \in Seq(L), Once(p), Once(q),
           Range(p) \cap Range(q) = {}
    PROVE  p \o q \in Seq(L) /\ Once(p \o q) /\ Range(p \o q) = Range(p) \cup Range(q)
<1> DEFINE m == Len(p)
           n == Len(q)
           s == p \o q
<1>1. /\ m \in Nat /\ n \in Nat /\ DOMAIN p = 1 .. m /\ DOMAIN q = 1 .. n
      /\ s \in Seq(L) /\ Len(s) = m + n /\ DOMAIN s = 1 .. m + n
      /\ \A i \in 1 .. m + n : s[i] = IF i <= m THEN p[i] ELSE q[i - m]
  OBVIOUS
<1>2. \A i \in 1 .. m : p[i] \in Range(p)
  BY <1>1 DEF Range
<1>3. \A i \in 1 .. n : q[i] \in Range(q)
  BY <1>1 DEF Range
<1> HIDE DEF m, n, s
<1>4. ASSUME NEW i \in 1 .. m + n, NEW j \in 1 .. m + n, s[i] = s[j] PROVE i = j
  <2>1. CASE i <= m /\ j <= m
    <3>1. i \in 1 .. m /\ j \in 1 .. m /\ p[i] = p[j]
      BY <1>1, <1>4, <2>1
    <3> QED
      BY <1>1, <3>1 DEF Once
  <2>2. CASE i > m /\ j > m
    <3>1. i - m \in 1 .. n /\ j - m \in 1 .. n /\ q[i - m] = q[j - m]
      BY <1>1, <1>4, <2>2
    <3>2. i - m = j - m
      BY <1>1, <3>1 DEF Once
    <3> QED
      BY <1>1, <3>2
  <2>3. CASE i <= m /\ j > m
    <3>1. i \in 1 .. m /\ j - m \in 1 .. n /\ p[i] = q[j - m]
      BY <1>1, <1>4, <2>3
    <3> QED
      BY <1>2, <1>3, <3>1
  <2>4. CASE i > m /\ j <= m
    <3>1. j \in 1 .. m /\ i - m \in 1 .. n /\ p[j] = q[i - m]
      BY <1>1, <1>4, <2>4
    <3> QED
      BY <1>2, <1>3, <3>1
  <2> QED
    BY <1>1, <2>1, <2>2, <2>3, <2>4
<1>5. Range(s) = Range(p) \cup Range(q)
  <2>1. ASSUME NEW x \in Range(s) PROVE x \in Range(p) \cup Range(q)
    <3>1. PICK i \in 1 .. m + n : s[i] = x
      BY <1>1 DEF Range
    <3>2. i <= m => i \in 1 .. m
      BY <1>1
    <3>3. i > m => i - m \in 1 .. n
      BY <1>1
    <3> QED
      BY <1>1, <1>2, <1>3, <3>1, <3>2, <3>3
  <2>2. ASSUME NEW x \in Range(p) PROVE x \in Range(s)
    <3>1. PICK i \in 1 .. m : p[i] = x
      BY <1>1 DEF Range
    <3>2. i \in 1 .. m + n /\ s[i] = x
      BY <1>1, <3>1
    <3> QED
      BY <1>1, <3>2 DEF Range
  <2>3. ASSUME NEW x \in Range(q) PROVE x \in Range(s)
    <3>1. PICK i \in 1 .. n : q[i] = x
      BY <1>1 DEF Range
    <3>2. i + m \in 1 .. m + n /\ ~(i + m <= m) /\ (i + m) - m = i
      BY <1>1
    <3>3. s[i + m] = x
      BY <1>1, <3>1, <3>2
    <3> QED
      BY <1>1, <3>2, <3>3 DEF Range
  <2> QED
    BY <2>1, <2>2, <2>3
<1> QED
  BY <1>1, <1>4, <1>5 DEF Once, s

(* Popping the head of such a list removes it for good.                    *)
LEMMA TailOnce ==
    ASSUME NEW L, NEW q \in Seq(L), q # <<>>, Once(q)
    PROVE  /\ Head(q) \in Range(q) /\ Tail(q) \in Seq(L) /\ Once(Tail(q))
           /\ Range(Tail(q)) = Range(q) \ {Head(q)}
<1> DEFINE n == Len(q)
           t == Tail(q)
<1>1. /\ n \in Nat \ {0} /\ DOMAIN q = 1 .. n /\ Head(q) = q[1]
      /\ t \in Seq(L) /\ DOMAIN t = 1 .. n - 1
      /\ \A i \in 1 .. n - 1 : t[i] = q[i + 1]
  OBVIOUS
<1> HIDE DEF n, t
<1>2. \A i \in 1 .. n - 1 : i + 1 \in 1 .. n
  BY <1>1
<1>3. Head(q) \in Range(q) /\ 1 \in 1 .. n
  BY <1>1 DEF Range
<1>4. Once(t)
  <2> SUFFICES ASSUME NEW i \in 1 .. n - 1, NEW j \in 1 .. n - 1, t[i] = t[j]
               PROVE  i = j
    BY <1>1 DEF Once
  <2>1. q[i + 1] = q[j + 1]
    BY <1>1
  <2>2. i + 1 = j + 1
    BY <1>1, <1>2, <2>1 DEF Once
  <2> QED
    BY <2>2
<1>5. ASSUME NEW x \in Range(t) PROVE x \in Range(q) \ {Head(q)}
  <2>1. PICK i \in 1 .. n - 1 : t[i] = x
    BY <1>1 DEF Range
  <2>2. i + 1 \in 1 .. n /\ i + 1 # 1 /\ q[i + 1] = x
    BY <1>1, <1>2, <2>1
  <2> QED
    BY <1>1, <1>3, <2>2 DEF Range, Once
<1>6. ASSUME NEW x \in Range(q), x # Head(q) PROVE x \in Range(t)
  <2>1. PICK i \in 1 .. n : q[i] = x
    BY <1>1 DEF Range
  <2>2. i - 1 \in 1 .. n - 1 /\ (i - 1) + 1 = i
    BY <1>1, <1>6, <2>1
  <2>3. t[i - 1] = x
    BY <1>1, <2>1, <2>2
  <2> QED
    BY <1>1, <2>2, <2>3 DEF Range
<1> QED
  BY <1>1, <1>3, <1>4, <1>5, <1>6 DEF t

(* A location handed out comes from one place, which it leaves.            *)
LEMMA AllocLists ==
    ASSUME QInv, Alloc
    PROVE  /\ freelist' \in Seq(Locations) /\ Once(freelist')
           /\ retired' = <<>>
           /\ \E l \in Locations :
                 /\ l \notin inUse /\ inUse' = inUse \cup {l}
                 /\ \/ /\ fresh' = fresh
                       /\ l \in Range(retired) \cup Range(freelist)
                       /\ Range(freelist') = (Range(retired) \cup Range(freelist)) \ {l}
                    \/ /\ l \in fresh /\ fresh' = fresh \ {l}
                       /\ Range(retired) = {} /\ freelist' = freelist
                 /\ life' = [life EXCEPT ![l] = @ + 1]
                 /\ observed' = [k \in Locations |->
                       IF k = l \/ k \in Range(retired) THEN epoch ELSE observed[k]]
<1> DEFINE free == Reverse(retired) \o freelist
<1>1. PICK l \in Locations :
         /\ inUse' = inUse \cup {l} /\ retired' = <<>>
         /\ life' = [life EXCEPT ![l] = @ + 1]
         /\ observed' = [k \in Locations |->
               IF k = l \/ k \in Range(retired) THEN epoch ELSE observed[k]]
         /\ \/ /\ free # <<>> /\ l = Head(free)
               /\ freelist' = Tail(free) /\ fresh' = fresh
            \/ /\ free = <<>> /\ l \in fresh
               /\ fresh' = fresh \ {l} /\ freelist' = freelist
  BY AllocFacts
<1>2. ListInv
  BY DEF QInv
<1>3. /\ Reverse(retired) \in Seq(Locations) /\ Once(Reverse(retired))
      /\ Range(Reverse(retired)) = Range(retired)
  BY <1>2, ReverseOnce DEF ListInv
<1>4. /\ free \in Seq(Locations) /\ Once(free)
      /\ Range(free) = Range(retired) \cup Range(freelist)
  <2>1. Range(Reverse(retired)) \cap Range(freelist) = {}
    BY <1>2, <1>3 DEF ListInv
  <2> QED
    BY <1>2, <1>3, <2>1, JoinOnce DEF ListInv
<1> HIDE DEF free
<1>5. CASE free # <<>> /\ l = Head(free) /\ freelist' = Tail(free) /\ fresh' = fresh
  <2>1. /\ l \in Range(free) /\ freelist' \in Seq(Locations) /\ Once(freelist')
        /\ Range(freelist') = Range(free) \ {l}
    BY <1>4, <1>5, TailOnce
  <2>2. l \notin inUse
    BY <1>2, <1>4, <2>1 DEF ListInv
  <2> QED
    BY <1>1, <1>4, <1>5, <2>1, <2>2
<1>6. CASE free = <<>> /\ l \in fresh /\ fresh' = fresh \ {l} /\ freelist' = freelist
  <2>1. Range(free) = {}
    BY <1>6 DEF Range
  <2>2. l \notin inUse
    BY <1>2, <1>6 DEF ListInv
  <2> QED
    BY <1>1, <1>2, <1>4, <1>6, <2>1, <2>2 DEF ListInv
<1> QED
  BY <1>1, <1>5, <1>6

(* alloc() and free() keep the lists apart and their locations clean.      *)
LEMMA ListInvStep ==
    ASSUME QInv, [Next]_vars
    PROVE  ListInv'
<1> USE DEF ListInv
<1>0. ListInv /\ Types
  BY DEF QInv
<1>1. ASSUME Alloc PROVE ListInv'
  <2>1. /\ freelist' \in Seq(Locations) /\ Once(freelist') /\ retired' = <<>>
    BY <1>1, AllocLists
  <2>2. retired' \in Seq(Locations) /\ Once(retired') /\ Range(retired') = {}
    BY <2>1 DEF Once, Range
  <2>3. \A k \in Locations :
           /\ k \in Range(retired) => acquireFrontier'[k] = {} /\ releaseFrontier'[k] = {}
           /\ acquireFrontier[k] = {} => acquireFrontier'[k] = {}
           /\ releaseFrontier[k] = {} => releaseFrontier'[k] = {}
    BY <1>0, <1>1, AllocFacts
  <2>4. PICK l \in Locations :
           /\ l \notin inUse /\ inUse' = inUse \cup {l}
           /\ \/ /\ fresh' = fresh
                 /\ l \in Range(retired) \cup Range(freelist)
                 /\ Range(freelist') = (Range(retired) \cup Range(freelist)) \ {l}
              \/ /\ l \in fresh /\ fresh' = fresh \ {l}
                 /\ Range(retired) = {} /\ freelist' = freelist
    BY <1>1, AllocLists
  <2> HIDE DEF ListInv
  <2>5. /\ fresh' \subseteq Locations /\ inUse' \subseteq Locations
        /\ Range(freelist') \cup Range(retired') \cup fresh' \cup inUse' = Locations
        /\ Range(freelist') \cap Range(retired') = {}
        /\ (Range(freelist') \cup Range(retired')) \cap (fresh' \cup inUse') = {}
        /\ fresh' \cap inUse' = {}
    BY <1>0, <2>2, <2>4 DEF ListInv
  <2>6. \A k \in Range(freelist') \cup fresh' :
           acquireFrontier'[k] = {} /\ releaseFrontier'[k] = {}
    BY <1>0, <2>3, <2>4 DEF ListInv
  <2> QED
    BY <2>1, <2>2, <2>5, <2>6 DEF ListInv
<1>2. ASSUME NEW l \in Locations, Free(l) PROVE ListInv'
  <2>1. /\ l \in inUse /\ inUse' = inUse \ {l} /\ retired' = <<l>> \o retired
        /\ UNCHANGED <<freelist, fresh, acquireFrontier, releaseFrontier>>
    BY <1>2 DEF Free, frontierVars
  <2> DEFINE p == <<l>>
  <2>2. p \in Seq(Locations) /\ Once(p) /\ Range(p) = {l}
    BY DEF Once, Range
  <2>3. retired' = p \o retired
    BY <2>1
  <2> HIDE DEF p
  <2>4. Range(p) \cap Range(retired) = {} /\ retired \in Seq(Locations) /\ Once(retired)
    BY <1>0, <2>1, <2>2
  <2>5. /\ p \o retired \in Seq(Locations) /\ Once(p \o retired)
        /\ Range(p \o retired) = Range(p) \cup Range(retired)
    BY <2>2, <2>4, JoinOnce
  <2>6. retired' \in Seq(Locations) /\ Once(retired') /\ Range(retired') = {l} \cup Range(retired)
    BY <2>2, <2>3, <2>5
  <2> QED
    BY <1>0, <2>1, <2>6
<1>3. ASSUME NEW l \in Locations, NEW kinds \in SUBSET Kinds \ {{}}, Declare(l, kinds)
      PROVE  ListInv'
  <2>1. l \in inUse /\ UNCHANGED listVars
    BY <1>3 DEF Declare
  <2>2. \A m \in Locations \ {l} : /\ acquireFrontier'[m] = acquireFrontier[m]
                                   /\ releaseFrontier'[m] = releaseFrontier[m]
    BY <1>0, <1>3 DEF Declare, Types
  <2> QED
    BY <1>0, <2>1, <2>2 DEF listVars
<1>4. CASE UNCHANGED <<listVars, acquireFrontier, releaseFrontier>>
  BY <1>0, <1>4 DEF listVars
<1> QED
  BY <1>1, <1>2, <1>3, <1>4
  DEF Next, OwnerStep, OwnerCall, SubmitCall, FenceCall, Acquire, ScopeDone,
      AddDependency, SubmitJob, FenceReturn, Work, Exhausted, vars, frontierVars

-----------------------------------------------------------------------------
(* A job that comes after one that is not done has not started; neither is *)
(* its slot free.                                                          *)
LEMMA NotStarted ==
    ASSUME QInv, NEW m \in Slots, NEW a \in before[m], Conflict(a, m), status[a] # "done"
    PROVE  status[m] \notin {"free", "running", "done"}
<1>1. status[m] \notin {"running", "done"}
  BY DEF QInv, SyncInv
<1>2. declared[m] # {}
  BY DEF Conflict
<1> QED
  BY <1>1, <1>2 DEF QInv, TaskInv

(* Who declared an access is older than the job that the owner builds.     *)
LEMMA DeclaredIsOlder ==
    ASSUME QInv, NEW a \in Slots, declared[a] # {}
    PROVE  /\ status[a] # "free"
           /\ owner.slot \in Slots /\ a # owner.slot => a \in before[owner.slot]
BY DEF QInv, TaskInv, Present

(* A frontier is a set of slots; the two kinds are each other's other.     *)
LEMMA FrontierFacts ==
    ASSUME QInv, NEW kind \in Kinds, NEW l \in Locations
    PROVE  /\ Frontier(kind, l) \subseteq Slots
           /\ Other(kind) \in Kinds /\ Other(kind) # kind /\ Other(Other(kind)) = kind
BY DEF QInv, Types, Frontier, Other, Kinds

(* Frontiers only change by alloc(), by an access, and by the reuse of a   *)
(* slot, whose bits become stale.                                          *)
LEMMA FrontierStill ==
    ASSUME UNCHANGED <<frontierVars, slotEpoch>>
    PROVE  \A kind, l : Frontier(kind, l)' = Frontier(kind, l)
BY DEF Frontier, Stale, frontierVars

(* The reuse of a slot removes its bit from every frontier.                *)
LEMMA FrontierAcquired ==
    ASSUME QInv, NEW s \in Slots, Acquire(s), NEW kind \in Kinds, NEW l \in Locations
    PROVE  Frontier(kind, l)' = Frontier(kind, l) \ {s}
<1>1. /\ slotEpoch' = [slotEpoch EXCEPT ![s] = epoch + 1]
      /\ UNCHANGED <<acquireFrontier, releaseFrontier, observed>>
  BY DEF Acquire, frontierVars
<1>2. observed[l] \in Nat /\ observed[l] <= epoch /\ epoch \in Nat
  BY DEF QInv, Types, EpochInv
<1>3. slotEpoch'[s] > observed[l] /\ \A t \in Slots \ {s} : slotEpoch'[t] = slotEpoch[t]
  BY <1>1, <1>2 DEF QInv, Types
<1>4. Stale(l)' = Stale(l) \cup {s}
  BY <1>1, <1>3 DEF Stale
<1> QED
  BY <1>1, <1>4 DEF Frontier

(* alloc() hands out a location whose frontiers are empty and leaves those *)
(* of the locations in use alone.                                          *)
LEMMA FrontierAllocated ==
    ASSUME QInv, Alloc
    PROVE  \E n \in Locations :
             /\ inUse' = inUse \cup {n} /\ life'[n] = life[n] + 1
             /\ \A kind \in Kinds : Frontier(kind, n)' = {}
             /\ \A l \in inUse, kind \in Kinds :
                   life'[l] = life[l] /\ Frontier(kind, l)' = Frontier(kind, l)
<1>1. PICK n \in Locations :
         /\ n \notin inUse /\ inUse' = inUse \cup {n}
         /\ n \in Range(retired) \cup Range(freelist) \cup fresh
         /\ life' = [life EXCEPT ![n] = @ + 1]
         /\ observed' = [k \in Locations |->
               IF k = n \/ k \in Range(retired) THEN epoch ELSE observed[k]]
  BY AllocLists
<1>2. /\ acquireFrontier' = [k \in Locations |->
            IF k \in Range(retired) THEN {} ELSE acquireFrontier[k]]
      /\ releaseFrontier' = [k \in Locations |->
            IF k \in Range(retired) THEN {} ELSE releaseFrontier[k]]
      /\ slotEpoch' = slotEpoch
  BY AllocFacts DEF epochVars
<1>3. ListInv /\ Types
  BY DEF QInv
<1>4. \A kind \in Kinds : Frontier(kind, n)' = {}
  <2>1. acquireFrontier'[n] = {} /\ releaseFrontier'[n] = {}
    BY <1>1, <1>2, <1>3 DEF ListInv
  <2> QED
    BY <2>1 DEF Frontier
<1>5. ASSUME NEW l \in inUse, NEW kind \in Kinds
      PROVE  life'[l] = life[l] /\ Frontier(kind, l)' = Frontier(kind, l)
  <2>1. l \in Locations /\ l \notin Range(retired) /\ l # n
    BY <1>1, <1>3 DEF ListInv
  <2>2. /\ acquireFrontier'[l] = acquireFrontier[l] /\ releaseFrontier'[l] = releaseFrontier[l]
        /\ observed'[l] = observed[l] /\ life'[l] = life[l]
    BY <1>1, <1>2, <1>3, <2>1 DEF Types
  <2> QED
    BY <1>2, <2>2 DEF Frontier, Stale
<1>6. life'[n] = life[n] + 1
  BY <1>1, <1>3 DEF Types
<1> QED
  BY <1>1, <1>4, <1>5, <1>6

(* The marker job of a fence is on no frontier.                            *)
LEMMA MarkerIsStale ==
    ASSUME QInv, owner.fence, owner.slot \in Slots, NEW kind \in Kinds, NEW l \in Locations
    PROVE  owner.slot \notin Frontier(kind, l)
BY DEF QInv, EpochInv, Frontier, Stale

(* Every job on a frontier has declared that access to the location as it  *)
(* is allocated now.                                                       *)
LEMMA FrontSoundStep ==
    ASSUME QInv, [Next]_vars
    PROVE  FrontSound'
<1>0. FrontSound /\ Types /\ ListInv
  BY DEF QInv
<1>1. ASSUME Alloc PROVE FrontSound'
  <2>1. declared' = declared
    BY <1>1, AllocFacts DEF historyVars
  <2> QED
    BY <1>0, <1>1, <2>1, FrontierAllocated DEF FrontSound
<1>2. ASSUME NEW s \in Slots, Acquire(s) PROVE FrontSound'
  <2>1. inUse' = inUse /\ life' = life
    BY <1>2 DEF Acquire, listVars
  <2> SUFFICES ASSUME NEW l \in inUse, NEW kind \in Kinds, NEW t \in Frontier(kind, l)'
               PROVE  <<l, life[l], kind>> \in declared'[t]
    BY <2>1 DEF FrontSound
  <2>2. l \in Locations
    BY <1>0 DEF ListInv
  <2>3. t \in Frontier(kind, l) /\ t \in Slots \ {s}
    BY <1>2, <2>2, FrontierAcquired, FrontierFacts
  <2>4. declared'[t] = declared[t]
    BY <1>2, <2>3, AcquireFacts
  <2> QED
    BY <1>0, <2>3, <2>4 DEF FrontSound
<1>3. ASSUME NEW m \in Locations, NEW kinds \in SUBSET Kinds \ {{}}, Declare(m, kinds)
      PROVE  FrontSound'
  <2>1. UNCHANGED listVars
    BY <1>3 DEF Declare
  <2>2. \A t \in Slots : declared[t] \subseteq declared'[t]
    <3>1. CASE owner.fence
      BY <1>3, <3>1, DeclareAccesses
    <3>2. CASE ~owner.fence
      BY <1>3, <3>2, DeclareAccesses
    <3> QED
      BY <3>1, <3>2
  <2> SUFFICES ASSUME NEW l \in inUse, NEW kind \in Kinds, NEW t \in Frontier(kind, l)'
               PROVE  <<l, life[l], kind>> \in declared'[t]
    BY <2>1 DEF FrontSound, listVars
  <2>3. l \in Locations
    BY <1>0 DEF ListInv
  <2>4. CASE t \in Frontier(kind, l)
    <3>1. t \in Slots /\ <<l, life[l], kind>> \in declared[t]
      BY <1>0, <2>3, <2>4, FrontierFacts DEF FrontSound
    <3> QED
      BY <2>2, <3>1
  <2>5. CASE t \notin Frontier(kind, l)
    <3>1. l = m
      BY <1>3, <2>3, <2>5, DeclareFrontiers
    <3>2. kind \in kinds /\ ~owner.fence /\ t = owner.slot
      BY <1>3, <2>5, <3>1, DeclareFrontiers
    <3> QED
      BY <1>3, <3>1, <3>2, DeclareAccesses
  <2> QED
    BY <2>4, <2>5
<1>4. ASSUME FenceReturn PROVE FrontSound'
  <2>1. /\ owner.fence /\ owner.slot \in Slots
        /\ UNCHANGED <<listVars, frontierVars, slotEpoch>>
        /\ \A t \in Slots \ {owner.slot} : declared'[t] = declared[t]
    BY <1>0, <1>4 DEF FenceReturn, QInv, OwnerInv, Types, epochVars
  <2> SUFFICES ASSUME NEW l \in inUse, NEW kind \in Kinds, NEW t \in Frontier(kind, l)
               PROVE  <<l, life[l], kind>> \in declared'[t]
    BY <2>1, FrontierStill DEF FrontSound, listVars
  <2>2. l \in Locations
    BY <1>0 DEF ListInv
  <2>3. t \in Slots \ {owner.slot}
    BY <2>1, <2>2, MarkerIsStale, FrontierFacts
  <2> QED
    BY <1>0, <2>1, <2>3 DEF FrontSound
<1>5. CASE /\ UNCHANGED <<frontierVars, slotEpoch, declared, life>>
           /\ inUse' \subseteq inUse
  BY <1>0, <1>5, FrontierStill DEF FrontSound
<1> QED
  BY <1>1, <1>2, <1>3, <1>4, <1>5
  DEF Next, OwnerStep, OwnerCall, Free, SubmitCall, FenceCall, ScopeDone,
      AddDependency, SubmitJob, Work, Exhausted, vars, epochVars, historyVars, listVars

(* A conflict with a job that is not done survives the reuse of a slot: it *)
(* is between jobs in other slots, and none of it is new.                  *)
LEMMA ConflictsAcquired ==
    ASSUME QInv, NEW s \in Slots, Acquire(s), NEW a \in Slots, NEW m \in Slots
    PROVE  /\ a \in before[m] /\ Conflict(a, m) /\ status[a] # "done" =>
                 m # s /\ (a # s => a \in before'[m] /\ Conflict(a, m)')
           /\ m # s /\ a \in before'[m] /\ Conflict(a, m)' =>
                 a # s /\ a \in before[m] /\ Conflict(a, m)
<1>1. ASSUME a # s, m # s
      PROVE  /\ a \in before'[m] <=> a \in before[m]
             /\ Conflict(a, m)' <=> Conflict(a, m)
  <2>1. a \in Slots \ {s} /\ m \in Slots \ {s}
    BY <1>1
  <2>2. declared'[a] = declared[a] /\ declared'[m] = declared[m] /\ before'[m] = before[m] \ {s}
    BY <2>1, AcquireFacts
  <2> QED
    BY <1>1, <2>2 DEF Conflict
<1>2. ASSUME a \in before[m], Conflict(a, m), status[a] # "done" PROVE m # s
  BY <1>2, NotStarted, AcquireFacts
<1>3. ASSUME m # s, a \in before'[m] PROVE a # s
  <2>1. m \in Slots \ {s}
    BY <1>3
  <2>2. before'[m] = before[m] \ {s}
    BY <2>1, AcquireFacts
  <2> QED
    BY <1>3, <2>2
<1> QED
  BY <1>1, <1>2, <1>3

(* A conflict that there is stays when an access is declared.              *)
LEMMA ConflictsDeclared ==
    ASSUME QInv, NEW l \in Locations, NEW kinds \in SUBSET Kinds \ {{}}, Declare(l, kinds)
    PROVE  /\ \A t \in Slots : declared[t] \subseteq declared'[t]
           /\ \A a, m \in Slots : Conflict(a, m) => Conflict(a, m)'
           /\ UNCHANGED <<status, waits, before, life, inUse>>
<1>1. \A t \in Slots : declared[t] \subseteq declared'[t]
  <2>1. CASE owner.fence
    BY <2>1, DeclareAccesses
  <2>2. CASE ~owner.fence
    BY <2>2, DeclareAccesses
  <2> QED
    BY <2>1, <2>2
<1>2. UNCHANGED <<status, waits, before, life, inUse>>
  BY DEF Declare, taskVars, listVars
<1> QED
  BY <1>1, <1>2 DEF Conflict

(* The frontiers stay complete.  An acq_rel operation leaves only itself,  *)
(* which is in conflict with all that it replaces; a fence leaves nothing, *)
(* but hosts the accesses that wait for what it removes, and when it is    *)
(* over all of that is done.                                               *)
LEMMA FrontCompleteStep ==
    ASSUME QInv, [Next]_vars
    PROVE  FrontComplete'
<1>0. FrontComplete /\ Types /\ ListInv /\ OwnerInv /\ TaskInv /\ Present
  BY DEF QInv
<1>1. ASSUME Alloc PROVE FrontComplete'
  <2>1. UNCHANGED <<declared, hosted, before, status, owner>>
    BY <1>1, AllocFacts DEF historyVars, taskVars
  <2>2. PICK n \in Locations :
             /\ inUse' = inUse \cup {n} /\ life'[n] = life[n] + 1
             /\ \A l \in inUse, kind \in Kinds :
                   life'[l] = life[l] /\ Frontier(kind, l)' = Frontier(kind, l)
    BY <1>1, FrontierAllocated
  <2>3. life[n] \in Nat
    BY <1>0 DEF Types
  <2> SUFFICES ASSUME NEW l \in inUse', NEW kind \in Kinds, NEW a \in Slots,
                      <<l, life'[l], kind>> \in declared[a], status[a] # "done"
               PROVE  \/ Covers(Frontier(kind, l), a)'
                      \/ owner.fence /\ a = owner.slot
                      \/ <<l, life'[l], Other(kind)>> \in hosted
    BY <2>1 DEF FrontComplete
  <2>4. CASE l \in inUse
    <3>1. life'[l] = life[l] /\ Frontier(kind, l)' = Frontier(kind, l)
      BY <2>2, <2>4
    <3>2. \/ Covers(Frontier(kind, l), a)
          \/ owner.fence /\ a = owner.slot
          \/ <<l, life'[l], Other(kind)>> \in hosted
      BY <1>0, <2>4, <3>1 DEF FrontComplete
    <3> QED
      BY <2>1, <3>1, <3>2 DEF Covers, Conflict
  <2>5. CASE l \notin inUse
    <3>1. l = n
      BY <2>2, <2>5
    <3>2. \A x \in declared[a] : x[2] <= life[x[1]]
      BY <1>0 DEF TaskInv
    <3> QED
      BY <2>2, <2>3, <3>1, <3>2
  <2> QED
    BY <2>4, <2>5
<1>2. ASSUME NEW s \in Slots, Acquire(s) PROVE FrontComplete'
  <2>1. inUse' = inUse /\ life' = life
    BY <1>2 DEF Acquire, listVars
  <2> SUFFICES ASSUME NEW l \in inUse, NEW kind \in Kinds, NEW a \in Slots,
                      <<l, life[l], kind>> \in declared'[a], status'[a] # "done"
               PROVE  \/ Covers(Frontier(kind, l), a)'
                      \/ owner'.fence /\ a = owner'.slot
                      \/ <<l, life[l], Other(kind)>> \in hosted'
    BY <2>1 DEF FrontComplete
  <2>2. l \in Locations
    BY <1>0 DEF ListInv
  <2>3. /\ owner'.slot = s /\ owner.slot = NoSlot /\ hosted' = hosted
        /\ owner'.fence = owner.fence
        /\ declared'[s] = (IF owner.fence THEN hosted ELSE {})
    BY <1>2, AcquireFacts
  <2>4. CASE a = s
    BY <2>3, <2>4
  <2>5. CASE a # s
    <3>1. a \in Slots \ {s}
      BY <2>5
    <3>2. declared'[a] = declared[a] /\ status'[a] = status[a]
      BY <1>2, <3>1, AcquireFacts
    <3>3. \/ Covers(Frontier(kind, l), a)
          \/ <<l, life[l], Other(kind)>> \in hosted
      BY <1>0, <2>3, <3>2, SlotsAssumption DEF FrontComplete
    <3>4. ASSUME Covers(Frontier(kind, l), a) PROVE Covers(Frontier(kind, l), a)'
      <4>1. Frontier(kind, l)' = Frontier(kind, l) \ {s} /\ Frontier(kind, l) \subseteq Slots
        BY <1>2, <2>2, FrontierAcquired, FrontierFacts
      <4>2. \A m \in Slots : a \in before[m] /\ Conflict(a, m) =>
               m # s /\ a \in before'[m] /\ Conflict(a, m)'
        BY <1>2, <2>5, <3>2, ConflictsAcquired
      <4> QED
        BY <2>5, <3>4, <4>1, <4>2 DEF Covers
    <3> QED
      BY <2>3, <3>3, <3>4
  <2> QED
    BY <2>4, <2>5
<1>3. ASSUME NEW l \in Locations, NEW kinds \in SUBSET Kinds \ {{}}, Declare(l, kinds)
      PROVE  FrontComplete'
  <2>1. /\ owner'.fence = owner.fence /\ owner'.slot = owner.slot /\ l \in inUse
        /\ owner.at = "scope"
    BY <1>3, DeclareFacts
  <2>2. /\ UNCHANGED <<status, before, life, inUse>>
        /\ \A a, m \in Slots : Conflict(a, m) => Conflict(a, m)'
    BY <1>3, ConflictsDeclared
  <2>3. owner.slot \in Slots => ~owner.fence
    BY <1>0, <2>1 DEF OwnerInv
  <2>4. hosted \subseteq hosted'
    <3>1. CASE owner.fence
      BY <1>3, <3>1, DeclareAccesses
    <3>2. CASE ~owner.fence
      BY <1>3, <3>2, DeclareAccesses
    <3> QED
      BY <3>1, <3>2
  <2> SUFFICES ASSUME NEW n \in inUse, NEW kind \in Kinds, NEW a \in Slots,
                      <<n, life[n], kind>> \in declared'[a], status[a] # "done"
               PROVE  \/ Covers(Frontier(kind, n), a)'
                      \/ <<n, life[n], Other(kind)>> \in hosted'
    BY <2>2 DEF FrontComplete
  <2>5. n \in Locations
    BY <1>0 DEF ListInv
  <2>6. \/ <<n, life[n], kind>> \in declared[a]
        \/ ~owner.fence /\ a = owner.slot /\ n = l /\ kind \in kinds
    <3>1. CASE owner.fence
      BY <1>3, <3>1, DeclareAccesses
    <3>2. CASE ~owner.fence /\ a = owner.slot
      BY <1>3, <3>2, DeclareAccesses
    <3>3. CASE ~owner.fence /\ a # owner.slot
      BY <1>3, <3>3, DeclareAccesses
    <3> QED
      BY <3>1, <3>2, <3>3
  <2>7. <<n, life[n], kind>> \in declared[a] =>
           \/ Covers(Frontier(kind, n), a)
           \/ <<n, life[n], Other(kind)>> \in hosted
    BY <1>0, <2>3 DEF FrontComplete
  <2>8. ASSUME Covers(Frontier(kind, n), a), Frontier(kind, n) \subseteq Frontier(kind, n)'
        PROVE  Covers(Frontier(kind, n), a)'
    <3>1. Frontier(kind, n) \subseteq Slots
      BY <2>5, FrontierFacts
    <3> QED
      BY <2>2, <2>8, <3>1 DEF Covers
  <2>9. CASE n # l
    <3>1. Frontier(kind, n)' = Frontier(kind, n)
      BY <1>3, <2>5, <2>9, DeclareFrontiers
    <3> QED
      BY <2>4, <2>6, <2>7, <2>8, <2>9, <3>1
  <2>10. CASE n = l
    <3>1. Frontier(kind, n)' =
             (IF kinds = Kinds \/ (owner.fence /\ Other(kind) \in kinds)
              THEN {} ELSE Frontier(kind, n))
             \cup (IF kind \in kinds /\ ~owner.fence THEN {owner.slot} ELSE {})
      BY <1>3, <2>10, DeclareFrontiers
    <3>2. Other(kind) \in Kinds
      BY DEF Other, Kinds
    <3>3. CASE owner.fence /\ Other(kind) \in kinds
      <4>1. <<n, life[n], Other(kind)>> \in hosted'
        BY <1>3, <2>10, <3>3, DeclareAccesses
      <4> QED
        BY <4>1
    <3>4. CASE ~owner.fence /\ kinds = Kinds
      <4>1. owner.slot \in Slots /\ owner.slot \in Frontier(kind, n)'
        BY <1>3, <3>1, <3>4, DeclareAccesses
      <4>2. CASE a = owner.slot
        BY <4>1, <4>2 DEF Covers
      <4>3. CASE a # owner.slot
        <5>1. a \in before[owner.slot]
          BY <2>6, <4>1, <4>3, DeclaredIsOlder
        <5>2. <<n, life[n], Other(kind)>> \in declared'[owner.slot]
          BY <1>3, <2>10, <3>2, <3>4, DeclareAccesses
        <5>3. Other(kind) # kind
          BY DEF Other, Kinds
        <5>4. \E x \in declared'[a], y \in declared'[owner.slot] :
                 x[1] = y[1] /\ x[2] = y[2] /\ x[3] # y[3]
          <6> DEFINE x == <<n, life[n], kind>>
                     y == <<n, life[n], Other(kind)>>
          <6>1. x[1] = y[1] /\ x[2] = y[2] /\ x[3] # y[3]
            BY <5>3
          <6>2. x \in declared'[a] /\ y \in declared'[owner.slot]
            BY <5>2
          <6> QED
            BY <6>1, <6>2
        <5>5. Conflict(a, owner.slot)'
          BY <2>1, <5>4 DEF Conflict
        <5> QED
          BY <2>1, <2>2, <4>1, <5>1, <5>5 DEF Covers
      <4> QED
        BY <4>2, <4>3
    <3>5. CASE ~(kinds = Kinds \/ (owner.fence /\ Other(kind) \in kinds))
      <4>1. Frontier(kind, n) \subseteq Frontier(kind, n)'
        BY <3>1, <3>5
      <4>2. CASE <<n, life[n], kind>> \in declared[a]
        BY <2>4, <2>7, <2>8, <4>1, <4>2
      <4>3. CASE <<n, life[n], kind>> \notin declared[a]
        BY <2>6, <3>1, <4>3 DEF Covers
      <4> QED
        BY <4>2, <4>3
    <3>6. kinds = Kinds => Other(kind) \in kinds
      BY <3>2
    <3> QED
      BY <3>3, <3>4, <3>5, <3>6
  <2> QED
    BY <2>9, <2>10
<1>4. ASSUME FenceReturn PROVE FrontComplete'
  <2>1. /\ owner.fence /\ owner.slot \in Slots /\ owner.at = "signal"
        /\ status[owner.slot] \in {"running", "done"}
        /\ UNCHANGED <<listVars, frontierVars, slotEpoch, status, before>>
        /\ declared'[owner.slot] = {}
        /\ \A t \in Slots \ {owner.slot} : declared'[t] = declared[t]
    BY <1>0, <1>4
    DEF FenceReturn, Signalled, OwnerInv, Types, epochVars, taskVars
  <2> SUFFICES ASSUME NEW l \in inUse, NEW kind \in Kinds, NEW a \in Slots,
                      <<l, life[l], kind>> \in declared'[a], status[a] # "done"
               PROVE  Covers(Frontier(kind, l), a)'
    BY <2>1 DEF FrontComplete, listVars
  <2>2. a \in Slots \ {owner.slot} /\ declared'[a] = declared[a]
    BY <2>1
  <2>3. ASSUME <<l, life[l], Other(kind)>> \in hosted PROVE FALSE
    <3>1. declared[owner.slot] = hosted
      BY <1>0, <2>1 DEF Present
    <3>2. a \in before[owner.slot]
      BY <2>1, <2>2, DeclaredIsOlder
    <3>3. Other(kind) # kind
      BY DEF Other, Kinds
    <3>4. Conflict(a, owner.slot)
      <4> DEFINE x == <<l, life[l], kind>>
                 y == <<l, life[l], Other(kind)>>
      <4>1. x[1] = y[1] /\ x[2] = y[2] /\ x[3] # y[3]
        BY <3>3
      <4>2. x \in declared[a] /\ y \in declared[owner.slot]
        BY <2>2, <2>3, <3>1
      <4> QED
        BY <4>1, <4>2 DEF Conflict
    <3> QED
      BY <2>1, <3>2, <3>4, NotStarted
  <2>4. Covers(Frontier(kind, l), a)
    BY <1>0, <2>2, <2>3 DEF FrontComplete
  <2>5. l \in Locations
    BY <1>0 DEF ListInv
  <2>6. owner.slot \notin Frontier(kind, l) /\ Frontier(kind, l) \subseteq Slots
    BY <2>1, <2>5, MarkerIsStale, FrontierFacts
  <2>7. \A m \in Frontier(kind, l) : Conflict(a, m) => Conflict(a, m)'
    BY <2>1, <2>2, <2>6 DEF Conflict
  <2>8. Frontier(kind, l)' = Frontier(kind, l)
    BY <2>1, FrontierStill
  <2> QED
    BY <2>1, <2>4, <2>7, <2>8 DEF Covers
<1>5. ASSUME ScopeDone, hosted' # hosted PROVE FrontComplete'
  <2>1. /\ owner.fence /\ owner.slot = NoSlot /\ owner.deps = {} /\ hosted' = {}
        /\ UNCHANGED <<listVars, frontierVars, slotEpoch, status, before, declared>>
    BY <1>5, ScopeDoneFacts DEF taskVars, epochVars
  <2> SUFFICES ASSUME NEW l \in inUse, NEW kind \in Kinds, NEW a \in Slots,
                      <<l, life[l], kind>> \in declared[a], status[a] # "done"
               PROVE  Covers(Frontier(kind, l), a)'
    BY <2>1 DEF FrontComplete, listVars
  <2>2. ASSUME <<l, life[l], Other(kind)>> \in hosted PROVE FALSE
    <3>1. Other(kind) # kind
      BY DEF Other, Kinds
    <3>2. HostConflict(a)
      <4> DEFINE y == <<l, life[l], kind>>
                 x == <<l, life[l], Other(kind)>>
      <4>1. x[1] = y[1] /\ x[2] = y[2] /\ x[3] # y[3]
        BY <3>1
      <4> QED
        BY <2>2, <4>1 DEF HostConflict
    <3>3. Covers({}, a)
      BY <2>1, <3>2 DEF QInv, HostInv, Hosting
    <3> QED
      BY <3>3 DEF Covers
  <2>3. Covers(Frontier(kind, l), a)
    BY <1>0, <2>1, <2>2 DEF FrontComplete
  <2>4. Frontier(kind, l)' = Frontier(kind, l)
    BY <2>1, FrontierStill
  <2> QED
    BY <2>1, <2>3, <2>4 DEF Covers, Conflict
<1>6. ASSUME UNCHANGED <<frontierVars, slotEpoch, declared, hosted, life, before>>,
             inUse' \subseteq inUse,
             \A a \in Slots : status[a] = "done" => status'[a] = "done",
             owner.fence => owner'.fence /\ owner'.slot = owner.slot
      PROVE  FrontComplete'
  <2>1. \A kind, l, a : Covers(Frontier(kind, l), a)' <=> Covers(Frontier(kind, l), a)
    BY <1>6, FrontierStill DEF Covers, Conflict
  <2> QED
    BY <1>0, <1>6, <2>1 DEF FrontComplete
<1>7. \/ \E s \in Slots : AddDependency(s) \/ Work(s)
      \/ SubmitJob \/ SubmitCall \/ FenceCall \/ Exhausted
      \/ \E l \in Locations : Free(l)
      \/ UNCHANGED vars
      => FrontComplete'
  <2>1. (\E s \in Slots : AddDependency(s)) => FrontComplete'
    BY <1>0, <1>6
    DEF AddDependency, epochVars, historyVars, listVars, taskVars, Graph!Depend, Types
  <2>2. (\E s \in Slots : Work(s)) => FrontComplete'
    BY <1>0, <1>6, WorkFacts DEF epochVars, historyVars, listVars
  <2>3. SubmitJob => FrontComplete'
    <3> SUFFICES ASSUME SubmitJob PROVE FrontComplete'
      OBVIOUS
    <3>1. /\ UNCHANGED <<frontierVars, slotEpoch, declared, hosted, life, before, inUse>>
          /\ status' = [status EXCEPT ![owner.slot] = "submitted"]
          /\ owner.slot \in Slots => status[owner.slot] = "open"
          /\ owner.fence => owner' = [owner EXCEPT !.at = "signal"]
      BY <1>0 DEF SubmitJob, epochVars, historyVars, listVars, Graph!Submit, Present
    <3>2. owner.fence => owner'.fence /\ owner'.slot = owner.slot
      BY <1>0, <3>1 DEF Types
    <3>3. \A a \in Slots : status[a] = "done" => status'[a] = "done"
      BY <1>0, <3>1 DEF Types, Graph!TypeOK
    <3> QED
      BY <1>6, <3>1, <3>2, <3>3
  <2>4. SubmitCall \/ FenceCall => FrontComplete'
    <3> SUFFICES ASSUME SubmitCall \/ FenceCall PROVE FrontComplete'
      OBVIOUS
    <3>1. UNCHANGED <<frontierVars, slotEpoch, declared, hosted, life, before, inUse, status>>
      BY DEF SubmitCall, FenceCall, epochVars, historyVars, listVars, taskVars
    <3>2. ~owner.fence
      BY <1>0, CallFacts DEF OwnerInv
    <3> QED
      BY <1>6, <3>1, <3>2
  <2>5. \/ Exhausted \/ UNCHANGED vars \/ \E l \in Locations : Free(l)
        => FrontComplete'
    BY <1>6
    DEF Exhausted, vars, Free, epochVars, historyVars, listVars, taskVars
  <2> QED
    BY <2>1, <2>2, <2>3, <2>4, <2>5
<1>8. ASSUME ScopeDone, hosted' = hosted PROVE FrontComplete'
  <2>1. /\ UNCHANGED <<frontierVars, slotEpoch, declared, life, before, inUse, status>>
    BY <1>8, ScopeDoneFacts DEF epochVars, listVars, taskVars
  <2>2. \/ owner.fence => owner'.fence /\ owner'.slot = owner.slot
        \/ hosted' = {} /\ owner.deps = {} /\ owner.fence /\ owner.slot = NoSlot
    BY <1>8, ScopeDoneFacts
  <2>3. CASE owner.slot = NoSlot /\ hosted = {}
    BY <1>0, <1>8, <2>1, <2>3, SlotsAssumption, FrontierStill
    DEF FrontComplete, Covers, Conflict
  <2> QED
    BY <1>6, <1>8, <2>1, <2>2, <2>3
<1> QED
  BY <1>1, <1>2, <1>3, <1>4, <1>5, <1>7, <1>8 DEF Next, OwnerStep, OwnerCall

(* What a job of the scheduler is told to wait for is an earlier job that  *)
(* is in conflict with it.                                                 *)
LEMMA EdgeInvStep ==
    ASSUME QInv, [Next]_vars
    PROVE  EdgeInv'
<1>0. EdgeInv /\ Types /\ OwnerInv /\ TaskInv /\ Present
  BY DEF QInv
<1>1. ASSUME NEW s \in Slots, Acquire(s) PROVE EdgeInv'
  <2>1. /\ owner.at = "acquire" /\ owner.slot = NoSlot /\ owner'.slot = s
        /\ owner'.fence = owner.fence
        /\ owner'.deps = IF owner.fence THEN owner.deps \ {s} ELSE {}
        /\ hosted' = hosted /\ waits'[s] = {}
        /\ declared'[s] = (IF owner.fence THEN hosted ELSE {})
        /\ before'[s] = {u \in Slots \ {s} : status[u] # "free"}
        /\ \A t \in Slots \ {s} : waits'[t] = waits[t] /\ declared'[t] = declared[t]
        /\ \A c \in Slots : s \notin waits[c]
    BY <1>1, AcquireFacts
  <2> SUFFICES ASSUME NEW b \in Slots, NEW a \in WaitsOf(b)'
               PROVE  a \in before'[b] /\ Conflict(a, b)'
    BY <2>1, SlotsAssumption DEF EdgeInv, Hosting
  <2>2. CASE b = s
    <3>1. owner.fence /\ a \in owner.deps /\ a \in Slots \ {s}
      BY <1>0, <2>1, <2>2 DEF WaitsOf, Types
    <3>2. HostConflict(a)
      BY <1>0, <2>1, <3>1 DEF EdgeInv, Hosting
    <3>3. declared'[a] = declared[a] /\ declared'[s] = hosted /\ declared[a] # {}
      BY <2>1, <3>1, <3>2 DEF HostConflict
    <3>4. status[a] # "free"
      BY <1>0, <3>1, <3>3 DEF TaskInv
    <3>5. Conflict(a, s)'
      <4>1. PICK x \in hosted, y \in declared[a] : x[1] = y[1] /\ x[2] = y[2] /\ x[3] # y[3]
        BY <3>2 DEF HostConflict
      <4>2. x \in declared'[s] /\ y \in declared'[a]
        BY <3>3
      <4> QED
        BY <4>1, <4>2 DEF Conflict
    <3> QED
      BY <2>1, <2>2, <3>1, <3>4, <3>5
  <2>3. CASE b # s
    <3>1. a \in waits[b] /\ b \in Slots \ {s}
      BY <2>1, <2>3 DEF WaitsOf
    <3>2. a \in Slots /\ a # s /\ a \in before[b] /\ Conflict(a, b)
      BY <1>0, <2>1, <3>1 DEF EdgeInv, WaitsOf, Types, Graph!TypeOK
    <3>3. before'[b] = before[b] \ {s} /\ declared'[a] = declared[a] /\ declared'[b] = declared[b]
      BY <1>1, <2>1, <3>1, <3>2, AcquireFacts
    <3> QED
      BY <3>2, <3>3 DEF Conflict
  <2> QED
    BY <2>2, <2>3
<1>2. ASSUME NEW l \in Locations, NEW kinds \in SUBSET Kinds \ {{}}, Declare(l, kinds)
      PROVE  EdgeInv'
  <2>1. /\ owner'.fence = owner.fence /\ owner'.slot = owner.slot /\ owner.at = "scope"
        /\ l \in inUse
        /\ \A x : x \in owner'.deps <=>
              x \in owner.deps \/ \E k \in kinds : x \in Frontier(Other(k), l)
    BY <1>2, DeclareFacts
  <2>2. /\ UNCHANGED <<waits, before, life, inUse>>
        /\ \A a, m \in Slots : Conflict(a, m) => Conflict(a, m)'
        /\ \A t \in Slots : declared[t] \subseteq declared'[t]
    BY <1>2, ConflictsDeclared
  <2>3. hosted \subseteq hosted'
    <3>1. CASE owner.fence
      BY <1>2, <3>1, DeclareAccesses
    <3>2. CASE ~owner.fence
      BY <1>2, <3>2, DeclareAccesses
    <3> QED
      BY <3>1, <3>2
  <2>4. ASSUME NEW k \in kinds, NEW a \in Frontier(Other(k), l)
        PROVE  /\ a \in Slots /\ <<l, life[l], Other(k)>> \in declared[a]
               /\ Other(k) # k
    <3>1. Other(k) \in Kinds /\ Other(k) # k
      BY DEF Other, Kinds
    <3> QED
      BY <2>1, <3>1, FrontierFacts DEF QInv, FrontSound
  <2>5. ASSUME NEW b \in Slots, NEW a \in WaitsOf(b)'
        PROVE  a \in before'[b] /\ Conflict(a, b)'
    <3>1. CASE a \in WaitsOf(b)
      <4>1. a \in before[b] /\ Conflict(a, b) /\ a \in Slots
        BY <1>0, <3>1 DEF EdgeInv, Types
      <4> QED
        BY <2>2, <4>1
    <3>2. CASE a \notin WaitsOf(b)
      <4>1. /\ b = owner.slot /\ a # b
            /\ \E k \in kinds : a \in Frontier(Other(k), l)
        BY <2>1, <2>2, <3>2 DEF WaitsOf
      <4>2. PICK k \in kinds : a \in Frontier(Other(k), l)
        BY <4>1
      <4>3. /\ a \in Slots /\ <<l, life[l], Other(k)>> \in declared[a] /\ Other(k) # k
        BY <2>4, <4>2
      <4>4. a \in before[b]
        BY <4>1, <4>3, DeclaredIsOlder
      <4>5. ~owner.fence
        BY <1>0, <2>1, <4>1, SlotsAssumption DEF OwnerInv
      <4>6. Conflict(a, b)'
        <5> DEFINE x == <<l, life[l], Other(k)>>
                   y == <<l, life[l], k>>
        <5>1. x[1] = y[1] /\ x[2] = y[2] /\ x[3] # y[3]
          BY <4>3
        <5>2. y \in declared'[b]
          BY <1>2, <4>1, <4>5, DeclareAccesses
        <5>3. x \in declared'[a]
          BY <2>2, <4>3
        <5> QED
          BY <5>1, <5>2, <5>3 DEF Conflict
      <4> QED
        BY <2>2, <4>4, <4>6
    <3> QED
      BY <3>1, <3>2
  <2>6. ASSUME Hosting, NEW a \in owner'.deps PROVE HostConflict(a)'
    <3>1. CASE a \in owner.deps
      <4>1. HostConflict(a) /\ a \in Slots
        BY <1>0, <2>6, <3>1 DEF EdgeInv, Types
      <4> QED
        BY <2>2, <2>3, <4>1 DEF HostConflict
    <3>2. CASE a \notin owner.deps
      <4>1. PICK k \in kinds : a \in Frontier(Other(k), l)
        BY <2>1, <2>6, <3>2
      <4>2. /\ a \in Slots /\ <<l, life[l], Other(k)>> \in declared[a] /\ Other(k) # k
        BY <2>4, <4>1
      <4> DEFINE y == <<l, life[l], Other(k)>>
                 x == <<l, life[l], k>>
      <4>3. x[1] = y[1] /\ x[2] = y[2] /\ x[3] # y[3]
        BY <4>2
      <4>4. x \in hosted'
        BY <1>2, <2>6, DeclareAccesses DEF Hosting
      <4>5. y \in declared'[a]
        BY <2>2, <4>2
      <4> QED
        BY <4>3, <4>4, <4>5 DEF HostConflict
    <3> QED
      BY <3>1, <3>2
  <2> QED
    BY <2>1, <2>5, <2>6 DEF EdgeInv, Hosting
<1>3. ASSUME ScopeDone PROVE EdgeInv'
  <2>1. UNCHANGED <<waits, before, declared>>
    BY <1>3, ScopeDoneFacts DEF taskVars
  <2>2. CASE owner' = Idle /\ owner.slot = NoSlot
    BY <1>0, <2>1, <2>2, SlotsAssumption DEF Idle, EdgeInv, WaitsOf, Hosting, Conflict
  <2>3. CASE /\ hosted' = hosted /\ owner'.slot = owner.slot /\ owner'.fence = owner.fence
             /\ owner'.deps \subseteq owner.deps
    BY <1>0, <2>1, <2>3 DEF EdgeInv, WaitsOf, Hosting, Conflict, HostConflict
  <2> QED
    BY <1>3, <2>2, <2>3, ScopeDoneFacts
<1>4. ASSUME SubmitCall \/ FenceCall PROVE EdgeInv'
  <2>1. UNCHANGED <<waits, before, declared>>
    BY <1>4 DEF SubmitCall, FenceCall, taskVars, historyVars
  <2> QED
    BY <1>0, <1>4, <2>1, CallFacts, SlotsAssumption DEF EdgeInv, WaitsOf, Hosting, Conflict
<1>5. ASSUME NEW s \in Slots, AddDependency(s) PROVE EdgeInv'
  <2>1. /\ UNCHANGED <<declared, before, hosted>>
        /\ owner.slot \in Slots /\ s \in owner.deps /\ owner.slot \notin owner.deps
        /\ owner'.slot = owner.slot /\ owner'.fence = owner.fence
        /\ owner'.deps = owner.deps \ {s}
    BY <1>0, <1>5 DEF AddDependency, historyVars, Types, OwnerInv
  <2>2. \/ waits' = waits
        \/ waits' = [waits EXCEPT ![owner.slot] = @ \cup {s}]
    BY <1>5 DEF AddDependency, taskVars, Graph!Depend
  <2>3. \A b \in Slots : WaitsOf(b)' \subseteq WaitsOf(b)
    BY <1>0, <2>1, <2>2 DEF WaitsOf, Types, Graph!TypeOK
  <2> QED
    BY <1>0, <2>1, <2>3, SlotsAssumption DEF EdgeInv, Hosting, Conflict
<1>6. ASSUME SubmitJob PROVE EdgeInv'
  <2>1. /\ UNCHANGED <<declared, before, waits>>
        /\ owner.deps = {} /\ owner.slot \in Slots
        /\ \/ owner' = Idle
           \/ owner' = [owner EXCEPT !.at = "signal"]
    BY <1>0, <1>6 DEF SubmitJob, historyVars, Graph!Submit, OwnerInv
  <2>2. \/ owner'.slot = NoSlot /\ owner'.deps = {} /\ ~owner'.fence
        \/ owner'.slot = owner.slot /\ owner'.deps = {}
    BY <1>0, <2>1 DEF Types, Idle
  <2> QED
    BY <1>0, <2>1, <2>2, SlotsAssumption DEF EdgeInv, WaitsOf, Hosting, Conflict
<1>7. ASSUME FenceReturn PROVE EdgeInv'
  <2>1. /\ owner.slot \in Slots /\ status[owner.slot] \in {"running", "done"}
        /\ UNCHANGED <<waits, before>> /\ owner' = Idle
        /\ \A t \in Slots \ {owner.slot} : declared'[t] = declared[t]
    BY <1>0, <1>7 DEF FenceReturn, Signalled, OwnerInv, Types, taskVars
  <2>2. owner'.slot = NoSlot /\ owner'.deps = {} /\ ~owner'.fence
    BY <2>1 DEF Idle
  <2>3. waits[owner.slot] = {} /\ \A b \in Slots : owner.slot \notin before[b]
    BY <1>0, <2>1 DEF TaskInv, Present
  <2> SUFFICES ASSUME NEW b \in Slots, NEW a \in waits[b]
               PROVE  a \in before[b] /\ Conflict(a, b)'
    BY <2>1, <2>2, SlotsAssumption DEF EdgeInv, WaitsOf, Hosting
  <2>4. a \in before[b] /\ Conflict(a, b)
    BY <1>0 DEF EdgeInv, WaitsOf
  <2>5. a \in Slots \ {owner.slot} /\ b \in Slots \ {owner.slot}
    BY <1>0, <2>3, <2>4 DEF Types
  <2> QED
    BY <2>1, <2>4, <2>5 DEF Conflict
<1>8. ASSUME UNCHANGED <<owner, declared, before, hosted>>,
             \A b \in Slots : waits'[b] \subseteq waits[b]
      PROVE  EdgeInv'
  <2>1. \A b \in Slots : WaitsOf(b)' \subseteq WaitsOf(b)
    BY <1>8 DEF WaitsOf
  <2> QED
    BY <1>0, <1>8, <2>1 DEF EdgeInv, Hosting, Conflict, HostConflict
<1>9. ASSUME NEW s \in Slots, Work(s) PROVE EdgeInv'
  BY <1>8, <1>9, WorkFacts DEF historyVars
<1>10. Alloc \/ Exhausted \/ (\E l \in Locations : Free(l)) \/ UNCHANGED vars => EdgeInv'
  BY <1>8 DEF Alloc, Exhausted, Free, vars, historyVars, taskVars
<1> QED
  BY <1>1, <1>2, <1>3, <1>4, <1>5, <1>6, <1>7, <1>9, <1>10
  DEF Next, OwnerStep, OwnerCall

(* Every earlier job in conflict is waited for: what is declared finds it  *)
(* on the frontier of the location, what is added to the scheduler's graph *)
(* stays there until it is done, and what finishes was waiting for nobody. *)
LEMMA SyncInvStep ==
    ASSUME QInv, [Next]_vars
    PROVE  SyncInv'
<1>0. SyncInv /\ Types /\ OwnerInv /\ TaskInv /\ Present
  BY DEF QInv
<1>1. ASSUME NEW s \in Slots, Acquire(s) PROVE SyncInv'
  <2>1. /\ owner.at = "acquire" /\ owner.slot = NoSlot /\ owner'.slot = s
        /\ owner'.fence = owner.fence
        /\ owner'.deps = IF owner.fence THEN owner.deps \ {s} ELSE {}
        /\ waits'[s] = {} /\ status'[s] = "open" /\ hosted' = hosted
        /\ declared'[s] = (IF owner.fence THEN hosted ELSE {})
        /\ before'[s] = {u \in Slots \ {s} : status[u] # "free"}
        /\ \A t \in Slots \ {s} : /\ waits'[t] = waits[t] /\ declared'[t] = declared[t]
                                  /\ status'[t] = status[t]
        /\ \A c \in Slots : s \notin waits[c]
    BY <1>1, AcquireFacts
  <2>2. before' \in [Slots -> SUBSET Slots]
    BY TypesStep DEF Types
  <2> SUFFICES ASSUME NEW b \in Slots, NEW a \in before'[b],
                      Conflict(a, b)', status'[a] # "done"
               PROVE  status'[b] \notin {"running", "done"} /\ Covers(WaitsOf(b), a)'
    BY DEF SyncInv
  <2>3. a \in Slots
    BY <2>2
  <2>4. CASE b = s
    <3>1. a \in Slots \ {s} /\ status[a] # "done" /\ declared'[a] = declared[a]
      BY <2>1, <2>4
    <3>2. PICK x \in declared[a], y \in declared'[s] : x[1] = y[1] /\ x[2] = y[2] /\ x[3] # y[3]
      BY <2>4, <3>1 DEF Conflict
    <3>3. owner.fence /\ HostConflict(a)
      BY <2>1, <3>2 DEF HostConflict
    <3>4. Covers(owner.deps, a)
      BY <2>1, <3>1, <3>3 DEF QInv, HostInv, Hosting
    <3>5. WaitsOf(s)' = owner.deps \ {s}
      BY <2>1, <3>3 DEF WaitsOf
    <3>6. \A m \in Slots : a \in before[m] /\ Conflict(a, m) =>
             m # s /\ a \in before'[m] /\ Conflict(a, m)'
      BY <1>1, <3>1, ConflictsAcquired
    <3>7. owner.deps \subseteq Slots
      BY <1>0 DEF Types
    <3> QED
      BY <2>1, <2>4, <3>1, <3>4, <3>5, <3>6, <3>7 DEF Covers
  <2>5. CASE b # s
    <3>1. a # s /\ a \in before[b] /\ Conflict(a, b)
      BY <1>1, <2>3, <2>5, ConflictsAcquired
    <3>2. a \in Slots \ {s} /\ b \in Slots \ {s}
      BY <2>3, <2>5, <3>1
    <3>3. status'[a] = status[a] /\ status'[b] = status[b] /\ waits'[b] = waits[b]
      BY <2>1, <3>2
    <3>4. status[b] \notin {"running", "done"} /\ Covers(WaitsOf(b), a)
      BY <1>0, <3>1, <3>3 DEF SyncInv
    <3>5. WaitsOf(b) = waits[b] /\ WaitsOf(b)' = waits[b] /\ waits[b] \subseteq Slots
      BY <1>0, <2>1, <2>5, <3>3, SlotsAssumption DEF WaitsOf, Types, Graph!TypeOK
    <3>6. \A m \in Slots : a \in before[m] /\ Conflict(a, m) =>
             a \in before'[m] /\ Conflict(a, m)'
      BY <1>1, <2>3, <3>1, <3>3, ConflictsAcquired
    <3> QED
      BY <3>3, <3>4, <3>5, <3>6 DEF Covers
  <2> QED
    BY <2>4, <2>5
<1>2. ASSUME NEW l \in Locations, NEW kinds \in SUBSET Kinds \ {{}}, Declare(l, kinds)
      PROVE  SyncInv'
  <2>1. /\ owner'.fence = owner.fence /\ owner'.slot = owner.slot /\ owner.at = "scope"
        /\ l \in inUse
        /\ \A x : x \in owner'.deps <=>
              x \in owner.deps \/ \E k \in kinds : x \in Frontier(Other(k), l)
    BY <1>2, DeclareFacts
  <2>2. /\ UNCHANGED <<status, waits, before, life, inUse>>
        /\ \A a, m \in Slots : Conflict(a, m) => Conflict(a, m)'
    BY <1>2, ConflictsDeclared
  <2>3. \A b \in Slots : WaitsOf(b) \subseteq WaitsOf(b)' /\ WaitsOf(b) \subseteq Slots
    BY <1>0, <2>1, <2>2 DEF WaitsOf, Types, Graph!TypeOK
  <2> SUFFICES ASSUME NEW b \in Slots, NEW a \in before[b],
                      Conflict(a, b)', status[a] # "done"
               PROVE  status[b] \notin {"running", "done"} /\ Covers(WaitsOf(b), a)'
    BY <2>2 DEF SyncInv
  <2>4. a \in Slots
    BY <1>0 DEF Types
  <2>5. CASE Conflict(a, b)
    <3>1. status[b] \notin {"running", "done"} /\ Covers(WaitsOf(b), a)
      BY <1>0, <2>5 DEF SyncInv
    <3> QED
      BY <2>2, <2>3, <2>4, <3>1 DEF Covers
  <2>6. CASE ~Conflict(a, b)
    <3>1. ~owner.fence /\ owner.slot \in Slots
      <4>1. owner.fence => declared' = declared
        BY <1>2, DeclareAccesses
      <4>2. ~owner.fence
        BY <2>6, <4>1 DEF Conflict
      <4> QED
        BY <1>2, <4>2, DeclareAccesses
    <3>2. a # owner.slot
      BY <1>0, <3>1 DEF Present
    <3>3. /\ \A t \in Slots \ {owner.slot} : declared'[t] = declared[t]
          /\ \A x : x \in declared'[owner.slot] <=>
               x \in declared[owner.slot] \/ \E k \in kinds : x = <<l, life[l], k>>
      BY <1>2, <3>1, DeclareAccesses
    <3>4. b = owner.slot
      <4>1. a \in Slots \ {owner.slot}
        BY <2>4, <3>2
      <4>2. b # owner.slot => declared'[b] = declared[b] /\ declared'[a] = declared[a]
        BY <3>3, <4>1
      <4> QED
        BY <2>6, <4>2 DEF Conflict
    <3>5. status[b] = "open"
      BY <1>0, <2>1, <3>4 DEF Present
    <3>6. PICK x \in declared'[a], y \in declared'[b] : x[1] = y[1] /\ x[2] = y[2] /\ x[3] # y[3]
      BY DEF Conflict
    <3>7. x \in declared[a] /\ x \in AnyAccess
      <4>1. a \in Slots \ {owner.slot}
        BY <2>4, <3>2
      <4>2. declared'[a] = declared[a]
        BY <3>3, <4>1
      <4> QED
        BY <1>0, <2>4, <3>6, <4>2 DEF Types
    <3>8. PICK k \in kinds : y = <<l, life[l], k>>
      <4>1. y \notin declared[b]
        BY <2>6, <3>6, <3>7 DEF Conflict
      <4> QED
        BY <3>3, <3>4, <3>6, <4>1
    <3>9. x = <<l, life[l], Other(k)>> /\ Other(k) \in Kinds
      BY <3>6, <3>7, <3>8 DEF AnyAccess, Kinds, Other
    <3>10. /\ \/ Covers(Frontier(Other(k), l), a)
              \/ owner.fence /\ a = owner.slot
              \/ <<l, life[l], Other(Other(k))>> \in hosted
      BY <2>1, <2>4, <3>7, <3>9 DEF QInv, FrontComplete
    <3>11. Covers(Frontier(Other(k), l), a)
      BY <1>0, <3>1, <3>10 DEF OwnerInv
    <3>12. Frontier(Other(k), l) \ {b} \subseteq WaitsOf(b)' /\ Frontier(Other(k), l) \subseteq Slots
      <4>1. WaitsOf(b)' = waits[b] \cup (owner'.deps \ {b})
        BY <2>1, <2>2, <3>4 DEF WaitsOf
      <4> QED
        BY <2>1, <3>9, <4>1, FrontierFacts
    <3>13. a # b /\ \A m \in Slots : a \in before[m] /\ Conflict(a, m) => m # b
      BY <2>6, <3>2, <3>4
    <3> QED
      BY <2>2, <2>4, <3>5, <3>11, <3>12, <3>13 DEF Covers
  <2> QED
    BY <2>5, <2>6
<1>3. ASSUME UNCHANGED <<status, before, declared>>,
             \A b \in Slots : WaitsOf(b)' = WaitsOf(b)
      PROVE  SyncInv'
  BY <1>0, <1>3 DEF SyncInv, Covers, Conflict
<1>4. ASSUME ScopeDone PROVE SyncInv'
  <2>1. UNCHANGED <<status, waits, before, declared>>
    BY <1>4, ScopeDoneFacts DEF taskVars
  <2>2. \A b \in Slots : WaitsOf(b)' = WaitsOf(b)
    BY <1>4, <2>1, ScopeDoneFacts, SlotsAssumption DEF WaitsOf, Idle
  <2> QED
    BY <1>3, <2>1, <2>2
<1>5. ASSUME SubmitCall \/ FenceCall PROVE SyncInv'
  <2>1. UNCHANGED <<status, waits, before, declared>>
    BY <1>5 DEF SubmitCall, FenceCall, taskVars, historyVars
  <2>2. \A b \in Slots : WaitsOf(b)' = WaitsOf(b)
    BY <1>0, <1>5, <2>1, CallFacts, SlotsAssumption DEF WaitsOf, OwnerInv
  <2> QED
    BY <1>3, <2>1, <2>2
<1>6. ASSUME NEW s \in Slots, AddDependency(s) PROVE SyncInv'
  <2>1. /\ UNCHANGED <<declared, before>>
        /\ owner.slot \in Slots /\ s \in owner.deps /\ owner.slot \notin owner.deps
        /\ owner'.slot = owner.slot /\ owner'.deps = owner.deps \ {s}
        /\ owner.at = "depend"
    BY <1>0, <1>6 DEF AddDependency, historyVars, Types, OwnerInv
  <2>2. CASE Graph!Depend(owner.slot, s)
    <3>1. waits' = [waits EXCEPT ![owner.slot] = @ \cup {s}] /\ status' = status
      BY <2>2 DEF Graph!Depend
    <3>2. \A b \in Slots : WaitsOf(b)' = WaitsOf(b)
      BY <1>0, <2>1, <3>1 DEF WaitsOf, Types, Graph!TypeOK
    <3> QED
      BY <1>3, <2>1, <3>1, <3>2
  <2>3. CASE status[s] = "done" /\ waits' = waits /\ status' = status
    <3>1. \A b \in Slots : WaitsOf(b) \ {s} \subseteq WaitsOf(b)' /\ WaitsOf(b) \subseteq Slots
      BY <1>0, <2>1, <2>3 DEF WaitsOf, Types, Graph!TypeOK
    <3> SUFFICES ASSUME NEW b \in Slots, NEW a \in before[b],
                        Conflict(a, b), status[a] # "done"
                 PROVE  status[b] \notin {"running", "done"} /\ Covers(WaitsOf(b), a)'
      BY <2>1, <2>3 DEF SyncInv, Conflict
    <3>2. status[b] \notin {"running", "done"} /\ Covers(WaitsOf(b), a)
      BY <1>0 DEF SyncInv
    <3>3. \A m \in Slots : a \in before[m] /\ Conflict(a, m) => m # s
      BY <2>3, NotStarted
    <3>4. a # s /\ \A m : Conflict(a, m)' <=> Conflict(a, m)
      BY <2>1, <2>3 DEF Conflict
    <3> QED
      BY <2>1, <3>1, <3>2, <3>3, <3>4 DEF Covers
  <2> QED
    BY <1>6, <2>2, <2>3 DEF AddDependency, Unpinnable, taskVars
<1>7. ASSUME SubmitJob PROVE SyncInv'
  <2>1. /\ UNCHANGED <<declared, before, waits>>
        /\ owner.deps = {} /\ owner.slot \in Slots
        /\ status' = [status EXCEPT ![owner.slot] = "submitted"]
        /\ status[owner.slot] = "open"
        /\ \/ owner' = Idle
           \/ owner' = [owner EXCEPT !.at = "signal"]
    BY <1>0, <1>7 DEF SubmitJob, historyVars, Graph!Submit, OwnerInv
  <2>2. owner'.deps = {}
    BY <1>0, <2>1 DEF Types, Idle
  <2>3. \A b \in Slots : WaitsOf(b)' = WaitsOf(b)
    BY <2>1, <2>2 DEF WaitsOf
  <2>4. \A t \in Slots : \/ status'[t] = status[t]
                         \/ status'[t] = "submitted" /\ status[t] = "open"
    BY <1>0, <2>1 DEF Types, Graph!TypeOK
  <2> SUFFICES ASSUME NEW b \in Slots, NEW a \in before[b],
                      Conflict(a, b), status'[a] # "done"
               PROVE  status'[b] \notin {"running", "done"} /\ Covers(WaitsOf(b), a)
    BY <2>1, <2>3 DEF SyncInv, Conflict, Covers
  <2>5. a \in Slots
    BY <1>0 DEF Types
  <2>6. status[a] # "done"
    BY <2>4, <2>5
  <2>7. status[b] \notin {"running", "done"} /\ Covers(WaitsOf(b), a)
    BY <1>0, <2>6 DEF SyncInv
  <2> QED
    BY <2>4, <2>7
<1>8. ASSUME FenceReturn PROVE SyncInv'
  <2>1. /\ owner.slot \in Slots /\ status[owner.slot] \in {"running", "done"}
        /\ owner.at = "signal"
        /\ UNCHANGED <<waits, status, before>> /\ owner' = Idle
        /\ declared'[owner.slot] = {}
        /\ \A t \in Slots \ {owner.slot} : declared'[t] = declared[t]
    BY <1>0, <1>8 DEF FenceReturn, Signalled, OwnerInv, Types, taskVars
  <2>2. owner'.slot = NoSlot /\ owner.deps = {}
    BY <1>0, <2>1 DEF Idle, OwnerInv
  <2>3. \A b \in Slots : WaitsOf(b)' = WaitsOf(b) /\ WaitsOf(b) \subseteq Slots
    BY <1>0, <2>1, <2>2, SlotsAssumption DEF WaitsOf, Types, Graph!TypeOK
  <2> SUFFICES ASSUME NEW b \in Slots, NEW a \in before[b],
                      Conflict(a, b)', status[a] # "done"
               PROVE  status[b] \notin {"running", "done"} /\ Covers(WaitsOf(b), a)'
    BY <2>1 DEF SyncInv
  <2>4. a \in Slots
    BY <1>0 DEF Types
  <2>5. a # owner.slot /\ b # owner.slot
    BY <2>1 DEF Conflict
  <2>6. \A m \in Slots \ {owner.slot} : Conflict(a, m)' <=> Conflict(a, m)
    <3>1. a \in Slots \ {owner.slot}
      BY <2>4, <2>5
    <3> QED
      BY <2>1, <3>1 DEF Conflict
  <2>7. Conflict(a, b)
    BY <2>5, <2>6
  <2>8. status[b] \notin {"running", "done"} /\ Covers(WaitsOf(b), a)
    BY <1>0, <2>7 DEF SyncInv
  <2>9. \A m \in Slots : a \in before[m] /\ Conflict(a, m) => m # owner.slot
    BY <2>1, NotStarted
  <2> QED
    BY <2>1, <2>3, <2>6, <2>8, <2>9 DEF Covers
<1>9. ASSUME NEW s \in Slots, Work(s) PROVE SyncInv'
  <2>1. /\ UNCHANGED <<declared, before, owner>>
        /\ \A t \in Slots \ {s} : status'[t] = status[t]
        /\ \A b \in Slots : waits'[b] = waits[b] \/ waits'[b] = waits[b] \ {s}
        /\ \/ status[s] = "submitted" /\ status'[s] = "running" /\ waits[s] = {}
           \/ status[s] = "running" /\ status'[s] = "done"
    BY <1>9, WorkFacts DEF historyVars
  <2>2. \A b \in Slots : WaitsOf(b) \ {s} \subseteq WaitsOf(b)' /\ WaitsOf(b) \subseteq Slots
    BY <1>0, <2>1 DEF WaitsOf, Types, Graph!TypeOK
  <2> SUFFICES ASSUME NEW b \in Slots, NEW a \in before[b],
                      Conflict(a, b), status'[a] # "done"
               PROVE  status'[b] \notin {"running", "done"} /\ Covers(WaitsOf(b), a)'
    BY <2>1 DEF SyncInv, Conflict
  <2>3. a \in Slots
    BY <1>0 DEF Types
  <2>4. status[a] # "done"
    <3>1. CASE a = s
      BY <2>1, <3>1
    <3>2. CASE a # s
      BY <2>1, <2>3, <3>2
    <3> QED
      BY <3>1, <3>2
  <2>5. status[b] \notin {"running", "done"} /\ Covers(WaitsOf(b), a)
    BY <1>0, <2>4 DEF SyncInv
  <2>6. CASE status'[s] = "done"
    <3>1. status[s] = "running"
      BY <2>1, <2>6
    <3>2. \A m \in Slots : a \in before[m] /\ Conflict(a, m) => m # s
      BY <2>4, <3>1, NotStarted
    <3>3. a # s /\ \A m : Conflict(a, m)' <=> Conflict(a, m)
      BY <2>1, <2>6 DEF Conflict
    <3>4. status'[b] = status[b]
      BY <2>1, <2>5, <3>1
    <3> QED
      BY <2>1, <2>2, <2>5, <3>2, <3>3, <3>4 DEF Covers
  <2>7. CASE status'[s] # "done"
    <3>1. waits[s] = {} /\ status[s] = "submitted" /\ waits' = waits
      BY <1>9, <2>1, <2>7, WorkFacts
    <3>2. WaitsOf(s) = {}
      BY <1>0, <3>1 DEF WaitsOf, OwnerInv, Present, Types, OwnerAt
    <3>3. b # s
      BY <2>5, <3>2 DEF Covers
    <3>4. status'[b] = status[b]
      BY <2>1, <3>3
    <3>5. WaitsOf(b)' = WaitsOf(b)
      BY <2>1, <3>1 DEF WaitsOf
    <3> QED
      BY <2>1, <2>5, <3>4, <3>5 DEF Covers, Conflict
  <2> QED
    BY <2>6, <2>7
<1>10. Alloc \/ Exhausted \/ (\E l \in Locations : Free(l)) \/ UNCHANGED vars => SyncInv'
  BY <1>3 DEF Alloc, Exhausted, Free, vars, historyVars, taskVars, WaitsOf
<1> QED
  BY <1>1, <1>2, <1>4, <1>5, <1>6, <1>7, <1>8, <1>9, <1>10
  DEF Next, OwnerStep, OwnerCall

(* A fence that has no job yet has recorded, for every job in conflict     *)
(* with what its host accesses, that job or one that comes after it.       *)
LEMMA HostInvStep ==
    ASSUME QInv, [Next]_vars
    PROVE  HostInv'
<1>0. HostInv /\ Types /\ OwnerInv
  BY DEF QInv
<1>1. ASSUME NEW s \in Slots, Acquire(s) PROVE HostInv'
  <2>1. owner'.slot = s
    BY <1>1, AcquireFacts
  <2> QED
    BY <2>1, SlotsAssumption DEF HostInv, Hosting
<1>2. ASSUME NEW l \in Locations, NEW kinds \in SUBSET Kinds \ {{}}, Declare(l, kinds)
      PROVE  HostInv'
  <2>1. /\ owner'.fence = owner.fence /\ owner'.slot = owner.slot /\ l \in inUse
        /\ \A x : x \in owner'.deps <=>
              x \in owner.deps \/ \E k \in kinds : x \in Frontier(Other(k), l)
    BY <1>2, DeclareFacts
  <2>2. /\ UNCHANGED <<status, before, life, inUse>>
        /\ \A a, m \in Slots : Conflict(a, m) => Conflict(a, m)'
    BY <1>2, ConflictsDeclared
  <2> SUFFICES ASSUME owner.fence, owner.slot = NoSlot, NEW a \in Slots,
                      HostConflict(a)', status[a] # "done"
               PROVE  Covers(owner.deps, a)'
    BY <2>1, <2>2 DEF HostInv, Hosting
  <2>3. /\ declared' = declared
        /\ \A x : x \in hosted' <=> x \in hosted \/ \E k \in kinds : x = <<l, life[l], k>>
    BY <1>2, DeclareAccesses
  <2>4. ASSUME NEW D \in SUBSET Slots, D \subseteq owner'.deps, Covers(D, a)
        PROVE  Covers(owner.deps, a)'
    BY <2>2, <2>4 DEF Covers
  <2>5. CASE HostConflict(a)
    <3>1. Covers(owner.deps, a)
      BY <1>0, <2>5 DEF HostInv, Hosting
    <3>2. owner.deps \in SUBSET Slots /\ owner.deps \subseteq owner'.deps
      BY <1>0, <2>1 DEF Types
    <3> QED
      BY <2>2, <3>1, <3>2 DEF Covers
  <2>6. CASE ~HostConflict(a)
    <3>1. PICK x \in hosted', y \in declared[a] : x[1] = y[1] /\ x[2] = y[2] /\ x[3] # y[3]
      BY <2>3 DEF HostConflict
    <3>2. PICK k \in kinds : x = <<l, life[l], k>>
      BY <2>3, <2>6, <3>1 DEF HostConflict
    <3>3. y \in AnyAccess
      BY <1>0, <3>1 DEF Types
    <3>4. y = <<l, life[l], Other(k)>> /\ Other(k) \in Kinds /\ Other(Other(k)) = k
      BY <3>1, <3>2, <3>3 DEF AnyAccess, Kinds, Other
    <3>5. \/ Covers(Frontier(Other(k), l), a)
          \/ owner.fence /\ a = owner.slot
          \/ <<l, life[l], k>> \in hosted
      BY <2>1, <3>1, <3>4 DEF QInv, FrontComplete
    <3>6. ASSUME <<l, life[l], k>> \in hosted PROVE HostConflict(a)
      <4> DEFINE u == <<l, life[l], k>>
                 w == <<l, life[l], Other(k)>>
      <4>1. u[1] = w[1] /\ u[2] = w[2] /\ u[3] # w[3]
        BY <3>1, <3>2, <3>4
      <4>2. u \in hosted /\ w \in declared[a]
        BY <3>1, <3>4, <3>6
      <4> QED
        BY <4>1, <4>2 DEF HostConflict
    <3>7. Covers(Frontier(Other(k), l), a)
      BY <2>6, <3>5, <3>6, SlotsAssumption
    <3>8. Frontier(Other(k), l) \subseteq Slots /\ Frontier(Other(k), l) \subseteq owner'.deps
      BY <2>1, <3>4, FrontierFacts
    <3> QED
      BY <2>2, <3>7, <3>8 DEF Covers
  <2> QED
    BY <2>5, <2>6
<1>3. ASSUME ScopeDone PROVE HostInv'
  <2>1. UNCHANGED <<status, before, declared>>
    BY <1>3, ScopeDoneFacts DEF taskVars
  <2>2. \/ owner'.slot \in Slots \/ ~owner'.fence
        \/ owner'.deps = owner.deps /\ owner.fence /\ owner.slot = NoSlot /\ hosted' = hosted
    BY <1>3, ScopeDoneFacts DEF Idle
  <2> QED
    BY <1>0, <2>1, <2>2, SlotsAssumption DEF HostInv, Hosting, HostConflict, Covers, Conflict
<1>4. ASSUME SubmitCall \/ FenceCall PROVE HostInv'
  <2>1. hosted' = {}
    BY <1>0, <1>4, CallFacts DEF OwnerInv, SubmitCall, FenceCall, historyVars
  <2> QED
    BY <2>1 DEF HostInv, HostConflict
<1>5. ASSUME \/ \E s \in Slots : AddDependency(s)
             \/ SubmitJob \/ FenceReturn
      PROVE  HostInv'
  <2>1. owner.slot \in Slots
    BY <1>0, <1>5 DEF AddDependency, SubmitJob, FenceReturn, OwnerInv
  <2>2. ~owner'.fence \/ owner'.slot = owner.slot
    BY <1>0, <1>5 DEF AddDependency, SubmitJob, FenceReturn, Idle, Types
  <2> QED
    BY <2>1, <2>2, SlotsAssumption DEF HostInv, Hosting
<1>6. ASSUME UNCHANGED <<owner, declared, before, hosted>>,
             \A a \in Slots : status[a] = "done" => status'[a] = "done"
      PROVE  HostInv'
  BY <1>0, <1>6 DEF HostInv, Hosting, HostConflict, Covers, Conflict
<1>7. ASSUME NEW s \in Slots, Work(s) PROVE HostInv'
  BY <1>6, <1>7, WorkFacts DEF historyVars
<1>8. Alloc \/ Exhausted \/ (\E l \in Locations : Free(l)) \/ UNCHANGED vars => HostInv'
  BY <1>6 DEF Alloc, Exhausted, Free, vars, historyVars, taskVars
<1> QED
  BY <1>1, <1>2, <1>3, <1>4, <1>5, <1>7, <1>8 DEF Next, OwnerStep, OwnerCall

-----------------------------------------------------------------------------
(* At first nothing is declared, waited for or remembered.                 *)
LEMMA QInit == Init => QInv
<1> SUFFICES ASSUME Init PROVE QInv
  OBVIOUS
<1> USE DEF Init, Graph!Init, Idle
<1>1. Types
  BY DEF Types, Graph!TypeOK, Graph!Status, OwnerAt
<1>2. OwnerInv /\ Present
  BY SlotsAssumption DEF OwnerInv, Present
<1>3. TaskInv /\ EpochInv
  BY SlotsAssumption DEF TaskInv, EpochInv
<1>4. ListInv
  BY DEF ListInv, Once, Range
<1>5. FrontSound /\ FrontComplete
  BY DEF FrontSound, FrontComplete
<1>6. EdgeInv /\ SyncInv /\ HostInv
  BY SlotsAssumption DEF EdgeInv, SyncInv, HostInv, Hosting, WaitsOf
<1> QED
  BY <1>1, <1>2, <1>3, <1>4, <1>5, <1>6 DEF QInv

(* The inductive invariant holds in every state.                           *)
LEMMA SequencerInvariant == Spec => []QInv
<1>1. QInv /\ [Next]_vars => QInv'
  BY TypesStep, OwnerInvStep, PresentStep, TaskInvStep, EpochInvStep, ListInvStep,
     FrontSoundStep, FrontCompleteStep, EdgeInvStep, SyncInvStep, HostInvStep
  DEF QInv
<1> QED
  BY <1>1, QInit, PTL DEF Spec

-----------------------------------------------------------------------------
(* submit() orders an operation behind every earlier one that acquired     *)
(* what it releases, or released what it acquires: none of these is still  *)
(* to be done when its job runs.                                           *)
THEOREM ConflictsAreOrdered == Spec => []SynchronizesWith
<1>1. QInv => SynchronizesWith
  BY DEF QInv, SyncInv, SynchronizesWith
<1> QED
  BY <1>1, SequencerInvariant, PTL

(* A job is given less dependencies than there are slots, so that the      *)
(* MAX_DEPENDENCIES = SLOT_COUNT - 1 consumer nodes of its scoreboard      *)
(* always suffice: the sequencer never adds a job to itself.               *)
THEOREM DependenciesFit ==
    Spec => [](owner.at = "depend" => Cardinality(owner.deps) < Cardinality(Slots))
<1>1. ASSUME QInv, owner.at = "depend" PROVE Cardinality(owner.deps) < Cardinality(Slots)
  <2>1. owner.slot \in Slots /\ owner.slot \notin owner.deps /\ owner.deps \subseteq Slots
    BY <1>1 DEF QInv, OwnerInv, Types
  <2>2. /\ IsFiniteSet(Slots \ {owner.slot})
        /\ Cardinality(Slots \ {owner.slot}) = Cardinality(Slots) - 1
    BY <2>1, FS_RemoveElement
  <2>3. Cardinality(owner.deps) <= Cardinality(Slots \ {owner.slot})
    BY <2>1, <2>2, FS_Subset
  <2>4. Cardinality(owner.deps) \in Nat /\ Cardinality(Slots) \in Nat
    BY <2>1, FS_Subset, FS_CardinalityType
  <2> QED
    BY <2>2, <2>3, <2>4
<1> QED
  BY <1>1, SequencerInvariant, PTL

(* It is ordered behind nothing else: neither bits of jobs that a slot had *)
(* earlier nor the former users of a location make a job wait.             *)
THEOREM OnlyConflictsWait == Spec => []NoFalseDependency
<1>1. QInv => NoFalseDependency
  BY DEF QInv, EdgeInv, WaitsOf, NoFalseDependency
<1> QED
  BY <1>1, SequencerInvariant, PTL

(* fence() returns only when every operation that is in conflict with the  *)
(* accesses of the host is done, with its marker job or without one.       *)
THEOREM FenceWaitsForConflicts == Spec => FenceWaits
<1> DEFINE Waits == owner.fence /\ ~owner'.fence =>
                       \A s \in Slots \ {owner.slot} : HostConflict(s) => status[s] = "done"
<1>1. ASSUME QInv, [Next]_vars PROVE Waits
  <2> SUFFICES ASSUME owner.fence, ~owner'.fence, NEW s \in Slots \ {owner.slot},
                      HostConflict(s), status[s] # "done"
               PROVE  FALSE
    OBVIOUS
  <2>0. Types /\ OwnerInv /\ Present /\ TaskInv /\ SyncInv /\ HostInv
    BY <1>1 DEF QInv
  <2>1. FenceReturn \/ ScopeDone
    <3>1. ~Alloc /\ ~SubmitCall /\ ~FenceCall
      BY <2>0 DEF Alloc, SubmitCall, FenceCall, OwnerInv
    <3>2. ~\E t \in Slots : Acquire(t)
      BY <1>1, AcquireFacts
    <3>3. ~\E t \in Slots : AddDependency(t)
      BY <2>0 DEF AddDependency, Types
    <3>4. ~SubmitJob
      BY <2>0 DEF SubmitJob, Types
    <3>5. ~\E l \in Locations, kinds \in SUBSET Kinds \ {{}} : Declare(l, kinds)
      BY <1>1, DeclareFacts
    <3>6. owner' # owner
      OBVIOUS
    <3>7. ~Exhausted /\ ~UNCHANGED vars /\ (~\E t \in Slots : Work(t))
             /\ ~\E l \in Locations : Free(l)
      BY <3>6 DEF Exhausted, vars, Work, Free
    <3> QED
      BY <1>1, <3>1, <3>2, <3>3, <3>4, <3>5, <3>7 DEF Next, OwnerStep, OwnerCall
  <2>2. PICK x \in hosted, y \in declared[s] : x[1] = y[1] /\ x[2] = y[2] /\ x[3] # y[3]
    BY DEF HostConflict
  <2>3. CASE FenceReturn
    <3>1. owner.slot \in Slots /\ status[owner.slot] \in {"running", "done"}
      BY <2>0, <2>3 DEF FenceReturn, Signalled, OwnerInv
    <3>2. declared[owner.slot] = hosted
      BY <2>0, <3>1 DEF Present
    <3>3. Conflict(s, owner.slot)
      BY <2>2, <3>2 DEF Conflict
    <3>4. s \in before[owner.slot]
      BY <1>1, <2>2, <3>1, DeclaredIsOlder
    <3> QED
      BY <2>0, <3>1, <3>3, <3>4 DEF SyncInv
  <2>4. CASE ScopeDone
    <3>1. owner.deps = {} /\ owner.slot = NoSlot
      BY <1>1, <2>4, ScopeDoneFacts
    <3>2. Covers({}, s)
      BY <2>0, <3>1 DEF HostInv, Hosting
    <3> QED
      BY <3>2 DEF Covers
  <2> QED
    BY <2>1, <2>3, <2>4
<1>2. QInv /\ [Next]_vars => [Waits]_vars
  BY <1>1
<1> QED
  BY <1>2, SequencerInvariant, PTL DEF Spec, FenceWaits, Waits

(* The positions of a location in a list that repeats none: one or none.   *)
LEMMA Positions ==
    ASSUME NEW list \in Seq(Locations), Once(list), NEW l \in Locations
    PROVE  Cardinality({i \in DOMAIN list : list[i] = l}) =
              IF l \in Range(list) THEN 1 ELSE 0
<1> DEFINE P == {i \in DOMAIN list : list[i] = l}
<1>1. CASE l \in Range(list)
  <2>1. PICK i \in DOMAIN list : list[i] = l
    BY <1>1 DEF Range
  <2>2. P = {i}
    BY <2>1 DEF Once
  <2>3. Cardinality({i}) = 1
    BY FS_Singleton
  <2> QED
    BY <1>1, <2>2, <2>3
<1>2. CASE l \notin Range(list)
  <2>1. P = {}
    BY <1>2 DEF Range
  <2>2. Cardinality({}) = 0
    BY FS_EmptySet
  <2> QED
    BY <1>2, <2>1, <2>2
<1> QED
  BY <1>1, <1>2

(* Every location is in exactly one place, once, however alloc() and       *)
(* free() interleave; alloc() hands none out that a frontier still names.  *)
THEOREM LocationsAreExclusive == Spec => []LocationInOnePlace
<1>1. ASSUME QInv PROVE LocationInOnePlace
  <2>0. ListInv
    BY <1>1 DEF QInv
  <2>1. ASSUME NEW l \in Locations
        PROVE  Cardinality({i \in DOMAIN freelist : freelist[i] = l})
                 + Cardinality({i \in DOMAIN retired : retired[i] = l})
                 + Cardinality({x \in {"fresh"} : l \in fresh})
                 + Cardinality({x \in {"inUse"} : l \in inUse}) = 1
    <3>1. /\ Cardinality({i \in DOMAIN freelist : freelist[i] = l}) =
                IF l \in Range(freelist) THEN 1 ELSE 0
          /\ Cardinality({i \in DOMAIN retired : retired[i] = l}) =
                IF l \in Range(retired) THEN 1 ELSE 0
      BY <2>0, Positions DEF ListInv
    <3>2. ASSUME NEW c, NEW A, NEW e \in {0, 1}, e = 1 <=> l \in A
          PROVE  Cardinality({x \in {c} : l \in A}) = e
      <4>1. CASE l \in A
        <5>1. {x \in {c} : l \in A} = {c}
          BY <4>1
        <5> QED
          BY <3>2, <4>1, <5>1, FS_Singleton
      <4>2. CASE l \notin A
        <5>1. {x \in {c} : l \in A} = {}
          BY <4>2
        <5> QED
          BY <3>2, <4>2, <5>1, FS_EmptySet
      <4> QED
        BY <4>1, <4>2
    <3>3. /\ Cardinality({x \in {"fresh"} : l \in fresh}) = IF l \in fresh THEN 1 ELSE 0
          /\ Cardinality({x \in {"inUse"} : l \in inUse}) = IF l \in inUse THEN 1 ELSE 0
      <4> DEFINE One(A) == IF l \in A THEN 1 ELSE 0
      <4>1. \A A : One(A) \in {0, 1} /\ (One(A) = 1 <=> l \in A)
        OBVIOUS
      <4>2. \A A, c : Cardinality({x \in {c} : l \in A}) = One(A)
        <5> HIDE DEF One
        <5> QED
          BY <3>2, <4>1
      <4> QED
        BY <4>2
    <3> QED
      BY <2>0, <3>1, <3>3 DEF ListInv
  <2> QED
    BY <2>0, <2>1 DEF LocationInOnePlace, ListInv
<1> QED
  BY <1>1, SequencerInvariant, PTL
=============================================================================
