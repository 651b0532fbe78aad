----------------------------- MODULE Sequencer -----------------------------
(***************************************************************************)
(* The sequencer (libs/core/sync/.../sequencer.hpp): operations declare    *)
(* how they access locations, and each one becomes a job that depends on   *)
(* the earlier jobs it conflicts with.  What it is built on, acquire(),    *)
(* addDependency() and submit() of the job scheduler, is TaskGraph, which  *)
(* the scoreboards implement.                                              *)
(*                                                                         *)
(* A location remembers, as sets of job slots, who accessed it (its        *)
(* frontiers).  Slots are reused: a counter of reuses, the epoch, tells    *)
(* which bits of a frontier belong to jobs that are gone.                  *)
(***************************************************************************)
EXTENDS Integers, Sequences, FiniteSets, SequencesExt

CONSTANTS
    Slots,          \* the job slots
    Locations,      \* the LocationStates
    MaxOps,         \* bound: jobs acquired in all
    MaxAllocs,      \* bound: calls of alloc()
    MaxAccesses     \* bound: accesses of one scope

ASSUME BoundsAssumption ==
    MaxOps \in Nat /\ MaxAllocs \in Nat /\ MaxAccesses \in Nat

VARIABLES
    status, waits,      \* the scheduler, as TaskGraph
    acquireFrontier,    \* per location: slots that have acquired it
    releaseFrontier,    \* per location: slots that have released it
    observed,           \* per location: observedReuseEpoch
    freelist,           \* m_freelist
    retired,            \* m_retired
    fresh,              \* locations the pool has not constructed yet
    inUse,              \* locations handed out and not freed
    slotEpoch,          \* m_slotReuseEpoch
    epoch,              \* m_reuseEpoch
    owner,              \* the owner's place in submit() or fence(), with the
                        \* scope's dependencies and its number of accesses
    life,               \* history: how often each location was allocated
    declared,           \* history: accesses of the job in each slot
    hosted,             \* history: accesses of the fence under way
    before              \* history: the slots whose jobs are older than a slot's

taskVars == <<status, waits>>
frontierVars == <<acquireFrontier, releaseFrontier, observed>>
listVars == <<freelist, retired, fresh, inUse, life>>
epochVars == <<slotEpoch, epoch>>
historyVars == <<declared, hosted, before>>
vars == <<taskVars, frontierVars, listVars, epochVars, owner, historyVars>>

Graph == INSTANCE TaskGraph

NoSlot == <<>>

ASSUME SlotsAssumption == IsFiniteSet(Slots) /\ Slots # {} /\ NoSlot \notin Slots

Kinds == {"acquire", "release"}
Access == Locations \X (0 .. MaxAllocs) \X Kinds
OwnerAt == {"idle", "acquire", "scope", "depend", "signal"}

TypeOK ==
    /\ Graph!TypeOK
    /\ acquireFrontier \in [Locations -> SUBSET Slots]
    /\ releaseFrontier \in [Locations -> SUBSET Slots]
    /\ observed \in [Locations -> 0 .. MaxOps]
    /\ freelist \in Seq(Locations) /\ retired \in Seq(Locations)
    /\ fresh \subseteq Locations /\ inUse \subseteq Locations
    /\ slotEpoch \in [Slots -> 0 .. MaxOps] /\ epoch \in 0 .. MaxOps
    /\ owner \in [at : OwnerAt, fence : BOOLEAN, slot : Slots \cup {NoSlot},
                  deps : SUBSET Slots, accesses : 0 .. MaxAccesses]
    \* so that the MAX_DEPENDENCIES nodes of the job always suffice:
    /\ owner.at = "depend" => owner.slot \notin owner.deps
    /\ life \in [Locations -> 0 .. MaxAllocs]
    /\ declared \in [Slots -> SUBSET Access] /\ hosted \subseteq Access
    /\ before \in [Slots -> SUBSET Slots]

Idle == [at |-> "idle", fence |-> FALSE, slot |-> NoSlot, deps |-> {},
         accesses |-> 0]

Init ==
    /\ Graph!Init
    /\ acquireFrontier = [l \in Locations |-> {}]
    /\ releaseFrontier = [l \in Locations |-> {}]
    /\ observed = [l \in Locations |-> 0]
    /\ freelist = <<>> /\ retired = <<>>
    /\ fresh = Locations /\ inUse = {}
    /\ slotEpoch = [s \in Slots |-> 0] /\ epoch = 0
    /\ owner = Idle
    /\ life = [l \in Locations |-> 0]
    /\ declared = [s \in Slots |-> {}] /\ hosted = {}
    /\ before = [s \in Slots |-> {}]

-----------------------------------------------------------------------------
(* Mutants: bits are kept when their slot was reused, or dropped when it   *)
(* was not; a job may depend on its own slot; drained locations keep their *)
(* frontiers, or stay retired; a running job is taken for finished.        *)
NothingStale(l) == {}
CurrentIsStale(l) == {s \in Slots : slotEpoch[s] >= observed[l]}
OwnSlotKept(deps, s) == deps
FrontiersKept(l) == FALSE
StillRetired == retired
Started(s) == status[s] \in {"running", "done"}

(* normalize(): the slots whose bits at l belong to earlier jobs.          *)
Stale(l) == {s \in Slots : slotEpoch[s] > observed[l]}
(* m_dependencies.reset(job.m_index)                                       *)
WithoutSelf(deps, s) == deps \ {s}
(* The locations that drain_retired() resets.                              *)
Drained(l) == l \in Range(retired)
(* What m_retired.exchange(nullptr) leaves.                                *)
RetiredAfterDrain == <<>>
(* The marker job of a fence releases the semaphore from its body.         *)
Signalled(s) == status[s] \in {"running", "done"}
(* try_pin() fails.                                                        *)
Unpinnable(s) == status[s] = "done"

(* alloc(): drain what was retired, then reuse a location or make one.     *)
Alloc ==
    /\ owner.at = "idle"
    /\ FoldFunction(+, 0, life) < MaxAllocs
    /\ LET free == Reverse(retired) \o freelist
       IN \E l \in Locations :
            /\ IF free # <<>>
               THEN l = Head(free) /\ freelist' = Tail(free) /\ UNCHANGED fresh
               ELSE /\ fresh # {} /\ l = CHOOSE x \in fresh : TRUE
                    /\ fresh' = fresh \ {l} /\ UNCHANGED freelist
            /\ inUse' = inUse \cup {l}
            /\ life' = [life EXCEPT ![l] = @ + 1]
            /\ observed' = [k \in Locations |->
                  IF k = l \/ Drained(k) THEN epoch ELSE observed[k]]
    /\ retired' = RetiredAfterDrain
    /\ acquireFrontier' = [k \in Locations |->
                              IF Drained(k) THEN {} ELSE acquireFrontier[k]]
    /\ releaseFrontier' = [k \in Locations |->
                              IF Drained(k) THEN {} ELSE releaseFrontier[k]]
    /\ UNCHANGED <<taskVars, epochVars, owner, historyVars>>

(* free(), on any thread and at any time: the client will not declare      *)
(* another access, but jobs that use the location may still be running.    *)
Free(l) ==
    /\ l \in inUse
    /\ inUse' = inUse \ {l}
    /\ retired' = <<l>> \o retired
    /\ UNCHANGED <<taskVars, frontierVars, freelist, fresh, life, epochVars,
                   owner, historyVars>>

-----------------------------------------------------------------------------
(* submit() acquires its job before the scope is built, fence() after it   *)
(* and only if there is something to wait for.                             *)
SubmitCall ==
    /\ owner.at = "idle" /\ epoch < MaxOps
    /\ owner' = [Idle EXCEPT !.at = "acquire"]
    /\ UNCHANGED <<taskVars, frontierVars, listVars, epochVars, historyVars>>

FenceCall ==
    /\ owner.at = "idle" /\ epoch < MaxOps
    /\ owner' = [Idle EXCEPT !.at = "scope", !.fence = TRUE]
    /\ UNCHANGED <<taskVars, frontierVars, listVars, epochVars, historyVars>>

(* A slot always comes with a generation of its own: the epoch advances.   *)
Acquire(s) ==
    /\ owner.at = "acquire"
    /\ Graph!Open(s)
    /\ epoch' = epoch + 1
    /\ slotEpoch' = [slotEpoch EXCEPT ![s] = epoch + 1]
    /\ owner' = [owner EXCEPT !.slot = s,
                     !.at = IF owner.fence THEN "depend" ELSE "scope",
                     !.deps = IF owner.fence THEN WithoutSelf(@, s) ELSE @]
    /\ declared' = [declared EXCEPT ![s] = IF owner.fence THEN hosted ELSE {}]
    /\ before' = [t \in Slots |->
                     IF t = s THEN {u \in Slots \ {s} : status[u] # "free"}
                     ELSE before[t] \ {s}]
    /\ UNCHANGED <<frontierVars, listVars, hosted>>

(* acquire(l), release(l), acq_rel(l) of a scope; "kinds" is what the      *)
(* operation does.  It depends on the accesses of the other kind.  A job   *)
(* joins the frontier of its own kinds, an acq_rel as its only member; a   *)
(* fence empties the frontier it waits for.                                *)
Declare(l, kinds) ==
    /\ owner.at = "scope" /\ owner.accesses < MaxAccesses
    /\ l \in inUse
    /\ LET acquired == acquireFrontier[l] \ Stale(l)
           released == releaseFrontier[l] \ Stale(l)
           wanted == (IF "acquire" \in kinds THEN released ELSE {})
                        \cup (IF "release" \in kinds THEN acquired ELSE {})
           me == IF owner.fence THEN {} ELSE {owner.slot}
           Rest(kind, other, frontier) ==
               IF kinds = Kinds \/ (owner.fence /\ other \in kinds)
               THEN {} ELSE frontier
           Joining(kind) == IF kind \in kinds THEN me ELSE {}
       IN  /\ acquireFrontier' = [acquireFrontier EXCEPT ![l] =
                 Rest("acquire", "release", acquired) \cup Joining("acquire")]
           /\ releaseFrontier' = [releaseFrontier EXCEPT ![l] =
                 Rest("release", "acquire", released) \cup Joining("release")]
           /\ owner' = [owner EXCEPT !.deps = @ \cup wanted,
                                     !.accesses = @ + 1]
    /\ observed' = [observed EXCEPT ![l] = epoch]
    /\ LET accesses == {<<l, life[l], k>> : k \in kinds}
       IN  IF owner.fence
           THEN hosted' = hosted \cup accesses /\ UNCHANGED declared
           ELSE /\ declared' = [declared EXCEPT ![owner.slot] = @ \cup accesses]
                /\ UNCHANGED hosted
    /\ UNCHANGED <<taskVars, listVars, epochVars, before>>

ScopeDone ==
    /\ owner.at = "scope"
    /\ \/ /\ ~owner.fence
          /\ owner' = [owner EXCEPT !.at = "depend",
                                    !.deps = WithoutSelf(@, owner.slot)]
          /\ UNCHANGED hosted
       \/ /\ owner.fence /\ owner.deps # {}
          /\ owner' = [owner EXCEPT !.at = "acquire"]
          /\ UNCHANGED hosted
       \/ /\ owner.fence /\ owner.deps = {}
          /\ owner' = Idle
          /\ hosted' = {}
    /\ UNCHANGED <<taskVars, frontierVars, listVars, epochVars, declared, before>>

(* addDependency() does nothing for a job that has finished.               *)
AddDependency(s) ==
    /\ owner.at = "depend" /\ s \in owner.deps
    /\ \/ Graph!Depend(owner.slot, s)
       \/ Unpinnable(s) /\ UNCHANGED taskVars
    /\ owner' = [owner EXCEPT !.deps = @ \ {s}]
    /\ UNCHANGED <<frontierVars, listVars, epochVars, historyVars>>

SubmitJob ==
    /\ owner.at = "depend" /\ owner.deps = {}
    /\ Graph!Submit(owner.slot)
    /\ owner' = IF owner.fence THEN [owner EXCEPT !.at = "signal"] ELSE Idle
    /\ UNCHANGED <<frontierVars, listVars, epochVars, historyVars>>

FenceReturn ==
    /\ owner.at = "signal" /\ Signalled(owner.slot)
    /\ owner' = Idle
    /\ hosted' = {}
    /\ declared' = [declared EXCEPT ![owner.slot] = {}]
    /\ UNCHANGED <<taskVars, frontierVars, listVars, epochVars, before>>

-----------------------------------------------------------------------------
(* The scheduler's workers.                                                *)
Work(s) ==
    /\ Graph!Start(s) \/ Graph!Finish(s)
    /\ UNCHANGED <<frontierVars, listVars, epochVars, owner, historyVars>>

OwnerStep ==
    \/ \E s \in Slots : Acquire(s) \/ AddDependency(s)
    \/ ScopeDone \/ SubmitJob \/ FenceReturn

OwnerCall ==
    \/ Alloc \/ SubmitCall \/ FenceCall
    \/ \E l \in Locations, kinds \in SUBSET Kinds \ {{}} : Declare(l, kinds)

Exhausted == owner.at = "idle" /\ UNCHANGED vars

Next ==
    \/ OwnerStep \/ OwnerCall \/ Exhausted
    \/ \E s \in Slots : Work(s)
    \/ \E l \in Locations : Free(l)

(* The scheduler executes what is submitted and ready; the owner ends its  *)
(* scopes and goes on inside submit() and fence().                         *)
Spec ==
    /\ Init /\ [][Next]_vars
    /\ WF_vars(OwnerStep)
    /\ \A s \in Slots : WF_vars(Work(s))

-----------------------------------------------------------------------------
(* Two jobs conflict if one acquires a location that the other releases.   *)
Conflict(a, b) ==
    \E x \in declared[a], y \in declared[b] :
        x[1] = y[1] /\ x[2] = y[2] /\ x[3] # y[3]

(* The memory model of the class comment: an operation that conflicts with *)
(* an earlier one does not start before that one is done.                  *)
SynchronizesWith ==
    \A b \in Slots : \A a \in before[b] :
        Conflict(a, b) /\ status[b] \in {"running", "done"} => status[a] = "done"

(* And nothing else is ordered: a job is made to wait only for earlier     *)
(* jobs it conflicts with, never for the present job of a slot that a job  *)
(* it conflicted with once had, nor for users of a freed location.         *)
NoFalseDependency ==
    \A c \in Slots : \A s \in waits[c] : s \in before[c] /\ Conflict(s, c)

(* When fence() returns, every earlier operation that conflicts with the   *)
(* accesses of the host is done, whether or not a job was submitted.       *)
HostConflict(s) ==
    \E x \in hosted, y \in declared[s] :
        x[1] = y[1] /\ x[2] = y[2] /\ x[3] # y[3]
FenceWaits ==
    [][owner.fence /\ ~owner'.fence =>
          \A s \in Slots \ {owner.slot} :
              HostConflict(s) => status[s] = "done"]_vars

(* A location is in one place: handed out, retired, on the free list or    *)
(* not constructed yet; no two clients ever share one, and alloc() hands    *)
(* out locations with empty frontiers only (its assertions).                *)
LocationInOnePlace ==
    /\ \A l \in Range(freelist) \cup fresh :
        acquireFrontier[l] = {} /\ releaseFrontier[l] = {}
    /\ \A l \in Locations :
        Cardinality({i \in DOMAIN freelist : freelist[i] = l})
          + Cardinality({i \in DOMAIN retired : retired[i] = l})
          + Cardinality({x \in {"fresh"} : l \in fresh})
          + Cardinality({x \in {"inUse"} : l \in inUse}) = 1

(* submit() and fence() return: no job waits for itself or for a job that  *)
(* waits for it, and a free slot turns up.                                 *)
CallsReturn == owner.at \in {"acquire", "scope"} ~> owner.at = "idle"
=============================================================================
