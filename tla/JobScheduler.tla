---------------------------- MODULE JobScheduler ----------------------------
(***************************************************************************)
(* The job scheduler (libs/core/sync/.../job_scheduler.hpp) on top of the  *)
(* scoreboards: slot generations and pins, recycling through the lock-free *)
(* free list and its semaphore, invocations of a job and their children,   *)
(* and wait().                                                             *)
(*                                                                         *)
(* One owner thread builds and submits jobs, Workers run them, and one     *)
(* waiter calls wait() on any submitted job.  Every step is one access to  *)
(* memory that another thread can touch at that moment, with the private   *)
(* work before or after it; memory is sequentially consistent.  The worker *)
(* pool is the bag of the invocations it has been given: WorkerPool and    *)
(* WorkerQueue look inside it.                                             *)
(***************************************************************************)
EXTENDS JobScoreboard, LinkedList, Functions, Folds

CONSTANTS
    Workers,
    MaxKids     \* bound: child invocations that one job asks for in total

ASSUME WorkersAssumption == IsFiniteSet(Workers) /\ Workers # {}
ASSUME MaxKidsAssumption == MaxKids \in Nat

VARIABLES
    lifecycle,  \* generation, COMPLETED_BIT and pin count of each slot
    completed,  \* completedGeneration
    head,       \* m_freeSlots
    next,       \* the next pointers of the free list
    count,      \* m_freeSlotCount
    live,       \* m_liveInvocations
    calls,      \* m_invocationCounter
    fn,         \* whether m_execute is set
    kids,       \* history: children the current job has asked for
    pool,       \* number of queued invocations of each slot's job
    owner,      \* the owner's place in acquire, addDependency or submit
    worker,     \* each worker's place in JobFn::operator()
    waiter      \* the waiter's place in wait()

slotVars == <<lifecycle, completed>>
freeVars == <<head, next, count>>
jobVars == <<live, calls, fn, kids, pool>>
threadVars == <<owner, worker, waiter>>
vars == <<boardVars, slotVars, freeVars, jobVars, threadVars>>

NoSlot == Nil

(* There are slots, and the null pointer is none of them.                  *)
ASSUME SomeSlotAssumption == Slots # {} /\ NoSlot \notin Slots

SlotOrNone == Slots \cup {NoSlot}
JobId == Slots \X (0 .. MaxGen)

OwnerAt == {"idle", "sem", "load", "next", "cas", "init", "open", "register",
            "publish", "unpin", "push", "release", "enqueue"}
WorkerAt == {"idle", "body", "spawn", "leave", "complete", "walk", "issue",
             "mark", "wake", "orbit", "push", "release"}

SchedTypeOK ==
    /\ TypeOK
    /\ lifecycle \in [Slots -> [gen : 0 .. MaxGen, done : BOOLEAN, pins : 0 .. 1]]
    /\ completed \in [Slots -> 0 .. MaxGen]
    /\ head \in SlotOrNone /\ next \in [Slots -> SlotOrNone]
    /\ count \in 0 .. Cardinality(Slots)
    /\ live \in [Slots -> 0 .. MaxKids + 1]
    /\ calls \in [Slots -> 0 .. MaxKids + 1]
    /\ fn \in [Slots -> BOOLEAN] /\ kids \in [Slots -> 0 .. MaxKids]
    /\ pool \in [Slots -> 0 .. MaxKids + 1]
    /\ owner \in [at : OwnerAt, slot : SlotOrNone, other : SlotOrNone]
    /\ worker \in [Workers -> [at : WorkerAt, slot : SlotOrNone, left : 0 .. MaxKids]]
    /\ waiter \in [at : {"idle", "gen", "life", "sleep", "parked", "returned"},
                   id : JobId \cup {NoSlot}, seen : 0 .. MaxGen]

(* The constructor strings all slots together, in some order, with         *)
(* lifecycle (0, completed) so that the first generation is 1.             *)
SchedInit ==
    /\ Init
    /\ lifecycle = [s \in Slots |-> [gen |-> 0, done |-> TRUE, pins |-> 0]]
    /\ completed = [s \in Slots |-> 0]
    /\ \E order \in Bijection(1 .. Cardinality(Slots), Slots) :
          /\ head = order[1]
          /\ next = [s \in Slots |->
                LET i == CHOOSE j \in DOMAIN order : order[j] = s
                IN  IF i = Cardinality(Slots) THEN NoSlot ELSE order[i + 1]]
    /\ count = Cardinality(Slots)
    /\ live = [s \in Slots |-> 0]
    /\ calls = [s \in Slots |-> 0]
    /\ fn = [s \in Slots |-> FALSE]
    /\ kids = [s \in Slots |-> 0]
    /\ pool = [s \in Slots |-> 0]
    /\ owner = [at |-> "idle", slot |-> NoSlot, other |-> NoSlot]
    /\ worker = [w \in Workers |-> [at |-> "idle", slot |-> NoSlot, left |-> 0]]
    /\ waiter = [at |-> "idle", id |-> NoSlot, seen |-> 0]

OwnerGoes(at) == owner' = [owner EXCEPT !.at = at]
OwnerIdle == owner' = [at |-> "idle", slot |-> NoSlot, other |-> NoSlot]
WorkerGoes(w, at) == worker' = [worker EXCEPT ![w].at = at]
WorkerIdle(w) ==
    worker' = [worker EXCEPT ![w] = [at |-> "idle", slot |-> NoSlot, left |-> 0]]

-----------------------------------------------------------------------------
(* Mutants: the completion recycles a pinned slot too, or never recycles;  *)
(* a slot is counted twice, or a decrement is lost; an id is drawn twice;  *)
(* children are not counted, or counted twice; the first invocation to     *)
(* return completes the job; a job that is not yet submitted cannot be     *)
(* pinned; wait() looks for running invocations only; nobody is woken.     *)
CompletionAlwaysRecycles(old) == TRUE
CompletionNeverRecycles(old) == FALSE
ReleaseTwice == count' = count + 2
CountLost == count' = count
SameCall(n) == n
ChildrenUncounted(s, k) == live[s]
ChildrenCountedTwice(s, k) == live[s] + 2 * k
FirstIsLast(old) == TRUE
PinsSubmittedOnly(s, g) == lifecycle[s].gen = g /\ ~lifecycle[s].done /\ fn[s]
WaitForIdle(id) == waiter.seen = id[2] \/ live[id[1]] = 0
WakeNobody(s) == waiter

(* recycle_slot, shared by the owner (unpin) and the workers (completion). *)
Push(s) == next' = [next EXCEPT ![s] = head] /\ head' = s
Release == count' = count + 1
Decrement == count' = count - 1

(* Whoever of the last pin and the completion comes second recycles; "old" *)
(* is the lifecycle word before the fetch_sub or fetch_or.                 *)
UnpinRecycles(old) == old.done /\ old.pins = 1
CompletionRecycles(old) == old.pins = 0

(* try_pin(): succeeds while the generation is current and not completed.  *)
Pinnable(s, g) == lifecycle[s].gen = g /\ ~lifecycle[s].done

(* Invocations take ids from a shared counter.                             *)
(* m_execute returned k: k more invocations are counted before any is      *)
(* queued, and the invocation whose decrement finds 1 is the last one.     *)
NextCall(n) == n + 1
CountChildren(s, k) == live[s] + k
IsLast(old) == old = 1

WaitIsOver(id) == waiter.seen = id[2] \/ lifecycle[id[1]].gen # id[2]

(* completedGeneration.notify_all()                                        *)
WakeAll(s) ==
    IF waiter.at = "parked" /\ waiter.id[1] = s
    THEN [waiter EXCEPT !.at = "sleep"] ELSE waiter

(* acquire().  The bound on jobs is on the sum of all generations.  Asking *)
(* for a slot while none is free is only legal when no job is left open:   *)
(* an open job that others wait for would never be submitted.              *)
AcquireCall ==
    /\ owner.at = "idle"
    /\ FoldFunction(+, 0, gen) < MaxGen
    /\ count > 0 \/ \A s \in Slots : phase[s] # "open"
    /\ OwnerGoes("sem")
    /\ UNCHANGED <<boardVars, slotVars, freeVars, jobVars, worker, waiter>>

AcquireCount ==
    /\ owner.at = "sem" /\ count > 0
    /\ Decrement
    /\ OwnerGoes("load")
    /\ UNCHANGED <<boardVars, slotVars, head, next, jobVars, worker, waiter>>

AcquireLoad ==
    /\ owner.at = "load"
    /\ owner' = [owner EXCEPT !.at = "next", !.slot = head]
    /\ UNCHANGED <<boardVars, slotVars, freeVars, jobVars, worker, waiter>>

AcquireNext ==
    /\ owner.at = "next"
    /\ owner' = [owner EXCEPT !.at = "cas", !.other = next[owner.slot]]
    /\ UNCHANGED <<boardVars, slotVars, freeVars, jobVars, worker, waiter>>

(* A failed exchange has loaded the new head.                              *)
AcquireExchange ==
    /\ owner.at = "cas"
    /\ \/ /\ head = owner.slot
          /\ head' = owner.other
          /\ owner' = [owner EXCEPT !.at = "init", !.other = NoSlot]
       \/ /\ head # owner.slot
          /\ owner' = [owner EXCEPT !.at = "next", !.slot = head]
          /\ UNCHANGED head
    /\ UNCHANGED <<boardVars, slotVars, next, count, jobVars, worker, waiter>>

(* The slot is private now: clear the job and reset the scoreboard.        *)
AcquireInit ==
    /\ owner.at = "init"
    /\ Reset(owner.slot)
    /\ next' = [next EXCEPT ![owner.slot] = NoSlot]
    /\ fn' = [fn EXCEPT ![owner.slot] = FALSE]
    /\ live' = [live EXCEPT ![owner.slot] = 0]
    /\ calls' = [calls EXCEPT ![owner.slot] = 0]
    /\ kids' = [kids EXCEPT ![owner.slot] = 0]
    /\ OwnerGoes("open")
    /\ UNCHANGED <<slotVars, head, count, pool, worker, waiter>>

AcquireOpen ==
    /\ owner.at = "open"
    /\ lifecycle' = [lifecycle EXCEPT ![owner.slot] =
                        [gen |-> @.gen + 1, done |-> FALSE, pins |-> 0]]
    /\ OwnerIdle
    /\ UNCHANGED <<boardVars, completed, freeVars, jobVars, worker, waiter>>

(* addDependency(c, <<s, g>>) for any job ever acquired.  If the pin fails *)
(* the call returns and nothing has changed.                               *)
AddDependencyPin(c, s, g) ==
    /\ owner.at = "idle"
    /\ MayRegister(c, s) /\ top[c] < MaxAdds
    /\ g \in 1 .. gen[s] /\ Pinnable(s, g)
    /\ lifecycle' = [lifecycle EXCEPT ![s].pins = @ + 1]
    /\ owner' = [at |-> "register", slot |-> c, other |-> s]
    /\ UNCHANGED <<boardVars, completed, freeVars, jobVars, worker, waiter>>

AddDependencyRegister ==
    /\ owner.at = "register"
    /\ Register(owner.slot, owner.other)
    /\ OwnerGoes("publish")
    /\ UNCHANGED <<slotVars, freeVars, jobVars, worker, waiter>>

AddDependencyPublish ==
    /\ owner.at = "publish"
    /\ Publish(owner.slot)
    /\ OwnerGoes("unpin")
    /\ UNCHANGED <<slotVars, freeVars, jobVars, worker, waiter>>

AddDependencyUnpin ==
    /\ owner.at = "unpin"
    /\ lifecycle' = [lifecycle EXCEPT ![owner.other].pins = @ - 1]
    /\ IF UnpinRecycles(lifecycle[owner.other])
       THEN OwnerGoes("push") ELSE OwnerIdle
    /\ UNCHANGED <<boardVars, completed, freeVars, jobVars, worker, waiter>>

OwnerPush ==
    /\ owner.at = "push"
    /\ Push(owner.other)
    /\ OwnerGoes("release")
    /\ UNCHANGED <<boardVars, slotVars, count, jobVars, worker, waiter>>

OwnerRelease ==
    /\ owner.at = "release"
    /\ Release
    /\ OwnerIdle
    /\ UNCHANGED <<boardVars, slotVars, head, next, jobVars, worker, waiter>>

(* submit(): the callable is in place before the gate opens.               *)
Submit(c) ==
    /\ owner.at = "idle"
    /\ fn' = [fn EXCEPT ![c] = TRUE]
    /\ Commit(c)
    /\ IF IsReady(pending[c])
       THEN owner' = [at |-> "enqueue", slot |-> c, other |-> NoSlot]
       ELSE UNCHANGED owner
    /\ UNCHANGED <<slotVars, freeVars, live, calls, kids, pool, worker,
                   waiter>>

(* Giving a ready job to the pool, by submit() and by a finishing worker.  *)
Enqueue(s) ==
    /\ calls' = [calls EXCEPT ![s] = 0]
    /\ live' = [live EXCEPT ![s] = @ + 1]
    /\ pool' = [pool EXCEPT ![s] = @ + 1]

SubmitEnqueue ==
    /\ owner.at = "enqueue"
    /\ Enqueue(owner.slot)
    /\ OwnerIdle
    /\ UNCHANGED <<boardVars, slotVars, freeVars, fn, kids, worker, waiter>>

Owns ==
    \/ AcquireCall \/ AcquireCount \/ AcquireLoad \/ AcquireNext
    \/ AcquireExchange \/ AcquireInit \/ AcquireOpen
    \/ \E c, s \in Slots, g \in 1 .. MaxGen : AddDependencyPin(c, s, g)
    \/ AddDependencyRegister \/ AddDependencyPublish \/ AddDependencyUnpin
    \/ OwnerPush \/ OwnerRelease
    \/ \E c \in Slots : Submit(c)
    \/ SubmitEnqueue

-----------------------------------------------------------------------------
(* A worker takes an invocation out of the pool and executes the job.      *)
Take(w, s) ==
    /\ worker[w].at = "idle" /\ pool[s] > 0
    /\ pool' = [pool EXCEPT ![s] = @ - 1]
    /\ calls' = [calls EXCEPT ![s] = NextCall(@)]
    /\ worker' = [worker EXCEPT ![w] = [at |-> "body", slot |-> s, left |-> 0]]
    /\ IF phase[s] = "running" THEN UNCHANGED boardVars ELSE Run(s)
    /\ UNCHANGED <<slotVars, freeVars, live, fn, kids, owner, waiter>>

Execute(w, k) ==
    /\ worker[w].at = "body"
    /\ LET s == worker[w].slot IN
         /\ kids[s] + k <= MaxKids
         /\ kids' = [kids EXCEPT ![s] = @ + k]
         /\ live' = [live EXCEPT ![s] = CountChildren(s, k)]
    /\ worker' = [worker EXCEPT ![w].at = IF k = 0 THEN "leave" ELSE "spawn",
                                ![w].left = k]
    /\ UNCHANGED <<boardVars, slotVars, freeVars, calls, fn, pool, owner,
                   waiter>>

Spawn(w) ==
    /\ worker[w].at = "spawn"
    /\ pool' = [pool EXCEPT ![worker[w].slot] = @ + 1]
    /\ worker' = [worker EXCEPT ![w].left = @ - 1,
                                ![w].at = IF worker[w].left = 1 THEN "leave" ELSE @]
    /\ UNCHANGED <<boardVars, slotVars, freeVars, live, calls, fn, kids, owner,
                   waiter>>

Leave(w) ==
    /\ worker[w].at = "leave"
    /\ LET s == worker[w].slot IN
         /\ live' = [live EXCEPT ![s] = @ - 1]
         /\ IF IsLast(live[s]) THEN WorkerGoes(w, "complete") ELSE WorkerIdle(w)
    /\ UNCHANGED <<boardVars, slotVars, freeVars, calls, fn, kids, pool, owner,
                   waiter>>

(* release() of the callable, then scoreboard.complete().                  *)
CompleteJob(w) ==
    /\ worker[w].at = "complete"
    /\ fn' = [fn EXCEPT ![worker[w].slot] = FALSE]
    /\ Complete(worker[w].slot)
    /\ WorkerGoes(w, "walk")
    /\ UNCHANGED <<slotVars, freeVars, live, calls, kids, pool, owner, waiter>>

NotifyConsumer(w, n) ==
    /\ worker[w].at = "walk"
    /\ Notify(worker[w].slot, n)
    /\ UNCHANGED <<slotVars, freeVars, jobVars, threadVars>>

(* Mutant: the slot is completed before its ready consumers are issued.    *)
ReturnSkipsIssue(w) ==
    /\ worker[w].at = "walk"
    /\ Return(worker[w].slot)
    /\ WorkerGoes(w, "mark")
    /\ UNCHANGED <<slotVars, freeVars, jobVars, owner, waiter>>

ReturnReady(w) ==
    /\ worker[w].at = "walk"
    /\ Return(worker[w].slot)
    /\ WorkerGoes(w, "issue")
    /\ UNCHANGED <<slotVars, freeVars, jobVars, owner, waiter>>

IssueReady(w, n) ==
    /\ worker[w].at = "issue"
    /\ Issue(worker[w].slot, n)
    /\ Enqueue(Consumer(n))
    /\ UNCHANGED <<slotVars, freeVars, fn, kids, threadVars>>

FinishIssue(w) ==
    /\ worker[w].at = "issue"
    /\ Finish(worker[w].slot)
    /\ WorkerGoes(w, "mark")
    /\ UNCHANGED <<slotVars, freeVars, jobVars, owner, waiter>>

(* complete_slot(): store the generation, wake the waiters, set the bit.   *)
MarkCompleted(w) ==
    /\ worker[w].at = "mark"
    /\ LET s == worker[w].slot IN
         completed' = [completed EXCEPT ![s] = lifecycle[s].gen]
    /\ WorkerGoes(w, "wake")
    /\ UNCHANGED <<boardVars, lifecycle, freeVars, jobVars, owner, waiter>>

NotifyWaiters(w) ==
    /\ worker[w].at = "wake"
    /\ waiter' = WakeAll(worker[w].slot)
    /\ WorkerGoes(w, "orbit")
    /\ UNCHANGED <<boardVars, slotVars, freeVars, jobVars, owner>>

SetCompletedBit(w) ==
    /\ worker[w].at = "orbit"
    /\ LET s == worker[w].slot IN
         /\ lifecycle' = [lifecycle EXCEPT ![s].done = TRUE]
         /\ IF CompletionRecycles(lifecycle[s])
            THEN WorkerGoes(w, "push") ELSE WorkerIdle(w)
    /\ UNCHANGED <<boardVars, completed, freeVars, jobVars, owner, waiter>>

WorkerPush(w) ==
    /\ worker[w].at = "push"
    /\ Push(worker[w].slot)
    /\ WorkerGoes(w, "release")
    /\ UNCHANGED <<boardVars, slotVars, count, jobVars, owner, waiter>>

WorkerRelease(w) ==
    /\ worker[w].at = "release"
    /\ Release
    /\ WorkerIdle(w)
    /\ UNCHANGED <<boardVars, slotVars, head, next, jobVars, owner, waiter>>

Works(w) ==
    \/ \E s \in Slots : Take(w, s)
    \/ \E k \in 0 .. MaxKids : Execute(w, k)
    \/ Spawn(w) \/ Leave(w) \/ CompleteJob(w) \/ ReturnReady(w) \/ FinishIssue(w)
    \/ \E n \in Node : NotifyConsumer(w, n) \/ IssueReady(w, n)
    \/ MarkCompleted(w) \/ NotifyWaiters(w) \/ SetCompletedBit(w)
    \/ WorkerPush(w) \/ WorkerRelease(w)

-----------------------------------------------------------------------------
(* wait(id), for a job that has been submitted.                            *)
Submitted(s, g) ==
    \/ g < lifecycle[s].gen
    \/ g = lifecycle[s].gen /\ g = gen[s] /\ phase[s] # "open"

WaitCall(s, g) ==
    /\ waiter.at = "idle" /\ Submitted(s, g)
    /\ waiter' = [at |-> "gen", id |-> <<s, g>>, seen |-> 0]
    /\ UNCHANGED <<boardVars, slotVars, freeVars, jobVars, owner, worker>>

WaitLoadGen ==
    /\ waiter.at = "gen"
    /\ waiter' = [waiter EXCEPT !.at = "life", !.seen = completed[waiter.id[1]]]
    /\ UNCHANGED <<boardVars, slotVars, freeVars, jobVars, owner, worker>>

WaitLoadLifecycle ==
    /\ waiter.at = "life"
    /\ waiter' = [waiter EXCEPT !.at =
                     IF WaitIsOver(waiter.id) THEN "returned" ELSE "sleep"]
    /\ UNCHANGED <<boardVars, slotVars, freeVars, jobVars, owner, worker>>

(* atomic::wait blocks only while the value is the one it was given.       *)
WaitSleep ==
    /\ waiter.at = "sleep"
    /\ waiter' = [waiter EXCEPT !.at =
                     IF completed[waiter.id[1]] = waiter.seen
                     THEN "parked" ELSE "gen"]
    /\ UNCHANGED <<boardVars, slotVars, freeVars, jobVars, owner, worker>>

WaitReturn ==
    /\ waiter.at = "returned"
    /\ waiter' = [at |-> "idle", id |-> NoSlot, seen |-> 0]
    /\ UNCHANGED <<boardVars, slotVars, freeVars, jobVars, owner, worker>>

WaitSteps == WaitLoadGen \/ WaitLoadLifecycle \/ WaitSleep \/ WaitReturn
Waits == WaitSteps \/ \E s \in Slots, g \in 1 .. MaxGen : WaitCall(s, g)

SchedNext == Owns \/ Waits \/ \E w \in Workers : Works(w)

(* Threads keep running: a worker that can take or continue an invocation  *)
(* does, the owner returns from its calls and submits what it acquired,    *)
(* and an invocation does not spawn for ever (MaxKids).                    *)
SchedFairness ==
    /\ \A w \in Workers : WF_vars(Works(w))
    /\ WF_vars(Owns)
    /\ WF_vars(WaitSteps)

SchedSpec == SchedInit /\ [][SchedNext]_vars /\ SchedFairness

-----------------------------------------------------------------------------
(* The slots on the list that starts at m_freeSlots.                       *)
FreeList == Reach(Slots, next, head)

Invoking(w, s) == worker[w].slot = s /\ worker[w].at \in {"body", "spawn", "leave"}
Completing(w, s) ==
    /\ worker[w].slot = s
    /\ worker[w].at \in {"complete", "walk", "issue", "mark", "wake", "orbit"}
Pushing(w, s) == worker[w].slot = s /\ worker[w].at = "push"

(* The running invocations of the job in s, and the children that these    *)
(* have still to queue.                                                    *)
Invokers(s) == {w \in Workers : Invoking(w, s)}
ToSpawn(s) ==
    {x \in Workers \X (1 .. MaxKids) : Invoking(x[1], s) /\ x[2] <= worker[x[1]].left}

Releasing ==
    Cardinality({w \in Workers : worker[w].at = "release"})
        + (IF owner.at = "release" THEN 1 ELSE 0)

(* m_liveInvocations counts what is queued, running or about to be queued, *)
(* so it cannot reach zero while a child invocation is still to come.      *)
LiveExact ==
    \A s \in Slots :
        live[s] = pool[s] + Cardinality(Invokers(s)) + Cardinality(ToSpawn(s))

(* A job completes once, after all of its invocations: no invocation of it *)
(* runs, or is queued, once its completion has begun or before it is due,  *)
(* and it always finds its callable in place.  The invocations draw the     *)
(* ids 0, 1, 2, ... from one counter without gap or repetition.             *)
NoStrayInvocation ==
    \A s \in Slots :
        /\ phase[s] = "running" =>
              calls[s] + pool[s] + Cardinality(ToSpawn(s)) = kids[s] + 1
        /\ pool[s] > 0 \/ Invokers(s) # {} =>
              phase[s] \in {"issued", "running"} /\ fn[s]
        /\ Cardinality({w \in Workers : Completing(w, s)}) <= 1

(* Every slot is in exactly one place: on the free list, being taken off   *)
(* it, being put back by exactly one thread, or in use (current, or held   *)
(* by a pin); and the semaphore promises no more slots than the free list   *)
(* holds.  So no slot is recycled twice or lost, and the pop in acquire()   *)
(* never finds the list empty.                                             *)
SlotInOnePlace ==
    /\ count + Releasing + (IF owner.at \in {"load", "next", "cas"} THEN 1 ELSE 0)
         = Cardinality(FreeList)
    /\ \A s \in Slots :
        LET inUse == ~lifecycle[s].done \/ lifecycle[s].pins > 0
            taken == owner.slot = s /\ owner.at \in {"init", "open"}
            ownerPushes == owner.other = s /\ owner.at = "push"
            places == <<s \in FreeList, taken, inUse, ownerPushes>>
        IN Cardinality({i \in 1 .. 4 : places[i]})
             + Cardinality({w \in Workers : Pushing(w, s)}) = 1

(* A slot that acquire() took off the list can be reset: its last job is   *)
(* done, nobody registers with it, and no thread is still completing it.   *)
AcquiredSlotIsQuiet ==
    owner.at = "init" =>
        /\ MayReset(owner.slot)
        /\ lifecycle[owner.slot].done /\ lifecycle[owner.slot].pins = 0
        /\ \A w \in Workers :
              worker[w].slot = owner.slot => worker[w].at = "release"

(* When addDependency() gives up on a job because its slot was completed   *)
(* or reused, that job has really finished: no dependency is dropped.      *)
UnpinnableIsFinished ==
    \A s \in Slots : \A g \in 1 .. lifecycle[s].gen :
        ~Pinnable(s, g) => Finished(s, g)

(* wait(id) returns only after the job and all its children were executed, *)
(* even if the slot has moved on to later jobs meanwhile.                  *)
WaitReturnsAfterCompletion ==
    waiter.at = "returned" =>
        LET s == waiter.id[1]
            g == waiter.id[2]
        IN  /\ Finished(s, g)
            /\ gen[s] = g => /\ live[s] = 0 /\ pool[s] = 0
                             /\ Invokers(s) = {}

(* The assertion in addSource(): a job that names different jobs as its    *)
(* dependencies does not run out of consumer nodes.                        *)
NodeArraySuffices ==
    \A c \in Slots :
        top[c] = Cardinality(sources[c]) => top[c] <= MaxDependencies

(* wait() is never left sleeping after the job has completed.              *)
WaitReturns == waiter.at = "gen" ~> waiter.at = "returned"

(* acquire() is never left waiting: slots of finished jobs come back.      *)
AcquireReturns == owner.at = "sem" ~> owner.at = "idle"

(* A submitted job is executed and its slot given back.                    *)
JobsComplete ==
    \A s \in Slots :
        phase[s] \in {"waiting", "ready", "issued"} ~> lifecycle[s].done
=============================================================================
