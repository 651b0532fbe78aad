# Strobe: the job system and flow, specified and verified

TLA+ specifications of the concurrent core of the strobe game engine
(`src/libs/core/sync`) and of flow, its compiler and runtime for task programs
(`src/libs/flow`), the TLC models that check them, and machine-checked proofs of
the most important facts.  Everything is translated from the source; the lines of
each definition are listed in `PROJECT.json` under `map`.

## 1. The system and its parts

The build (`src/CMakeLists.txt`) consists of `libs/core`, `libs/platform`,
`libs/rhi`, `libs/imgui`, `libs/flow`, `libs/rdg` and the deferred example.
`subsystems/`, `sandbox/`, `docs/` and `third_party/` are outside of it.

| part | state it keeps | operations | what makes it correct | status |
|---|---|---|---|---|
| **core/sync `JobScoreboard`** | pending counter, intrusive list of consumers (or the "completed" sentinel), array of consumer nodes | `reset`, `addSource`, `commit`, `complete`, iteration over the ready list | each unfinished source is counted off exactly once; a job is ready when the last one is; nodes are not reused while linked | modelled, **proved** |
| **core/sync `JobScheduler`** | 64 job slots (lifecycle word: generation, completed bit, pins), free list + semaphore, invocation counters, the callable | `acquire`, `addDependency`, `submit`, `wait`, `JobFn::operator()`, `complete_slot`, `unpin`, `recycle_slot` | a job runs once after its dependencies, with all its child invocations; a slot is recycled once, when nobody touches it any more; waiters wake up | modelled, **proved** |
| **core/sync `WorkerQueue`** | work-stealing ring, MPSC inbox, overflow list, pooled list nodes | `submit_local`, `submit`, `pop`, `steal` | every job comes out exactly once | modelled, **proved** |
| **core/sync `WorkerPool`** | workers, their queues, `m_liveInvocations`, the stop flag | `submit`, `Context::submit(_local)`, worker loop, stealing, `request_stop`, `join` | no worker leaves while there is or will be work; all work is done; `join` returns | modelled, **proved** |
| **core/sync `Sequencer`** | per location two frontiers (sets of slots) and an epoch; retired and free locations | `alloc`, `free`, `submit`, `fence`, scope accesses | exactly the conflicting operations are ordered; fences wait for what they must | modelled, **proved** |
| **flow recorder** (`OpStream`) | resources, operations, phis, ifs, which resources hold a value | `resource`, `external`, `phi`, `project`, `construct`, `op`, `cutoff`, `discard`, `acquire`, `yield`, `feedback`, `if_`, `while_`, `validate` | what it lets through compiles | modelled, **proved** |
| **flow compiler** (`detail/compiler`, job plan, artifact) | the intermediate program: values, edges, activation, lifetimes, layout, tables, jobs | one function per pass | conflicts stay ordered; bytes are shared only by objects that are not alive together; regions and bodies stay whole | modelled, **mostly proved** |
| **flow runtime** (`Program`, `ProgramRuntime`) | tokens, activations, slots and generations, the jobs of the traversals in flight | `release`, `submit`, the jobs' callables | overlapping traversals compute what sequential ones would; slots come back | partly modelled |
| core/events | listener lists per dispatcher, dispatch in progress | add, remove, dispatch | listeners added or removed during a dispatch | planned |
| core/memory | lock-free and locked pools, buddy allocator, reference counts | allocate, deallocate, acquire, release | no block handed out twice, none lost; last release destroys once | planned |
| core/containers, graph | vectors, hash maps, bit sets, graph algorithms | | equal to a mathematical reference; sequential code with unit tests of its own | graph planned |
| rdg | barrier compiler, materializer, swapchain images | | barriers order every hazard | planned |
| rhi | queues with recorded/rotating batches, timelines, garbage collector, heap controller, memory allocator | submit, rotate, drain, retire, collect | nothing is destroyed while the GPU may use it; back-pressure cannot deadlock | planned |
| platform, imgui, Vulkan wrappers, fs, lina, color | mostly state of the operating system or the driver | | | not modelled |

### How the modelled parts interact

```
 flow::begin … end ──> FlowRecorder ──> FlowCompiler ──> Artifact
                                                            │
 Program::submit ─────────────> FlowProgram ── objects ──> FlowRuntime
                                     │ one job per planned job and traversal
                                     v
 Sequencer ── acquire / addDependency / submit ──> JobScheduler ── slot ──> JobScoreboard
    │  (owner thread)                                  │   ^                   │
    │                                    submit        │   │ JobFn::operator() │ ready consumers
    └── fence: semaphore released by a job             v   │                   v
                                                    WorkerPool ── push/pop/steal ──> WorkerQueue
```

One *owner* thread calls the `Sequencer` and `JobScheduler` ("Owner-thread only",
"not-thread-safe!"); any thread may call `wait` and `Sequencer::free`; worker
threads run jobs, complete them, notify consumers through the scoreboards, give
slots back and submit what became ready to a random worker's queue.  The threads
share the lifecycle words, the counters and the intrusive lists; nothing but
`std::atomic`, two kinds of semaphores and `atomic::wait` synchronises them.
The objects of a flow program are behind one mutex and one condition variable; all
other order among its jobs is that of their dependencies.

What is hard here: registration racing with completion; slots, nodes and ids that
are reused while other threads still hold them; counters that decide who is last;
wake-ups; the memory order of the deque; stopping while work is in flight; in flow,
an order of accesses that has to survive a dozen rewritings, and traversals that
are submitted long before the ones in front of them have run.
`PROJECT.json` lists these hazards one by one, at their lines, with the
properties that cover them.

## 2. Modules

| module | models | kind |
|---|---|---|
| `TaskGraph` | what slots and scoreboards promise: tasks, who waits for whom | abstract specification |
| `JobScoreboard` | `job_scoreboard.hpp` | component; refines `TaskGraph` |
| `JobScheduler` | `job_scheduler.hpp`; EXTENDS `JobScoreboard` and takes its actions as steps of its threads | composition |
| `Sequencer` | `sequencer.hpp`, on a scheduler that keeps the promise of `TaskGraph` | composition |
| `JobBag` | what a queue promises: what was put in comes out once | abstract specification |
| `LinkedList` | what a list leads to, and that it has no cycle | operators |
| `WorkerQueue` | `worker_queue.hpp` | component; refines `JobBag` |
| `WorkerPool` | `worker_pool.hpp`, on queues that keep the promise of `JobBag` | component |
| `FlowRecorder` | `op_stream.hpp`, `op_stream.cpp` | component |
| `FlowLowering` | passes `canonicalize` … `add_resource_order` | operators |
| `FlowAnalysis` | passes `classify_nodes` … `allocate_activation_states` | operators |
| `FlowEmission` | `emit_program`, `plan_physical_storage`, `build_job_plan`, the feedback submission plan | operators |
| `FlowCompiler` | `flow::end()`: a recording, then the passes, one action per group | composition |
| `FlowRuntime` | `program_runtime.hpp`, one operator per critical section of its mutex | operators |
| `FlowProgram` | `submit_feedback_regions()` and the jobs it submits | composition |
| `…Proofs` | | theorems about the module they are named after; `JobSchedulerProofs` also about `JobScoreboard`, `FlowRecordingProofs` about what the recorder and `lower_values` have in common |
| `Recursion` | | what is true of every function defined by recursion on the naturals |
| `MC…` | recordings, programs, symmetry sets | instances for TLC |

So the levels fit together: the scoreboard is shown to implement `TaskGraph`, and
the sequencer stands on `TaskGraph`; the scheduler is shown to take only steps of
the scoreboard; the queue is shown to implement `JobBag`, and the pool stands on
bags; the programs that `FlowProgram` runs are compiled by the operators that
`FlowCompiler` checks.

### JobScoreboard

`pending`, `consumers`, `sealed` (the list head is the sentinel) and `top` are the
members of the class; `gen` numbers the uses of a slot.  A consumer node is a pair
`<<slot, index>>`.  `reg` is the owner's place inside `addSource` (after the
counting, before the publication), `walk` what is left of the list that
`complete()` took, `ready` the list it returns.  One action per shared access:
`Register` counts, `Publish` is the compare-exchange or the discovery of the
sentinel, `Complete` the exchange, `Notify` one turn of the walk, `Issue` one
turn of the loop over the ready list.  `sources` is a history variable.  The
order of intrusive lists is abstracted (they are sets of nodes): nothing depends
on it.  A compare-exchange that fails changes nothing, so a retry loop is one
action.

`Reset` is constrained by `MayReset` and `Register` by `MayRegister`; this is the
contract of the two functions, stated in comments and assertions in the source
("Owner-only", generations match).  That the scheduler keeps this contract is
proved (`SchedulerKeepsContract`, `AcquiredIsQuiet`).  Dependencies form no cycle
(`KeepsAcyclic`): a client that builds one waits for ever by design.

### JobScheduler

`lifecycle[s]` is the 64-bit word as a record; `completed`, `head`, `next`,
`count` (the semaphore), `live`, `calls` are the atomics of the code.  The owner's
program counter walks through `acquire` (semaphore, load, next, exchange,
initialisation, publication), `addDependency` (pin, register, publish, unpin,
recycle) and `submit`; each worker's through `JobFn::operator()` and
`complete_slot`; the waiter's through `wait`.  A failed pin is a stutter.  The
worker pool is reduced to the number of queued invocations per job (`pool`).
`completed()` performs the same two loads as the loop of `wait()`.

The owner's contract: one thread; a dependency graph without cycles;
`acquire()` with no free slot is only called when no acquired job is still
unsubmitted (`AcquireCall`) - otherwise the owner itself is what it waits for.
The sequencer satisfies it: `acquire()` is the first thing `submit()` does.

### Sequencer

The frontiers are sets of slots, normalisation subtracts `Stale(l)`.  A scope's
accesses are separate steps, so that workers and `free()` run in between.
`declared` (the accesses of the job in a slot), `hosted` (those of the fence under
way) and `before` (the jobs older than the one in a slot) are history variables,
from which "conflict" is defined independently of the frontiers.  A location
that is freed and allocated again is a new location (`life`).

### WorkerQueue

The ring, `m_top`, `m_bottom`, the inbox, `m_pending` and the nodes.  The owner's
plain and relaxed stores go through a FIFO store buffer (as on x86-64) that drains
at any time; the fence in `pop()` and the compare-exchange wait for it to be
empty.  Without the buffer the fence could be removed from the model unnoticed:
the mutant `NoFence` of run `queue` shows that it cannot be.
A thief reads the cell before its compare-exchange, so it may read a cell the
owner is overwriting; the exchange then fails.

### WorkerPool

`local` and `box` are the stealable and the private part of each queue.  `pop()`
is three steps (deque, lists, deque again) because thieves may act in between.
The client submits round-robin, stops and joins; jobs submit further jobs to
themselves or to a random worker.

### FlowRecorder

One action per recording call.  A call that throws leaves the stream as it was, so
the conditions of its throws are the guards; `if_` checks its body after recording
it, which is `RejectIf`.  Types, labels, names and callbacks are left out; of the
metadata only the side-effect flag is kept.

### FlowCompiler and its three modules of passes

Each pass is an operator from the program to what the pass adds; `ir` collects the
results as the `CompileState` of the code does.  Vectors of edges and constraints
are relations, since the code removes duplicates and the order has no effect.  Where
the order of a vector decides (positions, numbering of nodes, the ready loop of
`emit_program`, jobs) it is kept.  A throw ends in stage "rejected".

### FlowRuntime and FlowProgram

The runtime is one record, because everything it has is behind one mutex; each
operator is one critical section of a member function.  `FlowProgram` has the
submitting thread (`Release` a token, `SubmitInitialization`, `SubmitTraversal`)
and the jobs.  A job is the list of what is left to do (execute a node, release an
object, finish the activation) and takes one step per critical section or callback,
so that two jobs interleave inside a node.  `memory` is one tag per slot: the value
last written and the traversal that wrote it.  `failed` collects the asserts and
`logic_error`s that are reached.

## 3. What the runs check

| run | instance | shows |
|---|---|---|
| `scoreboard_safety` | 3 slots, 2 registrations per use, 2 uses | `PendingExact`, `StartAfterSources`, `NotStranded`, `NodesUnlinkedWhenReused`, and that scoreboards implement `TaskGraph` |
| `scheduler_safety` | 2 slots, 2 workers, 3 generations, 1 child | `LiveExact`, `NoStrayInvocation`, `SlotInOnePlace`, `AcquiredSlotIsQuiet`, `UnpinnableIsFinished`, `WaitReturnsAfterCompletion` |
| `scheduler_liveness` | 2 slots, 1 worker, 3 generations, 1 child | `wait` and `acquire` return, every submitted job completes |
| `scheduler_nodes` | 2 slots, 2 registrations, no children | **violation** of `NodeArraySuffices` |
| `queue` | ring of 2, 4 jobs, 2 nodes, 1 thief | nodes are in one place, the queue implements `JobBag`, everything submitted is taken |
| `pool` | 3 workers, 2 jobs, 6 victims per scan | counting, exit, no job twice, submitted is executed, `join` returns |
| `sequencer` | 2 slots, 2 locations, 3 jobs, 2 allocations, 2 accesses per scope | exactly the conflicting operations are ordered, locations are not shared, fences wait, `submit` and `fence` return |
| `flow_compiler` | nine families of recordings of up to 3 resources and 5 operations | the compiler properties below |
| `flow_nested_projections` | projections of projections | **violation** of `ConflictsOrdered` |
| `flow_program` | five compiled programs, 3 activations, 1 token, 2 or 3 traversals | `ReadsAreSequential`, `NothingFails`, `TraversalsFinish` |
| `flow_unread` | one program whose feedback producer does not read the state | **violation** of `ReadsAreSequential` |

The compiler properties: what the recorder accepts compiles
(`ValidRecordingsCompile`); two operations that touch one object, one of them
changing it, run in recorded order under the job plan, whatever the workers do
(`ConflictsOrdered`); resources that share bytes are never alive together
(`StorageExclusive`); grouping nodes into jobs and reducing waits loses and adds no
order (`JobsKeepOrder`); what runs once waits for nothing that runs in every
traversal (`InitializationClosed`); runtime order respects the edges and keeps
regions in one piece (`EmittedInOrder`); the steps of `if_` and `while_` run each
operation of a body once, in an order the edges allow (`ControlRunsBodyOnce`).

**Bounds.** `MaxAdds` (registrations per use of a slot), `MaxGen` (uses of a slot,
in the scheduler of all slots together), `MaxKids` (children of a job), `MaxOps`,
`MaxAllocs`, `MaxAccesses`, `MaxActivations`, `MaxTokens`, `MaxTraversals` and the
sets of jobs and nodes bound counters that grow for ever in the code.  Two uses of a
slot suffice to reuse a node, a bit or an id while an older holder is still active;
three generations let a waiter or a pin be outrun twice.  Three slots give a source,
a consumer and a third job that takes either's slot or sits between them.  A ring of
two wraps with three jobs and overflows with four.  Three workers are needed for a
victim that is neither of the other two.  Three jobs on two slots let the sequencer
take a slot again while a frontier still names its first job, and a fence take the
slot of its own dependency.

The families of `flow_compiler` (`Shapes` in `MCFlowCompiler`) fix the kinds of the
resources and operations and leave accesses, modes, cutoffs, phis, bodies and
positions open: pairs of constructed values, bodies, values that are consumed,
discarded and cut, serialization, external resources, one feedback, two feedback
regions, nested controls, projections.  A constraint over all recordings of this
length would not end; each family has what the passes that concern it distinguish.
Declarations commute with operations, so they come first where that is
possible.  `NestProjections` is FALSE there because of the finding below.  The third
traversal of the small programs of `flow_program` takes a slot a second time; one
token per acquire is enough, since a release may come right before every submission.

**Symmetry** is used in the safety runs of scoreboard and scheduler only.
In `sequencer`, which has a liveness property, `FreshInOrder` instead hands slots
that were never used out in one order.

**Deadlock** is checked in `scoreboard_safety`, `scheduler_safety`, `queue` and
`pool`.  It is off in `scheduler_liveness` and `sequencer`, where a mutated system
should be shown to miss its liveness property and not merely to stop; and in the
flow runs, where a program that is compiled, or that has no tokens left, rightly
stops.  Where a system may stop because a bound is reached (`Exhausted`) or because
it has finished (`Terminated`) the specification says so.

**Fairness.** Weak fairness of each worker's steps (a thread in the worker loop
keeps running: it spins or yields, it never blocks), of the owner's steps inside
a call and its submission of what it acquired, of the store buffer, and in `queue`
of an owner that keeps popping, as the worker loop does.  In `FlowProgram`, weak
fairness of the workers as a whole: some job that can run does, which the pool's
`SubmittedIsExecuted` gives.  No fairness is assumed for thieves, for calls of
clients, or for one branch of a choice.  Strong fairness is not used.

### Findings

Shown by a run:

* `scheduler_nodes`: `addSource` asserts `m_top < (m_nodes + MAX_DEPENDENCIES)`
  (`job_scoreboard.hpp:129`) with `MAX_DEPENDENCIES = SLOT_COUNT - 1` (line 23).  An
  open job may be given a dependency on a job, that job may finish, and its slot may
  hold another job that is added too: the number of different jobs in flight is
  bounded by the slots, the number added to one open job is not.
  `submit(fn, dependencies)`, which takes any range, can do this as well only if its
  jobs finish while it runs, and then their pins fail; the sequence needs `acquire`
  between two `addDependency` calls on an older open job.  The sequencer is not
  affected: theorem `DependenciesFit`.
* `flow_nested_projections`: `aliases()` (`add_resource_order.hpp:39`) looks one owner
  up, so an access through a projection of a projection is not ordered with accesses
  to the outermost owner, which is the same object.
* `flow_unread`: the generation a phi selects is one cell per phi, overwritten when the
  producer of the feedback returns (`program_runtime.hpp:572`).  A producer that reads
  nothing of the state may run before its own traversal's phi, which then selects the
  state this traversal is producing.

Met while modelling, in code the runs restrict themselves away from or that is not
modelled; no run shows them:

* `analyze_activation.hpp:60`: an operation recorded between a phi and the first
  acquire of its cycle becomes initialization and reads the phi before any phi has
  selected; `DESIGN.md:108` has the phi select the initial value in the first
  traversal.  `InitializationClosed` therefore leaves phis out.
* `hoist_loop_invariants.hpp:139-156`: preconstructed resources are computed from the
  candidates before candidates are dropped, so a resource whose construction is not
  hoisted after all may remain preconstructed; and a fed-back resource constructed
  before the phi, then discarded or written in place, is not preconstructed.
  `DESIGN.md:83-89` has the compiler hoist the construction.
* `emit_program.hpp:683`: a phi takes the position of the operation recorded after it;
  when that is the first of an `if_` body, the unconditional phi becomes a step of the
  branch.
* `program.cpp:1025-1062`, `1159-1187`: with two traversals in flight, the end of a
  traversal releases the previous generation of a fed-back object without waiting for
  readers of it in the traversal before; and the history of completions is indexed
  modulo `max_in_flight` while a resource may have more slots.
* `program.cpp:595`: a planned job that crosses a yield ends the submission with an
  exception instead of being split at compile time.
* `program_runtime.hpp:1002`: releases use `notify_one` while waiters for an activation
  (352) and for slots of different resources (923, 953) share the condition variable,
  so a wake-up may go to a waiter it is of no use to.

## 4. What is proved

Everything in this section holds for every finite set of slots, list nodes or jobs,
every number of workers and thieves, every ring capacity of at least two, and every
value of the bounds.  The only assumptions are the named `ASSUME`s of the modules;
TLC evaluates them in the runs.  The bounds on counters (`MaxAdds`, `MaxGen`,
`MaxOps` …) are parameters, so the theorems hold for each of their values.

### The scoreboards (`JobSchedulerProofs`, first part)

| theorem | statement |
|---|---|
| `TypeCorrect` | `Spec => []TypeOK` |
| `PendingIsExact` | `Spec => []PendingExact` |
| `JobsStartAfterSources` | `Spec => []StartAfterSources` |
| `NobodyStranded` | `Spec => []NotStranded` |
| `NodesReusedUnlinked` | `Spec => NodesUnlinkedWhenReused` |
| `ScoreboardsImplementTaskGraph` | `Spec => ImplementsTaskGraph` |

None of the properties is inductive alone.  The inductive invariant `IInv` adds:

* `RegInv` - while `addSource` is between counting and publishing, the consumer is
  open, its node is the last one taken, and the source exists;
* `ListInv` - the consumer of a node on an open or walked list is open or waiting;
  the node's index is below `top`, it is not the one being registered, and it is
  on no second list;
* `SealInv` - a list is closed exactly from `complete()` to the next `reset`, a
  closed list is empty, and only a completing slot has a walk or a ready list;
* `ReadyInv` - a node on a ready list belongs to a job in phase "ready", at most
  one such node per job, and each ready job has one;
* `PendingExact` - the counter equals the gate plus the cardinality of the
  outstanding nodes, which is what makes "the decrement found 1" mean "I was last";
* `WaitInv` - the counter of a waiting job is positive;
* `SourceInv` - a source is of the present use of its slot or an earlier one, and
  it is finished unless the consumer still waits for it: this carries
  `StartAfterSources` across the reuse of slots.

The refinement maps the caller's phases to the states of a task and "is on the open
list of s, or on the way there" to "comes after s".  `Register` on an open source
is `Depend`, on a sealed one a stutter; `Complete` is `Finish`, which takes the
source out of every task at once although the walk over the consumers has not
begun; the walk, its notifications and the issuing are stutters.  The one step where
`IInv` does real work is `Run`: a job in phase "issued" has no node on any open list.

### The scheduler (`JobSchedulerProofs`, second part, on `LinkedListProofs`)

| theorem | statement |
|---|---|
| `SchedulerKeepsContract` | `SchedSpec => Init /\ [][Next]_boardVars` |
| `ScheduledAfterSources` | `SchedSpec => []StartAfterSources` |
| `SchedulerImplementsTaskGraph` | `SchedSpec => ImplementsTaskGraph` |
| `LiveIsExact` | `SchedSpec => []LiveExact` |
| `NoInvocationStrays` | `SchedSpec => []NoStrayInvocation` |
| `SlotIsInOnePlace` | `SchedSpec => []SlotInOnePlace` |
| `AcquiredIsQuiet` | `SchedSpec => []AcquiredSlotIsQuiet` |
| `UnpinnableHasFinished` | `SchedSpec => []UnpinnableIsFinished` |
| `WaitIsForCompletion` | `SchedSpec => []WaitReturnsAfterCompletion` |

The first says that what the scheduler does to its scoreboards is always one of
the scoreboards' own steps, taken when their contract allows it: so the invariant
`IInv` of the scoreboards holds under the scheduler, and with it `StartAfterSources`
and the refinement of `TaskGraph`: what the sequencer is specified on is what the
scheduler gives it.
`SInv` is `IInv` and

* `OwnerInv`, `PinInv` - the owner's place determines its locals, and only an
  `addDependency` under way holds a pin: the pin count is 0 or 1 and known;
* `LifeInv` - the generation of the lifecycle word follows the resets, and the
  completed bit follows the phase of the job;
* `WorkerInv`, `RestInv` - where a worker is tells how far its job has come, and one
  worker completes it;
* `LiveExact`, `CallInv` - the counters of invocations count queued, running and
  spawned ones; lemmas `CountTake`, `CountSpawn`, `CountLeave` … do the
  cardinalities;
* `FreeInv` - the free list has no cycle; what the owner has read of it stays true
  until its exchange succeeds (only one thread pops, pushed nodes go in front); and
  semaphore + releases on their way + acquires on their way = length of the list;
* `PlaceInv` - each slot is on the free list, taken, in use, or about to be pushed,
  in one of these: this is what makes "last unpin or completion recycles" sound;
* `WaiterInv` - the completed generation never runs ahead of what has finished, and
  what `wait()` has seen stays true.

`LinkedListProofs` has the lemmas about `Reach` and `Acyclic` that pushes, pops and
writes elsewhere need.  `Reach` is the intersection of the closed sets, not a
recursion, so no induction over data is needed for them; the one place that needs a
least number (`LeastNumber`) uses that `<` is well-founded on the naturals.

### The sequencer (`SequencerProofs`)

| theorem | statement |
|---|---|
| `ConflictsAreOrdered` | `Spec => []SynchronizesWith` |
| `OnlyConflictsWait` | `Spec => []NoFalseDependency` |
| `FenceWaitsForConflicts` | `Spec => FenceWaits` |
| `LocationsAreExclusive` | `Spec => []LocationInOnePlace` |
| `DependenciesFit` | `Spec => [](owner.at = "depend" => Cardinality(owner.deps) < Cardinality(Slots))` |

A frontier does not name all operations that may still conflict: an `acq_rel`
replaces it by itself, and a fence empties it.  The heart of `QInv` is therefore a
relation: `Covers(D, a)` says that whoever waits for the jobs in `D` waits for `a`,
since `a` is one of them or one of them is a later operation in conflict with `a`.
`FrontComplete` says that the live frontier of a location covers every unfinished
operation that accessed it in this life, except those the fence under way waits for;
`FrontSound` that it names nothing else.  `SyncInv` and `HostInv` carry the covering
over to the dependencies of a job and of a fence, `EdgeInv` their soundness, and when
all covering jobs are done so is what they cover.  The rest is what makes stale bits
recognisable: `EpochInv` (a reuse is counted before a location can observe it),
`TaskInv` and `Present` (only used slots declare, the job under construction is the
newest), and `ListInv` for the three lists of locations.

### The queue (`WorkerQueueProofs`, on `LinkedListProofs`)

| theorem | statement |
|---|---|
| `QueueTypes` | `Spec => []TypeOK` |
| `QueueIsBag` | `Spec => ImplementsJobBag` |
| `NodesAreExclusive` | `Spec => []ItemsInOnePlace` |

The content of the deque is the cells from `top` to `Limit`, the owner's own view of
`m_bottom` without the claim of a `pop()` under way, read through the store buffer
(`Cell`).  `QueueInv` is

* `DequeInv` - `top <= Limit <= top + Capacity`, memory's `m_bottom` is never above
  `Limit`, and the last store in the buffer is the owner's `m_bottom`;
* `BufferInv` - but for that claim at its end the buffer only raises `m_bottom`, and
  a cell is stored before `m_bottom` passes it.  This is where the order of the
  stores in `push()` matters;
* `ThiefInv` - a thief whose `top` is still the deque's has seen an `m_bottom` above
  it, the owner cannot pop that element without an exchange, its cell is in memory,
  and what the thief has read there is the job.  It is the fence in `pop()` that
  makes the second claim true;
* `ListInv` - inbox, overflow list, the node in hand and the free nodes are disjoint
  lists without cycles;
* `ContentInv` - each submitted job that was not taken is in exactly one cell or node.

`ContentStep` then shows that each step keeps the content, puts one job or takes one,
which is the refinement of `JobBag`.  That two indices less than `Capacity` apart use
different cells is `RemaindersDiffer`.  TLC checked `QueueInv` with one and with two
thieves before it was proved.

### The pool (`WorkerPoolProofs`)

| theorem | statement |
|---|---|
| `TypeCorrect` | `Spec => []TypeOK` |
| `JobsAreInOnePlace` | `Spec => []JobInOnePlace` |
| `LiveIsExact` | `Spec => []LiveCountsWork` |
| `WorkersStayForWork` | `Spec => []NobodyLeavesEarly` |

The inductive invariant adds `HoldInv` (where a thread is tells which jobs it holds,
and a worker that is about to load `m_liveInvocations` has seen a stop that is never
taken back), `ArrivingOnce` (a job on its way into a queue is nowhere else) and
`CountInv` (the counter is the number of jobs in flight).  The argument for the exit:
a worker leaves when it reads 0; then no job is in flight; after the stop the client
submits nothing, and a job can only be submitted by a job in flight, which is
itself counted until it returns.  That the two loads are not atomic does no harm
because the stop is loaded first.

### The flow compiler (`FlowCompilerProofs` and `FlowRecordingProofs`, on `Recursion`)

| theorem | statement |
|---|---|
| `TypesHold` | `Spec => []TypeOK` |
| `EmittedInOrderHolds` | `Spec => []EmittedInOrder` |
| `InitializationClosedHolds` | `Spec => []InitializationClosed` |
| `JobsKeepOrderHolds` | `Spec => []JobsKeepOrder` |
| `ConflictsOrderedHolds` | `~NestProjections` gives `Spec => []ConflictsOrdered` |
| `ValidRecordingsCompileHolds` | `Spec => []ValidRecordingsCompile` |

They hold for recordings of every length, with every number of accesses, phis and
bodies.  The assumption of `ConflictsOrderedHolds` is that no projection is projected again; with it
the statement is false (see the findings), without it every access to a part of an
object is ordered by one look-up of the owner.

The passes are loops, in the model folds (`Iterate`) and recursive functions
(`Reachable`).  The library's induction theorems take the statement to be proved as an
operator, which the provers cannot instantiate.  `Recursion` goes around this: the
numbers for which a statement holds are a *set*, and a set of naturals that has 0 and
with each number its successor is all of them (`Induction`, from a least number
outside of it).  The module has the step of a recursion as a constant operator,
`AfterNone` and `AfterNext` say what the recursion is after no and after one more
step, and each loop of the compiler is an instance of it.  An induction then consists
of an invariant of the loop, proved for one turn, and the set of turns after which it
holds.

The invariant `Compiles` has two parts.  `RecInv` types the recording and keeps its
links (a projection is younger than its owner, accesses name declared resources, a
phi's and a body's positions are in order and in the stream); it is what makes the
lowering well-defined.  `CompInv` says of each stage that what `ir` holds is what the
passes so far compute from the recording, since the actions replace it stage by stage.
The properties of a compiled program are then properties of the passes:

* *Lowering.* `LoweredStream`: nodes are the recorded operations and phis in recorded
  order, each with the accesses it was recorded with, and a value is produced by a node
  that writes its resource.
* *Reachability.* `ReachableFacts`: after the loop over all nodes, `Reachable` is the
  least transitive relation over the edges.  `ThroughInclusion` and `OneMoreNode` are
  its invariant: after k nodes the paths are those whose inner nodes are among the
  first k.
* *Emission* (`EmittedInOrder`). `OrderInv`: what was emitted has no repetition and no
  node before what it waits for; `PiecesInv`: at most one region is open, and what was
  emitted of the others is whole and in one piece.  A graph without cycles always has
  a ready node (`SomeNodeReady`, by `MinimalNode`), so the loop ends with all nodes.
* *Activation* (`InitializationClosed`). A predecessor of an initialization node has
  nothing upstream that the node does not have, so it is initialization as well, or a
  gate puts it behind a phi.
* *Jobs* (`JobsKeepOrder`). `JobChain`: a job is a chain in which every node waits for
  the one before it, only its first is entered and only its last is left by edges of
  the reduction; `JobsInv`: the jobs built so far partition the nodes assigned so far,
  and jobs are in order.  The transitive reduction keeps all paths (`ReductionReaches`,
  from paths that climb), so the waits of the jobs are exactly the dependencies between
  their chains.
* *Conflicts* (`ConflictsOrdered`). `add_resource_order` links an access only with the
  last write and the reads since.  `SameResourceFollows` takes a conflicting pair of
  accesses that is not ordered with the fewest accesses between them and finds the
  writer between them: both halves are shorter.  `AliasesFollow` handles projections:
  without nesting, resources that share an object have the same owner
  (`SharingAliases`), and those are linked directly.  `PathsEmitted` and
  `JobsRunInOrder` carry the path through numbering and jobs to the runtime.
* *Values* (`ValidRecordingsCompile`). The recorder keeps one flag per resource, the
  lowering walks the stream again.  `Holds` says when a resource has a value at a
  place of the stream, and is what the two have in common: `ValueInv`, kept by every
  recording call (`ValuesHold`), has each use, phi and body behind a value; `WalkFed`,
  the invariant of the walk over phis and operations (`WalkPhis`, `WalkOps`), has the
  values known so far equal to those that `Holds` promises.  Declarations made later
  cannot give an earlier use its value (`HoldsStays`, `FedStays`).
* *Regions* (`ValidRecordingsCompile`). `JobsStayInRegions`: a job grows only between
  nodes of one region (`GrownRegion`), and the region a job's nodes name is the one
  whose table holds them (`RegionNodes`, through the renumbering).

### Only model-checked

* All liveness properties: they need fairness, which is out of the prover's reach.
* `ConflictsOrdered` with nested projections, where it is false (see the findings).
* `StorageExclusive`: it would have to relate lifetimes, whose ends are sets of nodes
  found by searches over the reachability, to a layout that is built resource by
  resource.
* `ControlRunsBodyOnce`: `ControlSteps` flattens and selects from sequences with
  operators of the library that take an operator and are recursive inside.
* `ReadsAreSequential` and `NothingFails`, and everything else about the runtime: what
  a traversal should compute (`Expected`) is a recursive operator over the traversals
  before it, and no theorem can be stated in a module that declares one.
* The type invariants of `JobScheduler` and `Sequencer` with the upper bounds of
  their counters; without them they are parts of `SInv` and `QInv`.
* `NodeArraySuffices` is false, see the findings.

## 5. Abstractions, and what they leave out

* Memory is sequentially consistent, except for the store buffer in
  `WorkerQueue`.  Weaker reorderings of the relaxed accesses are not explored.
* Counters are unbounded numbers; generations do not wrap (the code asserts
  that they do not).
* The node pools of `worker_queue.hpp` are sets: "one allocating thread per
  pool" is taken from the contract ("Owner-only", "not-thread-safe!").
* Constructors and destructors run alone, before the first and after the last
  operation; callables do not throw (`noexcept` throughout `core/sync`).
* Memory allocation always succeeds, as the code asserts.
* In the compiler, types, names, metadata and the passes an application may add are
  left out.  A phi's output stands for itself in `ConflictsOrdered`: that it aliases
  the object it selects is the concern of `ReadsAreSequential`.
* In the runtime, the submission of one traversal is one action: after
  `begin_execution()`, one critical section at its start, the submitting thread reads
  and writes only its own tables and adds jobs, and a dependency on a job that has
  finished meanwhile has no effect.  That a traversal's first jobs may run while its
  last ones are still being submitted is left out.  Marking an object constructed and releasing its slot for
  preconstruction are part of `Return`.  An object's release is two steps with the
  destructor between them.
* Not modelled of the runtime: programs without feedback regions (yields and the
  acyclic submission path), structured control, cutoffs and projections at run time,
  exceptions of callbacks, and the scheduler's limit of 64 slots.

## 6. Plan

1. (done) `core/sync`: scoreboard, scheduler, queue, pool, sequencer.
2. (done) `flow`: recorder, compiler, runtime with feedback regions.
3. (done) Proofs: every safety property of `core/sync` that a run checks; of the flow
   compiler the order of accesses, of nodes and of jobs, and that valid recordings
   compile.
4. Next proofs: the disjointness of storage, that the sequencer's locations and the
   scheduler's slots together order conflicts, the upper bounds of the type invariants,
   and the critical sections of `FlowRuntime` over a specification of a traversal that
   is not recursive.
5. `flow`: yields and the acyclic path; structured control at run time; the condition
   variable of `program_runtime.hpp` with its different kinds of waiters.
6. `rhi`: timelines, `Queue` (record, rotate, drain, retire), composed with
   `GarbageCollector` (retirement, back-pressure, commit requests); properties: no
   object is destroyed before its last use has retired, draining terminates.
7. `core/memory`: the pools, the buddy allocator against an abstract allocator,
   `Arc`.  `core/events`: dispatch with listeners added and removed during it.
8. `rdg`: the barrier compiler as operators against a reference definition of
   ordered hazards.
