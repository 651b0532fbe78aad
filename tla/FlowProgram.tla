----------------------------- MODULE FlowProgram -----------------------------
(***************************************************************************)
(* Running a compiled flow program with externally driven feedback           *)
(* (program.cpp, submit_feedback_regions()).  The submitting thread releases  *)
(* tokens and submits: the initialization job once, then one traversal of a   *)
(* region for every set of tokens its acquires need.  A traversal is a set of  *)
(* jobs whose dependencies on this and earlier traversals the submission       *)
(* computes; workers run any job whose dependencies have completed (module     *)
(* JobScheduler), and the objects live in the ProgramRuntime (FlowRuntime).    *)
(*                                                                         *)
(* A job is the list of what it has left to do:                              *)
(*   node     execute a runtime node                                         *)
(*   release  release the activation's object of a resource                   *)
(*   finish   return the activation                                          *)
(* and its phase within the first of these.  Memory is one tag per slot: the   *)
(* value last written there and the traversal that wrote it.                  *)
(***************************************************************************)
EXTENDS FlowRuntime

CONSTANTS
    Programs,         \* the set of artifacts run, one of them chosen at the start
    MaxActivations,   \* activation_pool_capacity
    MaxTokens,        \* bound on the tokens a semaphore holds
    MaxTraversals(_)  \* bound on the traversals of all regions of a program

ASSUME ProgramAssumption ==
    MaxActivations \in Nat \ {0} /\ MaxTokens \in Nat \ {0}

VARIABLES
    program,    \* the artifact that runs: m_data and m_job_plan
    tokens,     \* m_semaphore_tokens, per acquire node
    rt,         \* the ProgramRuntime
    regions,    \* m_feedback_submission and m_feedback_iterations, per region
    storage,    \* m_physical_storage and m_serialization
    slotOf,     \* m_activation_storage_slots, per activation and resource
    iteration,  \* m_activation_iterations
    jobs,       \* the jobs submitted so far
    memory,     \* the contents of the slots
    failed      \* the asserts and logic_errors reached

vars == <<program, tokens, rt, regions, storage, slotOf, iteration, jobs, memory, failed>>

A == program
Data == program.data
Nodes == DOMAIN Data.nodes
Unwritten == <<0, 0>>

-----------------------------------------------------------------------------
(* Jobs. *)
Item(kind, id) == [kind |-> kind, id |-> id]

NewJob(act, deps, work) ==
    [act |-> act, deps |-> deps, work |-> work,
     phase |-> IF work = <<>> THEN "empty" ELSE "start",
     hold |-> Nothing, left |-> 0, queue |-> <<>>]

(* What execute_node() and execute_feedback_node() do nothing for. *)
Inert(n) ==
    \/ Data.nodes[n].kind \in {"acquire", "yield"}
    \/ Data.nodes[n].kind = "discard" /\ ~Life(A, Data.nodes[n].acc[1].r).pre

NodeItems(nodes) ==
    LET live == SelectSeq(nodes, LAMBDA n : ~Inert(n))
    IN [i \in DOMAIN live |-> Item("node", live[i])]

(* execute_initialization(): what is outside the regions, in node order, each   *)
(* followed by the releases of the planned job it ends.                      *)
InitializationWork ==
    LET outside == SelectSeq([n \in Nodes |-> n], LAMBDA n : A.region[n] = 0)
        Ended(n) == {j \in DOMAIN A.plan : Last(A.plan[j].nodes) = n}
        Freed(n) == SetToSortSeq(UNION {A.plan[j].releases : j \in Ended(n)}, <)
        Step(n) == NodeItems(<<n>>) \o [i \in DOMAIN Freed(n) |-> Item("release", Freed(n)[i])]
    IN FlattenSeq([i \in DOMAIN outside |-> Step(outside[i])]) \o <<Item("finish", 0)>>

-----------------------------------------------------------------------------
NoJobs == [n \in Nodes |-> 0]
PerResource(x) == [r \in Resources(A) |-> x]

NewRegion ==
    [iteration |-> 0, previous |-> NoJobs,
     acquirer |-> PerResource(0), writer |-> PerResource(0), count |-> PerResource(0),
     history |-> <<>>]

Init ==
    /\ program \in Programs
    /\ tokens = [n \in {x \in Nodes : Data.nodes[x].kind = "acquire"} |-> 0]
    /\ rt = NewRuntime(A)
    /\ regions = [k \in DOMAIN Data.regions |-> NewRegion]
    /\ storage = [turn |-> PerResource(0), serial |-> PerResource(0),
                  frontier |-> [c \in PhysicalSlots(Data) |-> {}]]
    /\ slotOf = <<>> /\ iteration = <<>> /\ jobs = <<>> /\ failed = {}
    /\ memory = [s \in DOMAIN A.class |-> Unwritten]

-----------------------------------------------------------------------------
(* The submission of one traversal.  st is what the loop over the planned jobs  *)
(* has built: the jobs, the tables above, and this traversal's                *)
(*   node      the job of each runtime node, 0 before it is submitted          *)
(*   deps      the dependencies of the job being submitted                     *)
(*   slot      the logical slot of each resource acquired, 0 if none           *)
(*   acquired, started, releases   as in the code                             *)
NextJob(st) == Len(st.jobs) + 1

Depend(st, deps) == [st EXCEPT !.deps = @ \cup (deps \ {0})]

Capacity(k) == DependencyCapacity(Data, A.plan, k)

Submit(st, k, work) ==
    [st EXCEPT !.jobs = Append(@, NewJob(st.act, st.deps, work)),
               !.deps = {},
               !.failed = IF Cardinality(st.deps) > Capacity(k)
                          THEN @ \cup {"dependency scratch"} ELSE @]

PlanDependencies(st, k, planned) ==
    LET first(p) == A.plan[p].nodes[1]
        missing == \E p \in planned.preds : A.region[first(p)] = k /\ st.node[first(p)] = 0
    IN Depend([st EXCEPT !.failed = IF missing THEN @ \cup {"predecessor"} ELSE @],
              {IF A.region[first(p)] = k THEN st.node[first(p)] ELSE 1 : p \in planned.preds})

(* Temporal edges, the previous evaluation of a memoized node, and the         *)
(* initialization before the first traversal.                                *)
TemporalDependencies(st, planned) ==
    Depend(st, UNION {{st.region.previous[p] : p \in Data.nodes[n].tpreds} \cup
                      (IF Data.nodes[n].memo THEN {st.region.previous[n]} ELSE {}) :
                        n \in ToSet(planned.nodes)}
               \cup (IF st.region.iteration = 0 THEN {1} ELSE {}))

SerialResources(planned) ==
    {x.r : x \in {y \in UNION {ToSet(Data.nodes[n].acc) : n \in ToSet(planned.nodes)} : y.ser}}

SerialDependencies(st, planned) ==
    Depend(st, {st.storage.serial[r] : r \in SerialResources(planned)})

(* Mutants: the job is recorded as the last acquirer before its dependencies     *)
(* are added; the slot's last object is not waited for.                        *)
WaitsForItself(st, k, r) ==
    IF ~Life(A, r).retained \/ r \in st.acquired THEN st
    ELSE Depend([st EXCEPT !.region.acquirer[r] = NextJob(st), !.acquired = @ \cup {r}],
                {NextJob(st), st.region.writer[r]})

SlotNotAwaited(st, k, r) ==
    IF ~Life(A, r).retained \/ r \in st.acquired THEN st
    ELSE Depend([st EXCEPT !.region.acquirer[r] = NextJob(st), !.acquired = @ \cup {r}],
                {st.region.acquirer[r], st.region.writer[r]})

(* register_retained_acquire(): the acquisitions and writers of a retained      *)
(* resource follow each other, and a slot is taken again only after the         *)
(* traversal that ended its last object.                                     *)
HistoryIndex(k, r, count) == <<r, count % Data.regions[k].mif>>

RetainedAcquire(st, k, r) ==
    LET slots == Cardinality(Slots(A, r))
        count == st.region.count[r]
        index == HistoryIndex(k, r, count - (slots - 1))
        reused == slots # 0 /\ count >= slots
        known == index \in DOMAIN st.region.history
    IN IF ~Life(A, r).retained \/ r \in st.acquired THEN st
       ELSE Depend([st EXCEPT !.region.acquirer[r] = NextJob(st),
                              !.acquired = @ \cup {r},
                              !.failed = IF reused /\ ~known
                                         THEN @ \cup {"completion frontier"} ELSE @],
                   {st.region.acquirer[r], st.region.writer[r],
                    IF reused /\ known THEN st.region.history[index] ELSE 0})

(* register_physical_storage(): the next slot of the resource in turn, after     *)
(* the jobs that last used its bytes.                                        *)
PhysicalAcquire(st, r) ==
    LET slots == Cardinality(Slots(A, r))
        slot == (st.storage.turn[r] % slots) + 1
        class == A.class[<<r, slot>>]
    IN IF slots = 0 \/ st.slot[r] # 0 THEN st
       ELSE Depend([st EXCEPT !.slot[r] = slot,
                              !.storage.frontier[class] = {NextJob(st)}],
                   st.storage.frontier[class])

StorageDependencies(st, k, planned) ==
    FoldLeft(LAMBDA x, n :
                IF Data.nodes[n].kind \in {"construct", "discard"}
                THEN LET r == Data.nodes[n].acc[1].r
                     IN PhysicalAcquire(RetainedAcquire(x, k, r), r)
                ELSE x,
             st, planned.nodes)

(* What the tables remember of the job just submitted. *)
RecordJob(st, planned) ==
    LET job == Len(st.jobs)
        nodes == ToSet(planned.nodes)
        written == UNION {Written(Data.nodes[n]) : n \in nodes}
    IN [st EXCEPT
          !.node = [n \in Nodes |-> IF n \in nodes THEN job ELSE @[n]],
          !.storage.serial = [r \in Resources(A) |->
                                IF r \in SerialResources(planned) THEN job ELSE @[r]],
          !.region.writer = [r \in Resources(A) |->
                                IF r \in written /\ Life(A, r).retained THEN job ELSE @[r]]]

ExtendFrontier(st, r) ==
    LET class == A.class[<<r, st.slot[r]>>]
        before == IF r \in st.started THEN st.storage.frontier[class] ELSE {}
        after == before \cup {Len(st.jobs)}
    IN IF st.slot[r] = 0 THEN st
       ELSE [st EXCEPT !.started = @ \cup {r}, !.storage.frontier[class] = after,
                       !.failed = IF Cardinality(after) > FrontierCapacity(Data, class)
                                  THEN @ \cup {"frontier"} ELSE @]

(* The job that releases a resource after its last uses in the traversal. *)
SubmitRelease(st, k, r) ==
    LET uses == Life(A, r).releaseAfter
        crosses == \E n \in uses : A.region[n] # k \/ st.node[n] = 0
        job == NextJob(st)
        sent == Submit(Depend(st, {st.node[n] : n \in uses}), k, <<Item("release", r)>>)
    IN [sent EXCEPT
          !.releases = @ \cup {job},
          !.failed = IF crosses THEN @ \cup {"release crosses"} ELSE @,
          !.storage.frontier = IF st.slot[r] = 0 THEN @
                               ELSE [@ EXCEPT ![A.class[<<r, st.slot[r]>>]] = {job}]]

SubmitPlanned(st, k, j) ==
    LET planned == A.plan[j]
        ordered == StorageDependencies(
                     SerialDependencies(
                       TemporalDependencies(
                         PlanDependencies(st, k, planned), planned), planned), k, planned)
        sent == RecordJob(Submit(ordered, k, NodeItems(planned.nodes)), planned)
        used == FoldLeft(ExtendFrontier, sent, SetToSortSeq(planned.frontiers, <))
    IN FoldLeft(LAMBDA x, r : SubmitRelease(x, k, r), used, SetToSortSeq(planned.releases, <))

(* The job that ends the traversal, and what the next one starts from. *)
SubmitCompletion(st, k) ==
    LET terminal == {st.node[A.plan[j].nodes[1]] : j \in TerminalJobs(Data, A.plan, k)}
        sent == Submit(Depend(st, terminal \cup st.releases), k, <<Item("finish", 0)>>)
        completion == Len(sent.jobs)
        region == sent.region
    IN [sent EXCEPT
          !.storage.turn = [r \in Resources(A) |-> @[r] + IF st.slot[r] # 0 THEN 1 ELSE 0],
          !.region.previous = st.node,
          !.region.iteration = @ + 1,
          !.region.history = [i \in {HistoryIndex(k, r, region.count[r]) : r \in st.acquired}
                                |-> completion] @@ @,
          !.region.count = [r \in Resources(A) |-> @[r] + IF r \in st.acquired THEN 1 ELSE 0]]

Traversal(k, act) ==
    LET start == [jobs |-> jobs, region |-> regions[k], storage |-> storage,
                  failed |-> failed, act |-> act, node |-> NoJobs, deps |-> {},
                  slot |-> PerResource(0), acquired |-> {}, started |-> {}, releases |-> {}]
        planned == SetToSortSeq(RegionJobs(Data, A.plan, k), <)
    IN SubmitCompletion(FoldLeft(LAMBDA st, j : SubmitPlanned(st, k, j), start, planned), k)

(* Per-activation tables grow with the pool. *)
SetAt(s, i, x) == IF i \in DOMAIN s THEN [s EXCEPT ![i] = x] ELSE Append(s, x)

-----------------------------------------------------------------------------
(* The submitting thread. *)
Release(n) ==
    /\ tokens[n] < MaxTokens
    /\ tokens' = [tokens EXCEPT ![n] = @ + 1]
    /\ UNCHANGED <<program, rt, regions, storage, slotOf, iteration, jobs, memory, failed>>

SubmitInitialization ==
    /\ jobs = <<>>
    /\ rt' = BeginExecution(A, rt)
    /\ jobs' = <<NewJob(1, {}, InitializationWork)>>
    /\ slotOf' = <<PerResource(0)>>
    /\ iteration' = <<0>>
    /\ UNCHANGED <<program, tokens, regions, storage, memory, failed>>

(* try_consume_tokens(), then begin_execution(), which waits for a block, then   *)
(* the jobs.  One action: a job that runs while later ones are being submitted   *)
(* touches nothing the submission reads.                                      *)
SubmitTraversal(k) ==
    LET act == NextActivation(rt)
        sent == Traversal(k, act)
    IN /\ jobs # <<>>
       /\ MapThenSumSet(LAMBDA r : regions[r].iteration, DOMAIN regions) < MaxTraversals(A)
       /\ \A n \in Data.regions[k].acquires : tokens[n] > 0
       /\ MayBegin(rt, MaxActivations)
       /\ tokens' = [n \in DOMAIN tokens |->
                        tokens[n] - IF n \in Data.regions[k].acquires THEN 1 ELSE 0]
       /\ rt' = BeginExecution(A, rt)
       /\ jobs' = sent.jobs
       /\ regions' = [regions EXCEPT ![k] = sent.region]
       /\ storage' = sent.storage
       /\ slotOf' = SetAt(slotOf, act, sent.slot)
       /\ iteration' = SetAt(iteration, act, regions[k].iteration)
       /\ failed' = sent.failed
       /\ UNCHANGED <<program, memory>>

-----------------------------------------------------------------------------
(* The workers. *)
Completed(j) == jobs[j].phase = "done"

Runs(j, kind, phase) ==
    /\ jobs[j].phase = phase
    /\ jobs[j].work # <<>> => Head(jobs[j].work).kind = kind
    /\ \A d \in jobs[j].deps : Completed(d)
    /\ UNCHANGED <<program, tokens, regions, storage, slotOf, iteration>>

Id(j) == Head(jobs[j].work).id
Node(j) == Data.nodes[Id(j)]
Res(j) == Node(j).acc[1].r
Act(j) == jobs[j].act
Constructs(j) == Node(j).kind = "construct"
Unconstructed(j) == Constructs(j) /\ Life(A, Res(j)).pre
Acquires(j) == Node(j).kind \in {"construct", "discard"}

(* The job after the item at its head. *)
NextItem(job) ==
    [job EXCEPT !.work = Tail(@), !.hold = Nothing, !.queue = <<>>, !.left = 0,
                !.phase = IF Len(job.work) = 1 THEN "done" ELSE "start"]

Proceed(j) == jobs' = [jobs EXCEPT ![j] = NextItem(@)]

Fail(what) == failed' = failed \cup {what}
Unless(bad, what) == failed' = IF bad THEN failed \cup {what} ELSE failed

(* A job of nodes that need no work at run time, such as an acquire. *)
RunEmpty(j) ==
    /\ Runs(j, "node", "empty")
    /\ jobs' = [jobs EXCEPT ![j].phase = "done"]
    /\ UNCHANGED <<rt, memory, failed>>

RunPhi(j) ==
    /\ Runs(j, "node", "start") /\ Node(j).kind = "phi"
    /\ LET p == CHOOSE x \in DOMAIN Data.phis : Data.phis[x].node = Id(j)
           later == iteration[Act(j)] # 0
       IN /\ rt' = SelectPhi(A, rt, Act(j), p, later)
          /\ Unless(SelectedPointer(A, rt, Act(j), p, later) = Null, "select_phi")
    /\ Proceed(j)
    /\ UNCHANGED memory

(* acquire_for_execution() takes the slot the submission chose, which must be    *)
(* free; initialization has none and waits for the first that is.               *)
Reserve(j) ==
    /\ Runs(j, "node", "start") /\ Acquires(j) /\ ~Unconstructed(j)
    /\ LET r == Res(j)
           preferred == slotOf[Act(j)][r]
           free == FreeSlots(A, rt, r)
           usable == IF preferred = 0
                     THEN {i \in free : i = Min(free)}
                     ELSE {i \in {preferred} : SlotFree(A, rt, r, i)}
       IN IF preferred # 0 /\ usable = {}
          THEN Fail("preferred slot") /\ UNCHANGED <<rt, jobs>>
          ELSE \E i \in usable :
                 /\ rt' = TakeSlot(A, rt, r, i)
                 /\ jobs' = [jobs EXCEPT ![j].phase = "reserved", ![j].hold = Taken(rt, r, i)]
                 /\ UNCHANGED failed
    /\ UNCHANGED memory

BindReserved(j) ==
    /\ Runs(j, "node", "reserved")
    /\ IF Unconstructed(j)
       THEN rt' = BindUnconstructed(A, rt, Act(j), jobs[j].hold)
       ELSE rt' = Bind(A, rt, Act(j), jobs[j].hold)
    /\ IF Constructs(j) THEN jobs' = [jobs EXCEPT ![j].phase = "bound"] ELSE Proceed(j)
    /\ UNCHANGED <<memory, failed>>

(* One of the slots of a preconstructed resource, which are built in turn. *)
ReserveUnconstructed(j) ==
    /\ Runs(j, "node", "start") /\ Unconstructed(j)
    /\ UnbuiltSlots(A, rt, Res(j)) # {}
    /\ LET r == Res(j)
           i == Min(UnbuiltSlots(A, rt, r))
           left == IF jobs[j].left = 0 THEN Cardinality(Slots(A, r)) ELSE jobs[j].left
       IN /\ rt' = TakeSlot(A, rt, r, i)
          /\ jobs' = [jobs EXCEPT ![j].phase = "reserved", ![j].left = left,
                                  ![j].hold = Taken(rt, r, i)]
    /\ UNCHANGED <<memory, failed>>

(* The callback starts, with the pointers prepare_arguments() finds. *)
Call(j) ==
    /\ \/ Runs(j, "node", "start") /\ Node(j).kind = "callback"
       \/ Runs(j, "node", "bound")
    /\ rt' = PrepareArguments(A, rt, Act(j), Id(j))
    /\ Unless(\E x \in ToSet(Arguments(A, Id(j))) :
                    ArgumentPointer(A, rt, Act(j), x) = Null, "argument")
    /\ jobs' = [jobs EXCEPT ![j].phase = "calling"]
    /\ UNCHANGED memory

(* What its arguments point to. *)
At(j, x) == rt.acts[Act(j)].values[AccessValue(x)]

SharesBytes(s, t) == s \in DOMAIN A.class /\ t \in A.class[s] /\ SlotsTouch(Data, s, t)

Write(mem, j, x) ==
    [s \in DOMAIN mem |->
        IF s = At(j, x) THEN <<x.out, iteration[Act(j)]>>
        ELSE IF SharesBytes(At(j, x), s) THEN Unwritten ELSE mem[s]]

Outputs(j) == SelectSeq(Node(j).acc, LAMBDA x : x.out # 0)

(* It returns: its results are in memory and its outputs retained.  A           *)
(* preconstructed object goes back to its resource at once.                    *)
Return(j) ==
    /\ Runs(j, "node", "calling")
    /\ memory' = FoldLeft(LAMBDA mem, x : Write(mem, j, x), memory, Outputs(j))
    /\ LET made == rt.acts[Act(j)].gens[Res(j)]
           marked == IF Constructs(j) THEN MarkConstructed(rt, made) ELSE rt
           last == Unconstructed(j) /\ jobs[j].left > 1
       IN IF Unconstructed(j)
          THEN /\ rt' = StartRelease(A, LetGo(marked, Act(j), Res(j)), made)
               /\ jobs' = [jobs EXCEPT ![j].phase = "releasing", ![j].queue = <<made>>,
                                       ![j].left = @ - 1]
               /\ UNCHANGED failed
          ELSE /\ rt' = RetainFeedback(A, marked, Act(j), Id(j))
               /\ Unless(\E p \in FedPhis(A, Id(j)) :
                            RetainedGeneration(A, marked, Act(j), p) = Nothing, "retain_feedback")
               /\ Proceed(j)

(* release(): the destructor runs between the two critical sections. *)
BeginRelease(j, next, queue) ==
    /\ rt' = IF queue = <<>> THEN next ELSE StartRelease(A, next, Head(queue))
    /\ Unless(queue # <<>> /\ ~ValidHandle(next, Head(queue)), "released twice")
    /\ IF queue = <<>> THEN Proceed(j)
       ELSE jobs' = [jobs EXCEPT ![j].phase = "releasing", ![j].queue = queue]

ReleaseActive(j) ==
    /\ Runs(j, "release", "start")
    /\ LET held == rt.acts[Act(j)].gens[Id(j)]
       IN BeginRelease(j, LetGo(rt, Act(j), Id(j)), IF held = Nothing THEN <<>> ELSE <<held>>)
    /\ UNCHANGED memory

Finish(j) ==
    /\ Runs(j, "finish", "start")
    /\ BeginRelease(j, FinishExecution(A, rt, Act(j)), ReplacedObjects(A, rt, Act(j)))
    /\ UNCHANGED memory

EndRelease(j) ==
    /\ jobs[j].phase = "releasing" /\ Runs(j, Head(jobs[j].work).kind, "releasing")
    /\ LET h == Head(jobs[j].queue)
           freed == FreeSlot(rt, h)
       IN /\ memory' = IF Life(A, h.r).pre THEN memory
                       ELSE [memory EXCEPT ![Pointer(h)] = Unwritten]
          /\ IF jobs[j].left > 0
             THEN /\ rt' = freed
                  /\ jobs' = [jobs EXCEPT ![j].phase = "start", ![j].queue = <<>>]
                  /\ UNCHANGED failed
             ELSE IF Head(jobs[j].work).kind = "node"
             THEN /\ rt' = RetainFeedback(A, freed, Act(j), Id(j))
                  /\ Unless(\E p \in FedPhis(A, Id(j)) :
                              RetainedGeneration(A, freed, Act(j), p) = Nothing, "retain_feedback")
                  /\ Proceed(j)
             ELSE BeginRelease(j, freed, Tail(jobs[j].queue))

Work(j) ==
    \/ RunEmpty(j) \/ RunPhi(j) \/ Reserve(j) \/ BindReserved(j)
    \/ ReserveUnconstructed(j) \/ Call(j) \/ Return(j)
    \/ ReleaseActive(j) \/ Finish(j) \/ EndRelease(j)

(* An assert that fails ends the program. *)
Next ==
    /\ failed = {}
    /\ \/ \E n \in DOMAIN tokens : Release(n)
       \/ SubmitInitialization
       \/ \E k \in DOMAIN regions : SubmitTraversal(k)
       \/ \E j \in DOMAIN jobs : Work(j)

Workers == failed = {} /\ \E j \in DOMAIN jobs : Work(j)

Spec == Init /\ [][Next]_vars /\ WF_vars(Workers)

-----------------------------------------------------------------------------
(* The value a callback would find if the traversals ran one after the other,   *)
(* each in recorded order: the last one a region's phi selects is what the       *)
(* traversal before it fed back.                                             *)
ProducerNode(v) ==
    CHOOSE n \in Nodes : Data.nodes[n].source = Data.values[v].producer

RECURSIVE Expected(_, _)
Expected(v, i) ==
    LET n == ProducerNode(v)
        p == CHOOSE x \in DOMAIN Data.phis : Data.phis[x].node = n
    IN IF Data.nodes[n].kind = "phi"
       THEN IF i = 0 THEN Expected(Data.phis[p].init, 0) ELSE Expected(Data.phis[p].fb, i - 1)
       ELSE <<v, IF A.region[n] = 0 THEN 0 ELSE i>>

Internal(v) == v # 0 /\ Data.values[v].producer # 0

Calling == {j \in DOMAIN jobs : jobs[j].phase = "calling"}

(* A running callback finds in every object it reads the value the sequential   *)
(* execution gives it: overlapping traversals never see each other's state.     *)
ReadsExpected ==
    \A j \in Calling : \A x \in ToSet(Arguments(A, Id(j))) :
        Internal(x.in) => memory[At(j, x)] = Expected(x.in, iteration[Act(j)])

(* What a running callback or destructor reads and writes. *)
Touching(j) ==
    CASE jobs[j].phase = "calling" ->
            {<<At(j, x), x.mode # "read">> : x \in ToSet(Arguments(A, Id(j)))}
      [] jobs[j].phase = "releasing" /\ ~Life(A, Head(jobs[j].queue).r).pre ->
            {<<Pointer(Head(jobs[j].queue)), TRUE>>}
      [] OTHER -> {}

(* No callback or destructor writes bytes another one is using. *)
Undisturbed ==
    \A i, j \in DOMAIN jobs : i # j =>
        \A s \in Touching(i), t \in Touching(j) : SharesBytes(s[1], t[1]) => ~s[2] /\ ~t[2]

(* Overlapping traversals compute what running them one after the other would,   *)
(* without a data race: the dependencies submit_feedback_regions() computes and  *)
(* the generations the runtime keeps are enough.                              *)
ReadsAreSequential == ReadsExpected /\ Undisturbed

(* No assert or logic_error of the submission and of the runtime is reached: the *)
(* slot a traversal was given is free when its job gets there, every phi and      *)
(* argument has an object, no object is released twice, and the scratch tables   *)
(* the compiler sized hold the dependencies of every job.                      *)
NothingFails == failed = {}

(* What has been submitted completes: no two jobs wait for each other, and no     *)
(* job waits for a slot that nobody gives back.                                *)
TraversalsFinish == []<>(\A j \in DOMAIN jobs : Completed(j))
=============================================================================
