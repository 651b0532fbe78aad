---------------------------- MODULE FlowEmission ----------------------------
(***************************************************************************)
(* The back half of the flow compiler: emit_program, plan_physical_storage,  *)
(* build_job_plan (job_plan.cpp) and build_feedback_submission_plan           *)
(* (program_artifact.cpp).  Emission renumbers the nodes into runtime order,  *)
(* keeping every feedback region contiguous, and derives the tables the       *)
(* runtime works from; the job plan groups the runtime nodes into jobs.       *)
(* Runtime nodes, jobs, regions and physical slots are numbered from 1.       *)
(***************************************************************************)
EXTENDS FlowAnalysis

-----------------------------------------------------------------------------
(* Feedback regions: the intervals of the unconditional phis.  A region is    *)
(* named by its first phi.                                                  *)
RegionKeys(v) ==
    LET First(i) == v.phis[i].cond = 0 /\ \A j \in 1 .. i - 1 :
            ~(v.phis[j].cond = 0 /\ SameInterval(v.phis[j], v.phis[i]))
    IN [k \in {i \in DOMAIN v.phis : First(i)} |-> v.phis[k]]

(* The nodes of a region: its operations and the phis of its interval, except *)
(* what initialization runs.                                                 *)
InRegion(v, act, key, n) ==
    LET phi == \E p \in ToSet(v.phis) :
            p.node = n /\ p.decl >= key.decl /\ p.fbpos <= key.fbpos
    IN /\ phi \/ Inside(v.nodes[n].src, key.decl, key.fbpos)
       /\ act[n].initialization => phi \/ v.nodes[n].kind = "acquire"

RegionsOverlap(v, act) ==
    \E n \in DOMAIN v.nodes, i, j \in DOMAIN RegionKeys(v) :
        /\ i # j
        /\ InRegion(v, act, RegionKeys(v)[i], n)
        /\ InRegion(v, act, RegionKeys(v)[j], n)

(* 0 is "outside every region". *)
RegionOf(v, act, n) ==
    LET in == {k \in DOMAIN RegionKeys(v) : InRegion(v, act, RegionKeys(v)[k], n)}
    IN IF in = {} THEN 0 ELSE Min(in)

(* emit_program() refuses two feedback relations of one region with different *)
(* limits, and a region without an acquire.                                  *)
RegionsConsistent(v, act) ==
    /\ ~RegionsOverlap(v, act)
    /\ \A p, q \in {x \in ToSet(v.phis) : x.cond = 0} :
        SameInterval(p, q) => p.mif = q.mif
    /\ \A k \in DOMAIN RegionKeys(v) : \E n \in DOMAIN v.nodes :
        v.nodes[n].kind = "acquire" /\ InRegion(v, act, RegionKeys(v)[k], n)

-----------------------------------------------------------------------------
(* The ready-list loop of emit_program(): it stays in the active region while  *)
(* a node of it is ready, then prefers nodes outside every region.            *)
PickNext(st, region) ==
    LET Ready(k) == {n \in st.ready : region[n] = k}
        Entered == Min(st.ready)
    IN IF st.active # 0 /\ Ready(st.active) # {}
       THEN [node |-> Min(Ready(st.active)), active |-> st.active]
       ELSE IF Ready(0) # {} THEN [node |-> Min(Ready(0)), active |-> 0]
       ELSE [node |-> Entered, active |-> region[Entered]]

AnyPredecessor(nodes, edges, emitted) ==
    {n \in nodes \ emitted : Before(n, edges) = {} \/ Before(n, edges) \cap emitted # {}}

ReadyNodes(nodes, edges, emitted) ==
    {n \in nodes \ emitted : Before(n, edges) \subseteq emitted}

Emit(nodes, edges, region, st) ==
    LET next == PickNext(st, region)
        emitted == Append(st.order, next.node)
        left == \E n \in nodes : region[n] = st.active /\ n \notin ToSet(st.order)
    IN [order |-> emitted,
        ready |-> ReadyNodes(nodes, edges, ToSet(emitted)),
        active |-> next.active,
        split |-> st.split \/ (st.active # 0 /\ next.active # st.active /\ left)]

Emission(v, act, edges) ==
    LET nodes == DOMAIN v.nodes
        region == [n \in nodes |-> RegionOf(v, act, n)]
    IN Iterate(LAMBDA st, k : Emit(nodes, edges, region, st),
               [order |-> <<>>, ready |-> ReadyNodes(nodes, edges, {}),
                active |-> 0, split |-> FALSE],
               Cardinality(nodes))

-----------------------------------------------------------------------------
(* The compiled program (ProgramData).  gen is what the earlier passes found:  *)
(* immediate and temporal edges, activation, lifetimes, slots and layout.      *)
EmitNodes(v, gen, order, at) ==
    [i \in DOMAIN order |->
        LET n == order[i]
            To(ns) == {at[m] : m \in ns}
        IN [kind |-> v.nodes[n].kind, source |-> n, acc |-> v.nodes[n].acc,
            preds |-> To(Before(n, gen.immediate)),
            succs |-> To({e[2] : e \in {x \in gen.immediate : x[1] = n}}),
            tpreds |-> To(Before(n, gen.temporal)),
            tsuccs |-> To({e[2] : e \in {x \in gen.temporal : x[1] = n}}),
            init |-> gen.act[n].initialization /\ v.nodes[n].kind \notin {"phi", "acquire"},
            memo |-> gen.act[n].memoized /\ ~Observable(v, n)]]

EmitRegions(v, gen, at) ==
    [k \in DOMAIN RegionKeys(v) |->
        LET key == RegionKeys(v)[k]
            members == {n \in DOMAIN v.nodes : InRegion(v, gen.act, key, n)}
        IN [mif |-> key.mif,
            phis |-> {p \in DOMAIN v.phis : SameInterval(v.phis[p], key)},
            nodes |-> {at[n] : n \in members},
            acquires |-> {at[n] : n \in {m \in members : v.nodes[m].kind = "acquire"}}]]

EmitLifetimes(v, gen, at) ==
    [r \in DOMAIN v.res |->
        LET life == gen.life[r]
            Runtime(ns) == {at[n] : n \in ns}
            begin == Min(Runtime(life.definitions))
        IN [owned |-> Owned(gen.life, r),
            shutdown |-> life.storage = "persistent",
            pre |-> life.pre, retained |-> life.retained, overlap |-> life.overlap,
            constructions |-> Runtime(life.definitions),
            releaseAfter |-> Runtime(life.lastUses),
            interval |-> IF life.storage = "persistent" THEN <<1, Len(v.nodes) + 1>>
                         ELSE IF life.definitions = {} THEN <<1, 1>>
                         ELSE <<begin, Max({begin} \cup Runtime(life.uses)) + 1>>]]

EmitProgram(v, gen) ==
    LET order == Emission(v, gen.act, gen.immediate).order
        at == [n \in DOMAIN v.nodes |-> CHOOSE i \in DOMAIN order : order[i] = n]
    IN [res |-> v.res, values |-> v.values, order |-> order,
        nodes |-> EmitNodes(v, gen, order, at),
        phis |-> [p \in DOMAIN v.phis |->
                    [node |-> at[v.phis[p].node], init |-> v.phis[p].init,
                     fb |-> v.phis[p].fb, out |-> v.phis[p].out,
                     loop |-> v.phis[p].cond # 0]],
        regions |-> EmitRegions(v, gen, at),
        life |-> EmitLifetimes(v, gen, at),
        layout |-> gen.layout,
        controls |-> gen.controls,
        capacity |-> ActivationCapacity(v)]

-----------------------------------------------------------------------------
(* Structured control: while intervals, then ifs, outermost first; each runs   *)
(* its positions in order, a nested control as one step.                      *)
ControlBuilds(v) ==
    LET loops == [i \in DOMAIN SelectSeq(v.phis, LAMBDA p : p.cond # 0) |->
                    LET p == SelectSeq(v.phis, LAMBDA x : x.cond # 0)[i]
                    IN [kind |-> "loop", begin |-> p.decl, alt |-> p.fbpos, end |-> p.fbpos,
                        cond |-> p.init, repeat |-> p.cond]]
        branches == [i \in DOMAIN v.ifs |->
                        [kind |-> "branch", begin |-> v.ifs[i].begin, alt |-> v.ifs[i].alt,
                         end |-> v.ifs[i].end, cond |-> v.ifs[i].cond, repeat |-> 0]]
    IN SortSeq(loops \o branches,
               LAMBDA x, y : x.begin < y.begin \/ (x.begin = y.begin /\ x.end > y.end))

ControlsNest(builds) ==
    /\ \A c \in ToSet(builds) : c.begin < c.end
    /\ \A i, j \in DOMAIN builds : i < j =>
        LET x == builds[i]  y == builds[j]
        IN /\ x.begin # y.begin /\ x.end # y.end
           /\ ~(x.begin < y.begin /\ y.begin < x.end /\ x.end < y.end)
           /\ ~(y.begin < x.begin /\ x.begin < y.end /\ y.end < x.end)

ControlParent(builds, c) ==
    LET around == {d \in DOMAIN builds :
                     builds[d].begin < builds[c].begin /\ builds[d].end > builds[c].end}
    IN IF around = {} THEN 0
       ELSE CHOOSE d \in around : \A x \in around : builds[x].begin <= builds[d].begin

SourcePositionLate(v, n) ==
    IF v.nodes[n].kind # "phi" THEN v.nodes[n].src
    ELSE (CHOOSE p \in ToSet(v.phis) : p.node = n).decl + 1

SourcePosition(v, n) ==
    IF v.nodes[n].kind # "phi" THEN v.nodes[n].src
    ELSE (CHOOSE p \in ToSet(v.phis) : p.node = n).decl

InnermostAfterBegin(v, builds, n) ==
    LET around == {c \in DOMAIN builds :
                     Inside(SourcePosition(v, n), builds[c].begin + 1, builds[c].end)}
    IN IF around = {} THEN 0
       ELSE CHOOSE c \in around : \A x \in around : builds[x].begin <= builds[c].begin

Innermost(v, builds, n) ==
    LET around == {c \in DOMAIN builds :
                     Inside(SourcePosition(v, n), builds[c].begin, builds[c].end)}
    IN IF around = {} THEN 0
       ELSE CHOOSE c \in around : \A x \in around : builds[x].begin <= builds[c].begin

(* append_steps(): positions of a nested control collapse into one step.      *)
ControlSteps(v, builds, c, lo, hi) ==
    LET Child(p) == {d \in DOMAIN builds : ControlParent(builds, d) = c /\ builds[d].begin = p}
        Covered(p) == \E d \in DOMAIN builds :
            /\ ControlParent(builds, d) = c
            /\ builds[d].begin < p /\ p < builds[d].end
        At(p) ==
            IF Covered(p) THEN <<>>
            ELSE IF Child(p) # {} THEN <<[control |-> Min(Child(p)), node |-> 0]>>
            ELSE LET here == SelectSeq([n \in DOMAIN v.nodes |-> n],
                                LAMBDA n : SourcePosition(v, n) = p /\ Innermost(v, builds, n) = c)
                 IN [k \in DOMAIN here |-> [control |-> 0, node |-> here[k]]]
    IN FlattenSeq([i \in 1 .. hi - lo |-> At(lo + i - 1)])

EmitControls(v) ==
    LET builds == ControlBuilds(v)
        Held(c) == {n \in DOMAIN v.nodes : Inside(SourcePosition(v, n), builds[c].begin, builds[c].end)}
        Mid(c) == IF builds[c].kind = "branch" THEN builds[c].alt ELSE builds[c].end
        Direct(c, lo, hi) ==
            UNION {Written(v.nodes[n]) : n \in
                {m \in DOMAIN v.nodes : /\ Inside(SourcePosition(v, m), lo, hi)
                                        /\ Innermost(v, builds, m) = c}}
    IN [c \in DOMAIN builds |->
          [kind |-> builds[c].kind, cond |-> builds[c].cond, repeat |-> builds[c].repeat,
           parent |-> ControlParent(builds, c),
           primary |-> ControlSteps(v, builds, c, builds[c].begin, Mid(c)),
           secondary |-> ControlSteps(v, builds, c, Mid(c), builds[c].end),
           nodes |-> Held(c),
           primaryWritten |-> Direct(c, builds[c].begin, Mid(c)),
           secondaryWritten |-> Direct(c, Mid(c), builds[c].end)]]

-----------------------------------------------------------------------------
(* plan_physical_storage(): logical slots whose bytes overlap, directly or     *)
(* through others, are one physical slot.                                    *)
LogicalSlots(data) ==
    UNION {{<<r, i>> : i \in 1 .. data.layout[r].slots} :
             r \in {x \in DOMAIN data.layout : data.layout[x].offset >= 0}}

SlotsTouch(data, a, b) ==
    LET At(s) == data.layout[s[1]].offset + data.layout[s[1]].stride * (s[2] - 1)
    IN Overlap(At(a), data.layout[a[1]].stride, At(b), data.layout[b[1]].stride)

PhysicalSlots(data) ==
    LET slots == LogicalSlots(data)
        Join(class, k) == class \cup {s \in slots : \E t \in class : SlotsTouch(data, t, s)}
    IN {Iterate(Join, {s}, Cardinality(slots)) : s \in slots}

(* frontier_capacities: room for the jobs a slot was last used by. *)
FrontierCapacity(data, physical) ==
    Max({1} \cup {Cardinality(data.life[s[1]].releaseAfter) : s \in physical})

-----------------------------------------------------------------------------
(* build_job_plan(). *)
IsBoundary(kind) == kind \in {"acquire", "yield", "phi"}

(* transitive_reduction(): an edge stays unless another successor leads to    *)
(* its target.                                                              *)
TransitiveReduction(nodes, edges) ==
    LET reach == Reachable(nodes, edges)
    IN {e \in edges : \A f \in edges :
            f[1] = e[1] /\ f[2] # e[2] => e[2] \notin reach[f[2]]}

(* The node after whose last use a resource is released within the traversal. *)
ReleasedEarly(life) ==
    life.owned /\ (~life.shutdown \/ (life.pre /\ ~life.retained))

ReleaseBoundary(data) ==
    {Max(data.life[r].releaseAfter) :
        r \in {x \in DOMAIN data.life : /\ ReleasedEarly(data.life[x])
                                        /\ data.life[x].releaseAfter # {}}}

ControlOf(data, i) ==
    LET held == {c \in DOMAIN data.controls :
                   data.controls[c].parent = 0 /\ data.nodes[i].source \in data.controls[c].nodes}
    IN IF held = {} THEN 0 ELSE Min(held)

JobRegionUnknown(data, i) == 0

(* The region a node is submitted with; initialization is one of its own.      *)
JobRegion(data, i) ==
    IF data.nodes[i].init THEN -1
    ELSE LET in == {k \in DOMAIN data.regions : i \in data.regions[k].nodes}
         IN IF in = {} THEN 0 ELSE Min(in)

CanAppend(data, edges, released, assigned, first, prev, next) ==
    LET reach == Reachable(DOMAIN data.nodes, edges)
        Steady(i) == /\ ~IsBoundary(data.nodes[i].kind)
                     /\ data.nodes[i].tpreds = {} /\ data.nodes[i].tsuccs = {}
                     /\ ControlOf(data, i) = 0
    IN /\ Steady(prev) /\ Steady(next)
       /\ prev \notin released
       /\ JobRegion(data, prev) = JobRegion(data, next)
       /\ \A p \in data.nodes[next].preds : p \in assigned \/ p = first \/ first \in reach[p]
       /\ prev \in data.nodes[next].preds

GrowJobThroughJoins(data, edges, reduced, released, st) ==
    LET next == Last(st.job) + 1
    IN IF /\ ~st.closed /\ next \in DOMAIN data.nodes /\ next \notin st.assigned
          /\ CanAppend(data, edges, released, st.assigned, st.job[1], Last(st.job), next)
       THEN [st EXCEPT !.job = Append(@, next), !.assigned = @ \cup {next}]
       ELSE [st EXCEPT !.closed = TRUE]

(* One job: the first unassigned node, and the chain of only successors with  *)
(* only predecessors that may be appended to it.                              *)
GrowJob(data, edges, reduced, released, st) ==
    LET prev == Last(st.job)
        After == {e[2] : e \in {x \in reduced : x[1] = prev}}
        next == Min(After)
    IN IF /\ ~st.closed /\ Cardinality(After) = 1
          /\ next > prev /\ next \notin st.assigned
          /\ Before(next, reduced) = {prev}
          /\ CanAppend(data, edges, released, st.assigned, st.job[1], prev, next)
       THEN [st EXCEPT !.job = Append(@, next), !.assigned = @ \cup {next}]
       ELSE [st EXCEPT !.closed = TRUE]

AddJob(data, edges, reduced, released, st, first) ==
    LET start == [job |-> <<first>>, assigned |-> st.assigned \cup {first}, closed |-> FALSE]
        Add(grown) == [jobs |-> Append(st.jobs, grown.job), assigned |-> grown.assigned]
    IN IF first \in st.assigned THEN st
       ELSE Add(Iterate(LAMBDA x, k : GrowJob(data, edges, reduced, released, x),
                        start, Cardinality(DOMAIN data.nodes)))

PlannedJobs(data, edges, reduced, released) ==
    Iterate(LAMBDA st, first : AddJob(data, edges, reduced, released, st, first),
            [jobs |-> <<>>, assigned |-> {}], Cardinality(DOMAIN data.nodes)).jobs

NodeEdges(data) ==
    {e \in (DOMAIN data.nodes) \X (DOMAIN data.nodes) : e[1] \in data.nodes[e[2]].preds}

PlanJobs(data) ==
    PlannedJobs(data, NodeEdges(data),
                TransitiveReduction(DOMAIN data.nodes, NodeEdges(data)), ReleaseBoundary(data))

(* A job waits for the jobs its nodes' predecessors are in. *)
JobEdges(data, jobs) ==
    {e \in (DOMAIN jobs) \X (DOMAIN jobs) :
        /\ e[1] # e[2]
        /\ \E i \in ToSet(jobs[e[2]]) : ToSet(jobs[e[1]]) \cap data.nodes[i].preds # {}}

DescribeJobs(data, jobs, edges) ==
    [j \in DOMAIN jobs |->
        [nodes |-> jobs[j],
         preds |-> Before(j, edges),
         frontiers |-> {r \in DOMAIN data.life :
                            data.life[r].releaseAfter \cap ToSet(jobs[j]) # {}},
         releases |-> {r \in DOMAIN data.life :
                        /\ ReleasedEarly(data.life[r]) /\ data.life[r].releaseAfter # {}
                        /\ Max(data.life[r].releaseAfter) \in ToSet(jobs[j])}]]

ReduceJobs(data, jobs) ==
    DescribeJobs(data, jobs, TransitiveReduction(DOMAIN jobs, JobEdges(data, jobs)))

BuildJobPlan(data) == ReduceJobs(data, PlanJobs(data))

-----------------------------------------------------------------------------
(* build_feedback_submission_plan(): the jobs a region submits, those no job   *)
(* of the region waits for, and the room for one submission's dependencies.    *)
RegionJobs(data, plan, k) ==
    {j \in DOMAIN plan : plan[j].nodes[1] \in data.regions[k].nodes}

JobCrossesRegion(data, plan) ==
    \E k \in DOMAIN data.regions : \E j \in RegionJobs(data, plan, k) :
        ~(ToSet(plan[j].nodes) \subseteq data.regions[k].nodes)

TerminalJobs(data, plan, k) ==
    {j \in DOMAIN plan : \E i \in ToSet(plan[j].nodes) :
        i \in data.regions[k].nodes /\ data.nodes[i].succs \cap data.regions[k].nodes = {}}

DependencyCapacity(data, plan, k) ==
    LET Count(j) == Cardinality(plan[j].preds) + 2 +
            MapThenSumSet(LAMBDA i : Cardinality(data.nodes[i].tpreds) + 1, ToSet(plan[j].nodes))
    IN Max({Cardinality(data.regions[k].nodes) + Len(data.res) + 2} \cup
           {Count(j) : j \in RegionJobs(data, plan, k)})
=============================================================================
