---------------------------- MODULE FlowCompiler ----------------------------
(***************************************************************************)
(* flow::end(): validate the recorded stream and run the passes of          *)
(* detail::compile() on it, one action per group of passes.  A pass that     *)
(* throws ends the recording without a program (stage "rejected").           *)
(*                                                                         *)
(* ir collects what the passes have found:                                  *)
(*   v          the lowered values, nodes, phis and ifs                      *)
(*   immediate, temporal   the edges of the dependency graph                 *)
(*   reach      the reachability of the immediate edges                      *)
(*   candidates, invariant, pre   what hoisting found                        *)
(*   act, life, slots, layout, controls   the analyses                       *)
(*   data       the emitted program, plan its job plan                       *)
(* Compiler plugins (the passes an application adds) are not modelled.       *)
(***************************************************************************)
EXTENDS FlowRecorder, FlowEmission

CONSTANTS
    Sizes, Alignments    \* sizeof and alignof of each resource's type

ASSUME CompilerAssumption ==
    /\ Sizes \in [1 .. MaxResources -> Nat \ {0}]
    /\ Alignments \in [1 .. MaxResources -> {1, 2, 4, 8}]
    /\ NullSource > MaxOps

VARIABLES stage, ir

compVars == <<stage, ir>>
vars == <<recVars, compVars>>

Init == RecInit /\ stage = "record" /\ ir = <<>>

Record == stage = "record" /\ RecNext /\ UNCHANGED compVars

(* What is found is added to what was. *)
Extend(before, found) ==
    [x \in (DOMAIN before) \cup (DOMAIN found) |->
        IF x \in DOMAIN before THEN before[x] ELSE found[x]]

(* A pass: its result is added to ir, or the compilation ends. *)
Pass(from, to, accepted, found) ==
    /\ stage = from
    /\ IF accepted THEN stage' = to /\ ir' = Extend(ir, found)
       ELSE stage' = "rejected" /\ ir' = <<>>
    /\ UNCHANGED recVars

(* flow::end() is not called from inside a body. *)
End ==
    /\ scopes = <<>> /\ ops # <<>>
    /\ Pass("record", "validated", Valid(Stream), <<>>)

Lower ==
    /\ stage = "validated"
    /\ LET v == LowerValues(Stream, Canonicalize(Stream))
       IN Pass("validated", "lowered", ~v.fail, [v |-> v])

Resolve ==
    Pass("lowered", "resolved",
         ResolvePhis(ir.v) /\ ValidateFeedbackLoops(ir.v) /\ LowerCutoffs(ir.v), <<>>)

Order ==
    /\ stage = "resolved"
    /\ LET edges == BuildEdges(ir.v) \cup AddResourceOrder(ir.v)
           candidates == Candidates(ir.v, edges)
           invariant == LoopInvariant(ir.v, edges, candidates)
           immediate == edges \cup Gates(ir.v, invariant)
           reach == Reachable(DOMAIN ir.v.nodes, immediate)
       IN Pass("resolved", "ordered", Acyclic(DOMAIN ir.v.nodes, reach),
               [immediate |-> immediate, temporal |-> Temporal(ir.v), reach |-> reach,
                candidates |-> candidates, invariant |-> invariant,
                pre |-> Preconstructed(ir.v, candidates)])

Analyze ==
    /\ stage = "ordered"
    /\ LET all == Reachable(DOMAIN ir.v.nodes, ir.immediate \cup ir.temporal)
           act == Activation(ir.v, ir.invariant, all)
           storage == StorageClass(ir.v, act, ir.pre)
           life == Lifetimes(ir.v, act, storage, ir.pre, ir.reach)
       IN Pass("ordered", "analyzed", TRUE, [act |-> act, life |-> life])

Allocate ==
    /\ stage = "analyzed"
    /\ LET slots == [r \in DOMAIN ir.v.res |-> SlotCount(ir.v, ir.act, ir.life, r)]
       IN Pass("analyzed", "allocated", TRUE,
               [layout |-> AllocateStorage(ir.v, ir.life, ir.reach, slots, Sizes, Alignments)])

EmitTables ==
    /\ stage = "allocated"
    /\ LET accepted == /\ RegionsConsistent(ir.v, ir.act)
                       /\ ControlsNest(ControlBuilds(ir.v))
                       /\ ~Emission(ir.v, ir.act, ir.immediate).split
           gen == [immediate |-> ir.immediate, temporal |-> ir.temporal, act |-> ir.act,
                   life |-> ir.life, layout |-> ir.layout, controls |-> EmitControls(ir.v)]
       IN Pass("allocated", "emitted", accepted, [data |-> EmitProgram(ir.v, gen)])

Plan ==
    /\ stage = "emitted"
    /\ \E plan \in {BuildJobPlan(ir.data)} :
            Pass("emitted", "compiled", ~JobCrossesRegion(ir.data, plan), [plan |-> plan])

Next ==
    \/ Record \/ End \/ Lower \/ Resolve \/ Order \/ Analyze \/ Allocate
    \/ EmitTables \/ Plan

Spec == Init /\ [][Next]_vars

-----------------------------------------------------------------------------
TypeOK ==
    /\ RecTypeOK
    /\ stage \in {"record", "rejected", "validated", "lowered", "resolved", "ordered",
                  "analyzed", "allocated", "emitted", "compiled"}

(* What the recorder lets through compiles.  Once a stream is valid,            *)
(* lower_values() finds a value wherever the recording reads one (the           *)
(* exception is the condition of a while, which its body may have consumed),    *)
(* and no job mixes a feedback region with what is submitted apart from it, so   *)
(* build_feedback_submission_plan() does not throw.                            *)
ValidRecordingsCompile ==
    /\ stage = "validated" /\ (\A p \in DOMAIN phis : ~phis[p].loop) =>
        ~LowerValues(Stream, Canonicalize(Stream)).fail
    /\ stage = "emitted" => ~JobCrossesRegion(ir.data, BuildJobPlan(ir.data))

Compiled == stage = "compiled"

(* The order the job plan gives the runtime nodes, whatever the workers do:   *)
(* within a job, and through the jobs' waits.                                *)
PlanOrder ==
    LET jobs == DOMAIN ir.plan
        reach == Reachable(jobs, {e \in jobs \X jobs : e[1] \in ir.plan[e[2]].preds})
        In(j) == ToSet(ir.plan[j].nodes)
        Later(j, a) == {b \in DOMAIN ir.plan[j].nodes : a < b}
        Within(j) == UNION {{<<ir.plan[j].nodes[a], ir.plan[j].nodes[b]>> : b \in Later(j, a)} :
                              a \in DOMAIN ir.plan[j].nodes}
    IN UNION {Within(j) \cup UNION {In(j) \X In(k) : k \in reach[j]} : j \in jobs}

(* The accesses of a runtime node to this traversal's objects.               *)
Uses(i) == {a \in ToSet(ir.data.nodes[i].acc) :
              ~\E p \in ToSet(ir.data.phis) : p.node = i /\ p.fb = a.in /\ a.in # 0}

(* A projection names a part of its owner's object; two parts overlap unless   *)
(* they are parts of disjoint projections of one owner.                      *)
Owners(r) ==
    Iterate(LAMBDA rs, k : rs \cup ({ir.data.res[x].owner : x \in rs} \ {0}), {r}, Len(ir.data.res))

SharesObject(x, y) ==
    \/ x \in Owners(y) \/ y \in Owners(x)
    \/ \E a \in Owners(x) \ {y}, b \in Owners(y) \ {x} :
        /\ a # b /\ ir.data.res[a].owner = ir.data.res[b].owner /\ ir.data.res[a].owner # 0
        /\ ir.data.res[a].over \/ ir.data.res[b].over

(* Two operations that touch one object, one of them changing it, run in the  *)
(* order they were recorded, whatever the workers do: the job plan still      *)
(* orders them after hoisting, renumbering, grouping and reduction.           *)
ConflictsOrdered ==
    Compiled => LET before == PlanOrder IN \A i, k \in DOMAIN ir.data.nodes :
        (/\ ir.data.nodes[i].source < ir.data.nodes[k].source
         /\ \E a \in Uses(i), b \in Uses(k) : SharesObject(a.r, b.r) /\ ModesConflict(a, b))
        => <<i, k>> \in before

(* What initialization runs once, before the first traversal, waits for        *)
(* nothing that only runs in a traversal, except for phis: README.md, findings. *)
InitializationClosed ==
    Compiled => \A i \in DOMAIN ir.data.nodes :
        ir.data.nodes[i].init => \A p \in ir.data.nodes[i].preds :
            ir.data.nodes[p].init \/ ir.data.nodes[p].kind = "phi"

(* Resources that share bytes are never alive together: all accesses of one   *)
(* come before all accesses of the other in the job plan.                    *)
SharesBytes(r, x) ==
    Overlap(ir.data.layout[r].offset, Bytes(ir.data.layout, r),
            ir.data.layout[x].offset, Bytes(ir.data.layout, x))

StorageExclusive ==
    Compiled =>
        LET before == PlanOrder
            Users(r) == {i \in DOMAIN ir.data.nodes : \E x \in Touched(ir.data.nodes[i]) :
                            x = r \/ (ir.data.res[x].kind = "projection" /\ ir.data.res[x].owner = r)}
            Stored == {r \in DOMAIN ir.data.layout : ir.data.layout[r].offset >= 0}
        IN \A r, x \in Stored :
            r # x /\ SharesBytes(r, x) =>
                \/ Users(r) \X Users(x) \subseteq before
                \/ Users(x) \X Users(r) \subseteq before

(* Grouping nodes into jobs and dropping waits that follow from others leaves *)
(* exactly the order of the dependency graph: nothing lost, nothing added.    *)
JobsKeepOrder ==
    Compiled =>
        LET nodes == DOMAIN ir.data.nodes
            reach == Reachable(nodes, {e \in nodes \X nodes : e[1] \in ir.data.nodes[e[2]].preds})
        IN PlanOrder = {e \in nodes \X nodes : e[2] \in reach[e[1]]}

(* The runtime order: every node after what it waits for, and every feedback   *)
(* region in one piece, since its traversals are submitted on their own.      *)
EmittedInOrder ==
    Compiled =>
        /\ \A i \in DOMAIN ir.data.nodes : \A p \in ir.data.nodes[i].preds : p < i
        /\ \A k \in ToSet(ir.data.regions) : \A i, j \in k.nodes : i .. j \subseteq k.nodes

(* The steps of the controls run each operation recorded in a body once: in    *)
(* the innermost body, a nested control as one step of its parent.  A control   *)
(* runs its steps in sequence, so the sequence respects the order the compiler  *)
(* found.                                                                    *)
Steps(c) == ir.data.controls[c].primary \o ir.data.controls[c].secondary

Places(Test(_)) == {at \in (DOMAIN ir.data.controls) \X (1 .. 2 * Len(ir.v.nodes)) :
                      at[2] \in DOMAIN Steps(at[1]) /\ Test(Steps(at[1])[at[2]])}

InBody(n) == \E c \in ToSet(ControlBuilds(ir.v)) : Inside(ir.v.nodes[n].src, c.begin, c.end)

ControlRunsBodyOnce ==
    Compiled =>
        /\ \A n \in DOMAIN ir.v.nodes :
            ir.v.nodes[n].kind # "phi" =>
                Cardinality(Places(LAMBDA s : s.node = n)) = (IF InBody(n) THEN 1 ELSE 0)
        /\ \A c \in DOMAIN ir.data.controls :
            Cardinality(Places(LAMBDA s : s.control = c)) =
                (IF ir.data.controls[c].parent = 0 THEN 0 ELSE 1)
        /\ \A c \in DOMAIN ir.data.controls : \A i, j \in DOMAIN Steps(c) :
            (i < j /\ Steps(c)[i].node # 0 /\ Steps(c)[j].node # 0) =>
                Steps(c)[i].node \notin ir.reach[Steps(c)[j].node]

=============================================================================
