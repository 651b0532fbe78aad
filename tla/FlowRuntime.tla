----------------------------- MODULE FlowRuntime -----------------------------
(***************************************************************************)
(* ProgramRuntime (detail/program_runtime.hpp): the objects of a compiled     *)
(* flow program.  Everything it keeps is behind one mutex, so it is a record  *)
(* and every operator here is one critical section of a member function:      *)
(*   slots      per logical slot <<r, i>>: occupied, built, gen               *)
(*   next       per resource the next generation                             *)
(*   active     per resource the generation last bound, or Nothing            *)
(*   feedback   per phi the generation the next traversal starts from         *)
(*   acts       the activation blocks: values, gens, prev                     *)
(*   free       the stack of blocks not in use                               *)
(* A handle is a ResourceGeneration; a pointer is the slot it names, <<r, 0>>  *)
(* for a bound external.  Cutoffs, projections, structured control and         *)
(* recorded errors are left out: a is an artifact without them.               *)
(***************************************************************************)
EXTENDS FlowEmission

Nothing == [r |-> 0, slot |-> 0, gen |-> 0]
Null == <<0, 0>>
Pointer(h) == <<h.r, h.slot>>

(* What a Program keeps of its compilation: the tables, the job plan, and the  *)
(* physical slot of every logical slot.                                      *)
Artifact(data, plan) ==
    [data |-> data, plan |-> plan,
     class |-> [s \in LogicalSlots(data) |->
                    CHOOSE p \in PhysicalSlots(data) : s \in p],
     region |-> [n \in DOMAIN data.nodes |->
                    LET in == {k \in DOMAIN data.regions : n \in data.regions[k].nodes}
                    IN IF in = {} THEN 0 ELSE Min(in)]]

Resources(a) == DOMAIN a.data.res
Life(a, r) == a.data.life[r]
Slots(a, r) == {s[2] : s \in {x \in DOMAIN a.class : x[1] = r}}
ResourceOf(a, v) == a.data.values[v].res

NewRuntime(a) ==
    [slots |-> [s \in DOMAIN a.class |-> [occupied |-> FALSE, built |-> FALSE, gen |-> 0]],
     next |-> [r \in Resources(a) |-> 1],
     active |-> [r \in Resources(a) |-> Nothing],
     feedback |-> [p \in DOMAIN a.data.phis |-> Nothing],
     acts |-> <<>>, free |-> <<>>]

-----------------------------------------------------------------------------
(* begin_execution(): an activation block from the pool, which grows up to its *)
(* capacity; its values start at the objects that are active now.             *)
MayBegin(rt, capacity) == rt.free # <<>> \/ Len(rt.acts) < capacity

NextActivation(rt) == IF rt.free # <<>> THEN Last(rt.free) ELSE Len(rt.acts) + 1

FreshActivation(a, rt) ==
    [values |-> [v \in DOMAIN a.data.values |->
        LET r == ResourceOf(a, v)
        IN IF a.data.res[r].kind = "external" THEN <<r, 0>>
           ELSE IF rt.active[r] = Nothing THEN Null ELSE Pointer(rt.active[r])],
     gens |-> [r \in Resources(a) |-> Nothing],
     prev |-> [r \in Resources(a) |-> Nothing]]

BeginExecution(a, rt) ==
    IF rt.free = <<>>
    THEN [rt EXCEPT !.acts = Append(@, FreshActivation(a, rt))]
    ELSE [rt EXCEPT !.acts[Last(rt.free)] = FreshActivation(a, rt),
                    !.free = Front(@)]

-----------------------------------------------------------------------------
(* A slot may be taken when neither it nor a slot sharing its bytes is. *)
RangeOccupied(a, rt, s) == \E t \in a.class[s] : rt.slots[t].occupied

SlotFree(a, rt, r, i) ==
    /\ ~RangeOccupied(a, rt, <<r, i>>)
    /\ Life(a, r).pre => rt.slots[<<r, i>>].built

(* The slots try_acquire_locked() chooses its first from, without a preferred  *)
(* one; acquire_unconstructed() wants one that is not built.                  *)
FreeSlots(a, rt, r) ==
    {i \in Slots(a, r) : /\ SlotFree(a, rt, r, i)
                         /\ Life(a, r).pre => \A x \in Slots(a, r) : rt.slots[<<r, x>>].built}

UnbuiltSlots(a, rt, r) ==
    {i \in Slots(a, r) : ~RangeOccupied(a, rt, <<r, i>>) /\ ~rt.slots[<<r, i>>].built}

TakeSlot(a, rt, r, i) ==
    [rt EXCEPT !.slots[<<r, i>>] = [occupied |-> TRUE, built |-> @.built /\ Life(a, r).pre,
                                    gen |-> rt.next[r]],
               !.next[r] = @ + 1]

Taken(rt, r, i) == [r |-> r, slot |-> i, gen |-> rt.next[r]]

(* A resource's previous object stays until the traversal ends, if it is kept  *)
(* across traversals.                                                        *)
KeepsPrevious(a, r) == Life(a, r).shutdown /\ (~Life(a, r).pre \/ Life(a, r).retained)

AssignValues(a, rt, act, h) ==
    [v \in DOMAIN a.data.values |->
        IF ResourceOf(a, v) = h.r THEN Pointer(h) ELSE rt.acts[act].values[v]]

(* The second critical section of acquire_for_execution() ... *)
Bind(a, rt, act, h) ==
    LET prev == rt.acts[act].prev[h.r]
        kept == IF prev = Nothing /\ KeepsPrevious(a, h.r) THEN rt.active[h.r] ELSE prev
    IN [rt EXCEPT !.acts[act].values = AssignValues(a, rt, act, h),
                  !.acts[act].gens[h.r] = h, !.acts[act].prev[h.r] = kept,
                  !.active[h.r] = h]

(* ... and of acquire_for_preconstruction(). *)
BindUnconstructed(a, rt, act, h) ==
    [rt EXCEPT !.acts[act].values = AssignValues(a, rt, act, h),
               !.acts[act].gens[h.r] = h, !.active[h.r] = h]

-----------------------------------------------------------------------------
(* select_phi(): the generation the last traversal retained, or on the first   *)
(* traversal the initial value.                                              *)
PhiSource(a, p, later) == IF later THEN a.data.phis[p].fb ELSE a.data.phis[p].init

(* Mutant: the object that is active now, not the one fed back. *)
NewestGeneration(a, rt, p, later) == rt.active[ResourceOf(a, PhiSource(a, p, later))]

PhiGeneration(a, rt, p, later) ==
    IF later THEN rt.feedback[p] ELSE rt.active[ResourceOf(a, PhiSource(a, p, later))]

SelectedPointer(a, rt, act, p, later) ==
    LET gen == PhiGeneration(a, rt, p, later)
        held == rt.acts[act].values[PhiSource(a, p, later)]
    IN IF (later \/ held = Null) /\ gen # Nothing THEN Pointer(gen) ELSE held

SelectPhi(a, rt, act, p, later) ==
    LET r == ResourceOf(a, PhiSource(a, p, later))
        gen == PhiGeneration(a, rt, p, later)
    IN [rt EXCEPT !.acts[act].values[a.data.phis[p].out] =
                        SelectedPointer(a, rt, act, p, later),
                  !.acts[act].prev[r] = IF later /\ gen # Nothing THEN gen ELSE @]

(* prepare_arguments(): the pointer of an access is its output's or else its   *)
(* input's, and falls back on the active object.                             *)
Arguments(a, n) == SelectSeq(a.data.nodes[n].acc, LAMBDA x : ~x.ser)

AccessValue(x) == IF x.out # 0 THEN x.out ELSE x.in

ArgumentPointer(a, rt, act, x) ==
    LET v == AccessValue(x)
        active == rt.active[ResourceOf(a, v)]
    IN IF rt.acts[act].values[v] = Null /\ active # Nothing THEN Pointer(active)
       ELSE rt.acts[act].values[v]

PrepareArguments(a, rt, act, n) ==
    LET used == {AccessValue(x) : x \in ToSet(Arguments(a, n))}
        At(v) == ArgumentPointer(a, rt, act, CHOOSE x \in ToSet(Arguments(a, n)) : AccessValue(x) = v)
    IN [rt EXCEPT !.acts[act].values =
            [v \in DOMAIN @ |-> IF v \in used THEN At(v) ELSE @[v]]]

(* retain_feedback_outputs(): the phis that take an output of the node over.   *)
FedPhis(a, n) ==
    {p \in DOMAIN a.data.phis : \E x \in ToSet(a.data.nodes[n].acc) :
        x.out # 0 /\ x.out = a.data.phis[p].fb}

RetainedGeneration(a, rt, act, p) ==
    LET r == ResourceOf(a, a.data.phis[p].fb)
    IN IF rt.acts[act].gens[r] # Nothing THEN rt.acts[act].gens[r] ELSE rt.active[r]

RetainFeedback(a, rt, act, n) ==
    [rt EXCEPT !.feedback = [p \in DOMAIN @ |->
        IF p \in FedPhis(a, n) THEN RetainedGeneration(a, rt, act, p) ELSE @[p]]]

-----------------------------------------------------------------------------
(* validate() *)
ValidHandle(rt, h) == rt.slots[Pointer(h)].occupied /\ rt.slots[Pointer(h)].gen = h.gen

MarkConstructed(rt, h) == [rt EXCEPT !.slots[Pointer(h)].built = TRUE]

(* The first critical section of release(); the object is destroyed after it,  *)
(* outside the mutex, and the second one gives the slot back.                 *)
Destroys(a, rt, h) == rt.slots[Pointer(h)].built /\ ~Life(a, h.r).pre

StartRelease(a, rt, h) ==
    IF Destroys(a, rt, h) THEN [rt EXCEPT !.slots[Pointer(h)].built = FALSE] ELSE rt

FreeSlot(rt, h) == [rt EXCEPT !.slots[Pointer(h)].occupied = FALSE]

(* release_active(): the activation lets go of its object; it stays active if   *)
(* a later traversal has bound another.                                      *)
LetGo(rt, act, r) ==
    [rt EXCEPT !.acts[act].gens[r] = Nothing,
               !.active[r] = IF @ = rt.acts[act].gens[r] THEN Nothing ELSE @]

(* finish_execution(): the objects the traversal replaced or consumed are to    *)
(* be released, and its block is free.                                       *)
ReplacedObjects(a, rt, act) ==
    LET kept == SelectSeq([r \in Resources(a) |-> r],
                          LAMBDA r : rt.acts[act].prev[r] # Nothing)
    IN [i \in DOMAIN kept |-> rt.acts[act].prev[kept[i]]]

FinishExecution(a, rt, act) ==
    [rt EXCEPT !.acts[act].prev = [r \in Resources(a) |-> Nothing],
               !.free = Append(@, act)]
=============================================================================
