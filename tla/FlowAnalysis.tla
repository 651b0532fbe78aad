---------------------------- MODULE FlowAnalysis ----------------------------
(***************************************************************************)
(* The middle of the flow compiler: classify_nodes, hoist_loop_invariants,  *)
(* build_graph, analyze_components, analyze_activation, classify_storage,    *)
(* analyze_lifetimes, build_interference, assign_slots, allocate_storage and *)
(* allocate_activation_states.  They decide what runs once and what runs in  *)
(* every traversal, which values outlive a traversal, and which resources    *)
(* may share bytes.                                                         *)
(*                                                                         *)
(* v is the lowered program (module FlowLowering), e its value edges, o its  *)
(* resource order; the later passes take the record of what the earlier ones *)
(* have found.  A component is named by its smallest node.                   *)
(***************************************************************************)
EXTENDS FlowLowering, FiniteSetsExt

(* The paths, and those that two of them make through k. *)
Through(paths, k) ==
    paths \cup ({e[1] : e \in {x \in paths : x[2] = k}} \X
               {e[2] : e \in {x \in paths : x[1] = k}})

(* For every node of 1 .. n, the nodes a path of one edge or more leads to. *)
Reachable(nodes, edges) ==
    LET paths == Iterate(Through, edges, Cardinality(nodes))
    IN [n \in nodes |-> {e[2] : e \in {x \in paths : x[1] = n}}]

Outs(n) == {a.out : a \in ToSet(n.acc)} \ {0}
Ins(n) == {a.in : a \in ToSet(n.acc)} \ {0}
Touched(n) == {a.r : a \in ToSet(n.acc)}
Written(n) == {a.r : a \in {x \in ToSet(n.acc) : x.out # 0}}

-----------------------------------------------------------------------------
(* classify_nodes() *)
ReadsExternal(v, n) ==
    \/ \E a \in ToSet(v.nodes[n].acc) :
        ~a.ser /\ v.res[a.r].kind = "external" /\ a.mode # "write"
    \/ \E b \in ToSet(v.ifs) :
        v.values[b.cond].ext /\ Inside(v.nodes[n].src, b.begin, b.end)

WritesExternal(v, n) ==
    \E a \in ToSet(v.nodes[n].acc) :
        ~a.ser /\ v.res[a.r].kind = "external" /\ a.mode # "read"

Observable(v, n) ==
    v.nodes[n].side \/ WritesExternal(v, n) \/ v.nodes[n].kind \in {"acquire", "yield"}

-----------------------------------------------------------------------------
(* hoist_loop_invariants(): the candidates grow from nothing, then shrink to  *)
(* those whose predecessors and co-writers stay candidates.                  *)
Structured(v, n) ==
    \/ v.nodes[n].src = NullSource
    \/ \E b \in ToSet(v.ifs) : Inside(v.nodes[n].src, b.begin, b.end)
    \/ \E p \in ToSet(v.phis) : p.cond # 0 /\ Inside(v.nodes[n].src, p.decl, p.fbpos)

Movable(v, n) ==
    v.nodes[n].kind \in {"construct", "callback"} /\ ~v.nodes[n].side /\ ~Structured(v, n)

Before(n, edges) == {e[1] : e \in {x \in edges : x[2] = n}}

Candidates(v, edges) ==
    LET Invariant(found) ==
            {value \in DOMAIN v.values : v.values[value].ext} \cup
            UNION {Outs(v.nodes[n]) : n \in found}
        Joins(n, found) ==
            /\ Movable(v, n)
            /\ Before(n, edges) \subseteq found
            /\ Ins(v.nodes[n]) \subseteq Invariant(found)
            /\ Outs(v.nodes[n]) # {}
            /\ \A r \in Written(v.nodes[n]) : v.res[r].kind = "owned"
        Grow(found, k) == found \cup {n \in DOMAIN v.nodes : Joins(n, found)}
    IN Iterate(Grow, {}, Len(v.nodes))

(* A candidate construction whose resource is next touched by a discard.     *)
Preconstructed(v, candidates) ==
    LET NextTouch(n, r) ==
            LET later == {m \in n + 1 .. Len(v.nodes) : r \in Touched(v.nodes[m])}
            IN IF later = {} THEN 0 ELSE Min(later)
        Opens(n, r) == NextTouch(n, r) # 0 /\ v.nodes[NextTouch(n, r)].kind = "discard"
    IN {v.nodes[n].acc[1].r : n \in
          {m \in candidates : v.nodes[m].kind = "construct" /\ Opens(m, v.nodes[m].acc[1].r)}}

LoopInvariant(v, edges, candidates) ==
    LET pre == Preconstructed(v, candidates)
        Writers(r) == {m \in DOMAIN v.nodes : r \in Written(v.nodes[m])}
        Stays(n, kept) ==
            /\ Before(n, edges) \subseteq kept
            /\ \A r \in Written(v.nodes[n]) :
                (r \in pre /\ v.nodes[n].kind = "construct") \/ Writers(r) \subseteq kept
        Shrink(kept, k) == {n \in kept : Stays(n, kept)}
    IN Iterate(Shrink, candidates, Len(v.nodes))

-----------------------------------------------------------------------------
(* build_graph(): value edges, resource order and the acquire gates order a   *)
(* traversal; temporal edges lead into the next one.                         *)
Gates(v, invariant) ==
    LET Follows(g, n) ==
            /\ v.nodes[g].kind = "acquire" /\ g < n
            /\ v.nodes[n].src # NullSource /\ v.nodes[n].src > v.nodes[g].src
    IN {e \in (DOMAIN v.nodes) \X (DOMAIN v.nodes) :
            \/ Follows(e[1], e[2]) /\ e[2] \notin invariant
            \/ Follows(e[2], e[1]) /\ e[1] \in invariant}

Temporal(v) ==
    UNION {{<<v.values[value].producer, p.node>> : value \in {p.fb, p.cond} \ {0}} :
             p \in {q \in ToSet(v.phis) : v.values[q.fb].producer # 0}}

(* analyze_components() throws when the immediate edges have a cycle. *)
Acyclic(nodes, reach) == \A n \in nodes : n \notin reach[n]

-----------------------------------------------------------------------------
UpstreamDirect(nodes, all, n) == {n}

(* The nodes whose components reach this one's, its own included. *)
Upstream(nodes, all, n) == {m \in nodes : m = n \/ n \in all[m]}

(* analyze_activation(): per node, from its component and the components     *)
(* that reach it over all edges.                                            *)
Activation(v, invariant, all) ==
    LET Nodes == DOMAIN v.nodes
        Component(n) == Min({n} \cup {m \in all[n] : n \in all[m]})
        Above(n) == Upstream(Nodes, all, n)
        External(n) == \/ ReadsExternal(v, n) /\ n \notin invariant
                       \/ v.nodes[n].kind = "acquire"
        Sources(n) == {Component(m) : m \in {x \in Above(n) : x \in all[x]}}
        Triggered(n) == \E m \in Above(n) : External(m)
    IN [n \in Nodes |->
          [component |-> Component(n),
           sources |-> Sources(n),
           triggered |-> Triggered(n),
           memoized |-> \E m \in Above(n) : v.nodes[m].kind = "cutoff",
           initialization |-> Sources(n) = {} /\ ~Triggered(n)]]

-----------------------------------------------------------------------------
(* classify_storage() *)
ValuePersistent(v, act, value) ==
    LET producer == v.values[value].producer
    IN \/ \E p \in ToSet(v.phis) : p.fb = value
       \/ producer # 0 /\ act[producer].memoized
       \/ /\ producer # 0 /\ act[producer].initialization
          /\ \E n \in DOMAIN v.nodes :
               value \in Ins(v.nodes[n]) /\ ~act[n].initialization

(* Resources the body or the condition of an if or a while touches. *)
StructuredResources(v) ==
    LET Body(lo, hi) == {n \in ToSet(v.nodes) : Inside(n.src, lo, hi)}
        Marked(lo, hi, cond) ==
            {v.values[cond].res} \cup UNION {Touched(n) : n \in Body(lo, hi)}
    IN UNION {Marked(b.begin, b.end, b.cond) : b \in ToSet(v.ifs)} \cup
       UNION {Marked(p.decl, p.fbpos, p.cond) :
                p \in {q \in ToSet(v.phis) : q.cond # 0}}

StorageClass(v, act, pre) ==
    LET structured == StructuredResources(v)
        Lasting(r) == \/ r \in pre \/ r \in structured
                      \/ \E value \in DOMAIN v.values :
                           v.values[value].res = r /\ ValuePersistent(v, act, value)
    IN [r \in DOMAIN v.res |->
          CASE v.res[r].kind = "external" -> "external"
            [] v.res[r].kind \in {"phi", "cutoff", "projection"} -> "virtual"
            [] OTHER -> IF Lasting(r) THEN "persistent" ELSE "transient"]

-----------------------------------------------------------------------------
(* analyze_lifetimes(); reach is the reachability of the immediate edges. *)
Lifetimes(v, act, storage, pre, reach) ==
    LET Nodes == DOMAIN v.nodes
        Uses(r) == {n \in Nodes : \E x \in Touched(v.nodes[n]) :
                        x = r \/ (v.res[x].kind = "projection" /\ v.res[x].owner = r)}
        Definitions(r) == {n \in Nodes : r \in Written(v.nodes[n])}
        Redefined(r) == {n \in Definitions(r) : ~act[n].initialization}
    IN [r \in DOMAIN v.res |->
          [storage |-> storage[r],
           definitions |-> Definitions(r),
           uses |-> Uses(r),
           lastUses |-> {n \in Uses(r) : reach[n] \cap (Uses(r) \ {n}) = {}},
           sources |-> UNION {act[n].sources : n \in Uses(r)},
           triggered |-> \E n \in Uses(r) : act[n].triggered,
           overlap |-> storage[r] \in {"transient", "persistent"} /\ Redefined(r) # {},
           rebuilt |-> \E n \in Redefined(r) :
                          act[n].memoized /\ v.nodes[n].kind = "construct",
           pre |-> r \in pre,
           retained |-> \E p \in ToSet(v.phis) : v.values[p.fb].res = r]]

(* build_interference() *)
Owned(life, r) == life[r].storage \in {"transient", "persistent"}

OrderedAfterConstruction(life, reach, x, y) ==
    /\ ~life[x].overlap
    /\ life[x].definitions # {} /\ life[y].definitions # {}
    /\ \A d \in life[x].definitions : life[y].definitions \subseteq reach[d]

OrderedBefore(life, reach, x, y) ==
    /\ ~life[x].overlap
    /\ life[x].lastUses # {} /\ life[y].definitions # {}
    /\ \A l \in life[x].lastUses : life[y].definitions \subseteq reach[l]

Interferes(life, reach, x, y) ==
    \/ "persistent" \in {life[x].storage, life[y].storage}
    \/ ~OrderedBefore(life, reach, x, y) /\ ~OrderedBefore(life, reach, y, x)

-----------------------------------------------------------------------------
(* assign_slots() *)
(* A cycle whose recorded interval holds a yield or an acquire; the interval  *)
(* starts at the first operation after the phi.                              *)
YieldingCycles(v, act) ==
    LET Opening(p) ==
            LET later == {n \in p.node + 1 .. Len(v.nodes) : v.nodes[n].src # NullSource}
            IN IF later = {} THEN p.fbpos ELSE v.nodes[Min(later)].src
        Crossed(p) == \E n \in ToSet(v.nodes) :
            n.kind \in {"yield", "acquire"} /\ Inside(n.src, Opening(p), p.fbpos)
    IN {act[p.node].component : p \in {q \in ToSet(v.phis) : Crossed(q)}}

ComponentLimit(v, act, c) ==
    Max({0} \cup {p.mif : p \in {q \in ToSet(v.phis) :
                                   q.cond = 0 /\ act[q.node].component = c}})

WritersInside(v, p, r) ==
    {n \in ToSet(v.nodes) : Inside(n.src, p.decl, p.fbpos) /\ r \in Written(n)}

ResourceLimit(v, r) ==
    Max({0} \cup {p.mif : p \in {q \in ToSet(v.phis) :
                                   q.cond = 0 /\ WritersInside(v, q, r) # {}}})

BuiltInLoop(v, r) ==
    \E p \in ToSet(v.phis) :
        p.cond # 0 /\ \E n \in WritersInside(v, p, r) : n.kind = "construct"

FeedbackLimit(v, act, life, r) ==
    Max({MapThenSumSet(LAMBDA c : ComponentLimit(v, act, c), life[r].sources),
         ResourceLimit(v, r)})

SlotCount(v, act, life, r) ==
    LET limit == FeedbackLimit(v, act, life, r)
        acquires == \E n \in ToSet(v.nodes) : n.kind = "acquire"
        activationBound ==
            \/ acquires /\ life[r].triggered /\ limit # 0
            \/ life[r].sources \cap YieldingCycles(v, act) # {}
        bounded == /\ life[r].overlap
                   /\ \/ activationBound
                      \/ life[r].sources # {}
                      \/ life[r].storage = "persistent" /\ life[r].rebuilt
    IN CASE ~Owned(life, r) -> 0
         [] BuiltInLoop(v, r) -> 2
         [] ~bounded -> 1
         [] activationBound -> Max({limit, 2})
         [] OTHER -> 2

-----------------------------------------------------------------------------
(* allocate_storage(): largest first, each at the lowest aligned offset that  *)
(* keeps it apart from the placed resources it interferes with.              *)
AlignUp(x, a) == ((x + a - 1) \div a) * a

Bytes(layout, r) == layout[r].stride * layout[r].slots

Overlap(lo, size, lo2, size2) == lo < lo2 + size2 /\ lo2 < lo + size

Place(life, reach, sized, layout, r) ==
    LET placed == {x \in DOMAIN layout : layout[x].offset >= 0 /\ x # r}
        Free(at) == \A x \in placed :
            Interferes(life, reach, x, r) =>
                ~Overlap(at, Bytes(sized, r), layout[x].offset, Bytes(layout, x))
        ends == {0} \cup {layout[x].offset + Bytes(layout, x) : x \in placed}
        offset == Min({at \in {AlignUp(end, sized[r].align) : end \in ends} : Free(at)})
    IN [layout EXCEPT ![r].offset = offset]

AllocateStorage(v, life, reach, slots, sizes, aligns) ==
    LET sized == [r \in DOMAIN v.res |->
                    [offset |-> -1, stride |-> AlignUp(sizes[r], aligns[r]),
                     slots |-> slots[r], align |-> aligns[r]]]
        Larger(x, y) ==
            LET size(r) == Bytes(sized, r)
            IN \/ size(x) > size(y)
               \/ size(x) = size(y) /\ aligns[x] > aligns[y]
               \/ size(x) = size(y) /\ aligns[x] = aligns[y] /\ x < y
        PlaceLargest(layout, k) ==
            LET left == {r \in DOMAIN v.res : Owned(life, r) /\ layout[r].offset < 0}
                largest == CHOOSE r \in left : \A x \in left \ {r} : Larger(r, x)
            IN IF left = {} THEN layout ELSE Place(life, reach, sized, layout, largest)
    IN Iterate(PlaceLargest, sized, Len(v.res))

(* allocate_activation_states(): one state per traversal in flight, summed    *)
(* over the feedback regions.                                               *)
ActivationCapacity(v) ==
    LET First(p) == v.phis[p].cond = 0 /\ \A q \in 1 .. p - 1 :
                        ~SameInterval(v.phis[q], v.phis[p])
    IN Max({1, MapThenSumSet(LAMBDA p : v.phis[p].mif,
                             {p \in DOMAIN v.phis : First(p)})})
=============================================================================
