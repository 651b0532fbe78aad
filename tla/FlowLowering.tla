---------------------------- MODULE FlowLowering ----------------------------
(***************************************************************************)
(* The front half of the flow compiler (libs/flow, detail/compiler): the    *)
(* passes canonicalize, lower_values, resolve_phis, validate_feedback_loops, *)
(* lower_cutoffs, build_edges and add_resource_order.  They turn a recorded  *)
(* stream (module FlowRecorder) into nodes that define and use numbered      *)
(* values, and into the two relations that order the nodes.                  *)
(*                                                                         *)
(* Nodes and values are numbered from 1 in the order the passes create       *)
(* them, 0 is the null id.  The vectors of edges and of order constraints    *)
(* are relations here: the code's checks for duplicates do not change them.  *)
(***************************************************************************)
EXTENDS Integers, Sequences, FiniteSets, SequencesExt

NullSource == 1000     \* null_source_operation_id, larger than every position

(* What n steps F(y, k), k from 1 to n, make of x: the loops of the passes.    *)
Iterate(F(_, _), x, n) ==
    LET after[k \in 0 .. n] == IF k = 0 THEN x ELSE F(after[k - 1], k)
    IN after[n]

Inside(position, lo, hi) == lo <= position /\ position < hi

-----------------------------------------------------------------------------
(* canonicalize(): phis become nodes in front of the operation they were    *)
(* recorded before.                                                         *)
Canonicalize(s) ==
    LET PhiNode(p) ==
            [kind |-> "phi", src |-> NullSource, phi |-> p, side |-> FALSE,
             acc |-> <<[r |-> s.phis[p].init, mode |-> "read", ser |-> FALSE],
                       [r |-> s.phis[p].fb, mode |-> "read", ser |-> FALSE],
                       [r |-> s.phis[p].out, mode |-> "write", ser |-> FALSE]>>]
        OpNode(i) ==
            [kind |-> s.ops[i].kind, src |-> i - 1, phi |-> 0,
             side |-> s.ops[i].side, acc |-> s.ops[i].acc]
        AddPhis(nodes, position) ==
            Iterate(LAMBDA x, p : IF s.phis[p].pos = position THEN Append(x, PhiNode(p)) ELSE x,
                    nodes, Len(s.phis))
        AddOp(nodes, i) == Append(AddPhis(nodes, i - 1), OpNode(i))
    IN AddPhis(Iterate(AddOp, <<>>, Len(s.ops)), Len(s.ops))

-----------------------------------------------------------------------------
(* lower_values(): the state of the pass.  current is the value a resource   *)
(* holds at this point of the recording, 0 when it holds none; fail says     *)
(* that the pass has thrown.                                                *)
Define(st, r, node, ext) ==
    [st EXCEPT !.values = Append(@, [res |-> r, producer |-> node, ext |-> ext]),
               !.current[r] = Len(st.values) + 1]

ResolveIfConditions(st, position) ==
    LET here == {b \in DOMAIN st.ifs :
                    st.ifs[b].begin = position /\ st.ifs[b].cond = 0}
    IN [st EXCEPT
          !.ifs = [b \in DOMAIN st.ifs |->
                    IF b \in here THEN [st.ifs[b] EXCEPT !.cond = st.current[st.ifs[b].condres]]
                    ELSE st.ifs[b]],
          !.fail = @ \/ \E b \in here : st.current[st.ifs[b].condres] = 0]

ResolveFeedback(st, position) ==
    LET here == {p \in DOMAIN st.phis :
                    st.phis[p].fb = 0 /\ st.phis[p].fbpos = position}
        Now(r) == IF r = 0 THEN 0 ELSE st.current[r]
    IN [st EXCEPT
          !.phis = [p \in DOMAIN st.phis |->
                      IF p \in here
                      THEN [st.phis[p] EXCEPT !.fb = Now(st.phis[p].fbres),
                                              !.cond = Now(st.phis[p].condres)]
                      ELSE st.phis[p]],
          !.fail = @ \/ \E p \in here :
                          \/ Now(st.phis[p].fbres) = 0
                          \/ st.phis[p].condres # 0 /\ Now(st.phis[p].condres) = 0]

(* One access of an operation: the value it uses and the value it defines.  *)
LowerAccess(s, kind, node, index, st, a) ==
    LET held == st.current[a.r]
        fresh == \/ kind = "construct" /\ index = 1
                 \/ s.res[a.r].kind = "cutoff"
        uses == ~a.ser /\ kind # "discard" /\ (a.mode # "write" \/ ~fresh)
        defines == ~a.ser /\ kind # "discard" /\ a.mode \in {"write", "read_write"}
        ends == ~a.ser /\ (kind = "discard" \/ a.mode = "consume")
        lowered == [r |-> a.r, mode |-> a.mode, ser |-> a.ser,
                    in |-> IF uses THEN held ELSE 0,
                    out |-> IF defines THEN Len(st.values) + 1 ELSE 0]
        after == IF defines THEN Define(st, a.r, node, FALSE)
                 ELSE IF ends THEN [st EXCEPT !.current[a.r] = 0]
                 ELSE st
    IN [after EXCEPT !.acc = Append(@, lowered),
                     !.fail = @ \/ (uses /\ a.mode # "write" /\ held = 0)]

LowerPhi(s, node, st, n) ==
    LET p == s.phis[n.phi]
        init == st.current[p.init]
        after == Define(st, p.out, node, FALSE)
    IN [after EXCEPT
          !.acc = <<[r |-> p.init, mode |-> "read", ser |-> FALSE, in |-> init, out |-> 0],
                    [r |-> p.fb, mode |-> "read", ser |-> FALSE, in |-> 0, out |-> 0],
                    [r |-> p.out, mode |-> "write", ser |-> FALSE, in |-> 0,
                     out |-> Len(st.values) + 1]>>,
          !.phis = Append(@, [node |-> node, fbres |-> p.fb, condres |-> p.cond,
                              out |-> Len(st.values) + 1, init |-> init, fb |-> 0,
                              cond |-> 0, decl |-> p.pos, fbpos |-> p.fbpos,
                              mif |-> p.mif]),
          !.fail = @ \/ init = 0]

LowerNode(s, st, n) ==
    LET node == Len(st.nodes) + 1
        ready == IF n.kind = "phi" THEN st
                 ELSE ResolveFeedback(ResolveIfConditions(st, n.src), n.src)
        start == [ready EXCEPT !.acc = <<>>]
        done == IF n.kind = "phi" THEN LowerPhi(s, node, start, n)
                ELSE Iterate(LAMBDA x, i : LowerAccess(s, n.kind, node, i, x, n.acc[i]),
                             start, Len(n.acc))
    IN [done EXCEPT !.nodes = Append(@, [kind |-> n.kind, src |-> n.src,
                                         side |-> n.side, acc |-> done.acc])]

(* The whole pass.  The phis' feedback accesses take their value once it is  *)
(* resolved.                                                                *)
LowerValues(s, normalized) ==
    LET blank == [values |-> <<>>, current |-> [r \in DOMAIN s.res |-> 0],
                  nodes |-> <<>>, phis |-> <<>>, acc |-> <<>>, fail |-> FALSE,
                  ifs |-> [b \in DOMAIN s.ifs |->
                            [condres |-> s.ifs[b].cond, cond |-> 0,
                             begin |-> s.ifs[b].begin, alt |-> s.ifs[b].alt,
                             end |-> s.ifs[b].end]]]
        Given(st, kind) ==
            Iterate(LAMBDA x, r : IF s.res[r].kind = kind
                                  THEN Define(x, r, 0, kind = "external") ELSE x,
                    st, Len(s.res))
        walked == Iterate(LAMBDA x, i : LowerNode(s, x, normalized[i]),
                          Given(Given(blank, "external"), "projection"), Len(normalized))
        done == ResolveIfConditions(ResolveFeedback(walked, Len(s.ops)), Len(s.ops))
        FeedbackOf(n) ==
            (CHOOSE p \in ToSet(done.phis) : p.node = n).fb
    IN [res |-> s.res, values |-> done.values, phis |-> done.phis, ifs |-> done.ifs,
        nodes |-> [n \in DOMAIN done.nodes |->
                     IF done.nodes[n].kind = "phi"
                     THEN [done.nodes[n] EXCEPT !.acc[2].in = FeedbackOf(n)]
                     ELSE done.nodes[n]],
        fail |-> \/ done.fail
                 \/ \E p \in DOMAIN done.phis : done.phis[p].fb = 0
                 \/ \E b \in DOMAIN done.ifs : done.ifs[b].cond = 0]

-----------------------------------------------------------------------------
(* resolve_phis(): what it refuses.  A while's condition is produced by an   *)
(* operation of its body; two feedback intervals are equal, nested with      *)
(* distinct ends, or disjoint.                                              *)
ConditionProduced(v, p) ==
    LET producer == v.values[p.cond].producer
    IN /\ p.decl < p.fbpos
       /\ producer # 0
       /\ Inside(v.nodes[producer].src, p.decl, p.fbpos)

SameInterval(p, q) == p.decl = q.decl /\ p.fbpos = q.fbpos

CrossesInto(p, q) == p.decl < q.decl /\ q.decl < p.fbpos /\ p.fbpos < q.fbpos

ResolvePhis(v) ==
    /\ \A p \in ToSet(v.phis) : p.cond # 0 => ConditionProduced(v, p)
    /\ \A p, q \in ToSet(v.phis) :
        IF SameInterval(p, q) THEN p.cond = q.cond
        ELSE /\ p.decl # q.decl /\ p.fbpos # q.fbpos
             /\ ~CrossesInto(p, q) /\ ~CrossesInto(q, p)

ValidateFeedbackLoops(v) ==
    LET Holds(p, kinds) == \E n \in ToSet(v.nodes) :
            n.kind \in kinds /\ Inside(n.src, p.decl, p.fbpos)
    IN \A p \in ToSet(v.phis) :
        IF p.cond # 0 THEN ~Holds(p, {"acquire", "yield"})
        ELSE /\ Holds(p, {"acquire"})
             /\ \A outer \in ToSet(v.phis) :
                 ~(outer.cond # 0 /\ outer.decl < p.decl /\ p.fbpos < outer.fbpos)

(* lower_cutoffs(): every cutoff node reads one value and defines a new one. *)
LowerCutoffs(v) ==
    \A n \in ToSet(v.nodes) :
        n.kind = "cutoff" =>
            /\ Len(n.acc) = 2
            /\ n.acc[1].in # 0 /\ n.acc[1].out = 0
            /\ n.acc[2].in = 0 /\ n.acc[2].out # 0

-----------------------------------------------------------------------------
(* The phi's use of its feedback value orders nothing within a traversal.    *)
IsBackedge(v, node, value) ==
    \E p \in ToSet(v.phis) : p.node = node /\ p.fb = value

(* build_edges(): producer before consumer. *)
BuildEdges(v) ==
    LET Uses(n) == {a.in : a \in ToSet(v.nodes[n].acc)} \ {0}
        Produces(p, value) == v.values[value].producer = p
        Used(p, n) == \E value \in Uses(n) : Produces(p, value) /\ ~IsBackedge(v, n, value)
        Guards(p, n) == p # n /\ \E b \in ToSet(v.ifs) :
            Produces(p, b.cond) /\ Inside(v.nodes[n].src, b.begin, b.end)
    IN {e \in (DOMAIN v.nodes) \X (DOMAIN v.nodes) : Used(e[1], e[2]) \/ Guards(e[1], e[2])}

AliasesSelf(resources, x, y) == x = y

(* Two resources may name the same object: a projection and its owner, or    *)
(* two projections of one owner unless both are disjoint.                    *)
Aliases(resources, x, y) ==
    LET OwnerOf(r) == IF resources[r].kind = "projection" THEN resources[r].owner ELSE r
        Projected(r) == resources[r].kind = "projection"
    IN \/ x = y
       \/ /\ OwnerOf(x) = OwnerOf(y)
          /\ Projected(x) /\ Projected(y) => resources[x].over \/ resources[y].over

OrderedWrites(v) ==
    UNION {{n} \X {i \in DOMAIN v.nodes[n].acc : v.nodes[n].acc[i].mode # "read"} :
             n \in DOMAIN v.nodes}

(* The accesses add_resource_order() orders, each a node and a place in its  *)
(* list; the uses of back edges are left out.                               *)
OrderedAccesses(v) ==
    LET Kept(n) == {i \in DOMAIN v.nodes[n].acc :
                      v.nodes[n].acc[i].in = 0 \/ ~IsBackedge(v, n, v.nodes[n].acc[i].in)}
    IN UNION {{n} \X Kept(n) : n \in DOMAIN v.nodes}

(* The order in which they were recorded. *)
Ahead(x, y) == x[1] < y[1] \/ (x[1] = y[1] /\ x[2] < y[2])

(* add_resource_order(): a read follows the last write, a write the reads    *)
(* since then, and accesses of aliases follow each other.                   *)
AddResourceOrder(v) ==
    LET list == OrderedAccesses(v)
        Of(x) == v.nodes[x[1]].acc[x[2]]
        Same(y, isRead) == {x \in list :
            Ahead(x, y) /\ Of(x).r = Of(y).r /\ (Of(x).mode = "read") = isRead}
        Writer(y) == {w \in Same(y, FALSE) : \A x \in Same(y, FALSE) : ~Ahead(w, x)}
        Readers(y) == {x \in Same(y, TRUE) : \A w \in Same(y, FALSE) : Ahead(w, x)}
        Precede(y) ==
            IF Of(y).mode = "read" \/ Readers(y) = {} THEN Writer(y) ELSE Readers(y)
        Aliased(y) == {x \in list :
            /\ Ahead(x, y) /\ Of(x).r # Of(y).r /\ Aliases(v.res, Of(x).r, Of(y).r)
            /\ Of(x).mode # "read" \/ Of(y).mode # "read"}
        Others(y) == {x \in Precede(y) \cup Aliased(y) : x[1] # y[1]}
    IN UNION {{<<x[1], y[1]>> : x \in Others(y)} : y \in list}
=============================================================================
