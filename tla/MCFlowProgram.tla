---------------------------- MODULE MCFlowProgram ----------------------------
(* Instances of FlowProgram for TLC: recorded programs, compiled by the        *)
(* passes module FlowCompiler puts in sequence.                              *)
EXTENDS FlowProgram

Acc(r, mode) == [r |-> r, mode |-> mode, ser |-> FALSE]
Serial(r) == [r |-> r, mode |-> "read_write", ser |-> TRUE]
Op(kind, acc) == [kind |-> kind, acc |-> acc, side |-> FALSE, preds |-> {}]
Made(cons) == [kind |-> "owned", cons |-> cons, owner |-> 0, over |-> FALSE]
PhiRes == [kind |-> "phi", cons |-> 0, owner |-> 0, over |-> FALSE]
Feed(out, init, fb, pos, fbpos, mif) ==
    [out |-> out, init |-> init, fb |-> fb, cond |-> 0, pos |-> pos, fbpos |-> fbpos,
     mif |-> mif, loop |-> FALSE]
Recorded(res, ops, phis) == [res |-> res, ops |-> ops, phis |-> phis, ifs |-> <<>>]

(* compile() and build_program_artifact(). *)
Order(v) == BuildEdges(v) \cup AddResourceOrder(v)
Hoist(v, edges, cand) ==
    [v |-> v, cand |-> cand, temporal |-> Temporal(v), pre |-> Preconstructed(v, cand),
     invariant |-> LoopInvariant(v, edges, cand),
     immediate |-> edges \cup Gates(v, LoopInvariant(v, edges, cand))]
Ordered(v, edges) == Hoist(v, edges, Candidates(v, edges))
Reach(g) == Reachable(DOMAIN g.v.nodes, g.immediate)
Activated(g) ==
    [act |-> Activation(g.v, g.invariant,
                        Reachable(DOMAIN g.v.nodes, g.immediate \cup g.temporal))] @@ g
Lived(g, class, reach) == [life |-> Lifetimes(g.v, g.act, class, g.pre, reach)] @@ g
Laid(g, reach) ==
    [layout |-> AllocateStorage(g.v, g.life, reach,
                    [r \in DOMAIN g.v.res |-> SlotCount(g.v, g.act, g.life, r)],
                    [r \in DOMAIN g.v.res |-> 8], [r \in DOMAIN g.v.res |-> 8]),
     controls |-> EmitControls(g.v)] @@ g
Analyzed(g) == Laid(Lived(g, StorageClass(g.v, g.act, g.pre), Reach(g)), Reach(g))
Emitted(g) == EmitProgram(g.v, g)
Lowered(s) == LowerValues(s, Canonicalize(s))
Planned(data) == Artifact(data, BuildJobPlan(data))
(* The same value; the comparison has TLC compute it once.                     *)
Computed(x) == CHOOSE y \in {x} : y = x
Ordering(v) == Computed(Ordered(v, Computed(Order(v))))
Compile(s) ==
    Computed(Planned(Computed(Emitted(Computed(Analyzed(Computed(Activated(
        Ordering(Computed(Lowered(s)))))))))))

(* A state and the next one, made by an operation that reads the state; the    *)
(* constructor may read it too.                                              *)
Alternating(reads, mif) == Recorded(
    <<Made(1), PhiRes, Made(3)>>,
    <<Op("construct", <<Acc(1, "write")>>),
      Op("acquire", <<>>),
      Op("construct", <<Acc(3, "write")>> \o reads),
      Op("callback", <<Acc(2, "read"), Acc(3, "write")>>)>>,
    <<Feed(2, 1, 3, 1, 4, mif)>>)

(* The same with the next state constructed once and discarded in every         *)
(* traversal, which makes it preconstructed.                                  *)
Preconstructing == Recorded(
    <<Made(1), PhiRes, Made(2)>>,
    <<Op("construct", <<Acc(1, "write")>>),
      Op("construct", <<Acc(3, "write")>>),
      Op("acquire", <<>>),
      Op("discard", <<Acc(3, "consume")>>),
      Op("callback", <<Acc(2, "read"), Acc(3, "write")>>)>>,
    <<Feed(2, 1, 3, 1, 5, 2)>>)

(* The initial state comes from a chain of temporaries, the first of which      *)
(* shares its bytes with it; at most one traversal is in flight.                *)
Temporaries == Recorded(
    <<Made(1), Made(2), Made(3), PhiRes, Made(5), Made(6)>>,
    <<Op("construct", <<Acc(1, "write")>>),
      Op("construct", <<Acc(2, "write"), Acc(1, "read")>>),
      Op("construct", <<Acc(3, "write"), Acc(2, "read")>>),
      Op("acquire", <<>>),
      Op("construct", <<Acc(5, "write"), Acc(4, "read")>>),
      Op("construct", <<Acc(6, "write"), Acc(5, "read")>>)>>,
    <<Feed(4, 3, 6, 3, 6, 1)>>)

(* Two feedback regions. *)
Independent == Recorded(
    <<Made(1), PhiRes, Made(3), Made(5), PhiRes, Made(7)>>,
    <<Op("construct", <<Acc(1, "write")>>),
      Op("acquire", <<>>),
      Op("construct", <<Acc(3, "write")>>),
      Op("callback", <<Acc(2, "read"), Acc(3, "write")>>),
      Op("construct", <<Acc(4, "write")>>),
      Op("acquire", <<>>),
      Op("construct", <<Acc(6, "write")>>),
      Op("callback", <<Acc(5, "read"), Acc(6, "write")>>)>>,
    <<Feed(2, 1, 3, 1, 4, 2), Feed(5, 4, 6, 5, 8, 2)>>)

(* The feedback's producer does not read the state. *)
Unread == Recorded(
    <<Made(1), PhiRes, Made(3)>>,
    <<Op("construct", <<Acc(1, "write")>>),
      Op("acquire", <<>>),
      Op("construct", <<Acc(3, "write")>>),
      Op("callback", <<Acc(2, "read")>>)>>,
    <<Feed(2, 1, 3, 1, 4, 2)>>)

MCPrograms == {Compile(s) : s \in {Alternating(<<Acc(2, "read")>>, 2), Alternating(<<>>, 2),
                                   Preconstructing, Temporaries, Independent}}
UnreadPrograms == {Compile(Unread)}

(* Three traversals for the programs of one operation: the third takes a slot  *)
(* again.  Two for the larger ones.                                          *)
MCTraversals(a) == IF Len(a.data.nodes) < 6 THEN 3 ELSE 2
=============================================================================
