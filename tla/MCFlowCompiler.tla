--------------------------- MODULE MCFlowCompiler ---------------------------
(* Instances of FlowCompiler for TLC. *)
EXTENDS FlowCompiler

MCSizes == [r \in 1 .. MaxResources |-> IF r % 2 = 0 THEN 8 ELSE 4]
MCAlignments == [r \in 1 .. MaxResources |-> IF r % 2 = 0 THEN 8 ELSE 4]

(* A shape is a family of recordings a run enumerates: the kind of each       *)
(* resource, the kind of each operation, the largest number of its accesses,  *)
(* their modes, and which of serialization, side effects and bodies occur.    *)
(* Only complete recordings are compiled.                                    *)
Follows(declared, recorded, width, modes, extras) ==
    /\ Len(res') <= Len(declared) /\ Len(ops') <= Len(recorded)
    /\ \A r \in DOMAIN res' : res'[r].kind \in declared[r]
    /\ \A i \in DOMAIN ops' :
        /\ ops'[i].kind \in recorded[i] /\ Len(ops'[i].acc) <= width[i]
        /\ ops'[i].side => "effect" \in extras
        /\ \A a \in ToSet(ops'[i].acc) :
            IF a.ser THEN "serialize" \in extras ELSE a.mode \in modes
    /\ scopes' # <<>> => "body" \in extras
    /\ \A p \in DOMAIN phis' : phis'[p].fb # 0 => phis'[p].mif = 1 \/ "limits" \in extras
    /\ stage' = "validated" => Len(ops) = Len(recorded)
    \* declarations commute with operations: owned and external resources are
    \* declared before the first operation, and owned ones are constructed in
    \* the order of their ids while there is room for it
    /\ ops # <<>> /\ Len(res') > Len(res) => Last(res').kind \notin {"owned", "external"}
    /\ \A r, x \in DOMAIN res' :
        r < x /\ res'[r].kind = "owned" /\ res'[x].cons # 0 => res'[r].cons \in 1 .. res'[x].cons
    /\ Cardinality({r \in DOMAIN res' : res'[r].kind = "owned" /\ res'[r].cons = 0})
         <= Len(recorded) - Len(ops')

RW == {"read", "write"}

(* Two owned resources and what is read, written, consumed, discarded or cut. *)
ValuesShape == Follows(<<{"owned"}, {"owned"}, {"cutoff"}>>,
    <<{"construct"}, {"construct"}, {"callback", "cutoff"}, {"callback", "discard"}>>,
    <<1, 2, 2, 2>>, RW \cup {"consume"}, {})

PairShape == Follows(<<{"owned"}, {"owned"}>>,
    <<{"construct"}, {"construct"}, {"callback"}>>, <<1, 2, 2>>, RW, {})

SerializeShape == Follows(<<{"owned"}>>,
    <<{"construct"}, {"callback"}, {"callback"}>>, <<1, 1, 1>>, RW, {"serialize"})

ExternalShape == Follows(<<{"owned"}, {"owned", "external"}, {"external"}>>,
    <<{"construct"}, {"construct", "acquire"}, {"callback"}, {"callback", "discard"}>>,
    <<1, 2, 1, 1>>, RW, {"effect"})

FeedbackShape == Follows(<<{"owned"}, {"owned"}, {"phi"}>>,
    <<{"construct"}, {"callback", "acquire", "yield"}, {"acquire", "construct"},
      {"callback"}>>, <<1, 1, 2, 1>>, RW, {})

(* Two feedback relations in one, two or nested intervals. *)
RegionShape ==
    /\ Follows(<<{"owned"}, {"phi"}, {"phi"}>>,
        <<{"construct"}, {"acquire"}, {"callback"}, {"acquire", "callback"}, {"callback"}>>,
        <<1, 0, 1, 1, 0>>, {"write"}, {"limits"})
    /\ Len(phis') > Len(phis) => Len(ops) \in {1, 3}
    /\ Len(phis') = Len(phis) /\ phis' # phis => Len(ops) \in {3, 5}
    /\ \A p \in DOMAIN phis' : phis'[p].init # phis'[p].fb \/ phis'[p].fb = 1
    /\ Len(ops') >= 4 /\ ops'[4].kind = "callback" => Len(phis') = 1
    /\ Len(phis') = 2 /\ phis'[1].fb # 0 => phis'[1].mif = 1

(* Nested and adjacent if_ and while_ bodies. *)
ControlShape ==
    /\ Follows(<<{"owned"}, {"phi"}, {"phi"}>>,
        <<{"construct"}, {"callback"}, {"callback"}, {"callback"}>>,
        <<1, 1, 1, 1>>, {"write"}, {"body"})
    /\ Len(scopes') > Len(scopes) => Last(scopes').cond = 1
    /\ Len(ifs') + Len(phis') + Cardinality({i \in DOMAIN scopes' : scopes'[i].phi = 0}) <= 2
    /\ \A p \in DOMAIN phis' : phis'[p].loop

BodyShape == Follows(<<{"owned"}>>,
    <<{"construct"}, {"callback"}, {"callback"}>>, <<1, 1, 1>>, {"write"}, {"body"})
    /\ phis' = <<>> /\ Len(ifs') + Len(scopes') <= 1

ProjectionShape == Follows(<<{"owned"}, {"projection"}, {"projection"}>>,
    <<{"construct"}, {"callback"}, {"callback"}>>, <<1, 2, 2>>, RW, {})

(* A projection of a projection. *)
NestedShape == Follows(<<{"owned"}, {"projection"}, {"projection"}>>,
    <<{"construct"}, {"callback"}, {"callback"}>>, <<1, 1, 1>>, {"write"}, {})

(* What no shape has, so that most other recordings are refused at once. *)
Plausible(op) ==
    /\ op.side => \A r \in DOMAIN res' : res'[r].kind \in {"owned", "external"}
    /\ \A i \in DOMAIN op.acc :
        /\ op.acc[i].ser => Len(res') = 1
        /\ op.acc[i].mode = "consume" =>
              \A r \in DOMAIN res' : res'[r].kind \in {"owned", "cutoff"}

Shapes ==
    /\ ops' # ops => Plausible(Last(ops'))
    /\ \/ PairShape \/ BodyShape \/ ValuesShape \/ SerializeShape
       \/ ExternalShape \/ FeedbackShape \/ RegionShape
       \/ ControlShape \/ ProjectionShape
=============================================================================
