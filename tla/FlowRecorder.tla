---------------------------- MODULE FlowRecorder ----------------------------
(***************************************************************************)
(* Recording a flow program (libs/flow, detail/op_stream.hpp and           *)
(* op_stream.cpp).  Between flow::begin() and flow::end() the application   *)
(* calls resource, external, phi, project, construct, op, cutoff, discard,  *)
(* acquire, yield, feedback, if_ and while_ on the thread's OpStream.  A     *)
(* call that throws leaves the stream as it was, so the guards of an action  *)
(* are the conditions of its throws; the exception is if_, which checks its  *)
(* body after recording it (RejectIf).                                      *)
(*                                                                         *)
(* Resources, phis and ops are identified by their index from 1 on, 0 is    *)
(* "none"; an op's position in the stream, which phis and ifs refer to, is   *)
(* counted from 0 as in the code.  Types, labels, names, callbacks and       *)
(* metadata are left out, except for the side-effect flag of OpMetadata.     *)
(***************************************************************************)
EXTENDS Integers, Sequences, FiniteSets, SequencesExt

CONSTANTS
    MaxResources,     \* bound on the resources of a stream
    MaxOps,           \* bound on its operations
    MaxAccesses,      \* bound on the accesses of one op or constructor
    Modes,            \* the access modes used, out of AccessMode
    Calls,            \* the recording calls used, see CallNames
    Limits,           \* the values of FeedbackOptions::max_in_flight used
    MaxDepth,         \* bound on the nesting of if_ and while_
    NestProjections   \* whether a projection may be projected again

CallNames == {"resource", "external", "phi", "project", "overlap", "construct",
              "op", "serialize", "effect", "cutoff", "discard", "acquire",
              "yield", "if", "while"}

ASSUME RecorderAssumption ==
    /\ MaxResources \in Nat /\ MaxOps \in Nat /\ MaxAccesses \in Nat
    /\ Modes \subseteq {"read", "write", "read_write", "consume"}
    /\ Calls \subseteq CallNames
    /\ Limits \subseteq Nat \ {0}
    /\ MaxDepth \in Nat
    /\ NestProjections \in BOOLEAN

VARIABLES
    res,      \* m_resources: [kind, cons, owner, over], kind "owned" until cons is set
    defined,  \* m_defined: whether the resource has a value to read
    ops,      \* m_ops: [kind, acc, side, preds]
    phis,     \* m_phis: [out, init, fb, cond, pos, fbpos, mif, loop]
    ifs,      \* m_ifs: [cond, begin, alt, end]
    scopes    \* the bodies of if_ and while_ being recorded, outermost first

recVars == <<res, defined, ops, phis, ifs, scopes>>

(* ResourceInfo, PhiInfo, IfInfo and the Lowering's input. *)
Stream == [res |-> res, ops |-> ops, phis |-> phis, ifs |-> ifs]

NewResource(kind, owner, over) ==
    [kind |-> kind, cons |-> 0, owner |-> owner, over |-> over]

Arg(r, mode) == [r |-> r, mode |-> mode, ser |-> FALSE]

(* The access modes of two accesses conflict. *)
ModesConflict(a, b) == a.mode # "read" \/ b.mode # "read"

(* append(): the operations before this one with a conflicting access. *)
PredecessorsOf(acc, recorded) ==
    {i \in DOMAIN recorded :
        \E a \in ToSet(recorded[i].acc), b \in ToSet(acc) :
            a.r = b.r /\ ModesConflict(a, b)}

AppendOp(kind, acc, side) ==
    ops' = Append(ops, [kind |-> kind, acc |-> acc, side |-> side,
                        preds |-> PredecessorsOf(acc, ops)])

(* update_defined_resources() *)
DefinedAfter(acc) ==
    [r \in DOMAIN defined |->
        IF \E a \in ToSet(acc) : a.r = r /\ ~a.ser /\ a.mode # "read"
        THEN \E a \in ToSet(acc) : a.r = r /\ a.mode # "consume"
        ELSE defined[r]]

HasDefinition(r) == res[r].kind # "owned" \/ res[r].cons # 0

DescribableUndefined(a) == HasDefinition(a.r)

(* describe(): what an access needs of its resource. *)
Describable(a) ==
    HasDefinition(a.r) /\ (a.mode # "write" => defined[a.r])

(* while_ keeps the phi it records to itself. *)
Handles == {r \in DOMAIN res : \A p \in DOMAIN phis : phis[p].loop => phis[p].out # r}

(* The argument lists of an op: distinct resources, in the order of their  *)
(* ids, serialization accesses trailing.                                    *)
InOrder(limit) ==
    UNION {{q \in [1 .. n -> Handles] : \A i, j \in 1 .. n : i < j => q[i] < q[j]} :
             n \in 0 .. limit}

ArgumentLists(limit) ==
    LET Plain(q) == {[i \in DOMAIN q |-> Arg(q[i], m[i])] : m \in [DOMAIN q -> Modes]}
        Serial(q) == [i \in DOMAIN q |-> [r |-> q[i], mode |-> "read_write", ser |-> TRUE]]
        Serialized(q) == {z \in InOrder(limit - Len(q)) :
            /\ z # <<>> => "serialize" \in Calls
            /\ ToSet(z) \cap ToSet(q) = {}}
    IN UNION {UNION {{acc \o Serial(z) : acc \in Plain(q)} : z \in Serialized(q)} :
                q \in InOrder(limit)}

Arguments(limit) ==
    {acc \in ArgumentLists(limit) : \A a \in ToSet(acc) : Describable(a)}

MayRecord(call) == call \in Calls
RoomForOp == Len(ops) < MaxOps
RoomForResource == Len(res) < MaxResources

-----------------------------------------------------------------------------
RecInit ==
    /\ res = <<>> /\ defined = <<>> /\ ops = <<>>
    /\ phis = <<>> /\ ifs = <<>> /\ scopes = <<>>

Declare(kind, owner, over, value) ==
    /\ RoomForResource
    /\ res' = Append(res, NewResource(kind, owner, over))
    /\ defined' = Append(defined, value)

Resource ==
    /\ MayRecord("resource")
    /\ Declare("owned", 0, FALSE, FALSE)
    /\ UNCHANGED <<ops, phis, ifs, scopes>>

External ==
    /\ MayRecord("external")
    /\ Declare("external", 0, FALSE, TRUE)
    /\ UNCHANGED <<ops, phis, ifs, scopes>>

Project(owner, over) ==
    /\ MayRecord(IF over THEN "overlap" ELSE "project")
    /\ res[owner].kind = "projection" => NestProjections
    /\ Declare("projection", owner, over, TRUE)
    /\ UNCHANGED <<ops, phis, ifs, scopes>>

NewPhi(init, loop) ==
    [out |-> Len(res) + 1, init |-> init, fb |-> 0, cond |-> 0,
     pos |-> Len(ops), fbpos |-> -1, mif |-> 2, loop |-> loop]

(* phi(): the initial value is not a projection and has a value. *)
PhiAllowed(init) ==
    HasDefinition(init) /\ res[init].kind # "projection" /\ defined[init]

Phi(init) ==
    /\ MayRecord("phi")
    /\ PhiAllowed(init)
    /\ Declare("phi", 0, FALSE, TRUE)
    /\ phis' = Append(phis, NewPhi(init, FALSE))
    /\ UNCHANGED <<ops, ifs, scopes>>

FeedbackUnplaced(p, value, mif) ==
    /\ PhiAllowed(value)
    /\ phis[p].fb = 0 /\ ~phis[p].loop
    /\ phis' = [phis EXCEPT ![p] = [@ EXCEPT !.fb = value, !.mif = mif]]
    /\ UNCHANGED <<res, defined, ops, ifs, scopes>>

Feedback(p, value, mif) ==
    /\ PhiAllowed(value)
    /\ phis[p].fb = 0 /\ ~phis[p].loop
    /\ phis' = [phis EXCEPT ![p] = [@ EXCEPT !.fb = value, !.fbpos = Len(ops), !.mif = mif]]
    /\ UNCHANGED <<res, defined, ops, ifs, scopes>>

(* construct(): a projection passes validate_construction(), and is then    *)
(* refused by validate() as a resource with two definitions.                *)
Construct(r, inputs) ==
    /\ MayRecord("construct") /\ RoomForOp
    /\ res[r].kind \in {"owned", "projection"}
    /\ res[r].cons = 0
    /\ \A a \in ToSet(inputs) : a.r # r
    /\ LET acc == <<Arg(r, "write")>> \o inputs
       IN AppendOp("construct", acc, FALSE) /\ defined' = DefinedAfter(acc)
    /\ res' = [res EXCEPT ![r].cons = Len(ops) + 1]
    /\ UNCHANGED <<phis, ifs, scopes>>

Op(acc, side) ==
    /\ MayRecord("op") /\ (side => MayRecord("effect")) /\ RoomForOp
    /\ AppendOp("callback", acc, side)
    /\ defined' = DefinedAfter(acc)
    /\ UNCHANGED <<res, phis, ifs, scopes>>

Cutoff(input) ==
    /\ MayRecord("cutoff") /\ RoomForOp
    /\ defined[input]
    /\ Declare("cutoff", 0, FALSE, TRUE)
    /\ AppendOp("cutoff", <<Arg(input, "read"), Arg(Len(res) + 1, "write")>>, FALSE)
    /\ UNCHANGED <<phis, ifs, scopes>>

Discard(r) ==
    /\ MayRecord("discard") /\ RoomForOp
    /\ res[r].kind # "external" /\ defined[r]
    /\ AppendOp("discard", <<Arg(r, "write")>>, FALSE)
    /\ defined' = [defined EXCEPT ![r] = FALSE]
    /\ UNCHANGED <<res, phis, ifs, scopes>>

Boundary(kind) ==
    /\ MayRecord(kind) /\ RoomForOp
    /\ AppendOp(kind, <<>>, FALSE)
    /\ UNCHANGED <<res, defined, phis, ifs, scopes>>

-----------------------------------------------------------------------------
(* if_ and while_ record their bodies through callbacks, so their scopes    *)
(* nest.                                                                    *)
Enter(scope) == scopes' = Append(scopes, scope)
Leave == scopes' = Front(scopes)

BeginWhile(cond) ==
    /\ MayRecord("while") /\ Len(scopes) < MaxDepth
    /\ PhiAllowed(cond)
    /\ Declare("phi", 0, FALSE, TRUE)
    /\ phis' = Append(phis, NewPhi(cond, TRUE))
    /\ Enter([kind |-> "while", cond |-> cond, phi |-> Len(phis) + 1,
              begin |-> Len(ops), alt |-> 0])
    /\ UNCHANGED <<ops, ifs>>

(* The loop's phi takes the condition's resource as its feedback, without   *)
(* asking whether it still has a value.                                     *)
EndWhile ==
    /\ scopes # <<>> /\ Last(scopes).kind = "while"
    /\ LET s == Last(scopes)
       IN phis' = [phis EXCEPT ![s.phi] =
                    [@ EXCEPT !.fb = s.cond, !.cond = s.cond,
                              !.fbpos = Len(ops), !.mif = 1]]
    /\ Leave
    /\ UNCHANGED <<res, defined, ops, ifs>>

BeginIf(cond) ==
    /\ MayRecord("if") /\ Len(scopes) < MaxDepth
    /\ defined[cond]
    /\ Enter([kind |-> "then", cond |-> cond, phi |-> 0,
              begin |-> Len(ops), alt |-> 0])
    /\ UNCHANGED <<res, defined, ops, phis, ifs>>

BeginElse ==
    /\ scopes # <<>> /\ Last(scopes).kind = "then"
    /\ scopes' = [scopes EXCEPT ![Len(scopes)] =
                    [@ EXCEPT !.kind = "else", !.alt = Len(ops)]]
    /\ UNCHANGED <<res, defined, ops, phis, ifs>>

(* What if_ refuses in its body. *)
BodyAllowed(begin) ==
    /\ begin < Len(ops)
    /\ \A i \in begin + 1 .. Len(ops) :
        /\ ops[i].kind \in {"callback", "cutoff"}
        /\ \A a \in ToSet(ops[i].acc) : a.mode # "consume"

EndIf ==
    /\ scopes # <<>> /\ Last(scopes).kind = "else"
    /\ BodyAllowed(Last(scopes).begin)
    /\ ifs' = Append(ifs, [cond |-> Last(scopes).cond, begin |-> Last(scopes).begin,
                           alt |-> Last(scopes).alt, end |-> Len(ops)])
    /\ Leave
    /\ UNCHANGED <<res, defined, ops, phis>>

(* if_ throws after its bodies are recorded: the operations stay in the     *)
(* stream, unconditional, and the calls the exception passes through end.   *)
RejectIf ==
    /\ scopes # <<>> /\ Last(scopes).kind = "else"
    /\ ~BodyAllowed(Last(scopes).begin)
    /\ \E depth \in 0 .. Len(scopes) - 1 : scopes' = SubSeq(scopes, 1, depth)
    /\ UNCHANGED <<res, defined, ops, phis, ifs>>

RecNext ==
    \/ Resource
    \/ External
    \/ \E o \in Handles, over \in BOOLEAN : Project(o, over)
    \/ \E r \in Handles : Phi(r)
    \/ \E p \in DOMAIN phis, r \in Handles, mif \in Limits : Feedback(p, r, mif)
    \/ \E r \in Handles : \E acc \in Arguments(MaxAccesses - 1) : Construct(r, acc)
    \/ \E acc \in Arguments(MaxAccesses), side \in BOOLEAN : Op(acc, side)
    \/ \E r \in Handles : Cutoff(r)
    \/ \E r \in Handles : Discard(r)
    \/ \E kind \in {"acquire", "yield"} : Boundary(kind)
    \/ \E r \in Handles : BeginWhile(r)
    \/ EndWhile
    \/ \E r \in Handles : BeginIf(r)
    \/ BeginElse
    \/ EndIf
    \/ RejectIf

-----------------------------------------------------------------------------
(* OpStream::validate(), called by flow::end().  What no sequence of calls  *)
(* can break (ranges, index links, one construction per output) is left to   *)
(* the type invariant.                                                      *)
Valid(s) ==
    /\ \A r \in DOMAIN s.res :
        /\ s.res[r].kind = "owned" => s.res[r].cons # 0
        /\ s.res[r].kind = "projection" => s.res[r].cons = 0
    /\ \A p \in DOMAIN s.phis : s.phis[p].fb # 0
    /\ \A i \in DOMAIN s.ops : \A j \in s.ops[i].preds : j < i

RecTypeOK ==
    /\ Len(defined) = Len(res)
    /\ \A r \in DOMAIN res :
        /\ res[r].kind \in {"owned", "external", "phi", "cutoff", "projection"}
        /\ res[r].cons \in 0 .. Len(ops)
        /\ res[r].cons # 0 => ops[res[r].cons].kind = "construct"
        /\ defined[r] \in BOOLEAN
    /\ \A i \in DOMAIN ops : \A a \in ToSet(ops[i].acc) : a.r \in DOMAIN res
    /\ \A p \in DOMAIN phis :
        /\ res[phis[p].out].kind = "phi"
        /\ phis[p].pos \in 0 .. Len(ops)
        /\ phis[p].fb # 0 => phis[p].fbpos \in phis[p].pos .. Len(ops)
    /\ \A b \in DOMAIN ifs :
        /\ ifs[b].begin <= ifs[b].alt /\ ifs[b].alt <= ifs[b].end
        /\ ifs[b].end <= Len(ops)
=============================================================================
