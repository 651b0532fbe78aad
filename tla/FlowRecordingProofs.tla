------------------------ MODULE FlowRecordingProofs ------------------------
(***************************************************************************)
(* Proofs about the flow compiler, continued: what the recorder lets through *)
(* compiles, for recordings of any length.  First what the recorder          *)
(* promises of the values an operation uses, then the walk of                *)
(* lower_values() over such a recording, then the jobs of a region.          *)
(***************************************************************************)
EXTENDS FlowCompilerProofs

-----------------------------------------------------------------------------
(* What the recorder knows of values.  After the first k operations and the  *)
(* declarations in full, a resource holds a value when the last operation    *)
(* that changed it left one, or when none did and it was declared with one.  *)
SetsValue(op, r) ==
    \E j \in 1 .. Len(op.acc) :
        /\ op.acc[j].r = r /\ ~op.acc[j].ser
        /\ op.kind = "discard" \/ op.acc[j].mode # "read"

LeavesValue(op, r) ==
    /\ op.kind # "discard"
    /\ \E j \in 1 .. Len(op.acc) :
          op.acc[j].r = r /\ ~op.acc[j].ser /\ op.acc[j].mode \in {"write", "read_write"}

DeclaredFull(rs, ps, P) ==
    {r \in 1 .. Len(rs) :
        rs[r].kind \in {"external", "projection"} \/ \E p \in P : ps[p].out = r}

Holds(os, full, k, r) ==
    \/ r \in full /\ \A i \in 1 .. k : ~SetsValue(os[i], r)
    \/ \E i \in 1 .. k : LeavesValue(os[i], r) /\ \A l \in i + 1 .. k : ~SetsValue(os[l], r)

PhisUpTo(ps, k) == {p \in 1 .. Len(ps) : ps[p].pos <= k}

(* An operation reads what is there, and names a resource once.            *)
OpFed(rs, os, ps, i) ==
    /\ \A j, l \in 1 .. Len(os[i].acc) : os[i].acc[j].r = os[i].acc[l].r => j = l
    /\ os[i].kind # "discard" =>
         \A j \in 1 .. Len(os[i].acc) :
            (~os[i].acc[j].ser /\ os[i].acc[j].mode # "write") =>
                Holds(os, DeclaredFull(rs, ps, PhisUpTo(ps, i - 1)), i - 1, os[i].acc[j].r)

CondFed(rs, os, ps, k, r) == Holds(os, DeclaredFull(rs, ps, PhisUpTo(ps, k)), k, r)

(* A phi's initial value is there before it, its feedback where it is given. *)
PhiFed(rs, os, ps, p) ==
    /\ Holds(os, DeclaredFull(rs, ps, 1 .. p - 1), ps[p].pos, ps[p].init)
    /\ \A q \in 1 .. p - 1 : ps[q].pos <= ps[p].pos
    /\ ~ps[p].loop => ps[p].cond = 0
    /\ ~ps[p].loop /\ ps[p].fb # 0 => CondFed(rs, os, ps, ps[p].fbpos, ps[p].fb)

ScopeFed(rs, os, ps, ss, s) ==
    IF ss[s].kind = "while" THEN ps[ss[s].phi].loop
    ELSE CondFed(rs, os, ps, ss[s].begin, ss[s].cond)

HoldsNow(rs, os, ps, r) == Holds(os, DeclaredFull(rs, ps, 1 .. Len(ps)), Len(os), r)

ValueInv ==
    /\ \A r \in 1 .. Len(res) : defined[r] => HoldsNow(res, ops, phis, r)
    /\ \A i \in 1 .. Len(ops) : OpFed(res, ops, phis, i)
    /\ \A p \in 1 .. Len(phis) : PhiFed(res, ops, phis, p)
    /\ \A b \in 1 .. Len(ifs) : CondFed(res, ops, phis, ifs[b].begin, ifs[b].cond)
    /\ \A s \in 1 .. Len(scopes) : ScopeFed(res, ops, phis, scopes, s)

(* One more operation.                                                     *)
LEMMA HoldsNext ==
    ASSUME NEW os, NEW full, NEW k \in Nat, NEW r
    PROVE  /\ Holds(os, full, k + 1, r) =>
                LeavesValue(os[k + 1], r) \/ (~SetsValue(os[k + 1], r) /\ Holds(os, full, k, r))
           /\ LeavesValue(os[k + 1], r) => Holds(os, full, k + 1, r)
           /\ ~SetsValue(os[k + 1], r) /\ Holds(os, full, k, r) => Holds(os, full, k + 1, r)
<1>1. ASSUME Holds(os, full, k + 1, r), ~LeavesValue(os[k + 1], r)
      PROVE  ~SetsValue(os[k + 1], r) /\ Holds(os, full, k, r)
  <2>1. CASE r \in full /\ \A i \in 1 .. k + 1 : ~SetsValue(os[i], r)
    BY <2>1 DEF Holds
  <2>2. CASE \E i \in 1 .. k + 1 : /\ LeavesValue(os[i], r)
                                   /\ \A l \in i + 1 .. k + 1 : ~SetsValue(os[l], r)
    <3>1. PICK i \in 1 .. k + 1 : /\ LeavesValue(os[i], r)
                                  /\ \A l \in i + 1 .. k + 1 : ~SetsValue(os[l], r)
      BY <2>2
    <3>2. i # k + 1
      BY <1>1, <3>1
    <3>3. i \in 1 .. k /\ k + 1 \in i + 1 .. k + 1
      BY <3>2
    <3> QED
      BY <3>1, <3>3 DEF Holds
  <2> QED
    BY <1>1, <2>1, <2>2 DEF Holds
<1>2. ASSUME LeavesValue(os[k + 1], r) PROVE Holds(os, full, k + 1, r)
  <2>1. k + 1 \in 1 .. k + 1 /\ (k + 1) + 1 .. k + 1 = {}
    OBVIOUS
  <2> QED
    BY <1>2, <2>1 DEF Holds
<1>3. ASSUME ~SetsValue(os[k + 1], r), Holds(os, full, k, r) PROVE Holds(os, full, k + 1, r)
  <2>0. \A i \in 1 .. k + 1 : i \in 1 .. k \/ i = k + 1
    OBVIOUS
  <2>1. CASE r \in full /\ \A i \in 1 .. k : ~SetsValue(os[i], r)
    BY <1>3, <2>0, <2>1 DEF Holds
  <2>2. CASE \E i \in 1 .. k : /\ LeavesValue(os[i], r)
                               /\ \A l \in i + 1 .. k : ~SetsValue(os[l], r)
    <3>1. PICK i \in 1 .. k : LeavesValue(os[i], r) /\ \A l \in i + 1 .. k : ~SetsValue(os[l], r)
      BY <2>2
    <3>2. \A l \in i + 1 .. k + 1 : l \in i + 1 .. k \/ l = k + 1
      OBVIOUS
    <3>3. i \in 1 .. k + 1 /\ \A l \in i + 1 .. k + 1 : ~SetsValue(os[l], r)
      BY <1>3, <3>1, <3>2
    <3> QED
      BY <3>1, <3>3 DEF Holds
  <2> QED
    BY <1>3, <2>1, <2>2 DEF Holds
<1> QED
  BY <1>1, <1>2, <1>3

(* A stream that grows keeps what its resources held.                      *)
StreamGrows(rs, os, ps, rs2, os2, ps2) ==
    /\ Grown(rs, os, ps, rs2, os2, ps2)
    /\ \A p \in 1 .. Len(ps) :
          /\ ps2[p].out = ps[p].out /\ ps2[p].init = ps[p].init
          /\ ps2[p].pos = ps[p].pos /\ ps2[p].loop = ps[p].loop

LEMMA HoldsStays ==
    ASSUME NEW rs \in Seq(ResourceSet), NEW os \in Seq(OpSet), NEW ps \in Seq(PhiSet),
           NEW rs2 \in Seq(ResourceSet), NEW os2 \in Seq(OpSet), NEW ps2 \in Seq(PhiSet),
           StreamGrows(rs, os, ps, rs2, os2, ps2),
           NEW P \in SUBSET (1 .. Len(ps)), NEW P2, P \subseteq P2,
           NEW k \in Nat, k <= Len(os), NEW r, Holds(os, DeclaredFull(rs, ps, P), k, r)
    PROVE  Holds(os2, DeclaredFull(rs2, ps2, P2), k, r)
<1>1. /\ Len(rs) \in Nat /\ Len(rs2) \in Nat /\ Len(rs) <= Len(rs2) /\ Len(os) \in Nat
      /\ \A x \in 1 .. Len(rs) : rs2[x].kind = rs[x].kind
      /\ \A i \in 1 .. Len(os) : os2[i] = os[i]
      /\ \A p \in 1 .. Len(ps) : ps2[p].out = ps[p].out
  BY DEF StreamGrows, Grown
<1>2. DeclaredFull(rs, ps, P) \subseteq DeclaredFull(rs2, ps2, P2)
  <2>1. \A p \in P : p \in P2 /\ ps2[p].out = ps[p].out
    BY <1>1
  <2>2. \A x \in 1 .. Len(rs) : x \in 1 .. Len(rs2)
    BY <1>1
  <2> HIDE DEF StreamGrows
  <2> QED
    BY <1>1, <2>1, <2>2, Zenon DEF DeclaredFull
<1>3. \A i \in 1 .. k : os2[i] = os[i]
  <2>1. \A i \in 1 .. k : i \in 1 .. Len(os)
    BY <1>1
  <2> QED
    BY <1>1, <2>1, Zenon
<1>4. CASE r \in DeclaredFull(rs, ps, P) /\ \A i \in 1 .. k : ~SetsValue(os[i], r)
  <2> HIDE DEF DeclaredFull
  <2> QED
    BY <1>2, <1>3, <1>4 DEF Holds
<1>5. CASE \E i \in 1 .. k : LeavesValue(os[i], r) /\ \A l \in i + 1 .. k : ~SetsValue(os[l], r)
  <2>1. PICK i \in 1 .. k : LeavesValue(os[i], r) /\ \A l \in i + 1 .. k : ~SetsValue(os[l], r)
    BY <1>5
  <2>2. LeavesValue(os2[i], r) /\ \A l \in i + 1 .. k : l \in 1 .. k /\ ~SetsValue(os2[l], r)
    BY <1>3, <2>1
  <2> QED
    BY <2>2 DEF Holds
<1> QED
  BY <1>4, <1>5 DEF Holds

LEMMA FedStays ==
    ASSUME NEW rs \in Seq(ResourceSet), NEW os \in Seq(OpSet), NEW ps \in Seq(PhiSet),
           NEW rs2 \in Seq(ResourceSet), NEW os2 \in Seq(OpSet), NEW ps2 \in Seq(PhiSet),
           StreamGrows(rs, os, ps, rs2, os2, ps2)
    PROVE  /\ \A k \in Nat : \A r :
                k <= Len(os) /\ CondFed(rs, os, ps, k, r) => CondFed(rs2, os2, ps2, k, r)
           /\ \A i \in 1 .. Len(os) : OpFed(rs, os, ps, i) => OpFed(rs2, os2, ps2, i)
           /\ \A p \in 1 .. Len(ps) :
                PhiLinks(rs, os, ps, p) /\ PhiFed(rs, os, ps, p) /\ ps2[p] = ps[p] =>
                    PhiFed(rs2, os2, ps2, p)
           /\ \A r : Holds(os, DeclaredFull(rs, ps, 1 .. Len(ps)), Len(os), r) =>
                /\ Holds(os2, DeclaredFull(rs2, ps2, 1 .. Len(ps)), Len(os), r)
                /\ Holds(os2, DeclaredFull(rs2, ps2, 1 .. Len(ps2)), Len(os), r)
<1>1. /\ Len(os) \in Nat /\ Len(os2) \in Nat /\ Len(ps) \in Nat /\ Len(ps2) \in Nat
      /\ Len(ps) <= Len(ps2) /\ Len(os) <= Len(os2)
      /\ \A i \in 1 .. Len(os) : os2[i] = os[i]
      /\ \A p \in 1 .. Len(ps) :
          /\ ps2[p].out = ps[p].out /\ ps2[p].init = ps[p].init
          /\ ps2[p].pos = ps[p].pos /\ ps2[p].loop = ps[p].loop
  <2>1. /\ Grown(rs, os, ps, rs2, os2, ps2)
        /\ \A p \in 1 .. Len(ps) :
              /\ ps2[p].out = ps[p].out /\ ps2[p].init = ps[p].init
              /\ ps2[p].pos = ps[p].pos /\ ps2[p].loop = ps[p].loop
    BY Zenon DEF StreamGrows
  <2>2. Len(os) \in Nat /\ Len(os2) \in Nat /\ Len(ps) \in Nat /\ Len(ps2) \in Nat
    OBVIOUS
  <2>3. /\ Len(ps) <= Len(ps2) /\ Len(os) <= Len(os2)
        /\ \A i \in 1 .. Len(os) : os2[i] = os[i]
    BY <2>1 DEF Grown
  <2> QED
    BY <2>1, <2>2, <2>3, Zenon
<1>7. ASSUME NEW P \in SUBSET (1 .. Len(ps)), NEW P2, P \subseteq P2,
             NEW k \in Nat, k <= Len(os), NEW r, Holds(os, DeclaredFull(rs, ps, P), k, r)
      PROVE  Holds(os2, DeclaredFull(rs2, ps2, P2), k, r)
  BY <1>7, HoldsStays, SMTT(60)
<1>2. \A k : PhisUpTo(ps, k) \in SUBSET (1 .. Len(ps)) /\ PhisUpTo(ps, k) \subseteq PhisUpTo(ps2, k)
  BY <1>1 DEF PhisUpTo
<1>3. ASSUME NEW k \in Nat, NEW r, k <= Len(os), CondFed(rs, os, ps, k, r)
      PROVE  CondFed(rs2, os2, ps2, k, r)
  <2> DEFINE P  == PhisUpTo(ps, k)
             P2 == PhisUpTo(ps2, k)
  <2>1. P \in SUBSET (1 .. Len(ps)) /\ P \subseteq P2 /\ Holds(os, DeclaredFull(rs, ps, P), k, r)
    BY <1>2, <1>3 DEF CondFed
  <2> HIDE DEF P, P2
  <2>2. Holds(os2, DeclaredFull(rs2, ps2, P2), k, r)
    <3>1. k <= Len(os)
      BY <1>3
    <3> QED
      BY <1>7, <2>1, <3>1, SMTT(60)
  <2> QED
    BY <2>2 DEF CondFed, P2
<1>4. ASSUME NEW i \in 1 .. Len(os), OpFed(rs, os, ps, i) PROVE OpFed(rs2, os2, ps2, i)
  <2>1. os2[i] = os[i] /\ i - 1 \in Nat /\ i - 1 <= Len(os)
    BY <1>1
  <2>2. \A r : Holds(os, DeclaredFull(rs, ps, PhisUpTo(ps, i - 1)), i - 1, r) =>
               Holds(os2, DeclaredFull(rs2, ps2, PhisUpTo(ps2, i - 1)), i - 1, r)
    <3> TAKE r
    <3> DEFINE k == i - 1
    <3>1. k \in Nat /\ k <= Len(os)
      BY <2>1
    <3> HIDE DEF k
    <3> QED
      BY <1>3, <3>1 DEF CondFed, k
  <2> QED
    BY <1>4, <2>1, <2>2 DEF OpFed
<1>5. ASSUME NEW p \in 1 .. Len(ps), PhiLinks(rs, os, ps, p), PhiFed(rs, os, ps, p), ps2[p] = ps[p]
      PROVE  PhiFed(rs2, os2, ps2, p)
  <2>1. ps[p] \in PhiSet
    OBVIOUS
  <2>2. /\ ps[p].pos \in Nat /\ ps[p].fbpos \in Int
        /\ ps[p].pos <= Len(os) /\ (ps[p].fb # 0 => ps[p].pos <= ps[p].fbpos /\ ps[p].fbpos <= Len(os))
    BY <1>5, <2>1 DEF PhiSet, PhiLinks
  <2>3. Holds(os2, DeclaredFull(rs2, ps2, 1 .. p - 1), ps[p].pos, ps[p].init)
    <3>1. 1 .. p - 1 \in SUBSET (1 .. Len(ps)) /\ 1 .. p - 1 \subseteq 1 .. p - 1
      BY <1>1
    <3>2. Holds(os, DeclaredFull(rs, ps, 1 .. p - 1), ps[p].pos, ps[p].init)
      BY <1>5 DEF PhiFed
    <3> DEFINE P == 1 .. p - 1
               k == ps[p].pos
               r == ps[p].init
    <3>3. P \in SUBSET (1 .. Len(ps)) /\ P \subseteq P /\ k \in Nat /\ k <= Len(os)
      BY <2>2, <3>1
    <3>4. Holds(os, DeclaredFull(rs, ps, P), k, r)
      BY <3>2
    <3> HIDE DEF P, k, r
    <3>5. Holds(os2, DeclaredFull(rs2, ps2, P), k, r)
      BY <1>7, <3>3, <3>4
    <3> QED
      BY <3>5 DEF P, k, r
  <2>4. \A q \in 1 .. p - 1 : ps2[q].pos <= ps2[p].pos
    <3>1. \A q \in 1 .. p - 1 : q \in 1 .. Len(ps)
      BY <1>1
    <3>2. \A q \in 1 .. p - 1 : ps[q].pos <= ps[p].pos
      BY <1>5 DEF PhiFed
    <3> QED
      BY <1>1, <1>5, <3>1, <3>2
  <2>5. ~ps[p].loop /\ ps[p].fb # 0 => CondFed(rs2, os2, ps2, ps[p].fbpos, ps[p].fb)
    <3> SUFFICES ASSUME ~ps[p].loop, ps[p].fb # 0 PROVE CondFed(rs2, os2, ps2, ps[p].fbpos, ps[p].fb)
      OBVIOUS
    <3>1. CondFed(rs, os, ps, ps[p].fbpos, ps[p].fb)
      BY <1>5 DEF PhiFed
    <3>2. ps[p].fbpos \in Nat /\ ps[p].fbpos <= Len(os)
      BY <2>2
    <3> QED
      BY <1>3, <3>1, <3>2
  <2>6. ~ps[p].loop => ps[p].cond = 0
    BY <1>5 DEF PhiFed
  <2> QED
    BY <1>5, <2>3, <2>4, <2>5, <2>6 DEF PhiFed
<1>6. ASSUME NEW r, Holds(os, DeclaredFull(rs, ps, 1 .. Len(ps)), Len(os), r)
      PROVE  /\ Holds(os2, DeclaredFull(rs2, ps2, 1 .. Len(ps)), Len(os), r)
             /\ Holds(os2, DeclaredFull(rs2, ps2, 1 .. Len(ps2)), Len(os), r)
  <2> DEFINE P  == 1 .. Len(ps)
             P2 == 1 .. Len(ps2)
             k  == Len(os)
  <2>1. P \in SUBSET (1 .. Len(ps)) /\ P \subseteq P2 /\ P \subseteq P /\ k \in Nat /\ k <= Len(os)
        /\ Holds(os, DeclaredFull(rs, ps, P), k, r)
    BY <1>1, <1>6
  <2> HIDE DEF P, P2, k
  <2>2. Holds(os2, DeclaredFull(rs2, ps2, P), k, r)
    BY <1>7, <2>1, SMTT(60)
  <2>3. Holds(os2, DeclaredFull(rs2, ps2, P2), k, r)
    BY <1>7, <2>1, SMTT(60)
  <2> QED
    BY <2>2, <2>3 DEF P, P2, k
<1> QED
  BY <1>3, <1>4, <1>5, <1>6

LEMMA ValueStep ==
    ASSUME RecInv, RecInv', ValueInv, StreamGrows(res, ops, phis, res', ops', phis'),
           \A r \in 1 .. Len(res') : defined'[r] =>
              (r \in 1 .. Len(res) /\ defined[r] /\ ops' = ops) \/ HoldsNow(res', ops', phis', r),
           \A i \in 1 .. Len(ops') : i \in 1 .. Len(ops) \/ OpFed(res', ops', phis', i),
           \A p \in 1 .. Len(phis') :
              (p \in 1 .. Len(phis) /\ phis'[p] = phis[p]) \/ PhiFed(res', ops', phis', p),
           \A b \in 1 .. Len(ifs') :
              \/ b \in 1 .. Len(ifs) /\ ifs'[b] = ifs[b]
              \/ CondFed(res', ops', phis', ifs'[b].begin, ifs'[b].cond),
           \A s \in 1 .. Len(scopes') :
              (s \in 1 .. Len(scopes) /\ scopes'[s] = scopes[s])
                 \/ ScopeFed(res', ops', phis', scopes', s)
    PROVE  ValueInv'
<1>1. /\ res \in Seq(ResourceSet) /\ ops \in Seq(OpSet) /\ phis \in Seq(PhiSet)
      /\ res' \in Seq(ResourceSet) /\ ops' \in Seq(OpSet) /\ phis' \in Seq(PhiSet)
      /\ ifs \in Seq(IfSet) /\ scopes \in Seq(ScopeSet) /\ Len(ops) \in Nat /\ Len(phis) \in Nat
  BY DEF RecInv, RecTypes
<1>2. /\ \A k \in Nat : \A r :
            k <= Len(ops) /\ CondFed(res, ops, phis, k, r) => CondFed(res', ops', phis', k, r)
      /\ \A i \in 1 .. Len(ops) : OpFed(res, ops, phis, i) => OpFed(res', ops', phis', i)
      /\ \A p \in 1 .. Len(phis) :
            PhiLinks(res, ops, phis, p) /\ PhiFed(res, ops, phis, p) /\ phis'[p] = phis[p] =>
                PhiFed(res', ops', phis', p)
      /\ \A r : Holds(ops, DeclaredFull(res, phis, 1 .. Len(phis)), Len(ops), r) =>
           Holds(ops', DeclaredFull(res', phis', 1 .. Len(phis')), Len(ops), r)
  BY <1>1, FedStays
<1>3. ASSUME NEW r \in 1 .. Len(res'), defined'[r] PROVE HoldsNow(res', ops', phis', r)
  <2> SUFFICES ASSUME r \in 1 .. Len(res), defined[r], ops' = ops PROVE HoldsNow(res', ops', phis', r)
    BY <1>3
  <2>1. HoldsNow(res, ops, phis, r)
    BY DEF ValueInv
  <2>2. Len(phis) <= Len(phis') /\ Len(phis') \in Nat /\ Len(ops') = Len(ops)
    BY <1>1 DEF StreamGrows, Grown
  <2>4. Holds(ops, DeclaredFull(res, phis, 1 .. Len(phis)), Len(ops), r)
    BY <2>1 DEF HoldsNow
  <2>5. Holds(ops', DeclaredFull(res', phis', 1 .. Len(phis')), Len(ops), r)
    BY <1>2, <2>4
  <2> QED
    BY <2>2, <2>5 DEF HoldsNow
<1>4. \A i \in 1 .. Len(ops') : OpFed(res', ops', phis', i)
  BY <1>2 DEF ValueInv
<1>5. \A p \in 1 .. Len(phis') : PhiFed(res', ops', phis', p)
  BY <1>2 DEF ValueInv, RecInv, RecLinks
<1>6. ASSUME NEW b \in 1 .. Len(ifs') PROVE CondFed(res', ops', phis', ifs'[b].begin, ifs'[b].cond)
  <2> SUFFICES ASSUME b \in 1 .. Len(ifs), ifs'[b] = ifs[b]
               PROVE  CondFed(res', ops', phis', ifs[b].begin, ifs[b].cond)
    BY <1>6
  <2>1. ifs[b] \in IfSet /\ IfLinks(res, ops, ifs, b)
    BY <1>1 DEF RecInv, RecLinks
  <2>2. ifs[b].begin \in Nat /\ ifs[b].begin <= Len(ops)
    <3>1. ifs[b].begin \in Nat /\ ifs[b].alt \in Nat /\ ifs[b].end \in Nat
      BY <2>1 DEF IfSet
    <3>2. ifs[b].begin <= ifs[b].alt /\ ifs[b].alt <= ifs[b].end /\ ifs[b].end <= Len(ops)
      BY <2>1 DEF IfLinks
    <3> QED
      BY <1>1, <3>1, <3>2
  <2>3. CondFed(res, ops, phis, ifs[b].begin, ifs[b].cond)
    BY DEF ValueInv
  <2> QED
    BY <1>2, <2>2, <2>3
<1>7. ASSUME NEW s \in 1 .. Len(scopes') PROVE ScopeFed(res', ops', phis', scopes', s)
  <2> SUFFICES ASSUME s \in 1 .. Len(scopes), scopes'[s] = scopes[s]
               PROVE  ScopeFed(res', ops', phis', scopes', s)
    BY <1>7
  <2>1. scopes[s] \in ScopeSet /\ ScopeLinks(res, ops, phis, scopes, s)
    BY <1>1 DEF RecInv, RecLinks
  <2>2. ScopeFed(res, ops, phis, scopes, s)
    BY DEF ValueInv
  <2>3. CASE scopes[s].kind = "while"
    <3>1. scopes[s].phi \in 1 .. Len(phis) /\ phis[scopes[s].phi].loop
      BY <2>1, <2>2, <2>3 DEF ScopeLinks, ScopeFed
    <3>2. phis'[scopes[s].phi].loop = phis[scopes[s].phi].loop
      BY <3>1 DEF StreamGrows
    <3> QED
      BY <2>3, <3>1, <3>2 DEF ScopeFed
  <2>4. CASE scopes[s].kind # "while"
    <3>1. CondFed(res, ops, phis, scopes[s].begin, scopes[s].cond)
      BY <2>2, <2>4 DEF ScopeFed
    <3>2. scopes[s].begin \in Nat /\ scopes[s].begin <= Len(ops)
      BY <2>1 DEF ScopeSet, ScopeLinks
    <3>3. CondFed(res', ops', phis', scopes[s].begin, scopes[s].cond)
      BY <1>2, <3>1, <3>2
    <3> QED
      BY <2>4, <3>3 DEF ScopeFed
  <2> QED
    BY <2>3, <2>4
<1> QED
  BY <1>3, <1>4, <1>5, <1>6, <1>7 DEF ValueInv

(* A step that leaves operations and phis alone grows the stream.          *)
LEMMA SameGrows ==
    ASSUME RecInv, UNCHANGED <<ops, phis>>, Grown(res, ops, phis, res', ops', phis')
    PROVE  StreamGrows(res, ops, phis, res', ops', phis')
BY DEF StreamGrows

(* A phi and a feedback may be recorded for what holds a value now.        *)
LEMMA NowFed ==
    ASSUME RecInv, ValueInv, NEW r \in 1 .. Len(res), defined[r]
    PROVE  CondFed(res, ops, phis, Len(ops), r)
<1>1. HoldsNow(res, ops, phis, r)
  BY DEF ValueInv
<1>2. PhisUpTo(phis, Len(ops)) = 1 .. Len(phis)
  BY DEF RecInv, RecLinks, PhiLinks, PhisUpTo
<1> QED
  BY <1>1, <1>2 DEF CondFed, HoldsNow

(* What is declared with a value has one: no operation has named it.       *)
LEMMA FreshHolds ==
    ASSUME NEW rs, NEW os, NEW ps, NEW R \in Nat, NEW N, R + 1 \in N, N = 1 .. Len(rs),
           \A i \in 1 .. Len(os) : \A j \in 1 .. Len(os[i].acc) : os[i].acc[j].r \in 1 .. R,
           \/ rs[R + 1].kind \in {"external", "projection"}
           \/ \E p \in 1 .. Len(ps) : ps[p].out = R + 1
    PROVE  HoldsNow(rs, os, ps, R + 1)
<1>1. R + 1 \in DeclaredFull(rs, ps, 1 .. Len(ps))
  BY DEF DeclaredFull
<1>2. \A i \in 1 .. Len(os) : ~SetsValue(os[i], R + 1)
  BY DEF SetsValue
<1> HIDE DEF DeclaredFull
<1> QED
  BY <1>1, <1>2 DEF HoldsNow, Holds

LEMMA DeclareFed ==
    ASSUME RecInv, RecInv', ValueInv, NEW kind \in ResourceKinds, NEW owner \in Nat,
           NEW over \in BOOLEAN, NEW value \in BOOLEAN, Declare(kind, owner, over, value),
           value => kind \in {"external", "projection"},
           UNCHANGED <<ops, phis, ifs, scopes>>
    PROVE  ValueInv'
<1>1. /\ res' \in Seq(ResourceSet) /\ defined' \in Seq(BOOLEAN)
      /\ Len(defined') = Len(res') /\ Len(res') = Len(res) + 1 /\ Len(res) \in Nat
      /\ res'[Len(res) + 1] = NewResource(kind, owner, over)
      /\ \A r \in 1 .. Len(res) : res'[r] = res[r]
      /\ \A r \in 1 .. Len(res') : r \in 1 .. Len(res) \/ r = Len(res) + 1
  BY DeclareFacts
<1>2. /\ defined \in Seq(BOOLEAN) /\ Len(defined) = Len(res) /\ defined' = Append(defined, value)
      /\ Len(ops) \in Nat /\ Len(phis) \in Nat
  BY DEF RecInv, RecTypes, RecLinks, Declare
<1>3. defined'[Len(res) + 1] = value /\ \A r \in 1 .. Len(res) : defined'[r] = defined[r]
  BY <1>1, <1>2, AppendSeq
<1>4. StreamGrows(res, ops, phis, res', ops', phis')
  BY <1>1, <1>2, SameGrows DEF Grown
<1>5. ASSUME value PROVE HoldsNow(res', ops', phis', Len(res) + 1)
  <2>1. res'[Len(res) + 1].kind \in {"external", "projection"}
    BY <1>1, <1>5 DEF NewResource
  <2>2. \A i \in 1 .. Len(ops') : \A j \in 1 .. Len(ops'[i].acc) : ops'[i].acc[j].r \in 1 .. Len(res)
    BY DEF RecInv, RecLinks, OpLinks
  <2>3. Len(res) + 1 \in 1 .. Len(res')
    BY <1>1
  <2> QED
    BY <1>1, <2>1, <2>2, <2>3, FreshHolds
<1>6. \A r \in 1 .. Len(res') : defined'[r] =>
         (r \in 1 .. Len(res) /\ defined[r] /\ ops' = ops) \/ HoldsNow(res', ops', phis', r)
  BY <1>1, <1>3, <1>5
<1> QED
  BY <1>4, <1>6, ValueStep

LEMMA ResourceFed == RecInv /\ RecInv' /\ ValueInv /\ Resource => ValueInv'
BY DeclareFed DEF Resource, ResourceKinds

LEMMA ExternalFed == RecInv /\ RecInv' /\ ValueInv /\ External => ValueInv'
BY DeclareFed DEF External, ResourceKinds

LEMMA ProjectFed ==
    ASSUME RecInv, RecInv', ValueInv, NEW o \in Handles, NEW over \in BOOLEAN, Project(o, over)
    PROVE  ValueInv'
<1>1. o \in 1 .. Len(res) /\ o \in Nat
  BY HandlesFacts
<1> QED
  BY <1>1, DeclareFed DEF Project, ResourceKinds

LEMMA NewPhiFed ==
    ASSUME RecInv, RecInv', ValueInv, NEW init \in 1 .. Len(res), NEW loop \in BOOLEAN, defined[init],
           Declare("phi", 0, FALSE, TRUE), phis' = Append(phis, NewPhi(init, loop)), ops' = ops
    PROVE  /\ StreamGrows(res, ops, phis, res', ops', phis')
           /\ \A r \in 1 .. Len(res') : defined'[r] =>
                (r \in 1 .. Len(res) /\ defined[r] /\ ops' = ops) \/ HoldsNow(res', ops', phis', r)
           /\ \A p \in 1 .. Len(phis') :
                (p \in 1 .. Len(phis) /\ phis'[p] = phis[p]) \/ PhiFed(res', ops', phis', p)
           /\ phis'[Len(phis) + 1].loop = loop
<1>1. /\ res' \in Seq(ResourceSet) /\ defined' \in Seq(BOOLEAN)
      /\ Len(defined') = Len(res') /\ Len(res') = Len(res) + 1 /\ Len(res) \in Nat
      /\ res'[Len(res) + 1] = NewResource("phi", 0, FALSE)
      /\ \A r \in 1 .. Len(res) : res'[r] = res[r]
      /\ \A r \in 1 .. Len(res') : r \in 1 .. Len(res) \/ r = Len(res) + 1
  BY DeclareFacts DEF ResourceKinds
<1>2. /\ phis \in Seq(PhiSet) /\ ops \in Seq(OpSet) /\ Len(ops) \in Nat
      /\ defined \in Seq(BOOLEAN) /\ Len(defined) = Len(res) /\ defined' = Append(defined, TRUE)
      /\ res \in Seq(ResourceSet)
  BY DEF RecInv, RecTypes, RecLinks, Declare
<1>3. NewPhi(init, loop) \in PhiSet
  BY <1>1, <1>2 DEF NewPhi, PhiSet
<1>4. /\ phis' \in Seq(PhiSet) /\ Len(phis') = Len(phis) + 1
      /\ phis'[Len(phis) + 1] = NewPhi(init, loop)
      /\ \A p \in 1 .. Len(phis) : phis'[p] = phis[p]
      /\ Len(phis) \in Nat
      /\ \A p \in 1 .. Len(phis') : p \in 1 .. Len(phis) \/ p = Len(phis) + 1
  <2> HIDE DEF NewPhi
  <2> QED
    BY <1>2, <1>3, AppendSeq
<1>5. \A r \in 1 .. Len(res) : defined'[r] = defined[r]
  <2> DEFINE value == TRUE
  <2>1. value \in BOOLEAN /\ defined' = Append(defined, value) /\ defined \in Seq(BOOLEAN)
        /\ Len(defined) = Len(res)
    BY <1>2
  <2> HIDE DEF value
  <2> QED
    BY <2>1, AppendSeq
<1>6. StreamGrows(res, ops, phis, res', ops', phis')
  BY <1>1, <1>2, <1>4 DEF StreamGrows, Grown
<1>7. /\ phis'[Len(phis) + 1].out = Len(res) + 1 /\ phis'[Len(phis) + 1].init = init
      /\ phis'[Len(phis) + 1].fb = 0 /\ phis'[Len(phis) + 1].cond = 0
      /\ phis'[Len(phis) + 1].pos = Len(ops) /\ phis'[Len(phis) + 1].loop = loop
  BY <1>4 DEF NewPhi
<1>8. HoldsNow(res', ops', phis', Len(res) + 1)
  <2>1. \A i \in 1 .. Len(ops') : \A j \in 1 .. Len(ops'[i].acc) : ops'[i].acc[j].r \in 1 .. Len(res)
    BY DEF RecInv, RecLinks, OpLinks
  <2>2. Len(res) + 1 \in 1 .. Len(res') /\ Len(phis) + 1 \in 1 .. Len(phis')
    BY <1>1, <1>4
  <2> QED
    BY <1>1, <1>7, <2>1, <2>2, FreshHolds
<1>9. PhiFed(res', ops', phis', Len(phis) + 1)
  <2>1. HoldsNow(res, ops, phis, init)
    BY DEF ValueInv
  <2>2. Holds(ops', DeclaredFull(res', phis', 1 .. Len(phis)), Len(ops), init)
    <3>1. Holds(ops, DeclaredFull(res, phis, 1 .. Len(phis)), Len(ops), init)
      BY <2>1 DEF HoldsNow
    <3>2. /\ res \in Seq(ResourceSet) /\ ops \in Seq(OpSet) /\ phis \in Seq(PhiSet)
          /\ res' \in Seq(ResourceSet) /\ ops' \in Seq(OpSet) /\ phis' \in Seq(PhiSet)
          /\ StreamGrows(res, ops, phis, res', ops', phis')
      BY <1>1, <1>2, <1>4, <1>6
    <3>3. \A r : Holds(ops, DeclaredFull(res, phis, 1 .. Len(phis)), Len(ops), r) =>
            Holds(ops', DeclaredFull(res', phis', 1 .. Len(phis)), Len(ops), r)
      BY <3>2, FedStays
    <3> QED
      BY <3>1, <3>3
  <2>3. (Len(phis) + 1) - 1 = Len(phis)
    BY <1>4
  <2>4. \A q \in 1 .. Len(phis) : phis'[q].pos <= Len(ops)
    BY <1>4 DEF RecInv, RecLinks, PhiLinks
  <2> QED
    BY <1>7, <2>2, <2>3, <2>4 DEF PhiFed
<1> QED
  BY <1>1, <1>4, <1>5, <1>6, <1>7, <1>8, <1>9

LEMMA PhiIsFed ==
    ASSUME RecInv, RecInv', ValueInv, NEW r \in Handles, Phi(r)
    PROVE  ValueInv'
<1>1. r \in 1 .. Len(res)
  BY HandlesFacts
<1>2. /\ Declare("phi", 0, FALSE, TRUE) /\ phis' = Append(phis, NewPhi(r, FALSE))
      /\ UNCHANGED <<ops, ifs, scopes>> /\ defined[r]
  BY DEF Phi, PhiAllowed
<1> QED
  BY <1>1, <1>2, NewPhiFed, ValueStep

LEMMA BeginWhileFed ==
    ASSUME RecInv, RecInv', ValueInv, NEW r \in Handles, BeginWhile(r)
    PROVE  ValueInv'
<1>1. r \in 1 .. Len(res) /\ r \in Nat
  BY HandlesFacts
<1> DEFINE scope == [kind |-> "while", cond |-> r, phi |-> Len(phis) + 1,
                     begin |-> Len(ops), alt |-> 0]
<1>2. Declare("phi", 0, FALSE, TRUE) /\ phis' = Append(phis, NewPhi(r, TRUE))
      /\ scopes' = Append(scopes, scope) /\ UNCHANGED <<ops, ifs>> /\ defined[r]
  BY DEF BeginWhile, Enter, PhiAllowed
<1>3. /\ StreamGrows(res, ops, phis, res', ops', phis')
      /\ \A x \in 1 .. Len(res') : defined'[x] =>
           (x \in 1 .. Len(res) /\ defined[x] /\ ops' = ops) \/ HoldsNow(res', ops', phis', x)
      /\ \A p \in 1 .. Len(phis') :
           (p \in 1 .. Len(phis) /\ phis'[p] = phis[p]) \/ PhiFed(res', ops', phis', p)
      /\ phis'[Len(phis) + 1].loop
  BY <1>1, <1>2, NewPhiFed
<1>4. scopes \in Seq(ScopeSet) /\ Len(ops) \in Nat /\ Len(phis) \in Nat
  BY DEF RecInv, RecTypes
<1>5. scope \in ScopeSet /\ scope.kind = "while" /\ scope.phi = Len(phis) + 1
  BY <1>1, <1>4 DEF ScopeSet
<1> HIDE DEF scope
<1>6. /\ scopes'[Len(scopes) + 1] = scope
      /\ \A s \in 1 .. Len(scopes) : scopes'[s] = scopes[s]
      /\ \A s \in 1 .. Len(scopes') : s \in 1 .. Len(scopes) \/ s = Len(scopes) + 1
  BY <1>2, <1>4, <1>5, AppendSeq
<1>7. ScopeFed(res', ops', phis', scopes', Len(scopes) + 1)
  BY <1>3, <1>5, <1>6 DEF ScopeFed
<1> QED
  BY <1>2, <1>3, <1>6, <1>7, ValueStep

(* A phi is given its feedback, at the position the recording has reached.  *)
CompletePhi(p, fb, cond, mif) ==
    /\ phis' = [phis EXCEPT ![p] =
                  [phis[p] EXCEPT !.fb = fb, !.cond = cond, !.fbpos = Len(ops), !.mif = mif]]
    /\ UNCHANGED <<res, ops>>

LEMMA CompletedFed ==
    ASSUME RecInv, RecInv', ValueInv, NEW p \in 1 .. Len(phis), NEW fb \in 1 .. Len(res),
           NEW cond \in 0 .. Len(res), NEW mif \in Nat, CompletePhi(p, fb, cond, mif),
           phis[p].loop \/ (cond = 0 /\ defined[fb])
    PROVE  /\ StreamGrows(res, ops, phis, res', ops', phis')
           /\ \A q \in 1 .. Len(phis') :
                 (q \in 1 .. Len(phis) /\ phis'[q] = phis[q]) \/ PhiFed(res', ops', phis', q)
<1> DEFINE x == [phis[p] EXCEPT !.fb = fb, !.cond = cond, !.fbpos = Len(ops), !.mif = mif]
<1>1. /\ phis \in Seq(PhiSet) /\ ops \in Seq(OpSet) /\ res \in Seq(ResourceSet)
      /\ phis' \in Seq(PhiSet) /\ res' \in Seq(ResourceSet) /\ ops' \in Seq(OpSet)
      /\ Len(ops) \in Nat /\ Len(res) \in Nat /\ Len(phis) \in Nat
      /\ res' = res /\ ops' = ops
  BY DEF RecInv, RecTypes, CompletePhi
<1>2. PhiLinks(res, ops, phis, p) /\ PhiFed(res, ops, phis, p)
  BY DEF RecInv, RecLinks, ValueInv
<1>3. /\ x.out = phis[p].out /\ x.init = phis[p].init /\ x.pos = phis[p].pos
      /\ x.loop = phis[p].loop /\ x.fb = fb /\ x.cond = cond /\ x.fbpos = Len(ops) /\ x \in PhiSet
  <2> DEFINE y == phis[p]
             n == Len(ops)
  <2>1. y \in PhiSet /\ n \in Int /\ fb \in Nat /\ cond \in Nat
    BY <1>1
  <2>2. x = [y EXCEPT !.fb = fb, !.cond = cond, !.fbpos = n, !.mif = mif]
    OBVIOUS
  <2> HIDE DEF y, n, x
  <2>3. /\ x.out = y.out /\ x.init = y.init /\ x.pos = y.pos /\ x.loop = y.loop
        /\ x.fb = fb /\ x.cond = cond /\ x.fbpos = n /\ x \in PhiSet
    BY <2>1, <2>2 DEF PhiSet
  <2> QED
    BY <2>3 DEF y, n
<1> HIDE DEF x
<1>4. /\ Len(phis') = Len(phis) /\ phis'[p] = x
      /\ \A q \in 1 .. Len(phis) : q # p => phis'[q] = phis[q]
  <2>1. phis' = [phis EXCEPT ![p] = x]
    BY DEF x, CompletePhi
  <2>2. /\ Len([phis EXCEPT ![p] = x]) = Len(phis)
        /\ [phis EXCEPT ![p] = x][p] = x
        /\ \A q \in 1 .. Len(phis) : q # p => [phis EXCEPT ![p] = x][q] = phis[q]
    BY <1>1, <1>3, ExceptFacts
  <2> QED
    BY <2>1, <2>2
<1>5. StreamGrows(res, ops, phis, res', ops', phis')
  <2>1. \A q \in 1 .. Len(phis) :
          /\ phis'[q].out = phis[q].out /\ phis'[q].init = phis[q].init
          /\ phis'[q].pos = phis[q].pos /\ phis'[q].loop = phis[q].loop
    BY <1>3, <1>4
  <2> QED
    BY <1>1, <1>4, <2>1 DEF StreamGrows, Grown
<1>6. PhiFed(res', ops', phis', p)
  <2>1. Holds(ops', DeclaredFull(res', phis', 1 .. p - 1), phis[p].pos, phis[p].init)
    <3>1. 1 .. p - 1 \in SUBSET (1 .. Len(phis)) /\ 1 .. p - 1 \subseteq 1 .. p - 1
      BY <1>1
    <3>2. Holds(ops, DeclaredFull(res, phis, 1 .. p - 1), phis[p].pos, phis[p].init)
      BY <1>2 DEF PhiFed
    <3>3. phis[p] \in PhiSet
      BY <1>1
    <3>4. phis[p].pos \in Nat /\ phis[p].pos <= Len(ops)
      BY <1>2, <3>3 DEF PhiLinks, PhiSet
    <3> DEFINE P == 1 .. p - 1
               k == phis[p].pos
               r == phis[p].init
    <3>5. P \in SUBSET (1 .. Len(phis)) /\ P \subseteq P /\ k \in Nat /\ k <= Len(ops)
          /\ Holds(ops, DeclaredFull(res, phis, P), k, r)
      BY <3>1, <3>2, <3>4
    <3>7. /\ res \in Seq(ResourceSet) /\ ops \in Seq(OpSet) /\ phis \in Seq(PhiSet)
          /\ res' \in Seq(ResourceSet) /\ ops' \in Seq(OpSet) /\ phis' \in Seq(PhiSet)
          /\ StreamGrows(res, ops, phis, res', ops', phis')
      BY <1>1, <1>5
    <3> HIDE DEF P, k, r
    <3>6. Holds(ops', DeclaredFull(res', phis', P), k, r)
      BY <3>5, <3>7, HoldsStays
    <3> QED
      BY <3>6 DEF P, k, r
  <2>2. \A q \in 1 .. p - 1 : phis'[q].pos <= phis'[p].pos
    <3>1. \A q \in 1 .. p - 1 : q \in 1 .. Len(phis) /\ q # p
      BY <1>1
    <3> QED
      BY <1>2, <1>3, <1>4, <3>1 DEF PhiFed
  <2>3. ASSUME ~x.loop PROVE cond = 0 /\ CondFed(res', ops', phis', Len(ops), fb)
    <3>1. cond = 0 /\ defined[fb]
      BY <1>3, <2>3
    <3>2. CondFed(res, ops, phis, Len(ops), fb)
      BY <3>1, NowFed
    <3>5. /\ res \in Seq(ResourceSet) /\ ops \in Seq(OpSet) /\ phis \in Seq(PhiSet)
          /\ res' \in Seq(ResourceSet) /\ ops' \in Seq(OpSet) /\ phis' \in Seq(PhiSet)
          /\ StreamGrows(res, ops, phis, res', ops', phis')
      BY <1>1, <1>5
    <3>3. \A k \in Nat : \A v :
            k <= Len(ops) /\ CondFed(res, ops, phis, k, v) => CondFed(res', ops', phis', k, v)
      BY <3>5, FedStays
    <3>4. Len(ops) <= Len(ops)
      BY <1>1
    <3> QED
      BY <1>1, <3>1, <3>2, <3>3, <3>4
  <2> QED
    BY <1>3, <1>4, <2>1, <2>2, <2>3 DEF PhiFed
<1> QED
  BY <1>4, <1>5, <1>6

LEMMA FeedbackFed ==
    ASSUME RecInv, RecInv', ValueInv, NEW p \in DOMAIN phis, NEW r \in Handles, NEW mif \in Limits,
           Feedback(p, r, mif)
    PROVE  ValueInv'
<1>1. r \in 1 .. Len(res)
  BY HandlesFacts
<1>2. phis \in Seq(PhiSet) /\ p \in 1 .. Len(phis) /\ Len(res) \in Nat
  BY DEF RecInv, RecTypes
<1>3. phis[p] \in PhiSet
  BY <1>2
<1>4. mif \in Nat
  BY RecorderAssumption
<1>5. defined[r] /\ ~phis[p].loop /\ UNCHANGED <<res, defined, ops, ifs, scopes>>
  BY DEF Feedback, PhiAllowed
<1>6. phis[p].cond = 0
  BY <1>2, <1>5 DEF ValueInv, PhiFed
<1>7. phis' = [phis EXCEPT ![p] = [phis[p] EXCEPT !.fb = r, !.cond = 0,
                                                  !.fbpos = Len(ops), !.mif = mif]]
  <2> DEFINE y == phis[p]
  <2>1. [y EXCEPT !.fb = r, !.fbpos = Len(ops), !.mif = mif] =
        [y EXCEPT !.fb = r, !.cond = 0, !.fbpos = Len(ops), !.mif = mif]
    <3>1. y \in PhiSet /\ y.cond = 0
      BY <1>3, <1>6
    <3> HIDE DEF y
    <3> QED
      BY <3>1 DEF PhiSet
  <2> QED
    BY <2>1 DEF Feedback
<1>8. 0 \in 0 .. Len(res)
  BY <1>2
<1>9. /\ StreamGrows(res, ops, phis, res', ops', phis')
      /\ \A q \in 1 .. Len(phis') :
            (q \in 1 .. Len(phis) /\ phis'[q] = phis[q]) \/ PhiFed(res', ops', phis', q)
  BY <1>1, <1>2, <1>4, <1>5, <1>7, <1>8, CompletedFed DEF CompletePhi
<1> QED
  BY <1>5, <1>9, ValueStep

LEMMA EndWhileFed ==
    ASSUME RecInv, RecInv', ValueInv, EndWhile
    PROVE  ValueInv'
<1> DEFINE s == Last(scopes)
<1>1. /\ scopes # <<>> /\ s.kind = "while" /\ scopes' = Front(scopes)
      /\ phis' = [phis EXCEPT ![s.phi] = [phis[s.phi] EXCEPT !.fb = s.cond, !.cond = s.cond,
                                                             !.fbpos = Len(ops), !.mif = 1]]
      /\ UNCHANGED <<res, defined, ops, ifs>>
  BY DEF EndWhile, Leave
<1>2. scopes \in Seq(ScopeSet) /\ Len(res) \in Nat
  BY DEF RecInv, RecTypes
<1>3. /\ Len(scopes) \in 1 .. Len(scopes) /\ s = scopes[Len(scopes)]
      /\ \A i \in 1 .. Len(Front(scopes)) : i \in 1 .. Len(scopes) /\ Front(scopes)[i] = scopes[i]
  BY <1>1, <1>2, FrontFacts
<1>4. s.cond \in 1 .. Len(res) /\ s.phi \in 1 .. Len(phis) /\ phis[s.phi].loop
  <2>1. ScopeLinks(res, ops, phis, scopes, Len(scopes)) /\ ScopeFed(res, ops, phis, scopes, Len(scopes))
    BY <1>3 DEF RecInv, RecLinks, ValueInv
  <2> QED
    BY <1>1, <1>3, <2>1 DEF ScopeLinks, ScopeFed
<1> HIDE DEF s
<1>5. s.cond \in 0 .. Len(res) /\ 1 \in Nat
  BY <1>2, <1>4
<1>6. /\ StreamGrows(res, ops, phis, res', ops', phis')
      /\ \A q \in 1 .. Len(phis') :
            (q \in 1 .. Len(phis) /\ phis'[q] = phis[q]) \/ PhiFed(res', ops', phis', q)
  BY <1>1, <1>4, <1>5, CompletedFed DEF CompletePhi
<1> QED
  BY <1>1, <1>3, <1>6, ValueStep

(* An operation that is fed, after which a resource is said to hold a value   *)
(* only when the operation left one or did not touch the one there was.     *)
LEMMA AppendFed ==
    ASSUME RecInv, RecInv', ValueInv, NEW kind \in OpKinds, NEW acc \in Seq(ArgSet),
           NEW side \in BOOLEAN, AppendOp(kind, acc, side),
           Grown(res, ops, phis, res', ops', phis'), UNCHANGED <<phis, ifs, scopes>>,
           \A j, l \in 1 .. Len(acc) : acc[j].r = acc[l].r => j = l,
           kind # "discard" => \A j \in 1 .. Len(acc) :
              ~acc[j].ser /\ acc[j].mode # "write" => acc[j].r \in 1 .. Len(res) /\ defined[acc[j].r],
           \A r \in 1 .. Len(res') : defined'[r] =>
              \/ LeavesValue(ops'[Len(ops) + 1], r)
              \/ r \in 1 .. Len(res) /\ defined[r] /\ ~SetsValue(ops'[Len(ops) + 1], r)
    PROVE  ValueInv'
<1>1. /\ ops' \in Seq(OpSet) /\ Len(ops') = Len(ops) + 1 /\ Len(ops) \in Nat
      /\ ops'[Len(ops) + 1].kind = kind /\ ops'[Len(ops) + 1].acc = acc
      /\ \A i \in 1 .. Len(ops) : ops'[i] = ops[i]
      /\ \A i \in 1 .. Len(ops') : i \in 1 .. Len(ops) \/ i = Len(ops) + 1
  BY AppendOpFacts
<1>2. /\ ops \in Seq(OpSet) /\ phis \in Seq(PhiSet) /\ res \in Seq(ResourceSet)
      /\ phis' \in Seq(PhiSet) /\ res' \in Seq(ResourceSet) /\ Len(phis) \in Nat
  BY DEF RecInv, RecTypes
<1>3. StreamGrows(res, ops, phis, res', ops', phis')
  BY DEF StreamGrows
<1>4. ASSUME NEW r, HoldsNow(res, ops, phis, r)
      PROVE  Holds(ops', DeclaredFull(res', phis', 1 .. Len(phis')), Len(ops), r)
  <2>1. 1 .. Len(phis) \in SUBSET (1 .. Len(phis)) /\ 1 .. Len(phis) \subseteq 1 .. Len(phis')
        /\ Len(ops) <= Len(ops)
    BY <1>1, <1>2
  <2>2. Holds(ops, DeclaredFull(res, phis, 1 .. Len(phis)), Len(ops), r)
    BY <1>4 DEF HoldsNow
  <2> QED
    BY <1>1, <1>2, <1>3, <2>1, <2>2, HoldsStays
<1>5. PhisUpTo(phis', Len(ops)) = 1 .. Len(phis')
  BY DEF RecInv, RecLinks, PhiLinks, PhisUpTo
<1>6. ASSUME NEW r \in 1 .. Len(res'), defined'[r] PROVE HoldsNow(res', ops', phis', r)
  <2> DEFINE full == DeclaredFull(res', phis', 1 .. Len(phis'))
  <2>1. CASE LeavesValue(ops'[Len(ops) + 1], r)
    <3> HIDE DEF full
    <3>1. Holds(ops', full, Len(ops) + 1, r)
      BY <1>1, <2>1, HoldsNext
    <3> QED
      BY <1>1, <3>1 DEF HoldsNow, full
  <2>2. CASE r \in 1 .. Len(res) /\ defined[r] /\ ~SetsValue(ops'[Len(ops) + 1], r)
    <3>1. HoldsNow(res, ops, phis, r)
      BY <2>2 DEF ValueInv
    <3>2. Holds(ops', full, Len(ops), r)
      BY <1>4, <3>1
    <3> HIDE DEF full
    <3>3. Holds(ops', full, Len(ops) + 1, r)
      BY <1>1, <2>2, <3>2, HoldsNext
    <3> QED
      BY <1>1, <3>3 DEF HoldsNow, full
  <2> QED
    BY <1>6, <2>1, <2>2
<1>7. OpFed(res', ops', phis', Len(ops) + 1)
  <2>1. (Len(ops) + 1) - 1 = Len(ops)
    BY <1>1
  <2>2. ASSUME kind # "discard", NEW j \in 1 .. Len(acc), ~acc[j].ser, acc[j].mode # "write"
        PROVE  Holds(ops', DeclaredFull(res', phis', PhisUpTo(phis', Len(ops))), Len(ops), acc[j].r)
    <3>1. HoldsNow(res, ops, phis, acc[j].r)
      BY <2>2 DEF ValueInv
    <3> QED
      BY <1>4, <1>5, <3>1
  <2> QED
    BY <1>1, <2>1, <2>2 DEF OpFed
<1> QED
  BY <1>1, <1>3, <1>6, <1>7, ValueStep

(* update_defined_resources(), for accesses of different resources.         *)
LEMMA DefinedAfterFed ==
    ASSUME RecInv, NEW acc \in Seq(ArgSet), NEW op, op.acc = acc, op.kind # "discard",
           \A j, l \in 1 .. Len(acc) : acc[j].r = acc[l].r => j = l,
           NEW r \in 1 .. Len(res), DefinedAfter(acc)[r]
    PROVE  LeavesValue(op, r) \/ (defined[r] /\ ~SetsValue(op, r))
<1> DEFINE Changed == \E a \in ToSet(acc) : a.r = r /\ ~a.ser /\ a.mode # "read"
           Kept == \E a \in ToSet(acc) : a.r = r /\ a.mode # "consume"
<1>1. DOMAIN defined = 1 .. Len(res)
  BY DEF RecInv, RecTypes, RecLinks
<1>2. DefinedAfter(acc)[r] = IF Changed THEN Kept ELSE defined[r]
  BY <1>1, Zenon DEF DefinedAfter
<1>3. DOMAIN acc = 1 .. Len(acc) /\ \A j \in 1 .. Len(acc) : acc[j] \in ArgSet
  OBVIOUS
<1>4. Changed <=> SetsValue(op, r)
  BY <1>3 DEF ToSet, SetsValue
<1>5. ASSUME Changed, Kept PROVE LeavesValue(op, r)
  <2>1. PICK j \in 1 .. Len(acc) : acc[j].r = r /\ ~acc[j].ser /\ acc[j].mode # "read"
    BY <1>3, <1>5 DEF ToSet
  <2>2. PICK l \in 1 .. Len(acc) : acc[l].r = r /\ acc[l].mode # "consume"
    BY <1>3, <1>5 DEF ToSet
  <2>3. j = l
    BY <2>1, <2>2
  <2>4. acc[j].mode \in {"write", "read_write"}
    BY <1>3, <2>1, <2>2, <2>3 DEF ArgSet, ModeNames
  <2> QED
    BY <2>1, <2>4 DEF LeavesValue
<1> HIDE DEF Changed, Kept
<1> QED
  BY <1>2, <1>4, <1>5

(* The recorder enumerates lists of accesses to different resources, each as *)
(* describe() asks.                                                        *)
LEMMA ArgumentsDistinct ==
    ASSUME RecInv, NEW limit, NEW acc \in Arguments(limit)
    PROVE  /\ \A j, l \in 1 .. Len(acc) : acc[j].r = acc[l].r => j = l
           /\ \A j \in 1 .. Len(acc) : acc[j].mode # "write" => defined[acc[j].r]
<1>1. Handles \subseteq 1 .. Len(res) /\ Len(res) \in Nat
  BY HandlesFacts DEF RecInv, RecTypes
<1> DEFINE Different(s) == \A j, l \in 1 .. Len(s) : s[j].r = s[l].r => j = l
<1>2. \A k, q : q \in InOrder(k) => \E n \in Nat :
         q \in [1 .. n -> 1 .. Len(res)] /\ \A i, j \in 1 .. n : i < j => q[i] < q[j]
  <2> SUFFICES ASSUME NEW k, NEW q \in InOrder(k)
               PROVE  \E n \in Nat : q \in [1 .. n -> 1 .. Len(res)]
                                     /\ \A i, j \in 1 .. n : i < j => q[i] < q[j]
    OBVIOUS
  <2>1. PICK n \in 0 .. k : q \in [1 .. n -> Handles] /\ \A i, j \in 1 .. n : i < j => q[i] < q[j]
    BY DEF InOrder
  <2>2. q \in [1 .. n -> 1 .. Len(res)]
    BY <1>1, <2>1
  <2> QED
    BY <2>1, <2>2
<1>3. PICK q \in InOrder(limit) : \E z \in InOrder(limit - Len(q)) : \E m \in [DOMAIN q -> Modes] :
         /\ ToSet(z) \cap ToSet(q) = {}
         /\ acc = [i \in DOMAIN q |-> Arg(q[i], m[i])] \o
               [i \in DOMAIN z |-> [r |-> z[i], mode |-> "read_write", ser |-> TRUE]]
  <2>1. acc \in ArgumentLists(limit)
    BY DEF Arguments
  <2> DEFINE Plain(q) == {[i \in DOMAIN q |-> Arg(q[i], m[i])] : m \in [DOMAIN q -> Modes]}
             Serial(q) == [i \in DOMAIN q |-> [r |-> q[i], mode |-> "read_write", ser |-> TRUE]]
             Serialized(q) == {z \in InOrder(limit - Len(q)) :
                 /\ z # <<>> => "serialize" \in Calls
                 /\ ToSet(z) \cap ToSet(q) = {}}
             Lists(q) == UNION {{x \o Serial(z) : x \in Plain(q)} : z \in Serialized(q)}
  <2>2. ArgumentLists(limit) = UNION {Lists(q) : q \in InOrder(limit)}
    BY DEF ArgumentLists
  <2>3. PICK q \in InOrder(limit) : acc \in Lists(q)
    <3> HIDE DEF Lists
    <3> QED
      BY <2>1, <2>2
  <2>4. PICK z \in Serialized(q) : acc \in {x \o Serial(z) : x \in Plain(q)}
    <3> HIDE DEF Serialized, Plain, Serial
    <3> QED
      BY <2>3
  <2>5. PICK x \in Plain(q) : acc = x \o Serial(z)
    <3> HIDE DEF Plain, Serial
    <3> QED
      BY <2>4
  <2>6. PICK m \in [DOMAIN q -> Modes] : x = [i \in DOMAIN q |-> Arg(q[i], m[i])]
    BY <2>5
  <2> QED
    BY <2>3, <2>4, <2>5, <2>6, Zenon
<1>4. PICK z \in InOrder(limit - Len(q)) : \E m \in [DOMAIN q -> Modes] :
         /\ ToSet(z) \cap ToSet(q) = {}
         /\ acc = [i \in DOMAIN q |-> Arg(q[i], m[i])] \o
               [i \in DOMAIN z |-> [r |-> z[i], mode |-> "read_write", ser |-> TRUE]]
  BY <1>3
<1>5. PICK m \in [DOMAIN q -> Modes] :
         /\ ToSet(z) \cap ToSet(q) = {}
         /\ acc = [i \in DOMAIN q |-> Arg(q[i], m[i])] \o
               [i \in DOMAIN z |-> [r |-> z[i], mode |-> "read_write", ser |-> TRUE]]
  BY <1>4
<1>6. PICK n \in Nat : q \in [1 .. n -> 1 .. Len(res)] /\ \A i, j \in 1 .. n : i < j => q[i] < q[j]
  BY <1>2
<1>7. PICK k \in Nat : z \in [1 .. k -> 1 .. Len(res)] /\ \A i, j \in 1 .. k : i < j => z[i] < z[j]
  BY <1>2
<1> DEFINE s == [i \in DOMAIN q |-> Arg(q[i], m[i])]
           t == [i \in DOMAIN z |-> [r |-> z[i], mode |-> "read_write", ser |-> TRUE]]
<1>8. DOMAIN q = 1 .. n /\ DOMAIN z = 1 .. k
  BY <1>6, <1>7
<1>9. /\ s \in Seq(Range(s)) /\ Len(s) = n /\ \A i \in 1 .. n : s[i].r = q[i]
      /\ t \in Seq(Range(t)) /\ Len(t) = k /\ \A i \in 1 .. k : t[i].r = z[i]
  <2>1. \A i \in 1 .. n : s[i].r = q[i]
    BY <1>8 DEF Arg
  <2>2. \A i \in 1 .. k : t[i].r = z[i]
    BY <1>8
  <2>3. DOMAIN s = 1 .. n /\ DOMAIN t = 1 .. k
    BY <1>8
  <2>4. s \in [1 .. n -> Range(s)] /\ t \in [1 .. k -> Range(t)]
    <3>1. s = [i \in 1 .. n |-> s[i]] /\ t = [i \in 1 .. k |-> t[i]]
      BY <1>8
    <3> HIDE DEF s, t
    <3> QED
      BY <2>3, <3>1 DEF Range
  <2> HIDE DEF s, t
  <2> QED
    BY <2>1, <2>2, <2>4
<1>10. acc = s \o t
  BY <1>5
<1> HIDE DEF s, t
<1>11. /\ Len(acc) = n + k
       /\ \A i \in 1 .. n + k : acc[i] = IF i <= n THEN s[i] ELSE t[i - n]
  <2> DEFINE S == Range(s) \cup Range(t)
  <2>1. s \in Seq(S) /\ t \in Seq(S)
    <3>1. Range(s) \subseteq S /\ Range(t) \subseteq S
      OBVIOUS
    <3> HIDE DEF S
    <3> QED
      BY <1>9, <3>1, SeqGrows
  <2> HIDE DEF S
  <2>2. /\ Len(s \o t) = Len(s) + Len(t)
        /\ \A i \in 1 .. Len(s) + Len(t) : (s \o t)[i] = IF i <= Len(s) THEN s[i] ELSE t[i - Len(s)]
    BY <2>1, ConcatProperties
  <2> QED
    BY <1>9, <1>10, <2>2
<1>12. \A i \in 1 .. n, j \in 1 .. k : q[i] # z[j]
  <2> SUFFICES ASSUME NEW i \in 1 .. n, NEW j \in 1 .. k, q[i] = z[j] PROVE FALSE
    OBVIOUS
  <2>1. q[i] \in ToSet(q) /\ z[j] \in ToSet(z)
    BY <1>8 DEF ToSet
  <2> QED
    BY <1>5, <2>1
<1>13. \A i \in 1 .. n : q[i] \in Nat
  BY <1>1, <1>6
<1>14. \A i \in 1 .. k : z[i] \in Nat
  BY <1>1, <1>7
<1>15. ASSUME NEW j \in 1 .. Len(acc), NEW l \in 1 .. Len(acc), acc[j].r = acc[l].r PROVE j = l
  <2>1. \A i \in 1 .. n + k : acc[i].r = IF i <= n THEN q[i] ELSE z[i - n]
    <3> SUFFICES ASSUME NEW i \in 1 .. n + k PROVE acc[i].r = IF i <= n THEN q[i] ELSE z[i - n]
      OBVIOUS
    <3>1. CASE i <= n
      BY <1>9, <1>11, <3>1
    <3>2. CASE ~(i <= n)
      <4>1. i - n \in 1 .. k
        BY <3>2
      <4> QED
        BY <1>9, <1>11, <3>2, <4>1
    <3> QED
      BY <3>1, <3>2
  <2>2. j \in 1 .. n + k /\ l \in 1 .. n + k
    BY <1>11
  <2>3. CASE j <= n /\ l <= n
    <3>1. q[j] = q[l] /\ j \in 1 .. n /\ l \in 1 .. n
      BY <1>15, <2>1, <2>2, <2>3
    <3>2. ~(q[j] < q[l]) /\ ~(q[l] < q[j])
      BY <1>13, <3>1
    <3>3. ~(j < l) /\ ~(l < j)
      BY <1>6, <3>1, <3>2
    <3> QED
      BY <3>1, <3>3
  <2>4. CASE ~(j <= n) /\ ~(l <= n)
    <3>1. z[j - n] = z[l - n] /\ j - n \in 1 .. k /\ l - n \in 1 .. k
      BY <1>15, <2>1, <2>2, <2>4
    <3>2. ~(z[j - n] < z[l - n]) /\ ~(z[l - n] < z[j - n])
      BY <1>14, <3>1
    <3>3. ~(j - n < l - n) /\ ~(l - n < j - n)
      BY <1>7, <3>1, <3>2
    <3> QED
      BY <2>2, <3>3
  <2>5. CASE j <= n /\ ~(l <= n)
    <3>1. q[j] = z[l - n] /\ j \in 1 .. n /\ l - n \in 1 .. k
      BY <1>15, <2>1, <2>2, <2>5
    <3> QED
      BY <1>12, <3>1
  <2>6. CASE ~(j <= n) /\ l <= n
    <3>1. z[j - n] = q[l] /\ j - n \in 1 .. k /\ l \in 1 .. n
      BY <1>15, <2>1, <2>2, <2>6
    <3> QED
      BY <1>12, <3>1
  <2> QED
    BY <2>3, <2>4, <2>5, <2>6
<1>16. \A j \in 1 .. Len(acc) : acc[j].mode # "write" => defined[acc[j].r]
  <2>1. \A a \in ToSet(acc) : Describable(a)
    BY DEF Arguments
  <2>2. acc \in Seq(ArgSet)
    BY ArgumentFacts
  <2>3. \A j \in 1 .. Len(acc) : acc[j] \in ToSet(acc)
    BY <2>2 DEF ToSet
  <2> QED
    BY <2>1, <2>3 DEF Describable
<1> QED
  BY <1>15, <1>16

LEMMA OpIsFed ==
    ASSUME RecInv, RecInv', ValueInv, NEW acc \in Arguments(MaxAccesses), NEW side \in BOOLEAN,
           Op(acc, side)
    PROVE  ValueInv'
<1>1. acc \in Seq(ArgSet) /\ \A j \in 1 .. Len(acc) : acc[j].r \in 1 .. Len(res)
  BY ArgumentFacts
<1>2. /\ AppendOp("callback", acc, side) /\ defined' = DefinedAfter(acc)
      /\ UNCHANGED <<res, phis, ifs, scopes>>
  BY DEF Op
<1>3. "callback" \in OpKinds
  BY DEF OpKinds
<1>4. /\ \A j, l \in 1 .. Len(acc) : acc[j].r = acc[l].r => j = l
      /\ \A j \in 1 .. Len(acc) : acc[j].mode # "write" => defined[acc[j].r]
  BY ArgumentsDistinct
<1>5. /\ Len(ops') = Len(ops) + 1 /\ Len(ops) \in Nat
      /\ ops'[Len(ops) + 1].kind = "callback" /\ ops'[Len(ops) + 1].acc = acc
      /\ \A i \in 1 .. Len(ops) : ops'[i] = ops[i]
  BY <1>1, <1>2, <1>3, AppendOpFacts
<1>6. Grown(res, ops, phis, res', ops', phis')
  BY <1>2, <1>5 DEF Grown, RecInv, RecTypes
<1>7. ASSUME NEW r \in 1 .. Len(res'), defined'[r]
      PROVE  \/ LeavesValue(ops'[Len(ops) + 1], r)
             \/ r \in 1 .. Len(res) /\ defined[r] /\ ~SetsValue(ops'[Len(ops) + 1], r)
  <2>1. r \in 1 .. Len(res) /\ DefinedAfter(acc)[r]
    BY <1>2, <1>7
  <2> QED
    BY <1>1, <1>4, <1>5, <2>1, DefinedAfterFed
<1> QED
  BY <1>1, <1>2, <1>3, <1>4, <1>6, <1>7, AppendFed

LEMMA BoundaryFed ==
    ASSUME RecInv, RecInv', ValueInv, NEW kind \in {"acquire", "yield"}, Boundary(kind)
    PROVE  ValueInv'
<1> DEFINE acc == <<>>
           side == FALSE
<1>1. AppendOp(kind, acc, side) /\ UNCHANGED <<res, defined, phis, ifs, scopes>>
  BY DEF Boundary
<1>2. acc \in Seq(ArgSet) /\ Len(acc) = 0 /\ side \in BOOLEAN
  OBVIOUS
<1>3. kind \in OpKinds
  BY DEF OpKinds
<1> HIDE DEF acc, side
<1>4. /\ Len(ops') = Len(ops) + 1 /\ Len(ops) \in Nat /\ ops'[Len(ops) + 1].acc = acc
      /\ \A i \in 1 .. Len(ops) : ops'[i] = ops[i]
  BY <1>1, <1>2, <1>3, AppendOpFacts
<1>5. Grown(res, ops, phis, res', ops', phis')
  BY <1>1, <1>4 DEF Grown, RecInv, RecTypes
<1>6. \A r : ~SetsValue(ops'[Len(ops) + 1], r)
  BY <1>2, <1>4 DEF SetsValue
<1>7. \A r \in 1 .. Len(res') : defined'[r] =>
         \/ LeavesValue(ops'[Len(ops) + 1], r)
         \/ r \in 1 .. Len(res) /\ defined[r] /\ ~SetsValue(ops'[Len(ops) + 1], r)
  BY <1>1, <1>6
<1>8. /\ \A j, l \in 1 .. Len(acc) : acc[j].r = acc[l].r => j = l
      /\ \A j \in 1 .. Len(acc) :
            ~acc[j].ser /\ acc[j].mode # "write" => acc[j].r \in 1 .. Len(res) /\ defined[acc[j].r]
  BY <1>2
<1> QED
  BY <1>1, <1>2, <1>3, <1>5, <1>7, <1>8, AppendFed

LEMMA DiscardFed ==
    ASSUME RecInv, RecInv', ValueInv, NEW r \in Handles, Discard(r)
    PROVE  ValueInv'
<1>1. r \in 1 .. Len(res) /\ r \in Nat
  BY HandlesFacts
<1> DEFINE a == Arg(r, "write")
           acc == <<a>>
<1>2. /\ AppendOp("discard", acc, FALSE) /\ defined' = [defined EXCEPT ![r] = FALSE]
      /\ UNCHANGED <<res, phis, ifs, scopes>>
  BY DEF Discard
<1>3. a \in ArgSet /\ a.r = r
  BY <1>1 DEF Arg, ArgSet, ModeNames
<1> HIDE DEF a
<1>4. acc \in Seq(ArgSet) /\ Len(acc) = 1 /\ acc[1] = a
  BY <1>3, OneAccess
<1> HIDE DEF acc
<1>5. "discard" \in OpKinds
  BY DEF OpKinds
<1>6. /\ Len(ops') = Len(ops) + 1 /\ Len(ops) \in Nat /\ ops'[Len(ops) + 1].acc = acc
      /\ \A i \in 1 .. Len(ops) : ops'[i] = ops[i]
  BY <1>2, <1>4, <1>5, AppendOpFacts
<1>7. Grown(res, ops, phis, res', ops', phis')
  BY <1>2, <1>6 DEF Grown, RecInv, RecTypes
<1>8. \A x : SetsValue(ops'[Len(ops) + 1], x) => x = r
  <2> SUFFICES ASSUME NEW x, SetsValue(ops'[Len(ops) + 1], x) PROVE x = r
    OBVIOUS
  <2>1. PICK j \in 1 .. Len(acc) : acc[j].r = x
    BY <1>6 DEF SetsValue
  <2>2. j = 1
    BY <1>4
  <2> QED
    BY <1>3, <1>4, <2>1, <2>2
<1>9. ASSUME NEW x \in 1 .. Len(res'), defined'[x]
      PROVE  x \in 1 .. Len(res) /\ defined[x] /\ ~SetsValue(ops'[Len(ops) + 1], x)
  <2>1. defined \in Seq(BOOLEAN) /\ Len(defined) = Len(res)
    BY DEF RecInv, RecTypes, RecLinks
  <2>2. r \in 1 .. Len(defined) /\ FALSE \in BOOLEAN
    BY <1>1, <2>1
  <2>3. ~[defined EXCEPT ![r] = FALSE][r]
        /\ \A i \in 1 .. Len(defined) : i # r => [defined EXCEPT ![r] = FALSE][i] = defined[i]
    BY <2>1, <2>2, ExceptFacts
  <2>4. x \in 1 .. Len(res)
    BY <1>2
  <2>5. x # r
    BY <1>2, <1>9, <2>3
  <2> QED
    BY <1>2, <1>8, <1>9, <2>1, <2>3, <2>4, <2>5
<1>10. \A j, l \in 1 .. Len(acc) : acc[j].r = acc[l].r => j = l
  BY <1>4
<1> QED
  BY <1>2, <1>4, <1>5, <1>7, <1>9, <1>10, AppendFed

LEMMA CutoffFed ==
    ASSUME RecInv, RecInv', ValueInv, NEW r \in Handles, Cutoff(r)
    PROVE  ValueInv'
<1>1. r \in 1 .. Len(res) /\ r \in Nat
  BY HandlesFacts
<1> DEFINE R == Len(res)
           acc == <<Arg(r, "read"), Arg(R + 1, "write")>>
<1>2. /\ Declare("cutoff", 0, FALSE, TRUE) /\ AppendOp("cutoff", acc, FALSE)
      /\ UNCHANGED <<phis, ifs, scopes>> /\ defined[r]
  BY DEF Cutoff
<1>3. /\ Len(res') = R + 1 /\ R \in Nat
      /\ \A x \in 1 .. R : res'[x] = res[x]
      /\ \A x \in 1 .. Len(res') : x \in 1 .. R \/ x = R + 1
  BY <1>2, DeclareFacts DEF ResourceKinds
<1>4. /\ acc \in Seq(ArgSet) /\ Len(acc) = 2 /\ acc[1].r = r /\ acc[2].r = R + 1
      /\ acc[1].mode = "read" /\ acc[2].mode = "write" /\ ~acc[1].ser /\ ~acc[2].ser
  <2>1. Arg(r, "read") \in ArgSet /\ Arg(R + 1, "write") \in ArgSet
    BY <1>1, <1>3 DEF Arg, ArgSet, ModeNames
  <2>2. /\ Arg(r, "read").r = r /\ Arg(R + 1, "write").r = R + 1
        /\ Arg(r, "read").mode = "read" /\ Arg(R + 1, "write").mode = "write"
        /\ ~Arg(r, "read").ser /\ ~Arg(R + 1, "write").ser
    BY DEF Arg
  <2> QED
    BY <2>1, <2>2
<1> HIDE DEF acc
<1>5. "cutoff" \in OpKinds
  BY DEF OpKinds
<1>6. /\ Len(ops') = Len(ops) + 1 /\ Len(ops) \in Nat
      /\ ops'[Len(ops) + 1].acc = acc /\ ops'[Len(ops) + 1].kind = "cutoff"
      /\ \A i \in 1 .. Len(ops) : ops'[i] = ops[i]
  BY <1>2, <1>4, <1>5, AppendOpFacts
<1>7. Grown(res, ops, phis, res', ops', phis')
  <2>1. Len(phis) \in Nat
    BY DEF RecInv, RecTypes
  <2> QED
    BY <1>2, <1>3, <1>6, <2>1 DEF Grown
<1>8. \A j \in 1 .. Len(acc) : j = 1 \/ j = 2
  BY <1>4
<1>9. r # R + 1
  BY <1>1, <1>3
<1>10. ASSUME NEW x \in 1 .. Len(res'), defined'[x]
       PROVE  \/ LeavesValue(ops'[Len(ops) + 1], x)
              \/ x \in 1 .. R /\ defined[x] /\ ~SetsValue(ops'[Len(ops) + 1], x)
  <2>1. CASE x = R + 1
    <3>1. 2 \in 1 .. Len(acc)
      BY <1>4
    <3>2. LeavesValue(ops'[Len(ops) + 1], x)
      BY <1>4, <1>6, <2>1, <3>1 DEF LeavesValue
    <3> QED
      BY <3>2
  <2>2. CASE x \in 1 .. R
    <3>1. defined[x]
      <4> DEFINE value == TRUE
      <4>1. /\ defined \in Seq(BOOLEAN) /\ Len(defined) = R /\ defined' = Append(defined, value)
        BY <1>2 DEF RecInv, RecTypes, RecLinks, Declare
      <4>2. value \in BOOLEAN
        OBVIOUS
      <4> HIDE DEF value
      <4>3. \A i \in 1 .. Len(defined) : Append(defined, value)[i] = defined[i]
        BY <4>1, <4>2, AppendSeq
      <4> QED
        BY <1>10, <2>2, <4>1, <4>3
    <3>2. ~SetsValue(ops'[Len(ops) + 1], x)
      <4>1. x # R + 1
        BY <1>3, <2>2
      <4> QED
        BY <1>4, <1>6, <1>8, <4>1 DEF SetsValue
    <3> QED
      BY <2>2, <3>1, <3>2
  <2> QED
    BY <1>3, <2>1, <2>2
<1>11. \A j, l \in 1 .. Len(acc) : acc[j].r = acc[l].r => j = l
  BY <1>4, <1>8, <1>9
<1>12. \A j \in 1 .. Len(acc) : acc[j].mode # "write" => acc[j].r \in 1 .. Len(res) /\ defined[acc[j].r]
  BY <1>1, <1>2, <1>4, <1>8
<1> HIDE DEF R
<1> QED
  BY <1>2, <1>4, <1>5, <1>7, <1>10, <1>11, <1>12, AppendFed DEF R

LEMMA ConstructFed ==
    ASSUME RecInv, RecInv', ValueInv, NEW r \in Handles, NEW inputs \in Arguments(MaxAccesses - 1),
           Construct(r, inputs)
    PROVE  ValueInv'
<1>1. r \in 1 .. Len(res) /\ r \in Nat
  BY HandlesFacts
<1>2. inputs \in Seq(ArgSet) /\ \A j \in 1 .. Len(inputs) : inputs[j].r \in 1 .. Len(res)
  BY ArgumentFacts
<1>3. /\ \A j, l \in 1 .. Len(inputs) : inputs[j].r = inputs[l].r => j = l
      /\ \A j \in 1 .. Len(inputs) : inputs[j].mode # "write" => defined[inputs[j].r]
  BY ArgumentsDistinct
<1> DEFINE a == Arg(r, "write")
           acc == <<a>> \o inputs
           x == [res[r] EXCEPT !.cons = Len(ops) + 1]
<1>4. /\ AppendOp("construct", acc, FALSE) /\ defined' = DefinedAfter(acc)
      /\ res' = [res EXCEPT ![r] = x] /\ UNCHANGED <<phis, ifs, scopes>>
      /\ \A b \in ToSet(inputs) : b.r # r
  BY DEF Construct
<1>5. a \in ArgSet /\ a.r = r /\ a.mode = "write"
  BY <1>1 DEF Arg, ArgSet, ModeNames
<1> HIDE DEF a
<1>6. /\ acc \in Seq(ArgSet) /\ Len(acc) = 1 + Len(inputs) /\ acc[1] = a
      /\ \A j \in 1 .. Len(acc) : j # 1 => j - 1 \in 1 .. Len(inputs) /\ acc[j] = inputs[j - 1]
  <2>1. <<a>> \in Seq(ArgSet) /\ Len(<<a>>) = 1 /\ <<a>>[1] = a
    BY <1>5, OneAccess
  <2>2. Len(inputs) \in Nat
    BY <1>2
  <2>3. /\ acc \in Seq(ArgSet) /\ Len(acc) = 1 + Len(inputs)
        /\ \A i \in 1 .. 1 + Len(inputs) : acc[i] = IF i <= 1 THEN <<a>>[i] ELSE inputs[i - 1]
    BY <1>2, <2>1, ConcatProperties
  <2> HIDE DEF acc
  <2>4. 1 \in 1 .. 1 + Len(inputs)
    BY <2>2
  <2>5. acc[1] = a
    BY <2>1, <2>3, <2>4
  <2>6. \A j \in 1 .. Len(acc) : j # 1 => j - 1 \in 1 .. Len(inputs) /\ acc[j] = inputs[j - 1]
    BY <2>2, <2>3
  <2> QED
    BY <2>3, <2>5, <2>6
<1>7. \A j \in 1 .. Len(inputs) : inputs[j].r # r
  BY <1>2, <1>4 DEF ToSet
<1> HIDE DEF acc
<1>8. "construct" \in OpKinds
  BY DEF OpKinds
<1>9. /\ Len(ops') = Len(ops) + 1 /\ Len(ops) \in Nat
      /\ ops'[Len(ops) + 1].kind = "construct" /\ ops'[Len(ops) + 1].acc = acc
      /\ \A i \in 1 .. Len(ops) : ops'[i] = ops[i]
  BY <1>4, <1>6, <1>8, AppendOpFacts
<1>10. \A j, l \in 1 .. Len(acc) : acc[j].r = acc[l].r => j = l
  <2> SUFFICES ASSUME NEW j \in 1 .. Len(acc), NEW l \in 1 .. Len(acc), acc[j].r = acc[l].r
               PROVE  j = l
    OBVIOUS
  <2>1. CASE j = 1 \/ l = 1
    BY <1>5, <1>6, <1>7, <2>1
  <2>2. CASE j # 1 /\ l # 1
    <3>1. j - 1 = l - 1
      BY <1>3, <1>6, <2>2
    <3>2. j \in Int /\ l \in Int
      BY <1>6
    <3> QED
      BY <3>1, <3>2
  <2> QED
    BY <2>1, <2>2
<1>11. ASSUME NEW j \in 1 .. Len(acc), acc[j].mode # "write"
       PROVE  acc[j].r \in 1 .. Len(res) /\ defined[acc[j].r]
  <2>1. j # 1
    BY <1>5, <1>6, <1>11
  <2>2. j - 1 \in 1 .. Len(inputs) /\ acc[j] = inputs[j - 1]
    BY <1>6, <2>1
  <2> QED
    BY <1>2, <1>3, <1>11, <2>2, Zenon
<1>12. Len(res') = Len(res) /\ \A y \in 1 .. Len(res) : res'[y].kind = res[y].kind /\ res'[y].owner = res[y].owner
  <2> DEFINE z == res[r]
             k == Len(ops) + 1
  <2>1. res \in Seq(ResourceSet) /\ Len(ops) \in Nat
    BY DEF RecInv, RecTypes
  <2>2. z \in ResourceSet /\ k \in Nat
    BY <1>1, <2>1
  <2>3. x = [z EXCEPT !.cons = k]
    OBVIOUS
  <2> HIDE DEF z, k, x
  <2>4. x \in ResourceSet /\ x.kind = z.kind /\ x.owner = z.owner
    BY <2>2, <2>3, ChangedResource
  <2>5. /\ Len([res EXCEPT ![r] = x]) = Len(res) /\ [res EXCEPT ![r] = x][r] = x
        /\ \A y \in 1 .. Len(res) : y # r => [res EXCEPT ![r] = x][y] = res[y]
    BY <1>1, <2>1, <2>4, ExceptFacts
  <2> QED
    BY <1>4, <2>4, <2>5 DEF z
<1>13. Grown(res, ops, phis, res', ops', phis')
  <2>1. Len(phis) \in Nat /\ Len(res) \in Nat
    BY DEF RecInv, RecTypes
  <2> QED
    BY <1>4, <1>9, <1>12, <2>1 DEF Grown
<1>14. ASSUME NEW y \in 1 .. Len(res'), defined'[y]
       PROVE  \/ LeavesValue(ops'[Len(ops) + 1], y)
              \/ y \in 1 .. Len(res) /\ defined[y] /\ ~SetsValue(ops'[Len(ops) + 1], y)
  <2>1. y \in 1 .. Len(res) /\ DefinedAfter(acc)[y]
    BY <1>4, <1>12, <1>14
  <2> QED
    BY <1>6, <1>9, <1>10, <2>1, DefinedAfterFed
<1> HIDE DEF x
<1> QED
  BY <1>4, <1>6, <1>8, <1>10, <1>11, <1>13, <1>14, AppendFed

LEMMA OnlyScopesFed ==
    ASSUME RecInv, RecInv', ValueInv, UNCHANGED <<res, defined, ops, phis>>,
           \A b \in 1 .. Len(ifs') :
              \/ b \in 1 .. Len(ifs) /\ ifs'[b] = ifs[b]
              \/ CondFed(res, ops, phis, ifs'[b].begin, ifs'[b].cond),
           \A s \in 1 .. Len(scopes') :
              (s \in 1 .. Len(scopes) /\ scopes'[s] = scopes[s])
                 \/ ScopeFed(res, ops, phis, scopes', s)
    PROVE  ValueInv'
<1>1. StreamGrows(res, ops, phis, res', ops', phis')
  BY GrownSame, SameGrows
<1>2. \A r \in 1 .. Len(res') : defined'[r] => r \in 1 .. Len(res) /\ defined[r] /\ ops' = ops
  OBVIOUS
<1> QED
  BY <1>1, <1>2, ValueStep

LEMMA BeginIfFed ==
    ASSUME RecInv, RecInv', ValueInv, NEW r \in Handles, BeginIf(r)
    PROVE  ValueInv'
<1> DEFINE scope == [kind |-> "then", cond |-> r, phi |-> 0, begin |-> Len(ops), alt |-> 0]
<1>1. r \in 1 .. Len(res) /\ r \in Nat
  BY HandlesFacts
<1>2. scopes' = Append(scopes, scope) /\ UNCHANGED <<res, defined, ops, phis, ifs>> /\ defined[r]
  BY DEF BeginIf, Enter
<1>3. scopes \in Seq(ScopeSet) /\ Len(ops) \in Nat
  BY DEF RecInv, RecTypes
<1>4. scope \in ScopeSet /\ scope.kind = "then" /\ scope.cond = r /\ scope.begin = Len(ops)
  BY <1>1, <1>3 DEF ScopeSet
<1> HIDE DEF scope
<1>5. /\ scopes'[Len(scopes) + 1] = scope
      /\ \A s \in 1 .. Len(scopes) : scopes'[s] = scopes[s]
      /\ \A s \in 1 .. Len(scopes') : s \in 1 .. Len(scopes) \/ s = Len(scopes) + 1
  BY <1>2, <1>3, <1>4, AppendSeq
<1>6. CondFed(res, ops, phis, Len(ops), r)
  BY <1>1, <1>2, NowFed
<1>7. ScopeFed(res, ops, phis, scopes', Len(scopes) + 1)
  BY <1>4, <1>5, <1>6 DEF ScopeFed
<1> QED
  BY <1>2, <1>5, <1>7, OnlyScopesFed

LEMMA BeginElseFed ==
    ASSUME RecInv, RecInv', ValueInv, BeginElse
    PROVE  ValueInv'
<1> DEFINE k == Len(scopes)
           y == scopes[k]
           n == Len(ops)
           x == [y EXCEPT !.kind = "else", !.alt = n]
<1>1. /\ scopes # <<>> /\ scopes' = [scopes EXCEPT ![k] = x] /\ y.kind = "then"
      /\ UNCHANGED <<res, defined, ops, phis, ifs>>
  BY DEF BeginElse, Last
<1>2. scopes \in Seq(ScopeSet) /\ n \in Nat
  BY DEF RecInv, RecTypes
<1>3. k \in 1 .. Len(scopes) /\ y \in ScopeSet
  BY <1>1, <1>2, FrontFacts
<1>4. CondFed(res, ops, phis, y.begin, y.cond)
  <2>1. ScopeFed(res, ops, phis, scopes, k)
    BY <1>3 DEF ValueInv
  <2> QED
    BY <1>1, <2>1 DEF ScopeFed
<1>5. x \in ScopeSet /\ x.kind = "else" /\ x.cond = y.cond /\ x.begin = y.begin
  <2>1. x = [y EXCEPT !.kind = "else", !.alt = n]
    OBVIOUS
  <2> HIDE DEF x, y, n
  <2> QED
    BY <1>2, <1>3, <2>1 DEF ScopeSet
<1> HIDE DEF x
<1>6. /\ Len(scopes') = Len(scopes) /\ scopes'[k] = x
      /\ \A s \in 1 .. Len(scopes) : s # k => scopes'[s] = scopes[s]
  <2>1. /\ Len([scopes EXCEPT ![k] = x]) = Len(scopes)
        /\ [scopes EXCEPT ![k] = x][k] = x
        /\ \A s \in 1 .. Len(scopes) : s # k => [scopes EXCEPT ![k] = x][s] = scopes[s]
    <3> HIDE DEF k
    <3> QED
      BY <1>2, <1>3, <1>5, ExceptFacts
  <2> QED
    BY <1>1, <2>1
<1>7. ScopeFed(res, ops, phis, scopes', k)
  BY <1>4, <1>5, <1>6 DEF ScopeFed
<1> HIDE DEF y, k, n
<1> QED
  BY <1>1, <1>6, <1>7, OnlyScopesFed

LEMMA EndIfFed ==
    ASSUME RecInv, RecInv', ValueInv, EndIf
    PROVE  ValueInv'
<1> DEFINE s == Last(scopes)
           x == [cond |-> s.cond, begin |-> s.begin, alt |-> s.alt, end |-> Len(ops)]
<1>1. /\ scopes # <<>> /\ s.kind = "else" /\ scopes' = Front(scopes)
      /\ ifs' = Append(ifs, x) /\ UNCHANGED <<res, defined, ops, phis>>
  BY DEF EndIf, Leave
<1>2. scopes \in Seq(ScopeSet) /\ ifs \in Seq(IfSet) /\ Len(ops) \in Nat
  BY DEF RecInv, RecTypes
<1>3. /\ Len(scopes) \in 1 .. Len(scopes) /\ s = scopes[Len(scopes)] /\ s \in ScopeSet
      /\ \A i \in 1 .. Len(Front(scopes)) : i \in 1 .. Len(scopes) /\ Front(scopes)[i] = scopes[i]
  BY <1>1, <1>2, FrontFacts
<1>4. CondFed(res, ops, phis, s.begin, s.cond)
  <2>1. ScopeFed(res, ops, phis, scopes, Len(scopes))
    BY <1>3 DEF ValueInv
  <2> QED
    BY <1>1, <1>3, <2>1 DEF ScopeFed
<1>5. x \in IfSet /\ x.cond = s.cond /\ x.begin = s.begin
  <2>1. s.cond \in Nat /\ s.begin \in Nat /\ s.alt \in Nat
    BY <1>3 DEF ScopeSet
  <2> HIDE DEF s
  <2> QED
    BY <1>2, <2>1 DEF IfSet
<1> HIDE DEF s, x
<1>6. /\ ifs'[Len(ifs) + 1] = x
      /\ \A b \in 1 .. Len(ifs) : ifs'[b] = ifs[b]
      /\ \A b \in 1 .. Len(ifs') : b \in 1 .. Len(ifs) \/ b = Len(ifs) + 1
  BY <1>1, <1>2, <1>5, AppendSeq
<1> QED
  BY <1>1, <1>3, <1>4, <1>5, <1>6, OnlyScopesFed

LEMMA RejectIfFed ==
    ASSUME RecInv, RecInv', ValueInv, RejectIf
    PROVE  ValueInv'
<1>1. /\ UNCHANGED <<res, defined, ops, phis, ifs>>
      /\ \E depth \in 0 .. Len(scopes) - 1 : scopes' = SubSeq(scopes, 1, depth)
  BY DEF RejectIf
<1>2. PICK depth \in 0 .. Len(scopes) - 1 : scopes' = SubSeq(scopes, 1, depth)
  BY <1>1
<1>3. scopes \in Seq(ScopeSet) /\ Len(scopes) \in Nat
  BY DEF RecInv, RecTypes
<1>4. Len(scopes') = depth /\ \A s \in 1 .. depth : scopes'[s] = scopes[s]
  <2>1. \A s \in 1 .. depth : scopes[s] \in ScopeSet
    BY <1>3
  <2>2. /\ Len(SubSeq(scopes, 1, depth)) = IF 1 <= depth THEN depth - 1 + 1 ELSE 0
        /\ \A i \in 1 .. depth - 1 + 1 : SubSeq(scopes, 1, depth)[i] = scopes[1 + i - 1]
    BY <2>1, SubSeqProperties
  <2> QED
    BY <1>2, <2>2
<1>5. \A s \in 1 .. Len(scopes') : s \in 1 .. Len(scopes) /\ scopes'[s] = scopes[s]
  BY <1>2, <1>3, <1>4
<1> QED
  BY <1>1, <1>5, OnlyScopesFed

LEMMA ValuesStay ==
    ASSUME RecInv, ValueInv, [Next]_vars
    PROVE  ValueInv'
<1>1. RecInv'
  BY RecorderStays
<1>2. ASSUME RecNext PROVE ValueInv'
  BY <1>1, <1>2, ResourceFed, ExternalFed, ProjectFed, PhiIsFed, FeedbackFed, ConstructFed, OpIsFed,
     CutoffFed, DiscardFed, BoundaryFed, BeginWhileFed, EndWhileFed, BeginIfFed,
     BeginElseFed, EndIfFed, RejectIfFed DEF RecNext
<1>3. ASSUME UNCHANGED recVars PROVE ValueInv'
  BY <1>1, <1>3, OnlyScopesFed DEF recVars
<1> QED
  BY <1>2, <1>3 DEF Next, vars, Record, End, Lower, Resolve, Order, Analyze, Allocate, EmitTables,
     Plan, Pass

LEMMA ValuesBegin == RecInit => ValueInv
BY DEF RecInit, ValueInv

LEMMA ValuesHold == Spec => []ValueInv
<1>1. Init => ValueInv
  BY ValuesBegin DEF Init
<1>2. RecInv /\ ValueInv /\ [Next]_vars => ValueInv'
  BY ValuesStay
<1>3. Compiles => RecInv
  BY DEF Compiles
<1> QED
  BY <1>1, <1>2, <1>3, CompilerInvariant, PTL DEF Spec

-----------------------------------------------------------------------------
(* What a step of lower_values() does to the values the resources hold.     *)
SameBut(R, r, before, after) == \A x \in 1 .. R : x # r => after[x] = before[x]

Defined(R, r, st, d) ==
    /\ d.current[r] # 0 /\ SameBut(R, r, st.current, d.current)
    /\ d.phis = st.phis /\ d.ifs = st.ifs /\ d.fail = st.fail

LEMMA DefineEffect ==
    ASSUME NEW R \in Nat, NEW k \in Nat, NEW st, LowerInv(R, k, st), NEW r \in 1 .. R, NEW node, NEW ext
    PROVE  Defined(R, r, st, Define(st, r, node, ext))
<1> DEFINE m == Len(st.values)
           vs == Append(st.values, [res |-> r, producer |-> node, ext |-> ext])
           cs == [st.current EXCEPT ![r] = m + 1]
           d == Define(st, r, node, ext)
<1>1. st \in LowerStates(R, k, m) /\ m \in Nat
  BY DEF LowerInv, LowerStates
<1>2. d = [st EXCEPT !.values = vs, !.current = cs]
  BY DEF Define
<1>3. st.current \in [1 .. R -> 0 .. m]
  BY <1>1 DEF LowerStates
<1> HIDE DEF m, vs, d
<1>4. cs[r] = m + 1 /\ SameBut(R, r, st.current, cs) /\ m + 1 # 0
  BY <1>1, <1>3 DEF SameBut
<1> HIDE DEF cs
<1>5. /\ d.current = cs /\ d.phis = st.phis /\ d.ifs = st.ifs /\ d.fail = st.fail
      /\ d.nodes = st.nodes
  BY <1>1, <1>2 DEF LowerStates
<1> QED
  BY <1>4, <1>5 DEF d, Defined

Needs(kind, a) == kind # "discard" /\ ~a.ser /\ a.mode # "write"
Leaves(kind, a) == kind # "discard" /\ ~a.ser /\ a.mode \in {"write", "read_write"}
Touches(kind, a) == ~a.ser /\ (kind = "discard" \/ a.mode # "read")

LEMMA AccessEffect ==
    ASSUME NEW s, Len(s.res) \in Nat, NEW k \in Nat, NEW st, LowerInv(Len(s.res), k, st),
           NEW kind, NEW node, NEW index, NEW a \in ArgsOf(Len(s.res)),
           Needs(kind, a) => st.current[a.r] # 0
    PROVE  LET d == LowerAccess(s, kind, node, index, st, a)
           IN  /\ SameBut(Len(s.res), a.r, st.current, d.current)
               /\ Leaves(kind, a) => d.current[a.r] # 0
               /\ ~Touches(kind, a) => d.current[a.r] = st.current[a.r]
               /\ d.phis = st.phis /\ d.ifs = st.ifs /\ d.fail = st.fail
<1> DEFINE R == Len(s.res)
           m == Len(st.values)
           held == st.current[a.r]
           fresh == \/ kind = "construct" /\ index = 1
                    \/ s.res[a.r].kind = "cutoff"
           uses == ~a.ser /\ kind # "discard" /\ (a.mode # "write" \/ ~fresh)
           defines == ~a.ser /\ kind # "discard" /\ a.mode \in {"write", "read_write"}
           ends == ~a.ser /\ (kind = "discard" \/ a.mode = "consume")
           lowered == [r |-> a.r, mode |-> a.mode, ser |-> a.ser,
                       in |-> IF uses THEN held ELSE 0,
                       out |-> IF defines THEN Len(st.values) + 1 ELSE 0]
           after == IF defines THEN Define(st, a.r, node, FALSE)
                    ELSE IF ends THEN [st EXCEPT !.current[a.r] = 0]
                    ELSE st
           lost == uses /\ a.mode # "write" /\ held = 0
           d == LowerAccess(s, kind, node, index, st, a)
           new == Append(after.acc, lowered)
           f == after.fail \/ lost
<1>1. d = [after EXCEPT !.acc = new, !.fail = f]
  BY DEF LowerAccess
<1>2. st \in LowerStates(R, k, m) /\ m \in Nat /\ R \in Nat
  BY DEF LowerInv, LowerStates
<1>3. a.r \in 1 .. R /\ a.mode \in ModeNames /\ a.ser \in BOOLEAN
  BY DEF ArgsOf
<1>4. ~lost
  BY DEF Needs
<1>5. (defines <=> Leaves(kind, a)) /\ (ends => Touches(kind, a)) /\ (Leaves(kind, a) => Touches(kind, a))
  BY DEF Leaves, Touches
<1> HIDE DEF lost, lowered, uses, fresh, held, d, new
<1>6. /\ SameBut(R, a.r, st.current, after.current)
      /\ Leaves(kind, a) => after.current[a.r] # 0
      /\ ~Touches(kind, a) => after.current[a.r] = st.current[a.r]
      /\ after.phis = st.phis /\ after.ifs = st.ifs /\ after.fail = st.fail
      /\ DOMAIN after = DOMAIN st
  <2>1. CASE defines
    <3> DEFINE r == a.r
               no == FALSE
               z == Define(st, r, node, no)
    <3>1. after = z
      BY <2>1
    <3>2. r \in 1 .. R /\ LowerInv(R, k, st)
      BY <1>3
    <3>3. Leaves(kind, a) /\ Touches(kind, a)
      BY <1>5, <2>1
    <3>6. DOMAIN z = DOMAIN st
      BY DEF Define
    <3> HIDE DEF after, defines, ends, r, R, no
    <3>4. Defined(R, r, st, z)
      BY <1>2, <3>2, DefineEffect
    <3> HIDE DEF z
    <3> QED
      BY <3>1, <3>3, <3>4, <3>6 DEF r, Defined
  <2>2. CASE ~defines /\ ends
    <3>1. after = [st EXCEPT !.current[a.r] = 0]
      BY <2>2
    <3> DEFINE cs == [st.current EXCEPT ![a.r] = 0]
    <3>2. after = [st EXCEPT !.current = cs]
      BY <3>1
    <3>3. SameBut(R, a.r, st.current, cs)
      <4>1. st.current \in [1 .. R -> 0 .. m]
        BY <1>2 DEF LowerStates
      <4> HIDE DEF m, R
      <4> QED
        BY <4>1 DEF SameBut
    <3>5. ~Leaves(kind, a) /\ Touches(kind, a)
      BY <1>5, <2>2
    <3> HIDE DEF after, defines, ends, cs, m, R
    <3>4. after.current = cs /\ after.phis = st.phis /\ after.ifs = st.ifs /\ after.fail = st.fail
          /\ DOMAIN after = DOMAIN st
      BY <1>2, <3>2 DEF LowerStates
    <3> QED
      BY <3>3, <3>4, <3>5
  <2>3. CASE ~defines /\ ~ends
    <3>1. after = st /\ ~Leaves(kind, a)
      BY <1>5, <2>3
    <3> HIDE DEF after, defines, ends
    <3> QED
      BY <3>1 DEF SameBut
  <2> QED
    BY <2>1, <2>2, <2>3
<1>7. f <=> st.fail
  BY <1>4, <1>6
<1>8. DOMAIN st = {"values", "current", "nodes", "phis", "acc", "fail", "ifs"} /\ st.fail \in BOOLEAN
  BY <1>2 DEF LowerStates
<1> HIDE DEF after, defines, ends, R, m, f
<1>9. d.current = after.current /\ d.phis = after.phis /\ d.ifs = after.ifs /\ d.fail = f
  BY <1>1, <1>6, <1>8
<1>10. f = st.fail
  BY <1>4, <1>6, <1>8 DEF f
<1> QED
  BY <1>6, <1>9, <1>10 DEF d, R

(* All accesses of an operation that names a resource once.                *)
AccessedUpTo(R, kind, acc, st, d, i) ==
    /\ \A x \in 1 .. R : (\A j \in 1 .. i : acc[j].r = x => ~Touches(kind, acc[j])) =>
          d.current[x] = st.current[x]
    /\ \A j \in 1 .. i : Leaves(kind, acc[j]) => d.current[acc[j].r] # 0
    /\ d.phis = st.phis /\ d.ifs = st.ifs /\ d.fail = st.fail

LEMMA OneMoreAccess ==
    ASSUME NEW R \in Nat, NEW kind, NEW acc \in Seq(ArgsOf(R)), NEW st, NEW y, NEW d,
           NEW i \in Nat, i + 1 \in 1 .. Len(acc),
           \A j, l \in 1 .. Len(acc) : acc[j].r = acc[l].r => j = l,
           AccessedUpTo(R, kind, acc, st, y, i),
           SameBut(R, acc[i + 1].r, y.current, d.current),
           Leaves(kind, acc[i + 1]) => d.current[acc[i + 1].r] # 0,
           ~Touches(kind, acc[i + 1]) => d.current[acc[i + 1].r] = y.current[acc[i + 1].r],
           d.phis = y.phis, d.ifs = y.ifs, d.fail = y.fail
    PROVE  AccessedUpTo(R, kind, acc, st, d, i + 1)
<1> DEFINE a == acc[i + 1]
<1>1. \A j \in 1 .. i : j \in 1 .. i + 1 /\ j \in 1 .. Len(acc) /\ j # i + 1
  OBVIOUS
<1>2. \A j \in 1 .. i + 1 : j \in 1 .. i \/ j = i + 1
  OBVIOUS
<1>3. \A j \in 1 .. Len(acc) : acc[j].r \in 1 .. R
  <2>1. \A j \in 1 .. Len(acc) : acc[j] \in ArgsOf(R)
    OBVIOUS
  <2> QED
    BY <2>1, Zenon DEF ArgsOf
<1>4. i + 1 \in 1 .. i + 1
  OBVIOUS
<1>5. ASSUME NEW x \in 1 .. R, \A j \in 1 .. i + 1 : acc[j].r = x => ~Touches(kind, acc[j])
      PROVE  d.current[x] = st.current[x]
  <2>1. y.current[x] = st.current[x]
    <3>1. \A j \in 1 .. i : acc[j].r = x => ~Touches(kind, acc[j])
      BY <1>1, <1>5, Zenon
    <3> QED
      BY <3>1, Zenon DEF AccessedUpTo
  <2>2. CASE acc[i + 1].r = x
    <3>1. ~Touches(kind, acc[i + 1])
      BY <1>4, <1>5, <2>2, Zenon
    <3> QED
      BY <2>1, <2>2, <3>1, Zenon
  <2>3. CASE acc[i + 1].r # x
    BY <2>1, <2>3, Zenon DEF SameBut
  <2> QED
    BY <2>2, <2>3
<1>6. ASSUME NEW j \in 1 .. i + 1, Leaves(kind, acc[j])
      PROVE  d.current[acc[j].r] # 0
  <2>1. CASE j = i + 1
    BY <1>6, <2>1
  <2>2. CASE j \in 1 .. i
    <3>1. y.current[acc[j].r] # 0
      BY <1>6, <2>2, Zenon DEF AccessedUpTo
    <3>2. acc[j].r # acc[i + 1].r
      BY <1>1, <2>2, Zenon
    <3>3. d.current[acc[j].r] = y.current[acc[j].r]
      BY <1>1, <1>3, <2>2, <3>2, Zenon DEF SameBut
    <3> QED
      BY <3>1, <3>3, Zenon
  <2> QED
    BY <1>2, <2>1, <2>2
<1>7. d.phis = st.phis /\ d.ifs = st.ifs /\ d.fail = st.fail
  BY Zenon DEF AccessedUpTo
<1> QED
  BY <1>5, <1>6, <1>7, Zenon DEF AccessedUpTo

LEMMA AccessesEffect ==
    ASSUME NEW s, Len(s.res) \in Nat, NEW k \in Nat, NEW st, LowerInv(Len(s.res), k, st),
           NEW kind, NEW node \in 0 .. k, NEW acc \in Seq(ArgsOf(Len(s.res))),
           \A j, l \in 1 .. Len(acc) : acc[j].r = acc[l].r => j = l,
           \A j \in 1 .. Len(acc) : Needs(kind, acc[j]) => st.current[acc[j].r] # 0
    PROVE  AccessedUpTo(Len(s.res), kind, acc, st, LowerAll(s, kind, node, acc, st), Len(acc))
<1> DEFINE c == [s |-> s, kind |-> kind, node |-> node, acc |-> acc]
           R == Len(s.res)
           E(i) == Accesses!After(c, st, i)
           T == {i \in Nat : i <= Len(acc) =>
                    LowerInv(R, k, E(i)) /\ AccessedUpTo(R, kind, acc, st, E(i), i)}
<1>0. Len(acc) \in Nat /\ R \in Nat
  OBVIOUS
<1>1. 0 \in T
  <2>1. E(0) = st
    BY Accesses!AfterNone
  <2>2. AccessedUpTo(R, kind, acc, st, st, 0)
    BY DEF AccessedUpTo
  <2> HIDE DEF E
  <2> QED
    BY <2>1, <2>2
<1>2. ASSUME NEW i \in Nat, i \in T PROVE i + 1 \in T
  <2> SUFFICES ASSUME i + 1 <= Len(acc)
               PROVE  LowerInv(R, k, E(i + 1)) /\ AccessedUpTo(R, kind, acc, st, E(i + 1), i + 1)
    OBVIOUS
  <2>1. LowerInv(R, k, E(i)) /\ AccessedUpTo(R, kind, acc, st, E(i), i)
    BY <1>0, <1>2
  <2>2. E(i + 1) = AccessStep(c, E(i), i + 1)
    BY Accesses!AfterNext
  <2> DEFINE y == E(i)
             h == i + 1
             a == acc[h]
             d == LowerAccess(s, kind, node, h, y, a)
  <2>3. E(i + 1) = d
    BY <2>2 DEF AccessStep
  <2>4. a \in ArgsOf(R) /\ h \in 1 .. Len(acc) /\ \A j \in 1 .. i : j \in 1 .. Len(acc) /\ j # h
    BY <1>0
  <2>5. LowerInv(R, k, y) /\ AccessedUpTo(R, kind, acc, st, y, i)
    BY <2>1
  <2> HIDE DEF E, y
  <2>6. Needs(kind, a) => y.current[a.r] # 0
    <3> SUFFICES ASSUME Needs(kind, a) PROVE y.current[a.r] # 0
      OBVIOUS
    <3>1. st.current[a.r] # 0
      BY <2>4
    <3>2. \A j \in 1 .. i : acc[j].r # a.r
      BY <2>4
    <3>3. a.r \in 1 .. R
      BY <2>4 DEF ArgsOf
    <3> HIDE DEF a, h
    <3>4. y.current[a.r] = st.current[a.r]
      BY <2>5, <3>2, <3>3 DEF AccessedUpTo
    <3> QED
      BY <3>1, <3>4
  <2>7. LowerInv(R, k, d)
    <3> HIDE DEF a, h, d
    <3>1. LET z == LowerAccess(s, kind, node, h, y, a) IN LowerInv(Len(s.res), k, z)
      BY <2>4, <2>5, LowerAccessKeeps
    <3> QED
      BY <3>1 DEF d
  <2>8. /\ SameBut(R, a.r, y.current, d.current)
        /\ Leaves(kind, a) => d.current[a.r] # 0
        /\ ~Touches(kind, a) => d.current[a.r] = y.current[a.r]
        /\ d.phis = y.phis /\ d.ifs = y.ifs /\ d.fail = y.fail
    <3> HIDE DEF a, h
    <3> QED
      BY <2>4, <2>5, <2>6, AccessEffect
  <2>9. AccessedUpTo(R, kind, acc, st, d, h)
    <3> HIDE DEF d
    <3> QED
      BY <2>4, <2>5, <2>8, OneMoreAccess
  <2> HIDE DEF d
  <2> QED
    BY <2>3, <2>7, <2>9
<1>3. AccessedUpTo(R, kind, acc, st, E(Len(acc)), Len(acc))
  <2>1. Len(acc) \in T
    <3> HIDE DEF T
    <3> QED
      BY <1>0, <1>1, <1>2, Accesses!Induction
  <2> HIDE DEF E
  <2> QED
    BY <1>0, <2>1
<1>4. LowerAll(s, kind, node, acc, st) = E(Len(acc))
  BY DEF LowerAll, Iterate, Accesses!After, AccessStep
<1> HIDE DEF E
<1> QED
  BY <1>3, <1>4

-----------------------------------------------------------------------------
(* The pass in front of operation k + 1, when the phis of P have been lowered: *)
(* every resource that holds a value in the recording has one in the pass,    *)
(* nothing is lost, and what is unresolved is due here or later.              *)
Held(s, k, P, current) ==
    \A r \in 1 .. Len(s.res) : Holds(s.ops, DeclaredFull(s.res, s.phis, P), k, r) => current[r] # 0

LatePhi(s, h, q) ==
    /\ q.condres = 0
    /\ \E p \in 1 .. Len(s.phis) :
          /\ q.fbres = s.phis[p].fb /\ q.fbpos = s.phis[p].fbpos
          /\ q.fb = 0 => s.phis[p].fbpos >= h

LateIf(s, h, b, q) ==
    /\ q.condres = s.ifs[b].cond /\ q.begin = s.ifs[b].begin
    /\ q.cond = 0 => s.ifs[b].begin >= h

LatePhis(s, h, ps) == \A j \in 1 .. Len(ps) : LatePhi(s, h, ps[j])

LateIfs(s, h, is) ==
    /\ Len(is) = Len(s.ifs)
    /\ \A b \in 1 .. Len(s.ifs) : LateIf(s, h, b, is[b])

Fed(s, k, h, P, st) ==
    /\ ~st.fail
    /\ Held(s, k, P, st.current)
    /\ LatePhis(s, h, st.phis) /\ LateIfs(s, h, st.ifs)

(* A valid recording without loops of its own, that reads what is there.    *)
FedStream(s) ==
    /\ GoodStream(s)
    /\ \A i \in 1 .. Len(s.ops) : OpFed(s.res, s.ops, s.phis, i)
    /\ \A p \in 1 .. Len(s.phis) :
          /\ PhiFed(s.res, s.ops, s.phis, p) /\ ~s.phis[p].loop
          /\ s.phis[p].pos \in 0 .. Len(s.ops)
          /\ s.phis[p].pos <= s.phis[p].fbpos /\ s.phis[p].fbpos <= Len(s.ops)
    /\ \A b \in 1 .. Len(s.ifs) :
          /\ CondFed(s.res, s.ops, s.phis, s.ifs[b].begin, s.ifs[b].cond)
          /\ s.ifs[b].begin <= Len(s.ops)

LEMMA HeldAmong ==
    ASSUME NEW s, GoodStream(s), NEW k \in Nat, NEW P, NEW st, NEW h, Fed(s, k, h, P, st),
           NEW Q, Q \subseteq P, NEW r \in 1 .. Len(s.res),
           Holds(s.ops, DeclaredFull(s.res, s.phis, Q), k, r)
    PROVE  st.current[r] # 0
<1>1. DeclaredFull(s.res, s.phis, Q) \subseteq DeclaredFull(s.res, s.phis, P)
  BY DEF DeclaredFull
<1>2. Holds(s.ops, DeclaredFull(s.res, s.phis, P), k, r)
  BY <1>1 DEF Holds
<1> QED
  BY <1>2, Zenon DEF Fed, Held

LEMMA IfsResolved ==
    ASSUME NEW s, FedStream(s), NEW k \in Nat, NEW P, PhisUpTo(s.phis, k) \subseteq P,
           NEW st, NEW n \in Nat, LowerInv(Len(s.res), n, st), Fed(s, k, k, P, st)
    PROVE  LET d == ResolveIfConditions(st, k)
           IN  ~d.fail /\ d.current = st.current /\ d.phis = st.phis /\ LateIfs(s, k + 1, d.ifs)
<1> DEFINE m == Len(st.values)
           R == Len(s.res)
           here == {b \in DOMAIN st.ifs : st.ifs[b].begin = k /\ st.ifs[b].cond = 0}
           is == [b \in DOMAIN st.ifs |->
                    IF b \in here THEN [st.ifs[b] EXCEPT !.cond = st.current[st.ifs[b].condres]]
                    ELSE st.ifs[b]]
           fail == st.fail \/ \E b \in here : st.current[st.ifs[b].condres] = 0
           d == ResolveIfConditions(st, k)
<1>1. st \in LowerStates(R, n, m)
  BY DEF LowerInv
<1>2. d = [st EXCEPT !.ifs = is, !.fail = fail]
  BY DEF ResolveIfConditions
<1>3. /\ st.ifs \in Seq(LoweredIfSet(R, m)) /\ Len(st.ifs) \in Nat /\ DOMAIN st.ifs = 1 .. Len(st.ifs)
      /\ DOMAIN st = {"values", "current", "nodes", "phis", "acc", "fail", "ifs"}
  BY <1>1 DEF LowerStates
<1>4. Len(st.ifs) = Len(s.ifs) /\ ~st.fail
  BY DEF Fed, LateIfs
<1>5. ASSUME NEW b \in 1 .. Len(s.ifs)
      PROVE  /\ LateIf(s, k, b, st.ifs[b])
             /\ s.ifs[b].begin \in Nat /\ s.ifs[b].cond \in 1 .. R
             /\ CondFed(s.res, s.ops, s.phis, s.ifs[b].begin, s.ifs[b].cond)
             /\ st.ifs[b] \in LoweredIfSet(R, m)
  <2>1. LateIf(s, k, b, st.ifs[b])
    BY Zenon DEF Fed, LateIfs
  <2>2. GoodStream(s) /\ CondFed(s.res, s.ops, s.phis, s.ifs[b].begin, s.ifs[b].cond)
    BY DEF FedStream
  <2>3. s.ifs[b] \in IfSet /\ s.ifs[b].cond \in 1 .. R
    BY <2>2 DEF GoodStream
  <2>4. s.ifs[b].begin \in Nat
    BY <2>3 DEF IfSet
  <2>5. st.ifs[b] \in LoweredIfSet(R, m)
    BY <1>3, <1>4
  <2> QED
    BY <2>1, <2>2, <2>3, <2>4, <2>5
<1>6. ASSUME NEW b \in here PROVE st.current[st.ifs[b].condres] # 0
  <2>1. b \in 1 .. Len(s.ifs) /\ st.ifs[b].begin = k
    BY <1>3, <1>4
  <2>2. st.ifs[b].condres = s.ifs[b].cond /\ s.ifs[b].begin = k
    BY <1>5, <2>1 DEF LateIf
  <2>3. Holds(s.ops, DeclaredFull(s.res, s.phis, PhisUpTo(s.phis, k)), k, s.ifs[b].cond)
    BY <1>5, <2>1, <2>2 DEF CondFed
  <2> DEFINE Q == PhisUpTo(s.phis, k)
             r == s.ifs[b].cond
  <2>4. r \in 1 .. R /\ GoodStream(s) /\ Q \subseteq P
    BY <1>5, <2>1 DEF FedStream
  <2> HIDE DEF Q, r, here
  <2>5. Holds(s.ops, DeclaredFull(s.res, s.phis, Q), k, r)
    BY <2>3 DEF Q, r
  <2>6. st.current[r] # 0
    BY <2>4, <2>5, HeldAmong
  <2> QED
    BY <2>2, <2>6 DEF r
<1>7. ~fail
  <2> HIDE DEF here
  <2> QED
    BY <1>4, <1>6
<1>8. Len(is) = Len(s.ifs) /\ DOMAIN is = 1 .. Len(s.ifs)
  BY <1>3, <1>4
<1>9. ASSUME NEW b \in 1 .. Len(s.ifs) PROVE LateIf(s, k + 1, b, is[b])
  <2>0. b \in DOMAIN st.ifs
    BY <1>3, <1>4
  <2>1. CASE b \in here
    <3>1. is[b] = [st.ifs[b] EXCEPT !.cond = st.current[st.ifs[b].condres]]
      BY <2>0, <2>1
    <3>2. st.current[st.ifs[b].condres] # 0
      BY <1>6, <2>1
    <3> DEFINE q == st.ifs[b]
               z == st.current[st.ifs[b].condres]
    <3>3. q \in LoweredIfSet(R, m) /\ is[b] = [q EXCEPT !.cond = z] /\ z # 0
          /\ LateIf(s, k, b, q)
      BY <1>5, <3>1, <3>2
    <3> HIDE DEF q, z, is, here, R, m, fail
    <3>4. is[b].condres = q.condres /\ is[b].begin = q.begin /\ is[b].cond = z
      BY <3>3 DEF LoweredIfSet
    <3> QED
      BY <3>3, <3>4 DEF LateIf
  <2>2. CASE b \notin here
    <3>1. is[b] = st.ifs[b]
      BY <2>0, <2>2
    <3>2. st.ifs[b].begin # k \/ st.ifs[b].cond # 0
      BY <2>0, <2>2
    <3> HIDE DEF is, here, R, m, fail
    <3> QED
      BY <1>5, <3>1, <3>2 DEF LateIf
  <2> QED
    BY <2>1, <2>2
<1> HIDE DEF is, fail, here, m, R, d
<1>10. d.ifs = is /\ d.fail = fail /\ d.current = st.current /\ d.phis = st.phis
  BY <1>2, <1>3
<1> QED
  BY <1>7, <1>8, <1>9, <1>10 DEF d, LateIfs

LEMMA PhisResolved ==
    ASSUME NEW s, FedStream(s), NEW k \in Nat, NEW P, PhisUpTo(s.phis, k) \subseteq P,
           NEW st, NEW n \in Nat, LowerInv(Len(s.res), n, st), ~st.fail, Held(s, k, P, st.current),
           LatePhis(s, k, st.phis)
    PROVE  LET d == ResolveFeedback(st, k)
           IN  ~d.fail /\ d.current = st.current /\ d.ifs = st.ifs /\ LatePhis(s, k + 1, d.phis)
<1> DEFINE m == Len(st.values)
           R == Len(s.res)
           here == {p \in DOMAIN st.phis : st.phis[p].fb = 0 /\ st.phis[p].fbpos = k}
           Now(r) == IF r = 0 THEN 0 ELSE st.current[r]
           ps == [p \in DOMAIN st.phis |->
                      IF p \in here
                      THEN [st.phis[p] EXCEPT !.fb = Now(st.phis[p].fbres),
                                              !.cond = Now(st.phis[p].condres)]
                      ELSE st.phis[p]]
           fail == st.fail \/ \E p \in here :
                          \/ Now(st.phis[p].fbres) = 0
                          \/ st.phis[p].condres # 0 /\ Now(st.phis[p].condres) = 0
           d == ResolveFeedback(st, k)
<1>1. st \in LowerStates(R, n, m)
  BY DEF LowerInv
<1>2. d = [st EXCEPT !.phis = ps, !.fail = fail]
  BY DEF ResolveFeedback
<1>3. /\ st.phis \in Seq(LoweredPhiSet(R, n, m)) /\ Len(st.phis) \in Nat
      /\ DOMAIN st.phis = 1 .. Len(st.phis)
      /\ DOMAIN st = {"values", "current", "nodes", "phis", "acc", "fail", "ifs"}
  BY <1>1 DEF LowerStates
<1>4. ASSUME NEW p \in 1 .. Len(s.phis)
      PROVE  /\ s.phis[p].fb \in 1 .. R /\ s.phis[p].fb # 0 /\ s.phis[p].fbpos \in Int
             /\ CondFed(s.res, s.ops, s.phis, s.phis[p].fbpos, s.phis[p].fb)
  <2>1. GoodStream(s) /\ PhiFed(s.res, s.ops, s.phis, p) /\ ~s.phis[p].loop
    BY DEF FedStream
  <2>2. s.phis[p] \in PhiSet /\ s.phis[p].fb \in 1 .. R
    BY <2>1 DEF GoodStream
  <2>3. s.phis[p].fbpos \in Int /\ s.phis[p].fb # 0
    BY <2>2 DEF PhiSet
  <2>4. CondFed(s.res, s.ops, s.phis, s.phis[p].fbpos, s.phis[p].fb)
    BY <2>1, <2>3, Zenon DEF PhiFed
  <2> QED
    BY <2>2, <2>3, <2>4
<1>5. ASSUME NEW j \in here
      PROVE  st.phis[j].condres = 0 /\ st.phis[j].fbres # 0 /\ st.current[st.phis[j].fbres] # 0
  <2> DEFINE q == st.phis[j]
  <2>1. LatePhi(s, k, q) /\ q.fb = 0 /\ q.fbpos = k
    BY <1>3 DEF LatePhis
  <2> HIDE DEF q, here
  <2>2. PICK p \in 1 .. Len(s.phis) : q.fbres = s.phis[p].fb /\ q.fbpos = s.phis[p].fbpos
    BY <2>1 DEF LatePhi
  <2> DEFINE Q == PhisUpTo(s.phis, k)
             r == s.phis[p].fb
  <2>3. CondFed(s.res, s.ops, s.phis, k, r)
    BY <1>4, <2>1, <2>2
  <2>4. r \in 1 .. R /\ r # 0
    BY <1>4
  <2> HIDE DEF Q, r, R
  <2>5. Holds(s.ops, DeclaredFull(s.res, s.phis, Q), k, r)
    BY <2>3, Zenon DEF CondFed, Q
  <2>6. DeclaredFull(s.res, s.phis, Q) \subseteq DeclaredFull(s.res, s.phis, P)
    BY Zenon DEF DeclaredFull, Q
  <2>7. Holds(s.ops, DeclaredFull(s.res, s.phis, P), k, r)
    BY <2>5, <2>6 DEF Holds
  <2>8. st.current[r] # 0
    BY <2>4, <2>7, Zenon DEF Held, R
  <2>9. q.condres = 0 /\ q.fbres = r
    BY <2>1, <2>2 DEF LatePhi, r
  <2> QED
    BY <2>4, <2>8, <2>9 DEF q
<1>6. ~fail
  <2> HIDE DEF here
  <2> QED
    BY <1>5
<1>7. Len(ps) = Len(st.phis) /\ DOMAIN ps = 1 .. Len(st.phis)
  BY <1>3
<1>8. ASSUME NEW j \in 1 .. Len(st.phis) PROVE LatePhi(s, k + 1, ps[j])
  <2> DEFINE q == st.phis[j]
  <2>0. j \in DOMAIN st.phis /\ LatePhi(s, k, q) /\ q \in LoweredPhiSet(R, n, m)
    BY <1>3 DEF LatePhis
  <2>1. CASE j \in here
    <3> DEFINE f == Now(q.fbres)
               c == Now(q.condres)
    <3>1. ps[j] = [q EXCEPT !.fb = f, !.cond = c]
      BY <2>0, <2>1
    <3>2. f # 0
      BY <1>5, <2>1
    <3> HIDE DEF f, c, here, ps, q, R, m, fail
    <3>3. /\ ps[j].fb = f /\ ps[j].condres = q.condres /\ ps[j].fbres = q.fbres
          /\ ps[j].fbpos = q.fbpos
      BY <2>0, <3>1 DEF LoweredPhiSet
    <3> QED
      BY <2>0, <3>2, <3>3, Zenon DEF LatePhi
  <2>2. CASE j \notin here
    <3>1. ps[j] = q
      BY <2>0, <2>2
    <3>2. q.fb # 0 \/ q.fbpos # k
      BY <2>0, <2>2
    <3> HIDE DEF ps, here, R, m, fail, q
    <3>3. PICK p \in 1 .. Len(s.phis) : /\ q.fbres = s.phis[p].fb /\ q.fbpos = s.phis[p].fbpos
                                        /\ q.fb = 0 => s.phis[p].fbpos >= k
      BY <2>0 DEF LatePhi
    <3>4. q.fb = 0 => s.phis[p].fbpos >= k + 1
      BY <1>4, <3>2, <3>3
    <3>5. q.condres = 0
      BY <2>0 DEF LatePhi
    <3> QED
      BY <3>1, <3>3, <3>4, <3>5, Zenon DEF LatePhi
  <2> QED
    BY <2>1, <2>2
<1> HIDE DEF ps, fail, here, m, R, d
<1>9. d.phis = ps /\ d.fail = fail /\ d.current = st.current /\ d.ifs = st.ifs
  BY <1>2, <1>3
<1> QED
  BY <1>6, <1>7, <1>8, <1>9 DEF d, LatePhis

(* Both resolutions in front of operation k + 1, in the order given.       *)
LEMMA AllResolved ==
    ASSUME NEW s, FedStream(s), NEW k \in Nat, NEW P, PhisUpTo(s.phis, k) \subseteq P,
           NEW st, NEW n \in Nat, LowerInv(Len(s.res), n, st), Fed(s, k, k, P, st)
    PROVE  /\ Fed(s, k, k + 1, P, ResolveFeedback(ResolveIfConditions(st, k), k))
           /\ Fed(s, k, k + 1, P, ResolveIfConditions(ResolveFeedback(st, k), k))
<1>1. /\ ~st.fail /\ Held(s, k, P, st.current)
      /\ LatePhis(s, k, st.phis) /\ LateIfs(s, k, st.ifs)
      /\ Len(s.res) \in Nat
  BY DEF Fed, FedStream, GoodStream
<1>2. Fed(s, k, k + 1, P, ResolveFeedback(ResolveIfConditions(st, k), k))
  <2> DEFINE x == ResolveIfConditions(st, k)
             y == ResolveFeedback(x, k)
  <2>1. ~x.fail /\ x.current = st.current /\ x.phis = st.phis /\ LateIfs(s, k + 1, x.ifs)
    BY IfsResolved
  <2>2. LowerInv(Len(s.res), n, x)
    BY <1>1, ResolveIfKeeps
  <2> HIDE DEF x
  <2>3. Held(s, k, P, x.current) /\ LatePhis(s, k, x.phis)
    BY <1>1, <2>1
  <2>4. ~y.fail /\ y.current = x.current /\ y.ifs = x.ifs /\ LatePhis(s, k + 1, y.phis)
    BY <2>1, <2>2, <2>3, PhisResolved
  <2> HIDE DEF y
  <2>5. Fed(s, k, k + 1, P, y)
    BY <1>1, <2>1, <2>4 DEF Fed
  <2> QED
    BY <2>5 DEF x, y
<1>3. Fed(s, k, k + 1, P, ResolveIfConditions(ResolveFeedback(st, k), k))
  <2> DEFINE x == ResolveFeedback(st, k)
             y == ResolveIfConditions(x, k)
  <2>1. ~x.fail /\ x.current = st.current /\ x.ifs = st.ifs /\ LatePhis(s, k + 1, x.phis)
    BY <1>1, PhisResolved
  <2>2. LowerInv(Len(s.res), n, x)
    BY <1>1, ResolveFeedbackKeeps
  <2> HIDE DEF x
  <2>3. Fed(s, k, k, P, x)
    <3>1. ASSUME NEW j \in 1 .. Len(x.phis) PROVE LatePhi(s, k, x.phis[j])
      <4>1. LatePhi(s, k + 1, x.phis[j])
        BY <2>1 DEF LatePhis
      <4>2. \A p \in 1 .. Len(s.phis) : s.phis[p].fbpos \in Int
        <5>1. s.phis \in Seq(PhiSet)
          BY DEF FedStream, GoodStream
        <5>2. \A p \in 1 .. Len(s.phis) : s.phis[p] \in PhiSet
          BY <5>1
        <5> QED
          BY <5>2, Zenon DEF PhiSet
      <4>3. \A p \in 1 .. Len(s.phis) : s.phis[p].fbpos >= k + 1 => s.phis[p].fbpos >= k
        BY <4>2
      <4> QED
        BY <4>1, <4>3, Zenon DEF LatePhi
    <3>2. LatePhis(s, k, x.phis)
      BY <3>1 DEF LatePhis
    <3> QED
      BY <1>1, <2>1, <3>2 DEF Fed
  <2>4. ~y.fail /\ y.current = x.current /\ y.phis = x.phis /\ LateIfs(s, k + 1, y.ifs)
    BY <2>2, <2>3, IfsResolved
  <2> HIDE DEF y
  <2>5. Fed(s, k, k + 1, P, y)
    BY <1>1, <2>1, <2>4 DEF Fed
  <2> QED
    BY <2>5 DEF x, y
<1> QED
  BY <1>2, <1>3

-----------------------------------------------------------------------------
(* The nodes of the pass, a phi's and an operation's.                      *)
LEMMA PhiEffect ==
    ASSUME NEW s, GoodStream(s), NEW n \in Nat, NEW st, LowerInv(Len(s.res), n, st),
           NEW node, NEW x, x.phi \in 1 .. Len(s.phis)
    PROVE  LET d == LowerPhi(s, node, st, x)
               p == s.phis[x.phi]
           IN  /\ d.current[p.out] # 0 /\ SameBut(Len(s.res), p.out, st.current, d.current)
               /\ d.ifs = st.ifs /\ (d.fail <=> st.fail \/ st.current[p.init] = 0)
               /\ \E q : /\ d.phis = Append(st.phis, q)
                         /\ q.fbres = p.fb /\ q.condres = p.cond /\ q.fbpos = p.fbpos
<1> DEFINE R == Len(s.res)
           m == Len(st.values)
           p == s.phis[x.phi]
           o == p.out
           ext == FALSE
           init == st.current[p.init]
           after == Define(st, o, node, ext)
           q == [node |-> node, fbres |-> p.fb, condres |-> p.cond, out |-> m + 1, init |-> init,
                 fb |-> 0, cond |-> 0, decl |-> p.pos, fbpos |-> p.fbpos, mif |-> p.mif]
           acc == <<[r |-> p.init, mode |-> "read", ser |-> FALSE, in |-> init, out |-> 0],
                    [r |-> p.fb, mode |-> "read", ser |-> FALSE, in |-> 0, out |-> 0],
                    [r |-> p.out, mode |-> "write", ser |-> FALSE, in |-> 0, out |-> m + 1]>>
           ps == Append(after.phis, q)
           fail == after.fail \/ init = 0
           d == LowerPhi(s, node, st, x)
<1>1. d = [after EXCEPT !.acc = acc, !.phis = ps, !.fail = fail]
  BY DEF LowerPhi
<1>2. o \in 1 .. R /\ R \in Nat
  BY DEF GoodStream
<1>3. DOMAIN after = {"values", "current", "nodes", "phis", "acc", "fail", "ifs"}
  BY DEF Define, LowerInv, LowerStates
<1>4. q.fbres = p.fb /\ q.condres = p.cond /\ q.fbpos = p.fbpos
  OBVIOUS
<1> HIDE DEF acc, ps, fail, d, q, init, p, o, ext, m
<1>5. /\ after.current[o] # 0 /\ SameBut(R, o, st.current, after.current)
      /\ after.phis = st.phis /\ after.ifs = st.ifs /\ after.fail = st.fail
  <2> HIDE DEF R
  <2>1. LowerInv(R, n, st)
    BY DEF R
  <2>2. R \in Nat /\ n \in Nat /\ o \in 1 .. R
    BY <1>2
  <2>3. Defined(R, o, st, after)
    BY <2>1, <2>2, DefineEffect
  <2> HIDE DEF after
  <2> QED
    BY <2>3 DEF Defined
<1> HIDE DEF after, R
<1>6. d.current = after.current /\ d.ifs = after.ifs /\ d.phis = ps /\ d.fail = fail
  BY <1>1, <1>3
<1>7. d.fail <=> st.fail \/ init = 0
  BY <1>5, <1>6 DEF fail
<1>8. d.phis = Append(st.phis, q)
  BY <1>5, <1>6 DEF ps
<1>9. d.current[o] # 0 /\ SameBut(R, o, st.current, d.current) /\ d.ifs = st.ifs
  BY <1>5, <1>6
<1> QED
  BY <1>4, <1>7, <1>8, <1>9, Zenon DEF d, o, p, init, R

LEMMA PhiNodeFed ==
    ASSUME NEW s, FedStream(s), NEW k \in Nat, NEW p \in 1 .. Len(s.phis), s.phis[p].pos = k,
           NEW P, 1 .. p - 1 \subseteq P, NEW st, NEW n \in Nat, LowerInv(Len(s.res), n, st),
           Fed(s, k, k, P, st)
    PROVE  Fed(s, k, k, P \cup {p}, LowerNode(s, st, PhiNodeOf(s, p)))
<1> DEFINE R == Len(s.res)
           x == PhiNodeOf(s, p)
           node == Len(st.nodes) + 1
           none == <<>>
           start == [st EXCEPT !.acc = none]
           done == LowerPhi(s, node, start, x)
           d == LowerNode(s, st, x)
           P2 == P \cup {p}
<1>1. x.kind = "phi" /\ x.phi = p
  BY DEF PhiNodeOf
<1>2. GoodStream(s) /\ R \in Nat
  BY DEF FedStream, GoodStream
<1>3. /\ LowerInv(R, n, start) /\ start.current = st.current /\ start.phis = st.phis
      /\ start.ifs = st.ifs /\ start.fail = st.fail
  <2>1. st \in LowerStates(R, n, Len(st.values))
    BY DEF LowerInv
  <2>2. none \in Seq(AccessSet(R))
    OBVIOUS
  <2> HIDE DEF R, none
  <2>3. start \in LowerStates(R, n, Len(st.values)) /\ start.values = st.values
    BY <2>1, <2>2 DEF LowerStates
  <2>4. LowerInv(R, n, start)
    BY <2>3 DEF LowerInv
  <2>5. /\ start.current = st.current /\ start.phis = st.phis
        /\ start.ifs = st.ifs /\ start.fail = st.fail
    BY <2>1 DEF LowerStates
  <2> QED
    BY <2>4, <2>5
<1>4. d.current = done.current /\ d.phis = done.phis /\ d.ifs = done.ifs /\ d.fail = done.fail
  <2> DEFINE ns == Append(done.nodes, [kind |-> x.kind, src |-> x.src, side |-> x.side, acc |-> done.acc])
  <2>1. d = [done EXCEPT !.nodes = ns]
    BY <1>1 DEF LowerNode
  <2>2. x.phi \in 1 .. Len(s.phis)
    BY <1>1
  <2>3. DOMAIN done = {"values", "current", "nodes", "phis", "acc", "fail", "ifs"}
    <3> HIDE DEF start, x
    <3>1. DOMAIN start = {"values", "current", "nodes", "phis", "acc", "fail", "ifs"}
      BY <1>3 DEF LowerInv, LowerStates
    <3> QED
      BY <3>1 DEF LowerPhi, Define
  <2> HIDE DEF done, ns, d
  <2> QED
    BY <2>1, <2>3
<1> DEFINE a == s.phis[p]
<1>5. /\ done.current[a.out] # 0 /\ SameBut(R, a.out, start.current, done.current)
      /\ done.ifs = start.ifs /\ (done.fail <=> start.fail \/ start.current[a.init] = 0)
      /\ \E q : /\ done.phis = Append(start.phis, q)
                /\ q.fbres = a.fb /\ q.condres = a.cond /\ q.fbpos = a.fbpos
  <2>1. x.phi \in 1 .. Len(s.phis)
    BY <1>1
  <2> DEFINE b == s.phis[x.phi]
  <2>2. b = a
    BY <1>1
  <2>3. LowerInv(Len(s.res), n, start)
    BY <1>3
  <2> HIDE DEF start, x, node, R, d, a
  <2>4. /\ done.current[b.out] # 0 /\ SameBut(Len(s.res), b.out, start.current, done.current)
        /\ done.ifs = start.ifs /\ (done.fail <=> start.fail \/ start.current[b.init] = 0)
        /\ \E q : /\ done.phis = Append(start.phis, q)
                  /\ q.fbres = b.fb /\ q.condres = b.cond /\ q.fbpos = b.fbpos
    BY <1>2, <2>1, <2>3, PhiEffect
  <2> HIDE DEF b, done
  <2> QED
    BY <2>2, <2>4 DEF R
<1> HIDE DEF start, done, x, node, none, d
<1>6. a.init \in 1 .. R /\ a.out \in 1 .. R /\ a \in PhiSet /\ a.cond = 0 /\ a.fbpos >= k
  <2>1. PhiFed(s.res, s.ops, s.phis, p) /\ ~a.loop /\ a.pos <= a.fbpos
    BY DEF FedStream
  <2>2. a.cond = 0
    BY <2>1, Zenon DEF PhiFed
  <2>3. a.init \in 1 .. R /\ a.out \in 1 .. R /\ a \in PhiSet
    BY <1>2 DEF GoodStream
  <2>4. a.pos \in Nat /\ a.fbpos \in Int
    BY <2>3 DEF PhiSet
  <2> QED
    BY <2>1, <2>2, <2>3, <2>4
<1>7. st.current[a.init] # 0
  <2> DEFINE Q == 1 .. p - 1
             r == a.init
  <2>1. Holds(s.ops, DeclaredFull(s.res, s.phis, Q), k, r)
    BY Zenon DEF FedStream, PhiFed
  <2>2. Q \subseteq P /\ r \in 1 .. Len(s.res)
    BY <1>6
  <2> HIDE DEF Q, r, a, R
  <2>3. st.current[r] # 0
    BY <1>2, <2>1, <2>2, HeldAmong
  <2> QED
    BY <2>3 DEF r
<1>8. ~d.fail
  BY <1>3, <1>4, <1>5, <1>7 DEF Fed
<1>9. Held(s, k, P2, d.current)
  <2> SUFFICES ASSUME NEW r \in 1 .. R, Holds(s.ops, DeclaredFull(s.res, s.phis, P2), k, r)
               PROVE  d.current[r] # 0
    BY Zenon DEF Held
  <2>1. CASE r = a.out
    BY <1>4, <1>5, <2>1
  <2>2. CASE r # a.out
    <3>1. r \in DeclaredFull(s.res, s.phis, P2) => r \in DeclaredFull(s.res, s.phis, P)
      BY <2>2, Zenon DEF DeclaredFull
    <3>2. Holds(s.ops, DeclaredFull(s.res, s.phis, P), k, r)
      BY <3>1, Zenon DEF Holds
    <3>3. st.current[r] # 0
      BY <3>2, Zenon DEF Fed, Held
    <3>4. done.current[r] = start.current[r]
      BY <1>5, <2>2, Zenon DEF SameBut
    <3> QED
      BY <1>3, <1>4, <3>3, <3>4
  <2> QED
    BY <2>1, <2>2
<1>10. LatePhis(s, k, d.phis)
  <2>1. PICK q : /\ done.phis = Append(start.phis, q)
                 /\ q.fbres = a.fb /\ q.condres = a.cond /\ q.fbpos = a.fbpos
    BY <1>5
  <2>2. d.phis = Append(st.phis, q)
    BY <1>3, <1>4, <2>1
  <2>3. LatePhi(s, k, q)
    <3>1. q.condres = 0 /\ q.fbres = s.phis[p].fb /\ q.fbpos = s.phis[p].fbpos /\ s.phis[p].fbpos >= k
      BY <1>6, <2>1
    <3> QED
      BY <3>1, Zenon DEF LatePhi
  <2>4. LatePhis(s, k, st.phis)
    BY DEF Fed
  <2>5. \E S : st.phis \in Seq(S)
    BY Zenon DEF LowerInv, LowerStates
  <2> DEFINE ps == st.phis
  <2>6. LatePhis(s, k, ps) /\ d.phis = Append(ps, q) /\ \E S : ps \in Seq(S)
    BY <2>2, <2>4, <2>5
  <2> HIDE DEF ps
  <2>7. Len(ps) \in Nat
    BY <2>6
  <2>8. /\ Len(d.phis) = Len(ps) + 1 /\ d.phis[Len(ps) + 1] = q
        /\ \A j \in 1 .. Len(ps) : d.phis[j] = ps[j]
    BY <2>6
  <2>9. \A j \in 1 .. Len(d.phis) : j \in 1 .. Len(ps) \/ j = Len(ps) + 1
    BY <2>7, <2>8
  <2> QED
    BY <2>3, <2>6, <2>8, <2>9, Zenon DEF LatePhis
<1>11. LateIfs(s, k, d.ifs)
  BY <1>3, <1>4, <1>5 DEF Fed
<1>12. Fed(s, k, k, P2, d)
  <2> HIDE DEF P2
  <2> QED
    BY <1>8, <1>9, <1>10, <1>11, Zenon DEF Fed
<1> QED
  BY <1>12 DEF d, x

LEMMA OpNodeFed ==
    ASSUME NEW s, FedStream(s), NEW k \in Nat, k + 1 \in 1 .. Len(s.ops),
           NEW P, PhisUpTo(s.phis, k) \subseteq P, NEW st, NEW n \in Nat,
           LowerInv(Len(s.res), n, st), Len(st.nodes) = n, Fed(s, k, k, P, st)
    PROVE  Fed(s, k + 1, k + 1, P, LowerNode(s, st, OpNodeOf(s, k + 1)))
<1> DEFINE R == Len(s.res)
           op == s.ops[k + 1]
           x == OpNodeOf(s, k + 1)
           node == Len(st.nodes) + 1
           none == <<>>
           ready == ResolveFeedback(ResolveIfConditions(st, k), k)
           start == [ready EXCEPT !.acc = none]
           kind == op.kind
           acc == op.acc
           done == LowerAll(s, kind, node, acc, start)
           d == LowerNode(s, st, x)
<1>1. GoodStream(s) /\ R \in Nat
  BY DEF FedStream, GoodStream
<1>2. op \in OpSet /\ kind \in OpKinds /\ acc \in Seq(ArgSet) /\ kind # "phi"
  <2>1. op \in OpSet
    BY <1>1 DEF GoodStream
  <2> HIDE DEF op
  <2> QED
    BY <2>1 DEF OpSet, OpKinds
<1>3. acc \in Seq(ArgsOf(R))
  <2>1. x \in Normalized(s) /\ x.acc = acc
    <3>1. x \in Normalized(s)
      BY <1>1, OpNodeType
    <3> QED
      BY <3>1 DEF OpNodeOf
  <2> HIDE DEF x, acc
  <2> QED
    BY <2>1 DEF Normalized
<1>4. x.kind = kind /\ x.src = k /\ x.acc = acc
  BY DEF OpNodeOf
<1>5. Fed(s, k, k + 1, P, ready)
  BY AllResolved
<1>6. LowerInv(R, n, ready) /\ ready.nodes = st.nodes
  <2> DEFINE y == ResolveIfConditions(st, k)
  <2>1. LowerInv(R, n, y) /\ y.nodes = st.nodes
    BY <1>1, ResolveIfKeeps
  <2> HIDE DEF y, R
  <2>2. LowerInv(R, n, ResolveFeedback(y, k)) /\ ResolveFeedback(y, k).nodes = y.nodes
    BY <1>1, <2>1, ResolveFeedbackKeeps
  <2> QED
    BY <2>1, <2>2 DEF y
<1> HIDE DEF ready
<1>7. /\ LowerInv(R, n + 1, start) /\ start.current = ready.current /\ start.phis = ready.phis
      /\ start.ifs = ready.ifs /\ start.fail = ready.fail
  <2> DEFINE m == Len(ready.values)
  <2>1. ready \in LowerStates(R, n, m)
    BY <1>6 DEF LowerInv
  <2>2. none \in Seq(AccessSet(R)) /\ m \in Nat
    BY <2>1 DEF LowerStates
  <2>3. ready \in LowerStates(R, n + 1, m)
    <3>1. n <= n + 1 /\ m <= m /\ n + 1 \in Nat
      BY <2>2
    <3> HIDE DEF m, R
    <3> QED
      BY <1>1, <2>1, <2>2, <3>1, StateGrows DEF R
  <2> HIDE DEF R, none
  <2>4. start \in LowerStates(R, n + 1, m) /\ start.values = ready.values
    BY <2>2, <2>3 DEF LowerStates
  <2>5. LowerInv(R, n + 1, start)
    BY <2>4 DEF LowerInv
  <2>6. /\ start.current = ready.current /\ start.phis = ready.phis
        /\ start.ifs = ready.ifs /\ start.fail = ready.fail
    BY <2>1 DEF LowerStates
  <2> QED
    BY <2>5, <2>6
<1>8. d = [done EXCEPT !.nodes = Append(done.nodes, [kind |-> x.kind, src |-> x.src, side |-> x.side,
                                                     acc |-> done.acc])]
  BY <1>2, <1>4 DEF LowerNode, LowerAll, Iterate, ready
<1>9. node = n + 1 /\ node \in 0 .. n + 1 /\ n + 1 \in Nat
  OBVIOUS
<1> HIDE DEF start, node
<1>10. LowerInv(R, n + 1, done)
  <2> HIDE DEF kind, acc
  <2>1. LET y == LowerAll(s, kind, node, acc, start) IN LowerInv(Len(s.res), n + 1, y)
    BY <1>1, <1>3, <1>7, <1>9, LowerAccessesKeep
  <2> QED
    BY <2>1
<1>11. OpFed(s.res, s.ops, s.phis, k + 1)
  BY DEF FedStream
<1>12. ASSUME NEW r \in 1 .. R, Holds(s.ops, DeclaredFull(s.res, s.phis, P), k, r)
       PROVE  start.current[r] # 0
  BY <1>5, <1>7, <1>12, Zenon DEF Fed, Held
<1>13. ASSUME NEW j \in 1 .. Len(acc), Needs(kind, acc[j]) PROVE start.current[acc[j].r] # 0
  <2>1. Holds(s.ops, DeclaredFull(s.res, s.phis, PhisUpTo(s.phis, (k + 1) - 1)), (k + 1) - 1, acc[j].r)
    BY <1>11, <1>13, Zenon DEF OpFed, Needs
  <2>2. (k + 1) - 1 = k
    OBVIOUS
  <2> DEFINE Q == PhisUpTo(s.phis, k)
  <2>3. Holds(s.ops, DeclaredFull(s.res, s.phis, Q), k, acc[j].r)
    BY <2>1, <2>2
  <2>4. DeclaredFull(s.res, s.phis, Q) \subseteq DeclaredFull(s.res, s.phis, P)
    BY Zenon DEF DeclaredFull
  <2>5. acc[j].r \in 1 .. R
    <3>1. acc[j] \in ArgsOf(R)
      BY <1>3
    <3> QED
      BY <3>1, Zenon DEF ArgsOf
  <2> HIDE DEF Q, acc, op, R
  <2>6. Holds(s.ops, DeclaredFull(s.res, s.phis, P), k, acc[j].r)
    BY <2>3, <2>4, Zenon DEF Holds
  <2> QED
    BY <1>12, <2>5, <2>6
<1>14. \A j, l \in 1 .. Len(acc) : acc[j].r = acc[l].r => j = l
  BY <1>11, Zenon DEF OpFed
<1>15. AccessedUpTo(R, kind, acc, start, done, Len(acc))
  <2>1. /\ \A j \in 1 .. Len(acc) : Needs(kind, acc[j]) => start.current[acc[j].r] # 0
        /\ LowerInv(Len(s.res), n + 1, start) /\ Len(s.res) \in Nat /\ acc \in Seq(ArgsOf(Len(s.res)))
    BY <1>1, <1>3, <1>7, <1>13
  <2> DEFINE n1 == n + 1
  <2>2. n1 \in Nat /\ node \in 0 .. n1 /\ LowerInv(Len(s.res), n1, start)
    BY <1>9, <2>1
  <2> HIDE DEF kind, acc, n1
  <2> QED
    BY <1>14, <2>1, <2>2, AccessesEffect
<1>16. d.current = done.current /\ d.phis = done.phis /\ d.ifs = done.ifs /\ d.fail = done.fail
  <2> DEFINE ns == Append(done.nodes, [kind |-> x.kind, src |-> x.src, side |-> x.side, acc |-> done.acc])
  <2>1. d = [done EXCEPT !.nodes = ns]
    BY <1>8
  <2> HIDE DEF done, ns, d, R
  <2>2. DOMAIN done = {"values", "current", "nodes", "phis", "acc", "fail", "ifs"}
    BY <1>10 DEF LowerInv, LowerStates
  <2> QED
    BY <2>1, <2>2
<1> HIDE DEF d, done, x
<1>17. Held(s, k + 1, P, d.current)
  <2> SUFFICES ASSUME NEW r \in 1 .. R, Holds(s.ops, DeclaredFull(s.res, s.phis, P), k + 1, r)
               PROVE  d.current[r] # 0
    BY Zenon DEF Held
  <2>1. \/ LeavesValue(op, r)
        \/ ~SetsValue(op, r) /\ Holds(s.ops, DeclaredFull(s.res, s.phis, P), k, r)
    BY HoldsNext
  <2>2. CASE LeavesValue(op, r)
    <3>1. PICK j \in 1 .. Len(acc) : acc[j].r = r /\ Leaves(kind, acc[j])
      BY <2>2, Zenon DEF LeavesValue, Leaves
    <3>2. done.current[acc[j].r] # 0
      BY <1>15, <3>1, Zenon DEF AccessedUpTo
    <3> QED
      BY <1>16, <3>1, <3>2
  <2>3. CASE ~SetsValue(op, r) /\ Holds(s.ops, DeclaredFull(s.res, s.phis, P), k, r)
    <3>1. \A j \in 1 .. Len(acc) : acc[j].r = r => ~Touches(kind, acc[j])
      BY <2>3, Zenon DEF SetsValue, Touches
    <3>2. done.current[r] = start.current[r]
      BY <1>15, <3>1, Zenon DEF AccessedUpTo
    <3>3. start.current[r] # 0
      BY <1>12, <2>3
    <3> QED
      BY <1>16, <3>2, <3>3
  <2> QED
    BY <2>1, <2>2, <2>3
<1>18. /\ d.phis = ready.phis /\ d.ifs = ready.ifs /\ d.fail = ready.fail
  BY <1>7, <1>15, <1>16, Zenon DEF AccessedUpTo
<1>19. Fed(s, k + 1, k + 1, P, d)
  BY <1>5, <1>17, <1>18 DEF Fed
<1> QED
  BY <1>19 DEF d, x

-----------------------------------------------------------------------------
(* Before the first node: what is external or projected has its value.      *)
GivenUpTo(s, kind, st, y, i) ==
    /\ \A r \in 1 .. Len(s.res) :
          st.current[r] # 0 \/ (r <= i /\ s.res[r].kind = kind) => y.current[r] # 0
    /\ y.phis = st.phis /\ y.ifs = st.ifs /\ y.fail = st.fail

LEMMA GivenEffect ==
    ASSUME NEW s, Len(s.res) \in Nat, NEW st, LowerInv(Len(s.res), 0, st), NEW kind
    PROVE  GivenUpTo(s, kind, st, Given(s, st, kind), Len(s.res))
<1> DEFINE c == [s |-> s, kind |-> kind]
           R == Len(s.res)
           E(i) == Gives!After(c, st, i)
           T == {i \in Nat : i <= R => LowerInv(R, 0, E(i)) /\ GivenUpTo(s, kind, st, E(i), i)}
<1>1. 0 \in T
  <2>1. E(0) = st
    BY Gives!AfterNone
  <2>2. GivenUpTo(s, kind, st, st, 0)
    BY DEF GivenUpTo
  <2> HIDE DEF E
  <2> QED
    BY <2>1, <2>2
<1>2. ASSUME NEW i \in Nat, i \in T PROVE i + 1 \in T
  <2> SUFFICES ASSUME i + 1 <= R
               PROVE  LowerInv(R, 0, E(i + 1)) /\ GivenUpTo(s, kind, st, E(i + 1), i + 1)
    OBVIOUS
  <2>1. LowerInv(R, 0, E(i)) /\ GivenUpTo(s, kind, st, E(i), i) /\ i + 1 \in 1 .. R /\ R \in Nat
    BY <1>2
  <2>2. E(i + 1) = GivenStep(c, E(i), i + 1)
    BY Gives!AfterNext
  <2> DEFINE y == E(i)
             h == i + 1
             none == 0
             ext == kind = "external"
             d == Define(y, h, none, ext)
  <2>3. IF s.res[h].kind = kind THEN E(h) = d ELSE E(h) = y
    BY <2>2 DEF GivenStep
  <2>4. /\ LowerInv(R, none, y) /\ GivenUpTo(s, kind, st, y, i) /\ ext \in BOOLEAN
        /\ none \in 0 .. none /\ none \in Nat /\ h \in 1 .. R
        /\ \A r \in 1 .. R : r <= h => r <= i \/ r = h
    BY <2>1
  <2>5. CASE s.res[h].kind = kind
    <3> HIDE DEF y, ext, R, c, none, h
    <3>1. LowerInv(R, none, d)
      BY <2>1, <2>4, DefineFacts
    <3>2. Defined(R, h, y, d)
      BY <2>1, <2>4, DefineEffect
    <3> HIDE DEF d
    <3>3. GivenUpTo(s, kind, st, d, h)
      <4> SUFFICES ASSUME NEW r \in 1 .. R, st.current[r] # 0 \/ (r <= h /\ s.res[r].kind = kind)
                   PROVE  d.current[r] # 0
        BY <2>4, <3>2, Zenon DEF GivenUpTo, Defined, R
      <4>1. CASE r = h
        BY <3>2, <4>1 DEF Defined
      <4>2. CASE r # h
        <5>1. d.current[r] = y.current[r]
          BY <3>2, <4>2, Zenon DEF Defined, SameBut
        <5>2. r <= h => r <= i
          BY <2>4, <4>2
        <5>3. y.current[r] # 0
          BY <2>4, <5>2, Zenon DEF GivenUpTo, R
        <5> QED
          BY <5>1, <5>3
      <4> QED
        BY <4>1, <4>2
    <3>4. E(h) = d
      BY <2>3, <2>5
    <3> HIDE DEF E
    <3>5. LowerInv(R, none, E(h)) /\ GivenUpTo(s, kind, st, E(h), h)
      BY <3>1, <3>3, <3>4
    <3> QED
      BY <3>5 DEF none, h
  <2>6. CASE s.res[h].kind # kind
    <3>1. GivenUpTo(s, kind, st, y, h)
      <4> HIDE DEF y, h
      <4>1. \A r \in 1 .. R : r <= h /\ s.res[r].kind = kind => r <= i
        BY <2>4, <2>6
      <4> QED
        BY <2>4, <4>1, Zenon DEF GivenUpTo
    <3>2. E(h) = y
      BY <2>3, <2>6
    <3> HIDE DEF E, y, none, h, R
    <3>3. LowerInv(R, none, E(h)) /\ GivenUpTo(s, kind, st, E(h), h)
      BY <2>4, <3>1, <3>2
    <3> QED
      BY <3>3 DEF none, h
  <2> QED
    BY <2>5, <2>6
<1>3. GivenUpTo(s, kind, st, E(R), R)
  <2>1. R \in T
    <3> HIDE DEF T
    <3> QED
      BY <1>1, <1>2, Gives!Induction
  <2> HIDE DEF E
  <2> QED
    BY <2>1
<1> HIDE DEF E
<1> QED
  BY <1>3 DEF E, Given

LEMMA BlankFed ==
    ASSUME NEW s, FedStream(s)
    PROVE  LET x == Given(s, Given(s, Blank(s), "external"), "projection")
           IN  LowerInv(Len(s.res), 0, x) /\ Len(x.nodes) = 0 /\ Fed(s, 0, 0, {}, x)
<1> DEFINE b == Blank(s)
           first == "external"
           second == "projection"
           y == Given(s, b, first)
           x == Given(s, y, second)
           R == Len(s.res)
<1>1. GoodStream(s) /\ R \in Nat
  BY DEF FedStream, GoodStream
<1>2. LowerInv(R, 0, b) /\ Len(b.nodes) = 0
  BY <1>1, BlankState
<1>3. ~b.fail /\ LatePhis(s, 0, b.phis) /\ LateIfs(s, 0, b.ifs)
  <2>1. s.ifs \in Seq(IfSet) /\ Len(s.ifs) \in Nat /\ DOMAIN s.ifs = 1 .. Len(s.ifs)
    BY <1>1 DEF GoodStream
  <2> DEFINE is == [i \in DOMAIN s.ifs |->
                     [condres |-> s.ifs[i].cond, cond |-> 0, begin |-> s.ifs[i].begin,
                      alt |-> s.ifs[i].alt, end |-> s.ifs[i].end]]
  <2>2. b.ifs = is /\ b.phis = <<>> /\ b.fail = FALSE
    BY DEF Blank
  <2>3. Len(is) = Len(s.ifs)
    BY <2>1
  <2>4. ASSUME NEW i \in 1 .. Len(s.ifs) PROVE LateIf(s, 0, i, is[i])
    <3>1. is[i].condres = s.ifs[i].cond /\ is[i].begin = s.ifs[i].begin
      BY <2>1
    <3>2. s.ifs[i] \in IfSet
      BY <2>1
    <3>3. s.ifs[i].begin >= 0
      BY <3>2 DEF IfSet
    <3> QED
      BY <3>1, <3>3 DEF LateIf
  <2> HIDE DEF is
  <2>5. LateIfs(s, 0, b.ifs)
    BY <2>2, <2>3, <2>4 DEF LateIfs
  <2>6. LatePhis(s, 0, b.phis)
    <3> HIDE DEF b
    <3> QED
      BY <2>2 DEF LatePhis
  <2> QED
    BY <2>2, <2>5, <2>6
<1> HIDE DEF b, R, first, second
<1>4. LowerInv(R, 0, y) /\ y.nodes = b.nodes
  BY <1>1, <1>2, GivenKeeps DEF R
<1>5. GivenUpTo(s, first, b, y, R)
  BY <1>1, <1>2, GivenEffect DEF R
<1> HIDE DEF y
<1>6. LowerInv(R, 0, x) /\ x.nodes = y.nodes
  BY <1>1, <1>4, GivenKeeps DEF R
<1>7. GivenUpTo(s, second, y, x, R)
  BY <1>1, <1>4, GivenEffect DEF R
<1> HIDE DEF x
<1>8. Held(s, 0, {}, x.current)
  <2> SUFFICES ASSUME NEW r \in 1 .. R, Holds(s.ops, DeclaredFull(s.res, s.phis, {}), 0, r)
               PROVE  x.current[r] # 0
    BY Zenon DEF Held, R
  <2>1. r <= R
    BY <1>1
  <2>2. r \in DeclaredFull(s.res, s.phis, {})
    <3>1. 1 .. 0 = {}
      OBVIOUS
    <3> QED
      BY <3>1, Zenon DEF Holds
  <2>3. s.res[r].kind = first \/ s.res[r].kind = second
    BY <2>2 DEF DeclaredFull, first, second
  <2>4. s.res[r].kind = first => y.current[r] # 0
    BY <1>5, <2>1, Zenon DEF GivenUpTo, R
  <2> QED
    BY <1>7, <2>1, <2>3, <2>4, Zenon DEF GivenUpTo, R
<1>9. x.phis = b.phis /\ x.ifs = b.ifs /\ x.fail = b.fail
  BY <1>5, <1>7, Zenon DEF GivenUpTo
<1>10. Fed(s, 0, 0, {}, x)
  BY <1>3, <1>8, <1>9 DEF Fed
<1>11. Len(x.nodes) = 0
  BY <1>2, <1>4, <1>6
<1> QED
  BY <1>6, <1>10, <1>11 DEF x, y, b, first, second, R

-----------------------------------------------------------------------------
(* The walk over what canonicalize() makes.                                *)
LEMMA WalkAppend ==
    ASSUME NEW s, NEW x, NEW S, NEW nodes \in Seq(S), NEW n
    PROVE  LowerNodes(s, x, Append(nodes, n)) = LowerNode(s, LowerNodes(s, x, nodes), n)
<1> DEFINE longer == Append(nodes, n)
           h == Len(nodes)
           c == [s |-> s, normalized |-> nodes]
           cc == [s |-> s, normalized |-> longer]
           T == {k \in Nat : k <= h => Walk!After(cc, x, k) = Walk!After(c, x, k)}
<1>1. /\ h \in Nat /\ Len(longer) = h + 1 /\ longer[h + 1] = n
      /\ \A i \in 1 .. h : longer[i] = nodes[i]
  OBVIOUS
<1>2. 0 \in T
  BY Walk!AfterNone
<1>3. ASSUME NEW k \in Nat, k \in T PROVE k + 1 \in T
  <2> SUFFICES ASSUME k + 1 <= h PROVE Walk!After(cc, x, k + 1) = Walk!After(c, x, k + 1)
    OBVIOUS
  <2>1. Walk!After(cc, x, k) = Walk!After(c, x, k) /\ longer[k + 1] = nodes[k + 1]
    BY <1>1, <1>3
  <2>2. Walk!After(cc, x, k + 1) = NodeStep(cc, Walk!After(cc, x, k), k + 1)
    BY Walk!AfterNext
  <2>3. Walk!After(c, x, k + 1) = NodeStep(c, Walk!After(c, x, k), k + 1)
    BY Walk!AfterNext
  <2> HIDE DEF longer
  <2> QED
    BY <2>1, <2>2, <2>3 DEF NodeStep
<1>4. Walk!After(cc, x, h) = Walk!After(c, x, h)
  <2>1. h \in T
    <3> HIDE DEF T
    <3> QED
      BY <1>1, <1>2, <1>3, Walk!Induction
  <2> QED
    BY <1>1, <2>1
<1>5. Walk!After(cc, x, h + 1) = NodeStep(cc, Walk!After(cc, x, h), h + 1)
  BY <1>1, Walk!AfterNext
<1>6. NodeStep(cc, Walk!After(cc, x, h), h + 1) = LowerNode(s, Walk!After(cc, x, h), n)
  BY <1>1 DEF NodeStep
<1>7. LowerNodes(s, x, longer) = Walk!After(cc, x, Len(longer))
  BY LowerNodesSteps
<1>8. LowerNodes(s, x, nodes) = Walk!After(c, x, h)
  BY LowerNodesSteps
<1> HIDE DEF longer, c, cc, h
<1> QED
  BY <1>1, <1>4, <1>5, <1>6, <1>7, <1>8 DEF longer

WalkFed(s, x, nodes, k, P) ==
    /\ nodes \in Seq(Normalized(s))
    /\ LowerInv(Len(s.res), Len(nodes), LowerNodes(s, x, nodes))
    /\ Len(LowerNodes(s, x, nodes).nodes) = Len(nodes)
    /\ Fed(s, k, k, P, LowerNodes(s, x, nodes))

LEMMA WalkNode ==
    ASSUME NEW s, GoodStream(s), NEW x, NEW nodes, NEW n \in Normalized(s), NEW k, NEW P,
           WalkFed(s, x, nodes, k, P), NEW h, NEW Q,
           Fed(s, h, h, Q, LowerNode(s, LowerNodes(s, x, nodes), n))
    PROVE  WalkFed(s, x, Append(nodes, n), h, Q)
<1> DEFINE y == LowerNodes(s, x, nodes)
           d == LowerNode(s, y, n)
           m == Len(nodes)
<1>1. nodes \in Seq(Normalized(s)) /\ m \in Nat /\ LowerInv(Len(s.res), m, y) /\ Len(y.nodes) = m
  BY DEF WalkFed
<1>2. Append(nodes, n) \in Seq(Normalized(s)) /\ Len(Append(nodes, n)) = m + 1
  BY <1>1
<1>3. LowerNodes(s, x, Append(nodes, n)) = d
  BY <1>1, WalkAppend
<1> HIDE DEF m, y
<1>4. LowerInv(Len(s.res), m + 1, d) /\ Len(d.nodes) = m + 1
  BY <1>1, LowerNodeKeeps
<1>5. Fed(s, h, h, Q, d)
  BY DEF y
<1> HIDE DEF d
<1> QED
  BY <1>2, <1>3, <1>4, <1>5 DEF WalkFed

PhisAhead(ps, k, j) == {p \in 1 .. Len(ps) : ps[p].pos < k \/ (ps[p].pos = k /\ p <= j)}

LEMMA WalkPhis ==
    ASSUME NEW s, FedStream(s), NEW k \in Nat, NEW x, NEW nodes,
           WalkFed(s, x, nodes, k, PhisAhead(s.phis, k, 0))
    PROVE  WalkFed(s, x, AddPhisTo(s, nodes, k), k, PhisUpTo(s.phis, k))
<1> DEFINE c == [s |-> s, position |-> k]
           N == Len(s.phis)
           A(j) == PhisAhead(s.phis, k, j)
           E(j) == PhiAdds!After(c, nodes, j)
           T == {j \in Nat : j <= N => WalkFed(s, x, E(j), k, A(j))}
<1>0. GoodStream(s) /\ N \in Nat /\ \A p \in 1 .. N : s.phis[p].pos \in Nat
  <2>1. GoodStream(s) /\ \A p \in 1 .. N : s.phis[p].pos \in 0 .. Len(s.ops)
    BY DEF FedStream
  <2>2. Len(s.ops) \in Nat /\ N \in Nat
    BY <2>1 DEF GoodStream
  <2> QED
    BY <2>1, <2>2
<1>1. 0 \in T
  <2>1. E(0) = nodes
    BY PhiAdds!AfterNone
  <2> HIDE DEF E
  <2> QED
    BY <2>1
<1>2. ASSUME NEW j \in Nat, j \in T PROVE j + 1 \in T
  <2> SUFFICES ASSUME j + 1 <= N PROVE WalkFed(s, x, E(j + 1), k, A(j + 1))
    OBVIOUS
  <2> DEFINE p == j + 1
  <2>1. WalkFed(s, x, E(j), k, A(j)) /\ p \in 1 .. N
    BY <1>0, <1>2
  <2>2. E(p) = AddPhiStep(c, E(j), p)
    BY PhiAdds!AfterNext
  <2>3. \A q \in Nat : q <= p <=> q <= j \/ q = p
    OBVIOUS
  <2>4. CASE s.phis[p].pos = k
    <3> DEFINE y == E(j)
               n == PhiNodeOf(s, p)
               st == LowerNodes(s, x, y)
               B == A(j)
    <3>1. E(p) = Append(y, n)
      BY <2>2, <2>4 DEF AddPhiStep
    <3>2. A(p) = B \cup {p}
      <4>1. \A q \in 1 .. N : q \in A(p) <=> q \in B \/ q = p
        BY <2>1, <2>3, <2>4 DEF PhisAhead
      <4> QED
        BY <2>1, <4>1 DEF PhisAhead
    <3>3. 1 .. p - 1 \subseteq B
      <4> SUFFICES ASSUME NEW q \in 1 .. p - 1 PROVE q \in B
        OBVIOUS
      <4>1. s.phis[q].pos <= s.phis[p].pos
        BY <2>1, Zenon DEF FedStream, PhiFed
      <4>2. q \in 1 .. N /\ q <= j
        BY <1>0, <2>1
      <4>3. s.phis[q].pos \in Nat
        BY <1>0, <4>2
      <4>4. s.phis[q].pos < k \/ s.phis[q].pos = k
        BY <2>4, <4>1, <4>3
      <4> QED
        BY <4>2, <4>4 DEF PhisAhead
    <3>4. WalkFed(s, x, y, k, B) /\ n \in Normalized(s)
      BY <1>0, <2>1, PhiNodeType
    <3> DEFINE m == Len(y)
    <3>5. LowerInv(Len(s.res), m, st) /\ Fed(s, k, k, B, st) /\ m \in Nat
      <4> HIDE DEF y, B
      <4> QED
        BY <3>4 DEF WalkFed
    <3> HIDE DEF E, A, y, B, m, p, N
    <3>6. Fed(s, k, k, B \cup {p}, LowerNode(s, st, PhiNodeOf(s, p)))
      <4> HIDE DEF st
      <4> QED
        BY <2>1, <2>4, <3>3, <3>5, PhiNodeFed DEF N
    <3> DEFINE Q == B \cup {p}
    <3>7. Fed(s, k, k, Q, LowerNode(s, LowerNodes(s, x, y), n))
      BY <3>6
    <3> HIDE DEF n, Q
    <3>8. WalkFed(s, x, Append(y, n), k, Q)
      BY <1>0, <3>4, <3>7, WalkNode
    <3>9. WalkFed(s, x, E(p), k, A(p))
      BY <3>1, <3>2, <3>8 DEF Q
    <3> QED
      BY <3>9 DEF p
  <2>5. CASE s.phis[p].pos # k
    <3>1. E(p) = E(j)
      BY <2>2, <2>5 DEF AddPhiStep
    <3>2. A(p) = A(j)
      <4>1. \A q \in 1 .. N : q \in A(p) <=> q \in A(j)
        BY <2>3, <2>5 DEF PhisAhead
      <4> QED
        BY <4>1 DEF PhisAhead
    <3> HIDE DEF E, A
    <3> QED
      BY <2>1, <3>1, <3>2
  <2> QED
    BY <2>4, <2>5
<1>3. WalkFed(s, x, E(N), k, A(N))
  <2>1. N \in T
    <3> HIDE DEF T
    <3> QED
      BY <1>0, <1>1, <1>2, PhiAdds!Induction
  <2> HIDE DEF E, A
  <2> QED
    BY <1>0, <2>1
<1>4. A(N) = PhisUpTo(s.phis, k)
  <2>1. \A q \in 1 .. N : s.phis[q].pos < k \/ (s.phis[q].pos = k /\ q <= N) <=> s.phis[q].pos <= k
    BY <1>0
  <2> QED
    BY <2>1 DEF PhisAhead, PhisUpTo
<1>5. AddPhisTo(s, nodes, k) = E(N)
  BY AddPhisSteps
<1> HIDE DEF E, A
<1> QED
  BY <1>3, <1>4, <1>5

LEMMA WalkOps ==
    ASSUME NEW s, FedStream(s), NEW x, WalkFed(s, x, <<>>, 0, {})
    PROVE  WalkFed(s, x, Canonicalize(s), Len(s.ops), PhisUpTo(s.phis, Len(s.ops)))
<1> DEFINE none == <<>>
           E(k) == OpAdds!After(s, none, k)
           A(k) == PhisAhead(s.phis, k, 0)
           T == {k \in Nat : k <= Len(s.ops) => WalkFed(s, x, E(k), k, A(k))}
<1>0. GoodStream(s) /\ Len(s.ops) \in Nat /\ \A p \in 1 .. Len(s.phis) : s.phis[p].pos \in Nat
  <2>1. GoodStream(s) /\ \A p \in 1 .. Len(s.phis) : s.phis[p].pos \in 0 .. Len(s.ops)
    BY DEF FedStream
  <2>2. Len(s.ops) \in Nat
    BY <2>1 DEF GoodStream
  <2> QED
    BY <2>1, <2>2
<1>1. 0 \in T
  <2>1. E(0) = none
    BY OpAdds!AfterNone
  <2>2. A(0) = {}
    BY <1>0 DEF PhisAhead
  <2> HIDE DEF E, A
  <2> QED
    BY <2>1, <2>2
<1>2. ASSUME NEW k \in Nat, k \in T PROVE k + 1 \in T
  <2> SUFFICES ASSUME k + 1 <= Len(s.ops) PROVE WalkFed(s, x, E(k + 1), k + 1, A(k + 1))
    OBVIOUS
  <2> DEFINE y == E(k)
             z == AddPhisTo(s, y, k)
             h == k + 1
             n == OpNodeOf(s, h)
             B == PhisUpTo(s.phis, k)
  <2>1. WalkFed(s, x, y, k, PhisAhead(s.phis, k, 0)) /\ h \in 1 .. Len(s.ops)
    BY <1>0, <1>2
  <2>2. E(h) = AddOpStep(s, y, h)
    BY OpAdds!AfterNext
  <2>3. E(h) = Append(z, n)
    <3>1. h - 1 = k
      OBVIOUS
    <3> HIDE DEF E, y, h
    <3> QED
      BY <2>2, <3>1 DEF AddOpStep
  <2> HIDE DEF E, y
  <2>4. WalkFed(s, x, z, k, B)
    BY <2>1, WalkPhis
  <2>5. A(h) = B
    <3>1. \A q \in 1 .. Len(s.phis) :
             s.phis[q].pos < h \/ (s.phis[q].pos = h /\ q <= 0) <=> s.phis[q].pos <= k
      BY <1>0
    <3> QED
      BY <3>1 DEF PhisAhead, PhisUpTo
  <2>6. n \in Normalized(s)
    BY <1>0, <2>1, OpNodeType
  <2> DEFINE m == Len(z)
             st == LowerNodes(s, x, z)
  <2>7. LowerInv(Len(s.res), m, st) /\ Len(st.nodes) = m /\ Fed(s, k, k, B, st) /\ m \in Nat
    <3> HIDE DEF z, B
    <3> QED
      BY <2>4 DEF WalkFed
  <2>8. Fed(s, h, h, B, LowerNode(s, st, n))
    <3>1. PhisUpTo(s.phis, k) \subseteq B
      OBVIOUS
    <3> HIDE DEF st, m, B
    <3> QED
      BY <2>1, <2>7, <3>1, OpNodeFed
  <2> HIDE DEF z, n, h, B, A
  <2>9. WalkFed(s, x, Append(z, n), h, B)
    BY <1>0, <2>4, <2>6, <2>8, WalkNode
  <2>10. WalkFed(s, x, E(h), h, A(h))
    BY <2>3, <2>5, <2>9
  <2> QED
    BY <2>10 DEF h
<1> DEFINE L == Len(s.ops)
<1>3. WalkFed(s, x, E(L), L, PhisAhead(s.phis, L, 0))
  <2>1. L \in T
    <3> HIDE DEF T
    <3> QED
      BY <1>0, <1>1, <1>2, OpAdds!Induction
  <2> HIDE DEF E
  <2> QED
    BY <1>0, <2>1
<1>4. Canonicalize(s) = AddPhisTo(s, E(L), L)
  BY CanonicalizeSteps
<1> HIDE DEF E, A, L
<1>5. L \in Nat
  BY <1>0 DEF L
<1>6. WalkFed(s, x, AddPhisTo(s, E(L), L), L, PhisUpTo(s.phis, L))
  BY <1>3, <1>5, WalkPhis
<1> QED
  BY <1>4, <1>6 DEF L

(* What the recorder lets through is lowered.                              *)
LEMMA NothingLost ==
    ASSUME NEW s, FedStream(s)
    PROVE  ~LowerValues(s, Canonicalize(s)).fail
<1> DEFINE normalized == Canonicalize(s)
           none == <<>>
           x == Given(s, Given(s, Blank(s), "external"), "projection")
           y == LowerNodes(s, x, normalized)
           L == Len(s.ops)
           P == PhisUpTo(s.phis, L)
           done == ResolveIfConditions(ResolveFeedback(y, L), L)
           m == Len(normalized)
<1>1. LowerInv(Len(s.res), 0, x) /\ Len(x.nodes) = 0 /\ Fed(s, 0, 0, {}, x)
  BY BlankFed
<1>2. WalkFed(s, x, none, 0, {})
  <2>1. LowerNodes(s, x, none) = x
    BY LowerNodesSteps, Walk!AfterNone
  <2>2. none \in Seq(Normalized(s)) /\ Len(none) = 0
    OBVIOUS
  <2> HIDE DEF none, x
  <2> QED
    BY <1>1, <2>1, <2>2 DEF WalkFed
<1> HIDE DEF x
<1>3. WalkFed(s, x, normalized, L, P)
  BY <1>2, WalkOps
<1>4. done = Done(s, normalized)
  <2>1. Walked(s, normalized) = y
    BY LowerNodesSteps DEF Walked, x
  <2> HIDE DEF y, normalized
  <2> QED
    BY <2>1 DEF Done
<1>5. LowerInv(Len(s.res), m, y) /\ Fed(s, L, L, P, y) /\ m \in Nat
  <2> HIDE DEF normalized, L, P
  <2> QED
    BY <1>3 DEF WalkFed
<1>6. L \in Nat /\ PhisUpTo(s.phis, L) \subseteq P
  BY DEF FedStream, GoodStream
<1> HIDE DEF y, m, P, L
<1>7. Fed(s, L, L + 1, P, done)
  BY <1>5, <1>6, AllResolved
<1>8. LowerInv(Len(s.res), m, done)
  <2> DEFINE z == ResolveFeedback(y, L)
  <2>1. LowerInv(Len(s.res), m, z) /\ Len(s.res) \in Nat
    BY <1>5, ResolveFeedbackKeeps DEF FedStream, GoodStream
  <2> HIDE DEF z
  <2>2. LowerInv(Len(s.res), m, ResolveIfConditions(z, L))
    BY <1>5, <2>1, ResolveIfKeeps
  <2> QED
    BY <2>2 DEF z
<1> HIDE DEF done
<1>9. DOMAIN done.phis = 1 .. Len(done.phis) /\ DOMAIN done.ifs = 1 .. Len(done.ifs)
  <2>1. /\ done.phis \in Seq(LoweredPhiSet(Len(s.res), m, Len(done.values)))
        /\ done.ifs \in Seq(LoweredIfSet(Len(s.res), Len(done.values)))
    BY <1>8 DEF LowerInv, LowerStates
  <2> QED
    BY <2>1
<1>10. ASSUME NEW p \in DOMAIN done.phis PROVE done.phis[p].fb # 0
  <2>1. LatePhi(s, L + 1, done.phis[p])
    BY <1>7, <1>9, Zenon DEF Fed, LatePhis
  <2>2. PICK q \in 1 .. Len(s.phis) : done.phis[p].fb = 0 => s.phis[q].fbpos >= L + 1
    BY <2>1, Zenon DEF LatePhi
  <2>3. s.phis[q].fbpos <= L /\ s.phis[q] \in PhiSet
    BY DEF FedStream, GoodStream, L
  <2>4. s.phis[q].fbpos \in Int
    BY <2>3 DEF PhiSet
  <2> QED
    BY <1>6, <2>2, <2>3, <2>4
<1>11. ASSUME NEW b \in DOMAIN done.ifs PROVE done.ifs[b].cond # 0
  <2>1. LateIf(s, L + 1, b, done.ifs[b]) /\ b \in 1 .. Len(s.ifs)
    BY <1>7, <1>9, Zenon DEF Fed, LateIfs
  <2>2. s.ifs[b].begin <= L /\ s.ifs[b] \in IfSet
    BY <2>1 DEF FedStream, GoodStream, L
  <2>3. s.ifs[b].begin \in Nat
    BY <2>2 DEF IfSet
  <2> QED
    BY <1>6, <2>1, <2>2, <2>3 DEF LateIf
<1>12. ~done.fail
  BY <1>7 DEF Fed
<1> HIDE DEF normalized
<1>13. ~LowerValues(s, normalized).fail
  BY <1>4, <1>10, <1>11, <1>12, LowerValuesIs
<1> QED
  BY <1>13 DEF normalized

LEMMA StreamFed ==
    ASSUME RecInv, ValueInv, Valid(Stream), \A p \in DOMAIN phis : ~phis[p].loop
    PROVE  FedStream(Stream)
<1>1. GoodStream(Stream)
  BY ValidStream
<1>2. Stream.res = res /\ Stream.ops = ops /\ Stream.phis = phis /\ Stream.ifs = ifs
  BY DEF Stream
<1>3. /\ ops \in Seq(OpSet) /\ phis \in Seq(PhiSet) /\ ifs \in Seq(IfSet)
      /\ Len(ops) \in Nat /\ DOMAIN phis = 1 .. Len(phis)
  BY DEF RecInv, RecTypes
<1>4. ASSUME NEW p \in 1 .. Len(phis)
      PROVE  /\ PhiFed(res, ops, phis, p) /\ ~phis[p].loop
             /\ phis[p].pos \in 0 .. Len(ops)
             /\ phis[p].pos <= phis[p].fbpos /\ phis[p].fbpos <= Len(ops)
  <2>1. PhiFed(res, ops, phis, p) /\ ~phis[p].loop
    BY <1>3, Zenon DEF ValueInv
  <2>2. PhiLinks(res, ops, phis, p) /\ phis[p] \in PhiSet
    BY <1>3 DEF RecInv, RecLinks
  <2>3. phis[p].fb # 0
    <3>1. phis[p].fb \in 1 .. Len(res)
      BY <1>1, <1>2, Zenon DEF GoodStream
    <3> QED
      BY <3>1
  <2>4. phis[p].pos \in Nat
    BY <2>2 DEF PhiSet
  <2> QED
    BY <1>3, <2>1, <2>2, <2>3, <2>4 DEF PhiLinks
<1>5. ASSUME NEW b \in 1 .. Len(ifs)
      PROVE  CondFed(res, ops, phis, ifs[b].begin, ifs[b].cond) /\ ifs[b].begin <= Len(ops)
  <2>1. CondFed(res, ops, phis, ifs[b].begin, ifs[b].cond)
    BY Zenon DEF ValueInv
  <2>2. IfLinks(res, ops, ifs, b) /\ ifs[b] \in IfSet
    BY <1>3 DEF RecInv, RecLinks
  <2>3. ifs[b].begin \in Nat /\ ifs[b].alt \in Nat /\ ifs[b].end \in Nat
    BY <2>2 DEF IfSet
  <2> QED
    BY <1>3, <2>1, <2>2, <2>3 DEF IfLinks
<1>6. \A i \in 1 .. Len(ops) : OpFed(res, ops, phis, i)
  BY Zenon DEF ValueInv
<1> DEFINE s == Stream
<1>7. GoodStream(s) /\ s.res = res /\ s.ops = ops /\ s.phis = phis /\ s.ifs = ifs
  BY <1>1, <1>2
<1> HIDE DEF s
<1>8. FedStream(s)
  BY <1>4, <1>5, <1>6, <1>7 DEF FedStream
<1> QED
  BY <1>8 DEF s

LEMMA StreamsLower ==
    Compiles /\ ValueInv =>
       (stage = "validated" /\ (\A p \in DOMAIN phis : ~phis[p].loop) =>
           ~LowerValues(Stream, Canonicalize(Stream)).fail)
<1> SUFFICES ASSUME Compiles, ValueInv, stage = "validated", \A p \in DOMAIN phis : ~phis[p].loop
             PROVE  ~LowerValues(Stream, Canonicalize(Stream)).fail
  OBVIOUS
<1>1. RecInv /\ Valid(Stream)
  BY DEF Compiles, CompInv, Validated
<1> QED
  BY <1>1, StreamFed, NothingLost

-----------------------------------------------------------------------------
(* A job stays within what is submitted together: CanAppend() compares the   *)
(* regions of neighbours, so all nodes of a job are of one region.           *)
SameRegion(data, job) ==
    \A i \in 1 .. Len(job) : JobRegion(data, job[i]) = JobRegion(data, job[1])

LEMMA GrowJobRegion ==
    ASSUME NEW n \in Nat, NEW reduced, NEW before, NEW st, GrowInv(n, reduced, before, st),
           NEW data, NEW edges, NEW released, SameRegion(data, st.job)
    PROVE  SameRegion(data, GrowJob(data, edges, reduced, released, st).job)
<1> DEFINE prev == Last(st.job)
           After == {e[2] : e \in {x \in reduced : x[1] = prev}}
           next == Min(After)
           job == st.job
           more == Append(job, next)
           st2 == GrowJob(data, edges, reduced, released, st)
           appends == CanAppend(data, edges, released, st.assigned, st.job[1], prev, next)
           same == JobRegion(data, prev) = JobRegion(data, next)
<1>1. appends => same
  BY DEF CanAppend
<1>2. \/ appends /\ st2 = [st EXCEPT !.job = Append(@, next), !.assigned = @ \cup {next}]
      \/ st2 = [st EXCEPT !.closed = TRUE]
  BY DEF GrowJob
<1>3. DOMAIN st = {"job", "assigned", "closed"} /\ job \in Seq(1 .. n) /\ Len(job) >= 1
  BY DEF GrowInv, JobChain
<1> HIDE DEF appends, st2, next, After
<1>4. \/ same /\ st2.job = more
      \/ st2.job = job
  BY <1>1, <1>2, <1>3
<1>5. SameRegion(data, job)
  OBVIOUS
<1>6. prev = job[Len(job)]
  BY DEF Last
<1> HIDE DEF prev, job
<1>7. CASE same /\ st2.job = more
  <2>1. /\ Len(more) = Len(job) + 1 /\ more[Len(job) + 1] = next /\ Len(job) \in Nat
        /\ \A i \in 1 .. Len(job) : more[i] = job[i]
    BY <1>3
  <2>2. more[1] = job[1]
    BY <1>3, <2>1
  <2> HIDE DEF more
  <2>3. ASSUME NEW i \in 1 .. Len(more) PROVE JobRegion(data, more[i]) = JobRegion(data, more[1])
    <3>1. CASE i \in 1 .. Len(job)
      BY <1>5, <2>1, <2>2, <3>1 DEF SameRegion
    <3>2. CASE i = Len(job) + 1
      <4>1. JobRegion(data, prev) = JobRegion(data, job[1])
        BY <1>3, <1>5, <1>6, <2>1 DEF SameRegion
      <4> QED
        BY <1>7, <2>1, <2>2, <3>2, <4>1
    <3> QED
      BY <2>1, <3>1, <3>2
  <2> QED
    BY <1>7, <2>3 DEF SameRegion, st2
<1>8. CASE st2.job = job
  BY <1>5, <1>8 DEF st2
<1> QED
  BY <1>4, <1>7, <1>8

LEMMA GrownRegion ==
    ASSUME NEW n \in Nat, NEW reduced \in SUBSET ((1 .. n) \X (1 .. n)), NEW before,
           NEW start, GrowInv(n, reduced, before, start),
           NEW data, DOMAIN data.nodes = 1 .. n, NEW edges, NEW released,
           SameRegion(data, start.job)
    PROVE  SameRegion(data, GrownJob(data, edges, reduced, released, start).job)
<1> DEFINE c == [data |-> data, edges |-> edges, reduced |-> reduced, released |-> released]
           E(k) == Grow!After(c, start, k)
           T == {k \in Nat : GrowInv(n, reduced, before, E(k)) /\ SameRegion(data, E(k).job)}
<1>1. 0 \in T
  <2>1. E(0) = start
    BY Grow!AfterNone
  <2> HIDE DEF E
  <2> QED
    BY <2>1
<1>2. ASSUME NEW k \in Nat, k \in T PROVE k + 1 \in T
  <2>1. E(k + 1) = GrowStep(c, E(k), k + 1)
    BY Grow!AfterNext
  <2>2. E(k + 1) = GrowJob(data, edges, reduced, released, E(k))
    BY <2>1 DEF GrowStep
  <2>3. GrowInv(n, reduced, before, E(k)) /\ SameRegion(data, E(k).job)
    BY <1>2
  <2> HIDE DEF E
  <2>4. GrowInv(n, reduced, before, E(k + 1))
    BY <2>2, <2>3, GrowJobKeeps
  <2>5. SameRegion(data, E(k + 1).job)
    BY <2>2, <2>3, GrowJobRegion
  <2> QED
    BY <2>4, <2>5
<1>3. n \in T
  <2> HIDE DEF T
  <2> QED
    BY <1>1, <1>2, Grow!Induction
<1>4. GrownJob(data, edges, reduced, released, start) = E(n)
  <2>1. Cardinality(1 .. n) = n
    BY IntervalSize, Zenon
  <2> QED
    BY <2>1, ZenonT(60) DEF GrownJob, Iterate, Grow!After, GrowStep
<1> HIDE DEF E
<1> QED
  BY <1>3, <1>4

SameRegions(data, jobs) == \A j \in 1 .. Len(jobs) : SameRegion(data, jobs[j])

LEMMA AddJobRegion ==
    ASSUME NEW n \in Nat, NEW reduced \in SUBSET ((1 .. n) \X (1 .. n)),
           NEW data, DOMAIN data.nodes = 1 .. n, NEW edges, NEW released,
           NEW k \in Nat, k < n, NEW st, JobsInv(n, reduced, st, k), SameRegions(data, st.jobs)
    PROVE  SameRegions(data, AddJob(data, edges, reduced, released, st, k + 1).jobs)
<1> DEFINE first == k + 1
           one == <<first>>
           start == [job |-> one, assigned |-> st.assigned \cup {first}, closed |-> FALSE]
           grown == GrownJob(data, edges, reduced, released, start)
           st2 == AddJob(data, edges, reduced, released, st, first)
<1>1. first \in 1 .. n
  OBVIOUS
<1>2. CASE first \in st.assigned
  <2>1. st2 = st
    BY <1>2 DEF AddJob
  <2> QED
    BY <2>1
<1>3. CASE first \notin st.assigned
  <2>1. st2.jobs = Append(st.jobs, grown.job)
    <3>1. st2 = [jobs |-> Append(st.jobs, grown.job), assigned |-> grown.assigned]
      BY <1>3 DEF AddJob, GrownJob
    <3> HIDE DEF st2, grown
    <3> QED
      BY <3>1
  <2>2. /\ ToSet(one) = {first} /\ one \in Seq(1 .. n) /\ Len(one) = 1 /\ one[1] = first
    BY <1>1 DEF ToSet
  <2>3. /\ start.job = one /\ start.assigned = st.assigned \cup {first}
        /\ DOMAIN start = {"job", "assigned", "closed"}
    OBVIOUS
  <2> HIDE DEF start, first, one
  <2>4. JobChain(n, reduced, one)
    BY <1>1, <2>2 DEF JobChain
  <2>5. GrowInv(n, reduced, st.assigned, start)
    BY <1>3, <2>2, <2>3, <2>4 DEF GrowInv
  <2>6. SameRegion(data, start.job)
    <3>1. \A i \in 1 .. Len(one) : i = 1
      BY <2>2
    <3>2. SameRegion(data, one)
      BY <3>1 DEF SameRegion
    <3> QED
      BY <2>3, <3>2
  <2>7. SameRegion(data, grown.job) /\ GrowInv(n, reduced, st.assigned, grown)
    BY <2>5, <2>6, GrownRegion, GrownFacts
  <2> DEFINE S == Seq(1 .. n)
             jobs == st.jobs
             job == grown.job
             more == Append(jobs, job)
  <2>8. jobs \in Seq(S) /\ job \in S
    <3> HIDE DEF grown
    <3>1. job \in Seq(1 .. n)
      BY <2>7 DEF GrowInv, JobChain
    <3> QED
      BY <3>1 DEF JobsInv
  <2>9. SameRegions(data, jobs) /\ SameRegion(data, job)
    BY <2>7
  <2> HIDE DEF S, jobs, job
  <2>10. /\ Len(more) = Len(jobs) + 1 /\ more[Len(jobs) + 1] = job /\ Len(jobs) \in Nat
         /\ \A i \in 1 .. Len(jobs) : more[i] = jobs[i]
    BY <2>8
  <2> HIDE DEF more
  <2>11. SameRegions(data, more)
    <3> SUFFICES ASSUME NEW j \in 1 .. Len(more) PROVE SameRegion(data, more[j])
      BY DEF SameRegions
    <3>1. j \in 1 .. Len(jobs) \/ j = Len(jobs) + 1
      BY <2>10
    <3> QED
      BY <2>9, <2>10, <3>1 DEF SameRegions
  <2> QED
    BY <2>1, <2>11 DEF more, jobs, job, first
<1> QED
  BY <1>2, <1>3

LEMMA PlannedRegions ==
    ASSUME NEW n \in Nat, NEW reduced \in SUBSET ((1 .. n) \X (1 .. n)),
           NEW data, DOMAIN data.nodes = 1 .. n, NEW edges, NEW released
    PROVE  SameRegions(data, PlannedJobs(data, edges, reduced, released))
<1> DEFINE c == [data |-> data, edges |-> edges, reduced |-> reduced, released |-> released]
           none == <<>>
           x == [jobs |-> none, assigned |-> {}]
           E(k) == JobAdds!After(c, x, k)
           T == {k \in Nat : k <= n => JobsInv(n, reduced, E(k), k) /\ SameRegions(data, E(k).jobs)}
<1>1. 0 \in T
  <2>1. E(0) = x
    BY JobAdds!AfterNone
  <2>2. x.jobs = none /\ x.assigned = {} /\ Len(none) = 0 /\ 1 .. 0 = {}
    OBVIOUS
  <2>3. none \in Seq(Seq(1 .. n))
    <3> DEFINE S == Seq(1 .. n)
    <3> HIDE DEF S
    <3>1. none \in Seq(S)
      OBVIOUS
    <3> QED
      BY <3>1 DEF S
  <2> HIDE DEF x, E, none
  <2>4. JobsInv(n, reduced, x, 0) /\ SameRegions(data, x.jobs)
    BY <2>2, <2>3 DEF JobsInv, SameRegions
  <2> QED
    BY <2>1, <2>4
<1>2. ASSUME NEW k \in Nat, k \in T PROVE k + 1 \in T
  <2> SUFFICES ASSUME k + 1 <= n
               PROVE  JobsInv(n, reduced, E(k + 1), k + 1) /\ SameRegions(data, E(k + 1).jobs)
    OBVIOUS
  <2>1. k < n /\ JobsInv(n, reduced, E(k), k) /\ SameRegions(data, E(k).jobs)
    BY <1>2
  <2>2. E(k + 1) = AddJobStep(c, E(k), k + 1)
    BY JobAdds!AfterNext
  <2>3. E(k + 1) = AddJob(data, edges, reduced, released, E(k), k + 1)
    BY <2>2 DEF AddJobStep
  <2> HIDE DEF E
  <2>4. JobsInv(n, reduced, E(k + 1), k + 1)
    BY <2>1, <2>3, AddJobKeeps
  <2>5. SameRegions(data, E(k + 1).jobs)
    BY <2>1, <2>3, AddJobRegion
  <2> QED
    BY <2>4, <2>5
<1>3. SameRegions(data, E(n).jobs)
  <2>1. n \in T
    <3> HIDE DEF T
    <3> QED
      BY <1>1, <1>2, JobAdds!Induction
  <2> HIDE DEF E
  <2> QED
    BY <2>1
<1>4. PlannedJobs(data, edges, reduced, released) = E(n).jobs
  <2>1. Cardinality(1 .. n) = n
    BY IntervalSize, Zenon
  <2>2. AddedJobs(data, edges, reduced, released) = E(n)
    BY <2>1, ZenonT(60) DEF AddedJobs, Iterate, JobAdds!After, AddJobStep
  <2>3. PlannedJobs(data, edges, reduced, released) = AddedJobs(data, edges, reduced, released).jobs
    BY DEF PlannedJobs, AddedJobs
  <2> HIDE DEF E
  <2> QED
    BY <2>2, <2>3
<1> HIDE DEF E
<1> QED
  BY <1>3, <1>4

(* A feedback region holds what is not initialization: a phi, an acquire, or *)
(* a node that runs every time.                                             *)
LEMMA RegionNodes ==
    ASSUME Compiles, stage \in Emitted, NEW n, NEW m, LoweredShape(ir.v, Len(res), n, m),
           NEW k \in DOMAIN ir.data.regions, NEW i \in 1 .. n
    PROVE  /\ k \in Nat \ {0}
           /\ i \in ir.data.regions[k].nodes <=> JobRegion(ir.data, i) = k
<1> DEFINE v == ir.v
           act == ir.act
           data == ir.data
           order == data.order
           at == RuntimeOf
           keys == RegionKeys(v)
           Members(j) == {y \in 1 .. n : InRegion(v, act, keys[j], y)}
           x == order[i]
           in == {j \in DOMAIN data.regions : i \in data.regions[j].nodes}
<1>1. /\ Renumbers(order, at, n) /\ data.regions = EmitRegions(v, [act |-> act], at)
      /\ DOMAIN data.nodes = 1 .. n
      /\ data.nodes[i].init = (act[x].initialization /\ v.nodes[x].kind \notin {"phi", "acquire"})
  <2>1. /\ Renumbers(order, at, n) /\ data.regions = EmitRegions(v, [act |-> act], at)
        /\ DOMAIN data.nodes = 1 .. n
        /\ \A j \in 1 .. n :
              data.nodes[j].init =
                (/\ act[order[j]].initialization
                 /\ v.nodes[order[j]].kind \notin {"phi", "acquire"})
    BY EmittedFacts, ZenonT(60)
  <2> HIDE DEF v, act, order, at, data
  <2> QED
    BY <2>1, ZenonT(60)
<1>2. DOMAIN v.nodes = 1 .. n /\ n \in Nat
  BY DEF LoweredShape
<1>3. x \in 1 .. n /\ at[x] = i /\ \A y \in 1 .. n : order[at[y]] = y
  BY <1>1, <1>2 DEF Renumbers
<1>4. /\ DOMAIN data.regions = DOMAIN keys
      /\ \A j \in DOMAIN keys : data.regions[j].nodes = {at[y] : y \in Members(j)}
  <2> DEFINE gen == [act |-> act]
             Of(j) == {y \in DOMAIN v.nodes : InRegion(v, gen.act, keys[j], y)}
  <2>1. data.regions =
          [j \in DOMAIN keys |->
             [mif |-> keys[j].mif,
              phis |-> {p \in DOMAIN v.phis : SameInterval(v.phis[p], keys[j])},
              nodes |-> {at[y] : y \in Of(j)},
              acquires |-> {at[y] : y \in {z \in Of(j) : v.nodes[z].kind = "acquire"}}]]
    BY <1>1, ZenonT(60) DEF EmitRegions
  <2>2. gen.act = act
    OBVIOUS
  <2> HIDE DEF gen
  <2>3. \A j \in DOMAIN keys : Of(j) = Members(j)
    BY <1>2, <2>2, ZenonT(60)
  <2> HIDE DEF Of, Members, at, keys, data, v
  <2>4. DOMAIN data.regions = DOMAIN keys
    BY <2>1
  <2>5. \A j \in DOMAIN keys : data.regions[j].nodes = {at[y] : y \in Of(j)}
    BY <2>1
  <2> QED
    BY <2>3, <2>4, <2>5
<1>5. ASSUME NEW j \in DOMAIN keys PROVE i \in data.regions[j].nodes <=> InRegion(v, act, keys[j], x)
  <2>1. data.regions[j].nodes = {at[y] : y \in Members(j)}
    BY <1>4
  <2>2. ASSUME NEW y \in 1 .. n, at[y] = i PROVE y = x
    BY <1>3, <2>2
  <2>3. x \in Members(j) <=> InRegion(v, act, keys[j], x)
    BY <1>3
  <2>4. \A y \in Members(j) : y \in 1 .. n
    OBVIOUS
  <2> HIDE DEF Members, at, x, order, keys, data, v, act
  <2> QED
    BY <1>3, <2>1, <2>2, <2>3, <2>4
<1>6. ~RegionsOverlap(v, act)
  <2>1. EmitFound(ir)
    BY DEF Compiles, CompInv
  <2> QED
    BY <2>1 DEF EmitFound, RegionsConsistent
<1>7. \A p \in DOMAIN v.phis : p \in Nat \ {0}
  <2>1. PICK h \in Nat : DOMAIN v.phis = 1 .. h
    BY DEF LoweredShape
  <2> QED
    BY <2>1
<1>8. \A j \in DOMAIN keys : j \in Nat \ {0}
  BY <1>7 DEF RegionKeys
<1>9. \A p \in DOMAIN v.phis : v.nodes[v.phis[p].node].kind = "phi"
  <2>1. Valid(Stream) /\ LowerFound(ir)
    BY DEF Compiles, CompInv, Validated, Lowered, Resolved, Ordered, Analyzed, Allocated
  <2>2. GoodStream(Stream)
    BY <2>1, ValidStream DEF Compiles
  <2>3. v = LowerValues(Stream, Canonicalize(Stream))
    BY <2>1 DEF LowerFound
  <2> HIDE DEF v
  <2> QED
    BY <2>2, <2>3, LoweredPhis
<1>10. ASSUME NEW j \in DOMAIN keys, InRegion(v, act, keys[j], x) PROVE ~data.nodes[i].init
  <2>1. act[x].initialization =>
           (\E p \in ToSet(v.phis) : p.node = x) \/ v.nodes[x].kind = "acquire"
    BY <1>10, ZenonT(60) DEF InRegion
  <2>2. ASSUME NEW p \in ToSet(v.phis), p.node = x PROVE v.nodes[x].kind = "phi"
    <3>1. PICK q \in DOMAIN v.phis : v.phis[q] = p
      BY DEF ToSet
    <3> QED
      BY <1>9, <2>2, <3>1
  <2> HIDE DEF x, v, act, data
  <2> QED
    BY <1>1, <2>1, <2>2
<1>11. in = {j \in DOMAIN keys : InRegion(v, act, keys[j], x)}
  BY <1>4, <1>5
<1>12. ASSUME NEW j \in DOMAIN keys, InRegion(v, act, keys[j], x) PROVE in = {j}
  <2>1. \A l \in DOMAIN keys : InRegion(v, act, keys[l], x) => l = j
    BY <1>2, <1>3, <1>6, <1>12, ZenonT(60) DEF RegionsOverlap
  <2> HIDE DEF in, keys, x, v, act
  <2> QED
    BY <1>11, <1>12, <2>1
<1>13. JobRegion(data, i) = IF data.nodes[i].init THEN -1 ELSE IF in = {} THEN 0 ELSE Min(in)
  BY DEF JobRegion
<1>14. k \in DOMAIN keys /\ k \in Nat \ {0}
  BY <1>4, <1>8
<1>15. ASSUME InRegion(v, act, keys[k], x) PROVE JobRegion(data, i) = k
  <2>1. ~data.nodes[i].init /\ in = {k}
    BY <1>10, <1>12, <1>14, <1>15
  <2> HIDE DEF in, keys, x, v, act, data
  <2>2. Min(in) \in in
    BY <1>14, <2>1, MinFacts
  <2> QED
    BY <1>13, <2>1, <2>2
<1>16. ASSUME JobRegion(data, i) = k PROVE InRegion(v, act, keys[k], x)
  <2>1. in \subseteq Nat
    BY <1>8, <1>11
  <2> HIDE DEF in, keys, x, v, act, data
  <2>2. in # {} /\ k = Min(in)
    BY <1>13, <1>14, <1>16
  <2>3. k \in in
    BY <2>1, <2>2, MinFacts
  <2> QED
    BY <1>11, <2>3
<1> QED
  BY <1>5, <1>14, <1>15, <1>16

(* So no job of the plan begins in a feedback region and leaves it.          *)
LEMMA JobsStayInRegions ==
    ASSUME Compiles, stage \in Emitted
    PROVE  ~JobCrossesRegion(ir.data, BuildJobPlan(ir.data))
<1> DEFINE data == ir.data
           edges == NodeEdges(data)
           jobs == PlanJobs(data)
           plan == BuildJobPlan(data)
<1>1. stage \in Lowered
  BY DEF Lowered, Resolved, Ordered, Analyzed, Allocated
<1>2. PICK n, m : LoweredShape(ir.v, Len(res), n, m)
  BY <1>1, LoweredStream, SMTT(60)
<1>3. n \in Nat
  BY <1>2 DEF LoweredShape
<1>4. DOMAIN data.nodes = 1 .. n
  BY <1>2, EmittedFacts
<1> DEFINE reduced == TransitiveReduction(1 .. n, edges)
<1>5. edges \in SUBSET ((1 .. n) \X (1 .. n)) /\ reduced \in SUBSET ((1 .. n) \X (1 .. n))
  BY <1>4 DEF NodeEdges, TransitiveReduction
<1>6. jobs = PlannedJobs(data, edges, reduced, ReleaseBoundary(data))
  BY <1>4 DEF PlanJobs
<1>7. \A k \in DOMAIN data.regions, i \in 1 .. n :
         /\ k \in Nat \ {0}
         /\ i \in data.regions[k].nodes <=> JobRegion(data, i) = k
  BY <1>2, RegionNodes
<1> DEFINE waits == JobEdges(data, jobs)
           kept == TransitiveReduction(DOMAIN jobs, waits)
<1>8. plan = DescribeJobs(data, jobs, kept)
  BY SMTT(60) DEF BuildJobPlan, ReduceJobs
<1> HIDE DEF plan, jobs, edges, reduced, data, kept
<1>9. JobsHold(n, reduced, jobs) /\ SameRegions(data, jobs)
  <2> DEFINE planned == PlannedJobs(data, edges, reduced, ReleaseBoundary(data))
  <2>1. JobsHold(n, reduced, planned)
    BY <1>3, <1>4, <1>5, PlannedJobsFacts
  <2>2. SameRegions(data, planned)
    BY <1>3, <1>4, <1>5, PlannedRegions
  <2> HIDE DEF planned
  <2> QED
    BY <1>6, <2>1, <2>2 DEF planned
<1>10. DOMAIN jobs = 1 .. Len(jobs)
  BY <1>9, JobsCount
<1>11. DOMAIN plan = DOMAIN jobs /\ \A j \in DOMAIN jobs : plan[j].nodes = jobs[j]
  BY <1>8 DEF DescribeJobs
<1>12. ASSUME NEW k \in DOMAIN data.regions, NEW j \in RegionJobs(data, plan, k)
       PROVE  ToSet(plan[j].nodes) \subseteq data.regions[k].nodes
  <2>1. j \in DOMAIN jobs /\ plan[j].nodes = jobs[j] /\ jobs[j][1] \in data.regions[k].nodes
    BY <1>11 DEF RegionJobs
  <2> DEFINE job == jobs[j]
  <2>2. JobChain(n, reduced, job) /\ SameRegion(data, job)
    BY <1>9, <1>10, <2>1 DEF JobsHold, SameRegions
  <2>3. job[1] \in data.regions[k].nodes /\ plan[j].nodes = job
    BY <2>1
  <2> HIDE DEF job
  <2>4. Len(job) \in Nat /\ Len(job) >= 1 /\ DOMAIN job = 1 .. Len(job)
        /\ \A p \in 1 .. Len(job) : job[p] \in 1 .. n
    <3>1. Len(job) >= 1
      BY <2>2 DEF JobChain
    <3> QED
      BY <2>2, <3>1, ChainNodes
  <2>5. JobRegion(data, job[1]) = k
    <3>1. job[1] \in 1 .. n
      BY <2>4
    <3> QED
      BY <1>7, <2>3, <3>1
  <2>6. ASSUME NEW p \in 1 .. Len(job) PROVE job[p] \in data.regions[k].nodes
    <3>1. JobRegion(data, job[p]) = k /\ job[p] \in 1 .. n
      BY <2>2, <2>4, <2>5 DEF SameRegion
    <3> QED
      BY <1>7, <3>1
  <2>7. ToSet(job) \subseteq data.regions[k].nodes
    BY <2>4, <2>6 DEF ToSet
  <2> QED
    BY <2>3, <2>7
<1>13. ~JobCrossesRegion(data, plan)
  BY <1>12 DEF JobCrossesRegion
<1> QED
  BY <1>13 DEF data, plan

(* ValidRecordingsCompile: whatever was recorded, a stream end() accepts has *)
(* a value behind each of its uses unless a while may have consumed its own  *)
(* condition, and the job plan of an emitted program never mixes a feedback  *)
(* region with what is submitted apart from it.                              *)
THEOREM ValidRecordingsCompileHolds == Spec => []ValidRecordingsCompile
<1>1. Compiles /\ ValueInv => ValidRecordingsCompile
  <2> SUFFICES ASSUME Compiles, ValueInv PROVE ValidRecordingsCompile
    OBVIOUS
  <2>1. stage = "validated" /\ (\A p \in DOMAIN phis : ~phis[p].loop) =>
           ~LowerValues(Stream, Canonicalize(Stream)).fail
    BY StreamsLower
  <2>2. ASSUME stage = "emitted" PROVE ~JobCrossesRegion(ir.data, BuildJobPlan(ir.data))
    <3>1. stage \in Emitted
      BY <2>2 DEF Emitted
    <3> QED
      BY <3>1, JobsStayInRegions
  <2> QED
    BY <2>1, <2>2 DEF ValidRecordingsCompile
<1> QED
  BY <1>1, CompilerInvariant, ValuesHold, PTL
=============================================================================
