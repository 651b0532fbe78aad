------------------------- MODULE FlowCompilerProofs -------------------------
(***************************************************************************)
(* Proofs about the flow compiler, for recordings of any length.           *)
(***************************************************************************)
EXTENDS FlowCompiler, FiniteSetTheorems, SequenceTheorems, TLAPS

(* The loops of the passes.                                                *)
ThroughStep(c, paths, k) == Through(paths, k)
Paths == INSTANCE Recursion WITH Step <- ThroughStep

-----------------------------------------------------------------------------
(* Graphs.  A relation is transitive on the nodes it relates.              *)
Transitive(R) == \A a, b, c : <<a, b>> \in R /\ <<b, c>> \in R => <<a, c>> \in R

(* The paths through the first k nodes: all of them are edges or made of   *)
(* edges, and two of them that meet in one of these nodes are one.         *)
PathsThrough(edges, N, P, k) ==
    /\ edges \subseteq P /\ P \subseteq N \X N
    /\ \A j \in 1 .. k : \A a, b \in N :
          <<a, j>> \in P /\ <<j, b>> \in P => <<a, b>> \in P
    /\ \A R : edges \subseteq R /\ Transitive(R) => P \subseteq R

LEMMA ThroughInclusion ==
    ASSUME NEW N, NEW P \in SUBSET (N \X N), NEW k, NEW a \in N, NEW b \in N
    PROVE  <<a, b>> \in Through(P, k) <=>
              <<a, b>> \in P \/ (<<a, k>> \in P /\ <<k, b>> \in P)
<1>1. a \in {e[1] : e \in {x \in P : x[2] = k}} <=> <<a, k>> \in P
  <2>1. ASSUME NEW e \in P, e[2] = k, a = e[1] PROVE <<a, k>> \in P
    <3>1. e = <<e[1], e[2]>>
      OBVIOUS
    <3> QED
      BY <2>1, <3>1
  <2>2. ASSUME <<a, k>> \in P PROVE \E e \in P : e[2] = k /\ a = e[1]
    BY <2>2
  <2> QED
    BY <2>1, <2>2
<1>2. b \in {e[2] : e \in {x \in P : x[1] = k}} <=> <<k, b>> \in P
  <2>1. ASSUME NEW e \in P, e[1] = k, b = e[2] PROVE <<k, b>> \in P
    <3>1. e = <<e[1], e[2]>>
      OBVIOUS
    <3> QED
      BY <2>1, <3>1
  <2>2. ASSUME <<k, b>> \in P PROVE \E e \in P : e[1] = k /\ b = e[2]
    BY <2>2
  <2> QED
    BY <2>1, <2>2
<1> QED
  BY <1>1, <1>2 DEF Through

LEMMA ThroughStays ==
    ASSUME NEW N, NEW P \in SUBSET (N \X N), NEW k
    PROVE  P \subseteq Through(P, k) /\ Through(P, k) \subseteq N \X N
<1>1. {e[1] : e \in {x \in P : x[2] = k}} \subseteq N
  OBVIOUS
<1>2. {e[2] : e \in {x \in P : x[1] = k}} \subseteq N
  OBVIOUS
<1> QED
  BY <1>1, <1>2 DEF Through

LEMMA OneMoreNode ==
    ASSUME NEW N, NEW edges, NEW P, NEW k \in Nat, 1 .. k + 1 \subseteq N,
           PathsThrough(edges, N, P, k)
    PROVE  PathsThrough(edges, N, Through(P, k + 1), k + 1)
<1> DEFINE Q == Through(P, k + 1)
<1>1. P \in SUBSET (N \X N) /\ k + 1 \in N
  BY DEF PathsThrough
<1>2. \A a, b \in N : <<a, b>> \in Q <=>
         <<a, b>> \in P \/ (<<a, k + 1>> \in P /\ <<k + 1, b>> \in P)
  BY <1>1, ThroughInclusion
<1>3. P \subseteq Q /\ Q \subseteq N \X N
  BY <1>1, ThroughStays
<1> HIDE DEF Q
<1>4. ASSUME NEW j \in 1 .. k + 1, NEW a \in N, NEW b \in N, <<a, j>> \in Q, <<j, b>> \in Q
      PROVE  <<a, b>> \in Q
  <2>1. j \in N
    OBVIOUS
  <2>2. CASE j = k + 1
    <3>1. <<a, j>> \in P /\ <<j, b>> \in P
      BY <1>2, <1>4, <2>1, <2>2
    <3> QED
      BY <1>2, <2>2, <3>1
  <2>3. CASE j \in 1 .. k
    <3>1. \A x, y \in N : <<x, j>> \in P /\ <<j, y>> \in P => <<x, y>> \in P
      BY <2>3 DEF PathsThrough
    <3> QED
      BY <1>1, <1>2, <1>4, <2>1, <3>1
  <2> QED
    BY <2>2, <2>3
<1>5. ASSUME NEW R, edges \subseteq R, Transitive(R) PROVE Q \subseteq R
  <2>1. P \subseteq R
    BY <1>5 DEF PathsThrough
  <2>2. ASSUME NEW a \in N, NEW b \in N, <<a, b>> \in Q PROVE <<a, b>> \in R
    <3>1. CASE <<a, b>> \in P
      BY <2>1, <3>1
    <3>2. CASE <<a, k + 1>> \in P /\ <<k + 1, b>> \in P
      <4>1. <<a, k + 1>> \in R /\ <<k + 1, b>> \in R
        BY <2>1, <3>2
      <4> QED
        BY <1>5, <4>1, Zenon DEF Transitive
    <3> QED
      BY <1>2, <2>2, <3>1, <3>2
  <2> QED
    BY <1>3, <2>2
<1> QED
  BY <1>3, <1>4, <1>5 DEF PathsThrough, Q

(* What Reachable computes: the paths of the graph, all of them and no     *)
(* other.                                                                  *)
LEMMA ReachableFacts ==
    ASSUME NEW n \in Nat, NEW edges \in SUBSET ((1 .. n) \X (1 .. n))
    PROVE  /\ Reachable(1 .. n, edges) \in [1 .. n -> SUBSET (1 .. n)]
           /\ \A a, b \in 1 .. n : <<a, b>> \in edges => b \in Reachable(1 .. n, edges)[a]
           /\ \A a, b, c \in 1 .. n :
                 /\ b \in Reachable(1 .. n, edges)[a]
                 /\ c \in Reachable(1 .. n, edges)[b]
                 => c \in Reachable(1 .. n, edges)[a]
           /\ \A R : edges \subseteq R /\ Transitive(R) =>
                 \A a \in 1 .. n : \A b \in Reachable(1 .. n, edges)[a] : <<a, b>> \in R
<1> DEFINE N == 1 .. n
           P(k) == Paths!After(0, edges, k)
           T == {k \in Nat : k <= n => PathsThrough(edges, N, P(k), k)}
<1>1. 0 \in T
  <2>1. P(0) = edges
    BY Paths!AfterNone
  <2>2. PathsThrough(edges, N, edges, 0)
    BY DEF PathsThrough
  <2> QED
    BY <2>1, <2>2
<1>2. ASSUME NEW k \in Nat, k \in T PROVE k + 1 \in T
  <2> SUFFICES ASSUME k + 1 <= n PROVE PathsThrough(edges, N, P(k + 1), k + 1)
    OBVIOUS
  <2>1. 1 .. k + 1 \subseteq N /\ PathsThrough(edges, N, P(k), k)
    BY <1>2
  <2>2. P(k + 1) = Through(P(k), k + 1)
    BY Paths!AfterNext DEF ThroughStep
  <2> HIDE DEF P, N
  <2> QED
    BY <2>1, <2>2, OneMoreNode
<1>3. PathsThrough(edges, N, P(n), n)
  <2>1. n \in T
    <3> HIDE DEF T
    <3> QED
      BY <1>1, <1>2, Paths!Induction
  <2> QED
    BY <2>1
<1>4. Cardinality(N) = n
  BY FS_Interval
<1>5. Iterate(Through, edges, n) = P(n)
  BY DEF Iterate, Paths!After, ThroughStep
<1>6. Reachable(N, edges) = [a \in N |-> {e[2] : e \in {x \in P(n) : x[1] = a}}]
  BY <1>4, <1>5 DEF Reachable
<1> HIDE DEF P
<1>7. \A a, b \in N : b \in Reachable(N, edges)[a] <=> <<a, b>> \in P(n)
  <2> TAKE a, b \in N
  <2>1. Reachable(N, edges)[a] = {e[2] : e \in {x \in P(n) : x[1] = a}}
    BY <1>6
  <2>2. ASSUME NEW e \in P(n), e[1] = a, e[2] = b PROVE <<a, b>> \in P(n)
    <3>1. e = <<e[1], e[2]>>
      BY <1>3 DEF PathsThrough
    <3> QED
      BY <2>2, <3>1
  <2> QED
    BY <2>1, <2>2
<1>8. Reachable(N, edges) \in [N -> SUBSET N]
  <2>1. \A a \in N : {e[2] : e \in {x \in P(n) : x[1] = a}} \subseteq N
    BY <1>3 DEF PathsThrough
  <2> QED
    BY <1>6, <2>1
<1> QED
  BY <1>3, <1>7, <1>8 DEF PathsThrough

(* Sets of numbers have the least and the greatest element that the code   *)
(* takes of them.                                                          *)
LEMMA MinFacts ==
    ASSUME NEW S \in SUBSET Nat, S # {}
    PROVE  Min(S) \in S /\ \A x \in S : Min(S) <= x
BY Paths!LeastNumber DEF Min

LEMMA MaxFacts ==
    ASSUME NEW n \in Nat, NEW S \in SUBSET (0 .. n), S # {}
    PROVE  Max(S) \in S /\ \A x \in S : x <= Max(S)
<1> DEFINE T == {n - x : x \in S}
<1>1. \A x \in S : n - x \in Nat
  OBVIOUS
<1>2. PICK t \in T : \A x \in T : t <= x
  <2>1. T \in SUBSET Nat /\ T # {}
    BY <1>1
  <2> HIDE DEF T
  <2> QED
    BY <2>1, Paths!LeastNumber
<1>3. PICK m \in S : t = n - m
  BY <1>2
<1>4. \A x \in S : x <= m
  <2> TAKE x \in S
  <2>1. n - m <= n - x
    BY <1>2, <1>3
  <2> QED
    BY <2>1
<1> QED
  BY <1>4 DEF Max

(* A finite set with an order has a minimal element.                       *)
LEMMA MinimalNode ==
    ASSUME NEW N, IsFiniteSet(N), NEW R, Transitive(R), \A a \in N : <<a, a>> \notin R,
           NEW S \in SUBSET N, S # {}
    PROVE  \E m \in S : \A x \in S : <<x, m>> \notin R
<1> DEFINE Below(m) == {x \in N : <<x, m>> \in R}
           T == {Cardinality(Below(m)) : m \in S}
<1>1. \A m \in N : IsFiniteSet(Below(m)) /\ Cardinality(Below(m)) \in Nat
  BY FS_Subset, FS_CardinalityType
<1>2. T \in SUBSET Nat /\ T # {}
  BY <1>1
<1>3. PICK t \in T : \A x \in T : t <= x
  <2> HIDE DEF T
  <2> QED
    BY <1>2, Paths!LeastNumber
<1>4. PICK m \in S : t = Cardinality(Below(m))
  BY <1>3
<1>5. ASSUME NEW x \in S, <<x, m>> \in R PROVE FALSE
  <2>1. Below(x) \subseteq Below(m)
    BY <1>5, Zenon DEF Transitive
  <2>2. x \in Below(m) /\ x \notin Below(x)
    BY <1>5
  <2>3. m \in N /\ x \in N
    OBVIOUS
  <2>4. Cardinality(Below(x)) \in T
    OBVIOUS
  <2>5. Cardinality(Below(x)) \in Nat /\ Cardinality(Below(m)) \in Nat
    BY <1>1, <2>3
  <2> HIDE DEF Below, T
  <2>6. Cardinality(Below(x)) # Cardinality(Below(m)) /\ Cardinality(Below(x)) <= Cardinality(Below(m))
    BY <1>1, <2>1, <2>2, <2>3, FS_Subset
  <2>7. Cardinality(Below(m)) <= Cardinality(Below(x))
    BY <1>3, <1>4, <2>4
  <2> QED
    BY <2>5, <2>6, <2>7
<1> QED
  BY <1>5

(* The nodes of an acyclic graph that are left always include one whose    *)
(* predecessors are gone.                                                  *)
LEMMA SourceLeft ==
    ASSUME NEW n \in Nat, NEW edges \in SUBSET ((1 .. n) \X (1 .. n)),
           Acyclic(1 .. n, Reachable(1 .. n, edges)),
           NEW S \in SUBSET (1 .. n), S # {}
    PROVE  \E m \in S : Before(m, edges) \cap S = {}
<1> DEFINE N == 1 .. n
           reach == Reachable(N, edges)
           R == {e \in N \X N : e[2] \in reach[e[1]]}
<1>1. \A a, b \in N : <<a, b>> \in R <=> b \in reach[a]
  OBVIOUS
<1>2. R \subseteq N \X N
  OBVIOUS
<1> HIDE DEF R
<1>3. \A a, b, c \in N : b \in reach[a] /\ c \in reach[b] => c \in reach[a]
  BY ReachableFacts
<1>4. Transitive(R)
  <2> SUFFICES ASSUME NEW a, NEW b, NEW c, <<a, b>> \in R, <<b, c>> \in R
               PROVE  <<a, c>> \in R
    BY DEF Transitive
  <2>1. a \in N /\ b \in N /\ c \in N
    BY <1>2
  <2> QED
    BY <1>1, <1>3, <2>1
<1>5. \A a \in N : <<a, a>> \notin R
  BY <1>1 DEF Acyclic
<1>6. PICK m \in S : \A x \in S : <<x, m>> \notin R
  <2>1. IsFiniteSet(N) /\ S \in SUBSET N
    BY FS_Interval
  <2> HIDE DEF N
  <2> QED
    BY <1>4, <1>5, <2>1, MinimalNode
<1>7. ASSUME NEW x \in Before(m, edges) \cap S PROVE FALSE
  <2>1. PICK e \in edges : e[2] = m /\ e[1] = x
    BY DEF Before
  <2>2. e = <<x, m>>
    BY <2>1
  <2>3. m \in reach[x]
    BY <2>2, ReachableFacts
  <2> QED
    BY <1>1, <1>6, <2>3
<1> QED
  BY <1>7

-----------------------------------------------------------------------------
(* The ready-list loop of emit_program().  After k steps:                  *)
(* the order holds k different nodes, each after its predecessors;         *)
(* and unless a region was split, the active region is that of the last    *)
(* node, every other region is in the order whole or not at all, and each  *)
(* is in one piece.                                                        *)
EmitStep(c, st, k) == Emit(c.nodes, c.edges, c.region, st)
Emits == INSTANCE Recursion WITH Step <- EmitStep

OrderInv(nodes, edges, st, k) ==
    /\ st.order \in [1 .. k -> nodes]
    /\ \A i, j \in 1 .. k : st.order[i] = st.order[j] => i = j
    /\ \A i \in 1 .. k : \A p \in Before(st.order[i], edges) :
          \E j \in 1 .. i - 1 : st.order[j] = p
    /\ st.ready = ReadyNodes(nodes, edges, ToSet(st.order))

PiecesInv(nodes, region, st, k) ==
    /\ k = 0 => st.active = 0
    /\ k # 0 => st.active = region[st.order[k]]
    /\ \A i \in 1 .. k : region[st.order[i]] \in {0, st.active} \/
          \A n \in nodes : region[n] = region[st.order[i]] => \E j \in 1 .. k : st.order[j] = n
    /\ \A i, j, l \in 1 .. k :
          /\ i <= j /\ j <= l
          /\ region[st.order[i]] # 0 /\ region[st.order[i]] = region[st.order[l]]
          => region[st.order[j]] = region[st.order[i]]

EmitInv(nodes, edges, region, st, k) ==
    /\ OrderInv(nodes, edges, st, k)
    /\ st.split \in BOOLEAN
    /\ ~st.split => PiecesInv(nodes, region, st, k)

(* Some node is ready until all have been emitted, and the next one is     *)
(* taken from the ready ones.                                              *)
LEMMA SomeNodeReady ==
    ASSUME NEW n \in Nat, NEW edges \in SUBSET ((1 .. n) \X (1 .. n)),
           Acyclic(1 .. n, Reachable(1 .. n, edges)),
           NEW k \in Nat, k < n, NEW order \in [1 .. k -> 1 .. n]
    PROVE  ReadyNodes(1 .. n, edges, ToSet(order)) # {}
<1> DEFINE N == 1 .. n
           S == N \ ToSet(order)
<1>1. S # {}
  <2> SUFFICES ASSUME N \subseteq ToSet(order) PROVE FALSE
    OBVIOUS
  <2>1. \A x \in N : \E i \in 1 .. k : order[i] = x
    BY DEF ToSet
  <2>2. Cardinality(N) = n
    BY FS_Interval
  <2>3. ExistsSurjection(1 .. k, N)
    BY <2>1 DEF Surjection, ExistsSurjection
  <2>4. Cardinality(N) <= k
    BY <2>3, FS_SurjCardinalityBound
  <2> QED
    BY <2>2, <2>4
<1>2. PICK m \in S : Before(m, edges) \cap S = {}
  <2>1. S \in SUBSET (1 .. n)
    OBVIOUS
  <2> HIDE DEF S
  <2> QED
    BY <1>1, <2>1, SourceLeft
<1>3. Before(m, edges) \subseteq N
  BY DEF Before
<1> QED
  BY <1>2, <1>3 DEF ReadyNodes

LEMMA PickReady ==
    ASSUME NEW n \in Nat, NEW region, NEW st, st.ready \in SUBSET (1 .. n), st.ready # {}
    PROVE  LET next == PickNext(st, region)
           IN  /\ next.node \in st.ready
               /\ next.active = region[next.node]
<1> DEFINE Ready(k) == {x \in st.ready : region[x] = k}
<1>1. \A k : Ready(k) # {} => Min(Ready(k)) \in Ready(k)
  <2> TAKE k
  <2>1. Ready(k) \in SUBSET Nat
    OBVIOUS
  <2> HIDE DEF Ready
  <2> QED
    BY <2>1, MinFacts
<1>2. Min(st.ready) \in st.ready
  BY MinFacts
<1>3. CASE st.active # 0 /\ Ready(st.active) # {}
  BY <1>1, <1>3 DEF PickNext
<1>4. CASE ~(st.active # 0 /\ Ready(st.active) # {}) /\ Ready(0) # {}
  BY <1>1, <1>4 DEF PickNext
<1>5. CASE ~(st.active # 0 /\ Ready(st.active) # {}) /\ Ready(0) = {}
  BY <1>2, <1>5 DEF PickNext
<1> QED
  BY <1>3, <1>4, <1>5

LEMMA AppendFacts ==
    ASSUME NEW S, NEW k \in Nat, NEW s \in [1 .. k -> S], NEW x \in S
    PROVE  /\ Append(s, x) \in [1 .. k + 1 -> S]
           /\ Append(s, x)[k + 1] = x
           /\ \A i \in 1 .. k : Append(s, x)[i] = s[i]
           /\ ToSet(Append(s, x)) = ToSet(s) \cup {x}
           /\ Len(s) = k
<1>1. s \in Seq(S) /\ Len(s) = k
  OBVIOUS
<1>2. /\ Append(s, x) \in [1 .. k + 1 -> S]
      /\ Append(s, x)[k + 1] = x
      /\ \A i \in 1 .. k : Append(s, x)[i] = s[i]
  <2>1. Append(s, x) \in Seq(S) /\ Len(Append(s, x)) = k + 1
    BY <1>1, AppendProperties
  <2>2. Append(s, x) \in [1 .. k + 1 -> S]
    BY <2>1, LenProperties
  <2> QED
    BY <1>1, <2>2, AppendProperties
<1>3. ToSet(Append(s, x)) = ToSet(s) \cup {x}
  <2>1. \A y : y \in ToSet(s) <=> \E i \in 1 .. k : s[i] = y
    BY DEF ToSet
  <2>2. \A y : y \in ToSet(Append(s, x)) <=> \E i \in 1 .. k + 1 : Append(s, x)[i] = y
    BY <1>2 DEF ToSet
  <2>3. \A i \in 1 .. k : i \in 1 .. k + 1
    OBVIOUS
  <2>4. \A i \in 1 .. k + 1 : i = k + 1 \/ i \in 1 .. k
    OBVIOUS
  <2>5. k + 1 \in 1 .. k + 1
    OBVIOUS
  <2> QED
    BY <1>2, <2>1, <2>2, <2>3, <2>4, <2>5
<1> QED
  BY <1>1, <1>2, <1>3

LEMMA EmitKeepsOrder ==
    ASSUME NEW n \in Nat, NEW edges \in SUBSET ((1 .. n) \X (1 .. n)),
           Acyclic(1 .. n, Reachable(1 .. n, edges)),
           NEW region, NEW k \in Nat, k < n, NEW st, OrderInv(1 .. n, edges, st, k)
    PROVE  /\ OrderInv(1 .. n, edges, Emit(1 .. n, edges, region, st), k + 1)
           /\ PickNext(st, region).node \in 1 .. n
           /\ PickNext(st, region).node \notin ToSet(st.order)
           /\ PickNext(st, region).active = region[PickNext(st, region).node]
<1> DEFINE N == 1 .. n
           next == PickNext(st, region)
           st2 == Emit(N, edges, region, st)
<1>1. st.order \in [1 .. k -> N] /\ st.ready = ReadyNodes(N, edges, ToSet(st.order))
  BY DEF OrderInv
<1>2. st.ready \in SUBSET N /\ st.ready # {}
  <2>1. st.ready \in SUBSET N
    BY <1>1 DEF ReadyNodes
  <2> QED
    BY <1>1, <2>1, SomeNodeReady
<1>3. next.node \in st.ready /\ next.active = region[next.node]
  BY <1>2, PickReady
<1>4. /\ next.node \in N /\ next.node \notin ToSet(st.order)
      /\ Before(next.node, edges) \subseteq ToSet(st.order)
  BY <1>1, <1>3 DEF ReadyNodes
<1>5. /\ st2.order = Append(st.order, next.node)
      /\ st2.ready = ReadyNodes(N, edges, ToSet(st2.order))
  BY DEF Emit
<1> HIDE DEF next, st2, N
<1>6. /\ st2.order \in [1 .. k + 1 -> N]
      /\ st2.order[k + 1] = next.node
      /\ \A i \in 1 .. k : st2.order[i] = st.order[i]
  <2>1. st.order \in [1 .. k -> N] /\ next.node \in N
    BY <1>1, <1>4
  <2>2. /\ Append(st.order, next.node) \in [1 .. k + 1 -> N]
        /\ Append(st.order, next.node)[k + 1] = next.node
        /\ \A i \in 1 .. k : Append(st.order, next.node)[i] = st.order[i]
    <3> DEFINE o == st.order
               x == next.node
    <3>1. o \in [1 .. k -> N] /\ x \in N
      BY <2>1
    <3> HIDE DEF o, x
    <3>2. Append(o, x) \in [1 .. k + 1 -> N]
      BY <3>1, AppendFacts
    <3>3. Append(o, x)[k + 1] = x
      BY <3>1, AppendFacts
    <3>4. \A i \in 1 .. k : Append(o, x)[i] = o[i]
      BY <3>1, AppendFacts
    <3> QED
      BY <3>2, <3>3, <3>4 DEF o, x
  <2> QED
    BY <1>5, <2>2
<1>7. \A y : y \in ToSet(st.order) <=> \E i \in 1 .. k : st.order[i] = y
  BY <1>1 DEF ToSet
<1>8. \A i, j \in 1 .. k + 1 : st2.order[i] = st2.order[j] => i = j
  <2> SUFFICES ASSUME NEW i \in 1 .. k + 1, NEW j \in 1 .. k + 1, st2.order[i] = st2.order[j]
               PROVE  i = j
    OBVIOUS
  <2>1. i \in 1 .. k \/ i = k + 1
    OBVIOUS
  <2>2. j \in 1 .. k \/ j = k + 1
    OBVIOUS
  <2>3. \A a, b \in 1 .. k : st.order[a] = st.order[b] => a = b
    BY DEF OrderInv
  <2>4. \A a \in 1 .. k : st.order[a] # next.node
    BY <1>4, <1>7
  <2> QED
    BY <1>6, <2>1, <2>2, <2>3, <2>4
<1>9. ASSUME NEW i \in 1 .. k + 1, NEW p \in Before(st2.order[i], edges)
      PROVE  \E j \in 1 .. i - 1 : st2.order[j] = p
  <2>1. CASE i = k + 1
    <3>1. PICK j \in 1 .. k : st.order[j] = p
      BY <1>4, <1>6, <1>7, <1>9, <2>1
    <3>2. j \in 1 .. i - 1
      BY <2>1
    <3> QED
      BY <1>6, <3>1, <3>2
  <2>2. CASE i \in 1 .. k
    <3>1. PICK j \in 1 .. i - 1 : st.order[j] = p
      BY <1>6, <1>9, <2>2 DEF OrderInv
    <3>2. j \in 1 .. k
      BY <2>2
    <3> QED
      BY <1>6, <3>1, <3>2
  <2> QED
    BY <2>1, <2>2
<1> QED
  BY <1>3, <1>4, <1>5, <1>6, <1>8, <1>9 DEF OrderInv, next, st2, N

LEMMA EmitKeepsPieces ==
    ASSUME NEW n \in Nat, NEW edges \in SUBSET ((1 .. n) \X (1 .. n)),
           Acyclic(1 .. n, Reachable(1 .. n, edges)),
           NEW region, NEW k \in Nat, k < n, NEW st, OrderInv(1 .. n, edges, st, k),
           PiecesInv(1 .. n, region, st, k),
           ~Emit(1 .. n, edges, region, st).split
    PROVE  PiecesInv(1 .. n, region, Emit(1 .. n, edges, region, st), k + 1)
<1> DEFINE N == 1 .. n
           next == PickNext(st, region)
           st2 == Emit(N, edges, region, st)
<1>1. /\ st.order \in [1 .. k -> N]
      /\ next.node \in N /\ next.node \notin ToSet(st.order)
      /\ next.active = region[next.node]
  <2>1. st.order \in [1 .. k -> N]
    BY DEF OrderInv
  <2>2. /\ PickNext(st, region).node \in N
        /\ PickNext(st, region).node \notin ToSet(st.order)
        /\ PickNext(st, region).active = region[PickNext(st, region).node]
    BY EmitKeepsOrder
  <2> QED
    BY <2>1, <2>2
<1>2. /\ st2.order = Append(st.order, next.node)
      /\ st2.active = next.active
      /\ st.active # 0 /\ next.active # st.active =>
            \A m \in N : region[m] = st.active => m \in ToSet(st.order)
  BY DEF Emit
<1> HIDE DEF next, st2, N
<1>3. /\ st2.order[k + 1] = next.node
      /\ \A i \in 1 .. k : st2.order[i] = st.order[i]
  BY <1>1, <1>2, AppendFacts
<1>4. \A y : y \in ToSet(st.order) <=> \E i \in 1 .. k : st.order[i] = y
  BY <1>1 DEF ToSet
<1>5. \A i \in 1 .. k + 1 : i = k + 1 \/ i \in 1 .. k
  OBVIOUS
<1>6. \A i \in 1 .. k : region[st.order[i]] \in {0, st.active} \/
          \A m \in N : region[m] = region[st.order[i]] => \E j \in 1 .. k : st.order[j] = m
  BY DEF PiecesInv, N
<1>7. \A i \in 1 .. k : region[st.order[i]] \in {0, next.active} \/
          \A m \in N : region[m] = region[st.order[i]] => \E j \in 1 .. k : st.order[j] = m
  <2> TAKE i \in 1 .. k
  <2>1. CASE region[st.order[i]] # 0 /\ region[st.order[i]] = st.active /\ st.active # next.active
    BY <1>2, <1>4, <2>1
  <2> QED
    BY <1>6, <2>1
<1>8. \A i \in 1 .. k + 1 : region[st2.order[i]] \in {0, st2.active} \/
          \A m \in N : region[m] = region[st2.order[i]] => \E j \in 1 .. k + 1 : st2.order[j] = m
  <2> TAKE i \in 1 .. k + 1
  <2>1. CASE i = k + 1
    BY <1>1, <1>2, <1>3, <2>1
  <2>2. CASE i \in 1 .. k
    <3>1. \A j \in 1 .. k : j \in 1 .. k + 1
      OBVIOUS
    <3>2. st2.order[i] = st.order[i] /\ st2.active = next.active
      BY <1>2, <1>3, <2>2
    <3>3. CASE region[st.order[i]] \in {0, next.active}
      BY <3>2, <3>3
    <3>4. ASSUME NEW m \in N, region[m] = region[st2.order[i]],
                 region[st.order[i]] \notin {0, next.active}
          PROVE  \E j \in 1 .. k + 1 : st2.order[j] = m
      <4>1. PICK j \in 1 .. k : st.order[j] = m
        BY <1>7, <2>2, <3>2, <3>4
      <4> QED
        BY <1>3, <3>1, <4>1
    <3> QED
      BY <3>2, <3>3, <3>4
  <2> QED
    BY <2>1, <2>2
<1>9. ASSUME NEW i \in 1 .. k + 1, NEW j \in 1 .. k + 1, NEW l \in 1 .. k + 1,
             i <= j, j <= l,
             region[st2.order[i]] # 0, region[st2.order[i]] = region[st2.order[l]]
      PROVE  region[st2.order[j]] = region[st2.order[i]]
  <2>1. CASE l \in 1 .. k
    <3>1. i \in 1 .. k /\ j \in 1 .. k
      BY <1>9, <2>1
    <3> QED
      BY <1>3, <1>9, <2>1, <3>1, SMTT(60) DEF PiecesInv
  <2>2. CASE l = k + 1 /\ i \in 1 .. k /\ j \in 1 .. k
    <3>1. region[st.order[i]] = next.active /\ next.active # 0
      BY <1>1, <1>3, <1>9, <2>2
    <3>2. next.active = st.active
      <4>1. CASE next.active # st.active
        <5>1. \E x \in 1 .. k : st.order[x] = next.node
          BY <1>1, <1>6, <3>1, <4>1, <2>2
        <5> QED
          BY <1>1, <1>4, <5>1
      <4> QED
        BY <4>1
    <3>3. k \in 1 .. k /\ region[st.order[k]] = region[st.order[i]]
      BY <2>2, <3>1, <3>2 DEF PiecesInv
    <3>4. region[st.order[j]] = region[st.order[i]]
      BY <1>9, <2>2, <3>1, <3>3 DEF PiecesInv
    <3> QED
      BY <1>3, <2>2, <3>4
  <2>3. CASE j = k + 1
    <3>1. l = k + 1
      BY <1>9, <2>3
    <3> QED
      BY <1>9, <2>3, <3>1
  <2>4. CASE i = k + 1
    <3>1. j = k + 1
      BY <1>9, <2>4
    <3> QED
      BY <2>4, <3>1
  <2> QED
    BY <1>5, <2>1, <2>2, <2>3, <2>4
<1>10. st2.active = region[st2.order[k + 1]] /\ k + 1 # 0
  BY <1>1, <1>2, <1>3
<1> QED
  BY <1>8, <1>9, <1>10 DEF PiecesInv, st2, N

LEMMA EmitKeepsInv ==
    ASSUME NEW n \in Nat, NEW edges \in SUBSET ((1 .. n) \X (1 .. n)),
           Acyclic(1 .. n, Reachable(1 .. n, edges)),
           NEW region, NEW k \in Nat, k < n, NEW st, EmitInv(1 .. n, edges, region, st, k)
    PROVE  EmitInv(1 .. n, edges, region, Emit(1 .. n, edges, region, st), k + 1)
<1> DEFINE st2 == Emit(1 .. n, edges, region, st)
<1>1. OrderInv(1 .. n, edges, st2, k + 1)
  BY EmitKeepsOrder DEF EmitInv
<1>2. st2.split \in BOOLEAN /\ (~st2.split => ~st.split)
  BY DEF Emit, EmitInv
<1>3. ASSUME ~st2.split PROVE PiecesInv(1 .. n, region, st2, k + 1)
  BY <1>2, <1>3, EmitKeepsPieces DEF EmitInv
<1> QED
  BY <1>1, <1>2, <1>3 DEF EmitInv

RegionMap(v, act, n) == [m \in 1 .. n |-> RegionOf(v, act, m)]

(* After as many steps as there are nodes, the order holds them all.       *)
LEMMA EmissionFacts ==
    ASSUME NEW n \in Nat, NEW v, DOMAIN v.nodes = 1 .. n, NEW act,
           NEW edges \in SUBSET ((1 .. n) \X (1 .. n)),
           Acyclic(1 .. n, Reachable(1 .. n, edges))
    PROVE  /\ EmitInv(1 .. n, edges, RegionMap(v, act, n), Emission(v, act, edges), n)
           /\ \A m \in 1 .. n : \E i \in 1 .. n : Emission(v, act, edges).order[i] = m
<1> DEFINE N == 1 .. n
           region == [m \in N |-> RegionOf(v, act, m)]
           c == [nodes |-> N, edges |-> edges, region |-> region]
           x == [order |-> <<>>, ready |-> ReadyNodes(N, edges, {}), active |-> 0, split |-> FALSE]
           E(k) == Emits!After(c, x, k)
           T == {k \in Nat : k <= n => EmitInv(N, edges, region, E(k), k)}
<1>1. 0 \in T
  <2>1. E(0) = x
    BY Emits!AfterNone
  <2>2. ToSet(<<>>) = {}
    BY DEF ToSet
  <2>3. OrderInv(N, edges, x, 0)
    <3>1. x.order = <<>> /\ x.ready = ReadyNodes(N, edges, {})
      OBVIOUS
    <3>2. x.order \in [1 .. 0 -> N]
      <4> HIDE DEF N
      <4> QED
        BY <3>1
    <3>3. 1 .. 0 = {}
      OBVIOUS
    <3> HIDE DEF x, N
    <3> QED
      BY <2>2, <3>1, <3>2, <3>3 DEF OrderInv
  <2>4. PiecesInv(N, region, x, 0)
    BY DEF PiecesInv
  <2>5. x.split \in BOOLEAN
    OBVIOUS
  <2>6. EmitInv(N, edges, region, x, 0)
    <3> HIDE DEF x, region, N
    <3> QED
      BY <2>3, <2>4, <2>5 DEF EmitInv
  <2> HIDE DEF E, x, region, N
  <2> QED
    BY <2>1, <2>6
<1>2. ASSUME NEW k \in Nat, k \in T PROVE k + 1 \in T
  <2> SUFFICES ASSUME k + 1 <= n PROVE EmitInv(N, edges, region, E(k + 1), k + 1)
    OBVIOUS
  <2>1. k < n /\ EmitInv(N, edges, region, E(k), k)
    BY <1>2
  <2>2. E(k + 1) = EmitStep(c, E(k), k + 1)
    BY Emits!AfterNext
  <2>3. E(k + 1) = Emit(N, edges, region, E(k))
    BY <2>2 DEF EmitStep
  <2> HIDE DEF E, region
  <2> QED
    BY <2>1, <2>3, EmitKeepsInv
<1>3. EmitInv(N, edges, region, E(n), n)
  <2>1. n \in T
    <3> HIDE DEF T
    <3> QED
      BY <1>1, <1>2, Emits!Induction
  <2> QED
    BY <2>1
<1>4. Emission(v, act, edges) = E(n)
  <2>1. Cardinality(N) = n
    BY FS_Interval
  <2> QED
    BY <2>1, ZenonT(60) DEF Emission, Iterate, Emits!After, EmitStep
<1>5. \A m \in N : \E i \in N : E(n).order[i] = m
  <2> DEFINE order == E(n).order
  <2>1. order \in [N -> N] /\ \A i, j \in N : order[i] = order[j] => i = j
    BY <1>3 DEF EmitInv, OrderInv
  <2> HIDE DEF order
  <2> SUFFICES \A m \in N : \E i \in N : order[i] = m
    BY DEF order
  <2>2. order \in Injection(N, N)
    BY <2>1 DEF Injection, IsInjective
  <2>3. IsFiniteSet(N)
    BY FS_Interval
  <2>4. order \in Surjection(N, N)
    <3> HIDE DEF N
    <3> QED
      BY <2>2, <2>3, FS_Injection
  <2> QED
    BY <2>4 DEF Surjection
<1>6. region = RegionMap(v, act, n)
  BY DEF RegionMap
<1> HIDE DEF region, E
<1> QED
  BY <1>3, <1>4, <1>5, <1>6

-----------------------------------------------------------------------------
(* What the recorder keeps, for streams of any length: the types of its      *)
(* records, and the links between them, which validate() relies on.          *)
ModeNames == {"read", "write", "read_write", "consume"}
ResourceKinds == {"owned", "external", "phi", "cutoff", "projection"}
OpKinds == {"construct", "callback", "cutoff", "discard", "acquire", "yield"}

ResourceSet == [kind : ResourceKinds, cons : Nat, owner : Nat, over : BOOLEAN]
ArgSet == [r : Nat, mode : ModeNames, ser : BOOLEAN]
OpSet == [kind : OpKinds, acc : Seq(ArgSet), side : BOOLEAN, preds : SUBSET Nat]
PhiSet == [out : Nat, init : Nat, fb : Nat, cond : Nat, pos : Nat, fbpos : Int,
           mif : Nat, loop : BOOLEAN]
IfSet == [cond : Nat, begin : Nat, alt : Nat, end : Nat]
ScopeSet == [kind : {"while", "then", "else"}, cond : Nat, phi : Nat, begin : Nat, alt : Nat]

RecTypes ==
    /\ res \in Seq(ResourceSet) /\ defined \in Seq(BOOLEAN) /\ ops \in Seq(OpSet)
    /\ phis \in Seq(PhiSet) /\ ifs \in Seq(IfSet) /\ scopes \in Seq(ScopeSet)

ResourceLinks(rs, os, r) ==
    /\ rs[r].cons <= Len(os)
    /\ rs[r].cons # 0 => os[rs[r].cons].kind = "construct"
    /\ rs[r].kind # "projection" => rs[r].owner = 0
    /\ rs[r].kind = "projection" =>
          /\ rs[r].owner \in 1 .. r - 1
          /\ rs[rs[r].owner].kind = "projection" => NestProjections

OpLinks(rs, os, i) == \A j \in 1 .. Len(os[i].acc) : os[i].acc[j].r \in 1 .. Len(rs)

PhiLinks(rs, os, ps, p) ==
    /\ ps[p].out \in 1 .. Len(rs) /\ rs[ps[p].out].kind = "phi"
    /\ ps[p].init \in 1 .. Len(rs) /\ ps[p].fb \in 0 .. Len(rs) /\ ps[p].cond \in 0 .. Len(rs)
    /\ ps[p].pos <= Len(os)
    /\ ps[p].fb # 0 => ps[p].pos <= ps[p].fbpos /\ ps[p].fbpos <= Len(os)

IfLinks(rs, os, is, b) ==
    /\ is[b].cond \in 1 .. Len(rs)
    /\ is[b].begin <= is[b].alt /\ is[b].alt <= is[b].end /\ is[b].end <= Len(os)

ScopeLinks(rs, os, ps, ss, s) ==
    /\ ss[s].cond \in 1 .. Len(rs)
    /\ ss[s].begin <= Len(os)
    /\ ss[s].kind = "else" => ss[s].begin <= ss[s].alt /\ ss[s].alt <= Len(os)
    /\ ss[s].kind = "while" => ss[s].phi \in 1 .. Len(ps)

RecLinks ==
    /\ Len(defined) = Len(res)
    /\ \A r \in 1 .. Len(res) : ResourceLinks(res, ops, r)
    /\ \A i \in 1 .. Len(ops) : OpLinks(res, ops, i)
    /\ \A p \in 1 .. Len(phis) : PhiLinks(res, ops, phis, p)
    /\ \A b \in 1 .. Len(ifs) : IfLinks(res, ops, ifs, b)
    /\ \A s \in 1 .. Len(scopes) : ScopeLinks(res, ops, phis, scopes, s)

RecInv == RecTypes /\ RecLinks

(* A stream only grows, and what is in it keeps its kind.                    *)
Grown(rs, os, ps, rs2, os2, ps2) ==
    /\ Len(rs) <= Len(rs2) /\ Len(os) <= Len(os2) /\ Len(ps) <= Len(ps2)
    /\ \A r \in 1 .. Len(rs) : rs2[r].kind = rs[r].kind /\ rs2[r].owner = rs[r].owner
    /\ \A i \in 1 .. Len(os) : os2[i] = os[i]

LEMMA LinksStay ==
    ASSUME NEW rs \in Seq(ResourceSet), NEW os \in Seq(OpSet), NEW ps \in Seq(PhiSet),
           NEW rs2 \in Seq(ResourceSet), NEW os2 \in Seq(OpSet), NEW ps2 \in Seq(PhiSet),
           Grown(rs, os, ps, rs2, os2, ps2)
    PROVE  /\ \A r \in 1 .. Len(rs) : ResourceLinks(rs, os, r) /\ rs2[r].cons = rs[r].cons
                 => ResourceLinks(rs2, os2, r)
           /\ \A i \in 1 .. Len(os) : OpLinks(rs, os, i) => OpLinks(rs2, os2, i)
           /\ \A p \in 1 .. Len(ps) : PhiLinks(rs, os, ps, p) /\ ps2[p] = ps[p]
                 => PhiLinks(rs2, os2, ps2, p)
           /\ \A is, b : IfLinks(rs, os, is, b) /\ is[b] \in IfSet => IfLinks(rs2, os2, is, b)
           /\ \A ss, s : ScopeLinks(rs, os, ps, ss, s) /\ ss[s] \in ScopeSet
                 => ScopeLinks(rs2, os2, ps2, ss, s)
<1>1. Len(rs) \in Nat /\ Len(os) \in Nat /\ Len(ps) \in Nat
      /\ Len(rs2) \in Nat /\ Len(os2) \in Nat /\ Len(ps2) \in Nat
  OBVIOUS
<1>2. /\ Len(rs) <= Len(rs2) /\ Len(os) <= Len(os2) /\ Len(ps) <= Len(ps2)
      /\ \A r \in 1 .. Len(rs) : rs2[r].kind = rs[r].kind /\ rs2[r].owner = rs[r].owner
      /\ \A i \in 1 .. Len(os) : os2[i] = os[i]
  BY DEF Grown
<1>3. ASSUME NEW r \in 1 .. Len(rs), ResourceLinks(rs, os, r), rs2[r].cons = rs[r].cons
      PROVE  ResourceLinks(rs2, os2, r)
  <2>1. rs[r] \in ResourceSet /\ rs2[r] \in ResourceSet
    BY <1>1, <1>2
  <2>2. rs[r].cons \in Nat /\ rs[r].owner \in Nat
    BY <2>1 DEF ResourceSet
  <2>3. rs[r].cons # 0 => os2[rs[r].cons] = os[rs[r].cons]
    BY <1>1, <1>2, <1>3, <2>2, SMTT(60) DEF ResourceLinks
  <2>4. rs[r].owner \in 1 .. r - 1 => rs2[rs[r].owner].kind = rs[rs[r].owner].kind
    <3>1. rs[r].owner \in 1 .. r - 1 => rs[r].owner \in 1 .. Len(rs)
      BY <1>1, <2>2
    <3> QED
      BY <1>2, <3>1
  <2>5. rs2[r].kind = rs[r].kind /\ rs2[r].owner = rs[r].owner /\ rs2[r].cons = rs[r].cons
    BY <1>2, <1>3
  <2>6. rs2[r].cons <= Len(os2)
    BY <1>1, <1>2, <1>3, <2>2, <2>5 DEF ResourceLinks
  <2> QED
    BY <1>3, <2>3, <2>4, <2>5, <2>6 DEF ResourceLinks
<1>4. ASSUME NEW i \in 1 .. Len(os), OpLinks(rs, os, i) PROVE OpLinks(rs2, os2, i)
  <2>1. os2[i] = os[i]
    BY <1>2
  <2> QED
    BY <1>1, <1>2, <1>4, <2>1, SMTT(60) DEF OpLinks
<1>5. ASSUME NEW p \in 1 .. Len(ps), PhiLinks(rs, os, ps, p), ps2[p] = ps[p]
      PROVE  PhiLinks(rs2, os2, ps2, p)
  <2>1. ps[p] \in PhiSet
    BY <1>1
  <2>2. ps[p].out \in Nat /\ ps[p].init \in Nat /\ ps[p].fb \in Nat /\ ps[p].cond \in Nat
        /\ ps[p].pos \in Nat /\ ps[p].fbpos \in Int
    BY <2>1 DEF PhiSet
  <2>3. rs2[ps[p].out].kind = "phi"
    BY <1>2, <1>5 DEF PhiLinks
  <2>4. /\ ps[p].out \in 1 .. Len(rs2) /\ ps[p].init \in 1 .. Len(rs2)
        /\ ps[p].fb \in 0 .. Len(rs2) /\ ps[p].cond \in 0 .. Len(rs2)
    <3>1. /\ ps[p].out \in 1 .. Len(rs) /\ ps[p].init \in 1 .. Len(rs)
          /\ ps[p].fb \in 0 .. Len(rs) /\ ps[p].cond \in 0 .. Len(rs)
      BY <1>5 DEF PhiLinks
    <3>2. 1 .. Len(rs) \subseteq 1 .. Len(rs2) /\ 0 .. Len(rs) \subseteq 0 .. Len(rs2)
      BY <1>1, <1>2
    <3> QED
      BY <3>1, <3>2
  <2>5. ps[p].pos <= Len(os2)
    <3>1. ps[p].pos <= Len(os)
      BY <1>5 DEF PhiLinks
    <3> QED
      BY <1>1, <1>2, <2>2, <3>1
  <2>6. ps[p].fb # 0 => ps[p].pos <= ps[p].fbpos /\ ps[p].fbpos <= Len(os2)
    <3>1. ps[p].fb # 0 => ps[p].pos <= ps[p].fbpos /\ ps[p].fbpos <= Len(os)
      BY <1>5 DEF PhiLinks
    <3> QED
      BY <1>1, <1>2, <2>2, <3>1
  <2> QED
    BY <1>5, <2>3, <2>4, <2>5, <2>6 DEF PhiLinks
<1>6. ASSUME NEW is, NEW b, IfLinks(rs, os, is, b), is[b] \in IfSet PROVE IfLinks(rs2, os2, is, b)
  <2>1. is[b].cond \in Nat /\ is[b].begin \in Nat /\ is[b].alt \in Nat /\ is[b].end \in Nat
    BY <1>6 DEF IfSet
  <2> QED
    BY <1>1, <1>2, <1>6, <2>1, SMTT(60) DEF IfLinks
<1>7. ASSUME NEW ss, NEW s, ScopeLinks(rs, os, ps, ss, s), ss[s] \in ScopeSet
      PROVE  ScopeLinks(rs2, os2, ps2, ss, s)
  <2>1. ss[s].cond \in Nat /\ ss[s].begin \in Nat /\ ss[s].alt \in Nat /\ ss[s].phi \in Nat
    BY <1>7 DEF ScopeSet
  <2> QED
    BY <1>1, <1>2, <1>7, <2>1, SMTT(60) DEF ScopeLinks
<1> QED
  BY <1>3, <1>4, <1>5, <1>6, <1>7

(* A step keeps the links when it keeps those of what it adds or changes.    *)
LEMMA RecStep ==
    ASSUME RecInv, RecTypes', Grown(res, ops, phis, res', ops', phis'),
           Len(defined') = Len(res'),
           \A r \in 1 .. Len(res') :
              (r \in 1 .. Len(res) /\ res'[r].cons = res[r].cons) \/ ResourceLinks(res', ops', r),
           \A i \in 1 .. Len(ops') : i \in 1 .. Len(ops) \/ OpLinks(res', ops', i),
           \A p \in 1 .. Len(phis') :
              (p \in 1 .. Len(phis) /\ phis'[p] = phis[p]) \/ PhiLinks(res', ops', phis', p),
           \A b \in 1 .. Len(ifs') :
              (b \in 1 .. Len(ifs) /\ ifs'[b] = ifs[b]) \/ IfLinks(res', ops', ifs', b),
           \A s \in 1 .. Len(scopes') :
              (s \in 1 .. Len(scopes) /\ scopes'[s] = scopes[s])
                 \/ ScopeLinks(res', ops', phis', scopes', s)
    PROVE  RecInv'
<1>1. /\ res \in Seq(ResourceSet) /\ ops \in Seq(OpSet) /\ phis \in Seq(PhiSet)
      /\ res' \in Seq(ResourceSet) /\ ops' \in Seq(OpSet) /\ phis' \in Seq(PhiSet)
      /\ ifs \in Seq(IfSet) /\ scopes \in Seq(ScopeSet)
  BY DEF RecInv, RecTypes
<1>2. /\ \A r \in 1 .. Len(res) : ResourceLinks(res, ops, r) /\ res'[r].cons = res[r].cons
            => ResourceLinks(res', ops', r)
      /\ \A i \in 1 .. Len(ops) : OpLinks(res, ops, i) => OpLinks(res', ops', i)
      /\ \A p \in 1 .. Len(phis) : PhiLinks(res, ops, phis, p) /\ phis'[p] = phis[p]
            => PhiLinks(res', ops', phis', p)
      /\ \A is, b : IfLinks(res, ops, is, b) /\ is[b] \in IfSet => IfLinks(res', ops', is, b)
      /\ \A ss, s : ScopeLinks(res, ops, phis, ss, s) /\ ss[s] \in ScopeSet
            => ScopeLinks(res', ops', phis', ss, s)
  BY <1>1, LinksStay
<1>3. \A b \in 1 .. Len(ifs) : ifs[b] \in IfSet /\ IfLinks(res, ops, ifs, b)
  BY <1>1 DEF RecInv, RecLinks
<1>4. \A s \in 1 .. Len(scopes) : scopes[s] \in ScopeSet /\ ScopeLinks(res, ops, phis, scopes, s)
  BY <1>1 DEF RecInv, RecLinks
<1>5. \A b \in 1 .. Len(ifs') : IfLinks(res', ops', ifs', b)
  <2> SUFFICES ASSUME NEW b \in 1 .. Len(ifs), ifs'[b] = ifs[b] PROVE IfLinks(res', ops', ifs', b)
    OBVIOUS
  <2>1. IfLinks(res', ops', ifs, b)
    BY <1>2, <1>3
  <2> QED
    BY <2>1 DEF IfLinks
<1>6. \A s \in 1 .. Len(scopes') : ScopeLinks(res', ops', phis', scopes', s)
  <2> SUFFICES ASSUME NEW s \in 1 .. Len(scopes), scopes'[s] = scopes[s]
               PROVE  ScopeLinks(res', ops', phis', scopes', s)
    OBVIOUS
  <2>1. ScopeLinks(res', ops', phis', scopes, s)
    BY <1>2, <1>4
  <2> QED
    BY <2>1 DEF ScopeLinks
<1>7. \A r \in 1 .. Len(res') : ResourceLinks(res', ops', r)
  BY <1>2 DEF RecInv, RecLinks
<1>8. \A i \in 1 .. Len(ops') : OpLinks(res', ops', i)
  BY <1>2 DEF RecInv, RecLinks
<1>9. \A p \in 1 .. Len(phis') : PhiLinks(res', ops', phis', p)
  BY <1>2 DEF RecInv, RecLinks
<1> QED
  BY <1>5, <1>6, <1>7, <1>8, <1>9 DEF RecInv, RecLinks

(* Appending to a sequence, changing one element.                          *)
LEMMA AppendSeq ==
    ASSUME NEW S, NEW s \in Seq(S), NEW x \in S
    PROVE  /\ Append(s, x) \in Seq(S) /\ Len(Append(s, x)) = Len(s) + 1
           /\ Append(s, x)[Len(s) + 1] = x
           /\ \A i \in 1 .. Len(s) : Append(s, x)[i] = s[i]
           /\ Len(s) \in Nat
           /\ \A i \in 1 .. Len(Append(s, x)) : i \in 1 .. Len(s) \/ i = Len(s) + 1
<1>1. /\ Append(s, x) \in Seq(S) /\ Len(Append(s, x)) = Len(s) + 1
      /\ Append(s, x)[Len(s) + 1] = x
      /\ \A i \in 1 .. Len(s) : Append(s, x)[i] = s[i]
  BY AppendProperties
<1>2. Len(s) \in Nat
  OBVIOUS
<1> QED
  BY <1>1, <1>2

LEMMA ExceptFacts ==
    ASSUME NEW S, NEW s \in Seq(S), NEW k \in 1 .. Len(s), NEW x \in S
    PROVE  /\ [s EXCEPT ![k] = x] \in Seq(S) /\ Len([s EXCEPT ![k] = x]) = Len(s)
           /\ [s EXCEPT ![k] = x][k] = x
           /\ \A i \in 1 .. Len(s) : i # k => [s EXCEPT ![k] = x][i] = s[i]
OBVIOUS

LEMMA DeclareFacts ==
    ASSUME RecInv, NEW kind \in ResourceKinds, NEW owner \in Nat, NEW over \in BOOLEAN,
           NEW value \in BOOLEAN, Declare(kind, owner, over, value)
    PROVE  /\ res' \in Seq(ResourceSet) /\ defined' \in Seq(BOOLEAN)
           /\ Len(defined') = Len(res') /\ Len(res') = Len(res) + 1 /\ Len(res) \in Nat
           /\ res'[Len(res) + 1] = NewResource(kind, owner, over)
           /\ \A r \in 1 .. Len(res) : res'[r] = res[r]
           /\ \A r \in 1 .. Len(res') : r \in 1 .. Len(res) \/ r = Len(res) + 1
<1>1. res \in Seq(ResourceSet) /\ defined \in Seq(BOOLEAN) /\ Len(defined) = Len(res)
  BY DEF RecInv, RecTypes, RecLinks
<1>2. NewResource(kind, owner, over) \in ResourceSet
  BY DEF NewResource, ResourceSet
<1>3. res' = Append(res, NewResource(kind, owner, over)) /\ defined' = Append(defined, value)
  BY DEF Declare
<1> HIDE DEF NewResource
<1> QED
  BY <1>1, <1>2, <1>3, AppendSeq

(* A resource that is declared has no construction yet.                    *)
LEMMA DeclaredLinks ==
    ASSUME NEW rs, NEW os \in Seq(OpSet), NEW r, NEW kind, NEW owner, NEW over,
           rs[r] = NewResource(kind, owner, over),
           kind # "projection" => owner = 0,
           kind = "projection" =>
              owner \in 1 .. r - 1 /\ (rs[owner].kind = "projection" => NestProjections)
    PROVE  ResourceLinks(rs, os, r)
<1>1. Len(os) \in Nat
  OBVIOUS
<1>2. rs[r].cons = 0 /\ rs[r].kind = kind /\ rs[r].owner = owner
  BY DEF NewResource
<1> QED
  BY <1>1, <1>2 DEF ResourceLinks

LEMMA HandlesFacts ==
    ASSUME RecInv, NEW r \in Handles
    PROVE  r \in 1 .. Len(res)
BY DEF Handles, RecInv, RecTypes

LEMMA DeclareOnly ==
    ASSUME RecInv, NEW kind \in ResourceKinds, NEW owner \in Nat, NEW over \in BOOLEAN,
           NEW value \in BOOLEAN, Declare(kind, owner, over, value),
           kind # "projection" => owner = 0,
           kind = "projection" =>
              owner \in 1 .. Len(res) /\ (res[owner].kind = "projection" => NestProjections),
           UNCHANGED <<ops, phis, ifs, scopes>>
    PROVE  RecInv'
<1>1. /\ res' \in Seq(ResourceSet) /\ defined' \in Seq(BOOLEAN)
      /\ Len(defined') = Len(res') /\ Len(res') = Len(res) + 1 /\ Len(res) \in Nat
      /\ res'[Len(res) + 1] = NewResource(kind, owner, over)
      /\ \A r \in 1 .. Len(res) : res'[r] = res[r]
      /\ \A r \in 1 .. Len(res') : r \in 1 .. Len(res) \/ r = Len(res) + 1
  BY DeclareFacts
<1>2. RecTypes'
  BY <1>1 DEF RecTypes, RecInv
<1>3. Grown(res, ops, phis, res', ops', phis')
  <2>1. Len(ops) \in Nat /\ Len(phis) \in Nat
    BY DEF RecInv, RecTypes
  <2> QED
    BY <1>1, <2>1 DEF Grown
<1>4. ResourceLinks(res', ops', Len(res) + 1)
  <2>1. ops' \in Seq(OpSet)
    BY DEF RecInv, RecTypes
  <2>2. kind = "projection" => owner \in 1 .. (Len(res) + 1) - 1
    BY <1>1
  <2>3. kind = "projection" => (res'[owner].kind = "projection" => NestProjections)
    BY <1>1
  <2> QED
    BY <1>1, <2>1, <2>2, <2>3, DeclaredLinks
<1> QED
  BY <1>1, <1>2, <1>3, <1>4, RecStep

LEMMA ResourceKeeps == RecInv /\ Resource => RecInv'
BY DeclareOnly DEF Resource, ResourceKinds

LEMMA ExternalKeeps == RecInv /\ External => RecInv'
BY DeclareOnly DEF External, ResourceKinds

LEMMA ProjectKeeps ==
    ASSUME RecInv, NEW o \in Handles, NEW over \in BOOLEAN, Project(o, over)
    PROVE  RecInv'
<1>1. o \in 1 .. Len(res) /\ o \in Nat
  BY HandlesFacts
<1> QED
  BY <1>1, DeclareOnly DEF Project, ResourceKinds

(* The phi that phi() and while_ record.                                   *)
LEMMA NewPhiFacts ==
    ASSUME RecInv, NEW init \in 1 .. Len(res), NEW loop \in BOOLEAN,
           Declare("phi", 0, FALSE, TRUE), phis' = Append(phis, NewPhi(init, loop)), ops' = ops
    PROVE  /\ res' \in Seq(ResourceSet) /\ defined' \in Seq(BOOLEAN) /\ phis' \in Seq(PhiSet)
           /\ Grown(res, ops, phis, res', ops', phis')
           /\ Len(defined') = Len(res') /\ Len(phis') = Len(phis) + 1 /\ Len(phis) \in Nat
           /\ \A r \in 1 .. Len(res') :
                 (r \in 1 .. Len(res) /\ res'[r].cons = res[r].cons) \/ ResourceLinks(res', ops', r)
           /\ \A p \in 1 .. Len(phis') :
                 (p \in 1 .. Len(phis) /\ phis'[p] = phis[p]) \/ PhiLinks(res', ops', phis', p)
<1>1. /\ res' \in Seq(ResourceSet) /\ defined' \in Seq(BOOLEAN)
      /\ Len(defined') = Len(res') /\ Len(res') = Len(res) + 1 /\ Len(res) \in Nat
      /\ res'[Len(res) + 1] = NewResource("phi", 0, FALSE)
      /\ \A r \in 1 .. Len(res) : res'[r] = res[r]
      /\ \A r \in 1 .. Len(res') : r \in 1 .. Len(res) \/ r = Len(res) + 1
  BY DeclareFacts DEF ResourceKinds
<1>2. phis \in Seq(PhiSet) /\ ops \in Seq(OpSet) /\ Len(ops) \in Nat
  BY DEF RecInv, RecTypes
<1>3. NewPhi(init, loop) \in PhiSet
  BY <1>1, <1>2 DEF NewPhi, PhiSet
<1>4. /\ phis' \in Seq(PhiSet) /\ Len(phis') = Len(phis) + 1
      /\ phis'[Len(phis) + 1] = NewPhi(init, loop)
      /\ \A p \in 1 .. Len(phis) : phis'[p] = phis[p]
      /\ Len(phis) \in Nat
      /\ \A p \in 1 .. Len(phis') : p \in 1 .. Len(phis) \/ p = Len(phis) + 1
  <2> HIDE DEF NewPhi
  <2> QED
    BY <1>2, <1>3, AppendSeq
<1>5. Grown(res, ops, phis, res', ops', phis')
  BY <1>1, <1>2, <1>4 DEF Grown
<1>6. ResourceLinks(res', ops', Len(res) + 1)
  BY <1>1, <1>2, DeclaredLinks
<1>7. PhiLinks(res', ops', phis', Len(phis) + 1)
  <2>1. /\ phis'[Len(phis) + 1].out = Len(res) + 1 /\ phis'[Len(phis) + 1].init = init
        /\ phis'[Len(phis) + 1].fb = 0 /\ phis'[Len(phis) + 1].cond = 0
        /\ phis'[Len(phis) + 1].pos = Len(ops)
    BY <1>4 DEF NewPhi
  <2>2. res'[Len(res) + 1].kind = "phi"
    BY <1>1 DEF NewResource
  <2>3. Len(res) + 1 \in 1 .. Len(res') /\ init \in 1 .. Len(res') /\ 0 \in 0 .. Len(res')
    BY <1>1
  <2> QED
    BY <1>2, <2>1, <2>2, <2>3 DEF PhiLinks
<1> QED
  BY <1>1, <1>4, <1>5, <1>6, <1>7

LEMMA PhiKeeps ==
    ASSUME RecInv, NEW r \in Handles, Phi(r)
    PROVE  RecInv'
<1>1. r \in 1 .. Len(res)
  BY HandlesFacts
<1>2. Declare("phi", 0, FALSE, TRUE) /\ phis' = Append(phis, NewPhi(r, FALSE))
      /\ UNCHANGED <<ops, ifs, scopes>>
  BY DEF Phi
<1>3. /\ res' \in Seq(ResourceSet) /\ defined' \in Seq(BOOLEAN) /\ phis' \in Seq(PhiSet)
      /\ Grown(res, ops, phis, res', ops', phis')
      /\ Len(defined') = Len(res')
      /\ \A x \in 1 .. Len(res') :
            (x \in 1 .. Len(res) /\ res'[x].cons = res[x].cons) \/ ResourceLinks(res', ops', x)
      /\ \A p \in 1 .. Len(phis') :
            (p \in 1 .. Len(phis) /\ phis'[p] = phis[p]) \/ PhiLinks(res', ops', phis', p)
  BY <1>1, <1>2, NewPhiFacts
<1>4. RecTypes'
  BY <1>2, <1>3 DEF RecTypes, RecInv
<1> QED
  BY <1>2, <1>3, <1>4, RecStep

LEMMA BeginWhileKeeps ==
    ASSUME RecInv, NEW r \in Handles, BeginWhile(r)
    PROVE  RecInv'
<1>1. r \in 1 .. Len(res) /\ r \in Nat
  BY HandlesFacts
<1> DEFINE scope == [kind |-> "while", cond |-> r, phi |-> Len(phis) + 1,
                     begin |-> Len(ops), alt |-> 0]
<1>2. Declare("phi", 0, FALSE, TRUE) /\ phis' = Append(phis, NewPhi(r, TRUE))
      /\ scopes' = Append(scopes, scope) /\ UNCHANGED <<ops, ifs>>
  BY DEF BeginWhile, Enter
<1>3. /\ res' \in Seq(ResourceSet) /\ defined' \in Seq(BOOLEAN) /\ phis' \in Seq(PhiSet)
      /\ Grown(res, ops, phis, res', ops', phis')
      /\ Len(defined') = Len(res') /\ Len(phis') = Len(phis) + 1 /\ Len(phis) \in Nat
      /\ \A x \in 1 .. Len(res') :
            (x \in 1 .. Len(res) /\ res'[x].cons = res[x].cons) \/ ResourceLinks(res', ops', x)
      /\ \A p \in 1 .. Len(phis') :
            (p \in 1 .. Len(phis) /\ phis'[p] = phis[p]) \/ PhiLinks(res', ops', phis', p)
  BY <1>1, <1>2, NewPhiFacts
<1>4. scopes \in Seq(ScopeSet) /\ ops \in Seq(OpSet) /\ Len(ops) \in Nat /\ Len(res) \in Nat
  BY DEF RecInv, RecTypes
<1>5. scope \in ScopeSet
  BY <1>1, <1>3, <1>4 DEF ScopeSet
<1>6. /\ scope.cond = r /\ scope.begin = Len(ops) /\ scope.kind = "while"
      /\ scope.phi = Len(phis) + 1
  OBVIOUS
<1> HIDE DEF scope
<1>7. /\ scopes' \in Seq(ScopeSet)
      /\ scopes'[Len(scopes) + 1] = scope
      /\ \A s \in 1 .. Len(scopes) : scopes'[s] = scopes[s]
      /\ \A s \in 1 .. Len(scopes') : s \in 1 .. Len(scopes) \/ s = Len(scopes) + 1
  BY <1>2, <1>4, <1>5, AppendSeq
<1>8. ScopeLinks(res', ops', phis', scopes', Len(scopes) + 1)
  <2>1. Len(res) <= Len(res') /\ Len(res') \in Nat
    BY <1>3 DEF Grown
  <2>2. r \in 1 .. Len(res') /\ Len(phis) + 1 \in 1 .. Len(phis')
    BY <1>1, <1>3, <1>4, <2>1
  <2> QED
    BY <1>2, <1>4, <1>6, <1>7, <2>2, SMTT(60) DEF ScopeLinks
<1>9. RecTypes'
  BY <1>2, <1>3, <1>7 DEF RecTypes, RecInv
<1> QED
  BY <1>2, <1>3, <1>7, <1>8, <1>9, RecStep

(* What append() adds.                                                     *)
LEMMA AppendOpFacts ==
    ASSUME RecInv, NEW kind \in OpKinds, NEW acc \in Seq(ArgSet), NEW side \in BOOLEAN,
           AppendOp(kind, acc, side)
    PROVE  /\ ops' \in Seq(OpSet) /\ Len(ops') = Len(ops) + 1 /\ Len(ops) \in Nat
           /\ ops'[Len(ops) + 1].kind = kind /\ ops'[Len(ops) + 1].acc = acc
           /\ \A i \in 1 .. Len(ops) : ops'[i] = ops[i]
           /\ \A i \in 1 .. Len(ops') : i \in 1 .. Len(ops) \/ i = Len(ops) + 1
<1> DEFINE op == [kind |-> kind, acc |-> acc, side |-> side, preds |-> PredecessorsOf(acc, ops)]
<1>1. ops \in Seq(OpSet)
  BY DEF RecInv, RecTypes
<1>2. PredecessorsOf(acc, ops) \in SUBSET Nat
  BY <1>1 DEF PredecessorsOf
<1>3. op \in OpSet /\ op.kind = kind /\ op.acc = acc
  <2> HIDE DEF PredecessorsOf
  <2> QED
    BY <1>2 DEF OpSet
<1>4. ops' = Append(ops, op)
  BY DEF AppendOp
<1> HIDE DEF op
<1> QED
  BY <1>1, <1>3, <1>4, AppendSeq

LEMMA DefinedAfterType ==
    ASSUME RecInv, NEW acc
    PROVE  DefinedAfter(acc) \in Seq(BOOLEAN) /\ Len(DefinedAfter(acc)) = Len(res)
<1>1. defined \in Seq(BOOLEAN) /\ Len(defined) = Len(res) /\ Len(res) \in Nat
  BY DEF RecInv, RecTypes, RecLinks
<1>2. DOMAIN defined = 1 .. Len(res)
  BY <1>1
<1>3. DefinedAfter(acc) \in [1 .. Len(res) -> BOOLEAN]
  <2> DEFINE Changed(r) == \E a \in ToSet(acc) : a.r = r /\ ~a.ser /\ a.mode # "read"
             Kept(r) == \E a \in ToSet(acc) : a.r = r /\ a.mode # "consume"
  <2>1. \A r \in 1 .. Len(res) : defined[r] \in BOOLEAN
    BY <1>1
  <2>2. \A r : Kept(r) \in BOOLEAN
    BY Zenon
  <2>3. DefinedAfter(acc) = [r \in 1 .. Len(res) |-> IF Changed(r) THEN Kept(r) ELSE defined[r]]
    BY <1>2, Zenon DEF DefinedAfter
  <2> HIDE DEF Changed, Kept
  <2>4. \A r \in 1 .. Len(res) : (IF Changed(r) THEN Kept(r) ELSE defined[r]) \in BOOLEAN
    BY <2>1, <2>2
  <2> QED
    BY <2>3, <2>4
<1> HIDE DEF DefinedAfter
<1> QED
  BY <1>1, <1>3

(* An operation whose accesses name recorded resources.                    *)
LEMMA AppendOnly ==
    ASSUME RecInv, NEW kind \in OpKinds, NEW acc \in Seq(ArgSet), NEW side \in BOOLEAN,
           \A j \in 1 .. Len(acc) : acc[j].r \in 1 .. Len(res),
           AppendOp(kind, acc, side),
           defined' \in Seq(BOOLEAN), Len(defined') = Len(res),
           UNCHANGED <<res, phis, ifs, scopes>>
    PROVE  RecInv'
<1>1. /\ ops' \in Seq(OpSet) /\ Len(ops') = Len(ops) + 1 /\ Len(ops) \in Nat
      /\ ops'[Len(ops) + 1].acc = acc
      /\ \A i \in 1 .. Len(ops) : ops'[i] = ops[i]
      /\ \A i \in 1 .. Len(ops') : i \in 1 .. Len(ops) \/ i = Len(ops) + 1
  BY AppendOpFacts
<1>2. RecTypes'
  BY <1>1 DEF RecTypes, RecInv
<1>3. Grown(res, ops, phis, res', ops', phis')
  <2>1. Len(res) \in Nat /\ Len(phis) \in Nat
    BY DEF RecInv, RecTypes
  <2> QED
    BY <1>1, <2>1 DEF Grown
<1>4. OpLinks(res', ops', Len(ops) + 1)
  BY <1>1 DEF OpLinks
<1> QED
  BY <1>1, <1>2, <1>3, <1>4, RecStep

(* The argument lists the recorder enumerates.                             *)
LEMMA ArgumentFacts ==
    ASSUME RecInv, NEW limit, NEW acc \in Arguments(limit)
    PROVE  acc \in Seq(ArgSet) /\ \A j \in 1 .. Len(acc) : acc[j].r \in 1 .. Len(res)
<1>1. Handles \subseteq 1 .. Len(res) /\ Len(res) \in Nat
  BY HandlesFacts DEF RecInv, RecTypes
<1>2. Modes \subseteq ModeNames
  BY RecorderAssumption DEF ModeNames
<1> DEFINE Kept(s) == s \in Seq(ArgSet) /\ \A j \in 1 .. Len(s) : s[j].r \in 1 .. Len(res)
<1>3. \A k, q : q \in InOrder(k) => \E n \in Nat : q \in [1 .. n -> 1 .. Len(res)]
  <2> SUFFICES ASSUME NEW k, NEW q \in InOrder(k)
               PROVE  \E n \in Nat : q \in [1 .. n -> 1 .. Len(res)]
    OBVIOUS
  <2>1. PICK n \in 0 .. k : q \in [1 .. n -> Handles]
    BY DEF InOrder
  <2>2. q \in [1 .. n -> 1 .. Len(res)]
    BY <1>1, <2>1
  <2> QED
    BY <2>2
<1>4. ASSUME NEW n \in Nat, NEW q \in [1 .. n -> 1 .. Len(res)], NEW m \in [1 .. n -> Modes]
      PROVE  Kept([i \in DOMAIN q |-> Arg(q[i], m[i])])
  <2> DEFINE s == [i \in DOMAIN q |-> Arg(q[i], m[i])]
  <2>1. DOMAIN q = 1 .. n
    OBVIOUS
  <2>2. \A i \in 1 .. n : Arg(q[i], m[i]) \in ArgSet /\ Arg(q[i], m[i]).r = q[i]
    BY <1>1, <1>2 DEF Arg, ArgSet
  <2>3. s \in [1 .. n -> ArgSet] /\ \A i \in 1 .. n : s[i].r \in 1 .. Len(res)
    <3> HIDE DEF Arg
    <3> QED
      BY <2>1, <2>2
  <2> HIDE DEF s
  <2>4. s \in Seq(ArgSet) /\ Len(s) = n
    BY <2>3
  <2>5. Kept(s)
    BY <2>3, <2>4
  <2> QED
    BY <2>5 DEF s
<1>5. ASSUME NEW n \in Nat, NEW q \in [1 .. n -> 1 .. Len(res)]
      PROVE  Kept([i \in DOMAIN q |-> [r |-> q[i], mode |-> "read_write", ser |-> TRUE]])
  <2> DEFINE s == [i \in DOMAIN q |-> [r |-> q[i], mode |-> "read_write", ser |-> TRUE]]
  <2>1. DOMAIN q = 1 .. n
    OBVIOUS
  <2>2. \A i \in 1 .. n : [r |-> q[i], mode |-> "read_write", ser |-> TRUE] \in ArgSet
    BY <1>1 DEF ArgSet, ModeNames
  <2>3. s \in [1 .. n -> ArgSet] /\ \A i \in 1 .. n : s[i].r \in 1 .. Len(res)
    BY <2>1, <2>2
  <2> HIDE DEF s
  <2>4. s \in Seq(ArgSet) /\ Len(s) = n
    BY <2>3
  <2>5. Kept(s)
    BY <2>3, <2>4
  <2> QED
    BY <2>5 DEF s
<1>6. ASSUME NEW s, NEW t, Kept(s), Kept(t) PROVE Kept(s \o t)
  <2>1. /\ s \o t \in Seq(ArgSet) /\ Len(s \o t) = Len(s) + Len(t)
        /\ \A i \in 1 .. Len(s) + Len(t) : (s \o t)[i] = IF i <= Len(s) THEN s[i] ELSE t[i - Len(s)]
    BY <1>6, ConcatProperties
  <2>2. Len(s) \in Nat /\ Len(t) \in Nat
    BY <1>6
  <2>3. ASSUME NEW j \in 1 .. Len(s \o t) PROVE (s \o t)[j].r \in 1 .. Len(res)
    <3>1. CASE j <= Len(s)
      BY <1>6, <2>1, <2>2, <3>1
    <3>2. CASE j > Len(s)
      <4>1. j - Len(s) \in 1 .. Len(t)
        BY <2>1, <2>2, <3>2
      <4> QED
        BY <1>6, <2>1, <2>2, <3>2, <4>1
    <3> QED
      BY <2>2, <3>1, <3>2
  <2> QED
    BY <2>1, <2>3
<1>7. PICK q \in InOrder(limit) : \E z \in InOrder(limit - Len(q)) : \E m \in [DOMAIN q -> Modes] :
         acc = [i \in DOMAIN q |-> Arg(q[i], m[i])] \o
               [i \in DOMAIN z |-> [r |-> z[i], mode |-> "read_write", ser |-> TRUE]]
  <2>1. acc \in ArgumentLists(limit)
    BY DEF Arguments
  <2> DEFINE Plain(q) == {[i \in DOMAIN q |-> Arg(q[i], m[i])] : m \in [DOMAIN q -> Modes]}
             Serial(q) == [i \in DOMAIN q |-> [r |-> q[i], mode |-> "read_write", ser |-> TRUE]]
             Serialized(q) == {z \in InOrder(limit - Len(q)) :
                 /\ z # <<>> => "serialize" \in Calls
                 /\ ToSet(z) \cap ToSet(q) = {}}
             Lists(q) == UNION {{x \o Serial(z) : x \in Plain(q)} : z \in Serialized(q)}
  <2>2. ArgumentLists(limit) = UNION {Lists(q) : q \in InOrder(limit)}
    BY DEF ArgumentLists
  <2>3. PICK q \in InOrder(limit) : acc \in Lists(q)
    <3> HIDE DEF Lists
    <3> QED
      BY <2>1, <2>2
  <2>4. PICK z \in Serialized(q) : acc \in {x \o Serial(z) : x \in Plain(q)}
    <3> HIDE DEF Serialized, Plain, Serial
    <3> QED
      BY <2>3
  <2>5. PICK x \in Plain(q) : acc = x \o Serial(z)
    <3> HIDE DEF Plain, Serial
    <3> QED
      BY <2>4
  <2>6. PICK m \in [DOMAIN q -> Modes] : x = [i \in DOMAIN q |-> Arg(q[i], m[i])]
    BY <2>5
  <2> QED
    BY <2>3, <2>4, <2>5, <2>6, Zenon
<1>8. PICK z \in InOrder(limit - Len(q)) : \E m \in [DOMAIN q -> Modes] :
         acc = [i \in DOMAIN q |-> Arg(q[i], m[i])] \o
               [i \in DOMAIN z |-> [r |-> z[i], mode |-> "read_write", ser |-> TRUE]]
  BY <1>7
<1>9. PICK m \in [DOMAIN q -> Modes] :
         acc = [i \in DOMAIN q |-> Arg(q[i], m[i])] \o
               [i \in DOMAIN z |-> [r |-> z[i], mode |-> "read_write", ser |-> TRUE]]
  BY <1>8
<1>10. PICK n \in Nat : q \in [1 .. n -> 1 .. Len(res)]
  BY <1>3
<1>11. PICK k \in Nat : z \in [1 .. k -> 1 .. Len(res)]
  BY <1>3
<1>12. m \in [1 .. n -> Modes]
  BY <1>10
<1>13. Kept([i \in DOMAIN q |-> Arg(q[i], m[i])])
  BY <1>4, <1>10, <1>12
<1>14. Kept([i \in DOMAIN z |-> [r |-> z[i], mode |-> "read_write", ser |-> TRUE]])
  BY <1>5, <1>11
<1>15. Kept(acc)
  <2> HIDE DEF Kept
  <2> QED
    BY <1>6, <1>9, <1>13, <1>14
<1> QED
  BY <1>15

LEMMA OpKeeps ==
    ASSUME RecInv, NEW acc \in Arguments(MaxAccesses), NEW side \in BOOLEAN, Op(acc, side)
    PROVE  RecInv'
<1>1. acc \in Seq(ArgSet) /\ \A j \in 1 .. Len(acc) : acc[j].r \in 1 .. Len(res)
  BY ArgumentFacts
<1>2. /\ AppendOp("callback", acc, side) /\ defined' = DefinedAfter(acc)
      /\ UNCHANGED <<res, phis, ifs, scopes>>
  BY DEF Op
<1>3. "callback" \in OpKinds
  BY DEF OpKinds
<1> QED
  BY <1>1, <1>2, <1>3, AppendOnly, DefinedAfterType

LEMMA BoundaryKeeps ==
    ASSUME RecInv, NEW kind \in {"acquire", "yield"}, Boundary(kind)
    PROVE  RecInv'
<1>1. AppendOp(kind, <<>>, FALSE) /\ UNCHANGED <<res, defined, phis, ifs, scopes>>
  BY DEF Boundary
<1>2. <<>> \in Seq(ArgSet) /\ \A j \in 1 .. Len(<<>>) : <<>>[j].r \in 1 .. Len(res)
  OBVIOUS
<1>3. kind \in OpKinds
  BY DEF OpKinds
<1>4. defined' \in Seq(BOOLEAN) /\ Len(defined') = Len(res)
  BY <1>1 DEF RecInv, RecTypes, RecLinks
<1> QED
  BY <1>1, <1>2, <1>3, <1>4, AppendOnly

LEMMA OneAccess ==
    ASSUME NEW S, NEW x \in S
    PROVE  <<x>> \in Seq(S) /\ Len(<<x>>) = 1 /\ <<x>>[1] = x
OBVIOUS

LEMMA DiscardKeeps ==
    ASSUME RecInv, NEW r \in Handles, Discard(r)
    PROVE  RecInv'
<1>1. r \in 1 .. Len(res) /\ r \in Nat
  BY HandlesFacts
<1>2. /\ AppendOp("discard", <<Arg(r, "write")>>, FALSE)
      /\ defined' = [defined EXCEPT ![r] = FALSE]
      /\ UNCHANGED <<res, phis, ifs, scopes>>
  BY DEF Discard
<1>3. Arg(r, "write") \in ArgSet /\ Arg(r, "write").r = r
  BY <1>1 DEF Arg, ArgSet, ModeNames
<1>4. /\ <<Arg(r, "write")>> \in Seq(ArgSet)
      /\ \A j \in 1 .. Len(<<Arg(r, "write")>>) : <<Arg(r, "write")>>[j].r \in 1 .. Len(res)
  BY <1>1, <1>3, OneAccess
<1>5. defined' \in Seq(BOOLEAN) /\ Len(defined') = Len(res)
  BY <1>1, <1>2, ExceptFacts DEF RecInv, RecTypes, RecLinks
<1>6. "discard" \in OpKinds
  BY DEF OpKinds
<1> QED
  BY <1>2, <1>4, <1>5, <1>6, AppendOnly

LEMMA CutoffKeeps ==
    ASSUME RecInv, NEW r \in Handles, Cutoff(r)
    PROVE  RecInv'
<1>1. r \in 1 .. Len(res) /\ r \in Nat
  BY HandlesFacts
<1> DEFINE acc == <<Arg(r, "read"), Arg(Len(res) + 1, "write")>>
<1>2. /\ Declare("cutoff", 0, FALSE, TRUE) /\ AppendOp("cutoff", acc, FALSE)
      /\ UNCHANGED <<phis, ifs, scopes>>
  BY DEF Cutoff
<1>3. /\ res' \in Seq(ResourceSet) /\ defined' \in Seq(BOOLEAN)
      /\ Len(defined') = Len(res') /\ Len(res') = Len(res) + 1 /\ Len(res) \in Nat
      /\ res'[Len(res) + 1] = NewResource("cutoff", 0, FALSE)
      /\ \A x \in 1 .. Len(res) : res'[x] = res[x]
      /\ \A x \in 1 .. Len(res') : x \in 1 .. Len(res) \/ x = Len(res) + 1
  BY <1>2, DeclareFacts DEF ResourceKinds
<1>4. acc \in Seq(ArgSet) /\ Len(acc) = 2 /\ acc[1].r = r /\ acc[2].r = Len(res) + 1
  <2>1. Arg(r, "read") \in ArgSet /\ Arg(Len(res) + 1, "write") \in ArgSet
    BY <1>1, <1>3 DEF Arg, ArgSet, ModeNames
  <2>2. Arg(r, "read").r = r /\ Arg(Len(res) + 1, "write").r = Len(res) + 1
    BY DEF Arg
  <2> QED
    BY <2>1, <2>2
<1> HIDE DEF acc
<1>5. /\ ops' \in Seq(OpSet) /\ Len(ops') = Len(ops) + 1 /\ Len(ops) \in Nat
      /\ ops'[Len(ops) + 1].acc = acc
      /\ \A i \in 1 .. Len(ops) : ops'[i] = ops[i]
      /\ \A i \in 1 .. Len(ops') : i \in 1 .. Len(ops) \/ i = Len(ops) + 1
  BY <1>2, <1>4, AppendOpFacts DEF OpKinds
<1>6. RecTypes'
  BY <1>2, <1>3, <1>5 DEF RecTypes, RecInv
<1>7. Grown(res, ops, phis, res', ops', phis')
  <2>1. Len(phis) \in Nat
    BY DEF RecInv, RecTypes
  <2> QED
    BY <1>2, <1>3, <1>5, <2>1 DEF Grown
<1>8. OpLinks(res', ops', Len(ops) + 1)
  <2> SUFFICES ASSUME NEW j \in 1 .. 2 PROVE acc[j].r \in 1 .. Len(res')
    BY <1>4, <1>5 DEF OpLinks
  <2> QED
    BY <1>1, <1>3, <1>4
<1>9. ResourceLinks(res', ops', Len(res) + 1)
  BY <1>3, <1>5, DeclaredLinks
<1> QED
  BY <1>2, <1>3, <1>5, <1>6, <1>7, <1>8, <1>9, RecStep

LEMMA ChangedResource ==
    ASSUME NEW y \in ResourceSet, NEW k \in Nat
    PROVE  /\ [y EXCEPT !.cons = k] \in ResourceSet
           /\ [y EXCEPT !.cons = k].kind = y.kind /\ [y EXCEPT !.cons = k].owner = y.owner
           /\ [y EXCEPT !.cons = k].cons = k
BY DEF ResourceSet

LEMMA ConstructKeeps ==
    ASSUME RecInv, NEW r \in Handles, NEW inputs \in Arguments(MaxAccesses - 1),
           Construct(r, inputs)
    PROVE  RecInv'
<1>1. r \in 1 .. Len(res) /\ r \in Nat
  BY HandlesFacts
<1>2. inputs \in Seq(ArgSet) /\ \A j \in 1 .. Len(inputs) : inputs[j].r \in 1 .. Len(res)
  BY ArgumentFacts
<1> DEFINE acc == <<Arg(r, "write")>> \o inputs
           x == [res[r] EXCEPT !.cons = Len(ops) + 1]
<1>3. /\ AppendOp("construct", acc, FALSE) /\ defined' = DefinedAfter(acc)
      /\ res' = [res EXCEPT ![r] = x] /\ UNCHANGED <<phis, ifs, scopes>>
  BY DEF Construct
<1>4. /\ res \in Seq(ResourceSet) /\ ops \in Seq(OpSet) /\ Len(ops) \in Nat /\ Len(res) \in Nat
      /\ Len(phis) \in Nat
  BY DEF RecInv, RecTypes
<1>5. acc \in Seq(ArgSet) /\ \A j \in 1 .. Len(acc) : acc[j].r \in 1 .. Len(res)
  <2> DEFINE a == Arg(r, "write")
  <2>1. a \in ArgSet /\ a.r = r
    BY <1>1 DEF Arg, ArgSet, ModeNames
  <2> HIDE DEF a
  <2>2. <<a>> \in Seq(ArgSet) /\ Len(<<a>>) = 1 /\ <<a>>[1] = a
    BY <2>1, OneAccess
  <2>3. /\ acc \in Seq(ArgSet) /\ Len(acc) = 1 + Len(inputs)
        /\ \A i \in 1 .. 1 + Len(inputs) :
              acc[i] = IF i <= 1 THEN <<a>>[i] ELSE inputs[i - 1]
    <3>1. acc = <<a>> \o inputs
      BY DEF a
    <3> HIDE DEF acc
    <3> QED
      BY <1>2, <2>2, <3>1, ConcatProperties
  <2> HIDE DEF acc
  <2>4. Len(inputs) \in Nat
    BY <1>2
  <2>5. ASSUME NEW j \in 1 .. Len(acc) PROVE acc[j].r \in 1 .. Len(res)
    <3>1. CASE j = 1
      <4>1. acc[j] = a
        BY <2>2, <2>3, <2>4, <3>1
      <4> QED
        BY <1>1, <2>1, <4>1
    <3>2. CASE j # 1
      <4>1. j - 1 \in 1 .. Len(inputs) /\ acc[j] = inputs[j - 1]
        BY <2>3, <2>4, <3>2
      <4> QED
        BY <1>2, <4>1
    <3> QED
      BY <3>1, <3>2
  <2> QED
    BY <2>3, <2>5
<1>6. /\ x \in ResourceSet /\ x.kind = res[r].kind /\ x.owner = res[r].owner
      /\ x.cons = Len(ops) + 1
  <2> DEFINE y == res[r]
             k == Len(ops) + 1
  <2>1. y \in ResourceSet /\ k \in Nat
    BY <1>1, <1>4
  <2>2. x = [y EXCEPT !.cons = k]
    OBVIOUS
  <2> HIDE DEF y, k, x
  <2>3. /\ [y EXCEPT !.cons = k] \in ResourceSet
        /\ [y EXCEPT !.cons = k].kind = y.kind /\ [y EXCEPT !.cons = k].owner = y.owner
        /\ [y EXCEPT !.cons = k].cons = k
    BY <2>1, ChangedResource
  <2>4. x \in ResourceSet /\ x.kind = y.kind /\ x.owner = y.owner /\ x.cons = k
    BY <2>2, <2>3
  <2> QED
    BY <2>4 DEF y, k
<1> HIDE DEF acc, x
<1>7. /\ res' \in Seq(ResourceSet) /\ Len(res') = Len(res) /\ res'[r] = x
      /\ \A y \in 1 .. Len(res) : y # r => res'[y] = res[y]
  BY <1>1, <1>3, <1>4, <1>6, ExceptFacts
<1>8. /\ ops' \in Seq(OpSet) /\ Len(ops') = Len(ops) + 1
      /\ ops'[Len(ops) + 1].acc = acc /\ ops'[Len(ops) + 1].kind = "construct"
      /\ \A i \in 1 .. Len(ops) : ops'[i] = ops[i]
      /\ \A i \in 1 .. Len(ops') : i \in 1 .. Len(ops) \/ i = Len(ops) + 1
  BY <1>3, <1>5, AppendOpFacts DEF OpKinds
<1>9. defined' \in Seq(BOOLEAN) /\ Len(defined') = Len(res')
  BY <1>3, <1>7, DefinedAfterType
<1>10. RecTypes'
  BY <1>3, <1>7, <1>8, <1>9 DEF RecTypes, RecInv
<1>11. \A y \in 1 .. Len(res) : res'[y].kind = res[y].kind /\ res'[y].owner = res[y].owner
  BY <1>6, <1>7
<1>12. Grown(res, ops, phis, res', ops', phis')
  BY <1>3, <1>4, <1>7, <1>8, <1>11 DEF Grown
<1>13. ResourceLinks(res', ops', r)
  <2>1. ResourceLinks(res, ops, r)
    BY <1>1 DEF RecInv, RecLinks
  <2>2. res'[r].cons <= Len(ops') /\ (res'[r].cons # 0 => ops'[res'[r].cons].kind = "construct")
    BY <1>4, <1>6, <1>7, <1>8
  <2>3. res'[r].kind # "projection" => res'[r].owner = 0
    BY <1>6, <1>7, <2>1 DEF ResourceLinks
  <2>4. ASSUME res'[r].kind = "projection"
        PROVE  /\ res'[r].owner \in 1 .. r - 1
               /\ res'[res'[r].owner].kind = "projection" => NestProjections
    <3>1. /\ res[r].owner \in 1 .. r - 1
          /\ res[res[r].owner].kind = "projection" => NestProjections
      BY <1>6, <1>7, <2>1, <2>4 DEF ResourceLinks
    <3>2. res[r].owner \in 1 .. Len(res)
      BY <1>1, <1>4, <3>1
    <3>3. res'[r].owner = res[r].owner
      BY <1>6, <1>7
    <3> QED
      BY <1>11, <3>1, <3>2, <3>3
  <2> QED
    BY <2>2, <2>3, <2>4 DEF ResourceLinks
<1>14. OpLinks(res', ops', Len(ops) + 1)
  BY <1>5, <1>7, <1>8 DEF OpLinks
<1>15. \A y \in 1 .. Len(res') :
         (y \in 1 .. Len(res) /\ res'[y].cons = res[y].cons) \/ ResourceLinks(res', ops', y)
  BY <1>7, <1>13
<1> QED
  BY <1>3, <1>8, <1>9, <1>10, <1>12, <1>14, <1>15, RecStep

(* The phi that feedback() and the end of a while complete.                *)
LEMMA CompletedPhi ==
    ASSUME RecInv, NEW p \in 1 .. Len(phis), NEW fb \in 1 .. Len(res), NEW cond \in 0 .. Len(res),
           NEW mif \in Nat, UNCHANGED <<res, ops>>,
           phis' = [phis EXCEPT ![p] =
                      [phis[p] EXCEPT !.fb = fb, !.cond = cond, !.fbpos = Len(ops), !.mif = mif]]
    PROVE  /\ phis' \in Seq(PhiSet) /\ Grown(res, ops, phis, res', ops', phis')
           /\ \A q \in 1 .. Len(phis') :
                 (q \in 1 .. Len(phis) /\ phis'[q] = phis[q]) \/ PhiLinks(res', ops', phis', q)
<1> DEFINE x == [phis[p] EXCEPT !.fb = fb, !.cond = cond, !.fbpos = Len(ops), !.mif = mif]
<1>1. /\ phis \in Seq(PhiSet) /\ Len(ops) \in Nat /\ Len(res) \in Nat /\ Len(phis) \in Nat
  BY DEF RecInv, RecTypes
<1>2. PhiLinks(res, ops, phis, p)
  BY DEF RecInv, RecLinks
<1>3. /\ x \in PhiSet /\ x.out = phis[p].out /\ x.init = phis[p].init /\ x.pos = phis[p].pos
      /\ x.fb = fb /\ x.cond = cond /\ x.fbpos = Len(ops)
  <2> DEFINE y == phis[p]
             n == Len(ops)
  <2>1. y \in PhiSet /\ fb \in Nat /\ cond \in Nat /\ n \in Int
    BY <1>1
  <2>2. x = [y EXCEPT !.fb = fb, !.cond = cond, !.fbpos = n, !.mif = mif]
    OBVIOUS
  <2> HIDE DEF y, n, x
  <2>3. /\ x \in PhiSet /\ x.out = y.out /\ x.init = y.init /\ x.pos = y.pos
        /\ x.fb = fb /\ x.cond = cond /\ x.fbpos = n
    BY <2>1, <2>2 DEF PhiSet
  <2> QED
    BY <2>3 DEF y, n
<1> HIDE DEF x
<1>4. /\ phis' \in Seq(PhiSet) /\ Len(phis') = Len(phis) /\ phis'[p] = x
      /\ \A q \in 1 .. Len(phis) : q # p => phis'[q] = phis[q]
  <2>1. phis' = [phis EXCEPT ![p] = x]
    BY DEF x
  <2>2. /\ [phis EXCEPT ![p] = x] \in Seq(PhiSet)
        /\ Len([phis EXCEPT ![p] = x]) = Len(phis)
        /\ [phis EXCEPT ![p] = x][p] = x
        /\ \A q \in 1 .. Len(phis) : q # p => [phis EXCEPT ![p] = x][q] = phis[q]
    BY <1>1, <1>3, ExceptFacts
  <2> QED
    BY <2>1, <2>2
<1>5. PhiLinks(res', ops', phis', p)
  <2>1. x.pos <= x.fbpos /\ x.fbpos <= Len(ops)
    BY <1>1, <1>2, <1>3 DEF PhiLinks
  <2> QED
    BY <1>2, <1>3, <1>4, <2>1 DEF PhiLinks
<1>6. Grown(res, ops, phis, res', ops', phis')
  BY <1>1, <1>4 DEF Grown
<1> QED
  BY <1>4, <1>5, <1>6

LEMMA FeedbackKeeps ==
    ASSUME RecInv, NEW p \in DOMAIN phis, NEW r \in Handles, NEW mif \in Limits, Feedback(p, r, mif)
    PROVE  RecInv'
<1>1. r \in 1 .. Len(res)
  BY HandlesFacts
<1>2. phis \in Seq(PhiSet) /\ p \in 1 .. Len(phis)
  BY DEF RecInv, RecTypes
<1>3. phis[p] \in PhiSet
  BY <1>2
<1>4. mif \in Nat
  BY RecorderAssumption
<1>5. phis[p].cond \in 0 .. Len(res)
  BY <1>2 DEF RecInv, RecLinks, PhiLinks
<1>6. /\ phis' = [phis EXCEPT ![p] = [phis[p] EXCEPT !.fb = r, !.cond = phis[p].cond,
                                                     !.fbpos = Len(ops), !.mif = mif]]
      /\ UNCHANGED <<res, defined, ops, ifs, scopes>>
  <2> DEFINE y == phis[p]
  <2>1. [y EXCEPT !.fb = r, !.fbpos = Len(ops), !.mif = mif] =
        [y EXCEPT !.fb = r, !.cond = y.cond, !.fbpos = Len(ops), !.mif = mif]
    <3> HIDE DEF y
    <3> QED
      BY <1>3 DEF PhiSet, y
  <2> QED
    BY <2>1 DEF Feedback
<1>7. /\ phis' \in Seq(PhiSet) /\ Grown(res, ops, phis, res', ops', phis')
      /\ \A q \in 1 .. Len(phis') :
            (q \in 1 .. Len(phis) /\ phis'[q] = phis[q]) \/ PhiLinks(res', ops', phis', q)
  BY <1>1, <1>2, <1>4, <1>5, <1>6, CompletedPhi
<1>8. RecTypes'
  BY <1>6, <1>7 DEF RecInv, RecTypes
<1>9. Len(defined') = Len(res')
  BY <1>6 DEF RecInv, RecLinks
<1> QED
  BY <1>6, <1>7, <1>8, <1>9, RecStep

LEMMA GrownSame == ASSUME RecInv, UNCHANGED <<res, ops, phis>>
                   PROVE  Grown(res, ops, phis, res', ops', phis')
BY DEF RecInv, RecTypes, Grown

LEMMA FrontFacts ==
    ASSUME NEW S, NEW s \in Seq(S), s # <<>>
    PROVE  /\ Len(s) \in 1 .. Len(s) /\ Last(s) = s[Len(s)] /\ Last(s) \in S
           /\ Front(s) \in Seq(S) /\ Len(Front(s)) = Len(s) - 1
           /\ \A i \in 1 .. Len(Front(s)) : i \in 1 .. Len(s) /\ Front(s)[i] = s[i]
<1>1. Len(s) \in Nat /\ Len(s) # 0
  BY EmptySeq
<1>2. \A i \in 1 .. Len(s) - 1 : s[i] \in S
  BY <1>1
<1>3. /\ Front(s) \in Seq(S) /\ Len(Front(s)) = Len(s) - 1
      /\ \A i \in 1 .. Len(s) - 1 : Front(s)[i] = s[i]
  <2> DEFINE k == Len(s) - 1
  <2>1. k \in Nat /\ \A i \in 1 .. k : s[i] \in S
    BY <1>1, <1>2
  <2> HIDE DEF k
  <2>2. /\ SubSeq(s, 1, k) \in Seq(S)
        /\ Len(SubSeq(s, 1, k)) = IF 1 <= k THEN k - 1 + 1 ELSE 0
        /\ \A i \in 1 .. k - 1 + 1 : SubSeq(s, 1, k)[i] = s[1 + i - 1]
    BY <2>1, SubSeqProperties
  <2>3. Front(s) = SubSeq(s, 1, k)
    BY DEF Front, k
  <2>4. Len(Front(s)) = k /\ \A i \in 1 .. k : Front(s)[i] = s[i]
    BY <2>1, <2>2, <2>3
  <2> QED
    BY <2>2, <2>3, <2>4 DEF k
<1> QED
  BY <1>1, <1>3 DEF Last

LEMMA EndWhileKeeps ==
    ASSUME RecInv, EndWhile
    PROVE  RecInv'
<1> DEFINE s == Last(scopes)
<1>1. /\ scopes # <<>> /\ s.kind = "while" /\ scopes' = Front(scopes)
      /\ phis' = [phis EXCEPT ![s.phi] = [phis[s.phi] EXCEPT !.fb = s.cond, !.cond = s.cond,
                                                             !.fbpos = Len(ops), !.mif = 1]]
      /\ UNCHANGED <<res, defined, ops, ifs>>
  BY DEF EndWhile, Leave
<1>2. scopes \in Seq(ScopeSet) /\ Len(res) \in Nat
  BY DEF RecInv, RecTypes
<1>3. /\ Len(scopes) \in 1 .. Len(scopes) /\ s = scopes[Len(scopes)]
      /\ Front(scopes) \in Seq(ScopeSet)
      /\ \A i \in 1 .. Len(Front(scopes)) : i \in 1 .. Len(scopes) /\ Front(scopes)[i] = scopes[i]
  BY <1>1, <1>2, FrontFacts
<1>4. s.cond \in 1 .. Len(res) /\ s.phi \in 1 .. Len(phis)
  <2>1. ScopeLinks(res, ops, phis, scopes, Len(scopes))
    BY <1>3 DEF RecInv, RecLinks
  <2> QED
    BY <1>1, <1>3, <2>1 DEF ScopeLinks
<1> HIDE DEF s
<1>5. /\ phis' \in Seq(PhiSet) /\ Grown(res, ops, phis, res', ops', phis')
      /\ \A q \in 1 .. Len(phis') :
            (q \in 1 .. Len(phis) /\ phis'[q] = phis[q]) \/ PhiLinks(res', ops', phis', q)
  <2>1. s.cond \in 0 .. Len(res) /\ 1 \in Nat
    BY <1>2, <1>4
  <2> QED
    BY <1>1, <1>4, <2>1, CompletedPhi
<1>6. RecTypes'
  BY <1>1, <1>3, <1>5 DEF RecInv, RecTypes
<1>7. Len(defined') = Len(res')
  BY <1>1 DEF RecInv, RecLinks
<1> QED
  BY <1>1, <1>3, <1>5, <1>6, <1>7, RecStep

LEMMA BeginIfKeeps ==
    ASSUME RecInv, NEW r \in Handles, BeginIf(r)
    PROVE  RecInv'
<1> DEFINE scope == [kind |-> "then", cond |-> r, phi |-> 0, begin |-> Len(ops), alt |-> 0]
<1>1. r \in 1 .. Len(res) /\ r \in Nat
  BY HandlesFacts
<1>2. scopes' = Append(scopes, scope) /\ UNCHANGED <<res, defined, ops, phis, ifs>>
  BY DEF BeginIf, Enter
<1>3. scopes \in Seq(ScopeSet) /\ Len(ops) \in Nat
  BY DEF RecInv, RecTypes
<1>4. /\ scope \in ScopeSet /\ scope.kind = "then" /\ scope.cond = r
      /\ scope.begin = Len(ops)
  BY <1>1, <1>3 DEF ScopeSet
<1> HIDE DEF scope
<1>5. /\ scopes' \in Seq(ScopeSet)
      /\ scopes'[Len(scopes) + 1] = scope
      /\ \A s \in 1 .. Len(scopes) : scopes'[s] = scopes[s]
      /\ \A s \in 1 .. Len(scopes') : s \in 1 .. Len(scopes) \/ s = Len(scopes) + 1
  BY <1>2, <1>3, <1>4, AppendSeq
<1>6. ScopeLinks(res', ops', phis', scopes', Len(scopes) + 1)
  BY <1>1, <1>2, <1>3, <1>4, <1>5 DEF ScopeLinks
<1>7. RecTypes'
  BY <1>2, <1>5 DEF RecInv, RecTypes
<1>8. Len(defined') = Len(res') /\ Grown(res, ops, phis, res', ops', phis')
  BY <1>2, GrownSame, SMTT(60) DEF RecInv, RecLinks
<1> QED
  BY <1>2, <1>5, <1>6, <1>7, <1>8, RecStep

LEMMA BeginElseKeeps ==
    ASSUME RecInv, BeginElse
    PROVE  RecInv'
<1> DEFINE k == Len(scopes)
           y == scopes[k]
           n == Len(ops)
           x == [y EXCEPT !.kind = "else", !.alt = n]
<1>1. scopes # <<>> /\ scopes' = [scopes EXCEPT ![k] = x] /\ UNCHANGED <<res, defined, ops, phis, ifs>>
  BY DEF BeginElse
<1>2. scopes \in Seq(ScopeSet) /\ n \in Nat
  BY DEF RecInv, RecTypes
<1>3. k \in 1 .. Len(scopes) /\ y \in ScopeSet
  BY <1>1, <1>2, FrontFacts
<1>4. ScopeLinks(res, ops, phis, scopes, k)
  BY <1>3 DEF RecInv, RecLinks
<1>5. /\ x \in ScopeSet /\ x.kind = "else" /\ x.alt = n /\ x.cond = y.cond /\ x.begin = y.begin
  <2>1. x = [y EXCEPT !.kind = "else", !.alt = n]
    OBVIOUS
  <2> HIDE DEF x, y, n
  <2> QED
    BY <1>2, <1>3, <2>1, ZenonT(60) DEF ScopeSet
<1> HIDE DEF x
<1>6. /\ scopes' \in Seq(ScopeSet) /\ Len(scopes') = Len(scopes) /\ scopes'[k] = x
      /\ \A s \in 1 .. Len(scopes) : s # k => scopes'[s] = scopes[s]
  <2>1. /\ [scopes EXCEPT ![k] = x] \in Seq(ScopeSet)
        /\ Len([scopes EXCEPT ![k] = x]) = Len(scopes)
        /\ [scopes EXCEPT ![k] = x][k] = x
        /\ \A s \in 1 .. Len(scopes) : s # k => [scopes EXCEPT ![k] = x][s] = scopes[s]
    <3> HIDE DEF k
    <3> QED
      BY <1>2, <1>3, <1>5, ExceptFacts
  <2> QED
    BY <1>1, <2>1, ZenonT(60)
<1>7. ScopeLinks(res', ops', phis', scopes', k)
  <2>1. y.cond \in 1 .. Len(res) /\ y.begin <= n
    BY <1>4, SMTT(60) DEF ScopeLinks
  <2>2. /\ scopes'[k].cond \in 1 .. Len(res') /\ scopes'[k].begin <= Len(ops')
        /\ scopes'[k].kind = "else" /\ scopes'[k].alt = Len(ops')
    BY <1>1, <1>5, <1>6, <2>1, ZenonT(60)
  <2>3. Len(ops') <= Len(ops')
    BY <1>1, <1>2, SMTT(60)
  <2> HIDE DEF k
  <2> QED
    BY <2>2, <2>3 DEF ScopeLinks
<1>8. RecTypes'
  BY <1>1, <1>6, ZenonT(60) DEF RecInv, RecTypes
<1>9. Len(defined') = Len(res') /\ Grown(res, ops, phis, res', ops', phis')
  BY <1>1, GrownSame DEF RecInv, RecLinks
<1> QED
  BY <1>1, <1>6, <1>7, <1>8, <1>9, RecStep, ZenonT(60)

LEMMA EndIfKeeps ==
    ASSUME RecInv, EndIf
    PROVE  RecInv'
<1> DEFINE s == Last(scopes)
           x == [cond |-> s.cond, begin |-> s.begin, alt |-> s.alt, end |-> Len(ops)]
<1>1. /\ scopes # <<>> /\ s.kind = "else" /\ scopes' = Front(scopes)
      /\ ifs' = Append(ifs, x) /\ UNCHANGED <<res, defined, ops, phis>>
  BY DEF EndIf, Leave
<1>2. scopes \in Seq(ScopeSet) /\ ifs \in Seq(IfSet) /\ Len(ops) \in Nat
  BY DEF RecInv, RecTypes
<1>3. /\ Len(scopes) \in 1 .. Len(scopes) /\ s = scopes[Len(scopes)] /\ s \in ScopeSet
      /\ Front(scopes) \in Seq(ScopeSet)
      /\ \A i \in 1 .. Len(Front(scopes)) : i \in 1 .. Len(scopes) /\ Front(scopes)[i] = scopes[i]
  BY <1>1, <1>2, FrontFacts
<1>4. s.cond \in 1 .. Len(res) /\ s.begin <= s.alt /\ s.alt <= Len(ops)
  <2>1. ScopeLinks(res, ops, phis, scopes, Len(scopes))
    BY <1>3 DEF RecInv, RecLinks
  <2> QED
    BY <1>1, <1>3, <2>1 DEF ScopeLinks
<1>5. x \in IfSet /\ x.cond = s.cond /\ x.begin = s.begin /\ x.alt = s.alt /\ x.end = Len(ops)
  <2>1. s.cond \in Nat /\ s.begin \in Nat /\ s.alt \in Nat
    BY <1>3 DEF ScopeSet
  <2> HIDE DEF s
  <2> QED
    BY <1>2, <2>1 DEF IfSet
<1> HIDE DEF s, x
<1>6. /\ ifs' \in Seq(IfSet) /\ ifs'[Len(ifs) + 1] = x
      /\ \A b \in 1 .. Len(ifs) : ifs'[b] = ifs[b]
      /\ \A b \in 1 .. Len(ifs') : b \in 1 .. Len(ifs) \/ b = Len(ifs) + 1
  BY <1>1, <1>2, <1>5, AppendSeq
<1>7. IfLinks(res', ops', ifs', Len(ifs) + 1)
  BY <1>1, <1>2, <1>4, <1>5, <1>6 DEF IfLinks
<1>8. RecTypes'
  BY <1>1, <1>3, <1>6 DEF RecInv, RecTypes
<1>9. Len(defined') = Len(res') /\ Grown(res, ops, phis, res', ops', phis')
  BY <1>1, GrownSame DEF RecInv, RecLinks
<1> QED
  BY <1>1, <1>3, <1>6, <1>7, <1>8, <1>9, RecStep

LEMMA RejectIfKeeps ==
    ASSUME RecInv, RejectIf
    PROVE  RecInv'
<1>1. /\ UNCHANGED <<res, defined, ops, phis, ifs>>
      /\ \E depth \in 0 .. Len(scopes) - 1 : scopes' = SubSeq(scopes, 1, depth)
  BY DEF RejectIf
<1>2. PICK depth \in 0 .. Len(scopes) - 1 : scopes' = SubSeq(scopes, 1, depth)
  BY <1>1
<1>3. scopes \in Seq(ScopeSet) /\ Len(scopes) \in Nat
  BY DEF RecInv, RecTypes
<1>4. /\ scopes' \in Seq(ScopeSet) /\ Len(scopes') = depth
      /\ \A s \in 1 .. depth : scopes'[s] = scopes[s]
  <2>1. \A s \in 1 .. depth : scopes[s] \in ScopeSet
    BY <1>3
  <2>2. /\ SubSeq(scopes, 1, depth) \in Seq(ScopeSet)
        /\ Len(SubSeq(scopes, 1, depth)) = IF 1 <= depth THEN depth - 1 + 1 ELSE 0
        /\ \A i \in 1 .. depth - 1 + 1 : SubSeq(scopes, 1, depth)[i] = scopes[1 + i - 1]
    BY <2>1, SubSeqProperties
  <2> QED
    BY <1>2, <2>2
<1>5. /\ scopes' \in Seq(ScopeSet)
      /\ \A s \in 1 .. Len(scopes') : s \in 1 .. Len(scopes) /\ scopes'[s] = scopes[s]
  BY <1>2, <1>3, <1>4
<1>6. RecTypes'
  BY <1>1, <1>5 DEF RecInv, RecTypes
<1>7. Len(defined') = Len(res') /\ Grown(res, ops, phis, res', ops', phis')
  BY <1>1, GrownSame DEF RecInv, RecLinks
<1> QED
  BY <1>1, <1>5, <1>6, <1>7, RecStep

LEMMA RecorderStep ==
    ASSUME RecInv, RecNext
    PROVE  RecInv'
BY ResourceKeeps, ExternalKeeps, ProjectKeeps, PhiKeeps, FeedbackKeeps, ConstructKeeps, OpKeeps,
   CutoffKeeps, DiscardKeeps, BoundaryKeeps, BeginWhileKeeps, EndWhileKeeps, BeginIfKeeps,
   BeginElseKeeps, EndIfKeeps, RejectIfKeeps DEF RecNext

LEMMA RecorderInit == RecInit => RecInv
BY DEF RecInit, RecInv, RecTypes, RecLinks

-----------------------------------------------------------------------------
(* What flow::end() has found at each stage: the results of the passes so far, *)
(* each computed from the ones before, and what the passes have accepted.    *)
Stages == {"record", "rejected", "validated", "lowered", "resolved", "ordered",
           "analyzed", "allocated", "emitted", "compiled"}
Planned == {"compiled"}
Emitted == {"emitted"} \cup Planned
Allocated == {"allocated"} \cup Emitted
Analyzed == {"analyzed"} \cup Allocated
Ordered == {"ordered"} \cup Analyzed
Resolved == {"resolved"} \cup Ordered
Lowered == {"lowered"} \cup Resolved
Validated == {"validated"} \cup Lowered

OrderFields == {"v", "immediate", "temporal", "reach", "candidates", "invariant", "pre"}
AnalyzeFields == OrderFields \cup {"act", "life"}
AllocateFields == AnalyzeFields \cup {"layout"}
EmitFields == AllocateFields \cup {"data"}

HasFields ==
    /\ stage \in {"record", "validated"} => DOMAIN ir = {}
    /\ stage \in {"lowered", "resolved"} => DOMAIN ir = {"v"}
    /\ stage = "ordered" => DOMAIN ir = OrderFields
    /\ stage = "analyzed" => DOMAIN ir = AnalyzeFields
    /\ stage = "allocated" => DOMAIN ir = AllocateFields
    /\ stage = "emitted" => DOMAIN ir = EmitFields

LowerFound(x) == x.v = LowerValues(Stream, Canonicalize(Stream)) /\ ~x.v.fail

ResolveFound(x) == ResolvePhis(x.v) /\ ValidateFeedbackLoops(x.v) /\ LowerCutoffs(x.v)

Edges(v) == BuildEdges(v) \cup AddResourceOrder(v)

OrderFound(x) ==
    /\ x.candidates = Candidates(x.v, Edges(x.v))
    /\ x.invariant = LoopInvariant(x.v, Edges(x.v), x.candidates)
    /\ x.immediate = Edges(x.v) \cup Gates(x.v, x.invariant)
    /\ x.temporal = Temporal(x.v)
    /\ x.reach = Reachable(DOMAIN x.v.nodes, x.immediate)
    /\ Acyclic(DOMAIN x.v.nodes, x.reach)
    /\ x.pre = Preconstructed(x.v, x.candidates)

AnalyzeFound(x) ==
    /\ x.act = Activation(x.v, x.invariant, Reachable(DOMAIN x.v.nodes, x.immediate \cup x.temporal))
    /\ x.life = Lifetimes(x.v, x.act, StorageClass(x.v, x.act, x.pre), x.pre, x.reach)

AllocateFound(x) ==
    x.layout = AllocateStorage(x.v, x.life, x.reach,
                   [r \in DOMAIN x.v.res |-> SlotCount(x.v, x.act, x.life, r)], Sizes, Alignments)

EmitFound(x) ==
    /\ RegionsConsistent(x.v, x.act)
    /\ ~Emission(x.v, x.act, x.immediate).split
    /\ x.data = EmitProgram(x.v,
           [immediate |-> x.immediate, temporal |-> x.temporal, act |-> x.act,
            life |-> x.life, layout |-> x.layout, controls |-> EmitControls(x.v)])

PlanFound(x) == x.plan = BuildJobPlan(x.data)

CompInv ==
    /\ stage \in Stages
    /\ HasFields
    /\ stage \in Validated => Valid(Stream)
    /\ stage \in Lowered => LowerFound(ir)
    /\ stage \in Resolved => ResolveFound(ir)
    /\ stage \in Ordered => OrderFound(ir)
    /\ stage \in Analyzed => AnalyzeFound(ir)
    /\ stage \in Allocated => AllocateFound(ir)
    /\ stage \in Emitted => EmitFound(ir)
    /\ stage \in Planned => PlanFound(ir)

LEMMA StreamStays == ASSUME UNCHANGED recVars PROVE Stream' = Stream
BY DEF recVars, Stream

LEMMA PassFacts ==
    ASSUME NEW from, NEW to, NEW accepted \in BOOLEAN, NEW found, Pass(from, to, accepted, found)
    PROVE  /\ stage = from /\ UNCHANGED recVars /\ Stream' = Stream
           /\ \/ stage' = "rejected"
              \/ accepted /\ stage' = to /\ ir' = Extend(ir, found)
BY StreamStays DEF Pass

LEMMA RejectKeeps == ASSUME stage' = "rejected" PROVE CompInv'
BY DEF CompInv, HasFields, Stages, Planned, Emitted, Allocated, Analyzed, Ordered, Resolved,
       Lowered, Validated

LEMMA EndKeeps == ASSUME CompInv, End PROVE CompInv'
<1> DEFINE accepted == Valid(Stream)
<1>1. Pass("record", "validated", accepted, <<>>)
  BY DEF End
<1>2. accepted \in BOOLEAN
  BY DEF Valid
<1> HIDE DEF accepted
<1>3. /\ stage = "record" /\ Stream' = Stream
      /\ stage' = "rejected" \/ (accepted /\ stage' = "validated" /\ ir' = Extend(ir, <<>>))
  BY <1>1, <1>2, PassFacts
<1>4. CASE accepted /\ stage' = "validated" /\ ir' = Extend(ir, <<>>)
  <2>1. DOMAIN ir = {} /\ DOMAIN (<<>>) = {}
    BY <1>3 DEF CompInv, HasFields
  <2>2. DOMAIN ir' = {} \cup {}
    BY <1>4, <2>1 DEF Extend
  <2> QED
    BY <1>3, <1>4, <2>2 DEF accepted, CompInv, HasFields, Stages, Planned, Emitted, Allocated,
       Analyzed, Ordered, Resolved, Lowered, Validated
<1> QED
  BY <1>3, <1>4, RejectKeeps

LEMMA LowerKeeps == ASSUME CompInv, Lower PROVE CompInv'
<1> DEFINE v == LowerValues(Stream, Canonicalize(Stream))
           accepted == ~v.fail
           found == [v |-> v]
<1>1. Pass("validated", "lowered", accepted, found)
  BY DEF Lower
<1>2. accepted \in BOOLEAN /\ DOMAIN found = {"v"} /\ found["v"] = v
  OBVIOUS
<1>0. LowerFound(ir') <=> ir'["v"] = LowerValues(Stream, Canonicalize(Stream)) /\ ~ir'["v"].fail
  BY DEF LowerFound
<1>7. accepted <=> ~v.fail
  OBVIOUS
<1>8. v = LowerValues(Stream, Canonicalize(Stream))
  OBVIOUS
<1> HIDE DEF accepted, found, v
<1>3. /\ stage = "validated" /\ Stream' = Stream
      /\ stage' = "rejected" \/ (accepted /\ stage' = "lowered" /\ ir' = Extend(ir, found))
  BY <1>1, <1>2, PassFacts
<1>4. CASE accepted /\ stage' = "lowered" /\ ir' = Extend(ir, found)
  <2>1. DOMAIN ir = {}
    BY <1>3 DEF CompInv, HasFields
  <2>3. DOMAIN ir' = {} \cup {"v"} /\ \A x \in {"v"} \ {} : ir'[x] = found[x]
    BY <1>2, <1>4, <2>1 DEF Extend
  <2>2. DOMAIN ir' = {"v"} /\ ir'["v"] = v
    BY <1>2, <2>3
  <2>4. LowerFound(ir)'
    BY <1>3, <1>4, <1>7, <1>8, <2>2 DEF LowerFound
  <2> QED
    BY <1>3, <1>4, <2>2, <2>4 DEF CompInv, HasFields, Stages, Planned, Emitted, Allocated,
       Analyzed, Ordered, Resolved, Lowered, Validated
<1> QED
  BY <1>3, <1>4, RejectKeeps

LEMMA ResolveKeeps == ASSUME CompInv, Resolve PROVE CompInv'
<1> DEFINE accepted == ResolveFound(ir)
<1>1. Pass("lowered", "resolved", accepted, <<>>)
  BY DEF Resolve, ResolveFound
<1>2. accepted \in BOOLEAN /\ DOMAIN (<<>>) = {}
  BY DEF ResolveFound, ResolvePhis, ValidateFeedbackLoops, LowerCutoffs
<1> HIDE DEF accepted
<1>3. /\ stage = "lowered" /\ Stream' = Stream
      /\ stage' = "rejected" \/ (accepted /\ stage' = "resolved" /\ ir' = Extend(ir, <<>>))
  BY <1>1, <1>2, PassFacts
<1>4. CASE accepted /\ stage' = "resolved" /\ ir' = Extend(ir, <<>>)
  <2>1. DOMAIN ir = {"v"}
    BY <1>3 DEF CompInv, HasFields
  <2>5. DOMAIN ir' = {"v"} \cup {} /\ \A x \in {"v"} : ir'[x] = ir[x]
    BY <1>2, <1>4, <2>1 DEF Extend
  <2>2. DOMAIN ir' = {"v"} /\ ir'["v"] = ir["v"]
    BY <2>5
  <2>3. LowerFound(ir)'
    BY <1>3, <2>2 DEF LowerFound, CompInv, Lowered
  <2>4. ResolveFound(ir)'
    BY <1>4, <2>2 DEF ResolveFound, accepted
  <2> QED
    BY <1>3, <1>4, <2>2, <2>3, <2>4 DEF CompInv, HasFields, Stages, Planned, Emitted, Allocated,
       Analyzed, Ordered, Resolved, Lowered, Validated
<1> QED
  BY <1>3, <1>4, RejectKeeps

LEMMA OrderKeeps == ASSUME CompInv, Order PROVE CompInv'
<1> DEFINE edges == Edges(ir.v)
           candidates == Candidates(ir.v, edges)
           invariant == LoopInvariant(ir.v, edges, candidates)
           immediate == edges \cup Gates(ir.v, invariant)
           reach == Reachable(DOMAIN ir.v.nodes, immediate)
           temporal == Temporal(ir.v)
           pre == Preconstructed(ir.v, candidates)
           accepted == Acyclic(DOMAIN ir.v.nodes, reach)
           found == [immediate |-> immediate, temporal |-> temporal, reach |-> reach,
                     candidates |-> candidates, invariant |-> invariant, pre |-> pre]
           Fields == {"immediate", "temporal", "reach", "candidates", "invariant", "pre"}
<1>1. Pass("resolved", "ordered", accepted, found)
  BY DEF Order, Edges
<1>2. /\ accepted \in BOOLEAN /\ DOMAIN found = Fields
      /\ found["immediate"] = immediate /\ found["temporal"] = temporal
      /\ found["reach"] = reach /\ found["candidates"] = candidates
      /\ found["invariant"] = invariant /\ found["pre"] = pre
  <2>1. accepted \in BOOLEAN
    BY DEF Acyclic
  <2> HIDE DEF accepted, immediate, temporal, reach, candidates, invariant, pre
  <2> QED
    BY <2>1
<1>3. /\ candidates = Candidates(ir.v, Edges(ir.v))
      /\ invariant = LoopInvariant(ir.v, Edges(ir.v), candidates)
      /\ immediate = Edges(ir.v) \cup Gates(ir.v, invariant)
      /\ temporal = Temporal(ir.v)
      /\ reach = Reachable(DOMAIN ir.v.nodes, immediate)
      /\ accepted = Acyclic(DOMAIN ir.v.nodes, reach)
      /\ pre = Preconstructed(ir.v, candidates)
  OBVIOUS
<1> HIDE DEF accepted, found, edges, immediate, temporal, reach, candidates, invariant, pre
<1>4. /\ stage = "resolved" /\ Stream' = Stream
      /\ stage' = "rejected" \/ (accepted /\ stage' = "ordered" /\ ir' = Extend(ir, found))
  BY <1>1, <1>2, PassFacts
<1>5. CASE accepted /\ stage' = "ordered" /\ ir' = Extend(ir, found)
  <2>1. DOMAIN ir = {"v"}
    BY <1>4 DEF CompInv, HasFields
  <2>2. /\ DOMAIN ir' = {"v"} \cup Fields
        /\ \A x \in {"v"} : ir'[x] = ir[x]
        /\ \A x \in Fields \ {"v"} : ir'[x] = found[x]
    <3>1. DOMAIN found = Fields
      BY <1>2
    <3> HIDE DEF Fields
    <3> QED
      BY <1>5, <2>1, <3>1 DEF Extend
  <2>3. /\ ir'["v"] = ir["v"]
        /\ ir'["immediate"] = immediate /\ ir'["temporal"] = temporal
        /\ ir'["reach"] = reach /\ ir'["candidates"] = candidates
        /\ ir'["invariant"] = invariant /\ ir'["pre"] = pre
    BY <1>2, <2>2
  <2>4. LowerFound(ir)' /\ ResolveFound(ir)'
    BY <1>4, <2>3 DEF LowerFound, ResolveFound, CompInv, Lowered, Resolved
  <2>5. OrderFound(ir)'
    BY <1>3, <1>5, <2>3 DEF OrderFound
  <2>6. DOMAIN ir' = OrderFields
    BY <2>2 DEF OrderFields
  <2> QED
    BY <1>4, <1>5, <2>4, <2>5, <2>6 DEF CompInv, HasFields, Stages, Planned, Emitted, Allocated,
       Analyzed, Ordered, Resolved, Lowered, Validated
<1> QED
  BY <1>4, <1>5, RejectKeeps

LEMMA AnalyzeKeeps == ASSUME CompInv, Analyze PROVE CompInv'
<1> DEFINE all == Reachable(DOMAIN ir.v.nodes, ir.immediate \cup ir.temporal)
           act == Activation(ir.v, ir.invariant, all)
           life == Lifetimes(ir.v, act, StorageClass(ir.v, act, ir.pre), ir.pre, ir.reach)
           found == [act |-> act, life |-> life]
           Fields == {"act", "life"}
<1>1. Pass("ordered", "analyzed", TRUE, found)
  BY DEF Analyze
<1>2. DOMAIN found = Fields /\ found["act"] = act /\ found["life"] = life
  <2> HIDE DEF act, life
  <2> QED
    OBVIOUS
<1>3. /\ act = Activation(ir.v, ir.invariant, Reachable(DOMAIN ir.v.nodes, ir.immediate \cup ir.temporal))
      /\ life = Lifetimes(ir.v, act, StorageClass(ir.v, act, ir.pre), ir.pre, ir.reach)
  OBVIOUS
<1> HIDE DEF found, all, act, life
<1>4. /\ stage = "ordered" /\ Stream' = Stream
      /\ stage' = "rejected" \/ (stage' = "analyzed" /\ ir' = Extend(ir, found))
  BY <1>1, PassFacts
<1>5. CASE stage' = "analyzed" /\ ir' = Extend(ir, found)
  <2>1. DOMAIN ir = OrderFields
    BY <1>4 DEF CompInv, HasFields
  <2>2. /\ DOMAIN ir' = OrderFields \cup Fields
        /\ \A x \in OrderFields : ir'[x] = ir[x]
        /\ \A x \in Fields \ OrderFields : ir'[x] = found[x]
    <3>1. DOMAIN found = Fields
      BY <1>2
    <3> HIDE DEF Fields
    <3> QED
      BY <1>5, <2>1, <3>1 DEF Extend
  <2>3. /\ ir'["v"] = ir["v"]
        /\ ir'["immediate"] = ir["immediate"] /\ ir'["temporal"] = ir["temporal"]
        /\ ir'["reach"] = ir["reach"] /\ ir'["candidates"] = ir["candidates"]
        /\ ir'["invariant"] = ir["invariant"] /\ ir'["pre"] = ir["pre"]
        /\ ir'["act"] = act /\ ir'["life"] = life
    BY <1>2, <2>2 DEF OrderFields
  <2>4. LowerFound(ir)' /\ ResolveFound(ir)' /\ OrderFound(ir)'
    BY <1>4, <2>3 DEF LowerFound, ResolveFound, OrderFound, CompInv, Lowered, Resolved, Ordered
  <2>5. AnalyzeFound(ir)'
    BY <1>3, <2>3 DEF AnalyzeFound
  <2>6. DOMAIN ir' = AnalyzeFields
    BY <2>2 DEF AnalyzeFields
  <2> QED
    BY <1>4, <1>5, <2>4, <2>5, <2>6 DEF CompInv, HasFields, Stages, Planned, Emitted, Allocated,
       Analyzed, Ordered, Resolved, Lowered, Validated
<1> QED
  BY <1>4, <1>5, RejectKeeps

LEMMA AllocateKeeps == ASSUME CompInv, Allocate PROVE CompInv'
<1> DEFINE layout == AllocateStorage(ir.v, ir.life, ir.reach,
                   [r \in DOMAIN ir.v.res |-> SlotCount(ir.v, ir.act, ir.life, r)], Sizes, Alignments)
           found == [layout |-> layout]
           Fields == {"layout"}
<1>1. Pass("analyzed", "allocated", TRUE, found)
  BY DEF Allocate
<1>2. DOMAIN found = Fields /\ found["layout"] = layout
  <2> HIDE DEF layout
  <2> QED
    OBVIOUS
<1>3. layout = AllocateStorage(ir.v, ir.life, ir.reach,
                   [r \in DOMAIN ir.v.res |-> SlotCount(ir.v, ir.act, ir.life, r)], Sizes, Alignments)
  OBVIOUS
<1> HIDE DEF found, layout
<1>4. /\ stage = "analyzed" /\ Stream' = Stream
      /\ stage' = "rejected" \/ (stage' = "allocated" /\ ir' = Extend(ir, found))
  BY <1>1, PassFacts
<1>5. CASE stage' = "allocated" /\ ir' = Extend(ir, found)
  <2>1. DOMAIN ir = AnalyzeFields
    BY <1>4 DEF CompInv, HasFields
  <2>2. /\ DOMAIN ir' = AnalyzeFields \cup Fields
        /\ \A x \in AnalyzeFields : ir'[x] = ir[x]
        /\ \A x \in Fields \ AnalyzeFields : ir'[x] = found[x]
    <3>1. DOMAIN found = Fields
      BY <1>2
    <3> HIDE DEF Fields
    <3> QED
      BY <1>5, <2>1, <3>1 DEF Extend
  <2>3. /\ ir'["v"] = ir["v"]
        /\ ir'["immediate"] = ir["immediate"] /\ ir'["temporal"] = ir["temporal"]
        /\ ir'["reach"] = ir["reach"] /\ ir'["candidates"] = ir["candidates"]
        /\ ir'["invariant"] = ir["invariant"] /\ ir'["pre"] = ir["pre"]
        /\ ir'["act"] = ir["act"] /\ ir'["life"] = ir["life"] /\ ir'["layout"] = layout
    BY <1>2, <2>2 DEF AnalyzeFields, OrderFields
  <2>4. LowerFound(ir)' /\ ResolveFound(ir)' /\ OrderFound(ir)' /\ AnalyzeFound(ir)'
    BY <1>4, <2>3 DEF LowerFound, ResolveFound, OrderFound, AnalyzeFound, CompInv, Lowered,
       Resolved, Ordered, Analyzed
  <2>5. AllocateFound(ir)'
    BY <1>3, <2>3 DEF AllocateFound
  <2>6. DOMAIN ir' = AllocateFields
    BY <2>2 DEF AllocateFields
  <2> QED
    BY <1>4, <1>5, <2>4, <2>5, <2>6 DEF CompInv, HasFields, Stages, Planned, Emitted, Allocated,
       Analyzed, Ordered, Resolved, Lowered, Validated
<1> QED
  BY <1>4, <1>5, RejectKeeps

LEMMA EmitTablesKeeps == ASSUME CompInv, EmitTables PROVE CompInv'
<1> DEFINE accepted == /\ RegionsConsistent(ir.v, ir.act)
                       /\ ControlsNest(ControlBuilds(ir.v))
                       /\ ~Emission(ir.v, ir.act, ir.immediate).split
           data == EmitProgram(ir.v,
                       [immediate |-> ir.immediate, temporal |-> ir.temporal, act |-> ir.act,
                        life |-> ir.life, layout |-> ir.layout, controls |-> EmitControls(ir.v)])
           found == [data |-> data]
           Fields == {"data"}
<1>1. Pass("allocated", "emitted", accepted, found)
  BY DEF EmitTables
<1>2. /\ accepted \in BOOLEAN
      /\ DOMAIN found = Fields /\ found["data"] = data
  <2>1. accepted \in BOOLEAN
    OBVIOUS
  <2> HIDE DEF data, accepted
  <2> QED
    BY <2>1
<1>3. /\ accepted => RegionsConsistent(ir.v, ir.act) /\ ~Emission(ir.v, ir.act, ir.immediate).split
      /\ data = EmitProgram(ir.v,
           [immediate |-> ir.immediate, temporal |-> ir.temporal, act |-> ir.act,
            life |-> ir.life, layout |-> ir.layout, controls |-> EmitControls(ir.v)])
  OBVIOUS
<1> HIDE DEF found, data, accepted
<1>4. /\ stage = "allocated" /\ Stream' = Stream
      /\ stage' = "rejected" \/ (accepted /\ stage' = "emitted" /\ ir' = Extend(ir, found))
  BY <1>1, <1>2, PassFacts
<1>5. CASE accepted /\ stage' = "emitted" /\ ir' = Extend(ir, found)
  <2>1. DOMAIN ir = AllocateFields
    BY <1>4 DEF CompInv, HasFields
  <2>2. /\ DOMAIN ir' = AllocateFields \cup Fields
        /\ \A x \in AllocateFields : ir'[x] = ir[x]
        /\ \A x \in Fields \ AllocateFields : ir'[x] = found[x]
    <3>1. DOMAIN found = Fields
      BY <1>2
    <3> HIDE DEF Fields
    <3> QED
      BY <1>5, <2>1, <3>1 DEF Extend
  <2>3. /\ ir'["v"] = ir["v"]
        /\ ir'["immediate"] = ir["immediate"] /\ ir'["temporal"] = ir["temporal"]
        /\ ir'["reach"] = ir["reach"] /\ ir'["candidates"] = ir["candidates"]
        /\ ir'["invariant"] = ir["invariant"] /\ ir'["pre"] = ir["pre"]
        /\ ir'["act"] = ir["act"] /\ ir'["life"] = ir["life"] /\ ir'["layout"] = ir["layout"]
        /\ ir'["data"] = data
    BY <1>2, <2>2 DEF AllocateFields, AnalyzeFields, OrderFields
  <2>4. LowerFound(ir)' /\ ResolveFound(ir)' /\ OrderFound(ir)' /\ AnalyzeFound(ir)'
    BY <1>4, <2>3 DEF LowerFound, ResolveFound, OrderFound, AnalyzeFound, CompInv, Lowered,
       Resolved, Ordered, Analyzed, Allocated
  <2>5. AllocateFound(ir)'
    BY <1>4, <2>3 DEF AllocateFound, CompInv, Allocated
  <2>6. EmitFound(ir)'
    BY <1>3, <1>5, <2>3 DEF EmitFound
  <2>7. DOMAIN ir' = EmitFields
    BY <2>2 DEF EmitFields
  <2> QED
    BY <1>4, <1>5, <2>4, <2>5, <2>6, <2>7 DEF CompInv, HasFields, Stages, Planned, Emitted,
       Allocated, Analyzed, Ordered, Resolved, Lowered, Validated
<1> QED
  BY <1>4, <1>5, RejectKeeps

LEMMA PlanKeeps == ASSUME CompInv, Plan PROVE CompInv'
<1> DEFINE plan == BuildJobPlan(ir.data)
           accepted == ~JobCrossesRegion(ir.data, plan)
           found == [plan |-> plan]
           Fields == {"plan"}
<1>1. Pass("emitted", "compiled", accepted, found)
  BY DEF Plan
<1>2. /\ accepted \in BOOLEAN
      /\ DOMAIN found = Fields /\ found["plan"] = plan /\ plan = BuildJobPlan(ir.data)
  <2>1. accepted \in BOOLEAN
    OBVIOUS
  <2>2. plan = BuildJobPlan(ir.data)
    OBVIOUS
  <2> HIDE DEF plan, accepted
  <2> QED
    BY <2>1, <2>2
<1> HIDE DEF found, plan, accepted
<1>4. /\ stage = "emitted" /\ Stream' = Stream
      /\ stage' = "rejected" \/ (accepted /\ stage' = "compiled" /\ ir' = Extend(ir, found))
  BY <1>1, <1>2, PassFacts
<1>5. CASE accepted /\ stage' = "compiled" /\ ir' = Extend(ir, found)
  <2>1. DOMAIN ir = EmitFields
    BY <1>4 DEF CompInv, HasFields
  <2>2. /\ DOMAIN ir' = EmitFields \cup Fields
        /\ \A x \in EmitFields : ir'[x] = ir[x]
        /\ \A x \in Fields \ EmitFields : ir'[x] = found[x]
    <3>1. DOMAIN found = Fields
      BY <1>2
    <3> HIDE DEF Fields
    <3> QED
      BY <1>5, <2>1, <3>1 DEF Extend
  <2>3. /\ ir'["v"] = ir["v"]
        /\ ir'["immediate"] = ir["immediate"] /\ ir'["temporal"] = ir["temporal"]
        /\ ir'["reach"] = ir["reach"] /\ ir'["candidates"] = ir["candidates"]
        /\ ir'["invariant"] = ir["invariant"] /\ ir'["pre"] = ir["pre"]
        /\ ir'["act"] = ir["act"] /\ ir'["life"] = ir["life"] /\ ir'["layout"] = ir["layout"]
        /\ ir'["data"] = ir["data"] /\ ir'["plan"] = plan
    BY <1>2, <2>2 DEF EmitFields, AllocateFields, AnalyzeFields, OrderFields
  <2>4. LowerFound(ir)' /\ ResolveFound(ir)' /\ OrderFound(ir)' /\ AnalyzeFound(ir)'
    BY <1>4, <2>3 DEF LowerFound, ResolveFound, OrderFound, AnalyzeFound, CompInv, Lowered,
       Resolved, Ordered, Analyzed, Allocated, Emitted
  <2>5. AllocateFound(ir)' /\ EmitFound(ir)'
    BY <1>4, <2>3 DEF AllocateFound, EmitFound, CompInv, Allocated, Emitted
  <2>6. PlanFound(ir)'
    BY <1>2, <2>3 DEF PlanFound
  <2> QED
    BY <1>4, <1>5, <2>4, <2>5, <2>6 DEF CompInv, HasFields, Stages, Planned, Emitted,
       Allocated, Analyzed, Ordered, Resolved, Lowered, Validated
<1> QED
  BY <1>4, <1>5, RejectKeeps

LEMMA RecordKeeps == ASSUME CompInv, Record PROVE CompInv'
BY DEF Record, compVars, CompInv, HasFields, Stages, Planned, Emitted, Allocated, Analyzed, Ordered,
   Resolved, Lowered, Validated

LEMMA CompilerStep == ASSUME CompInv, [Next]_vars PROVE CompInv'
<1>1. CASE Next
  BY <1>1, RecordKeeps, EndKeeps, LowerKeeps, ResolveKeeps, OrderKeeps, AnalyzeKeeps, AllocateKeeps,
     EmitTablesKeeps, PlanKeeps DEF Next
<1>2. CASE UNCHANGED vars
  BY <1>2, StreamStays DEF vars, compVars, CompInv, HasFields, LowerFound
<1> QED
  BY <1>1, <1>2

LEMMA RecorderStays == ASSUME RecInv, [Next]_vars PROVE RecInv'
<1>1. CASE Record
  BY <1>1, RecorderStep DEF Record
<1>2. CASE UNCHANGED recVars
  BY <1>2 DEF recVars, RecInv, RecTypes, RecLinks
<1>3. Record \/ UNCHANGED recVars
  BY DEF Next, vars, Pass, End, Lower, Resolve, Order, Analyze, Allocate, EmitTables, Plan
<1> QED
  BY <1>1, <1>2, <1>3

(* The invariant the properties of a compiled program rest on.              *)
Compiles == RecInv /\ CompInv

LEMMA CompilerInvariant == Spec => []Compiles
<1>1. Init => Compiles
  <2>1. Init => CompInv
    BY DEF Init, CompInv, HasFields, Stages, Planned, Emitted, Allocated, Analyzed, Ordered,
       Resolved, Lowered, Validated
  <2> QED
    BY <2>1, RecorderInit DEF Init, Compiles
<1>2. Compiles /\ [Next]_vars => Compiles'
  BY CompilerStep, RecorderStays DEF Compiles
<1> QED
  BY <1>1, <1>2, PTL DEF Spec

(* What a stream and the compiler hold is of the types their code gives it,   *)
(* and what refers to resources and positions of the stream is in range.     *)
THEOREM TypesHold == Spec => []TypeOK
<1>1. Compiles => TypeOK
  <2> SUFFICES ASSUME Compiles PROVE TypeOK
    OBVIOUS
  <2>1. /\ DOMAIN res = 1 .. Len(res) /\ DOMAIN ops = 1 .. Len(ops)
        /\ DOMAIN phis = 1 .. Len(phis) /\ DOMAIN ifs = 1 .. Len(ifs)
        /\ Len(res) \in Nat /\ Len(ops) \in Nat /\ Len(phis) \in Nat /\ Len(ifs) \in Nat
    BY DEF Compiles, RecInv, RecTypes
  <2>2. Len(defined) = Len(res)
    BY DEF Compiles, RecInv, RecLinks
  <2>3. ASSUME NEW r \in 1 .. Len(res)
        PROVE  /\ res[r].kind \in {"owned", "external", "phi", "cutoff", "projection"}
               /\ res[r].cons \in 0 .. Len(ops)
               /\ res[r].cons # 0 => ops[res[r].cons].kind = "construct"
               /\ defined[r] \in BOOLEAN
    <3>1. res[r] \in ResourceSet /\ defined[r] \in BOOLEAN /\ ResourceLinks(res, ops, r)
      BY <2>1, <2>2 DEF Compiles, RecInv, RecTypes, RecLinks
    <3> QED
      BY <2>1, <3>1 DEF ResourceSet, ResourceKinds, ResourceLinks
  <2>4. ASSUME NEW i \in 1 .. Len(ops), NEW a \in ToSet(ops[i].acc)
        PROVE  a.r \in 1 .. Len(res)
    <3>1. ops[i].acc \in Seq(ArgSet) /\ OpLinks(res, ops, i)
      <4>1. ops \in Seq(OpSet) /\ OpLinks(res, ops, i)
        BY DEF Compiles, RecInv, RecTypes, RecLinks
      <4>2. ops[i] \in OpSet
        BY <4>1
      <4> QED
        BY <4>1, <4>2 DEF OpSet
    <3>2. PICK j \in 1 .. Len(ops[i].acc) : a = ops[i].acc[j]
      BY <3>1 DEF ToSet
    <3> QED
      BY <3>1, <3>2 DEF OpLinks
  <2>5. ASSUME NEW p \in 1 .. Len(phis)
        PROVE  /\ res[phis[p].out].kind = "phi"
               /\ phis[p].pos \in 0 .. Len(ops)
               /\ phis[p].fb # 0 => phis[p].fbpos \in phis[p].pos .. Len(ops)
    <3>1. phis[p] \in PhiSet /\ PhiLinks(res, ops, phis, p)
      BY <2>1 DEF Compiles, RecInv, RecTypes, RecLinks
    <3>2. phis[p].pos \in Nat /\ phis[p].fbpos \in Int
      BY <3>1 DEF PhiSet
    <3> QED
      BY <2>1, <3>1, <3>2 DEF PhiLinks
  <2>6. \A b \in 1 .. Len(ifs) : /\ ifs[b].begin <= ifs[b].alt /\ ifs[b].alt <= ifs[b].end
                                 /\ ifs[b].end <= Len(ops)
    BY DEF Compiles, RecInv, RecLinks, IfLinks
  <2>7. stage \in Stages
    BY DEF Compiles, CompInv
  <2> QED
    BY <2>1, <2>2, <2>3, <2>4, <2>5, <2>6, <2>7 DEF TypeOK, RecTypeOK, Stages
<1> QED
  BY <1>1, CompilerInvariant, PTL

-----------------------------------------------------------------------------
(* A stream that validate() lets through, as the passes rely on it.        *)
GoodStream(s) ==
    /\ s.res \in Seq(ResourceSet) /\ s.ops \in Seq(OpSet)
    /\ s.phis \in Seq(PhiSet) /\ s.ifs \in Seq(IfSet)
    /\ \A i \in 1 .. Len(s.ops) : \A j \in 1 .. Len(s.ops[i].acc) :
          s.ops[i].acc[j].r \in 1 .. Len(s.res)
    /\ \A p \in 1 .. Len(s.phis) :
          /\ s.phis[p].out \in 1 .. Len(s.res) /\ s.phis[p].init \in 1 .. Len(s.res)
          /\ s.phis[p].fb \in 1 .. Len(s.res) /\ s.phis[p].cond \in 0 .. Len(s.res)
    /\ \A b \in 1 .. Len(s.ifs) : s.ifs[b].cond \in 1 .. Len(s.res)

LEMMA ValidStream == ASSUME RecInv, Valid(Stream) PROVE GoodStream(Stream)
<1>1. /\ res \in Seq(ResourceSet) /\ ops \in Seq(OpSet) /\ phis \in Seq(PhiSet) /\ ifs \in Seq(IfSet)
      /\ DOMAIN phis = 1 .. Len(phis)
  BY DEF RecInv, RecTypes
<1>2. Stream.res = res /\ Stream.ops = ops /\ Stream.phis = phis /\ Stream.ifs = ifs
  BY DEF Stream
<1>3. \A p \in 1 .. Len(phis) : phis[p].fb # 0
  BY <1>1, <1>2 DEF Valid
<1>4. ASSUME NEW p \in 1 .. Len(phis)
      PROVE  /\ phis[p].out \in 1 .. Len(res) /\ phis[p].init \in 1 .. Len(res)
             /\ phis[p].fb \in 1 .. Len(res) /\ phis[p].cond \in 0 .. Len(res)
  <2>1. /\ phis[p].out \in 1 .. Len(res) /\ phis[p].init \in 1 .. Len(res)
        /\ phis[p].fb \in 0 .. Len(res) /\ phis[p].cond \in 0 .. Len(res)
    BY DEF RecInv, RecLinks, PhiLinks
  <2>2. phis[p].fb # 0
    BY <1>3
  <2> QED
    BY <2>1, <2>2
<1>5. /\ \A i \in 1 .. Len(ops) : OpLinks(res, ops, i)
      /\ \A b \in 1 .. Len(ifs) : IfLinks(res, ops, ifs, b)
  BY DEF RecInv, RecLinks
<1> QED
  BY <1>1, <1>2, <1>4, <1>5 DEF GoodStream, OpLinks, IfLinks

(* The nodes canonicalize() makes of a stream.                             *)
ArgsOf(R) == [r : 1 .. R, mode : ModeNames, ser : BOOLEAN]

Normalized(s) ==
    {x \in [kind : OpKinds \cup {"phi"}, src : Nat, phi : 0 .. Len(s.phis), side : BOOLEAN,
            acc : Seq(ArgsOf(Len(s.res)))] : x.kind = "phi" => x.phi # 0}

PhiNodeOf(s, p) ==
    [kind |-> "phi", src |-> NullSource, phi |-> p, side |-> FALSE,
     acc |-> <<[r |-> s.phis[p].init, mode |-> "read", ser |-> FALSE],
               [r |-> s.phis[p].fb, mode |-> "read", ser |-> FALSE],
               [r |-> s.phis[p].out, mode |-> "write", ser |-> FALSE]>>]

OpNodeOf(s, i) ==
    [kind |-> s.ops[i].kind, src |-> i - 1, phi |-> 0,
     side |-> s.ops[i].side, acc |-> s.ops[i].acc]

AddPhiStep(c, x, p) ==
    IF c.s.phis[p].pos = c.position THEN Append(x, PhiNodeOf(c.s, p)) ELSE x
PhiAdds == INSTANCE Recursion WITH Step <- AddPhiStep

AddPhisTo(s, nodes, position) ==
    Iterate(LAMBDA x, p : IF s.phis[p].pos = position THEN Append(x, PhiNodeOf(s, p)) ELSE x,
            nodes, Len(s.phis))

AddOpStep(s, x, i) == Append(AddPhisTo(s, x, i - 1), OpNodeOf(s, i))
OpAdds == INSTANCE Recursion WITH Step <- AddOpStep

LEMMA CanonicalizeSteps ==
    ASSUME NEW s
    PROVE  Canonicalize(s) = AddPhisTo(s, OpAdds!After(s, <<>>, Len(s.ops)), Len(s.ops))
BY DEF Canonicalize, AddPhisTo, AddOpStep, OpAdds!After, Iterate, PhiNodeOf, OpNodeOf

LEMMA AddPhisSteps ==
    ASSUME NEW s, NEW nodes, NEW position
    PROVE  AddPhisTo(s, nodes, position) =
              PhiAdds!After([s |-> s, position |-> position], nodes, Len(s.phis))
BY DEF AddPhisTo, AddPhiStep, PhiAdds!After, Iterate

LEMMA PhiNodeType ==
    ASSUME NEW s, GoodStream(s), NEW p \in 1 .. Len(s.phis)
    PROVE  PhiNodeOf(s, p) \in Normalized(s)
<1>1. /\ s.phis[p].out \in 1 .. Len(s.res) /\ s.phis[p].init \in 1 .. Len(s.res)
      /\ s.phis[p].fb \in 1 .. Len(s.res) /\ Len(s.phis) \in Nat
  BY DEF GoodStream
<1> DEFINE x == [r |-> s.phis[p].init, mode |-> "read", ser |-> FALSE]
           y == [r |-> s.phis[p].fb, mode |-> "read", ser |-> FALSE]
           z == [r |-> s.phis[p].out, mode |-> "write", ser |-> FALSE]
<1>2. x \in ArgsOf(Len(s.res)) /\ y \in ArgsOf(Len(s.res)) /\ z \in ArgsOf(Len(s.res))
  BY <1>1 DEF ArgsOf, ModeNames
<1>3. PhiNodeOf(s, p) = [kind |-> "phi", src |-> NullSource, phi |-> p, side |-> FALSE,
                         acc |-> <<x, y, z>>]
  BY DEF PhiNodeOf
<1> HIDE DEF x, y, z
<1>4. <<x, y, z>> \in Seq(ArgsOf(Len(s.res)))
  BY <1>2
<1> QED
  BY <1>1, <1>3, <1>4 DEF Normalized, NullSource

LEMMA OpNodeType ==
    ASSUME NEW s, GoodStream(s), NEW i \in 1 .. Len(s.ops)
    PROVE  OpNodeOf(s, i) \in Normalized(s)
<1>1. s.ops[i] \in OpSet /\ Len(s.phis) \in Nat
  BY DEF GoodStream
<1>2. /\ s.ops[i].kind \in OpKinds /\ s.ops[i].side \in BOOLEAN /\ s.ops[i].acc \in Seq(ArgSet)
      /\ "phi" \notin OpKinds /\ i - 1 \in Nat
  BY <1>1 DEF OpSet, OpKinds
<1>3. s.ops[i].acc \in Seq(ArgsOf(Len(s.res)))
  <2> DEFINE acc == s.ops[i].acc
  <2>1. \A j \in 1 .. Len(acc) : acc[j] \in ArgSet /\ acc[j].r \in 1 .. Len(s.res)
    BY <1>2, SMTT(60) DEF GoodStream
  <2>2. \A j \in 1 .. Len(acc) : acc[j] \in ArgsOf(Len(s.res))
    BY <2>1 DEF ArgsOf, ArgSet
  <2>3. acc \in Seq(ArgSet)
    BY <1>2
  <2> HIDE DEF acc
  <2>4. acc \in Seq(ArgsOf(Len(s.res)))
    BY <2>2, <2>3
  <2> QED
    BY <2>4 DEF acc
<1> QED
  BY <1>1, <1>2, <1>3 DEF OpNodeOf, Normalized

LEMMA AddPhisType ==
    ASSUME NEW s, GoodStream(s), NEW nodes \in Seq(Normalized(s)), NEW position
    PROVE  AddPhisTo(s, nodes, position) \in Seq(Normalized(s))
<1> DEFINE c == [s |-> s, position |-> position]
           E(k) == PhiAdds!After(c, nodes, k)
           T == {k \in Nat : k <= Len(s.phis) => E(k) \in Seq(Normalized(s))}
<1>1. 0 \in T
  BY PhiAdds!AfterNone
<1>2. ASSUME NEW k \in Nat, k \in T PROVE k + 1 \in T
  <2> SUFFICES ASSUME k + 1 <= Len(s.phis) PROVE E(k + 1) \in Seq(Normalized(s))
    OBVIOUS
  <2>0. Len(s.phis) \in Nat
    BY DEF GoodStream
  <2>1. E(k) \in Seq(Normalized(s)) /\ k + 1 \in 1 .. Len(s.phis)
    BY <1>2, <2>0
  <2>2. E(k + 1) = AddPhiStep(c, E(k), k + 1)
    BY PhiAdds!AfterNext
  <2>3. E(k + 1) = E(k) \/ E(k + 1) = Append(E(k), PhiNodeOf(s, k + 1))
    BY <2>2 DEF AddPhiStep
  <2>4. PhiNodeOf(s, k + 1) \in Normalized(s)
    BY <2>1, PhiNodeType
  <2> HIDE DEF E
  <2> QED
    BY <2>1, <2>3, <2>4, SMTT(60)
<1>3. Len(s.phis) \in Nat /\ Len(s.phis) \in T
  <2>1. Len(s.phis) \in Nat
    BY DEF GoodStream
  <2> HIDE DEF T
  <2> QED
    BY <1>1, <1>2, <2>1, PhiAdds!Induction
<1> QED
  BY <1>3, AddPhisSteps

LEMMA CanonicalizeType ==
    ASSUME NEW s, GoodStream(s)
    PROVE  Canonicalize(s) \in Seq(Normalized(s))
<1> DEFINE E(k) == OpAdds!After(s, <<>>, k)
           T == {k \in Nat : k <= Len(s.ops) => E(k) \in Seq(Normalized(s))}
<1>0. Len(s.ops) \in Nat
  BY DEF GoodStream
<1>1. 0 \in T
  <2>1. E(0) = <<>>
    BY OpAdds!AfterNone
  <2>2. <<>> \in Seq(Normalized(s))
    OBVIOUS
  <2> HIDE DEF E
  <2> QED
    BY <2>1, <2>2
<1>2. ASSUME NEW k \in Nat, k \in T PROVE k + 1 \in T
  <2> SUFFICES ASSUME k + 1 <= Len(s.ops) PROVE E(k + 1) \in Seq(Normalized(s))
    OBVIOUS
  <2>1. E(k) \in Seq(Normalized(s)) /\ k + 1 \in 1 .. Len(s.ops)
    BY <1>0, <1>2
  <2>2. E(k + 1) = AddOpStep(s, E(k), k + 1)
    BY OpAdds!AfterNext
  <2>3. AddPhisTo(s, E(k), (k + 1) - 1) \in Seq(Normalized(s))
    BY <2>1, AddPhisType
  <2>4. OpNodeOf(s, k + 1) \in Normalized(s)
    BY <2>1, OpNodeType
  <2> HIDE DEF E
  <2> QED
    BY <2>2, <2>3, <2>4 DEF AddOpStep
<1>3. E(Len(s.ops)) \in Seq(Normalized(s))
  <2>1. Len(s.ops) \in T
    <3> HIDE DEF T
    <3> QED
      BY <1>0, <1>1, <1>2, OpAdds!Induction
  <2> QED
    BY <1>0, <2>1
<1> HIDE DEF E
<1> QED
  BY <1>3, AddPhisType, CanonicalizeSteps DEF E

-----------------------------------------------------------------------------
(* The state of lower_values(): with R resources, while its k-th node is     *)
(* made.  Values name their producer, phis their node, and both, as the      *)
(* conditions do, name values there are.                                   *)
ValueSet(k) == [res : Nat, producer : 0 .. k, ext : BOOLEAN]
AccessSet(R) == [r : 1 .. R, mode : ModeNames, ser : BOOLEAN, in : Nat, out : Nat]
NodeSet(R) == [kind : OpKinds \cup {"phi"}, src : Nat, side : BOOLEAN, acc : Seq(AccessSet(R))]
LoweredPhiSet(R, k, m) ==
    [node : 1 .. k, fbres : 0 .. R, condres : 0 .. R, out : Nat, init : Nat,
     fb : 0 .. m, cond : 0 .. m, decl : Nat, fbpos : Int, mif : Nat]
LoweredIfSet(R, m) == [condres : 1 .. R, cond : 0 .. m, begin : Nat, alt : Nat, end : Nat]

LowerStates(R, k, m) ==
    [values : Seq(ValueSet(k)), current : [1 .. R -> 0 .. m], nodes : Seq(NodeSet(R)),
     phis : Seq(LoweredPhiSet(R, k, m)), acc : Seq(AccessSet(R)), fail : BOOLEAN,
     ifs : Seq(LoweredIfSet(R, m))]

LowerInv(R, k, st) == st \in LowerStates(R, k, Len(st.values))

SameNodes(ps, qs) == Len(qs) = Len(ps) /\ \A j \in 1 .. Len(ps) : qs[j].node = ps[j].node

(* A phi of this node is added.                                             *)
AddsPhi(ps, qs, node) == \E q : qs = Append(ps, q) /\ q.node = node

(* The node of a phi is one.                                               *)
PhisAtPhis(st) ==
    \A j \in 1 .. Len(st.phis) :
        st.phis[j].node \in 1 .. Len(st.nodes) /\ st.nodes[st.phis[j].node].kind = "phi"

LEMMA SeqGrows ==
    ASSUME NEW S, NEW U, S \subseteq U, NEW q \in Seq(S)
    PROVE  q \in Seq(U)
<1>1. Len(q) \in Nat /\ q \in [1 .. Len(q) -> S]
  OBVIOUS
<1>2. q \in [1 .. Len(q) -> U]
  BY <1>1
<1> QED
  BY <1>1, <1>2

(* The parts of a state grow with the numbers of values and nodes.          *)
LEMMA StateGrows ==
    ASSUME NEW R \in Nat, NEW k \in Nat, NEW l \in Nat, k <= l, NEW m \in Nat, NEW h \in Nat, m <= h,
           NEW st \in LowerStates(R, k, m)
    PROVE  st \in LowerStates(R, l, h)
<1>1. /\ 0 .. k \subseteq 0 .. l /\ 1 .. k \subseteq 1 .. l /\ 0 .. m \subseteq 0 .. h
  OBVIOUS
<1>2. /\ ValueSet(k) \subseteq ValueSet(l)
      /\ LoweredPhiSet(R, k, m) \subseteq LoweredPhiSet(R, l, h)
      /\ LoweredIfSet(R, m) \subseteq LoweredIfSet(R, h)
  BY <1>1 DEF ValueSet, LoweredPhiSet, LoweredIfSet
<1>3. /\ st.values \in Seq(ValueSet(k)) /\ st.current \in [1 .. R -> 0 .. m]
      /\ st.nodes \in Seq(NodeSet(R)) /\ st.phis \in Seq(LoweredPhiSet(R, k, m))
      /\ st.acc \in Seq(AccessSet(R)) /\ st.fail \in BOOLEAN
      /\ st.ifs \in Seq(LoweredIfSet(R, m))
      /\ st = [values |-> st.values, current |-> st.current, nodes |-> st.nodes, phis |-> st.phis,
               acc |-> st.acc, fail |-> st.fail, ifs |-> st.ifs]
  BY DEF LowerStates
<1>4. st.values \in Seq(ValueSet(l))
  BY <1>2, <1>3, SeqGrows
<1>5. st.phis \in Seq(LoweredPhiSet(R, l, h))
  BY <1>2, <1>3, SeqGrows
<1>6. st.ifs \in Seq(LoweredIfSet(R, h))
  BY <1>2, <1>3, SeqGrows
<1>7. st.current \in [1 .. R -> 0 .. h]
  BY <1>1, <1>3
<1> QED
  BY <1>3, <1>4, <1>5, <1>6, <1>7 DEF LowerStates

LEMMA DefineFacts ==
    ASSUME NEW R \in Nat, NEW k \in Nat, NEW st, LowerInv(R, k, st),
           NEW r \in 1 .. R, NEW node \in 0 .. k, NEW ext \in BOOLEAN
    PROVE  /\ LowerInv(R, k, Define(st, r, node, ext))
           /\ Len(Define(st, r, node, ext).values) = Len(st.values) + 1
           /\ Define(st, r, node, ext).nodes = st.nodes
           /\ Define(st, r, node, ext).acc = st.acc
           /\ Define(st, r, node, ext).phis = st.phis
<1> DEFINE m == Len(st.values)
           x == [res |-> r, producer |-> node, ext |-> ext]
           d == Define(st, r, node, ext)
<1>1. st \in LowerStates(R, k, m) /\ m \in Nat
  BY DEF LowerInv, LowerStates
<1>2. st \in LowerStates(R, k, m + 1)
  <2> HIDE DEF m
  <2> QED
    BY <1>1, StateGrows
<1>3. x \in ValueSet(k)
  BY DEF ValueSet
<1>4. d = [st EXCEPT !.values = Append(st.values, x), !.current[r] = m + 1]
  BY DEF Define
<1>5. Append(st.values, x) \in Seq(ValueSet(k)) /\ Len(Append(st.values, x)) = m + 1
  <2>1. st.values \in Seq(ValueSet(k))
    BY <1>1 DEF LowerStates
  <2> HIDE DEF x
  <2> QED
    BY <1>3, <2>1
<1>6. [st.current EXCEPT ![r] = m + 1] \in [1 .. R -> 0 .. m + 1]
  <2>1. st.current \in [1 .. R -> 0 .. m + 1] /\ m + 1 \in 0 .. m + 1
    BY <1>1, <1>2 DEF LowerStates
  <2> HIDE DEF m
  <2> QED
    BY <2>1
<1> DEFINE vs == Append(st.values, x)
           cs == [st.current EXCEPT ![r] = m + 1]
<1>7. vs \in Seq(ValueSet(k)) /\ Len(vs) = m + 1 /\ cs \in [1 .. R -> 0 .. m + 1]
  BY <1>5, <1>6
<1>8. d = [st EXCEPT !.values = vs, !.current = cs]
  BY <1>4
<1> HIDE DEF m, x, d, vs, cs
<1>9. /\ d \in LowerStates(R, k, m + 1) /\ d.values = vs /\ d.nodes = st.nodes /\ d.acc = st.acc
      /\ d.phis = st.phis
  BY <1>2, <1>7, <1>8 DEF LowerStates
<1> QED
  BY <1>7, <1>9 DEF LowerInv, d, m

LEMMA ResolveIfKeeps ==
    ASSUME NEW R \in Nat, NEW k \in Nat, NEW st, LowerInv(R, k, st), NEW position
    PROVE  LET d == ResolveIfConditions(st, position)
           IN  LowerInv(R, k, d) /\ d.nodes = st.nodes /\ d.values = st.values /\ d.phis = st.phis
<1> DEFINE m == Len(st.values)
           here == {b \in DOMAIN st.ifs : st.ifs[b].begin = position /\ st.ifs[b].cond = 0}
           is == [b \in DOMAIN st.ifs |->
                    IF b \in here THEN [st.ifs[b] EXCEPT !.cond = st.current[st.ifs[b].condres]]
                    ELSE st.ifs[b]]
           fail == st.fail \/ \E b \in here : st.current[st.ifs[b].condres] = 0
           d == ResolveIfConditions(st, position)
<1>1. st \in LowerStates(R, k, m) /\ m \in Nat
  BY DEF LowerInv, LowerStates
<1>2. d = [st EXCEPT !.ifs = is, !.fail = fail]
  BY DEF ResolveIfConditions
<1>3. st.ifs \in Seq(LoweredIfSet(R, m)) /\ st.current \in [1 .. R -> 0 .. m] /\ st.fail \in BOOLEAN
  BY <1>1 DEF LowerStates
<1>4. ASSUME NEW b \in 1 .. Len(st.ifs)
      PROVE  /\ st.ifs[b] \in LoweredIfSet(R, m)
             /\ [st.ifs[b] EXCEPT !.cond = st.current[st.ifs[b].condres]] \in LoweredIfSet(R, m)
  <2>1. st.ifs[b] \in LoweredIfSet(R, m)
    BY <1>3
  <2>2. st.current[st.ifs[b].condres] \in 0 .. m
    BY <1>3, <2>1 DEF LoweredIfSet
  <2> DEFINE y == st.ifs[b]
             z == st.current[st.ifs[b].condres]
  <2>3. y \in LoweredIfSet(R, m) /\ z \in 0 .. m
    BY <2>1, <2>2
  <2> HIDE DEF y, z, m
  <2>4. [y EXCEPT !.cond = z] \in LoweredIfSet(R, m)
    BY <2>3 DEF LoweredIfSet
  <2> QED
    BY <2>3, <2>4 DEF y, z
<1>5. is \in Seq(LoweredIfSet(R, m))
  <2>1. DOMAIN st.ifs = 1 .. Len(st.ifs) /\ Len(st.ifs) \in Nat
    BY <1>3
  <2>2. is \in [1 .. Len(st.ifs) -> LoweredIfSet(R, m)]
    BY <1>4, <2>1
  <2> HIDE DEF is, m
  <2> QED
    BY <2>1, <2>2
<1>6. fail \in BOOLEAN
  BY <1>3
<1> HIDE DEF d, is, fail, m
<1>7. d \in LowerStates(R, k, m) /\ d.nodes = st.nodes /\ d.values = st.values /\ d.phis = st.phis
  BY <1>1, <1>2, <1>5, <1>6 DEF LowerStates
<1> QED
  BY <1>7 DEF LowerInv, d, m

LEMMA ResolveFeedbackKeeps ==
    ASSUME NEW R \in Nat, NEW k \in Nat, NEW st, LowerInv(R, k, st), NEW position
    PROVE  LET d == ResolveFeedback(st, position)
           IN  /\ LowerInv(R, k, d) /\ d.nodes = st.nodes /\ d.values = st.values
               /\ SameNodes(st.phis, d.phis)
<1> DEFINE m == Len(st.values)
           here == {p \in DOMAIN st.phis : st.phis[p].fb = 0 /\ st.phis[p].fbpos = position}
           Now(r) == IF r = 0 THEN 0 ELSE st.current[r]
           ps == [p \in DOMAIN st.phis |->
                      IF p \in here
                      THEN [st.phis[p] EXCEPT !.fb = Now(st.phis[p].fbres),
                                              !.cond = Now(st.phis[p].condres)]
                      ELSE st.phis[p]]
           fail == st.fail \/ \E p \in here :
                          \/ Now(st.phis[p].fbres) = 0
                          \/ st.phis[p].condres # 0 /\ Now(st.phis[p].condres) = 0
           d == ResolveFeedback(st, position)
<1>1. st \in LowerStates(R, k, m) /\ m \in Nat
  BY DEF LowerInv, LowerStates
<1>2. d = [st EXCEPT !.phis = ps, !.fail = fail]
  BY DEF ResolveFeedback
<1>3. st.phis \in Seq(LoweredPhiSet(R, k, m)) /\ st.current \in [1 .. R -> 0 .. m] /\ st.fail \in BOOLEAN
  BY <1>1 DEF LowerStates
<1>4. ASSUME NEW p \in 1 .. Len(st.phis)
      PROVE  /\ st.phis[p] \in LoweredPhiSet(R, k, m)
             /\ [st.phis[p] EXCEPT !.fb = Now(st.phis[p].fbres), !.cond = Now(st.phis[p].condres)]
                   \in LoweredPhiSet(R, k, m)
  <2>1. st.phis[p] \in LoweredPhiSet(R, k, m)
    BY <1>3
  <2>2. \A r \in 0 .. R : Now(r) \in 0 .. m
    <3> SUFFICES ASSUME NEW r \in 0 .. R PROVE Now(r) \in 0 .. m
      OBVIOUS
    <3>1. CASE r = 0
      BY <1>1, <3>1
    <3>2. CASE r # 0
      <4>1. r \in 1 .. R
        BY <3>2
      <4>2. st.current[r] \in 0 .. m
        BY <1>3, <4>1
      <4> QED
        BY <3>2, <4>2
    <3> QED
      BY <3>1, <3>2
  <2> DEFINE y == st.phis[p]
             f == Now(st.phis[p].fbres)
             c == Now(st.phis[p].condres)
  <2>3. y \in LoweredPhiSet(R, k, m) /\ f \in 0 .. m /\ c \in 0 .. m
    BY <2>1, <2>2 DEF LoweredPhiSet
  <2> HIDE DEF y, f, c, m, Now
  <2>4. [y EXCEPT !.fb = f, !.cond = c] \in LoweredPhiSet(R, k, m)
    BY <2>3 DEF LoweredPhiSet
  <2> QED
    BY <2>3, <2>4 DEF y, f, c
<1>5. ps \in Seq(LoweredPhiSet(R, k, m))
  <2>1. DOMAIN st.phis = 1 .. Len(st.phis) /\ Len(st.phis) \in Nat
    BY <1>3, SMTT(60)
  <2> HIDE DEF Now, here
  <2>2. ps \in [1 .. Len(st.phis) -> LoweredPhiSet(R, k, m)]
    BY <1>4, <2>1
  <2> HIDE DEF ps, m
  <2> QED
    BY <2>1, <2>2
<1>6. fail \in BOOLEAN
  BY <1>3
<1>8. SameNodes(st.phis, ps)
  <2>1. DOMAIN st.phis = 1 .. Len(st.phis) /\ Len(st.phis) \in Nat
    BY <1>3, SMTT(60)
  <2>2. Len(ps) = Len(st.phis)
    BY <2>1
  <2>3. ASSUME NEW j \in 1 .. Len(st.phis) PROVE ps[j].node = st.phis[j].node
    <3> DEFINE y == st.phis[j]
               f == Now(y.fbres)
               c == Now(y.condres)
    <3>1. y \in LoweredPhiSet(R, k, m)
      BY <1>3
    <3>2. ps[j] = y \/ ps[j] = [y EXCEPT !.fb = f, !.cond = c]
      BY <2>1
    <3> HIDE DEF y, f, c, ps, m
    <3>3. ps[j].node = y.node
      BY <3>1, <3>2 DEF LoweredPhiSet
    <3> QED
      BY <3>3 DEF y
  <2> HIDE DEF ps
  <2> QED
    BY <2>2, <2>3 DEF SameNodes
<1> HIDE DEF d, ps, fail, m
<1>7. /\ d \in LowerStates(R, k, m) /\ d.nodes = st.nodes /\ d.values = st.values
      /\ d.phis = ps
  BY <1>1, <1>2, <1>5, <1>6 DEF LowerStates
<1> QED
  BY <1>7, <1>8 DEF LowerInv, d, m

AccessStep(c, x, i) == LowerAccess(c.s, c.kind, c.node, i, x, c.acc[i])
Accesses == INSTANCE Recursion WITH Step <- AccessStep

LEMMA LowerAccessKeeps ==
    ASSUME NEW s, Len(s.res) \in Nat, NEW k \in Nat, NEW st, LowerInv(Len(s.res), k, st),
           NEW kind, NEW node \in 0 .. k, NEW index, NEW a \in ArgsOf(Len(s.res))
    PROVE  LET d == LowerAccess(s, kind, node, index, st, a)
           IN  LowerInv(Len(s.res), k, d) /\ d.nodes = st.nodes /\ d.phis = st.phis
<1> DEFINE R == Len(s.res)
           m == Len(st.values)
           held == st.current[a.r]
           fresh == \/ kind = "construct" /\ index = 1
                    \/ s.res[a.r].kind = "cutoff"
           uses == ~a.ser /\ kind # "discard" /\ (a.mode # "write" \/ ~fresh)
           defines == ~a.ser /\ kind # "discard" /\ a.mode \in {"write", "read_write"}
           ends == ~a.ser /\ (kind = "discard" \/ a.mode = "consume")
           lowered == [r |-> a.r, mode |-> a.mode, ser |-> a.ser,
                       in |-> IF uses THEN held ELSE 0,
                       out |-> IF defines THEN Len(st.values) + 1 ELSE 0]
           after == IF defines THEN Define(st, a.r, node, FALSE)
                    ELSE IF ends THEN [st EXCEPT !.current[a.r] = 0]
                    ELSE st
           lost == uses /\ a.mode # "write" /\ held = 0
           d == LowerAccess(s, kind, node, index, st, a)
<1>1. d = [after EXCEPT !.acc = Append(after.acc, lowered), !.fail = after.fail \/ lost]
  BY DEF LowerAccess
<1>2. st \in LowerStates(R, k, m) /\ m \in Nat /\ R \in Nat
  BY DEF LowerInv, LowerStates
<1>3. a.r \in 1 .. R /\ a.mode \in ModeNames /\ a.ser \in BOOLEAN
  BY DEF ArgsOf
<1>4. held \in 0 .. m
  <2>1. st.current \in [1 .. R -> 0 .. m]
    BY <1>2 DEF LowerStates
  <2> HIDE DEF m, R
  <2> QED
    BY <1>3, <2>1
<1>5. lowered \in AccessSet(R)
  <2> DEFINE in == IF uses THEN held ELSE 0
             out == IF defines THEN Len(st.values) + 1 ELSE 0
  <2>1. in \in Nat /\ out \in Nat
    BY <1>2, <1>4
  <2>2. lowered = [r |-> a.r, mode |-> a.mode, ser |-> a.ser, in |-> in, out |-> out]
    OBVIOUS
  <2> HIDE DEF lowered, in, out, R
  <2> QED
    BY <1>3, <2>1, <2>2 DEF AccessSet
<1>6. LowerInv(R, k, after) /\ after.nodes = st.nodes /\ after.phis = st.phis
  <2>1. CASE defines
    <3>1. after = Define(st, a.r, node, FALSE)
      BY <2>1
    <3> DEFINE r == a.r
    <3> HIDE DEF after, defines, r, R
    <3>2. r \in 1 .. R /\ LowerInv(R, k, st) /\ FALSE \in BOOLEAN
      BY <1>3 DEF r, R
    <3>3. LowerInv(R, k, Define(st, r, node, FALSE))
      BY <1>2, <3>2, DefineFacts
    <3>4. Define(st, r, node, FALSE).nodes = st.nodes /\ Define(st, r, node, FALSE).phis = st.phis
      BY <1>2 DEF Define, LowerStates
    <3> QED
      BY <3>1, <3>3, <3>4 DEF r
  <2>2. CASE ~defines /\ ends
    <3>1. after = [st EXCEPT !.current[a.r] = 0]
      BY <2>2
    <3> DEFINE cs == [st.current EXCEPT ![a.r] = 0]
    <3>2. after = [st EXCEPT !.current = cs]
      BY <3>1
    <3>3. cs \in [1 .. R -> 0 .. m]
      <4>1. st.current \in [1 .. R -> 0 .. m] /\ 0 \in 0 .. m
        BY <1>2 DEF LowerStates
      <4> HIDE DEF m, R
      <4> QED
        BY <4>1
    <3> HIDE DEF after, defines, ends, cs, m, R
    <3>4. /\ after \in LowerStates(R, k, m) /\ after.values = st.values /\ after.nodes = st.nodes
          /\ after.phis = st.phis
      BY <1>2, <3>2, <3>3 DEF LowerStates
    <3> QED
      BY <3>4 DEF LowerInv, m
  <2>3. CASE ~defines /\ ~ends
    BY <2>3
  <2> QED
    BY <2>1, <2>2, <2>3
<1>7. lost \in BOOLEAN
  OBVIOUS
<1> DEFINE h == Len(after.values)
           x == Append(after.acc, lowered)
           f == after.fail \/ lost
<1>8. after \in LowerStates(R, k, h)
  <2> HIDE DEF after, R
  <2> QED
    BY <1>6 DEF LowerInv
<1>9. x \in Seq(AccessSet(R)) /\ f \in BOOLEAN
  <2>1. after.acc \in Seq(AccessSet(R)) /\ after.fail \in BOOLEAN
    <3> HIDE DEF after, R, h
    <3> QED
      BY <1>8 DEF LowerStates
  <2> HIDE DEF after, R, lowered, lost
  <2> QED
    BY <1>5, <1>7, <2>1
<1>10. d = [after EXCEPT !.acc = x, !.fail = f]
  BY <1>1
<1> HIDE DEF after, h, x, f, d, R, lowered, lost
<1>11. /\ d \in LowerStates(R, k, h) /\ d.nodes = after.nodes /\ d.values = after.values
       /\ d.phis = after.phis
  BY <1>8, <1>9, <1>10 DEF LowerStates
<1>12. d.nodes = st.nodes /\ d.phis = st.phis
  BY <1>6, <1>11
<1>13. LowerInv(R, k, d)
  BY <1>11 DEF LowerInv, h
<1> QED
  BY <1>12, <1>13 DEF d, R

LEMMA LowerPhiKeeps ==
    ASSUME NEW s, GoodStream(s), NEW k \in Nat, NEW st, LowerInv(Len(s.res), k, st),
           NEW node \in 1 .. k, NEW n, n.phi \in 1 .. Len(s.phis)
    PROVE  LET d == LowerPhi(s, node, st, n)
           IN  /\ LowerInv(Len(s.res), k, d) /\ d.nodes = st.nodes
               /\ AddsPhi(st.phis, d.phis, node)
<1> DEFINE R == Len(s.res)
           m == Len(st.values)
           p == s.phis[n.phi]
           init == st.current[p.init]
           after == Define(st, p.out, node, FALSE)
           x == [r |-> p.init, mode |-> "read", ser |-> FALSE, in |-> init, out |-> 0]
           y == [r |-> p.fb, mode |-> "read", ser |-> FALSE, in |-> 0, out |-> 0]
           z == [r |-> p.out, mode |-> "write", ser |-> FALSE, in |-> 0, out |-> m + 1]
           q == [node |-> node, fbres |-> p.fb, condres |-> p.cond, out |-> m + 1, init |-> init,
                 fb |-> 0, cond |-> 0, decl |-> p.pos, fbpos |-> p.fbpos, mif |-> p.mif]
           acc == <<x, y, z>>
           ps == Append(after.phis, q)
           fail == after.fail \/ init = 0
           d == LowerPhi(s, node, st, n)
<1>1. d = [after EXCEPT !.acc = acc, !.phis = ps, !.fail = fail]
  BY DEF LowerPhi
<1>2. st \in LowerStates(R, k, m) /\ m \in Nat /\ R \in Nat
  BY DEF LowerInv, LowerStates, GoodStream
<1>3. /\ p \in PhiSet /\ p.out \in 1 .. R /\ p.init \in 1 .. R /\ p.fb \in 1 .. R /\ p.cond \in 0 .. R
  BY SMTT(60) DEF GoodStream
<1>4. init \in 0 .. m
  <2>1. st.current \in [1 .. R -> 0 .. m]
    BY <1>2 DEF LowerStates
  <2> HIDE DEF m, R, p
  <2> QED
    BY <1>3, <2>1
<1>5. /\ LowerInv(R, k, after) /\ Len(after.values) = m + 1 /\ after.nodes = st.nodes
      /\ after.phis = st.phis
  <2>1. p.out \in 1 .. R /\ node \in 0 .. k /\ LowerInv(R, k, st)
    BY <1>3
  <2> DEFINE o   == p.out
             ext == FALSE
             a   == Define(st, o, node, ext)
  <2>2. o \in 1 .. R /\ R \in Nat /\ ext \in BOOLEAN
    BY <1>2, <2>1
  <2> HIDE DEF R, o, ext, a, p, init, x, y, z, q, acc, ps, fail, d, after
  <2>3. /\ LowerInv(R, k, a) /\ Len(a.values) = Len(st.values) + 1 /\ a.nodes = st.nodes
        /\ a.phis = st.phis
    BY <2>1, <2>2, DefineFacts DEF a
  <2>4. a = after
    BY DEF a, o, ext, after
  <2> QED
    BY <2>3, <2>4 DEF m
<1>6. after \in LowerStates(R, k, m + 1)
  <2> HIDE DEF after, R, m
  <2> QED
    BY <1>5 DEF LowerInv
<1>7. x \in AccessSet(R) /\ y \in AccessSet(R) /\ z \in AccessSet(R)
  <2> HIDE DEF R, p, init, m
  <2> QED
    BY <1>2, <1>3, <1>4 DEF AccessSet, ModeNames
<1>8. q \in LoweredPhiSet(R, k, m + 1)
  <2>1. /\ p.pos \in Nat /\ p.fbpos \in Int /\ p.mif \in Nat /\ 0 \in 0 .. m + 1 /\ m + 1 \in Nat
        /\ p.fb \in 0 .. R /\ p.cond \in 0 .. R /\ init \in Nat
    <3>1. p.pos \in Nat /\ p.fbpos \in Int /\ p.mif \in Nat
      <4> HIDE DEF p, R
      <4> QED
        BY <1>3 DEF PhiSet
    <3> HIDE DEF R, p, init, m
    <3> QED
      BY <1>2, <1>3, <1>4, <3>1
  <2> HIDE DEF R, p, init, m
  <2> QED
    BY <2>1 DEF LoweredPhiSet
<1>9. acc \in Seq(AccessSet(R))
  <2> HIDE DEF x, y, z, R
  <2> QED
    BY <1>7
<1>10. ps \in Seq(LoweredPhiSet(R, k, m + 1)) /\ fail \in BOOLEAN
  <2>1. after.phis \in Seq(LoweredPhiSet(R, k, m + 1)) /\ after.fail \in BOOLEAN
    <3> HIDE DEF after, R, m
    <3> QED
      BY <1>6 DEF LowerStates
  <2> HIDE DEF after, q, R, m
  <2> QED
    BY <1>8, <2>1
<1>13. q.node = node
  OBVIOUS
<1>14. ps = Append(st.phis, q)
  BY <1>5
<1> HIDE DEF after, acc, ps, fail, d, R, m, q
<1>11. /\ d \in LowerStates(R, k, m + 1) /\ d.nodes = after.nodes /\ d.values = after.values
       /\ d.phis = ps
  BY <1>1, <1>6, <1>9, <1>10 DEF LowerStates
<1>12. d.nodes = st.nodes /\ LowerInv(R, k, d)
  BY <1>5, <1>11 DEF LowerInv
<1>15. AddsPhi(st.phis, d.phis, node)
  BY <1>11, <1>13, <1>14 DEF AddsPhi
<1> QED
  BY <1>12, <1>15 DEF d, R

NodeStep(c, x, i) == LowerNode(c.s, x, c.normalized[i])
Walk == INSTANCE Recursion WITH Step <- NodeStep

LowerAll(s, kind, node, acc, st) ==
    Iterate(LAMBDA x, i : LowerAccess(s, kind, node, i, x, acc[i]), st, Len(acc))

LEMMA LowerAccessesKeep ==
    ASSUME NEW s, Len(s.res) \in Nat, NEW k \in Nat, NEW st, LowerInv(Len(s.res), k, st),
           NEW kind, NEW node \in 0 .. k, NEW acc \in Seq(ArgsOf(Len(s.res)))
    PROVE  LET d == LowerAll(s, kind, node, acc, st)
           IN  LowerInv(Len(s.res), k, d) /\ d.nodes = st.nodes /\ d.phis = st.phis
<1> DEFINE c == [s |-> s, kind |-> kind, node |-> node, acc |-> acc]
           E(i) == Accesses!After(c, st, i)
           T == {i \in Nat : i <= Len(acc) =>
                    LowerInv(Len(s.res), k, E(i)) /\ E(i).nodes = st.nodes /\ E(i).phis = st.phis}
<1>0. Len(acc) \in Nat
  OBVIOUS
<1>1. 0 \in T
  <2>1. E(0) = st
    BY Accesses!AfterNone
  <2> HIDE DEF E
  <2> QED
    BY <2>1
<1>2. ASSUME NEW i \in Nat, i \in T PROVE i + 1 \in T
  <2> SUFFICES ASSUME i + 1 <= Len(acc)
               PROVE  LowerInv(Len(s.res), k, E(i + 1)) /\ E(i + 1).nodes = st.nodes
                      /\ E(i + 1).phis = st.phis
    OBVIOUS
  <2>1. LowerInv(Len(s.res), k, E(i)) /\ E(i).nodes = st.nodes /\ E(i).phis = st.phis
    BY <1>0, <1>2
  <2>2. E(i + 1) = AccessStep(c, E(i), i + 1)
    BY Accesses!AfterNext
  <2>3. E(i + 1) = LowerAccess(s, kind, node, i + 1, E(i), acc[i + 1])
    BY <2>2 DEF AccessStep
  <2>4. acc[i + 1] \in ArgsOf(Len(s.res))
    BY <1>0
  <2> DEFINE y == E(i)
             a == acc[i + 1]
  <2>5. LowerInv(Len(s.res), k, y) /\ a \in ArgsOf(Len(s.res)) /\ y.nodes = st.nodes /\ y.phis = st.phis
    BY <2>1, <2>4
  <2> HIDE DEF E, y, a
  <2>6. LET d == LowerAccess(s, kind, node, i + 1, y, a)
        IN  LowerInv(Len(s.res), k, d) /\ d.nodes = y.nodes /\ d.phis = y.phis
    BY <2>5, LowerAccessKeeps
  <2> QED
    BY <2>3, <2>5, <2>6 DEF y, a
<1>3. /\ LowerInv(Len(s.res), k, E(Len(acc))) /\ E(Len(acc)).nodes = st.nodes
      /\ E(Len(acc)).phis = st.phis
  <2>1. Len(acc) \in T
    <3> HIDE DEF T
    <3> QED
      BY <1>0, <1>1, <1>2, Accesses!Induction
  <2> HIDE DEF E
  <2> QED
    BY <1>0, <2>1
<1>4. LowerAll(s, kind, node, acc, st) = E(Len(acc))
  BY DEF LowerAll, Iterate, Accesses!After, AccessStep
<1> HIDE DEF E
<1> QED
  BY <1>3, <1>4

(* Appending a node keeps the phis at phi nodes, whether the node is one of *)
(* them or not.                                                             *)
LEMMA PhisStayAtPhis ==
    ASSUME NEW st, NEW d, NEW N, NEW P, st.nodes \in Seq(N), st.phis \in Seq(P),
           NEW new, d.nodes = Append(st.nodes, new), PhisAtPhis(st),
           \/ SameNodes(st.phis, d.phis)
           \/ new.kind = "phi" /\ AddsPhi(st.phis, d.phis, Len(st.nodes) + 1)
    PROVE  PhisAtPhis(d)
<1> DEFINE ns == st.nodes
           ps == st.phis
           ms == d.nodes
           qs == d.phis
<1>1. /\ ns \in Seq(N) /\ ps \in Seq(P) /\ ms = Append(ns, new)
      /\ \A j \in 1 .. Len(ps) : ps[j].node \in 1 .. Len(ns) /\ ns[ps[j].node].kind = "phi"
      /\ \/ Len(qs) = Len(ps) /\ \A j \in 1 .. Len(ps) : qs[j].node = ps[j].node
         \/ new.kind = "phi" /\ \E q : qs = Append(ps, q) /\ q.node = Len(ns) + 1
  BY DEF PhisAtPhis, SameNodes, AddsPhi
<1> SUFFICES \A j \in 1 .. Len(qs) : qs[j].node \in 1 .. Len(ms) /\ ms[qs[j].node].kind = "phi"
  BY DEF PhisAtPhis
<1> HIDE DEF ns, ps, ms, qs
<1>2. /\ Len(ns) \in Nat /\ Len(ps) \in Nat /\ Len(ms) = Len(ns) + 1
      /\ \A i \in 1 .. Len(ns) : ms[i] = ns[i]
      /\ ms[Len(ns) + 1] = new
  BY <1>1, SMTT(60)
<1>3. ASSUME NEW i, i \in 1 .. Len(ns), ns[i].kind = "phi"
      PROVE  i \in 1 .. Len(ms) /\ ms[i].kind = "phi"
  BY <1>2, <1>3
<1>4. CASE Len(qs) = Len(ps) /\ \A j \in 1 .. Len(ps) : qs[j].node = ps[j].node
  BY <1>1, <1>3, <1>4
<1>5. ASSUME NEW q, qs = Append(ps, q), q.node = Len(ns) + 1, new.kind = "phi",
             NEW j \in 1 .. Len(qs)
      PROVE  qs[j].node \in 1 .. Len(ms) /\ ms[qs[j].node].kind = "phi"
  <2>1. (j \in 1 .. Len(ps) /\ qs[j] = ps[j]) \/ qs[j] = q
    BY <1>1, <1>2, <1>5, SMTT(60)
  <2>2. CASE j \in 1 .. Len(ps) /\ qs[j] = ps[j]
    BY <1>1, <1>3, <2>2
  <2>3. CASE qs[j] = q
    <3>1. Len(ns) + 1 \in 1 .. Len(ms) /\ ms[Len(ns) + 1].kind = "phi"
      BY <1>2, <1>5
    <3> QED
      BY <1>5, <2>3, <3>1
  <2> QED
    BY <2>1, <2>2, <2>3
<1> QED
  BY <1>1, <1>4, <1>5

LEMMA LowerNodeKeeps ==
    ASSUME NEW s, GoodStream(s), NEW k \in Nat, NEW st, LowerInv(Len(s.res), k, st),
           Len(st.nodes) = k, NEW n \in Normalized(s)
    PROVE  LET d == LowerNode(s, st, n)
           IN  /\ LowerInv(Len(s.res), k + 1, d) /\ Len(d.nodes) = k + 1
               /\ PhisAtPhis(st) => PhisAtPhis(d)
<1> DEFINE R == Len(s.res)
           node == Len(st.nodes) + 1
           ready == IF n.kind = "phi" THEN st
                    ELSE ResolveFeedback(ResolveIfConditions(st, n.src), n.src)
           start == [ready EXCEPT !.acc = <<>>]
           done == IF n.kind = "phi" THEN LowerPhi(s, node, start, n)
                   ELSE LowerAll(s, n.kind, node, n.acc, start)
           new == [kind |-> n.kind, src |-> n.src, side |-> n.side, acc |-> done.acc]
           d == LowerNode(s, st, n)
<1>1. d = [done EXCEPT !.nodes = Append(done.nodes, new)]
  BY DEF LowerNode, LowerAll, Iterate
<1>2. /\ node = k + 1 /\ node \in 1 .. k + 1 /\ node \in 0 .. k + 1 /\ k + 1 \in Nat
      /\ R \in Nat
  BY DEF GoodStream
<1>3. /\ n.kind \in OpKinds \cup {"phi"} /\ n.src \in Nat /\ n.side \in BOOLEAN
      /\ n.acc \in Seq(ArgsOf(R))
      /\ n.kind = "phi" => n.phi \in 1 .. Len(s.phis)
  BY DEF Normalized
<1>4. /\ LowerInv(R, k, ready) /\ ready.nodes = st.nodes
      /\ n.kind = "phi" => ready.phis = st.phis
      /\ n.kind # "phi" => SameNodes(st.phis, ready.phis)
  <2>1. CASE n.kind = "phi"
    BY <2>1
  <2>2. CASE n.kind # "phi"
    <3> DEFINE mid == ResolveIfConditions(st, n.src)
    <3>1. LowerInv(R, k, mid) /\ mid.nodes = st.nodes /\ mid.phis = st.phis
      <4> HIDE DEF R
      <4> QED
        BY <1>2, ResolveIfKeeps DEF R
    <3> HIDE DEF mid, R
    <3>2. LET y == ResolveFeedback(mid, n.src)
          IN  LowerInv(R, k, y) /\ y.nodes = mid.nodes /\ SameNodes(mid.phis, y.phis)
      BY <1>2, <3>1, ResolveFeedbackKeeps
    <3>3. ready = ResolveFeedback(mid, n.src)
      BY <2>2 DEF mid
    <3> HIDE DEF ready
    <3> QED
      BY <2>2, <3>1, <3>2, <3>3
  <2> QED
    BY <2>1, <2>2
<1>5. LowerInv(R, k + 1, start) /\ start.nodes = st.nodes /\ start.phis = ready.phis
  <2> DEFINE m == Len(ready.values)
             none == <<>>
  <2>1. ready \in LowerStates(R, k, m) /\ m \in Nat
    <3> HIDE DEF ready, R
    <3>1. ready \in LowerStates(R, k, Len(ready.values))
      BY <1>4 DEF LowerInv
    <3>2. Len(ready.values) \in Nat
      BY <3>1 DEF LowerStates
    <3> QED
      BY <3>1, <3>2
  <2>2. ready \in LowerStates(R, k + 1, m)
    <3> HIDE DEF ready, m, R
    <3>1. k <= k + 1 /\ m <= m
      BY <2>1
    <3> QED
      BY <1>2, <2>1, <3>1, StateGrows
  <2>3. none \in Seq(AccessSet(R))
    OBVIOUS
  <2>4. start = [ready EXCEPT !.acc = none]
    OBVIOUS
  <2> HIDE DEF ready, start, m, R, none
  <2>5. /\ start \in LowerStates(R, k + 1, m) /\ start.values = ready.values
        /\ start.nodes = ready.nodes /\ start.phis = ready.phis
    BY <2>2, <2>3, <2>4 DEF LowerStates
  <2> QED
    BY <1>4, <2>5 DEF LowerInv, m
<1>6. /\ LowerInv(R, k + 1, done) /\ done.nodes = st.nodes
      /\ \/ SameNodes(st.phis, done.phis)
         \/ n.kind = "phi" /\ AddsPhi(st.phis, done.phis, node)
  <2>1. CASE n.kind = "phi"
    <3>1. n.phi \in 1 .. Len(s.phis) /\ done = LowerPhi(s, node, start, n)
      BY <1>3, <2>1
    <3> HIDE DEF start, done, node
    <3>2. LET y == LowerPhi(s, node, start, n)
          IN  /\ LowerInv(R, k + 1, y) /\ y.nodes = start.nodes
              /\ AddsPhi(start.phis, y.phis, node)
      BY <1>2, <1>5, <3>1, LowerPhiKeeps
    <3>3. start.phis = st.phis
      BY <1>4, <1>5, <2>1
    <3> HIDE DEF ready
    <3> QED
      BY <1>5, <2>1, <3>1, <3>2, <3>3
  <2>2. CASE n.kind # "phi"
    <3> DEFINE kind == n.kind
               acc == n.acc
    <3>1. done = LowerAll(s, kind, node, acc, start)
      BY <2>2
    <3> DEFINE y == LowerAll(s, kind, node, acc, start)
    <3>2. acc \in Seq(ArgsOf(Len(s.res))) /\ Len(s.res) \in Nat
      <4> HIDE DEF start, done, node
      <4> QED
        BY <1>2, <1>3
    <3>3. LowerInv(R, k + 1, y) /\ y.nodes = start.nodes /\ y.phis = start.phis
      <4> HIDE DEF start, done, node, kind, acc
      <4> QED
        BY <1>2, <1>5, <3>2, LowerAccessesKeep
    <3>4. done = y
      BY <3>1
    <3>5. SameNodes(st.phis, start.phis)
      BY <1>4, <1>5, <2>2
    <3> HIDE DEF y, done, start, ready
    <3> QED
      BY <1>5, <3>3, <3>4, <3>5
  <2> QED
    BY <2>1, <2>2
<1> DEFINE m == Len(done.values)
           ns == Append(done.nodes, new)
<1>7. done \in LowerStates(R, k + 1, m)
  <2> HIDE DEF done, R
  <2> QED
    BY <1>6 DEF LowerInv
<1>8. done.acc \in Seq(AccessSet(R)) /\ done.nodes \in Seq(NodeSet(R))
  <2> HIDE DEF done, R, m
  <2> QED
    BY <1>7 DEF LowerStates
<1>9. new \in NodeSet(R)
  <2> DEFINE acc == done.acc
  <2>1. new = [kind |-> n.kind, src |-> n.src, side |-> n.side, acc |-> acc]
    OBVIOUS
  <2>2. acc \in Seq(AccessSet(R))
    BY <1>8
  <2> HIDE DEF new, acc, R
  <2> QED
    BY <1>3, <2>1, <2>2 DEF NodeSet
<1>10. ns \in Seq(NodeSet(R)) /\ Len(ns) = k + 1
  <2>1. Len(done.nodes) = k
    BY <1>6
  <2> HIDE DEF done, new, R
  <2> QED
    BY <1>8, <1>9, <2>1
<1>11. d = [done EXCEPT !.nodes = ns]
  BY <1>1
<1>14. ns = Append(st.nodes, new) /\ new.kind = n.kind
  <2> HIDE DEF done
  <2> QED
    BY <1>6
<1> HIDE DEF done, ns, m, d, R, new, ready, start
<1>12. /\ d \in LowerStates(R, k + 1, m) /\ d.values = done.values /\ d.nodes = ns
       /\ d.phis = done.phis
  BY <1>7, <1>10, <1>11 DEF LowerStates
<1>13. LowerInv(R, k + 1, d) /\ Len(d.nodes) = k + 1
  BY <1>10, <1>12 DEF LowerInv, m
<1>15. ASSUME PhisAtPhis(st) PROVE PhisAtPhis(d)
  <2>1. PICK l : st.nodes \in Seq(NodeSet(R)) /\ st.phis \in Seq(LoweredPhiSet(R, k, l))
    BY DEF LowerInv, LowerStates, R
  <2>2. d.nodes = Append(st.nodes, new)
    BY <1>12, <1>14
  <2>3. \/ SameNodes(st.phis, d.phis)
        \/ new.kind = "phi" /\ AddsPhi(st.phis, d.phis, Len(st.nodes) + 1)
    BY <1>6, <1>12, <1>14
  <2> QED
    BY <1>15, <2>1, <2>2, <2>3, PhisStayAtPhis
<1> QED
  BY <1>13, <1>15 DEF d, R

GivenStep(c, x, r) == IF c.s.res[r].kind = c.kind THEN Define(x, r, 0, c.kind = "external") ELSE x
Gives == INSTANCE Recursion WITH Step <- GivenStep

Given(s, st, kind) == Gives!After([s |-> s, kind |-> kind], st, Len(s.res))

LEMMA GivenKeeps ==
    ASSUME NEW s, Len(s.res) \in Nat, NEW st, LowerInv(Len(s.res), 0, st), NEW kind
    PROVE  /\ LowerInv(Len(s.res), 0, Given(s, st, kind)) /\ Given(s, st, kind).nodes = st.nodes
           /\ Given(s, st, kind).phis = st.phis
<1> DEFINE c == [s |-> s, kind |-> kind]
           R == Len(s.res)
           E(i) == Gives!After(c, st, i)
           T == {i \in Nat : i <= R =>
                    LowerInv(R, 0, E(i)) /\ E(i).nodes = st.nodes /\ E(i).phis = st.phis}
<1>1. 0 \in T
  <2>1. E(0) = st
    BY Gives!AfterNone
  <2> HIDE DEF E
  <2> QED
    BY <2>1
<1>2. ASSUME NEW i \in Nat, i \in T PROVE i + 1 \in T
  <2> SUFFICES ASSUME i + 1 <= R
               PROVE  /\ LowerInv(R, 0, E(i + 1)) /\ E(i + 1).nodes = st.nodes
                      /\ E(i + 1).phis = st.phis
    OBVIOUS
  <2>1. /\ LowerInv(R, 0, E(i)) /\ E(i).nodes = st.nodes /\ E(i).phis = st.phis
        /\ i + 1 \in 1 .. R /\ R \in Nat
    BY <1>2
  <2>2. E(i + 1) = GivenStep(c, E(i), i + 1)
    BY Gives!AfterNext
  <2> DEFINE y == E(i)
             ext == kind = "external"
  <2>3. E(i + 1) = Define(y, i + 1, 0, ext) \/ E(i + 1) = y
    BY <2>2 DEF GivenStep
  <2>4. /\ LowerInv(R, 0, y) /\ y.nodes = st.nodes /\ y.phis = st.phis
        /\ ext \in BOOLEAN /\ 0 \in 0 .. 0 /\ 0 \in Nat
    BY <2>1
  <2> HIDE DEF E, y, ext, R, c
  <2>5. LowerInv(R, 0, Define(y, i + 1, 0, ext))
    BY <2>1, <2>4, DefineFacts
  <2>6. Define(y, i + 1, 0, ext).nodes = y.nodes /\ Define(y, i + 1, 0, ext).phis = y.phis
    BY <2>4 DEF Define, LowerInv, LowerStates
  <2> QED
    BY <2>3, <2>4, <2>5, <2>6 DEF y
<1>3. LowerInv(R, 0, E(R)) /\ E(R).nodes = st.nodes /\ E(R).phis = st.phis
  <2>1. R \in T
    <3> HIDE DEF T
    <3> QED
      BY <1>1, <1>2, Gives!Induction
  <2> HIDE DEF E
  <2> QED
    BY <2>1
<1> HIDE DEF E
<1> QED
  BY <1>3 DEF E, Given

(* The state before the first node, and after the last one.                *)
Blank(s) ==
    [values |-> <<>>, current |-> [r \in DOMAIN s.res |-> 0],
     nodes |-> <<>>, phis |-> <<>>, acc |-> <<>>, fail |-> FALSE,
     ifs |-> [b \in DOMAIN s.ifs |->
               [condres |-> s.ifs[b].cond, cond |-> 0,
                begin |-> s.ifs[b].begin, alt |-> s.ifs[b].alt,
                end |-> s.ifs[b].end]]]

Walked(s, normalized) ==
    Walk!After([s |-> s, normalized |-> normalized],
               Given(s, Given(s, Blank(s), "external"), "projection"), Len(normalized))

Done(s, normalized) ==
    ResolveIfConditions(ResolveFeedback(Walked(s, normalized), Len(s.ops)), Len(s.ops))

LowerNodes(s, x, normalized) ==
    Iterate(LAMBDA st, i : LowerNode(s, st, normalized[i]), x, Len(normalized))

GiveAll(s, x, kind) ==
    Iterate(LAMBDA st, r : IF s.res[r].kind = kind THEN Define(st, r, 0, kind = "external") ELSE st,
            x, Len(s.res))

LEMMA LowerNodesSteps ==
    ASSUME NEW s, NEW x, NEW normalized
    PROVE  LowerNodes(s, x, normalized) =
              Walk!After([s |-> s, normalized |-> normalized], x, Len(normalized))
BY DEF LowerNodes, Iterate, Walk!After, NodeStep

LEMMA GiveAllSteps ==
    ASSUME NEW s, NEW x, NEW kind
    PROVE  GiveAll(s, x, kind) = Given(s, x, kind)
BY DEF GiveAll, Given, Iterate, Gives!After, GivenStep

LEMMA WalkedIs ==
    ASSUME NEW s, NEW normalized
    PROVE  Walked(s, normalized) =
              LowerNodes(s, GiveAll(s, GiveAll(s, Blank(s), "external"), "projection"), normalized)
BY LowerNodesSteps, GiveAllSteps, SMTT(60) DEF Walked

LEMMA LowerValuesIs ==
    ASSUME NEW s, NEW normalized
    PROVE  LET v == LowerValues(s, normalized)
               done == Done(s, normalized)
           IN  /\ v.res = s.res /\ v.values = done.values /\ v.phis = done.phis /\ v.ifs = done.ifs
               /\ v.nodes = [n \in DOMAIN done.nodes |->
                               IF done.nodes[n].kind = "phi"
                               THEN [done.nodes[n] EXCEPT !.acc[2].in =
                                       (CHOOSE p \in ToSet(done.phis) : p.node = n).fb]
                               ELSE done.nodes[n]]
               /\ ~v.fail => \A p \in DOMAIN done.phis : done.phis[p].fb # 0
               /\ /\ ~done.fail
                  /\ \A p \in DOMAIN done.phis : done.phis[p].fb # 0
                  /\ \A b \in DOMAIN done.ifs : done.ifs[b].cond # 0
                  => ~v.fail
<1> DEFINE done == Done(s, normalized)
           ns == [n \in DOMAIN done.nodes |->
                               IF done.nodes[n].kind = "phi"
                               THEN [done.nodes[n] EXCEPT !.acc[2].in =
                                       (CHOOSE p \in ToSet(done.phis) : p.node = n).fb]
                               ELSE done.nodes[n]]
           failed == \/ done.fail
                     \/ \E p \in DOMAIN done.phis : done.phis[p].fb = 0
                     \/ \E b \in DOMAIN done.ifs : done.ifs[b].cond = 0
<1>1. LowerValues(s, normalized) =
        [res |-> s.res, values |-> done.values, phis |-> done.phis, ifs |-> done.ifs,
         nodes |-> ns, fail |-> failed]
  <2> DEFINE walked == LowerNodes(s, GiveAll(s, GiveAll(s, Blank(s), "external"), "projection"), normalized)
  <2>1. done = ResolveIfConditions(ResolveFeedback(walked, Len(s.ops)), Len(s.ops))
    BY WalkedIs, SMTT(60) DEF Done
  <2> SUFFICES LET x == ResolveIfConditions(ResolveFeedback(walked, Len(s.ops)), Len(s.ops)) IN
        LowerValues(s, normalized) =
        [res |-> s.res, values |-> x.values, phis |-> x.phis, ifs |-> x.ifs,
         nodes |-> [n \in DOMAIN x.nodes |->
                               IF x.nodes[n].kind = "phi"
                               THEN [x.nodes[n] EXCEPT !.acc[2].in =
                                       (CHOOSE p \in ToSet(x.phis) : p.node = n).fb]
                               ELSE x.nodes[n]],
         fail |-> \/ x.fail
                  \/ \E p \in DOMAIN x.phis : x.phis[p].fb = 0
                  \/ \E b \in DOMAIN x.ifs : x.ifs[b].cond = 0]
    BY <2>1
  <2> QED
    BY DEF LowerValues, LowerNodes, GiveAll, Blank, Iterate
<1>2. done = Done(s, normalized)
  OBVIOUS
<1>3. /\ ~failed => \A p \in DOMAIN done.phis : done.phis[p].fb # 0
      /\ /\ ~done.fail
         /\ \A p \in DOMAIN done.phis : done.phis[p].fb # 0
         /\ \A b \in DOMAIN done.ifs : done.ifs[b].cond # 0
         => ~failed
  OBVIOUS
<1>4. ns = [n \in DOMAIN done.nodes |->
                               IF done.nodes[n].kind = "phi"
                               THEN [done.nodes[n] EXCEPT !.acc[2].in =
                                       (CHOOSE p \in ToSet(done.phis) : p.node = n).fb]
                               ELSE done.nodes[n]]
  OBVIOUS
<1> HIDE DEF done, ns, failed
<1> QED
  BY <1>1, <1>2, <1>3, <1>4, SMTT(60)

LEMMA BlankState ==
    ASSUME NEW s, GoodStream(s)
    PROVE  /\ LowerInv(Len(s.res), 0, Blank(s)) /\ Len(Blank(s).nodes) = 0
           /\ Len(Blank(s).phis) = 0
<1> DEFINE R == Len(s.res)
           b == Blank(s)
           is == [i \in DOMAIN s.ifs |->
                    [condres |-> s.ifs[i].cond, cond |-> 0, begin |-> s.ifs[i].begin,
                     alt |-> s.ifs[i].alt, end |-> s.ifs[i].end]]
           cs == [r \in DOMAIN s.res |-> 0]
           none == <<>>
<1>1. b = [values |-> none, current |-> cs, nodes |-> none, phis |-> none, acc |-> none,
           fail |-> FALSE, ifs |-> is]
  BY DEF Blank
<1>2. is \in Seq(LoweredIfSet(R, 0))
  <2>1. s.ifs \in Seq(IfSet) /\ Len(s.ifs) \in Nat /\ DOMAIN s.ifs = 1 .. Len(s.ifs)
    BY DEF GoodStream
  <2>2. ASSUME NEW i \in 1 .. Len(s.ifs) PROVE is[i] \in LoweredIfSet(R, 0)
    <3>1. s.ifs[i] \in IfSet /\ s.ifs[i].cond \in 1 .. R
      BY <2>1 DEF GoodStream
    <3>2. is[i] = [condres |-> s.ifs[i].cond, cond |-> 0, begin |-> s.ifs[i].begin,
                   alt |-> s.ifs[i].alt, end |-> s.ifs[i].end]
      BY <2>1
    <3> HIDE DEF is, R
    <3> QED
      BY <3>1, <3>2 DEF LoweredIfSet, IfSet
  <2>3. DOMAIN is = 1 .. Len(s.ifs)
    BY <2>1
  <2>4. is \in [1 .. Len(s.ifs) -> LoweredIfSet(R, 0)]
    <3>1. is = [i \in 1 .. Len(s.ifs) |-> is[i]]
      BY <2>1
    <3> HIDE DEF is, R
    <3> QED
      BY <2>2, <3>1
  <2> HIDE DEF is, R
  <2> QED
    BY <2>1, <2>4
<1>3. cs \in [1 .. R -> 0 .. 0]
  BY DEF GoodStream
<1>4. /\ none \in Seq(ValueSet(0)) /\ none \in Seq(NodeSet(R)) /\ Len(none) = 0
      /\ none \in Seq(LoweredPhiSet(R, 0, 0)) /\ none \in Seq(AccessSet(R))
  OBVIOUS
<1> HIDE DEF b, is, cs, none, R
<1>5. b \in LowerStates(R, 0, 0) /\ b.values = none /\ b.nodes = none /\ b.phis = none
  BY <1>1, <1>2, <1>3, <1>4 DEF LowerStates
<1> QED
  BY <1>4, <1>5 DEF LowerInv, b, R

LEMMA DoneState ==
    ASSUME NEW s, GoodStream(s)
    PROVE  LET done == Done(s, Canonicalize(s))
               n == Len(Canonicalize(s))
           IN  /\ n \in Nat /\ LowerInv(Len(s.res), n, done) /\ Len(done.nodes) = n
               /\ PhisAtPhis(done)
<1> DEFINE R == Len(s.res)
           normalized == Canonicalize(s)
           n == Len(normalized)
           c == [s |-> s, normalized |-> normalized]
           x == Given(s, Given(s, Blank(s), "external"), "projection")
           E(i) == Walk!After(c, x, i)
           T == {i \in Nat :
                    i <= n => LowerInv(R, i, E(i)) /\ Len(E(i).nodes) = i /\ PhisAtPhis(E(i))}
<1>0. normalized \in Seq(Normalized(s)) /\ n \in Nat /\ R \in Nat
  <2>1. normalized \in Seq(Normalized(s))
    BY CanonicalizeType
  <2> HIDE DEF normalized
  <2> QED
    BY <2>1 DEF GoodStream
<1>1. LowerInv(R, 0, x) /\ Len(x.nodes) = 0 /\ PhisAtPhis(x)
  <2> DEFINE y == Given(s, Blank(s), "external")
  <2>1. LowerInv(R, 0, y) /\ y.nodes = Blank(s).nodes /\ y.phis = Blank(s).phis
    BY <1>0, BlankState, GivenKeeps
  <2> HIDE DEF y
  <2>2. /\ LowerInv(R, 0, Given(s, y, "projection")) /\ Given(s, y, "projection").nodes = y.nodes
        /\ Given(s, y, "projection").phis = y.phis
    BY <1>0, <2>1, GivenKeeps
  <2>3. LowerInv(R, 0, x) /\ Len(x.nodes) = 0 /\ Len(x.phis) = 0
    BY <2>1, <2>2, BlankState DEF y
  <2> HIDE DEF x
  <2> QED
    BY <2>3 DEF PhisAtPhis
<1>2. 0 \in T
  <2>1. E(0) = x
    BY Walk!AfterNone
  <2> HIDE DEF E, x
  <2> QED
    BY <1>1, <2>1
<1>3. ASSUME NEW i \in Nat, i \in T PROVE i + 1 \in T
  <2> SUFFICES ASSUME i + 1 <= n
               PROVE  /\ LowerInv(R, i + 1, E(i + 1)) /\ Len(E(i + 1).nodes) = i + 1
                      /\ PhisAtPhis(E(i + 1))
    OBVIOUS
  <2> HIDE DEF n
  <2>1. LowerInv(R, i, E(i)) /\ Len(E(i).nodes) = i /\ PhisAtPhis(E(i))
    BY <1>0, <1>3
  <2>2. E(i + 1) = NodeStep(c, E(i), i + 1)
    BY Walk!AfterNext
  <2> DEFINE st == E(i)
             node == normalized[i + 1]
  <2>3. E(i + 1) = LowerNode(s, st, node)
    BY <2>2 DEF NodeStep
  <2>4. node \in Normalized(s)
    <3>1. i + 1 \in 1 .. n
      BY <1>0
    <3> HIDE DEF normalized
    <3> QED
      BY <1>0, <3>1 DEF n
  <2>5. LowerInv(R, i, st) /\ Len(st.nodes) = i /\ PhisAtPhis(st)
    BY <2>1
  <2> HIDE DEF E, st, node, normalized
  <2>6. LET d == LowerNode(s, st, node)
        IN  LowerInv(Len(s.res), i + 1, d) /\ Len(d.nodes) = i + 1 /\ PhisAtPhis(d)
    BY <2>4, <2>5, LowerNodeKeeps
  <2> QED
    BY <2>3, <2>6
<1>4. LowerInv(R, n, E(n)) /\ Len(E(n).nodes) = n /\ PhisAtPhis(E(n))
  <2>1. n \in T
    <3> HIDE DEF T, n
    <3> QED
      BY <1>0, <1>2, <1>3, Walk!Induction
  <2> HIDE DEF E, n
  <2> QED
    BY <1>0, <2>1
<1>5. Walked(s, normalized) = E(n)
  BY DEF Walked
<1> DEFINE w == Walked(s, normalized)
           y == ResolveFeedback(w, Len(s.ops))
<1>6. LowerInv(R, n, w) /\ Len(w.nodes) = n /\ PhisAtPhis(w)
  <2> HIDE DEF E
  <2> QED
    BY <1>4, <1>5
<1> HIDE DEF w, n, E, R
<1>7. LowerInv(R, n, y) /\ y.nodes = w.nodes /\ SameNodes(w.phis, y.phis)
  BY <1>0, <1>6, ResolveFeedbackKeeps
<1> DEFINE z == ResolveIfConditions(y, Len(s.ops))
<1>9. z = Done(s, normalized)
  BY DEF Done, w
<1> HIDE DEF y
<1>8. LowerInv(R, n, z) /\ z.nodes = y.nodes /\ z.phis = y.phis
  BY <1>0, <1>7, ResolveIfKeeps
<1> HIDE DEF z, normalized
<1>11. PhisAtPhis(z)
  <2>1. z.nodes = w.nodes /\ SameNodes(w.phis, z.phis)
    BY <1>7, <1>8
  <2> QED
    BY <1>6, <2>1 DEF PhisAtPhis, SameNodes
<1>10. /\ LowerInv(R, n, Done(s, normalized)) /\ Len(Done(s, normalized).nodes) = n
       /\ PhisAtPhis(Done(s, normalized))
  BY <1>6, <1>7, <1>8, <1>9, <1>11
<1> QED
  BY <1>0, <1>10 DEF n, R, normalized

(* What a lowered program looks like: its nodes, values and phis are numbered *)
(* from 1 on, and name resources, values and nodes there are.                *)
LoweredShape(v, R, n, m) ==
    /\ n \in Nat /\ m \in Nat
    /\ DOMAIN v.nodes = 1 .. n
    /\ \A i \in 1 .. n : \E h \in Nat :
          DOMAIN v.nodes[i].acc = 1 .. h /\ \A j \in 1 .. h : v.nodes[i].acc[j].r \in 1 .. R
    /\ DOMAIN v.values = 1 .. m
    /\ \A x \in 1 .. m : v.values[x].producer \in 0 .. n
    /\ \E h \in Nat : DOMAIN v.phis = 1 .. h
    /\ \A p \in DOMAIN v.phis :
          v.phis[p].node \in 1 .. n /\ v.phis[p].fb \in 1 .. m /\ v.phis[p].cond \in 0 .. m

LEMMA LoweredFacts ==
    ASSUME NEW s, GoodStream(s), ~LowerValues(s, Canonicalize(s)).fail
    PROVE  LET v == LowerValues(s, Canonicalize(s))
           IN  v.res = s.res /\ \E n, m : LoweredShape(v, Len(s.res), n, m)
<1> DEFINE v == LowerValues(s, Canonicalize(s))
           done == Done(s, Canonicalize(s))
           n == Len(Canonicalize(s))
           m == Len(done.values)
           R == Len(s.res)
           given(i) == (CHOOSE p \in ToSet(done.phis) : p.node = i).fb
<1>1. n \in Nat /\ LowerInv(R, n, done) /\ Len(done.nodes) = n
  BY DoneState, SMTT(60)
<1>2. /\ v.res = s.res /\ v.values = done.values /\ v.phis = done.phis
      /\ v.nodes = [i \in DOMAIN done.nodes |->
                      IF done.nodes[i].kind = "phi"
                      THEN [done.nodes[i] EXCEPT !.acc[2].in = given(i)]
                      ELSE done.nodes[i]]
      /\ \A p \in DOMAIN done.phis : done.phis[p].fb # 0
  BY LowerValuesIs
<1> HIDE DEF v, done, n, R, given
<1>3. /\ done.values \in Seq(ValueSet(n)) /\ done.nodes \in Seq(NodeSet(R))
      /\ done.phis \in Seq(LoweredPhiSet(R, n, m))
  BY <1>1 DEF LowerInv, LowerStates
<1>4. DOMAIN done.nodes = 1 .. n /\ m \in Nat /\ DOMAIN v.nodes = 1 .. n
  BY <1>1, <1>2, <1>3
<1>5. DOMAIN v.values = 1 .. m /\ \A x \in 1 .. m : v.values[x].producer \in 0 .. n
  <2> HIDE DEF m
  <2>1. DOMAIN done.values = 1 .. m /\ \A x \in 1 .. m : done.values[x] \in ValueSet(n)
    BY <1>3 DEF m
  <2> QED
    BY <1>2, <2>1 DEF ValueSet
<1> HIDE DEF m
<1>6. \E h \in Nat : DOMAIN v.phis = 1 .. h
  BY <1>2, <1>3, SMTT(60)
<1>7. ASSUME NEW p \in DOMAIN v.phis
      PROVE  v.phis[p].node \in 1 .. n /\ v.phis[p].fb \in 1 .. m /\ v.phis[p].cond \in 0 .. m
  <2>1. v.phis[p] \in LoweredPhiSet(R, n, m) /\ v.phis[p].fb # 0
    BY <1>2, <1>3
  <2>2. v.phis[p].node \in 1 .. n /\ v.phis[p].fb \in 0 .. m /\ v.phis[p].cond \in 0 .. m
    BY <2>1, SMTT(60) DEF LoweredPhiSet
  <2> QED
    BY <1>4, <2>1, <2>2
<1>8. ASSUME NEW i \in 1 .. n
      PROVE  \E h \in Nat : DOMAIN v.nodes[i].acc = 1 .. h /\ \A j \in 1 .. h : v.nodes[i].acc[j].r \in 1 .. R
  <2> DEFINE x == done.nodes[i]
             q == x.acc
             h == Len(q)
             g == given(i)
  <2>1. x \in NodeSet(R) /\ q \in Seq(AccessSet(R))
    <3>1. x \in NodeSet(R)
      <4> SUFFICES done.nodes[i] \in NodeSet(R)
        OBVIOUS
      <4> DEFINE ns == done.nodes
      <4>1. ns \in Seq(NodeSet(R)) /\ Len(ns) = n
        BY <1>1, <1>3
      <4> HIDE DEF ns
      <4>2. ns[i] \in NodeSet(R)
        BY <1>1, <4>1
      <4> QED
        BY <4>2 DEF ns
    <3> QED
      BY <3>1 DEF NodeSet
  <2>2. h \in Nat /\ DOMAIN q = 1 .. h /\ \A j \in 1 .. h : q[j] \in AccessSet(R)
    <3> HIDE DEF q
    <3> QED
      BY <2>1
  <2>3. v.nodes[i] = x \/ v.nodes[i] = [x EXCEPT !.acc[2].in = g]
    BY <1>2, <1>4
  <2>4. CASE v.nodes[i] = x
    BY <2>2, <2>4 DEF AccessSet
  <2>5. CASE v.nodes[i] = [x EXCEPT !.acc[2].in = g]
    <3> DEFINE y == [q EXCEPT ![2] = [q[2] EXCEPT !.in = g]]
    <3>1. v.nodes[i].acc = y
      <4>1. v.nodes[i] = [x EXCEPT !.acc = y]
        BY <2>5
      <4> HIDE DEF x, y
      <4> QED
        BY <2>1, <4>1 DEF NodeSet
    <3>2. DOMAIN y = 1 .. h
      BY <2>2
    <3>3. ASSUME NEW j \in 1 .. h PROVE y[j].r \in 1 .. R
      <4> DEFINE z == q[j]
      <4>1. z \in AccessSet(R)
        BY <2>2
      <4>2. y[j] = z \/ y[j] = [z EXCEPT !.in = g]
        BY <2>2
      <4> HIDE DEF y, z, g
      <4> QED
        BY <4>1, <4>2 DEF AccessSet
    <3> HIDE DEF y, x, h
    <3> QED
      BY <2>2, <3>1, <3>2, <3>3
  <2> QED
    BY <2>3, <2>4, <2>5
<1>9. LoweredShape(v, R, n, m)
  BY <1>1, <1>4, <1>5, <1>6, <1>7, <1>8 DEF LoweredShape
<1> QED
  BY <1>2, <1>9 DEF v, R

(* The node of a phi is one in the lowered program too.                     *)
LEMMA LoweredPhis ==
    ASSUME NEW s, GoodStream(s)
    PROVE  LET v == LowerValues(s, Canonicalize(s))
           IN  \A p \in DOMAIN v.phis : v.nodes[v.phis[p].node].kind = "phi"
<1> DEFINE v == LowerValues(s, Canonicalize(s))
           done == Done(s, Canonicalize(s))
           n == Len(Canonicalize(s))
           R == Len(s.res)
           given(i) == (CHOOSE p \in ToSet(done.phis) : p.node = i).fb
<1>1. n \in Nat /\ LowerInv(R, n, done) /\ Len(done.nodes) = n /\ PhisAtPhis(done)
  BY DoneState, SMTT(60)
<1>2. /\ v.phis = done.phis
      /\ v.nodes = [i \in DOMAIN done.nodes |->
                      IF done.nodes[i].kind = "phi"
                      THEN [done.nodes[i] EXCEPT !.acc[2].in = given(i)]
                      ELSE done.nodes[i]]
  BY LowerValuesIs
<1> HIDE DEF v, done, n, R, given
<1>3. PICK m : done.nodes \in Seq(NodeSet(R)) /\ done.phis \in Seq(LoweredPhiSet(R, n, m))
  BY <1>1 DEF LowerInv, LowerStates
<1>4. ASSUME NEW p \in DOMAIN v.phis PROVE v.nodes[v.phis[p].node].kind = "phi"
  <2> DEFINE i == done.phis[p].node
             x == done.nodes[i]
             g == given(i)
  <2>1. p \in 1 .. Len(done.phis)
    BY <1>2, <1>3
  <2>2. i \in 1 .. Len(done.nodes) /\ x.kind = "phi"
    BY <1>1, <2>1 DEF PhisAtPhis
  <2>3. i \in DOMAIN done.nodes /\ x \in NodeSet(R)
    <3> DEFINE ns == done.nodes
    <3>1. ns \in Seq(NodeSet(R)) /\ i \in 1 .. Len(ns)
      BY <1>3, <2>2
    <3> HIDE DEF ns, i
    <3>2. i \in DOMAIN ns /\ ns[i] \in NodeSet(R)
      BY <3>1
    <3> QED
      BY <3>2 DEF ns
  <2>4. v.nodes[i] = [x EXCEPT !.acc[2].in = g]
    BY <1>2, <2>2, <2>3
  <2> HIDE DEF x, g
  <2>5. v.nodes[i].kind = x.kind
    BY <2>3, <2>4 DEF NodeSet
  <2> QED
    BY <1>2, <2>2, <2>5
<1> QED
  BY <1>4 DEF v

-----------------------------------------------------------------------------
(* From the lowered program on, every stage has one of that form.           *)
LEMMA LoweredStream ==
    ASSUME Compiles, stage \in Lowered
    PROVE  /\ ir.v.res = res
           /\ \E n, m : LoweredShape(ir.v, Len(res), n, m)
<1>1. Valid(Stream) /\ LowerFound(ir)
  BY DEF Compiles, CompInv, Validated, Lowered
<1>2. GoodStream(Stream)
  BY <1>1, ValidStream DEF Compiles
<1>3. ir.v = LowerValues(Stream, Canonicalize(Stream)) /\ ~ir.v.fail
  BY <1>1 DEF LowerFound
<1>4. ~LowerValues(Stream, Canonicalize(Stream)).fail
  BY <1>3
<1>5. LET v == LowerValues(Stream, Canonicalize(Stream))
      IN  v.res = Stream.res /\ \E n, m : LoweredShape(v, Len(Stream.res), n, m)
  BY <1>2, <1>4, LoweredFacts
<1>6. Stream.res = res
  BY DEF Stream
<1> QED
  BY <1>3, <1>5, <1>6

LEMMA OrderIsOfNodes ==
    ASSUME NEW v
    PROVE  AddResourceOrder(v) \subseteq (DOMAIN v.nodes) \X (DOMAIN v.nodes)
<1> DEFINE list == OrderedAccesses(v)
<1>1. \A x \in list : x[1] \in DOMAIN v.nodes
  BY DEF OrderedAccesses
<1> SUFFICES ASSUME NEW e \in AddResourceOrder(v)
             PROVE  e \in (DOMAIN v.nodes) \X (DOMAIN v.nodes)
  OBVIOUS
<1>2. PICK x \in list, y \in list : e = <<x[1], y[1]>>
  <2> DEFINE Of(x) == v.nodes[x[1]].acc[x[2]]
             Same(y, isRead) == {x \in list :
                 Ahead(x, y) /\ Of(x).r = Of(y).r /\ (Of(x).mode = "read") = isRead}
             Writer(y) == {w \in Same(y, FALSE) : \A x \in Same(y, FALSE) : ~Ahead(w, x)}
             Readers(y) == {x \in Same(y, TRUE) : \A w \in Same(y, FALSE) : Ahead(w, x)}
             Precede(y) ==
                 IF Of(y).mode = "read" \/ Readers(y) = {} THEN Writer(y) ELSE Readers(y)
             Aliased(y) == {x \in list :
                 /\ Ahead(x, y) /\ Of(x).r # Of(y).r /\ Aliases(v.res, Of(x).r, Of(y).r)
                 /\ Of(x).mode # "read" \/ Of(y).mode # "read"}
             Others(y) == {x \in Precede(y) \cup Aliased(y) : x[1] # y[1]}
  <2>1. AddResourceOrder(v) = UNION {{<<x[1], y[1]>> : x \in Others(y)} : y \in list}
    BY ZenonT(60) DEF AddResourceOrder
  <2>2. ASSUME NEW y PROVE Others(y) \subseteq list
    <3>1. Same(y, TRUE) \subseteq list /\ Same(y, FALSE) \subseteq list /\ Aliased(y) \subseteq list
      BY SMTT(60)
    <3>2. Writer(y) \subseteq Same(y, FALSE) /\ Readers(y) \subseteq Same(y, TRUE)
      BY ZenonT(60)
    <3> HIDE DEF Same, Writer, Readers, Aliased, list
    <3> QED
      BY <3>1, <3>2, ZenonT(60)
  <2> HIDE DEF Others, list
  <2>3. PICK y \in list : e \in {<<x[1], y[1]>> : x \in Others(y)}
    BY <2>1
  <2>4. PICK x \in Others(y) : e = <<x[1], y[1]>>
    BY <2>3
  <2> QED
    BY <2>2, <2>4, SMTT(60)
<1> QED
  BY <1>1, <1>2

(* The dependency graph of a traversal relates nodes, and is acyclic.       *)
LEMMA ImmediateFacts ==
    ASSUME Compiles, stage \in Ordered, NEW n, NEW m, LoweredShape(ir.v, Len(res), n, m)
    PROVE  /\ ir.immediate \in SUBSET ((1 .. n) \X (1 .. n))
           /\ Acyclic(1 .. n, Reachable(1 .. n, ir.immediate))
<1>1. OrderFound(ir)
  BY DEF Compiles, CompInv
<1>2. DOMAIN ir.v.nodes = 1 .. n
  BY DEF LoweredShape
<1>3. ir.immediate = (BuildEdges(ir.v) \cup AddResourceOrder(ir.v)) \cup Gates(ir.v, ir.invariant)
  BY <1>1 DEF OrderFound, Edges
<1>4. BuildEdges(ir.v) \subseteq (1 .. n) \X (1 .. n)
  BY <1>2 DEF BuildEdges
<1>5. AddResourceOrder(ir.v) \subseteq (1 .. n) \X (1 .. n)
  BY <1>2, OrderIsOfNodes
<1>6. Gates(ir.v, ir.invariant) \subseteq (1 .. n) \X (1 .. n)
  BY <1>2 DEF Gates
<1>7. ir.immediate \in SUBSET ((1 .. n) \X (1 .. n))
  BY <1>3, <1>4, <1>5, <1>6, SMTT(60)
<1> QED
  BY <1>1, <1>2, <1>7 DEF OrderFound

(* The runtime order and its inverse.                                       *)
RuntimeOf == [k \in DOMAIN ir.v.nodes |-> CHOOSE i \in DOMAIN ir.data.order : ir.data.order[i] = k]

Renumbers(order, at, n) ==
    /\ order \in [1 .. n -> 1 .. n] /\ at \in [1 .. n -> 1 .. n]
    /\ \A k \in 1 .. n : order[at[k]] = k
    /\ \A i \in 1 .. n : at[order[i]] = i

(* The tables of a compiled program.                                        *)
HasTables(data, v, gen) ==
    LET order == Emission(v, gen.act, gen.immediate).order
        at == [k \in DOMAIN v.nodes |-> CHOOSE i \in DOMAIN order : order[i] = k]
    IN  /\ data.order = order
        /\ data.nodes = EmitNodes(v, gen, order, at)
        /\ data.regions = EmitRegions(v, gen, at)
        /\ data.res = v.res
        /\ data.phis = [p \in DOMAIN v.phis |->
               [node |-> at[v.phis[p].node], init |-> v.phis[p].init, fb |-> v.phis[p].fb,
                out |-> v.phis[p].out, loop |-> v.phis[p].cond # 0]]

(* EmitProgram() gives the compiled program those tables.                     *)
LEMMA ProgramTables ==
    ASSUME NEW v, NEW gen, NEW data, data = EmitProgram(v, gen)
    PROVE  HasTables(data, v, gen)
<1> DEFINE order == Emission(v, gen.act, gen.immediate).order
           at == [k \in DOMAIN v.nodes |-> CHOOSE i \in DOMAIN order : order[i] = k]
           nodes == EmitNodes(v, gen, order, at)
           regions == EmitRegions(v, gen, at)
           life == EmitLifetimes(v, gen, at)
           ps == [p \in DOMAIN v.phis |->
                    [node |-> at[v.phis[p].node], init |-> v.phis[p].init, fb |-> v.phis[p].fb,
                     out |-> v.phis[p].out, loop |-> v.phis[p].cond # 0]]
<1>1. data = [res |-> v.res, values |-> v.values, order |-> order, nodes |-> nodes, phis |-> ps,
              regions |-> regions, life |-> life, layout |-> gen.layout,
              controls |-> gen.controls, capacity |-> ActivationCapacity(v)]
  BY ZenonT(60) DEF EmitProgram
<1> HIDE DEF order, at, nodes, regions, life, ps
<1>2. /\ data.order = order /\ data.nodes = nodes /\ data.regions = regions
      /\ data.res = v.res /\ data.phis = ps
  BY <1>1
<1> QED
  BY <1>2, ZenonT(60) DEF HasTables, order, at, nodes, regions, ps

LEMMA EmittedFacts ==
    ASSUME Compiles, stage \in Emitted, NEW n, NEW m, LoweredShape(ir.v, Len(res), n, m)
    PROVE  /\ Renumbers(ir.data.order, RuntimeOf, n)
           /\ EmitInv(1 .. n, ir.immediate, RegionMap(ir.v, ir.act, n),
                      Emission(ir.v, ir.act, ir.immediate), n)
           /\ ir.data.order = Emission(ir.v, ir.act, ir.immediate).order
           /\ ir.data.regions = EmitRegions(ir.v, [act |-> ir.act], RuntimeOf)
           /\ ir.data.res = res
           /\ DOMAIN ir.data.nodes = 1 .. n
           /\ \A i \in 1 .. n :
                 /\ ir.data.nodes[i].source = ir.data.order[i]
                 /\ ir.data.nodes[i].kind = ir.v.nodes[ir.data.order[i]].kind
                 /\ ir.data.nodes[i].acc = ir.v.nodes[ir.data.order[i]].acc
                 /\ ir.data.nodes[i].preds =
                       {RuntimeOf[k] : k \in Before(ir.data.order[i], ir.immediate)}
                 /\ ir.data.nodes[i].init =
                       (/\ ir.act[ir.data.order[i]].initialization
                        /\ ir.v.nodes[ir.data.order[i]].kind \notin {"phi", "acquire"})
<1> DEFINE order == Emission(ir.v, ir.act, ir.immediate).order
           gen == [immediate |-> ir.immediate, temporal |-> ir.temporal, act |-> ir.act,
                   life |-> ir.life, layout |-> ir.layout, controls |-> EmitControls(ir.v)]
           at == [k \in DOMAIN ir.v.nodes |-> CHOOSE i \in DOMAIN order : order[i] = k]
<1>1. EmitFound(ir) /\ stage \in Ordered
  BY DEF Compiles, CompInv, Ordered, Analyzed, Allocated
<1>2. DOMAIN ir.v.nodes = 1 .. n /\ n \in Nat
  BY DEF LoweredShape
<1>3. /\ ir.immediate \in SUBSET ((1 .. n) \X (1 .. n))
      /\ Acyclic(1 .. n, Reachable(1 .. n, ir.immediate))
  BY <1>1, ImmediateFacts
<1>4. /\ EmitInv(1 .. n, ir.immediate, RegionMap(ir.v, ir.act, n),
                 Emission(ir.v, ir.act, ir.immediate), n)
      /\ \A k \in 1 .. n : \E i \in 1 .. n : Emission(ir.v, ir.act, ir.immediate).order[i] = k
  <2> DEFINE v == ir.v
             act == ir.act
             edges == ir.immediate
  <2>1. /\ DOMAIN v.nodes = 1 .. n /\ n \in Nat
        /\ edges \in SUBSET ((1 .. n) \X (1 .. n))
        /\ Acyclic(1 .. n, Reachable(1 .. n, edges))
    BY <1>2, <1>3
  <2> HIDE DEF v, act, edges
  <2>2. EmitInv(1 .. n, edges, RegionMap(v, act, n), Emission(v, act, edges), n)
    BY <2>1, EmissionFacts
  <2>3. \A k \in 1 .. n : \E i \in 1 .. n : Emission(v, act, edges).order[i] = k
    BY <2>1, EmissionFacts, SMTT(60)
  <2> QED
    BY <2>2, <2>3 DEF v, act, edges
<1>5. /\ ir.data.order = order
      /\ ir.data.nodes = EmitNodes(ir.v, gen, order, at)
      /\ ir.data.regions = EmitRegions(ir.v, gen, at)
      /\ ir.data.res = ir.v.res
  <2>1. ir.data = EmitProgram(ir.v, gen)
    BY <1>1 DEF EmitFound
  <2>2. gen.act = ir.act /\ gen.immediate = ir.immediate
    OBVIOUS
  <2>3. order = Emission(ir.v, gen.act, gen.immediate).order
    BY <2>2
  <2> HIDE DEF gen, order
  <2>4. HasTables(ir.data, ir.v, gen)
    BY <2>1, ProgramTables
  <2>5. /\ ir.data.order = Emission(ir.v, gen.act, gen.immediate).order
        /\ ir.data.res = ir.v.res
    BY <2>4 DEF HasTables
  <2>6. ir.data.nodes = EmitNodes(ir.v, gen, order, at)
    BY <2>3, <2>4 DEF HasTables
  <2>7. ir.data.regions = EmitRegions(ir.v, gen, at)
    BY <2>3, <2>4 DEF HasTables
  <2> HIDE DEF at
  <2> QED
    BY <2>3, <2>5, <2>6, <2>7
<1>6. gen.immediate = ir.immediate /\ gen.act = ir.act
  OBVIOUS
<1> HIDE DEF gen
<1>7. order \in [1 .. n -> 1 .. n] /\ \A i, j \in 1 .. n : order[i] = order[j] => i = j
  BY <1>4 DEF EmitInv, OrderInv
<1>8. at = RuntimeOf
  BY <1>5 DEF RuntimeOf
<1>9. \A k \in 1 .. n : \E i \in 1 .. n : order[i] = k
  BY <1>4
<1>10. \A k \in 1 .. n : at[k] = CHOOSE i \in DOMAIN order : order[i] = k
  BY <1>2
<1>11. DOMAIN at = 1 .. n
  BY <1>2
<1>12. EmitRegions(ir.v, gen, at) = EmitRegions(ir.v, [act |-> ir.act], at)
  BY <1>6 DEF EmitRegions
<1>13. /\ DOMAIN ir.data.nodes = 1 .. n
       /\ \A i \in 1 .. n :
            /\ ir.data.nodes[i].source = order[i]
            /\ ir.data.nodes[i].kind = ir.v.nodes[order[i]].kind
            /\ ir.data.nodes[i].acc = ir.v.nodes[order[i]].acc
            /\ ir.data.nodes[i].preds = {at[k] : k \in Before(order[i], gen.immediate)}
            /\ ir.data.nodes[i].init =
                 (/\ gen.act[order[i]].initialization
                  /\ ir.v.nodes[order[i]].kind \notin {"phi", "acquire"})
  <2>1. DOMAIN order = 1 .. n
    BY <1>7
  <2> DEFINE To(ns) == {at[k] : k \in ns}
             preds(i) == To(Before(order[i], gen.immediate))
             succs(i) == To({e[2] : e \in {x \in gen.immediate : x[1] = order[i]}})
             tpreds(i) == To(Before(order[i], gen.temporal))
             tsuccs(i) == To({e[2] : e \in {x \in gen.temporal : x[1] = order[i]}})
             init(i) == /\ gen.act[order[i]].initialization
                        /\ ir.v.nodes[order[i]].kind \notin {"phi", "acquire"}
             memo(i) == gen.act[order[i]].memoized /\ ~Observable(ir.v, order[i])
  <2>2. EmitNodes(ir.v, gen, order, at) =
          [i \in DOMAIN order |->
              [kind |-> ir.v.nodes[order[i]].kind, source |-> order[i], acc |-> ir.v.nodes[order[i]].acc,
               preds |-> preds(i), succs |-> succs(i), tpreds |-> tpreds(i), tsuccs |-> tsuccs(i),
               init |-> init(i), memo |-> memo(i)]]
    BY ZenonT(60) DEF EmitNodes
  <2>3. \A i : preds(i) = {at[k] : k \in Before(order[i], gen.immediate)}
    OBVIOUS
  <2>6. \A i : init(i) = (/\ gen.act[order[i]].initialization
                           /\ ir.v.nodes[order[i]].kind \notin {"phi", "acquire"})
    BY SMTT(60)
  <2> HIDE DEF order, at, To, preds, succs, tpreds, tsuccs, init, memo
  <2>4. DOMAIN ir.data.nodes = 1 .. n
    BY <1>5, <2>1, <2>2, SMTT(60)
  <2> SUFFICES ASSUME NEW i \in 1 .. n
               PROVE  /\ ir.data.nodes[i].source = order[i]
                      /\ ir.data.nodes[i].kind = ir.v.nodes[order[i]].kind
                      /\ ir.data.nodes[i].acc = ir.v.nodes[order[i]].acc
                      /\ ir.data.nodes[i].preds = {at[k] : k \in Before(order[i], gen.immediate)}
                      /\ ir.data.nodes[i].init =
                           (/\ gen.act[order[i]].initialization
                            /\ ir.v.nodes[order[i]].kind \notin {"phi", "acquire"})
    BY <2>4
  <2> DEFINE x == ir.v.nodes[order[i]]
  <2>5. ir.data.nodes[i] = [kind |-> x.kind, source |-> order[i], acc |-> x.acc,
               preds |-> preds(i), succs |-> succs(i), tpreds |-> tpreds(i), tsuccs |-> tsuccs(i),
               init |-> init(i), memo |-> memo(i)]
    BY <1>5, <2>1, <2>2
  <2>8. ir.data.nodes[i].source = order[i] /\ ir.data.nodes[i].kind = x.kind /\ ir.data.nodes[i].acc = x.acc
    BY <2>5
  <2>9. ir.data.nodes[i].preds = preds(i) /\ ir.data.nodes[i].init = init(i)
    BY <2>5
  <2> QED
    BY <2>3, <2>6, <2>8, <2>9
<1>14. at \in [1 .. n -> 1 .. n] /\ \A k \in 1 .. n : order[at[k]] = k
  <2> HIDE DEF order
  <2>1. \A k \in 1 .. n : at[k] \in 1 .. n /\ order[at[k]] = k
    <3> TAKE k \in 1 .. n
    <3>1. \E i \in DOMAIN order : order[i] = k
      BY <1>7, <1>9
    <3>2. at[k] = CHOOSE i \in DOMAIN order : order[i] = k
      BY <1>10
    <3> HIDE DEF at
    <3> QED
      BY <1>7, <3>1, <3>2
  <2>2. at = [k \in 1 .. n |-> at[k]]
    BY <1>2
  <2> HIDE DEF at
  <2> QED
    BY <2>1, <2>2
<1>15. \A i \in 1 .. n : at[order[i]] = i
  <2> HIDE DEF order, at
  <2> TAKE i \in 1 .. n
  <2>1. order[i] \in 1 .. n
    BY <1>7
  <2>2. order[at[order[i]]] = order[i] /\ at[order[i]] \in 1 .. n
    BY <1>14, <2>1
  <2> QED
    BY <1>7, <2>2
<1>16. Renumbers(order, at, n)
  <2> HIDE DEF order, at
  <2> QED
    BY <1>7, <1>14, <1>15 DEF Renumbers
<1>17. ir.v.res = res
  BY LoweredStream DEF Emitted, Lowered, Resolved, Ordered, Analyzed, Allocated
<1> HIDE DEF order, at
<1>18. Renumbers(ir.data.order, RuntimeOf, n)
  BY <1>5, <1>8, <1>16
<1>19. ir.data.regions = EmitRegions(ir.v, [act |-> ir.act], RuntimeOf)
  BY <1>5, <1>8, <1>12
<1>20. ir.data.order = Emission(ir.v, ir.act, ir.immediate).order
  BY <1>5 DEF order
<1>21. \A i \in 1 .. n :
         /\ ir.data.nodes[i].source = ir.data.order[i]
         /\ ir.data.nodes[i].kind = ir.v.nodes[ir.data.order[i]].kind
         /\ ir.data.nodes[i].acc = ir.v.nodes[ir.data.order[i]].acc
         /\ ir.data.nodes[i].preds = {RuntimeOf[k] : k \in Before(ir.data.order[i], ir.immediate)}
         /\ ir.data.nodes[i].init =
              (/\ ir.act[ir.data.order[i]].initialization
               /\ ir.v.nodes[ir.data.order[i]].kind \notin {"phi", "acquire"})
  <2> TAKE i \in 1 .. n
  <2>4. ir.data.order[i] = order[i]
    BY <1>5
  <2> DEFINE S == Before(order[i], ir.immediate)
  <2>1. /\ ir.data.nodes[i].source = order[i]
        /\ ir.data.nodes[i].kind = ir.v.nodes[order[i]].kind
        /\ ir.data.nodes[i].acc = ir.v.nodes[order[i]].acc
    BY <1>13
  <2>2. ir.data.nodes[i].preds = {at[k] : k \in Before(order[i], ir.immediate)}
    BY <1>6, <1>13
  <2>3. ir.data.nodes[i].init =
              (/\ ir.act[order[i]].initialization
               /\ ir.v.nodes[order[i]].kind \notin {"phi", "acquire"})
    BY <1>6, <1>13
  <2>5. {at[k] : k \in S} = {RuntimeOf[k] : k \in S}
    <3> HIDE DEF S
    <3> QED
      BY <1>8
  <2>6. ir.data.nodes[i].preds = {RuntimeOf[k] : k \in S}
    BY <2>2, <2>5
  <2>7. S = Before(ir.data.order[i], ir.immediate)
    BY <2>4
  <2> HIDE DEF S
  <2> QED
    BY <2>1, <2>3, <2>4, <2>6, <2>7, SMTT(60)
<1> QED
  BY <1>4, <1>5, <1>13, <1>17, <1>18, <1>19, <1>20, <1>21, ZenonT(60)

-----------------------------------------------------------------------------
(* The runtime order of a compiled program: every node after what it waits   *)
(* for, every feedback region in one piece.                                 *)
LEMMA RegionIs ==
    ASSUME NEW v, NEW act, ~RegionsOverlap(v, act), \A p \in DOMAIN v.phis : p \in Nat \ {0},
           NEW k \in DOMAIN RegionKeys(v), NEW x \in DOMAIN v.nodes
    PROVE  InRegion(v, act, RegionKeys(v)[k], x) <=> RegionOf(v, act, x) = k
<1> DEFINE keys == RegionKeys(v)
           in == {j \in DOMAIN keys : InRegion(v, act, keys[j], x)}
<1>1. DOMAIN keys \subseteq DOMAIN v.phis
  BY DEF RegionKeys
<1>2. in \subseteq Nat /\ 0 \notin in /\ k \in Nat \ {0}
  <2>1. k \in DOMAIN keys /\ in \subseteq DOMAIN keys
    OBVIOUS
  <2> HIDE DEF keys, in
  <2> QED
    BY <1>1, <2>1
<1>3. RegionOf(v, act, x) = IF in = {} THEN 0 ELSE Min(in)
  BY DEF RegionOf
<1>4. ASSUME InRegion(v, act, keys[k], x) PROVE in = {k}
  <2>1. \A j \in in : j = k
    BY <1>4 DEF RegionsOverlap
  <2> QED
    BY <1>4, <2>1
<1>5. in # {} => Min(in) \in in
  <2> HIDE DEF in
  <2> QED
    BY <1>2, MinFacts
<1>6. InRegion(v, act, keys[k], x) <=> k \in in
  OBVIOUS
<1> HIDE DEF in, keys
<1> QED
  BY <1>2, <1>3, <1>4, <1>5, <1>6 DEF keys

(* EmittedInOrder: what the runtime relies on to start a traversal at any     *)
(* point of it: no node waits for a later one, and the traversals of a        *)
(* feedback region can be submitted on their own.                           *)
THEOREM EmittedInOrderHolds == Spec => []EmittedInOrder
<1>1. Compiles => EmittedInOrder
  <2> SUFFICES ASSUME Compiles, stage = "compiled" PROVE EmittedInOrder
    BY DEF EmittedInOrder, Compiled
  <2>1. stage \in Emitted /\ stage \in Lowered
    BY DEF Emitted, Planned, Lowered, Resolved, Ordered, Analyzed, Allocated
  <2>2. PICK n, m : LoweredShape(ir.v, Len(res), n, m)
    BY <2>1, LoweredStream, SMTT(60)
  <2> DEFINE order == ir.data.order
             region == RegionMap(ir.v, ir.act, n)
             st == Emission(ir.v, ir.act, ir.immediate)
  <2>3. /\ Renumbers(order, RuntimeOf, n)
        /\ EmitInv(1 .. n, ir.immediate, region, st, n)
        /\ order = st.order
        /\ ir.data.regions = EmitRegions(ir.v, [act |-> ir.act], RuntimeOf)
        /\ DOMAIN ir.data.nodes = 1 .. n
        /\ \A i \in 1 .. n :
             ir.data.nodes[i].preds = {RuntimeOf[k] : k \in Before(order[i], ir.immediate)}
    BY <2>1, <2>2, EmittedFacts
  <2>4. ~RegionsOverlap(ir.v, ir.act) /\ ~st.split
    BY <2>1 DEF Compiles, CompInv, EmitFound, RegionsConsistent
  <2>5. /\ n \in Nat /\ DOMAIN ir.v.nodes = 1 .. n /\ \A p \in DOMAIN ir.v.phis : p \in Nat \ {0}
    BY <2>2 DEF LoweredShape
  <2> HIDE DEF order, st, region
  <2>6. ASSUME NEW i \in 1 .. n, NEW p \in ir.data.nodes[i].preds PROVE p < i
    <3>1. PICK k \in Before(order[i], ir.immediate) : p = RuntimeOf[k]
      BY <2>3, <2>6
    <3>2. PICK j \in 1 .. i - 1 : order[j] = k
      <4>1. OrderInv(1 .. n, ir.immediate, st, n)
        BY <2>3 DEF EmitInv
      <4>2. k \in Before(st.order[i], ir.immediate)
        BY <2>3, <3>1
      <4>3. \E j \in 1 .. i - 1 : st.order[j] = k
        BY <4>1, <4>2 DEF OrderInv
      <4> QED
        BY <2>3, <4>3
    <3>3. j \in 1 .. n /\ p = j
      <4>1. j \in 1 .. n
        BY <2>5
      <4> QED
        BY <2>3, <3>1, <3>2, <4>1 DEF Renumbers
    <3> QED
      BY <3>2, <3>3
  <2>7. ASSUME NEW k \in DOMAIN RegionKeys(ir.v), NEW x \in 1 .. n
        PROVE  InRegion(ir.v, ir.act, RegionKeys(ir.v)[k], x) <=> region[x] = k
    BY <2>4, <2>5, RegionIs DEF region, RegionMap
  <2>8. ASSUME NEW g \in ToSet(ir.data.regions), NEW i \in g.nodes, NEW j \in g.nodes, NEW l \in i .. j
        PROVE  l \in g.nodes
    <3> DEFINE keys == RegionKeys(ir.v)
               Members(k) == {x \in DOMAIN ir.v.nodes : InRegion(ir.v, ir.act, keys[k], x)}
    <3>1. PICK k \in DOMAIN keys : g.nodes = {RuntimeOf[x] : x \in Members(k)}
      <4>1. PICK k \in DOMAIN ir.data.regions : g = ir.data.regions[k]
        BY DEF ToSet
      <4>2. DOMAIN ir.data.regions = DOMAIN keys
        BY <2>3, SMTT(60) DEF EmitRegions
      <4>3. k \in DOMAIN keys /\ ir.data.regions[k].nodes = {RuntimeOf[x] : x \in Members(k)}
        BY <2>3, <4>1, <4>2 DEF EmitRegions
      <4> QED
        BY <4>1, <4>3
    <3>2. PICK x \in Members(k) : i = RuntimeOf[x]
      BY <3>1
    <3>3. PICK y \in Members(k) : j = RuntimeOf[y]
      BY <3>1
    <3>4. /\ x \in 1 .. n /\ region[x] = k
          /\ y \in 1 .. n /\ region[y] = k
      BY <2>5, <2>7
    <3>5. /\ i \in 1 .. n /\ j \in 1 .. n /\ order[i] = x /\ order[j] = y
      BY <2>3, <3>2, <3>3, <3>4 DEF Renumbers
    <3>6. l \in 1 .. n /\ i <= l /\ l <= j
      BY <2>5, <3>5
    <3>7. k # 0
      <4>1. DOMAIN keys \subseteq DOMAIN ir.v.phis
        BY DEF RegionKeys
      <4> QED
        BY <2>5, <4>1, SMTT(60)
    <3>8. region[order[l]] = k
      <4>1. PiecesInv(1 .. n, region, st, n)
        BY <2>3, <2>4 DEF EmitInv
      <4> QED
        BY <2>3, <3>4, <3>5, <3>6, <3>7, <4>1 DEF PiecesInv
    <3>9. order[l] \in 1 .. n /\ RuntimeOf[order[l]] = l
      BY <2>3, <3>6 DEF Renumbers
    <3>10. order[l] \in Members(k)
      BY <2>5, <2>7, <3>8, <3>9
    <3> HIDE DEF Members
    <3> QED
      BY <3>1, <3>9, <3>10
  <2> QED
    BY <2>3, <2>6, <2>8 DEF EmittedInOrder
<1> QED
  BY <1>1, CompilerInvariant, PTL

-----------------------------------------------------------------------------
(* The edges into the next traversal relate nodes too.                      *)
LEMMA TemporalFacts ==
    ASSUME NEW v, NEW R, NEW n, NEW m, LoweredShape(v, R, n, m), ResolvePhis(v)
    PROVE  Temporal(v) \in SUBSET ((1 .. n) \X (1 .. n))
<1> DEFINE Pairs(p) == {<<v.values[value].producer, p.node>> : value \in {p.fb, p.cond} \ {0}}
<1> SUFFICES ASSUME NEW e \in Temporal(v) PROVE e \in (1 .. n) \X (1 .. n)
  OBVIOUS
<1>1. Temporal(v) = UNION {Pairs(p) : p \in {q \in ToSet(v.phis) : v.values[q.fb].producer # 0}}
  BY DEF Temporal
<1>2. PICK p \in {q \in ToSet(v.phis) : v.values[q.fb].producer # 0} : e \in Pairs(p)
  <2> HIDE DEF Pairs
  <2> QED
    BY <1>1
<1>3. PICK value \in {p.fb, p.cond} \ {0} : e = <<v.values[value].producer, p.node>>
  BY <1>2, SMTT(60)
<1>4. /\ p.node \in 1 .. n /\ p.fb \in 1 .. m /\ p.cond \in 0 .. m
      /\ v.values[p.fb].producer # 0 /\ m \in Nat /\ n \in Nat
      /\ p.cond # 0 => v.values[p.cond].producer # 0
  <2>1. PICK i \in DOMAIN v.phis : p = v.phis[i]
    BY <1>2 DEF ToSet
  <2>2. p.cond # 0 => ConditionProduced(v, p)
    BY <1>2 DEF ResolvePhis
  <2> QED
    BY <1>2, <2>1, <2>2 DEF LoweredShape, ConditionProduced
<1>5. value \in 1 .. m /\ v.values[value].producer # 0
  <2>1. value = p.fb \/ (value = p.cond /\ value # 0)
    BY <1>3
  <2> QED
    BY <1>4, <2>1
<1>6. v.values[value].producer \in 0 .. n
  BY <1>5 DEF LoweredShape
<1> QED
  BY <1>3, <1>4, <1>5, <1>6

(* What depends on a node that does not run in initialization does not       *)
(* either.                                                                  *)
LEMMA InitializationSpreads ==
    ASSUME NEW v, NEW invariant, NEW all, NEW k \in DOMAIN v.nodes, NEW o \in DOMAIN v.nodes,
           o \in all[k],
           \A m \in DOMAIN v.nodes : k \in all[m] => o \in all[m],
           Activation(v, invariant, all)[o].initialization
    PROVE  /\ Activation(v, invariant, all)[k].initialization
           /\ v.nodes[k].kind # "acquire"
<1> DEFINE Nodes == DOMAIN v.nodes
           Component(n) == Min({n} \cup {m \in all[n] : n \in all[m]})
           Above(n) == Upstream(Nodes, all, n)
           Entering(n) == \/ ReadsExternal(v, n) /\ n \notin invariant
                          \/ v.nodes[n].kind = "acquire"
           Looping(n) == {x \in Above(n) : x \in all[x]}
           Sources(n) == {Component(m) : m \in Looping(n)}
           Triggered(n) == \E m \in Above(n) : Entering(m)
<1>1. \A n \in Nodes : Activation(v, invariant, all)[n].initialization = (Sources(n) = {} /\ ~Triggered(n))
  <2> TAKE n \in Nodes
  <2> DEFINE memoized == \E m \in Above(n) : v.nodes[m].kind = "cutoff"
             triggered == Triggered(n)
             init == Sources(n) = {} /\ ~Triggered(n)
             component == Component(n)
             sources == Sources(n)
  <2>1. Activation(v, invariant, all)[n] =
          [component |-> component, sources |-> sources, triggered |-> triggered,
           memoized |-> memoized, initialization |-> init]
    BY DEF Activation
  <2>2. init = (Sources(n) = {} /\ ~Triggered(n))
    OBVIOUS
  <2> HIDE DEF init, component, sources, triggered, memoized
  <2> QED
    BY <2>1, <2>2
<1>2. Above(k) \subseteq Above(o) /\ k \in Above(k)
  BY DEF Upstream
<1>3. Looping(k) \subseteq Looping(o)
  <2> HIDE DEF Above
  <2> QED
    BY <1>2
<1> HIDE DEF Nodes, Above, Entering, Looping, Component
<1>4. Sources(o) = {} /\ ~Triggered(o)
  BY <1>1 DEF Nodes
<1>5. Looping(o) = {}
  BY <1>4
<1>6. Sources(k) = {}
  BY <1>3, <1>5
<1>7. ~Triggered(k) /\ ~Entering(k)
  BY <1>2, <1>4, SMTT(60)
<1> QED
  BY <1>1, <1>6, <1>7 DEF Nodes, Entering

(* InitializationClosed: the once-only part of a program can run by itself.  *)
THEOREM InitializationClosedHolds == Spec => []InitializationClosed
<1>1. Compiles => InitializationClosed
  <2> SUFFICES ASSUME Compiles, stage = "compiled",
                      NEW i \in DOMAIN ir.data.nodes, ir.data.nodes[i].init,
                      NEW p \in ir.data.nodes[i].preds
               PROVE  ir.data.nodes[p].init \/ ir.data.nodes[p].kind = "phi"
    BY DEF InitializationClosed, Compiled
  <2>1. /\ stage \in Emitted /\ stage \in Lowered /\ stage \in Ordered /\ stage \in Analyzed
        /\ stage \in Resolved
    BY DEF Emitted, Planned, Lowered, Resolved, Ordered, Analyzed, Allocated
  <2>2. PICK n, m : LoweredShape(ir.v, Len(res), n, m)
    BY <2>1, LoweredStream, SMTT(60)
  <2> DEFINE order == ir.data.order
             all == Reachable(1 .. n, ir.immediate \cup ir.temporal)
             act == Activation(ir.v, ir.invariant, all)
  <2>3. /\ Renumbers(order, RuntimeOf, n)
        /\ DOMAIN ir.data.nodes = 1 .. n
        /\ \A j \in 1 .. n :
             /\ ir.data.nodes[j].kind = ir.v.nodes[order[j]].kind
             /\ ir.data.nodes[j].preds = {RuntimeOf[k] : k \in Before(order[j], ir.immediate)}
             /\ ir.data.nodes[j].init = (/\ ir.act[order[j]].initialization
                                         /\ ir.v.nodes[order[j]].kind \notin {"phi", "acquire"})
    BY <2>1, <2>2, EmittedFacts, ZenonT(60)
  <2>4. n \in Nat /\ DOMAIN ir.v.nodes = 1 .. n
    BY <2>2 DEF LoweredShape
  <2>5. ir.act = act
    BY <2>1, <2>4 DEF Compiles, CompInv, AnalyzeFound
  <2>6. ir.immediate \in SUBSET ((1 .. n) \X (1 .. n))
    BY <2>1, <2>2, ImmediateFacts
  <2>7. ir.temporal \in SUBSET ((1 .. n) \X (1 .. n))
    <3>1. ir.temporal = Temporal(ir.v) /\ ResolvePhis(ir.v)
      BY <2>1 DEF Compiles, CompInv, OrderFound, ResolveFound
    <3> QED
      BY <2>2, <3>1, TemporalFacts
  <2> DEFINE edges == ir.immediate \cup ir.temporal
  <2>8. edges \in SUBSET ((1 .. n) \X (1 .. n))
    BY <2>6, <2>7
  <2>9. /\ \A a, b \in 1 .. n : <<a, b>> \in edges => b \in Reachable(1 .. n, edges)[a]
        /\ \A a, b, c \in 1 .. n : /\ b \in Reachable(1 .. n, edges)[a]
                                   /\ c \in Reachable(1 .. n, edges)[b]
                                   => c \in Reachable(1 .. n, edges)[a]
    <3> HIDE DEF edges
    <3> QED
      BY <2>4, <2>8, ReachableFacts
  <2>10. i \in 1 .. n
    BY <2>3
  <2> DEFINE o == order[i]
  <2>11. PICK k \in Before(o, ir.immediate) : p = RuntimeOf[k]
    <3>1. ir.data.nodes[i].preds = {RuntimeOf[k] : k \in Before(o, ir.immediate)}
      BY <2>3, <2>10
    <3> DEFINE earlier == Before(o, ir.immediate)
    <3>2. p \in {RuntimeOf[k] : k \in earlier}
      BY <3>1
    <3> HIDE DEF earlier, o
    <3>3. PICK k \in earlier : p = RuntimeOf[k]
      BY <3>2
    <3> QED
      BY <3>3 DEF earlier
  <2>12. k \in 1 .. n /\ o \in 1 .. n /\ <<k, o>> \in edges
    <3>1. PICK e \in ir.immediate : e[2] = o /\ e[1] = k
      BY <2>11 DEF Before
    <3>2. e = <<k, o>> /\ k \in 1 .. n /\ o \in 1 .. n
      BY <2>6, <3>1
    <3> QED
      BY <3>1, <3>2
  <2>13. o \in all[k] /\ \A x \in 1 .. n : k \in all[x] => o \in all[x]
    BY <2>9, <2>12, ZenonT(60)
  <2>14. act[o].initialization
    BY <2>3, <2>5, <2>10
  <2>15. act[k].initialization /\ ir.v.nodes[k].kind # "acquire"
    <3> HIDE DEF all, o
    <3> QED
      BY <2>4, <2>12, <2>13, <2>14, InitializationSpreads
  <2>16. p \in 1 .. n /\ order[p] = k
    BY <2>3, <2>11, <2>12 DEF Renumbers
  <2> QED
    BY <2>3, <2>5, <2>15, <2>16, ZenonT(60)
<1> QED
  BY <1>1, CompilerInvariant, PTL

-----------------------------------------------------------------------------
(* The job plan.  A path begins and ends with an edge.                     *)
LEMMA PathBegins ==
    ASSUME NEW n \in Nat, NEW edges \in SUBSET ((1 .. n) \X (1 .. n)),
           NEW a \in 1 .. n, NEW b \in Reachable(1 .. n, edges)[a]
    PROVE  \E c \in 1 .. n : <<a, c>> \in edges /\ (c = b \/ b \in Reachable(1 .. n, edges)[c])
<1> DEFINE N == 1 .. n
           reach == Reachable(N, edges)
           Begun(x, y) == \E c \in N : <<x, c>> \in edges /\ (c = y \/ y \in reach[c])
           R == {e \in N \X N : e[2] \in reach[e[1]] /\ Begun(e[1], e[2])}
<1>1. /\ \A x, y \in N : <<x, y>> \in edges => y \in reach[x]
      /\ \A x, y, z \in N : y \in reach[x] /\ z \in reach[y] => z \in reach[x]
  BY ReachableFacts
<1> HIDE DEF reach
<1>2. edges \subseteq R
  <2> SUFFICES ASSUME NEW e \in edges PROVE e \in R
    OBVIOUS
  <2>1. e = <<e[1], e[2]>> /\ e[1] \in N /\ e[2] \in N
    OBVIOUS
  <2>2. Begun(e[1], e[2])
    BY <2>1
  <2> QED
    BY <1>1, <2>1, <2>2
<1>3. Transitive(R)
  <2> SUFFICES ASSUME NEW x, NEW y, NEW z, <<x, y>> \in R, <<y, z>> \in R
               PROVE  <<x, z>> \in R
    BY DEF Transitive
  <2>1. x \in N /\ y \in N /\ z \in N /\ y \in reach[x] /\ z \in reach[y] /\ Begun(x, y)
    OBVIOUS
  <2>2. PICK c \in N : <<x, c>> \in edges /\ (c = y \/ y \in reach[c])
    BY <2>1
  <2>3. z \in reach[x] /\ z \in reach[c]
    BY <1>1, <2>1, <2>2
  <2> QED
    BY <2>1, <2>2, <2>3
<1>4. <<a, b>> \in R
  <2> HIDE DEF R
  <2> QED
    BY <1>2, <1>3, ReachableFacts
<1> QED
  BY <1>4 DEF reach

LEMMA PathEnds ==
    ASSUME NEW n \in Nat, NEW edges \in SUBSET ((1 .. n) \X (1 .. n)),
           NEW a \in 1 .. n, NEW b \in Reachable(1 .. n, edges)[a]
    PROVE  \E c \in 1 .. n : <<c, b>> \in edges /\ (c = a \/ c \in Reachable(1 .. n, edges)[a])
<1> DEFINE N == 1 .. n
           reach == Reachable(N, edges)
           Ended(x, y) == \E c \in N : <<c, y>> \in edges /\ (c = x \/ c \in reach[x])
           R == {e \in N \X N : e[2] \in reach[e[1]] /\ Ended(e[1], e[2])}
<1>1. /\ \A x, y \in N : <<x, y>> \in edges => y \in reach[x]
      /\ \A x, y, z \in N : y \in reach[x] /\ z \in reach[y] => z \in reach[x]
  BY ReachableFacts
<1> HIDE DEF reach
<1>2. edges \subseteq R
  <2> SUFFICES ASSUME NEW e \in edges PROVE e \in R
    OBVIOUS
  <2>1. e = <<e[1], e[2]>> /\ e[1] \in N /\ e[2] \in N
    OBVIOUS
  <2>2. Ended(e[1], e[2])
    BY <2>1
  <2> QED
    BY <1>1, <2>1, <2>2
<1>3. Transitive(R)
  <2> SUFFICES ASSUME NEW x, NEW y, NEW z, <<x, y>> \in R, <<y, z>> \in R
               PROVE  <<x, z>> \in R
    BY DEF Transitive
  <2>1. x \in N /\ y \in N /\ z \in N /\ y \in reach[x] /\ z \in reach[y] /\ Ended(y, z)
    OBVIOUS
  <2>2. PICK c \in N : <<c, z>> \in edges /\ (c = y \/ c \in reach[y])
    BY <2>1
  <2>3. z \in reach[x] /\ c \in reach[x]
    BY <1>1, <2>1, <2>2
  <2> QED
    BY <2>1, <2>2, <2>3
<1>4. <<a, b>> \in R
  <2> HIDE DEF R
  <2> QED
    BY <1>2, <1>3, ReachableFacts
<1> QED
  BY <1>4 DEF reach

(* A rank that grows along the edges of a graph.                           *)
Ranked(n, edges, rank) ==
    /\ rank \in [1 .. n -> Nat]
    /\ \A a, b \in 1 .. n : <<a, b>> \in edges => rank[a] < rank[b]

LEMMA PathClimbs ==
    ASSUME NEW n \in Nat, NEW edges \in SUBSET ((1 .. n) \X (1 .. n)), NEW rank,
           Ranked(n, edges, rank), NEW a \in 1 .. n, NEW b \in Reachable(1 .. n, edges)[a]
    PROVE  rank[a] < rank[b]
<1> DEFINE N == 1 .. n
           R == {e \in N \X N : rank[e[1]] < rank[e[2]]}
<1>1. rank \in [N -> Nat]
  BY DEF Ranked
<1>2. edges \subseteq R
  <2> SUFFICES ASSUME NEW e \in edges PROVE e \in R
    OBVIOUS
  <2>1. e = <<e[1], e[2]>> /\ e[1] \in N /\ e[2] \in N
    OBVIOUS
  <2>2. rank[e[1]] < rank[e[2]]
    BY <2>1 DEF Ranked
  <2> QED
    BY <2>1, <2>2
<1>3. Transitive(R)
  <2> SUFFICES ASSUME NEW x, NEW y, NEW z, <<x, y>> \in R, <<y, z>> \in R
               PROVE  <<x, z>> \in R
    BY DEF Transitive
  <2>1. x \in N /\ y \in N /\ z \in N /\ rank[x] < rank[y] /\ rank[y] < rank[z]
    OBVIOUS
  <2>2. rank[x] \in Nat /\ rank[y] \in Nat /\ rank[z] \in Nat
    BY <1>1, <2>1
  <2>3. rank[x] < rank[z]
    BY <2>1, <2>2, SMTT(60)
  <2> QED
    BY <2>1, <2>3
<1>4. <<a, b>> \in R
  <2> HIDE DEF R
  <2> QED
    BY <1>2, <1>3, ReachableFacts
<1> QED
  BY <1>4

(* transitive_reduction() keeps a first edge of every path, and a last.     *)
LEMMA ReductionBegins ==
    ASSUME NEW n \in Nat, NEW edges \in SUBSET ((1 .. n) \X (1 .. n)), NEW rank,
           Ranked(n, edges, rank), NEW a \in 1 .. n, NEW b \in Reachable(1 .. n, edges)[a]
    PROVE  \E c \in 1 .. n : /\ <<a, c>> \in TransitiveReduction(1 .. n, edges)
                             /\ c = b \/ b \in Reachable(1 .. n, edges)[c]
<1> DEFINE N == 1 .. n
           reach == Reachable(N, edges)
           S == {c \in N : <<a, c>> \in edges /\ (c = b \/ b \in reach[c])}
           T == {rank[c] : c \in S}
<1>1. /\ reach \in [N -> SUBSET N]
      /\ \A x, y, z \in N : y \in reach[x] /\ z \in reach[y] => z \in reach[x]
  BY ReachableFacts
<1>2. b \in N
  BY <1>1
<1>3. S # {}
  BY PathBegins
<1>4. \A x \in N : rank[x] \in Nat
  BY DEF Ranked
<1>5. PICK c \in S : \A x \in S : rank[c] <= rank[x]
  <2>1. T \in SUBSET Nat /\ T # {}
    <3> HIDE DEF reach
    <3> QED
      BY <1>3, <1>4
  <2>2. PICK t \in T : \A x \in T : t <= x
    <3> HIDE DEF T
    <3> QED
      BY <2>1, Paths!LeastNumber
  <2> HIDE DEF S
  <2> QED
    BY <2>2
<1>6. c \in N /\ <<a, c>> \in edges /\ (c = b \/ b \in reach[c])
  BY <1>5
<1>7. ASSUME NEW f \in edges, f[1] = a, f[2] # c, c \in reach[f[2]] PROVE FALSE
  <2>1. f = <<a, f[2]>> /\ f[2] \in N
    BY <1>7
  <2>2. b \in reach[f[2]]
    BY <1>1, <1>2, <1>6, <1>7, <2>1
  <2>3. f[2] \in S
    BY <1>7, <2>1, <2>2
  <2>4. rank[f[2]] < rank[c]
    BY <1>7, <2>1, PathClimbs
  <2>5. rank[c] <= rank[f[2]]
    BY <1>5, <2>3
  <2> QED
    BY <1>4, <1>6, <2>1, <2>4, <2>5
<1>8. <<a, c>> \in TransitiveReduction(N, edges)
  BY <1>6, <1>7 DEF TransitiveReduction
<1> QED
  BY <1>6, <1>8

LEMMA ReductionEnds ==
    ASSUME NEW n \in Nat, NEW edges \in SUBSET ((1 .. n) \X (1 .. n)), NEW rank,
           Ranked(n, edges, rank), NEW a \in 1 .. n, NEW b \in Reachable(1 .. n, edges)[a]
    PROVE  \E c \in 1 .. n : /\ <<c, b>> \in TransitiveReduction(1 .. n, edges)
                             /\ c = a \/ c \in Reachable(1 .. n, edges)[a]
<1> DEFINE N == 1 .. n
           reach == Reachable(N, edges)
           S == {c \in N : <<c, b>> \in edges /\ (c = a \/ c \in reach[a])}
           T == {rank[b] - rank[c] : c \in S}
<1>1. /\ reach \in [N -> SUBSET N]
      /\ \A x, y \in N : <<x, y>> \in edges => y \in reach[x]
      /\ \A x, y, z \in N : y \in reach[x] /\ z \in reach[y] => z \in reach[x]
  BY ReachableFacts
<1>2. b \in N
  BY <1>1
<1>3. S # {}
  BY PathEnds
<1>4. /\ \A x \in N : rank[x] \in Nat
      /\ \A x \in S : rank[x] < rank[b]
  BY <1>2 DEF Ranked
<1>5. PICK c \in S : \A x \in S : rank[b] - rank[c] <= rank[b] - rank[x]
  <2>1. T \in SUBSET Nat /\ T # {}
    <3>1. \A x \in S : rank[b] - rank[x] \in Nat
      <4> TAKE x \in S
      <4>1. rank[x] \in Nat /\ rank[b] \in Nat /\ rank[x] < rank[b]
        BY <1>2, <1>4
      <4> QED
        BY <4>1
    <3> HIDE DEF S
    <3> QED
      BY <1>3, <3>1
  <2>2. PICK t \in T : \A x \in T : t <= x
    <3> HIDE DEF T
    <3> QED
      BY <2>1, Paths!LeastNumber
  <2> HIDE DEF S
  <2> QED
    BY <2>2
<1>6. c \in N /\ <<c, b>> \in edges /\ (c = a \/ c \in reach[a])
  BY <1>5
<1>7. ASSUME NEW f \in edges, f[1] = c, f[2] # b, b \in reach[f[2]] PROVE FALSE
  <2>1. f = <<c, f[2]>> /\ f[2] \in N
    BY <1>7
  <2> DEFINE d == f[2]
  <2> HIDE DEF d, reach
  <2>2. d \in N /\ <<c, d>> \in edges /\ b \in reach[d]
    BY <1>7, <2>1 DEF d
  <2>3. PICK e \in N : <<e, b>> \in edges /\ (e = d \/ e \in reach[d])
    BY <2>2, PathEnds DEF reach
  <2>4. e \in S
    BY <1>1, <1>6, <2>2, <2>3
  <2>5. rank[c] < rank[d]
    BY <1>6, <2>2 DEF Ranked
  <2>6. e = d \/ rank[d] < rank[e]
    BY <2>2, <2>3, PathClimbs DEF reach
  <2>9. rank[c] < rank[e]
    <3>1. rank[c] \in Nat /\ rank[d] \in Nat /\ rank[e] \in Nat
      BY <1>4, <1>6, <2>2, <2>3
    <3> QED
      BY <2>5, <2>6, <3>1, SMTT(60)
  <2>7. rank[b] - rank[c] <= rank[b] - rank[e]
    BY <1>5, <2>4
  <2>8. rank[b] \in Nat /\ rank[c] \in Nat /\ rank[d] \in Nat /\ rank[e] \in Nat
    BY <1>2, <1>4, <1>6, <2>2, <2>3
  <2> QED
    BY <2>7, <2>8, <2>9, SMTT(60)
<1>8. <<c, b>> \in TransitiveReduction(N, edges)
  BY <1>6, <1>7 DEF TransitiveReduction
<1> QED
  BY <1>6, <1>8

(* It changes no reachability.                                             *)
LEMMA ReductionReaches ==
    ASSUME NEW n \in Nat, NEW edges \in SUBSET ((1 .. n) \X (1 .. n)), NEW rank,
           Ranked(n, edges, rank), NEW a \in 1 .. n, NEW b \in 1 .. n
    PROVE  b \in Reachable(1 .. n, TransitiveReduction(1 .. n, edges))[a]
              <=> b \in Reachable(1 .. n, edges)[a]
<1> DEFINE N == 1 .. n
           reduced == TransitiveReduction(N, edges)
           reach == Reachable(N, edges)
           kept == Reachable(N, reduced)
<1>1. reduced \subseteq edges /\ reduced \in SUBSET (N \X N)
  BY DEF TransitiveReduction
<1>2. /\ reach \in [N -> SUBSET N]
      /\ \A x, y \in N : <<x, y>> \in edges => y \in reach[x]
      /\ \A x, y, z \in N : y \in reach[x] /\ z \in reach[y] => z \in reach[x]
  BY ReachableFacts
<1>3. /\ \A x, y \in N : <<x, y>> \in reduced => y \in kept[x]
      /\ \A x, y, z \in N : y \in kept[x] /\ z \in kept[y] => z \in kept[x]
  <2> HIDE DEF reduced
  <2> QED
    BY <1>1, ReachableFacts
<1>4. ASSUME b \in kept[a] PROVE b \in reach[a]
  <2> DEFINE R == {e \in N \X N : e[2] \in reach[e[1]]}
  <2>1. reduced \subseteq R
    <3> HIDE DEF reach
    <3> QED
      BY <1>1, <1>2
  <2>2. Transitive(R)
    <3> HIDE DEF reach
    <3> QED
      BY <1>2 DEF Transitive
  <2>3. <<a, b>> \in R
    <3> HIDE DEF reduced, R
    <3> QED
      BY <1>1, <1>4, <2>1, <2>2, ReachableFacts
  <2> QED
    BY <2>3
<1>5. ASSUME b \in reach[a] PROVE b \in kept[a]
  <2> DEFINE S == {x \in N : b \in reach[x] /\ b \notin kept[x]}
             T == {rank[b] - rank[x] : x \in S}
  <2>1. S = {}
    <3> SUFFICES ASSUME S # {} PROVE FALSE
      OBVIOUS
    <3>1. \A x \in S : rank[x] \in Nat /\ rank[b] \in Nat /\ rank[x] < rank[b]
      <4> TAKE x \in S
      <4>1. x \in N /\ b \in reach[x]
        OBVIOUS
      <4>2. rank[x] < rank[b]
        BY <4>1, PathClimbs
      <4> QED
        BY <4>1, <4>2 DEF Ranked
    <3>2. PICK x \in S : \A y \in S : rank[b] - rank[x] <= rank[b] - rank[y]
      <4>1. T \in SUBSET Nat /\ T # {}
        <5> HIDE DEF S
        <5> QED
          BY <3>1
      <4>2. PICK t \in T : \A y \in T : t <= y
        <5> HIDE DEF T
        <5> QED
          BY <4>1, Paths!LeastNumber
      <4> HIDE DEF S
      <4> QED
        BY <4>2
    <3> HIDE DEF reduced, reach, kept
    <3>3. x \in N /\ b \in reach[x] /\ b \notin kept[x]
      BY <3>2
    <3>4. PICK c \in N : <<x, c>> \in reduced /\ (c = b \/ b \in reach[c])
      BY <3>3, ReductionBegins DEF reduced, reach
    <3>5. c \in kept[x] /\ c # b /\ b \notin kept[c]
      BY <1>3, <3>3, <3>4
    <3>6. c \in S
      BY <3>4, <3>5
    <3>7. rank[x] < rank[c]
      BY <1>1, <3>3, <3>4 DEF Ranked
    <3>8. rank[b] - rank[x] <= rank[b] - rank[c]
      BY <3>2, <3>6
    <3>9. rank[x] \in Nat /\ rank[c] \in Nat /\ rank[b] \in Nat
      BY <3>1, <3>2, <3>6
    <3> QED
      BY <3>7, <3>8, <3>9
  <2>2. a \notin S
    BY <2>1
  <2> QED
    BY <1>5, <2>2
<1> QED
  BY <1>4, <1>5

(* A job is a chain: each of its nodes but the last has one successor left  *)
(* by the reduction, the next node, which has no other predecessor.        *)
JobChain(n, reduced, job) ==
    /\ job \in Seq(1 .. n) /\ Len(job) >= 1
    /\ \A i, j \in 1 .. Len(job) : i < j => job[i] < job[j]
    /\ \A i \in 1 .. Len(job) - 1 :
          /\ <<job[i], job[i + 1]>> \in reduced
          /\ \A x \in 1 .. n : <<job[i], x>> \in reduced => x = job[i + 1]
          /\ \A x \in 1 .. n : <<x, job[i + 1]>> \in reduced => x = job[i]

GrowInv(n, reduced, before, st) ==
    /\ DOMAIN st = {"job", "assigned", "closed"}
    /\ JobChain(n, reduced, st.job)
    /\ st.assigned = before \cup ToSet(st.job)
    /\ ToSet(st.job) \cap before = {}

LEMMA IntervalSize == \A n \in Nat : IsFiniteSet(1 .. n) /\ Cardinality(1 .. n) = n
<1> TAKE n \in Nat
<1> QED
  BY FS_Interval

LEMMA ChainGrows ==
    ASSUME NEW n \in Nat, NEW reduced \in SUBSET ((1 .. n) \X (1 .. n)), NEW job,
           JobChain(n, reduced, job), NEW next \in 1 .. n, next > Last(job),
           {e[2] : e \in {x \in reduced : x[1] = Last(job)}} = {next},
           Before(next, reduced) = {Last(job)}
    PROVE  /\ JobChain(n, reduced, Append(job, next))
           /\ ToSet(Append(job, next)) = ToSet(job) \cup {next}
<1> DEFINE N == 1 .. n
           k == Len(job)
           new == Append(job, next)
<1>1. k \in Nat /\ k >= 1 /\ job \in [1 .. k -> N] /\ Last(job) = job[k]
  BY DEF JobChain, Last
<1>2. /\ new \in [1 .. k + 1 -> N]
      /\ new[k + 1] = next
      /\ \A i \in 1 .. k : new[i] = job[i]
      /\ ToSet(new) = ToSet(job) \cup {next}
  <2>1. job \in [1 .. k -> N] /\ k \in Nat /\ next \in N
    BY <1>1
  <2> HIDE DEF k, N
  <2>2. Append(job, next) \in [1 .. k + 1 -> N]
    BY <2>1, AppendFacts
  <2>3. Append(job, next)[k + 1] = next
    BY <2>1, AppendFacts
  <2>4. \A i \in 1 .. k : Append(job, next)[i] = job[i]
    BY <2>1, AppendFacts
  <2>5. ToSet(Append(job, next)) = ToSet(job) \cup {next}
    <3>1. \A y : y \in ToSet(job) <=> \E i \in 1 .. k : job[i] = y
      BY <2>1 DEF ToSet
    <3>2. \A y : y \in ToSet(Append(job, next)) <=> \E i \in 1 .. k + 1 : Append(job, next)[i] = y
      BY <2>2 DEF ToSet
    <3>3. /\ \A i \in 1 .. k : i \in 1 .. k + 1
          /\ \A i \in 1 .. k + 1 : i = k + 1 \/ i \in 1 .. k
          /\ k + 1 \in 1 .. k + 1
      BY <2>1
    <3> QED
      BY <2>3, <2>4, <3>1, <3>2, <3>3, ZenonT(60)
  <2> QED
    BY <2>2, <2>3, <2>4, <2>5
<1>3. new \in Seq(N) /\ Len(new) = k + 1
  <2>1. job \in Seq(N) /\ next \in N
    BY DEF JobChain
  <2> QED
    BY <2>1, AppendProperties
<1>4. \A x \in N : <<job[k], x>> \in reduced <=> x = next
  <2>1. \A x \in N : <<job[k], x>> \in reduced => x \in {e[2] : e \in {y \in reduced : y[1] = Last(job)}}
    <3> TAKE x \in N
    <3> DEFINE e == <<job[k], x>>
    <3>1. e \in reduced => e[1] = Last(job) /\ e[2] = x
      BY <1>1
    <3> HIDE DEF e
    <3>2. e \in reduced => x \in {d[2] : d \in {y \in reduced : y[1] = Last(job)}}
      BY <3>1
    <3> QED
      BY <3>2 DEF e
  <2>2. next \in {e[2] : e \in {y \in reduced : y[1] = Last(job)}}
    OBVIOUS
  <2>3. PICK e \in reduced : e[1] = Last(job) /\ e[2] = next
    BY <2>2
  <2>4. <<job[k], next>> \in reduced
    <3>1. e = <<e[1], e[2]>> /\ e[1] = job[k]
      BY <1>1, <2>3
    <3> QED
      BY <2>3, <3>1
  <2> QED
    BY <2>1, <2>4
<1>5. \A x \in N : <<x, next>> \in reduced => x = job[k]
  <2>1. \A x \in N : <<x, next>> \in reduced => x \in Before(next, reduced)
    BY DEF Before
  <2> QED
    BY <1>1, <2>1
<1>6. \A i, j \in 1 .. k : i < j => job[i] < job[j]
  BY DEF JobChain
<1>7. \A i \in 1 .. k - 1 :
          /\ <<job[i], job[i + 1]>> \in reduced
          /\ \A x \in N : <<job[i], x>> \in reduced => x = job[i + 1]
          /\ \A x \in N : <<x, job[i + 1]>> \in reduced => x = job[i]
  BY DEF JobChain
<1>8. next > job[k]
  BY <1>1
<1> HIDE DEF new, k
<1>9. \A i, j \in 1 .. k + 1 : i < j => new[i] < new[j]
  <2> SUFFICES ASSUME NEW i \in 1 .. k + 1, NEW j \in 1 .. k + 1, i < j PROVE new[i] < new[j]
    OBVIOUS
  <2>1. i \in 1 .. k /\ new[i] = job[i] /\ job[i] \in N
    BY <1>1, <1>2
  <2>2. CASE j \in 1 .. k
    BY <1>2, <1>6, <2>1, <2>2
  <2>3. CASE j = k + 1
    <3>1. job[i] <= job[k]
      <4>1. i = k \/ i < k
        BY <1>1, <2>1
      <4>2. k \in 1 .. k /\ job[k] \in N
        BY <1>1
      <4> QED
        BY <1>6, <2>1, <4>1, <4>2
    <3>2. job[k] \in N
      BY <1>1
    <3> QED
      BY <1>2, <1>8, <2>1, <2>3, <3>1, <3>2
  <2> QED
    BY <1>1, <2>2, <2>3
<1>10. ASSUME NEW i \in 1 .. k
       PROVE  /\ <<new[i], new[i + 1]>> \in reduced
              /\ \A x \in N : <<new[i], x>> \in reduced => x = new[i + 1]
              /\ \A x \in N : <<x, new[i + 1]>> \in reduced => x = new[i]
  <2>1. CASE i = k
    BY <1>1, <1>2, <1>4, <1>5, <2>1
  <2>2. CASE i \in 1 .. k - 1
    <3>1. i + 1 \in 1 .. k /\ new[i] = job[i] /\ new[i + 1] = job[i + 1]
      BY <1>1, <1>2, <2>2
    <3> QED
      BY <1>7, <2>2, <3>1
  <2> QED
    BY <1>1, <2>1, <2>2
<1>11. (k + 1) - 1 = k /\ k + 1 >= 1
  BY <1>1
<1>12. JobChain(n, reduced, new)
  BY <1>3, <1>9, <1>10, <1>11 DEF JobChain
<1> QED
  BY <1>2, <1>12 DEF new

LEMMA GrowJobKeeps ==
    ASSUME NEW n \in Nat, NEW reduced \in SUBSET ((1 .. n) \X (1 .. n)), NEW before,
           NEW st, GrowInv(n, reduced, before, st), NEW data, NEW edges, NEW released
    PROVE  GrowInv(n, reduced, before, GrowJob(data, edges, reduced, released, st))
<1> DEFINE prev == Last(st.job)
           Follow == {e[2] : e \in {x \in reduced : x[1] = prev}}
           next == Min(Follow)
           st2 == GrowJob(data, edges, reduced, released, st)
           Grows == /\ ~st.closed /\ Cardinality(Follow) = 1
                    /\ next > prev /\ next \notin st.assigned
                    /\ Before(next, reduced) = {prev}
<1>1. \/ Grows /\ st2 = [st EXCEPT !.job = Append(@, next), !.assigned = @ \cup {next}]
      \/ st2 = [st EXCEPT !.closed = TRUE]
  BY DEF GrowJob
<1>2. CASE st2 = [st EXCEPT !.closed = TRUE]
  <2>1. st2.job = st.job /\ st2.assigned = st.assigned /\ DOMAIN st2 = DOMAIN st
    BY <1>2 DEF GrowInv
  <2> HIDE DEF st2
  <2>2. GrowInv(n, reduced, before, st2)
    BY <2>1 DEF GrowInv
  <2> QED
    BY <2>2 DEF st2
<1>3. CASE Grows /\ st2 = [st EXCEPT !.job = Append(@, next), !.assigned = @ \cup {next}]
  <2> HIDE DEF Follow, next, prev
  <2>1. /\ st2.job = Append(st.job, next) /\ st2.assigned = st.assigned \cup {next}
        /\ DOMAIN st2 = DOMAIN st
    BY <1>3 DEF GrowInv
  <2>2. Follow \in SUBSET (1 .. n)
    BY DEF Follow
  <2>3. Follow = {next} /\ next \in 1 .. n
    <3>1. IsFiniteSet(Follow)
      <4>1. IsFiniteSet(1 .. n)
        BY FS_Interval
      <4> QED
        BY <2>2, <4>1, FS_Subset
    <3>2. PICK x : Follow = {x}
      BY <1>3, <3>1, FS_Singleton
    <3>3. next \in Follow
      <4>1. Follow \in SUBSET Nat /\ Follow # {}
        BY <2>2, <3>2
      <4> QED
        BY <4>1, MinFacts DEF next
    <3> QED
      BY <2>2, <3>2, <3>3
  <2> HIDE DEF st2
  <2>4. JobChain(n, reduced, st.job)
    BY DEF GrowInv
  <2>5. JobChain(n, reduced, Append(st.job, next)) /\ ToSet(Append(st.job, next)) = ToSet(st.job) \cup {next}
    <3> DEFINE job == st.job
    <3>1. /\ JobChain(n, reduced, job) /\ next > Last(job) /\ next \in 1 .. n
          /\ {e[2] : e \in {x \in reduced : x[1] = Last(job)}} = {next}
          /\ Before(next, reduced) = {Last(job)}
      BY <1>3, <2>3, <2>4 DEF prev, Follow
    <3> HIDE DEF job
    <3>2. JobChain(n, reduced, Append(job, next)) /\ ToSet(Append(job, next)) = ToSet(job) \cup {next}
      BY <3>1, ChainGrows
    <3> QED
      BY <3>2 DEF job
  <2>6. next \notin before
    BY <1>3 DEF GrowInv
  <2>7. /\ DOMAIN st = {"job", "assigned", "closed"}
        /\ st.assigned = before \cup ToSet(st.job)
        /\ ToSet(st.job) \cap before = {}
    BY DEF GrowInv
  <2>8. GrowInv(n, reduced, before, st2)
    BY <2>1, <2>5, <2>6, <2>7 DEF GrowInv
  <2> QED
    BY <2>8 DEF st2
<1> QED
  BY <1>1, <1>2, <1>3

(* One job, from its first node.                                           *)
GrowStep(c, st, k) == GrowJob(c.data, c.edges, c.reduced, c.released, st)
Grow == INSTANCE Recursion WITH Step <- GrowStep

GrownJob(data, edges, reduced, released, start) ==
    Iterate(LAMBDA x, k : GrowJob(data, edges, reduced, released, x),
            start, Cardinality(DOMAIN data.nodes))

LEMMA GrownFacts ==
    ASSUME NEW n \in Nat, NEW reduced \in SUBSET ((1 .. n) \X (1 .. n)), NEW before,
           NEW start, GrowInv(n, reduced, before, start),
           NEW data, DOMAIN data.nodes = 1 .. n, NEW edges, NEW released
    PROVE  GrowInv(n, reduced, before, GrownJob(data, edges, reduced, released, start))
<1> DEFINE c == [data |-> data, edges |-> edges, reduced |-> reduced, released |-> released]
           E(k) == Grow!After(c, start, k)
           T == {k \in Nat : GrowInv(n, reduced, before, E(k))}
<1>1. 0 \in T
  BY Grow!AfterNone
<1>2. ASSUME NEW k \in Nat, k \in T PROVE k + 1 \in T
  <2>1. E(k + 1) = GrowStep(c, E(k), k + 1)
    BY Grow!AfterNext
  <2>2. E(k + 1) = GrowJob(data, edges, reduced, released, E(k))
    BY <2>1 DEF GrowStep
  <2>3. GrowInv(n, reduced, before, E(k))
    BY <1>2
  <2> HIDE DEF E
  <2> QED
    BY <2>2, <2>3, GrowJobKeeps
<1>3. n \in T
  <2> HIDE DEF T
  <2> QED
    BY <1>1, <1>2, Grow!Induction
<1>4. GrownJob(data, edges, reduced, released, start) = E(n)
  <2>1. Cardinality(1 .. n) = n
    BY FS_Interval
  <2> QED
    BY <2>1, ZenonT(60) DEF GrownJob, Iterate, Grow!After, GrowStep
<1> QED
  BY <1>3, <1>4

(* The jobs hold every node once.                                          *)
JobsInv(n, reduced, st, k) ==
    /\ st.jobs \in Seq(Seq(1 .. n))
    /\ \A j \in 1 .. Len(st.jobs) : JobChain(n, reduced, st.jobs[j])
    /\ \A i, j \in 1 .. Len(st.jobs) : i # j => ToSet(st.jobs[i]) \cap ToSet(st.jobs[j]) = {}
    /\ st.assigned \subseteq 1 .. n
    /\ \A x : x \in st.assigned <=> \E j \in 1 .. Len(st.jobs) : x \in ToSet(st.jobs[j])
    /\ 1 .. k \subseteq st.assigned

LEMMA AddJobKeeps ==
    ASSUME NEW n \in Nat, NEW reduced \in SUBSET ((1 .. n) \X (1 .. n)),
           NEW data, DOMAIN data.nodes = 1 .. n, NEW edges, NEW released,
           NEW k \in Nat, k < n, NEW st, JobsInv(n, reduced, st, k)
    PROVE  JobsInv(n, reduced, AddJob(data, edges, reduced, released, st, k + 1), k + 1)
<1> DEFINE first == k + 1
           start == [job |-> <<first>>, assigned |-> st.assigned \cup {first}, closed |-> FALSE]
           grown == GrownJob(data, edges, reduced, released, start)
           st2 == AddJob(data, edges, reduced, released, st, first)
<1>1. first \in 1 .. n /\ 1 .. first = (1 .. k) \cup {first}
  OBVIOUS
<1>2. CASE first \in st.assigned
  <2>1. st2 = st
    BY <1>2 DEF AddJob
  <2>2. 1 .. first \subseteq st.assigned
    BY <1>1, <1>2 DEF JobsInv
  <2> HIDE DEF st2, first
  <2>3. JobsInv(n, reduced, st2, first)
    BY <2>1, <2>2 DEF JobsInv
  <2> QED
    BY <2>3 DEF st2, first
<1>3. CASE first \notin st.assigned
  <2>1. st2 = [jobs |-> Append(st.jobs, grown.job), assigned |-> grown.assigned]
    BY <1>3 DEF AddJob, GrownJob
  <2>2. ToSet(<<first>>) = {first}
    BY DEF ToSet
  <2>3. JobChain(n, reduced, <<first>>)
    BY <1>1 DEF JobChain
  <2>4. GrowInv(n, reduced, st.assigned, start)
    <3>1. start.job = <<first>> /\ start.assigned = st.assigned \cup {first}
          /\ DOMAIN start = {"job", "assigned", "closed"}
      OBVIOUS
    <3> HIDE DEF start, first
    <3> QED
      BY <1>3, <2>2, <2>3, <3>1 DEF GrowInv
  <2>5. GrowInv(n, reduced, st.assigned, grown)
    <3> HIDE DEF start
    <3> QED
      BY <2>4, GrownFacts
  <2>6. first \in grown.assigned
    <3> DEFINE Holds(x) == first \in x.assigned
               c == [data |-> data, edges |-> edges, reduced |-> reduced, released |-> released]
               E(i) == Grow!After(c, start, i)
               T == {i \in Nat : GrowInv(n, reduced, st.assigned, E(i)) /\ Holds(E(i))}
    <3>1. 0 \in T
      <4>1. E(0) = start
        BY Grow!AfterNone
      <4>2. Holds(start)
        OBVIOUS
      <4> HIDE DEF E, start
      <4> QED
        BY <2>4, <4>1, <4>2
    <3>2. ASSUME NEW i \in Nat, i \in T PROVE i + 1 \in T
      <4>1. E(i + 1) = GrowStep(c, E(i), i + 1)
        BY Grow!AfterNext
      <4>2. E(i + 1) = GrowJob(data, edges, reduced, released, E(i))
        BY <4>1 DEF GrowStep
      <4>3. GrowInv(n, reduced, st.assigned, E(i)) /\ Holds(E(i))
        BY <3>2
      <4> HIDE DEF E
      <4>4. GrowInv(n, reduced, st.assigned, E(i + 1))
        BY <4>2, <4>3, GrowJobKeeps
      <4>5. DOMAIN E(i) = {"job", "assigned", "closed"}
        BY <4>3 DEF GrowInv
      <4>6. Holds(E(i + 1))
        BY <4>2, <4>3, <4>5 DEF GrowJob
      <4> QED
        BY <4>4, <4>6
    <3>3. n \in T
      <4> HIDE DEF T
      <4> QED
        BY <3>1, <3>2, Grow!Induction
    <3>4. grown = E(n)
      <4>1. Cardinality(1 .. n) = n
        BY IntervalSize, Zenon
      <4> HIDE DEF start
      <4> QED
        BY <4>1, ZenonT(60) DEF GrownJob, Iterate, Grow!After, GrowStep
    <3> HIDE DEF E, grown
    <3> QED
      BY <3>3, <3>4
  <2> DEFINE job == grown.job
             jobs == st.jobs
             m == Len(st.jobs)
  <2>7. /\ JobChain(n, reduced, job) /\ grown.assigned = st.assigned \cup ToSet(job)
        /\ ToSet(job) \cap st.assigned = {}
    <3> HIDE DEF grown
    <3> QED
      BY <2>5 DEF GrowInv
  <2>8. job \in Seq(1 .. n)
    <3> HIDE DEF job
    <3> QED
      BY <2>7 DEF JobChain
  <2>9. jobs \in Seq(Seq(1 .. n)) /\ m \in Nat
    BY DEF JobsInv
  <2>10. /\ st2.jobs = Append(jobs, job) /\ st2.assigned = st.assigned \cup ToSet(job)
         /\ first \in st2.assigned
    <3> HIDE DEF grown, first
    <3> QED
      BY <2>1, <2>6, <2>7
  <2> HIDE DEF st2, job, grown, jobs, first
  <2>11. /\ Append(jobs, job) \in Seq(Seq(1 .. n)) /\ Len(Append(jobs, job)) = m + 1
         /\ Append(jobs, job)[m + 1] = job
         /\ \A i \in 1 .. m : Append(jobs, job)[i] = jobs[i]
    <3> DEFINE S == Seq(1 .. n)
    <3> HIDE DEF S, m
    <3>1. jobs \in Seq(S) /\ job \in S /\ m = Len(jobs)
      BY <2>8, <2>9 DEF S, m, jobs
    <3>2. /\ Append(jobs, job) \in Seq(S) /\ Len(Append(jobs, job)) = m + 1
          /\ Append(jobs, job)[m + 1] = job
          /\ \A i \in 1 .. m : Append(jobs, job)[i] = jobs[i]
      BY <3>1, AppendProperties
    <3> QED
      BY <3>2 DEF S
  <2>12. \A j \in 1 .. m + 1 : j \in 1 .. m \/ j = m + 1
    BY <2>9
  <2>13. 1 .. m \subseteq 1 .. m + 1 /\ m + 1 \in 1 .. m + 1
    BY <2>9
  <2>14. /\ \A j \in 1 .. m : JobChain(n, reduced, jobs[j])
         /\ \A i, j \in 1 .. m : i # j => ToSet(jobs[i]) \cap ToSet(jobs[j]) = {}
         /\ st.assigned \subseteq 1 .. n
         /\ \A x : x \in st.assigned <=> \E j \in 1 .. m : x \in ToSet(jobs[j])
         /\ 1 .. k \subseteq st.assigned
    BY DEF JobsInv, jobs
  <2> HIDE DEF m
  <2>15. \A j \in 1 .. m + 1 : JobChain(n, reduced, Append(jobs, job)[j])
    BY <2>7, <2>11, <2>12, <2>14
  <2>16. \A j \in 1 .. m : ToSet(jobs[j]) \cap ToSet(job) = {}
    BY <2>7, <2>14
  <2>17. \A i, j \in 1 .. m + 1 : i # j => ToSet(Append(jobs, job)[i]) \cap ToSet(Append(jobs, job)[j]) = {}
    <3> SUFFICES ASSUME NEW i \in 1 .. m + 1, NEW j \in 1 .. m + 1, i # j
                 PROVE  ToSet(Append(jobs, job)[i]) \cap ToSet(Append(jobs, job)[j]) = {}
      OBVIOUS
    <3> QED
      BY <2>11, <2>12, <2>14, <2>16
  <2>18. ToSet(job) \subseteq 1 .. n
    BY <2>8 DEF ToSet
  <2>19. st2.assigned \subseteq 1 .. n
    BY <2>10, <2>14, <2>18
  <2>20. \A x : x \in st2.assigned <=> \E j \in 1 .. m + 1 : x \in ToSet(Append(jobs, job)[j])
    BY <2>10, <2>11, <2>12, <2>13, <2>14
  <2>21. 1 .. first \subseteq st2.assigned
    BY <1>1, <2>10, <2>14
  <2>22. JobsInv(n, reduced, st2, first)
    <3> DEFINE more == Append(jobs, job)
    <3>1. st2.jobs = more /\ Len(more) = m + 1 /\ more \in Seq(Seq(1 .. n))
      BY <2>10, <2>11
    <3>2. /\ \A j \in 1 .. m + 1 : JobChain(n, reduced, more[j])
          /\ \A i, j \in 1 .. m + 1 : i # j => ToSet(more[i]) \cap ToSet(more[j]) = {}
          /\ \A x : x \in st2.assigned <=> \E j \in 1 .. m + 1 : x \in ToSet(more[j])
      BY <2>15, <2>17, <2>20
    <3> HIDE DEF more
    <3> QED
      BY <2>19, <2>21, <3>1, <3>2 DEF JobsInv
  <2> QED
    BY <2>22 DEF st2, first
<1> QED
  BY <1>2, <1>3

AddJobStep(c, st, k) == AddJob(c.data, c.edges, c.reduced, c.released, st, k)
JobAdds == INSTANCE Recursion WITH Step <- AddJobStep

AddedJobs(data, edges, reduced, released) ==
    Iterate(LAMBDA st, first : AddJob(data, edges, reduced, released, st, first),
            [jobs |-> <<>>, assigned |-> {}], Cardinality(DOMAIN data.nodes))

JobsHold(n, reduced, jobs) ==
    /\ jobs \in Seq(Seq(1 .. n))
    /\ \A j \in 1 .. Len(jobs) : JobChain(n, reduced, jobs[j])
    /\ \A i, j \in 1 .. Len(jobs) : i # j => ToSet(jobs[i]) \cap ToSet(jobs[j]) = {}
    /\ \A x \in 1 .. n : \E j \in 1 .. Len(jobs) : x \in ToSet(jobs[j])

LEMMA PlannedJobsFacts ==
    ASSUME NEW n \in Nat, NEW reduced \in SUBSET ((1 .. n) \X (1 .. n)),
           NEW data, DOMAIN data.nodes = 1 .. n, NEW edges, NEW released
    PROVE  JobsHold(n, reduced, PlannedJobs(data, edges, reduced, released))
<1> DEFINE c == [data |-> data, edges |-> edges, reduced |-> reduced, released |-> released]
           x == [jobs |-> <<>>, assigned |-> {}]
           E(k) == JobAdds!After(c, x, k)
           T == {k \in Nat : k <= n => JobsInv(n, reduced, E(k), k)}
<1>1. 0 \in T
  <2>1. E(0) = x
    BY JobAdds!AfterNone
  <2>2. x.jobs = <<>> /\ x.assigned = {} /\ Len(<<>>) = 0 /\ 1 .. 0 = {}
    OBVIOUS
  <2>3. <<>> \in Seq(Seq(1 .. n))
    <3> DEFINE S == Seq(1 .. n)
    <3> HIDE DEF S
    <3>1. <<>> \in Seq(S)
      OBVIOUS
    <3> QED
      BY <3>1 DEF S
  <2> HIDE DEF x, E
  <2>4. JobsInv(n, reduced, x, 0)
    BY <2>2, <2>3 DEF JobsInv
  <2> QED
    BY <2>1, <2>4
<1>2. ASSUME NEW k \in Nat, k \in T PROVE k + 1 \in T
  <2> SUFFICES ASSUME k + 1 <= n PROVE JobsInv(n, reduced, E(k + 1), k + 1)
    OBVIOUS
  <2>1. k < n /\ JobsInv(n, reduced, E(k), k)
    BY <1>2
  <2>2. E(k + 1) = AddJobStep(c, E(k), k + 1)
    BY JobAdds!AfterNext
  <2>3. E(k + 1) = AddJob(data, edges, reduced, released, E(k), k + 1)
    BY <2>2 DEF AddJobStep
  <2> HIDE DEF E
  <2> QED
    BY <2>1, <2>3, AddJobKeeps
<1>3. JobsInv(n, reduced, E(n), n)
  <2>1. n \in T
    <3> HIDE DEF T
    <3> QED
      BY <1>1, <1>2, JobAdds!Induction
  <2> QED
    BY <2>1
<1>4. PlannedJobs(data, edges, reduced, released) = E(n).jobs
  <2>1. Cardinality(1 .. n) = n
    BY IntervalSize
  <2>2. AddedJobs(data, edges, reduced, released) = E(n)
    BY <2>1, ZenonT(60) DEF AddedJobs, Iterate, JobAdds!After, AddJobStep
  <2>3. PlannedJobs(data, edges, reduced, released) = AddedJobs(data, edges, reduced, released).jobs
    BY DEF PlannedJobs, AddedJobs
  <2> HIDE DEF E
  <2> QED
    BY <2>2, <2>3
<1> HIDE DEF E
<1> QED
  BY <1>3, <1>4 DEF JobsInv, JobsHold

(* In a graph whose edges go upwards, a chain is a path, leaves the job only *)
(* from its last node and enters it only at its first.                      *)
Upwards(n, edges) == \A a, b \in 1 .. n : <<a, b>> \in edges => a < b

LEMMA UpwardsRank ==
    ASSUME NEW n \in Nat, NEW edges, Upwards(n, edges)
    PROVE  Ranked(n, edges, [x \in 1 .. n |-> x])
BY DEF Upwards, Ranked

LEMMA ChainNodes ==
    ASSUME NEW n, NEW reduced, NEW job, JobChain(n, reduced, job)
    PROVE  /\ Len(job) \in Nat /\ Len(job) >= 1 /\ DOMAIN job = 1 .. Len(job)
           /\ \A x \in 1 .. Len(job) : job[x] \in 1 .. n
<1>1. job \in Seq(1 .. n) /\ Len(job) >= 1
  BY DEF JobChain
<1> DEFINE N == 1 .. n
<1> HIDE DEF N
<1>2. job \in Seq(N)
  BY <1>1 DEF N
<1>3. Len(job) \in Nat /\ DOMAIN job = 1 .. Len(job) /\ \A x \in 1 .. Len(job) : job[x] \in N
  BY <1>2
<1> QED
  BY <1>1, <1>3 DEF N

LEMMA ChainReaches ==
    ASSUME NEW n \in Nat, NEW edges \in SUBSET ((1 .. n) \X (1 .. n)), NEW job,
           JobChain(n, TransitiveReduction(1 .. n, edges), job),
           NEW i \in 1 .. Len(job), NEW j \in 1 .. Len(job), i < j
    PROVE  job[j] \in Reachable(1 .. n, edges)[job[i]]
<1> DEFINE N == 1 .. n
           reach == Reachable(N, edges)
           k == Len(job)
           T == {d \in Nat : i + d + 1 <= k => job[i + d + 1] \in reach[job[i]]}
<1>1. /\ k \in Nat /\ \A x \in 1 .. k : job[x] \in N
      /\ \A x \in 1 .. k - 1 : <<job[x], job[x + 1]>> \in edges
  BY SMTT(60) DEF JobChain, TransitiveReduction
<1>2. /\ \A x, y \in N : <<x, y>> \in edges => y \in reach[x]
      /\ \A x, y, z \in N : y \in reach[x] /\ z \in reach[y] => z \in reach[x]
  BY ReachableFacts
<1> HIDE DEF reach, k
<1>3. \A x \in 1 .. k - 1 : job[x + 1] \in reach[job[x]]
  <2> TAKE x \in 1 .. k - 1
  <2>1. x \in 1 .. k /\ x + 1 \in 1 .. k
    BY <1>1
  <2> QED
    BY <1>1, <1>2, <2>1
<1>4. i \in 1 .. k /\ j \in 1 .. k
  BY DEF k
<1>5. 0 \in T
  BY <1>1, <1>3, <1>4
<1>6. ASSUME NEW d \in Nat, d \in T PROVE d + 1 \in T
  <2> SUFFICES ASSUME i + (d + 1) + 1 <= k PROVE job[i + (d + 1) + 1] \in reach[job[i]]
    OBVIOUS
  <2> DEFINE x == i + d + 1
  <2>1. x \in 1 .. k /\ x + 1 \in 1 .. k /\ x \in 1 .. k - 1 /\ i + (d + 1) + 1 = x + 1
    BY <1>1, <1>4
  <2>2. job[x] \in reach[job[i]]
    BY <1>6, <2>1
  <2>3. job[x + 1] \in reach[job[x]]
    BY <1>3, <2>1
  <2> HIDE DEF x
  <2> QED
    BY <1>1, <1>2, <1>4, <2>1, <2>2, <2>3, ZenonT(60)
<1>7. j - i - 1 \in T
  <2>1. j - i - 1 \in Nat
    BY <1>4
  <2> HIDE DEF T
  <2> QED
    BY <1>5, <1>6, <2>1, Paths!Induction
<1>8. i + (j - i - 1) + 1 = j /\ j <= k
  BY <1>1, <1>4
<1>9. job[j] \in reach[job[i]]
  BY <1>7, <1>8
<1> QED
  BY <1>9 DEF reach

LEMMA LeavesFromLast ==
    ASSUME NEW n \in Nat, NEW edges \in SUBSET ((1 .. n) \X (1 .. n)), Upwards(n, edges),
           NEW job, JobChain(n, TransitiveReduction(1 .. n, edges), job),
           NEW i \in 1 .. Len(job), NEW y \in Reachable(1 .. n, edges)[job[i]], y \notin ToSet(job)
    PROVE  y \in Reachable(1 .. n, edges)[job[Len(job)]]
<1> DEFINE N == 1 .. n
           reduced == TransitiveReduction(N, edges)
           reach == Reachable(N, edges)
           k == Len(job)
           T == {d \in Nat : d < k /\ y \in reach[job[k - d]] => y \in reach[job[k]]}
<1>1. /\ k \in Nat /\ \A x \in 1 .. k : job[x] \in N
      /\ \A x \in 1 .. k - 1 : \A z \in N : <<job[x], z>> \in reduced => z = job[x + 1]
  <2>1. k \in Nat /\ \A x \in 1 .. k : job[x] \in N
    BY ChainNodes
  <2>2. \A x \in 1 .. k - 1 : \A z \in N : <<job[x], z>> \in reduced => z = job[x + 1]
    <3> HIDE DEF reduced
    <3> QED
      BY DEF JobChain, reduced
  <2> QED
    BY <2>1, <2>2
<1>2. \A x \in 1 .. k : job[x] # y
  <2>1. DOMAIN job = 1 .. k
    BY DEF JobChain
  <2> QED
    BY <2>1 DEF ToSet
<1>3. i \in 1 .. k /\ y \in reach[job[i]]
  OBVIOUS
<1>4. ASSUME NEW x \in 1 .. k - 1, y \in reach[job[x]] PROVE y \in reach[job[x + 1]]
  <2>1. job[x] \in N /\ x + 1 \in 1 .. k
    BY <1>1
  <2> DEFINE a == job[x]
  <2>2. a \in N /\ y \in reach[a]
    BY <1>4, <2>1
  <2> HIDE DEF a
  <2>3. PICK c \in N : <<a, c>> \in reduced /\ (c = y \/ y \in reach[c])
    <3> DEFINE rank == [z \in N |-> z]
    <3>1. Ranked(n, edges, rank)
      BY UpwardsRank
    <3> HIDE DEF rank
    <3> QED
      BY <2>2, <3>1, ReductionBegins
  <2> HIDE DEF reduced, reach, k
  <2>4. c = job[x + 1]
    BY <1>1, <2>3 DEF a
  <2> QED
    BY <1>2, <2>1, <2>3, <2>4
<1> HIDE DEF reduced, reach, k
<1>5. 0 \in T
  BY <1>1
<1>6. ASSUME NEW d \in Nat, d \in T PROVE d + 1 \in T
  <2> SUFFICES ASSUME d + 1 < k, y \in reach[job[k - (d + 1)]] PROVE y \in reach[job[k]]
    OBVIOUS
  <2> DEFINE x == k - (d + 1)
  <2>1. x \in 1 .. k - 1 /\ x + 1 = k - d /\ d < k
    BY <1>1
  <2>2. y \in reach[job[x + 1]]
    BY <1>4, <2>1
  <2> QED
    BY <1>6, <2>1, <2>2
<1>7. k - i \in T
  <2>1. k - i \in Nat
    BY <1>1, <1>3
  <2> HIDE DEF T
  <2> QED
    BY <1>5, <1>6, <2>1, Paths!Induction
<1>8. k - (k - i) = i /\ k - i < k
  BY <1>1, <1>3
<1>9. y \in reach[job[k]]
  BY <1>3, <1>7, <1>8
<1> QED
  BY <1>9 DEF reach, k

LEMMA EntersAtFirst ==
    ASSUME NEW n \in Nat, NEW edges \in SUBSET ((1 .. n) \X (1 .. n)), Upwards(n, edges),
           NEW job, JobChain(n, TransitiveReduction(1 .. n, edges), job),
           NEW i \in 1 .. Len(job), NEW x \in 1 .. n, x \notin ToSet(job),
           job[i] \in Reachable(1 .. n, edges)[x]
    PROVE  job[1] \in Reachable(1 .. n, edges)[x]
<1> DEFINE N == 1 .. n
           reduced == TransitiveReduction(N, edges)
           reach == Reachable(N, edges)
           k == Len(job)
           T == {d \in Nat : d + 1 <= k /\ job[d + 1] \in reach[x] => job[1] \in reach[x]}
<1>1. /\ k \in Nat /\ \A y \in 1 .. k : job[y] \in N
      /\ \A y \in 1 .. k - 1 : \A z \in N : <<z, job[y + 1]>> \in reduced => z = job[y]
  <2>1. k \in Nat /\ \A y \in 1 .. k : job[y] \in N
    BY ChainNodes
  <2>2. \A y \in 1 .. k - 1 : \A z \in N : <<z, job[y + 1]>> \in reduced => z = job[y]
    <3> HIDE DEF reduced
    <3> QED
      BY DEF JobChain, reduced
  <2> QED
    BY <2>1, <2>2
<1>2. \A y \in 1 .. k : job[y] # x
  <2>1. DOMAIN job = 1 .. k
    BY DEF JobChain
  <2> QED
    BY <2>1 DEF ToSet
<1>3. i \in 1 .. k /\ job[i] \in reach[x]
  OBVIOUS
<1>4. ASSUME NEW y \in 1 .. k - 1, job[y + 1] \in reach[x] PROVE job[y] \in reach[x]
  <2>1. y \in 1 .. k /\ y + 1 \in 1 .. k
    BY <1>1
  <2> DEFINE b == job[y + 1]
  <2>2. b \in N /\ b \in reach[x]
    BY <1>1, <1>4, <2>1
  <2> HIDE DEF b
  <2>3. PICK c \in N : <<c, b>> \in reduced /\ (c = x \/ c \in reach[x])
    <3> DEFINE rank == [z \in N |-> z]
    <3>1. Ranked(n, edges, rank)
      BY UpwardsRank
    <3> HIDE DEF rank
    <3> QED
      BY <2>2, <3>1, ReductionEnds
  <2> HIDE DEF reduced, reach, k
  <2>4. c = job[y]
    BY <1>1, <2>3 DEF b
  <2> QED
    BY <1>2, <2>1, <2>3, <2>4
<1> HIDE DEF reduced, reach, k
<1>5. 0 \in T
  BY <1>1
<1>6. ASSUME NEW d \in Nat, d \in T PROVE d + 1 \in T
  <2> SUFFICES ASSUME (d + 1) + 1 <= k, job[(d + 1) + 1] \in reach[x] PROVE job[1] \in reach[x]
    OBVIOUS
  <2>1. d + 1 \in 1 .. k - 1 /\ d + 1 <= k
    BY <1>1
  <2>2. job[d + 1] \in reach[x]
    BY <1>4, <2>1
  <2> QED
    BY <1>6, <2>1, <2>2
<1>7. i - 1 \in T
  <2>1. i - 1 \in Nat
    BY <1>3
  <2> HIDE DEF T
  <2> QED
    BY <1>5, <1>6, <2>1, Paths!Induction
<1>8. (i - 1) + 1 = i /\ i <= k
  BY <1>1, <1>3
<1>9. job[1] \in reach[x]
  BY <1>3, <1>7, <1>8
<1> QED
  BY <1>9 DEF reach

(* So a path between two jobs orders all of their nodes.                    *)
LEMMA JobsInSequence ==
    ASSUME NEW n \in Nat, NEW edges \in SUBSET ((1 .. n) \X (1 .. n)), Upwards(n, edges),
           NEW job, JobChain(n, TransitiveReduction(1 .. n, edges), job),
           NEW next, JobChain(n, TransitiveReduction(1 .. n, edges), next),
           ToSet(job) \cap ToSet(next) = {},
           NEW p \in ToSet(job), NEW i \in ToSet(next), i \in Reachable(1 .. n, edges)[p],
           NEW x \in ToSet(job), NEW y \in ToSet(next)
    PROVE  y \in Reachable(1 .. n, edges)[x]
<1> DEFINE N == 1 .. n
           reach == Reachable(N, edges)
           last == job[Len(job)]
           first == next[1]
<1>1. /\ Len(job) \in 1 .. Len(job) /\ DOMAIN job = 1 .. Len(job)
      /\ \A a \in 1 .. Len(job) : job[a] \in N
  BY DEF JobChain
<1>2. /\ 1 \in 1 .. Len(next) /\ DOMAIN next = 1 .. Len(next)
      /\ \A a \in 1 .. Len(next) : next[a] \in N
  BY DEF JobChain
<1>3. \A a : a \in ToSet(job) <=> \E u \in 1 .. Len(job) : a = job[u]
  BY <1>1 DEF ToSet
<1>4. \A a : a \in ToSet(next) <=> \E u \in 1 .. Len(next) : a = next[u]
  BY <1>2 DEF ToSet
<1>5. last \in ToSet(job) /\ first \in ToSet(next)
  BY <1>1, <1>2, <1>3, <1>4
<1>6. PICK a \in 1 .. Len(job) : p = job[a]
  BY <1>3
<1>7. PICK b \in 1 .. Len(next) : i = next[b]
  BY <1>4
<1>8. PICK c \in 1 .. Len(job) : x = job[c]
  BY <1>3
<1>9. PICK d \in 1 .. Len(next) : y = next[d]
  BY <1>4
<1>10. i \in reach[last]
  <2>1. i \notin ToSet(job)
    OBVIOUS
  <2> QED
    BY <1>6, <2>1, LeavesFromLast
<1>11. last \notin ToSet(next) /\ last \in N
  BY <1>1, <1>5
<1>12. first \in reach[last]
  <2> HIDE DEF last
  <2> QED
    BY <1>7, <1>10, <1>11, EntersAtFirst
<1>13. \A u, v, w \in N : v \in reach[u] /\ w \in reach[v] => w \in reach[u]
  BY ReachableFacts
<1>14. x = last \/ last \in reach[x]
  <2>1. c = Len(job) \/ c < Len(job)
    BY ChainNodes
  <2>2. c < Len(job) => job[Len(job)] \in reach[job[c]]
    <3> SUFFICES ASSUME c < Len(job) PROVE job[Len(job)] \in reach[job[c]]
      OBVIOUS
    <3> QED
      BY <1>1, ChainReaches
  <2> QED
    BY <1>8, <2>1, <2>2
<1>15. y = first \/ y \in reach[first]
  <2>1. d = 1 \/ 1 < d
    BY <1>2
  <2>2. 1 < d => next[d] \in reach[next[1]]
    <3> SUFFICES ASSUME 1 < d PROVE next[d] \in reach[next[1]]
      OBVIOUS
    <3> QED
      BY <1>2, ChainReaches
  <2> QED
    BY <1>9, <2>1, <2>2
<1>16. x \in N /\ y \in N /\ first \in N
  BY <1>1, <1>2, <1>8, <1>9
<1> HIDE DEF last, first, reach
<1>17. y \in reach[x]
  BY <1>11, <1>12, <1>13, <1>14, <1>15, <1>16
<1> QED
  BY <1>17 DEF reach

(* The jobs wait for each other as their nodes do.                          *)
JobWaits(edges, jobs, waits) ==
    /\ waits \in SUBSET ((1 .. Len(jobs)) \X (1 .. Len(jobs)))
    /\ \A j, k \in 1 .. Len(jobs) :
          <<j, k>> \in waits <=>
             j # k /\ \E p \in ToSet(jobs[j]), i \in ToSet(jobs[k]) : <<p, i>> \in edges

LEMMA JobsCount ==
    ASSUME NEW n, NEW reduced, NEW jobs, JobsHold(n, reduced, jobs)
    PROVE  Len(jobs) \in Nat /\ DOMAIN jobs = 1 .. Len(jobs)
<1> DEFINE S == Seq(1 .. n)
<1>1. jobs \in Seq(S)
  BY DEF JobsHold
<1> HIDE DEF S
<1> QED
  BY <1>1

LEMMA WaitingJobs ==
    ASSUME NEW n \in Nat, NEW edges \in SUBSET ((1 .. n) \X (1 .. n)), Upwards(n, edges),
           NEW jobs, JobsHold(n, TransitiveReduction(1 .. n, edges), jobs),
           NEW waits, JobWaits(edges, jobs, waits)
    PROVE  /\ Len(jobs) \in Nat
           /\ Ranked(Len(jobs), waits, [j \in 1 .. Len(jobs) |-> jobs[j][1]])
           /\ \A j \in 1 .. Len(jobs) : \A k \in Reachable(1 .. Len(jobs), waits)[j] :
                 \A x \in ToSet(jobs[j]), y \in ToSet(jobs[k]) : y \in Reachable(1 .. n, edges)[x]
<1> DEFINE N == 1 .. n
           m == Len(jobs)
           M == 1 .. m
           reduced == TransitiveReduction(N, edges)
           reach == Reachable(N, edges)
           rank == [j \in M |-> jobs[j][1]]
<1>1. /\ m \in Nat
      /\ \A j \in M : JobChain(n, reduced, jobs[j])
      /\ \A i, j \in M : i # j => ToSet(jobs[i]) \cap ToSet(jobs[j]) = {}
  <2>1. m \in Nat
    BY JobsCount
  <2> HIDE DEF reduced
  <2> QED
    BY <2>1 DEF JobsHold, reduced
<1>2. /\ \A x, y \in N : <<x, y>> \in edges => y \in reach[x]
      /\ \A x, y, z \in N : y \in reach[x] /\ z \in reach[y] => z \in reach[x]
  BY ReachableFacts
<1>3. \A j \in M : /\ jobs[j][1] \in ToSet(jobs[j]) /\ jobs[j][1] \in N
                   /\ ToSet(jobs[j]) \subseteq N
  <2> TAKE j \in M
  <2> DEFINE job == jobs[j]
  <2>1. JobChain(n, reduced, job)
    BY <1>1
  <2> HIDE DEF job, reduced, N
  <2>2. /\ Len(job) \in Nat /\ Len(job) >= 1 /\ DOMAIN job = 1 .. Len(job)
        /\ \A x \in 1 .. Len(job) : job[x] \in N
    BY <2>1, ChainNodes DEF N
  <2>3. job[1] \in ToSet(job) /\ job[1] \in N /\ ToSet(job) \subseteq N
    BY <2>2 DEF ToSet
  <2> QED
    BY <2>3 DEF job
<1>4. waits \in SUBSET (M \X M)
  BY DEF JobWaits
<1>5. ASSUME NEW j \in M, NEW k \in M, <<j, k>> \in waits,
             NEW x \in ToSet(jobs[j]), NEW y \in ToSet(jobs[k])
      PROVE  y \in reach[x]
  <2>1. PICK p \in ToSet(jobs[j]), i \in ToSet(jobs[k]) : j # k /\ <<p, i>> \in edges
    BY <1>5 DEF JobWaits
  <2> DEFINE job == jobs[j]
             next == jobs[k]
  <2>2. /\ JobChain(n, reduced, job) /\ JobChain(n, reduced, next)
        /\ ToSet(job) \cap ToSet(next) = {}
    BY <1>1, <2>1
  <2>3. i \in reach[p]
    BY <1>2, <1>3, <2>1
  <2>4. p \in ToSet(job) /\ i \in ToSet(next) /\ x \in ToSet(job) /\ y \in ToSet(next)
    OBVIOUS
  <2> HIDE DEF job, next
  <2> QED
    BY <2>2, <2>3, <2>4, JobsInSequence
<1> HIDE DEF reach, reduced
<1>6. Ranked(m, waits, rank)
  <2>1. rank \in [M -> Nat]
    <3>1. \A j \in M : jobs[j][1] \in Nat
      BY <1>3
    <3> QED
      BY <3>1
  <2>2. ASSUME NEW j \in M, NEW k \in M, <<j, k>> \in waits PROVE rank[j] < rank[k]
    <3> DEFINE a == jobs[j][1]
               b == jobs[k][1]
    <3>1. b \in reach[a]
      BY <1>3, <1>5, <2>2
    <3>2. a \in N /\ b \in N
      BY <1>3
    <3>3. rank[j] = a /\ rank[k] = b
      OBVIOUS
    <3> HIDE DEF a, b, rank
    <3>4. a < b
      <4> DEFINE self == [z \in N |-> z]
      <4>1. Ranked(n, edges, self)
        BY UpwardsRank
      <4>2. self[a] = a /\ self[b] = b
        BY <3>2
      <4> HIDE DEF self
      <4>3. self[a] < self[b]
        BY <3>1, <3>2, <4>1, PathClimbs DEF reach
      <4> QED
        BY <4>2, <4>3
    <3> QED
      BY <3>3, <3>4
  <2> HIDE DEF rank, m
  <2> QED
    BY <2>1, <2>2 DEF Ranked
<1>7. ASSUME NEW j \in M, NEW k \in Reachable(M, waits)[j],
             NEW x \in ToSet(jobs[j]), NEW y \in ToSet(jobs[k])
      PROVE  y \in reach[x]
  <2> DEFINE Follows(u, w) == \A a \in ToSet(jobs[u]), b \in ToSet(jobs[w]) : b \in reach[a]
             R == {e \in M \X M : Follows(e[1], e[2])}
  <2>1. waits \subseteq R
    <3> SUFFICES ASSUME NEW e \in waits PROVE e \in R
      OBVIOUS
    <3> DEFINE u == e[1]
               w == e[2]
    <3>1. e = <<u, w>> /\ u \in M /\ w \in M
      BY <1>4
    <3> HIDE DEF u, w
    <3>2. Follows(u, w)
      BY <1>5, <3>1
    <3> HIDE DEF Follows
    <3> QED
      BY <3>1, <3>2
  <2>2. Transitive(R)
    <3> SUFFICES ASSUME NEW u, NEW v, NEW w, <<u, v>> \in R, <<v, w>> \in R
                 PROVE  <<u, w>> \in R
      BY DEF Transitive
    <3>1. u \in M /\ v \in M /\ w \in M /\ Follows(u, v) /\ Follows(v, w)
      OBVIOUS
    <3> HIDE DEF R
    <3>2. Follows(u, w)
      <4> SUFFICES ASSUME NEW a \in ToSet(jobs[u]), NEW b \in ToSet(jobs[w]) PROVE b \in reach[a]
        OBVIOUS
      <4>1. jobs[v][1] \in ToSet(jobs[v]) /\ jobs[v][1] \in N /\ a \in N /\ b \in N
        BY <1>3, <3>1
      <4>2. jobs[v][1] \in reach[a] /\ b \in reach[jobs[v][1]]
        BY <3>1, <4>1
      <4> QED
        BY <1>2, <4>1, <4>2
    <3> HIDE DEF Follows
    <3> QED
      BY <3>1, <3>2 DEF R
  <2>3. <<j, k>> \in R
    <3> HIDE DEF R, m
    <3>1. m \in Nat /\ waits \in SUBSET ((1 .. m) \X (1 .. m)) /\ j \in 1 .. m
          /\ k \in Reachable(1 .. m, waits)[j]
      BY <1>1, <1>4, <1>7
    <3> QED
      BY <2>1, <2>2, <3>1, ReachableFacts
  <2>4. Follows(j, k)
    <3> HIDE DEF Follows
    <3> QED
      BY <2>3
  <2> QED
    BY <2>4
<1> QED
  BY <1>1, <1>6, <1>7 DEF reach

(* What runs before what: the nodes of a job in sequence, and every node of  *)
(* a job after those of the jobs it waits for.                              *)
RunsBefore(jobs, after, a, b) ==
    \/ \E j \in 1 .. Len(jobs) : \E p, q \in 1 .. Len(jobs[j]) :
          p < q /\ a = jobs[j][p] /\ b = jobs[j][q]
    \/ \E j, k \in 1 .. Len(jobs) :
          k \in after[j] /\ a \in ToSet(jobs[j]) /\ b \in ToSet(jobs[k])

LEMMA JobsRunInOrder ==
    ASSUME NEW n \in Nat, NEW edges \in SUBSET ((1 .. n) \X (1 .. n)), Upwards(n, edges),
           NEW jobs, JobsHold(n, TransitiveReduction(1 .. n, edges), jobs),
           NEW waits, JobWaits(edges, jobs, waits), NEW a \in 1 .. n, NEW b \in 1 .. n
    PROVE  RunsBefore(jobs, Reachable(1 .. Len(jobs), TransitiveReduction(1 .. Len(jobs), waits)), a, b)
              <=> b \in Reachable(1 .. n, edges)[a]
<1> DEFINE N == 1 .. n
           m == Len(jobs)
           M == 1 .. m
           reduced == TransitiveReduction(N, edges)
           reach == Reachable(N, edges)
           after == Reachable(M, waits)
           kept == Reachable(M, TransitiveReduction(M, waits))
           rank == [j \in M |-> jobs[j][1]]
           Runs(x, y) == RunsBefore(jobs, kept, x, y)
<1>1. /\ m \in Nat
      /\ \A j \in M : JobChain(n, reduced, jobs[j])
      /\ \A i, j \in M : i # j => ToSet(jobs[i]) \cap ToSet(jobs[j]) = {}
      /\ \A x \in N : \E j \in M : x \in ToSet(jobs[j])
  <2>1. m \in Nat
    BY JobsCount
  <2> HIDE DEF reduced
  <2> QED
    BY <2>1 DEF JobsHold, reduced
<1>2. waits \in SUBSET (M \X M)
  BY DEF JobWaits
<1>3. Ranked(m, waits, rank)
  BY WaitingJobs
<1>4. \A j \in M : \A k \in after[j] :
          \A x \in ToSet(jobs[j]), y \in ToSet(jobs[k]) : y \in reach[x]
  BY WaitingJobs
<1>5. \A j, k \in M : k \in kept[j] <=> k \in after[j]
  <2> HIDE DEF m, rank
  <2> QED
    BY <1>1, <1>2, <1>3, ReductionReaches
<1>6. /\ \A x, y \in M : <<x, y>> \in waits => y \in after[x]
      /\ \A x, y, z \in M : y \in after[x] /\ z \in after[y] => z \in after[x]
  <2> HIDE DEF m
  <2> QED
    BY <1>1, <1>2, ReachableFacts
<1>7. \A j \in M : /\ Len(jobs[j]) \in Nat
                   /\ \A x : x \in ToSet(jobs[j]) <=> \E p \in 1 .. Len(jobs[j]) : x = jobs[j][p]
                   /\ \A p, q \in 1 .. Len(jobs[j]) :
                        p < q => jobs[j][q] \in reach[jobs[j][p]] /\ jobs[j][p] < jobs[j][q]
                   /\ \A p \in 1 .. Len(jobs[j]) : jobs[j][p] \in N
  <2> TAKE j \in M
  <2> DEFINE job == jobs[j]
  <2>1. JobChain(n, reduced, job)
    BY <1>1
  <2> HIDE DEF job
  <2>2. /\ Len(job) \in Nat /\ DOMAIN job = 1 .. Len(job)
        /\ \A p \in 1 .. Len(job) : job[p] \in N
    BY <2>1, ChainNodes
  <2>3. \A x : x \in ToSet(job) <=> \E p \in 1 .. Len(job) : x = job[p]
    BY <2>2 DEF ToSet
  <2>4. ASSUME NEW p \in 1 .. Len(job), NEW q \in 1 .. Len(job), p < q
        PROVE  job[q] \in reach[job[p]] /\ job[p] < job[q]
    <3>1. job[q] \in reach[job[p]]
      BY <2>1, <2>4, ChainReaches
    <3> HIDE DEF reduced
    <3>2. job[p] < job[q]
      BY <2>1, <2>4 DEF JobChain
    <3> QED
      BY <3>1, <3>2
  <2> HIDE DEF reach
  <2> QED
    BY <2>2, <2>3, <2>4 DEF job
<1> HIDE DEF m, reduced, reach, after, kept, rank
<1>8. m = Len(jobs)
  BY DEF m
<1>9. ASSUME Runs(a, b) PROVE b \in reach[a]
  <2>1. CASE \E j \in M : \E p, q \in 1 .. Len(jobs[j]) : p < q /\ a = jobs[j][p] /\ b = jobs[j][q]
    <3>1. PICK j \in M : \E p, q \in 1 .. Len(jobs[j]) : p < q /\ a = jobs[j][p] /\ b = jobs[j][q]
      BY <2>1
    <3>2. PICK p \in 1 .. Len(jobs[j]), q \in 1 .. Len(jobs[j]) :
                p < q /\ a = jobs[j][p] /\ b = jobs[j][q]
      BY <3>1
    <3>3. jobs[j][q] \in reach[jobs[j][p]]
      BY <1>7, <3>2
    <3> QED
      BY <3>2, <3>3
  <2>2. CASE \E j, k \in M : k \in kept[j] /\ a \in ToSet(jobs[j]) /\ b \in ToSet(jobs[k])
    BY <1>4, <1>5, <2>2
  <2> QED
    BY <1>8, <1>9, <2>1, <2>2 DEF RunsBefore
<1>10. ASSUME NEW x \in N, NEW y \in N, <<x, y>> \in edges PROVE Runs(x, y)
  <2>1. PICK j \in M : x \in ToSet(jobs[j])
    BY <1>1
  <2>2. PICK k \in M : y \in ToSet(jobs[k])
    BY <1>1
  <2>3. CASE j = k
    <3>1. PICK p \in 1 .. Len(jobs[j]) : x = jobs[j][p]
      BY <1>7, <2>1
    <3>2. PICK q \in 1 .. Len(jobs[j]) : y = jobs[j][q]
      BY <1>7, <2>2, <2>3, ZenonT(60)
    <3>3. x < y
      BY <1>10 DEF Upwards
    <3>4. p < q
      <4> SUFFICES ASSUME q <= p PROVE FALSE
        BY <1>7
      <4>1. q = p \/ q < p
        BY <1>7
      <4>2. CASE q = p
        BY <3>1, <3>2, <3>3, <4>2
      <4>3. CASE q < p
        <5>1. y < x
          BY <1>7, <3>1, <3>2, <4>3
        <5> QED
          BY <3>3, <5>1
      <4> QED
        BY <4>1, <4>2, <4>3
    <3> QED
      BY <1>8, <3>1, <3>2, <3>4 DEF RunsBefore
  <2>4. CASE j # k
    <3>1. <<j, k>> \in waits
      BY <1>8, <1>10, <2>1, <2>2, <2>4 DEF JobWaits
    <3>2. k \in kept[j]
      BY <1>5, <1>6, <3>1
    <3> QED
      BY <1>8, <2>1, <2>2, <3>2 DEF RunsBefore
  <2> QED
    BY <2>3, <2>4
<1>11. ASSUME NEW x \in N, NEW y \in N, NEW z \in N, Runs(x, y), Runs(y, z) PROVE Runs(x, z)
  <2> DEFINE Same(u, w) == \E j \in M : \E p, q \in 1 .. Len(jobs[j]) :
                              p < q /\ u = jobs[j][p] /\ w = jobs[j][q]
             Later(u, w) == \E j, k \in M : k \in kept[j] /\ u \in ToSet(jobs[j]) /\ w \in ToSet(jobs[k])
  <2>1. \A u, w : Runs(u, w) <=> Same(u, w) \/ Later(u, w)
    BY <1>8 DEF RunsBefore
  <2>2. \A i, j \in M : \A u : u \in ToSet(jobs[i]) /\ u \in ToSet(jobs[j]) => i = j
    BY <1>1
  <2>3. \A u, w : Same(u, w) => \E j \in M : u \in ToSet(jobs[j]) /\ w \in ToSet(jobs[j])
    BY <1>7, ZenonT(60)
  <2>4. CASE Same(x, y) /\ Same(y, z)
    <3>1. PICK j \in M : \E p, q \in 1 .. Len(jobs[j]) : p < q /\ x = jobs[j][p] /\ y = jobs[j][q]
      BY <2>4
    <3>2. PICK p \in 1 .. Len(jobs[j]), q \in 1 .. Len(jobs[j]) : p < q /\ x = jobs[j][p] /\ y = jobs[j][q]
      BY <3>1
    <3>3. PICK k \in M : \E s, t \in 1 .. Len(jobs[k]) : s < t /\ y = jobs[k][s] /\ z = jobs[k][t]
      BY <2>4
    <3>4. PICK s \in 1 .. Len(jobs[k]), t \in 1 .. Len(jobs[k]) : s < t /\ y = jobs[k][s] /\ z = jobs[k][t]
      BY <3>3
    <3>5. y \in ToSet(jobs[j]) /\ y \in ToSet(jobs[k])
      BY <1>7, <3>2, <3>4
    <3>6. k = j
      BY <2>2, <3>5
    <3>7. q = s
      <4> SUFFICES ASSUME q # s PROVE FALSE
        OBVIOUS
      <4>1. q < s \/ s < q
        BY <3>6
      <4>2. jobs[j][q] < jobs[j][s] \/ jobs[j][s] < jobs[j][q]
        BY <1>7, <3>6, <4>1
      <4>3. jobs[j][q] = jobs[j][s] /\ jobs[j][q] \in N
        BY <1>7, <3>2, <3>4, <3>6
      <4> QED
        BY <4>2, <4>3
    <3>8. p < t
      BY <3>2, <3>4, <3>6, <3>7
    <3>9. Same(x, z)
      BY <3>2, <3>4, <3>6, <3>8
    <3> QED
      BY <2>1, <3>9
  <2>5. CASE Same(x, y) /\ Later(y, z)
    <3>1. PICK j \in M : x \in ToSet(jobs[j]) /\ y \in ToSet(jobs[j])
      BY <2>3, <2>5
    <3>2. PICK i \in M, k \in M : k \in kept[i] /\ y \in ToSet(jobs[i]) /\ z \in ToSet(jobs[k])
      BY <2>5
    <3>3. i = j
      BY <2>2, <3>1, <3>2
    <3>4. Later(x, z)
      BY <3>1, <3>2, <3>3
    <3> QED
      BY <2>1, <3>4
  <2>6. CASE Later(x, y) /\ Same(y, z)
    <3>1. PICK j \in M : y \in ToSet(jobs[j]) /\ z \in ToSet(jobs[j])
      BY <2>3, <2>6
    <3>2. PICK i \in M, k \in M : k \in kept[i] /\ x \in ToSet(jobs[i]) /\ y \in ToSet(jobs[k])
      BY <2>6
    <3>3. k = j
      BY <2>2, <3>1, <3>2
    <3>4. Later(x, z)
      BY <3>1, <3>2, <3>3
    <3> QED
      BY <2>1, <3>4
  <2>7. CASE Later(x, y) /\ Later(y, z)
    <3>1. PICK i \in M, j \in M : j \in kept[i] /\ x \in ToSet(jobs[i]) /\ y \in ToSet(jobs[j])
      BY <2>7
    <3>2. PICK h \in M, k \in M : k \in kept[h] /\ y \in ToSet(jobs[h]) /\ z \in ToSet(jobs[k])
      BY <2>7
    <3>3. h = j
      BY <2>2, <3>1, <3>2
    <3>4. k \in kept[i]
      BY <1>5, <1>6, <3>1, <3>2, <3>3
    <3>5. Later(x, z)
      BY <3>1, <3>2, <3>4
    <3> QED
      BY <2>1, <3>5
  <2> QED
    BY <1>11, <2>1, <2>4, <2>5, <2>6, <2>7
<1>12. ASSUME b \in reach[a] PROVE Runs(a, b)
  <2> DEFINE R == {e \in N \X N : Runs(e[1], e[2])}
  <2> HIDE DEF Runs
  <2>1. edges \subseteq R
    <3> SUFFICES ASSUME NEW e \in edges PROVE e \in R
      OBVIOUS
    <3>1. e = <<e[1], e[2]>> /\ e[1] \in N /\ e[2] \in N
      OBVIOUS
    <3>2. Runs(e[1], e[2])
      BY <1>10, <3>1
    <3> QED
      BY <3>1, <3>2
  <2>2. Transitive(R)
    <3> SUFFICES ASSUME NEW u, NEW v, NEW w, <<u, v>> \in R, <<v, w>> \in R
                 PROVE  <<u, w>> \in R
      BY DEF Transitive
    <3>1. u \in N /\ v \in N /\ w \in N /\ Runs(u, v) /\ Runs(v, w)
      OBVIOUS
    <3>2. Runs(u, w)
      BY <1>11, <3>1
    <3> QED
      BY <3>1, <3>2
  <2>3. <<a, b>> \in R
    <3> HIDE DEF R
    <3> QED
      BY <1>12, <2>1, <2>2, ReachableFacts DEF reach
  <2> QED
    BY <2>3
<1>13. Runs(a, b) <=> b \in reach[a]
  BY <1>9, <1>12
<1> QED
  BY <1>13 DEF reach, kept, m

(* The plan's order is that of its jobs.                                    *)
LEMMA PlanFacts ==
    ASSUME NEW n \in Nat, DOMAIN ir.data.nodes = 1 .. n, PlanFound(ir),
           Upwards(n, NodeEdges(ir.data))
    PROVE  /\ PlanOrder \subseteq (1 .. n) \X (1 .. n)
           /\ \A a, b \in 1 .. n :
                 <<a, b>> \in PlanOrder <=> b \in Reachable(1 .. n, NodeEdges(ir.data))[a]
<1> DEFINE N == 1 .. n
           edges == NodeEdges(ir.data)
           reduced == TransitiveReduction(N, edges)
           jobs == PlanJobs(ir.data)
           m == Len(jobs)
           M == 1 .. m
           waits == JobEdges(ir.data, jobs)
           kept == TransitiveReduction(M, waits)
           after == Reachable(M, kept)
<1>1. edges \in SUBSET (N \X N) /\ reduced \in SUBSET (N \X N)
  BY DEF NodeEdges, TransitiveReduction
<1>2. JobsHold(n, reduced, jobs)
  <2> DEFINE data == ir.data
  <2>1. DOMAIN data.nodes = 1 .. n
    OBVIOUS
  <2>2. jobs = PlannedJobs(data, edges, reduced, ReleaseBoundary(data))
    BY DEF PlanJobs
  <2> HIDE DEF data, edges, reduced, jobs
  <2>3. JobsHold(n, reduced, PlannedJobs(data, edges, reduced, ReleaseBoundary(data)))
    BY <1>1, <2>1, PlannedJobsFacts
  <2> QED
    BY <2>2, <2>3
<1>3. m \in Nat /\ DOMAIN jobs = M
  <2> HIDE DEF jobs, reduced
  <2> QED
    BY <1>2, JobsCount
<1>4. \A j \in M : /\ Len(jobs[j]) \in Nat /\ DOMAIN jobs[j] = 1 .. Len(jobs[j])
                   /\ \A p \in 1 .. Len(jobs[j]) : jobs[j][p] \in N
                   /\ ToSet(jobs[j]) \subseteq N
  <2> TAKE j \in M
  <2> DEFINE job == jobs[j]
  <2>1. JobChain(n, reduced, job)
    <3> HIDE DEF jobs, reduced
    <3> QED
      BY <1>2 DEF JobsHold
  <2> HIDE DEF job, N, reduced
  <2>2. /\ Len(job) \in Nat /\ DOMAIN job = 1 .. Len(job)
        /\ \A p \in 1 .. Len(job) : job[p] \in N
    BY <2>1, ChainNodes DEF N
  <2>3. ToSet(job) \subseteq N
    BY <2>2 DEF ToSet
  <2> QED
    BY <2>2, <2>3 DEF job
<1>5. JobWaits(edges, jobs, waits)
  <2>1. waits \in SUBSET (M \X M)
    <3> HIDE DEF jobs, m
    <3> QED
      BY <1>3 DEF JobEdges
  <2>2. ASSUME NEW j \in M, NEW k \in M
        PROVE  <<j, k>> \in waits <=>
                  j # k /\ \E p \in ToSet(jobs[j]), i \in ToSet(jobs[k]) : <<p, i>> \in edges
    <3> HIDE DEF jobs, m
    <3>1. <<j, k>> \in waits <=>
            j # k /\ \E i \in ToSet(jobs[k]) : ToSet(jobs[j]) \cap ir.data.nodes[i].preds # {}
      BY <1>3 DEF JobEdges
    <3>2. \A p \in ToSet(jobs[j]), i \in ToSet(jobs[k]) :
             <<p, i>> \in edges <=> p \in ir.data.nodes[i].preds
      BY <1>4 DEF NodeEdges
    <3> QED
      BY <3>1, <3>2
  <2> HIDE DEF jobs, edges, waits
  <2> QED
    BY <2>1, <2>2 DEF JobWaits
<1>6. ir.plan = DescribeJobs(ir.data, jobs, TransitiveReduction(DOMAIN jobs, waits))
  BY SMTT(60) DEF PlanFound, BuildJobPlan, ReduceJobs
<1> HIDE DEF jobs
<1>7. /\ DOMAIN ir.plan = M
      /\ \A j \in M : ir.plan[j].nodes = jobs[j] /\ ir.plan[j].preds = Before(j, kept)
  BY <1>3, <1>6 DEF DescribeJobs
<1>8. kept \in SUBSET (M \X M)
  <2>1. waits \in SUBSET (M \X M)
    <3> HIDE DEF waits, m
    <3> QED
      BY <1>5 DEF JobWaits, m
  <2> HIDE DEF waits
  <2> QED
    BY <2>1 DEF TransitiveReduction
<1> HIDE DEF waits, m
<1>9. {e \in M \X M : e[1] \in ir.plan[e[2]].preds} = kept
  <2>1. ASSUME NEW e \in M \X M PROVE e[1] \in ir.plan[e[2]].preds <=> e \in kept
    <3> DEFINE j == e[1]
               k == e[2]
    <3>1. e = <<j, k>> /\ j \in M /\ k \in M
      OBVIOUS
    <3> HIDE DEF j, k, kept
    <3>2. j \in Before(k, kept) <=> <<j, k>> \in kept
      <4>1. ASSUME NEW d \in kept, d[2] = k, d[1] = j PROVE <<j, k>> \in kept
        <5>1. d = <<d[1], d[2]>>
          BY <1>8
        <5> QED
          BY <4>1, <5>1
      <4>2. ASSUME <<j, k>> \in kept PROVE \E d \in kept : d[2] = k /\ d[1] = j
        BY <4>2
      <4> QED
        BY <4>1, <4>2 DEF Before
    <3>3. ir.plan[k].preds = Before(k, kept)
      BY <1>7, <3>1
    <3>4. j \in ir.plan[k].preds <=> <<j, k>> \in kept
      BY <3>2, <3>3
    <3> QED
      BY <3>1, <3>4 DEF j, k
  <2> HIDE DEF kept
  <2> QED
    BY <1>8, <2>1
<1> DEFINE Later(j, p) == {q \in DOMAIN ir.plan[j].nodes : p < q}
           Within(j) == UNION {{<<ir.plan[j].nodes[p], ir.plan[j].nodes[q]>> : q \in Later(j, p)} :
                                  p \in DOMAIN ir.plan[j].nodes}
           In(j) == ToSet(ir.plan[j].nodes)
           Rest(j) == UNION {In(j) \X In(k) : k \in after[j]}
<1>10. PlanOrder = UNION {Within(j) \cup Rest(j) : j \in M}
  <2> DEFINE J == DOMAIN ir.plan
             waiting == {e \in J \X J : e[1] \in ir.plan[e[2]].preds}
             R == Reachable(J, waiting)
  <2>1. PlanOrder = UNION {Within(j) \cup UNION {In(j) \X In(k) : k \in R[j]} : j \in J}
    BY DEF PlanOrder
  <2>2. J = M
    BY <1>7
  <2>3. waiting = kept
    BY <1>9, <2>2
  <2> HIDE DEF J, waiting, kept, Within, In
  <2> QED
    BY <2>1, <2>2, <2>3
<1>11. ASSUME NEW j \in M, NEW d
       PROVE  d \in Within(j) <=> \E p, q \in 1 .. Len(jobs[j]) : p < q /\ d = <<jobs[j][p], jobs[j][q]>>
  <2>1. DOMAIN ir.plan[j].nodes = 1 .. Len(jobs[j]) /\ ir.plan[j].nodes = jobs[j]
    BY <1>4, <1>7
  <2>2. Within(j) = UNION {{<<jobs[j][p], jobs[j][q]>> : q \in {x \in 1 .. Len(jobs[j]) : p < x}} :
                               p \in 1 .. Len(jobs[j])}
    BY <2>1
  <2> HIDE DEF Within
  <2>3. ASSUME d \in Within(j)
        PROVE  \E p, q \in 1 .. Len(jobs[j]) : p < q /\ d = <<jobs[j][p], jobs[j][q]>>
    <3>1. PICK p \in 1 .. Len(jobs[j]) :
              d \in {<<jobs[j][p], jobs[j][q]>> : q \in {x \in 1 .. Len(jobs[j]) : p < x}}
      BY <2>2, <2>3
    <3>2. PICK q \in {x \in 1 .. Len(jobs[j]) : p < x} : d = <<jobs[j][p], jobs[j][q]>>
      BY <3>1
    <3> QED
      BY <3>2
  <2>4. ASSUME NEW p \in 1 .. Len(jobs[j]), NEW q \in 1 .. Len(jobs[j]), p < q,
               d = <<jobs[j][p], jobs[j][q]>>
        PROVE  d \in Within(j)
    <3>1. d \in {<<jobs[j][p], jobs[j][y]>> : y \in {x \in 1 .. Len(jobs[j]) : p < x}}
      BY <2>4
    <3> QED
      BY <2>2, <3>1, SMTT(60)
  <2> QED
    BY <2>3, <2>4
<1> HIDE DEF Within
<1>12. after \in [M -> SUBSET M]
  <2> HIDE DEF kept
  <2>1. kept \in SUBSET ((1 .. m) \X (1 .. m)) /\ m \in Nat
    BY <1>3, <1>8
  <2> QED
    BY <2>1, ReachableFacts
<1> HIDE DEF after
<1>13. ASSUME NEW j \in M, NEW d
       PROVE  d \in Rest(j) <=> \E k \in M : /\ k \in after[j]
                                             /\ d \in ToSet(jobs[j]) \X ToSet(jobs[k])
  <2>1. after[j] \subseteq M
    BY <1>12
  <2> QED
    BY <1>7, <2>1
<1> HIDE DEF Rest
<1>14. PlanOrder \subseteq N \X N
  <2> SUFFICES ASSUME NEW j \in M, NEW d \in Within(j) \cup Rest(j) PROVE d \in N \X N
    BY <1>10
  <2>1. CASE d \in Within(j)
    <3>1. PICK p \in 1 .. Len(jobs[j]), q \in 1 .. Len(jobs[j]) : d = <<jobs[j][p], jobs[j][q]>>
      BY <1>11, <2>1
    <3> QED
      BY <1>4, <3>1
  <2>2. CASE d \in Rest(j)
    <3>1. PICK k \in M : d \in ToSet(jobs[j]) \X ToSet(jobs[k])
      BY <1>13, <2>2
    <3> QED
      BY <1>4, <3>1
  <2> QED
    BY <2>1, <2>2
<1>15. ASSUME NEW a \in N, NEW b \in N
       PROVE  <<a, b>> \in PlanOrder <=> RunsBefore(jobs, after, a, b)
  <2>1. <<a, b>> \in PlanOrder <=> \E j \in M : <<a, b>> \in Within(j) \/ <<a, b>> \in Rest(j)
    BY <1>10
  <2>2. \A j \in M : <<a, b>> \in Within(j) <=>
            \E p, q \in 1 .. Len(jobs[j]) : p < q /\ a = jobs[j][p] /\ b = jobs[j][q]
    BY <1>11, SMTT(60)
  <2>3. \A j \in M : <<a, b>> \in Rest(j) <=>
            \E k \in M : k \in after[j] /\ a \in ToSet(jobs[j]) /\ b \in ToSet(jobs[k])
    BY <1>13
  <2>4. M = 1 .. Len(jobs)
    BY DEF m
  <2> QED
    BY <2>1, <2>2, <2>3, <2>4 DEF RunsBefore
<1> HIDE DEF edges, reduced
<1>16. ASSUME NEW a \in N, NEW b \in N
       PROVE  RunsBefore(jobs, after, a, b) <=> b \in Reachable(N, edges)[a]
  <2>1. Upwards(n, edges)
    BY DEF edges
  <2>2. JobsHold(n, TransitiveReduction(1 .. n, edges), jobs)
    BY <1>2 DEF reduced
  <2>3. RunsBefore(jobs, Reachable(1 .. Len(jobs), TransitiveReduction(1 .. Len(jobs), waits)), a, b)
           <=> b \in Reachable(1 .. n, edges)[a]
    BY <1>1, <1>5, <2>1, <2>2, JobsRunInOrder
  <2> QED
    BY <2>3 DEF after, m
<1>17. \A a, b \in N : <<a, b>> \in PlanOrder <=> b \in Reachable(N, edges)[a]
  BY <1>15, <1>16
<1> QED
  BY <1>14, <1>17, SMTT(60) DEF edges

(* JobsKeepOrder: cutting the program into jobs neither loses a dependency   *)
(* nor adds one, whatever chains the jobs were made of and whatever waits    *)
(* the reduction dropped.                                                  *)
THEOREM JobsKeepOrderHolds == Spec => []JobsKeepOrder
<1>1. Compiles /\ EmittedInOrder => JobsKeepOrder
  <2> SUFFICES ASSUME Compiles, EmittedInOrder, stage = "compiled" PROVE JobsKeepOrder
    BY DEF JobsKeepOrder, Compiled
  <2>1. /\ stage \in Planned /\ stage \in Emitted /\ stage \in Lowered
    BY DEF Emitted, Planned, Lowered, Resolved, Ordered, Analyzed, Allocated
  <2>2. PICK n, m : LoweredShape(ir.v, Len(res), n, m)
    BY <2>1, LoweredStream, SMTT(60)
  <2>3. DOMAIN ir.data.nodes = 1 .. n /\ n \in Nat
    <3>1. n \in Nat
      BY <2>2 DEF LoweredShape
    <3> QED
      BY <2>1, <2>2, <3>1, EmittedFacts
  <2>4. PlanFound(ir)
    BY <2>1 DEF Compiles, CompInv
  <2> DEFINE nodes == DOMAIN ir.data.nodes
             edges == NodeEdges(ir.data)
             reach == Reachable(1 .. n, edges)
  <2>5. Upwards(n, edges)
    <3> SUFFICES ASSUME NEW a \in 1 .. n, NEW b \in 1 .. n, <<a, b>> \in edges PROVE a < b
      BY DEF Upwards
    <3>1. a \in ir.data.nodes[b].preds
      BY DEF NodeEdges
    <3> QED
      BY <2>1, <2>3, <3>1 DEF EmittedInOrder, Compiled
  <2>6. /\ PlanOrder \subseteq (1 .. n) \X (1 .. n)
        /\ \A a, b \in 1 .. n : <<a, b>> \in PlanOrder <=> b \in reach[a]
    BY <2>3, <2>4, <2>5, PlanFacts
  <2>7. edges = {e \in nodes \X nodes : e[1] \in ir.data.nodes[e[2]].preds}
    BY DEF NodeEdges
  <2> HIDE DEF edges, reach
  <2>8. PlanOrder = {e \in (1 .. n) \X (1 .. n) : e[2] \in reach[e[1]]}
    <3>1. \A e \in (1 .. n) \X (1 .. n) : e = <<e[1], e[2]>> /\ e[1] \in 1 .. n /\ e[2] \in 1 .. n
      OBVIOUS
    <3>2. \A e \in (1 .. n) \X (1 .. n) : e \in PlanOrder <=> e[2] \in reach[e[1]]
      BY <2>6, <3>1
    <3> QED
      BY <2>6, <3>2
  <2> QED
    BY <2>3, <2>7, <2>8 DEF JobsKeepOrder, reach
<1> QED
  BY <1>1, CompilerInvariant, EmittedInOrderHolds, PTL

-----------------------------------------------------------------------------
(* The resource order.  Acc is the access at a node and a place.            *)
Acc(v, x) == v.nodes[x[1]].acc[x[2]]

(* The earlier accesses of the same resource, reads or others.              *)
Earlier(v, y, isRead) ==
    {x \in OrderedAccesses(v) :
        Ahead(x, y) /\ Acc(v, x).r = Acc(v, y).r /\ (Acc(v, x).mode = "read") = isRead}

LastWriters(v, y) == {w \in Earlier(v, y, FALSE) : \A x \in Earlier(v, y, FALSE) : ~Ahead(w, x)}

ReadersSince(v, y) == {x \in Earlier(v, y, TRUE) : \A w \in Earlier(v, y, FALSE) : Ahead(w, x)}

Precedes(v, y) ==
    IF Acc(v, y).mode = "read" \/ ReadersSince(v, y) = {} THEN LastWriters(v, y) ELSE ReadersSince(v, y)

AliasedAhead(v, y) ==
    {x \in OrderedAccesses(v) :
        /\ Ahead(x, y) /\ Acc(v, x).r # Acc(v, y).r /\ Aliases(v.res, Acc(v, x).r, Acc(v, y).r)
        /\ Acc(v, x).mode # "read" \/ Acc(v, y).mode # "read"}

LEMMA ResourceOrderIs ==
    ASSUME NEW v
    PROVE  AddResourceOrder(v) =
             UNION {{<<x[1], y[1]>> : x \in {z \in Precedes(v, y) \cup AliasedAhead(v, y) : z[1] # y[1]}} :
                       y \in OrderedAccesses(v)}
BY DEF AddResourceOrder, Precedes, AliasedAhead, LastWriters, ReadersSince, Earlier, Acc

LEMMA OrderGives ==
    ASSUME NEW v, NEW y \in OrderedAccesses(v),
           NEW x \in Precedes(v, y) \cup AliasedAhead(v, y), x[1] # y[1]
    PROVE  <<x[1], y[1]>> \in AddResourceOrder(v)
<1> DEFINE F(z) == {<<u[1], z[1]>> : u \in {w \in Precedes(v, z) \cup AliasedAhead(v, z) : w[1] # z[1]}}
<1>1. <<x[1], y[1]>> \in F(y)
  OBVIOUS
<1>2. AddResourceOrder(v) = UNION {F(z) : z \in OrderedAccesses(v)}
  BY ResourceOrderIs
<1> HIDE DEF F
<1> QED
  BY <1>1, <1>2

(* The accesses are finitely many, and recorded in a sequence.               *)
LEMMA AccessesFinite ==
    ASSUME NEW v, NEW R, NEW n, NEW m, LoweredShape(v, R, n, m)
    PROVE  /\ IsFiniteSet(OrderedAccesses(v))
           /\ \A x \in OrderedAccesses(v) : /\ x = <<x[1], x[2]>> /\ x[1] \in 1 .. n /\ x[2] \in Nat
                                            /\ x[2] \in DOMAIN v.nodes[x[1]].acc
                                            /\ Acc(v, x).r \in 1 .. R
<1> DEFINE Kept(i) == {j \in DOMAIN v.nodes[i].acc :
                          v.nodes[i].acc[j].in = 0 \/ ~IsBackedge(v, i, v.nodes[i].acc[j].in)}
           Of(i) == {i} \X Kept(i)
           All == {Of(i) : i \in 1 .. n}
<1>1. /\ n \in Nat /\ DOMAIN v.nodes = 1 .. n
      /\ \A i \in 1 .. n : \E h \in Nat :
            DOMAIN v.nodes[i].acc = 1 .. h /\ \A j \in 1 .. h : v.nodes[i].acc[j].r \in 1 .. R
  BY DEF LoweredShape
<1>2. OrderedAccesses(v) = UNION All
  BY <1>1 DEF OrderedAccesses
<1>3. ASSUME NEW i \in 1 .. n
      PROVE  IsFiniteSet(Of(i)) /\ Kept(i) \subseteq Nat
  <2>1. PICK h \in Nat : DOMAIN v.nodes[i].acc = 1 .. h
    BY <1>1
  <2>2. IsFiniteSet(1 .. h)
    BY IntervalSize
  <2>3. Kept(i) \subseteq 1 .. h
    BY <2>1
  <2> HIDE DEF Kept
  <2>4. IsFiniteSet(Kept(i))
    BY <2>2, <2>3, FS_Subset
  <2>5. IsFiniteSet({i})
    BY FS_Singleton
  <2>6. IsFiniteSet(Of(i))
    BY <2>4, <2>5, FS_Product
  <2> QED
    BY <2>3, <2>6
<1>4. ASSUME NEW x \in OrderedAccesses(v)
      PROVE  /\ x = <<x[1], x[2]>> /\ x[1] \in 1 .. n /\ x[2] \in Nat
             /\ x[2] \in DOMAIN v.nodes[x[1]].acc
             /\ Acc(v, x).r \in 1 .. R
  <2>1. PICK i \in 1 .. n : x \in Of(i)
    BY <1>2
  <2>2. x[1] = i /\ x[2] \in Kept(i) /\ x = <<x[1], x[2]>>
    BY <2>1
  <2>3. x[2] \in DOMAIN v.nodes[i].acc
    BY <2>2, SMTT(60)
  <2>4. Acc(v, x).r \in 1 .. R
    BY <1>1, <2>2, <2>3 DEF Acc
  <2> HIDE DEF Kept, Of
  <2> QED
    BY <1>3, <2>2, <2>3, <2>4, SMTT(60)
<1>5. IsFiniteSet(OrderedAccesses(v))
  <2>1. IsFiniteSet(All)
    <3>1. IsFiniteSet(1 .. n)
      BY <1>1, IntervalSize
    <3> HIDE DEF Of
    <3> DEFINE f == [i \in 1 .. n |-> Of(i)]
    <3>2. f \in Surjection(1 .. n, All)
      BY DEF Surjection
    <3> HIDE DEF f, All
    <3> QED
      BY <3>1, <3>2, FS_Surjection
  <2>2. \A S \in All : IsFiniteSet(S)
    <3> HIDE DEF Of
    <3> QED
      BY <1>3
  <2> HIDE DEF All
  <2> QED
    BY <1>2, <2>1, <2>2, FS_UNION
<1> QED
  BY <1>4, <1>5

(* The last of a set of accesses, and induction over their order.           *)
LEMMA AccessOrder ==
    ASSUME NEW v, NEW R, NEW n, NEW m, LoweredShape(v, R, n, m)
    PROVE  /\ \A S \in SUBSET OrderedAccesses(v) :
                 S # {} => \E w \in S : \A x \in S : ~Ahead(w, x)
           /\ \A S \in SUBSET OrderedAccesses(v) :
                 S # {} => \E w \in S : \A x \in S : ~Ahead(x, w)
           /\ \A x, y \in OrderedAccesses(v) : x = y \/ Ahead(x, y) \/ Ahead(y, x)
           /\ \A x, y, z \in OrderedAccesses(v) : Ahead(x, y) /\ Ahead(y, z) => Ahead(x, z)
           /\ \A x \in OrderedAccesses(v) : ~Ahead(x, x)
<1> DEFINE L == OrderedAccesses(v)
<1>1. /\ IsFiniteSet(L)
      /\ \A x \in L : x = <<x[1], x[2]>> /\ x[1] \in Nat /\ x[2] \in Nat
  <2>1. n \in Nat
    BY DEF LoweredShape
  <2> QED
    BY <2>1, AccessesFinite
<1> HIDE DEF L
<1>2. \A x, y \in L : x = y \/ Ahead(x, y) \/ Ahead(y, x)
  <2> TAKE x, y \in L
  <2>1. /\ x = <<x[1], x[2]>> /\ x[1] \in Nat /\ x[2] \in Nat
        /\ y = <<y[1], y[2]>> /\ y[1] \in Nat /\ y[2] \in Nat
    BY <1>1
  <2>2. x[1] = y[1] /\ x[2] = y[2] => x = y
    BY <2>1
  <2> QED
    BY <2>1, <2>2 DEF Ahead
<1>3. \A x, y, z \in L : Ahead(x, y) /\ Ahead(y, z) => Ahead(x, z)
  <2> TAKE x, y, z \in L
  <2>1. /\ x[1] \in Nat /\ x[2] \in Nat /\ y[1] \in Nat /\ y[2] \in Nat
        /\ z[1] \in Nat /\ z[2] \in Nat
    BY <1>1
  <2> QED
    BY <2>1 DEF Ahead
<1>4. \A x \in L : ~Ahead(x, x)
  <2> TAKE x \in L
  <2>1. x[1] \in Nat /\ x[2] \in Nat
    BY <1>1
  <2> QED
    BY <2>1 DEF Ahead
<1>5. ASSUME NEW S \in SUBSET L, S # {} PROVE \E w \in S : \A x \in S : ~Ahead(x, w)
  <2> DEFINE Q == {e \in L \X L : Ahead(e[1], e[2])}
  <2>1. \A a, b : <<a, b>> \in Q <=> a \in L /\ b \in L /\ Ahead(a, b)
    OBVIOUS
  <2> HIDE DEF Q
  <2>2. Transitive(Q)
    BY <1>3, <2>1 DEF Transitive
  <2>3. \A a \in L : <<a, a>> \notin Q
    BY <1>4, <2>1
  <2>4. PICK w \in S : \A x \in S : <<x, w>> \notin Q
    BY <1>1, <1>5, <2>2, <2>3, MinimalNode
  <2> QED
    BY <2>1, <2>4
<1>6. ASSUME NEW S \in SUBSET L, S # {} PROVE \E w \in S : \A x \in S : ~Ahead(w, x)
  <2> DEFINE Q == {e \in L \X L : Ahead(e[2], e[1])}
  <2>1. \A a, b : <<a, b>> \in Q <=> a \in L /\ b \in L /\ Ahead(b, a)
    OBVIOUS
  <2> HIDE DEF Q
  <2>2. Transitive(Q)
    BY <1>3, <2>1 DEF Transitive
  <2>3. \A a \in L : <<a, a>> \notin Q
    BY <1>4, <2>1
  <2>4. PICK w \in S : \A x \in S : <<x, w>> \notin Q
    BY <1>1, <1>6, <2>2, <2>3, MinimalNode
  <2> QED
    BY <2>1, <2>4
<1> QED
  BY <1>2, <1>3, <1>4, <1>5, <1>6 DEF L

(* add_resource_order() keeps, for every access, one or a few of the         *)
(* constraints it is under; the others follow from these.                   *)
Conflict(v, x, y) == Acc(v, x).mode # "read" \/ Acc(v, y).mode # "read"

Follows(Q, x, y) == x[1] = y[1] \/ <<x[1], y[1]>> \in Q

LEMMA SameResourceFollows ==
    ASSUME NEW v, NEW R, NEW n, NEW m, LoweredShape(v, R, n, m),
           NEW Q, Transitive(Q), AddResourceOrder(v) \subseteq Q
    PROVE  \A y \in OrderedAccesses(v) : \A x \in OrderedAccesses(v) :
              Ahead(x, y) /\ Acc(v, x).r = Acc(v, y).r /\ Conflict(v, x, y) => Follows(Q, x, y)
<1> DEFINE L == OrderedAccesses(v)
           Held(y) == \A x \in L : Ahead(x, y) /\ Acc(v, x).r = Acc(v, y).r /\ Conflict(v, x, y)
                                   => Follows(Q, x, y)
           Bad == {y \in L : ~Held(y)}
<1>1. /\ \A S \in SUBSET L : S # {} => \E w \in S : \A x \in S : ~Ahead(w, x)
      /\ \A S \in SUBSET L : S # {} => \E w \in S : \A x \in S : ~Ahead(x, w)
      /\ \A x, y \in L : x = y \/ Ahead(x, y) \/ Ahead(y, x)
      /\ \A x, y, z \in L : Ahead(x, y) /\ Ahead(y, z) => Ahead(x, z)
      /\ \A x \in L : ~Ahead(x, x)
  BY AccessOrder
<1>2. \A x, y, z : Follows(Q, x, y) /\ Follows(Q, y, z) => Follows(Q, x, z)
  BY Zenon DEF Transitive, Follows
<1>3. ASSUME NEW y \in L, NEW x \in Precedes(v, y) PROVE Follows(Q, x, y)
  BY OrderGives DEF Follows
<1> HIDE DEF L
<1>4. ASSUME NEW y \in L, \A z \in L : Ahead(z, y) => Held(z) PROVE Held(y)
  <2> DEFINE W == Earlier(v, y, FALSE)
  <2>1. \A w : w \in W <=> w \in L /\ Ahead(w, y) /\ Acc(v, w).r = Acc(v, y).r /\ Acc(v, w).mode # "read"
    BY DEF Earlier, L
  <2>2. \A x : x \in Earlier(v, y, TRUE) <=>
                 x \in L /\ Ahead(x, y) /\ Acc(v, x).r = Acc(v, y).r /\ Acc(v, x).mode = "read"
    BY DEF Earlier, L
  <2> HIDE DEF W, Held
  <2>3. \A z, x \in L : /\ Ahead(z, y) /\ Ahead(x, z) /\ Acc(v, x).r = Acc(v, z).r
                        /\ Acc(v, x).mode # "read" \/ Acc(v, z).mode # "read"
                        => Follows(Q, x, z)
    BY <1>4 DEF Held, Conflict
  <2>4. ASSUME NEW x \in W PROVE Follows(Q, x, y)
    <3>1. PICK w \in W : \A z \in W : ~Ahead(w, z)
      BY <1>1, <2>1
    <3>2. w \in LastWriters(v, y)
      BY <3>1 DEF LastWriters, W
    <3>3. Follows(Q, x, w)
      <4>1. x \in L /\ w \in L
        BY <2>1
      <4>2. x = w \/ Ahead(x, w)
        BY <1>1, <3>1, <4>1
      <4>3. CASE x = w
        BY <4>3 DEF Follows
      <4>4. CASE Ahead(x, w)
        BY <2>1, <2>3, <4>1, <4>4
      <4> QED
        BY <4>2, <4>3, <4>4
    <3>4. Follows(Q, w, y)
      <4>1. CASE Acc(v, y).mode = "read" \/ ReadersSince(v, y) = {}
        <5>1. w \in Precedes(v, y)
          BY <3>2, <4>1 DEF Precedes
        <5> QED
          BY <1>3, <5>1
      <4>2. CASE Acc(v, y).mode # "read" /\ ReadersSince(v, y) # {}
        <5>1. PICK x2 : x2 \in ReadersSince(v, y)
          BY <4>2
        <5>2. x2 \in Precedes(v, y)
          BY <4>2, <5>1 DEF Precedes
        <5>3. x2 \in Earlier(v, y, TRUE) /\ Ahead(w, x2)
          BY <5>1 DEF ReadersSince, W
        <5>4. Follows(Q, w, x2)
          BY <2>1, <2>2, <2>3, <5>3
        <5> QED
          BY <1>2, <1>3, <5>2, <5>4
      <4> QED
        BY <4>1, <4>2
    <3> QED
      BY <1>2, <3>3, <3>4
  <2>5. ASSUME NEW x \in Earlier(v, y, TRUE), Acc(v, y).mode # "read" PROVE Follows(Q, x, y)
    <3>1. CASE \A w \in W : Ahead(w, x)
      <4>1. x \in ReadersSince(v, y)
        BY <3>1 DEF ReadersSince, W
      <4>2. x \in Precedes(v, y)
        BY <2>5, <4>1 DEF Precedes
      <4> QED
        BY <1>3, <4>2
    <3>2. CASE \E w \in W : ~Ahead(w, x)
      <4>1. PICK w \in W : ~Ahead(w, x)
        BY <3>2
      <4>2. x # w /\ x \in L /\ w \in L
        BY <2>1, <2>2
      <4>3. Ahead(x, w)
        BY <1>1, <4>1, <4>2
      <4>4. Follows(Q, x, w)
        BY <2>1, <2>2, <2>3, <4>2, <4>3
      <4> QED
        BY <1>2, <2>4, <4>4
    <3> QED
      BY <3>1, <3>2
  <2>6. ASSUME NEW x \in L, Ahead(x, y), Acc(v, x).r = Acc(v, y).r, Conflict(v, x, y)
        PROVE  Follows(Q, x, y)
    <3>1. CASE Acc(v, x).mode # "read"
      BY <2>1, <2>4, <2>6, <3>1
    <3>2. CASE Acc(v, x).mode = "read"
      <4>1. Acc(v, y).mode # "read"
        BY <2>6, <3>2 DEF Conflict
      <4> QED
        BY <2>2, <2>5, <2>6, <3>2, <4>1
    <3> QED
      BY <3>1, <3>2
  <2> QED
    BY <2>6 DEF Held
<1>5. Bad = {}
  <2> SUFFICES ASSUME Bad # {} PROVE FALSE
    OBVIOUS
  <2>1. Bad \in SUBSET L /\ \A y : y \in Bad <=> y \in L /\ ~Held(y)
    OBVIOUS
  <2> HIDE DEF Bad, Held
  <2>2. PICK y \in Bad : \A x \in Bad : ~Ahead(x, y)
    BY <1>1, <2>1
  <2>3. \A z \in L : Ahead(z, y) => Held(z)
    BY <2>1, <2>2
  <2> QED
    BY <1>4, <2>1, <2>2, <2>3
<1> QED
  BY <1>5 DEF L

LEMMA AliasesFollow ==
    ASSUME NEW v, NEW R, NEW n, NEW m, LoweredShape(v, R, n, m),
           NEW Q, Transitive(Q), AddResourceOrder(v) \subseteq Q,
           NEW x \in OrderedAccesses(v), NEW y \in OrderedAccesses(v), Ahead(x, y),
           Aliases(v.res, Acc(v, x).r, Acc(v, y).r), Conflict(v, x, y)
    PROVE  Follows(Q, x, y)
<1>1. CASE Acc(v, x).r = Acc(v, y).r
  BY <1>1, SameResourceFollows
<1>2. CASE Acc(v, x).r # Acc(v, y).r
  <2>1. x \in AliasedAhead(v, y)
    BY <1>2 DEF AliasedAhead, Conflict
  <2> QED
    BY <2>1, OrderGives DEF Follows
<1> QED
  BY <1>1, <1>2

(* The owners of a resource: without projections of projections, itself and  *)
(* what it was projected from.                                             *)
OwnerStep(c, rs, k) == rs \cup ({c[x].owner : x \in rs} \ {0})
Climb == INSTANCE Recursion WITH Step <- OwnerStep

LEMMA OwnerLinks ==
    ASSUME RecInv, ~NestProjections, NEW r \in 1 .. Len(res)
    PROVE  /\ res[r].kind # "projection" => res[r].owner = 0
           /\ res[r].kind = "projection" =>
                 /\ res[r].owner \in 1 .. Len(res) /\ res[r].owner # r
                 /\ res[res[r].owner].kind # "projection" /\ res[res[r].owner].owner = 0
<1>1. Len(res) \in Nat
  BY DEF RecInv, RecTypes
<1>2. \A x \in 1 .. Len(res) :
         /\ res[x].kind # "projection" => res[x].owner = 0
         /\ res[x].kind = "projection" =>
               res[x].owner \in 1 .. x - 1 /\ res[res[x].owner].kind # "projection"
  BY DEF RecInv, RecLinks, ResourceLinks
<1>3. CASE res[r].kind = "projection"
  <2>1. res[r].owner \in 1 .. r - 1 /\ res[res[r].owner].kind # "projection"
    BY <1>2, <1>3
  <2>2. res[r].owner \in 1 .. Len(res) /\ res[r].owner # r
    BY <1>1, <2>1
  <2> QED
    BY <1>2, <1>3, <2>1, <2>2
<1> QED
  BY <1>2, <1>3

LEMMA OwnersAre ==
    ASSUME RecInv, ~NestProjections, ir.data.res = res, NEW r \in 1 .. Len(res), NEW z \in Owners(r)
    PROVE  z = r \/ (z = res[r].owner /\ z # 0)
<1> DEFINE E(k) == Climb!After(res, {r}, k)
           Own(rs) == \A x \in rs : x = r \/ (x = res[r].owner /\ x # 0)
           T == {k \in Nat : Own(E(k))}
<1>1. 0 \in T
  <2>1. E(0) = {r}
    BY Climb!AfterNone
  <2> HIDE DEF E
  <2> QED
    BY <2>1
<1>2. ASSUME NEW k \in Nat, k \in T PROVE k + 1 \in T
  <2>1. E(k + 1) = OwnerStep(res, E(k), k + 1)
    BY Climb!AfterNext
  <2>2. Own(E(k))
    BY <1>2
  <2> HIDE DEF E
  <2>3. E(k + 1) = E(k) \cup ({res[x].owner : x \in E(k)} \ {0})
    BY <2>1 DEF OwnerStep
  <2>4. ASSUME NEW y \in E(k + 1) PROVE y = r \/ (y = res[r].owner /\ y # 0)
    <3>1. CASE y \in E(k)
      BY <2>2, <3>1
    <3>2. CASE y \in {res[x].owner : x \in E(k)} /\ y # 0
      <4>1. PICK x \in E(k) : y = res[x].owner
        BY <3>2
      <4>2. x = r \/ (x = res[r].owner /\ x # 0)
        BY <2>2
      <4>3. CASE x = r
        BY <3>2, <4>1, <4>3
      <4>4. CASE x = res[r].owner /\ x # 0
        <5>1. res[x].owner = 0
          BY <4>4, OwnerLinks
        <5> QED
          BY <3>2, <4>1, <5>1
      <4> QED
        BY <4>2, <4>3, <4>4
    <3> QED
      BY <2>3, <2>4, <3>1, <3>2
  <2> QED
    BY <2>4
<1>3. Len(res) \in T
  <2>1. Len(res) \in Nat
    BY DEF RecInv, RecTypes
  <2> HIDE DEF T
  <2> QED
    BY <1>1, <1>2, <2>1, Climb!Induction
<1>4. Owners(r) = E(Len(res))
  <2> DEFINE c == res
  <2>1. ir.data.res = c
    OBVIOUS
  <2> HIDE DEF c
  <2>2. Owners(r) = Climb!After(c, {r}, Len(c))
    BY <2>1 DEF Owners, Iterate, Climb!After, OwnerStep
  <2> QED
    BY <2>2 DEF c
<1> HIDE DEF E
<1> QED
  BY <1>3, <1>4

(* Resources that share an object are aliases to the compiler.              *)
LEMMA SharingAliases ==
    ASSUME RecInv, ~NestProjections, ir.data.res = res,
           NEW x \in 1 .. Len(res), NEW y \in 1 .. Len(res), SharesObject(x, y)
    PROVE  Aliases(res, x, y)
<1> DEFINE Own(r) == IF res[r].kind = "projection" THEN res[r].owner ELSE r
<1>1. \A a, b : Aliases(res, a, b) <=>
         \/ a = b
         \/ /\ Own(a) = Own(b)
            /\ res[a].kind = "projection" /\ res[b].kind = "projection" => res[a].over \/ res[b].over
  BY DEF Aliases
<1>2. \A r \in 1 .. Len(res) :
         /\ res[r].kind # "projection" => res[r].owner = 0
         /\ res[r].kind = "projection" =>
               /\ res[r].owner \in 1 .. Len(res) /\ res[r].owner # r
               /\ res[res[r].owner].kind # "projection" /\ res[res[r].owner].owner = 0
  BY OwnerLinks
<1>3. \A r \in 1 .. Len(res) : \A z \in Owners(r) : z = r \/ (z = res[r].owner /\ z # 0)
  BY OwnersAre
<1>4. CASE x \in Owners(y)
  <2>1. x = y \/ (x = res[y].owner /\ x # 0)
    BY <1>3, <1>4
  <2> QED
    BY <1>1, <1>2, <2>1
<1>5. CASE y \in Owners(x)
  <2>1. x = y \/ (y = res[x].owner /\ y # 0)
    BY <1>3, <1>5
  <2> QED
    BY <1>1, <1>2, <2>1, SMTT(60)
<1>6. CASE \E a \in Owners(x) \ {y}, b \in Owners(y) \ {x} :
             /\ a # b /\ ir.data.res[a].owner = ir.data.res[b].owner /\ ir.data.res[a].owner # 0
             /\ ir.data.res[a].over \/ ir.data.res[b].over
  <2>1. PICK a \in Owners(x) \ {y}, b \in Owners(y) \ {x} :
             /\ a # b /\ res[a].owner = res[b].owner /\ res[a].owner # 0
             /\ res[a].over \/ res[b].over
    BY <1>6
  <2>2. a = x /\ b = y
    <3>1. a = x \/ (a = res[x].owner /\ a # 0)
      BY <1>3
    <3>2. b = y \/ (b = res[y].owner /\ b # 0)
      BY <1>3
    <3> QED
      BY <1>2, <2>1, <3>1, <3>2
  <2>3. res[x].kind = "projection" /\ res[y].kind = "projection"
    BY <1>2, <2>1, <2>2
  <2> QED
    BY <1>1, <2>1, <2>2, <2>3
<1> QED
  BY <1>4, <1>5, <1>6 DEF SharesObject

(* The runtime program has the phis of the lowered one.                      *)
LEMMA EmittedPhis ==
    ASSUME Compiles, stage \in Emitted
    PROVE  /\ DOMAIN ir.data.phis = DOMAIN ir.v.phis
           /\ \A p \in DOMAIN ir.v.phis : /\ ir.data.phis[p].node = RuntimeOf[ir.v.phis[p].node]
                                          /\ ir.data.phis[p].fb = ir.v.phis[p].fb
<1> DEFINE gen == [immediate |-> ir.immediate, temporal |-> ir.temporal, act |-> ir.act,
                   life |-> ir.life, layout |-> ir.layout, controls |-> EmitControls(ir.v)]
           v == ir.v
<1>1. ir.data = EmitProgram(v, gen)
  BY SMTT(60) DEF EmitFound, Compiles, CompInv
<1> HIDE DEF gen
<1> DEFINE order == Emission(v, gen.act, gen.immediate).order
           at == [k \in DOMAIN v.nodes |-> CHOOSE i \in DOMAIN order : order[i] = k]
<1>3. /\ ir.data.order = order
      /\ ir.data.phis = [p \in DOMAIN v.phis |->
              [node |-> at[v.phis[p].node], init |-> v.phis[p].init, fb |-> v.phis[p].fb,
               out |-> v.phis[p].out, loop |-> v.phis[p].cond # 0]]
  <2>1. HasTables(ir.data, v, gen)
    BY <1>1, ProgramTables
  <2> QED
    BY <2>1 DEF HasTables
<1>4. at = RuntimeOf
  BY <1>3, SMTT(60) DEF RuntimeOf
<1> HIDE DEF at, order
<1>5. DOMAIN ir.data.phis = DOMAIN v.phis
  BY <1>3, SMTT(60)
<1>6. ASSUME NEW p \in DOMAIN v.phis
      PROVE  ir.data.phis[p].node = at[v.phis[p].node] /\ ir.data.phis[p].fb = v.phis[p].fb
  <2> DEFINE node == at[v.phis[p].node]
             init == v.phis[p].init
             fb == v.phis[p].fb
             out == v.phis[p].out
             loop == v.phis[p].cond # 0
  <2>1. ir.data.phis[p] = [node |-> node, init |-> init, fb |-> fb, out |-> out, loop |-> loop]
    BY <1>3, ZenonT(60)
  <2> HIDE DEF node, init, fb, out, loop
  <2>2. ir.data.phis[p].node = node /\ ir.data.phis[p].fb = fb
    BY <2>1
  <2> QED
    BY <2>2 DEF node, fb
<1> QED
  BY <1>4, <1>5, <1>6

(* A path among the lowered nodes is a path among the runtime nodes.         *)
LEMMA PathsEmitted ==
    ASSUME Compiles, stage \in Emitted, NEW n, NEW m, LoweredShape(ir.v, Len(res), n, m),
           NEW i \in 1 .. n, NEW k \in 1 .. n,
           ir.data.order[k] \in Reachable(1 .. n, ir.immediate)[ir.data.order[i]]
    PROVE  k \in Reachable(1 .. n, NodeEdges(ir.data))[i]
<1> DEFINE N == 1 .. n
           order == ir.data.order
           edges == NodeEdges(ir.data)
           reach == Reachable(N, edges)
           Q == {e \in N \X N : RuntimeOf[e[2]] \in reach[RuntimeOf[e[1]]]}
<1>1. stage \in Ordered /\ n \in Nat
  BY DEF LoweredShape, Emitted, Planned, Ordered, Analyzed, Allocated
<1>2. ir.immediate \in SUBSET (N \X N)
  BY <1>1, ImmediateFacts, SMTT(60)
<1>3. /\ Renumbers(order, RuntimeOf, n)
      /\ DOMAIN ir.data.nodes = N
      /\ \A j \in N : ir.data.nodes[j].preds = {RuntimeOf[x] : x \in Before(order[j], ir.immediate)}
  BY EmittedFacts
<1>4. edges \in SUBSET (N \X N)
  BY <1>3 DEF NodeEdges
<1>5. /\ \A a, b \in N : <<a, b>> \in edges => b \in reach[a]
      /\ \A a, b, c \in N : b \in reach[a] /\ c \in reach[b] => c \in reach[a]
  <2> HIDE DEF edges
  <2> QED
    BY <1>1, <1>4, ReachableFacts
<1>6. \A x \in N : RuntimeOf[x] \in N /\ order[RuntimeOf[x]] = x
  BY <1>3 DEF Renumbers
<1>7. ASSUME NEW x \in N, NEW y \in N, <<x, y>> \in ir.immediate
      PROVE  <<RuntimeOf[x], RuntimeOf[y]>> \in edges
  <2>1. x \in Before(y, ir.immediate)
    BY <1>7 DEF Before
  <2> DEFINE j == RuntimeOf[y]
             earlier == Before(y, ir.immediate)
  <2>2. j \in N /\ ir.data.nodes[j].preds = {RuntimeOf[z] : z \in earlier}
    BY <1>3, <1>6
  <2> HIDE DEF earlier, j
  <2>3. RuntimeOf[x] \in ir.data.nodes[j].preds
    BY <2>1, <2>2 DEF earlier
  <2>4. <<RuntimeOf[x], j>> \in edges
    BY <1>3, <1>6, <2>2, <2>3 DEF NodeEdges
  <2> QED
    BY <2>4 DEF j
<1> HIDE DEF reach, edges
<1>8. ir.immediate \subseteq Q
  <2> SUFFICES ASSUME NEW e \in ir.immediate PROVE e \in Q
    OBVIOUS
  <2>1. e = <<e[1], e[2]>> /\ e[1] \in N /\ e[2] \in N
    BY <1>2
  <2>2. RuntimeOf[e[2]] \in reach[RuntimeOf[e[1]]]
    <3>1. <<RuntimeOf[e[1]], RuntimeOf[e[2]]>> \in edges
      BY <1>7, <2>1
    <3>2. RuntimeOf[e[1]] \in N /\ RuntimeOf[e[2]] \in N
      BY <1>6, <2>1
    <3> QED
      BY <1>5, <3>1, <3>2
  <2> QED
    BY <2>1, <2>2
<1>9. Transitive(Q)
  <2> SUFFICES ASSUME NEW x, NEW y, NEW z, <<x, y>> \in Q, <<y, z>> \in Q
               PROVE  <<x, z>> \in Q
    BY DEF Transitive
  <2>1. /\ x \in N /\ y \in N /\ z \in N
        /\ RuntimeOf[y] \in reach[RuntimeOf[x]] /\ RuntimeOf[z] \in reach[RuntimeOf[y]]
    OBVIOUS
  <2>2. RuntimeOf[z] \in reach[RuntimeOf[x]]
    BY <1>5, <1>6, <2>1
  <2> QED
    BY <2>1, <2>2
<1>10. order[i] \in N /\ order[k] \in N /\ RuntimeOf[order[i]] = i /\ RuntimeOf[order[k]] = k
  BY <1>3 DEF Renumbers
<1>11. <<order[i], order[k]>> \in Q
  <2> DEFINE a == order[i]
             b == order[k]
  <2>1. a \in 1 .. n /\ b \in Reachable(1 .. n, ir.immediate)[a]
    BY <1>10
  <2> HIDE DEF a, b, Q
  <2>2. <<a, b>> \in Q
    BY <1>1, <1>2, <1>8, <1>9, <2>1, ReachableFacts
  <2> QED
    BY <2>2 DEF a, b
<1>12. RuntimeOf[order[k]] \in reach[RuntimeOf[order[i]]]
  BY <1>11
<1> QED
  BY <1>10, <1>12, SMTT(60) DEF reach, edges

(* A runtime node's use is an access the resource order was built from.      *)
LEMMA UsesAreOrdered ==
    ASSUME Compiles, stage \in Emitted, NEW n, NEW m, LoweredShape(ir.v, Len(res), n, m),
           NEW i \in 1 .. n, NEW a \in Uses(i)
    PROVE  \E x \in OrderedAccesses(ir.v) : x[1] = ir.data.order[i] /\ Acc(ir.v, x) = a
<1> DEFINE c == ir.data.order[i]
           acc == ir.v.nodes[c].acc
<1>1. /\ ir.data.nodes[i].acc = acc /\ c \in 1 .. n /\ RuntimeOf[c] = i
  <2>1. Renumbers(ir.data.order, RuntimeOf, n) /\ ir.data.nodes[i].acc = acc
    BY EmittedFacts
  <2> QED
    BY <2>1 DEF Renumbers
<1>2. /\ a \in ToSet(ir.data.nodes[i].acc)
      /\ ~\E p \in ToSet(ir.data.phis) : p.node = i /\ p.fb = a.in /\ a.in # 0
  BY DEF Uses
<1>3. DOMAIN ir.v.nodes = 1 .. n
  BY DEF LoweredShape
<1> HIDE DEF acc, c
<1>4. PICK j \in DOMAIN acc : a = acc[j]
  BY <1>1, <1>2 DEF ToSet
<1>5. ASSUME a.in # 0, IsBackedge(ir.v, c, a.in) PROVE FALSE
  <2>1. PICK q \in DOMAIN ir.v.phis : ir.v.phis[q].node = c /\ ir.v.phis[q].fb = a.in
    BY <1>5 DEF IsBackedge, ToSet
  <2>2. /\ q \in DOMAIN ir.data.phis
        /\ ir.data.phis[q].node = i /\ ir.data.phis[q].fb = a.in
    BY <1>1, <2>1, EmittedPhis
  <2>3. ir.data.phis[q] \in ToSet(ir.data.phis)
    BY <2>2 DEF ToSet
  <2> QED
    BY <1>2, <1>5, <2>2, <2>3
<1> DEFINE Kept(k) == {p \in DOMAIN ir.v.nodes[k].acc :
                          ir.v.nodes[k].acc[p].in = 0 \/ ~IsBackedge(ir.v, k, ir.v.nodes[k].acc[p].in)}
           x == <<c, j>>
<1>6. j \in Kept(c)
  BY <1>4, <1>5, SMTT(60) DEF acc
<1>7. x \in {c} \X Kept(c)
  BY <1>6
<1>8. OrderedAccesses(ir.v) = UNION {{k} \X Kept(k) : k \in 1 .. n}
  BY <1>3 DEF OrderedAccesses
<1> HIDE DEF Kept
<1>9. x \in OrderedAccesses(ir.v)
  BY <1>1, <1>7, <1>8
<1>10. x[1] = c /\ Acc(ir.v, x) = a
  BY <1>4 DEF Acc, acc
<1> QED
  BY <1>9, <1>10, SMTT(60) DEF c

(* ConflictsOrdered: where no projection is projected again, two operations  *)
(* that touch one object, one of them changing it, keep their order from the *)
(* recording to the job plan, however the passes hoist, renumber and group   *)
(* them.  FlowNestedProjections shows that the restriction is needed.         *)
THEOREM ConflictsOrderedHolds ==
    ASSUME ~NestProjections
    PROVE  Spec => []ConflictsOrdered
<1>1. Compiles /\ EmittedInOrder => ConflictsOrdered
  <2> SUFFICES ASSUME Compiles, EmittedInOrder, stage = "compiled",
                      NEW i \in DOMAIN ir.data.nodes, NEW k \in DOMAIN ir.data.nodes,
                      ir.data.nodes[i].source < ir.data.nodes[k].source,
                      NEW a \in Uses(i), NEW b \in Uses(k), SharesObject(a.r, b.r), ModesConflict(a, b)
               PROVE  <<i, k>> \in PlanOrder
    BY DEF ConflictsOrdered, Compiled
  <2>1. /\ stage \in Planned /\ stage \in Emitted /\ stage \in Lowered /\ stage \in Ordered
    BY DEF Emitted, Planned, Lowered, Resolved, Ordered, Analyzed, Allocated
  <2>2. PICK n, m : LoweredShape(ir.v, Len(res), n, m)
    BY <2>1, LoweredStream
  <2> DEFINE order == ir.data.order
             v == ir.v
             N == 1 .. n
             reach == Reachable(N, ir.immediate)
             Q == {e \in N \X N : e[2] \in reach[e[1]]}
  <2>3. /\ DOMAIN ir.data.nodes = N /\ n \in Nat
        /\ \A j \in N : ir.data.nodes[j].source = order[j]
        /\ \A j \in N : order[j] \in N
        /\ ir.data.res = res /\ v.res = res /\ RecInv
    <3>1. n \in Nat
      BY <2>2 DEF LoweredShape
    <3>2. /\ Renumbers(order, RuntimeOf, n) /\ DOMAIN ir.data.nodes = N
          /\ \A j \in N : ir.data.nodes[j].source = order[j]
          /\ ir.data.res = res
      BY <2>1, <2>2, EmittedFacts
    <3>3. v.res = res
      BY <2>1, LoweredStream
    <3> QED
      BY <3>1, <3>2, <3>3 DEF Renumbers, Compiles
  <2>4. PICK x \in OrderedAccesses(v) : x[1] = order[i] /\ Acc(v, x) = a
    BY <2>1, <2>2, <2>3, UsesAreOrdered
  <2>5. PICK y \in OrderedAccesses(v) : y[1] = order[k] /\ Acc(v, y) = b
    BY <2>1, <2>2, <2>3, UsesAreOrdered
  <2>6. order[i] < order[k]
    BY <2>3
  <2>7. Ahead(x, y)
    BY <2>4, <2>5, <2>6 DEF Ahead
  <2>8. a.r \in 1 .. Len(res) /\ b.r \in 1 .. Len(res)
    BY <2>2, <2>4, <2>5, AccessesFinite
  <2>9. Aliases(v.res, Acc(v, x).r, Acc(v, y).r)
    <3>1. Aliases(res, a.r, b.r)
      BY <2>3, <2>8, SharingAliases
    <3> QED
      BY <2>3, <2>4, <2>5, <3>1
  <2>10. Conflict(v, x, y)
    BY <2>4, <2>5 DEF Conflict, ModesConflict
  <2>11. ir.immediate \in SUBSET (N \X N) /\ AddResourceOrder(v) \subseteq ir.immediate
    <3>1. ir.immediate \in SUBSET (N \X N)
      BY <2>1, <2>2, ImmediateFacts
    <3>2. OrderFound(ir)
      BY <2>1 DEF Compiles, CompInv
    <3>3. AddResourceOrder(v) \subseteq ir.immediate
      BY <3>2 DEF OrderFound, Edges
    <3> QED
      BY <3>1, <3>3
  <2>12. /\ \A c, d \in N : <<c, d>> \in ir.immediate => d \in reach[c]
         /\ \A c, d, e \in N : d \in reach[c] /\ e \in reach[d] => e \in reach[c]
    BY <2>3, <2>11, ReachableFacts
  <2> HIDE DEF reach, v
  <2>13. Transitive(Q)
    BY <2>12 DEF Transitive
  <2>14. AddResourceOrder(v) \subseteq Q
    BY <2>11, <2>12
  <2>15. Follows(Q, x, y)
    <3> HIDE DEF Q
    <3>1. LoweredShape(v, Len(res), n, m)
      BY <2>2 DEF v
    <3> QED
      BY <2>7, <2>9, <2>10, <2>13, <2>14, <3>1, AliasesFollow
  <2>16. order[k] \in reach[order[i]]
    <3>1. x[1] # y[1]
      BY <2>3, <2>4, <2>5, <2>6
    <3>2. <<order[i], order[k]>> \in Q
      BY <2>4, <2>5, <2>15, <3>1 DEF Follows
    <3> QED
      BY <3>2
  <2>17. k \in Reachable(N, NodeEdges(ir.data))[i]
    BY <2>1, <2>2, <2>3, <2>16, PathsEmitted DEF reach
  <2>18. Upwards(n, NodeEdges(ir.data))
    <3> SUFFICES ASSUME NEW c \in N, NEW d \in N, <<c, d>> \in NodeEdges(ir.data) PROVE c < d
      BY DEF Upwards
    <3>1. c \in ir.data.nodes[d].preds
      BY DEF NodeEdges
    <3> QED
      BY <2>3, <3>1 DEF EmittedInOrder, Compiled
  <2>19. PlanFound(ir)
    BY <2>1 DEF Compiles, CompInv
  <2> QED
    BY <2>3, <2>17, <2>18, <2>19, PlanFacts
<1> QED
  BY <1>1, CompilerInvariant, EmittedInOrderHolds, PTL
=============================================================================
