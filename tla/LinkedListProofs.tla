-------------------------- MODULE LinkedListProofs --------------------------
(***************************************************************************)
(* What pushing and popping do to a linked list, whatever its nodes are.   *)
(***************************************************************************)
EXTENDS LinkedList, FiniteSetTheorems, TLAPS

(* A list holds its first node, and with a node the next one.              *)
LEMMA ReachClosed ==
    ASSUME NEW N, NEW succ, NEW f
    PROVE  /\ Reach(N, succ, f) \subseteq N
           /\ f \in N => f \in Reach(N, succ, f)
           /\ \A n \in Reach(N, succ, f) :
                 succ[n] \in N /\ n # Nil => succ[n] \in Reach(N, succ, f)
BY DEF Reach

(* It is the least such set.                                               *)
LEMMA ReachLeast ==
    ASSUME NEW N, NEW succ, NEW f, NEW R \in SUBSET (N \cup {Nil}),
           f \in R, \A m \in R \ {Nil} : succ[m] \in R
    PROVE  Reach(N, succ, f) \subseteq R
BY DEF Reach

(* Nothing follows the null pointer.                                       *)
LEMMA ReachNil ==
    ASSUME NEW N, Nil \notin N, NEW succ
    PROVE  Reach(N, succ, Nil) = {}
<1>1. Reach(N, succ, Nil) \subseteq {Nil}
  BY ReachLeast
<1> QED
  BY <1>1, ReachClosed

(* A list from a node on: that node, and the list from the next one on.    *)
LEMMA ReachStep ==
    ASSUME NEW N, Nil \notin N, NEW succ \in [N -> N \cup {Nil}], NEW f \in N
    PROVE  Reach(N, succ, f) = {f} \cup Reach(N, succ, succ[f])
<1> DEFINE A == Reach(N, succ, f)
           B == Reach(N, succ, succ[f])
<1>1. A \subseteq {f} \cup B \cup {Nil}
  <2> DEFINE R == {f} \cup B \cup {Nil}
  <2>1. R \in SUBSET (N \cup {Nil}) /\ f \in R
    BY ReachClosed
  <2>2. \A m \in R \ {Nil} : succ[m] \in R
    BY ReachClosed
  <2>3. A \subseteq R
    <3> HIDE DEF R
    <3> QED
      BY <2>1, <2>2, ReachLeast
  <2> QED
    BY <2>3
<1>2. f \in A
  BY ReachClosed
<1>3. B \subseteq A \cup {Nil}
  <2> DEFINE R == A \cup {Nil}
  <2>1. R \in SUBSET (N \cup {Nil})
    BY ReachClosed
  <2>2. \A m \in R \ {Nil} : succ[m] \in R
    BY ReachClosed
  <2>3. succ[f] \in R
    BY <1>2, <2>2
  <2>4. B \subseteq R
    <3> HIDE DEF R
    <3> QED
      BY <2>1, <2>2, <2>3, ReachLeast
  <2> QED
    BY <2>4
<1>4. Nil \notin A /\ Nil \notin B
  BY ReachClosed
<1> QED
  BY <1>1, <1>2, <1>3, <1>4

(* A list depends on the successors of its own nodes only.                 *)
LEMMA ReachFrame ==
    ASSUME NEW N, Nil \notin N,
           NEW s1 \in [N -> N \cup {Nil}], NEW s2 \in [N -> N \cup {Nil}],
           NEW f \in N \cup {Nil},
           \A n \in Reach(N, s1, f) : s2[n] = s1[n]
    PROVE  Reach(N, s2, f) = Reach(N, s1, f)
<1> DEFINE A == Reach(N, s1, f)
           B == Reach(N, s2, f)
<1>1. /\ A \subseteq N /\ B \subseteq N
      /\ f \in A \cup {Nil} /\ f \in B \cup {Nil}
      /\ \A m \in A : s1[m] \in A \cup {Nil}
      /\ \A m \in B : s2[m] \in B \cup {Nil}
  <2>1. A \subseteq N /\ B \subseteq N
    BY ReachClosed
  <2>2. f \in A \cup {Nil} /\ f \in B \cup {Nil}
    BY ReachClosed
  <2>3. \A m \in A : s1[m] \in A \cup {Nil}
    BY <2>1, ReachClosed
  <2>4. \A m \in B : s2[m] \in B \cup {Nil}
    BY <2>1, ReachClosed
  <2> QED
    BY <2>1, <2>2, <2>3, <2>4
<1>2. B \subseteq A \cup {Nil}
  <2> DEFINE R == A \cup {Nil}
  <2>1. \A m \in R \ {Nil} : s2[m] \in R
    BY <1>1
  <2>2. R \in SUBSET (N \cup {Nil}) /\ f \in R
    BY <1>1
  <2>3. B \subseteq R
    <3> HIDE DEF R
    <3> QED
      BY <2>1, <2>2, ReachLeast
  <2> QED
    BY <2>3
<1>3. A \subseteq (A \cap B) \cup {Nil}
  <2> DEFINE R == (A \cap B) \cup {Nil}
  <2>1. \A m \in R \ {Nil} : s1[m] \in R
    BY <1>1
  <2>2. R \in SUBSET (N \cup {Nil}) /\ f \in R
    BY <1>1
  <2>3. A \subseteq R
    <3> HIDE DEF R
    <3> QED
      BY <2>1, <2>2, ReachLeast
  <2> QED
    BY <2>3
<1> QED
  BY <1>1, <1>2, <1>3

(* What follows a node of a list is on that list.                          *)
LEMMA ReachWithin ==
    ASSUME NEW N, Nil \notin N, NEW succ \in [N -> N \cup {Nil}], NEW f,
           NEW m \in Reach(N, succ, f)
    PROVE  m \in N /\ Reach(N, succ, succ[m]) \subseteq Reach(N, succ, f)
<1> DEFINE R == Reach(N, succ, f) \cup {Nil}
<1>1. m \in N /\ R \in SUBSET (N \cup {Nil})
  BY ReachClosed
<1>2. \A k \in R \ {Nil} : succ[k] \in R
  BY ReachClosed
<1>3. succ[m] \in R
  BY <1>1, <1>2
<1>4. Reach(N, succ, succ[m]) \subseteq R
  <2> HIDE DEF R
  <2> QED
    BY <1>1, <1>2, <1>3, ReachLeast
<1>5. Nil \notin Reach(N, succ, succ[m])
  BY ReachClosed
<1> QED
  BY <1>1, <1>4, <1>5

(* So does whether it has a cycle.                                         *)
LEMMA AcyclicFrame ==
    ASSUME NEW N, Nil \notin N,
           NEW s1 \in [N -> N \cup {Nil}], NEW s2 \in [N -> N \cup {Nil}],
           NEW f \in N \cup {Nil},
           \A n \in Reach(N, s1, f) : s2[n] = s1[n],
           Acyclic(N, s1, f)
    PROVE  Acyclic(N, s2, f)
<1>1. Reach(N, s2, f) = Reach(N, s1, f)
  BY ReachFrame
<1>2. ASSUME NEW m \in Reach(N, s1, f)
      PROVE  m \notin Reach(N, s2, s2[m])
  <2>1. m \in N /\ Reach(N, s1, s1[m]) \subseteq Reach(N, s1, f)
    BY ReachWithin
  <2>2. \A k \in Reach(N, s1, s1[m]) : s2[k] = s1[k]
    BY <2>1
  <2>3. Reach(N, s2, s1[m]) = Reach(N, s1, s1[m])
    BY <2>1, <2>2, ReachFrame
  <2> QED
    BY <2>3 DEF Acyclic
<1> QED
  BY <1>1, <1>2 DEF Acyclic

(* Pushing a node that is not on the list puts it there and closes no      *)
(* cycle.                                                                  *)
LEMMA ReachPush ==
    ASSUME NEW N, Nil \notin N, NEW succ \in [N -> N \cup {Nil}],
           NEW f \in N \cup {Nil}, NEW n \in N, n \notin Reach(N, succ, f),
           NEW after \in [N -> N \cup {Nil}], after[n] = f,
           \A m \in N \ {n} : after[m] = succ[m]
    PROVE  /\ Reach(N, after, n) = {n} \cup Reach(N, succ, f)
           /\ Acyclic(N, succ, f) => Acyclic(N, after, n)
<1>1. Reach(N, after, f) = Reach(N, succ, f)
  <2>1. \A m \in Reach(N, succ, f) : after[m] = succ[m]
    BY ReachClosed
  <2> QED
    BY <2>1, ReachFrame
<1>2. Reach(N, after, n) = {n} \cup Reach(N, succ, f)
  BY <1>1, ReachStep
<1>3. ASSUME Acyclic(N, succ, f), NEW m \in Reach(N, after, n)
      PROVE  m \notin Reach(N, after, after[m])
  <2>1. CASE m = n
    BY <1>1, <2>1
  <2>2. CASE m # n
    <3>1. m \in Reach(N, succ, f) /\ m \in N /\ after[m] = succ[m]
      BY <1>2, <2>2, ReachClosed
    <3>2. Reach(N, succ, succ[m]) \subseteq Reach(N, succ, f)
      BY <3>1, ReachWithin
    <3>3. \A k \in Reach(N, succ, succ[m]) : after[k] = succ[k]
      BY <3>2, ReachClosed
    <3>4. Reach(N, after, succ[m]) = Reach(N, succ, succ[m])
      BY <3>1, <3>3, ReachFrame
    <3> QED
      BY <1>3, <3>1, <3>4 DEF Acyclic
  <2> QED
    BY <2>1, <2>2
<1> QED
  BY <1>2, <1>3 DEF Acyclic

(* Popping takes the first node off the list and no other.                 *)
LEMMA ReachPop ==
    ASSUME NEW N, Nil \notin N, NEW succ \in [N -> N \cup {Nil}],
           NEW f \in N, Acyclic(N, succ, f)
    PROVE  /\ f \in Reach(N, succ, f)
           /\ Reach(N, succ, succ[f]) = Reach(N, succ, f) \ {f}
           /\ Acyclic(N, succ, succ[f])
<1>1. f \in Reach(N, succ, f)
  BY ReachClosed
<1>2. Reach(N, succ, f) = {f} \cup Reach(N, succ, succ[f])
  BY ReachStep
<1>3. f \notin Reach(N, succ, succ[f])
  BY <1>1 DEF Acyclic
<1> QED
  BY <1>1, <1>2, <1>3 DEF Acyclic

(* A list that is not empty has a first node.                              *)
LEMMA ReachFirst ==
    ASSUME NEW N, Nil \notin N, NEW succ, NEW f \in N \cup {Nil},
           Reach(N, succ, f) # {}
    PROVE  f \in N /\ f \in Reach(N, succ, f)
BY ReachNil, ReachClosed

-----------------------------------------------------------------------------
(* Sets of natural numbers have a least element.                           *)
LEMMA LeastNumber ==
    ASSUME NEW T \in SUBSET Nat, T # {}
    PROVE  \E n \in T : \A m \in T : n <= m
<1>1. ASSUME NEW R, \A m, n \in Nat : m < n => <<m, n>> \in R,
             NEW k \in T, \A m \in T : ~ (<<m, k>> \in R)
      PROVE  \A m \in T : k <= m
  <2> TAKE m \in T
  <2>1. m \in Nat /\ k \in Nat
    OBVIOUS
  <2>2. ~ (m < k)
    BY <1>1, <2>1, Zenon
  <2> QED
    BY <2>1, <2>2
<1>2. \E n \in T : \A m \in T : ~ (<<m, n>> \in OpToRel(<, Nat))
  BY NatLessThanWellFounded, WFMin, Zenon
<1>3. \A m, n \in Nat : m < n => <<m, n>> \in OpToRel(<, Nat)
  BY DEF OpToRel
<1> QED
  BY <1>1, <1>2, <1>3, Zenon

(* A list that was strung together in some order holds all of its nodes,   *)
(* and has no cycle.                                                       *)
LEMMA ReachOrder ==
    ASSUME NEW N, Nil \notin N, NEW len \in Nat \ {0},
           NEW order \in Bijection(1 .. len, N),
           NEW succ \in [N -> N \cup {Nil}],
           \A i \in 1 .. len :
               succ[order[i]] = IF i = len THEN Nil ELSE order[i + 1]
    PROVE  /\ order[1] \in N
           /\ Reach(N, succ, order[1]) = N
           /\ Acyclic(N, succ, order[1])
<1>1. /\ order \in [1 .. len -> N]
      /\ \A i, j \in 1 .. len : order[i] = order[j] => i = j
      /\ \A n \in N : \E i \in 1 .. len : order[i] = n
  BY DEF Bijection, Injection, Surjection, IsInjective
<1>2. order[1] \in N
  BY <1>1
<1>3. \A i \in 1 .. len : order[i] \in Reach(N, succ, order[1])
  <2> DEFINE A == Reach(N, succ, order[1])
             T == {i \in 1 .. len : order[i] \notin A}
  <2> SUFFICES ASSUME T # {} PROVE FALSE
    OBVIOUS
  <2>1. PICK k \in T : \A m \in T : k <= m
    <3>1. T \in SUBSET Nat
      OBVIOUS
    <3> HIDE DEF T
    <3> QED
      BY <3>1, LeastNumber
  <2>2. order[1] \in A
    BY <1>2, ReachClosed
  <2>3. k \in 1 .. len /\ k # 1
    BY <2>2
  <2>4. k - 1 \in 1 .. len /\ ~ (k <= k - 1)
    BY <2>3
  <2>5. order[k - 1] \in A
    BY <2>1, <2>4
  <2>6. succ[order[k - 1]] = order[k]
    BY <2>3, <2>4
  <2>7. order[k] \in A
    BY <1>1, <2>3, <2>4, <2>5, <2>6, ReachClosed
  <2> QED
    BY <2>7
<1>4. Reach(N, succ, order[1]) = N
  BY <1>1, <1>3, ReachClosed
<1>5. ASSUME NEW n \in N PROVE n \notin Reach(N, succ, succ[n])
  <2>1. PICK i \in 1 .. len : order[i] = n
    BY <1>1
  <2> DEFINE R == {order[j] : j \in (i + 1) .. len} \cup {Nil}
  <2>2. R \in SUBSET (N \cup {Nil})
    BY <1>1
  <2>3. succ[n] \in R
    BY <2>1
  <2>4. \A m \in R \ {Nil} : succ[m] \in R
    <3> SUFFICES ASSUME NEW j \in (i + 1) .. len PROVE succ[order[j]] \in R
      OBVIOUS
    <3> QED
      OBVIOUS
  <2>5. n \notin R
    BY <1>1, <2>1
  <2> HIDE DEF R
  <2> QED
    BY <2>2, <2>3, <2>4, <2>5, ReachLeast
<1> QED
  BY <1>2, <1>4, <1>5 DEF Acyclic
=============================================================================
