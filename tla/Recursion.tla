------------------------------ MODULE Recursion ------------------------------
(***************************************************************************)
(* What is known of a loop that takes a value through n steps, for whatever *)
(* step an instance of this module gives it, and induction over the natural *)
(* numbers, stated for sets of numbers.                                     *)
(***************************************************************************)
EXTENDS Integers, FiniteSets, WellFoundedInduction, TLAPS

CONSTANT Step(_, _, _)    \* the value after a step: context, value before, number

After(c, x, n) ==
    LET after[k \in 0 .. n] == IF k = 0 THEN x ELSE Step(c, after[k - 1], k)
    IN after[n]

-----------------------------------------------------------------------------
(* Sets of natural numbers have a least element.                           *)
LEMMA LeastNumber ==
    \A T \in SUBSET Nat : T # {} => \E n \in T : \A m \in T : n <= m
<1> SUFFICES ASSUME NEW T \in SUBSET Nat, T # {}
             PROVE  \E n \in T : \A m \in T : n <= m
  OBVIOUS
<1>1. ASSUME NEW R, \A m, n \in Nat : m < n => <<m, n>> \in R,
             NEW k \in T, \A m \in T : ~ (<<m, k>> \in R)
      PROVE  \A m \in T : k <= m
  <2> TAKE m \in T
  <2>1. m \in Nat /\ k \in Nat
    OBVIOUS
  <2>2. ~ (m < k)
    BY <1>1, <2>1, Zenon
  <2> QED
    BY <2>1, <2>2
<1>2. \E n \in T : \A m \in T : ~ (<<m, n>> \in OpToRel(<, Nat))
  BY NatLessThanWellFounded, WFMin, Zenon
<1>3. \A m, n \in Nat : m < n => <<m, n>> \in OpToRel(<, Nat)
  BY DEF OpToRel
<1> QED
  BY <1>1, <1>2, <1>3, Zenon

(* Induction: a set that holds 0 and with every number the next one holds  *)
(* them all.                                                               *)
LEMMA Induction ==
    \A T : 0 \in T /\ (\A n \in Nat : n \in T => n + 1 \in T) => Nat \subseteq T
<1> SUFFICES ASSUME NEW T, 0 \in T, \A n \in Nat : n \in T => n + 1 \in T,
                    NEW x \in Nat, x \notin T
             PROVE  FALSE
  OBVIOUS
<1> DEFINE Rest == {n \in Nat : n \notin T}
<1>1. PICK n \in Rest : \A m \in Rest : n <= m
  <2>1. Rest \in SUBSET Nat /\ Rest # {}
    OBVIOUS
  <2> HIDE DEF Rest
  <2> QED
    BY <2>1, LeastNumber
<1>2. n \in Nat /\ n # 0
  BY <1>1
<1>3. n - 1 \in Nat /\ n - 1 \in T
  BY <1>1, <1>2
<1>4. (n - 1) + 1 \in T
  BY <1>3
<1> QED
  BY <1>1, <1>2, <1>4

-----------------------------------------------------------------------------
(* The recursive function exists, for every number of steps.               *)
LEMMA FunctionExists ==
    ASSUME NEW c, NEW x, NEW n \in Nat
    PROVE  LET after == CHOOSE g : g = [k \in 0 .. n |-> IF k = 0 THEN x ELSE Step(c, g[k - 1], k)]
           IN  after = [k \in 0 .. n |-> IF k = 0 THEN x ELSE Step(c, after[k - 1], k)]
<1> DEFINE Is(g, m) == g = [k \in 0 .. m |-> IF k = 0 THEN x ELSE Step(c, g[k - 1], k)]
           T == {m \in Nat : \E g : Is(g, m)}
<1>1. 0 \in T
  <2>1. Is([k \in 0 .. 0 |-> x], 0)
    OBVIOUS
  <2> QED
    BY <2>1
<1>2. ASSUME NEW m \in Nat, m \in T PROVE m + 1 \in T
  <2>1. PICK g : Is(g, m)
    BY <1>2
  <2> DEFINE h == [k \in 0 .. m + 1 |-> IF k = m + 1 THEN Step(c, g[m], m + 1) ELSE g[k]]
  <2>2. \A k \in 0 .. m : g[k] = IF k = 0 THEN x ELSE Step(c, g[k - 1], k)
    BY <2>1
  <2>3. \A k \in 0 .. m + 1 : h[k] = IF k = 0 THEN x ELSE Step(c, h[k - 1], k)
    <3> TAKE k \in 0 .. m + 1
    <3>1. CASE k = m + 1
      BY <3>1
    <3>2. CASE k = 0
      BY <2>2, <3>2
    <3>3. CASE k # 0 /\ k # m + 1
      <4>1. k \in 0 .. m /\ k - 1 \in 0 .. m /\ k - 1 # m + 1
        BY <3>3
      <4>2. h[k] = g[k] /\ h[k - 1] = g[k - 1]
        BY <3>3, <4>1
      <4> QED
        BY <2>2, <3>3, <4>1, <4>2
    <3> QED
      BY <3>1, <3>2, <3>3
  <2>4. Is(h, m + 1)
    BY <2>3
  <2> HIDE DEF Is, h
  <2> QED
    BY <2>4
<1>3. n \in T
  <2> HIDE DEF T
  <2> QED
    BY <1>1, <1>2, Induction
<1> QED
  BY <1>3

(* No step leaves the value alone, and one more step is a step.            *)
THEOREM AfterNone == \A c, x : After(c, x, 0) = x
<1> TAKE c, x
<1> DEFINE after == CHOOSE g : g = [k \in 0 .. 0 |-> IF k = 0 THEN x ELSE Step(c, g[k - 1], k)]
<1>1. After(c, x, 0) = after[0]
  BY DEF After
<1>2. after = [k \in 0 .. 0 |-> IF k = 0 THEN x ELSE Step(c, after[k - 1], k)]
  BY FunctionExists
<1> QED
  BY <1>1, <1>2

THEOREM AfterNext ==
    \A c, x : \A n \in Nat : After(c, x, n + 1) = Step(c, After(c, x, n), n + 1)
<1> SUFFICES ASSUME NEW c, NEW x, NEW n \in Nat
             PROVE  After(c, x, n + 1) = Step(c, After(c, x, n), n + 1)
  OBVIOUS
<1> DEFINE F(m) == CHOOSE g : g = [k \in 0 .. m |-> IF k = 0 THEN x ELSE Step(c, g[k - 1], k)]
<1>1. \A m \in Nat : After(c, x, m) = F(m)[m]
  BY DEF After
<1>2. \A m \in Nat : F(m) = [k \in 0 .. m |-> IF k = 0 THEN x ELSE Step(c, F(m)[k - 1], k)]
  BY FunctionExists
<1> HIDE DEF F
<1>3. \A m \in Nat : \A k \in 0 .. m : F(m)[k] = IF k = 0 THEN x ELSE Step(c, F(m)[k - 1], k)
  BY <1>2
<1> DEFINE T == {k \in Nat : k <= n => F(n + 1)[k] = F(n)[k]}
<1>4. 0 \in T
  BY <1>3
<1>5. ASSUME NEW k \in Nat, k \in T PROVE k + 1 \in T
  <2> SUFFICES ASSUME k + 1 <= n PROVE F(n + 1)[k + 1] = F(n)[k + 1]
    OBVIOUS
  <2>1. F(n + 1)[k] = F(n)[k]
    BY <1>5
  <2>2. /\ k + 1 \in 0 .. n /\ k + 1 \in 0 .. n + 1 /\ k + 1 # 0 /\ (k + 1) - 1 = k
        /\ n + 1 \in Nat
    OBVIOUS
  <2>3. F(n + 1)[k + 1] = Step(c, F(n + 1)[k], k + 1)
    BY <1>3, <2>2
  <2>4. F(n)[k + 1] = Step(c, F(n)[k], k + 1)
    BY <1>3, <2>2
  <2> QED
    BY <2>1, <2>3, <2>4
<1>6. F(n + 1)[n] = F(n)[n]
  <2>1. n \in T
    <3> HIDE DEF T
    <3> QED
      BY <1>4, <1>5, Induction
  <2> QED
    BY <2>1
<1>7. /\ n + 1 \in Nat /\ n + 1 \in 0 .. n + 1 /\ n + 1 # 0 /\ (n + 1) - 1 = n
  OBVIOUS
<1>8. F(n + 1)[n + 1] = Step(c, F(n + 1)[n], n + 1)
  BY <1>3, <1>7
<1> QED
  BY <1>1, <1>6, <1>7, <1>8
=============================================================================
