----------------------------- MODULE LinkedList -----------------------------
(***************************************************************************)
(* Singly linked lists, like the intrusive lists of core/sync: succ maps a *)
(* node to the next one, and Nil is the null pointer.                      *)
(***************************************************************************)
Nil == <<>>

(* The nodes that a list leads to from its first one: those in every set   *)
(* that holds the first and, with a node, its successor.                   *)
Reach(Nodes, succ, first) ==
    {n \in Nodes :
        \A R \in SUBSET (Nodes \cup {Nil}) :
            first \in R /\ (\A m \in R \ {Nil} : succ[m] \in R) => n \in R}

(* No node leads back to itself.                                           *)
Acyclic(Nodes, succ, first) ==
    \A n \in Reach(Nodes, succ, first) : n \notin Reach(Nodes, succ, succ[n])
=============================================================================
