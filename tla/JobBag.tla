------------------------------- MODULE JobBag -------------------------------
(***************************************************************************)
(* What a worker queue promises: a job that was put in comes out exactly   *)
(* once.  Nothing is said about the order.                                 *)
(***************************************************************************)
CONSTANT Jobs

VARIABLES
    bag,    \* the jobs in the queue
    out     \* the jobs that were handed out

Init == bag = {} /\ out = {}

Put(j) ==
    /\ UNCHANGED out
    /\ j \notin out \cup bag
    /\ bag' = bag \cup {j}

Take(j) ==
    /\ out' = out \cup {j}
    /\ j \in bag
    /\ bag' = bag \ {j}

Next == \E j \in Jobs : Put(j) \/ Take(j)

Spec == Init /\ [][Next]_<<bag, out>>
=============================================================================
