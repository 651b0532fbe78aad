----------------------------- MODULE TaskGraph -----------------------------
(***************************************************************************)
(* What job slots and their scoreboards promise a client of the job        *)
(* scheduler, with no threads, lists or counters: a graph of tasks in a    *)
(* fixed set of slots.  A task is opened in a free slot, told which tasks  *)
(* it comes after, submitted, and started only when none of them is left.  *)
(* A finished task stops being waited for, and its slot can be reused.     *)
(***************************************************************************)
CONSTANT Slots

VARIABLES
    status,   \* the progress of the task in each slot
    waits     \* the slots whose tasks each task still comes after

taskVars == <<status, waits>>

Status == {"free", "open", "submitted", "running", "done"}

TypeOK ==
    /\ status \in [Slots -> Status]
    /\ waits \in [Slots -> SUBSET Slots]

Init ==
    /\ status = [s \in Slots |-> "free"]
    /\ waits = [s \in Slots |-> {}]

(* Nobody can be waiting for a slot that changes hands.                    *)
Open(s) ==
    /\ status[s] \in {"free", "done"}
    /\ \A c \in Slots : s \notin waits[c]
    /\ status' = [status EXCEPT ![s] = "open"]
    /\ waits' = [waits EXCEPT ![s] = {}]

(* A task that has already finished need not be waited for.                *)
Depend(c, s) ==
    /\ status[c] = "open"
    /\ status[s] \in {"open", "submitted", "running"}
    /\ waits' = [waits EXCEPT ![c] = @ \cup {s}]
    /\ UNCHANGED status

Submit(c) ==
    /\ status[c] = "open"
    /\ status' = [status EXCEPT ![c] = "submitted"]
    /\ UNCHANGED waits

Start(c) ==
    /\ status[c] = "submitted" /\ waits[c] = {}
    /\ status' = [status EXCEPT ![c] = "running"]
    /\ UNCHANGED waits

Finish(s) ==
    /\ status[s] = "running"
    /\ status' = [status EXCEPT ![s] = "done"]
    /\ waits' = [c \in Slots |-> waits[c] \ {s}]

Next ==
    \E s \in Slots :
        \/ Open(s) \/ Submit(s) \/ Start(s) \/ Finish(s)
        \/ \E c \in Slots : Depend(c, s)

Spec == Init /\ [][Next]_taskVars
=============================================================================
