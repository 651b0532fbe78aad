-------------------------- MODULE WorkerPoolProofs --------------------------
(***************************************************************************)
(* Proofs about WorkerPool, for any finite set of jobs and any number of   *)
(* workers.                                                                *)
(***************************************************************************)
EXTENDS WorkerPool, FiniteSetTheorems, TLAPS

InFlight == Queued \cup Running \cup Arriving

(* Where a thread is tells which jobs it holds, and the client stops once. *)
HoldInv ==
    /\ client.job # NoJob <=> client.at = "push"
    /\ stop <=> client.at \in {"join", "joined"}
    /\ \A w \in Workers :
          /\ worker[w].job # NoJob <=> worker[w].at \in {"exec", "push"}
          /\ worker[w].kid # NoJob <=> worker[w].at = "push"
          /\ worker[w].at = "live" => stop

(* A job that is being submitted is being submitted once, and is nowhere   *)
(* else yet.                                                               *)
ArrivingOnce ==
    /\ Arriving \cap (Running \cup Queued \cup executed) = {}
    /\ \A v, w \in Workers :
          worker[v].kid # NoJob =>
              /\ worker[v].kid # client.job
              /\ v # w => worker[v].kid # worker[w].kid

CountInv == live = Cardinality(InFlight)

IInv ==
    /\ TypeOK /\ HoldInv /\ JobInOnePlace /\ ArrivingOnce
    /\ CountInv /\ NobodyLeavesEarly

USE JobsAssumption, NAssumption, MaxStealAssumption

-----------------------------------------------------------------------------
(* What is where, without UNION and set images.                            *)
LEMMA WhereIs ==
    /\ \A j : j \in Queued <=> \E w \in Workers : j \in local[w] \/ j \in box[w]
    /\ \A j : j \in Running <=> j # NoJob /\ \E w \in Workers : worker[w].job = j
    /\ \A j : j \in Arriving <=>
                 /\ j # NoJob
                 /\ client.job = j \/ \E w \in Workers : worker[w].kid = j
BY DEF Queued, Running, Arriving

(* The same after a step.                                                  *)
LEMMA WhereIsNext ==
    /\ \A j : j \in Queued' <=> \E w \in Workers : j \in local'[w] \/ j \in box'[w]
    /\ \A j : j \in Running' <=> j # NoJob /\ \E w \in Workers : worker'[w].job = j
    /\ \A j : j \in Arriving' <=>
                 /\ j # NoJob
                 /\ client'.job = j \/ \E w \in Workers : worker'[w].kid = j
BY DEF Queued, Running, Arriving

(* Only jobs are in flight, so they can be counted.                        *)
LEMMA InFlightFinite ==
    ASSUME TypeOK
    PROVE  /\ InFlight \subseteq Jobs
           /\ IsFiniteSet(InFlight)
           /\ Cardinality(InFlight) \in 0 .. Cardinality(Jobs)
<1>1. InFlight \subseteq Jobs
  BY WhereIs DEF InFlight, TypeOK, WorkerState, JobOrNone
<1> QED
  BY <1>1, FS_Subset, FS_CardinalityType

(* An idle pool satisfies the invariant.                                   *)
LEMMA InitIInv == Init => IInv
<1> SUFFICES ASSUME Init PROVE IInv
  OBVIOUS
<1>1. Cardinality(Jobs) \in Nat /\ 0 \in Workers
  BY FS_CardinalityType DEF Workers
<1>2. TypeOK
  <2>1. <<>> \in Seq(Workers)
    OBVIOUS
  <2>2. worker \in [Workers -> WorkerState]
    BY <1>1, <2>1 DEF Init, WorkerState, JobOrNone, WorkerAt
  <2>3. /\ local \in [Workers -> SUBSET Jobs] /\ box \in [Workers -> SUBSET Jobs]
        /\ live \in 0 .. Cardinality(Jobs) /\ stop \in BOOLEAN /\ turn \in Workers
        /\ executed \subseteq Jobs
    BY <1>1 DEF Init
  <2>4. client \in [at : {"ready", "push", "join", "joined"}, job : JobOrNone,
                   target : Workers]
    BY <1>1 DEF Init, JobOrNone
  <2> QED
    BY <2>2, <2>3, <2>4 DEF TypeOK
<1>3. HoldInv
  BY DEF Init, HoldInv
<1>4. Queued = {} /\ Running = {} /\ Arriving = {}
  BY WhereIs DEF Init
<1>5. JobInOnePlace /\ ArrivingOnce /\ NobodyLeavesEarly
  BY <1>4 DEF Init, JobInOnePlace, ArrivingOnce, NobodyLeavesEarly
<1>6. CountInv
  BY <1>4, FS_EmptySet DEF Init, CountInv, InFlight
<1> QED
  BY <1>2, <1>3, <1>5, <1>6 DEF IInv

-----------------------------------------------------------------------------
(* A worker whose place, or a field of it, changes keeps its type.         *)
LEMMA Moves ==
    ASSUME NEW f \in [Workers -> WorkerState], NEW w \in Workers
    PROVE  /\ \A p \in WorkerAt : [f EXCEPT ![w].at = p] \in [Workers -> WorkerState]
           /\ \A q \in Seq(Workers) :
                 [f EXCEPT ![w].scan = q] \in [Workers -> WorkerState]
<1> DEFINE T == [Workers -> WorkerState]
<1>1. ASSUME NEW p \in WorkerAt PROVE [f EXCEPT ![w].at = p] \in T
  BY DEF WorkerState
<1>2. ASSUME NEW q \in Seq(Workers) PROVE [f EXCEPT ![w].scan = q] \in T
  BY DEF WorkerState
<1> QED
  BY <1>1, <1>2

(* A worker that goes on without taking or giving anything.                *)
LEMMA GoesOn ==
    ASSUME IInv, NEW w \in Workers,
           worker' \in [Workers -> WorkerState],
           \A v \in Workers \ {w} : worker'[v] = worker[v],
           worker'[w].job = worker[w].job, worker'[w].kid = worker[w].kid,
           worker[w].at \notin {"exec", "push"},
           worker'[w].at \notin {"exec", "push"},
           worker'[w].at = "live" => stop,
           worker'[w].at = "exited" => stop /\ live = 0,
           UNCHANGED <<local, box, live, stop, turn, client, executed>>
    PROVE  IInv'
<1> USE DEF IInv
<1>1. TypeOK'
  BY DEF TypeOK, WorkerState
<1>2. \A v \in Workers : /\ worker'[v].job = worker[v].job
                         /\ worker'[v].kid = worker[v].kid
  OBVIOUS
<1>3. HoldInv'
  BY <1>2 DEF TypeOK, WorkerState, HoldInv
<1>4. Queued' = Queued /\ Running' = Running /\ Arriving' = Arriving
  <2>1. Queued' = Queued
    BY DEF Queued
  <2>2. \A j : (j \in Running' <=> j \in Running)
                /\ (j \in Arriving' <=> j \in Arriving)
    BY <1>2, WhereIs, WhereIsNext
  <2> QED
    BY <2>1, <2>2
<1>5. JobInOnePlace' /\ ArrivingOnce'
  BY <1>2, <1>4 DEF JobInOnePlace, ArrivingOnce
<1>6. CountInv'
  BY <1>4 DEF CountInv, InFlight
<1>7. NobodyLeavesEarly'
  <2>1. live = 0 => Queued = {} /\ Running = {} /\ Arriving = {}
    BY InFlightFinite, FS_EmptySet DEF CountInv, InFlight
  <2> QED
    BY <1>2, <1>4, <2>1 DEF NobodyLeavesEarly
<1> QED
  BY <1>1, <1>3, <1>5, <1>6, <1>7

(* pop() or a steal: a job leaves a deque and runs on a worker.            *)
LEMMA Takes ==
    ASSUME IInv, NEW w \in Workers, NEW v \in Workers, NEW j \in local[v],
           worker[w].at \in {"pop", "again", "steal"},
           local' = [local EXCEPT ![v] = LeftInDeque(v, j)],
           worker' = Runs(w, j),
           UNCHANGED <<box, live, stop, turn, client, executed>>
    PROVE  IInv'
<1> USE DEF IInv, LeftInDeque
<1>0. j \in Jobs /\ j # NoJob /\ j \in Queued
  BY WhereIs DEF TypeOK, WorkerState, NoJob
<1>1. TypeOK'
  <2>1. 0 \in Workers /\ <<>> \in Seq(Workers)
    BY DEF Workers
  <2> QED
    BY <1>0, <2>1 DEF TypeOK, WorkerState, Runs, JobOrNone, WorkerAt
<1>2. /\ worker'[w].job = j /\ worker'[w].at = "exec"
      /\ worker[w].job = NoJob
      /\ worker'[w].kid = worker[w].kid /\ worker[w].kid = NoJob
      /\ \A x \in Workers \ {w} : worker'[x] = worker[x]
  BY DEF TypeOK, WorkerState, HoldInv, Runs
<1>3. HoldInv'
  BY <1>0, <1>2 DEF HoldInv
<1>4. /\ \A k : k \in Queued' <=> k \in Queued /\ k # j
      /\ \A k : k \in Running' <=> k \in Running \/ k = j
      /\ \A k : k \in Arriving' <=> k \in Arriving
  <2>1. \A x \in Workers : \A k : k \in local'[x] <=> k \in local[x] /\ k # j
    BY DEF TypeOK, WorkerState, JobInOnePlace
  <2>2. \A x \in Workers : j \notin box[x]
    BY DEF JobInOnePlace
  <2>3. \A k : k \in Queued' <=> k \in Queued /\ k # j
    BY <2>1, <2>2, WhereIs, WhereIsNext
  <2>4. \A k : k \in Running' <=> k \in Running \/ k = j
    BY <1>0, <1>2, WhereIs, WhereIsNext
  <2>5. \A k : k \in Arriving' <=> k \in Arriving
    BY <1>0, <1>2, WhereIs, WhereIsNext
  <2> QED
    BY <2>3, <2>4, <2>5
<1>5. JobInOnePlace'
  <2>1. j \notin executed /\ j \notin Running
    BY <1>0 DEF JobInOnePlace
  <2>2. \A x \in Workers : local'[x] \subseteq local[x]
    BY DEF TypeOK, WorkerState
  <2>3. \A x \in Workers : worker[x].job # j
    BY <1>0, <2>1, WhereIs
  <2>4. /\ executed' \cap (Queued \cup Running \cup Arriving)' = {}
        /\ Queued' \cap (Running \cup Arriving)' = {}
    BY <1>4, <2>1 DEF JobInOnePlace
  <2>5. ASSUME NEW x \in Workers, NEW y \in Workers, x # y
        PROVE  worker'[x].job # NoJob => worker'[x].job # worker'[y].job
    BY <1>2, <2>3, <2>5 DEF JobInOnePlace
  <2> QED
    BY <2>2, <2>4, <2>5 DEF JobInOnePlace
<1>6. ArrivingOnce'
  <2>1. j \notin Arriving
    BY <1>0 DEF JobInOnePlace
  <2>2. (Arriving \cap (Running \cup Queued \cup executed))' = {}
    BY <1>4, <2>1 DEF ArrivingOnce
  <2>3. \A x \in Workers : worker'[x].kid = worker[x].kid
    BY <1>2
  <2> QED
    BY <2>2, <2>3 DEF ArrivingOnce
<1>7. InFlight' = InFlight
  BY <1>0, <1>4 DEF InFlight
<1>8. CountInv'
  BY <1>7 DEF CountInv
<1>9. NobodyLeavesEarly'
  BY <1>0, <1>2 DEF NobodyLeavesEarly
<1> QED
  BY <1>1, <1>3, <1>5, <1>6, <1>8, <1>9

(* The scan of try_steal() stays within the workers.                       *)
LEMMA NextVictimIsWorker ==
    ASSUME NEW w \in Workers, NEW t \in Workers
    PROVE  NextVictim(w, t) \in Workers
BY DEF NextVictim, Workers

(* submit() counts the job before it chooses a queue.                      *)
LEMMA SubmitStep ==
    ASSUME IInv, NEW j \in Jobs, Submit(j)
    PROVE  IInv'
<1> USE DEF IInv, Submit, CountedIn, Known
<1>0. j # NoJob /\ client.job = NoJob /\ j \notin InFlight
  BY DEF NoJob, HoldInv, InFlight
<1>1. InFlight' = InFlight \cup {j}
  <2>1. \A k : k \in Arriving' <=> k \in Arriving \/ k = j
    BY <1>0, WhereIs, WhereIsNext DEF TypeOK, WorkerState
  <2>2. Queued' = Queued /\ Running' = Running
    BY DEF Queued, Running
  <2> QED
    BY <2>1, <2>2 DEF InFlight
<1>2. CountInv' /\ live' \in 0 .. Cardinality(Jobs)
  <2>1. live' = Cardinality(InFlight')
    BY <1>0, <1>1, InFlightFinite, FS_AddElement DEF CountInv
  <2>2. InFlight' \subseteq Jobs
    BY <1>1, InFlightFinite
  <2>3. live' \in Nat /\ live' <= Cardinality(Jobs)
    BY <2>1, <2>2, FS_Subset, FS_CardinalityType
  <2> QED
    BY <2>1, <2>3, FS_CardinalityType DEF CountInv
<1>3. TypeOK'
  <2>1. turn' \in Workers
    BY DEF TypeOK, WorkerState, NextTurn, Workers
  <2> QED
    BY <1>2, <2>1 DEF TypeOK, WorkerState, JobOrNone
<1>4. HoldInv'
  BY <1>0 DEF HoldInv
<1>5. /\ \A k : k \in Arriving' => k \in Arriving \/ k = j
      /\ Queued' = Queued /\ Running' = Running
  BY <1>0, WhereIs, WhereIsNext DEF Queued, Running
<1>6. JobInOnePlace'
  BY <1>5 DEF JobInOnePlace
<1>7. ArrivingOnce'
  <2>1. \A v \in Workers : worker[v].kid # j
    BY <1>0, WhereIs DEF InFlight
  <2> QED
    BY <1>5, <2>1 DEF ArrivingOnce
<1>8. NobodyLeavesEarly'
  BY DEF NobodyLeavesEarly, HoldInv
<1> QED
  BY <1>2, <1>3, <1>4, <1>6, <1>7, <1>8

(* A job that is being submitted reaches the deque or the lists of a queue. *)
LEMMA Arrives ==
    ASSUME IInv, NEW j \in Jobs, NEW t \in Workers,
           j \in Arriving,
           \/ local' = [local EXCEPT ![t] = @ \cup {j}] /\ UNCHANGED box
           \/ box' = [box EXCEPT ![t] = @ \cup {j}] /\ UNCHANGED local,
           \A k : k \in Arriving' <=> k \in Arriving /\ k # j,
           \A w \in Workers : worker'[w].job = worker[w].job,
           \A w \in Workers : worker'[w].kid \in {worker[w].kid, NoJob},
           client'.job \in {client.job, NoJob},
           UNCHANGED <<live, executed>>
    PROVE  JobInOnePlace' /\ ArrivingOnce' /\ CountInv'
<1> USE DEF IInv
<1>0. \A x \in Workers : \A k :
         (k \in local'[x] \/ k \in box'[x]) <=>
             k \in local[x] \/ k \in box[x] \/ (x = t /\ k = j)
  <2>1. CASE local' = [local EXCEPT ![t] = @ \cup {j}] /\ UNCHANGED box
    BY <2>1 DEF TypeOK, WorkerState
  <2>2. CASE box' = [box EXCEPT ![t] = @ \cup {j}] /\ UNCHANGED local
    BY <2>2 DEF TypeOK, WorkerState
  <2> QED
    BY <2>1, <2>2
<1>1. \A k : k \in Queued' <=> k \in Queued \/ k = j
  BY <1>0, WhereIs, WhereIsNext
<1>2. \A k : k \in Running' <=> k \in Running
  BY WhereIs, WhereIsNext
<1>3. j \notin Queued /\ j \notin Running /\ j \notin executed
  BY DEF ArrivingOnce
<1>4. JobInOnePlace'
  <2>1. /\ executed' \cap (Queued \cup Running \cup Arriving)' = {}
        /\ Queued' \cap (Running \cup Arriving)' = {}
    BY <1>1, <1>2, <1>3 DEF JobInOnePlace
  <2>2. \A w \in Workers : j \notin local[w] /\ j \notin box[w]
    BY <1>3, WhereIs
  <2>3. ASSUME NEW w \in Workers PROVE local'[w] \cap box'[w] = {}
    <3>1. local[w] \cap box[w] = {}
      BY DEF JobInOnePlace
    <3>2. CASE local' = [local EXCEPT ![t] = @ \cup {j}] /\ UNCHANGED box
      BY <2>2, <3>1, <3>2 DEF TypeOK, WorkerState
    <3>3. CASE box' = [box EXCEPT ![t] = @ \cup {j}] /\ UNCHANGED local
      BY <2>2, <3>1, <3>3 DEF TypeOK, WorkerState
    <3> QED
      BY <3>2, <3>3
  <2>4. ASSUME NEW v \in Workers, NEW w \in Workers, v # w
        PROVE  (local'[v] \cup box'[v]) \cap (local'[w] \cup box'[w]) = {}
    <3>1. (local[v] \cup box[v]) \cap (local[w] \cup box[w]) = {}
      BY <2>4 DEF JobInOnePlace
    <3> QED
      BY <1>0, <2>2, <2>4, <3>1
  <2> QED
    BY <2>1, <2>3, <2>4 DEF JobInOnePlace
<1>5. ArrivingOnce'
  <2>1. (Arriving \cap (Running \cup Queued \cup executed))' = {}
    BY <1>1, <1>2 DEF ArrivingOnce
  <2> QED
    BY <2>1 DEF ArrivingOnce
<1>6. InFlight' = InFlight
  BY <1>1, <1>2 DEF InFlight
<1> QED
  BY <1>4, <1>5, <1>6 DEF CountInv

(* submit(): the job goes to the inbox of the worker whose turn it is.     *)
LEMMA SubmitPushStep ==
    ASSUME IInv, SubmitPush
    PROVE  IInv'
<1> USE DEF IInv, SubmitPush
<1> DEFINE j == client.job
<1>1. /\ j \in Jobs /\ j # NoJob /\ client.target \in Workers
      /\ client'.job = NoJob /\ client'.at = "ready"
  BY DEF TypeOK, WorkerState, HoldInv, JobOrNone
<1>2. TypeOK'
  BY <1>1 DEF TypeOK, WorkerState, JobOrNone
<1>3. HoldInv'
  BY <1>1 DEF HoldInv
<1>4. j \in Arriving /\ \A w \in Workers : worker[w].kid # j
  BY <1>1, WhereIs DEF ArrivingOnce
<1>5. \A k : k \in Arriving' <=> k \in Arriving /\ k # j
  BY <1>1, <1>4, WhereIs, WhereIsNext
<1>6. JobInOnePlace' /\ ArrivingOnce' /\ CountInv'
  BY <1>1, <1>4, <1>5, Arrives
<1>7. NobodyLeavesEarly'
  BY DEF NobodyLeavesEarly, HoldInv
<1> QED
  BY <1>2, <1>3, <1>6, <1>7

(* Context::submit counts while the parent is itself counted.              *)
LEMMA ContextSubmitStep ==
    ASSUME IInv, NEW w \in Workers, NEW j \in Jobs, ContextSubmit(w, j)
    PROVE  IInv'
<1> USE DEF IInv, CountedIn, Known
<1>0. /\ worker[w].at = "exec" /\ j \notin InFlight /\ j \notin executed
      /\ live' = live + 1
      /\ UNCHANGED <<local, box, stop, turn, client, executed>>
  BY DEF ContextSubmit, InFlight
<1>1. PICK t \in Workers :
         worker' = [worker EXCEPT ![w] = [at |-> "push", job |-> @.job, kid |-> j,
                                          target |-> t, scan |-> <<>>]]
  BY DEF ContextSubmit
<1>2. /\ worker'[w].at = "push" /\ worker'[w].kid = j
      /\ \A v \in Workers : worker'[v].job = worker[v].job
      /\ \A v \in Workers \ {w} : worker'[v] = worker[v]
      /\ worker[w].kid = NoJob /\ worker[w].job # NoJob /\ j # NoJob
  <2>1. worker[w].kid = NoJob /\ worker[w].job # NoJob /\ j # NoJob
    BY <1>0 DEF HoldInv, NoJob
  <2>2. worker'[w].at = "push" /\ worker'[w].kid = j
    BY <1>1 DEF TypeOK, WorkerState
  <2>3. /\ \A v \in Workers : worker'[v].job = worker[v].job
        /\ \A v \in Workers \ {w} : worker'[v] = worker[v]
    BY <1>1 DEF TypeOK, WorkerState
  <2> QED
    BY <2>1, <2>2, <2>3
<1>3. /\ \A k : k \in Arriving' <=> k \in Arriving \/ k = j
      /\ Queued' = Queued
      /\ \A k : k \in Running' <=> k \in Running
  <2>1. \A k : k \in Arriving' <=> k \in Arriving \/ k = j
    BY <1>0, <1>2, WhereIs, WhereIsNext
  <2>2. Queued' = Queued
    BY <1>0 DEF Queued
  <2>3. \A k : k \in Running' <=> k \in Running
    BY <1>2, WhereIs, WhereIsNext
  <2> QED
    BY <2>1, <2>2, <2>3
<1>4. InFlight' = InFlight \cup {j}
  BY <1>3 DEF InFlight
<1>5. CountInv' /\ live' \in 0 .. Cardinality(Jobs)
  <2>1. live' = Cardinality(InFlight')
    BY <1>0, <1>4, InFlightFinite, FS_AddElement DEF CountInv
  <2>2. InFlight' \subseteq Jobs
    BY <1>4, InFlightFinite
  <2>3. live' \in Nat /\ live' <= Cardinality(Jobs)
    BY <2>1, <2>2, FS_Subset, FS_CardinalityType
  <2> QED
    BY <2>1, <2>3, FS_CardinalityType DEF CountInv
<1>6. TypeOK'
  <2>1. worker' \in [Workers -> WorkerState]
    <3>1. <<>> \in Seq(Workers)
      OBVIOUS
    <3> QED
      BY <1>1, <3>1 DEF TypeOK, WorkerState, JobOrNone, WorkerAt
  <2> QED
    BY <1>0, <1>5, <2>1 DEF TypeOK, WorkerState
<1>7. HoldInv'
  BY <1>0, <1>2 DEF HoldInv
<1>8. JobInOnePlace'
  <2>1. j \notin Running /\ j \notin Queued
    BY <1>0 DEF InFlight
  <2>2. /\ executed' \cap (Queued \cup Running \cup Arriving)' = {}
        /\ Queued' \cap (Running \cup Arriving)' = {}
    BY <1>0, <1>3, <2>1 DEF JobInOnePlace
  <2> QED
    BY <1>0, <1>2, <2>2 DEF JobInOnePlace
<1>9. ArrivingOnce'
  <2>1. /\ j # client.job
        /\ \A v \in Workers : worker[v].kid # j
    BY <1>0, <1>2, WhereIs DEF InFlight
  <2>2. (Arriving \cap (Running \cup Queued \cup executed))' = {}
    BY <1>0, <1>3 DEF ArrivingOnce, InFlight
  <2> QED
    BY <1>0, <1>2, <2>1, <2>2 DEF ArrivingOnce
<1>10. NobodyLeavesEarly'
  <2>1. Running # {}
    BY <1>2, WhereIs
  <2> QED
    BY <1>2, <2>1 DEF NobodyLeavesEarly
<1> QED
  BY <1>5, <1>6, <1>7, <1>8, <1>9, <1>10

(* A job that was counted reaches a queue.                                 *)
LEMMA ContextPushStep ==
    ASSUME IInv, NEW w \in Workers, ContextPush(w)
    PROVE  IInv'
<1> USE DEF IInv
<1> DEFINE j == worker[w].kid
           t == worker[w].target
<1>0. /\ worker[w].at = "push"
      /\ worker' = [worker EXCEPT ![w].at = "exec", ![w].kid = NoJob]
      /\ UNCHANGED <<live, stop, turn, client, executed>>
      /\ j \in Jobs /\ j # NoJob /\ t \in Workers
  BY DEF ContextPush, TypeOK, WorkerState, HoldInv, JobOrNone
<1>1. \/ local' = [local EXCEPT ![t] = @ \cup {j}] /\ UNCHANGED box
      \/ box' = [box EXCEPT ![t] = @ \cup {j}] /\ UNCHANGED local
  BY DEF ContextPush
<1>2. /\ worker'[w].at = "exec" /\ worker'[w].kid = NoJob
      /\ \A v \in Workers : worker'[v].job = worker[v].job
      /\ \A v \in Workers \ {w} : worker'[v] = worker[v]
  BY <1>0 DEF TypeOK, WorkerState
<1>3. TypeOK'
  <2>1. worker' \in [Workers -> WorkerState]
    BY <1>0 DEF TypeOK, WorkerState, JobOrNone, WorkerAt
  <2>2. local' \in [Workers -> SUBSET Jobs] /\ box' \in [Workers -> SUBSET Jobs]
    BY <1>0, <1>1 DEF TypeOK, WorkerState
  <2> QED
    BY <1>0, <2>1, <2>2 DEF TypeOK, WorkerState
<1>4. HoldInv'
  BY <1>0, <1>2 DEF HoldInv
<1>5. j \in Arriving /\ j # client.job
      /\ \A v \in Workers \ {w} : worker[v].kid # j
  BY <1>0, WhereIs DEF ArrivingOnce
<1>6. \A k : k \in Arriving' <=> k \in Arriving /\ k # j
  <2>1. \A k : k # NoJob =>
           ((\E v \in Workers : worker'[v].kid = k) <=>
                (\E v \in Workers \ {w} : worker[v].kid = k))
    BY <1>2
  <2>2. \A k : (\E v \in Workers \ {w} : worker[v].kid = k) <=>
                  (\E v \in Workers : worker[v].kid = k) /\ k # j
    BY <1>5
  <2>3. client'.job = client.job /\ client.job # j
    BY <1>0, <1>5
  <2> QED
    BY <2>1, <2>2, <2>3, WhereIs, WhereIsNext
<1>7. JobInOnePlace' /\ ArrivingOnce' /\ CountInv'
  <2>1. \A v \in Workers : worker'[v].kid \in {worker[v].kid, NoJob}
    BY <1>2
  <2> QED
    BY <1>0, <1>1, <1>2, <1>5, <1>6, <2>1, Arrives
<1>8. NobodyLeavesEarly'
  BY <1>2, <1>5 DEF NobodyLeavesEarly
<1> QED
  BY <1>3, <1>4, <1>7, <1>8

-----------------------------------------------------------------------------
(* The steps of a worker that finds nothing, or looks whether it may leave. *)
LEMMA SearchStep ==
    ASSUME IInv, NEW w \in Workers,
           UNCHANGED <<local, box, live, stop, turn, client, executed>>,
           \/ /\ worker[w].at = "pop"
              /\ worker' = [worker EXCEPT ![w].at = "lists"]
           \/ /\ worker[w].at = "again"
              /\ worker' = [worker EXCEPT ![w].at = IF N = 1 THEN "stop" ELSE "steal"]
           \/ LoadStop(w) \/ LoadLive(w)
    PROVE  IInv'
<1>1. PICK p \in WorkerAt : worker' = [worker EXCEPT ![w].at = p]
  BY DEF WorkerAt, LoadStop, LoadLive
<1>2. /\ worker' \in [Workers -> WorkerState]
      /\ worker'[w].job = worker[w].job /\ worker'[w].kid = worker[w].kid
      /\ worker'[w].at = p
      /\ \A v \in Workers \ {w} : worker'[v] = worker[v]
  <2>1. worker \in [Workers -> WorkerState]
    BY DEF IInv, TypeOK
  <2>2. worker' \in [Workers -> WorkerState]
    BY <1>1, <2>1, Moves
  <2> QED
    BY <1>1, <2>1, <2>2 DEF WorkerState
<1>3. /\ worker[w].at \in {"pop", "again", "stop", "live"}
      /\ worker'[w].at \in {"lists", "steal", "stop", "pop", "live", "exited"}
      /\ worker'[w].at = "live" => stop
      /\ worker'[w].at = "exited" => stop /\ live = 0
  BY <1>2 DEF LoadStop, LoadLive, MayLeave, IInv, HoldInv, TypeOK, WorkerState
<1> QED
  BY <1>2, <1>3, GoesOn

(* try_steal() asks only workers.                                          *)
LEMMA ScanStep ==
    ASSUME IInv, NEW w \in Workers,
           worker[w].at = "steal",
           NEW q \in Seq(Workers), NEW p \in {"steal", "stop"},
           worker' = [worker EXCEPT ![w].at = p, ![w].scan = q],
           UNCHANGED <<local, box, live, stop, turn, client, executed>>
    PROVE  IInv'
<1>1. /\ worker' \in [Workers -> WorkerState]
      /\ worker'[w].job = worker[w].job /\ worker'[w].kid = worker[w].kid
      /\ worker'[w].at = p
      /\ \A v \in Workers \ {w} : worker'[v] = worker[v]
  <2>1. worker \in [Workers -> WorkerState] /\ p \in WorkerAt
    BY DEF IInv, TypeOK, WorkerAt
  <2>2. [worker EXCEPT ![w].at = p] \in [Workers -> WorkerState]
    BY <2>1, Moves
  <2>3. worker' \in [Workers -> WorkerState]
    BY <2>2, Moves
  <2> QED
    BY <2>1, <2>3 DEF WorkerState
<1> QED
  BY <1>1, GoesOn

(* Emptying the lists moves jobs within one queue.                         *)
LEMMA PopListsStep ==
    ASSUME IInv, NEW w \in Workers, PopLists(w)
    PROVE  IInv'
<1> USE DEF IInv, Collected
<1>1. PICK moved \in SUBSET box[w] :
         /\ local' = [local EXCEPT ![w] = @ \cup moved]
         /\ box' = [box EXCEPT ![w] = @ \ moved]
  BY DEF PopLists
<1>2. /\ worker[w].at = "lists"
      /\ worker' = [worker EXCEPT ![w].at = "again"]
      /\ UNCHANGED <<live, stop, turn, client, executed>>
  BY DEF PopLists
<1>3. /\ worker'[w].at = "again"
      /\ \A v \in Workers : /\ worker'[v].job = worker[v].job
                            /\ worker'[v].kid = worker[v].kid
      /\ \A v \in Workers \ {w} : worker'[v] = worker[v]
  BY <1>2 DEF TypeOK, WorkerState
<1>4. TypeOK'
  <2>1. worker' \in [Workers -> WorkerState]
    BY <1>2, Moves DEF TypeOK, WorkerAt
  <2>2. local' \in [Workers -> SUBSET Jobs] /\ box' \in [Workers -> SUBSET Jobs]
    BY <1>1 DEF TypeOK, WorkerState
  <2> QED
    BY <1>2, <2>1, <2>2 DEF TypeOK, WorkerState
<1>5. HoldInv'
  BY <1>2, <1>3 DEF HoldInv
<1>6. \A v \in Workers : \A k :
         (k \in local'[v] \/ k \in box'[v]) <=> (k \in local[v] \/ k \in box[v])
  BY <1>1 DEF TypeOK, WorkerState
<1>7. /\ \A k : k \in Queued' <=> k \in Queued
      /\ Running' = Running /\ Arriving' = Arriving
  <2>1. \A k : k \in Queued' <=> k \in Queued
    BY <1>6, WhereIs, WhereIsNext
  <2>2. Running' = Running /\ Arriving' = Arriving
    BY <1>2, <1>3 DEF Running, Arriving
  <2> QED
    BY <2>1, <2>2
<1>8. JobInOnePlace'
  <2>1. /\ executed' \cap (Queued \cup Running \cup Arriving)' = {}
        /\ Queued' \cap (Running \cup Arriving)' = {}
    BY <1>2, <1>7 DEF JobInOnePlace
  <2>2. ASSUME NEW v \in Workers PROVE local'[v] \cap box'[v] = {}
    <3>1. local[v] \cap box[v] = {}
      BY DEF JobInOnePlace
    <3> QED
      BY <1>1, <3>1 DEF TypeOK, WorkerState
  <2>3. ASSUME NEW v \in Workers, NEW u \in Workers, v # u
        PROVE  (local'[v] \cup box'[v]) \cap (local'[u] \cup box'[u]) = {}
    <3>1. (local[v] \cup box[v]) \cap (local[u] \cup box[u]) = {}
      BY <2>3 DEF JobInOnePlace
    <3> QED
      BY <1>6, <3>1
  <2> QED
    BY <1>3, <2>1, <2>2, <2>3 DEF JobInOnePlace
<1>9. ArrivingOnce'
  <2>1. (Arriving \cap (Running \cup Queued \cup executed))' = {}
    BY <1>2, <1>7 DEF ArrivingOnce
  <2> QED
    BY <1>2, <1>3, <2>1 DEF ArrivingOnce
<1>10. CountInv'
  <2>1. InFlight' = InFlight
    BY <1>7 DEF InFlight
  <2> QED
    BY <1>2, <2>1 DEF CountInv
<1>11. NobodyLeavesEarly'
  BY <1>2, <1>3, <1>7 DEF NobodyLeavesEarly
<1> QED
  BY <1>4, <1>5, <1>8, <1>9, <1>10, <1>11

(* exec_job() counts the job off after it has returned.                    *)
LEMMA FinishStep ==
    ASSUME IInv, NEW w \in Workers, Finish(w)
    PROVE  IInv'
<1> USE DEF IInv, CountedOut
<1> DEFINE j == worker[w].job
<1>0. /\ worker[w].at = "exec"
      /\ executed' = executed \cup {j} /\ live' = live - 1
      /\ worker' = [worker EXCEPT ![w].at = "pop", ![w].job = NoJob]
      /\ UNCHANGED <<local, box, stop, turn, client>>
      /\ j \in Jobs /\ j # NoJob /\ worker[w].job = j
  BY DEF Finish, TypeOK, WorkerState, HoldInv, JobOrNone
<1> HIDE DEF j
<1>1. /\ worker'[w].at = "pop" /\ worker'[w].job = NoJob
      /\ \A v \in Workers : worker'[v].kid = worker[v].kid
      /\ \A v \in Workers \ {w} : worker'[v] = worker[v]
  BY <1>0 DEF TypeOK, WorkerState
<1>2. j \in Running /\ j \notin Queued /\ j \notin Arriving /\ j \in InFlight
      /\ \A v \in Workers \ {w} : worker[v].job # j
  <2>1. j \in Running
    BY <1>0, WhereIs
  <2>2. \A v \in Workers \ {w} : worker[v].job # j
    BY <1>0 DEF JobInOnePlace
  <2> QED
    BY <2>1, <2>2 DEF JobInOnePlace, ArrivingOnce, InFlight
<1>3. /\ Queued' = Queued /\ Arriving' = Arriving
      /\ \A k : k \in Running' <=> k \in Running /\ k # j
  <2>1. Queued' = Queued
    BY <1>0 DEF Queued
  <2>b. \A k : (\E v \in Workers : worker'[v].kid = k) <=>
                  (\E v \in Workers : worker[v].kid = k)
    BY <1>1
  <2>a. \A k : k \in Arriving' <=> k \in Arriving
    BY <1>0, <2>b, WhereIs, WhereIsNext
  <2>2. \A k : k # NoJob => ((\E v \in Workers : worker'[v].job = k) <=>
                               (\E v \in Workers \ {w} : worker[v].job = k))
    BY <1>1
  <2>3. \A k : (\E v \in Workers \ {w} : worker[v].job = k) <=>
                  (\E v \in Workers : worker[v].job = k) /\ k # j
    BY <1>0, <1>2
  <2> QED
    BY <2>1, <2>a, <2>2, <2>3, WhereIs, WhereIsNext
<1>4. InFlight' = InFlight \ {j}
  BY <1>2, <1>3 DEF InFlight
<1>5. CountInv' /\ live' \in 0 .. Cardinality(Jobs)
  <2>1. live' = Cardinality(InFlight')
    BY <1>0, <1>2, <1>4, InFlightFinite, FS_RemoveElement DEF CountInv
  <2>2. InFlight' \subseteq Jobs
    BY <1>4, InFlightFinite
  <2>3. live' \in Nat /\ live' <= Cardinality(Jobs)
    BY <2>1, <2>2, FS_Subset, FS_CardinalityType
  <2> QED
    BY <2>1, <2>3, FS_CardinalityType DEF CountInv
<1>6. TypeOK'
  <2>1. worker' \in [Workers -> WorkerState]
    BY <1>0 DEF TypeOK, WorkerState, JobOrNone, WorkerAt
  <2> QED
    BY <1>0, <1>5, <2>1 DEF TypeOK, WorkerState
<1>7. HoldInv'
  BY <1>0, <1>1 DEF HoldInv
<1>8. JobInOnePlace'
  <2>1. /\ executed' \cap (Queued \cup Running \cup Arriving)' = {}
        /\ Queued' \cap (Running \cup Arriving)' = {}
    BY <1>0, <1>2, <1>3 DEF JobInOnePlace
  <2>2. ASSUME NEW v \in Workers, NEW u \in Workers, v # u
        PROVE  worker'[v].job # NoJob => worker'[v].job # worker'[u].job
    BY <1>1, <2>2 DEF JobInOnePlace
  <2> QED
    BY <1>0, <2>1, <2>2 DEF JobInOnePlace
<1>9. ArrivingOnce'
  <2>1. (Arriving \cap (Running \cup Queued \cup executed))' = {}
    BY <1>0, <1>2, <1>3 DEF ArrivingOnce
  <2>2. ASSUME NEW v \in Workers, worker'[v].kid # NoJob
        PROVE  /\ worker'[v].kid # client'.job
               /\ \A u \in Workers : v # u => worker'[v].kid # worker'[u].kid
    <3>1. \A u \in Workers : worker'[u].kid = worker[u].kid
      BY <1>1
    <3>2. client' = client
      BY <1>0
    <3>3. /\ worker[v].kid # client.job
          /\ \A u \in Workers : v # u => worker[v].kid # worker[u].kid
      BY <2>2, <3>1 DEF ArrivingOnce
    <3> QED
      BY <3>1, <3>2, <3>3
  <2> QED
    BY <2>1, <2>2 DEF ArrivingOnce
<1>10. NobodyLeavesEarly'
  BY <1>0, <1>1, <1>2 DEF NobodyLeavesEarly
<1> QED
  BY <1>5, <1>6, <1>7, <1>8, <1>9, <1>10

-----------------------------------------------------------------------------
(* Each worker's loop keeps the invariant ...                              *)
LEMMA WorkerKeeps ==
    ASSUME IInv, NEW w \in Workers, WorkerStep(w)
    PROVE  IInv'
<1>1. ASSUME PopDeque(w) PROVE IInv'
  BY <1>1, Takes, SearchStep DEF PopDeque
<1>2. ASSUME PopAgain(w) PROVE IInv'
  BY <1>2, Takes, SearchStep DEF PopAgain
<1>3. ASSUME ChooseVictim(w) PROVE IInv'
  <2>1. PICK d \in 1 .. N - 1 : worker' = [worker EXCEPT ![w].scan = <<(w + d) % N>>]
    BY <1>3 DEF ChooseVictim
  <2>2. (w + d) % N \in Workers
    BY DEF Workers
  <2>3. <<(w + d) % N>> \in Seq(Workers)
    BY <2>2
  <2>4. worker' = [worker EXCEPT ![w].at = "steal", ![w].scan = <<(w + d) % N>>]
    <3>1. worker[w].at = "steal" /\ worker \in [Workers -> WorkerState]
      BY <1>3 DEF ChooseVictim, IInv, TypeOK
    <3>2. [worker EXCEPT ![w].at = "steal"] = worker
      BY <3>1 DEF WorkerState
    <3> QED
      BY <2>1, <3>2
  <2> QED
    BY <1>3, <2>3, <2>4, ScanStep DEF ChooseVictim
<1>4. ASSUME Steal(w) PROVE IInv'
  <2> DEFINE scan == worker[w].scan
             v == scan[Len(scan)]
  <2>1. scan \in Seq(Workers) /\ v \in Workers /\ worker[w].at = "steal"
    BY <1>4 DEF Steal, IInv, TypeOK, WorkerState
  <2>2. ASSUME NEW j \in local[v], local' = [local EXCEPT ![v] = LeftInDeque(v, j)],
               worker' = Runs(w, j)
        PROVE  IInv'
    BY <1>4, <2>1, <2>2, Takes DEF Steal
  <2>3. ASSUME UNCHANGED local,
               worker' = [worker EXCEPT ![w].scan = Append(@, NextVictim(w, v))]
        PROVE  IInv'
    <3>1. Append(scan, NextVictim(w, v)) \in Seq(Workers)
      BY <2>1, NextVictimIsWorker
    <3>2. worker' = [worker EXCEPT ![w].at = "steal",
                                   ![w].scan = Append(scan, NextVictim(w, v))]
      BY <2>1, <2>3 DEF IInv, TypeOK, WorkerState
    <3> QED
      BY <1>4, <2>1, <2>3, <3>1, <3>2, ScanStep DEF Steal
  <2>4. ASSUME UNCHANGED local,
               worker' = [worker EXCEPT ![w].at = "stop", ![w].scan = <<>>]
        PROVE  IInv'
    <3>1. <<>> \in Seq(Workers)
      OBVIOUS
    <3> QED
      BY <1>4, <2>1, <2>4, <3>1, ScanStep DEF Steal
  <2> QED
    BY <1>4, <2>2, <2>3, <2>4 DEF Steal
<1>5. ASSUME LoadStop(w) \/ LoadLive(w) PROVE IInv'
  BY <1>5, SearchStep DEF LoadStop, LoadLive
<1> QED
  BY <1>1, <1>2, <1>3, <1>4, <1>5, PopListsStep, ContextSubmitStep,
     ContextPushStep, FinishStep DEF WorkerStep

(* ... and so does the client's call of request_stop() or join().          *)
LEMMA ClientKeeps ==
    ASSUME IInv, RequestStop \/ Join \/ UNCHANGED vars
    PROVE  IInv'
<1> USE DEF IInv
<1>1. /\ UNCHANGED <<local, box, live, turn, worker, executed>>
      /\ client'.job = client.job
      /\ client' \in [at : {"ready", "push", "join", "joined"}, job : JobOrNone,
                     target : Workers]
      /\ client'.at = "push" <=> client.at = "push"
      /\ stop => stop'
      /\ stop' \in BOOLEAN
      /\ stop' <=> client'.at \in {"join", "joined"}
  <2>1. CASE RequestStop
    BY <2>1 DEF RequestStop, TypeOK, HoldInv
  <2>2. CASE Join
    BY <2>2 DEF Join, TypeOK, HoldInv
  <2>3. CASE UNCHANGED vars
    BY <2>3 DEF vars, TypeOK, HoldInv
  <2> QED
    BY <2>1, <2>2, <2>3
<1>2. TypeOK'
  BY <1>1 DEF TypeOK
<1>3. HoldInv'
  BY <1>1 DEF HoldInv
<1>4. Queued' = Queued /\ Running' = Running /\ Arriving' = Arriving
  BY <1>1 DEF Queued, Running, Arriving
<1> QED
  BY <1>1, <1>2, <1>3, <1>4
  DEF JobInOnePlace, ArrivingOnce, CountInv, InFlight, NobodyLeavesEarly

-----------------------------------------------------------------------------
(* IInv is inductive.                                                      *)
LEMMA NextIInv == IInv /\ [Next]_vars => IInv'
BY SubmitStep, SubmitPushStep, ClientKeeps, WorkerKeeps
DEF Next, Terminated

(* So IInv holds for ever.                                                 *)
LEMMA Inductive == Spec => []IInv
BY InitIInv, NextIInv, PTL DEF Spec

(* Every variable keeps its type; in particular m_liveInvocations never    *)
(* wraps below zero.                                                       *)
THEOREM TypeCorrect == Spec => []TypeOK
<1>1. IInv => TypeOK
  BY DEF IInv
<1> QED
  BY <1>1, Inductive, PTL

(* No job is in two queues, run by two workers, or found again after it    *)
(* was executed, whoever pops, steals or submits meanwhile.                *)
THEOREM JobsAreInOnePlace == Spec => []JobInOnePlace
<1>1. IInv => JobInOnePlace
  BY DEF IInv
<1> QED
  BY <1>1, Inductive, PTL

(* m_liveInvocations is the number of jobs that are queued, running or on  *)
(* their way into a queue.                                                 *)
THEOREM LiveIsExact == Spec => []LiveCountsWork
<1>1. IInv => LiveCountsWork
  <2> SUFFICES ASSUME IInv PROVE LiveCountsWork
    OBVIOUS
  <2>1. /\ IsFiniteSet(Queued) /\ IsFiniteSet(Running) /\ IsFiniteSet(Arriving)
    BY InFlightFinite, FS_Subset DEF IInv, InFlight
  <2>2. Queued \cap Running = {} /\ (Queued \cup Running) \cap Arriving = {}
    BY DEF IInv, JobInOnePlace, ArrivingOnce
  <2>3. /\ IsFiniteSet(Queued \cup Running)
        /\ Cardinality(Queued \cup Running) = Cardinality(Queued) + Cardinality(Running)
    BY <2>1, <2>2, FS_Union, FS_EmptySet, FS_CardinalityType
  <2>4. Cardinality(InFlight) =
            Cardinality(Queued \cup Running) + Cardinality(Arriving)
    <3>1. InFlight = (Queued \cup Running) \cup Arriving
      BY DEF InFlight
    <3>2. Cardinality((Queued \cup Running) \cup Arriving) =
              Cardinality(Queued \cup Running) + Cardinality(Arriving)
              - Cardinality((Queued \cup Running) \cap Arriving)
      BY <2>1, <2>3, FS_Union
    <3>3. Cardinality((Queued \cup Running) \cap Arriving) = 0
      BY <2>2, FS_EmptySet
    <3>4. /\ Cardinality(Queued \cup Running) \in Nat
          /\ Cardinality(Arriving) \in Nat
      BY <2>1, <2>3, FS_CardinalityType
    <3> QED
      BY <3>1, <3>2, <3>3, <3>4
  <2> QED
    BY <2>3, <2>4 DEF IInv, CountInv, LiveCountsWork
<1> QED
  BY <1>1, Inductive, PTL

(* A worker only leaves when stop was requested and no job is left or can  *)
(* still come.                                                             *)
THEOREM WorkersStayForWork == Spec => []NobodyLeavesEarly
<1>1. IInv => NobodyLeavesEarly
  BY DEF IInv
<1> QED
  BY <1>1, Inductive, PTL
=============================================================================
