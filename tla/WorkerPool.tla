----------------------------- MODULE WorkerPool -----------------------------
(***************************************************************************)
(* The worker threads (libs/core/sync/.../worker_pool.hpp): where          *)
(* invocations are submitted, how workers find them, and how the pool      *)
(* stops.  A queue keeps the promise of JobBag: "local" is the part that   *)
(* thieves can reach, "box" the inbox and overflow list that only the      *)
(* owner reaches.                                                          *)
(*                                                                         *)
(* The client thread submits jobs, then stops and joins the pool.  A       *)
(* running job may submit further jobs, locally or to a random worker.     *)
(***************************************************************************)
EXTENDS Integers, FiniteSets, Sequences

CONSTANTS
    Jobs,       \* the invocations; each is submitted once
    N,          \* m_workerCount
    MaxSteal    \* MAX_STEAL_ATTEMPTS

ASSUME JobsAssumption == IsFiniteSet(Jobs) /\ <<>> \notin Jobs
ASSUME NAssumption == N \in Nat \ {0}
ASSUME MaxStealAssumption == MaxSteal \in Nat \ {0}

Workers == 0 .. N - 1

VARIABLES
    local,      \* per worker: the jobs in its deque
    box,        \* per worker: the jobs in its inbox or overflow list
    live,       \* m_liveInvocations
    stop,       \* m_stopRequested
    turn,       \* m_nextSubmitWorker
    client,     \* the client's place in submit(), request_stop(), join()
    worker,     \* each worker's place in worker_main() and in its job
    executed    \* history: the jobs that have been executed

vars == <<local, box, live, stop, turn, client, worker, executed>>

NoJob == <<>>
JobOrNone == Jobs \cup {NoJob}
WorkerAt == {"pop", "lists", "again", "steal", "stop", "live", "exec", "push",
             "exited"}
WorkerState == [at : WorkerAt, job : JobOrNone, kid : JobOrNone,
                target : Workers, scan : Seq(Workers)]

TypeOK ==
    /\ local \in [Workers -> SUBSET Jobs] /\ box \in [Workers -> SUBSET Jobs]
    /\ live \in 0 .. Cardinality(Jobs)
    /\ stop \in BOOLEAN
    /\ turn \in Workers
    /\ client \in [at : {"ready", "push", "join", "joined"}, job : JobOrNone,
                   target : Workers]
    /\ worker \in [Workers -> WorkerState]
    /\ executed \subseteq Jobs

Init ==
    /\ local = [w \in Workers |-> {}] /\ box = [w \in Workers |-> {}]
    /\ live = 0
    /\ stop = FALSE
    /\ turn = 0
    /\ client = [at |-> "ready", job |-> NoJob, target |-> 0]
    /\ worker = [w \in Workers |-> [at |-> "pop", job |-> NoJob, kid |-> NoJob,
                                    target |-> 0, scan |-> <<>>]]
    /\ executed = {}

Queued == UNION {local[w] \cup box[w] : w \in Workers}
Running == {worker[w].job : w \in Workers} \ {NoJob}
(* Counted in m_liveInvocations, but not in a queue yet.                   *)
Arriving == ({client.job} \cup {worker[w].kid : w \in Workers}) \ {NoJob}
Known == Queued \cup Running \cup Arriving \cup executed

-----------------------------------------------------------------------------
(* Mutants: a submission, or a job that is done, is not counted; a worker  *)
(* leaves as soon as it is told to; the turn runs past the last worker;    *)
(* the scan for a victim runs into the thief itself; a stolen job stays in *)
(* the deque; pop() looks for new jobs only in its deque.                  *)
NotCounted == live
LeaveAtOnce == TRUE
TurnPastEnd == turn + 1
ScanWithoutSkip(w, t) == (t + 1) % N
NothingLeft(v, j) == local[v]
InboxForgotten(w) == {}

(* m_liveInvocations.fetch_add(1) and fetch_sub(1).                        *)
CountedIn == live + 1
CountedOut == live - 1
MayLeave == live = 0
NextTurn == IF turn + 1 = N THEN 0 ELSE turn + 1
(* The worker after t, skipping the thief w itself.                        *)
NextVictim(w, t) ==
    LET u == (t + 1) % N IN IF u = w THEN (u + 1) % N ELSE u
LeftInDeque(v, j) == local[v] \ {j}
(* The lists that pop() empties into the deque.                            *)
Collected(w) == box[w]

(* submit(): "not-thread-safe!", and "invalid after request_stop!".        *)
Submit(j) ==
    /\ client.at = "ready" /\ j \notin Known
    /\ live' = CountedIn
    /\ turn' = NextTurn
    /\ client' = [at |-> "push", job |-> j, target |-> turn]
    /\ UNCHANGED <<local, box, stop, worker, executed>>

SubmitPush ==
    /\ client.at = "push"
    /\ box' = [box EXCEPT ![client.target] = @ \cup {client.job}]
    /\ client' = [client EXCEPT !.at = "ready", !.job = NoJob]
    /\ UNCHANGED <<local, live, stop, turn, worker, executed>>

RequestStop ==
    /\ client.at = "ready"
    /\ stop' = TRUE
    /\ client' = [client EXCEPT !.at = "join"]
    /\ UNCHANGED <<local, box, live, turn, worker, executed>>

Join ==
    /\ client.at = "join"
    /\ \A w \in Workers : worker[w].at = "exited"
    /\ client' = [client EXCEPT !.at = "joined"]
    /\ UNCHANGED <<local, box, live, stop, turn, worker, executed>>

-----------------------------------------------------------------------------
Runs(w, j) ==
    [worker EXCEPT ![w] = [at |-> "exec", job |-> j, kid |-> NoJob,
                           target |-> 0, scan |-> <<>>]]

(* queue.pop(): the own deque ...                                          *)
PopDeque(w) ==
    /\ worker[w].at = "pop"
    /\ \/ \E j \in local[w] :
             /\ local' = [local EXCEPT ![w] = LeftInDeque(w, j)]
             /\ worker' = Runs(w, j)
       \/ /\ local[w] = {}
          /\ worker' = [worker EXCEPT ![w].at = "lists"]
          /\ UNCHANGED local
    /\ UNCHANGED <<box, live, stop, turn, client, executed>>

(* ... then the lists move to it, as far as there is room ...              *)
PopLists(w) ==
    /\ worker[w].at = "lists"
    /\ \E moved \in SUBSET Collected(w) :
          /\ moved = {} => Collected(w) = {}
          /\ local' = [local EXCEPT ![w] = @ \cup moved]
          /\ box' = [box EXCEPT ![w] = @ \ moved]
    /\ worker' = [worker EXCEPT ![w].at = "again"]
    /\ UNCHANGED <<live, stop, turn, client, executed>>

(* ... and then the deque again, where thieves may have been faster.       *)
PopAgain(w) ==
    /\ worker[w].at = "again"
    /\ \/ \E j \in local[w] :
             /\ local' = [local EXCEPT ![w] = LeftInDeque(w, j)]
             /\ worker' = Runs(w, j)
       \/ /\ local[w] = {}
          /\ worker' = [worker EXCEPT ![w].at = IF N = 1 THEN "stop" ELSE "steal"]
          /\ UNCHANGED local
    /\ UNCHANGED <<box, live, stop, turn, client, executed>>

(* try_steal() scans the others from a random one on; "scan" holds the     *)
(* victims so far, the present one last.                                   *)
ChooseVictim(w) ==
    /\ worker[w].at = "steal" /\ worker[w].scan = <<>>
    /\ \E d \in 1 .. N - 1 :
          worker' = [worker EXCEPT ![w].scan = <<(w + d) % N>>]
    /\ UNCHANGED <<local, box, live, stop, turn, client, executed>>

(* A steal takes a job or, losing a race for it, may find nothing.         *)
Steal(w) ==
    /\ worker[w].at = "steal" /\ worker[w].scan # <<>>
    /\ LET scan == worker[w].scan
           v == scan[Len(scan)]
       IN
         \/ \E j \in local[v] :
               /\ local' = [local EXCEPT ![v] = LeftInDeque(v, j)]
               /\ worker' = Runs(w, j)
         \/ /\ worker' =
                  IF Len(scan) < N - 1 /\ Len(scan) < MaxSteal
                  THEN [worker EXCEPT ![w].scan = Append(@, NextVictim(w, v))]
                  ELSE [worker EXCEPT ![w].at = "stop", ![w].scan = <<>>]
            /\ UNCHANGED local
    /\ UNCHANGED <<box, live, stop, turn, client, executed>>

(* The exit test: m_stopRequested first, then m_liveInvocations.           *)
LoadStop(w) ==
    /\ worker[w].at = "stop"
    /\ worker' = [worker EXCEPT ![w].at = IF stop THEN "live" ELSE "pop"]
    /\ UNCHANGED <<local, box, live, stop, turn, client, executed>>

LoadLive(w) ==
    /\ worker[w].at = "live"
    /\ worker' = [worker EXCEPT ![w].at = IF MayLeave THEN "exited" ELSE "pop"]
    /\ UNCHANGED <<local, box, live, stop, turn, client, executed>>

(* Context::submit_local and Context::submit, from inside a job.           *)
ContextSubmit(w, j) ==
    /\ worker[w].at = "exec" /\ j \notin Known
    /\ live' = CountedIn
    /\ \E t \in Workers :
          worker' = [worker EXCEPT ![w] = [at |-> "push", job |-> @.job, kid |-> j,
                                           target |-> t, scan |-> <<>>]]
    /\ UNCHANGED <<local, box, stop, turn, client, executed>>

(* To another worker's inbox; to the own deque or, if full, overflow list. *)
ContextPush(w) ==
    /\ worker[w].at = "push"
    /\ LET t == worker[w].target
           j == worker[w].kid
       IN  \/ box' = [box EXCEPT ![t] = @ \cup {j}] /\ UNCHANGED local
           \/ t = w /\ local' = [local EXCEPT ![w] = @ \cup {j}] /\ UNCHANGED box
    /\ worker' = [worker EXCEPT ![w].at = "exec", ![w].kid = NoJob]
    /\ UNCHANGED <<live, stop, turn, client, executed>>

(* exec_job() after the job has returned.                                  *)
Finish(w) ==
    /\ worker[w].at = "exec"
    /\ executed' = executed \cup {worker[w].job}
    /\ live' = CountedOut
    /\ worker' = [worker EXCEPT ![w].at = "pop", ![w].job = NoJob]
    /\ UNCHANGED <<local, box, stop, turn, client>>

WorkerStep(w) ==
    \/ PopDeque(w) \/ PopLists(w) \/ PopAgain(w)
    \/ ChooseVictim(w) \/ Steal(w) \/ LoadStop(w) \/ LoadLive(w)
    \/ \E j \in Jobs : ContextSubmit(w, j)
    \/ ContextPush(w) \/ Finish(w)

Terminated == client.at = "joined" /\ UNCHANGED vars

Next ==
    \/ \E j \in Jobs : Submit(j)
    \/ SubmitPush \/ RequestStop \/ Join
    \/ \E w \in Workers : WorkerStep(w)
    \/ Terminated

(* Every worker keeps running; a client that started submit() or join()    *)
(* goes on.                                                                *)
Spec ==
    /\ Init /\ [][Next]_vars
    /\ \A w \in Workers : WF_vars(WorkerStep(w))
    /\ WF_vars(SubmitPush) /\ WF_vars(Join)

-----------------------------------------------------------------------------
(* m_liveInvocations counts every job from before it can be found in a     *)
(* queue until after it was executed.                                      *)
LiveCountsWork ==
    live = Cardinality(Queued) + Cardinality(Running) + Cardinality(Arriving)

(* No worker leaves while there is work or while work can still come: not  *)
(* even a job that is being submitted by a job running elsewhere.          *)
NobodyLeavesEarly ==
    (\E w \in Workers : worker[w].at = "exited") =>
        stop /\ Queued = {} /\ Running = {} /\ Arriving = {}

(* A job is in one place: no two workers ever run or hold the same job,    *)
(* and an executed job is not found again.                                 *)
JobInOnePlace ==
    /\ executed \cap (Queued \cup Running \cup Arriving) = {}
    /\ Queued \cap (Running \cup Arriving) = {}
    /\ \A v, w \in Workers :
          /\ local[v] \cap box[w] = {}
          /\ v # w => /\ (local[v] \cup box[v]) \cap (local[w] \cup box[w]) = {}
                      /\ worker[v].job # NoJob => worker[v].job # worker[w].job

(* The assertion in try_steal(), and that one scan visits no worker twice: *)
(* a scan that ends empty-handed has looked everywhere, unless             *)
(* MAX_STEAL_ATTEMPTS cut it short.                                        *)
ScanFindsOthers ==
    \A w \in Workers :
        LET scan == worker[w].scan IN
        \A i, k \in DOMAIN scan : scan[i] # w /\ (i # k => scan[i] # scan[k])

(* Every job that was submitted is executed, also when the pool is being   *)
(* stopped and when the only worker that can reach it is busy first.       *)
SubmittedIsExecuted ==
    \A j \in Jobs : j \in Known ~> j \in executed

(* join() returns: the workers notice the stop once the work is done.      *)
JoinReturns == client.at = "join" ~> client.at = "joined"
=============================================================================
