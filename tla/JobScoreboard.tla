--------------------------- MODULE JobScoreboard ---------------------------
(***************************************************************************)
(* The dependency scoreboard of one job slot                               *)
(* (libs/core/sync/.../job_scoreboard.hpp) and the lock-free protocol that *)
(* scoreboards run among themselves: the owner of an open scoreboard       *)
(* registers it with its sources, a completing source closes its consumer  *)
(* list and tells every consumer on it.                                    *)
(*                                                                         *)
(* A consumer list is the set of its nodes: the order of the intrusive     *)
(* list is not observable by a caller.  The load / compare_exchange_weak   *)
(* loops are one step each, because a failed exchange changes nothing and  *)
(* a successful one re-validates the loaded head.  What the caller of the  *)
(* class must guarantee (it is the JobScheduler that does) is collected in *)
(* MayReset and MayRegister; "phase" is the caller's progress.             *)
(*                                                                         *)
(* Each definition under "Mutants" is a plausible bug in one of the steps  *)
(* and no part of the model: it shows which property would notice it.      *)
(***************************************************************************)
EXTENDS Integers, FiniteSets

CONSTANTS
    Slots,     \* the job slots; slot s is also the name of its scoreboard
    MaxAdds,   \* bound: addSource calls between two resets of a scoreboard
    MaxGen     \* bound: resets of a scoreboard

ASSUME SlotsAssumption == IsFiniteSet(Slots)
ASSUME MaxAddsAssumption == MaxAdds \in Nat
ASSUME MaxGenAssumption == MaxGen \in Nat \ {0}

VARIABLES
    phase,      \* what the caller does with the slot
    gen,        \* history: how often the scoreboard was reset
    pending,    \* m_pending: unfinished sources, plus 1 for the submit gate
    consumers,  \* m_consumers: the nodes published on the open list
    sealed,     \* the scoreboards whose m_consumers is completed_sentinel()
    top,        \* m_top - m_nodes
    reg,        \* the addSource call in flight for the slot
    walk,       \* complete(): nodes of the closed list not yet visited
    ready,      \* complete(): ReadyConsumers, nodes not yet handed out
    sources     \* history: <<source, gen>> of every addSource since reset

boardVars == <<phase, gen, pending, consumers, sealed, top, reg, walk, ready,
               sources>>

(* MAX_DEPENDENCIES: the length of a node array.                           *)
MaxDependencies == Cardinality(Slots) - 1

(* Node <<c, i>> is m_nodes[i] of c; its field "consumer" is c.            *)
Node == Slots \X (0 .. MaxAdds - 1)
Consumer(n) == n[1]

NoReg == [node |-> <<>>, source |-> <<>>]
Registering(c) == reg[c] # NoReg

Phases == {"idle", "open", "waiting", "ready", "issued", "running",
           "walking", "issuing", "done"}

TypeOK ==
    /\ phase \in [Slots -> Phases]
    /\ gen \in [Slots -> 0 .. MaxGen]
    /\ pending \in [Slots -> Nat]
    /\ consumers \in [Slots -> SUBSET Node]
    /\ sealed \subseteq Slots
    /\ top \in [Slots -> 0 .. MaxAdds]
    /\ reg \in [Slots -> [node : Node, source : Slots] \cup {NoReg}]
    /\ walk \in [Slots -> SUBSET Node]
    /\ ready \in [Slots -> SUBSET Node]
    /\ sources \in [Slots -> SUBSET (Slots \X (0 .. MaxGen))]

Init ==
    /\ phase = [s \in Slots |-> "idle"]
    /\ gen = [s \in Slots |-> 0]
    /\ pending = [s \in Slots |-> 0]
    /\ consumers = [s \in Slots |-> {}]
    /\ sealed = {}
    /\ top = [s \in Slots |-> 0]
    /\ reg = [s \in Slots |-> NoReg]
    /\ walk = [s \in Slots |-> {}]
    /\ ready = [s \in Slots |-> {}]
    /\ sources = [s \in Slots |-> {}]

-----------------------------------------------------------------------------
(* Who waits for whom: c has a node on the open list of s, or is about to. *)
WaitsFor(c, s) ==
    \/ \E n \in consumers[s] : Consumer(n) = c
    \/ Registering(c) /\ reg[c].source = s /\ s \notin sealed

(* Adding "c waits for s" closes no cycle: every set of jobs that contains *)
(* both has a member that waits for no other member.                       *)
KeepsAcyclic(c, s) ==
    \A S \in SUBSET Slots : {c, s} \subseteq S =>
        \E x \in S : ~ \E y \in S : WaitsFor(x, y) \/ <<x, y>> = <<c, s>>

(* The caller's side of the contract.  A slot is reset only after its last *)
(* job is done and while no addSource call holds it as a source; sources   *)
(* are added to open scoreboards by their one owner, to jobs that exist,   *)
(* without cycles.                                                         *)
MayReset(s) ==
    /\ phase[s] \in {"idle", "done"}
    /\ \A c \in Slots : reg[c] # NoReg => reg[c].source # s
MayRegister(c, s) ==
    /\ phase[c] = "open" /\ ~Registering(c)
    /\ phase[s] # "idle" /\ s # c
    /\ KeepsAcyclic(c, s)

-----------------------------------------------------------------------------
(* Mutants: a count or a flag that is left as it was, an off-by-one, a list *)
(* that is overwritten, a node the iterator still needs after its consumer *)
(* was issued.                                                             *)
NoSubmitGate == 0
CountNothing(p) == p
ReadyTooEarly(p) == p <= 2
NeverCompleted(s) == FALSE
LeaveOpen(s) == sealed
RelinkOnly(list, n) == {n}
IssueKeepsNode(s, n) ==
    /\ phase[s] = "issuing" /\ n \in ready[s] /\ phase[Consumer(n)] = "ready"
    /\ phase' = [phase EXCEPT ![Consumer(n)] = "issued"]
    /\ UNCHANGED <<gen, pending, consumers, sealed, top, reg, walk, ready,
                   sources>>

(* The single accesses the protocol is made of.                            *)
SubmitGate == 1
CountSource(p) == p + 1
IsReady(old) == old = 1                  \* result of notifySourceReady()
IsCompleted(s) == s \in sealed           \* head == completed_sentinel()
Close(s) == sealed \cup {s}
Relink(list, n) == list \cup {n}

(* reset(): an open list, and pending 1 for the submit gate.               *)
Reset(s) ==
    /\ MayReset(s)
    /\ gen[s] < MaxGen
    /\ phase' = [phase EXCEPT ![s] = "open"]
    /\ gen' = [gen EXCEPT ![s] = @ + 1]
    /\ pending' = [pending EXCEPT ![s] = SubmitGate]
    /\ consumers' = [consumers EXCEPT ![s] = {}]
    /\ sealed' = sealed \ {s}
    /\ top' = [top EXCEPT ![s] = 0]
    /\ sources' = [sources EXCEPT ![s] = {}]
    /\ UNCHANGED <<reg, walk, ready>>

(* addSource(s) up to the fetch_add: take a node, count the source.        *)
Register(c, s) ==
    /\ MayRegister(c, s)
    /\ top[c] < MaxAdds
    /\ reg' = [reg EXCEPT ![c] = [node |-> <<c, top[c]>>, source |-> s]]
    /\ top' = [top EXCEPT ![c] = @ + 1]
    /\ pending' = [pending EXCEPT ![c] = CountSource(@)]
    /\ sources' = [sources EXCEPT ![c] = @ \cup {<<s, gen[s]>>}]
    /\ UNCHANGED <<phase, gen, consumers, sealed, walk, ready>>

(* addSource, the loop: publish the node, or find the sentinel and take    *)
(* the count back (the gate is still closed, so this never makes c ready). *)
Publish(c) ==
    /\ Registering(c)
    /\ LET s == reg[c].source IN
         \/ /\ ~IsCompleted(s)
            /\ consumers' = [consumers EXCEPT ![s] = @ \cup {reg[c].node}]
            /\ UNCHANGED pending
         \/ /\ IsCompleted(s)
            /\ pending' = [pending EXCEPT ![c] = @ - 1]
            /\ UNCHANGED consumers
    /\ reg' = [reg EXCEPT ![c] = NoReg]
    /\ UNCHANGED <<phase, gen, sealed, top, walk, ready, sources>>

(* commit(): open the gate; a true result makes the caller issue the job.  *)
Commit(c) ==
    /\ phase[c] = "open" /\ ~Registering(c)
    /\ pending' = [pending EXCEPT ![c] = @ - 1]
    /\ phase' = [phase EXCEPT ![c] =
                    IF IsReady(pending[c]) THEN "issued" ELSE "waiting"]
    /\ UNCHANGED <<gen, consumers, sealed, top, reg, walk, ready, sources>>

(* The caller executes the issued job.                                     *)
Run(s) ==
    /\ phase[s] = "issued"
    /\ phase' = [phase EXCEPT ![s] = "running"]
    /\ UNCHANGED <<gen, pending, consumers, sealed, top, reg, walk, ready,
                   sources>>

(* complete(): the exchange that closes the list.                          *)
Complete(s) ==
    /\ phase[s] = "running"
    /\ phase' = [phase EXCEPT ![s] = "walking"]
    /\ walk' = [walk EXCEPT ![s] = consumers[s]]
    /\ consumers' = [consumers EXCEPT ![s] = {}]
    /\ sealed' = Close(s)
    /\ UNCHANGED <<gen, pending, top, reg, ready, sources>>

(* complete(), one turn of the loop: node->next is read before the node's  *)
(* consumer is told, and a node whose consumer became ready is relinked.   *)
Notify(s, n) ==
    /\ phase[s] = "walking" /\ n \in walk[s]
    /\ LET c == Consumer(n) IN
         /\ pending' = [pending EXCEPT ![c] = @ - 1]
         /\ \/ /\ IsReady(pending[c])
               /\ phase' = [phase EXCEPT ![c] = "ready"]
               /\ ready' = [ready EXCEPT ![s] = Relink(@, n)]
            \/ ~IsReady(pending[c]) /\ UNCHANGED <<phase, ready>>
    /\ walk' = [walk EXCEPT ![s] = @ \ {n}]
    /\ UNCHANGED <<gen, consumers, sealed, top, reg, sources>>

(* complete() returns ReadyConsumers.                                      *)
Return(s) ==
    /\ phase[s] = "walking" /\ walk[s] = {}
    /\ phase' = [phase EXCEPT ![s] = "issuing"]
    /\ UNCHANGED <<gen, pending, consumers, sealed, top, reg, walk, ready,
                   sources>>

(* The caller issues the consumer the iterator points at.  The iterator    *)
(* has cached m_next, so the node is not read again.                       *)
Issue(s, n) ==
    /\ phase[s] = "issuing" /\ n \in ready[s]
    /\ phase' = [phase EXCEPT ![Consumer(n)] = "issued"]
    /\ ready' = [ready EXCEPT ![s] = @ \ {n}]
    /\ UNCHANGED <<gen, pending, consumers, sealed, top, reg, walk, sources>>

(* The caller has issued every ready consumer.                             *)
Finish(s) ==
    /\ phase[s] = "issuing" /\ ready[s] = {}
    /\ phase' = [phase EXCEPT ![s] = "done"]
    /\ UNCHANGED <<gen, pending, consumers, sealed, top, reg, walk, ready,
                   sources>>

(* Every slot has used up the bound on its generations.                    *)
Exhausted ==
    /\ \A s \in Slots : phase[s] = "done" /\ gen[s] = MaxGen
    /\ UNCHANGED boardVars

Owner(c) == Publish(c) \/ Commit(c)
Worker(s) ==
    \/ Run(s) \/ Complete(s) \/ Return(s) \/ Finish(s)
    \/ \E n \in Node : Notify(s, n) \/ Issue(s, n)

BoardNext ==
    \E s \in Slots :
        Reset(s) \/ Owner(s) \/ Worker(s) \/ \E t \in Slots : Register(s, t)

Next == BoardNext \/ Exhausted

(* Workers keep working, and an owner finishes its call and submits.       *)
Fairness ==
    \A s \in Slots : WF_boardVars(Worker(s)) /\ WF_boardVars(Owner(s))

Spec == Init /\ [][Next]_boardVars /\ Fairness

-----------------------------------------------------------------------------
(* Nodes of c that stand for a source that has not been counted off yet.   *)
Outstanding(c) ==
    {n \in Node :
        /\ Consumer(n) = c
        /\ \/ Registering(c) /\ n = reg[c].node
           \/ \E s \in Slots : n \in consumers[s] \cup walk[s]}

Gate(c) == IF phase[c] = "open" THEN 1 ELSE 0

(* m_pending counts exactly the closed gate and the unfinished sources: no *)
(* notification of complete() or addSource is lost or given twice, on any  *)
(* interleaving of registrations with completions.                         *)
PendingExact ==
    \A c \in Slots : pending[c] = Gate(c) + Cardinality(Outstanding(c))

Finished(s, g) == gen[s] > g \/ (gen[s] = g /\ s \in sealed)

(* A job handed to the workers has no unfinished source: every job it was  *)
(* made to depend on had closed its list, even if the source's slot has    *)
(* been reused since.                                                      *)
StartAfterSources ==
    \A c \in Slots : phase[c] \in {"issued", "running"} =>
        \A d \in sources[c] : Finished(d[1], d[2])

(* A committed job whose sources are all finished is never stranded: either *)
(* a walking source still has a notification for it or it is on exactly    *)
(* one list of ready consumers.                                            *)
NotStranded ==
    \A c \in Slots :
        /\ phase[c] = "waiting" => Outstanding(c) # {}
        /\ phase[c] = "ready" =>
              \E s \in Slots : \E n \in ready[s] :
                  \A t \in Slots : \A m \in ready[t] :
                      Consumer(m) = c <=> <<t, m>> = <<s, n>>

Linked(n) ==
    \/ \E s \in Slots : n \in consumers[s] \cup walk[s] \cup ready[s]
    \/ Registering(Consumer(n)) /\ reg[Consumer(n)].node = n

(* The node array of a scoreboard is recycled by reset() and by m_top++    *)
(* while other threads walk lists that its nodes were on: a node is never  *)
(* rewritten while it is still on a list.                                  *)
NodesUnlinkedWhenReused ==
    [][\A c \in Slots :
          /\ gen'[c] # gen[c] =>
                \A n \in Node : Consumer(n) = c => ~Linked(n)
          /\ top'[c] > top[c] => ~Linked(<<c, top[c]>>)]_boardVars

(* Scoreboards implement the task graph: a task waits for s as long as its *)
(* node is on the open list of s or still on its way there, so the one     *)
(* exchange in complete() takes s out of every task at once.               *)
TaskStatus(p) ==
    CASE p = "idle" -> "free"
      [] p = "open" -> "open"
      [] p \in {"waiting", "ready", "issued"} -> "submitted"
      [] p = "running" -> "running"
      [] OTHER -> "done"
Graph == INSTANCE TaskGraph WITH
    status <- [s \in Slots |-> TaskStatus(phase[s])],
    waits <- [c \in Slots |-> {s \in Slots : WaitsFor(c, s)}]
ImplementsTaskGraph == Graph!Spec

(* Every submitted job is eventually executed and completed.               *)
SubmittedJobsFinish ==
    \A c \in Slots :
        phase[c] \in {"waiting", "ready", "issued"} ~> phase[c] = "done"
=============================================================================
