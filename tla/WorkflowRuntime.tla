--------------------------- MODULE WorkflowRuntime ---------------------------
(***************************************************************************)
(* executeWorkflow of src/core/workflow-runtime.mjs: the scheduling loop   *)
(* that runs a task graph in batches, with retries, one fallback agent per *)
(* node and at most one reviewer-driven replan.                            *)
(*                                                                         *)
(* The code between two awaits is one action.  A batch is awaited as a     *)
(* whole (Promise.all), and the handlers of its nodes end in any order.    *)
(* The sets `completed` (never read) and `halted` (never given a member)   *)
(* of the code are left out, and so are times, outputs and audit calls.    *)
(***************************************************************************)
EXTENDS TaskGraph, FiniteSets

CONSTANTS
  Node,          \* every id a graph may use
  Graphs,        \* the graphs executeWorkflow may be called with
  Replacements,  \* what replan() may return; {} when there is no replan()
  Concurrency    \* options.concurrency

IsGraph(g) ==
  /\ g.list \in Seq(Node)
  /\ \A i, j \in DOMAIN g.list : g.list[i] = g.list[j] => i = j
  /\ g.deps \in [Node -> SUBSET Node]
  /\ g.kind \in [Node -> Kinds]
  /\ g.maxAttempts \in [Node -> Nat \ {0}]

ASSUME NodeAssumption == Node \subseteq Nat /\ IsFiniteSet(Node)
ASSUME GraphAssumption == \A g \in Graphs \cup Replacements : IsGraph(g)
ASSUME ConcurrencyAssumption == Concurrency \in 1 .. 16

VARIABLES
  graph,         \* currentGraph
  order,         \* orderById: ids by position, computed once, never again
  status,        \* stateEntries: the status of every node
  attempts,      \* stateEntries: attempts under the current agent
  fallbackUsed,  \* attemptWithRetry's local, per node
  invoked,       \* how often runNode was called for the node's current state
  failed,        \* the set `failed`
  blocked,       \* the set `blocked`
  inflight,      \* nodes whose attemptWithRetry has not settled
  replanUsed,
  pc             \* where the loop stands

vars == <<graph, order, status, attempts, fallbackUsed, invoked, failed,
          blocked, inflight, replanUsed, pc>>

\* A status of NODE_STATUSES, or ABSENT: stateEntries has no such id.
Statuses == {"PENDING", "RUNNING", "SUCCEEDED", "FAILED", "BLOCKED", "ABSENT"}

-----------------------------------------------------------------------------
Running == {n \in Node : status[n] = "RUNNING"}

Pending == {n \in Nodes(graph) : status[n] = "PENDING"}

\* Mutant: a blocked dependency does not block.
NodeIsBlockedForgetsBlocked(n) == graph.deps[n] \cap failed # {}

NodeIsBlocked(n) == graph.deps[n] \cap (failed \cup blocked) # {}

Ready == {n \in Pending : ~ NodeIsBlocked(n)}

\* orderById.get(id) ?? 0
Rank(o, n) ==
  IF \E i \in DOMAIN o : o[i] = n THEN (CHOOSE i \in DOMAIN o : o[i] = n) - 1 ELSE 0

Position(g, n) == CHOOSE i \in DOMAIN g.list : g.list[i] = n

\* The stable sort by rank puts m before n.
SortsBefore(g, o, m, n) ==
  \/ Rank(o, m) < Rank(o, n)
  \/ Rank(o, m) = Rank(o, n) /\ Position(g, m) < Position(g, n)

\* Mutant: the in-flight nodes counted once.
BatchWidthCountsOnce == Concurrency

\* Mutant: <= for < in the loop's guard, and no double count.
BatchWidthOffByOne == Concurrency + 1

\* attemptWithRetry runs up to its first await, so when k nodes were started
\* running.size and inflight.length are both k: the loop counts them twice.
BatchWidth == Cardinality({k \in 0 .. (Concurrency - 1) : k + k < Concurrency})

\* The prefixes of the sorted ready list at which the loop can end.
Batches == {B \in SUBSET Ready :
              /\ Cardinality(B) <= BatchWidth
              /\ B = Ready \/ Cardinality(B) = BatchWidth
              /\ \A m \in B, n \in Ready \ B : SortsBefore(graph, order, m, n)}

ExecutionStatus == IF failed # {} \/ blocked # {} THEN "FAILED"
                   ELSE "EXECUTION_SUCCEEDED"
-----------------------------------------------------------------------------
Init ==
  /\ graph \in Graphs
  /\ order \in [1 .. Len(graph.list) -> Nodes(graph)]
  /\ IsKahnOrder(graph, order)
  /\ status = [n \in Node |-> IF n \in Nodes(graph) THEN "PENDING" ELSE "ABSENT"]
  /\ attempts = [n \in Node |-> 0]
  /\ fallbackUsed = [n \in Node |-> FALSE]
  /\ invoked = [n \in Node |-> 0]
  /\ failed = {}
  /\ blocked = {}
  /\ inflight = {}
  /\ replanUsed = FALSE
  /\ pc = "schedule"

\* The start of runOne for every node of B, up to the call of runNode.
RunOne(B) ==
  /\ status' = [n \in Node |-> IF n \in B THEN "RUNNING" ELSE status[n]]
  /\ invoked' = [n \in Node |-> IF n \in B THEN invoked[n] + 1 ELSE invoked[n]]

StartBatch ==
  /\ pc = "schedule"
  /\ Ready # {}
  /\ \E B \in Batches : RunOne(B) /\ inflight' = B
  /\ pc' = "await"
  /\ UNCHANGED <<graph, order, attempts, fallbackUsed, failed, blocked, replanUsed>>

\* Mutant: the successful retry keeps its failed mark.
AttemptSucceedsKeepsMark(n) ==
  /\ status[n] = "RUNNING"
  /\ status' = [status EXCEPT ![n] = "SUCCEEDED"]
  /\ attempts' = [attempts EXCEPT ![n] = @ + 1]
  /\ inflight' = inflight \ {n}
  /\ UNCHANGED <<graph, order, fallbackUsed, invoked, failed, blocked, replanUsed, pc>>

\* The rest of runOne after runNode resolved with success.
AttemptSucceeds(n) ==
  /\ status[n] = "RUNNING"
  /\ status' = [status EXCEPT ![n] = "SUCCEEDED"]
  /\ attempts' = [attempts EXCEPT ![n] = @ + 1]
  /\ failed' = failed \ {n}
  /\ inflight' = inflight \ {n}
  /\ UNCHANGED <<graph, order, fallbackUsed, invoked, blocked, replanUsed, pc>>

\* runNode threw, returned a non-object, or a result without success.
AttemptFails(n) ==
  /\ status[n] = "RUNNING"
  /\ status' = [status EXCEPT ![n] = "FAILED"]
  /\ attempts' = [attempts EXCEPT ![n] = @ + 1]
  /\ failed' = failed \cup {n}
  /\ UNCHANGED <<graph, order, fallbackUsed, invoked, blocked, inflight, replanUsed, pc>>

AwaitsRetry(n) == n \in inflight /\ status[n] = "FAILED"

Exhausted(n) == attempts[n] >= graph.maxAttempts[n]

Retry(n) ==
  /\ AwaitsRetry(n)
  /\ ~ Exhausted(n)
  /\ RunOne({n})
  /\ UNCHANGED <<graph, order, attempts, fallbackUsed, failed, blocked, inflight,
                 replanUsed, pc>>

\* Mutant: fallbackUsed is not consulted.
FallBackAgain(n) ==
  /\ AwaitsRetry(n)
  /\ Exhausted(n)
  /\ fallbackUsed' = [fallbackUsed EXCEPT ![n] = TRUE]
  /\ attempts' = [attempts EXCEPT ![n] = 0]
  /\ RunOne({n})
  /\ UNCHANGED <<graph, order, failed, blocked, inflight, replanUsed, pc>>

\* selectFallback resolved with an agent: a fresh budget, once.
FallBack(n) ==
  /\ AwaitsRetry(n)
  /\ Exhausted(n)
  /\ ~ fallbackUsed[n]
  /\ fallbackUsed' = [fallbackUsed EXCEPT ![n] = TRUE]
  /\ attempts' = [attempts EXCEPT ![n] = 0]
  /\ RunOne({n})
  /\ UNCHANGED <<graph, order, failed, blocked, inflight, replanUsed, pc>>

\* No fallback is left, selectFallback is absent, or it resolved with null.
GiveUp(n) ==
  /\ AwaitsRetry(n)
  /\ Exhausted(n)
  /\ inflight' = inflight \ {n}
  /\ UNCHANGED <<graph, order, status, attempts, fallbackUsed, invoked, failed,
                 blocked, replanUsed, pc>>

\* selectFallback threw: Promise.all rejects and executeWorkflow with it; the
\* other nodes of the batch go on, and nobody waits for them.
FallBackThrows(n) ==
  /\ AwaitsRetry(n)
  /\ Exhausted(n)
  /\ ~ fallbackUsed[n]
  /\ inflight' = inflight \ {n}
  /\ pc' = "rejected"
  /\ UNCHANGED <<graph, order, status, attempts, fallbackUsed, invoked, failed,
                 blocked, replanUsed>>

\* blockDependants of every FAILED node.
DirectDependants ==
  {n \in Pending : \E d \in graph.deps[n] \cap Nodes(graph) : status[d] = "FAILED"}

\* Mutant: only direct dependants are blocked.
NoMarkingPass(M, bad) == M = {}

\* M is what one pass over graph.nodes marks: the pass sees the marks it made
\* on earlier nodes of the list, and none on later ones.
MarkedInOnePass(M, bad) ==
  \A i \in DOMAIN graph.list :
    graph.list[i] \in M <=>
      /\ graph.list[i] \in Pending \ DirectDependants
      /\ graph.deps[graph.list[i]]
           \cap (bad \cup {graph.list[j] : j \in {k \in 1 .. (i - 1) : graph.list[k] \in M}})
           # {}

SettleBatch ==
  /\ pc = "await"
  /\ inflight = {}
  /\ \E M \in SUBSET Pending :
       /\ MarkedInOnePass(M, failed \cup blocked \cup DirectDependants)
       /\ blocked' = blocked \cup DirectDependants \cup M
       /\ status' = [n \in Node |-> IF n \in DirectDependants \cup M
                                    THEN "BLOCKED" ELSE status[n]]
  /\ pc' = "schedule"
  /\ UNCHANGED <<graph, order, attempts, fallbackUsed, invoked, failed, inflight,
                 replanUsed>>

FailedReviewer ==
  \E n \in Nodes(graph) : graph.kind[n] = "review" /\ status[n] = "FAILED"

\* Mutant: the replan is not one-shot.
MayReplanForever == FailedReviewer /\ Replacements # {}

MayReplan == ~ replanUsed /\ FailedReviewer /\ Replacements # {}

\* validateReplacement: createTaskGraph's checks are not repeated.
ReplacementValid(g) == {"review", "correction"} \subseteq {g.kind[n] : n \in Nodes(g)}

\* Mutant: the hashes are not compared with the old definitions.
ReusesNothing(g) == {}

\* Nodes whose result the new graph keeps.
Reused(g) == {n \in Nodes(g) \cap Nodes(graph) :
                /\ status[n] = "SUCCEEDED"
                /\ DefinitionHash(g, n) = DefinitionHash(graph, n)}

\* Mutant: ids missing from the new graph keep their old entry.
ReplanKeepsEntries(g) ==
  /\ pc = "schedule"
  /\ Ready = {}
  /\ MayReplan
  /\ ReplacementValid(g)
  /\ status' = [n \in Node |-> IF n \in Nodes(g) \ Reused(g) THEN "PENDING" ELSE status[n]]
  /\ attempts' = [n \in Node |-> IF n \in Reused(g) THEN attempts[n] ELSE 0]
  /\ invoked' = [n \in Node |-> IF n \in Reused(g) THEN invoked[n] ELSE 0]
  /\ fallbackUsed' = [n \in Node |-> n \in Reused(g) /\ fallbackUsed[n]]
  /\ failed' = failed \cap Reused(g)
  /\ blocked' = blocked \cap Reused(g)
  /\ graph' = g
  /\ replanUsed' = TRUE
  /\ UNCHANGED <<order, inflight, pc>>

Replan(g) ==
  /\ pc = "schedule"
  /\ Ready = {}
  /\ MayReplan
  /\ ReplacementValid(g)
  /\ status' = [n \in Node |-> IF n \in Reused(g) THEN "SUCCEEDED"
                               ELSE IF n \in Nodes(g) THEN "PENDING" ELSE "ABSENT"]
  /\ attempts' = [n \in Node |-> IF n \in Reused(g) THEN attempts[n] ELSE 0]
  /\ invoked' = [n \in Node |-> IF n \in Reused(g) THEN invoked[n] ELSE 0]
  /\ fallbackUsed' = [n \in Node |-> n \in Reused(g) /\ fallbackUsed[n]]
  /\ failed' = failed \cap Reused(g)
  /\ blocked' = blocked \cap Reused(g)
  /\ graph' = g
  /\ replanUsed' = TRUE
  /\ UNCHANGED <<order, inflight, pc>>

ReplanRejected(g) ==
  /\ pc = "schedule"
  /\ Ready = {}
  /\ MayReplan
  /\ ~ ReplacementValid(g)
  /\ replanUsed' = TRUE
  /\ pc' = "rejected"
  /\ UNCHANGED <<graph, order, status, attempts, fallbackUsed, invoked, failed,
                 blocked, inflight>>

Return ==
  /\ pc = "schedule"
  /\ Ready = {}
  /\ ~ MayReplan
  /\ pc' = "returned"
  /\ UNCHANGED <<graph, order, status, attempts, fallbackUsed, invoked, failed,
                 blocked, inflight, replanUsed>>

Ended == pc \in {"returned", "rejected"} /\ inflight = {}

NodeStep(n) ==
  \/ AttemptSucceeds(n)
  \/ AttemptFails(n)
  \/ Retry(n)
  \/ FallBack(n)
  \/ GiveUp(n)
  \/ FallBackThrows(n)

LoopStep ==
  \/ StartBatch
  \/ SettleBatch
  \/ \E g \in Replacements : Replan(g)
  \/ \E g \in Replacements : ReplanRejected(g)
  \/ Return

Next == LoopStep \/ \E n \in Node : NodeStep(n)

\* Every handler and every selectFallback call settles, and the event loop
\* runs what is due.
Fairness == WF_vars(LoopStep) /\ \A n \in Node : WF_vars(NodeStep(n))

Spec == Init /\ [][Next]_vars

FairSpec == Spec /\ Fairness

-----------------------------------------------------------------------------
\* Types, and one entry per node of the graph in force: a replan leaves no
\* entry of the replaced graph behind in stateEntries.
TypeOK ==
  /\ graph \in Graphs \cup Replacements
  /\ status \in [Node -> Statuses]
  /\ \A n \in Node : status[n] = "ABSENT" <=> n \notin Nodes(graph)
  /\ attempts \in [Node -> Nat]
  /\ fallbackUsed \in [Node -> BOOLEAN]
  /\ invoked \in [Node -> Nat]
  /\ failed \subseteq Nodes(graph)
  /\ blocked \subseteq Nodes(graph)
  /\ inflight \subseteq Nodes(graph)
  /\ replanUsed \in BOOLEAN
  /\ pc \in {"schedule", "await", "returned", "rejected"}

\* The report says EXECUTION_SUCCEEDED exactly when every node succeeded,
\* although executionStatus() looks at two sets and at no status: the
\* orchestrator submits work to the Runtime on this word alone.
ReportHonest ==
  pc = "returned" =>
    (ExecutionStatus = "EXECUTION_SUCCEEDED"
       <=> \A n \in Nodes(graph) : status[n] = "SUCCEEDED")

\* A handler runs only while all the dependencies of its node stand as
\* succeeded, although the scheduler never looks for completed dependencies.
DependenciesFirst ==
  \A n \in Running : \A d \in graph.deps[n] : status[d] = "SUCCEEDED"

\* When DependenciesFirst is to be expected: one node at a time, node lists
\* that name dependencies first, and replacements on whose nodes the ranks of
\* the first graph (0 for a new id) do not mislead the sort.
ListsDependenciesFirst(g) ==
  \A i \in DOMAIN g.list : \A d \in g.deps[g.list[i]] :
    \E j \in 1 .. (i - 1) : g.list[j] = d

RanksRespect(g, o) ==
  \A n \in Nodes(g) : \A d \in g.deps[n] : SortsBefore(g, o, d, n)

Orderly ==
  /\ Concurrency <= 2
  /\ \A g \in Graphs \cup Replacements : ListsDependenciesFirst(g)
  /\ \A g0 \in Graphs, g \in Replacements :
       \A o \in [1 .. Len(g0.list) -> Nodes(g0)] : IsKahnOrder(g0, o) => RanksRespect(g, o)

\* Retries and the fallback together invoke agents for a node at most twice
\* its maxAttempts, the fresh budget of the fallback included.
InvocationBudget ==
  \A n \in Nodes(graph) : invoked[n] <= 2 * graph.maxAttempts[n]

\* No more handlers run at a time than options.concurrency, after a rejection
\* of executeWorkflow too.
ConcurrencyBound == Cardinality(Running) <= Concurrency

\* A node one of whose dependencies failed or was blocked when its own turn
\* came is not started, in whatever order the batch before it ended.
BlockedNeverStarts ==
  [][\A n \in Nodes(graph) :
       status[n] = "PENDING" /\ status'[n] = "RUNNING" =>
         \A d \in graph.deps[n] \cap Nodes(graph) : status[d] \notin {"FAILED", "BLOCKED"}]_vars

\* Succeeded work is done again only if a replan changed its definition.
WorkNotRepeated ==
  [][\A n \in Nodes(graph) :
       /\ status[n] = "SUCCEEDED"
       /\ status'[n] # "SUCCEEDED"
       /\ n \in Nodes(graph')
       => DefinitionHash(graph', n) # DefinitionHash(graph, n)]_vars

\* executeWorkflow settles, and so does every handler it started.
Terminates == <>Ended

\* The state of TaskGraphExecution: a node is at work until attemptWithRetry
\* gives up on it, and the report is the verdict.
Progress ==
  [n \in Node |->
     IF n \in inflight THEN "WORKING"
     ELSE CASE status[n] = "PENDING"   -> "WAITING"
            [] status[n] = "RUNNING"   -> "WORKING"
            [] status[n] = "SUCCEEDED" -> "DONE"
            [] status[n] = "BLOCKED"   -> "SKIPPED"
            [] OTHER                   -> status[n]]

Verdict ==
  CASE pc = "rejected" -> "FAILED"
    [] pc = "returned" -> IF ExecutionStatus = "FAILED" THEN "FAILED" ELSE "SUCCEEDED"
    [] OTHER           -> "NONE"

Promise == INSTANCE TaskGraphExecution WITH
             plan <- graph, progress <- Progress,
             revised <- replanUsed, verdict <- Verdict

\* With one node at a time and node lists that name dependencies first, the
\* scheduler does what TaskGraphExecution promises.
ImplementsPromise == Promise!Spec
=============================================================================
