------------------------ MODULE WorkflowRuntimeProofs ------------------------
(***************************************************************************)
(* Safety of WorkflowRuntime for every set of graphs, every replacement    *)
(* and every concurrency.  The scheduler keeps three records of the same   *)
(* facts (statuses, the sets failed and blocked, the awaited promises);    *)
(* Agreement says how they agree between any two steps, Accounting how the *)
(* attempt counters relate to the handler calls made.  Then: that the work *)
(* runs out, that dependencies come first and the abstract execution is    *)
(* implemented, and which graphs createTaskGraph accepts.                  *)
(***************************************************************************)
EXTENDS WorkflowRuntime, FiniteSetTheorems, SequenceTheorems, WellFoundedInduction, TLAPS

\* The three records agree.
Agreement ==
  /\ pc \in {"schedule", "returned"} => inflight = {}
  /\ \A n \in Node : status[n] = "RUNNING" => n \in inflight
  /\ \A n \in inflight : status[n] \in {"RUNNING", "FAILED"}
  /\ \A n \in Node : status[n] = "FAILED" => n \in failed
  /\ \A n \in failed : status[n] \in {"FAILED", "RUNNING"}
  /\ \A n \in Node : n \in blocked <=> status[n] = "BLOCKED"
  /\ pc = "returned" => Ready = {}

\* Calls made so far, from the budget in use and the one used up.
Accounting ==
  \A n \in Nodes(graph) :
    /\ attempts[n] <= graph.maxAttempts[n]
    /\ status[n] = "RUNNING" => attempts[n] < graph.maxAttempts[n]
    /\ status[n] = "PENDING" => attempts[n] = 0 /\ invoked[n] = 0 /\ ~ fallbackUsed[n]
    /\ invoked[n] = attempts[n] + (IF status[n] = "RUNNING" THEN 1 ELSE 0)
                                + (IF fallbackUsed[n] THEN graph.maxAttempts[n] ELSE 0)

Width == Cardinality(inflight) <= BatchWidth

IInv == TypeOK /\ Agreement /\ Accounting /\ Width

-----------------------------------------------------------------------------
\* What a graph gives for its nodes.
LEMMA NodesOfGraph ==
  ASSUME NEW g, IsGraph(g)
  PROVE  /\ Nodes(g) \subseteq Node
         /\ g.deps \in [Node -> SUBSET Node]
         /\ g.kind \in [Node -> Kinds]
         /\ g.maxAttempts \in [Node -> Nat \ {0}]
BY DEF IsGraph, Nodes

\* A batch is at least one node wide and no wider than the concurrency.
LEMMA BatchWidthBound ==
  BatchWidth \in Nat /\ BatchWidth >= 1 /\ BatchWidth <= Concurrency
<1> DEFINE Started == {k \in 0 .. (Concurrency - 1) : k + k < Concurrency}
<1>1. Concurrency \in Nat /\ Concurrency >= 1
  BY ConcurrencyAssumption
<1>2. /\ IsFiniteSet(0 .. (Concurrency - 1))
      /\ Cardinality(0 .. (Concurrency - 1)) = Concurrency
  BY <1>1, FS_Interval
<1>3. /\ IsFiniteSet(Started)
      /\ Cardinality(Started) <= Concurrency
  BY <1>2, FS_Subset
<1>4. Cardinality(Started) \in Nat
  BY <1>3, FS_CardinalityType
<1>5. 0 \in Started
  BY <1>1
<1>6. Cardinality(Started) # 0
  BY <1>3, <1>5, FS_EmptySet
<1> QED
  BY <1>3, <1>4, <1>6 DEF BatchWidth

\* Sets of nodes are finite.
LEMMA NodesFinite ==
  ASSUME NEW S \in SUBSET Node
  PROVE  IsFiniteSet(S) /\ Cardinality(S) \in Nat
BY NodeAssumption, FS_Subset, FS_CardinalityType

-----------------------------------------------------------------------------
\* The invariant holds at first.
LEMMA InitIInv == Init => IInv
<1> SUFFICES ASSUME Init PROVE IInv
  OBVIOUS
<1> USE DEF Init
<1>1. IsGraph(graph)
  BY GraphAssumption
<1>2. TypeOK
  BY <1>1, NodesOfGraph DEF TypeOK, Statuses
<1>3. Agreement
  BY DEF Agreement
<1>4. Accounting
  BY <1>1, NodesOfGraph DEF Accounting
<1>5. Width
  BY BatchWidthBound, FS_EmptySet DEF Width
<1> QED
  BY <1>2, <1>3, <1>4, <1>5 DEF IInv

\* StartBatch keeps the invariant.
LEMMA StartBatchIInv == IInv /\ StartBatch => IInv'
<1> SUFFICES ASSUME IInv, StartBatch PROVE IInv'
  OBVIOUS
<1> USE DEF IInv
<1>1. IsGraph(graph)
  BY GraphAssumption DEF TypeOK
<1>2. PICK B \in Batches : RunOne(B) /\ inflight' = B
  BY DEF StartBatch
<1>3. /\ B \subseteq Nodes(graph)
      /\ B \subseteq Node
      /\ \A n \in B : status[n] = "PENDING"
      /\ Cardinality(B) <= BatchWidth
  BY <1>1, <1>2, NodesOfGraph DEF Batches, Ready, Pending
<1>4. /\ pc = "schedule" /\ pc' = "await"
      /\ UNCHANGED <<graph, order, attempts, fallbackUsed, failed, blocked, replanUsed>>
  BY DEF StartBatch
<1>5. TypeOK'
  BY <1>1, <1>2, <1>3, <1>4, NodesOfGraph DEF TypeOK, Statuses, RunOne
<1>6. Agreement'
  <2>1. failed \subseteq Node /\ blocked \subseteq Node
    BY <1>1, NodesOfGraph DEF TypeOK
  <2> QED
    BY <1>2, <1>3, <1>4, <2>1 DEF Agreement, TypeOK, RunOne
<1>7. Accounting'
  BY <1>1, <1>2, <1>3, <1>4, NodesOfGraph DEF Accounting, TypeOK, RunOne
<1>8. Width'
  BY <1>2, <1>3 DEF Width, BatchWidth
<1> QED
  BY <1>5, <1>6, <1>7, <1>8

\* A batch that loses a call stays within its width.
LEMMA ShrinkWidth ==
  ASSUME IInv, NEW n, inflight' = inflight \ {n}
  PROVE  Width'
<1>1. inflight \subseteq Node
  BY GraphAssumption, NodesOfGraph DEF IInv, TypeOK
<1>2. Cardinality(inflight \ {n}) <= Cardinality(inflight)
  BY <1>1, NodesFinite, FS_Subset
<1>3. Cardinality(inflight \ {n}) \in Nat /\ Cardinality(inflight) \in Nat
  BY <1>1, NodesFinite
<1> QED
  BY <1>2, <1>3, BatchWidthBound DEF IInv, Width, BatchWidth

\* AttemptSucceeds keeps the invariant.
LEMMA AttemptSucceedsIInv ==
  ASSUME IInv, NEW n \in Node, AttemptSucceeds(n)
  PROVE  IInv'
<1> USE DEF IInv, AttemptSucceeds
<1>1. IsGraph(graph) /\ n \in Nodes(graph) /\ n \in inflight
  BY GraphAssumption DEF TypeOK, Agreement
<1>2. TypeOK'
  BY <1>1, NodesOfGraph DEF TypeOK, Statuses
<1>3. Agreement'
  BY <1>1 DEF Agreement, TypeOK
<1>4. Accounting'
  BY <1>1, NodesOfGraph DEF Accounting, TypeOK
<1>5. Width'
  BY ShrinkWidth
<1> QED
  BY <1>2, <1>3, <1>4, <1>5

\* AttemptFails keeps the invariant.
LEMMA AttemptFailsIInv ==
  ASSUME IInv, NEW n \in Node, AttemptFails(n)
  PROVE  IInv'
<1> USE DEF IInv, AttemptFails
<1>1. IsGraph(graph) /\ n \in Nodes(graph) /\ n \in inflight
  BY GraphAssumption DEF TypeOK, Agreement
<1>2. TypeOK'
  BY <1>1, NodesOfGraph DEF TypeOK, Statuses
<1>3. Agreement'
  BY <1>1 DEF Agreement, TypeOK
<1>4. Accounting'
  BY <1>1, NodesOfGraph DEF Accounting, TypeOK
<1>5. Width'
  BY DEF Width, BatchWidth
<1> QED
  BY <1>2, <1>3, <1>4, <1>5

\* Retry keeps the invariant.
LEMMA RetryIInv ==
  ASSUME IInv, NEW n \in Node, Retry(n)
  PROVE  IInv'
<1> USE DEF IInv, Retry, RunOne, AwaitsRetry, Exhausted
<1>1. IsGraph(graph) /\ n \in Nodes(graph)
  BY GraphAssumption DEF TypeOK
<1>2. TypeOK'
  BY <1>1, NodesOfGraph DEF TypeOK, Statuses
<1>3. Agreement'
  <2>1. pc' # "schedule" /\ pc' # "returned"
    BY DEF Agreement
  <2>2. {failed, blocked, inflight} \subseteq SUBSET Node
    BY <1>1, NodesOfGraph DEF TypeOK
  <2> QED
    BY <1>1, <2>1, <2>2 DEF Agreement, TypeOK
<1>4. Accounting'
  BY <1>1, NodesOfGraph DEF Accounting, TypeOK
<1>5. Width'
  BY DEF Width, BatchWidth
<1> QED
  BY <1>2, <1>3, <1>4, <1>5

\* FallBack keeps the invariant.
LEMMA FallBackIInv ==
  ASSUME IInv, NEW n \in Node, FallBack(n)
  PROVE  IInv'
<1> USE DEF IInv, FallBack, RunOne, AwaitsRetry, Exhausted
<1>1. IsGraph(graph) /\ n \in Nodes(graph)
  BY GraphAssumption DEF TypeOK
<1>2. TypeOK'
  BY <1>1, NodesOfGraph DEF TypeOK, Statuses
<1>3. Agreement'
  <2>1. pc' # "schedule" /\ pc' # "returned"
    BY DEF Agreement
  <2>2. {failed, blocked, inflight} \subseteq SUBSET Node
    BY <1>1, NodesOfGraph DEF TypeOK
  <2> QED
    BY <1>1, <2>1, <2>2 DEF Agreement, TypeOK
<1>4. Accounting'
  BY <1>1, NodesOfGraph DEF Accounting, TypeOK
<1>5. Width'
  BY DEF Width, BatchWidth
<1> QED
  BY <1>2, <1>3, <1>4, <1>5

\* GiveUp keeps the invariant.
LEMMA GiveUpIInv ==
  ASSUME IInv, NEW n \in Node, GiveUp(n) \/ FallBackThrows(n)
  PROVE  IInv'
<1> USE DEF IInv, GiveUp, FallBackThrows, AwaitsRetry
<1>1. IsGraph(graph) /\ n \in Nodes(graph)
  BY GraphAssumption DEF TypeOK
<1>2. TypeOK'
  BY <1>1, NodesOfGraph DEF TypeOK, Statuses
<1>3. Agreement'
  <2>1. pc # "schedule" /\ pc # "returned"
    BY DEF Agreement
  <2>2. pc' # "schedule" /\ pc' # "returned"
    BY <2>1
  <2> QED
    BY <1>1, <2>2 DEF Agreement, TypeOK
<1>4. Accounting'
  BY DEF Accounting
<1>5. Width'
  BY ShrinkWidth
<1> QED
  BY <1>2, <1>3, <1>4, <1>5

\* SettleBatch keeps the invariant.
LEMMA SettleBatchIInv == IInv /\ SettleBatch => IInv'
<1> SUFFICES ASSUME IInv, SettleBatch PROVE IInv'
  OBVIOUS
<1> USE DEF IInv
<1>1. IsGraph(graph)
  BY GraphAssumption DEF TypeOK
<1>2. PICK M \in SUBSET Pending :
        /\ blocked' = blocked \cup DirectDependants \cup M
        /\ status' = [n \in Node |-> IF n \in DirectDependants \cup M
                                     THEN "BLOCKED" ELSE status[n]]
  BY DEF SettleBatch
<1>3. /\ DirectDependants \cup M \subseteq Nodes(graph)
      /\ DirectDependants \cup M \subseteq Node
      /\ \A n \in DirectDependants \cup M : status[n] = "PENDING"
  BY <1>1, NodesOfGraph DEF DirectDependants, Pending
<1>4. /\ inflight = {} /\ pc' = "schedule"
      /\ UNCHANGED <<graph, order, attempts, fallbackUsed, invoked, failed, inflight,
                     replanUsed>>
  BY DEF SettleBatch
<1>5. TypeOK'
  BY <1>1, <1>2, <1>3, <1>4, NodesOfGraph DEF TypeOK, Statuses
<1>6. Agreement'
  <2>1. failed \subseteq Node /\ blocked \subseteq Node
    BY <1>1, NodesOfGraph DEF TypeOK
  <2> QED
    BY <1>2, <1>3, <1>4, <2>1 DEF Agreement, TypeOK
<1>7. Accounting'
  BY <1>1, <1>2, <1>3, <1>4, NodesOfGraph DEF Accounting, TypeOK
<1>8. Width'
  BY <1>4 DEF Width, BatchWidth
<1> QED
  BY <1>5, <1>6, <1>7, <1>8

\* Replan keeps the invariant.
LEMMA ReplanIInv ==
  ASSUME IInv, NEW g \in Replacements, Replan(g)
  PROVE  IInv'
<1> USE DEF IInv
<1>1. IsGraph(graph) /\ IsGraph(g) /\ graph' = g
  BY GraphAssumption DEF TypeOK, Replan
<1>2. /\ pc = "schedule" /\ inflight = {}
      /\ UNCHANGED <<order, inflight, pc>>
  BY DEF Replan, Agreement
<1>3. /\ Reused(g) \subseteq Nodes(g)
      /\ Reused(g) \subseteq Node
      /\ Nodes(g) \subseteq Node
      /\ \A n \in Reused(g) :
            /\ n \in Nodes(graph)
            /\ status[n] = "SUCCEEDED"
            /\ g.maxAttempts[n] = graph.maxAttempts[n]
  BY <1>1, NodesOfGraph DEF Reused, DefinitionHash
<1>4. failed \cap Reused(g) = {} /\ blocked \cap Reused(g) = {}
  BY <1>3 DEF Agreement
<1>5. failed' = {} /\ blocked' = {}
  BY <1>4 DEF Replan
<1>6. TypeOK'
  BY <1>1, <1>2, <1>3, <1>5 DEF TypeOK, Statuses, Replan
<1>7. Agreement'
  BY <1>2, <1>3, <1>5 DEF Agreement, Replan
<1>8. Accounting'
  <2> SUFFICES ASSUME NEW n \in Nodes(g)
               PROVE  Accounting!(n)'
    BY <1>1 DEF Accounting
  <2>1. CASE n \in Reused(g)
    <3>1. /\ status'[n] = "SUCCEEDED"
          /\ attempts'[n] = attempts[n]
          /\ invoked'[n] = invoked[n]
          /\ fallbackUsed'[n] = fallbackUsed[n]
      BY <1>3, <2>1 DEF Replan, TypeOK
    <3> QED
      BY <1>1, <1>3, <2>1, <3>1 DEF Accounting
  <2>2. CASE n \notin Reused(g)
    <3>1. /\ status'[n] = "PENDING"
          /\ attempts'[n] = 0
          /\ invoked'[n] = 0
          /\ fallbackUsed'[n] = FALSE
      BY <1>3, <2>2 DEF Replan
    <3>2. g.maxAttempts[n] \in Nat \ {0}
      BY <1>1, <1>3, NodesOfGraph
    <3> QED
      BY <1>1, <3>1, <3>2
  <2> QED
    BY <2>1, <2>2
<1>9. Width'
  BY <1>2 DEF Width, BatchWidth
<1> QED
  BY <1>6, <1>7, <1>8, <1>9

\* The end of the loop keeps the invariant.
LEMMA LoopEndIInv ==
  ASSUME IInv, Return \/ \E g \in Replacements : ReplanRejected(g)
  PROVE  IInv'
<1> USE DEF IInv
<1>1. /\ pc = "schedule" /\ Ready = {} /\ inflight = {}
      /\ pc' \in {"returned", "rejected"}
      /\ replanUsed' \in {replanUsed, TRUE}
      /\ UNCHANGED <<graph, order, status, attempts, fallbackUsed, invoked, failed,
                     blocked, inflight>>
  BY DEF Return, ReplanRejected, Agreement
<1>2. Ready' = Ready
  BY <1>1 DEF Ready, Pending, NodeIsBlocked
<1>3. TypeOK'
  BY <1>1 DEF TypeOK
<1>4. Agreement'
  BY <1>1, <1>2 DEF Agreement
<1>5. Accounting'
  BY <1>1 DEF Accounting
<1>6. Width'
  BY <1>1 DEF Width, BatchWidth
<1> QED
  BY <1>3, <1>4, <1>5, <1>6

\* Every step keeps the invariant.
LEMMA NextIInv == IInv /\ [Next]_vars => IInv'
<1> SUFFICES ASSUME IInv, [Next]_vars PROVE IInv'
  OBVIOUS
<1>1. CASE LoopStep
  BY <1>1, StartBatchIInv, SettleBatchIInv, ReplanIInv, LoopEndIInv DEF LoopStep
<1>2. ASSUME NEW n \in Node, NodeStep(n)
      PROVE  IInv'
  BY <1>2, AttemptSucceedsIInv, AttemptFailsIInv, RetryIInv, FallBackIInv, GiveUpIInv
     DEF NodeStep
<1>3. CASE UNCHANGED vars
  BY <1>3 DEF vars, IInv, TypeOK, Agreement, Accounting, Width, BatchWidth, Ready, Pending,
              NodeIsBlocked
<1> QED
  BY <1>1, <1>2, <1>3 DEF Next

\* The invariant holds in every state.
THEOREM Invariance == Spec => []IInv
BY InitIInv, NextIInv, PTL DEF Spec

-----------------------------------------------------------------------------
\* stateEntries always has one entry of a known status per node of the graph.
THEOREM TypeCorrect == Spec => []TypeOK
BY Invariance, PTL DEF IInv

\* The invariant contains that the report is honest.
LEMMA ReportIsHonest == IInv => ReportHonest
<1> SUFFICES ASSUME IInv, pc = "returned"
             PROVE  failed = {} /\ blocked = {}
                      <=> \A n \in Nodes(graph) : status[n] = "SUCCEEDED"
  BY DEF ReportHonest, ExecutionStatus
<1>0. IsGraph(graph)
  BY GraphAssumption DEF IInv, TypeOK
<1>1. ASSUME failed = {}, blocked = {}, NEW n \in Nodes(graph)
      PROVE  status[n] = "SUCCEEDED"
  <2>1. n \in Node /\ status[n] # "ABSENT" /\ status[n] \in Statuses
    BY <1>0, NodesOfGraph DEF IInv, TypeOK
  <2>2. status[n] # "PENDING"
    BY <1>1 DEF IInv, Agreement, Ready, Pending, NodeIsBlocked
  <2>3. status[n] \notin {"RUNNING", "FAILED", "BLOCKED"}
    BY <1>1, <2>1 DEF IInv, Agreement
  <2> QED
    BY <2>1, <2>2, <2>3 DEF Statuses
<1>2. ASSUME \A n \in Nodes(graph) : status[n] = "SUCCEEDED"
      PROVE  failed = {} /\ blocked = {}
  BY <1>0, <1>2, NodesOfGraph DEF IInv, TypeOK, Agreement
<1> QED
  BY <1>1, <1>2

\* Whatever the graph, the replacement and the concurrency, the word the
\* orchestrator acts on is true to the statuses.
THEOREM HonestReport == Spec => []ReportHonest
BY Invariance, ReportIsHonest, PTL

\* No node costs more than two budgets of agent calls, whatever fails.
THEOREM BudgetKept == Spec => []InvocationBudget
<1>1. IInv => InvocationBudget
  <2> SUFFICES ASSUME IInv, NEW n \in Nodes(graph)
               PROVE  invoked[n] <= 2 * graph.maxAttempts[n]
    BY DEF InvocationBudget
  <2>1. /\ n \in Node
        /\ graph.maxAttempts[n] \in Nat
        /\ attempts[n] \in Nat
    BY GraphAssumption, NodesOfGraph DEF IInv, TypeOK
  <2> QED
    BY <2>1 DEF IInv, Accounting
<1> QED
  BY <1>1, Invariance, PTL

\* The loop's doubly counted guard still bounds the running handlers.
THEOREM Bounded == Spec => []ConcurrencyBound
<1>1. IInv => ConcurrencyBound
  <2> SUFFICES ASSUME IInv PROVE Cardinality(Running) <= Concurrency
    BY DEF ConcurrencyBound
  <2>1. Running \subseteq inflight /\ inflight \subseteq Node
    BY GraphAssumption, NodesOfGraph DEF IInv, TypeOK, Agreement, Running
  <2>2. /\ Cardinality(Running) <= Cardinality(inflight)
        /\ Cardinality(Running) \in Nat
        /\ Cardinality(inflight) \in Nat
    BY <2>1, NodesFinite, FS_Subset
  <2> QED
    BY <2>2, BatchWidthBound, ConcurrencyAssumption DEF IInv, Width
<1> QED
  BY <1>1, Invariance, PTL

-----------------------------------------------------------------------------
\* The first call of a node's handler is StartBatch's, and spares every node
\* with a failed or blocked dependency.
THEOREM BlockedNodesNeverStart == Spec => BlockedNeverStarts
<1>1. IInv /\ [Next]_vars =>
        [\A n \in Nodes(graph) :
           status[n] = "PENDING" /\ status'[n] = "RUNNING" =>
             \A d \in graph.deps[n] \cap Nodes(graph) :
               status[d] \notin {"FAILED", "BLOCKED"}]_vars
  <2> SUFFICES ASSUME IInv, Next, NEW n \in Nodes(graph),
                      status[n] = "PENDING", status'[n] = "RUNNING",
                      NEW d \in graph.deps[n] \cap Nodes(graph)
               PROVE  status[d] \notin {"FAILED", "BLOCKED"}
    OBVIOUS
  <2>1. n \in Node /\ d \in Node
    BY GraphAssumption, NodesOfGraph DEF IInv, TypeOK
  <2>2. CASE StartBatch
    <3>1. PICK B \in Batches : status' = [m \in Node |-> IF m \in B THEN "RUNNING" ELSE status[m]]
      BY <2>2 DEF StartBatch, RunOne
    <3>2. n \in Ready
      BY <2>1, <3>1 DEF Batches
    <3> QED
      BY <2>1, <3>2 DEF Ready, NodeIsBlocked, IInv, Agreement
  <2>3. CASE SettleBatch
    BY <2>1, <2>3 DEF SettleBatch
  <2>4. ASSUME NEW g \in Replacements, Replan(g)
        PROVE  FALSE
    BY <2>1, <2>4 DEF Replan
  <2>5. CASE Return \/ \E g \in Replacements : ReplanRejected(g)
    BY <2>5 DEF Return, ReplanRejected
  <2>6. ASSUME NEW m \in Node, NodeStep(m)
        PROVE  FALSE
    BY <2>1, <2>6 DEF NodeStep, AttemptSucceeds, AttemptFails, Retry, FallBack, GiveUp,
                      FallBackThrows, AwaitsRetry, RunOne, IInv, TypeOK
  <2> QED
    BY <2>2, <2>3, <2>4, <2>5, <2>6 DEF Next, LoopStep
<1> QED
  BY <1>1, Invariance, PTL DEF Spec, BlockedNeverStarts

\* Only a replan takes a success back, and only from a node it redefined.
THEOREM WorkIsNotRepeated == Spec => WorkNotRepeated
<1>1. IInv /\ [Next]_vars =>
        [\A n \in Nodes(graph) :
           /\ status[n] = "SUCCEEDED"
           /\ status'[n] # "SUCCEEDED"
           /\ n \in Nodes(graph')
           => DefinitionHash(graph', n) # DefinitionHash(graph, n)]_vars
  <2> SUFFICES ASSUME IInv, Next, NEW n \in Nodes(graph),
                      status[n] = "SUCCEEDED", status'[n] # "SUCCEEDED", n \in Nodes(graph')
               PROVE  DefinitionHash(graph', n) # DefinitionHash(graph, n)
    OBVIOUS
  <2>1. n \in Node
    BY GraphAssumption, NodesOfGraph DEF IInv, TypeOK
  <2>2. ASSUME NEW g \in Replacements, Replan(g)
        PROVE  DefinitionHash(graph', n) # DefinitionHash(graph, n)
    BY <2>1, <2>2 DEF Replan, Reused
  <2>3. CASE StartBatch
    BY <2>1, <2>3 DEF StartBatch, RunOne, Batches, Ready, Pending
  <2>4. CASE SettleBatch
    BY <2>1, <2>4 DEF SettleBatch, DirectDependants, Pending
  <2>5. CASE Return \/ \E g \in Replacements : ReplanRejected(g)
    BY <2>5 DEF Return, ReplanRejected
  <2>6. ASSUME NEW m \in Node, NodeStep(m)
        PROVE  FALSE
    BY <2>1, <2>6 DEF NodeStep, AttemptSucceeds, AttemptFails, Retry, FallBack, GiveUp,
                      FallBackThrows, AwaitsRetry, RunOne, IInv, TypeOK
  <2> QED
    BY <2>2, <2>3, <2>4, <2>5, <2>6 DEF Next, LoopStep
<1> QED
  BY <1>1, Invariance, PTL DEF Spec, WorkNotRepeated

-----------------------------------------------------------------------------
(* Every step uses up work, of which there is a finite amount.             *)

\* What is left to do under the graph in force: handler calls that the budget
\* allows, answers to them, and nodes that were not decided.
Answered(n) == IF status[n] = "RUNNING" THEN invoked[n] - 1 ELSE invoked[n]

Undecided == Pending \cup inflight

WorkLeft ==
  ({"call"} \X UNION {{n} \X (invoked[n] + 1 .. 2 * graph.maxAttempts[n]) : n \in Nodes(graph)})
    \cup
  ({"answer"} \X UNION {{n} \X (Answered(n) + 1 .. 2 * graph.maxAttempts[n]) : n \in Nodes(graph)})
    \cup
  ({"decision"} \X Undecided)

\* The loop goes on without doing work: a batch is settled, or the loop ends.
LoopGoesOn ==
  \/ pc = "await" /\ pc' = "schedule"
  \/ pc = "schedule" /\ pc' = "returned"

\* Every step takes from the work that is left, which no retry, fallback or
\* batch adds to; only the one replan makes work.
WorkRunsOut ==
  [][\/ ~ replanUsed /\ replanUsed'
     \/ /\ replanUsed' = replanUsed
        /\ WorkLeft' \subseteq WorkLeft
        /\ WorkLeft' # WorkLeft \/ LoopGoesOn]_vars

\* What it means to be left to do.
LeftToDo ==
  /\ \A n, k : <<"call", <<n, k>>>> \in WorkLeft
                 <=> n \in Nodes(graph) /\ k \in invoked[n] + 1 .. 2 * graph.maxAttempts[n]
  /\ \A n, k : <<"answer", <<n, k>>>> \in WorkLeft
                 <=> n \in Nodes(graph) /\ k \in Answered(n) + 1 .. 2 * graph.maxAttempts[n]
  /\ \A n : <<"decision", n>> \in WorkLeft <=> n \in Undecided

\* That is what is left.
LEMMA LeftIsLeftToDo == LeftToDo
<1> DEFINE C == UNION {{n} \X (invoked[n] + 1 .. 2 * graph.maxAttempts[n]) : n \in Nodes(graph)}
           A == UNION {{n} \X (Answered(n) + 1 .. 2 * graph.maxAttempts[n]) : n \in Nodes(graph)}
<1>1. \A n, k : <<n, k>> \in C
        <=> n \in Nodes(graph) /\ k \in invoked[n] + 1 .. 2 * graph.maxAttempts[n]
  OBVIOUS
<1>2. \A n, k : <<n, k>> \in A
        <=> n \in Nodes(graph) /\ k \in Answered(n) + 1 .. 2 * graph.maxAttempts[n]
  OBVIOUS
<1>3. WorkLeft = ({"call"} \X C) \cup ({"answer"} \X A) \cup ({"decision"} \X Undecided)
  BY DEF WorkLeft
<1> HIDE DEF C, A
<1>4. ASSUME NEW x
      PROVE  /\ <<"call", x>> \in WorkLeft <=> x \in C
             /\ <<"answer", x>> \in WorkLeft <=> x \in A
             /\ <<"decision", x>> \in WorkLeft <=> x \in Undecided
  BY <1>3
<1> QED
  BY <1>1, <1>2, <1>4 DEF LeftToDo

\* There is a finite amount of it.
LEMMA WorkLeftFinite == IInv => IsFiniteSet(WorkLeft)
<1> SUFFICES ASSUME IInv PROVE IsFiniteSet(WorkLeft)
  OBVIOUS
<1>1. IsGraph(graph) /\ Nodes(graph) \subseteq Node
  BY GraphAssumption, NodesOfGraph DEF IInv, TypeOK
<1>2. ASSUME NEW from \in [Nodes(graph) -> Nat]
      PROVE  IsFiniteSet(UNION {{n} \X (from[n] + 1 .. 2 * graph.maxAttempts[n]) : n \in Nodes(graph)})
  <2> DEFINE F == [n \in Nodes(graph) |-> {n} \X (from[n] + 1 .. 2 * graph.maxAttempts[n])]
  <2>1. F \in Surjection(DOMAIN F, {F[n] : n \in DOMAIN F})
    BY DEF Surjection
  <2>2. IsFiniteSet(DOMAIN F)
    BY <1>1, NodesFinite
  <2>3. IsFiniteSet({F[n] : n \in DOMAIN F})
    <3> HIDE DEF F
    <3> QED
      BY <2>1, <2>2, FS_Surjection DEF ExistsSurjection
  <2>4. ASSUME NEW n \in Nodes(graph) PROVE IsFiniteSet(F[n])
    <3>1. from[n] + 1 \in Int /\ 2 * graph.maxAttempts[n] \in Int
      BY <1>1, NodesOfGraph
    <3>2. IsFiniteSet(from[n] + 1 .. 2 * graph.maxAttempts[n])
      BY <3>1, FS_Interval
    <3>3. IsFiniteSet({n})
      BY FS_Singleton
    <3> QED
      BY <3>2, <3>3, FS_Product
  <2>5. UNION {{n} \X (from[n] + 1 .. 2 * graph.maxAttempts[n]) : n \in Nodes(graph)}
          = UNION {F[n] : n \in DOMAIN F}
    OBVIOUS
  <2>6. \A T \in {F[n] : n \in DOMAIN F} : IsFiniteSet(T)
    <3>1. DOMAIN F = Nodes(graph)
      OBVIOUS
    <3> HIDE DEF F
    <3> QED
      BY <2>4, <3>1
  <2> HIDE DEF F
  <2> QED
    BY <2>3, <2>5, <2>6, FS_UNION
<1>3. ASSUME NEW n \in Nodes(graph) PROVE invoked[n] \in Nat /\ Answered(n) \in Nat
  BY <1>1, NodesOfGraph DEF IInv, TypeOK, Accounting, Answered
<1>4. IsFiniteSet(UNION {{n} \X (invoked[n] + 1 .. 2 * graph.maxAttempts[n]) : n \in Nodes(graph)})
  <2> DEFINE from == [n \in Nodes(graph) |-> invoked[n]]
  <2>1. from \in [Nodes(graph) -> Nat] /\ \A n \in Nodes(graph) : from[n] = invoked[n]
    BY <1>3
  <2> HIDE DEF from
  <2>2. {{n} \X (invoked[n] + 1 .. 2 * graph.maxAttempts[n]) : n \in Nodes(graph)}
          = {{n} \X (from[n] + 1 .. 2 * graph.maxAttempts[n]) : n \in Nodes(graph)}
    BY <2>1
  <2> QED
    BY <1>2, <2>1, <2>2
<1>5. IsFiniteSet(UNION {{n} \X (Answered(n) + 1 .. 2 * graph.maxAttempts[n]) : n \in Nodes(graph)})
  <2> DEFINE from == [n \in Nodes(graph) |-> Answered(n)]
  <2>1. from \in [Nodes(graph) -> Nat] /\ \A n \in Nodes(graph) : from[n] = Answered(n)
    BY <1>3
  <2> HIDE DEF from
  <2>2. {{n} \X (Answered(n) + 1 .. 2 * graph.maxAttempts[n]) : n \in Nodes(graph)}
          = {{n} \X (from[n] + 1 .. 2 * graph.maxAttempts[n]) : n \in Nodes(graph)}
    BY <2>1
  <2> QED
    BY <1>2, <2>1, <2>2
<1>6. IsFiniteSet(Undecided)
  BY <1>1, NodesFinite DEF Undecided, Pending, IInv, TypeOK
<1>7. IsFiniteSet({"call"}) /\ IsFiniteSet({"answer"}) /\ IsFiniteSet({"decision"})
  BY FS_Singleton
<1> QED
  BY <1>4, <1>5, <1>6, <1>7, FS_Product, FS_Union DEF WorkLeft

\* Counters that only grow, and nodes that are only decided, leave no more to do.
LEMMA WorkShrinks ==
  ASSUME graph' = graph, IInv, IInv',
         \A n \in Nodes(graph) : invoked[n] <= invoked'[n] /\ Answered(n) <= Answered(n)',
         Undecided' \subseteq Undecided
  PROVE  WorkLeft' \subseteq WorkLeft
<1>1. ASSUME NEW n \in Nodes(graph)
      PROVE  /\ invoked[n] \in Nat /\ Answered(n) \in Nat /\ graph.maxAttempts[n] \in Nat
             /\ invoked'[n] \in Nat /\ Answered(n)' \in Nat
  BY GraphAssumption, NodesOfGraph DEF IInv, TypeOK, Accounting, Answered
<1>2. ASSUME NEW n \in Nodes(graph)
      PROVE  /\ invoked'[n] + 1 .. 2 * graph.maxAttempts[n]
                  \subseteq invoked[n] + 1 .. 2 * graph.maxAttempts[n]
             /\ Answered(n)' + 1 .. 2 * graph.maxAttempts[n]
                  \subseteq Answered(n) + 1 .. 2 * graph.maxAttempts[n]
  BY <1>1
<1> DEFINE C == UNION {{n} \X (invoked[n] + 1 .. 2 * graph.maxAttempts[n]) : n \in Nodes(graph)}
           A == UNION {{n} \X (Answered(n) + 1 .. 2 * graph.maxAttempts[n]) : n \in Nodes(graph)}
           C1 == UNION {{n} \X (invoked'[n] + 1 .. 2 * graph.maxAttempts[n]) : n \in Nodes(graph)}
           A1 == UNION {{n} \X (Answered(n)' + 1 .. 2 * graph.maxAttempts[n]) : n \in Nodes(graph)}
<1>3. C1 \subseteq C
  BY <1>2
<1>4. A1 \subseteq A
  BY <1>2
<1>5. WorkLeft = ({"call"} \X C) \cup ({"answer"} \X A) \cup ({"decision"} \X Undecided)
  BY DEF WorkLeft
<1>6. WorkLeft' = ({"call"} \X C1) \cup ({"answer"} \X A1) \cup ({"decision"} \X Undecided')
  BY DEF WorkLeft
<1> HIDE DEF C, A, C1, A1
<1> QED
  BY <1>3, <1>4, <1>5, <1>6

\* A call, an answer or a decision takes from what is left.
LEMMA WorkIsTaken ==
  ASSUME graph' = graph, IInv, IInv', LeftToDo, LeftToDo',
         \/ \E n \in Nodes(graph) : invoked[n] < invoked'[n]
         \/ \E n \in Nodes(graph) : Answered(n) < Answered(n)'
         \/ \E n \in Undecided : n \notin Undecided'
  PROVE  WorkLeft' # WorkLeft
<1>1. ASSUME NEW n \in Nodes(graph)
      PROVE  /\ invoked[n] \in Nat /\ Answered(n) \in Nat /\ graph.maxAttempts[n] \in Nat
             /\ invoked'[n] \in Nat /\ Answered(n)' \in Nat
             /\ invoked'[n] <= 2 * graph.maxAttempts[n]
             /\ Answered(n)' <= 2 * graph.maxAttempts[n]
  BY GraphAssumption, NodesOfGraph DEF IInv, TypeOK, Accounting, Answered
<1>2. ASSUME NEW n \in Nodes(graph), invoked[n] < invoked'[n]
      PROVE  WorkLeft' # WorkLeft
  <2>1. /\ invoked'[n] \in invoked[n] + 1 .. 2 * graph.maxAttempts[n]
        /\ invoked'[n] \notin invoked'[n] + 1 .. 2 * graph.maxAttempts[n]
    BY <1>1, <1>2
  <2>2. <<"call", <<n, invoked'[n]>>>> \in WorkLeft
    BY <2>1 DEF LeftToDo
  <2>3. <<"call", <<n, invoked'[n]>>>> \notin WorkLeft'
    BY <2>1 DEF LeftToDo
  <2> QED
    BY <2>2, <2>3
<1>3. ASSUME NEW n \in Nodes(graph), Answered(n) < Answered(n)'
      PROVE  WorkLeft' # WorkLeft
  <2>1. /\ Answered(n)' \in Answered(n) + 1 .. 2 * graph.maxAttempts[n]
        /\ Answered(n)' \notin Answered(n)' + 1 .. 2 * graph.maxAttempts[n]
    BY <1>1, <1>3
  <2>2. <<"answer", <<n, Answered(n)'>>>> \in WorkLeft
    BY <2>1 DEF LeftToDo
  <2>3. <<"answer", <<n, Answered(n)'>>>> \notin WorkLeft'
    BY <2>1 DEF LeftToDo
  <2> QED
    BY <2>2, <2>3
<1>4. ASSUME NEW n \in Undecided, n \notin Undecided' PROVE WorkLeft' # WorkLeft
  <2>1. <<"decision", n>> \in WorkLeft /\ <<"decision", n>> \notin WorkLeft'
    BY <1>4 DEF LeftToDo
  <2> QED
    BY <2>1
<1> QED
  BY <1>2, <1>3, <1>4

\* What a step does that makes no work.
StepUsesUp ==
  /\ replanUsed' = replanUsed
  /\ WorkLeft' \subseteq WorkLeft
  /\ WorkLeft' # WorkLeft \/ LoopGoesOn

\* The start of a batch uses up calls.
LEMMA StartBatchUsesUp ==
  ASSUME IInv, IInv', LeftToDo, LeftToDo', StartBatch
  PROVE  StepUsesUp
<1>1. PICK B \in Batches : RunOne(B) /\ inflight' = B
  BY DEF StartBatch
<1>2. /\ pc = "schedule" /\ inflight = {} /\ Ready # {}
      /\ UNCHANGED <<graph, order, attempts, fallbackUsed, failed, blocked, replanUsed>>
  BY DEF StartBatch, IInv, Agreement
<1>3. IsGraph(graph) /\ Nodes(graph) \subseteq Node
  BY GraphAssumption, NodesOfGraph DEF IInv, TypeOK
<1>4. B \subseteq Pending /\ B \subseteq Nodes(graph) /\ B # {}
  <2>1. B \subseteq Ready /\ Ready \subseteq Pending /\ Pending \subseteq Nodes(graph)
    BY DEF Batches, Ready, Pending
  <2>2. B # {}
    BY <1>2, BatchWidthBound, FS_EmptySet DEF Batches
  <2> QED
    BY <2>1, <2>2
<1>5. ASSUME NEW n \in Nodes(graph)
      PROVE  /\ invoked[n] \in Nat
             /\ n \in B => invoked'[n] = invoked[n] + 1 /\ status[n] = "PENDING" /\ status'[n] = "RUNNING"
             /\ n \notin B => invoked'[n] = invoked[n] /\ status'[n] = status[n]
  BY <1>1, <1>3, <1>4 DEF RunOne, IInv, TypeOK, Pending
<1>6. \A n \in Nodes(graph) : invoked[n] <= invoked'[n] /\ Answered(n) <= Answered(n)'
  <2> SUFFICES ASSUME NEW n \in Nodes(graph)
               PROVE  invoked[n] <= invoked'[n] /\ Answered(n) <= Answered(n)'
    OBVIOUS
  <2>1. CASE n \in B
    <3>1. Answered(n) = invoked[n] /\ Answered(n)' = invoked'[n] - 1
      BY <1>5, <2>1 DEF Answered
    <3> QED
      BY <1>5, <2>1, <3>1
  <2>2. CASE n \notin B
    <3>1. Answered(n)' = Answered(n) /\ Answered(n) \in Nat
      BY <1>3, <1>5, <2>2, NodesOfGraph DEF Answered, IInv, TypeOK, Accounting
    <3> QED
      BY <1>5, <2>2, <3>1
  <2> QED
    BY <2>1, <2>2
<1>7. Undecided' \subseteq Undecided
  BY <1>1, <1>2, <1>4, <1>5 DEF Undecided, Pending
<1>8. WorkLeft' \subseteq WorkLeft
  BY <1>2, <1>6, <1>7, WorkShrinks
<1>9. \E n \in Nodes(graph) : invoked[n] < invoked'[n]
  <2>1. PICK n \in B : TRUE
    BY <1>4
  <2> QED
    BY <1>4, <1>5, <2>1
<1>10. WorkLeft' # WorkLeft
  BY <1>2, <1>9, WorkIsTaken
<1> QED
  BY <1>2, <1>8, <1>10 DEF StepUsesUp

\* Of a step of a node only its own counters change.
LEMMA NodeStepUsesUp ==
  ASSUME IInv, IInv', LeftToDo, LeftToDo', NEW n \in Node, NodeStep(n)
  PROVE  StepUsesUp
<1>1. IsGraph(graph) /\ Nodes(graph) \subseteq Node
  BY GraphAssumption, NodesOfGraph DEF IInv, TypeOK
<1>2. graph' = graph /\ replanUsed' = replanUsed
  BY DEF NodeStep, AttemptSucceeds, AttemptFails, Retry, FallBack, GiveUp, FallBackThrows
<1>3. n \in inflight /\ n \in Nodes(graph) /\ status[n] \in {"RUNNING", "FAILED"}
  BY DEF NodeStep, AttemptSucceeds, AttemptFails, Retry, FallBack, GiveUp, FallBackThrows,
         AwaitsRetry, IInv, TypeOK, Agreement
<1>4. ASSUME NEW m \in Nodes(graph), m # n
      PROVE  invoked'[m] = invoked[m] /\ status'[m] = status[m]
  BY <1>1, <1>4 DEF NodeStep, AttemptSucceeds, AttemptFails, Retry, FallBack, GiveUp,
         FallBackThrows, RunOne, IInv, TypeOK
<1>5. inflight' \subseteq inflight /\ status'[n] # "PENDING"
  <2>1. CASE AttemptSucceeds(n)
    BY <2>1 DEF AttemptSucceeds, IInv, TypeOK
  <2>2. CASE AttemptFails(n)
    BY <2>2 DEF AttemptFails, IInv, TypeOK
  <2>3. CASE Retry(n) \/ FallBack(n)
    BY <2>3 DEF Retry, FallBack, RunOne
  <2>4. CASE GiveUp(n) \/ FallBackThrows(n)
    BY <1>3, <2>4 DEF GiveUp, FallBackThrows
  <2> QED
    BY <2>1, <2>2, <2>3, <2>4 DEF NodeStep
<1>6. Undecided' \subseteq Undecided
  BY <1>2, <1>4, <1>5 DEF Undecided, Pending
<1>7. invoked[n] \in Nat /\ status[n] = "RUNNING" => invoked[n] >= 1
  BY <1>1, <1>3, NodesOfGraph DEF IInv, TypeOK, Accounting
<1>8. \/ invoked'[n] = invoked[n] /\ Answered(n)' = Answered(n) + 1
      \/ invoked'[n] = invoked[n] + 1 /\ Answered(n)' = Answered(n)
      \/ invoked'[n] = invoked[n] /\ Answered(n)' = Answered(n) /\ n \notin Undecided'
  <2>0. invoked[n] \in Nat
    BY <1>3, <1>1 DEF IInv, TypeOK
  <2>1. CASE AttemptSucceeds(n) \/ AttemptFails(n)
    <3>1. status[n] = "RUNNING" /\ status'[n] # "RUNNING" /\ invoked' = invoked
      BY <2>1 DEF AttemptSucceeds, AttemptFails, IInv, TypeOK
    <3> QED
      BY <1>7, <2>0, <3>1 DEF Answered
  <2>2. CASE Retry(n) \/ FallBack(n)
    <3>1. status[n] = "FAILED" /\ status'[n] = "RUNNING" /\ invoked'[n] = invoked[n] + 1
      BY <2>2 DEF Retry, FallBack, RunOne, AwaitsRetry
    <3> QED
      BY <2>0, <3>1 DEF Answered
  <2>3. CASE GiveUp(n) \/ FallBackThrows(n)
    <3>1. status[n] = "FAILED" /\ status' = status /\ invoked' = invoked /\ n \notin inflight'
      BY <2>3 DEF GiveUp, FallBackThrows, AwaitsRetry
    <3> QED
      BY <1>2, <3>1 DEF Answered, Undecided, Pending
  <2> QED
    BY <2>1, <2>2, <2>3 DEF NodeStep
<1>9. \A m \in Nodes(graph) : invoked[m] \in Nat /\ Answered(m) \in Nat
  BY <1>1, NodesOfGraph DEF IInv, TypeOK, Accounting, Answered
<1>10. \A m \in Nodes(graph) : invoked[m] <= invoked'[m] /\ Answered(m) <= Answered(m)'
  <2> SUFFICES ASSUME NEW m \in Nodes(graph)
               PROVE  invoked[m] <= invoked'[m] /\ Answered(m) <= Answered(m)'
    OBVIOUS
  <2>1. CASE m = n
    BY <1>8, <1>9, <2>1
  <2>2. CASE m # n
    <3>1. Answered(m)' = Answered(m) /\ invoked'[m] = invoked[m]
      BY <1>4, <2>2 DEF Answered
    <3> QED
      BY <1>9, <3>1
  <2> QED
    BY <2>1, <2>2
<1>11. WorkLeft' \subseteq WorkLeft
  BY <1>2, <1>6, <1>10, WorkShrinks
<1>12. \/ invoked[n] < invoked'[n]
       \/ Answered(n) < Answered(n)'
       \/ n \notin Undecided'
  BY <1>3, <1>8, <1>9
<1>13. WorkLeft' # WorkLeft
  BY <1>2, <1>3, <1>12, WorkIsTaken DEF Undecided
<1> QED
  BY <1>2, <1>11, <1>13 DEF StepUsesUp

\* Settling a batch decides nodes and starts none.
LEMMA SettleBatchUsesUp ==
  ASSUME IInv, IInv', SettleBatch
  PROVE  StepUsesUp
<1>1. IsGraph(graph) /\ Nodes(graph) \subseteq Node
  BY GraphAssumption, NodesOfGraph DEF IInv, TypeOK
<1>2. PICK M \in SUBSET Pending :
        status' = [n \in Node |-> IF n \in DirectDependants \cup M THEN "BLOCKED" ELSE status[n]]
  BY DEF SettleBatch
<1>3. /\ pc = "await" /\ pc' = "schedule"
      /\ UNCHANGED <<graph, invoked, inflight, replanUsed>>
  BY DEF SettleBatch
<1>4. ASSUME NEW n \in Nodes(graph)
      PROVE  \/ status'[n] = status[n]
             \/ status[n] = "PENDING" /\ status'[n] = "BLOCKED"
  BY <1>1, <1>2 DEF DirectDependants, Pending
<1>5. \A n \in Nodes(graph) : invoked[n] <= invoked'[n] /\ Answered(n) <= Answered(n)'
  <2> SUFFICES ASSUME NEW n \in Nodes(graph)
               PROVE  invoked[n] <= invoked'[n] /\ Answered(n) <= Answered(n)'
    OBVIOUS
  <2>1. Answered(n)' = Answered(n)
    BY <1>3, <1>4 DEF Answered
  <2>2. invoked[n] \in Nat /\ Answered(n) \in Nat
    BY <1>1, NodesOfGraph DEF IInv, TypeOK, Accounting, Answered
  <2> QED
    BY <1>3, <2>1, <2>2
<1>6. Undecided' \subseteq Undecided
  BY <1>3, <1>4 DEF Undecided, Pending
<1>7. WorkLeft' \subseteq WorkLeft
  BY <1>3, <1>5, <1>6, WorkShrinks
<1> QED
  BY <1>3, <1>7 DEF StepUsesUp, LoopGoesOn

\* Whatever the graphs, the replacements, the concurrency and the failures, the
\* scheduler cannot go on forever: what is left to do is finite, and every step
\* takes from it or comes nearer to the end of the loop, but for the one replan.
THEOREM NothingGoesOnForever == Spec => []IsFiniteSet(WorkLeft) /\ WorkRunsOut
<1>1. ASSUME IInv, IInv', LeftToDo, LeftToDo', Next
      PROVE  (~ replanUsed /\ replanUsed') \/ StepUsesUp
  <2>1. CASE StartBatch
    BY <1>1, <2>1, StartBatchUsesUp
  <2>2. CASE SettleBatch
    BY <1>1, <2>2, SettleBatchUsesUp
  <2>3. CASE \E g \in Replacements : Replan(g) \/ ReplanRejected(g)
    BY <2>3 DEF Replan, ReplanRejected, MayReplan
  <2>4. CASE Return
    <3>1. /\ pc = "schedule" /\ pc' = "returned"
          /\ UNCHANGED <<graph, status, invoked, inflight, replanUsed>>
      BY <2>4 DEF Return
    <3>2. WorkLeft' = WorkLeft
      BY <3>1 DEF WorkLeft, Answered, Undecided, Pending
    <3> QED
      BY <3>1, <3>2 DEF StepUsesUp, LoopGoesOn
  <2>5. ASSUME NEW n \in Node, NodeStep(n) PROVE StepUsesUp
    BY <1>1, <2>5, NodeStepUsesUp
  <2> QED
    BY <1>1, <2>1, <2>2, <2>3, <2>4, <2>5 DEF Next, LoopStep
<1>2. IInv /\ IInv' /\ LeftToDo /\ LeftToDo' /\ [Next]_vars
        => [(~ replanUsed /\ replanUsed') \/ StepUsesUp]_vars
  BY <1>1
<1>3. Spec => [][(~ replanUsed /\ replanUsed') \/ StepUsesUp]_vars
  BY <1>2, Invariance, LeftIsLeftToDo, PTL DEF Spec
<1>4. Spec => [][\/ ~ replanUsed /\ replanUsed'
                 \/ /\ replanUsed' = replanUsed
                    /\ WorkLeft' \subseteq WorkLeft
                    /\ WorkLeft' # WorkLeft \/ LoopGoesOn]_vars
  <2>1. [(~ replanUsed /\ replanUsed') \/ StepUsesUp]_vars
          => [\/ ~ replanUsed /\ replanUsed'
              \/ /\ replanUsed' = replanUsed
                 /\ WorkLeft' \subseteq WorkLeft
                 /\ WorkLeft' # WorkLeft \/ LoopGoesOn]_vars
    BY DEF StepUsesUp
  <2> QED
    BY <1>3, <2>1, PTL
<1>5. Spec => []IsFiniteSet(WorkLeft)
  BY Invariance, WorkLeftFinite, PTL
<1> QED
  BY <1>4, <1>5, PTL DEF WorkRunsOut

-----------------------------------------------------------------------------
(* Order: under Orderly the scheduler, which never looks for completed     *)
(* dependencies, starts a node only after all of them succeeded, and       *)
(* implements the abstract execution of a task graph.                      *)

\* The order was computed from the first graph, and never again.
OrderOfFirstGraph ==
  \E g \in Graphs : /\ order \in [1 .. Len(g.list) -> Nodes(g)]
                    /\ IsKahnOrder(g, order)

\* The marking pass left no pending node behind a failed or blocked one.
MarkingComplete == pc = "schedule" => \A n \in Pending : ~ NodeIsBlocked(n)

InflightReady == \A n \in inflight : \A d \in graph.deps[n] : status[d] = "SUCCEEDED"

OrderInv ==
  /\ OrderOfFirstGraph
  /\ RanksRespect(graph, order)
  /\ MarkingComplete
  /\ InflightReady

-----------------------------------------------------------------------------
\* Under Orderly a batch is one node.
LEMMA OneAtATime ==
  ASSUME Orderly, NEW S \in SUBSET Node, Cardinality(S) <= BatchWidth,
         NEW m \in S, NEW n \in S
  PROVE  m = n
<1>1. {k \in 0 .. (Concurrency - 1) : k + k < Concurrency} = {0}
  BY ConcurrencyAssumption DEF Orderly
<1>2. BatchWidth = 1
  BY <1>1, FS_Singleton DEF BatchWidth
<1>3. IsFiniteSet(S) /\ Cardinality(S) \in Nat
  BY NodesFinite
<1>4. Cardinality(S) # 0
  BY <1>3, FS_EmptySet
<1>5. Cardinality(S) = 1
  BY <1>2, <1>3, <1>4
<1> QED
  BY <1>3, <1>5, FS_Singleton

\* Kahn's order ranks every node after its dependencies.
LEMMA KahnRanks ==
  ASSUME NEW g, IsGraph(g), NEW o \in [1 .. Len(g.list) -> Nodes(g)], IsKahnOrder(g, o)
  PROVE  RanksRespect(g, o)
<1> SUFFICES ASSUME NEW n \in Nodes(g), NEW d \in g.deps[n]
             PROVE  Rank(o, d) < Rank(o, n)
  BY DEF RanksRespect, SortsBefore
<1> DEFINE At(m) == CHOOSE i \in DOMAIN o : o[i] = m
<1>1. Len(g.list) \in Nat /\ DOMAIN o = 1 .. Len(g.list)
  BY DEF IsGraph
<1>2. ASSUME NEW m, \E i \in DOMAIN o : o[i] = m
      PROVE  At(m) \in DOMAIN o /\ o[At(m)] = m /\ Rank(o, m) = At(m) - 1
  BY <1>2 DEF Rank
<1> HIDE DEF At
<1>3. At(n) \in DOMAIN o /\ o[At(n)] = n /\ Rank(o, n) = At(n) - 1
  BY <1>2 DEF IsKahnOrder
<1>4. PICK j \in 1 .. (At(n) - 1) : o[j] = d
  <2>1. o[At(n)] \in KahnReady(g, {o[j] : j \in 1 .. (At(n) - 1)})
    BY <1>3 DEF IsKahnOrder
  <2> QED
    BY <1>3, <2>1 DEF KahnReady
<1>5. j \in DOMAIN o
  BY <1>1, <1>3, <1>4
<1>6. At(d) \in DOMAIN o /\ o[At(d)] = d /\ Rank(o, d) = At(d) - 1
  BY <1>2, <1>4, <1>5
<1>7. ASSUME NEW i \in DOMAIN o, NEW k \in DOMAIN o, i < k
      PROVE  o[i] # o[k]
  <2>1. o[k] \notin {o[l] : l \in 1 .. (k - 1)}
    BY DEF IsKahnOrder, KahnReady
  <2>2. i \in 1 .. (k - 1)
    BY <1>1, <1>7
  <2> QED
    BY <2>1, <2>2
<1>8. At(d) = j
  BY <1>1, <1>4, <1>5, <1>6, <1>7
<1> QED
  BY <1>1, <1>3, <1>4, <1>6, <1>8

\* The comparison of the sort never holds both ways.
LEMMA SortAsymmetric ==
  ASSUME NEW g, IsGraph(g), NEW g0, IsGraph(g0),
         NEW o \in [1 .. Len(g0.list) -> Nodes(g0)],
         NEW m \in Nodes(g), NEW n \in Nodes(g), SortsBefore(g, o, m, n)
  PROVE  ~ SortsBefore(g, o, n, m)
<1>1. /\ DOMAIN o \subseteq Nat
      /\ DOMAIN g.list \subseteq Nat
  <2>1. Len(g0.list) \in Nat /\ DOMAIN g.list = 1 .. Len(g.list) /\ Len(g.list) \in Nat
    BY DEF IsGraph
  <2> QED
    BY <2>1
<1>2. Rank(o, m) \in Int /\ Rank(o, n) \in Int
  <2>1. ASSUME NEW x, \E i \in DOMAIN o : o[i] = x
        PROVE  Rank(o, x) \in Int
    <3>1. (CHOOSE i \in DOMAIN o : o[i] = x) \in Nat
      BY <1>1, <2>1
    <3> QED
      BY <2>1, <3>1 DEF Rank
  <2>2. ASSUME NEW x, ~ \E i \in DOMAIN o : o[i] = x
        PROVE  Rank(o, x) \in Int
    BY <2>2 DEF Rank
  <2> QED
    BY <2>1, <2>2
<1>3. Position(g, m) \in Int /\ Position(g, n) \in Int
  BY <1>1 DEF Position, Nodes
<1> QED
  BY <1>2, <1>3 DEF SortsBefore

-----------------------------------------------------------------------------
\* The invariant holds at first.
LEMMA InitOrderInv ==
  ASSUME Orderly, Init
  PROVE  OrderInv
<1>1. OrderOfFirstGraph
  BY DEF Init, OrderOfFirstGraph
<1>2. RanksRespect(graph, order)
  BY GraphAssumption, KahnRanks DEF Init
<1>3. MarkingComplete
  BY DEF Init, MarkingComplete, NodeIsBlocked
<1>4. InflightReady
  BY DEF Init, InflightReady
<1> QED
  BY <1>1, <1>2, <1>3, <1>4 DEF OrderInv

\* Facts about the graph in force that every step uses.
LEMMA GraphFacts ==
  ASSUME Orderly, IInv
  PROVE  /\ IsGraph(graph)
         /\ ListsDependenciesFirst(graph)
         /\ Nodes(graph) \subseteq Node
         /\ \A n \in Nodes(graph) : graph.deps[n] \subseteq Nodes(graph)
<1>1. IsGraph(graph) /\ ListsDependenciesFirst(graph)
  BY GraphAssumption DEF IInv, TypeOK, Orderly
<1>2. ASSUME NEW n \in Nodes(graph), NEW d \in graph.deps[n]
      PROVE  d \in Nodes(graph)
  <2>1. PICK i \in DOMAIN graph.list : graph.list[i] = n
    BY DEF Nodes
  <2>2. PICK j \in 1 .. (i - 1) : graph.list[j] = d
    BY <1>1, <2>1 DEF ListsDependenciesFirst
  <2>3. Len(graph.list) \in Nat /\ DOMAIN graph.list = 1 .. Len(graph.list)
    BY <1>1 DEF IsGraph
  <2>4. j \in DOMAIN graph.list
    BY <2>1, <2>2, <2>3
  <2> QED
    BY <2>2, <2>4 DEF Nodes
<1> QED
  BY <1>1, <1>2, NodesOfGraph

\* The least ready node has no pending dependency: such a dependency would be
\* ready too, and sorted before it.
LEMMA StartBatchOrderInv ==
  ASSUME Orderly, IInv, IInv', OrderInv, StartBatch
  PROVE  OrderInv'
<1>1. PICK B \in Batches : RunOne(B) /\ inflight' = B
  BY DEF StartBatch
<1>2. /\ pc = "schedule" /\ pc' = "await" /\ inflight = {}
      /\ UNCHANGED <<graph, order, failed, blocked>>
  BY DEF StartBatch, IInv, Agreement
<1>3. OrderOfFirstGraph' /\ RanksRespect(graph, order)' /\ MarkingComplete'
  BY <1>2 DEF OrderInv, OrderOfFirstGraph, MarkingComplete
<1>4. B \subseteq Ready /\ B \subseteq Node /\ B \subseteq Nodes(graph)
  BY GraphFacts DEF Batches, Ready, Pending
<1>5. ASSUME NEW n \in B, NEW d \in graph.deps[n]
      PROVE  status[d] = "SUCCEEDED" /\ d \notin B
  <2>1. d \in Nodes(graph) /\ d \in Node /\ n \in Nodes(graph)
    BY <1>4, GraphFacts
  <2>2. SortsBefore(graph, order, d, n)
    BY <2>1 DEF OrderInv, RanksRespect
  <2>3. PICK g0 \in Graphs : order \in [1 .. Len(g0.list) -> Nodes(g0)]
    BY DEF OrderInv, OrderOfFirstGraph
  <2>4. ~ SortsBefore(graph, order, n, d)
    BY <2>1, <2>2, <2>3, SortAsymmetric, GraphAssumption, GraphFacts
  <2>5. n # d
    BY <2>2, <2>4
  <2>6. d \notin B
    BY <1>4, <2>5, OneAtATime DEF Batches
  <2>7. d \notin Ready
    BY <2>4, <2>6, <1>4 DEF Batches
  <2>8. status[d] # "PENDING"
    BY <1>2, <2>1, <2>7 DEF OrderInv, MarkingComplete, Ready, Pending
  <2>9. d \notin failed /\ d \notin blocked
    BY <1>4 DEF Ready, NodeIsBlocked
  <2>10. status[d] \in Statuses /\ status[d] # "ABSENT"
    BY <2>1 DEF IInv, TypeOK
  <2> QED
    BY <1>2, <2>1, <2>6, <2>8, <2>9, <2>10 DEF Statuses, IInv, Agreement
<1>6. InflightReady'
  <2> SUFFICES ASSUME NEW n \in B, NEW d \in graph.deps[n]
               PROVE  status'[d] = "SUCCEEDED"
    BY <1>1, <1>2 DEF InflightReady
  <2>1. d \in Node
    BY <1>4, GraphFacts
  <2> QED
    BY <1>1, <1>5, <2>1 DEF RunOne
<1> QED
  BY <1>3, <1>6 DEF OrderInv

\* A step of a node in flight leaves its dependencies and the order alone.
LEMMA NodeStepOrderInv ==
  ASSUME Orderly, IInv, OrderInv, NEW n \in Node, NodeStep(n)
  PROVE  OrderInv'
<1>1. /\ n \in inflight
      /\ inflight' \subseteq inflight
      /\ pc # "schedule" /\ pc' # "schedule"
      /\ UNCHANGED <<graph, order>>
      /\ \A m \in Node \ {n} : status'[m] = status[m]
  BY DEF NodeStep, AttemptSucceeds, AttemptFails, Retry, FallBack, GiveUp, FallBackThrows,
         AwaitsRetry, RunOne, IInv, Agreement, TypeOK
<1>2. status[n] \in {"RUNNING", "FAILED"}
  BY <1>1 DEF IInv, Agreement
<1>3. OrderOfFirstGraph' /\ RanksRespect(graph, order)' /\ MarkingComplete'
  BY <1>1 DEF OrderInv, OrderOfFirstGraph, MarkingComplete
<1>4. InflightReady'
  <2> SUFFICES ASSUME NEW m \in inflight, NEW d \in graph.deps[m]
               PROVE  status'[d] = "SUCCEEDED"
    BY <1>1 DEF InflightReady
  <2>1. status[d] = "SUCCEEDED"
    BY DEF OrderInv, InflightReady
  <2>2. d \in Node /\ d # n
    BY <1>2, <2>1, GraphFacts DEF IInv, TypeOK
  <2> QED
    BY <1>1, <2>1, <2>2
<1> QED
  BY <1>3, <1>4 DEF OrderInv

\* One pass over a list that names dependencies first misses nobody.
LEMMA SettleBatchOrderInv ==
  ASSUME Orderly, IInv, OrderInv, SettleBatch
  PROVE  OrderInv'
<1>1. PICK M \in SUBSET Pending :
        /\ MarkedInOnePass(M, failed \cup blocked \cup DirectDependants)
        /\ blocked' = blocked \cup DirectDependants \cup M
        /\ status' = [n \in Node |-> IF n \in DirectDependants \cup M
                                     THEN "BLOCKED" ELSE status[n]]
  BY DEF SettleBatch
<1>2. inflight' = {} /\ UNCHANGED <<graph, order, failed>>
  BY DEF SettleBatch
<1>3. OrderOfFirstGraph' /\ RanksRespect(graph, order)' /\ InflightReady'
  BY <1>2 DEF OrderInv, OrderOfFirstGraph, InflightReady
<1>4. ASSUME NEW n \in Pending', NEW d \in graph.deps[n]
      PROVE  d \notin failed \cup blocked'
  <2> DEFINE bad == failed \cup blocked \cup DirectDependants
  <2>1. n \in Pending /\ n \notin DirectDependants \cup M /\ n \in Nodes(graph)
    BY <1>1, <1>2, GraphFacts DEF Pending
  <2>2. PICK i \in DOMAIN graph.list : graph.list[i] = n
    BY <2>1 DEF Nodes
  <2>3. PICK j \in 1 .. (i - 1) : graph.list[j] = d
    BY <2>2, GraphFacts DEF ListsDependenciesFirst
  <2>4. graph.deps[n]
          \cap (bad \cup {graph.list[k] : k \in {l \in 1 .. (i - 1) : graph.list[l] \in M}})
          = {}
    BY <1>1, <2>1, <2>2 DEF MarkedInOnePass
  <2>5. d \notin bad /\ d \notin M
    BY <2>3, <2>4
  <2> QED
    BY <1>1, <2>5
<1>5. MarkingComplete'
  BY <1>2, <1>4 DEF MarkingComplete, NodeIsBlocked
<1> QED
  BY <1>3, <1>5 DEF OrderInv

\* Replan keeps the invariant.
LEMMA ReplanOrderInv ==
  ASSUME Orderly, IInv, OrderInv, NEW g \in Replacements, Replan(g)
  PROVE  OrderInv'
<1>1. graph' = g /\ inflight' = {} /\ order' = order
  BY DEF Replan, IInv, Agreement
<1>2. failed' = {} /\ blocked' = {}
  <2>1. \A n \in Reused(g) : n \in Node /\ status[n] = "SUCCEEDED"
    BY NodesOfGraph, GraphFacts DEF Reused
  <2>2. \A n \in Reused(g) : n \notin failed /\ n \notin blocked
    BY <2>1 DEF IInv, Agreement
  <2>3. failed' = failed \cap Reused(g) /\ blocked' = blocked \cap Reused(g)
    BY DEF Replan
  <2> QED
    BY <2>2, <2>3
<1>3. OrderOfFirstGraph'
  BY <1>1 DEF OrderInv, OrderOfFirstGraph
<1>4. RanksRespect(graph, order)'
  BY <1>1 DEF OrderInv, OrderOfFirstGraph, Orderly
<1>5. MarkingComplete' /\ InflightReady'
  BY <1>1, <1>2 DEF MarkingComplete, NodeIsBlocked, InflightReady
<1> QED
  BY <1>3, <1>4, <1>5 DEF OrderInv

\* Every step keeps the invariant.
LEMMA NextOrderInv ==
  ASSUME Orderly
  PROVE  IInv /\ IInv' /\ OrderInv /\ [Next]_vars => OrderInv'
<1> SUFFICES ASSUME IInv, IInv', OrderInv, [Next]_vars PROVE OrderInv'
  OBVIOUS
<1>1. CASE StartBatch
  BY <1>1, StartBatchOrderInv
<1>2. CASE SettleBatch
  BY <1>2, SettleBatchOrderInv
<1>3. CASE \E g \in Replacements : Replan(g)
  BY <1>3, ReplanOrderInv
<1>4. CASE Return \/ \E g \in Replacements : ReplanRejected(g)
  <2>1. pc' # "schedule" /\ UNCHANGED <<graph, order, status, failed, blocked, inflight>>
    BY <1>4 DEF Return, ReplanRejected
  <2> QED
    BY <2>1 DEF OrderInv, OrderOfFirstGraph, MarkingComplete, InflightReady
<1>5. CASE \E n \in Node : NodeStep(n)
  BY <1>5, NodeStepOrderInv
<1>6. CASE UNCHANGED vars
  BY <1>6 DEF vars, OrderInv, OrderOfFirstGraph, MarkingComplete, InflightReady, Pending,
              NodeIsBlocked
<1> QED
  BY <1>1, <1>2, <1>3, <1>4, <1>5, <1>6 DEF Next, LoopStep

\* Under Orderly the invariant of the order holds in every state.
THEOREM OrderInvariance ==
  ASSUME Orderly
  PROVE  Spec => []OrderInv
<1>1. Init => OrderInv
  BY InitOrderInv
<1>2. IInv /\ IInv' /\ OrderInv /\ [Next]_vars => OrderInv'
  BY NextOrderInv
<1> QED
  BY <1>1, <1>2, Invariance, PTL DEF Spec

\* At concurrency 1 or 2, on node lists that name dependencies first, no
\* handler runs before all the dependencies of its node have succeeded.
THEOREM DependenciesRunFirst ==
  ASSUME Orderly
  PROVE  Spec => []DependenciesFirst
<1>1. IInv /\ OrderInv => DependenciesFirst
  BY DEF IInv, Agreement, OrderInv, InflightReady, DependenciesFirst, Running
<1> QED
  BY <1>1, Invariance, OrderInvariance, PTL

-----------------------------------------------------------------------------
\* Refinement of TaskGraphExecution.  A fallback that throws leaves nothing in
\* flight when nodes run one at a time.
Alone == pc = "rejected" => inflight = {}

\* A step of a node is of the only one in flight.
LEMMA NodeStepInFlight ==
  ASSUME Orderly, IInv, NEW n \in Node, NodeStep(n)
  PROVE  /\ inflight = {n} /\ n \in Nodes(graph)
         /\ status[n] \in {"RUNNING", "FAILED"}
         /\ pc \notin {"schedule", "returned"}
<1>1. n \in inflight
  BY DEF NodeStep, AttemptSucceeds, AttemptFails, Retry, FallBack, GiveUp, FallBackThrows,
         AwaitsRetry, IInv, Agreement
<1>2. inflight \subseteq Node /\ Cardinality(inflight) <= BatchWidth
  BY GraphFacts DEF IInv, TypeOK, Width
<1>3. \A m \in inflight : m = n
  BY <1>1, <1>2, OneAtATime
<1> QED
  BY <1>1, <1>3 DEF IInv, TypeOK, Agreement

\* Under Orderly one node at most is at work in every state.
THEOREM AloneInvariance ==
  ASSUME Orderly
  PROVE  Spec => []Alone
<1>1. Init => Alone
  BY DEF Init, Alone
<1>2. IInv /\ Alone /\ [Next]_vars => Alone'
  <2> SUFFICES ASSUME IInv, Alone, [Next]_vars PROVE Alone'
    OBVIOUS
  <2>1. CASE LoopStep
    BY <2>1 DEF LoopStep, StartBatch, SettleBatch, Replan, ReplanRejected, Return, Alone,
                IInv, Agreement
  <2>2. ASSUME NEW n \in Node, NodeStep(n)
        PROVE  Alone'
    BY <2>2, NodeStepInFlight DEF Alone, NodeStep, AttemptSucceeds, AttemptFails, Retry,
                                  FallBack, GiveUp, FallBackThrows
  <2>3. CASE UNCHANGED vars
    BY <2>3 DEF vars, Alone
  <2> QED
    BY <2>1, <2>2, <2>3 DEF Next
<1> QED
  BY <1>1, <1>2, Invariance, PTL DEF Spec

\* How far a node that is not in flight has got.
LEMMA ProgressAtRest ==
  ASSUME NEW n \in Node, n \notin inflight, status[n] \in Statuses \ {"RUNNING"}
  PROVE  /\ Progress[n] = "WAITING" <=> status[n] = "PENDING"
         /\ Progress[n] = "DONE" <=> status[n] = "SUCCEEDED"
         /\ Progress[n] = "FAILED" <=> status[n] = "FAILED"
         /\ Progress[n] = "SKIPPED" <=> status[n] = "BLOCKED"
         /\ Progress[n] = "ABSENT" <=> status[n] = "ABSENT"
<1>1. Progress[n] = CASE status[n] = "PENDING"   -> "WAITING"
                      [] status[n] = "RUNNING"   -> "WORKING"
                      [] status[n] = "SUCCEEDED" -> "DONE"
                      [] status[n] = "BLOCKED"   -> "SKIPPED"
                      [] OTHER                   -> status[n]
  BY DEF Progress
<1>2. CASE status[n] = "PENDING"
  BY <1>1, <1>2
<1>3. CASE status[n] = "SUCCEEDED"
  BY <1>1, <1>3
<1>4. CASE status[n] = "BLOCKED"
  BY <1>1, <1>4
<1>5. CASE status[n] \in {"FAILED", "ABSENT"}
  BY <1>1, <1>5
<1> QED
  BY <1>2, <1>3, <1>4, <1>5 DEF Statuses

\* A node in flight is working, for the promise.
LEMMA InFlightWorks ==
  ASSUME NEW n \in Node, n \in inflight
  PROVE  Progress[n] = "WORKING"
BY DEF Progress

\* Between batches all is settled once nothing is ready.
LEMMA NothingReady ==
  ASSUME Orderly, IInv, OrderInv, pc = "schedule", Ready = {}
  PROVE  /\ inflight = {} /\ Promise!AllSettled
         /\ \A n \in Nodes(graph) : n \in Node /\ status[n] \in {"SUCCEEDED", "FAILED", "BLOCKED"}
<1>1. inflight = {}
  BY DEF IInv, Agreement
<1>2. ASSUME NEW n \in Nodes(graph)
      PROVE  n \in Node /\ status[n] \in {"SUCCEEDED", "FAILED", "BLOCKED"}
  <2>1. n \in Node /\ status[n] \in Statuses \ {"ABSENT", "RUNNING"}
    BY <1>1, GraphFacts DEF IInv, TypeOK, Agreement
  <2>2. status[n] # "PENDING"
    BY DEF OrderInv, MarkingComplete, Ready, Pending
  <2> QED
    BY <2>1, <2>2 DEF Statuses
<1>3. ASSUME NEW n \in Nodes(graph)
      PROVE  Progress[n] \in {"DONE", "FAILED", "SKIPPED"}
  BY <1>1, <1>2, ProgressAtRest DEF Statuses
<1> QED
  BY <1>1, <1>2, <1>3 DEF Promise!AllSettled, Promise!Settled, Promise!Nodes, Nodes

\* A node keeps its progress with its status and its flight.
LEMMA ProgressUnchanged ==
  ASSUME NEW n \in Node, status'[n] = status[n], n \in inflight' <=> n \in inflight
  PROVE  Progress'[n] = Progress[n]
BY DEF Progress

\* The batch is one node, all of whose dependencies are done.
LEMMA StartBatchRefines ==
  ASSUME Orderly, IInv, IInv', OrderInv, OrderInv', StartBatch
  PROVE  \E n \in Node : Promise!Start(n)
<1>1. PICK B \in Batches : RunOne(B) /\ inflight' = B
  BY DEF StartBatch
<1>2. /\ pc = "schedule" /\ pc' = "await" /\ inflight = {}
      /\ UNCHANGED <<graph, replanUsed>> /\ Ready # {}
  BY DEF StartBatch, IInv, Agreement
<1>3. B \subseteq Ready /\ B \subseteq Node /\ B \subseteq Nodes(graph)
  BY GraphFacts DEF Batches, Ready, Pending
<1>4. PICK n \in B : TRUE
  <2>1. CASE B = Ready
    BY <1>2, <2>1
  <2>2. CASE Cardinality(B) = BatchWidth
    <3>1. B # {}
      BY <2>2, BatchWidthBound, FS_EmptySet
    <3> QED
      BY <3>1
  <2> QED
    BY <2>1, <2>2 DEF Batches
<1>5. B = {n}
  <2>1. \A m \in B : m = n
    BY <1>3, <1>4, OneAtATime DEF Batches
  <2> QED
    BY <1>4, <2>1
<1>6. n \in Node /\ n \in Nodes(graph) /\ status[n] = "PENDING"
  BY <1>3, <1>4 DEF Ready, Pending
<1>7. Progress[n] = "WAITING"
  BY <1>2, <1>6, ProgressAtRest DEF Statuses
<1>8. Progress' = [Progress EXCEPT ![n] = "WORKING"]
  <2>1. \A m \in Node \ {n} : status'[m] = status[m] /\ m \notin inflight'
    BY <1>1, <1>5 DEF RunOne
  <2>2. \A m \in Node \ {n} : Progress'[m] = Progress[m]
    BY <1>2, <2>1, ProgressUnchanged
  <2>3. Progress'[n] = "WORKING"
    BY <1>1, <1>4, <1>6 DEF Progress
  <2> QED
    BY <2>2, <2>3 DEF Progress
<1>9. ASSUME NEW d \in graph.deps[n]
      PROVE  Progress[d] = "DONE"
  <2>1. d \in Node /\ status'[d] = "SUCCEEDED"
    BY <1>1, <1>2, <1>4, <1>6, GraphFacts DEF OrderInv, InflightReady
  <2>2. status[d] = "SUCCEEDED"
    BY <1>1, <2>1 DEF RunOne
  <2> QED
    BY <1>2, <2>1, <2>2, ProgressAtRest DEF Statuses
<1>10. Verdict = "NONE" /\ Verdict' = "NONE"
  BY <1>2 DEF Verdict
<1> HIDE DEF Progress
<1> QED
  BY <1>2, <1>6, <1>7, <1>8, <1>9, <1>10 DEF Promise!Start

\* The end of an attempt, and what follows a failed one.
LEMMA NodeStepRefines ==
  ASSUME Orderly, IInv, IInv', Alone, NEW n \in Node, NodeStep(n)
  PROVE  Promise!Finish(n) \/ Promise!Abandon(n) \/ UNCHANGED Promise!absVars
<1>1. /\ inflight = {n} /\ status[n] \in {"RUNNING", "FAILED"}
      /\ pc = "await"
  BY NodeStepInFlight DEF Alone, IInv, TypeOK
<1>2. /\ UNCHANGED <<graph, replanUsed>>
      /\ \A m \in Node \ {n} : status'[m] = status[m]
      /\ inflight' \in {{n}, {}}
  BY <1>1 DEF NodeStep, AttemptSucceeds, AttemptFails, Retry, FallBack, GiveUp, FallBackThrows,
         RunOne, IInv, TypeOK
<1>3. Progress[n] = "WORKING" /\ Verdict = "NONE"
  BY <1>1, InFlightWorks DEF Verdict
<1>4. \A m \in Node \ {n} : Progress'[m] = Progress[m]
  BY <1>1, <1>2, ProgressUnchanged
<1>5. CASE inflight' = {n}
  <2>1. Progress'[n] = "WORKING"
    BY <1>5 DEF Progress
  <2>2. Progress' = Progress
    BY <1>3, <1>4, <2>1 DEF Progress
  <2>3. pc' = pc
    BY <1>1, <1>5 DEF NodeStep, AttemptSucceeds, AttemptFails, Retry, FallBack, GiveUp,
                      FallBackThrows
  <2>4. Verdict' = Verdict
    BY <1>1, <2>3 DEF Verdict
  <2> QED
    BY <1>2, <2>2, <2>4 DEF Promise!absVars
<1>6. CASE inflight' = {}
  <2>1. status'[n] \in {"SUCCEEDED", "FAILED"}
    BY <1>1, <1>6 DEF NodeStep, AttemptSucceeds, AttemptFails, Retry, FallBack, GiveUp,
                      FallBackThrows, AwaitsRetry, IInv, TypeOK
  <2>2. Progress'[n] \in {"DONE", "FAILED"} /\ (status'[n] = "FAILED" => Progress'[n] = "FAILED")
    BY <1>6, <2>1 DEF Progress
  <2>3. Progress' = [Progress EXCEPT ![n] = Progress'[n]]
    <3>1. DOMAIN Progress' = Node /\ Progress = [m \in Node |-> Progress[m]]
      BY DEF Progress
    <3>2. Progress' = [m \in Node |-> Progress'[m]]
      BY DEF Progress
    <3> HIDE DEF Progress
    <3> QED
      BY <1>4, <3>1, <3>2
  <2> HIDE DEF Progress
  <2>4. CASE pc' = pc
    <3>1. Verdict' = Verdict
      BY <1>1, <2>4 DEF Verdict
    <3> QED
      BY <1>2, <1>3, <2>2, <2>3, <3>1 DEF Promise!Finish
  <2>5. CASE pc' # pc
    <3>1. pc' = "rejected" /\ status'[n] = "FAILED"
      BY <1>1, <2>5 DEF NodeStep, AttemptSucceeds, AttemptFails, Retry, FallBack, GiveUp,
                        FallBackThrows, AwaitsRetry
    <3>2. Verdict' = "FAILED"
      BY <3>1 DEF Verdict
    <3> QED
      BY <1>2, <1>3, <2>2, <2>3, <3>1, <3>2 DEF Promise!Abandon
  <2> QED
    BY <2>4, <2>5
<1> QED
  BY <1>2, <1>5, <1>6

\* The marking pass skips nodes that lost a dependency.
LEMMA SettleBatchRefines ==
  ASSUME Orderly, IInv, SettleBatch
  PROVE  \E S \in SUBSET Node : Promise!Skip(S)
<1>1. PICK M \in SUBSET Pending :
        /\ MarkedInOnePass(M, failed \cup blocked \cup DirectDependants)
        /\ status' = [n \in Node |-> IF n \in DirectDependants \cup M
                                     THEN "BLOCKED" ELSE status[n]]
  BY DEF SettleBatch
<1>2. /\ inflight = {} /\ inflight' = {} /\ pc = "await" /\ pc' = "schedule"
      /\ UNCHANGED <<graph, replanUsed>>
  BY DEF SettleBatch
<1> DEFINE S == DirectDependants \cup M
<1>3. S \subseteq Node /\ \A n \in S : n \in Nodes(graph) /\ status[n] = "PENDING"
  BY <1>1, GraphFacts DEF DirectDependants, Pending
<1>4. ASSUME NEW n \in S
      PROVE  Progress[n] = "WAITING"
  BY <1>2, <1>3, ProgressAtRest DEF Statuses
<1>5. ASSUME NEW d \in Nodes(graph), d \in failed \cup blocked \/ status[d] = "FAILED"
      PROVE  Progress[d] \in {"FAILED", "SKIPPED"}
  <2>1. d \in Node /\ status[d] \in {"FAILED", "BLOCKED"}
    BY <1>2, <1>5, GraphFacts DEF IInv, Agreement
  <2> QED
    BY <1>2, <2>1, ProgressAtRest DEF Statuses
<1>6. ASSUME NEW n \in S
      PROVE  \E d \in graph.deps[n] : Progress[d] \in {"FAILED", "SKIPPED"} \/ d \in S
  <2>1. graph.deps[n] \subseteq Nodes(graph)
    BY <1>3, GraphFacts
  <2>2. CASE n \in DirectDependants
    BY <1>5, <2>2 DEF DirectDependants
  <2>3. CASE n \in M
    <3>1. PICK i \in DOMAIN graph.list : graph.list[i] = n
      BY <1>3 DEF Nodes
    <3>2. graph.deps[n] \cap (failed \cup blocked \cup DirectDependants
                               \cup {graph.list[j] : j \in {k \in 1 .. (i - 1) : graph.list[k] \in M}}) # {}
      BY <1>1, <2>3, <3>1 DEF MarkedInOnePass
    <3>3. PICK d \in graph.deps[n] : d \in failed \cup blocked \/ d \in S
      BY <3>2
    <3> QED
      BY <1>5, <2>1, <3>3
  <2> QED
    BY <2>2, <2>3
<1>7. Progress' = [n \in Node |-> IF n \in S THEN "SKIPPED" ELSE Progress[n]]
  <2>1. ASSUME NEW n \in Node, n \in S PROVE Progress'[n] = "SKIPPED"
    BY <1>1, <1>2, <2>1 DEF Progress
  <2>2. ASSUME NEW n \in Node, n \notin S PROVE Progress'[n] = Progress[n]
    <3>1. status'[n] = status[n]
      BY <1>1, <2>2
    <3> QED
      BY <1>2, <3>1, ProgressUnchanged
  <2> HIDE DEF S
  <2> QED
    BY <2>1, <2>2 DEF Progress
<1>8. Verdict = "NONE" /\ Verdict' = "NONE"
  BY <1>2 DEF Verdict
<1> HIDE DEF S
<1>9. Promise!Skip(S)
  BY <1>2, <1>4, <1>6, <1>7, <1>8 DEF Promise!Skip
<1> QED
  BY <1>3, <1>9

\* A replacement is a revision of the plan.
LEMMA ReplanRefines ==
  ASSUME Orderly, IInv, OrderInv, NEW g \in Replacements, Replan(g)
  PROVE  Promise!Revise(g)
<1>1. /\ pc = "schedule" /\ Ready = {} /\ ~ replanUsed /\ FailedReviewer
      /\ graph' = g /\ replanUsed' = TRUE /\ pc' = pc /\ inflight' = inflight
  BY DEF Replan, MayReplan
<1>2. /\ inflight = {} /\ Promise!AllSettled
      /\ \A n \in Nodes(graph) : n \in Node /\ status[n] \in {"SUCCEEDED", "FAILED", "BLOCKED"}
  BY <1>1, NothingReady
<1>3. \E n \in Promise!Nodes(graph) : Progress[n] = "FAILED"
  <2>1. PICK n \in Nodes(graph) : status[n] = "FAILED"
    BY <1>1 DEF FailedReviewer
  <2>2. Progress[n] = "FAILED"
    BY <1>2, <2>1, ProgressAtRest DEF Statuses
  <2> QED
    BY <2>2 DEF Nodes, Promise!Nodes
<1>4. Reused(g) \in SUBSET {n \in Promise!Nodes(g) : Progress[n] = "DONE"}
  <2> SUFFICES ASSUME NEW n \in Reused(g)
               PROVE  n \in Nodes(g) /\ Progress[n] = "DONE"
    BY DEF Nodes, Promise!Nodes
  <2>1. n \in Nodes(g) /\ n \in Nodes(graph) /\ status[n] = "SUCCEEDED"
    BY DEF Reused
  <2> QED
    BY <1>2, <2>1, ProgressAtRest DEF Statuses
<1>5. Progress' = [n \in Node |-> IF n \in Reused(g) THEN "DONE"
                                  ELSE IF n \in Promise!Nodes(g) THEN "WAITING" ELSE "ABSENT"]
  <2>1. status' = [n \in Node |-> IF n \in Reused(g) THEN "SUCCEEDED"
                                  ELSE IF n \in Nodes(g) THEN "PENDING" ELSE "ABSENT"]
    BY DEF Replan
  <2> DEFINE p == [n \in Node |-> IF n \in Reused(g) THEN "DONE"
                                  ELSE IF n \in Promise!Nodes(g) THEN "WAITING" ELSE "ABSENT"]
  <2>2. ASSUME NEW n \in Node PROVE Progress'[n] = p[n]
    <3>1. CASE n \in Reused(g)
      <4>1. status'[n] = "SUCCEEDED"
        BY <2>1, <3>1
      <4> QED
        BY <1>1, <1>2, <3>1, <4>1 DEF Progress
    <3>2. CASE n \notin Reused(g) /\ n \in Nodes(g)
      <4>1. status'[n] = "PENDING"
        BY <2>1, <3>2
      <4> QED
        BY <1>1, <1>2, <3>2, <4>1 DEF Progress, Nodes, Promise!Nodes
    <3>3. CASE n \notin Reused(g) /\ n \notin Nodes(g)
      <4>1. status'[n] = "ABSENT"
        BY <2>1, <3>3
      <4> QED
        BY <1>1, <1>2, <3>3, <4>1 DEF Progress, Nodes, Promise!Nodes
    <3> QED
      BY <3>1, <3>2, <3>3
  <2> QED
    BY <2>2 DEF Progress
<1>6. Verdict = "NONE" /\ Verdict' = "NONE"
  BY <1>1 DEF Verdict
<1> HIDE DEF Progress
<1> QED
  BY <1>1, <1>2, <1>3, <1>4, <1>5, <1>6 DEF Promise!Revise

\* The end of the loop is the conclusion, or a refused revision.
LEMMA LoopEndRefines ==
  ASSUME Orderly, IInv, IInv', OrderInv, Return \/ \E g \in Replacements : ReplanRejected(g)
  PROVE  Promise!Conclude \/ Promise!RefuseRevision
<1>1. /\ pc = "schedule" /\ Ready = {}
      /\ UNCHANGED <<graph, status, inflight, failed, blocked>>
  BY DEF Return, ReplanRejected
<1>2. /\ inflight = {} /\ Promise!AllSettled
      /\ \A n \in Nodes(graph) : n \in Node /\ status[n] \in {"SUCCEEDED", "FAILED", "BLOCKED"}
  BY <1>1, NothingReady
<1>3. Progress' = Progress /\ Verdict = "NONE"
  BY <1>1 DEF Progress, Verdict
<1>4. ASSUME NEW n \in Nodes(graph)
      PROVE  /\ Progress[n] = "DONE" <=> status[n] = "SUCCEEDED"
             /\ Progress[n] = "FAILED" <=> status[n] = "FAILED"
  BY <1>2, ProgressAtRest DEF Statuses
<1>5. CASE Return
  <2>1. pc' = "returned" /\ replanUsed' = replanUsed
    BY <1>5 DEF Return
  <2>2. Verdict' = IF \A n \in Nodes(graph) : status[n] = "SUCCEEDED"
                   THEN "SUCCEEDED" ELSE "FAILED"
    <3>1. ReportHonest'
      BY ReportIsHonest, PTL
    <3> QED
      BY <1>1, <2>1, <3>1 DEF ReportHonest, Verdict, ExecutionStatus
  <2> HIDE DEF Progress, Verdict
  <2> QED
    BY <1>1, <1>2, <1>3, <1>4, <2>1, <2>2 DEF Promise!Conclude, Promise!Nodes, Nodes
<1>6. CASE \E g \in Replacements : ReplanRejected(g)
  <2>1. pc' = "rejected" /\ replanUsed' = TRUE /\ ~ replanUsed /\ FailedReviewer
    BY <1>6 DEF ReplanRejected, MayReplan
  <2>2. Verdict' = "FAILED"
    BY <2>1 DEF Verdict
  <2>3. \E n \in Nodes(graph) : Progress[n] = "FAILED"
    BY <1>4, <2>1 DEF FailedReviewer
  <2> HIDE DEF Progress, Verdict
  <2> QED
    BY <1>1, <1>2, <1>3, <2>1, <2>2, <2>3 DEF Promise!RefuseRevision, Promise!Nodes, Nodes
<1> QED
  BY <1>5, <1>6

\* The initial states are initial states of the promise.
LEMMA InitRefines == Init => Promise!Init
<1> SUFFICES ASSUME Init PROVE Promise!Init
  OBVIOUS
<1>1. Progress = [n \in Node |-> IF n \in Promise!Nodes(graph) THEN "WAITING" ELSE "ABSENT"]
  BY DEF Init, Progress, Nodes, Promise!Nodes
<1> QED
  BY <1>1 DEF Init, Verdict, Promise!Init

\* Every step is a step of the promise, or none.
LEMMA NextRefines ==
  ASSUME Orderly, IInv, IInv', OrderInv, OrderInv', Alone, [Next]_vars
  PROVE  [Promise!Next]_Promise!absVars
<1>1. CASE StartBatch
  BY <1>1, StartBatchRefines DEF Promise!Next
<1>2. CASE SettleBatch
  BY <1>2, SettleBatchRefines DEF Promise!Next
<1>3. CASE \E g \in Replacements : Replan(g)
  BY <1>3, ReplanRefines DEF Promise!Next
<1>4. CASE Return \/ \E g \in Replacements : ReplanRejected(g)
  BY <1>4, LoopEndRefines DEF Promise!Next
<1>5. ASSUME NEW n \in Node, NodeStep(n)
      PROVE  [Promise!Next]_Promise!absVars
  BY <1>5, NodeStepRefines DEF Promise!Next
<1>6. CASE UNCHANGED vars
  BY <1>6 DEF vars, Promise!absVars, Progress, Verdict, ExecutionStatus
<1> QED
  BY <1>1, <1>2, <1>3, <1>4, <1>5, <1>6 DEF Next, LoopStep

\* At concurrency 1 or 2, on node lists that name dependencies first, the
\* scheduler of batches, sets and attempts does what its callers are promised.
THEOREM PromiseIsKept ==
  ASSUME Orderly
  PROVE  Spec => ImplementsPromise
<1>1. IInv /\ IInv' /\ OrderInv /\ OrderInv' /\ Alone /\ [Next]_vars
        => [Promise!Next]_Promise!absVars
  BY NextRefines
<1> QED
  BY <1>1, InitRefines, Invariance, OrderInvariance, AloneInvariance, PTL
     DEF Spec, ImplementsPromise, Promise!Spec

-----------------------------------------------------------------------------
(* What createTaskGraph computes: which graphs it accepts, and the order   *)
(* that WorkflowRuntime starts from.                                       *)

\* A set of naturals has a least element.
LEMMA LeastNumber ==
  ASSUME NEW S \in SUBSET Nat, S # {}
  PROVE  \E m \in S : \A k \in S : m <= k
<1> DEFINE Less == {ss \in Nat \X Nat : ss[1] < ss[2]}
<1>1. IsWellFoundedOn(Less, Nat)
  BY NatLessThanWellFounded DEF OpToRel
<1>2. PICK m \in S : \A k \in S : <<k, m>> \notin Less
  <2> HIDE DEF Less
  <2> QED BY <1>1, WFMin
<1>3. ASSUME NEW k \in S PROVE m <= k
  <2>1. k \in Nat /\ m \in Nat /\ ~ k < m
    BY <1>2
  <2> QED
    BY <2>1
<1> QED
  BY <1>3

\* The ids taken from the queue, all of them and those before the i-th.
Emitted(s) == {s[i] : i \in DOMAIN s}

EmittedBefore(s, i) == {s[j] : j \in 1 .. (i - 1)}

\* One iteration of Kahn's loop.
KahnStep(g, s) ==
  IF KahnReady(g, Emitted(s)) = {} THEN s ELSE Append(s, KahnHead(g, Emitted(s)))

\* Ids that the loop can have emitted, in this order.
KahnPrefix(g, s) ==
  /\ s \in Seq(Nodes(g))
  /\ \A i \in 1 .. Len(s) :
       /\ s[i] \in KahnReady(g, EmittedBefore(s, i))
       /\ \A m \in KahnReady(g, EmittedBefore(s, i)) : s[i] <= m

\* The head of a queue that is not empty is its least id.
LEMMA HeadIsLeast ==
  ASSUME NEW g, g.list \in Seq(Nat), NEW emitted, KahnReady(g, emitted) # {}
  PROVE  /\ KahnHead(g, emitted) \in KahnReady(g, emitted)
         /\ \A m \in KahnReady(g, emitted) : KahnHead(g, emitted) <= m
<1> DEFINE R == KahnReady(g, emitted)
<1>1. R \in SUBSET Nat /\ R # {}
  BY DEF KahnReady, Nodes
<1> HIDE DEF R
<1>2. \E n \in R : \A m \in R : n <= m
  BY <1>1, LeastNumber
<1>3. KahnHead(g, emitted) = CHOOSE n \in R : \A m \in R : n <= m
  BY DEF KahnHead, R
<1>4. KahnHead(g, emitted) \in R /\ \A m \in R : KahnHead(g, emitted) <= m
  BY <1>2, <1>3
<1> QED
  BY <1>4 DEF R

\* A number that each number up to b hands on.
LEMMA HandedOn ==
  ASSUME NEW b \in Nat, NEW S, 0 \in S, \A k \in 0 .. b : k < b /\ k \in S => k + 1 \in S
  PROVE  0 .. b \subseteq S
<1> DEFINE Wrong == {k \in 0 .. b : k \notin S}
<1> SUFFICES ASSUME Wrong # {} PROVE FALSE
  OBVIOUS
<1>1. PICK m \in Wrong : \A k \in Wrong : m <= k
  <2>1. Wrong \in SUBSET Nat
    OBVIOUS
  <2> HIDE DEF Wrong
  <2> QED
    BY <2>1, LeastNumber
<1>2. m # 0 /\ m \in 0 .. b
  OBVIOUS
<1>3. m - 1 \in 0 .. b /\ m - 1 < b /\ (m - 1) + 1 = m /\ m - 1 \notin Wrong
  BY <1>1, <1>2
<1>4. m - 1 \in S
  BY <1>3
<1>5. (m - 1) + 1 \in S
  BY <1>3, <1>4
<1> QED
  BY <1>3, <1>5

\* f begins with a and goes on n times as step says.
Repeats(f, a, step, n) == f[0] = a /\ \A d \in 1 .. n : f[d] = step[f[d - 1]]

\* There is a function that goes on as step says.
LEMMA Iterates ==
  ASSUME NEW n \in Nat, NEW S, NEW a \in S, NEW step \in [S -> S]
  PROVE  \E f \in [0 .. n -> S] : Repeats(f, a, step, n)
<1> DEFINE Right(m) == \E f \in [0 .. m -> S] : f[0] = a /\ \A d \in 1 .. m : f[d] = step[f[d - 1]]
<1>1. Right(0)
  <2>1. [d \in 0 .. 0 |-> a] \in [0 .. 0 -> S] /\ [d \in 0 .. 0 |-> a][0] = a
    OBVIOUS
  <2> WITNESS [d \in 0 .. 0 |-> a] \in [0 .. 0 -> S]
  <2> QED
    BY <2>1
<1>2. ASSUME NEW m \in Nat, Right(m) PROVE Right(m + 1)
  <2>1. PICK f \in [0 .. m -> S] : f[0] = a /\ \A d \in 1 .. m : f[d] = step[f[d - 1]]
    BY <1>2
  <2> DEFINE g == [d \in 0 .. m + 1 |-> IF d = m + 1 THEN step[f[m]] ELSE f[d]]
  <2>2. g \in [0 .. m + 1 -> S]
    OBVIOUS
  <2>3. g[0] = a
    BY <2>1
  <2>4. ASSUME NEW d \in 1 .. m + 1 PROVE g[d] = step[g[d - 1]]
    <3>1. CASE d = m + 1
      <4>1. g[d] = step[f[m]] /\ g[m] = f[m] /\ d - 1 = m
        BY <3>1
      <4> QED
        BY <4>1
    <3>2. CASE d # m + 1
      <4>1. d \in 1 .. m /\ g[d] = f[d] /\ g[d - 1] = f[d - 1]
        BY <3>2
      <4> QED
        BY <2>1, <4>1
    <3> QED
      BY <3>1, <3>2
  <2> HIDE DEF g
  <2> QED
    BY <2>2, <2>3, <2>4
<1> DEFINE Good == {m \in Nat : Right(m)}
<1> HIDE DEF Right
<1>3. 0 \in Good /\ \A k \in 0 .. n : k < n /\ k \in Good => k + 1 \in Good
  BY <1>1, <1>2
<1>4. 0 .. n \subseteq Good
  <2> HIDE DEF Good
  <2> QED
    BY <1>3, HandedOn
<1>5. Right(n)
  BY <1>4
<1> QED
  BY <1>5 DEF Right, Repeats

\* An iteration adds a node, or nothing.
LEMMA StepTyped ==
  ASSUME NEW g, g.list \in Seq(Nat), NEW s \in Seq(Nodes(g))
  PROVE  KahnStep(g, s) \in Seq(Nodes(g))
<1>1. KahnReady(g, Emitted(s)) \subseteq Nodes(g)
  BY DEF KahnReady
<1>2. CASE KahnReady(g, Emitted(s)) = {}
  BY <1>2 DEF KahnStep
<1>3. CASE KahnReady(g, Emitted(s)) # {}
  <2>1. KahnHead(g, Emitted(s)) \in Nodes(g)
    BY <1>1, <1>3, HeadIsLeast
  <2>2. KahnStep(g, s) = Append(s, KahnHead(g, Emitted(s)))
    BY <1>3 DEF KahnStep
  <2> QED
    BY <2>1, <2>2
<1> QED
  BY <1>2, <1>3

\* The order is what as many iterations as there are nodes make.
LEMMA OrderUnrolled ==
  ASSUME NEW g, g.list \in Seq(Nat)
  PROVE  \E f \in [0 .. Len(g.list) -> Seq(Nodes(g))] :
           /\ f[0] = <<>>
           /\ \A k \in 1 .. Len(g.list) : f[k] = KahnStep(g, f[k - 1])
           /\ TopologicalOrder(g) = f[Len(g.list)]
<1> DEFINE n == Len(g.list)
           S == Seq(Nodes(g))
           step == [s \in S |-> KahnStep(g, s)]
           Steps(f) == [k \in 0 .. Len(g.list) |->
                          IF k = 0 THEN <<>>
                          ELSE LET sofar   == f[k - 1]
                                   emitted == {sofar[i] : i \in DOMAIN sofar}
                               IN  IF KahnReady(g, emitted) = {} THEN sofar
                                   ELSE Append(sofar, KahnHead(g, emitted))]
           kahn == CHOOSE f : f = Steps(f)
<1>1. n \in Nat /\ <<>> \in S /\ step \in [S -> S]
  <2>1. \A s \in S : KahnStep(g, s) \in S
    BY StepTyped
  <2> QED
    BY <2>1
<1>2. PICK f \in [0 .. n -> S] : f[0] = <<>> /\ \A k \in 1 .. n : f[k] = step[f[k - 1]]
  <2> HIDE DEF n, S, step
  <2>1. \E f \in [0 .. n -> S] : Repeats(f, <<>>, step, n)
    BY <1>1, Iterates
  <2> QED
    BY <2>1 DEF Repeats
<1>3. ASSUME NEW k \in 0 .. n, k # 0, NEW h
      PROVE  Steps(h)[k] = KahnStep(g, h[k - 1])
  BY <1>3 DEF KahnStep, Emitted
<1>4. ASSUME NEW h PROVE Steps(h)[0] = <<>> /\ Steps(h) = [k \in 0 .. n |-> Steps(h)[k]]
  <2>1. 0 \in 0 .. n
    BY <1>1
  <2> QED
    BY <2>1
<1> HIDE DEF Steps
<1>5. f = Steps(f)
  <2>1. ASSUME NEW k \in 0 .. n PROVE f[k] = Steps(f)[k]
    <3>1. CASE k = 0
      BY <1>2, <1>4, <3>1
    <3>2. CASE k # 0
      <4>1. k \in 1 .. n /\ k - 1 \in 0 .. n
        BY <1>1, <3>2
      <4>2. f[k - 1] \in S
        BY <4>1
      <4>3. f[k] = KahnStep(g, f[k - 1])
        BY <1>2, <4>1, <4>2
      <4> QED
        BY <1>3, <3>2, <4>3
    <3> QED
      BY <3>1, <3>2
  <2>2. f = [k \in 0 .. n |-> f[k]]
    OBVIOUS
  <2> QED
    BY <1>4, <2>1, <2>2
<1>6. kahn = Steps(kahn)
  <2>1. \E h : h = Steps(h)
    BY <1>5
  <2> QED
    BY <2>1
<1>7. TopologicalOrder(g) = kahn[n]
  BY DEF TopologicalOrder, Steps
<1> HIDE DEF kahn
<1>8. kahn[0] = <<>> /\ kahn = [k \in 0 .. n |-> kahn[k]]
  BY <1>4, <1>6
<1>9. ASSUME NEW k \in 1 .. n PROVE kahn[k] = KahnStep(g, kahn[k - 1])
  <2>1. k \in 0 .. n /\ k # 0
    BY <1>1
  <2>2. Steps(kahn)[k] = KahnStep(g, kahn[k - 1])
    BY <1>3, <2>1
  <2> QED
    BY <1>6, <2>2
<1>10. \A k \in 0 .. n : kahn[k] \in S
  <2> DEFINE Good == {k \in 0 .. n : kahn[k] \in S}
  <2>1. 0 \in Good
    <3>1. 0 \in 0 .. n /\ kahn[0] \in S
      BY <1>1, <1>8
    <3> QED
      BY <3>1
  <2>2. \A k \in 0 .. n : k < n /\ k \in Good => k + 1 \in Good
    <3> SUFFICES ASSUME NEW k \in 0 .. n, k < n, k \in Good PROVE k + 1 \in Good
      OBVIOUS
    <3>1. k + 1 \in 1 .. n /\ (k + 1) - 1 = k
      BY <1>1
    <3>2. kahn[k + 1] = KahnStep(g, kahn[k])
      BY <1>9, <3>1
    <3> QED
      BY <3>1, <3>2, StepTyped
  <2>3. 0 .. n \subseteq Good
    <3> HIDE DEF Good
    <3> QED
      BY <1>1, <2>1, <2>2, HandedOn
  <2> QED
    BY <2>3
<1>11. kahn \in [0 .. n -> S]
  BY <1>8, <1>10
<1> QED
  BY <1>7, <1>8, <1>9, <1>11

\* What was emitted before the end is what was emitted.
LEMMA EmittedInTurn ==
  ASSUME NEW S, NEW s \in Seq(S), NEW x \in S
  PROVE  /\ Emitted(s) = EmittedBefore(s, Len(s) + 1)
         /\ Emitted(s) = EmittedBefore(Append(s, x), Len(s) + 1)
         /\ \A i \in 1 .. Len(s) : EmittedBefore(Append(s, x), i) = EmittedBefore(s, i)
<1> DEFINE t == Append(s, x)
<1>1. /\ Len(s) \in Nat /\ DOMAIN s = 1 .. Len(s)
      /\ \A i \in 1 .. Len(s) : t[i] = s[i]
  OBVIOUS
<1>2. (Len(s) + 1) - 1 = Len(s)
  BY <1>1
<1>3. Emitted(s) = EmittedBefore(s, Len(s) + 1)
  BY <1>1, <1>2 DEF Emitted, EmittedBefore
<1>4. ASSUME NEW i \in 1 .. Len(s) + 1
      PROVE  EmittedBefore(t, i) = EmittedBefore(s, i)
  <2>1. \A j \in 1 .. (i - 1) : j \in 1 .. Len(s)
    BY <1>1
  <2> HIDE DEF t
  <2> QED
    BY <1>1, <2>1 DEF EmittedBefore
<1>5. Len(s) + 1 \in 1 .. Len(s) + 1
  BY <1>1
<1>6. \A i \in 1 .. Len(s) : i \in 1 .. Len(s) + 1
  BY <1>1
<1> QED
  BY <1>3, <1>4, <1>5, <1>6

\* An iteration goes on as Kahn's queue does.
LEMMA PrefixGoesOn ==
  ASSUME NEW g, g.list \in Seq(Nat), NEW s, KahnPrefix(g, s)
  PROVE  KahnPrefix(g, KahnStep(g, s))
<1>1. s \in Seq(Nodes(g)) /\ Len(s) \in Nat
  BY DEF KahnPrefix
<1>2. CASE KahnReady(g, Emitted(s)) = {}
  BY <1>2 DEF KahnStep
<1>3. CASE KahnReady(g, Emitted(s)) # {}
  <2> DEFINE x == KahnHead(g, Emitted(s))
             t == Append(s, x)
  <2>1. x \in KahnReady(g, Emitted(s)) /\ \A m \in KahnReady(g, Emitted(s)) : x <= m
    BY <1>3, HeadIsLeast
  <2>2. x \in Nodes(g) /\ KahnStep(g, s) = t
    BY <1>3, <2>1 DEF KahnStep, KahnReady
  <2> HIDE DEF x
  <2>3. /\ t \in Seq(Nodes(g)) /\ Len(t) = Len(s) + 1 /\ t[Len(s) + 1] = x
        /\ \A i \in 1 .. Len(s) : t[i] = s[i]
    BY <1>1, <2>2
  <2>4. /\ Emitted(s) = EmittedBefore(t, Len(s) + 1)
        /\ \A i \in 1 .. Len(s) : EmittedBefore(t, i) = EmittedBefore(s, i)
    BY <1>1, <2>2, EmittedInTurn
  <2> HIDE DEF t
  <2>5. ASSUME NEW i \in 1 .. Len(t)
        PROVE  /\ t[i] \in KahnReady(g, EmittedBefore(t, i))
               /\ \A m \in KahnReady(g, EmittedBefore(t, i)) : t[i] <= m
    <3>1. CASE i = Len(s) + 1
      BY <2>1, <2>3, <2>4, <3>1
    <3>2. CASE i # Len(s) + 1
      <4>1. i \in 1 .. Len(s)
        BY <1>1, <2>3, <3>2
      <4> QED
        BY <2>3, <2>4, <4>1 DEF KahnPrefix
    <3> QED
      BY <3>1, <3>2
  <2> QED
    BY <2>2, <2>3, <2>5 DEF KahnPrefix
<1> QED
  BY <1>2, <1>3

\* The order is made so, and ends early only when the queue is empty.
LEMMA OrderIsPrefix ==
  ASSUME NEW g, g.list \in Seq(Nat)
  PROVE  /\ KahnPrefix(g, TopologicalOrder(g))
         /\ Len(TopologicalOrder(g)) <= Len(g.list)
         /\ Len(TopologicalOrder(g)) < Len(g.list)
              => KahnReady(g, Emitted(TopologicalOrder(g))) = {}
<1> DEFINE n == Len(g.list)
<1>1. n \in Nat
  OBVIOUS
<1>2. PICK f \in [0 .. n -> Seq(Nodes(g))] :
        /\ f[0] = <<>>
        /\ \A k \in 1 .. n : f[k] = KahnStep(g, f[k - 1])
        /\ TopologicalOrder(g) = f[n]
  BY OrderUnrolled
<1> HIDE DEF n
<1> DEFINE Right(k) == /\ KahnPrefix(g, f[k])
                       /\ Len(f[k]) <= k
                       /\ Len(f[k]) < k => KahnReady(g, Emitted(f[k])) = {}
           Good == {k \in 0 .. n : Right(k)}
<1>3. Right(0)
  BY <1>2 DEF KahnPrefix
<1>4. ASSUME NEW k \in 0 .. n, k < n, Right(k) PROVE Right(k + 1)
  <2>1. k + 1 \in 1 .. n /\ (k + 1) - 1 = k
    BY <1>1, <1>4
  <2>2. f[k + 1] = KahnStep(g, f[k])
    BY <1>2, <2>1
  <2>3. KahnPrefix(g, f[k + 1])
    BY <1>4, <2>2, PrefixGoesOn
  <2>4. f[k] \in Seq(Nodes(g)) /\ Len(f[k]) \in Nat
    BY <1>4 DEF KahnPrefix
  <2>5. CASE KahnReady(g, Emitted(f[k])) = {}
    <3>1. f[k + 1] = f[k]
      BY <2>2, <2>5 DEF KahnStep
    <3> QED
      BY <1>4, <2>3, <2>4, <2>5, <3>1
  <2>6. CASE KahnReady(g, Emitted(f[k])) # {}
    <3> DEFINE x == KahnHead(g, Emitted(f[k]))
    <3>1. Len(f[k]) = k
      BY <1>4, <2>4, <2>6
    <3>2. x \in Nodes(g) /\ f[k + 1] = Append(f[k], x)
      BY <2>2, <2>6, HeadIsLeast DEF KahnStep, KahnReady
    <3> HIDE DEF x
    <3>3. Len(f[k + 1]) = k + 1
      BY <2>4, <3>1, <3>2
    <3> QED
      BY <2>3, <3>3
  <2> QED
    BY <2>5, <2>6
<1> HIDE DEF Right
<1>5. 0 \in Good /\ \A k \in 0 .. n : k < n /\ k \in Good => k + 1 \in Good
  <2>1. 0 \in 0 .. n /\ \A k \in 0 .. n : k < n => k + 1 \in 0 .. n
    BY <1>1
  <2> QED
    BY <1>3, <1>4, <2>1
<1>6. 0 .. n \subseteq Good
  <2> HIDE DEF Good
  <2> QED
    BY <1>1, <1>5, HandedOn
<1>7. n \in 0 .. n
  BY <1>1
<1>8. Right(n)
  BY <1>6, <1>7
<1> QED
  BY <1>2, <1>8 DEF Right, n

\* A sequence without repetitions is as long as it has members.
LEMMA InjectiveCounts ==
  ASSUME NEW S, NEW s \in Seq(S), \A i, j \in 1 .. Len(s) : s[i] = s[j] => i = j
  PROVE  IsFiniteSet(Emitted(s)) /\ Cardinality(Emitted(s)) = Len(s)
<1> DEFINE n == Len(s)
<1>1. n \in Nat /\ s \in [1 .. n -> Emitted(s)] /\ DOMAIN s = 1 .. n
  BY DEF Emitted
<1>2. s \in Bijection(1 .. n, Emitted(s))
  BY <1>1 DEF Bijection, Injection, Surjection, IsInjective, Emitted
<1> HIDE DEF n
<1> QED
  BY <1>1, <1>2, FS_CountingElements, FS_NatBijection DEF ExistsBijection, n

\* No id is emitted twice, and a complete order emits them all.
LEMMA PrefixCounts ==
  ASSUME NEW g, g.list \in Seq(Nat), ~ NodeListRejected(g), NEW s, KahnPrefix(g, s)
  PROVE  /\ \A i, j \in 1 .. Len(s) : s[i] = s[j] => i = j
         /\ Emitted(s) \subseteq Nodes(g)
         /\ Len(s) = Len(g.list) <=> Emitted(s) = Nodes(g)
<1>1. s \in Seq(Nodes(g)) /\ Len(s) \in Nat /\ DOMAIN s = 1 .. Len(s)
  BY DEF KahnPrefix
<1>2. ASSUME NEW i \in 1 .. Len(s), NEW j \in 1 .. Len(s), i < j PROVE s[i] # s[j]
  <2>1. s[j] \notin EmittedBefore(s, j)
    BY DEF KahnPrefix, KahnReady
  <2>2. i \in 1 .. (j - 1)
    BY <1>1, <1>2
  <2> QED
    BY <2>1, <2>2 DEF EmittedBefore
<1>3. \A i, j \in 1 .. Len(s) : s[i] = s[j] => i = j
  BY <1>1, <1>2
<1>4. Cardinality(Emitted(s)) = Len(s)
  BY <1>1, <1>3, InjectiveCounts
<1>5. \A i, j \in 1 .. Len(g.list) : g.list[i] = g.list[j] => i = j
  BY DEF NodeListRejected
<1>6. IsFiniteSet(Nodes(g)) /\ Cardinality(Nodes(g)) = Len(g.list)
  BY <1>5, InjectiveCounts DEF Emitted, Nodes
<1>7. Emitted(s) \subseteq Nodes(g)
  BY <1>1 DEF Emitted
<1>8. Cardinality(Emitted(s)) = Cardinality(Nodes(g)) => Emitted(s) = Nodes(g)
  BY <1>6, <1>7, FS_Subset
<1> QED
  BY <1>3, <1>4, <1>6, <1>7, <1>8

\* Two such sequences agree as far as both go.
LEMMA PrefixesAgree ==
  ASSUME NEW g, g.list \in Seq(Nat), NEW s, KahnPrefix(g, s), NEW t, KahnPrefix(g, t),
         NEW k \in 1 .. Len(s), k \in 1 .. Len(t)
  PROVE  s[k] = t[k]
<1>1. /\ s \in Seq(Nat) /\ Len(s) \in Nat /\ t \in Seq(Nat) /\ Len(t) \in Nat
  <2>1. Nodes(g) \subseteq Nat
    BY DEF Nodes
  <2> QED
    BY <2>1 DEF KahnPrefix
<1> DEFINE Wrong == {i \in 1 .. Len(s) : i \in 1 .. Len(t) /\ s[i] # t[i]}
<1> SUFFICES ASSUME Wrong # {} PROVE FALSE
  OBVIOUS
<1>2. PICK i \in Wrong : \A j \in Wrong : i <= j
  <2>1. Wrong \in SUBSET Nat
    OBVIOUS
  <2> HIDE DEF Wrong
  <2> QED
    BY <2>1, LeastNumber
<1>3. i \in 1 .. Len(s) /\ i \in 1 .. Len(t) /\ s[i] # t[i]
  OBVIOUS
<1>4. \A j \in 1 .. (i - 1) : s[j] = t[j]
  <2> SUFFICES ASSUME NEW j \in 1 .. (i - 1), s[j] # t[j] PROVE FALSE
    OBVIOUS
  <2>1. j \in 1 .. Len(s) /\ j \in 1 .. Len(t) /\ ~ i <= j
    <3>1. Len(s) \in Nat /\ Len(t) \in Nat /\ i \in 1 .. Len(s) /\ i \in 1 .. Len(t)
      BY <1>1, <1>3
    <3> QED
      BY ONLY <3>1, j \in 1 .. (i - 1)
  <2> QED
    BY <1>2, <2>1
<1> HIDE DEF Wrong
<1>5. EmittedBefore(s, i) = EmittedBefore(t, i)
  BY <1>4 DEF EmittedBefore
<1>6. s[i] <= t[i] /\ t[i] <= s[i]
  BY <1>3, <1>5 DEF KahnPrefix
<1>7. s[i] \in Nat /\ t[i] \in Nat
  BY ONLY <1>1, <1>3
<1> QED
  BY <1>3, <1>6, <1>7

\* createTaskGraph of a list of nodes it does not reject: an order that Kahn's
\* queue produces exists exactly when the graph is accepted, and it is the one
\* that the loop computes (topologicalOrder of task-graph.mjs).
THEOREM KahnOrderIsComputed ==
  ASSUME NEW g, g.list \in Seq(Nat), ~ NodeListRejected(g),
         NEW o \in [1 .. Len(g.list) -> Nodes(g)]
  PROVE  IsKahnOrder(g, o) <=> CreateTaskGraphAccepts(g) /\ o = TopologicalOrder(g)
<1> DEFINE n == Len(g.list)
           T == TopologicalOrder(g)
<1>1. n \in Nat /\ DOMAIN o = 1 .. n /\ o \in Seq(Nodes(g)) /\ Len(o) = n
  OBVIOUS
<1>2. KahnPrefix(g, T) /\ Len(T) <= n /\ (Len(T) < n => KahnReady(g, Emitted(T)) = {})
  BY OrderIsPrefix
<1>3. T \in Seq(Nodes(g)) /\ Len(T) \in Nat /\ DOMAIN T = 1 .. Len(T)
  BY <1>2 DEF KahnPrefix
<1>4. CreateTaskGraphAccepts(g) <=> Len(T) = n
  BY DEF CreateTaskGraphAccepts
<1>5. ASSUME NEW s, s \in Seq(Nodes(g)), Len(s) = n
      PROVE  IsKahnOrder(g, s) <=> KahnPrefix(g, s) /\ Emitted(s) = Nodes(g)
  <2>1. DOMAIN s = 1 .. Len(s)
    BY <1>5
  <2> QED
    BY <1>5, <2>1 DEF IsKahnOrder, KahnPrefix, Emitted, EmittedBefore
<1> HIDE DEF n, T
<1>6. ASSUME IsKahnOrder(g, o) PROVE Len(T) = n /\ o = T
  <2>1. KahnPrefix(g, o)
    BY <1>1, <1>5, <1>6
  <2>2. \A k \in 1 .. Len(T) : k \in 1 .. Len(o) /\ T[k] = o[k]
    BY <1>1, <1>2, <1>3, <2>1, PrefixesAgree
  <2>3. Len(T) = n
    <3>4. n \in Nat /\ Len(T) \in Nat /\ Len(T) <= n
      BY <1>1, <1>2, <1>3
    <3>5. Len(T) = n \/ Len(T) < n
      BY ONLY <3>4
    <3> SUFFICES ASSUME Len(T) < n PROVE FALSE
      BY <3>5
    <3> DEFINE i == Len(T) + 1
    <3>1. i \in 1 .. Len(o) /\ i - 1 = Len(T)
      BY <1>1, <1>3
    <3>2. o[i] \in KahnReady(g, EmittedBefore(o, i))
      BY <2>1, <3>1 DEF KahnPrefix
    <3>3. EmittedBefore(o, i) = Emitted(T)
      BY <1>3, <2>2, <3>1 DEF EmittedBefore, Emitted
    <3> QED
      BY <1>2, <3>2, <3>3
  <2> QED
    BY <1>1, <1>3, <2>2, <2>3
<1>7. ASSUME Len(T) = n PROVE IsKahnOrder(g, T)
  <2>1. Emitted(T) = Nodes(g)
    BY <1>2, <1>7, PrefixCounts DEF n
  <2> QED
    BY <1>2, <1>3, <1>5, <1>7, <2>1
<1> QED
  BY <1>4, <1>6, <1>7 DEF T

\* createTaskGraph accepts a list of nodes it does not reject exactly when no
\* node waits for itself: every set of nodes has one that depends on no other.
THEOREM CyclesAreRefused ==
  ASSUME NEW g, g.list \in Seq(Nat), ~ NodeListRejected(g)
  PROVE  CreateTaskGraphAccepts(g)
           <=> \A S \in SUBSET Nodes(g) : S # {} => \E n \in S : g.deps[n] \cap S = {}
<1> DEFINE T == TopologicalOrder(g)
<1>1. KahnPrefix(g, T) /\ Len(T) <= Len(g.list)
      /\ (Len(T) < Len(g.list) => KahnReady(g, Emitted(T)) = {})
  BY OrderIsPrefix
<1>2. T \in Seq(Nodes(g)) /\ Len(T) \in Nat /\ DOMAIN T = 1 .. Len(T) /\ Len(g.list) \in Nat
  BY <1>1 DEF KahnPrefix
<1>3. CreateTaskGraphAccepts(g) <=> Len(T) = Len(g.list)
  BY DEF CreateTaskGraphAccepts
<1> HIDE DEF T
<1>4. Emitted(T) \subseteq Nodes(g) /\ (Len(T) = Len(g.list) <=> Emitted(T) = Nodes(g))
  BY <1>1, PrefixCounts
<1>5. ASSUME Emitted(T) = Nodes(g), NEW S \in SUBSET Nodes(g), S # {}
      PROVE  \E n \in S : g.deps[n] \cap S = {}
  <2> DEFINE Places == {i \in 1 .. Len(T) : T[i] \in S}
  <2>1. Places \in SUBSET Nat /\ Places # {}
    BY <1>2, <1>5 DEF Emitted
  <2>2. PICK i \in Places : \A j \in Places : i <= j
    <3> HIDE DEF Places
    <3> QED
      BY <2>1, LeastNumber
  <2>3. i \in 1 .. Len(T) /\ T[i] \in S
    OBVIOUS
  <2>4. g.deps[T[i]] \subseteq EmittedBefore(T, i)
    BY <1>1, <2>3 DEF KahnPrefix, KahnReady
  <2>5. ASSUME NEW j \in 1 .. (i - 1) PROVE T[j] \notin S
    <3>1. j \in 1 .. Len(T) /\ ~ i <= j
      <4>1. i \in 1 .. Len(T) /\ Len(T) \in Nat
        BY <1>2, <2>3
      <4> QED
        BY ONLY <4>1, j \in 1 .. (i - 1)
    <3> QED
      BY <2>2, <3>1
  <2>6. g.deps[T[i]] \cap S = {}
    BY <2>4, <2>5 DEF EmittedBefore
  <2> QED
    BY <2>3, <2>6
<1>6. ASSUME Emitted(T) # Nodes(g)
      PROVE  \E S \in SUBSET Nodes(g) : S # {} /\ \A n \in S : g.deps[n] \cap S # {}
  <2> DEFINE S == Nodes(g) \ Emitted(T)
  <2>1. S \in SUBSET Nodes(g) /\ S # {}
    BY <1>4, <1>6
  <2>2. KahnReady(g, Emitted(T)) = {}
    BY <1>1, <1>2, <1>4, <1>6
  <2>3. ASSUME NEW n \in S PROVE g.deps[n] \cap S # {}
    <3>1. g.deps[n] \subseteq Nodes(g)
      BY DEF NodeListRejected
    <3>2. ~ g.deps[n] \subseteq Emitted(T)
      BY <2>2 DEF KahnReady
    <3> QED
      BY <3>1, <3>2
  <2> QED
    BY <2>1, <2>3
<1> QED
  BY <1>3, <1>4, <1>5, <1>6

\* executeWorkflow starts from a graph that createTaskGraph accepts, and the
\* order it keeps is the one computed there.
THEOREM StartsFromComputedOrder ==
  Init => CreateTaskGraphAccepts(graph) /\ order = TopologicalOrder(graph)
<1> SUFFICES ASSUME Init PROVE CreateTaskGraphAccepts(graph) /\ order = TopologicalOrder(graph)
  OBVIOUS
<1>1. IsGraph(graph) /\ order \in [1 .. Len(graph.list) -> Nodes(graph)] /\ IsKahnOrder(graph, order)
  BY GraphAssumption DEF Init
<1>2. graph.list \in Seq(Nat) /\ graph.list \in Seq(Node) /\ Nodes(graph) \subseteq Node
  <2>1. Node \subseteq Nat /\ graph.list \in Seq(Node)
    BY <1>1, NodeAssumption DEF IsGraph
  <2>2. graph.list \in Seq(Nat)
    BY <2>1, SeqMonotonic
  <2>3. Nodes(graph) \subseteq Node
    BY <1>1, NodesOfGraph
  <2> QED
    BY <2>1, <2>2, <2>3
<1>3. ASSUME NEW n \in Nodes(graph)
      PROVE  n \notin graph.deps[n] /\ graph.deps[n] \subseteq Nodes(graph)
  <2>1. PICK i \in DOMAIN order : order[i] = n
    BY <1>1 DEF IsKahnOrder
  <2>2. n \in KahnReady(graph, {order[j] : j \in 1 .. (i - 1)})
    BY <1>1, <2>1 DEF IsKahnOrder
  <2>3. {order[j] : j \in 1 .. (i - 1)} \subseteq Nodes(graph)
    <3>1. \A j \in 1 .. (i - 1) : j \in 1 .. Len(graph.list)
      BY <1>1, <1>2
    <3> QED
      BY <1>1, <3>1
  <2> QED
    BY <2>2, <2>3 DEF KahnReady
<1>4. \A n \in Nodes(graph) : ~ graph.maxAttempts[n] < 1
  BY <1>1, <1>2 DEF IsGraph
<1>5. \A i, j \in DOMAIN graph.list : ~ (i # j /\ graph.list[i] = graph.list[j])
  BY <1>1 DEF IsGraph
<1>6. ~ NodeListRejected(graph)
  BY <1>3, <1>4, <1>5 DEF NodeListRejected
<1> QED
  BY <1>1, <1>2, <1>6, KahnOrderIsComputed
=============================================================================
