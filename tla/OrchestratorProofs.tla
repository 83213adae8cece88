-------------------------- MODULE OrchestratorProofs --------------------------
(***************************************************************************)
(* Safety of Orchestrator for every set of graphs, every replacement and   *)
(* every concurrency.  Every step of runGraph and runNode is a step of the *)
(* scheduler or leaves it alone, so the scheduler's invariant carries      *)
(* over; on top of it come the worktrees, the stages of runGraph, and what *)
(* the candidates owe to the nodes they come from.                         *)
(***************************************************************************)
EXTENDS Orchestrator, WorkflowRuntimeProofs

OTypes ==
  /\ expired \in BOOLEAN
  /\ late \subseteq Node
  /\ worker \in [Node -> {"called", "skipped", "creating", "working"}]
  /\ made \in [Node -> Nat]
  /\ worktrees \subseteq Node \X (Nat \ {0})
  /\ sandboxes \in [Node -> Nat]
  /\ left \in [Node -> {"nothing", "edits"}]
  /\ workedIn \subseteq Node \X (Nat \ {0})
  /\ reused \subseteq Node
  /\ stage \in {"executing", "collecting", "submitting", "settled"}
  /\ candidates \in Seq(Node \X Nat)
  /\ submitted \subseteq Node \X Nat

\* The graphs in play: the order belongs to the graph the run was called
\* with, and only a replan brings another one in force.
GraphsKnown ==
  /\ \E g \in Graphs : Nodes(g) = {order[i] : i \in DOMAIN order}
  /\ ~ replanUsed => graph \in Graphs

\* Only an attempt under way has a worker, an agent at work has a worktree, and
\* until its entry is collected a node's sandbox is the last worktree made for
\* it, and one that has succeeded did so there or reused a stage.
Workers ==
  /\ \A n \in Node : worker[n] # "called" => status[n] = "RUNNING"
  /\ \A n \in Node : worker[n] = "working" => made[n] # 0
  /\ \A n \in Node \ collected : sandboxes[n] = made[n]
  /\ \A n \in Node \ collected :
       status[n] = "SUCCEEDED" => <<n, made[n]>> \in workedIn \/ n \in reused

\* What was late at the deadline has no attempt under way, and no success.
Lateness ==
  /\ late # {} => expired
  /\ \A n \in late : worker[n] = "called" /\ status[n] # "SUCCEEDED"

\* Past the gate, all the work has succeeded and nothing runs any more.
Stages ==
  /\ stage # "executing" => pc \in {"returned", "rejected"}
  /\ stage \in {"collecting", "submitting"} \/ candidates # <<>> \/ submitted # {} =>
       pc = "returned" /\ \A n \in Nodes(graph) : status[n] = "SUCCEEDED"
  /\ stage = "executing" => collected = {} /\ candidates = <<>>
  /\ stage = "submitting" => Uncollected = {} /\ submitted # {}
  /\ stage \in {"executing", "collecting"} => submitted = {}
  /\ stage # "settled" => answer = "none" /\ finalStatus = "NONE"

\* A worktree that belongs to the last attempt for a node, and holds edits.
Earned(w) ==
  /\ w[1] \in Nodes(graph) \cap collected
  /\ w[2] = made[w[1]]
  /\ left[w[1]] = "edits"
  /\ w \in workedIn \/ w[1] \in reused

Candidacy ==
  /\ \A i \in DOMAIN candidates : Earned(candidates[i])
  /\ \A w \in submitted : Earned(w)

\* The entries collected so far gave up their edits.
Gathered ==
  stage \in {"collecting", "submitting"} =>
    \A n \in collected \ reused :
      left[n] = "edits" => \E i \in DOMAIN candidates : candidates[i] = <<n, made[n]>>

OInv ==
  /\ IInv
  /\ OTypes
  /\ GraphsKnown
  /\ Workers
  /\ Lateness
  /\ Stages
  /\ Candidacy
  /\ Gathered

-----------------------------------------------------------------------------
\* A node of a graph has a position in its list.
LEMMA PositionOfNode ==
  ASSUME NEW g, IsGraph(g), NEW n \in Nodes(g)
  PROVE  Position(g, n) \in Nat
BY DEF IsGraph, Nodes, Position

\* The loop over the report's entries takes one it has not yet taken.
LEMMA NextEntryUncollected ==
  ASSUME IInv, GraphsKnown, Uncollected # {}
  PROVE  NextEntry \in Uncollected
<1>1. Planned \in Graphs /\ IsGraph(Planned) /\ IsGraph(graph)
  BY GraphAssumption DEF Planned, GraphsKnown, IInv, TypeOK
<1>2. Len(Planned.list) \in Nat
  BY <1>1 DEF IsGraph
<1>3. ASSUME NEW n \in Uncollected PROVE EntryPlace(n) \in Nat
  <2>1. CASE n \in Nodes(Planned)
    BY <1>1, <2>1, PositionOfNode DEF EntryPlace
  <2>2. CASE n \notin Nodes(Planned)
    <3>1. Position(graph, n) \in Nat
      BY <1>1, <1>3, PositionOfNode DEF Uncollected
    <3> QED
      BY <1>2, <2>2, <3>1 DEF EntryPlace
  <2> QED
    BY <2>1, <2>2
<1> DEFINE Places == {EntryPlace(n) : n \in Uncollected}
<1>4. PICK k \in Places : \A l \in Places : k <= l
  <2>1. Places \subseteq Nat /\ Places # {}
    BY <1>3
  <2> HIDE DEF Places
  <2> QED
    BY <2>1, LeastNumber
<1>5. \E n \in Uncollected : \A m \in Uncollected : EntryPlace(n) <= EntryPlace(m)
  BY <1>4
<1> QED
  BY <1>5 DEF NextEntry

\* What the scheduler does to the graphs, and that its end is the end.
LEMMA SchedulerEnds ==
  ASSUME IInv, [Next]_vars
  PROVE  /\ order' = order
         /\ ~ replanUsed' => ~ replanUsed /\ graph' = graph
         /\ pc = "returned" => UNCHANGED vars
         /\ pc = "rejected" => pc' = "rejected"
<1>1. CASE LoopStep
  BY <1>1 DEF LoopStep, StartBatch, SettleBatch, Replan, ReplanRejected, Return
<1>2. ASSUME NEW n \in Node, NodeStep(n)
      PROVE  /\ order' = order
             /\ replanUsed' = replanUsed /\ graph' = graph
             /\ pc # "returned"
             /\ pc' \in {pc, "rejected"}
  <2>1. n \in inflight
    BY <1>2 DEF IInv, Agreement, NodeStep, AttemptSucceeds, AttemptFails, Retry, FallBack,
                GiveUp, FallBackThrows, AwaitsRetry
  <2>2. pc # "returned"
    BY <2>1 DEF IInv, Agreement
  <2> QED
    BY <1>2, <2>2 DEF NodeStep, AttemptSucceeds, AttemptFails, Retry, FallBack, GiveUp,
                      FallBackThrows
<1>3. CASE UNCHANGED vars
  BY <1>3 DEF vars
<1> QED
  BY <1>1, <1>2, <1>3 DEF Next

\* The loop leaves a running node running, and makes no node succeed.
LEMMA ScheduleKeepsRunning ==
  ASSUME IInv, Schedule, NEW m \in Node
  PROVE  /\ status[m] = "RUNNING" => status'[m] = "RUNNING"
         /\ status'[m] = "SUCCEEDED" => status[m] = "SUCCEEDED"
<1>1. /\ status \in [Node -> Statuses]
      /\ status[m] = "RUNNING" => m \in inflight /\ pc # "schedule"
  BY DEF IInv, TypeOK, Agreement
<1>2. CASE SettleBatch
  BY <1>1, <1>2 DEF SettleBatch
<1>3. ASSUME NEW g \in Replacements, Replan(g)
      PROVE  status'[m] = "SUCCEEDED" => status[m] = "SUCCEEDED"
  BY <1>1, <1>3 DEF Replan, Reused
<1>4. CASE StartBatch \/ Return \/ \E g \in Replacements : ReplanRejected(g)
  BY <1>1, <1>4 DEF StartBatch, RunOne, Return, ReplanRejected
<1>5. ASSUME NEW n \in Node, Retry(n) \/ FallBack(n) \/ GiveUp(n) \/ FallBackThrows(n)
      PROVE  /\ status[m] = "RUNNING" => status'[m] = "RUNNING"
             /\ status'[m] = "SUCCEEDED" => status[m] = "SUCCEEDED"
  BY <1>1, <1>5 DEF Retry, FallBack, GiveUp, FallBackThrows, RunOne
<1>6. ASSUME NEW g \in Replacements, Replan(g)
      PROVE  status[m] # "RUNNING"
  BY <1>1, <1>6 DEF Replan
<1> QED
  BY <1>2, <1>3, <1>4, <1>5, <1>6 DEF Schedule, LoopStep

\* Every step of the orchestrator is one of the scheduler, or leaves it alone.
LEMMA ONextIsNext == ONext => [Next]_vars
<1> SUFFICES ASSUME ONext PROVE [Next]_vars
  OBVIOUS
<1>1. CASE DeadlinePasses
  BY <1>1 DEF DeadlinePasses
<1>2. CASE Schedule
  BY <1>2 DEF Schedule, Next, NodeStep
<1>3. CASE RunGraphStep
  BY <1>3 DEF RunGraphStep, ExecutionRejected, FailClosed, StartCollecting, Collect,
              CollectThrows, CollectFindsNoSandbox, NoCandidates, AwaitApproval, DigestMismatch, Submit, RuntimeAnswers,
              RuntimeFails
<1>4. ASSUME NEW n \in Node, RunNodeStep(n)
      PROVE  [Next]_vars
  BY <1>4 DEF RunNodeStep, EnterNode, SandboxCreated, NodeSucceeds, NodeFails, Next, NodeStep
<1> QED
  BY <1>1, <1>2, <1>3, <1>4 DEF ONext

-----------------------------------------------------------------------------
\* The invariant holds at first.
LEMMA InitOInv == OInit => OInv
<1> SUFFICES ASSUME OInit PROVE OInv
  OBVIOUS
<1> USE DEF OInit
<1>1. IInv
  BY InitIInv
<1>2. OTypes
  <2>1. candidates \in Seq(Node \X Nat)
    OBVIOUS
  <2> QED
    BY <2>1, Zenon DEF OTypes
<1>3. GraphsKnown
  BY DEF GraphsKnown, Init, IsKahnOrder
<1>4. Workers
  BY DEF Workers, Init
<1>5. Stages
  BY DEF Stages
<1>6. Candidacy
  BY DEF Candidacy
<1>7. Gathered
  BY DEF Gathered
<1>8. Lateness
  BY DEF Lateness
<1> QED
  BY <1>1, <1>2, <1>3, <1>4, <1>5, <1>6, <1>7, <1>8 DEF OInv

\* The part of the invariant that is the scheduler's own.
LEMMA SchedulerPart ==
  ASSUME OInv, [ONext]_allVars
  PROVE  IInv' /\ GraphsKnown'
<1>1. [Next]_vars
  BY ONextIsNext DEF allVars
<1>2. IInv'
  BY <1>1, NextIInv DEF OInv
<1>3. GraphsKnown'
  BY <1>1, SchedulerEnds DEF OInv, GraphsKnown
<1> QED
  BY <1>2, <1>3

\* Schedule keeps the invariant.
LEMMA ScheduleOInv == OInv /\ Schedule => OInv'
<1> SUFFICES ASSUME OInv, Schedule PROVE OInv'
  OBVIOUS
<1> USE DEF OInv
<1>1. UNCHANGED orchVars /\ [Next]_vars
  BY ONextIsNext DEF Schedule, ONext
<1>2. IInv' /\ GraphsKnown'
  BY SchedulerPart DEF ONext
<1>3. OTypes'
  BY <1>1 DEF orchVars, nodeVars, graphVars, OTypes
<1>4. Workers'
  BY <1>1, ScheduleKeepsRunning DEF orchVars, nodeVars, graphVars, Workers
<1>5. Lateness'
  BY <1>1, ScheduleKeepsRunning DEF orchVars, nodeVars, graphVars, Lateness, OTypes
<1>6. Gathered'
  BY <1>1 DEF orchVars, nodeVars, graphVars, Gathered
<1>7. CASE pc = "returned"
  <2>1. UNCHANGED vars
    BY <1>1, <1>7, SchedulerEnds
  <2> QED
    BY <1>1, <1>2, <1>3, <1>4, <1>5, <1>6, <2>1
       DEF orchVars, nodeVars, graphVars, vars, Stages, Candidacy, Earned, Uncollected
<1>8. CASE pc # "returned"
  <2>1. /\ stage \in {"executing", "settled"} /\ candidates = <<>> /\ submitted = {}
        /\ stage = "settled" => pc = "rejected"
    BY <1>8 DEF Stages, OTypes
  <2>2. stage = "settled" => pc' = "rejected"
    BY <1>1, <2>1, SchedulerEnds
  <2>3. Stages'
    BY <1>1, <2>1, <2>2 DEF orchVars, graphVars, Stages
  <2>4. Candidacy'
    BY <1>1, <2>1 DEF orchVars, graphVars, Candidacy
  <2> QED
    BY <1>2, <1>3, <1>4, <1>5, <1>6, <2>3, <2>4
<1> QED
  BY <1>7, <1>8

\* The end of an attempt keeps the invariant.
LEMMA AttemptEndsOInv ==
  ASSUME OInv, NEW n \in Node, NodeSucceeds(n) \/ NodeFails(n)
  PROVE  OInv'
<1> USE DEF OInv
<1>1. status[n] = "RUNNING" /\ pc' = pc /\ graph' = graph
  BY DEF NodeSucceeds, NodeFails, AttemptSucceeds, AttemptFails
<1>2. pc # "returned"
  BY <1>1 DEF IInv, Agreement
<1>3. IInv' /\ GraphsKnown'
  BY SchedulerPart DEF ONext, RunNodeStep
<1>4. /\ UNCHANGED <<expired, late, made, worktrees, sandboxes, stage, collected, candidates,
                     submitted, answer, finalStatus>>
      /\ worker' = [worker EXCEPT ![n] = "called"]
      /\ left' \in [Node -> {"nothing", "edits"}]
  BY DEF NodeSucceeds, NodeFails, MayBeLeft, graphVars, OTypes
<1>5. /\ workedIn' \subseteq Node \X (Nat \ {0})
      /\ reused' \subseteq Node
      /\ \A m \in Node \ {n}, k \in Nat :
           /\ <<m, k>> \in workedIn => <<m, k>> \in workedIn'
           /\ m \in reused => m \in reused'
      /\ status'[n] = "SUCCEEDED" => <<n, made[n]>> \in workedIn' \/ n \in reused'
  <2>1. CASE NodeSucceeds(n)
    <3>1. worker[n] = "working" => made[n] \in Nat \ {0}
      BY DEF Workers, OTypes
    <3> QED
      BY <2>1, <3>1 DEF NodeSucceeds, OTypes
  <2>2. CASE NodeFails(n)
    <3>1. status'[n] = "FAILED"
      BY <2>2 DEF NodeFails, AttemptFails, IInv, TypeOK
    <3> QED
      BY <2>2, <3>1 DEF NodeFails, OTypes
  <2> QED
    BY <2>1, <2>2
<1>6. OTypes'
  BY <1>4, <1>5 DEF OTypes
<1>7. \A m \in Node \ {n} : status'[m] = status[m]
  BY DEF NodeSucceeds, NodeFails, AttemptSucceeds, AttemptFails, IInv, TypeOK
<1>8. Workers'
  <2>1. \A m \in Node : made[m] \in Nat /\ worker'[m] # "called" => m # n /\ worker[m] # "called"
    BY <1>4 DEF OTypes
  <2>2. \A m \in Node \ {n} : worker'[m] = worker[m] /\ made[m] \in Nat
    BY <1>4 DEF OTypes
  <2>3. worker'[n] = "called"
    BY <1>4 DEF OTypes
  <2> QED
    BY <1>4, <1>5, <1>7, <2>1, <2>2, <2>3 DEF Workers
<1>9. Lateness'
  <2>1. n \in late => NodeFails(n)
    BY DEF NodeSucceeds, Lateness
  <2>2. NodeFails(n) => status'[n] = "FAILED"
    BY DEF NodeFails, AttemptFails, IInv, TypeOK
  <2> QED
    BY <1>4, <1>7, <2>1, <2>2 DEF Lateness, OTypes
<1>10. stage \in {"executing", "settled"} /\ candidates = <<>> /\ submitted = {}
  BY <1>2 DEF Stages, OTypes
<1>11. Stages'
  BY <1>1, <1>4, <1>10 DEF Stages
<1>12. Candidacy' /\ Gathered'
  BY <1>4, <1>10 DEF Candidacy, Gathered
<1> QED
  BY <1>3, <1>6, <1>8, <1>9, <1>11, <1>12

\* The beginning of an attempt keeps it.
LEMMA AttemptGoesOnOInv ==
  ASSUME OInv, NEW n \in Node, EnterNode(n) \/ SandboxCreated(n)
  PROVE  OInv'
<1> USE DEF OInv
<1>1. status[n] = "RUNNING"
  BY DEF EnterNode, SandboxCreated, Workers
<1>2. pc # "returned"
  BY <1>1 DEF IInv, Agreement
<1>3. IInv' /\ GraphsKnown'
  BY SchedulerPart DEF ONext, RunNodeStep
<1>4. UNCHANGED <<vars, expired, late, workedIn, reused, stage, collected, candidates,
                  submitted, answer, finalStatus>>
  BY DEF EnterNode, SandboxCreated, graphVars
<1>5. OTypes' /\ Workers' /\ Lateness'
  <2>1. CASE EnterNode(n)
    BY <1>1, <1>4, <2>1 DEF OTypes, Workers, Lateness, EnterNode, vars
  <2>2. CASE SandboxCreated(n)
    <3>1. /\ made' \in [Node -> Nat] /\ made'[n] \in Nat \ {0}
          /\ sandboxes' \in [Node -> Nat]
          /\ sandboxes'[n] = made'[n]
          /\ \A m \in Node \ {n} : sandboxes'[m] = sandboxes[m] /\ made'[m] = made[m]
          /\ worker'[n] = "working" /\ \A m \in Node \ {n} : worker'[m] = worker[m]
          /\ n \notin late
      BY <2>2 DEF OTypes, SandboxCreated, Lateness
    <3>2. worktrees' \subseteq Node \X (Nat \ {0})
      BY <2>2, <3>1 DEF OTypes, SandboxCreated
    <3>3. OTypes'
      BY <1>4, <2>2, <3>1, <3>2 DEF OTypes, SandboxCreated
    <3>4. Workers'
      BY <1>1, <1>4, <3>1 DEF Workers, vars
    <3>5. Lateness'
      BY <1>4, <3>1 DEF Lateness, OTypes, vars
    <3> QED
      BY <3>3, <3>4, <3>5
  <2> QED
    BY <2>1, <2>2
<1>7. stage \in {"executing", "settled"} /\ candidates = <<>> /\ submitted = {}
  BY <1>2 DEF Stages, OTypes
<1>8. Stages'
  BY <1>4, <1>7 DEF Stages, vars
<1>9. Candidacy' /\ Gathered'
  BY <1>4, <1>7 DEF Candidacy, Gathered
<1> QED
  BY <1>3, <1>5, <1>8, <1>9

\* The gates after the execution keep it, and so does the deadline.
LEMMA GateOInv ==
  ASSUME OInv, DeadlinePasses \/ ExecutionRejected \/ FailClosed \/ StartCollecting
  PROVE  OInv'
<1> USE DEF OInv
<1>1. IInv' /\ GraphsKnown'
  BY SchedulerPart DEF ONext, RunGraphStep
<1>2. UNCHANGED <<vars, worker, made, worktrees, sandboxes, left, workedIn, reused,
                  collected, candidates, submitted, answer>>
  BY DEF DeadlinePasses, ExecutionRejected, FailClosed, StartCollecting, nodeVars, graphVars
<1>3. OTypes'
  BY <1>2 DEF OTypes, DeadlinePasses, ExecutionRejected, FailClosed, StartCollecting,
              nodeVars, graphVars
<1>4. Workers'
  BY <1>2 DEF Workers, vars
<1>5. Lateness'
  BY <1>2 DEF Lateness, DeadlinePasses, ExecutionRejected, FailClosed, StartCollecting, vars
<1>6. Stages'
  <2>1. CASE StartCollecting
    <3>1. \A n \in Nodes(graph) : status[n] = "SUCCEEDED"
      BY <2>1, ReportIsHonest DEF StartCollecting, ReportHonest
    <3> QED
      BY <1>2, <2>1, <3>1 DEF Stages, StartCollecting, vars
  <2>2. CASE DeadlinePasses
    BY <1>2, <2>2 DEF Stages, DeadlinePasses, vars, graphVars, Uncollected
  <2>3. CASE ExecutionRejected \/ FailClosed
    BY <1>2, <2>3 DEF Stages, ExecutionRejected, FailClosed, vars
  <2> QED
    BY <2>1, <2>2, <2>3
<1>7. Candidacy'
  BY <1>2 DEF Candidacy, Earned, vars
<1>8. Gathered'
  BY <1>2 DEF Gathered, Stages, DeadlinePasses, ExecutionRejected, FailClosed,
              StartCollecting, graphVars
<1> QED
  BY <1>1, <1>3, <1>4, <1>5, <1>6, <1>7, <1>8

\* What the cleanup of an entry leaves of the worktrees' records.
LEMMA CleanUpKeeps ==
  ASSUME OInv, NEW n \in Node \ collected, CleanUp(n)
  PROVE  /\ collected' = collected \cup {n}
         /\ made' \in [Node -> Nat] /\ sandboxes' \in [Node -> Nat]
         /\ worktrees' \subseteq Node \X (Nat \ {0})
         /\ \A m \in Node \ {n} : made'[m] = made[m] /\ sandboxes'[m] = sandboxes[m]
         /\ made[n] # 0 => made'[n] = made[n] /\ SandboxOf(n) = made[n]
         /\ made'[n] # 0
<1> USE DEF OInv, OTypes
<1>1. sandboxes[n] = made[n] /\ made[n] \in Nat
  BY DEF Workers
<1>2. SandboxOf(n) \in Nat \ {0}
  BY <1>1 DEF SandboxOf
<1>3. worktrees' \subseteq Node \X (Nat \ {0})
  BY <1>2 DEF CleanUp
<1> QED
  BY <1>1, <1>3 DEF CleanUp, SandboxOf

\* Whatever an entry's turn in the collecting loop does to the worktrees, what
\* candidates and other nodes are owed stands.
LEMMA CleanUpOInv ==
  ASSUME OInv, NEW n \in Nodes(graph) \ collected, CleanUp(n),
         UNCHANGED <<vars, expired, late, worker, left, workedIn, reused, submitted>>
  PROVE  /\ Workers' /\ Lateness'
         /\ \A w : Earned(w) => Earned(w)'
<1> USE DEF OInv
<1>1. n \in Node /\ Nodes(graph) \subseteq Node
  BY GraphAssumption, NodesOfGraph DEF IInv, TypeOK
<1>2. /\ collected' = collected \cup {n}
      /\ \A m \in Node \ {n} : made'[m] = made[m] /\ sandboxes'[m] = sandboxes[m]
      /\ made'[n] # 0
  BY <1>1, CleanUpKeeps
<1>3. Workers'
  BY <1>2 DEF Workers, vars
<1>4. Lateness'
  BY DEF Lateness, vars
<1>5. ASSUME NEW w, Earned(w)
      PROVE  Earned(w)'
  BY <1>1, <1>2, <1>5 DEF Earned, vars
<1> QED
  BY <1>3, <1>4, <1>5

\* Collect keeps the invariant.
LEMMA CollectOInv == OInv /\ Collect => OInv'
<1> SUFFICES ASSUME OInv, Collect PROVE OInv'
  OBVIOUS
<1> USE DEF OInv
<1> DEFINE n == NextEntry
<1>1. n \in Uncollected
  BY NextEntryUncollected DEF Collect
<1>2. /\ stage = "collecting" /\ submitted = {} /\ answer = "none" /\ finalStatus = "NONE"
      /\ pc = "returned" /\ \A m \in Nodes(graph) : status[m] = "SUCCEEDED"
  BY DEF Collect, Stages
<1>3. n \in Nodes(graph) /\ n \in Node /\ n \notin collected /\ status[n] = "SUCCEEDED"
  BY <1>1, <1>2, GraphAssumption, NodesOfGraph DEF Uncollected, IInv, TypeOK
<1>4. sandboxes[n] = made[n] /\ sandboxes[n] \in Nat
  BY <1>3 DEF Workers, OTypes
<1>5. /\ UNCHANGED <<vars, expired, late, worker, left, workedIn, reused, stage, submitted,
                     answer, finalStatus>>
      /\ CleanUp(n)
      /\ candidates' = IF ChangeOf(n) = "edits" THEN Append(candidates, <<n, SandboxOf(n)>>) ELSE candidates
  BY DEF Collect
<1> HIDE DEF n
<1>6. /\ collected' = collected \cup {n}
      /\ made' \in [Node -> Nat] /\ sandboxes' \in [Node -> Nat]
      /\ worktrees' \subseteq Node \X (Nat \ {0})
      /\ \A m \in Node \ {n} : made'[m] = made[m]
      /\ made[n] # 0 => made'[n] = made[n] /\ SandboxOf(n) = made[n]
  BY <1>3, <1>5, CleanUpKeeps
<1>7. ChangeOf(n) = "edits" => left[n] = "edits" /\ made[n] # 0 /\ <<n, SandboxOf(n)>> = <<n, made'[n]>>
  BY <1>4, <1>6 DEF ChangeOf
<1>8. left[n] = "edits" /\ n \notin reused => ChangeOf(n) = "edits"
  <2>1. n \notin reused => <<n, made[n]>> \in workedIn
    BY <1>3 DEF Workers
  <2> QED
    BY <1>4, <2>1 DEF ChangeOf, OTypes
<1>9. IInv' /\ GraphsKnown'
  BY SchedulerPart DEF ONext, RunGraphStep
<1>10. /\ candidates \in Seq(Node \X Nat)
       /\ ChangeOf(n) = "edits" => <<n, SandboxOf(n)>> \in Node \X Nat
  BY <1>3, <1>6, <1>7 DEF OTypes
<1>11. Workers' /\ Lateness' /\ \A x : Earned(x) => Earned(x)'
  BY <1>3, <1>5, CleanUpOInv
<1>12. candidates' \in Seq(Node \X Nat)
  BY <1>5, <1>10
<1>13. OTypes'
  BY <1>5, <1>6, <1>12 DEF OTypes
<1>14. Stages'
  BY <1>2, <1>5 DEF Stages, vars
<1>15. \A i \in DOMAIN candidates : i \in DOMAIN candidates' /\ candidates'[i] = candidates[i]
  BY <1>5, <1>10
<1>16. ASSUME NEW i \in DOMAIN candidates'
       PROVE  \/ i \in DOMAIN candidates /\ candidates'[i] = candidates[i]
              \/ candidates'[i] = <<n, SandboxOf(n)>> /\ ChangeOf(n) = "edits"
  BY <1>5, <1>10
<1>17. ASSUME NEW w, w = <<n, SandboxOf(n)>>, ChangeOf(n) = "edits"
       PROVE  Earned(w)'
  <2>1. n \notin reused => <<n, made[n]>> \in workedIn
    BY <1>3 DEF Workers
  <2>2. w = <<n, made[n]>> /\ made'[n] = made[n] /\ left'[n] = "edits"
    BY <1>5, <1>6, <1>7, <1>17
  <2>3. w[1] = n /\ w[2] = made[n]
    BY <2>2
  <2>4. n \in Nodes(graph)' /\ n \in collected' /\ (w \in workedIn' \/ n \in reused')
    BY <1>3, <1>5, <1>6, <2>1, <2>2 DEF vars
  <2> QED
    BY <2>2, <2>3, <2>4 DEF Earned
<1>18. Candidacy'
  <2>1. ASSUME NEW i \in DOMAIN candidates', NEW x, x = candidates'[i]
        PROVE  Earned(x)'
    BY <1>11, <1>16, <1>17, <2>1 DEF Candidacy
  <2> QED
    BY <1>2, <1>5, <2>1 DEF Candidacy, Earned
<1>19. Gathered'
  <2>1. ChangeOf(n) = "edits" => \E i \in DOMAIN candidates' : candidates'[i] = <<n, made'[n]>>
    BY <1>5, <1>7, <1>10
  <2>2. ASSUME NEW m \in collected \ reused, left[m] = "edits"
        PROVE  \E i \in DOMAIN candidates' : candidates'[i] = <<m, made'[m]>>
    <3>1. PICK i \in DOMAIN candidates : candidates[i] = <<m, made[m]>>
      BY <1>2, <2>2 DEF Gathered
    <3>2. m \in Node /\ m # n
      <4>1. Earned(candidates[i])
        BY DEF Candidacy
      <4>2. m \in Nodes(graph)
        BY <3>1, <4>1 DEF Earned
      <4> QED
        BY <1>3, <4>2, GraphAssumption, NodesOfGraph DEF IInv, TypeOK
    <3> QED
      BY <1>6, <1>15, <3>1, <3>2
  <2> QED
    BY <1>5, <1>6, <1>8, <2>1, <2>2 DEF Gathered
<1> QED
  BY <1>9, <1>11, <1>13, <1>14, <1>18, <1>19

\* A collecting loop that throws keeps the invariant.
LEMMA CollectEndsOInv ==
  ASSUME OInv, CollectThrows \/ CollectFindsNoSandbox
  PROVE  OInv'
<1> USE DEF OInv
<1>1. NextEntry \in Uncollected
  BY NextEntryUncollected DEF CollectThrows, CollectFindsNoSandbox
<1>2. /\ UNCHANGED <<vars, expired, late, worker, left, workedIn, reused, candidates,
                     submitted, answer>>
      /\ stage = "collecting" /\ stage' = "settled"
  BY DEF CollectThrows, CollectFindsNoSandbox, nodeVars
<1>3. IInv' /\ GraphsKnown'
  BY SchedulerPart DEF ONext, RunGraphStep
<1>4. Stages'
  BY <1>2 DEF Stages, vars
<1>5. Gathered'
  BY <1>2 DEF Gathered
<1>6. CASE CollectThrows
  <2>1. NextEntry \in Nodes(graph) \ collected /\ NextEntry \in Node \ collected
    BY <1>1, GraphAssumption, NodesOfGraph DEF Uncollected, IInv, TypeOK
  <2>2. CleanUp(NextEntry)
    BY <1>6 DEF CollectThrows
  <2>3. OTypes'
    BY <1>2, <2>1, <2>2, CleanUpKeeps DEF OTypes
  <2>4. Workers' /\ Lateness' /\ \A w : Earned(w) => Earned(w)'
    BY <1>2, <2>1, <2>2, CleanUpOInv
  <2>5. Candidacy'
    BY <1>2, <2>4 DEF Candidacy
  <2> QED
    BY <1>3, <1>4, <1>5, <2>3, <2>4, <2>5
<1>7. CASE CollectFindsNoSandbox
  <2>1. UNCHANGED <<made, sandboxes, worktrees, collected>>
    BY <1>7 DEF CollectFindsNoSandbox, nodeVars
  <2>2. OTypes' /\ Workers' /\ Lateness' /\ Candidacy'
    BY <1>2, <2>1 DEF OTypes, Workers, Lateness, Candidacy, Earned, vars
  <2> QED
    BY <1>3, <1>4, <1>5, <2>2
<1> QED
  BY <1>6, <1>7

\* The ways in which a run ends after its entries were collected.
LEMMA EndOInv ==
  ASSUME OInv,
         NoCandidates \/ AwaitApproval \/ DigestMismatch \/ RuntimeAnswers \/ RuntimeFails
  PROVE  OInv'
<1> USE DEF OInv
<1>1. /\ UNCHANGED <<vars, expired, late, worker, made, worktrees, sandboxes, left, workedIn,
                     reused, collected, candidates, submitted>>
      /\ stage \in {"collecting", "submitting"} /\ stage' = "settled"
  BY DEF NoCandidates, AwaitApproval, DigestMismatch, RuntimeAnswers, RuntimeFails, AllCollected,
         nodeVars
<1>2. IInv' /\ GraphsKnown'
  BY SchedulerPart DEF ONext, RunGraphStep
<1>3. OTypes' /\ Workers' /\ Lateness'
  BY <1>1 DEF OTypes, Workers, Lateness, vars
<1>4. Stages'
  BY <1>1 DEF Stages, vars
<1>5. Candidacy' /\ Gathered'
  BY <1>1 DEF Candidacy, Earned, Gathered, vars
<1> QED
  BY <1>2, <1>3, <1>4, <1>5

\* Submit keeps the invariant.
LEMMA SubmitOInv == OInv /\ Submit => OInv'
<1> SUFFICES ASSUME OInv, Submit PROVE OInv'
  OBVIOUS
<1> USE DEF OInv
<1>1. /\ UNCHANGED <<vars, expired, late, worker, made, worktrees, sandboxes, left, workedIn,
                     reused, collected, candidates, answer, finalStatus>>
      /\ stage = "collecting" /\ Uncollected = {} /\ stage' = "submitting"
      /\ candidates # <<>>
      /\ submitted' = submitted \cup {Head(candidates)}
  BY DEF Submit, AllCollected, nodeVars
<1>2. /\ 1 \in DOMAIN candidates
      /\ Head(candidates) = candidates[1]
      /\ candidates[1] \in Node \X Nat
  <2>1. candidates \in Seq(Node \X Nat)
    BY DEF OTypes
  <2> QED
    BY <1>1, <2>1
<1>3. IInv' /\ GraphsKnown'
  BY SchedulerPart DEF ONext, RunGraphStep
<1>4. OTypes' /\ Workers' /\ Lateness'
  BY <1>1, <1>2 DEF OTypes, Workers, Lateness, vars
<1>5. Stages'
  BY <1>1 DEF Stages, Uncollected, vars
<1>6. Candidacy'
  BY <1>1, <1>2 DEF Candidacy, Earned, vars
<1>7. Gathered'
  BY <1>1 DEF Gathered
<1> QED
  BY <1>3, <1>4, <1>5, <1>6, <1>7

\* Every step keeps the invariant.
LEMMA ONextOInv == OInv /\ [ONext]_allVars => OInv'
<1> SUFFICES ASSUME OInv, [ONext]_allVars PROVE OInv'
  OBVIOUS
<1>1. CASE Schedule
  BY <1>1, ScheduleOInv
<1>2. CASE DeadlinePasses \/ RunGraphStep
  BY <1>2, GateOInv, CollectOInv, CollectEndsOInv, EndOInv, SubmitOInv DEF RunGraphStep
<1>3. ASSUME NEW n \in Node, RunNodeStep(n)
      PROVE  OInv'
  BY <1>3, AttemptEndsOInv, AttemptGoesOnOInv DEF RunNodeStep
<1>4. CASE UNCHANGED allVars
  <2>1. IInv' /\ GraphsKnown'
    BY SchedulerPart
  <2> QED
    BY <1>4, <2>1 DEF allVars, orchVars, nodeVars, graphVars, vars, OInv, OTypes, Workers,
                      Lateness, Stages, Candidacy, Earned, Gathered, Uncollected
<1> QED
  BY <1>1, <1>2, <1>3, <1>4 DEF ONext

\* The invariant holds in every state.
THEOREM OrchestratorInvariance == OSpec => []OInv
BY InitOInv, ONextOInv, PTL DEF OSpec

-----------------------------------------------------------------------------
\* Whatever the graph, the retries, the fallbacks and the replan, the Runtime
\* gets nothing but edits in the last worktree of a node of a run that
\* succeeded as a whole, left by an attempt that succeeded, or by one whose node
\* skipNode answered for afterwards.
THEOREM SubmissionIsEarned == OSpec => []SubmissionEarned
<1>1. OInv => SubmissionEarned
  <2> SUFFICES ASSUME OInv, NEW w \in submitted
               PROVE  Earned(w) /\ Running = {} /\ \A n \in Nodes(graph) : status[n] = "SUCCEEDED"
    BY DEF SubmissionEarned, Earned
  <2>1. Earned(w)
    BY DEF OInv, Candidacy
  <2>2. pc = "returned" /\ \A n \in Nodes(graph) : status[n] = "SUCCEEDED"
    BY DEF OInv, Stages
  <2>3. Running = {}
    BY <2>2 DEF OInv, IInv, Agreement, Running
  <2> QED
    BY <2>1, <2>2, <2>3
<1> QED
  BY <1>1, OrchestratorInvariance, PTL

\* No edits that a successful attempt left are lost on the way to the approval,
\* whichever cleanups fail and whatever was retried or replaced before.
THEOREM EditsAreGathered == OSpec => []EditsReachApproval
<1>1. OInv => EditsReachApproval
  BY DEF OInv, Stages, Gathered, EditsReachApproval, AllCollected, Uncollected
<1> QED
  BY <1>1, OrchestratorInvariance, PTL

\* What neither had succeeded nor was under way at the deadline never succeeds,
\* so a graph that still has it keeps every change from the Runtime.
THEOREM LateNodesAreBlocked == OSpec => []LateNodesBlock
<1>1. OInv => LateNodesBlock
  BY DEF OInv, Stages, Lateness, LateNodesBlock
<1> QED
  BY <1>1, OrchestratorInvariance, PTL

-----------------------------------------------------------------------------
\* Refinement: every step is one of GovernedRun, or does not show there.  The
\* scheduler's and the workers' steps end the work, or show nothing.
LEMMA ExecutionRefines ==
  ASSUME OInv, OInv', [Next]_vars, UNCHANGED <<submitted, answer, finalStatus, stage>>
  PROVE  Governed!FinishWork \/ UNCHANGED Governed!absVars
<1>1. CASE pc = "returned"
  <2>1. UNCHANGED vars
    BY <1>1, SchedulerEnds DEF OInv
  <2> QED
    BY <2>1 DEF vars, Governed!absVars
<1>2. CASE pc # "returned" /\ pc' # "returned"
  BY <1>2 DEF Governed!absVars
<1>3. CASE pc # "returned" /\ pc' = "returned"
  <2>1. pc # "rejected"
    BY <1>3, SchedulerEnds DEF OInv
  <2>2. finalStatus = "NONE"
    BY <1>3, <2>1 DEF OInv, Stages, IInv, TypeOK
  <2> QED
    BY <1>3, <2>2 DEF Governed!FinishWork
<1> QED
  BY <1>1, <1>2, <1>3

\* The submission is the one of the governed run.
LEMMA SubmitRefines ==
  ASSUME OInv, OInv', Submit
  PROVE  Governed!Submit
<1>1. /\ pc = "returned" /\ \A n \in Nodes(graph) : status[n] = "SUCCEEDED"
      /\ submitted = {} /\ finalStatus = "NONE"
  BY DEF OInv, Stages, Submit, AllCollected
<1>2. submitted' = {Head(candidates)} /\ submitted' \subseteq Node \X Nat
  BY <1>1 DEF Submit, OInv, OTypes
<1> QED
  BY <1>1, <1>2 DEF Submit, vars, Governed!Submit

\* Every way to end is a conclusion of the governed run.
LEMMA ConclusionRefines ==
  ASSUME OInv,
         \/ ExecutionRejected \/ FailClosed \/ CollectThrows \/ CollectFindsNoSandbox
         \/ NoCandidates \/ AwaitApproval \/ DigestMismatch \/ RuntimeAnswers
         \/ RuntimeFails
  PROVE  Governed!Conclude
<1>1. /\ UNCHANGED <<vars, submitted>>
      /\ finalStatus = "NONE" /\ answer = "none"
  BY DEF OInv, Stages, ExecutionRejected, FailClosed, CollectThrows, CollectFindsNoSandbox,
         NoCandidates, AwaitApproval, AllCollected, DigestMismatch, RuntimeAnswers, RuntimeFails
<1>2. Governed!Allowed(finalStatus', answer')
  <2>1. CASE \/ ExecutionRejected \/ CollectThrows \/ CollectFindsNoSandbox
             \/ DigestMismatch \/ RuntimeFails
    BY <1>1, <2>1 DEF Governed!Allowed, ExecutionRejected, CollectThrows,
                      CollectFindsNoSandbox, DigestMismatch, RuntimeFails
  <2>2. CASE FailClosed \/ NoCandidates
    BY <1>1, <2>2 DEF Governed!Allowed, FailClosed, NoCandidates, AllCollected, OInv, Stages
  <2>3. CASE AwaitApproval
    BY <1>1, <2>3 DEF Governed!Allowed, AwaitApproval, AllCollected, OInv, Stages
  <2>4. CASE RuntimeAnswers
    BY <1>1, <2>4 DEF Governed!Allowed, RuntimeAnswers, FinalStatus, OInv, Stages
  <2> QED
    BY <2>1, <2>2, <2>3, <2>4
<1>3. /\ finalStatus' \in {"COMPLETED", "QUARANTINED", "AWAITING_APPROVAL", "FAILED", "THREW"}
      /\ answer' \in Governed!Answers \cup {"none"}
  BY <1>1 DEF Governed!Answers, ExecutionRejected, FailClosed, CollectThrows,
     CollectFindsNoSandbox, NoCandidates, AwaitApproval, DigestMismatch, RuntimeAnswers,
     FinalStatus, RuntimeFails
<1> QED
  BY <1>1, <1>2, <1>3 DEF Governed!Conclude, vars

\* Every step is a step of the governed run, or none.
LEMMA ONextRefines ==
  ASSUME OInv, OInv', [ONext]_allVars
  PROVE  [Governed!Next]_Governed!absVars
<1>1. [Next]_vars
  BY ONextIsNext DEF allVars
<1>2. ASSUME NEW n \in Node, RunNodeStep(n)
      PROVE  [Governed!Next]_Governed!absVars
  BY <1>1, <1>2, ExecutionRefines
     DEF Governed!Next, RunNodeStep, EnterNode, SandboxCreated, NodeSucceeds, NodeFails, graphVars
<1>3. CASE Schedule \/ UNCHANGED allVars
  BY <1>1, <1>3, ExecutionRefines DEF Governed!Next, Schedule, allVars, orchVars, graphVars
<1>4. CASE DeadlinePasses
  BY <1>1, <1>4, ExecutionRefines DEF Governed!Next, DeadlinePasses, graphVars
<1>5. CASE StartCollecting
  BY <1>5 DEF StartCollecting, vars, Governed!absVars
<1>6. CASE Collect
  <2>1. UNCHANGED <<graph, status, pc, submitted, answer, finalStatus>>
    BY <1>6 DEF Collect, vars
  <2> QED
    BY <2>1 DEF Governed!absVars
<1>7. CASE Submit
  BY <1>7, SubmitRefines DEF Governed!Next
<1>8. CASE \/ ExecutionRejected \/ FailClosed \/ CollectThrows \/ CollectFindsNoSandbox
           \/ NoCandidates \/ AwaitApproval \/ DigestMismatch \/ RuntimeAnswers
           \/ RuntimeFails
  BY <1>8, ConclusionRefines DEF Governed!Next
<1> QED
  BY <1>2, <1>3, <1>4, <1>5, <1>6, <1>7, <1>8 DEF ONext, RunGraphStep

\* runGraph, with its scheduler, agents and worktrees, does what GovernedRun
\* allows: a change reaches the Runtime at most once and only after all the
\* work succeeded, and the final status is true to what the Runtime said.
THEOREM BoundaryIsKept == OSpec => KeepsBoundary
<1>1. OInit => Governed!Init
  BY DEF OInit, Init, Governed!Init
<1>2. OInv /\ OInv' /\ [ONext]_allVars => [Governed!Next]_Governed!absVars
  BY ONextRefines
<1> QED
  BY <1>1, <1>2, OrchestratorInvariance, PTL DEF OSpec, KeepsBoundary, Governed!Spec
=============================================================================
