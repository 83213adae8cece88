----------------------------- MODULE Orchestrator -----------------------------
(***************************************************************************)
(* Orchestrator.runGraph of src/core/orchestrator.mjs, composed with the   *)
(* scheduler of WorkflowRuntime: the scheduler's attempts are runs of      *)
(* runNode, which gives every attempt a fresh Git worktree, and when the   *)
(* workflow is over the change sets are collected, one is approved and     *)
(* handed to the Runtime (src/adapters/devflow-runtime.mjs).               *)
(*                                                                         *)
(* A worktree is <<n, k>>: the k-th one made for node n.  What an agent    *)
(* left in it is `nothing` or `edits`; collectChangeSet may refuse either, *)
(* for what they are or because Git fails.  The costs of the task's budget *)
(* are constant, so an exhausted budget is one more way for an attempt to  *)
(* fail.                                                                   *)
(***************************************************************************)
EXTENDS WorkflowRuntime

VARIABLES
  expired,     \* task.deadline has passed
  late,        \* history: the nodes that at the deadline neither had succeeded
               \* nor were past the check at the start of runNode
  worker,      \* how far runNode is with the node's attempt
  made,        \* worktrees made for the node so far
  worktrees,   \* worktrees that exist
  sandboxes,   \* nodeSandboxes: the node's entry, 0 when there is none
  left,        \* what the node's last worktree holds
  workedIn,    \* history: worktrees in which an attempt succeeded
  reused,      \* history: nodes whose last success is an answer of skipNode
  stage,       \* where runGraph stands
  collected,   \* ids of executionReport.nodes already collected
  candidates,  \* worktrees whose change sets are the candidates, in order
  submitted,   \* the worktrees whose change sets were handed to runtime.run
  answer,      \* what the Runtime's output says
  finalStatus

\* What runNode works on, and what only runGraph touches.
nodeVars == <<worker, made, worktrees, sandboxes, left, workedIn, reused>>

graphVars == <<stage, collected, candidates, submitted, answer, finalStatus>>

orchVars == <<expired, late, nodeVars, graphVars>>

allVars == <<vars, orchVars>>

\* The graph runGraph was called with: the scheduler never changes `order`.
Planned == CHOOSE g \in Graphs : Nodes(g) = {order[i] : i \in DOMAIN order}

ASSUME PlansDistinct ==
  \A g, h \in Graphs : Nodes(g) = Nodes(h) => g.list = h.list

\* Where Object.entries(executionReport.nodes) has n: a Map keeps the place of
\* a key, and the ids a replan brought come last.
EntryPlace(n) ==
  IF n \in Nodes(Planned) THEN Position(Planned, n)
  ELSE Len(Planned.list) + Position(graph, n)

-----------------------------------------------------------------------------
OInit ==
  /\ Init
  /\ expired = FALSE
  /\ late = {}
  /\ worker = [n \in Node |-> "called"]
  /\ made = [n \in Node |-> 0]
  /\ worktrees = {}
  /\ sandboxes = [n \in Node |-> 0]
  /\ left = [n \in Node |-> "nothing"]
  /\ workedIn = {}
  /\ reused = {}
  /\ stage = "executing"
  /\ collected = {}
  /\ candidates = <<>>
  /\ submitted = {}
  /\ answer = "none"
  /\ finalStatus = "NONE"

DeadlinePasses ==
  /\ ~ expired
  /\ stage \in {"executing", "collecting", "submitting"}
  /\ expired' = TRUE
  /\ late' = {n \in Node : status[n] # "SUCCEEDED" /\ worker[n] = "called"}
  /\ UNCHANGED <<vars, nodeVars, graphVars>>

\* Mutant: the deadline is checked once, when the run starts.
EnterNodeLate(n) ==
  /\ status[n] = "RUNNING"
  /\ worker[n] = "called"
  /\ \E w \in {"skipped", "creating"} : worker' = [worker EXCEPT ![n] = w]
  /\ UNCHANGED <<vars, expired, late, made, worktrees, sandboxes, left, workedIn, reused,
                 graphVars>>

\* runNode up to its first await, when neither deadline nor budget nor agent
\* selection ends the attempt: skipNode answers, or a worktree is asked for.
EnterNode(n) ==
  /\ status[n] = "RUNNING"
  /\ worker[n] = "called"
  /\ ~ expired
  /\ \E w \in {"skipped", "creating"} : worker' = [worker EXCEPT ![n] = w]
  /\ UNCHANGED <<vars, expired, late, made, worktrees, sandboxes, left, workedIn, reused,
                 graphVars>>

\* Mutant: a retry does not replace the node's sandbox.
SandboxCreatedOnce(n) ==
  /\ worker[n] = "creating"
  /\ worker' = [worker EXCEPT ![n] = "working"]
  /\ made' = [made EXCEPT ![n] = @ + 1]
  /\ worktrees' = worktrees \cup {<<n, made'[n]>>}
  /\ sandboxes' = [sandboxes EXCEPT ![n] = IF @ = 0 THEN made'[n] ELSE @]
  /\ left' = [left EXCEPT ![n] = "nothing"]
  /\ UNCHANGED <<vars, expired, late, workedIn, reused, graphVars>>

\* createSandbox resolved: the worktree of an earlier attempt is forgotten.
SandboxCreated(n) ==
  /\ worker[n] = "creating"
  /\ worker' = [worker EXCEPT ![n] = "working"]
  /\ made' = [made EXCEPT ![n] = @ + 1]
  /\ worktrees' = worktrees \cup {<<n, made'[n]>>}
  /\ sandboxes' = [sandboxes EXCEPT ![n] = made'[n]]
  /\ left' = [left EXCEPT ![n] = "nothing"]
  /\ UNCHANGED <<vars, expired, late, workedIn, reused, graphVars>>

\* What the node's worktree may hold when the attempt ends: an agent leaves
\* anything there, whether it succeeds or fails.
MayBeLeft(n) ==
  IF worker[n] = "working" THEN {"nothing", "edits"} ELSE {left[n]}

\* The invoked agent succeeded, or skipNode's answer is the node's success.
NodeSucceeds(n) ==
  /\ worker[n] \in {"skipped", "working"}
  /\ AttemptSucceeds(n)
  /\ worker' = [worker EXCEPT ![n] = "called"]
  /\ \E c \in MayBeLeft(n) : left' = [left EXCEPT ![n] = c]
  /\ workedIn' = IF worker[n] = "working" THEN workedIn \cup {<<n, made[n]>>} ELSE workedIn
  /\ reused' = IF worker[n] = "working" THEN reused \ {n} ELSE reused \cup {n}
  /\ UNCHANGED <<expired, late, made, worktrees, sandboxes, graphVars>>

\* A late start, an exhausted budget, no eligible agent, a failing skipNode,
\* worktree, agent or transform.  The worktree stays the node's, with what the
\* agent left in it.
NodeFails(n) ==
  /\ AttemptFails(n)
  /\ worker' = [worker EXCEPT ![n] = "called"]
  /\ \E c \in MayBeLeft(n) : left' = [left EXCEPT ![n] = c]
  /\ UNCHANGED <<expired, late, made, worktrees, sandboxes, workedIn, reused, graphVars>>

\* Every other step of the scheduler.
Schedule ==
  /\ \/ LoopStep
     \/ \E n \in Node : Retry(n) \/ FallBack(n) \/ GiveUp(n) \/ FallBackThrows(n)
  /\ UNCHANGED orchVars

ExecutionRejected ==
  /\ stage = "executing"
  /\ pc = "rejected"
  /\ stage' = "settled"
  /\ finalStatus' = "THREW"
  /\ UNCHANGED <<vars, expired, late, nodeVars, collected, candidates, submitted, answer>>

FailClosed ==
  /\ stage = "executing"
  /\ pc = "returned"
  /\ ExecutionStatus = "FAILED"
  /\ stage' = "settled"
  /\ finalStatus' = "FAILED"
  /\ UNCHANGED <<vars, expired, late, nodeVars, collected, candidates, submitted, answer>>

\* Mutant: the gate is not closed.
StartCollectingAnyway ==
  /\ stage = "executing"
  /\ pc = "returned"
  /\ stage' = "collecting"
  /\ UNCHANGED <<vars, expired, late, nodeVars, collected, candidates, submitted, answer,
                 finalStatus>>

StartCollecting ==
  /\ stage = "executing"
  /\ pc = "returned"
  /\ ExecutionStatus = "EXECUTION_SUCCEEDED"
  /\ stage' = "collecting"
  /\ UNCHANGED <<vars, expired, late, nodeVars, collected, candidates, submitted, answer,
                 finalStatus>>

Uncollected == Nodes(graph) \ collected

NextEntry ==
  CHOOSE n \in Uncollected : \A m \in Uncollected : EntryPlace(n) <= EntryPlace(m)

\* The sandbox that the loop takes for n: a node that never got as far as a
\* worktree, because it reused a verified stage, gets one now.
SandboxOf(n) == IF sandboxes[n] = 0 THEN made[n] + 1 ELSE sandboxes[n]

ChangeOf(n) == IF sandboxes[n] = 0 THEN "nothing" ELSE left[n]

\* The finally block: cleanup() swallows its failures, so the worktree may stay.
CleanUp(n) ==
  /\ collected' = collected \cup {n}
  /\ made' = [made EXCEPT ![n] = IF sandboxes[n] = 0 THEN @ + 1 ELSE @]
  /\ sandboxes' = [sandboxes EXCEPT ![n] = 0]
  /\ \/ worktrees' = worktrees \cup {<<n, SandboxOf(n)>>}
     \/ worktrees' = worktrees \ {<<n, SandboxOf(n)>>}

\* Mutant: only the candidate that will be submitted is kept.
CollectFirstOnly ==
  /\ stage = "collecting"
  /\ Uncollected # {}
  /\ CleanUp(NextEntry)
  /\ candidates' = IF ChangeOf(NextEntry) = "edits" /\ candidates = <<>>
                   THEN <<(<<NextEntry, SandboxOf(NextEntry)>>)>> ELSE candidates
  /\ UNCHANGED <<vars, expired, late, worker, left, workedIn, reused, stage, submitted,
                 answer, finalStatus>>

\* One entry of executionReport.nodes, and the cleanup of its worktree.
Collect ==
  /\ stage = "collecting"
  /\ Uncollected # {}
  /\ CleanUp(NextEntry)
  /\ candidates' = IF ChangeOf(NextEntry) = "edits"
                   THEN Append(candidates, <<NextEntry, SandboxOf(NextEntry)>>)
                   ELSE candidates
  /\ UNCHANGED <<vars, expired, late, worker, left, workedIn, reused, stage, submitted,
                 answer, finalStatus>>

\* collectChangeSet refuses what it finds, or Git fails it: runGraph throws
\* after the cleanup.
CollectThrows ==
  /\ stage = "collecting"
  /\ Uncollected # {}
  /\ CleanUp(NextEntry)
  /\ stage' = "settled"
  /\ finalStatus' = "THREW"
  /\ UNCHANGED <<vars, expired, late, worker, left, workedIn, reused, candidates,
                 submitted, answer>>

\* No worktree could be made for an entry that has none: there is nothing to
\* clean up, and runGraph throws.
CollectFindsNoSandbox ==
  /\ stage = "collecting"
  /\ Uncollected # {}
  /\ sandboxes[NextEntry] = 0
  /\ stage' = "settled"
  /\ finalStatus' = "THREW"
  /\ UNCHANGED <<vars, expired, late, nodeVars, collected, candidates, submitted, answer>>

AllCollected == stage = "collecting" /\ Uncollected = {}

NoCandidates ==
  /\ AllCollected
  /\ candidates = <<>>
  /\ stage' = "settled"
  /\ finalStatus' = "FAILED"
  /\ UNCHANGED <<vars, expired, late, nodeVars, collected, candidates, submitted, answer>>

\* approveChangeSet is absent or did not approve the first candidate.
AwaitApproval ==
  /\ AllCollected
  /\ candidates # <<>>
  /\ stage' = "settled"
  /\ finalStatus' = "AWAITING_APPROVAL"
  /\ UNCHANGED <<vars, expired, late, nodeVars, collected, candidates, submitted, answer>>

\* Approved with the digest of another change set: runtime.run throws.
DigestMismatch ==
  /\ AllCollected
  /\ candidates # <<>>
  /\ stage' = "settled"
  /\ finalStatus' = "THREW"
  /\ UNCHANGED <<vars, expired, late, nodeVars, collected, candidates, submitted, answer>>

\* Approved with its digest, or with none, which is then filled in.
Submit ==
  /\ AllCollected
  /\ candidates # <<>>
  /\ submitted' = submitted \cup {Head(candidates)}
  /\ stage' = "submitting"
  /\ UNCHANGED <<vars, expired, late, nodeVars, collected, candidates, answer, finalStatus>>

FinalStatus(valid, decision) ==
  IF ~ valid THEN "QUARANTINED"
  ELSE IF decision = "finish" THEN "COMPLETED" ELSE "AWAITING_APPROVAL"

\* devflow-runtime exited with 0 and printed JSON.
RuntimeAnswers ==
  /\ stage = "submitting"
  /\ \E valid \in BOOLEAN, decision \in {"finish", "continue"} :
       /\ answer' = IF valid THEN decision ELSE "corrupt"
       /\ finalStatus' = FinalStatus(valid, decision)
  /\ stage' = "settled"
  /\ UNCHANGED <<vars, expired, late, nodeVars, collected, candidates, submitted>>

\* It exited with another code, printed no JSON, or too much.
RuntimeFails ==
  /\ stage = "submitting"
  /\ stage' = "settled"
  /\ finalStatus' = "THREW"
  /\ UNCHANGED <<vars, expired, late, nodeVars, collected, candidates, submitted, answer>>

RunGraphStep ==
  \/ ExecutionRejected
  \/ FailClosed
  \/ StartCollecting
  \/ Collect
  \/ CollectThrows
  \/ CollectFindsNoSandbox
  \/ NoCandidates
  \/ AwaitApproval
  \/ DigestMismatch
  \/ Submit
  \/ RuntimeAnswers
  \/ RuntimeFails

RunNodeStep(n) == EnterNode(n) \/ SandboxCreated(n) \/ NodeSucceeds(n) \/ NodeFails(n)

ONext == DeadlinePasses \/ Schedule \/ RunGraphStep \/ \E n \in Node : RunNodeStep(n)

\* Git, the agents and the Runtime answer; the deadline need not pass.
OFairness ==
  /\ WF_allVars(Schedule)
  /\ WF_allVars(RunGraphStep)
  /\ \A n \in Node : WF_allVars(RunNodeStep(n))

OSpec == OInit /\ [][ONext]_allVars

OFairSpec == OSpec /\ OFairness

-----------------------------------------------------------------------------
\* What is handed to the Runtime is what an attempt that succeeded left in the
\* last worktree of a node of the graph in force, never what a retry replaced,
\* unless skipNode answered for the node after an attempt of it; all of the
\* workflow succeeded, and no agent is at work any more.
SubmissionEarned ==
  \A w \in submitted :
    /\ w[1] \in Nodes(graph)
    /\ w[2] = made[w[1]]
    /\ left[w[1]] = "edits"
    /\ w \in workedIn \/ w[1] \in reused
    /\ Running = {}
    /\ \A n \in Nodes(graph) : status[n] = "SUCCEEDED"

\* When the approval is asked for, what the agents of successful attempts left
\* is among the candidates, whatever retries and replans came before and
\* whichever cleanups failed: worktrees are given up only once they were read.
EditsReachApproval ==
  AllCollected \/ stage = "submitting" =>
    \A n \in Nodes(graph) \ reused :
      left[n] = "edits" => \E i \in DOMAIN candidates : candidates[i] = <<n, made[n]>>

\* A node that neither had succeeded nor was past runNode's check when the
\* deadline passed, one that a replan brought later included, keeps every
\* change from the Runtime, unless a replan drops the node.
LateNodesBlock == submitted # {} => late \cap Nodes(graph) = {}

\* What orchestrator.mjs says at its head of a deadline: it stops the run
\* before any further Action, that is, before a change reaches the Runtime.
DeadlineStopsActions == [][expired => submitted' = submitted]_allVars

\* runGraph settles, with or without an error.
Settles == <>(stage = "settled")

Governed == INSTANCE GovernedRun WITH
  Changes <- Node \X Nat,
  work    <- IF pc # "returned" THEN "open"
             ELSE IF \A n \in Nodes(graph) : status[n] = "SUCCEEDED" THEN "done" ELSE "failed",
  action  <- submitted,
  outcome <- finalStatus

\* runGraph keeps the trust boundary.
KeepsBoundary == Governed!Spec
=============================================================================
