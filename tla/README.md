# agent-workbench: specifications, model checks and proofs

agent-workbench (Node.js, `src/core`, `src/adapters`) runs tasks through agents: a task
becomes a graph of nodes, a scheduler hands the nodes to agents, every attempt works in
a Git worktree of its own, and one change set, approved by a human, is handed to an
external *devflow-runtime* that applies and verifies it. Around this core it keeps
pipelines that can be resumed, rule candidates that are approved and canaried, a
JSONL state store, a knowledge store, an evidence graph, workspace synchronisation, and
packages.

The modules here model the core as it is written, TLC checks them on small instances,
and TLAPS proves, for all values of their constants, the safety properties of the
scheduler, the orchestrator, the pipeline runner, the agents, the workspace, the
candidates and everything kept in the stores, and that the scheduler and the orchestrator
implement their abstract specifications.

## 1. Inventory

| component | state | operations | what is hard | what makes it correct |
|---|---|---|---|---|
| task graph (`task-graph.mjs`) | none | validate, hash, topological order | cycles, unknown ids, order of Kahn's queue | accepted graphs have a complete order |
| workflow runtime (`workflow-runtime.mjs`) | graph in force, entries, `failed`, `blocked`, `running` | batch, attempt, retry, fallback, block, replan, return | handlers of a batch end in any order; retries, a fresh budget, a graph replaced mid-loop | dependencies first, honest report, bounded retries and concurrency, termination |
| orchestrator (`orchestrator.mjs`) | `nodeSandboxes`, candidates | run a node, gate, collect, approve, submit | awaits between check and use, retries that replace a worktree or keep what a failed attempt left, deadline | nothing unearned reaches the Runtime, no edits are lost before the approval; COMPLETED only on its word |
| change sandbox (`change-sandbox.mjs`) | worktrees on disk | create, collect, clean up | cleanups that fail silently, refusals in the middle of collecting | the collected change is the last attempt's |
| Runtime adapter (`adapters/devflow-runtime.mjs`) | none | run, status, recover | a process that fails after it acted | integrity before decision |
| pipeline runner (`pipeline-runner.mjs`, `pipeline.mjs`) | artifact files, artifact and stage rows | run, resume, record | crashes between file and row, files shared by runs | finished work is not repeated, failed work is |
| state store (`store.mjs`) | JSONL files | append, read | unfinished last lines | acknowledged rows can be read |
| candidates, canary (`candidates.mjs`, `canary.mjs`) | rows, history, canary results | propose, transition, approve, promote, disable, roll back | two appends per call, history shared by versions, a gate beside an open way | lives are legal; promotion asks a human |
| workspace sync (`sync.mjs`, `apply.mjs`, `snapshot.mjs`, `restore.mjs`, ...) | manifest, lockfile, snapshots, host | plan, apply, snapshot, sync, roll back | partial failure, dry run, files that move to another machine | the lockfile tells what is on disk |
| packages (`packages-l7.mjs`) | package and install rows, one directory per id | register, mark verified, install, uninstall | versions in one directory; processes whose calls interleave or die | only verified packages are installed, and the rows tell which |
| knowledge (`knowledge-store.mjs`) | objects, index rows | ingest, ingest a directory, remove, purge | object and row in two steps, purge by another process, times that tie | an active row has its object, the last call counts |
| project memory (`project-memory.mjs`) | objects, rows by type and source | save a decision or an artifact | deaths between object and row | the last acknowledged save is what a query returns |
| sources and ingestion (`intelligence/sources.mjs`, `ingest.mjs`) | rows of sources, ingestions, extractions, bodies | register, ingest | versions per key, extractions per source, deaths between them | old extractions stay, new content has one |
| evaluation (`evaluation.mjs`) | evidence and score rows | evaluate | an await between check and rows | scores keep their evidence, strict versions |
| evidence graph (`intelligence/graph.mjs`) | none | build, neighbours, paths | cycles, doubled edges, ids of several kinds | the searches find everything once |
| agent processes (`adapters/process-agent.mjs`, `process-planner.mjs`) | child, timer, abort signal, temporary files | spawn, time out, abort, settle, clean up | timer against exit against close; a child that outlives its result | one final result per invocation, no files left |
| agents and routing (`agents.mjs`, `capabilities.mjs`) | the registry | register, apply a manifest, select | ties, half-applied manifests | the choice is settled by the requirement |
| benchmarks, configuration, CLI, web, scripts | none or files of their own | | | see section 6 |

Interaction: `PipelineRunner.run` compiles a template and calls `Orchestrator.runGraph`
with callbacks (`skipNode`, `transformResult`); `runGraph` calls `executeWorkflow` with
its `runNode`, and afterwards the change sandbox and the Runtime adapter. All of it is
one process on one event loop: steps interleave only at awaits. `runNode` picks an agent
with `capabilities.mjs` and invokes it through `process-agent.mjs`, whose child process
runs beside the event loop. The pipeline runner, the candidates, the knowledge store, the
memory, the ingestion, the evaluation and the packages keep their rows in the state store,
each in tables of its own, and the evidence graph reads several of them. Every CLI command
is a process, so that two may be at work in one directory: that is where interleaving at
file operations, deaths and restarts matter.

## 2. Modules

| module | models | state and actions |
|---|---|---|
| `TaskGraph` | `task-graph.mjs` | operators on graphs: `CreateTaskGraphAccepts`, `TopologicalOrder`, `IsKahnOrder`, `DefinitionHash` |
| `TaskGraphExecution` | the promise of the runtime | nodes wait, work, are done, failed or skipped; a plan is revised at most once; a verdict |
| `WorkflowRuntime` | `executeWorkflow` | one action per stretch of code between awaits: `StartBatch`, `AttemptSucceeds`/`AttemptFails` (the rest of `runOne`), `Retry`, `FallBack`, `GiveUp`, `FallBackThrows`, `SettleBatch`, `Replan`, `ReplanRejected`, `Return` |
| `WorkflowRuntimeProofs`, `OrchestratorProofs`, `PipelineRunnerProofs`, `WorkspaceSyncProofs`, `CandidateProofs` | | inductive invariants and theorems of the module of that name; `WorkflowRuntimeProofs` has those of `TaskGraph` too |
| `AgentAndGraphProofs` | | the same of `ProcessAgent`, `AgentRouting` and `EvidenceGraph` |
| `StoreProofs` | | the same of `PackageEcosystem`, `ProjectMemory`, `KnowledgeStore`, `SourceIngestion` and `Evaluation` |
| `JsonlTableProofs` | | what appending, cutting off and reading do to a table; numbers and counts |
| `GovernedRun` | the trust boundary of `orchestrator.mjs:3-14` | work is done or failed, at most one change is submitted, the outcome follows the Runtime's answer |
| `Orchestrator` | `runGraph` with `change-sandbox.mjs` and `devflow-runtime.mjs` | EXTENDS `WorkflowRuntime`: its attempts become runs of `runNode` (`EnterNode`, `SandboxCreated`, `NodeSucceeds`, `NodeFails`), then `Collect` or one of the ways it throws, the approval, `Submit` and the Runtime's outcome |
| `PipelineRunner` | `PipelineRunner.run` over several runs | `StartRun`, `Reuse`, `Invoke`, `FinishWith`/`FinishBare`, `GraphEnds`/`GraphThrows`, `Record`, crashes, edits by others |
| `JsonlTable` | one table of `store.mjs` | a file of lines, the last one perhaps unfinished: `ReadRows`, `AppendRow`, `PartialAppends` |
| `CandidateLifecycle` | `candidates.mjs`, `canary.mjs` | one action per exported call that changes something, `TransitionCandidate` beside `Approve`, `Promote`, `AutoDisable` and `Rollback`, which are built on it; each may die in either of its appends |
| `WorkspaceSync` | `sync.mjs`, `restore.mjs`, the CLI's apply and rollback, on `plan.mjs`, `apply.mjs`, `lockfile.mjs`, `snapshot.mjs`, `projects.mjs` | the files, the host and the clones; a command is `StartSync`/`StartRestore`/`StartApply`, `Snapshot`, the steps of the plan (`Block`, `MissAdapter`, `Preview`, `Skip`, `CallAdapter`), the projects (`SyncLocal`, `CloneProject`, `FetchProject`) and `WriteLockfile`; `Rollback`, four places to die, two edits and `MoveMachine`, which leaves the clones behind |
| `KnowledgeStore` | `knowledge-store.mjs`, used by several processes | a call is a sequence of file operations: `CheckObject`, `WriteObject`, `Stamp`, `AppendIndexRow` for an ingest or a removal, `PurgeReads`, `PurgeLists`, `PurgeUnlinks` for a purge; `NextFile` of a directory; `Die` anywhere |
| `ProjectMemory` | `project-memory.mjs` | `SaveDecision`, `SaveVerifiedArtifact`, each whole or cut off in one of its two steps |
| `SourceIngestion` | `intelligence/sources.mjs`, `ingest.mjs` | `RegisterSource`, `IngestSource`, whole or cut off in any append |
| `Evaluation` | `evaluate` | `Evaluate` up to its await, `EvaluatorFails`, `EvaluatorReturns` with its rows |
| `PackageEcosystem` | `packages-l7.mjs`, used by several processes | `RegisterPackage`, `MarkVerified`, `InstallPackage`, `UninstallPackage` begin a call, and one action per file operation goes on with it; `Crash` anywhere |
| `ProcessAgent` | `runProcess`, `ProcessAgentInvoker.invoke`, `ProcessPlanner.plan` | what the host does (`Refuse`, `Spawn`, `AgentReturns`, `PlannerReturns`), its handlers (`Timeout`, `AbortEarly`, `SpawnError`, `Close`), and the child (`WriteOutput`, `Exit`) |
| `EvidenceGraph` | `buildGraph`, `neighborsOf`, `path` | `AddRow`, `BuildGraph`, and one action per turn of a search's loop (`VisitNext`, `ExtendPath`) |
| `AgentRouting` | `AgentRegistry`, `deriveRouterMetrics`, `rankAgents`, `selectAgent` | `Register`, `ApplyManifest` and its loop (`ApplyDeclaration`, `RefuseDeclaration`), `Event`; the selection is the operator `SelectAgent` |
| `MCStores` | | `KnowledgeStore`, `ProjectMemory`, `SourceIngestion`, `Evaluation` and `CandidateLifecycle` side by side: they share neither tables nor files, so one of them is at work in a behaviour |
| `MCParts` | | the same of `PackageEcosystem`, `EvidenceGraph`, `AgentRouting` and a sequential workflow of `MCWorkflow` |
| `MCWorkflow`, `MCOrchestrator`, `MCPipeline`, `MCCandidates`, `MCWorkspace`, `MCProcesses` | | small instances for TLC |

The scheduler is composed with the orchestrator by extension: every step of
`WorkflowRuntime` is a step of `Orchestrator` with the orchestrator's variables beside it.
`PipelineRunner` does not extend it: it takes from it that stages of a chain run in order,
which is what `DependenciesRunFirst` proves, and keeps only the outcomes of `runGraph`.

Definitions whose comment begins with *Mutant* are plausible bugs of the definition that
follows them. No specification uses them. Each property of a passing run is violated when
one of them takes its definition's place, as `PROJECT.json` lists.

### Abstractions

* Results, outputs, times, audit calls and messages are left out. What an agent leaves in
  its worktree is nothing or edits, whether the attempt succeeds or fails, and a failed
  attempt's worktree stays the node's. `collectChangeSet` may refuse what it finds or fail
  (`CollectThrows`), and so may making a worktree for a node that has none
  (`CollectFindsNoSandbox`). A cleanup may leave its worktree, for it swallows failures.
* Node ids are naturals, because the code sorts them. Digests are the tuples or values
  they are digests of.
* `Promise.all` over a batch is the action `SettleBatch`, enabled when no node of the
  batch is in flight; after a rejection (`FallBackThrows`) the others go on.
* The bodies of the two loops over `ready` and over blocked nodes have no await: each
  loop is one step. `BatchWidth` is what the loop's double count makes of the
  concurrency, half of it rounded up.
* `orderById` is the variable `order`, chosen once by Kahn's order of the first graph.
* The pipeline's stages have one output each, and the agents, the approval and the
  Runtime are nondeterministic outcomes. A stage is worked at from `Invoke` to one of the
  `Finish` actions; `tries` counts failed attempts only while they matter.
* In `WorkspaceSync` a version is a value and a tool's installation one of three results;
  the adapters in `src/adapters` give only one of them, success without a change. Detection
  is instantaneous, and nobody edits the host while a command runs. A clone is absent,
  incomplete (killed, or its checkout failed) or complete. A move to another machine is one
  step: the files and the snapshots come along, the host is a new one, the Git clones are
  not there, and `carried` remembers the lockfiles that were written elsewhere. Of the managed files
  the manifest and the lockfile are kept; a lockfile entry is its action and version.
* In the stores a content is its hash, and an object file is absent, torn or whole. A call
  of the knowledge store or the packages is split at its file operations, because other
  processes work on the same files; a save, an ingestion and the rows of an evaluation
  are one action with every place to die in it, because their properties are about one
  process. `_at` is a clock that need not tick between two rows.
* In `ProcessAgent` the contents of stdout are left out: a planner's plan is its output
  file, in part or whole. An abort of a running child emits `error` at once and kills it,
  and the child ends whenever it likes; an abort after the exit emits nothing; that is
  how Node's `spawn` treats a signal. A child may leave a process behind that holds its pipes.
* `EvidenceGraph` has one kind of id for runs, candidates and sources, since nodes are
  looked up by id alone, and leaves out knowledge and package rows, which have no edges.
  `path()` is followed until a walk is longer than the graph has nodes; the code goes on.
* `AgentRouting` counts in ten-thousandths what the code adds in doubles, with the
  default weights. Of the events it keeps how many there were of an agent and a type, and
  the sum of their values, which is all that the metrics are made of.
* In `CandidateLifecycle` a call is one action, for the code has no await; what may
  come between its two appends is a crash, and `Write` has every place of it.

## 3. Runs

| run | instance | what it shows |
|---|---|---|
| `wf_wide` | a fan-in, a reverse-listed chain and a wide reviewed graph at concurrency 3, hence two at a time | `ConcurrencyBound`, `BlockedNeverStarts`, `Terminates` without any assumption on list orders |
| `wf_fan_in` | the fan-in of the repository's test, 1 and 2 before 4, at concurrency 5, hence three at a time | **violation** of `DependenciesFirst` |
| `orch_governed` | two plans, one replacement, concurrency 3 | `SubmissionEarned`, `EditsReachApproval`, `LateNodesBlock`, `Settles`, and `KeepsBoundary`: the orchestrator refines `GovernedRun` |
| `orch_deadline` | as `orch_governed` | **violation** of `DeadlineStopsActions` |
| `pipeline_resume` | an implementation stage (two attempts) and a test stage, three runs, two goals, two contents, one edit by others, symmetric | types, `SideEffectsOnce`, `ReusedIntact` |
| `pipeline_failed` | the same with one goal and no edits | **violation** of `ReusedSucceeded` |
| `candidate_versions` | two versions, no crash | **violation** of `PromotedVersionApproved` |
| `workspace_sync` | three resources (one without an adapter), two versions, two manifests, a Git and a local project; three commands, one edit or move, one crash | types, `LockTellsHost`, `SecondRestoreSkips`, `SyncUndoable`, `LockedProjectsPresent` |
| `workspace_checkout` | the same without a crash | **violation** of `LockedProjectsCheckedOut` |
| `stores_damage` | knowledge: two processes, two sources, two contents, three rows, one purge, one death; memory: four saves, two deaths; ingestion: two sources with a DOI or URLs, three ingestions, one death; evaluation: four calls that begin in their order, two versions, one death; candidates: two versions, six lines, two crashes, one canary result | `DamageConfined`, `LastCallCounts`; `MemoryKept`; `ExtractionsKept`; `ScoresAttached`, `StrictVersions`; `LegalLife`, `LossBounded`, `PromoteAsksHuman` |
| `parts_apart` | workflow: two graphs of four nodes (a reviewed chain beside a branch; a diamond), three replacements, concurrency 2, hence one node at a time; packages: two processes, two versions, six calls, one death; graph: all graphs of three rows over three ids; agents: two built-in ones, four declarations, two changes, two events | types, `ReportHonest`, `DependenciesFirst`, `InvocationBudget`, `WorkNotRepeated`, and `ImplementsPromise`: the scheduler refines `TaskGraphExecution`; `InstalledStaysVerified`, `LastRowTells`; `NeighborsExact`, `PathsComplete`; `SelectionSettled` |
| `processes_races` | two agents, one without a timeout, and a planner | `SuccessIsFinal`, `PlannerFilesGone`, `InvocationReturns`, `PromptRemoved` |

In `stores_damage` and `parts_apart` the parts that are not at work stay as they began, so
that the run checks one part after the other and no product of them.

Bounds. The scheduler and the orchestrator need none: `Terminates` and `NothingGoesOnForever`
say why. Graphs of four or five nodes hold a chain, a branch beside it, a
fan-in, and a review whose failure asks for a plan that keeps, changes, drops and adds
nodes; maxAttempts 2 against 1 tells a retry from a fallback. `MaxRuns` 3 lets a run
resume one that resumed another, or one that is not the latest; two contents
tell a stale artifact from a fresh one. The six lines of a candidate hold
a whole life and a proposal of the next version, or a garbled line, after it; `MaxCrashes` 2
lets a crash meet what another one left.
Three commands let a sync be followed by a restore under a drifted manifest and by
another, or by a rollback that meets a torn copy; the one edit is the user's, of the manifest
or the host, or the move. A move is followed by two commands, so that what was carried can be
restored, written anew, or put back. The violation of the workspace needs no crash.
Two processes are enough for an ingest against a purge and for an install against an
uninstall, one death (`MaxDeaths`, `MaxCrashed`, `MaxCuts`, `MaxFaults`) for a torn object or row that
later calls build on, and three rows for a content that two sources shared, one of which
lost it; `MaxCalls` 6 lets two versions be registered, verified and installed before one of
them is uninstalled. `MaxSaves` 4 with `MaxLosses` 2 lets a loss meet another one's
unfinished line. Four evaluations hold a score, one whose line a death left
unfinished, one that runs into that line, and the strict call that had read it; calls
differ in what they are given only, so that they may be taken to begin in their order
(`InOrder`). Three rows make the graphs with a cycle of two candidates, with two paths to
one node, and with an id that is a run and a candidate. `MaxDepth` is the 2 that tells the
limit from the whole graph.
`MaxEdits`, `MaxResults`, `MinWindow`, `MaxTime`, `MaxIngests`, `MaxPurges`, `MaxFetches`,
`MaxRegisters`, `MaxChanges` and `MaxEvents` are as small as lets the case happen.
`ProcessAgent` needs no bound.

What a death costs is stated as a number, not excluded: the properties of the stores count
what is lost against the deaths there were, so that an unfinished line may take the next
row with it, as it does, and no more. `suspect`, `exposed` and `blurred` are history
variables that say which contents, versions or rows a death or a race was about; what
they do not name must be right.

`CHECK_DEADLOCK FALSE` is in all configurations: `executeWorkflow`, `runGraph` and
`run` return, invocations end, and a bounded sequence of calls does.

Fairness. `FairSpec` of `WorkflowRuntime` is weak fairness of the loop and of every
node's handler: the event loop runs what is due, and every handler and
`selectFallback` settles, as `process-agent.mjs` makes agents do with its timeout.
`OFairSpec` adds the same of Git, the agents and the Runtime; nothing makes the deadline
pass, and no outcome is fair. `Spec` of `ProcessAgent` is weak fairness of `Timeout`,
`SpawnError`, `Close`, `AgentReturns` and `PlannerReturns`, which the event loop runs when
they are due. Nothing makes a child end, be aborted or close its pipes: `InvocationReturns`
holds because the abort itself resolves the promise. The other modules are checked for
safety only, without fairness.

## 4. What the violations say

Each checks one sentence of the repository, and TLC finds a behaviour of the code that
contradicts it. `PROJECT.json` quotes the lines.

* `wf_fan_in`: the scheduler starts a node whose dependencies have not failed; that they
  completed it never asks. In the graph of the repository's own test, nodes 1, 2 and 4 are
  one batch as soon as a batch has room for three. One node at a time, as in the test, the
  order saves it.
* `orch_deadline`: `runNode` looks at the deadline when an attempt starts. A deadline that
  passes while the last node is at work, or while changes are collected, stops nothing.
  What does hold is `LateNodesBlock`: a node that the deadline caught before its start never
  succeeds, so nothing is submitted while the graph in force has it.
* `pipeline_failed`: resuming looks at hashes and not at the status in the stage rows, and
  a failed or blocked stage's row carries the latest hash of any run.
* `candidate_versions`: history entries carry no version, so an old approval promotes a
  new version.
* `workspace_checkout`: a clone whose checkout failed stays, and the next sync fetches into
  it, reports FETCHED, and locks the project.
  `LockedProjectsPresent` therefore asks of a FETCHED project only that it is there.

Other facts the modules carry, of which no run makes a question. The first five contradict
a comment or a document as well, each in one straight line of steps:

* A replan may drop the node that the deadline caught. In a plan of a correction and two
  reviews of it, one review succeeds and the deadline passes; the other is refused as late,
  and being a failed review it asks for a replan. A replacement without it, the other nodes
  unchanged, is done as soon as it is in force, and the change is submitted, although
  `orchestrator.mjs:14` says that a deadline stops the run. This is why `LateNodesBlock`
  speaks of the graph in force; it is proved for all graphs, this one included.
* The worktree, the patch file in it included, is removed before the approval is asked for
  (unless the cleanup fails): a change that is not approved is known by its digest only,
  although `orchestrator.mjs:12` says that it is preserved.
* The worktree of a failed attempt stays the node's (`NodeFails`). When the next attempt is
  answered by `skipNode`, say because its artifact is verified again by then or the
  caller's own `skipNode` says so, what the failed attempt left is submitted.
  `SubmissionEarned` allows it by name (`reused`).
* `transitionCandidate` is exported and promotes without asking for an approval by a human,
  as the repository's tests do (`tests/candidates.test.mjs:107`), although
  `docs/level-5-acceptance.md:58` says that promotion cannot happen without one. What holds
  is said of `promote` alone (`PromoteAsksHuman`), and of all ways that a promoted version
  was approved somehow (`LegalLife`).
* `restore` does nothing about projects, so on another machine (`MoveMachine`) those of the
  lockfile stay absent, although `restore.mjs:1` says that it brings the workspace to the
  state recorded there. `LockedProjectsPresent` is about the machine on which a command
  wrote the lockfile.
* Of several candidates the first in the order of the nodes is submitted and the others are
  dropped (`Submit`), although the run may be COMPLETED.
* A resume that reuses every stage has no change set and ends FAILED (`NoCandidates`); the
  repository's test of it uses a sandbox double that always reports an edit.
* An append after a crash inside an append shares the unfinished line and is lost with it
  (`JsonlTable`); `LossBounded`, `MemoryKept` and `ExtractionsKept` say what that costs.
* A package version that was uninstalled and verified again cannot be installed: the row
  keeps `uninstalledAt`, which is not stripped before the checksum (`ChecksumMatches`).
* `path()` does not return when it can reach a cycle (`PathsComplete`), which two
  candidates that name each other as evidence make. `buildGraph` appends all its nodes and
  edges to the store again on every call, and reads packages from a table nothing writes.
* A source that is registered again with another DOI shares the key and the versions of the
  DOI, but extractions are found by source: a version number the source used before under
  its old key is found with its old extraction, and the new one can never be read.
  `ExtractionsKept` therefore asks for the extraction of a version as it was first
  published, and for a key's latest content accepts an extraction of that version and
  content whichever source and key it is of.
* Ingesting the same content after a death between the two rows is "unchanged" and never
  makes the extraction up (`ExtractionsKept` counts it).
* A process that an agent leaves behind with its pipes open keeps the invocation waiting
  for ever, its timeout notwithstanding, once the agent itself has exited (`InvocationReturns` excepts it).

## 5. Proofs

TLAPS checks every proof to its last leaf. The theorems are about the modules that TLC
runs, without a bound on any constant: `PROJECT.json` lists them, with the property of a
run that each states, if it does. Of the properties of the passing runs all but the four
of liveness are proved, and besides them what `createTaskGraph` computes and that the
scheduler runs out of work. The bounds in the guards (`MaxRuns`, `MaxCalls`, ...) are
constants like any other, so a theorem holds for all of them.

### What is assumed

The ASSUMEs of the modules say what the inputs are: sets of ids that are finite,
graphs in whose lists no id is twice, a concurrency from 1 to 16, stages that depend on
earlier stages, markers (`None`, `"torn"`) that are no value. TLC evaluates them in the runs.
Two theorems have a hypothesis more:

* `DependenciesRunFirst` and `PromiseIsKept` have `Orderly`: at most concurrency 2, node
  lists that name dependencies before dependents, and replacements on whose nodes the old
  ranks do not mislead the sort. `compilePipeline` makes such lists; `wf_fan_in` shows
  that the bound on the concurrency cannot be dropped, and `MCWorkflow` that its sequential
  graphs are orderly.

### The inductive invariants

Hardly any property of the runs is inductive. What is added to it, module by module:

* `WorkflowRuntimeProofs`. `Agreement`: the three records the scheduler keeps of one fact
  agree between any two steps: no call is in flight outside a batch, a node in flight is
  running or has just failed, a node of `failed` is failed or being retried, a node is in
  `blocked` exactly when it is blocked. `Accounting`: the handler calls of a node are its
  attempts, plus the one running, plus the budget its fallback replaced. `Width`: a batch
  holds at most `BatchWidth` calls. From these follow `TypeCorrect`, `HonestReport`,
  `BudgetKept`, `Bounded`, `BlockedNodesNeverStart` and `WorkIsNotRepeated`. `OrderInv` adds
  that `order` is still the Kahn order of the first graph, that its ranks respect the
  dependencies of the graph in force, that the marking pass left no pending node behind a
  failed one, and that the dependencies of a node in flight have succeeded; it gives
  `DependenciesRunFirst`, and with `Alone` the refinement `PromiseIsKept`, step by step.
  `NothingGoesOnForever` is the half of `Terminates` that is safety, for all graphs and
  replacements: `WorkLeft`, the calls, answers and decisions that `Accounting` leaves, is
  finite, and a step that takes nothing from it brings the loop nearer to its end
  (`WorkRunsOut`); the one replan may fill it up once more.
  At the end, `TaskGraph`: an order that Kahn's queue produces exists exactly for the
  graphs that are accepted, and is the one the loop computes (`KahnOrderIsComputed`), so
  that the order `Init` chooses is that of the code (`StartsFromComputedOrder`); and what is
  refused are the cycles (`CyclesAreRefused`).
* `OrchestratorProofs`. `OInv` relates worktrees, attempts and stages: a worker that was
  called belongs to a running node, an entry of `sandboxes` is the last worktree made for
  its node, past the gate all nodes have succeeded, candidates and submissions hold the
  edits of a last worktree in which an attempt succeeded or which `skipNode` left standing
  (`Earned`), and while entries are collected those already seen have given up their edits
  to the candidates (`Gathered`), whether or not their worktrees went. Every step is also a
  step of the scheduler or leaves it alone (`ONextIsNext`), which carries the invariants of
  `WorkflowRuntime` over. `SubmissionIsEarned`, `EditsAreGathered`, the refinement
  `BoundaryIsKept`, and `LateNodesAreBlocked`, whose `Lateness` says that a node that was
  not under way at the deadline can no longer succeed; no hypothesis about replacements is
  needed, for it is about the graph in force.
* `PipelineRunnerProofs`. `Chain` follows an artifact from the run that worked at it to
  the last run of its chain, through the phases of each; `Intact` says that nothing goes
  over a reused stage between its check and its row.
* `AgentAndGraphProofs`. Of a process: before the call there is nothing (`Fresh`), and the history
  variable has seen every child that ran on (`SeenRunning`). Of the routing: the list of
  ids is a listing of the registry, half applied manifests included (`RoutingInv`); that
  the choice is settled follows because scores are numbers with a bound, so that
  one agent is better than all others, whatever the order they are looked at.
  Of the evidence graph (`GraphInv`): `buildGraph` leaves a finite graph whose edges lead
  to nodes (`GraphWell`). A search for neighbours has come d links far (`Level`): its queue
  holds nodes at distance d and then at d + 1, each once, what it visited is what is
  within d and what is queued, and the edges it saw are those of the nodes it left behind;
  with an empty queue this is `NeighborsExact`. A search for paths holds walks of which none
  begins another one on the stack or one that was found (`StackWell`, `FoundWell`), and every
  walk to `toId`, or too long for the graph, is found or begins with one on the stack
  (`NoneForgotten`); with an empty stack every path was found. That a walk longer than
  there are nodes has gone round a cycle is a count of nodes (`CycleMet`), and that round a
  cycle walks of every length go on (`CycleGoesOn`) keeps the stack from being empty where
  there is one.
* `WorkspaceSyncProofs`. A rollback makes an old copy the lockfile, so `CopiesPresent` asks
  of every copy, torn ones included, what `LockedProjectsPresent` asks of the lockfile,
  unless it was carried here;
  `ReportsTrue` asks it of the reports a lockfile is made of; both last because clones never
  get worse on one machine (`Grows`), and a move marks what it carries (`MoveKeeps`). `Captured` carries the snapshot to where the lockfile is written.
  `CommandInv` says what a command knows: its plan is for what the manifest declares and
  for what the host or the lockfile had, and each of its records is true of the host
  (`RecordsTrue`). Nothing else changes the host while it runs, so that `LockfileTellsHost`
  and `SecondRestoreFindsNothing` follow where the command ends.
* `CandidateProofs`. `Lives` looks at every row and the one before it instead of at the
  last one, for a crash takes the last row and the one appended to its line. `Covered`
  counts an unfinished line as paid for before the next append runs into it. `Unapproved`
  says that as long as no human approved, no entry of the history that can be read names a
  human and nothing went through `promote`, whatever `transitionCandidate` did meanwhile.
* `StoreProofs`. The counts against deaths are inductive only when they are taken of the
  *solid* rows, those that the next append cannot garble, with the unfinished line paid
  for in advance; that is the form of `Remembered`, `DeathsPay`, `Backed`, `HiddenOnce`,
  `GivenAsPublished` and `LatestExtracted`. Besides:
  - packages: of a version that is not exposed one call is at work (`Unshared`), no row of
    it is in an unfinished line, and what an install checked is still so when it copies;
    `PlacedInv` knows what a call that is alone finds where it has got to;
  - knowledge: a purge at work spares every content that is shown, or about to be, and not
    suspect (`PurgesSpare`), and what the loss of an unfinished line would bring back is
    suspect (`HiddenSuspect`); ids are given once, and a row is stamped no earlier than what
    its call came after (`StampsInOrder`);
  - memory: a row has its file, whole or torn;
  - evaluation: calls at work overlap (`AllMet`), and those a hidden score has misled are
    one group until one of them writes;
  - ingestion: deaths apart, every version gives the text it was first published with, and
    every key has the extraction of its latest content.

`StrictVersions` stood in a stronger form in which a death paid for one odd score. Its
proof did not go through, and with five calls TLC found why: two calls that overlap
can both be misled by one hidden score. It now counts groups of calls that overlap, and the
run has four calls, for with three no score is odd.

Proofs are laid out alike: a lemma per step or kind of step, one step of it per conjunct
the step disturbs, and facts about tables, counts and least numbers as lemmas
of their own. Recursive functions (`RawAfter`, which appends the rows of an evaluation one
by one, `Within` and `Walks` of the evidence graph, and `TopologicalOrder`) are unrolled:
a function that goes on as they do exists up to every number, by a least counterexample,
so the one that is defined is such a function, and what it keeps is handed on
from number to number (`Iterates`, `HandedOn`). Where the model's
definitions stood in the way, they were put differently: selected agents are compared by
position, manifests are applied turn by turn, and what a table gives are the lines that can
be read, by their numbers.

### What is only model-checked

* Liveness: `Terminates`, `Settles`, `InvocationReturns`, `PromptRemoved`. Fairness and
  ENABLED are out of the prover's reach.
* The properties of the violation runs, which do not hold.

## 6. Not modelled, and the plan

Left for proofs: that the search for paths ends where there is no cycle, by a measure like
`WorkLeft` (the walks that can still be taken from the stack); and the same measure for
the steps that `Orchestrator` adds to the scheduler's.

Left out of modules that model their component in part: pipeline knowledge wiring and a
caller's own `skipNode`; `planTask` and `runTask`, which call the planner first; the
adapter's `status` and `recover`; agent and MCP sections of the lockfile; scopes, retention
kinds and sizes of knowledge; the loader of package declarations (`packages.mjs`);
`runExperiment`, a loop of evaluations.

Left out for good: evaluators, benchmarks, reflections and statistics (numbers without an
order of steps), text normalisation, patterns and the ranking of knowledge (text),
manifests, configuration translation, audit, redaction and secrets (parsing and
formatting), tool detection, the vendor agents' argument lists, the web page, the scripts
and the argument parsing of the command line, whose handlers call the components above.
