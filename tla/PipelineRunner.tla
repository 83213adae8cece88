---------------------------- MODULE PipelineRunner ----------------------------
(***************************************************************************)
(* PipelineRunner.run of src/core/pipeline-runner.mjs over several runs of *)
(* one pipeline: artifacts on disk, their rows and the stage rows in the   *)
(* state store, resuming from an earlier run, and crashes in between.      *)
(*                                                                         *)
(* A stage has one output artifact.  Stages run one at a time, each after  *)
(* those it depends on: what WorkflowOrderProofs shows of the scheduler    *)
(* for the graphs compilePipeline makes.  The approval and the Runtime's   *)
(* answer (Orchestrator) are one nondeterministic step here.               *)
(***************************************************************************)
EXTENDS Naturals, Sequences, FiniteSets

CONSTANTS
  StageList,    \* the template's stages, producers before consumers
  Deps,         \* for every stage, the stages that produce its inputs
  MaxAttempts,  \* for every stage, its node's maxAttempts
  Content,      \* what artifacts may hold
  Goals,        \* the tasks' goals: they are part of every definitionHash
  Answers,      \* finalStatus when a candidate reaches approval
  MaxRuns,      \* bound: runs
  MaxEdits,     \* bound: artifact files edited by others
  None          \* no artifact, no row

Stage == {StageList[i] : i \in DOMAIN StageList}

ASSUME StageAssumption ==
  \A i \in DOMAIN StageList :
    Deps[StageList[i]] \subseteq {StageList[j] : j \in 1 .. (i - 1)}

\* A pipeline_stage row: the goal stands for the definitionHash.
StageRow ==
  [goal : Goals, status : {"SUCCEEDED", "FAILED", "BLOCKED"}, hash : Content \cup {None}]

ASSUME AttemptAssumption == \A s \in Stage : MaxAttempts[s] \in Nat \ {0}
ASSUME NoneAssumption == None \notin Stage \cup Content \cup StageRow
ASSUME BoundAssumption == MaxRuns \in Nat /\ MaxEdits \in Nat

VARIABLES
  disk,     \* the artifact file of every stage
  meta,     \* the content hash in the latest pipeline_artifact row
  rows,     \* pipeline_stage rows, by run and stage
  run,      \* runs started so far: the last one is the current one
  goal,     \* the current task's goal
  base,     \* resumeRunId, 0 without one
  phase,    \* idle, running or recording
  status,   \* the nodes of the execution report
  tries,    \* failed attempts at a stage that will be tried again
  reused,   \* stages skipNode answered for
  working,  \* the stage whose agent is at work, or None
  changed,  \* some stage's worktree holds edits
  final,    \* the orchestrator's finalStatus, by run
  edits,    \* edits by others so far
  worked    \* history: successful attempts with an artifact, in a chain of resumes

vars == <<disk, meta, rows, run, goal, base, phase, status, tries, reused, working,
          changed, final, edits, worked>>

tables == <<disk, meta, rows>>
call   == <<run, goal, base>>
local  == <<status, tries, reused, changed>>

Runs == 1 .. MaxRuns

Init ==
  /\ disk = [s \in Stage |-> None]
  /\ meta = [s \in Stage |-> None]
  /\ rows = [r \in Runs |-> [s \in Stage |-> None]]
  /\ run = 0
  /\ goal \in Goals
  /\ base = 0
  /\ phase = "idle"
  /\ status = [s \in Stage |-> "PENDING"]
  /\ tries = [s \in Stage |-> 0]
  /\ reused = {}
  /\ changed = FALSE
  /\ working = None
  /\ final = [r \in Runs |-> "NONE"]
  /\ edits = 0
  /\ worked = [s \in Stage |-> 0]

\* What one call of run() keeps for itself is gone when the call is over.
CallIsOver ==
  /\ phase' = "idle"
  /\ working' = None
  /\ status' = [s \in Stage |-> "PENDING"]
  /\ tries' = [s \in Stage |-> 0]
  /\ reused' = {}
  /\ changed' = FALSE
  /\ base' = 0

\* The run goes on where the last one was recorded, with the same task.
Continues(g, b) == b # 0 /\ b = run /\ g = goal /\ \A s \in Stage : rows[b][s] # None

StartRun(g, b) ==
  /\ phase = "idle"
  /\ run < MaxRuns
  /\ run' = run + 1
  /\ goal' = g
  /\ base' = b
  /\ phase' = "running"
  /\ worked' = IF Continues(g, b) THEN worked ELSE [s \in Stage |-> 0]
  /\ UNCHANGED <<tables, local, working, final, edits>>

\* Another program edits or removes an artifact file.
EditArtifact(s) ==
  /\ phase = "idle"
  /\ edits < MaxEdits
  /\ \E c \in (Content \cup {None}) \ {disk[s]} : disk' = [disk EXCEPT ![s] = c]
  /\ edits' = edits + 1
  /\ worked' = [worked EXCEPT ![s] = 0]
  /\ UNCHANGED <<meta, rows, call, phase, local, working, final>>

-----------------------------------------------------------------------------
Due(s) ==
  /\ phase = "running"
  /\ working = None
  /\ status[s] = "PENDING"
  /\ \A d \in Deps[s] : status[d] = "SUCCEEDED"

\* Mutant: the file is not read, the artifact row is trusted.
VerifiedByRow(s) ==
  /\ base # 0
  /\ rows[base][s] # None
  /\ rows[base][s].goal = goal
  /\ meta[s] # None
  /\ meta[s] = rows[base][s].hash

\* skipNode: the row of the run resumed from has the node's definitionHash,
\* and the file has the hash of its artifact row and of that stage row.
Verified(s) ==
  /\ base # 0
  /\ rows[base][s] # None
  /\ rows[base][s].goal = goal
  /\ meta[s] # None
  /\ disk[s] = meta[s]
  /\ disk[s] = rows[base][s].hash

Reuse(s) ==
  /\ Due(s)
  /\ Verified(s)
  /\ status' = [status EXCEPT ![s] = "SUCCEEDED"]
  /\ reused' = reused \cup {s}
  /\ UNCHANGED <<tables, call, phase, tries, working, changed, final, edits, worked>>

Invoke(s) ==
  /\ Due(s)
  /\ ~ Verified(s)
  /\ working' = s
  /\ UNCHANGED <<tables, call, phase, status, tries, reused, changed, final, edits, worked>>

\* The attempt's end: a failed one is tried again while attempts are left.
Outcome(s, ok) ==
  /\ working' = None
  /\ IF ~ ok /\ tries[s] + 1 < MaxAttempts[s]
     THEN tries' = [tries EXCEPT ![s] = @ + 1] /\ UNCHANGED status
     ELSE /\ tries' = [tries EXCEPT ![s] = 0]
          /\ status' = [status EXCEPT ![s] = IF ok THEN "SUCCEEDED" ELSE "FAILED"]
  /\ changed' \in IF ok THEN {changed, TRUE} ELSE {changed}

\* Mutant: the artifact's row is left out.
FinishWithoutRow(s, ok, c) ==
  /\ working = s
  /\ disk' = [disk EXCEPT ![s] = c]
  /\ Outcome(s, ok)
  /\ worked' = [worked EXCEPT ![s] = IF ok THEN @ + 1 ELSE @]
  /\ UNCHANGED <<meta, rows, call, phase, reused, final, edits>>

\* transformResult persists the declared artifact, of failed results too.
FinishWith(s, ok, c) ==
  /\ working = s
  /\ disk' = [disk EXCEPT ![s] = c]
  /\ meta' = [meta EXCEPT ![s] = c]
  /\ Outcome(s, ok)
  /\ worked' = [worked EXCEPT ![s] = IF ok THEN @ + 1 ELSE @]
  /\ UNCHANGED <<rows, call, phase, reused, final, edits>>

\* The result names no artifact, or one that transformResult refuses.
FinishBare(s, ok) ==
  /\ working = s
  /\ Outcome(s, ok)
  /\ UNCHANGED <<tables, call, phase, reused, final, edits, worked>>

Failures == {s \in Stage : status[s] = "FAILED"}

\* Mutant: what was not reached keeps its state.
GraphEndsUnmarked ==
  /\ phase = "running"
  /\ working = None
  /\ \A s \in Stage : ~ Due(s)
  /\ \E f \in IF Failures # {} \/ ~ changed THEN {"FAILED"} ELSE Answers :
       final' = [final EXCEPT ![run] = f]
  /\ phase' = "recording"
  /\ UNCHANGED <<tables, call, status, tries, reused, working, changed, edits, worked>>

\* runGraph resolved: what was not reached is BLOCKED.
GraphEnds ==
  /\ phase = "running"
  /\ working = None
  /\ \A s \in Stage : ~ Due(s)
  /\ status' = [s \in Stage |-> IF status[s] = "PENDING" THEN "BLOCKED" ELSE status[s]]
  /\ \E f \in IF Failures # {} \/ ~ changed THEN {"FAILED"}
              ELSE Answers :
       final' = [final EXCEPT ![run] = f]
  /\ phase' = "recording"
  /\ UNCHANGED <<tables, call, tries, reused, working, changed, edits, worked>>

\* runGraph rejected (selectFallback, an unfit change set, the Runtime): nothing
\* is recorded.
GraphThrows ==
  /\ phase = "running"
  /\ working = None
  /\ Failures # {} \/ \A s \in Stage : status[s] = "SUCCEEDED"
  /\ CallIsOver
  /\ UNCHANGED <<tables, run, goal, final, edits, worked>>

Row(s) == [goal |-> goal, status |-> status[s], hash |-> meta[s]]

\* Mutant: a reused stage gets a row without hashes.
RecordForgetsReused ==
  /\ phase = "recording"
  /\ rows' = [rows EXCEPT ![run] =
                [s \in Stage |-> IF s \in reused THEN [Row(s) EXCEPT !.hash = None] ELSE Row(s)]]
  /\ CallIsOver
  /\ UNCHANGED <<disk, meta, run, goal, final, edits, worked>>

\* One row per stage, with the latest hash of any run.
Record ==
  /\ phase = "recording"
  /\ rows' = [rows EXCEPT ![run] = [s \in Stage |-> Row(s)]]
  /\ CallIsOver
  /\ UNCHANGED <<disk, meta, run, goal, final, edits, worked>>

\* The process dies: while an agent works, between an artifact's file and its
\* row, or after some of the stage rows.
CrashAtWork ==
  /\ phase = "running"
  /\ working # None
  /\ \E c \in Content \cup {disk[working]} : disk' = [disk EXCEPT ![working] = c]
  /\ CallIsOver
  /\ UNCHANGED <<meta, rows, run, goal, final, edits, worked>>

CrashRecording ==
  /\ phase = "recording"
  /\ \E k \in 0 .. (Len(StageList) - 1) :
       rows' = [rows EXCEPT ![run] =
                 [s \in Stage |-> IF \E i \in 1 .. k : StageList[i] = s THEN Row(s) ELSE None]]
  /\ CallIsOver
  /\ UNCHANGED <<disk, meta, run, goal, final, edits, worked>>

StageStep ==
  \/ \E s \in Stage : Reuse(s) \/ Invoke(s)
  \/ \E s \in Stage, ok \in BOOLEAN : FinishBare(s, ok)
  \/ \E s \in Stage, ok \in BOOLEAN, c \in Content : FinishWith(s, ok, c)

RunStep == StageStep \/ GraphEnds \/ GraphThrows \/ Record

Next ==
  \/ \E g \in Goals, b \in 0 .. run : StartRun(g, b)
  \/ \E s \in Stage : EditArtifact(s)
  \/ RunStep
  \/ CrashAtWork
  \/ CrashRecording

Spec == Init /\ [][Next]_vars

-----------------------------------------------------------------------------
TypeOK ==
  /\ disk \in [Stage -> Content \cup {None}]
  /\ meta \in [Stage -> Content \cup {None}]
  /\ rows \in [Runs -> [Stage -> StageRow \cup {None}]]
  /\ run \in 0 .. MaxRuns
  /\ base \in 0 .. run
  /\ phase = "idle" => working = None
  /\ \A s \in Stage : tries[s] \in 0 .. (MaxAttempts[s] - 1)

\* Along a chain of resumes whose task stays the same, and as long as nobody
\* touches its artifact, a stage that succeeded and left its artifact is not
\* worked at again, however many runs the chain has, wherever they failed and
\* whatever other stages were run again in between.
SideEffectsOnce == \A s \in Stage : worked[s] <= 1

\* What a run reuses stays what it was: from the check to the rows the run
\* writes, a reused stage's file, its latest artifact row and its row in the run
\* resumed from carry one hash, whatever attempts of other runs, failed or
\* crashed ones among them, went over the same file.
ReusedIntact ==
  \A s \in reused :
    /\ rows[base][s].goal = goal
    /\ disk[s] = rows[base][s].hash
    /\ meta[s] = rows[base][s].hash

\* A stage is reused only if the run resumed from records its success
\* (docs/level-3-acceptance.md:48: "re-runs only the failed stage").
ReusedSucceeded ==
  \A s \in reused : rows[base][s].status = "SUCCEEDED"
=============================================================================
