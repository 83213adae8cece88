----------------------------- MODULE ProcessAgent -----------------------------
(***************************************************************************)
(* src/adapters/process-agent.mjs and process-planner.mjs: invocations of  *)
(* agents and planners, each a child process with a timer, an abort signal *)
(* and temporary files.  One event loop runs the handlers; the children    *)
(* run beside it, and an aborted child may run on for as long as it likes. *)
(***************************************************************************)
CONSTANTS
  Agents,     \* invocations by ProcessAgentInvoker.invoke
  Planners,   \* invocations by ProcessPlanner.plan
  Untimed     \* the invocations whose timeoutMs is 0

ASSUME InvocationAssumption == Agents \cap Planners = {} /\ Untimed \subseteq Agents \cup Planners

Invocations == Agents \cup Planners

VARIABLES
  host,     \* the call: new, waiting for the promise, or returned, thrown
  child,    \* the process: none, running, unspawned, ended (an exit code is known), closed
  code,     \* its exit code, 0 or 1
  held,     \* a process that the child left behind holds its pipes open
  aborted,  \* abortController.signal.aborted
  timer,    \* the timeout is armed
  result,   \* what the promise was resolved with: none, success, failure
  prompt,   \* the prompt file exists
  output,   \* a planner's output file: none, part, whole, or gone while being written
  outlived  \* history: the child ran on when the call returned

vars == <<host, child, code, held, aborted, timer, result, prompt, output, outlived>>

Init ==
  /\ host = [i \in Invocations |-> "new"]
  /\ child = [i \in Invocations |-> "none"]
  /\ code = [i \in Invocations |-> 0]
  /\ held = [i \in Invocations |-> FALSE]
  /\ aborted = [i \in Invocations |-> FALSE]
  /\ timer = [i \in Invocations |-> FALSE]
  /\ result = [i \in Invocations |-> "none"]
  /\ prompt = [i \in Invocations |-> FALSE]
  /\ output = [i \in Invocations |-> "none"]
  /\ outlived = [i \in Invocations |-> FALSE]

\* Invalid agents, shells and working directories are refused without a trace,
\* arguments that are no strings after the prompt file has been written.
Refuse(i) ==
  /\ host[i] = "new"
  /\ host' = [host EXCEPT ![i] = "thrown"]
  /\ prompt' \in {prompt} \cup {[prompt EXCEPT ![j] = TRUE] : j \in {i} \cap Agents}
  /\ UNCHANGED <<child, code, held, aborted, timer, result, output, outlived>>

\* runProcess: the prompt file, the child, which may fail to spawn, and the timer.
Spawn(i) ==
  /\ host[i] = "new"
  /\ host' = [host EXCEPT ![i] = "waiting"]
  /\ prompt' = [prompt EXCEPT ![i] = TRUE]
  /\ \E outcome \in {"running", "unspawned"} : child' = [child EXCEPT ![i] = outcome]
  /\ timer' = [timer EXCEPT ![i] = i \notin Untimed]
  /\ UNCHANGED <<code, held, aborted, result, output, outlived>>

\* resolve: only the first one counts.
Resolve(i, r) == result' = [result EXCEPT ![i] = IF @ = "none" THEN r ELSE @]

\* Mutant: an agent that was aborted has done what it could.
ErrorResultLenient(i) == "success"

ErrorResult(i) == "failure"

\* The 'error' handler.
OnError(i) ==
  /\ timer' = [timer EXCEPT ![i] = FALSE]
  /\ Resolve(i, ErrorResult(i))

\* Mutant: an abort waits for the child's end.
EmitsErrorNever(i) == FALSE

\* abort() kills the child, and Node emits 'error' without waiting for its end.
\* After the child's exit, and on a second abort, it does neither.
EmitsError(i) == child[i] = "running" /\ ~ aborted[i]

Timeout(i) ==
  /\ timer[i]
  /\ timer' = [timer EXCEPT ![i] = FALSE]
  /\ aborted' = [aborted EXCEPT ![i] = TRUE]
  /\ IF EmitsError(i) THEN Resolve(i, ErrorResult(i)) ELSE UNCHANGED result
  /\ UNCHANGED <<host, child, code, held, prompt, output, outlived>>

\* The child's output passes 8 MiB, or the signal of the caller aborts.
AbortEarly(i) ==
  /\ child[i] \in {"running", "ended"}
  /\ ~ aborted[i]
  /\ aborted' = [aborted EXCEPT ![i] = TRUE]
  /\ IF EmitsError(i) THEN OnError(i) ELSE UNCHANGED <<timer, result>>
  /\ UNCHANGED <<host, child, code, held, prompt, output, outlived>>

SpawnError(i) ==
  /\ child[i] = "unspawned"
  /\ child' = [child EXCEPT ![i] = "ended"]
  /\ code' = [code EXCEPT ![i] = 1]
  /\ OnError(i)
  /\ UNCHANGED <<host, held, aborted, prompt, output, outlived>>

\* A planner writes its output file, in two steps; a file that was unlinked
\* meanwhile stays out of sight.
WriteOutput(i) ==
  /\ i \in Planners
  /\ child[i] = "running"
  /\ output[i] \in {"none", "part"}
  /\ output' = [output EXCEPT ![i] = IF @ = "none" THEN "part" ELSE "whole"]
  /\ UNCHANGED <<host, child, code, held, aborted, timer, result, prompt, outlived>>

\* The child ends, killed or not; what it started may keep the pipes.
Exit(i) ==
  /\ child[i] = "running"
  /\ child' = [child EXCEPT ![i] = "ended"]
  /\ \E c \in {0, 1}, h \in BOOLEAN :
       /\ code' = [code EXCEPT ![i] = c]
       /\ held' = [held EXCEPT ![i] = h]
  /\ UNCHANGED <<host, aborted, timer, result, prompt, output, outlived>>

\* Mutant: the prompt file is removed only after a failure.
PromptAfterCloseKept(i) == prompt[i] /\ (i \in Planners \/ code[i] = 0)

\* The 'close' handler unlinks the prompt file that runProcess wrote.
PromptAfterClose(i) == prompt[i] /\ i \in Planners

Close(i) ==
  /\ child[i] = "ended"
  /\ ~ held[i]
  /\ child' = [child EXCEPT ![i] = "closed"]
  /\ timer' = [timer EXCEPT ![i] = FALSE]
  /\ prompt' = [prompt EXCEPT ![i] = PromptAfterClose(i)]
  /\ Resolve(i, IF code[i] = 0 /\ ~ aborted[i] THEN "success" ELSE "failure")
  /\ UNCHANGED <<host, code, held, aborted, output, outlived>>

AgentReturns(i) ==
  /\ i \in Agents
  /\ host[i] = "waiting" /\ result[i] # "none"
  /\ host' = [host EXCEPT ![i] = "returned"]
  /\ outlived' = [outlived EXCEPT ![i] = child[i] = "running"]
  /\ UNCHANGED <<child, code, held, aborted, timer, result, prompt, output>>

\* JSON.parse takes a whole file, and createTaskGraph may still refuse it.
IsPlan(i) == output[i] = "whole"

\* Mutant: the file is unlinked only when it was a plan.
UnlinkedPlan(o) == IF o = "whole" THEN "gone" ELSE o

Unlinked(o) == IF o = "none" THEN "none" ELSE "gone"

\* plan, after the run: whatever became of the planner, the file is the plan.
\* Both files are unlinked.
PlannerReturns(i) ==
  /\ i \in Planners
  /\ host[i] = "waiting" /\ result[i] # "none"
  /\ \/ IsPlan(i) /\ host' = [host EXCEPT ![i] = "returned"]
     \/ host' = [host EXCEPT ![i] = "thrown"]
  /\ prompt' = [prompt EXCEPT ![i] = FALSE]
  /\ output' = [output EXCEPT ![i] = Unlinked(@)]
  /\ outlived' = [outlived EXCEPT ![i] = child[i] = "running"]
  /\ UNCHANGED <<child, code, held, aborted, timer, result>>

Next ==
  \E i \in Invocations :
    \/ Refuse(i)
    \/ Spawn(i)
    \/ Timeout(i)
    \/ AbortEarly(i)
    \/ SpawnError(i)
    \/ WriteOutput(i)
    \/ Exit(i)
    \/ Close(i)
    \/ AgentReturns(i)
    \/ PlannerReturns(i)

\* The event loop: timers fire, events and the end of pipes are delivered, and
\* what awaited goes on.  Nothing makes a child end.
Fairness ==
  \A i \in Invocations :
    /\ WF_vars(Timeout(i))
    /\ WF_vars(SpawnError(i))
    /\ WF_vars(Close(i))
    /\ WF_vars(AgentReturns(i))
    /\ WF_vars(PlannerReturns(i))

Spec == Init /\ [][Next]_vars /\ Fairness

-----------------------------------------------------------------------------
\* When an agent is reported successful its process has ended and so has what
\* held its pipes, and the prompt file is gone: what is collected from the
\* worktree is the agent's last word, and nothing of the workbench's own.
SuccessIsFinal ==
  \A i \in Agents :
    result[i] = "success" => child[i] = "closed" /\ code[i] = 0 /\ ~ prompt[i]

\* A planner's files are deleted when plan() is done (process-planner.mjs:3-7),
\* and one is there afterwards only if the planner outlived its own result.
PlannerFilesGone ==
  \A i \in Planners :
    host[i] \in {"returned", "thrown"} =>
      ~ prompt[i] /\ (output[i] \in {"part", "whole"} => outlived[i])

\* An invocation with a timeout ends, whether or not the process does, unless
\* the process ended and left another one that holds its pipes.
InvocationReturns ==
  \A i \in Invocations \ Untimed : host[i] = "waiting" ~> (host[i] # "waiting" \/ held[i])

\* No prompt file outlasts the agent, also when the call returned before.
PromptRemoved == \A i \in Agents : child[i] = "ended" ~> (~ prompt[i] \/ held[i])
=============================================================================
