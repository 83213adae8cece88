------------------------- MODULE TaskGraphExecution -------------------------
(***************************************************************************)
(* What src/core/workflow-runtime.mjs promises its callers, without        *)
(* batches, attempts, sets or list orders: a node is worked on only once   *)
(* all its dependencies are done, is skipped once one of them cannot be    *)
(* done any more, and the run concludes when every node is settled, with   *)
(* success exactly when every node is done.                                *)
(***************************************************************************)
EXTENDS TaskGraph

CONSTANTS Node, Graphs, Replacements

VARIABLES
  plan,      \* the graph in force
  progress,  \* what became of every node
  revised,   \* a reviewer made the plan be replaced
  verdict    \* NONE, SUCCEEDED or FAILED

absVars == <<plan, progress, revised, verdict>>

Settled == {"DONE", "FAILED", "SKIPPED"}

Init ==
  /\ plan \in Graphs
  /\ progress = [n \in Node |-> IF n \in Nodes(plan) THEN "WAITING" ELSE "ABSENT"]
  /\ revised = FALSE
  /\ verdict = "NONE"

Start(n) ==
  /\ verdict = "NONE"
  /\ progress[n] = "WAITING"
  /\ \A d \in plan.deps[n] : progress[d] = "DONE"
  /\ progress' = [progress EXCEPT ![n] = "WORKING"]
  /\ UNCHANGED <<plan, revised, verdict>>

Finish(n) ==
  /\ progress[n] = "WORKING"
  /\ \E outcome \in {"DONE", "FAILED"} : progress' = [progress EXCEPT ![n] = outcome]
  /\ UNCHANGED <<plan, revised, verdict>>

\* Every member of S lost a dependency, at the latest to the others of S.
Skip(S) ==
  /\ verdict = "NONE"
  /\ \A n \in S : /\ progress[n] = "WAITING"
                  /\ \E d \in plan.deps[n] : progress[d] \in {"FAILED", "SKIPPED"} \/ d \in S
  /\ progress' = [n \in Node |-> IF n \in S THEN "SKIPPED" ELSE progress[n]]
  /\ UNCHANGED <<plan, revised, verdict>>

AllSettled == \A n \in Nodes(plan) : progress[n] \in Settled

Revise(g) ==
  /\ verdict = "NONE"
  /\ ~ revised
  /\ AllSettled
  /\ \E n \in Nodes(plan) : progress[n] = "FAILED"
  /\ \E kept \in SUBSET {n \in Nodes(g) : progress[n] = "DONE"} :
       progress' = [n \in Node |-> IF n \in kept THEN "DONE"
                                   ELSE IF n \in Nodes(g) THEN "WAITING" ELSE "ABSENT"]
  /\ plan' = g
  /\ revised' = TRUE
  /\ UNCHANGED verdict

Conclude ==
  /\ verdict = "NONE"
  /\ AllSettled
  /\ verdict' = IF \A n \in Nodes(plan) : progress[n] = "DONE"
                THEN "SUCCEEDED" ELSE "FAILED"
  /\ UNCHANGED <<plan, progress, revised>>

\* No usable fallback could be had for a node: the run ends without it.
Abandon(n) ==
  /\ verdict = "NONE"
  /\ progress[n] = "WORKING"
  /\ progress' = [progress EXCEPT ![n] = "FAILED"]
  /\ verdict' = "FAILED"
  /\ UNCHANGED <<plan, revised>>

\* The replacement was no usable plan.
RefuseRevision ==
  /\ verdict = "NONE"
  /\ ~ revised
  /\ AllSettled
  /\ \E n \in Nodes(plan) : progress[n] = "FAILED"
  /\ revised' = TRUE
  /\ verdict' = "FAILED"
  /\ UNCHANGED <<plan, progress>>

Next ==
  \/ \E n \in Node : Start(n) \/ Finish(n) \/ Abandon(n)
  \/ \E S \in SUBSET Node : Skip(S)
  \/ \E g \in Replacements : Revise(g)
  \/ RefuseRevision
  \/ Conclude

Spec == Init /\ [][Next]_absVars
=============================================================================
