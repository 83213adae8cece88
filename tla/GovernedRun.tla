----------------------------- MODULE GovernedRun -----------------------------
(***************************************************************************)
(* The trust boundary that src/core/orchestrator.mjs promises, without     *)
(* agents, worktrees or scheduling: a change reaches the Runtime at most   *)
(* once, only after all the work succeeded, and the run is COMPLETED only  *)
(* when the Runtime said finish and its event store is intact.             *)
(***************************************************************************)
EXTENDS Naturals

CONSTANT Changes  \* every change an agent may leave behind

VARIABLES
  work,    \* open, done or failed
  action,  \* the changes handed to the Runtime
  answer,  \* what the Runtime answered
  outcome  \* finalStatus, THREW or NONE

absVars == <<work, action, answer, outcome>>

Answers == {"finish", "continue", "corrupt"}

Init ==
  /\ work = "open"
  /\ action = {}
  /\ answer = "none"
  /\ outcome = "NONE"

FinishWork ==
  /\ work = "open"
  /\ outcome = "NONE"
  /\ work' \in {"done", "failed"}
  /\ UNCHANGED <<action, answer, outcome>>

Submit ==
  /\ work = "done"
  /\ action = {}
  /\ outcome = "NONE"
  /\ action' \subseteq Changes
  /\ \E c \in action' : action' = {c}
  /\ UNCHANGED <<work, answer, outcome>>

Allowed(o, a) ==
  CASE o = "COMPLETED"         -> action # {} /\ a = "finish"
    [] o = "QUARANTINED"       -> action # {} /\ a = "corrupt"
    [] o = "AWAITING_APPROVAL" -> work = "done" /\ (action = {} <=> a = "none")
                                                /\ a \in {"none", "continue"}
    [] o = "FAILED"            -> action = {} /\ a = "none"
    [] o = "THREW"             -> a = "none"

Conclude ==
  /\ outcome = "NONE"
  /\ \E o \in {"COMPLETED", "QUARANTINED", "AWAITING_APPROVAL", "FAILED", "THREW"},
        a \in Answers \cup {"none"} :
       Allowed(o, a) /\ outcome' = o /\ answer' = a
  /\ UNCHANGED <<work, action>>

Next == FinishWork \/ Submit \/ Conclude

Spec == Init /\ [][Next]_absVars
=============================================================================
