------------------------------- MODULE MCStores -------------------------------
EXTENDS KnowledgeStore, ProjectMemory, SourceIngestion, Evaluation, CandidateLifecycle, TLC

\* The five share no table and no file: one of them is at work at a time.
VARIABLE atWork

KeptInit ==
  /\ KInit /\ MInit /\ SInit /\ Init
  /\ \/ atWork = "evaluation" /\ EInit
     \/ /\ atWork \in {"knowledge", "memory", "ingestion", "candidates"}
        /\ stage = [e \in Evaluations |-> "new"]
        /\ version = [e \in Evaluations |-> "no evaluator"]
        /\ strict = [e \in Evaluations |-> FALSE]
        /\ met = [e \in Evaluations |-> {}]
        /\ raw = EmptyTable /\ scores = EmptyTable /\ faults = 0

\* Calls of evaluate() differ in what they are given only: they begin in their order.
InOrder == \A e, f \in Evaluations : e < f /\ stage[e] = "new" => stage[f] = "new"

KeptNext ==
  \/ atWork = "knowledge" /\ KNext /\ UNCHANGED <<mvars, svars, evars, vars, atWork>>
  \/ atWork = "memory" /\ MNext /\ UNCHANGED <<kvars, svars, evars, vars, atWork>>
  \/ atWork = "ingestion" /\ SNext /\ UNCHANGED <<kvars, mvars, evars, vars, atWork>>
  \/ atWork = "evaluation" /\ ENext /\ InOrder' /\ UNCHANGED <<kvars, mvars, svars, vars, atWork>>
  \/ atWork = "candidates" /\ Next /\ UNCHANGED <<kvars, mvars, svars, evars, atWork>>

\* The contents of all are the same model values, and so are the processes and
\* the versions of evaluators and of candidates.
Symmetry == Permutations(Processes) \cup Permutations(Contents)
=============================================================================
