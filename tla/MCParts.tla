----------------------------- MODULE MCParts --------------------------------
EXTENDS PackageEcosystem, EvidenceGraph, AgentRouting, MCWorkflow

\* Packages, agents, the evidence graph and a workflow share nothing: one of
\* them is at work.
VARIABLE atWork

ApartInit ==
  /\ PInit /\ GInit /\ AInit /\ Init
  /\ \/ atWork = "workflow"
     \/ atWork \in {"packages", "graph", "agents"} /\ graph = Diamond

ApartNext ==
  \/ atWork = "packages" /\ PNext /\ UNCHANGED <<gvars, avars, vars, atWork>>
  \/ atWork = "graph" /\ GNext /\ UNCHANGED <<pvars, avars, vars, atWork>>
  \/ atWork = "agents" /\ ANext /\ UNCHANGED <<pvars, gvars, vars, atWork>>
  \/ atWork = "workflow" /\ Next /\ UNCHANGED <<pvars, gvars, avars, atWork>>

\* The agents of agents.mjs:130-154: claude-code and codex, and one named before them.
MCBuiltIns ==
  [id \in {1, 2} |->
     [capabilities |-> {"coding"}, tools |-> IF id = 1 THEN {"git", "python"} ELSE {"git"},
      risk |-> IF id = 1 THEN 2 ELSE 1, tokens |-> IF id = 1 THEN 200000 ELSE 128000,
      cost |-> {}, status |-> "UNKNOWN"]]

MCBuiltInIds == <<1, 2>>

MCDeclarations ==
  {[id |-> 0, capabilities |-> {"coding"}, tools |-> {"git"}, risk |-> 2, cost |-> {100}],
   [id |-> 0, tokens |-> 8000, capabilities |-> {"coding"}],
   [id |-> 2, status |-> "DISABLED", risk |-> 2],
   [id |-> 1, tools |-> {"git"}, cost |-> {40}]}

MCRequirements ==
  {[capability |-> "coding", tools |-> {}, risk |-> 0, tokens |-> 8000, budget |-> {}],
   [capability |-> "coding", tools |-> {"git"}, risk |-> 2, tokens |-> 32000, budget |-> {50}]}

MCHappenings ==
  {[agent |-> a, type |-> "NODE_EXECUTION_SUCCEEDED", value |-> v] : a \in 0 .. 1, v \in {10, 300}}
  \cup {[agent |-> a, type |-> "TASK_FAILED", value |-> 0] : a \in 0 .. 2}
  \cup {[agent |-> a, type |-> "COST", value |-> 20] : a \in 1 .. 2}

Symmetry == Permutations(Clients) \cup Permutations(Ids)
=============================================================================
