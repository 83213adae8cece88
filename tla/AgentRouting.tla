----------------------------- MODULE AgentRouting -----------------------------
(***************************************************************************)
(* src/core/agents.mjs, the registry of agents and what a manifest does to *)
(* it, and src/core/capabilities.mjs, which picks the agent of a node with *)
(* or without metrics derived from events.  Ids are naturals, for the      *)
(* router orders them; scores are in ten-thousandths.                      *)
(***************************************************************************)
EXTENDS Integers, FiniteSets, SequencesExt

CONSTANTS
  BuiltIns,      \* built-in agents: id -> definition
  BuiltInIds,    \* their ids in the order _builtins sets them
  Declarations,  \* what a manifest or a caller may say of an agent: its id and some fields
  Broken,        \* a declaration that validateAgentDefinition refuses
  Requirements,  \* what deriveRequirement makes of nodes and tasks
  Happenings,    \* events about agents: [agent, type, value]
  MaxChanges,    \* bound: calls that change the registry
  MaxEvents      \* bound: events metrics are derived from

EventTypes == {"NODE_EXECUTION_SUCCEEDED", "TASK_FAILED", "COST"}

Known == DOMAIN BuiltIns \cup {decl.id : decl \in Declarations}

ASSUME RoutingAssumption ==
  /\ Known \subseteq Nat /\ IsFiniteSet(DOMAIN BuiltIns) /\ BuiltInIds \in SetToSeqs(DOMAIN BuiltIns)
  /\ Broken \notin Declarations
  /\ Happenings \subseteq [agent : Known, type : EventTypes, value : Nat]

VARIABLES
  registry,  \* id -> definition
  mapOrder,  \* the ids, in the order the Map keeps them
  todo,      \* declarations of a manifest that are yet to be applied
  tally,     \* agent, type of event -> how many events, and the sum of their values
  events,    \* how many there were
  changes    \* calls that changed the registry

avars == <<registry, mapOrder, todo, tally, events, changes>>

AInit ==
  /\ registry = BuiltIns
  /\ mapOrder = BuiltInIds
  /\ todo = <<>>
  /\ tally = [about \in Known \X EventTypes |-> [count |-> 0, sum |-> 0]]
  /\ events = 0
  /\ changes = 0

\* The constructor's defaults; a cost is a set of at most one number.
Default ==
  [capabilities |-> {}, tools |-> {}, risk |-> 1, tokens |-> 32000, cost |-> {}, status |-> "UNKNOWN"]

Overridden(def, decl, fields) ==
  [f \in DOMAIN Default |-> IF f \in fields \cap DOMAIN decl THEN decl[f] ELSE def[f]]

New(decl) == Overridden(Default, decl, DOMAIN Default)

\* A manifest does not change the status of an agent the registry has.
Merged(def, decl) == Overridden(def, decl, DOMAIN Default \ {"status"})

Put(reg, id, def) == [i \in DOMAIN reg \cup {id} |-> IF i = id THEN def ELSE reg[i]]

PutLast(ids, id) == IF id \in Range(ids) THEN ids ELSE Append(ids, id)

PutDefinition(id, def) ==
  /\ registry' = Put(registry, id, def)
  /\ mapOrder' = PutLast(mapOrder, id)

Register(decl) ==
  /\ todo = <<>> /\ changes < MaxChanges
  /\ changes' = changes + 1
  /\ PutDefinition(decl.id, New(decl))
  /\ UNCHANGED <<todo, tally, events>>

ApplyManifest(decls) ==
  /\ todo = <<>> /\ changes < MaxChanges
  /\ changes' = changes + 1
  /\ todo' = decls
  /\ UNCHANGED <<registry, mapOrder, tally, events>>

\* One turn of applyManifest's loop.
ApplyDeclaration ==
  /\ todo # <<>> /\ Head(todo) # Broken
  /\ LET decl == Head(todo)
     IN  PutDefinition(decl.id,
           IF decl.id \in DOMAIN registry THEN Merged(registry[decl.id], decl) ELSE New(decl))
  /\ todo' = Tail(todo)
  /\ UNCHANGED <<tally, events, changes>>

\* validateAgentDefinition throws: what came before stays applied.
RefuseDeclaration ==
  /\ todo # <<>> /\ Head(todo) = Broken
  /\ todo' = <<>>
  /\ UNCHANGED <<registry, mapOrder, tally, events, changes>>

\* An event: a success with its duration, a failure, or a cost.
Event(e) ==
  /\ todo = <<>> /\ events < MaxEvents
  /\ events' = events + 1
  /\ tally' = [tally EXCEPT ![<<e.agent, e.type>>] = [count |-> @.count + 1, sum |-> @.sum + e.value]]
  /\ UNCHANGED <<registry, mapOrder, todo, changes>>

Clamp(n) == IF n < 0 THEN 0 ELSE IF n > 100 THEN 100 ELSE n

Average(values, default) == IF values.count = 0 THEN default ELSE values.sum \div values.count

\* deriveRouterMetrics, in hundredths: durations are in hundredths of a second,
\* costs in hundredths of a dollar.
Metrics(id) ==
  LET successes == tally[<<id, "NODE_EXECUTION_SUCCEEDED">>]
      total == successes.count + tally[<<id, "TASK_FAILED">>].count
  IN  [historicalSuccess |-> IF total = 0 THEN 50 ELSE (100 * successes.count) \div total,
       latency |-> Average(successes, 50),
       cost |-> Average(tally[<<id, "COST">>], 50)]

NoMetrics == [historicalSuccess |-> 50, latency |-> 50, cost |-> 50]

\* What the filters of rankAgents let pass; risk and tokens are always given.
Eligible(q, def) ==
  /\ def.status # "DISABLED"
  /\ q.capability \in def.capabilities
  /\ q.tools \subseteq def.tools
  /\ def.risk >= q.risk
  /\ q.tokens <= def.tokens
  /\ \A cost \in def.cost, most \in q.budget : cost <= most

\* DEFAULT_ROUTER_WEIGHTS; every agent is available, as runNode says.
Score(q, m) ==
  40 * 100 + 20 * Clamp(m.historicalSuccess) + 15 * 100
    + 10 * Clamp(100 - m.cost) + 5 * Clamp(100 - m.latency)
    + (IF q.tools # {} THEN 10 * 100 ELSE 0)

\* Mutant: agents of equal scores stay in the order of the list.
PrecedesStable(ids, score, i, j) ==
  score[i] > score[j] \/ (score[i] = score[j] /\ i < j)

\* The comparison rankAgents sorts with.
Precedes(ids, score, i, j) ==
  score[i] > score[j] \/ (score[i] = score[j] /\ ids[i] < ids[j])

\* selectAgent among a list of agents: the first in rankAgents' order, or nobody.
SelectAgent(q, ids, metrics) ==
  LET matched == {i \in DOMAIN ids : Eligible(q, registry[ids[i]])}
      score == [i \in matched |-> Score(q, metrics[ids[i]])]
  IN  {ids[i] : i \in {j \in matched : \A k \in matched \ {j} : Precedes(ids, score, j, k)}}

ANext ==
  \/ \E decl \in Declarations : Register(decl)
  \/ \E decls \in SeqOf(Declarations \cup {Broken}, 2) : ApplyManifest(decls)
  \/ ApplyDeclaration
  \/ RefuseDeclaration
  \/ \E e \in Happenings : Event(e)

ASpec == AInit /\ [][ANext]_avars

-----------------------------------------------------------------------------
\* capabilities.mjs:169-253: whatever was registered, merged or half applied, and
\* with metrics or without, some agent is selected exactly when one is eligible,
\* none that is eligible has a better score, and the order in which the agents
\* came into the registry decides nothing.
SelectionSettled ==
  \A q \in Requirements,
     metrics \in {[id \in DOMAIN registry |-> Metrics(id)], [id \in DOMAIN registry |-> NoMetrics]} :
    LET eligible == {id \in DOMAIN registry : Eligible(q, registry[id])}
        selected == SelectAgent(q, mapOrder, metrics)
    IN  /\ selected \subseteq eligible
        /\ Cardinality(selected) = IF eligible = {} THEN 0 ELSE 1
        /\ \A id \in selected, other \in eligible : Score(q, metrics[other]) <= Score(q, metrics[id])
        /\ \A ids \in SetToSeqs(DOMAIN registry) : SelectAgent(q, ids, metrics) = selected
=============================================================================
