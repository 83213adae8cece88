------------------------------ MODULE TaskGraph ------------------------------
(***************************************************************************)
(* src/core/task-graph.mjs: the validated task graph.  A graph is a record *)
(*   list         the sequence of node ids, in the order of graph.nodes    *)
(*   deps         for every id, the set of ids its node depends on         *)
(*   kind         for every id, "work", "review" or "correction"           *)
(*   maxAttempts  for every id, how often one agent may be invoked         *)
(*   goal         for every id, what the node has to do                    *)
(* Ids are naturals: the code only compares and sorts them.                *)
(***************************************************************************)
EXTENDS Naturals, Sequences

Kinds == {"work", "review", "correction"}

Nodes(g) == {g.list[i] : i \in DOMAIN g.list}

\* definitionHash: a digest of every field of the node's definition.
DefinitionHash(g, n) ==
  <<n, g.goal[n], g.deps[n], g.kind[n], g.maxAttempts[n]>>

NodeListRejected(g) ==
  \/ \E i, j \in DOMAIN g.list : i # j /\ g.list[i] = g.list[j]
  \/ \E n \in Nodes(g) : \/ n \in g.deps[n]
                         \/ g.maxAttempts[n] < 1
                         \/ ~ g.deps[n] \subseteq Nodes(g)

\* Kahn's queue once the ids in `emitted` were taken from it.
KahnReady(g, emitted) == {n \in Nodes(g) \ emitted : g.deps[n] \subseteq emitted}

\* The queue is sorted after every push, so its head is its least member.
KahnHead(g, emitted) ==
  CHOOSE n \in KahnReady(g, emitted) : \A m \in KahnReady(g, emitted) : n <= m

\* The order the loop builds: one id an iteration, until the queue is empty.
TopologicalOrder(g) ==
  LET order[k \in 0 .. Len(g.list)] ==
        IF k = 0 THEN <<>>
        ELSE LET sofar   == order[k - 1]
                 emitted == {sofar[i] : i \in DOMAIN sofar}
             IN  IF KahnReady(g, emitted) = {} THEN sofar
                 ELSE Append(sofar, KahnHead(g, emitted))
  IN  order[Len(g.list)]

\* createTaskGraph: a short order means a cycle.
CreateTaskGraphAccepts(g) ==
  /\ ~ NodeListRejected(g)
  /\ Len(TopologicalOrder(g)) = Len(g.list)

\* A complete order that Kahn's queue produces, position by position.
IsKahnOrder(g, o) ==
  /\ Nodes(g) = {o[i] : i \in DOMAIN o}
  /\ \A i \in DOMAIN o :
       LET emitted == {o[j] : j \in 1 .. (i - 1)}
       IN  /\ o[i] \in KahnReady(g, emitted)
           /\ \A m \in KahnReady(g, emitted) : o[i] <= m
=============================================================================
