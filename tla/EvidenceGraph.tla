---------------------------- MODULE EvidenceGraph ----------------------------
(***************************************************************************)
(* src/core/intelligence/graph.mjs: the evidence graph made of the rows of *)
(* the state store, and its two searches, one action per turn of their     *)
(* loops.  Runs, candidates and sources are named by their users, so one   *)
(* set of ids serves all three; nodes are looked up by id alone.  Knowledge*)
(* and package rows add nodes without edges and are left out.              *)
(***************************************************************************)
EXTENDS Naturals, FiniteSets, SequencesExt

CONSTANTS
  Ids,
  MaxDepth,   \* maxDepth of neighborsOf
  MaxRows     \* bound: rows of the store

ASSUME DepthAssumption == MaxDepth \in Nat \ {0}

VARIABLES
  rows,    \* table -> its rows
  built,   \* what buildGraph returned
  search   \* the search that is going on

gvars == <<rows, built, search>>

Tables == {"trajectory", "evaluation_score", "evaluation_raw", "candidate", "candidate_history",
           "candidate_benchmark", "intelligence_source", "intelligence_extraction"}

NoGraph == [nodes |-> {}, edges |-> {}]

GInit ==
  /\ rows = [t \in Tables |-> <<>>]
  /\ built = NoGraph
  /\ search = [query |-> "none"]

Has(t, id) == \E i \in DOMAIN rows[t] : rows[t][i].id = id

\* Rows as their writers leave them: history and benchmarks are of candidates
\* that were proposed, extractions of sources that were registered, and a
\* candidate has evidence links.
AddRow(t, id, links) ==
  /\ built = NoGraph
  /\ MapThenSumSet(LAMBDA u : Len(rows[u]), Tables) < MaxRows
  /\ t \in {"candidate_history", "candidate_benchmark"} => Has("candidate", id)
  /\ t = "intelligence_extraction" => Has("intelligence_source", id)
  /\ t = "candidate" <=> links # {}
  /\ rows' = [rows EXCEPT ![t] = Append(@, [id |-> id, links |-> links])]
  /\ UNCHANGED <<built, search>>

\* The id of a node that stands for a row; all scores are of one evaluator.
Derived(t, i) == IF t = "evaluation_score" THEN <<t, 0>> ELSE <<t, i>>

\* latestByCandidate
LinksOf(c) == rows["candidate"][CHOOSE i \in DOMAIN rows["candidate"] :
                 /\ rows["candidate"][i].id = c
                 /\ \A j \in DOMAIN rows["candidate"] : rows["candidate"][j].id = c => j <= i].links

Candidates == {c \in Ids : Has("candidate", c)}

\* addNode, once for a kind and an id.
GraphNodes ==
  {[kind |-> "trajectory", id |-> row.id] :
     row \in Range(rows["trajectory"]) \cup Range(rows["evaluation_score"])}
  \cup {[kind |-> "intelligence_source", id |-> row.id] : row \in Range(rows["intelligence_source"])}
  \cup {[kind |-> "candidate", id |-> c] : c \in Candidates}
  \cup UNION {{[kind |-> t, id |-> Derived(t, i)] : i \in DOMAIN rows[t]} :
                t \in {"evaluation_score", "evaluation_raw", "candidate_history",
                       "candidate_benchmark", "intelligence_extraction"}}

\* addEdge, with what the edge was made for.
Edge(from, to, t, i) == [from |-> from, to |-> to, for |-> <<t, i>>]

\* An edge for every row of a table, from the row's subject or towards it.
FromSubject(t) == {Edge(rows[t][i].id, Derived(t, i), t, i) : i \in DOMAIN rows[t]}

ToSubject(t) == {Edge(Derived(t, i), rows[t][i].id, t, i) : i \in DOMAIN rows[t]}

\* The block that makes them is there twice.
References ==
  UNION {{Edge(c, ref, "references", pass) :
            ref \in LinksOf(c) \cap {n.id : n \in GraphNodes}, pass \in 1 .. 2} : c \in Candidates}

Ambiguous ==
  {e \in FromSubject("evaluation_raw") : e.from \in Candidates /\ ~ Has("evaluation_score", e.from)}

BuildGraph ==
  /\ built = NoGraph
  /\ built' = [nodes |-> GraphNodes,
               edges |-> FromSubject("evaluation_score") \cup ToSubject("candidate_history")
                           \cup FromSubject("candidate_benchmark")
                           \cup ToSubject("intelligence_extraction")
                           \cup References \cup Ambiguous]
  /\ UNCHANGED <<rows, search>>

Out(id) == {e \in built.edges : e.from = id}

\* neighborsOf
StartNeighbors(id) ==
  /\ built # NoGraph /\ search.query = "none"
  /\ search' = [query |-> "neighbors", from |-> id, visited |-> {id}, seen |-> <<>>,
                queue |-> <<[id |-> id, depth |-> 0]>>]
  /\ UNCHANGED <<rows, built>>

\* Mutant: nodes at the greatest depth are expanded as well.
ExpandedBeyond(entry) == entry.depth <= MaxDepth

Expanded(entry) == entry.depth < MaxDepth

VisitNext ==
  /\ search.query = "neighbors" /\ search.queue # <<>>
  /\ LET entry == Head(search.queue)
         edges == IF Expanded(entry) THEN Out(entry.id) ELSE {}
         new == {e.to : e \in edges} \ search.visited
     IN  search' = [search EXCEPT
           !.queue = Tail(@) \o SetToSeq({[id |-> id, depth |-> entry.depth + 1] : id \in new}),
           !.visited = @ \cup new,
           !.seen = @ \o SetToSeq(edges)]
  /\ UNCHANGED <<rows, built>>

\* path
StartPath(from, to) ==
  /\ built # NoGraph /\ search.query = "none"
  /\ search' = [query |-> "path", from |-> from, to |-> to, found |-> <<>>, stack |-> <<<<>>>>]
  /\ UNCHANGED <<rows, built>>

EndOf(walk) == IF walk = <<>> THEN search.from ELSE Last(walk).to

\* A longer walk meets a node twice.
Longest == Cardinality({n.id : n \in built.nodes} \cup {search.from})

\* Mutant: edges to nodes that a path was already found through are left out.
OnwardOnce(walk) ==
  {e \in Out(EndOf(walk)) :
     \A i \in DOMAIN search.found : \A j \in 1 .. Len(search.found[i]) - 1 : search.found[i][j].to # e.to}

Onward(walk) == Out(EndOf(walk))

\* The loop is followed until a walk is longer than Longest; the code has no such end.
ExtendPath ==
  /\ search.query = "path" /\ search.stack # <<>>
  /\ LET walk == Last(search.stack)
     IN  /\ Len(walk) <= Longest
         /\ IF EndOf(walk) = search.to
            THEN search' = [search EXCEPT !.stack = Front(@), !.found = Append(@, walk)]
            ELSE search' = [search EXCEPT
                   !.stack = Front(@) \o SetToSeq({Append(walk, e) : e \in Onward(walk)})]
  /\ UNCHANGED <<rows, built>>

\* Queries are about ids of nodes or ids that have none.
KnownIds == Ids \cup {n.id : n \in built.nodes}

GNext ==
  \/ \E t \in Tables, id \in Ids, links \in SUBSET Ids : AddRow(t, id, links)
  \/ BuildGraph
  \/ \E id \in KnownIds : StartNeighbors(id)
  \/ VisitNext
  \/ \E from, to \in KnownIds : StartPath(from, to)
  \/ ExtendPath

GSpec == GInit /\ [][GNext]_gvars

-----------------------------------------------------------------------------
\* What can be reached from some ids in d links, without going on from `closed`.
Within(ids, closed, most) ==
  LET within[d \in 0 .. most] ==
        IF d = 0 THEN ids
        ELSE within[d - 1] \cup {e.to : e \in {e \in built.edges : e.from \in within[d - 1] \ closed}}
  IN  within

\* neighborsOf ends with the nodes at most MaxDepth links away, every one of them
\* in the graph, and with every edge that leaves a node less far away, once.
NeighborsExact ==
  search.query = "neighbors" /\ search.queue = <<>> =>
    LET within == Within({search.from}, {}, MaxDepth)
        passed == {e \in built.edges : e.from \in within[MaxDepth - 1]}
    IN  /\ search.visited = within[MaxDepth]
        /\ search.visited \ {search.from} \subseteq {n.id : n \in built.nodes}
        /\ Range(search.seen) = passed /\ Len(search.seen) = Cardinality(passed)

\* What can be reached without passing toId.
Reach(ids) == Within(ids, {search.to}, Longest)[Longest]

\* path() can go round for ever without passing toId.
Cyclic ==
  \E id \in Reach({search.from}) \ {search.to} :
    id \in Reach({e.to : e \in Out(id)})

\* The walks of at most Longest edges that do not pass toId.
Walks ==
  LET walks[n \in 0 .. Longest] ==
        IF n = 0 THEN {<<>>}
        ELSE UNION {{Append(w, e) : e \in Out(EndOf(w))} : w \in {v \in walks[n - 1] : EndOf(v) # search.to}}
  IN  UNION {walks[n] : n \in 0 .. Longest}

\* path() returns, each once, all walks that reach toId for the first time at their
\* end, however they share nodes and whatever edges are doubled.  It returns unless
\* a cycle can be reached without passing toId, and then it never does.
PathsComplete ==
  search.query = "path" =>
    IF search.stack = <<>>
    THEN LET paths == {w \in Walks : EndOf(w) = search.to}
         IN  /\ ~ Cyclic
             /\ Range(search.found) = paths /\ Len(search.found) = Cardinality(paths)
    ELSE Len(Last(search.stack)) > Longest => Cyclic
=============================================================================
